------------------------------ MODULE MCSiPak ------------------------------
(***************************************************************************)
(* SiPak with the two ports the game has players on: port 0 presents a     *)
(* pak, port 1 is a controller with an empty slot.  The paks start blank:  *)
(* no property depends on what was in them.                                *)
(***************************************************************************)
EXTENDS SiPak

MCPorts == {0, 1}
MCBytes == {0, 1}

Blank == [p \in Ports |-> [b \in Blocks |-> 0]]
MCInit == Init /\ image = Blank
MCSpec == MCInit /\ [][Next]_vars /\ Fairness
=============================================================================
