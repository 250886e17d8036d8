--------------------------- MODULE MCControllerPak ---------------------------
(***************************************************************************)
(* ControllerPak with two ports, two blocks and two block contents.        *)
(***************************************************************************)
EXTENDS ControllerPak

MCBlocks == {1, 2}
MCBytes == {0, 1}
MCFormatted == [b \in MCBlocks |-> 0]
MCOpenFaults == {"open"}
MCWriteFaults == {"write"}
MCReadFaults == {"read"}
=============================================================================
