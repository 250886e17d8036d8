------------------------------ MODULE PakStore ------------------------------
(***************************************************************************)
(* What include/hh/controller_pak.h promises the joybus layer: every port  *)
(* holds one 32 KiB image, a read returns what was last written, and an    *)
(* image that has been persisted survives the end of the process.  Loading *)
(* on first touch, the file and the periodic flush are invisible here.     *)
(***************************************************************************)
CONSTANTS
  Ports,      \* the four controller ports
  Blocks,     \* block numbers of one pak, 0 .. kBlockCount - 1
  Bytes,      \* contents of one 32-byte block
  NoReply     \* nothing has been read yet

Images == [Blocks -> Bytes]

VARIABLES
  image,   \* image[p]: what the game sees in port p
  safe,    \* ports whose image the end of the process cannot change
  reply    \* what the last read returned

vars == <<image, safe, reply>>

Init ==
  /\ image \in [Ports -> Images]
  /\ safe = Ports
  /\ reply = NoReply

ReadBlock(p, b) ==
  /\ reply' = image[p][b]
  /\ UNCHANGED <<image, safe>>

\* Writing the bytes a block already holds leaves a safe port safe.
WriteBlock(p, b, d) ==
  /\ image' = [image EXCEPT ![p][b] = d]
  /\ safe' = IF image[p][b] = d THEN safe ELSE safe \ {p}
  /\ UNCHANGED reply

Persist(p) ==
  /\ safe' = safe \cup {p}
  /\ UNCHANGED <<image, reply>>

\* The process ends and starts again: nothing is promised of an unsafe port.
Restart ==
  /\ image' \in [Ports -> Images]
  /\ \A p \in safe : image'[p] = image[p]
  /\ safe' = Ports
  /\ UNCHANGED reply

Next ==
  \/ \E p \in Ports, b \in Blocks : ReadBlock(p, b)
  \/ \E p \in Ports, b \in Blocks, d \in Bytes : WriteBlock(p, b, d)
  \/ \E p \in Ports : Persist(p)
  \/ Restart

Spec == Init /\ [][Next]_vars
=============================================================================
