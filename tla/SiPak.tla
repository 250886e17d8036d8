------------------------------- MODULE SiPak -------------------------------
(***************************************************************************)
(* src/si_pak.cpp: the joybus wire between the game's own Controller Pak   *)
(* and motor code and the pak store.  The port serves a Controller Pak and *)
(* a Rumble Pak on one slot; they meet in the identify register.           *)
(*                                                                         *)
(* The game's side is external: the probes, checks and accesses of its     *)
(* recompiled libultra are scripts of transactions (GAME-INTERNALS.md,     *)
(* "Saves"; findings/phase-05.md).  Each transaction takes the SI          *)
(* semaphore, packs a frame, does a write and a read transfer, and waits   *)
(* for a completion after each.  The game runs one script per port at a    *)
(* time; scripts on different ports interleave.                            *)
(***************************************************************************)
EXTENDS Naturals, Sequences, FiniteSetsExt

CONSTANTS
  Ports,     \* the channels the game uses
  Bytes,     \* contents of a block
  Pattern,   \* what the pak check writes to block 0
  NoReply,
  Free       \* nobody holds the SI semaphore

kBlockDetect == 1024   \* 0x400
kBlockMotor == 1536    \* 0x600
kRumbleIdentify == 128
DataBlock == kBlockDetect - 1   \* the last block of storage stands for the notes
Blocks == {0, DataBlock}
Banks == {0, 128, 132, 254}     \* what the game writes to the identify register

ASSUME SiPakAssumption ==
  /\ Ports \subseteq 0 .. 3
  /\ Pattern \in Bytes
  /\ NoReply \notin Bytes \cup Banks \cup {1}
  /\ Free \notin Ports

VARIABLES
  rumble,       \* rumble_pak_enabled(): HH_NO_RUMBLE_PAK, read once
  cell,         \* cell[p]: last byte of g_detect_cell[p]
  motor,        \* ports whose motor runs
  image,        \* image[p]: the pak in port p, as PakStore has it
  touched,      \* ports with g_loaded: their .pak file is read or created
  completions,  \* messages in the game's SI queue
  pif,          \* the game's PIF buffer
  sem,          \* holder of the SI semaphore
  game,         \* game[p]: script, step, phase and verdict of port p
  found,        \* ports on which the game has found a Controller Pak
  motorized,    \* ports with D_80037780 set: the game has found a motor
  wrote,        \* wrote[p]: what the game last saved on p
  shaking       \* ports on which the game wants the motor to run

device == <<cell, motor, image, touched>>
wire == <<completions, pif, sem>>
player == <<found, motorized, wrote, shaking>>
vars == <<rumble, device, wire, game, player>>

present(p) == p = 0

-----------------------------------------------------------------------------
\* The game's scripts.
Status == [cmd |-> "status", block |-> 0, data |-> NoReply]
Rd(b) == [cmd |-> "read", block |-> b, data |-> NoReply]
Wr(b, d) == [cmd |-> "write", block |-> b, data |-> d]
Probe(id) == <<Wr(kBlockDetect, 254), Rd(kBlockDetect),
               Wr(kBlockDetect, id), Rd(kBlockDetect)>>

Accesses == {<<"load">>, <<"start">>, <<"stop">>} \cup {<<"save", d>> : d \in Bytes}
Scripts == {<<"check">>, <<"motor">>, <<"gbpak">>} \cup Accesses

Script(s) ==
  CASE s[1] = "check" -> <<Status, Wr(kBlockDetect, 0), Rd(kBlockDetect),
                           Wr(0, Pattern), Rd(0)>>
    [] s[1] = "motor" -> Probe(128) \o <<Wr(kBlockMotor, 0)>>
    [] s[1] = "gbpak" -> Probe(132)
    [] s[1] = "start" -> <<Wr(kBlockMotor, 1)>>
    [] s[1] = "stop" -> <<Wr(kBlockMotor, 0)>>
    [] s[1] = "load" -> <<Rd(DataBlock)>>
    [] s[1] = "save" -> <<Wr(DataBlock, s[2])>>

\* The answers on which a script gives up: an empty slot, 0xFE read back, the
\* identification or the test pattern not read back, no answer.
Refused(s, step, answer) ==
  LET request == Script(s)[step]
  IN \/ request.cmd # "write" /\ answer = NoReply
     \/ request.cmd = "status" /\ answer = 0
     \/ s[1] \in {"motor", "gbpak"} /\ step = 2 /\ answer = 254
     \/ step > 2 /\ request.cmd = "read" /\ answer # Script(s)[step - 1].data

Resting == [script |-> <<"none">>, step |-> 0, phase |-> "rest", verdict |-> NoReply]

-----------------------------------------------------------------------------
\* What a frame looks like: one zero byte per channel before the block, then
\* the short status block or the long block with its dummy byte.
Header(cmd) == CASE cmd = "status" -> <<1, 3, 0>>
                 [] cmd = "read" -> <<255, 3, 33, 2>>
                 [] cmd = "write" -> <<255, 35, 1, 3>>

Pack(p, request) ==
  [bytes |-> [i \in 1 .. p |-> 0] \o Header(request.cmd),
   block |-> request.block, data |-> request.data, answer |-> NoReply]

NoFrame == [bytes |-> <<>>, block |-> 0, data |-> NoReply, answer |-> NoReply]

Init ==
  /\ rumble \in BOOLEAN
  /\ cell = [p \in Ports |-> 0]
  /\ motor = {}
  /\ image \in [Ports -> [Blocks -> Bytes]]
  /\ touched = {}
  /\ completions = 0
  /\ pif = NoFrame
  /\ sem = Free
  /\ game = [p \in Ports |-> Resting]
  /\ found = {}
  /\ motorized = {}
  /\ wrote = [p \in Ports |-> NoReply]
  /\ shaking = {}

-----------------------------------------------------------------------------
\* The command of a block, if it is one of the three shapes.
Match(bytes) == {cmd \in {"status", "read", "write"} : bytes = Header(cmd)}

Skips(bytes, c) == \A i \in 1 .. c : i \in DOMAIN bytes /\ bytes[i] = 0
After(bytes, c) == SubSeq(bytes, c + 1, Len(bytes))

\* service_frame's search: the channels where a block is recognised.
Channels(bytes) ==
  {c \in 0 .. 3 : Skips(bytes, c) /\ Match(After(bytes, c)) # {}}

handle_status_AllPorts(p) ==   \* mutant: every controller has a card
  /\ pif' = [pif EXCEPT !.answer = 1]
  /\ UNCHANGED device

\* Bit 0 of the status byte: an accessory is in the slot.
handle_status(p) ==
  /\ pif' = [pif EXCEPT !.answer = IF present(p) THEN 1 ELSE 0]
  /\ UNCHANGED device

Identify_Echo(p) == cell[p]   \* mutant: Rayman 2's register, no Rumble Pak

\* The identify register, read: bank numbers come back, and a Rumble Pak's
\* identification for anything with bit 7 set.
Identify(p) == IF rumble /\ present(p) /\ cell[p] >= kRumbleIdentify
                 THEN kRumbleIdentify ELSE cell[p]

IsStorage_Short(b) == b < kBlockDetect - 1   \* mutant: off by one
IsStorage(b) == b < kBlockDetect

MotorAfter_Latches(p, d) == motor \cup {p}   \* mutant: any write starts it

\* set_pak_rumble
MotorAfter(p, d) == IF d # 0 THEN motor \cup {p} ELSE motor \ {p}

ReadPak(p, b) ==
  IF IsStorage(b)
    THEN /\ pif' = [pif EXCEPT !.answer = image[p][b]]
         /\ touched' = touched \cup {p}
         /\ UNCHANGED <<cell, motor, image>>
    ELSE /\ pif' = [pif EXCEPT !.answer = IF b = kBlockDetect THEN Identify(p) ELSE 0]
         /\ UNCHANGED device

WritePak(p, b, d) ==
  /\ IF IsStorage(b)
       THEN image' = [image EXCEPT ![p][b] = d] /\ touched' = touched \cup {p}
       ELSE UNCHANGED <<image, touched>>
  /\ cell' = IF b = kBlockDetect THEN [cell EXCEPT ![p] = d] ELSE cell
  /\ motor' = IF b = kBlockMotor /\ rumble /\ present(p) THEN MotorAfter(p, d) ELSE motor
  /\ UNCHANGED pif

\* A frame nobody recognises stays as it is.
service_frame ==
  IF Channels(pif.bytes) = {}
    THEN UNCHANGED <<pif, device>>
    ELSE LET c == Min(Channels(pif.bytes))
             cmd == CHOOSE x \in Match(After(pif.bytes, c)) : TRUE
         IN CASE cmd = "status" -> handle_status(c)
              [] cmd = "read" -> ReadPak(c, pif.block)
              [] cmd = "write" -> WritePak(c, pif.block, pif.data)

StartDma_ReadOnly(direction) ==   \* mutant: no completion on the write half
  IF direction = "read" THEN service_frame /\ completions' = completions + 1
                        ELSE UNCHANGED <<pif, device, completions>>

StartDma_Twice(direction) ==   \* mutant: the service posts one of its own
  IF direction = "read" THEN service_frame /\ completions' = completions + 2
                        ELSE completions' = completions + 1 /\ UNCHANGED <<pif, device>>

\* __osSiRawStartDma_recomp: served on the read half, completed on both.
StartDma(direction) ==
  /\ IF direction = "read" THEN service_frame ELSE UNCHANGED <<pif, device>>
  /\ completions' = completions + 1

-----------------------------------------------------------------------------
\* The game reads and writes notes after a check found the pak, and drives the
\* motor after a probe found one.
Begin(p, s) ==
  /\ game[p] = Resting
  /\ s[1] \in {"load", "save"} => p \in found
  /\ s[1] \in {"start", "stop"} => p \in motorized
  /\ game' = [game EXCEPT ![p] = [script |-> s, step |-> 1, phase |-> "want",
                                  verdict |-> NoReply]]
  /\ UNCHANGED <<rumble, device, wire, player>>

To(p, phase) == game' = [game EXCEPT ![p].phase = phase]

GetAccess(p) ==
  /\ game[p].phase = "want"
  /\ sem = Free
  /\ sem' = p
  /\ pif' = Pack(p, Script(game[p].script)[game[p].step])
  /\ To(p, "packed")
  /\ UNCHANGED <<rumble, device, completions, player>>

Transfer(p, from, direction, to) ==
  /\ game[p].phase = from
  /\ StartDma(direction)
  /\ To(p, to)
  /\ UNCHANGED <<rumble, sem, player>>

WriteHalf(p) == Transfer(p, "packed", "write", "sent")
ReadHalf(p) == Transfer(p, "written", "read", "asked")

WriteDone(p) ==
  /\ game[p].phase = "sent"
  /\ completions > 0
  /\ completions' = completions - 1
  /\ To(p, "written")
  /\ UNCHANGED <<rumble, device, pif, sem, player>>

\* The reply is taken out of the buffer, and the semaphore is released.
ReadDone(p) ==
  /\ game[p].phase = "asked"
  /\ completions > 0
  /\ completions' = completions - 1
  /\ sem' = Free
  /\ LET s == game[p].script
         k == game[p].step
     IN game' = [game EXCEPT ![p] =
          IF Refused(s, k, pif.answer)
            THEN [@ EXCEPT !.phase = "done", !.verdict = FALSE]
          ELSE IF k < Len(Script(s))
            THEN [@ EXCEPT !.phase = "want", !.step = k + 1]
          ELSE [@ EXCEPT !.phase = "done",
                         !.verdict = IF s[1] = "load" THEN pif.answer ELSE TRUE]]
  /\ UNCHANGED <<rumble, device, pif, player>>

\* What the game makes of the verdict.
Conclude(p) ==
  /\ game[p].phase = "done"
  /\ LET s == game[p].script
         yes == game[p].verdict = TRUE
     IN /\ found' = IF s[1] # "check" THEN found
                    ELSE IF yes THEN found \cup {p} ELSE found \ {p}
        /\ motorized' = IF s[1] = "motor" /\ yes THEN motorized \cup {p} ELSE motorized
        /\ wrote' = IF s[1] = "save" THEN [wrote EXCEPT ![p] = s[2]] ELSE wrote
        /\ shaking' = IF s[1] = "start" THEN shaking \cup {p}
                      ELSE IF s[1] = "stop" \/ (s[1] = "motor" /\ yes) THEN shaking \ {p}
                      ELSE shaking
  /\ game' = [game EXCEPT ![p] = Resting]
  /\ UNCHANGED <<rumble, device, wire>>

\* The window loses the focus with Mute When Not In Focus on: update_gfx stops
\* the motor of port 0.
Unfocus ==
  /\ motor' = motor \ {0}
  /\ UNCHANGED <<rumble, cell, image, touched, wire, game, player>>

ClientStep(p) ==
  GetAccess(p) \/ WriteHalf(p) \/ WriteDone(p) \/ ReadHalf(p) \/ ReadDone(p) \/ Conclude(p)

Next ==
  \/ \E p \in Ports, s \in Scripts : Begin(p, s)
  \/ \E p \in Ports : ClientStep(p)
  \/ Unfocus

\* A thread in a transfer keeps running, and one that waits for the semaphore
\* gets it in the end (osRecvMesg wakes waiters in order).
Fairness == \A p \in Ports : SF_vars(ClientStep(p))

Spec == Init /\ [][Next]_vars
FairSpec == Spec /\ Fairness

-----------------------------------------------------------------------------
\* Every variable stays in its range; in particular no completion is left in
\* the queue for a transfer that has not been started.
TypeOK ==
  /\ rumble \in BOOLEAN
  /\ cell \in [Ports -> Banks]
  /\ motor \subseteq Ports
  /\ image \in [Ports -> [Blocks -> Bytes]]
  /\ touched \subseteq Ports
  /\ completions \in {0, 1}
  /\ sem \in Ports \cup {Free}
  /\ \A p \in Ports :
       /\ game[p].script \in Scripts \cup {<<"none">>}
       /\ game[p].phase \in {"rest", "want", "packed", "sent", "written", "asked", "done"}
       /\ game[p].phase \in {"packed", "sent", "written", "asked"} <=> sem = p
  /\ completions = 1 => sem # Free /\ game[sem].phase \in {"sent", "asked"}
  /\ found \subseteq Ports
  /\ motorized \subseteq Ports
  /\ wrote \in [Ports -> Bytes \cup {NoReply}]
  /\ shaking \subseteq Ports

Concludes(p, what) == game[p].phase = "done" /\ game[p].script[1] = what

\* Whatever was written to the identify register before, and whatever the
\* other ports do, each probe ends with the answer the slot should give: a
\* Controller Pak and, unless it is turned off, a Rumble Pak on port 1, and
\* never a Transfer Pak (si_pak.cpp:132-154; with the game's classifier
\* patched these are the answers saving and rumble need).
VerdictsRight ==
  \A p \in Ports :
     /\ Concludes(p, "check") => game[p].verdict = present(p)
     /\ Concludes(p, "motor") => game[p].verdict = (rumble /\ present(p))
     /\ Concludes(p, "gbpak") => game[p].verdict = FALSE

\* The game reads back what it saved last, with probes, checks and the other
\* ports' transactions in between.
LoadsSeeSaves ==
  \A p \in Ports :
     Concludes(p, "load") /\ wrote[p] # NoReply => game[p].verdict = wrote[p]

\* No .pak file is read or created for a slot that presents no pak: the store
\* would serve it (si_pak.cpp:155-162), but the status query keeps the game
\* away.
EmptySlotsUntouched == \A p \in touched : present(p)

\* Between the game's own starts and stops the motor runs only where the game
\* wants it to, and a motor probe leaves it stopped.
MotorFollowsGame ==
  \A p \in motor :
     p \in shaking \/ game[p].script[1] \in {"start", "motor"}

\* A transaction the game starts comes to an end: no transfer waits for a
\* completion that is not posted (si_pak.cpp:276-279).
ScriptsEnd == \A p \in Ports : game[p].phase = "want" ~> game[p].phase = "rest"
=============================================================================
