-------------------------- MODULE AudioTaskProofs --------------------------
(***************************************************************************)
(* Proofs about AudioTask, for any lengths of command lists, any size of   *)
(* the private copy, and any bound on lists, queue and what commands do.   *)
(***************************************************************************)
EXTENDS AudioTask, SequenceTheorems, TLAPS

\* The list of a task still stands in its buffer as the game wrote it.
Intact(q) == \A i \in 1 .. q.size : list[Buffer(q.frame)][i].frame = q.frame

\* What the game owes the tasks that wait: it writes in a buffer no task that
\* has not begun still needs, and what it submits is written in full.
BufferInv ==
  /\ \A i \in DOMAIN queue : queue[i] # None => Intact(queue[i])
  /\ rsp = "copy" => Intact(task)
  /\ writing # None =>
       /\ Begun(newest)
       /\ writing.next <= writing.size
       /\ \A i \in 1 .. writing.next - 1 : list[Buffer(newest)][i].frame = newest

\* Both pointers name the copy, if it was made, and what has run is of it.
RunInv ==
  /\ rsp # "idle" => task # None /\ Len(ran) <= task.size
  /\ rsp \in {"idle", "copy", "arm"} => ran = <<>>
  /\ rsp \notin {"idle", "copy"} =>
       /\ dmem = Copied /\ retry = Copied
       /\ Fits => \A i \in 1 .. task.size : scratch[i].frame = task.frame
  /\ Fits => \A i \in DOMAIN ran : ran[i] = scratch[i]

Culprit(cells) == \E i \in DOMAIN cells : cells[i].kind # "sound"

\* A search is of a run that failed of its state or met a command that is not
\* sound, and has passed over the sound ones before its prefix.
SearchInv ==
  /\ rsp \in {"idle", "copy", "arm", "run", "hung"} => prefix = 0
  /\ rsp = "disarm" => prefix \in {0, 1}
  /\ rsp \in {"search", "stuck"} => prefix \in 1 .. task.size
  /\ prefix > 0 => "run" \in ofState \/ Culprit(ran)
  /\ rsp = "search" /\ Fits => \A i \in 1 .. prefix - 1 : scratch[i].kind = "sound"
  /\ BlamesFirst

\* A deadline belongs to the run that armed it, and only the alarm of a run
\* before that one can meet it with the watch thread awake.
WatchInv ==
  /\ deadline # "none" => rsp \in {"run", "hung", "disarm"}
  /\ deadline = "passed" => outlasted
  /\ ~stale =>
       /\ watch # "asleep" \/ alarms > 0 => outlasted
       /\ deadline # "none" \/ watch # "asleep" => alarms = 0
       /\ watch = "report" => deadline = "none"
       /\ alarms <= 1

IInv == TypeOK /\ BufferInv /\ RunInv /\ SearchInv /\ WatchInv

-----------------------------------------------------------------------------
LEMMA NextCases ==
  ASSUME Next
  PROVE  \/ \E size \in Sizes, contents \in Contents : BeginList(size, contents)
         \/ WriteCommand \/ SubmitOther
         \/ Dispatch \/ Copy \/ Arm \/ Execute \/ Finish \/ Fail \/ Disarm \/ Rerun \/ Complete
         \/ Hang \/ HangSearch \/ Tick \/ Look \/ Claim \/ Report
  BY DEF Next, Game, Rsp, Spins, Watch

\* Places are numbered to the greatest length.
LEMMA PlacesBound ==
  /\ Largest \in Nat \ {0} /\ Largest \in Sizes
  /\ \A n \in Sizes : n \in Nat \ {0} /\ n <= Largest
  BY AudioTaskAssumption

LEMMA BufferTypes ==
  ASSUME NEW f \in Frames
  PROVE  Buffer(f) \in {0, 1}
  BY AudioTaskAssumption DEF Frames, Buffer

\* The command the microcode fetches is one of the copy or of the buffer.
LEMMA CommandTypes ==
  ASSUME TypeOK, RunInv, rsp \notin {"idle", "copy"}, NEW i \in 1 .. task.size
  PROVE  /\ task \in Task /\ task.size \in Nat \ {0} /\ task.size <= Largest
         /\ i \in Places
         /\ \A place \in {dmem, retry} :
              /\ Commands(place)[i] \in Cells
              /\ Commands(place) \in Seq(Cells) /\ task.size <= Len(Commands(place))
              /\ Fits => Commands(place) = scratch
<1>1. task \in Task /\ task.size \in Sizes
  BY DEF TypeOK, RunInv, Task
<1>2. task.size \in Nat \ {0} /\ task.size <= Largest /\ Largest \in Nat
  BY <1>1, PlacesBound
<1>3. i \in Places
  BY <1>2 DEF Places
<1>4. /\ list[Buffer(task.frame)] \in Seq(Cells)
      /\ Len(list[Buffer(task.frame)]) = Largest
  <2>1. list[Buffer(task.frame)] \in [1 .. Largest -> Cells]
    BY <1>1, BufferTypes DEF TypeOK, Task, Places
  <2>. QED
    BY <1>2, <2>1
<1>5. scratch \in Seq(Cells) /\ Len(scratch) = ScratchSize
  BY AudioTaskAssumption DEF TypeOK
<1>6. dmem = Copied /\ retry = Copied
  BY DEF RunInv
<1>7. CASE task.size <= ScratchSize
  <2>1. Commands(Copied) = scratch
    BY <1>7 DEF Commands, Copied
  <2>. QED
    BY <1>1, <1>2, <1>3, <1>5, <1>6, <1>7, <2>1, AudioTaskAssumption
<1>8. CASE ~(task.size <= ScratchSize)
  <2>1. Commands(Copied) = list[Buffer(task.frame)] /\ ~Fits
    BY <1>8 DEF Commands, Copied, Fits
  <2>. QED
    BY <1>1, <1>2, <1>3, <1>4, <1>6, <2>1
<1>. QED
  BY <1>7, <1>8

-----------------------------------------------------------------------------
\* Types, one group of variables after the other.  The game's:
LEMMA GameTypes ==
  ASSUME IInv, Next
  PROVE  /\ list' \in [{0, 1} -> [Places -> Cells]]
         /\ writing' \in [size : Sizes, next : Places, holds : Contents] \cup {None}
         /\ newest' \in Frames
         /\ queue' \in Seq(Task \cup {None}) /\ Len(queue') <= QueueMax
<1>. USE DEF IInv, TypeOK
<1>1. CASE \E size \in Sizes, contents \in Contents : BeginList(size, contents)
  <2>1. 1 \in Places
    BY PlacesBound DEF Places
  <2>2. newest + 1 <= Lists => newest + 1 \in Frames
    BY AudioTaskAssumption DEF Frames
  <2>. QED
    BY <1>1, <2>1, <2>2 DEF BeginList
<1>2. CASE WriteCommand
  <2>1. /\ writing.size \in Sizes /\ writing.next \in Places /\ writing.holds \in Contents
        /\ Buffer(newest) \in {0, 1}
    BY <1>2, BufferTypes DEF WriteCommand
  <2>2. list' \in [{0, 1} -> [Places -> Cells]]
    <3>1. [frame |-> newest, kind |-> writing.holds[writing.next]] \in Cells
      BY <2>1, AudioTaskAssumption DEF Cells, Places
    <3>. QED
      BY <1>2, <2>1, <3>1 DEF WriteCommand
  <2>3. CASE writing.next < writing.size
    <3>1. writing.next + 1 \in Places
      <4>1. writing.size \in Nat /\ writing.size <= Largest /\ Largest \in Nat
        BY <2>1, PlacesBound
      <4>2. writing.next \in Nat /\ 1 <= writing.next
        BY <2>1, <4>1 DEF Places
      <4>. QED
        BY <2>3, <4>1, <4>2 DEF Places
    <3>2. /\ queue' = queue
          /\ writing' = [writing EXCEPT !.next = writing.next + 1]
      BY <1>2, <2>1, <2>3, PlacesBound DEF WriteCommand, Places
    <3>. QED
      BY <1>2, <2>2, <3>1, <3>2 DEF WriteCommand
  <2>4. CASE writing.next = writing.size
    <3>1. /\ Len(queue) < QueueMax /\ writing' = None
          /\ queue' = Append(queue, [frame |-> newest, size |-> writing.size])
      BY <1>2, <2>1, <2>4, PlacesBound DEF WriteCommand, Places
    <3>2. [frame |-> newest, size |-> writing.size] \in Task
      BY <2>1 DEF Task
    <3>. QED
      BY <1>2, <2>2, <3>1, <3>2, AudioTaskAssumption DEF WriteCommand
  <2>. QED
    BY <1>2, <2>3, <2>4 DEF WriteCommand
<1>3. CASE SubmitOther
  BY <1>3, AudioTaskAssumption DEF SubmitOther, gameVars
<1>4. CASE Dispatch
  <2>1. Tail(queue) \in Seq(Task \cup {None}) /\ Len(Tail(queue)) = Len(queue) - 1
    BY <1>4 DEF Dispatch
  <2>. QED
    BY <1>4, <2>1, AudioTaskAssumption DEF Dispatch, gameVars
<1>5. CASE \/ Copy \/ Arm \/ Execute \/ Finish \/ Fail \/ Disarm \/ Rerun \/ Complete
           \/ Hang \/ HangSearch \/ Tick \/ Look \/ Claim \/ Report
  <2>1. UNCHANGED <<gameVars, queue>>
    BY <1>5 DEF Copy, Arm, Execute, Finish, Fail, Disarm, Rerun, Complete, Hang, HangSearch,
                Tick, Look, Claim, Report
  <2>. QED
    BY <2>1 DEF gameVars
<1>. QED
  BY <1>1, <1>2, <1>3, <1>4, <1>5, NextCases

\* ... those of the task and its run ...
LEMMA TaskTypes ==
  ASSUME IInv, Next
  PROVE  /\ task' \in Task \cup {None}
         /\ scratch' \in [1 .. ScratchSize -> Cells]
         /\ {dmem', retry'} \subseteq {"game", "scratch"}
         /\ rsp' \in {"idle", "copy", "arm", "run", "hung", "disarm", "search", "stuck", "complete"}
<1>. USE DEF IInv, TypeOK
<1>1. CASE Dispatch
  BY <1>1 DEF Dispatch, taskVars
<1>2. CASE Copy
  <2>1. task \in Task /\ Buffer(task.frame) \in {0, 1} /\ task.size \in Nat
        /\ \A i \in 1 .. task.size : i \in Places
    <3>1. task \in Task /\ task.size \in Sizes
      BY <1>2 DEF Copy, RunInv, Task
    <3>2. task.size \in Nat /\ task.size <= Largest /\ Largest \in Nat
      BY <3>1, PlacesBound
    <3>3. \A i \in 1 .. task.size : i \in Places
      BY <3>2 DEF Places
    <3>4. Buffer(task.frame) \in {0, 1}
      BY <3>1, BufferTypes DEF Task
    <3>. QED
      BY <3>1, <3>2, <3>3, <3>4
  <2>2. \A i \in 1 .. ScratchSize : i <= task.size => list[Buffer(task.frame)][i] \in Cells
    BY <2>1, AudioTaskAssumption
  <2>3. scratch' \in [1 .. ScratchSize -> Cells]
    BY <1>2, <2>2 DEF Copy
  <2>. QED
    BY <1>2, <2>3 DEF Copy, Redirect, RetryWith, Copied
<1>3. CASE Arm \/ Finish \/ Fail \/ Disarm \/ Rerun \/ Complete \/ Hang \/ HangSearch
  BY <1>3 DEF Arm, Finish, Fail, Disarm, Rerun, Complete, Hang, HangSearch, Reported, taskVars
<1>4. CASE \/ \E size \in Sizes, contents \in Contents : BeginList(size, contents)
           \/ WriteCommand \/ SubmitOther \/ Execute \/ Tick \/ Look \/ Claim \/ Report
  <2>1. UNCHANGED <<taskVars, rsp>>
    BY <1>4 DEF BeginList, WriteCommand, SubmitOther, Execute, Tick, Look, Claim, Report
  <2>. QED
    BY <2>1 DEF taskVars
<1>. QED
  BY <1>1, <1>2, <1>3, <1>4, NextCases

\* ... the run's own ...
LEMMA RunTypes ==
  ASSUME IInv, Next
  PROVE  /\ ran' \in Seq(Cells) /\ Len(ran') <= Largest
         /\ prefix' \in {0} \cup Places /\ blamed' \in {0} \cup Places
         /\ ofState' \subseteq {"run", "rerun"}
<1>. USE DEF IInv, TypeOK
<1>1. CASE Execute
  <2>1. /\ task.size \in Nat \ {0} /\ task.size <= Largest
        /\ Commands(dmem)[Len(ran) + 1] \in Cells
    <3>1. rsp \notin {"idle", "copy"} /\ Len(ran) \in Nat /\ Len(ran) < task.size
      BY <1>1 DEF Execute
    <3>2. task.size \in Nat
      BY <3>1, PlacesBound DEF RunInv, Task
    <3>3. Len(ran) + 1 \in 1 .. task.size
      BY <3>1, <3>2
    <3>. QED
      BY <3>1, <3>3, CommandTypes
  <2>2. ran' = Append(ran, Commands(dmem)[Len(ran) + 1]) /\ Len(ran) < task.size
    BY <1>1 DEF Execute
  <2>3. ran' \in Seq(Cells) /\ Len(ran') = Len(ran) + 1
    BY <2>1, <2>2
  <2>. QED
    BY <1>1, <2>1, <2>2, <2>3, PlacesBound DEF Execute
<1>2. CASE Fail
  <2>1. 1 \in Places
    BY PlacesBound DEF Places
  <2>2. ofState' \subseteq {"run", "rerun"}
    BY <1>2 DEF Fail
  <2>. QED
    BY <1>2, <2>1, <2>2 DEF Fail
<1>3. CASE Disarm
  BY <1>3, PlacesBound DEF Disarm, Places
<1>4. CASE Rerun
  <2>1. prefix \in 1 .. task.size /\ task.size \in Nat /\ task.size <= Largest
    <3>1. rsp = "search" /\ prefix \in 1 .. task.size
      BY <1>4 DEF Rerun, SearchInv
    <3>. QED
      BY <3>1, CommandTypes
  <2>2. prefix # task.size => prefix + 1 \in Places
    BY <2>1, PlacesBound DEF Places
  <2>3. prefix' \in {0} \cup Places /\ blamed' \in {0} \cup Places
    BY <1>4, <2>1, <2>2 DEF Rerun
  <2>4. ofState' \subseteq {"run", "rerun"}
    BY <1>4 DEF Rerun
  <2>. QED
    BY <1>4, <2>3, <2>4 DEF Rerun
<1>5. CASE Complete
  BY <1>5, PlacesBound DEF Complete
<1>6. CASE \/ \E size \in Sizes, contents \in Contents : BeginList(size, contents)
           \/ WriteCommand \/ SubmitOther \/ Dispatch \/ Copy \/ Arm \/ Finish
           \/ Hang \/ HangSearch \/ Tick \/ Look \/ Claim \/ Report
  <2>1. UNCHANGED runVars
    BY <1>6 DEF BeginList, WriteCommand, SubmitOther, Dispatch, Copy, Arm, Finish, Hang, HangSearch,
                Tick, Look, Claim, Report
  <2>. QED
    BY <2>1 DEF runVars
<1>. QED
  BY <1>1, <1>2, <1>3, <1>4, <1>5, <1>6, NextCases

\* ... and the watch thread's, with what it may report.
LEMMA MinOfTwo ==
  ASSUME NEW n \in 0 .. 2
  PROVE  Min({n + 1, 2}) \in 0 .. 2 /\ (n = 0 => Min({n + 1, 2}) = 1)
<1>1. CASE n = 0
  <2>1. 1 \in {1, 2} /\ \A y \in {1, 2} : 1 <= y
    OBVIOUS
  <2>2. \A x \in {1, 2} : (\A y \in {1, 2} : x <= y) => x = 1
    OBVIOUS
  <2>. QED
    BY <1>1, <2>1, <2>2 DEF Min
<1>2. CASE n # 0
  <2>1. \A x \in {n + 1, 2} : (\A y \in {n + 1, 2} : x <= y) => x = 2
    BY <1>2
  <2>2. 2 \in {n + 1, 2} /\ \A y \in {n + 1, 2} : 2 <= y
    BY <1>2
  <2>3. Min({n + 1, 2}) = 2
    BY <2>1, <2>2 DEF Min
  <2>. QED
    BY <1>2, <2>3
<1>. QED
  BY <1>1, <1>2

LEMMA WatchStep ==
  ASSUME TypeOK, WatchInv, Next
  PROVE  /\ deadline' \in {"none", "set", "passed"} /\ watch' \in {"asleep", "claim", "report"}
         /\ alarms' \in 0 .. 2 /\ outlasted' \in BOOLEAN /\ stale' \in BOOLEAN
         /\ registered' \in BOOLEAN /\ sampled' \in BOOLEAN
         /\ WatchInv'
<1>. USE DEF TypeOK, WatchInv
<1>1. CASE Arm /\ registered' = TRUE /\ deadline' = "set"
  <2>1. stale' = (watch # "asleep") /\ outlasted' = FALSE /\ sampled' = FALSE
    BY <1>1 DEF Arm
  <2>2. ~stale' => watch = "asleep"
    BY <2>1
  <2>3. stale' \in BOOLEAN /\ outlasted' \in BOOLEAN /\ sampled' \in BOOLEAN
    BY <2>1, Zenon
  <2>4. alarms' = 0 /\ rsp' = "run" /\ watch' = watch
    BY <1>1 DEF Arm
  <2>5. WatchInv'
    BY <1>1, <2>1, <2>2, <2>4
  <2>6. alarms' \in 0 .. 2
    BY <2>4
  <2>7. watch' \in {"asleep", "claim", "report"}
    BY <2>4
  <2>8. registered' \in BOOLEAN
    BY <1>1, Zenon
  <2>. QED
    BY <1>1, <2>3, <2>5, <2>6, <2>7, <2>8, Zenon
<1>8. CASE Arm /\ ~registered /\ UNCHANGED watchVars
  <2>1. rsp' = "run"
    BY <1>8 DEF Arm
  <2>. QED
    BY <1>8, <2>1 DEF watchVars
<1>2. CASE Disarm
  BY <1>2 DEF Disarm, watch_done
<1>3. CASE Tick
  BY <1>3 DEF Tick
<1>4. CASE Look
  BY <1>4 DEF Look
<1>5. CASE Claim
  BY <1>5 DEF Claim, AfterClaim
<1>6. CASE Report
  <2>1. alarms' \in 0 .. 2 /\ (alarms = 0 => alarms' = 1)
    BY <1>6, MinOfTwo DEF Report
  <2>2. sampled' \in BOOLEAN
    BY <1>6, Zenon DEF Report
  <2>. QED
    BY <1>6, <2>1, <2>2 DEF Report
<1>7. CASE \/ Dispatch \/ Copy \/ Execute \/ Finish \/ Fail \/ Rerun \/ Complete \/ Hang \/ HangSearch
           \/ \E size \in Sizes, contents \in Contents : BeginList(size, contents)
           \/ WriteCommand \/ SubmitOther
  <2>1. /\ UNCHANGED watchVars
        /\ rsp \in {"run", "hung", "disarm"} => rsp' \in {"run", "hung", "disarm"}
    BY <1>7 DEF Dispatch, Copy, Execute, Finish, Fail, Rerun, Complete, Hang, HangSearch,
                BeginList, WriteCommand, SubmitOther
  <2>. QED
    BY <2>1 DEF watchVars
<1>9. Arm => \/ registered' = TRUE /\ deadline' = "set"
             \/ ~registered /\ UNCHANGED watchVars
  BY DEF Arm, watchVars
<1>. QED
  BY <1>1, <1>2, <1>3, <1>4, <1>5, <1>6, <1>7, <1>8, <1>9, NextCases

LEMMA TypeStep ==
  ASSUME IInv, Next
  PROVE  TypeOK'
  BY GameTypes, TaskTypes, RunTypes, WatchStep DEF IInv, TypeOK

-----------------------------------------------------------------------------
\* Other buffers are left alone by a command the game writes.
LEMMA OtherBuffer ==
  ASSUME TypeOK, WriteCommand, NEW q \in Task, Buffer(q.frame) # Buffer(newest)
  PROVE  Intact(q) => Intact(q)'
<1>1. Buffer(q.frame) \in {0, 1} /\ Buffer(newest) \in {0, 1}
  BY BufferTypes DEF TypeOK, Task
<1>2. list'[Buffer(q.frame)] = list[Buffer(q.frame)]
  BY <1>1 DEF TypeOK, WriteCommand
<1>. QED
  BY <1>2 DEF Intact

LEMMA BufferStep ==
  ASSUME IInv, Next
  PROVE  BufferInv'
<1>. USE DEF IInv
<1>1. CASE \E size \in Sizes, contents \in Contents : BeginList(size, contents)
  <2>1. PICK size \in Sizes, contents \in Contents : BeginList(size, contents)
    BY <1>1
  <2>2. /\ UNCHANGED <<list, queue, rsp, task>>
        /\ Begun(newest')
        /\ writing'.next = 1 /\ writing'.size = size /\ size \in Nat \ {0}
    BY <2>1, PlacesBound DEF BeginList, taskVars
  <2>. QED
    BY <2>2 DEF BufferInv, Intact, Begun
<1>2. CASE WriteCommand
  <2>1. /\ writing # None /\ writing.size \in Sizes /\ writing.next \in Places
        /\ writing.size \in Nat /\ writing.next \in Nat /\ newest' = newest
        /\ Buffer(newest) \in {0, 1} /\ newest \in Frames
        /\ UNCHANGED <<task, rsp>>
    BY <1>2, BufferTypes, PlacesBound DEF WriteCommand, TypeOK, Places, taskVars
  <2>2. \A i \in 1 .. writing.next : list'[Buffer(newest)][i].frame = newest
    <3>1. list' = [list EXCEPT ![Buffer(newest)] =
                     [list[Buffer(newest)] EXCEPT ![writing.next] =
                        [frame |-> newest, kind |-> writing.holds[writing.next]]]]
      BY <1>2 DEF WriteCommand
    <3>2. list[Buffer(newest)] \in [Places -> Cells]
      BY <2>1 DEF TypeOK
    <3>3. list'[Buffer(newest)] = [list[Buffer(newest)] EXCEPT ![writing.next] =
                                     [frame |-> newest, kind |-> writing.holds[writing.next]]]
      BY <2>1, <3>1 DEF TypeOK
    <3>4. \A i \in 1 .. writing.next - 1 : i # writing.next /\ i \in Places
                                           /\ list[Buffer(newest)][i].frame = newest
      BY <2>1, PlacesBound DEF BufferInv, Places
    <3>5. \A i \in 1 .. writing.next : i = writing.next \/ i \in 1 .. writing.next - 1
      BY <2>1
    <3>. QED
      BY <2>1, <3>2, <3>3, <3>4, <3>5
  <2>3. Begun(newest)
    BY <2>1 DEF BufferInv
  <2>4. \A q \in Task : Buffer(q.frame) # Buffer(newest) /\ Intact(q) => Intact(q)'
    BY <1>2, OtherBuffer
  <2>5. \A i \in DOMAIN queue : queue[i] # None =>
          /\ queue[i] \in Task /\ Buffer(queue[i].frame) # Buffer(newest)
          /\ \A k \in 1 .. queue[i].size : list'[Buffer(queue[i].frame)][k].frame = queue[i].frame
    <3>1. SUFFICES ASSUME NEW i \in DOMAIN queue, NEW q, q = queue[i], q # None
                   PROVE  /\ q \in Task /\ Buffer(q.frame) # Buffer(newest)
                          /\ \A k \in 1 .. q.size : list'[Buffer(q.frame)][k].frame = q.frame
      OBVIOUS
    <3>2. q \in Task /\ Buffer(q.frame) # Buffer(newest) /\ Intact(q)
      BY <2>3, <3>1 DEF Begun, BufferInv, TypeOK
    <3>. QED
      BY <2>4, <3>2 DEF Intact
  <2>6. rsp' = "copy" => Intact(task)'
    <3>1. SUFFICES ASSUME rsp = "copy" PROVE Intact(task)'
      BY <2>1
    <3>2. task \in Task /\ Buffer(task.frame) # Buffer(newest) /\ Intact(task)
      BY <2>3, <3>1 DEF Begun, BufferInv, RunInv, TypeOK
    <3>. QED
      BY <2>1, <2>4, <3>2 DEF Intact
  <2>7. CASE writing.next < writing.size
    <3>1. queue' = queue /\ writing' = [writing EXCEPT !.next = @ + 1]
      BY <1>2, <2>1, <2>7 DEF WriteCommand
    <3>2. writing'.next = writing.next + 1 /\ writing'.size = writing.size
      BY <2>1, <3>1 DEF TypeOK
    <3>3. Begun(newest)'
      BY <2>1, <2>3, <3>1 DEF Begun
    <3>4. writing'.next <= writing'.size
      BY <2>1, <2>7, <3>2
    <3>5. \A i \in 1 .. writing'.next - 1 : list'[Buffer(newest')][i].frame = newest'
      BY <2>1, <2>2, <3>2
    <3>. QED
      BY <2>5, <2>6, <3>1, <3>3, <3>4, <3>5 DEF BufferInv, Intact
  <2>8. CASE writing.next = writing.size
    <3>. DEFINE t == [frame |-> newest, size |-> writing.size]
    <3>1. writing' = None /\ queue' = Append(queue, t)
      BY <1>2, <2>1, <2>8 DEF WriteCommand
    <3>2. \A k \in 1 .. t.size : list'[Buffer(t.frame)][k].frame = t.frame
      BY <2>1, <2>2, <2>8
    <3>3. \A i \in DOMAIN queue' : (i \in DOMAIN queue /\ queue'[i] = queue[i]) \/ queue'[i] = t
      BY <3>1 DEF TypeOK
    <3>. HIDE DEF t
    <3>4. \A i \in DOMAIN queue' : queue'[i] # None =>
            \A k \in 1 .. queue'[i].size : list'[Buffer(queue'[i].frame)][k].frame = queue'[i].frame
      BY <2>5, <3>2, <3>3
    <3>. QED
      BY <2>6, <3>1, <3>4 DEF BufferInv, Intact
  <2>. QED
    BY <1>2, <2>7, <2>8 DEF WriteCommand
<1>3. CASE SubmitOther
  <2>1. queue' = <<None>> /\ rsp' = "idle" /\ writing' = None
    BY <1>3 DEF SubmitOther, gameVars
  <2>. QED
    BY <2>1 DEF BufferInv
<1>4. CASE Dispatch
  <2>1. /\ queue \in Seq(Task \cup {None}) /\ queue # <<>> /\ queue' = Tail(queue)
        /\ UNCHANGED gameVars /\ rsp # "copy"
    BY <1>4 DEF Dispatch, TypeOK
  <2>2. \A i \in DOMAIN queue' : i + 1 \in DOMAIN queue /\ queue'[i] = queue[i + 1]
    BY <2>1
  <2>3. \A i \in DOMAIN queue' : queue'[i] # None => Intact(queue'[i])
    BY <2>2 DEF BufferInv
  <2>4. \/ rsp' = rsp
        \/ task' = queue[1] /\ 1 \in DOMAIN queue /\ queue[1] # None
    BY <1>4, <2>1 DEF Dispatch
  <2>5. rsp' = "copy" => Intact(task')
    BY <2>1, <2>4 DEF BufferInv
  <2>6. writing # None => Begun(newest)'
    <3>1. SUFFICES ASSUME Begun(newest) PROVE Begun(newest)'
      BY DEF BufferInv
    <3>. QED
      BY <2>1, <2>2, <2>4, <3>1 DEF Begun, gameVars
  <2>. QED
    BY <2>1, <2>3, <2>5, <2>6 DEF BufferInv, Intact, gameVars
<1>5. CASE \/ Copy \/ Arm \/ Finish \/ Fail \/ Disarm \/ Rerun \/ Complete \/ Hang \/ HangSearch
           \/ Execute \/ Tick \/ Look \/ Claim \/ Report
  <2>1. /\ UNCHANGED <<gameVars, queue, task>>
        /\ rsp' = "copy" => rsp = "copy"
    BY <1>5 DEF Copy, Arm, Finish, Fail, Disarm, Rerun, Complete, Hang, HangSearch,
                Execute, Tick, Look, Claim, Report, Reported, taskVars
  <2>. QED
    BY <2>1 DEF BufferInv, Begun, Intact, gameVars
<1>. QED
  BY <1>1, <1>2, <1>3, <1>4, <1>5, NextCases

-----------------------------------------------------------------------------
LEMMA RunStep ==
  ASSUME IInv, Next
  PROVE  RunInv'
<1>. USE DEF IInv, RunInv
<1>1. CASE Dispatch
  <2>1. rsp = "idle" /\ ran = <<>> /\ ran' = <<>>
    BY <1>1 DEF Dispatch, runVars
  <2>2. CASE rsp' = rsp /\ UNCHANGED taskVars
    BY <2>1, <2>2 DEF taskVars, Fits
  <2>3. CASE rsp' = "copy" /\ task' = Head(queue) /\ Head(queue) # None
    <3>1. task' \in Task /\ task' # None
      BY <1>1, <2>3 DEF Dispatch, TypeOK
    <3>2. task'.size \in Nat
      BY <3>1, PlacesBound DEF Task
    <3>. QED
      BY <2>1, <2>3, <3>1, <3>2
  <2>. QED
    BY <1>1, <2>2, <2>3 DEF Dispatch
<1>2. CASE Copy
  <2>1. /\ rsp = "copy" /\ rsp' = "arm" /\ task' = task /\ ran = <<>> /\ ran' = <<>>
        /\ dmem' = Copied /\ retry' = Copied
    BY <1>2 DEF Copy, runVars, Redirect, RetryWith
  <2>2. task \in Task /\ task.size \in Nat
    BY <2>1, PlacesBound DEF TypeOK, Task
  <2>3. Fits => \A i \in 1 .. task.size : scratch'[i].frame = task.frame
    <3>1. SUFFICES ASSUME Fits, NEW i \in 1 .. task.size PROVE scratch'[i].frame = task.frame
      OBVIOUS
    <3>2. Copied = "scratch" /\ i \in DOMAIN scratch
      BY <2>2, <3>1, AudioTaskAssumption DEF Fits, Copied, TypeOK
    <3>3. scratch'[i] = list[Buffer(task.frame)][i]
      BY <1>2, <2>2, <3>2 DEF Copy
    <3>. QED
      BY <2>1, <3>3 DEF BufferInv, Intact
  <2>. QED
    BY <2>1, <2>2, <2>3 DEF Copied, Fits
<1>3. CASE Execute
  <2>1. /\ rsp = "run" /\ rsp' = "run" /\ Len(ran) < task.size
        /\ UNCHANGED taskVars /\ ran \in Seq(Cells)
        /\ ran' = Append(ran, Commands(dmem)[Len(ran) + 1])
    BY <1>3 DEF Execute, TypeOK
  <2>2. task.size \in Nat
    BY <2>1, PlacesBound DEF TypeOK, Task
  <2>3. Len(ran) + 1 \in 1 .. task.size
    BY <2>1, <2>2
  <2>4. /\ Commands(dmem)[Len(ran) + 1] \in Cells
        /\ Fits => Commands(dmem) = scratch
    BY <2>1, <2>3, CommandTypes
  <2>5. /\ Len(ran') = Len(ran) + 1 /\ DOMAIN ran' = 1 .. Len(ran) + 1
        /\ \A i \in DOMAIN ran : ran'[i] = ran[i]
        /\ ran'[Len(ran) + 1] = Commands(dmem)[Len(ran) + 1]
        /\ DOMAIN ran = 1 .. Len(ran) /\ Len(ran) \in Nat
    BY <2>1, <2>4
  <2>6. \A i \in DOMAIN ran' : i \in DOMAIN ran \/ i = Len(ran) + 1
    BY <2>5
  <2>7. Fits => \A i \in DOMAIN ran' : ran'[i] = scratch[i]
    BY <2>4, <2>5, <2>6
  <2>8. Len(ran') <= task.size
    BY <2>2, <2>3, <2>5
  <2>. QED
    BY <2>1, <2>7, <2>8 DEF taskVars, Copied, Fits
<1>4. CASE Complete
  BY <1>4 DEF Complete
<1>5. CASE \/ Arm \/ Finish \/ Fail \/ Disarm \/ Rerun \/ Hang \/ HangSearch
           \/ \E size \in Sizes, contents \in Contents : BeginList(size, contents)
           \/ WriteCommand \/ SubmitOther \/ Tick \/ Look \/ Claim \/ Report
  <2>1. /\ UNCHANGED <<taskVars, ran>>
        /\ \/ rsp' = rsp
           \/ rsp \notin {"idle", "copy"} /\ rsp' \notin {"idle", "copy", "arm"}
    BY <1>5 DEF Arm, Finish, Fail, Disarm, Rerun, Hang, HangSearch, BeginList, WriteCommand,
                SubmitOther, Tick, Look, Claim, Report, Reported, runVars
  <2>. QED
    BY <2>1 DEF taskVars, Copied, Fits
<1>. QED
  BY <1>1, <1>2, <1>3, <1>4, <1>5, NextCases

\* The heart of the search: the commands it passes over are sound; one that
\* ran is not, if its commands failed the run, so the search stops no later
\* than at that one.
LEMMA RerunStep ==
  ASSUME IInv, Rerun
  PROVE  SearchInv'
<1>. USE DEF IInv, SearchInv
<1>. DEFINE cells == SubSeq(Commands(retry), 1, prefix)
<1>1. /\ rsp = "search" /\ prefix \in 1 .. task.size
      /\ "run" \in ofState \/ Culprit(ran)
      /\ UNCHANGED <<taskVars, ran>>
  BY DEF Rerun
<1>2. /\ task.size \in Nat \ {0} /\ Commands(retry) \in Seq(Cells)
      /\ task.size <= Len(Commands(retry))
      /\ Fits => Commands(retry) = scratch
  BY <1>1, CommandTypes
<1>3. DOMAIN cells = 1 .. prefix /\ \A i \in 1 .. prefix : cells[i] = Commands(retry)[i]
  BY <1>1, <1>2
<1>4. Caught(cells) <=> \E i \in 1 .. prefix : Commands(retry)[i].kind # "sound"
  BY <1>3 DEF Caught
<1>5. "run" \in ofState => "run" \in ofState'
  BY DEF Rerun, cells
<1>6. "run" \in ofState' \/ Culprit(ran)'
  BY <1>1, <1>5 DEF Culprit
<1>7. prefix \in Nat /\ \A i \in 1 .. prefix : i = prefix \/ i \in 1 .. prefix - 1
  BY <1>1
<1>8. /\ DOMAIN ran = 1 .. Len(ran) /\ Len(ran) \in Nat /\ Len(ran) <= task.size
      /\ Fits => \A i \in DOMAIN ran : ran[i] = scratch[i]
  BY <1>1 DEF RunInv, TypeOK
\* The culprit of the commands is at the prefix or after it.
<1>9. ASSUME Fits, "run" \notin ofState
      PROVE  \E k \in DOMAIN ran : k >= prefix /\ scratch[k].kind # "sound"
  <2>1. PICK k \in DOMAIN ran : ran[k].kind # "sound"
    BY <1>1, <1>9 DEF Culprit
  <2>2. scratch[k].kind # "sound"
    BY <1>8, <1>9, <2>1
  <2>3. k \notin 1 .. prefix - 1
    BY <1>1, <1>9, <2>2
  <2>. QED
    BY <1>1, <1>8, <2>1, <2>2, <2>3
<1>10. Fits /\ ~Caught(cells) => \A i \in 1 .. prefix : scratch[i].kind = "sound"
  BY <1>2, <1>4, Zenon
<1>11. Rerun => \/ Caught(cells) /\ blamed' = prefix /\ rsp' = "complete" /\ prefix' = prefix
                \/ /\ ~Caught(cells) /\ ofState' = ofState \cup {"rerun"}
                   /\ blamed' = prefix /\ rsp' = "complete" /\ prefix' = prefix
                \/ /\ ~Caught(cells) /\ prefix < task.size
                   /\ prefix' = prefix + 1 /\ rsp' = "search"
                \/ /\ ~Caught(cells) /\ prefix = task.size /\ ofState' = ofState
                   /\ blamed' = 0 /\ rsp' = "complete" /\ prefix' = prefix
  BY DEF Rerun, Reported, cells
<1>. HIDE DEF cells
<1>12. CASE blamed' = prefix /\ rsp' = "complete" /\ prefix' = prefix
            /\ (Caught(cells) \/ "rerun" \in ofState')
  <2>1. BlamesFirst'
    <3>1. SUFFICES ASSUME Fits
                   PROVE  /\ \A i \in 1 .. prefix - 1 : scratch[i].kind = "sound"
                          /\ scratch[prefix].kind # "sound" \/ "rerun" \in ofState'
                          /\ prefix \in DOMAIN ran \/ "run" \in ofState'
      BY <1>1, <1>7, <1>12 DEF BlamesFirst, Fits, taskVars
    <3>2. \A i \in 1 .. prefix - 1 : scratch[i].kind = "sound"
      BY <1>1, <3>1
    <3>3. Caught(cells) => scratch[prefix].kind # "sound"
      <4>1. SUFFICES ASSUME Caught(cells) PROVE scratch[prefix].kind # "sound"
        OBVIOUS
      <4>2. PICK i \in 1 .. prefix : Commands(retry)[i].kind # "sound"
        BY <1>4, <4>1, Zenon
      <4>3. scratch[i].kind # "sound"
        BY <1>2, <3>1, <4>2, Zenon
      <4>4. i = prefix
        BY <1>7, <3>2, <4>3, Zenon
      <4>. QED
        BY <4>3, <4>4, Zenon
    <3>4. prefix \in DOMAIN ran \/ "run" \in ofState'
      BY <1>1, <1>5, <1>8, <1>9, <3>1
    <3>. QED
      BY <1>12, <3>2, <3>3, <3>4
  <2>. QED
    BY <1>1, <1>6, <1>12, <2>1
<1>13. CASE ~Caught(cells) /\ prefix < task.size /\ prefix' = prefix + 1 /\ rsp' = "search"
  <2>1. prefix' \in 1 .. task.size /\ prefix' - 1 = prefix
    BY <1>1, <1>2, <1>13
  <2>. QED
    BY <1>1, <1>6, <1>10, <1>13, <2>1 DEF taskVars, Fits, BlamesFirst
<1>14. CASE ~Caught(cells) /\ prefix = task.size /\ ofState' = ofState
            /\ blamed' = 0 /\ rsp' = "complete" /\ prefix' = prefix
  <2>1. BlamesFirst'
    <3>1. SUFFICES ASSUME Fits
                   PROVE  /\ \A i \in 1 .. task.size : scratch[i].kind = "sound"
                          /\ "run" \in ofState
      BY <1>1, <1>14 DEF BlamesFirst, Fits, taskVars
    <3>2. \A i \in 1 .. task.size : scratch[i].kind = "sound"
      BY <1>10, <1>14, <3>1
    <3>3. "run" \in ofState
      BY <1>2, <1>8, <1>9, <1>14, <3>1, <3>2
    <3>. QED
      BY <3>2, <3>3
  <2>. QED
    BY <1>1, <1>6, <1>14, <2>1
<1>. QED
  BY <1>11, <1>12, <1>13, <1>14

LEMMA SearchStep ==
  ASSUME IInv, Next
  PROVE  SearchInv'
<1>. USE DEF IInv, SearchInv
<1>1. CASE Rerun
  BY <1>1, RerunStep
<1>2. CASE Fail
  <2>1. "run" \in ofState' \/ Culprit(ran)
    <3>1. \/ "run" \in ofState' \/ Damaged(ran)
          \/ ran # <<>> /\ ran[Len(ran)].kind = "fails"
      BY <1>2 DEF Fail, Stopped
    <3>2. ran # <<>> => Len(ran) \in DOMAIN ran
      BY DEF TypeOK
    <3>. QED
      BY <3>1, <3>2 DEF Damaged, Culprit
  <2>. QED
    BY <1>2, <2>1 DEF Fail, Culprit, BlamesFirst
<1>3. CASE Disarm
  <2>1. /\ rsp = "disarm" /\ UNCHANGED <<taskVars, ran, ofState>>
        /\ task.size \in Nat \ {0}
    BY <1>3, PlacesBound DEF Disarm, RunInv, TypeOK, Task
  <2>2. CASE prefix = 1 /\ rsp' = "search" /\ prefix' = prefix
    <3>1. prefix' \in 1 .. task.size /\ 1 .. prefix' - 1 = {}
      BY <2>1, <2>2
    <3>. QED
      BY <2>1, <2>2, <3>1 DEF taskVars, Fits, Culprit, BlamesFirst
  <2>3. CASE prefix' = 0 /\ rsp' = "complete"
    BY <2>3 DEF BlamesFirst
  <2>. QED
    BY <1>3, <2>2, <2>3 DEF Disarm, Reported
<1>4. CASE Complete
  BY <1>4 DEF Complete, BlamesFirst
<1>5. CASE Dispatch \/ Copy \/ Arm \/ Execute \/ Hang
  <2>1. /\ prefix' = 0 /\ rsp' \in {"idle", "copy", "arm", "run", "hung"}
    BY <1>5 DEF Dispatch, Copy, Arm, Execute, Hang, runVars
  <2>. QED
    BY <2>1 DEF BlamesFirst
<1>6. CASE Finish
  BY <1>6 DEF Finish, runVars, BlamesFirst
<1>7. CASE HangSearch
  BY <1>7 DEF HangSearch, runVars, taskVars, Culprit, BlamesFirst
<1>8. CASE \/ \E size \in Sizes, contents \in Contents : BeginList(size, contents)
           \/ WriteCommand \/ SubmitOther \/ Tick \/ Look \/ Claim \/ Report
  <2>1. UNCHANGED <<taskVars, runVars, rsp>>
    BY <1>8 DEF BeginList, WriteCommand, SubmitOther, Tick, Look, Claim, Report
  <2>. QED
    BY <2>1 DEF taskVars, runVars, Fits, Culprit, BlamesFirst
<1>. QED
  BY <1>1, <1>2, <1>3, <1>4, <1>5, <1>6, <1>7, <1>8, NextCases

-----------------------------------------------------------------------------
LEMMA InitIInv ==
  ASSUME Init
  PROVE  IInv
<1>1. TypeOK
  <2>1. 0 \in Frames /\ [frame |-> 0, kind |-> "sound"] \in Cells
    BY AudioTaskAssumption DEF Frames, Cells, Kinds
  <2>2. Len(queue) <= QueueMax /\ Len(ran) <= Largest
    BY AudioTaskAssumption, PlacesBound DEF Init
  <2>3. list \in [{0, 1} -> [Places -> Cells]] /\ scratch \in [1 .. ScratchSize -> Cells]
    BY <2>1 DEF Init
  <2>4. queue \in Seq(Task \cup {None}) /\ ran \in Seq(Cells)
    BY DEF Init
  <2>5. writing = None /\ task = None /\ newest = 0 /\ prefix = 0 /\ blamed = 0 /\ ofState = {}
    BY DEF Init
  <2>6. {registered, outlasted, sampled, stale} \subseteq BOOLEAN
    BY Zenon DEF Init
  <2>8. alarms \in 0 .. 2
    BY DEF Init
  <2>7. /\ {dmem, retry} \subseteq {"game", "scratch"}
        /\ rsp = "idle" /\ deadline = "none" /\ watch = "asleep"
    BY DEF Init
  <2>. QED
    BY <2>1, <2>2, <2>3, <2>4, <2>5, <2>6, <2>7, <2>8 DEF TypeOK
<1>. QED
  BY <1>1 DEF Init, IInv, BufferInv, RunInv, SearchInv, WatchInv, BlamesFirst

LEMMA IInvStep ==
  ASSUME IInv, [Next]_vars
  PROVE  IInv'
<1>1. CASE Next
  BY <1>1, TypeStep, BufferStep, RunStep, SearchStep, WatchStep DEF IInv
<1>2. CASE UNCHANGED vars
  <2>1. UNCHANGED <<list, writing, newest, task, scratch, dmem, retry, ran, prefix, blamed,
                    ofState, deadline, watch, registered, outlasted, alarms, sampled, stale,
                    queue, rsp>>
    BY <1>2 DEF vars, gameVars, taskVars, runVars, watchVars
  <2>2. TypeOK' /\ WatchInv'
    BY <2>1 DEF IInv, TypeOK, WatchInv
  <2>. QED
    BY <2>1, <2>2 DEF IInv, BufferInv, RunInv, SearchInv, BlamesFirst, Begun, Intact,
                      Copied, Fits, Culprit
<1>. QED
  BY <1>1, <1>2

-----------------------------------------------------------------------------
\* Types: the queue, the copy and the run stay within their lengths, whatever
\* the sizes of the lists.
THEOREM TypeCorrect == Spec => []TypeOK
<1>1. IInv => TypeOK
  BY DEF IInv
<1>. QED
  BY <1>1, InitIInv, IInvStep, PTL DEF Spec

\* A list that fits the copy runs as the game wrote it for that task, though
\* the game may be writing the buffer's next list while it runs.
THEOREM RunsTheCopy == Spec => []RunsOwnCommands
<1>1. IInv => RunsOwnCommands
  <2>1. SUFFICES ASSUME IInv, Fits, NEW i \in DOMAIN ran PROVE ran[i].frame = task.frame
    BY DEF RunsOwnCommands
  <2>2. rsp \notin {"idle", "copy"}
    BY <2>1 DEF IInv, RunInv
  <2>3. ran[i] = scratch[i] /\ i \in 1 .. Len(ran) /\ Len(ran) <= task.size /\ task.size \in Nat
    <3>1. task \in Task /\ Len(ran) <= task.size /\ ran[i] = scratch[i] /\ ran \in Seq(Cells)
      BY <2>1, <2>2 DEF IInv, RunInv, TypeOK
    <3>2. task.size \in Nat
      BY <3>1, PlacesBound DEF Task
    <3>. QED
      BY <2>1, <3>1, <3>2
  <2>4. i \in 1 .. task.size
    BY <2>3
  <2>. QED
    BY <2>1, <2>2, <2>3, <2>4 DEF IInv, RunInv
<1>. QED
  BY <1>1, InitIInv, IInvStep, PTL DEF Spec

\* The search of a failed run passes over sound commands only, and the command
\* it blames is the first culprit among those that ran, unless the run or the
\* re-run failed of the state it found.
THEOREM SearchBlames == Spec => []BlamesFirst
<1>1. IInv => BlamesFirst
  BY DEF IInv, SearchInv
<1>. QED
  BY <1>1, InitIInv, IInvStep, PTL DEF Spec

\* The watch thread reports a run once, and only one that outlasted its
\* deadline.
THEOREM AlarmsHold == Spec => []AlarmsTrue
<1>1. IInv => AlarmsTrue
  BY DEF IInv, WatchInv, AlarmsTrue
<1>. QED
  BY <1>1, InitIInv, IInvStep, PTL DEF Spec
=============================================================================
