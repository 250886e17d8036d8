----------------------------- MODULE AudioTask -----------------------------
(***************************************************************************)
(* How an audio task is run (src/callbacks.cpp) and how its run is watched *)
(* (src/crash_handler.cpp).                                                *)
(*                                                                         *)
(* Three threads.  The game writes command lists into two buffers, turn by *)
(* turn, and submits them.  The RSP task thread runs each from a private   *)
(* copy, and searches a list whose run failed for the command that broke   *)
(* it.  The watch thread reports a run that outlasts its deadline.         *)
(*                                                                         *)
(* What the microcode makes of a list is abstract.  A command may damage   *)
(* the microcode's jump table, after which the run may fail at any         *)
(* command; a command may fail the run at once and leave nothing to see;   *)
(* any run may fail of the state it finds in memory, whatever its          *)
(* commands; and any run may spin forever.                                 *)
(***************************************************************************)
EXTENDS Naturals, Sequences, FiniteSetsExt

\* What a command does to a run.
Kinds == {"sound", "damages", "fails"}

CONSTANTS
  Sizes,        \* the lengths of command lists
  Largest,      \* the greatest of them: the size of the game's buffers
  ScratchSize,  \* kCommandListScratchSize, in commands
  Lists,        \* bound: lists the game writes
  QueueMax,     \* bound: tasks waiting for the RSP task thread
  Contents,     \* bound: what stands at the places of a list
  None

ASSUME AudioTaskAssumption ==
  /\ Sizes \subseteq Nat \ {0}
  /\ Largest \in Sizes /\ \A n \in Sizes : n <= Largest
  /\ ScratchSize \in Nat
  /\ Lists \in Nat /\ QueueMax \in Nat \ {0}
  /\ Contents \subseteq [1 .. Largest -> Kinds]

Frames == 0 .. Lists      \* 0 for what the buffers hold at first
Buffer(f) == f % 2
Cells == [frame : Frames, kind : Kinds]
Places == 1 .. Largest

VARIABLES
  list,      \* the game's two command list buffers
  writing,   \* the list the game is writing
  newest,    \* the frame the game wrote last or is writing
  queue,     \* tasks submitted and not yet taken by the RSP task thread
  task,      \* g_audio_task: the frame and the size of the audio task
  scratch,   \* the private copy
  dmem,      \* whose list the OSTask in DMEM points at
  retry,     \* whose list g_audio_task.t.data_ptr points at
  rsp,       \* where the RSP task thread is
  ran,       \* the commands the current run has executed
  prefix,    \* commands of the last re-run
  blamed,    \* the command the search blames, 0 for none
  registered, \* the watch thread has a handle of the RSP task thread
  deadline,  \* g_watch_deadline_ms: none, set, or set and passed
  watch,     \* where the watch thread is
  \* observers of a run
  ofState,   \* whether the run, or a re-run, failed of the state it found
  outlasted, \* its deadline passed before it was disarmed
  alarms,    \* reports since it was armed, 2 for any more
  sampled,   \* one of them was made while it hung
  stale      \* it was armed while the watch thread was at an earlier run's alarm

gameVars == <<list, writing, newest>>
taskVars == <<task, scratch, dmem, retry>>
runVars == <<ran, prefix, blamed, ofState>>
watchVars == <<deadline, watch, registered, outlasted, alarms, sampled, stale>>
vars == <<gameVars, taskVars, runVars, watchVars, queue, rsp>>

Task == [frame : Frames, size : Sizes]

TypeOK ==
  /\ list \in [{0, 1} -> [Places -> Cells]]
  /\ writing \in [size : Sizes, next : Places, holds : Contents] \cup {None}
  /\ newest \in Frames
  /\ queue \in Seq(Task \cup {None}) /\ Len(queue) <= QueueMax
  /\ task \in Task \cup {None}
  /\ scratch \in [1 .. ScratchSize -> Cells]
  /\ {dmem, retry} \subseteq {"game", "scratch"}
  /\ rsp \in {"idle", "copy", "arm", "run", "hung", "disarm", "search", "stuck", "complete"}
  /\ ran \in Seq(Cells) /\ Len(ran) <= Largest
  /\ {prefix, blamed} \subseteq {0} \cup Places
  /\ deadline \in {"none", "set", "passed"}
  /\ watch \in {"asleep", "claim", "report"}
  /\ alarms \in 0 .. 2
  /\ ofState \subseteq {"run", "rerun"}
  /\ {registered, outlasted, sampled, stale} \subseteq BOOLEAN

Init ==
  /\ list = [b \in {0, 1} |-> [i \in Places |-> [frame |-> 0, kind |-> "sound"]]]
  /\ writing = None /\ newest = 0
  /\ queue = <<>>
  /\ task = None
  /\ scratch = [i \in 1 .. ScratchSize |-> [frame |-> 0, kind |-> "sound"]]
  /\ dmem = "game" /\ retry = "game"
  /\ rsp = "idle"
  /\ ran = <<>> /\ prefix = 0 /\ blamed = 0 /\ ofState = {}
  /\ registered = FALSE
  /\ deadline = "none" /\ watch = "asleep"
  /\ outlasted = FALSE /\ alarms = 0 /\ sampled = FALSE /\ stale = FALSE

-----------------------------------------------------------------------------
\* The game.  It rewrites a buffer only after the task of the buffer's last
\* list has begun: the copy is of no use to a task that starts later than that.

Begun(f) ==
  /\ \A i \in DOMAIN queue : queue[i] # None => Buffer(queue[i].frame) # Buffer(f)
  /\ rsp = "copy" => Buffer(task.frame) # Buffer(f)

BeginList(size, contents) ==
  LET f == newest + 1 IN
  /\ writing = None /\ f <= Lists
  /\ Begun(f)
  /\ newest' = f
  /\ writing' = [size |-> size, next |-> 1, holds |-> contents]
  /\ UNCHANGED <<list, taskVars, runVars, watchVars, queue, rsp>>

WriteCommand ==
  /\ writing # None
  /\ list' = [list EXCEPT ![Buffer(newest)][writing.next] =
                [frame |-> newest, kind |-> writing.holds[writing.next]]]
  /\ \/ /\ writing.next < writing.size
        /\ writing' = [writing EXCEPT !.next = @ + 1]
        /\ UNCHANGED queue
     \/ /\ writing.next = writing.size
        /\ Len(queue) < QueueMax
        /\ writing' = None
        /\ queue' = Append(queue, [frame |-> newest, size |-> writing.size])
  /\ UNCHANGED <<newest, taskVars, runVars, watchVars, rsp>>

\* A task of another microcode.
SubmitOther ==
  /\ writing = None /\ queue = <<>> /\ rsp = "idle"
  /\ queue' = <<None>>
  /\ UNCHANGED <<gameVars, taskVars, runVars, watchVars, rsp>>

-----------------------------------------------------------------------------
\* The RSP task thread.

\* librecomp puts the OSTask in DMEM and asks get_rsp_microcode what runs it;
\* rsp_unknown_ucode reports a task of another microcode complete.
Dispatch ==
  /\ rsp = "idle" /\ queue # <<>>
  /\ queue' = Tail(queue)
  /\ IF Head(queue) = None
     THEN UNCHANGED <<taskVars, rsp>>
     ELSE /\ task' = Head(queue)
          /\ dmem' = "game" /\ retry' = "game"
          /\ rsp' = "copy"
          /\ UNCHANGED scratch
  /\ UNCHANGED <<gameVars, runVars, watchVars>>

Copied == IF task.size <= ScratchSize THEN "scratch" ELSE "game"
Redirect_Forgotten(pointer) == pointer   \* mutant: the pointer still names the game's list
Redirect(pointer) == Copied
RetryWith_Forgotten(pointer) == pointer  \* mutant: the search runs the game's list
RetryWith(pointer) == Copied

Copy ==
  /\ rsp = "copy"
  /\ scratch' = [i \in DOMAIN scratch |->
                   IF Copied = "scratch" /\ i <= task.size
                   THEN list[Buffer(task.frame)][i] ELSE scratch[i]]
  /\ dmem' = Redirect(dmem) /\ retry' = RetryWith(retry)
  /\ rsp' = "arm"
  /\ UNCHANGED <<gameVars, task, runVars, watchVars, queue>>

\* watch_for_hang.  The first call takes a handle of its thread; if it gets
\* none the run is not watched, and the next call tries again.
Arm ==
  /\ rsp = "arm"
  /\ \/ /\ registered' = TRUE
        /\ deadline' = "set"
        /\ outlasted' = FALSE /\ alarms' = 0 /\ sampled' = FALSE
        /\ stale' = (watch # "asleep")
     \/ /\ ~registered
        /\ UNCHANGED <<registered, deadline, outlasted, alarms, sampled, stale>>
  /\ rsp' = "run"
  /\ UNCHANGED <<gameVars, taskVars, runVars, watch, queue>>

Commands(place) == IF place = "scratch" THEN scratch ELSE list[Buffer(task.frame)]
Damaged(cells) == \E i \in DOMAIN cells : cells[i].kind = "damages"
Stopped(cells) == cells # <<>> /\ cells[Len(cells)].kind = "fails"

Execute ==
  /\ rsp = "run" /\ Len(ran) < task.size /\ ~Stopped(ran)
  /\ ran' = Append(ran, Commands(dmem)[Len(ran) + 1])
  /\ UNCHANGED <<gameVars, taskVars, prefix, blamed, ofState, watchVars, queue, rsp>>

\* aspMain_run returns: at its break, or early with another exit reason.
Finish ==
  /\ rsp = "run" /\ Len(ran) = task.size /\ ~Stopped(ran)
  /\ rsp' = "disarm"
  /\ UNCHANGED <<gameVars, taskVars, runVars, watchVars, queue>>

Fail ==
  /\ rsp = "run"
  /\ \/ (Stopped(ran) \/ Damaged(ran)) /\ UNCHANGED ofState
     \/ ofState' = ofState \cup {"run"}
  /\ prefix' = 1
  /\ rsp' = "disarm"
  /\ UNCHANGED <<gameVars, taskVars, ran, blamed, watchVars, queue>>

Hang ==
  /\ rsp = "run" /\ ~Stopped(ran)
  /\ rsp' = "hung"
  /\ UNCHANGED <<gameVars, taskVars, runVars, watchVars, queue>>

watch_done_Forgotten(d) == d   \* mutant: the deadline of a run that returned stays
watch_done(d) == "none"

\* What becomes of the task, failed or not: Broke is what librecomp is told.
Reported_AsIs(failed) == IF failed > 0 THEN "dead" ELSE "complete"   \* mutant: a failure ends the thread
Reported(failed) == "complete"

\* watch_done, then a failed run is searched.  The code searches the first six;
\* here any may be.
Disarm ==
  /\ rsp = "disarm"
  /\ deadline' = watch_done(deadline)
  /\ \/ prefix = 1 /\ rsp' = "search" /\ UNCHANGED prefix
     \/ prefix' = 0 /\ rsp' = Reported(prefix)
  /\ UNCHANGED <<gameVars, taskVars, ran, blamed, ofState, registered, watch, outlasted,
                 alarms, sampled, stale, queue>>

\* A re-run of these commands damages the table or exits early.
Caught_ByExit(cells) == \E i \in DOMAIN cells : cells[i].kind = "fails"   \* mutant: the table is not compared
Caught(cells) == \E i \in DOMAIN cells : cells[i].kind # "sound"

\* bisect_audio_task: one more command than the last re-run, from a fresh DMEM,
\* until a re-run leaves the jump table damaged or does not reach its break, of
\* its commands or of the state it found; or "every prefix ran clean".
Rerun ==
  /\ rsp = "search"
  /\ LET caught == Caught(SubSeq(Commands(retry), 1, prefix)) IN
     \/ /\ \/ caught /\ UNCHANGED ofState
           \/ ~caught /\ ofState' = ofState \cup {"rerun"}
        /\ blamed' = prefix
        /\ rsp' = Reported(prefix)
        /\ UNCHANGED prefix
     \/ /\ ~caught /\ prefix < task.size
        /\ prefix' = prefix + 1
        /\ UNCHANGED <<blamed, ofState, rsp>>
     \/ /\ ~caught /\ prefix = task.size
        /\ blamed' = 0
        /\ rsp' = Reported(prefix)
        /\ UNCHANGED <<prefix, ofState>>
  /\ UNCHANGED <<gameVars, taskVars, ran, watchVars, queue>>

\* A re-run that spins: the deadline was disarmed before the search began.
HangSearch ==
  /\ rsp = "search"
  /\ rsp' = "stuck"
  /\ UNCHANGED <<gameVars, taskVars, runVars, watchVars, queue>>

\* Broke is returned whatever became of the run, and librecomp tells the game.
Complete ==
  /\ rsp = "complete"
  /\ ran' = <<>> /\ prefix' = 0 /\ blamed' = 0 /\ ofState' = {}
  /\ rsp' = "idle"
  /\ UNCHANGED <<gameVars, taskVars, watchVars, queue>>

-----------------------------------------------------------------------------
\* Time, and the watch thread: it reads the deadline, stores 0 in it, reports.

Tick ==
  /\ deadline = "set"
  /\ deadline' = "passed"
  /\ outlasted' = (rsp \in {"run", "hung", "disarm"})
  /\ UNCHANGED <<gameVars, taskVars, runVars, registered, watch, alarms, sampled, stale, queue, rsp>>

Look ==
  /\ watch = "asleep" /\ deadline = "passed"
  /\ watch' = "claim"
  /\ UNCHANGED <<gameVars, taskVars, runVars, registered, deadline, outlasted, alarms, sampled, stale,
                 queue, rsp>>

AfterClaim_Silent == "asleep"   \* mutant: the deadline is cleared and nothing reported
AfterClaim == "report"

Claim ==
  /\ watch = "claim"
  /\ deadline' = "none"
  /\ watch' = AfterClaim
  /\ UNCHANGED <<gameVars, taskVars, runVars, registered, outlasted, alarms, sampled, stale,
                 queue, rsp>>

Report ==
  /\ watch = "report"
  /\ alarms' = Min({alarms + 1, 2})
  /\ sampled' = (sampled \/ rsp = "hung")
  /\ watch' = "asleep"
  /\ UNCHANGED <<gameVars, taskVars, runVars, registered, deadline, outlasted, stale, queue, rsp>>

-----------------------------------------------------------------------------
Game ==
  \/ \E size \in Sizes, contents \in Contents : BeginList(size, contents)
  \/ WriteCommand
  \/ SubmitOther
Rsp ==
  \/ Dispatch \/ Copy \/ Arm \/ Execute \/ Finish \/ Fail
  \/ Disarm \/ Rerun \/ Complete
Spins == Hang \/ HangSearch
Watch == Look \/ Claim \/ Report

Next == Game \/ Rsp \/ Spins \/ Tick \/ Watch

\* The RSP task thread and the watch thread are threads of their own that wait
\* for nothing but their work, and a deadline passes.
Fairness == WF_vars(Rsp) /\ WF_vars(Watch) /\ WF_vars(Tick)

Spec == Init /\ [][Next]_vars /\ Fairness

-----------------------------------------------------------------------------
Fits == task # None /\ task.size <= ScratchSize

\* "The task ran from its own copy, so nothing was lost": whatever the game
\* writes meanwhile, a run of a list that fits the copy executes the commands
\* the game wrote for that task.  (asp_main_watched)
RunsOwnCommands == Fits => \A i \in DOMAIN ran : ran[i].frame = task.frame

\* A search of a failed run that ran from its copy blames "the first command
\* that damages" the table or fails the run, though the run may have failed many
\* commands later and the game may have written over the list since: no command
\* before it does either, and it is one that ran.  Two exceptions are the ones
\* the code has: a re-run may itself fail of the state it finds; and where the
\* run did, the search may blame a command that never ran, or find that "every
\* prefix ran clean" and blame none, which it does of no other run.
\* (bisect_audio_task)
BlamesFirst ==
  (rsp = "complete" /\ prefix > 0 /\ Fits) =>
     /\ \A i \in 1 .. (IF blamed = 0 THEN task.size ELSE blamed - 1) : scratch[i].kind = "sound"
     /\ blamed # 0 => scratch[blamed].kind # "sound" \/ "rerun" \in ofState
     /\ blamed \in DOMAIN ran \/ "run" \in ofState

\* The watch thread reports only a run that outlasted its deadline, and once,
\* save for a report it was already at when the run was armed.  (watch_thread)
AlarmsTrue ==
  ~stale => /\ (watch # "asleep" \/ alarms > 0) => outlasted
            /\ alarms <= 1

\* A watched run that never returns is reported, unless the watch thread was
\* between reading an earlier deadline and sleeping when the run was armed:
\* its store of 0 may then wipe the new deadline.  A run is watched once the
\* thread has given up its handle.  (watch_thread, watch_for_hang)
HangsAnnounced == (rsp = "hung" /\ registered) ~> (alarms > 0 \/ stale)

\* The same without the excuse: a watched run that never returns is reported
\* after its deadline, or at the least while it hangs: "if it has not finished
\* after `seconds`, reports where the calling thread is stuck"
\* (include/hh/crash_handler.h:9).
HangsReported ==
  (rsp = "hung" /\ registered) ~> ((outlasted /\ alarms > 0) \/ sampled)

\* Every audio task is reported complete, a failed one too, unless the
\* microcode spins: the game never waits for a task the RSP gave up on.
\* (asp_main_watched)
TasksComplete ==
  \A f \in Frames :
     (\E i \in DOMAIN queue : queue[i] # None /\ queue[i].frame = f)
        ~> ((rsp = "complete" /\ task.frame = f) \/ rsp \in {"hung", "stuck"})
=============================================================================
