---------------------------- MODULE ControllerPak ----------------------------
(***************************************************************************)
(* src/controller_pak.cpp with the two threads that call it: the game's SI *)
(* thread reads and writes blocks, librecomp's main loop flushes once a    *)
(* second and once more on the way out.  Both hold g_mutex, but a crash    *)
(* (a lookup miss ends in _Exit, src/sections.cpp:249-255) can fall        *)
(* between any two steps on the file, and the disk can refuse.             *)
(*                                                                         *)
(* An image is abstracted to the contents of a few blocks, and the file to *)
(* an image, Absent, or Short: anything ifstream cannot read 32 KiB from,  *)
(* in particular the empty file that ofstream's trunc leaves behind.       *)
(***************************************************************************)
EXTENDS Naturals

CONSTANTS
  NumPorts,    \* g_pak has four; ports only meet in the flush loop
  Blocks, Bytes, Formatted,
  NoReply, NoJob,
  Absent, Short,
  FaultKinds,  \* the disk errors of this model: "open", "read", "write"
  MaxFaults    \* bound: disk errors in one behaviour

Ports == 0 .. NumPorts - 1
Images == [Blocks -> Bytes]
FileStates == Images \cup {Absent, Short}

Jobs == [kind : {"read"}, port : Ports, block : Blocks]
          \cup [kind : {"write"}, port : Ports, block : Blocks, data : Bytes]

ASSUME ControllerPakAssumption ==
  /\ NumPorts \in Nat
  /\ MaxFaults \in Nat
  /\ FaultKinds \subseteq {"open", "read", "write"}
  /\ Formatted \in Images
  /\ NoReply \notin Bytes
  /\ NoJob \notin Jobs
  /\ Absent \notin Images \cup {Short}
  /\ Short \notin Images

VARIABLES
  main,     \* where the main thread is: "down", "boot", "loop", "flush",
            \* "exit", "lastflush" or "done"
  dir,      \* g_dir is set
  mem,      \* g_pak
  loaded,   \* g_loaded
  dirty,    \* g_dirty
  file,     \* what is on disk for each port
  lock,     \* holder of g_mutex: "free", "game" or "main"
  job,      \* block access of the game thread waiting for its pak to be created
  at,       \* flush's loop variable, a port
  stage,    \* flush's progress on that port: "none", "open", "written"
  denied,   \* ports the last flush could not open
  reply,    \* what the last read_block returned
  faults    \* disk errors so far

vars == <<main, dir, mem, loaded, dirty, file, lock, job, at, stage, denied,
          reply, faults>>
store == <<mem, loaded, dirty>>
scan == <<at, stage, denied>>

-----------------------------------------------------------------------------
\* What the next process will make of port p's file: ensure_loaded reads a
\* whole image and formats anything else.
DiskImage(p) == IF file[p] \in Images THEN file[p] ELSE Formatted

Flushing == main \in {"flush", "lastflush"}
GameRuns == main \in {"loop", "flush"}

CanFail(kind) == kind \in FaultKinds /\ faults < MaxFaults

\* How many errors one step on the file may meet.
Errors(kind) == IF CanFail(kind) THEN {0, 1} ELSE {0}

Init ==
  /\ main = "down"
  /\ dir = FALSE
  /\ mem = [p \in Ports |-> Formatted]
  /\ loaded = [p \in Ports |-> FALSE]
  /\ dirty = [p \in Ports |-> FALSE]
  /\ file \in [Ports -> Images \cup {Absent}]
  /\ lock = "free"
  /\ job = NoJob
  /\ at = 0
  /\ stage = "none"
  /\ denied = {}
  /\ reply = NoReply
  /\ faults = 0

-----------------------------------------------------------------------------
\* The end of one process, or the start of the next: everything but the disk
\* is as static initialisation leaves it.
Fresh ==
  /\ dir' = FALSE
  /\ mem' = [p \in Ports |-> Formatted]
  /\ loaded' = [p \in Ports |-> FALSE]
  /\ dirty' = [p \in Ports |-> FALSE]
  /\ lock' = "free"
  /\ job' = NoJob
  /\ at' = 0
  /\ stage' = "none"
  /\ denied' = {}
  /\ UNCHANGED <<file, reply, faults>>

Boot ==
  /\ main \in {"down", "done"}
  /\ main' = "boot"
  /\ Fresh

Crash ==
  /\ main \notin {"down", "done"}
  /\ main' = "down"
  /\ Fresh

SetStorageDirectory ==
  /\ main = "boot"
  /\ dir' = TRUE
  /\ UNCHANGED <<main, store, file, lock, job, scan, reply, faults>>

StartGame_AnyTime ==   \* mutant: the game may start with no directory set
  /\ main = "boot"
  /\ main' = "loop"
  /\ UNCHANGED <<dir, store, file, lock, job, scan, reply, faults>>

\* run() starts the runtime after set_storage_directory.
StartGame ==
  /\ main = "boot"
  /\ dir
  /\ main' = "loop"
  /\ UNCHANGED <<dir, store, file, lock, job, scan, reply, faults>>

Quit_NoFlush ==   \* mutant: no flush on the way out
  /\ main = "loop"
  /\ lock = "free"
  /\ main' = "done"
  /\ UNCHANGED <<dir, store, file, lock, job, scan, reply, faults>>

\* recomp::start has joined the game's threads when it returns.
Quit ==
  /\ main = "loop"
  /\ lock = "free"
  /\ main' = "exit"
  /\ UNCHANGED <<dir, store, file, lock, job, scan, reply, faults>>

-----------------------------------------------------------------------------
\* The end of read_block and write_block, once port op.port holds image m.
Serve(op, m, wasDirty) ==
  /\ loaded' = [loaded EXCEPT ![op.port] = TRUE]
  /\ IF op.kind = "read"
       THEN /\ mem' = [mem EXCEPT ![op.port] = m]
            /\ dirty' = [dirty EXCEPT ![op.port] = wasDirty]
            /\ reply' = m[op.block]
       ELSE /\ mem' = [mem EXCEPT ![op.port] = [m EXCEPT ![op.block] = op.data]]
            /\ dirty' = [dirty EXCEPT ![op.port] =
                           wasDirty \/ m[op.block] # op.data]
            /\ UNCHANGED reply

Touches_NoLock == GameRuns /\ job = NoJob   \* mutant: no lock_guard

\* The game's thread is inside read_block or write_block, with g_mutex.
Touches == GameRuns /\ lock = "free"

AccessLoaded(op) ==
  /\ Touches
  /\ loaded[op.port]
  /\ Serve(op, mem[op.port], dirty[op.port])
  /\ UNCHANGED <<main, dir, file, lock, job, scan, faults>>

AccessFromFile(op) ==
  /\ Touches
  /\ ~loaded[op.port]
  /\ dir /\ file[op.port] \in Images
  /\ Serve(op, file[op.port], FALSE)
  /\ UNCHANGED <<main, dir, file, lock, job, scan, faults>>

FormatsPak_Always(p) == TRUE   \* mutant: creates without looking for a file

\* ensure_loaded formats when there is no directory, no file, a short file, or
\* when a file that is there cannot be opened or read to the end.
FormatsPak(p) == dir /\ file[p] \in Images => CanFail("read")
ReadErrors(p) == IF dir /\ file[p] \in Images THEN 1 ELSE 0

\* ... and opens the file to write the new image, truncating it.
AccessCreate(op) ==
  /\ Touches
  /\ ~loaded[op.port]
  /\ dir
  /\ FormatsPak(op.port)
  /\ mem' = [mem EXCEPT ![op.port] = Formatted]
  /\ file' = [file EXCEPT ![op.port] = Short]
  /\ faults' = faults + ReadErrors(op.port)
  /\ lock' = "game"
  /\ job' = op
  /\ UNCHANGED <<main, dir, loaded, dirty, scan, reply>>

\* Without a directory, or when the file cannot be opened for writing, the new
\* image stays in memory, and is not dirty.
AccessUnsaved(op) ==
  /\ Touches
  /\ ~loaded[op.port]
  /\ dir => CanFail("open")
  /\ FormatsPak(op.port)
  /\ faults' = faults + ReadErrors(op.port) + (IF dir THEN 1 ELSE 0)
  /\ faults' <= MaxFaults
  /\ Serve(op, Formatted, FALSE)
  /\ UNCHANGED <<main, dir, file, lock, job, scan>>

\* out.write in ensure_loaded, whose result is not looked at, and the access
\* that was waiting for it.
FinishCreate ==
  /\ lock = "game"
  /\ \E e \in Errors("write") :
       /\ file' = [file EXCEPT ![job.port] = IF e = 0 THEN Formatted ELSE Short]
       /\ faults' = faults + e
  /\ Serve(job, Formatted, FALSE)
  /\ lock' = "free"
  /\ job' = NoJob
  /\ UNCHANGED <<main, dir, scan>>

ReadBlock(p, b) ==
  LET op == [kind |-> "read", port |-> p, block |-> b]
  IN AccessLoaded(op) \/ AccessFromFile(op) \/ AccessCreate(op) \/ AccessUnsaved(op)

WriteBlock(p, b, d) ==
  LET op == [kind |-> "write", port |-> p, block |-> b, data |-> d]
  IN AccessLoaded(op) \/ AccessFromFile(op) \/ AccessCreate(op) \/ AccessUnsaved(op)

-----------------------------------------------------------------------------
FlushBegin_Resumes ==   \* mutant: the loop variable keeps its last value
  /\ main \in {"loop", "exit"}
  /\ lock = "free"
  /\ lock' = "main"
  /\ main' = IF main = "loop" THEN "flush" ELSE "lastflush"
  /\ denied' = {}
  /\ UNCHANGED <<dir, store, file, job, at, stage, reply, faults>>

\* flush, from the main loop every 60 ticks and from shutdown_platform.  With
\* no directory it returns at once.
FlushBegin ==
  /\ main \in {"loop", "exit"}
  /\ lock = "free"
  /\ lock' = "main"
  /\ main' = IF main = "loop" THEN "flush" ELSE "lastflush"
  /\ at' = IF dir THEN 0 ELSE NumPorts
  /\ stage' = "none"
  /\ denied' = {}
  /\ UNCHANGED <<dir, store, file, job, reply, faults>>

NeedsWrite(p) == loaded[p] /\ dirty[p]

FlushSkip ==
  /\ Flushing /\ at < NumPorts /\ stage = "none"
  /\ ~NeedsWrite(at)
  /\ at' = at + 1
  /\ UNCHANGED <<main, dir, store, file, lock, job, stage, denied, reply, faults>>

\* The ofstream constructor: truncates, or fails and leaves the pak dirty.
FlushOpen ==
  /\ Flushing /\ at < NumPorts /\ stage = "none"
  /\ NeedsWrite(at)
  /\ \E e \in Errors("open") :
       /\ faults' = faults + e
       /\ IF e = 0
            THEN /\ file' = [file EXCEPT ![at] = Short]
                 /\ stage' = "open"
                 /\ UNCHANGED <<at, denied>>
            ELSE /\ denied' = denied \cup {at}
                 /\ at' = at + 1
                 /\ UNCHANGED <<file, stage>>
  /\ UNCHANGED <<main, dir, store, lock, job, reply>>

FlushWrite ==
  /\ Flushing /\ stage = "open"
  /\ \E e \in Errors("write") :
       /\ file' = [file EXCEPT ![at] = IF e = 0 THEN mem[at] ELSE Short]
       /\ faults' = faults + e
  /\ stage' = "written"
  /\ UNCHANGED <<main, dir, store, lock, job, at, denied, reply>>

FlushClose_StaysOpen ==   \* mutant: the stream outlives its port
  /\ Flushing /\ stage = "written"
  /\ dirty' = [dirty EXCEPT ![at] = FALSE]
  /\ at' = at + 1
  /\ UNCHANGED <<main, dir, mem, loaded, file, lock, job, stage, denied, reply, faults>>

\* g_dirty[port] = false, whatever became of the write.
FlushClose ==
  /\ Flushing /\ stage = "written"
  /\ dirty' = [dirty EXCEPT ![at] = FALSE]
  /\ stage' = "none"
  /\ at' = at + 1
  /\ UNCHANGED <<main, dir, mem, loaded, file, lock, job, denied, reply, faults>>

FlushEnd ==
  /\ Flushing /\ at = NumPorts
  /\ lock' = "free"
  /\ main' = IF main = "flush" THEN "loop" ELSE "done"
  /\ UNCHANGED <<dir, store, file, job, scan, reply, faults>>

FlushStep == FlushSkip \/ FlushOpen \/ FlushWrite \/ FlushClose \/ FlushEnd

Next ==
  \/ Boot
  \/ SetStorageDirectory
  \/ StartGame
  \/ Quit
  \/ Crash
  \/ \E p \in Ports, b \in Blocks : ReadBlock(p, b)
  \/ \E p \in Ports, b \in Blocks, d \in Bytes : WriteBlock(p, b, d)
  \/ FinishCreate
  \/ FlushBegin
  \/ FlushStep

\* The main loop keeps ticking and a thread inside flush or ensure_loaded is
\* never descheduled for ever; nothing obliges the game to touch the pak.
Fairness ==
  /\ WF_vars(FinishCreate)
  /\ WF_vars(FlushBegin)
  /\ WF_vars(FlushStep)

Spec == Init /\ [][Next]_vars
FairSpec == Spec /\ Fairness

-----------------------------------------------------------------------------
\* Every variable stays in its range; in particular flush's loop variable
\* never runs past the last port while a file is open.
TypeOK ==
  /\ main \in {"down", "boot", "loop", "flush", "exit", "lastflush", "done"}
  /\ dir \in BOOLEAN
  /\ mem \in [Ports -> Images]
  /\ loaded \in [Ports -> BOOLEAN]
  /\ dirty \in [Ports -> BOOLEAN]
  /\ file \in [Ports -> FileStates]
  /\ lock \in {"free", "game", "main"}
  /\ job \in Jobs \cup {NoJob}
  /\ at \in 0 .. NumPorts
  /\ stage \in {"none", "open", "written"}
  /\ stage # "none" => at \in Ports
  /\ denied \in SUBSET Ports
  /\ reply \in Bytes \cup {NoReply}
  /\ faults \in 0 .. MaxFaults

\* A loaded pak that is not dirty would read back the same after a restart:
\* g_dirty is never cleared under a write flush has not put in the file
\* (controller_pak.cpp:167-195), nor left clear by ensure_loaded.
CleanMeansOnDisk ==
  \A p \in Ports : loaded[p] /\ ~dirty[p] => DiskImage(p) = mem[p]

\* A file that holds a whole image is truncated by nothing but the flush of a
\* modified pak: loading never creates over it (ensure_loaded, "created -- as
\* a valid formatted-empty pak -- if absent", controller_pak.h:34-35).
OnlyFlushTruncates ==
  [][\A p \in Ports : file[p] \in Images /\ file'[p] = Short => NeedsWrite(p)]_vars

\* A clean exit leaves no pak modified, unless the disk refused that file
\* during the last flush (shutdown_platform, callbacks.cpp:1337-1338).
CleanExitSaves ==
  main = "done" => \A p \in Ports : dirty[p] => p \in denied

\* Loading, flushing, crashing and restarting are invisible to the game but
\* for what a crash may do to a modified pak.
SeenImage == [p \in Ports |-> IF loaded[p] THEN mem[p] ELSE DiskImage(p)]
Unmodified == {p \in Ports : ~dirty[p]}
Store == INSTANCE PakStore WITH image <- SeenImage, safe <- Unmodified
ImplementsPakStore == Store!Spec

\* What the game wrote is on disk in the end, if the process does not crash
\* and the disk does not refuse the last flush.
WritesReachDisk ==
  \A p \in Ports : dirty[p] ~> \/ ~dirty[p]
                               \/ main = "down"
                               \/ main = "done" /\ p \in denied
=============================================================================
