------------------------- MODULE ControllerPakProofs -------------------------
(***************************************************************************)
(* Proofs about ControllerPak, for any number of ports, blocks, block      *)
(* contents and disk errors.                                               *)
(***************************************************************************)
EXTENDS ControllerPak, TLAPS

-----------------------------------------------------------------------------
\* The two block operations are the four ways to serve one job.
LEMMA NextCases ==
  ASSUME Next
  PROVE  \/ Boot \/ SetStorageDirectory \/ StartGame \/ Quit \/ Crash
         \/ \E op \in Jobs : \/ AccessLoaded(op) \/ AccessFromFile(op)
                             \/ AccessCreate(op) \/ AccessUnsaved(op)
         \/ FinishCreate
         \/ FlushBegin \/ FlushSkip \/ FlushOpen \/ FlushWrite \/ FlushClose \/ FlushEnd
<1>1. CASE \E p \in Ports, b \in Blocks : ReadBlock(p, b)
  <2>1. PICK p \in Ports, b \in Blocks : ReadBlock(p, b)
    BY <1>1
  <2>2. [kind |-> "read", port |-> p, block |-> b] \in Jobs
    BY DEF Jobs
  <2>. QED
    BY <2>1, <2>2 DEF ReadBlock
<1>2. CASE \E p \in Ports, b \in Blocks, d \in Bytes : WriteBlock(p, b, d)
  <2>1. PICK p \in Ports, b \in Blocks, d \in Bytes : WriteBlock(p, b, d)
    BY <1>2
  <2>2. [kind |-> "write", port |-> p, block |-> b, data |-> d] \in Jobs
    BY DEF Jobs
  <2>. QED
    BY <2>1, <2>2 DEF WriteBlock
<1>. QED
  BY <1>1, <1>2 DEF Next, FlushStep

\* Serving a job keeps the store's types.
LEMMA ServeTypes ==
  ASSUME TypeOK, NEW op \in Jobs, NEW m \in Images, NEW w \in BOOLEAN,
         Serve(op, m, w)
  PROVE  /\ mem' \in [Ports -> Images]
         /\ loaded' \in [Ports -> BOOLEAN]
         /\ dirty' \in [Ports -> BOOLEAN]
         /\ reply' \in Bytes \cup {NoReply}
<1>1. op.port \in Ports /\ op.block \in Blocks
  BY DEF Jobs
<1>2. loaded' \in [Ports -> BOOLEAN]
  BY <1>1 DEF TypeOK, Serve
<1>3. CASE op.kind = "read"
  <2>1. m[op.block] \in Bytes
    BY <1>1 DEF Images
  <2>. QED
    BY <1>1, <1>2, <1>3, <2>1 DEF TypeOK, Serve
<1>4. CASE op.kind # "read"
  <2>1. op.data \in Bytes
    BY <1>4 DEF Jobs
  <2>2. [m EXCEPT ![op.block] = op.data] \in Images
    BY <1>1, <2>1 DEF Images
  <2>3. (w \/ m[op.block] # op.data) \in BOOLEAN
    OBVIOUS
  <2>4. mem' \in [Ports -> Images] /\ reply' \in Bytes \cup {NoReply}
    BY <1>1, <1>4, <2>2 DEF TypeOK, Serve
  <2>5. dirty' \in [Ports -> BOOLEAN]
    BY <1>1, <1>4, <2>3 DEF TypeOK, Serve
  <2>. QED
    BY <1>2, <2>4, <2>5
<1>. QED
  BY <1>3, <1>4

LEMMA ErrorsBounded ==
  ASSUME NEW kind, NEW e \in Errors(kind), faults \in 0 .. MaxFaults
  PROVE  /\ faults + e \in 0 .. MaxFaults
         /\ kind \notin FaultKinds => e = 0
<1>1. CASE CanFail(kind)
  BY <1>1, ControllerPakAssumption DEF Errors, CanFail
<1>2. CASE ~CanFail(kind)
  BY <1>2, ControllerPakAssumption DEF Errors
<1>. QED
  BY <1>1, <1>2

\* So does starting over.
LEMMA FreshTypes ==
  ASSUME TypeOK, Fresh, main' \in {"boot", "down"}
  PROVE  TypeOK'
<1>1. mem' \in [Ports -> Images]
  BY ControllerPakAssumption DEF Fresh
<1>2. loaded' \in [Ports -> BOOLEAN]
  BY DEF Fresh
<1>3. dirty' \in [Ports -> BOOLEAN]
  BY DEF Fresh
<1>4. at' \in 0 .. NumPorts
  BY ControllerPakAssumption DEF Fresh
<1>5. /\ file' \in [Ports -> FileStates]
      /\ reply' \in Bytes \cup {NoReply}
      /\ faults' \in 0 .. MaxFaults
  BY DEF Fresh, TypeOK
<1>. QED
  BY <1>1, <1>2, <1>3, <1>4, <1>5 DEF Fresh, TypeOK

-----------------------------------------------------------------------------
\* What holds of the pieces of a step that is under way; inductive with TypeOK.
LockInv ==
  /\ lock = "main" <=> Flushing
  /\ lock = "game" <=> job # NoJob
  /\ lock = "game" => main = "loop" /\ ~loaded[job.port]
  /\ stage # "none" => Flushing /\ NeedsWrite(at)
  /\ \A p \in Ports : dirty[p] => loaded[p]

LEMMA TypeStep ==
  ASSUME TypeOK, LockInv, [Next]_vars
  PROVE  TypeOK'
<1>. USE ControllerPakAssumption
<1>1. CASE Boot
  BY <1>1, FreshTypes DEF Boot
<1>2. CASE SetStorageDirectory
  BY <1>2 DEF TypeOK, SetStorageDirectory, store, scan
<1>3. CASE StartGame
  BY <1>3 DEF TypeOK, StartGame, store, scan
<1>4. CASE Quit
  BY <1>4 DEF TypeOK, Quit, store, scan
<1>5. CASE Crash
  BY <1>5, FreshTypes DEF Crash
<1>6. CASE \E op \in Jobs : AccessLoaded(op) \/ AccessFromFile(op) \/ AccessUnsaved(op)
  <2>1. PICK op \in Jobs : AccessLoaded(op) \/ AccessFromFile(op) \/ AccessUnsaved(op)
    BY <1>6
  <2>2. op.port \in Ports
    BY DEF Jobs
  <2>3. CASE AccessLoaded(op)
    <3>1. Serve(op, mem[op.port], dirty[op.port])
      BY <2>3 DEF AccessLoaded
    <3>2. mem[op.port] \in Images /\ dirty[op.port] \in BOOLEAN
      BY <2>2 DEF TypeOK
    <3>. QED
      BY <2>3, <3>1, <3>2, ServeTypes DEF TypeOK, AccessLoaded, scan
  <2>4. CASE AccessFromFile(op)
    <3>1. Serve(op, file[op.port], FALSE) /\ file[op.port] \in Images
      BY <2>4 DEF AccessFromFile
    <3>. QED
      BY <2>4, <3>1, ServeTypes DEF TypeOK, AccessFromFile, scan
  <2>5. CASE AccessUnsaved(op)
    <3>1. Serve(op, Formatted, FALSE)
      BY <2>5 DEF AccessUnsaved
    <3>2. faults' \in 0 .. MaxFaults
      <4>1. ReadErrors(op.port) \in {0, 1} /\ (IF dir THEN 1 ELSE 0) \in {0, 1}
        BY Zenon DEF ReadErrors
      <4>2. /\ faults' = faults + ReadErrors(op.port) + (IF dir THEN 1 ELSE 0)
            /\ faults' <= MaxFaults
        BY <2>5 DEF AccessUnsaved
      <4>. QED
        BY <4>1, <4>2 DEF TypeOK
    <3>. QED
      BY <2>5, <3>1, <3>2, ServeTypes DEF TypeOK, AccessUnsaved, scan
  <2>. QED
    BY <2>1, <2>3, <2>4, <2>5
<1>7. CASE \E op \in Jobs : AccessCreate(op)
  <2>1. PICK op \in Jobs : AccessCreate(op)
    BY <1>7
  <2>2. op.port \in Ports
    BY DEF Jobs
  <2>3. faults' \in 0 .. MaxFaults
    BY <2>1, <2>2 DEF AccessCreate, FormatsPak, ReadErrors, CanFail, TypeOK
  <2>. QED
    BY <2>1, <2>2, <2>3 DEF TypeOK, AccessCreate, scan, FileStates
<1>8. CASE FinishCreate
  <2>1. job \in Jobs
    BY <1>8 DEF FinishCreate, LockInv, TypeOK
  <2>2. job.port \in Ports
    BY <2>1 DEF Jobs
  <2>3. PICK e \in Errors("write") :
           /\ file' = [file EXCEPT ![job.port] = IF e = 0 THEN Formatted ELSE Short]
           /\ faults' = faults + e
    BY <1>8 DEF FinishCreate
  <2>4. faults' \in 0 .. MaxFaults
    BY <2>3, ErrorsBounded DEF TypeOK
  <2>5. file' \in [Ports -> FileStates]
    BY <2>2, <2>3 DEF TypeOK, FileStates
  <2>6. Serve(job, Formatted, FALSE)
    BY <1>8 DEF FinishCreate
  <2>. QED
    BY <1>8, <2>1, <2>4, <2>5, <2>6, ServeTypes DEF TypeOK, FinishCreate, scan
<1>9. CASE FlushBegin
  BY <1>9 DEF TypeOK, FlushBegin, store, Ports
<1>10. CASE FlushSkip
  BY <1>10 DEF TypeOK, FlushSkip, store, Ports
<1>11. CASE FlushOpen
  <2>1. PICK e \in Errors("open") :
           /\ faults' = faults + e
           /\ IF e = 0
                THEN /\ file' = [file EXCEPT ![at] = Short]
                     /\ stage' = "open"
                     /\ UNCHANGED <<at, denied>>
                ELSE /\ denied' = denied \cup {at}
                     /\ at' = at + 1
                     /\ UNCHANGED <<file, stage>>
    BY <1>11 DEF FlushOpen
  <2>2. faults' \in 0 .. MaxFaults
    BY <2>1, ErrorsBounded DEF TypeOK
  <2>3. at \in Ports /\ stage = "none"
    BY <1>11 DEF FlushOpen, TypeOK, Ports
  <2>4. CASE e = 0
    <3>1. file' \in [Ports -> FileStates]
      BY <2>1, <2>3, <2>4 DEF TypeOK, FileStates
    <3>. QED
      BY <1>11, <2>1, <2>2, <2>3, <2>4, <3>1 DEF TypeOK, FlushOpen, store
  <2>5. CASE e # 0
    <3>1. at' \in 0 .. NumPorts /\ denied' \in SUBSET Ports
      <4>1. at' \in 0 .. NumPorts
        BY <2>1, <2>3, <2>5 DEF Ports
      <4>2. denied' \in SUBSET Ports
        BY <2>1, <2>3, <2>5 DEF TypeOK
      <4>. QED
        BY <4>1, <4>2
    <3>2. stage' = "none" /\ file' = file
      BY <2>1, <2>3, <2>5
    <3>3. UNCHANGED <<main, dir, mem, loaded, dirty, lock, job, reply>>
      BY <1>11 DEF FlushOpen, store
    <3>. QED
      BY <2>2, <3>1, <3>2, <3>3 DEF TypeOK
  <2>. QED
    BY <2>4, <2>5
<1>12. CASE FlushWrite
  <2>1. PICK e \in Errors("write") :
           /\ file' = [file EXCEPT ![at] = IF e = 0 THEN mem[at] ELSE Short]
           /\ faults' = faults + e
    BY <1>12 DEF FlushWrite
  <2>2. faults' \in 0 .. MaxFaults
    BY <2>1, ErrorsBounded DEF TypeOK
  <2>3. at \in Ports
    BY <1>12 DEF FlushWrite, TypeOK
  <2>. QED
    BY <1>12, <2>1, <2>2, <2>3 DEF TypeOK, FlushWrite, FileStates, store
<1>13. CASE FlushClose
  BY <1>13 DEF TypeOK, FlushClose, Ports
<1>14. CASE FlushEnd
  BY <1>14 DEF TypeOK, FlushEnd, store, scan
<1>15. CASE UNCHANGED vars
  BY <1>15 DEF TypeOK, vars
<1>. QED
  BY <1>1, <1>2, <1>3, <1>4, <1>5, <1>6, <1>7, <1>8, <1>9, <1>10, <1>11, <1>12,
     <1>13, <1>14, <1>15, NextCases

LEMMA LockStep ==
  ASSUME TypeOK, LockInv, [Next]_vars
  PROVE  LockInv'
<1>. USE ControllerPakAssumption DEF LockInv, Flushing, NeedsWrite
<1>1. CASE Boot \/ Crash
  BY <1>1 DEF Boot, Crash, Fresh
<1>2. CASE SetStorageDirectory \/ StartGame \/ Quit
  BY <1>2 DEF SetStorageDirectory, StartGame, Quit, store, scan
<1>3. CASE \E op \in Jobs : AccessLoaded(op) \/ AccessFromFile(op) \/ AccessUnsaved(op)
  <2>1. PICK op \in Jobs : AccessLoaded(op) \/ AccessFromFile(op) \/ AccessUnsaved(op)
    BY <1>3
  <2>2. /\ GameRuns /\ lock = "free"
        /\ UNCHANGED <<main, lock, job, stage>>
    BY <2>1 DEF AccessLoaded, AccessFromFile, AccessUnsaved, Touches, scan
  <2>3. PICK m, w : Serve(op, m, w)
    BY <2>1 DEF AccessLoaded, AccessFromFile, AccessUnsaved
  <2>4. \A p \in Ports : dirty'[p] => loaded'[p]
    BY <2>3 DEF Serve, TypeOK
  <2>. QED
    BY <2>2, <2>4
<1>4. CASE \E op \in Jobs : AccessCreate(op)
  <2>1. PICK op \in Jobs : AccessCreate(op)
    BY <1>4
  <2>. QED
    BY <2>1 DEF AccessCreate, Touches, GameRuns, scan
<1>5. CASE FinishCreate
  <2>1. Serve(job, Formatted, FALSE)
    BY <1>5 DEF FinishCreate
  <2>2. \A p \in Ports : dirty'[p] => loaded'[p]
    BY <2>1 DEF Serve, TypeOK
  <2>. QED
    BY <1>5, <2>2 DEF FinishCreate, scan
<1>6. CASE FlushBegin
  BY <1>6 DEF FlushBegin, store
<1>7. CASE FlushSkip
  BY <1>7 DEF FlushSkip, store
<1>8. CASE FlushOpen
  BY <1>8 DEF FlushOpen, store
<1>9. CASE FlushWrite
  BY <1>9 DEF FlushWrite, store
<1>10. CASE FlushClose
  BY <1>10 DEF FlushClose, TypeOK
<1>11. CASE FlushEnd
  <2>1. stage = "none"
    BY <1>11 DEF FlushEnd, TypeOK, Ports
  <2>. QED
    BY <1>11, <2>1 DEF FlushEnd, store, scan
<1>12. CASE UNCHANGED vars
  BY <1>12 DEF vars
<1>. QED
  BY <1>1, <1>2, <1>3, <1>4, <1>5, <1>6, <1>7, <1>8, <1>9, <1>10, <1>11, <1>12,
     NextCases

LEMMA InitInv == Init => TypeOK /\ LockInv
<1>. SUFFICES ASSUME Init PROVE TypeOK /\ LockInv
  OBVIOUS
<1>1. LockInv
  BY DEF Init, LockInv, Flushing
<1>2. mem \in [Ports -> Images]
  BY ControllerPakAssumption DEF Init
<1>3. loaded \in [Ports -> BOOLEAN] /\ dirty \in [Ports -> BOOLEAN]
  BY DEF Init
<1>4. file \in [Ports -> FileStates]
  BY DEF Init, FileStates
<1>5. at \in 0 .. NumPorts /\ faults \in 0 .. MaxFaults
  BY ControllerPakAssumption DEF Init
<1>6. TypeOK
  BY <1>2, <1>3, <1>4, <1>5 DEF Init, TypeOK
<1>. QED
  BY <1>1, <1>6

\* The store's state is well-typed in every reachable state.
THEOREM TypeCorrect == Spec => [](TypeOK /\ LockInv)
  BY InitInv, TypeStep, LockStep, PTL DEF Spec

-----------------------------------------------------------------------------
\* The game never runs without a directory, and a file being created holds no
\* image yet.
DirInv ==
  /\ main \notin {"down", "boot"} => dir
  /\ lock = "game" => file[job.port] \notin Images

LEMMA DirStep ==
  ASSUME TypeOK, LockInv, DirInv, [Next]_vars
  PROVE  DirInv'
<1>. USE ControllerPakAssumption DEF DirInv
<1>1. CASE Boot \/ Crash
  BY <1>1 DEF Boot, Crash, Fresh
<1>2. CASE SetStorageDirectory \/ StartGame \/ Quit
  BY <1>2 DEF SetStorageDirectory, StartGame, Quit
<1>3. CASE \E op \in Jobs : AccessLoaded(op) \/ AccessFromFile(op) \/ AccessUnsaved(op)
  <2>1. UNCHANGED <<main, dir, lock>> /\ lock = "free"
    BY <1>3 DEF AccessLoaded, AccessFromFile, AccessUnsaved, Touches
  <2>. QED
    BY <2>1
<1>4. CASE \E op \in Jobs : AccessCreate(op)
  <2>1. PICK op \in Jobs : AccessCreate(op)
    BY <1>4
  <2>2. op.port \in Ports
    BY DEF Jobs
  <2>3. file'[op.port] = Short /\ job' = op
    BY <2>1, <2>2 DEF AccessCreate, TypeOK
  <2>. QED
    BY <2>1, <2>3 DEF AccessCreate, Touches, GameRuns
<1>5. CASE FinishCreate
  BY <1>5 DEF FinishCreate
<1>6. CASE FlushBegin
  BY <1>6 DEF FlushBegin
<1>7. CASE FlushSkip \/ FlushOpen \/ FlushWrite \/ FlushClose \/ FlushEnd
  <2>1. lock = "main" /\ main \in {"flush", "lastflush"}
    BY <1>7 DEF FlushSkip, FlushOpen, FlushWrite, FlushClose, FlushEnd, LockInv, Flushing
  <2>2. lock' \in {"main", "free"} /\ dir' = dir
    BY <1>7, <2>1 DEF FlushSkip, FlushOpen, FlushWrite, FlushClose, FlushEnd
  <2>. QED
    BY <2>1, <2>2
<1>8. CASE UNCHANGED vars
  BY <1>8 DEF vars
<1>. QED
  BY <1>1, <1>2, <1>3, <1>4, <1>5, <1>6, <1>7, <1>8, NextCases

\* Nothing but the flush of a modified pak truncates a file that holds a whole
\* image, as long as every file that is there can be read.
THEOREM FileKept ==
  ASSUME "read" \notin FaultKinds
  PROVE  Spec => OnlyFlushTruncates
<1>1. ASSUME TypeOK, LockInv, DirInv, [Next]_vars,
             NEW p \in Ports, file[p] \in Images, file'[p] = Short
      PROVE  NeedsWrite(p)
  <2>. USE ControllerPakAssumption
  <2>1. CASE \E op \in Jobs : AccessCreate(op)
    <3>1. PICK op \in Jobs : AccessCreate(op)
      BY <2>1
    <3>2. file[op.port] \notin Images
      BY <3>1 DEF AccessCreate, FormatsPak, CanFail
    <3>. QED
      BY <1>1, <3>1, <3>2 DEF AccessCreate, TypeOK
  <2>2. CASE FinishCreate
    <3>1. job.port # p
      BY <1>1, <2>2 DEF DirInv, FinishCreate
    <3>. QED
      BY <1>1, <2>2, <3>1 DEF FinishCreate, TypeOK
  <2>3. CASE FlushOpen
    BY <1>1, <2>3 DEF FlushOpen, TypeOK
  <2>4. CASE FlushWrite
    <3>1. NeedsWrite(at)
      BY <1>1, <2>4 DEF FlushWrite, LockInv
    <3>. QED
      BY <1>1, <2>4, <3>1 DEF FlushWrite, TypeOK
  <2>5. CASE file' = file
    BY <1>1, <2>5
  <2>. QED
    BY <1>1, <2>1, <2>2, <2>3, <2>4, <2>5, NextCases
    DEF Boot, Crash, Fresh, SetStorageDirectory, StartGame, Quit, AccessLoaded,
        AccessFromFile, AccessUnsaved, FlushBegin, FlushSkip, FlushClose, FlushEnd, vars
<1>2. Init => DirInv
  BY DEF Init, DirInv
<1>3. TypeOK /\ LockInv /\ DirInv /\ [Next]_vars
        => [\A p \in Ports : file[p] \in Images /\ file'[p] = Short => NeedsWrite(p)]_vars
  BY <1>1
<1>. QED
  BY <1>2, <1>3, InitInv, TypeStep, LockStep, DirStep, PTL DEF Spec, OnlyFlushTruncates

-----------------------------------------------------------------------------
\* Clean paks are on disk, and so is the pak flush has just written.
DiskInv ==
  /\ CleanMeansOnDisk
  /\ stage = "written" => DiskImage(at) = mem[at]

\* Serving a job from the image the disk would give, or from memory, leaves the
\* pak clean only if its image is that one.
LEMMA ServeClean ==
  ASSUME TypeOK, NEW op \in Jobs, NEW m \in Images, NEW w \in BOOLEAN,
         Serve(op, m, w)
  PROVE  /\ ~dirty'[op.port] => mem'[op.port] = m /\ ~w
         /\ \A p \in Ports : p # op.port => /\ loaded'[p] = loaded[p]
                                            /\ mem'[p] = mem[p]
                                            /\ dirty'[p] = dirty[p]
<1>1. op.port \in Ports /\ op.block \in Blocks
  BY DEF Jobs
<1>2. \A p \in Ports : p # op.port => loaded'[p] = loaded[p]
  BY <1>1 DEF Serve, TypeOK
<1>3. CASE op.kind = "read"
  BY <1>1, <1>2, <1>3 DEF Serve, TypeOK
<1>4. CASE op.kind # "read"
  <2>1. /\ mem' = [mem EXCEPT ![op.port] = [m EXCEPT ![op.block] = op.data]]
        /\ dirty' = [dirty EXCEPT ![op.port] = w \/ m[op.block] # op.data]
    BY <1>4 DEF Serve
  <2>2. m[op.block] = op.data => [m EXCEPT ![op.block] = op.data] = m
    BY <1>1 DEF Images
  <2>. QED
    BY <1>1, <1>2, <2>1, <2>2 DEF TypeOK
<1>. QED
  BY <1>3, <1>4

LEMMA DiskStep ==
  ASSUME FaultKinds \subseteq {"open"},
         TypeOK, LockInv, DirInv, DiskInv, [Next]_vars
  PROVE  DiskInv'
<1>. USE ControllerPakAssumption
<1>1. CASE Boot \/ Crash
  <2>1. stage' = "none" /\ \A p \in Ports : ~loaded'[p]
    BY <1>1 DEF Boot, Crash, Fresh
  <2>. QED
    BY <2>1 DEF DiskInv, CleanMeansOnDisk
<1>2. CASE \/ SetStorageDirectory \/ StartGame \/ Quit \/ FlushBegin \/ FlushSkip
           \/ FlushEnd \/ UNCHANGED vars
  <2>1. UNCHANGED <<mem, loaded, dirty, file>>
    BY <1>2 DEF SetStorageDirectory, StartGame, Quit, FlushBegin, FlushSkip, FlushEnd,
                vars, store
  <2>2. stage' = "written" => stage = "written" /\ at' = at
    BY <1>2 DEF SetStorageDirectory, StartGame, Quit, FlushBegin, FlushSkip, FlushEnd,
                vars, scan
  <2>. QED
    BY <2>1, <2>2 DEF DiskInv, CleanMeansOnDisk, DiskImage
<1>3. CASE \E op \in Jobs : \/ AccessLoaded(op) \/ AccessFromFile(op) \/ AccessUnsaved(op)
  <2>1. PICK op \in Jobs : \/ AccessLoaded(op) \/ AccessFromFile(op) \/ AccessUnsaved(op)
    BY <1>3
  <2>2. op.port \in Ports
    BY DEF Jobs
  <2>3. stage' = "none" /\ file' = file
    BY <2>1 DEF AccessLoaded, AccessFromFile, AccessUnsaved, Touches, LockInv,
                scan, TypeOK
  <2>4. PICK m \in Images, w \in BOOLEAN :
           Serve(op, m, w) /\ (w \/ m = DiskImage(op.port))
    <3>1. CASE AccessLoaded(op)
      BY <2>2, <3>1 DEF AccessLoaded, TypeOK, DiskInv, CleanMeansOnDisk
    <3>2. CASE AccessFromFile(op)
      BY <2>2, <3>2 DEF AccessFromFile, DiskImage
    <3>3. CASE AccessUnsaved(op)
      <4>1. dir
        BY <3>3 DEF AccessUnsaved, Touches, GameRuns, DirInv
      <4>2. file[op.port] \notin Images
        BY <3>3, <4>1 DEF AccessUnsaved, FormatsPak, CanFail
      <4>. QED
        BY <3>3, <4>2 DEF AccessUnsaved, DiskImage
    <3>. QED
      BY <2>1, <3>1, <3>2, <3>3
  <2>5. \A p \in Ports : loaded'[p] /\ ~dirty'[p] => DiskImage(p) = mem'[p]
    BY <2>2, <2>4, ServeClean DEF DiskInv, CleanMeansOnDisk
  <2>. QED
    BY <2>3, <2>5 DEF DiskInv, CleanMeansOnDisk, DiskImage
<1>4. CASE \E op \in Jobs : AccessCreate(op)
  <2>1. PICK op \in Jobs : AccessCreate(op)
    BY <1>4
  <2>2. op.port \in Ports /\ ~loaded[op.port]
    BY <2>1 DEF Jobs, AccessCreate
  <2>3. stage' = "none" /\ UNCHANGED <<loaded, dirty>>
    BY <2>1 DEF AccessCreate, Touches, LockInv, scan, TypeOK
  <2>4. \A p \in Ports : p # op.port => mem'[p] = mem[p] /\ file'[p] = file[p]
    BY <2>1, <2>2 DEF AccessCreate, TypeOK
  <2>. QED
    BY <2>2, <2>3, <2>4 DEF DiskInv, CleanMeansOnDisk, DiskImage
<1>5. CASE FinishCreate
  <2>1. job \in Jobs /\ stage' = "none"
    BY <1>5 DEF FinishCreate, LockInv, scan, TypeOK
  <2>2. job.port \in Ports
    BY <2>1 DEF Jobs
  <2>3. file' = [file EXCEPT ![job.port] = Formatted]
    BY <1>5, ErrorsBounded DEF FinishCreate, TypeOK
  <2>4. Serve(job, Formatted, FALSE)
    BY <1>5 DEF FinishCreate
  <2>5. \A p \in Ports : loaded'[p] /\ ~dirty'[p] => DiskImage(p)' = mem'[p]
    <3>1. file'[job.port] = Formatted
      BY <2>2, <2>3 DEF TypeOK
    <3>2. \A p \in Ports : p # job.port => file'[p] = file[p]
      BY <2>3 DEF TypeOK
    <3>3. ~dirty'[job.port] => mem'[job.port] = Formatted
      BY <2>1, <2>4, ServeClean
    <3>4. \A p \in Ports : p # job.port => /\ loaded'[p] = loaded[p]
                                            /\ mem'[p] = mem[p]
                                            /\ dirty'[p] = dirty[p]
      BY <2>1, <2>4, ServeClean
    <3>5. ASSUME NEW p \in Ports, p # job.port, loaded'[p], ~dirty'[p]
          PROVE  DiskImage(p)' = mem'[p]
      BY <3>2, <3>4, <3>5 DEF DiskInv, CleanMeansOnDisk, DiskImage
    <3>6. ~dirty'[job.port] =>
             (IF file'[job.port] \in Images THEN file'[job.port] ELSE Formatted)
                = mem'[job.port]
      BY <3>1, <3>3
    <3>. QED
      BY <3>5, <3>6 DEF DiskImage
  <2>. QED
    BY <2>1, <2>5 DEF DiskInv, CleanMeansOnDisk
<1>6. CASE FlushOpen
  <2>1. at \in Ports /\ NeedsWrite(at) /\ stage' # "written"
    BY <1>6 DEF FlushOpen, TypeOK, Ports
  <2>2. UNCHANGED <<mem, loaded, dirty>>
    BY <1>6 DEF FlushOpen, store
  <2>3. \A p \in Ports : p # at => file'[p] = file[p]
    BY <1>6, <2>1 DEF FlushOpen, TypeOK
  <2>. QED
    BY <2>1, <2>2, <2>3 DEF DiskInv, CleanMeansOnDisk, DiskImage, NeedsWrite
<1>7. CASE FlushWrite
  <2>1. at \in Ports /\ NeedsWrite(at)
    BY <1>7 DEF FlushWrite, TypeOK, LockInv
  <2>2. UNCHANGED <<mem, loaded, dirty, at>>
    BY <1>7 DEF FlushWrite, store
  <2>3. file' = [file EXCEPT ![at] = mem[at]]
    <3>1. PICK e \in Errors("write") :
             file' = [file EXCEPT ![at] = IF e = 0 THEN mem[at] ELSE Short]
      BY <1>7 DEF FlushWrite
    <3>2. "write" \notin FaultKinds
      OBVIOUS
    <3>3. e = 0
      BY <3>2, ErrorsBounded DEF TypeOK
    <3>. QED
      BY <3>1, <3>3
  <2>. QED
    <3>1. \A p \in Ports : p # at => file'[p] = file[p]
      BY <2>3 DEF TypeOK
    <3>2. file'[at] = mem[at] /\ mem[at] \in Images
      BY <2>1, <2>3 DEF TypeOK
    <3>. QED
      BY <2>1, <2>2, <3>1, <3>2 DEF DiskInv, CleanMeansOnDisk, DiskImage, NeedsWrite
<1>8. CASE FlushClose
  <2>1. at \in Ports /\ DiskImage(at) = mem[at]
    BY <1>8 DEF FlushClose, TypeOK, DiskInv
  <2>2. /\ UNCHANGED <<mem, loaded, file>>
        /\ stage' = "none"
        /\ \A p \in Ports : p # at => dirty'[p] = dirty[p]
    BY <1>8, <2>1 DEF FlushClose, TypeOK
  <2>. QED
    BY <2>1, <2>2 DEF DiskInv, CleanMeansOnDisk, DiskImage
<1>. QED
  BY <1>1, <1>2, <1>3, <1>4, <1>5, <1>6, <1>7, <1>8, NextCases

\* g_dirty is exact: a loaded pak that is not dirty would be read back the same
\* by the next process, if the disk loses no bytes it accepted and gives back
\* every file it holds.
THEOREM CleanOnDisk ==
  ASSUME FaultKinds \subseteq {"open"}
  PROVE  Spec => []CleanMeansOnDisk
<1>1. Init => DirInv /\ DiskInv
  BY DEF Init, DirInv, DiskInv, CleanMeansOnDisk
<1>2. DiskInv => CleanMeansOnDisk
  BY DEF DiskInv
<1>. QED
  BY <1>1, <1>2, InitInv, TypeStep, LockStep, DirStep, DiskStep, PTL DEF Spec

-----------------------------------------------------------------------------
\* The last flush has dealt with the ports before `at', and with all of them
\* once it is over.
ScanInv ==
  /\ main = "lastflush" => \A p \in Ports : p < at /\ dirty[p] => p \in denied
  /\ CleanExitSaves

LEMMA ScanStep ==
  ASSUME TypeOK, LockInv, DirInv, ScanInv, [Next]_vars
  PROVE  ScanInv'
<1>. USE ControllerPakAssumption
<1>1. CASE \/ Boot \/ Crash \/ SetStorageDirectory \/ StartGame \/ Quit
           \/ \E op \in Jobs : \/ AccessLoaded(op) \/ AccessFromFile(op)
                               \/ AccessCreate(op) \/ AccessUnsaved(op)
           \/ FinishCreate
  <2>1. main' \notin {"lastflush", "done"}
    BY <1>1 DEF Boot, Crash, SetStorageDirectory, StartGame, Quit, AccessLoaded,
                AccessFromFile, AccessCreate, AccessUnsaved, Touches, GameRuns,
                FinishCreate, LockInv
  <2>. QED
    BY <2>1 DEF ScanInv, CleanExitSaves
<1>2. CASE FlushBegin
  <2>1. main \in {"loop", "exit"} /\ at' = 0 /\ main' # "done"
    BY <1>2 DEF FlushBegin, DirInv
  <2>. QED
    BY <2>1 DEF ScanInv, CleanExitSaves, Ports
<1>3. CASE FlushSkip
  <2>1. /\ main' = main /\ main # "done" /\ dirty' = dirty /\ denied' = denied
        /\ at' = at + 1 /\ at \in Ports
    BY <1>3 DEF FlushSkip, Flushing, store, TypeOK, Ports
  <2>2. ~dirty[at]
    BY <1>3, <2>1 DEF FlushSkip, NeedsWrite, LockInv
  <2>. QED
    BY <2>1, <2>2 DEF ScanInv, CleanExitSaves, Ports
<1>4. CASE FlushOpen
  <2>1. /\ main' = main /\ main # "done" /\ dirty' = dirty /\ at \in Ports
    BY <1>4 DEF FlushOpen, Flushing, store, TypeOK, Ports
  <2>2. \/ at' = at /\ denied' = denied
        \/ at' = at + 1 /\ denied' = denied \cup {at}
    BY <1>4 DEF FlushOpen
  <2>. QED
    BY <2>1, <2>2 DEF ScanInv, CleanExitSaves, Ports
<1>5. CASE FlushWrite
  BY <1>5 DEF FlushWrite, Flushing, store, ScanInv, CleanExitSaves
<1>6. CASE FlushClose
  <2>1. /\ main' = main /\ main # "done" /\ denied' = denied
        /\ at' = at + 1 /\ at \in Ports
    BY <1>6 DEF FlushClose, Flushing, TypeOK
  <2>2. ~dirty'[at] /\ \A p \in Ports : p # at => dirty'[p] = dirty[p]
    BY <1>6, <2>1 DEF FlushClose, TypeOK
  <2>. QED
    BY <2>1, <2>2 DEF ScanInv, CleanExitSaves, Ports
<1>7. CASE FlushEnd
  <2>1. /\ main \in {"flush", "lastflush"} /\ at = NumPorts
        /\ main' = IF main = "flush" THEN "loop" ELSE "done"
        /\ UNCHANGED <<dirty, denied>>
    BY <1>7 DEF FlushEnd, Flushing, store, scan
  <2>2. main = "lastflush" => \A p \in Ports : dirty[p] => p \in denied
    BY <2>1 DEF ScanInv, Ports
  <2>. QED
    BY <2>1, <2>2 DEF ScanInv, CleanExitSaves
<1>8. CASE UNCHANGED vars
  BY <1>8 DEF vars, scan, ScanInv, CleanExitSaves
<1>. QED
  BY <1>1, <1>2, <1>3, <1>4, <1>5, <1>6, <1>7, <1>8, NextCases

\* The flush on the way out visits every port after the game's last write:
\* only a file that refused to open is left behind, whatever the disk does.
THEOREM ExitSaves == Spec => []CleanExitSaves
<1>1. Init => DirInv /\ ScanInv
  BY DEF Init, DirInv, ScanInv, CleanExitSaves
<1>2. ScanInv => CleanExitSaves
  BY DEF ScanInv
<1>. QED
  BY <1>1, <1>2, InitInv, TypeStep, LockStep, DirStep, ScanStep, PTL DEF Spec

-----------------------------------------------------------------------------
LEMMA DiskImageType ==
  ASSUME TypeOK, NEW p \in Ports
  PROVE  DiskImage(p) \in Images /\ SeenImage[p] \in Images
  BY ControllerPakAssumption DEF TypeOK, DiskImage, SeenImage

\* A step the game cannot see.
LEMMA SameView ==
  ASSUME \A p \in Ports : /\ loaded'[p] = loaded[p] /\ dirty'[p] = dirty[p]
                          /\ loaded[p] => mem'[p] = mem[p]
                          /\ ~loaded[p] => DiskImage(p)' = DiskImage(p),
         reply' = reply
  PROVE  UNCHANGED Store!vars
<1>1. SeenImage' = SeenImage
  BY DEF SeenImage
<1>2. Unmodified' = Unmodified
  BY DEF Unmodified
<1>. QED
  BY <1>1, <1>2 DEF Store!vars

\* Serving a job from the image the game sees is a block access of the store.
LEMMA ServeView ==
  ASSUME TypeOK, NEW op \in Jobs, Serve(op, SeenImage[op.port], dirty[op.port]),
         \A p \in Ports : p # op.port => DiskImage(p)' = DiskImage(p)
  PROVE  Store!Next
<1>1. PICK m, w : m = SeenImage[op.port] /\ w = dirty[op.port]
  OBVIOUS
<1>2. op.port \in Ports /\ op.block \in Blocks
  BY DEF Jobs
<1>3. m \in Images /\ w \in BOOLEAN /\ Serve(op, m, w)
  BY <1>1, <1>2, DiskImageType DEF TypeOK
<1>4. \A p \in Ports : p # op.port => /\ loaded'[p] = loaded[p]
                                      /\ mem'[p] = mem[p]
                                      /\ dirty'[p] = dirty[p]
  BY <1>3, ServeClean
<1>5. \A p \in Ports : p # op.port => SeenImage'[p] = SeenImage[p]
  BY <1>4 DEF SeenImage
<1>6. loaded'[op.port]
  BY <1>2, <1>3 DEF Serve, TypeOK
<1>7. SeenImage'[op.port] = mem'[op.port]
  BY <1>2, <1>6 DEF SeenImage
<1>8. CASE op.kind = "read"
  <2>1. mem'[op.port] = m /\ dirty'[op.port] = w /\ reply' = m[op.block]
    BY <1>2, <1>3, <1>8 DEF Serve, TypeOK
  <2>2. SeenImage' = SeenImage
    BY <1>1, <1>5, <1>7, <2>1 DEF SeenImage
  <2>3. Unmodified' = Unmodified
    BY <1>1, <1>4, <2>1 DEF Unmodified
  <2>4. Store!ReadBlock(op.port, op.block)
    BY <1>1, <2>1, <2>2, <2>3 DEF Store!ReadBlock
  <2>. QED
    BY <1>2, <2>4 DEF Store!Next
<1>9. CASE op.kind # "read"
  <2>1. /\ mem'[op.port] = [m EXCEPT ![op.block] = op.data]
        /\ dirty'[op.port] = (w \/ m[op.block] # op.data)
        /\ reply' = reply /\ op.data \in Bytes
    <3>1. op.data \in Bytes
      BY <1>9 DEF Jobs
    <3>2. /\ mem' = [mem EXCEPT ![op.port] = [m EXCEPT ![op.block] = op.data]]
          /\ dirty' = [dirty EXCEPT ![op.port] = w \/ m[op.block] # op.data]
          /\ reply' = reply
      BY <1>3, <1>9 DEF Serve
    <3>. QED
      BY <1>2, <3>1, <3>2 DEF TypeOK
  <2>2. SeenImage' = [SeenImage EXCEPT ![op.port] = [m EXCEPT ![op.block] = op.data]]
    BY <1>2, <1>5, <1>7, <2>1 DEF SeenImage
  <2>3. Unmodified' = IF m[op.block] = op.data THEN Unmodified ELSE Unmodified \ {op.port}
    BY <1>1, <1>2, <1>4, <2>1 DEF Unmodified
  <2>4. Store!WriteBlock(op.port, op.block, op.data)
    BY <1>1, <2>1, <2>2, <2>3 DEF Store!WriteBlock
  <2>. QED
    BY <1>2, <2>1, <2>4 DEF Store!Next
<1>. QED
  BY <1>8, <1>9

\* The end of a process and the start of the next show what the disk holds.
LEMMA FreshView ==
  ASSUME TypeOK, LockInv, DiskInv, Fresh
  PROVE  Store!Next
<1>1. \A p \in Ports : ~loaded'[p] /\ ~dirty'[p]
  BY DEF Fresh
<1>2. file' = file /\ reply' = reply
  BY DEF Fresh
<1>3. \A p \in Ports : SeenImage'[p] = DiskImage(p)
  BY <1>1, <1>2 DEF SeenImage, DiskImage
<1>4. SeenImage' \in [Ports -> Images]
  <2>1. \A p \in Ports : SeenImage'[p] \in Images
    BY <1>3, DiskImageType
  <2>. QED
    BY <2>1 DEF SeenImage
<1>5. \A p \in Unmodified : SeenImage'[p] = SeenImage[p]
  BY <1>3 DEF Unmodified, SeenImage, DiskInv, CleanMeansOnDisk
<1>6. Unmodified' = Ports
  BY <1>1 DEF Unmodified
<1>. QED
  BY <1>2, <1>4, <1>5, <1>6 DEF Store!Next, Store!Restart, Store!Images, Images

LEMMA StoreStep ==
  ASSUME FaultKinds \subseteq {"open"},
         TypeOK, LockInv, DirInv, DiskInv, [Next]_vars
  PROVE  [Store!Next]_Store!vars
<1>1. CASE Boot \/ Crash
  BY <1>1, FreshView DEF Boot, Crash
<1>2. CASE \/ SetStorageDirectory \/ StartGame \/ Quit \/ FlushBegin \/ FlushSkip
           \/ FlushEnd \/ UNCHANGED vars
  <2>1. UNCHANGED <<mem, loaded, dirty, file, reply>>
    BY <1>2 DEF SetStorageDirectory, StartGame, Quit, FlushBegin, FlushSkip, FlushEnd,
                vars, store
  <2>. QED
    BY <2>1, SameView DEF DiskImage
<1>3. ASSUME NEW op \in Jobs, AccessLoaded(op)
      PROVE  Store!Next
  <2>1. op.port \in Ports
    BY DEF Jobs
  <2>2. SeenImage[op.port] = mem[op.port] /\ file' = file
    BY <1>3, <2>1 DEF AccessLoaded, SeenImage
  <2>3. Serve(op, SeenImage[op.port], dirty[op.port])
    BY <1>3, <2>2 DEF AccessLoaded
  <2>. QED
    BY <2>2, <2>3, ServeView DEF DiskImage
<1>4. ASSUME NEW op \in Jobs, AccessFromFile(op)
      PROVE  Store!Next
  <2>1. op.port \in Ports
    BY DEF Jobs
  <2>2. SeenImage[op.port] = file[op.port] /\ file' = file /\ dirty[op.port] = FALSE
    BY <1>4, <2>1 DEF AccessFromFile, SeenImage, DiskImage, LockInv, TypeOK
  <2>3. Serve(op, SeenImage[op.port], dirty[op.port])
    BY <1>4, <2>2 DEF AccessFromFile
  <2>. QED
    BY <2>2, <2>3, ServeView DEF DiskImage
<1>5. ASSUME NEW op \in Jobs, AccessUnsaved(op)
      PROVE  Store!Next
  <2>1. op.port \in Ports
    BY DEF Jobs
  <2>2. ~loaded[op.port] /\ file[op.port] \notin Images /\ file' = file
    BY <1>5 DEF AccessUnsaved, Touches, GameRuns, DirInv, FormatsPak, CanFail
  <2>3. SeenImage[op.port] = Formatted /\ dirty[op.port] = FALSE
    BY <2>1, <2>2 DEF SeenImage, DiskImage, LockInv, TypeOK
  <2>4. Serve(op, SeenImage[op.port], dirty[op.port])
    BY <1>5, <2>3 DEF AccessUnsaved
  <2>. QED
    BY <2>2, <2>4, ServeView DEF DiskImage
<1>6. ASSUME NEW op \in Jobs, AccessCreate(op)
      PROVE  UNCHANGED Store!vars
  <2>1. op.port \in Ports
    BY DEF Jobs
  <2>2. /\ ~loaded[op.port] /\ file[op.port] \notin Images
        /\ UNCHANGED <<loaded, dirty, reply>>
    BY <1>6 DEF AccessCreate, FormatsPak, CanFail
  <2>3. file'[op.port] \notin Images
    BY <1>6, <2>1, ControllerPakAssumption DEF AccessCreate, TypeOK
  <2>4. \A p \in Ports : p # op.port => mem'[p] = mem[p] /\ file'[p] = file[p]
    BY <1>6, <2>1 DEF AccessCreate, TypeOK
  <2>. QED
    BY <2>2, <2>3, <2>4, SameView DEF DiskImage
<1>7. CASE FinishCreate
  <2>1. PICK op \in Jobs : op = job
    BY <1>7 DEF FinishCreate, LockInv, TypeOK
  <2>2. op.port \in Ports
    BY DEF Jobs
  <2>3. ~loaded[op.port] /\ file[op.port] \notin Images
    BY <1>7, <2>1 DEF FinishCreate, LockInv, DirInv
  <2>4. SeenImage[op.port] = Formatted /\ dirty[op.port] = FALSE
    BY <2>2, <2>3 DEF SeenImage, DiskImage, LockInv, TypeOK
  <2>5. Serve(op, SeenImage[op.port], dirty[op.port])
    BY <1>7, <2>1, <2>4 DEF FinishCreate
  <2>6. \A p \in Ports : p # op.port => file'[p] = file[p]
    BY <1>7, <2>1 DEF FinishCreate, TypeOK
  <2>. QED
    BY <2>5, <2>6, ServeView DEF DiskImage
<1>8. CASE FlushOpen \/ FlushWrite
  <2>1. at \in Ports /\ loaded[at]
    <3>1. CASE FlushOpen
      BY <3>1, ControllerPakAssumption DEF FlushOpen, TypeOK, Ports, NeedsWrite
    <3>2. CASE FlushWrite
      BY <3>2 DEF FlushWrite, TypeOK, NeedsWrite, LockInv
    <3>. QED
      BY <1>8, <3>1, <3>2
  <2>2. UNCHANGED <<mem, loaded, dirty, reply>>
    BY <1>8 DEF FlushOpen, FlushWrite, store
  <2>3. \A p \in Ports : p # at => file'[p] = file[p]
    BY <1>8, <2>1 DEF FlushOpen, FlushWrite, TypeOK
  <2>. QED
    BY <2>1, <2>2, <2>3, SameView DEF DiskImage
<1>9. CASE FlushClose
  <2>1. PICK p \in Ports : p = at
    BY <1>9 DEF FlushClose, TypeOK
  <2>2. /\ UNCHANGED <<mem, loaded, file, reply>>
        /\ dirty' = [dirty EXCEPT ![p] = FALSE]
    BY <1>9, <2>1 DEF FlushClose
  <2>3. SeenImage' = SeenImage
    BY <2>2 DEF SeenImage, DiskImage
  <2>4. Unmodified' = Unmodified \cup {p}
    BY <2>2 DEF Unmodified, TypeOK
  <2>5. Store!Persist(p)
    BY <2>2, <2>3, <2>4 DEF Store!Persist
  <2>. QED
    BY <2>5 DEF Store!Next
<1>. QED
  BY <1>1, <1>2, <1>3, <1>4, <1>5, <1>6, <1>7, <1>8, <1>9, NextCases

\* Loading on first touch, the file, the flush and the end of the process are
\* invisible to the game: the store is one image per port, and only a modified
\* one may be lost.
THEOREM StoreKept ==
  ASSUME FaultKinds \subseteq {"open"}
  PROVE  Spec => ImplementsPakStore
<1>1. Init => DirInv /\ DiskInv
  BY DEF Init, DirInv, DiskInv, CleanMeansOnDisk
<1>2. Init => Store!Init
  <2>1. SUFFICES ASSUME Init
                 PROVE  Store!Init
    OBVIOUS
  <2>2. SeenImage \in [Ports -> Images]
    <3>1. \A p \in Ports : SeenImage[p] \in Images
      BY <2>1, InitInv, DiskImageType
    <3>. QED
      BY <3>1 DEF SeenImage
  <2>3. Unmodified = Ports /\ reply = NoReply
    BY <2>1 DEF Init, Unmodified
  <2>. QED
    BY <2>2, <2>3 DEF Store!Init, Store!Images, Images
<1>. QED
  BY <1>1, <1>2, InitInv, TypeStep, LockStep, DirStep, DiskStep, StoreStep, PTL
  DEF Spec, ImplementsPakStore, Store!Spec
=============================================================================
