------------------------------ MODULE Overlays ------------------------------
(***************************************************************************)
(* src/sections.cpp: the wrappers around the game's two file loaders, the  *)
(* eviction loop under g_load_mutex, and the end of the process on a       *)
(* lookup miss.  The game loads compressed code files over one another at  *)
(* fixed addresses; every call is resolved through librecomp's function    *)
(* map, so the map has to follow what is in RDRAM.                         *)
(*                                                                         *)
(* file_load ("whole") announces the file before its bytes arrive; the     *)
(* streamed loader ("streamed") brings a piece per call and announces the  *)
(* file on the call that completes it.  Threads may interleave wherever    *)
(* the mutex lets them.                                                    *)
(***************************************************************************)
EXTENDS Integers

CONSTANTS
  NumFiles,   \* kFileCount
  DataIds,    \* file table entries that are not code
  Vram,       \* Vram[f], Size[f]: link address and size of code file f;
  Size,       \* Size[d] also for data files
  Funcs,      \* Funcs[f]: where f's functions start
  Dests,      \* Dests[i]: where the game may load entry i
  Addr,       \* addresses of RDRAM
  None

Files == 0 .. NumFiles - 1   \* indices into kCodeFiles
Ids == Files \cup DataIds
Range(start, id) == start .. start + Size[id] - 1
Loaders == {"whole", "streamed"}

ASSUME OverlaysAssumption ==
  /\ NumFiles \in Nat
  /\ DataIds \cap Files = {}
  /\ Addr \subseteq Int
  /\ Vram \in [Files -> Int]
  /\ Size \in [Ids -> Nat \ {0}]
  /\ \A f \in Files : Funcs[f] \subseteq Range(Vram[f], f)
  /\ \A f \in Files : Range(Vram[f], f) \subseteq Addr
  /\ \A i \in Ids : \A d \in Dests[i] : d \in Int /\ Range(d, i) \subseteq Addr
  /\ None \notin Ids \cup (Ids \X Nat)
  /\ None \notin Loaders

Idle == [phase |-> "idle", id |-> None, dest |-> None, done |-> 0]

VARIABLES
  hooked,      \* loaders with a wrapper in the function map
  loads,       \* loads[l]: the call, or the calls, in progress on loader l:
               \* phase "idle", "announce" or "copy"
  holder,      \* loader whose thread holds g_load_mutex, or None
  at,          \* the loop variable i of announce_load
  registered,  \* {i : g_loaded_at[i] # 0}, each at its link address
  func_map,    \* librecomp's map: the file whose function is at an address
  ram,         \* ram[a] = <<i, n>>: byte n of entry i, or None
  status       \* "running", "missing" (in on_lookup_failure) or "ended"

vars == <<hooked, loads, holder, at, registered, func_map, ram, status>>

-----------------------------------------------------------------------------
Overlaps(f, g) == /\ Vram[f] < Vram[g] + Size[g]
                  /\ Vram[g] < Vram[f] + Size[f]

\* HH_NO_STREAMED_LOADS leaves the streamed loader unwrapped.
Init ==
  /\ hooked \in {{"whole"}, Loaders}
  /\ loads = [l \in Loaders |-> Idle]
  /\ holder = None
  /\ at = 0
  /\ registered = {}
  /\ func_map = [a \in Addr |-> None]
  /\ ram = [a \in Addr |-> None]
  /\ status = "running"

\* The next process: static storage and RDRAM start over.
Restart ==
  /\ status = "ended"
  /\ hooked' \in {{"whole"}, Loaders}
  /\ loads' = [l \in Loaders |-> Idle]
  /\ holder' = None
  /\ at' = 0
  /\ registered' = {}
  /\ func_map' = [a \in Addr |-> None]
  /\ ram' = [a \in Addr |-> None]
  /\ status' = "running"

-----------------------------------------------------------------------------
\* Entries i at address d and j at address e share an address.
Meet(d, i, e, j) == d < e + Size[j] /\ e < d + Size[i]

\* The game calls loader l.  A hooked file_load announces first.  Two loads
\* into the same memory at once would break the game on a console too.
BeginLoad(l, i, d) ==
  /\ status = "running"
  /\ loads[l] = Idle
  /\ \A k \in Loaders : loads[k] # Idle => ~Meet(d, i, loads[k].dest, loads[k].id)
  /\ loads' = [loads EXCEPT ![l] =
                 [phase |-> IF l = "whole" /\ l \in hooked THEN "announce" ELSE "copy",
                  id |-> i, dest |-> d, done |-> 0]]
  /\ UNCHANGED <<hooked, holder, at, registered, func_map, ram, status>>

\* mutant: both wrappers call the original after the announcement
Announced_CallsThrough(l) == loads' = [loads EXCEPT ![l].phase = "copy"]

\* What follows the announcement: file_load itself, or the streamed loader's
\* return to the game.
Announced(l) ==
  loads' = [loads EXCEPT ![l] = IF l = "whole" THEN [@ EXCEPT !.phase = "copy"] ELSE Idle]

\* code_file_index finds nothing: a data file.
SkipData(l) ==
  /\ loads[l].phase = "announce"
  /\ loads[l].id \notin Files
  /\ Announced(l)
  /\ UNCHANGED <<hooked, holder, at, registered, func_map, ram, status>>

Lock(l) ==
  /\ loads[l].phase = "announce"
  /\ loads[l].id \in Files
  /\ holder = None
  /\ holder' = l
  /\ at' = 0
  /\ UNCHANGED <<hooked, loads, registered, func_map, ram, status>>

\* unload_overlay_by_id erases the entries that still belong to file f.
Unload(f) == func_map' = [a \in Addr |-> IF func_map[a] = f THEN None ELSE func_map[a]]

Evicted_Inside(f, g) ==   \* mutant: misses a file that only partly overlaps
  /\ f \in registered
  /\ Vram[g] <= Vram[f]
  /\ Vram[f] + Size[f] <= Vram[g] + Size[g]

Evicted_Touching(f, g) ==   \* mutant: <= for <
  /\ f \in registered
  /\ Vram[f] <= Vram[g] + Size[g]
  /\ Vram[g] <= Vram[f] + Size[f]

Evicted(f, g) == f \in registered /\ Overlaps(f, g)

Announcing == holder # None /\ loads[holder].phase = "announce"

Evict_KeepsEntry ==   \* mutant: g_loaded_at[i] is not reset
  /\ Announcing
  /\ at < NumFiles
  /\ at' = at + 1
  /\ IF Evicted(at, loads[holder].id) THEN Unload(at) ELSE UNCHANGED func_map
  /\ UNCHANGED <<hooked, loads, holder, registered, ram, status>>

\* One turn of the loop over the registered files.
Evict ==
  /\ Announcing
  /\ at < NumFiles
  /\ at' = at + 1
  /\ IF Evicted(at, loads[holder].id)
       THEN registered' = registered \ {at} /\ Unload(at)
       ELSE UNCHANGED <<registered, func_map>>
  /\ UNCHANGED <<hooked, loads, holder, ram, status>>

\* load_overlay_by_id at the link address, wherever the bytes go.
Register ==
  /\ Announcing
  /\ at = NumFiles
  /\ LET f == loads[holder].id
     IN /\ registered' = registered \cup {f}
        /\ func_map' = [a \in Addr |-> IF a \in Funcs[f] THEN f ELSE func_map[a]]
  /\ Announced(holder)
  /\ holder' = None
  /\ at' = 0
  /\ UNCHANGED <<hooked, ram, status>>

-----------------------------------------------------------------------------
Copy_PastEnd(l) ==   \* mutant: one piece too many
  /\ loads[l].phase = "copy"
  /\ loads[l].done <= Size[loads[l].id]
  /\ ram' = [ram EXCEPT ![loads[l].dest + loads[l].done] = <<loads[l].id, loads[l].done>>]
  /\ loads' = [loads EXCEPT ![l].done = @ + 1]
  /\ UNCHANGED <<hooked, holder, at, registered, func_map, status>>

\* The loader brings the next piece.  Another loader's piece may be on top of
\* it afterwards.
Copy(l) ==
  /\ loads[l].phase = "copy"
  /\ loads[l].done < Size[loads[l].id]
  /\ ram' = [ram EXCEPT ![loads[l].dest + loads[l].done] = <<loads[l].id, loads[l].done>>]
  /\ loads' = [loads EXCEPT ![l].done = @ + 1]
  /\ UNCHANGED <<hooked, holder, at, registered, func_map, status>>

Complete_Silent(l) ==   \* mutant: only file_load is announced (issue 001)
  /\ loads[l].phase = "copy"
  /\ loads[l].done = Size[loads[l].id]
  /\ loads' = [loads EXCEPT ![l] = Idle]
  /\ UNCHANGED <<hooked, holder, at, registered, func_map, ram, status>>

\* The loader returns: file_load to the game, a completing streamed call to
\* its wrapper.
Complete(l) ==
  /\ loads[l].phase = "copy"
  /\ loads[l].done = Size[loads[l].id]
  /\ loads' = [loads EXCEPT ![l] = IF l = "streamed" /\ l \in hooked
                                     THEN [@ EXCEPT !.phase = "announce"] ELSE Idle]
  /\ UNCHANGED <<hooked, holder, at, registered, func_map, ram, status>>

-----------------------------------------------------------------------------
\* The game calls an address where the map has no function.
Miss(a) ==
  /\ status = "running"
  /\ func_map[a] = None
  /\ status' = "missing"
  /\ UNCHANGED <<hooked, loads, holder, at, registered, func_map, ram>>

\* on_lookup_failure lists the loaded files, under the mutex, and ends the
\* process.
ReportMiss ==
  /\ status = "missing"
  /\ holder = None
  /\ status' = "ended"
  /\ UNCHANGED <<hooked, loads, holder, at, registered, func_map, ram>>

LoaderStep(l) ==
  /\ status # "ended"
  /\ \/ SkipData(l) \/ Lock(l) \/ Copy(l) \/ Complete(l)
     \/ holder = l /\ (Evict \/ Register)

Next ==
  \/ \E l \in Loaders, i \in Ids : \E d \in Dests[i] : BeginLoad(l, i, d)
  \/ \E l \in Loaders : LoaderStep(l)
  \/ \E a \in Addr : Miss(a)
  \/ ReportMiss
  \/ Restart

\* A thread inside a wrapper or a loader keeps running, and one that waits for
\* the mutex gets it: strong fairness, for the mutex may be taken in between.
Fairness ==
  /\ \A l \in Loaders : SF_vars(LoaderStep(l))
  /\ WF_vars(ReportMiss)

Spec == Init /\ [][Next]_vars
FairSpec == Spec /\ Fairness

-----------------------------------------------------------------------------
LoadTypes == [phase : {"announce", "copy"}, id : Ids, dest : Int, done : Nat] \cup {Idle}

\* Every variable stays in its range; no loader writes past its file.
TypeOK ==
  /\ hooked \subseteq Loaders
  /\ loads \in [Loaders -> LoadTypes]
  /\ \A l \in Loaders : loads[l] # Idle =>
       /\ loads[l].dest \in Dests[loads[l].id]
       /\ loads[l].done <= Size[loads[l].id]
  /\ holder \in Loaders \cup {None}
  /\ at \in 0 .. NumFiles
  /\ registered \subseteq Files
  /\ func_map \in [Addr -> Files \cup {None}]
  /\ ram \in [Addr -> (Ids \X Nat) \cup {None}]
  /\ status \in {"running", "missing", "ended"}

\* No two files g_loaded_at holds share an address, while the loop runs or
\* after it (announce_load, sections.cpp:99-116).
RegisteredDisjoint ==
  \A f, g \in registered : f # g => ~Overlaps(f, g)

\* The map and g_loaded_at agree: a registered file owns all its functions,
\* and no evicted one is left behind (the comment at sections.cpp:105-109).
MapExact ==
  \A a \in Addr, f \in Files :
     func_map[a] = f <=> f \in registered /\ a \in Funcs[f]

-----------------------------------------------------------------------------
\* All of f is in RDRAM, at its link address.
Resident(f) == \A n \in 0 .. Size[f] - 1 : ram[Vram[f] + n] = <<f, n>>

\* A load in progress touches f, by its bytes or by its registration.
InFlight(f) ==
  \E l \in Loaders :
     /\ loads[l] # Idle
     /\ \/ Meet(loads[l].dest, loads[l].id, Vram[f], f)
        \/ loads[l].id \in Files /\ Overlaps(loads[l].id, f)

\* Code files the game may also load away from their link address, as data
\* (file 24; docs/GAME-INTERNALS.md:177-178).
Movable == {g \in Files : Dests[g] # {Vram[g]}}

\* A file that is in RDRAM can be called: whichever loader brought it and
\* whatever else is being loaded next to it (issue 001).  Only a file whose
\* registration overlaps f without its bytes, a heap copy, may hide f.
ResidentResolves ==
  \A f \in Files :
     /\ hooked = Loaders
     /\ Resident(f)
     /\ ~InFlight(f)
     /\ \A g \in Movable : g # f => ~Overlaps(g, f)
     => \A a \in Funcs[f] : func_map[a] = f

\* The loop, its mutex and the order of eviction are invisible to a caller:
\* a file replaces what it overlaps at one point in time.
Now == INSTANCE CodeMap WITH target <- func_map
PendingMap ==
  IF holder = None THEN func_map ELSE Now!Announced(func_map, loads[holder].id)
Map == INSTANCE CodeMap WITH target <- PendingMap
ImplementsCodeMap == Map!Spec

\* Every load the game starts ends, if the process does not, and a miss always
\* ends the process: nobody waits on g_load_mutex for ever.
LoadsEnd ==
  /\ \A l \in Loaders : loads[l] # Idle ~> loads[l] = Idle \/ status = "ended"
  /\ status = "missing" ~> status = "ended"
=============================================================================
