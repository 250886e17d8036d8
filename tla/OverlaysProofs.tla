--------------------------- MODULE OverlaysProofs ---------------------------
(***************************************************************************)
(* Proofs about Overlays, for any number of code files, any layout of them *)
(* and any loads the game makes.                                           *)
(***************************************************************************)
EXTENDS Overlays, TLAPS

-----------------------------------------------------------------------------
\* What the function map depends on stays typed.
MapTypes ==
  /\ holder \in Loaders \cup {None}
  /\ at \in 0 .. NumFiles
  /\ registered \subseteq Files
  /\ func_map \in [Addr -> Files \cup {None}]
  /\ DOMAIN loads = Loaders
  /\ holder # None => /\ holder \in Loaders
                      /\ loads[holder].phase = "announce"
                      /\ loads[holder].id \in Files

\* announce_load's loop: the files before `at' do not overlap the new one.
LoopInv ==
  holder # None =>
    \A g \in registered : g < at => ~Overlaps(g, loads[holder].id)

IInv == MapTypes /\ LoopInv /\ RegisteredDisjoint /\ MapExact

LEMMA OverlapsSymmetric ==
  ASSUME NEW f, NEW g
  PROVE  Overlaps(f, g) <=> Overlaps(g, f)
BY DEF Overlaps

\* Files whose functions share an address overlap.
LEMMA SharedMeansOverlap ==
  ASSUME NEW f \in Files, NEW g \in Files, NEW a \in Funcs[f], a \in Funcs[g]
  PROVE  Overlaps(f, g)
<1>1. a \in Range(Vram[f], f) /\ a \in Range(Vram[g], g)
  BY OverlaysAssumption
<1>2. /\ Vram[f] \in Int /\ Vram[g] \in Int
      /\ Size[f] \in Nat /\ Size[g] \in Nat
  BY OverlaysAssumption DEF Ids
<1>. QED
  BY <1>1, <1>2 DEF Range, Overlaps

\* A step that leaves the map alone, and the thread that holds the mutex.
LEMMA QuietStep ==
  ASSUME IInv, UNCHANGED <<holder, at, registered, func_map>>,
         DOMAIN loads' = Loaders,
         holder # None => loads'[holder] = loads[holder]
  PROVE  IInv'
BY DEF IInv, MapTypes, LoopInv, RegisteredDisjoint, MapExact

LEMMA InitIInv ==
  ASSUME Init
  PROVE  IInv
<1>1. MapTypes /\ LoopInv /\ RegisteredDisjoint
  BY OverlaysAssumption DEF Init, MapTypes, LoopInv, RegisteredDisjoint
<1>2. MapExact
  BY OverlaysAssumption DEF Init, MapExact, Ids
<1>. QED
  BY <1>1, <1>2 DEF IInv

LEMMA EvictStep ==
  ASSUME IInv, Evict
  PROVE  IInv'
<1>. DEFINE f == loads[holder].id
<1>1. /\ holder \in Loaders /\ holder # None /\ f \in Files
      /\ at \in 0 .. NumFiles /\ at < NumFiles
      /\ holder' = holder /\ loads' = loads /\ at' = at + 1
      /\ NumFiles \in Nat
  BY OverlaysAssumption DEF Evict, Announcing, IInv, MapTypes
<1>2. at \in Files
  BY <1>1 DEF Files
<1>3. CASE Evicted(at, f)
  <2>1. registered' = registered \ {at} /\ Unload(at)
    BY <1>3 DEF Evict
  <2>2. at # None
    BY <1>2, OverlaysAssumption DEF Ids
  <2>3. func_map' \in [Addr -> Files \cup {None}]
    BY <2>1 DEF Unload, IInv, MapTypes
  <2>4. MapTypes'
    BY <1>1, <2>1, <2>3 DEF MapTypes, IInv
  <2>5. \A g \in registered' : g < at + 1 => ~Overlaps(g, f)
    <3>1. ASSUME NEW g \in registered', g < at + 1
          PROVE  g \in registered /\ g < at
      <4>1. g \in registered /\ g # at
        BY <2>1
      <4>2. g \in 0 .. NumFiles - 1
        BY <4>1 DEF IInv, MapTypes, Files
      <4>. QED
        BY <1>1, <3>1, <4>1, <4>2
    <3>. QED
      BY <1>1, <3>1 DEF IInv, LoopInv
  <2>6. RegisteredDisjoint'
    BY <2>1 DEF IInv, RegisteredDisjoint
  <2>7. MapExact'
    BY <1>2, <2>1, <2>2, OverlaysAssumption DEF IInv, MapExact, Unload, MapTypes, Ids
  <2>. QED
    BY <1>1, <2>4, <2>5, <2>6, <2>7 DEF IInv, LoopInv
<1>4. CASE ~Evicted(at, f)
  <2>1. UNCHANGED <<registered, func_map>>
    BY <1>4 DEF Evict
  <2>2. MapTypes'
    BY <1>1, <2>1 DEF MapTypes, IInv
  <2>3. \A g \in registered : g < at + 1 => ~Overlaps(g, f)
    <3>1. ASSUME NEW g \in registered, g < at + 1
          PROVE  g < at \/ g = at
      BY <1>1, <3>1 DEF IInv, MapTypes, Files
    <3>2. at \in registered => ~Overlaps(at, f)
      BY <1>4 DEF Evicted
    <3>. QED
      BY <1>1, <3>1, <3>2 DEF IInv, LoopInv
  <2>. QED
    BY <1>1, <2>1, <2>2, <2>3 DEF IInv, LoopInv, RegisteredDisjoint, MapExact
<1>. QED
  BY <1>3, <1>4

\* When the loop ends, nothing registered overlaps the new file but itself.
LEMMA LoopDone ==
  ASSUME IInv, holder # None, at = NumFiles
  PROVE  \A g \in registered : ~Overlaps(g, loads[holder].id)
BY OverlaysAssumption DEF IInv, LoopInv, MapTypes, Files

LEMMA RegisterStep ==
  ASSUME IInv, Register
  PROVE  IInv'
<1>. DEFINE f == loads[holder].id
<1>1. /\ holder # None /\ f \in Files
      /\ holder' = None /\ at' = 0
      /\ registered' = registered \cup {f}
      /\ func_map' = [a \in Addr |-> IF a \in Funcs[f] THEN f ELSE func_map[a]]
  BY DEF Register, Announcing, IInv, MapTypes
<1>2. \A g \in registered : ~Overlaps(g, f) /\ ~Overlaps(f, g)
  BY LoopDone, OverlapsSymmetric DEF Register, Announcing
<1>3. MapTypes'
  <2>1. func_map' \in [Addr -> Files \cup {None}] /\ registered' \subseteq Files
    BY <1>1 DEF MapTypes, IInv
  <2>2. DOMAIN loads' = Loaders
    BY DEF Register, Announced, MapTypes, IInv
  <2>3. at' \in 0 .. NumFiles
    BY <1>1, OverlaysAssumption
  <2>. QED
    BY <1>1, <2>1, <2>2, <2>3 DEF MapTypes
<1>4. RegisteredDisjoint'
  BY <1>1, <1>2 DEF IInv, RegisteredDisjoint
<1>5. ASSUME NEW a \in Addr, NEW g \in Files
      PROVE  func_map'[a] = g <=> g \in registered' /\ a \in Funcs[g]
  <2>1. func_map[a] = g <=> g \in registered /\ a \in Funcs[g]
    BY DEF IInv, MapExact
  <2>2. CASE g = f
    <3>1. f \in registered => ~(a \in Funcs[f])
      BY <1>1, <1>2, SharedMeansOverlap
    <3>. QED
      BY <1>1, <2>1, <2>2, <3>1
  <2>3. CASE g # f
    <3>1. g \in registered /\ a \in Funcs[g] => a \notin Funcs[f]
      BY <1>1, <1>2, SharedMeansOverlap
    <3>. QED
      BY <1>1, <2>1, <2>3, <3>1
  <2>. QED
    BY <2>2, <2>3
<1>. QED
  BY <1>1, <1>3, <1>4, <1>5 DEF IInv, LoopInv, MapExact

LEMMA IInvStep ==
  ASSUME IInv, [Next]_vars
  PROVE  IInv'
<1>1. CASE \E l \in Loaders, i \in Ids : \E d \in Dests[i] : BeginLoad(l, i, d)
  <2>1. PICK l \in Loaders : \E i \in Ids : \E d \in Dests[i] : BeginLoad(l, i, d)
    BY <1>1
  <2>2. PICK i \in Ids : \E d \in Dests[i] : BeginLoad(l, i, d)
    BY <2>1
  <2>3. PICK d \in Dests[i] : BeginLoad(l, i, d)
    BY <2>2
  <2>4. holder # None => holder # l
    BY <2>3 DEF BeginLoad, Idle, IInv, MapTypes
  <2>5. /\ DOMAIN loads' = Loaders
        /\ holder # None => loads'[holder] = loads[holder]
    BY <2>3, <2>4 DEF BeginLoad, IInv, MapTypes
  <2>. QED
    BY <2>3, <2>5, QuietStep DEF BeginLoad
<1>2. CASE \E l \in Loaders : SkipData(l) \/ Copy(l) \/ Complete(l)
  <2>1. PICK l \in Loaders : SkipData(l) \/ Copy(l) \/ Complete(l)
    BY <1>2
  <2>2. holder # None => holder # l
    BY <2>1 DEF SkipData, Copy, Complete, IInv, MapTypes
  <2>3. /\ DOMAIN loads' = Loaders
        /\ holder # None => loads'[holder] = loads[holder]
    <3>1. CASE SkipData(l)
      BY <2>2, <3>1 DEF SkipData, Announced, IInv, MapTypes
    <3>2. CASE Copy(l)
      BY <2>2, <3>2 DEF Copy, IInv, MapTypes
    <3>3. CASE Complete(l)
      BY <2>2, <3>3 DEF Complete, IInv, MapTypes
    <3>. QED
      BY <2>1, <3>1, <3>2, <3>3
  <2>4. UNCHANGED <<holder, at, registered, func_map>>
    BY <2>1 DEF SkipData, Copy, Complete
  <2>. QED
    BY <2>3, <2>4, QuietStep
<1>3. CASE \E l \in Loaders : Lock(l)
  <2>1. PICK l \in Loaders : Lock(l)
    BY <1>3
  <2>2. MapTypes'
    BY <2>1, OverlaysAssumption DEF Lock, IInv, MapTypes
  <2>3. LoopInv'
    BY <2>1 DEF Lock, LoopInv, IInv, MapTypes, Files
  <2>. QED
    BY <2>1, <2>2, <2>3 DEF Lock, IInv, RegisteredDisjoint, MapExact
<1>4. CASE Restart
  <2>1. MapTypes' /\ LoopInv' /\ RegisteredDisjoint'
    BY <1>4, OverlaysAssumption DEF Restart, MapTypes, LoopInv, RegisteredDisjoint
  <2>2. MapExact'
    BY <1>4, OverlaysAssumption DEF Restart, MapExact, Ids
  <2>. QED
    BY <2>1, <2>2 DEF IInv
<1>5. CASE \/ \E a \in Addr : Miss(a)
           \/ ReportMiss
           \/ UNCHANGED vars
  <2>1. UNCHANGED <<holder, at, registered, func_map, loads>>
    BY <1>5 DEF Miss, ReportMiss, vars
  <2>. QED
    BY <2>1, QuietStep DEF IInv, MapTypes
<1>. QED
  BY <1>1, <1>2, <1>3, <1>4, <1>5, EvictStep, RegisterStep DEF Next, LoaderStep

-----------------------------------------------------------------------------
\* g_loaded_at never holds two files that share an address, whatever the
\* layout, not even between two turns of the eviction loop.
THEOREM NeverOverlapping == Spec => []RegisteredDisjoint
<1>1. IInv => RegisteredDisjoint
  BY DEF IInv
<1>. QED
  BY <1>1, InitIInv, IInvStep, PTL DEF Spec

\* librecomp's map has exactly the functions of the files g_loaded_at holds.
THEOREM MapFollowsLoads == Spec => []MapExact
<1>1. IInv => MapExact
  BY DEF IInv
<1>. QED
  BY <1>1, InitIInv, IInvStep, PTL DEF Spec

-----------------------------------------------------------------------------
\* A step that moves neither the map nor the announcement is a stutter.
LEMMA SameMap ==
  ASSUME UNCHANGED <<holder, func_map>>,
         holder # None => loads'[holder] = loads[holder]
  PROVE  PendingMap' = PendingMap
BY DEF PendingMap, Now!Announced, Now!Overlaps

\* Evicting a file is invisible: the announcement has already replaced it.
LEMMA EvictStutters ==
  ASSUME IInv, Evict
  PROVE  PendingMap' = PendingMap
<1>. DEFINE f == loads[holder].id
<1>1. /\ holder # None /\ holder' = holder /\ loads' = loads /\ at \in Files
  BY OverlaysAssumption DEF Evict, Announcing, IInv, MapTypes, Files
<1>2. CASE Evicted(at, f)
  <2>1. func_map' = [a \in Addr |-> IF func_map[a] = at THEN None ELSE func_map[a]]
    BY <1>2 DEF Evict, Unload
  <2>2. Now!Overlaps(at, f)
    BY <1>2 DEF Evicted, Overlaps, Now!Overlaps
  <2>3. None \notin Files
    BY OverlaysAssumption DEF Ids
  <2>4. ASSUME NEW a \in Addr
        PROVE  (IF a \in Funcs[f] THEN f
                ELSE IF func_map'[a] \in Files /\ Now!Overlaps(func_map'[a], f) THEN None
                ELSE func_map'[a])
               = (IF a \in Funcs[f] THEN f
                  ELSE IF func_map[a] \in Files /\ Now!Overlaps(func_map[a], f) THEN None
                  ELSE func_map[a])
    BY <1>1, <2>1, <2>2, <2>3
  <2>. QED
    BY <1>1, <2>4 DEF PendingMap, Now!Announced, Now!Overlaps
<1>3. CASE ~Evicted(at, f)
  BY <1>1, <1>3, SameMap DEF Evict
<1>. QED
  BY <1>2, <1>3

\* Nor is the registration visible: nothing else is left to evict.
LEMMA RegisterStutters ==
  ASSUME IInv, Register
  PROVE  PendingMap' = PendingMap
<1>. DEFINE f == loads[holder].id
<1>1. /\ holder # None /\ holder' = None
      /\ func_map' = [a \in Addr |-> IF a \in Funcs[f] THEN f ELSE func_map[a]]
  BY DEF Register, Announcing
<1>2. ASSUME NEW a \in Addr, func_map[a] \in Files
      PROVE  ~Now!Overlaps(func_map[a], f)
  <2>1. func_map[a] \in registered
    BY <1>2 DEF IInv, MapExact
  <2>2. ~Overlaps(func_map[a], f)
    BY <2>1, LoopDone DEF Register, Announcing
  <2>. QED
    BY <2>2 DEF Overlaps, Now!Overlaps
<1>3. PendingMap = [a \in Addr |-> IF a \in Funcs[f] THEN f ELSE func_map[a]]
  BY <1>1, <1>2 DEF PendingMap, Now!Announced
<1>. QED
  BY <1>1, <1>3 DEF PendingMap

LEMMA MapStep ==
  ASSUME IInv, [Next]_vars
  PROVE  [Map!Next]_PendingMap
<1>1. CASE \E l \in Loaders, i \in Ids : \E d \in Dests[i] : BeginLoad(l, i, d)
  <2>1. PICK l \in Loaders : \E i \in Ids : \E d \in Dests[i] : BeginLoad(l, i, d)
    BY <1>1
  <2>2. /\ UNCHANGED <<holder, func_map>>
        /\ loads[l] = Idle
        /\ \A k \in Loaders : k # l => loads'[k] = loads[k]
    BY <2>1 DEF BeginLoad, IInv, MapTypes
  <2>3. holder # None => holder # l /\ holder \in Loaders
    BY <2>2 DEF Idle, IInv, MapTypes
  <2>. QED
    BY <2>2, <2>3, SameMap
<1>2. CASE \E l \in Loaders : SkipData(l) \/ Copy(l) \/ Complete(l)
  <2>1. PICK l \in Loaders : SkipData(l) \/ Copy(l) \/ Complete(l)
    BY <1>2
  <2>2. holder # None => holder # l /\ holder \in Loaders
    BY <2>1 DEF SkipData, Copy, Complete, IInv, MapTypes
  <2>3. holder # None => loads'[holder] = loads[holder]
    BY <2>1, <2>2 DEF SkipData, Announced, Copy, Complete, IInv, MapTypes
  <2>4. UNCHANGED <<holder, func_map>>
    BY <2>1 DEF SkipData, Copy, Complete
  <2>. QED
    BY <2>3, <2>4, SameMap
<1>3. CASE \E l \in Loaders : Lock(l)
  <2>1. PICK l \in Loaders : Lock(l)
    BY <1>3
  <2>2. /\ holder = None /\ holder' # None
        /\ loads'[holder'].id = loads[l].id
        /\ loads[l].id \in Files /\ func_map' = func_map
    BY <2>1, OverlaysAssumption DEF Lock
  <2>3. /\ PendingMap = func_map
        /\ PendingMap' = Now!Announced(func_map, loads[l].id)
    BY <2>2 DEF PendingMap, Now!Announced, Now!Overlaps
  <2>4. Map!Announce(loads[l].id)
    BY <2>3 DEF Map!Announce, Map!Announced, Map!Overlaps, Now!Announced, Now!Overlaps
  <2>. QED
    BY <2>2, <2>4 DEF Map!Next
<1>4. CASE Restart
  BY <1>4 DEF Restart, PendingMap, Map!Next, Map!Restart
<1>5. CASE \/ \E a \in Addr : Miss(a)
           \/ ReportMiss
           \/ UNCHANGED vars
  <2>1. UNCHANGED <<holder, func_map, loads>>
    BY <1>5 DEF Miss, ReportMiss, vars
  <2>. QED
    BY <2>1, SameMap
<1>. QED
  BY <1>1, <1>2, <1>3, <1>4, <1>5, EvictStutters, RegisterStutters DEF Next, LoaderStep

\* The wrappers implement the map the port owes librecomp: a file replaces
\* everything it overlaps at one point in time, in any order of eviction.
THEOREM Refinement == Spec => ImplementsCodeMap
<1>1. Init => Map!Init
  BY DEF Init, Map!Init, PendingMap
<1>. QED
  BY <1>1, InitIInv, IInvStep, MapStep, PTL DEF Spec, ImplementsCodeMap, Map!Spec

-----------------------------------------------------------------------------
\* What TypeOK says of a load, and of a byte in RDRAM.
LoadType(load) ==
  /\ load \in LoadTypes
  /\ load # Idle => /\ load.dest \in Dests[load.id]
                    /\ load.done <= Size[load.id]

LoadsType ==
  /\ loads \in [Loaders -> LoadTypes]
  /\ \A l \in Loaders : LoadType(loads[l])

LEMMA BusyLoad ==
  ASSUME LoadsType, NEW l \in Loaders, loads[l] # Idle \/ loads[l].phase # "idle"
  PROVE  /\ loads[l] # Idle
         /\ loads[l] \in [phase : {"announce", "copy"}, id : Ids, dest : Int, done : Nat]
         /\ loads[l].id \in Ids /\ loads[l].dest \in Int /\ loads[l].done \in Nat
         /\ loads[l].dest \in Dests[loads[l].id] /\ loads[l].done <= Size[loads[l].id]
         /\ Size[loads[l].id] \in Nat \ {0}
         /\ Range(loads[l].dest, loads[l].id) \subseteq Addr
<1>1. loads[l] # Idle
  BY DEF Idle
<1>2. loads[l] \in [phase : {"announce", "copy"}, id : Ids, dest : Int, done : Nat]
  BY <1>1 DEF LoadsType, LoadTypes
<1>. QED
  BY <1>1, <1>2, OverlaysAssumption DEF LoadsType, LoadType

LEMMA LoadsUpdate ==
  ASSUME LoadsType, NEW l \in Loaders, NEW load, LoadType(load),
         loads' = [loads EXCEPT ![l] = load]
  PROVE  LoadsType'
<1>1. loads' \in [Loaders -> LoadTypes]
  BY DEF LoadsType, LoadType
<1>2. \A k \in Loaders : LoadType(loads'[k])
  BY DEF LoadsType
<1>. QED
  BY <1>1, <1>2 DEF LoadsType, LoadType

LEMMA IdleType == LoadType(Idle)
  BY DEF LoadType, LoadTypes

LEMMA AnnouncedType ==
  ASSUME LoadsType, NEW l \in Loaders, loads[l].phase = "announce", Announced(l)
  PROVE  /\ LoadsType'
         /\ \A k \in Loaders : k # l => loads'[k] = loads[k]
         /\ l # "whole" => loads'[l] = Idle
         /\ l = "whole" => loads'[l] = [loads[l] EXCEPT !.phase = "copy"]
<1>1. loads[l] \in [phase : {"announce", "copy"}, id : Ids, dest : Int, done : Nat]
  BY BusyLoad
<1>2. LoadType(loads[l])
  BY DEF LoadsType
<1>3. CASE l = "whole"
  <2>1. loads' = [loads EXCEPT ![l] = [loads[l] EXCEPT !.phase = "copy"]]
    BY <1>3 DEF Announced
  <2>2. LoadType([loads[l] EXCEPT !.phase = "copy"])
    BY <1>1, <1>2, BusyLoad DEF LoadType, LoadTypes
  <2>. QED
    BY <1>3, <2>1, <2>2, LoadsUpdate DEF LoadsType
<1>4. CASE l # "whole"
  <2>1. loads' = [loads EXCEPT ![l] = Idle]
    BY <1>4 DEF Announced
  <2>. QED
    BY <1>4, <2>1, LoadsUpdate, IdleType DEF LoadsType
<1>. QED
  BY <1>3, <1>4

LEMMA BeginLoadType ==
  ASSUME LoadsType, NEW l \in Loaders, NEW i \in Ids, NEW d \in Dests[i], BeginLoad(l, i, d)
  PROVE  /\ LoadsType' /\ loads[l] = Idle /\ loads'[l] # Idle
         /\ loads'[l].id = i /\ loads'[l].dest = d /\ loads'[l].done = 0
         /\ loads'[l].phase = IF l = "whole" /\ l \in hooked THEN "announce" ELSE "copy"
         /\ \A k \in Loaders : k # l => loads'[k] = loads[k]
<1>. DEFINE load == [phase |-> IF l = "whole" /\ l \in hooked THEN "announce" ELSE "copy",
                     id |-> i, dest |-> d, done |-> 0]
<1>1. loads[l] = Idle /\ loads' = [loads EXCEPT ![l] = load]
  BY DEF BeginLoad
<1>2. d \in Int /\ Size[i] \in Nat
  BY OverlaysAssumption
<1>3. load \in [phase : {"announce", "copy"}, id : Ids, dest : Int, done : Nat]
  BY <1>2
<1>4. load # Idle
  BY DEF Idle
<1>5. LoadType(load)
  BY <1>2, <1>3 DEF LoadType, LoadTypes
<1>6. LoadsType'
  BY <1>1, <1>5, LoadsUpdate
<1>. QED
  BY <1>1, <1>4, <1>6 DEF LoadsType

LEMMA CopyType ==
  ASSUME LoadsType, NEW l \in Loaders, Copy(l)
  PROVE  /\ LoadsType'
         /\ loads'[l] = [loads[l] EXCEPT !.done = loads[l].done + 1]
         /\ \A k \in Loaders : k # l => loads'[k] = loads[k]
<1>. DEFINE load == [loads[l] EXCEPT !.done = loads[l].done + 1]
<1>1. /\ loads[l].phase = "copy" /\ loads[l].done < Size[loads[l].id]
      /\ loads' = [loads EXCEPT ![l] = load]
  BY DEF Copy
<1>2. /\ loads[l] \in [phase : {"announce", "copy"}, id : Ids, dest : Int, done : Nat]
      /\ loads[l].dest \in Dests[loads[l].id] /\ Size[loads[l].id] \in Nat
  BY <1>1, BusyLoad
<1>3. LoadType(load)
  BY <1>1, <1>2 DEF LoadType, LoadTypes
<1>. QED
  BY <1>1, <1>3, LoadsUpdate DEF LoadsType

LEMMA CompleteType ==
  ASSUME LoadsType, NEW l \in Loaders, Complete(l)
  PROVE  /\ LoadsType'
         /\ l = "streamed" /\ l \in hooked => loads'[l] = [loads[l] EXCEPT !.phase = "announce"]
         /\ ~(l = "streamed" /\ l \in hooked) => loads'[l] = Idle
         /\ \A k \in Loaders : k # l => loads'[k] = loads[k]
<1>1. /\ loads[l] \in [phase : {"announce", "copy"}, id : Ids, dest : Int, done : Nat]
      /\ loads[l].dest \in Dests[loads[l].id] /\ loads[l].done <= Size[loads[l].id]
  BY BusyLoad DEF Complete
<1>2. CASE l = "streamed" /\ l \in hooked
  <2>1. loads' = [loads EXCEPT ![l] = [loads[l] EXCEPT !.phase = "announce"]]
    BY <1>2 DEF Complete
  <2>2. LoadType([loads[l] EXCEPT !.phase = "announce"])
    BY <1>1 DEF LoadType, LoadTypes
  <2>. QED
    BY <1>2, <2>1, <2>2, LoadsUpdate DEF LoadsType
<1>3. CASE ~(l = "streamed" /\ l \in hooked)
  <2>1. loads' = [loads EXCEPT ![l] = Idle]
    BY <1>3 DEF Complete
  <2>. QED
    BY <1>3, <2>1, LoadsUpdate, IdleType DEF LoadsType
<1>. QED
  BY <1>2, <1>3

LEMMA InitType ==
  ASSUME Init
  PROVE  LoadsType
  BY IdleType DEF Init, LoadsType, LoadTypes

LEMMA LoadsTypeStep ==
  ASSUME IInv, LoadsType, [Next]_vars
  PROVE  LoadsType'
<1>1. CASE \E l \in Loaders, i \in Ids : \E d \in Dests[i] : BeginLoad(l, i, d)
  BY <1>1, BeginLoadType
<1>2. CASE \E l \in Loaders : SkipData(l)
  BY <1>2, AnnouncedType DEF SkipData
<1>3. CASE \E l \in Loaders : Copy(l)
  BY <1>3, CopyType
<1>4. CASE \E l \in Loaders : Complete(l)
  BY <1>4, CompleteType
<1>5. CASE Register
  BY <1>5, AnnouncedType DEF Register, Announcing, IInv, MapTypes
<1>6. CASE Restart
  BY <1>6, IdleType DEF Restart, LoadsType, LoadTypes
<1>7. CASE \/ \E l \in Loaders : Lock(l)
           \/ Evict \/ ReportMiss
           \/ \E a \in Addr : Miss(a)
           \/ UNCHANGED vars
  <2>1. loads' = loads
    BY <1>7 DEF Lock, Evict, ReportMiss, Miss, vars
  <2>. QED
    BY <2>1 DEF LoadsType, LoadType
<1>. QED
  BY <1>1, <1>2, <1>3, <1>4, <1>5, <1>6, <1>7 DEF Next, LoaderStep

RestType ==
  /\ hooked \subseteq Loaders
  /\ ram \in [Addr -> (Ids \X Nat) \cup {None}]
  /\ status \in {"running", "missing", "ended"}

LEMMA RestTypeStep ==
  ASSUME IInv, LoadsType, RestType, [Next]_vars
  PROVE  RestType'
<1>1. CASE \E l \in Loaders : Copy(l)
  <2>1. PICK l \in Loaders : Copy(l)
    BY <1>1
  <2>2. loads[l].id \in Ids /\ loads[l].done \in Nat
    BY <2>1, BusyLoad DEF Copy
  <2>. QED
    BY <2>1, <2>2 DEF Copy, RestType
<1>2. CASE Restart
  BY <1>2 DEF Restart, RestType, Loaders
<1>3. CASE \/ \E l \in Loaders : SkipData(l) \/ Lock(l) \/ Complete(l)
           \/ \E l \in Loaders, i \in Ids : \E d \in Dests[i] : BeginLoad(l, i, d)
           \/ Evict \/ Register \/ ReportMiss
           \/ \E a \in Addr : Miss(a)
           \/ UNCHANGED vars
  <2>1. UNCHANGED <<hooked, ram>> /\ status' \in {status, "missing", "ended"}
    BY <1>3 DEF SkipData, Lock, Complete, BeginLoad, Evict, Register, ReportMiss, Miss, vars
  <2>. QED
    BY <2>1 DEF RestType
<1>. QED
  BY <1>1, <1>2, <1>3 DEF Next, LoaderStep

\* Every variable stays in its range; whatever the loads and the layout, no
\* loader brings more than its file.
THEOREM TypeCorrect == Spec => []TypeOK
<1>. DEFINE Types == IInv /\ LoadsType /\ RestType
<1>1. Init => Types
  <2>1. ASSUME Init
        PROVE  RestType
    BY <2>1 DEF Init, RestType, Loaders
  <2>. QED
    BY <2>1, InitIInv, InitType
<1>2. Types /\ [Next]_vars => Types'
  BY IInvStep, LoadsTypeStep, RestTypeStep
<1>3. Types => TypeOK
  BY DEF IInv, MapTypes, LoadsType, LoadType, RestType, TypeOK
<1>. QED
  BY <1>1, <1>2, <1>3, PTL DEF Spec

-----------------------------------------------------------------------------

\* A load has brought the bytes it says, and a streamed one is announced last.
Written(l) ==
  loads[l] # Idle =>
    /\ \A n \in 0 .. loads[l].done - 1 : ram[loads[l].dest + n] = <<loads[l].id, n>>
    /\ l = "streamed" /\ loads[l].phase = "announce" => loads[l].done = Size[loads[l].id]

WrittenInv == \A l \in Loaders : Written(l)

\* The game does not load twice into the same memory at once.
ApartInv ==
  \A k, l \in Loaders : k # l /\ loads[k] # Idle /\ loads[l] # Idle =>
    ~Meet(loads[k].dest, loads[k].id, loads[l].dest, loads[l].id)

\* file_load announced f and is bringing it to its link address.
Arriving(f) ==
  /\ loads["whole"] # Idle /\ loads["whole"].phase = "copy"
  /\ loads["whole"].id = f /\ loads["whole"].dest = Vram[f]

\* A load that will announce f, or has announced a file on top of it and will
\* overwrite it.
Settling(f, l) ==
  /\ loads[l] # Idle
  /\ \/ loads[l].id = f /\ ~(l = "whole" /\ loads[l].phase = "copy")
     \/ loads[l].id \in Files /\ loads[l].id # f /\ Overlaps(loads[l].id, f)

Unhidden(f) == \A g \in Movable : g # f => ~Overlaps(g, f)

\* A file that is in RDRAM, or about to be, is registered, or a load is on its
\* way to change that.
Accounted(f) ==
  Unhidden(f) /\ (Resident(f) \/ Arriving(f)) =>
    f \in registered \/ \E l \in Loaders : Settling(f, l)

AllAccounted == \A f \in Files : Accounted(f)

ResidentInv == hooked = Loaders => AllAccounted

LoadInv == "whole" \in hooked /\ WrittenInv /\ ApartInv /\ ResidentInv

LEMMA AddressOf ==
  ASSUME LoadsType, NEW l \in Loaders, loads[l] # Idle, NEW n \in 0 .. Size[loads[l].id] - 1
  PROVE  loads[l].dest + n \in Addr
  BY BusyLoad DEF Range

\* Loads that do not meet write to different places.
LEMMA ApartPlaces ==
  ASSUME LoadsType, ApartInv, NEW k \in Loaders, NEW l \in Loaders, k # l,
         loads[k] # Idle, loads[l] # Idle,
         NEW m \in 0 .. Size[loads[k].id] - 1, NEW n \in 0 .. Size[loads[l].id] - 1
  PROVE  loads[k].dest + m # loads[l].dest + n
<1>1. ~Meet(loads[k].dest, loads[k].id, loads[l].dest, loads[l].id)
  BY DEF ApartInv
<1>2. /\ loads[k].dest \in Int /\ loads[l].dest \in Int
      /\ Size[loads[k].id] \in Nat /\ Size[loads[l].id] \in Nat
  BY BusyLoad
<1>. QED
  BY <1>1, <1>2 DEF Meet

LEMMA WrittenOther ==
  ASSUME NEW k \in Loaders, Written(k), loads'[k] = loads[k], ram' = ram
  PROVE  Written(k)'
  BY DEF Written

LEMMA WrittenStep ==
  ASSUME IInv, LoadsType, RestType, WrittenInv, ApartInv, [Next]_vars
  PROVE  WrittenInv'
<1>1. ASSUME NEW l \in Loaders, NEW i \in Ids, NEW d \in Dests[i], BeginLoad(l, i, d)
      PROVE  WrittenInv'
  <2>1. ram' = ram /\ \A k \in Loaders : k # l => loads'[k] = loads[k]
    BY <1>1, BeginLoadType DEF BeginLoad
  <2>2. loads'[l].done = 0 /\ (l = "streamed" => loads'[l].phase = "copy")
    BY <1>1, BeginLoadType
  <2>3. Written(l)'
    BY <2>2 DEF Written
  <2>4. \A k \in Loaders : k # l => Written(k)'
    BY <2>1, WrittenOther DEF WrittenInv
  <2>. QED
    BY <2>3, <2>4 DEF WrittenInv
<1>2. ASSUME NEW l \in Loaders, loads[l].phase = "announce", Announced(l), ram' = ram
      PROVE  WrittenInv'
  <2>1. /\ \A k \in Loaders : k # l => loads'[k] = loads[k]
        /\ l # "whole" => loads'[l] = Idle
        /\ l = "whole" => loads'[l] = [loads[l] EXCEPT !.phase = "copy"]
    BY <1>2, AnnouncedType
  <2>2. loads[l] # Idle
        /\ loads[l] \in [phase : {"announce", "copy"}, id : Ids, dest : Int, done : Nat]
    BY <1>2, BusyLoad
  <2>3. Written(l)'
    BY <1>2, <2>1, <2>2 DEF WrittenInv, Written
  <2>4. \A k \in Loaders : k # l => Written(k)'
    BY <1>2, <2>1, WrittenOther DEF WrittenInv
  <2>. QED
    BY <2>3, <2>4 DEF WrittenInv
<1>3. ASSUME NEW l \in Loaders, Copy(l)
      PROVE  WrittenInv'
  <2>. DEFINE place == loads[l].dest + loads[l].done
  <2>1. /\ loads[l].phase = "copy" /\ loads[l].done < Size[loads[l].id]
        /\ ram' = [ram EXCEPT ![place] = <<loads[l].id, loads[l].done>>]
        /\ loads'[l] = [loads[l] EXCEPT !.done = loads[l].done + 1]
        /\ \A k \in Loaders : k # l => loads'[k] = loads[k]
    BY <1>3, CopyType DEF Copy
  <2>2. /\ loads[l] # Idle
        /\ loads[l] \in [phase : {"announce", "copy"}, id : Ids, dest : Int, done : Nat]
        /\ loads[l].done \in Nat /\ loads[l].dest \in Int /\ Size[loads[l].id] \in Nat
    BY <2>1, BusyLoad
  <2>3. /\ loads'[l].id = loads[l].id /\ loads'[l].dest = loads[l].dest
        /\ loads'[l].done = loads[l].done + 1 /\ loads'[l].phase = "copy"
    BY <2>1, <2>2
  <2>4. loads[l].done \in 0 .. Size[loads[l].id] - 1
    BY <2>1, <2>2
  <2>5. place \in Addr
    BY <2>2, <2>4, AddressOf
  <2>6. Written(l)'
    <3>1. ASSUME NEW n \in 0 .. loads[l].done
          PROVE  ram'[loads[l].dest + n] = <<loads[l].id, n>>
      <4>1. CASE n = loads[l].done
        BY <2>1, <2>5, <4>1 DEF RestType
      <4>2. CASE n # loads[l].done
        <5>1. n \in 0 .. loads[l].done - 1 /\ n \in 0 .. Size[loads[l].id] - 1
          BY <2>2, <2>4, <3>1, <4>2
        <5>2. loads[l].dest + n \in Addr /\ loads[l].dest + n # place
          BY <2>2, <4>2, <5>1, AddressOf
        <5>3. ram[loads[l].dest + n] = <<loads[l].id, n>>
          BY <2>2, <5>1 DEF WrittenInv, Written
        <5>. QED
          BY <2>1, <5>2, <5>3 DEF RestType
      <4>. QED
        BY <4>1, <4>2
    <3>2. (loads[l].done + 1) - 1 = loads[l].done
      BY <2>2
    <3>. QED
      BY <2>3, <3>1, <3>2 DEF Written
  <2>7. ASSUME NEW k \in Loaders, k # l
        PROVE  Written(k)'
    <3>1. SUFFICES ASSUME loads[k] # Idle
                   PROVE  \A n \in 0 .. loads[k].done - 1 :
                            ram'[loads[k].dest + n] = ram[loads[k].dest + n]
      <4>1. loads'[k] = loads[k] /\ Written(k)
        BY <2>1, <2>7 DEF WrittenInv
      <4>. QED
        BY <4>1 DEF Written
    <3>2. ASSUME NEW n \in 0 .. loads[k].done - 1
          PROVE  ram'[loads[k].dest + n] = ram[loads[k].dest + n]
      <4>1. n \in 0 .. Size[loads[k].id] - 1
        BY <3>1, <3>2, BusyLoad
      <4>2. loads[k].dest + n # place /\ loads[k].dest + n \in Addr
        BY <2>2, <2>4, <2>7, <3>1, <4>1, ApartPlaces, AddressOf
      <4>. QED
        BY <2>1, <4>2 DEF RestType
    <3>. QED
      BY <3>2
  <2>. QED
    BY <2>6, <2>7 DEF WrittenInv
<1>4. ASSUME NEW l \in Loaders, Complete(l)
      PROVE  WrittenInv'
  <2>1. /\ loads[l].phase = "copy" /\ loads[l].done = Size[loads[l].id] /\ ram' = ram
        /\ \A k \in Loaders : k # l => loads'[k] = loads[k]
        /\ loads'[l] = Idle \/ loads'[l] = [loads[l] EXCEPT !.phase = "announce"]
    BY <1>4, CompleteType DEF Complete
  <2>2. loads[l] # Idle
        /\ loads[l] \in [phase : {"announce", "copy"}, id : Ids, dest : Int, done : Nat]
    BY <2>1, BusyLoad
  <2>3. Written(l)'
    BY <2>1, <2>2 DEF WrittenInv, Written
  <2>4. \A k \in Loaders : k # l => Written(k)'
    BY <2>1, WrittenOther DEF WrittenInv
  <2>. QED
    BY <2>3, <2>4 DEF WrittenInv
<1>5. CASE Restart
  BY <1>5 DEF Restart, WrittenInv, Written
<1>6. CASE \/ \E l \in Loaders : Lock(l)
           \/ Evict \/ ReportMiss
           \/ \E a \in Addr : Miss(a)
           \/ UNCHANGED vars
  <2>1. loads' = loads /\ ram' = ram
    BY <1>6 DEF Lock, Evict, ReportMiss, Miss, vars
  <2>. QED
    BY <2>1 DEF WrittenInv, Written
<1>7. CASE \E l \in Loaders : SkipData(l)
  BY <1>2, <1>7 DEF SkipData
<1>8. CASE Register
  BY <1>2, <1>8 DEF Register, Announcing, IInv, MapTypes
<1>. QED
  BY <1>1, <1>3, <1>4, <1>5, <1>6, <1>7, <1>8 DEF Next, LoaderStep

LEMMA MeetSymmetric ==
  ASSUME NEW d, NEW i, NEW e, NEW j
  PROVE  Meet(d, i, e, j) <=> Meet(e, j, d, i)
  BY DEF Meet

\* A load ends, or stays where it is.
LEMMA ApartKept ==
  ASSUME ApartInv,
         \A l \in Loaders : loads'[l] = Idle \/ /\ loads[l] # Idle
                                                /\ loads'[l].id = loads[l].id
                                                /\ loads'[l].dest = loads[l].dest
  PROVE  ApartInv'
  BY DEF ApartInv, Meet

LEMMA ApartStep ==
  ASSUME IInv, LoadsType, ApartInv, [Next]_vars
  PROVE  ApartInv'
<1>1. ASSUME NEW l \in Loaders, NEW i \in Ids, NEW d \in Dests[i], BeginLoad(l, i, d)
      PROVE  ApartInv'
  <2>1. /\ loads'[l].id = i /\ loads'[l].dest = d
        /\ \A k \in Loaders : k # l => loads'[k] = loads[k]
    BY <1>1, BeginLoadType
  <2>2. \A k \in Loaders : loads[k] # Idle =>
          /\ ~Meet(d, i, loads[k].dest, loads[k].id)
          /\ ~Meet(loads[k].dest, loads[k].id, d, i)
    BY <1>1, MeetSymmetric DEF BeginLoad
  <2>3. ASSUME NEW k \in Loaders, NEW m \in Loaders, k # m, loads'[k] # Idle, loads'[m] # Idle
        PROVE  ~Meet(loads'[k].dest, loads'[k].id, loads'[m].dest, loads'[m].id)
    <3>1. CASE k = l
      BY <2>1, <2>2, <2>3, <3>1
    <3>2. CASE m = l
      BY <2>1, <2>2, <2>3, <3>2
    <3>3. CASE k # l /\ m # l
      BY <2>1, <2>3, <3>3 DEF ApartInv
    <3>. QED
      BY <3>1, <3>2, <3>3
  <2>. QED
    BY <2>3 DEF ApartInv, Meet
<1>2. ASSUME NEW l \in Loaders, loads[l].phase = "announce", Announced(l)
      PROVE  ApartInv'
  <2>1. /\ loads[l] # Idle
        /\ loads[l] \in [phase : {"announce", "copy"}, id : Ids, dest : Int, done : Nat]
    BY <1>2, BusyLoad
  <2>2. /\ \A k \in Loaders : k # l => loads'[k] = loads[k]
        /\ l # "whole" => loads'[l] = Idle
        /\ l = "whole" => loads'[l] = [loads[l] EXCEPT !.phase = "copy"]
    BY <1>2, AnnouncedType
  <2>3. loads'[l] = Idle \/ (loads'[l].id = loads[l].id /\ loads'[l].dest = loads[l].dest)
    BY <2>1, <2>2
  <2>. QED
    BY <2>1, <2>2, <2>3, ApartKept
<1>3. ASSUME NEW l \in Loaders, Copy(l)
      PROVE  ApartInv'
  <2>1. /\ loads[l] # Idle
        /\ loads[l] \in [phase : {"announce", "copy"}, id : Ids, dest : Int, done : Nat]
    BY <1>3, BusyLoad DEF Copy
  <2>2. /\ loads'[l] = [loads[l] EXCEPT !.done = loads[l].done + 1]
        /\ \A k \in Loaders : k # l => loads'[k] = loads[k]
    BY <1>3, CopyType
  <2>3. loads'[l].id = loads[l].id /\ loads'[l].dest = loads[l].dest
    BY <2>1, <2>2
  <2>. QED
    BY <2>1, <2>2, <2>3, ApartKept
<1>4. ASSUME NEW l \in Loaders, Complete(l)
      PROVE  ApartInv'
  <2>1. /\ loads[l] # Idle
        /\ loads[l] \in [phase : {"announce", "copy"}, id : Ids, dest : Int, done : Nat]
    BY <1>4, BusyLoad DEF Complete
  <2>2. /\ loads'[l] = Idle \/ loads'[l] = [loads[l] EXCEPT !.phase = "announce"]
        /\ \A k \in Loaders : k # l => loads'[k] = loads[k]
    BY <1>4, CompleteType
  <2>3. loads'[l] = Idle \/ (loads'[l].id = loads[l].id /\ loads'[l].dest = loads[l].dest)
    BY <2>1, <2>2
  <2>. QED
    BY <2>1, <2>2, <2>3, ApartKept
<1>5. CASE Restart
  BY <1>5 DEF Restart, ApartInv
<1>6. CASE \/ \E l \in Loaders : Lock(l)
           \/ Evict \/ ReportMiss
           \/ \E a \in Addr : Miss(a)
           \/ UNCHANGED vars
  <2>1. loads' = loads
    BY <1>6 DEF Lock, Evict, ReportMiss, Miss, vars
  <2>. QED
    BY <2>1 DEF ApartInv, Meet
<1>7. CASE \E l \in Loaders : SkipData(l)
  BY <1>2, <1>7 DEF SkipData
<1>8. CASE Register
  BY <1>2, <1>8 DEF Register, Announcing, IInv, MapTypes
<1>. QED
  BY <1>1, <1>3, <1>4, <1>5, <1>6, <1>7, <1>8 DEF Next, LoaderStep

-----------------------------------------------------------------------------
FileFacts == \A f \in Files : f \in Ids /\ Vram[f] \in Int /\ Size[f] \in Nat \ {0}

LEMMA FilesTyped == FileFacts
  BY OverlaysAssumption DEF FileFacts, Ids

\* What lies over an unhidden file is only ever brought to its link address.
LEMMA NotMovable ==
  ASSUME LoadsType, NEW f \in Files, Unhidden(f), NEW l \in Loaders, loads[l] # Idle,
         loads[l].id \in Files, loads[l].id # f, Overlaps(loads[l].id, f)
  PROVE  loads[l].dest = Vram[loads[l].id]
<1>1. Dests[loads[l].id] = {Vram[loads[l].id]}
  BY DEF Unhidden, Movable
<1>. QED
  BY <1>1, BusyLoad

\* Once another file has been brought over it, a file is not in RDRAM.
LEMMA Covered ==
  ASSUME LoadsType, WrittenInv, NEW f \in Files, Unhidden(f),
         NEW l \in Loaders, loads[l] # Idle, loads[l].id \in Files, loads[l].id # f,
         Overlaps(loads[l].id, f), loads[l].done = Size[loads[l].id]
  PROVE  ~Resident(f)
<1>. DEFINE g == loads[l].id
<1>1. /\ Vram[f] \in Int /\ Vram[g] \in Int /\ Size[f] \in Nat \ {0} /\ Size[g] \in Nat \ {0}
  BY FilesTyped DEF FileFacts
<1>2. PICK n \in 0 .. Size[g] - 1, m \in 0 .. Size[f] - 1 : Vram[g] + n = Vram[f] + m
  <2>1. Vram[g] < Vram[f] + Size[f] /\ Vram[f] < Vram[g] + Size[g]
    BY DEF Overlaps
  <2>2. CASE Vram[g] <= Vram[f]
    <3>1. /\ Vram[f] - Vram[g] \in 0 .. Size[g] - 1 /\ 0 \in 0 .. Size[f] - 1
          /\ Vram[g] + (Vram[f] - Vram[g]) = Vram[f] + 0
      BY <1>1, <2>1, <2>2
    <3>. QED
      BY <3>1
  <2>3. CASE Vram[f] <= Vram[g]
    <3>1. /\ Vram[g] - Vram[f] \in 0 .. Size[f] - 1 /\ 0 \in 0 .. Size[g] - 1
          /\ Vram[g] + 0 = Vram[f] + (Vram[g] - Vram[f])
      BY <1>1, <2>1, <2>3
    <3>. QED
      BY <3>1
  <2>. QED
    BY <1>1, <2>2, <2>3
<1>3. ram[Vram[g] + n] = <<g, n>>
  BY <1>1, <1>2, NotMovable DEF WrittenInv, Written
<1>4. ram[Vram[f] + m] # <<f, m>>
  BY <1>2, <1>3
<1>. QED
  BY <1>4 DEF Resident

LEMMA SettlingOther ==
  ASSUME NEW f, NEW k, loads'[k] = loads[k]
  PROVE  Settling(f, k)' <=> Settling(f, k)
  BY DEF Settling, Overlaps

LEMMA ResidentOther ==
  ASSUME NEW f, ram' = ram
  PROVE  Resident(f)' <=> Resident(f)
  BY DEF Resident

LEMMA ArrivingOther ==
  ASSUME NEW f, loads'["whole"] = loads["whole"]
  PROVE  Arriving(f)' <=> Arriving(f)
  BY DEF Arriving

\* A load that stays where it is, and what it is, still settles f.
LEMMA SettlingStill ==
  ASSUME NEW f, NEW l \in Loaders, Settling(f, l), loads'[l] # Idle,
         loads'[l].id = loads[l].id, loads'[l].phase = loads[l].phase \/ l # "whole"
  PROVE  Settling(f, l)'
  BY DEF Settling, Overlaps

\* What none of the loads, RDRAM and the registered files notices.
LEMMA AccountedSame ==
  ASSUME NEW f, Accounted(f), loads' = loads, ram' = ram, registered' = registered
  PROVE  Accounted(f)'
<1>1. (Resident(f)' <=> Resident(f)) /\ (Arriving(f)' <=> Arriving(f))
  BY ResidentOther, ArrivingOther
<1>2. \A l \in Loaders : Settling(f, l)' <=> Settling(f, l)
  BY SettlingOther
<1>. QED
  BY <1>1, <1>2 DEF Accounted, Unhidden

LEMMA AccountedBegin ==
  ASSUME LoadsType, hooked = Loaders, NEW f \in Files, Accounted(f),
         NEW l \in Loaders, NEW i \in Ids, NEW d \in Dests[i], BeginLoad(l, i, d)
  PROVE  Accounted(f)'
<1>1. SUFFICES ASSUME Unhidden(f), (Resident(f) \/ Arriving(f))'
               PROVE  f \in registered' \/ \E k \in Loaders : Settling(f, k)'
  BY DEF Accounted, Unhidden
<1>2. /\ loads[l] = Idle /\ (l = "whole" => loads'[l].phase = "announce")
      /\ \A k \in Loaders : k # l => loads'[k] = loads[k]
      /\ ram' = ram /\ registered' = registered
  <2>1. /\ loads[l] = Idle /\ \A k \in Loaders : k # l => loads'[k] = loads[k]
        /\ loads'[l].phase = IF l = "whole" /\ l \in hooked THEN "announce" ELSE "copy"
    BY BeginLoadType, Zenon
  <2>2. ram' = ram /\ registered' = registered
    BY DEF BeginLoad
  <2>. QED
    BY <2>1, <2>2
<1>3. Arriving(f)' => Arriving(f)
  <2>1. CASE l = "whole"
    BY <1>2, <2>1 DEF Arriving
  <2>2. CASE l # "whole"
    BY <1>2, <2>2, ArrivingOther DEF Loaders
  <2>. QED
    BY <2>1, <2>2
<1>4. f \in registered \/ \E k \in Loaders : Settling(f, k)
  BY <1>1, <1>2, <1>3, ResidentOther DEF Accounted
<1>5. ASSUME NEW k \in Loaders, Settling(f, k)
      PROVE  Settling(f, k)'
  <2>1. k # l
    BY <1>2, <1>5 DEF Settling
  <2>. QED
    BY <1>2, <1>5, <2>1, SettlingOther
<1>. QED
  BY <1>2, <1>4, <1>5

LEMMA AccountedSkip ==
  ASSUME LoadsType, NEW f \in Files, Accounted(f), NEW l \in Loaders, SkipData(l)
  PROVE  Accounted(f)'
<1>1. SUFFICES ASSUME Unhidden(f), (Resident(f) \/ Arriving(f))'
               PROVE  f \in registered' \/ \E k \in Loaders : Settling(f, k)'
  BY DEF Accounted, Unhidden
<1>2. /\ loads[l].phase = "announce" /\ loads[l].id \notin Files /\ Announced(l)
      /\ ram' = ram /\ registered' = registered
  BY DEF SkipData
<1>3. /\ \A k \in Loaders : k # l => loads'[k] = loads[k]
      /\ l # "whole" => loads'[l] = Idle
      /\ l = "whole" => loads'[l] = [loads[l] EXCEPT !.phase = "copy"]
  BY <1>2, AnnouncedType
<1>4. Arriving(f)' => Arriving(f)
  <2>1. CASE l = "whole"
    <3>1. loads[l] \in [phase : {"announce", "copy"}, id : Ids, dest : Int, done : Nat]
      BY <1>2, BusyLoad
    <3>2. loads'[l].id = loads[l].id
      BY <1>3, <2>1, <3>1
    <3>. QED
      BY <1>2, <2>1, <3>2 DEF Arriving
  <2>2. CASE l # "whole"
    BY <1>3, <2>2, ArrivingOther DEF Loaders
  <2>. QED
    BY <2>1, <2>2
<1>5. f \in registered \/ \E k \in Loaders : Settling(f, k)
  BY <1>1, <1>2, <1>4, ResidentOther DEF Accounted
<1>6. ASSUME NEW k \in Loaders, Settling(f, k)
      PROVE  Settling(f, k)'
  <2>1. k # l
    BY <1>2, <1>6 DEF Settling
  <2>. QED
    BY <1>3, <1>6, <2>1, SettlingOther
<1>. QED
  BY <1>2, <1>5, <1>6

\* A piece that completes f in RDRAM is one of f's own.
LEMMA AccountedCopy ==
  ASSUME LoadsType, RestType, NEW f \in Files, Accounted(f), NEW l \in Loaders, Copy(l)
  PROVE  Accounted(f)'
<1>1. SUFFICES ASSUME Unhidden(f), (Resident(f) \/ Arriving(f))'
               PROVE  f \in registered' \/ \E k \in Loaders : Settling(f, k)'
  BY DEF Accounted, Unhidden
<1>. DEFINE place == loads[l].dest + loads[l].done
<1>2. /\ loads[l].phase = "copy" /\ loads[l].done < Size[loads[l].id]
      /\ ram' = [ram EXCEPT ![place] = <<loads[l].id, loads[l].done>>]
      /\ loads'[l] = [loads[l] EXCEPT !.done = loads[l].done + 1]
      /\ \A k \in Loaders : k # l => loads'[k] = loads[k]
      /\ registered' = registered
  BY CopyType DEF Copy
<1>3. /\ loads[l] # Idle
      /\ loads[l] \in [phase : {"announce", "copy"}, id : Ids, dest : Int, done : Nat]
      /\ loads[l].done \in Nat /\ loads[l].dest \in Int /\ Size[loads[l].id] \in Nat
  BY <1>2, BusyLoad
<1>4. /\ loads'[l].id = loads[l].id /\ loads'[l].dest = loads[l].dest
      /\ loads'[l].phase = "copy" /\ loads'[l] # Idle
  BY <1>2, <1>3 DEF Idle
<1>5. ASSUME NEW k \in Loaders, Settling(f, k)
      PROVE  Settling(f, k)'
  <2>1. CASE k = l
    BY <1>2, <1>4, <1>5, <2>1, SettlingStill
  <2>2. CASE k # l
    BY <1>2, <1>5, <2>2, SettlingOther
  <2>. QED
    BY <2>1, <2>2
<1>6. Arriving(f)' => Arriving(f)
  <2>1. CASE l = "whole"
    BY <1>2, <1>3, <1>4, <2>1 DEF Arriving
  <2>2. CASE l # "whole"
    BY <1>2, <2>2, ArrivingOther DEF Loaders
  <2>. QED
    BY <2>1, <2>2
<1>7. CASE Resident(f) \/ Arriving(f)'
  BY <1>1, <1>2, <1>5, <1>6, <1>7 DEF Accounted
<1>8. CASE Resident(f)' /\ ~Resident(f)
  <2>1. Vram[f] \in Int /\ Size[f] \in Nat /\ Range(Vram[f], f) \subseteq Addr
    BY OverlaysAssumption, FilesTyped DEF FileFacts
  <2>2. PICK n \in 0 .. Size[f] - 1 : ram[Vram[f] + n] # <<f, n>>
    BY <1>8 DEF Resident
  <2>3. ram'[Vram[f] + n] = <<f, n>>
    BY <1>8 DEF Resident
  <2>4. Vram[f] + n \in Addr
    BY <2>1 DEF Range
  <2>5. Vram[f] + n = place
    BY <1>2, <2>2, <2>3, <2>4 DEF RestType
  <2>6. ram'[place] = <<loads[l].id, loads[l].done>>
    BY <1>2, <2>4, <2>5 DEF RestType
  <2>7. loads[l].id = f /\ loads[l].done = n
    BY <2>3, <2>5, <2>6
  <2>8. loads[l].dest = Vram[f]
    BY <1>3, <2>1, <2>5, <2>7
  <2>9. CASE l = "whole"
    <3>1. Arriving(f)
      BY <1>2, <1>3, <2>7, <2>8, <2>9 DEF Arriving
    <3>. QED
      BY <1>1, <1>2, <1>5, <3>1 DEF Accounted
  <2>10. CASE l # "whole"
    <3>1. Settling(f, l)
      BY <1>3, <2>7, <2>10 DEF Settling
    <3>. QED
      BY <1>5, <3>1
  <2>. QED
    BY <2>9, <2>10
<1>. QED
  BY <1>1, <1>7, <1>8

\* file_load returns: f is registered, or its bytes are gone.
LEMMA AccountedComplete ==
  ASSUME LoadsType, WrittenInv, hooked = Loaders, NEW f \in Files, Accounted(f),
         NEW l \in Loaders, Complete(l)
  PROVE  Accounted(f)'
<1>1. SUFFICES ASSUME Unhidden(f), (Resident(f) \/ Arriving(f))'
               PROVE  f \in registered' \/ \E k \in Loaders : Settling(f, k)'
  BY DEF Accounted, Unhidden
<1>2. /\ loads[l].phase = "copy" /\ loads[l].done = Size[loads[l].id]
      /\ ram' = ram /\ registered' = registered
      /\ \A k \in Loaders : k # l => loads'[k] = loads[k]
  BY CompleteType DEF Complete
<1>3. /\ loads[l] # Idle
      /\ loads[l] \in [phase : {"announce", "copy"}, id : Ids, dest : Int, done : Nat]
  BY <1>2, BusyLoad
<1>4. CASE l = "streamed"
  <2>1. loads'[l] = [loads[l] EXCEPT !.phase = "announce"]
    BY <1>4, CompleteType
  <2>2. loads'[l].id = loads[l].id /\ loads'[l].phase = "announce" /\ loads'[l] # Idle
    BY <1>3, <2>1 DEF Idle
  <2>3. Arriving(f)' <=> Arriving(f)
    BY <1>2, <1>4, ArrivingOther DEF Loaders
  <2>4. f \in registered \/ \E k \in Loaders : Settling(f, k)
    BY <1>1, <1>2, <2>3, ResidentOther DEF Accounted
  <2>5. ASSUME NEW k \in Loaders, Settling(f, k)
        PROVE  Settling(f, k)'
    <3>1. CASE k = l
      BY <1>4, <2>2, <2>5, <3>1, SettlingStill
    <3>2. CASE k # l
      BY <1>2, <2>5, <3>2, SettlingOther
    <3>. QED
      BY <3>1, <3>2
  <2>. QED
    BY <1>2, <2>4, <2>5
<1>5. CASE l = "whole"
  <2>1. loads'[l] = Idle
    BY <1>5, CompleteType
  <2>2. Resident(f)
    BY <1>1, <1>2, <1>5, <2>1, ResidentOther DEF Arriving
  <2>3. f \in registered \/ \E k \in Loaders : Settling(f, k)
    BY <1>1, <2>2 DEF Accounted
  <2>4. ~Settling(f, l)
    <3>1. SUFFICES ASSUME Settling(f, l)
                   PROVE  FALSE
      OBVIOUS
    <3>2. loads[l].id \in Files /\ loads[l].id # f /\ Overlaps(loads[l].id, f)
      BY <1>2, <1>5, <3>1 DEF Settling
    <3>. QED
      BY <1>1, <1>2, <1>3, <2>2, <3>2, Covered
  <2>5. ASSUME NEW k \in Loaders, Settling(f, k)
        PROVE  Settling(f, k)'
    <3>1. k # l
      BY <2>4, <2>5
    <3>. QED
      BY <1>2, <2>5, <3>1, SettlingOther
  <2>. QED
    BY <1>2, <2>3, <2>5
<1>. QED
  BY <1>4, <1>5 DEF Loaders

\* Whatever evicts f settles it.
LEMMA AccountedEvict ==
  ASSUME IInv, LoadsType, NEW f \in Files, Accounted(f), Evict
  PROVE  Accounted(f)'
<1>1. SUFFICES ASSUME Unhidden(f), (Resident(f) \/ Arriving(f))'
               PROVE  f \in registered' \/ \E k \in Loaders : Settling(f, k)'
  BY DEF Accounted, Unhidden
<1>2. loads' = loads /\ ram' = ram /\ holder \in Loaders /\ loads[holder].phase = "announce"
  BY DEF Evict, Announcing, IInv, MapTypes
<1>3. f \in registered \/ \E k \in Loaders : Settling(f, k)
  BY <1>1, <1>2, ResidentOther, ArrivingOther DEF Accounted
<1>4. ASSUME NEW k \in Loaders, Settling(f, k)
      PROVE  Settling(f, k)'
  BY <1>2, <1>4, SettlingOther
<1>5. CASE f \in registered /\ f \notin registered'
  <2>1. f = at /\ Evicted(at, loads[holder].id)
    BY <1>5 DEF Evict
  <2>2. Overlaps(f, loads[holder].id)
    BY <2>1 DEF Evicted
  <2>3. loads[holder].id \in Files
    BY DEF Evict, Announcing, IInv, MapTypes
  <2>4. Overlaps(loads[holder].id, f)
    BY <2>2, <2>3, OverlapsSymmetric
  <2>5. loads[holder] # Idle
    BY <1>2, BusyLoad
  <2>6. Settling(f, holder)
    BY <1>2, <2>3, <2>4, <2>5 DEF Settling
  <2>. QED
    BY <1>2, <1>4, <2>6
<1>. QED
  BY <1>3, <1>4, <1>5

\* The registration of f, or of a file that is, or will be, on top of it.
LEMMA AccountedRegister ==
  ASSUME IInv, LoadsType, WrittenInv, ApartInv, NEW f \in Files, Accounted(f), Register
  PROVE  Accounted(f)'
<1>1. SUFFICES ASSUME Unhidden(f), (Resident(f) \/ Arriving(f))'
               PROVE  f \in registered' \/ \E k \in Loaders : Settling(f, k)'
  BY DEF Accounted, Unhidden
<1>2. PICK l \in Loaders : l = holder
  BY DEF Register, Announcing, IInv, MapTypes
<1>3. /\ loads[l].phase = "announce" /\ Announced(l) /\ ram' = ram
      /\ registered' = registered \cup {loads[l].id}
  BY <1>2 DEF Register, Announcing
<1>4. /\ \A k \in Loaders : k # l => loads'[k] = loads[k]
      /\ l # "whole" => loads'[l] = Idle
      /\ l = "whole" => loads'[l] = [loads[l] EXCEPT !.phase = "copy"]
  BY <1>3, AnnouncedType
<1>5. /\ loads[l] # Idle
      /\ loads[l] \in [phase : {"announce", "copy"}, id : Ids, dest : Int, done : Nat]
  BY <1>3, BusyLoad
<1>6. SUFFICES ASSUME loads[l].id # f
               PROVE  f \in registered \/ \E k \in Loaders : Settling(f, k)'
  BY <1>3
<1>7. Arriving(f)' => Arriving(f)
  <2>1. CASE l = "whole"
    BY <1>4, <1>5, <1>6, <2>1 DEF Arriving
  <2>2. CASE l # "whole"
    BY <1>4, <2>2, ArrivingOther DEF Loaders
  <2>. QED
    BY <2>1, <2>2
<1>8. f \in registered \/ \E k \in Loaders : Settling(f, k)
  BY <1>1, <1>3, <1>7, ResidentOther DEF Accounted
<1>9. CASE l = "whole"
  <2>1. loads'[l].id = loads[l].id /\ loads'[l] # Idle
    BY <1>4, <1>5, <1>9 DEF Idle
  <2>2. ASSUME NEW k \in Loaders, Settling(f, k)
        PROVE  Settling(f, k)'
    <3>1. CASE k = l
      BY <1>6, <2>1, <2>2, <3>1 DEF Settling, Overlaps
    <3>2. CASE k # l
      BY <1>4, <2>2, <3>2, SettlingOther
    <3>. QED
      BY <3>1, <3>2
  <2>. QED
    BY <1>8, <2>2
<1>10. CASE l # "whole"
  <2>1. l = "streamed" /\ loads[l].done = Size[loads[l].id]
    BY <1>3, <1>5, <1>10 DEF Loaders, WrittenInv, Written
  <2>2. ~Settling(f, l)
    <3>1. SUFFICES ASSUME Settling(f, l)
                   PROVE  FALSE
      OBVIOUS
    <3>2. loads[l].id \in Files /\ Overlaps(loads[l].id, f)
      BY <1>6, <3>1 DEF Settling
    <3>3. ~Resident(f)
      BY <1>1, <1>5, <1>6, <2>1, <3>2, Covered
    <3>4. Arriving(f)
      BY <1>1, <1>3, <1>7, <3>3, ResidentOther
    <3>5. loads[l].dest = Vram[loads[l].id]
      BY <1>1, <1>5, <1>6, <3>2, NotMovable
    <3>6. ~Meet(loads[l].dest, loads[l].id, Vram[f], f)
      BY <1>5, <1>10, <3>4 DEF ApartInv, Arriving, Loaders
    <3>. QED
      BY <3>2, <3>5, <3>6 DEF Meet, Overlaps
  <2>3. ASSUME NEW k \in Loaders, Settling(f, k)
        PROVE  Settling(f, k)'
    <3>1. k # l
      BY <2>2, <2>3
    <3>. QED
      BY <1>4, <2>3, <3>1, SettlingOther
  <2>. QED
    BY <1>8, <2>3
<1>. QED
  BY <1>9, <1>10

\* RDRAM starts empty.
Empty == ram = [a \in Addr |-> None] /\ loads = [l \in Loaders |-> Idle]

LEMMA AccountedEmpty == Empty => AllAccounted
<1>. SUFFICES ASSUME Empty, NEW f \in Files
              PROVE  Accounted(f)
  BY DEF AllAccounted
<1>1. ~Resident(f)
  <2>1. /\ Vram[f] \in Int /\ Size[f] \in Nat \ {0} /\ Range(Vram[f], f) \subseteq Addr
    BY OverlaysAssumption, FilesTyped DEF FileFacts
  <2>2. 0 \in 0 .. Size[f] - 1 /\ Vram[f] + 0 \in Addr
    BY <2>1 DEF Range
  <2>3. <<f, 0>> \in Ids \X Nat
    BY FilesTyped DEF FileFacts
  <2>4. ram[Vram[f] + 0] # <<f, 0>>
    BY <2>2, <2>3, OverlaysAssumption DEF Empty
  <2>. QED
    BY <2>2, <2>4 DEF Resident
<1>2. ~Arriving(f)
  BY DEF Arriving, Loaders, Empty
<1>. QED
  BY <1>1, <1>2 DEF Accounted

LEMMA ResidentStep ==
  ASSUME IInv, LoadsType, RestType, LoadInv, [Next]_vars
  PROVE  "whole" \in hooked' /\ ResidentInv'
<1>1. CASE Restart
  <2>1. AllAccounted'
    <3>1. Empty'
      BY <1>1 DEF Restart, Empty
    <3>. QED
      BY <3>1, AccountedEmpty, PTL
  <2>. QED
    BY <1>1, <2>1 DEF Restart, ResidentInv, Loaders
<1>2. CASE ~Restart
  <2>1. hooked' = hooked
    BY <1>2 DEF Next, LoaderStep, BeginLoad, SkipData, Lock, Copy, Complete, Evict, Register,
                Miss, ReportMiss, vars
  <2>2. ASSUME hooked = Loaders, NEW f \in Files
        PROVE  Accounted(f)'
    <3>1. /\ Accounted(f) /\ WrittenInv /\ ApartInv
      BY <2>2 DEF LoadInv, ResidentInv, AllAccounted
    <3>2. CASE \E l \in Loaders, i \in Ids : \E d \in Dests[i] : BeginLoad(l, i, d)
      BY <2>2, <3>1, <3>2, AccountedBegin
    <3>3. CASE \E l \in Loaders : SkipData(l)
      BY <3>1, <3>3, AccountedSkip
    <3>4. CASE \E l \in Loaders : Copy(l)
      BY <3>1, <3>4, AccountedCopy
    <3>5. CASE \E l \in Loaders : Complete(l)
      BY <2>2, <3>1, <3>5, AccountedComplete
    <3>6. CASE Evict
      BY <3>1, <3>6, AccountedEvict
    <3>7. CASE Register
      BY <3>1, <3>7, AccountedRegister
    <3>8. CASE \/ \E l \in Loaders : Lock(l)
               \/ \E a \in Addr : Miss(a)
               \/ ReportMiss \/ UNCHANGED vars
      <4>1. loads' = loads /\ ram' = ram /\ registered' = registered
        BY <3>8 DEF Lock, Miss, ReportMiss, vars
      <4>. QED
        BY <3>1, <4>1, AccountedSame
    <3>. QED
      BY <1>2, <3>2, <3>3, <3>4, <3>5, <3>6, <3>7, <3>8 DEF Next, LoaderStep
  <2>. QED
    BY <2>1, <2>2 DEF LoadInv, ResidentInv, AllAccounted
<1>. QED
  BY <1>1, <1>2

LEMMA LoadInvInit ==
  ASSUME Init
  PROVE  LoadInv
<1>1. Empty /\ loads = [l \in Loaders |-> Idle] /\ "whole" \in hooked
  BY DEF Init, Loaders, Empty
<1>2. ResidentInv
  BY <1>1, AccountedEmpty DEF ResidentInv
<1>. QED
  BY <1>1, <1>2 DEF LoadInv, WrittenInv, Written, ApartInv

LEMMA SettlingTouches ==
  ASSUME NEW f \in Files, NEW l \in Loaders, Settling(f, l)
  PROVE  InFlight(f)
<1>1. Overlaps(f, f)
  BY FilesTyped DEF FileFacts, Overlaps
<1>2. loads[l] # Idle /\ loads[l].id \in Files /\ Overlaps(loads[l].id, f)
  BY <1>1 DEF Settling
<1>. QED
  BY <1>2 DEF InFlight

\* A file whose bytes are all in RDRAM can be called once no load touches it,
\* whatever the layout and however the two loaders and the mutex interleave.
THEOREM ResidentIsCallable == Spec => []ResidentResolves
<1>. DEFINE Inv == IInv /\ LoadsType /\ RestType /\ LoadInv
<1>1. Init => Inv
  <2>1. ASSUME Init
        PROVE  RestType
    BY <2>1 DEF Init, RestType, Loaders
  <2>. QED
    BY <2>1, InitIInv, InitType, LoadInvInit
<1>2. Inv /\ [Next]_vars => Inv'
  <2>1. SUFFICES ASSUME Inv, [Next]_vars
                 PROVE  Inv'
    OBVIOUS
  <2>2. WrittenInv' /\ ApartInv'
    BY <2>1, WrittenStep, ApartStep DEF LoadInv
  <2>3. LoadInv'
    BY <2>1, <2>2, ResidentStep DEF LoadInv
  <2>. QED
    BY <2>1, <2>3, IInvStep, LoadsTypeStep, RestTypeStep
<1>3. Inv => ResidentResolves
  <2>1. SUFFICES ASSUME Inv, NEW f \in Files, hooked = Loaders, Resident(f), ~InFlight(f),
                        Unhidden(f), NEW a \in Funcs[f]
                 PROVE  func_map[a] = f
    BY DEF ResidentResolves, Unhidden
  <2>2. f \in registered
    BY <2>1, SettlingTouches DEF LoadInv, ResidentInv, AllAccounted, Accounted
  <2>3. a \in Addr
    BY OverlaysAssumption
  <2>. QED
    BY <2>1, <2>2, <2>3 DEF IInv, MapExact
<1>. QED
  BY <1>1, <1>2, <1>3, PTL DEF Spec
=============================================================================
