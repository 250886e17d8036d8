-------------------------- MODULE InspectorProofs --------------------------
(***************************************************************************)
(* Proofs about Inspector, for any identities, classes, built-in classes,  *)
(* cap, hand edits of hud.json and tests, and any failure to open the file *)
(* at the start.  What the file keeps is proved if a save can open it.     *)
(***************************************************************************)
EXTENDS Inspector, FiniteSetTheorems, WellFoundedInduction, TLAPS

-----------------------------------------------------------------------------
\* A finite set of naturals that is not empty has a greatest member: the one
\* with the fewest members above it.
LEMMA MaxOfFinite ==
  ASSUME NEW S \in SUBSET Nat, IsFiniteSet(S), S # {}
  PROVE  Max(S) \in S /\ \A y \in S : y <= Max(S)
<1>. DEFINE Above(x) == {y \in S : y > x}
           Aboves == {Above(x) : x \in S}
<1>1. S \subseteq Nat /\ IsFiniteSet(S)
  OBVIOUS
<1>2. Aboves # {} /\ Aboves \subseteq FiniteSubsetsOf(S)
  <2>1. \A x \in S : Above(x) \in SUBSET S
    OBVIOUS
  <2>2. FiniteSubsetsOf(S) = SUBSET S
    BY <1>1, FS_FiniteSubsetsOfFinite
  <2>3. \A B \in Aboves : B \in FiniteSubsetsOf(S)
    BY <2>1, <2>2
  <2>4. PICK x \in S : TRUE
    OBVIOUS
  <2>5. Above(x) \in Aboves
    OBVIOUS
  <2>. HIDE DEF Aboves
  <2>. QED
    BY <2>3, <2>5
<1>3. PICK A \in Aboves : \A B \in Aboves : <<B, A>> \notin StrictSubsetOrdering(S)
  <2>1. IsWellFoundedOn(StrictSubsetOrdering(S), FiniteSubsetsOf(S))
    BY FS_StrictSubsetOrderingWellFounded
  <2>. HIDE DEF Aboves
  <2>. QED
    BY <1>2, <2>1, WFMin
<1>4. PICK m \in S : A = Above(m)
  OBVIOUS
<1>5. \A y \in S : m >= y
  <2>1. SUFFICES ASSUME NEW y \in S, y > m PROVE FALSE
    BY <1>1
  <2>2. Above(y) \subseteq Above(m) /\ y \in Above(m) /\ y \notin Above(y)
    <3>1. m \in Nat /\ y \in Nat /\ \A z \in S : z \in Nat
      BY <1>1
    <3>2. ~(y > y) /\ \A z \in S : z > y => z > m
      BY <2>1, <3>1
    <3>. QED
      BY <2>1, <3>2
  <2>3. <<Above(y), A>> \in StrictSubsetOrdering(S)
    BY <1>4, <2>2 DEF StrictSubsetOrdering
  <2>. QED
    BY <1>3, <2>3
<1>6. Max(S) \in S /\ \A y \in S : Max(S) >= y
  BY <1>5 DEF Max
<1>. QED
  BY <1>1, <1>6

\* A list of classes that is not empty has a greatest one.
LEMMA MaxIsMember ==
  ASSUME NEW S \in SUBSET Classes, S # {}
  PROVE  Max(S) \in S
  BY InspectorAssumption, FS_Subset, MaxOfFinite

LEMMA MaxOfOne ==
  ASSUME NEW c \in Classes
  PROVE  Max({c}) = c
  BY MaxIsMember

LEMMA ReadTypes ==
  ASSUME NEW f \in Docs \cup {None}
  PROVE  Read(f) \in Tables
<1>1. CASE f = None
  BY <1>1 DEF Read, NoTags, Tables
<1>2. CASE f # None
  <2>1. f \in [Ids -> SUBSET Classes]
    BY <1>2 DEF Docs
  <2>2. \A i \in Ids : f[i] # {} => Max(f[i]) \in Classes
    BY <2>1, MaxIsMember
  <2>. QED
    BY <1>2, <2>2 DEF Read, Tables
<1>. QED
  BY <1>1, <1>2

LEMMA MergedTypes ==
  ASSUME NEW f \in Docs \cup {None}, NEW t \in Tables
  PROVE  Merged(f, t) \in Docs
<1>1. Base(f) \in [Ids -> SUBSET Classes]
  BY DEF Base, Empty, Docs
<1>2. \A i \in Ids : t[i] # None => {t[i]} \in SUBSET Classes
  BY DEF Tables
<1>. QED
  BY <1>1, <1>2 DEF Merged, Docs

LEMMA EditTypes ==
  ASSUME NEW t \in Tables, NEW i \in Ids, NEW c \in Classes \cup {None}
  PROVE  [t EXCEPT ![i] = c] \in Tables
  BY DEF Tables

\* What a file written to its end gives the next session: the tags of the save,
\* and for the rest what the file it was merged into gave.
LEMMA ReadMerged ==
  ASSUME NEW f \in Docs \cup {None}, NEW t \in Tables, NEW i \in Ids,
         Merged(f, t) # None
  PROVE  Read(Merged(f, t))[i] = IF t[i] # None THEN t[i] ELSE Read(f)[i]
<1>1. CASE t[i] # None
  <2>1. Merged(f, t)[i] = {t[i]} /\ t[i] \in Classes
    BY <1>1 DEF Merged, Tables
  <2>. QED
    BY <1>1, <2>1, MaxOfOne DEF Read
<1>2. CASE t[i] = None
  <2>1. Merged(f, t)[i] = Base(f)[i]
    BY <1>2 DEF Merged
  <2>2. CASE f = None
    <3>1. Read(f)[i] = None
      BY <2>2 DEF Read, NoTags
    <3>2. Base(f)[i] = {}
      BY <2>2 DEF Base, Empty
    <3>. QED
      BY <1>2, <2>1, <3>1, <3>2 DEF Read
  <2>3. CASE f # None
    BY <1>2, <2>1, <2>3 DEF Read, Base
  <2>. QED
    BY <2>2, <2>3
<1>. QED
  BY <1>1, <1>2

-----------------------------------------------------------------------------
\* The flag always belongs to the table the lock last released ...
TableInv ==
  /\ any = AnyTag(inForce)
  /\ ~unlocking => inForce = overrides

\* ... and what a call of class_for has read so far leads to a class that was
\* in force while it ran.
AskedInv ==
  asked # None =>
    /\ ClassOf(inForce, asked.id) \in asked.valid
    /\ ~asked.flag => builtin_class[asked.id] \in asked.valid

\* Whole: a frame with its own elements and no others.
Whole(f) == \A n \in DOMAIN f.elements : f.elements[n] = f.number
FrameInv ==
  /\ published.finished /\ held.finished
  /\ Whole(building) /\ Whole(published) /\ Whole(held)

\* Kept: a file gives every tag that is promised, as it was promised.
Kept(f) == \A i \in Ids : promised[i] # None => Read(f)[i] = promised[i]

\* A save under way writes its table merged into a file that kept the promise.
SaveInv ==
  saving # None =>
    \E f \in Docs \cup {None} :
      /\ saving.doc = Merged(f, saving.tags)
      /\ Kept(f)
      /\ ~saving.truncated => file = f

\* The two are kept where a save can open the file it has to merge into.
FileInv == "save" \notin ReadFaults => SaveInv /\ Remembered

IInv == TypeOK /\ TableInv /\ AskedInv /\ FrameInv /\ FileInv

-----------------------------------------------------------------------------
LEMMA NextCases ==
  ASSUME TypeOK, Next
  PROVE  \/ \E t \in Tables : Edit(t)
         \/ Unlock \/ Hold \/ SaveRead \/ SaveOpen \/ SaveWrite
         \/ BeginFrame \/ NoteElement \/ EndFrame
         \/ \E i \in Ids, c \in Classes : TestOverride(i, c)
         \/ \E i \in Ids : Ask(i)
         \/ Lookup
         \/ Restart \/ HandEdit
<1>1. CASE \E i \in Ids, c \in Classes : Choose(i, c)
  <2>1. PICK i \in Ids, c \in Classes : Choose(i, c)
    BY <1>1
  <2>2. [overrides EXCEPT ![i] = c] \in Tables
    BY EditTypes DEF TypeOK
  <2>. QED
    BY <2>1, <2>2 DEF Choose
<1>2. CASE \E i \in Ids : AsClassified(i)
  <2>1. PICK i \in Ids : AsClassified(i)
    BY <1>2
  <2>2. [overrides EXCEPT ![i] = None] \in Tables
    BY EditTypes DEF TypeOK
  <2>. QED
    BY <2>1, <2>2 DEF AsClassified
<1>3. CASE Clear
  <2>1. NoTags \in Tables
    BY DEF NoTags, Tables
  <2>. QED
    BY <1>3, <2>1 DEF Clear
<1>. QED
  BY <1>1, <1>2, <1>3 DEF Next, Panel, Lists

LEMMA NoFrameTypes ==
  NoFrame \in Frames /\ NoFrame.finished /\ Whole(NoFrame) /\ Len(NoFrame.elements) <= Cap
  BY InspectorAssumption DEF NoFrame, Frames, Whole

LEMMA LoadsTypes ==
  ASSUME file \in Docs \cup {None}, NEW on \in BOOLEAN
  PROVE  Loads(on) \subseteq Tables
<1>1. NoTags \in Tables
  BY DEF NoTags, Tables
<1>. QED
  BY <1>1, ReadTypes DEF Loads

LEMMA InitIInv ==
  ASSUME Init
  PROVE  IInv
<1>1. file \in Docs \cup {None}
  BY InspectorAssumption DEF Init, Docs
<1>2. /\ promised \in Tables /\ overrides \in Tables /\ inForce = overrides
      /\ any = AnyTag(overrides) /\ AnyTag(overrides) \in BOOLEAN
  BY <1>1, ReadTypes, LoadsTypes DEF Init, AnyTag
<1>3. TypeOK
  BY <1>1, <1>2, NoFrameTypes DEF Init, TypeOK
<1>4. TableInv /\ AskedInv /\ FileInv
  BY <1>2 DEF Init, TableInv, AskedInv, FileInv, SaveInv, Remembered
<1>5. FrameInv
  BY NoFrameTypes DEF Init, FrameInv
<1>. QED
  BY <1>3, <1>4, <1>5 DEF IInv

LEMMA RestartIInv ==
  ASSUME IInv, Restart
  PROVE  IInv'
<1>1. file' = file /\ promised' = promised /\ file \in Docs \cup {None} /\ promised \in Tables
  BY DEF IInv, TypeOK, Restart
<1>2. /\ overrides' \in Tables /\ inForce' = overrides'
      /\ any' = AnyTag(overrides') /\ AnyTag(overrides') \in BOOLEAN
  BY <1>1, LoadsTypes DEF Restart, AnyTag
<1>3. TypeOK'
  BY <1>1, <1>2, NoFrameTypes DEF Restart, TypeOK
<1>4. TableInv' /\ AskedInv'
  BY <1>2 DEF Restart, TableInv, AskedInv
<1>5. FrameInv'
  BY NoFrameTypes DEF Restart, FrameInv, Whole
<1>6. FileInv'
  <2>1. saving' = None
    BY DEF Restart
  <2>. QED
    BY <1>1, <2>1 DEF IInv, FileInv, SaveInv, Remembered, Read
<1>. QED
  BY <1>3, <1>4, <1>5, <1>6 DEF IInv

\* An edit by hand touches the file and starts its promise anew.
LEMMA HandEditIInv ==
  ASSUME IInv, HandEdit
  PROVE  IInv'
<1>. USE DEF IInv
<1>1. /\ UNCHANGED <<enabled, overrides, any, unlocking, inForce, asked, building, published,
                     held, hold, saving>>
      /\ saving = None
  BY DEF HandEdit, tableVars, frameVars
<1>2. file' \in Docs \cup {None} /\ promised' = Read(file') /\ taken' = {}
  BY InspectorAssumption DEF HandEdit, Docs
<1>3. promised' \in Tables
  BY <1>2, ReadTypes
<1>4. TypeOK'
  BY <1>1, <1>2, <1>3 DEF TypeOK, AnyTag
<1>5. TableInv' /\ AskedInv'
  BY <1>1 DEF TableInv, AskedInv, AnyTag, ClassOf
<1>6. FrameInv'
  BY <1>1 DEF FrameInv, Whole
<1>7. FileInv'
  BY <1>1, <1>2 DEF FileInv, SaveInv, Remembered, Read
<1>. QED
  BY <1>4, <1>5, <1>6, <1>7

-----------------------------------------------------------------------------
\* The panel's and the list thread's steps keep the types.
LEMMA TypeStep ==
  ASSUME IInv, Next, ~Restart, ~HandEdit
  PROVE  TypeOK'
<1>. USE DEF IInv
<1>1. CASE \E t \in Tables : Edit(t)
  BY <1>1 DEF Edit, TakenAfter, TypeOK, frameVars, fileVars
<1>2. CASE Unlock
  <2>1. AnyTag(overrides) \in BOOLEAN
    BY DEF AnyTag
  <2>2. asked' \in [id : Ids, flag : BOOLEAN, valid : SUBSET Classes] \cup {None}
    <3>1. CASE asked = None
      BY <1>2, <3>1 DEF Unlock, Seen
    <3>2. CASE asked # None
      <4>1. ClassOf(overrides, asked.id) \in Classes
        BY <3>2, InspectorAssumption DEF TypeOK, ClassOf, Tables
      <4>. QED
        BY <1>2, <3>2, <4>1 DEF Unlock, Seen, TypeOK
    <3>. QED
      BY <3>1, <3>2
  <2>3. any' = AnyTag(overrides')
    BY <1>2 DEF Unlock, Flag, AnyTag
  <2>. QED
    BY <1>2, <2>1, <2>2, <2>3 DEF Unlock, TypeOK, Flag, frameVars, fileVars
<1>3. CASE Hold
  BY <1>3 DEF Hold, TypeOK, tableVars, fileVars, AnyTag
<1>4. CASE SaveRead
  <2>1. PICK f \in Found :
          saving' = [doc |-> Merged(f, overrides), tags |-> overrides, taken |-> taken,
                     truncated |-> FALSE]
    BY <1>4 DEF SaveRead
  <2>2. Merged(f, overrides) \in Docs
    <3>1. f \in Docs \cup {None} /\ overrides \in Tables
      BY DEF Found, TypeOK
    <3>. QED
      BY <3>1, MergedTypes
  <2>3. promised' \in Tables
    BY <1>4 DEF SaveRead, TypeOK, NoTags, Tables
  <2>. QED
    BY <1>4, <2>1, <2>2, <2>3 DEF SaveRead, TypeOK, tableVars, frameVars, AnyTag
<1>5. CASE SaveOpen
  BY <1>5 DEF SaveOpen, TypeOK, tableVars, frameVars, AnyTag
<1>6. CASE SaveWrite
  <2>1. promised' \in Tables
    <3>1. CASE promised' = promised
      BY <3>1 DEF TypeOK
    <3>2. CASE promised' = Answers
      BY <1>6, <3>2 DEF SaveWrite, Answers, TypeOK, Tables
    <3>. QED
      BY <1>6, <3>1, <3>2 DEF SaveWrite
  <2>. QED
    BY <1>6, <2>1 DEF SaveWrite, TypeOK, tableVars, frameVars, AnyTag
<1>7. CASE BeginFrame \/ NoteElement \/ EndFrame
  <2>1. building' \in Frames /\ published' \in Frames /\ Len(building'.elements) <= Cap
    <3>1. CASE BeginFrame
      <4>1. /\ building' = [number |-> 1 - building.number, elements |-> <<>>, finished |-> FALSE]
            /\ published' = published
        BY <3>1 DEF BeginFrame, Cleared, frameVars
      <4>2. building \in Frames /\ published \in Frames /\ 1 - building.number \in 0 .. 1
        BY DEF TypeOK, Frames
      <4>3. <<>> \in Seq(0 .. 1) /\ Len(<<>>) = 0
        OBVIOUS
      <4>. QED
        BY <4>1, <4>2, <4>3, InspectorAssumption DEF Frames
    <3>2. CASE NoteElement
      <4>1. /\ Append(building.elements, building.number) \in Seq(0 .. 1)
            /\ Len(Append(building.elements, building.number)) = Len(building.elements) + 1
        BY DEF TypeOK, Frames
      <4>2. Len(building.elements) \in Nat
        BY DEF TypeOK, Frames
      <4>3. /\ building' = [building EXCEPT !.elements = Append(building.elements, building.number)]
            /\ published' = published /\ Len(building.elements) < Cap
        BY <3>2 DEF NoteElement
      <4>4. building'.elements = Append(building.elements, building.number)
        BY <4>3 DEF TypeOK, Frames
      <4>5. building' \in Frames /\ published' \in Frames
        BY <4>1, <4>3 DEF TypeOK, Frames
      <4>. QED
        BY <4>1, <4>2, <4>3, <4>4, <4>5, InspectorAssumption
    <3>3. CASE EndFrame
      BY <1>7, <3>3 DEF EndFrame, TypeOK, Frames
    <3>. QED
      BY <1>7, <3>1, <3>2, <3>3
  <2>2. UNCHANGED <<enabled, tableVars, asked, held, hold, fileVars, taken>>
    BY <1>7 DEF BeginFrame, NoteElement, EndFrame
  <2>. QED
    BY <2>1, <2>2 DEF TypeOK, tableVars, fileVars, AnyTag
<1>8. CASE \E i \in Ids, c \in Classes : TestOverride(i, c)
  <2>1. PICK i \in Ids, c \in Classes : TestOverride(i, c)
    BY <1>8
  <2>2. overrides' \in Tables /\ inForce' \in Tables
    BY <2>1, EditTypes DEF TestOverride, TypeOK
  <2>3. AnyTag(overrides')
    BY <2>1, InspectorAssumption DEF TestOverride, TypeOK, Tables, AnyTag
  <2>. QED
    BY <2>1, <2>2, <2>3 DEF TestOverride, TypeOK, frameVars, fileVars
<1>9. CASE \E i \in Ids : Ask(i)
  <2>1. PICK i \in Ids : Ask(i)
    BY <1>9
  <2>2. ClassOf(inForce, i) \in Classes
    BY InspectorAssumption DEF TypeOK, ClassOf, Tables
  <2>. QED
    BY <2>1, <2>2 DEF Ask, TypeOK, tableVars, frameVars, fileVars, AnyTag
<1>10. CASE Lookup
  BY <1>10 DEF Lookup, TypeOK, tableVars, frameVars, fileVars, AnyTag
<1>. QED
  BY <1>1, <1>2, <1>3, <1>4, <1>5, <1>6, <1>7, <1>8, <1>9, <1>10, NextCases

LEMMA TableStep ==
  ASSUME IInv, Next, ~Restart, ~HandEdit
  PROVE  TableInv' /\ AskedInv'
<1>. USE DEF IInv
<1>1. CASE \E t \in Tables : Edit(t)
  BY <1>1 DEF Edit, TableInv, AskedInv, AnyTag, ClassOf
<1>2. CASE Unlock
  <2>1. TableInv'
    BY <1>2 DEF Unlock, TableInv, Flag, AnyTag
  <2>2. CASE asked = None
    BY <1>2, <2>1, <2>2 DEF Unlock, AskedInv, Seen
  <2>3. CASE asked # None
    <3>1. /\ asked'.id = asked.id /\ asked'.flag = asked.flag
          /\ asked'.valid = asked.valid \cup {ClassOf(overrides, asked.id)}
      BY <1>2, <2>3 DEF Unlock, Seen, TypeOK
    <3>. QED
      BY <1>2, <2>1, <2>3, <3>1 DEF Unlock, AskedInv, ClassOf
  <2>. QED
    BY <2>2, <2>3
<1>3. CASE Hold \/ SaveRead \/ SaveOpen \/ SaveWrite \/ BeginFrame \/ NoteElement \/ EndFrame
  <2>1. UNCHANGED <<tableVars, asked>>
    BY <1>3 DEF Hold, SaveRead, SaveOpen, SaveWrite, BeginFrame, NoteElement, EndFrame
  <2>. QED
    BY <2>1 DEF tableVars, TableInv, AskedInv, AnyTag, ClassOf
<1>4. CASE \E i \in Ids, c \in Classes : TestOverride(i, c)
  <2>1. PICK i \in Ids, c \in Classes : TestOverride(i, c)
    BY <1>4
  <2>2. AnyTag(inForce')
    BY <2>1, InspectorAssumption DEF TestOverride, TypeOK, Tables, AnyTag
  <2>. QED
    BY <2>1, <2>2 DEF TestOverride, TableInv, AskedInv
<1>5. CASE \E i \in Ids : Ask(i)
  <2>1. PICK i \in Ids : Ask(i)
    BY <1>5
  <2>2. ~any => ClassOf(inForce, i) = builtin_class[i]
    BY DEF TableInv, AnyTag, ClassOf
  <2>. QED
    BY <2>1, <2>2 DEF Ask, tableVars, TableInv, AskedInv, AnyTag, ClassOf
<1>6. CASE Lookup
  BY <1>6 DEF Lookup, tableVars, TableInv, AskedInv, AnyTag
<1>. QED
  BY <1>1, <1>2, <1>3, <1>4, <1>5, <1>6, NextCases

-----------------------------------------------------------------------------
\* A frame changes in BeginFrame, NoteElement and EndFrame, and is held whole.
LEMMA FrameStep ==
  ASSUME IInv, Next, ~Restart, ~HandEdit
  PROVE  FrameInv'
<1>. USE DEF IInv
<1>1. CASE Hold
  BY <1>1 DEF Hold, FrameInv, Whole
<1>2. CASE BeginFrame
  BY <1>2 DEF BeginFrame, Cleared, FrameInv, Whole
<1>3. CASE NoteElement
  <2>1. /\ building.elements \in Seq(0 .. 1) /\ building.number \in 0 .. 1
        /\ building'.elements = Append(building.elements, building.number)
        /\ building'.number = building.number
    BY <1>3 DEF NoteElement, TypeOK, Frames
  <2>2. Whole(building)'
    BY <2>1 DEF FrameInv, Whole
  <2>. QED
    BY <1>3, <2>2 DEF NoteElement, FrameInv, Whole
<1>4. CASE EndFrame
  BY <1>4 DEF EndFrame, FrameInv, Whole, TypeOK, Frames
<1>5. CASE \/ \E t \in Tables : Edit(t)
           \/ Unlock \/ SaveRead \/ SaveOpen \/ SaveWrite
           \/ \E i \in Ids, c \in Classes : TestOverride(i, c)
           \/ \E i \in Ids : Ask(i)
           \/ Lookup
  <2>1. UNCHANGED frameVars
    BY <1>5 DEF Edit, Unlock, SaveRead, SaveOpen, SaveWrite, TestOverride, Ask, Lookup
  <2>. QED
    BY <2>1 DEF frameVars, FrameInv, Whole
<1>. QED
  BY <1>1, <1>2, <1>3, <1>4, <1>5, NextCases

\* The file and its promise change in the three steps of a save.
LEMMA SaveStep ==
  ASSUME IInv, Next, ~Restart, ~HandEdit, "save" \notin ReadFaults
  PROVE  SaveInv' /\ Remembered'
<1>. USE DEF IInv, FileInv
<1>1. CASE SaveRead
  <2>1. /\ file \in Docs \cup {None} /\ file' = file
        /\ promised' = IF file = None THEN NoTags ELSE promised
        /\ saving'.doc = Merged(file, saving'.tags) /\ ~saving'.truncated
    BY <1>1 DEF SaveRead, Found, TypeOK
  <2>2. Kept(file)'
    BY <2>1 DEF Kept, Remembered, NoTags, Read
  <2>3. SaveInv'
    BY <2>1, <2>2 DEF SaveInv, Kept, Read
  <2>. QED
    BY <2>2, <2>3 DEF Kept, Remembered
<1>2. CASE SaveOpen
  <2>1. PICK f \in Docs \cup {None} : saving.doc = Merged(f, saving.tags) /\ Kept(f)
    BY <1>2 DEF SaveOpen, SaveInv
  <2>2. promised' = promised
    BY <1>2 DEF SaveOpen
  <2>3. CASE saving' = None /\ file' = file
    BY <2>2, <2>3 DEF SaveInv, Remembered, Read
  <2>4. CASE saving' = [saving EXCEPT !.truncated = TRUE] /\ file' = None
    <3>1. saving'.doc = saving.doc /\ saving'.tags = saving.tags /\ saving'.truncated
      BY <1>2, <2>4 DEF SaveOpen, TypeOK
    <3>2. \A i \in Ids : promised'[i] # None => Read(f)[i] = promised'[i]
      BY <2>1, <2>2 DEF Kept
    <3>. QED
      BY <2>1, <2>4, <3>1, <3>2 DEF SaveInv, Remembered, Kept, Read
  <2>. QED
    BY <1>2, <2>3, <2>4 DEF SaveOpen
<1>3. CASE SaveWrite
  <2>1. saving' = None
    BY <1>3 DEF SaveWrite
  <2>2. CASE UNCHANGED <<file, promised>>
    BY <2>1, <2>2 DEF SaveInv, Remembered, Read
  <2>3. CASE file' = saving.doc /\ promised' = Answers
    <3>1. PICK f \in Docs \cup {None} : saving.doc = Merged(f, saving.tags) /\ Kept(f)
      BY <1>3 DEF SaveWrite, SaveInv
    <3>2. saving.tags \in Tables
      BY <1>3 DEF SaveWrite, TypeOK
    <3>3. ASSUME file' # None, NEW i \in Ids, promised'[i] # None
          PROVE  Read(file')[i] = promised'[i]
      <4>1. Read(file')[i] = IF saving.tags[i] # None THEN saving.tags[i] ELSE Read(f)[i]
        BY <2>3, <3>1, <3>2, <3>3, ReadMerged
      <4>2. CASE saving.tags[i] # None
        BY <2>3, <4>1, <4>2 DEF Answers
      <4>3. CASE saving.tags[i] = None
        <5>1. promised'[i] = promised[i]
          BY <2>3, <3>3, <4>3 DEF Answers
        <5>. QED
          BY <3>1, <3>3, <4>1, <4>3, <5>1 DEF Kept
      <4>. QED
        BY <4>2, <4>3
    <3>. QED
      BY <2>1, <3>3 DEF SaveInv, Remembered, Read
  <2>. QED
    BY <1>3, <2>2, <2>3 DEF SaveWrite
<1>4. CASE \/ \E t \in Tables : Edit(t)
           \/ Unlock \/ Hold \/ BeginFrame \/ NoteElement \/ EndFrame
           \/ \E i \in Ids, c \in Classes : TestOverride(i, c)
           \/ \E i \in Ids : Ask(i)
           \/ Lookup
  <2>1. UNCHANGED fileVars
    BY <1>4 DEF Edit, Unlock, Hold, BeginFrame, NoteElement, EndFrame, TestOverride, Ask, Lookup
  <2>. QED
    BY <2>1 DEF fileVars, SaveInv, Kept, Remembered, Read
<1>. QED
  BY <1>1, <1>2, <1>3, <1>4, NextCases

LEMMA IInvStep ==
  ASSUME IInv, [Next]_vars
  PROVE  IInv'
<1>1. CASE Restart
  BY <1>1, RestartIInv
<1>2. CASE Next /\ ~Restart /\ ~HandEdit
  BY <1>2, TypeStep, TableStep, FrameStep, SaveStep DEF IInv, FileInv
<1>3. CASE HandEdit
  BY <1>3, HandEditIInv
<1>4. CASE UNCHANGED vars
  <2>1. UNCHANGED <<enabled, overrides, any, unlocking, inForce, asked, building, published,
                    held, hold, file, saving, promised, taken>>
    BY <1>4 DEF vars, tableVars, frameVars, fileVars
  <2>2. TypeOK'
    BY <2>1 DEF IInv, TypeOK, AnyTag
  <2>3. TableInv' /\ AskedInv'
    BY <2>1 DEF IInv, TableInv, AskedInv, AnyTag, ClassOf
  <2>4. FrameInv'
    BY <2>1 DEF IInv, FrameInv, Whole
  <2>5. FileInv'
    BY <2>1 DEF IInv, FileInv, SaveInv, Kept, Remembered, Read
  <2>. QED
    BY <2>2, <2>3, <2>4, <2>5 DEF IInv
<1>. QED
  BY <1>1, <1>2, <1>3, <1>4

-----------------------------------------------------------------------------
\* Types: the flag agrees with the table whenever the lock is free, the frame
\* being listed stays under the cap, the file is a document or torn.
THEOREM TypeCorrect == Spec => []TypeOK
<1>1. IInv => TypeOK
  BY DEF IInv
<1>. QED
  BY <1>1, InitIInv, IInvStep, PTL DEF Spec

\* What the panel draws is one finished frame of the display-list thread.
THEOREM FramesWhole == Spec => []ShownWhole
<1>1. IInv => ShownWhole
  BY DEF IInv, FrameInv, ShownWhole, Shown, Whole
<1>. QED
  BY <1>1, InitIInv, IInvStep, PTL DEF Spec

\* If a save can always open the file it merges into, a whole file gives the
\* next session every tag saved or written by hand and not taken away since.
THEOREM FileRemembers ==
  ASSUME "save" \notin ReadFaults
  PROVE  Spec => []Remembered
<1>1. IInv => Remembered
  BY DEF IInv, FileInv
<1>. QED
  BY <1>1, InitIInv, IInvStep, PTL DEF Spec

\* class_for answers with a class that was in force while it was asked, though
\* it reads the flag outside the lock.
THEOREM AnswersInForce == Spec => AnswersCurrent
<1>1. ASSUME IInv PROVE [(Lookup /\ asked # None) => Answer \in asked.valid]_vars
  BY <1>1 DEF IInv, Lookup, Answer, TableInv, AskedInv, ClassOf
<1>. QED
  BY <1>1, InitIInv, IInvStep, PTL DEF Spec, AnswersCurrent
=============================================================================
