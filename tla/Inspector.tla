----------------------------- MODULE Inspector -----------------------------
(***************************************************************************)
(* The HUD inspector (src/inspector.cpp): the classes the player chooses   *)
(* in its panel, what the display-list thread is told of them, the frames  *)
(* that thread lists for the panel, and the file that keeps the choices.   *)
(*                                                                         *)
(* "Two threads meet here."  The panel changes the table of overrides, and *)
(* the flag beside it, under a lock; the display-list thread reads the     *)
(* flag without it.  The process may end at any step.                      *)
(*                                                                         *)
(* Two observers follow what the player was given to understand, and not   *)
(* what the file's merge makes of it: promised has the tags that stand in  *)
(* the file by a save or by hand, taken the ones taken away in the panel.  *)
(***************************************************************************)
EXTENDS Naturals, Sequences, FiniteSets, FiniteSetsExt

CONSTANTS
  Ids,           \* identities of elements
  Classes,       \* Class: 0 is kAuto, which the panel calls center
  builtin_class, \* the class compiled in for each identity
  Cap,           \* 512: elements kept of a frame
  Edits,         \* what hud.json may hold at first, or be edited to by hand
  Tests,         \* the overrides HH_TEST_HUD_OVERRIDE may set
  ReadFaults,    \* where a file that is there may fail to open: "start", "save"
  None

ASSUME InspectorAssumption ==
  /\ Classes \subseteq Nat /\ IsFiniteSet(Classes) /\ None \notin Classes
  /\ builtin_class \in [Ids -> Classes]
  /\ Cap \in Nat
  /\ Edits \subseteq [Ids -> SUBSET Classes] \cup {None}
  /\ Tests \subseteq Ids \X Classes
  /\ ReadFaults \subseteq {"start", "save"}

\* hud.json: the lists each identity stands in, or None for anything that
\* does not parse.  A file that is not there holds nothing.
Docs == [Ids -> SUBSET Classes]
Empty == [i \in Ids |-> {}]
Tables == [Ids -> Classes \cup {None}]
NoTags == [i \in Ids |-> None]

VARIABLES
  enabled,    \* g_enabled
  overrides,  \* g_overrides
  any,        \* g_any_overrides
  unlocking,  \* the panel holds the lock and has the flag still to store
  asked,      \* the display-list thread's call of class_for
  building, published, held,   \* frames: g_building, g_published, g_held
  hold,       \* g_hold
  file,       \* hud.json
  saving,     \* the panel's save: what it will write, and whether it has truncated
  \* observers
  inForce,    \* the overrides as of the last time the lock was released
  taken,      \* the identities whose tag the player has taken away
  promised    \* the tags a later session should find

tableVars == <<overrides, any, unlocking, inForce>>
frameVars == <<building, published, held, hold>>
fileVars == <<file, saving, promised>>
vars == <<enabled, tableVars, asked, frameVars, fileVars, taken>>

NoFrame == [number |-> 0, elements |-> <<>>, finished |-> TRUE]

\* init reads the lists in the order of the classes, so the last one counts.
Read(f) ==
  IF f = None THEN NoTags
  ELSE [i \in Ids |-> IF f[i] = {} THEN None ELSE Max(f[i])]
AnyTag(t) == \E i \in Ids : t[i] # None
ClassOf(t, i) == IF t[i] = None THEN builtin_class[i] ELSE t[i]

Frames == [number : 0 .. 1, elements : Seq(0 .. 1), finished : BOOLEAN]

TypeOK ==
  /\ enabled \in BOOLEAN /\ any \in BOOLEAN /\ hold \in BOOLEAN
  /\ overrides \in Tables /\ inForce \in Tables /\ promised \in Tables
  /\ unlocking \in BOOLEAN /\ (~unlocking => any = AnyTag(overrides))
  /\ asked \in [id : Ids, flag : BOOLEAN, valid : SUBSET Classes] \cup {None}
  /\ {building, published, held} \subseteq Frames
  /\ Len(building.elements) <= Cap
  /\ file \in Docs \cup {None}
  /\ saving \in [doc : Docs, tags : Tables, taken : SUBSET Ids, truncated : BOOLEAN] \cup {None}
  /\ taken \subseteq Ids

\* init(): the overrides of a process that is started with the panel on or
\* off.  A file that does not open is taken for one that is not there.
Loads(on) ==
  IF on THEN {Read(file)} \cup (IF "start" \in ReadFaults THEN {NoTags} ELSE {})
  ELSE {NoTags}

Init ==
  /\ file \in Edits
  /\ promised = Read(file) /\ taken = {}
  /\ enabled \in BOOLEAN
  /\ overrides \in Loads(enabled) /\ inForce = overrides
  /\ any = AnyTag(overrides) /\ unlocking = FALSE
  /\ asked = None /\ saving = None
  /\ building = NoFrame /\ published = NoFrame /\ held = NoFrame /\ hold = FALSE

\* The process ends at any step, in the middle of a save too, and starts again.
Restart ==
  /\ enabled' \in BOOLEAN
  /\ overrides' \in Loads(enabled') /\ inForce' = overrides'
  /\ any' = AnyTag(overrides') /\ unlocking' = FALSE
  /\ asked' = None /\ saving' = None
  /\ building' = NoFrame /\ published' = NoFrame /\ held' = NoFrame /\ hold' = FALSE
  /\ taken' = {}
  /\ UNCHANGED <<file, promised>>

\* The player, or tools/promote_hud_tags.py, rewrites hud.json, and not while
\* the panel does.  It is the last word on every identity.
HandEdit ==
  /\ saving = None
  /\ file' \in Edits
  /\ promised' = Read(file') /\ taken' = {}
  /\ UNCHANGED <<enabled, tableVars, asked, frameVars, saving>>

-----------------------------------------------------------------------------
\* The panel, on the renderer's UI thread.

PanelFree == enabled /\ ~unlocking /\ saving = None

\* An identity stays taken away until it is tagged again.
TakenAfter(t) == {i \in Ids : t[i] = None /\ (i \in taken \/ overrides[i] # None)}

\* draw_panel's dropdown, "as classified" and "Clear overrides": the table ...
Edit(t) ==
  /\ PanelFree
  /\ overrides' = t
  /\ unlocking' = TRUE
  /\ taken' = TakenAfter(t)
  /\ UNCHANGED <<enabled, any, asked, inForce, frameVars, fileVars>>

Choose(i, c) == Edit([overrides EXCEPT ![i] = c])
AsClassified(i) == Edit([overrides EXCEPT ![i] = None])
Clear == Edit(NoTags)

\* ... and then the flag, before the lock is released.
Flag_LastEdit(t) == \A i \in Ids : t[i] # None   \* mutant: an erase stores false
Flag(t) == AnyTag(t)

Seen(call, t) == IF call = None THEN None
                 ELSE [call EXCEPT !.valid = @ \cup {ClassOf(t, call.id)}]

Unlock ==
  /\ unlocking
  /\ any' = Flag(overrides)
  /\ unlocking' = FALSE
  /\ inForce' = overrides
  /\ asked' = Seen(asked, overrides)
  /\ UNCHANGED <<enabled, overrides, frameVars, fileVars, taken>>

\* "Hold this frame".
Hold ==
  /\ PanelFree
  /\ hold' = ~hold
  /\ held' = IF hold THEN held ELSE published
  /\ UNCHANGED <<enabled, tableVars, asked, building, published, fileVars, taken>>

\* save_overrides: the file's entries, with those of the table in one list each.
Base(f) == IF f = None THEN Empty ELSE f
Merged_Both(f, t) == [i \in Ids |-> Base(f)[i] \cup ({t[i]} \ {None})]   \* mutant: not dropped from the others
Merged_Anew(f, t) == [i \in Ids |-> {t[i]} \ {None}]   \* mutant: only the table's
Merged(f, t) == [i \in Ids |-> IF t[i] = None THEN Base(f)[i] ELSE {t[i]}]

\* What a save finds: a file that does not open counts as one that does not parse.
Found == {file} \cup (IF "save" \in ReadFaults THEN {None} ELSE {})

\* What a torn file held is lost by now, and the save does not promise it.
SaveRead ==
  /\ PanelFree
  /\ \E f \in Found :
       saving' = [doc |-> Merged(f, overrides), tags |-> overrides, taken |-> taken,
                  truncated |-> FALSE]
  /\ promised' = IF file = None THEN NoTags ELSE promised
  /\ UNCHANGED <<enabled, tableVars, asked, frameVars, file, taken>>

SaveOpen ==
  /\ saving # None /\ ~saving.truncated
  /\ \/ saving' = None /\ UNCHANGED file      \* "could not write"
     \/ saving' = [saving EXCEPT !.truncated = TRUE] /\ file' = None
  /\ UNCHANGED <<enabled, tableVars, asked, frameVars, promised, taken>>

\* "Save keeps it for the next session": the tags of the table, without the
\* ones taken away.
Answers == [i \in Ids |-> IF saving.tags[i] # None THEN saving.tags[i]
                          ELSE IF i \in saving.taken THEN None ELSE promised[i]]

\* A write that fails leaves the file torn, and the panel says "saved" all the same.
SaveWrite ==
  /\ saving # None /\ saving.truncated
  /\ \/ file' = saving.doc /\ promised' = Answers
     \/ UNCHANGED <<file, promised>>
  /\ saving' = None
  /\ UNCHANGED <<enabled, tableVars, asked, frameVars, taken>>

-----------------------------------------------------------------------------
\* The display-list thread.

Cleared_Forgotten(elements) == elements   \* mutant: the last frame's elements stay
Cleared(elements) == <<>>

BeginFrame ==
  /\ enabled /\ asked = None
  /\ building' = [number |-> 1 - building.number, elements |-> Cleared(building.elements),
                   finished |-> FALSE]
  /\ UNCHANGED <<enabled, tableVars, asked, published, held, hold, fileVars, taken>>

\* note_element, and no more than the cap.
NoteElement ==
  /\ enabled /\ asked = None /\ ~building.finished
  /\ Len(building.elements) < Cap
  /\ building' = [building EXCEPT !.elements = Append(@, building.number)]
  /\ UNCHANGED <<enabled, tableVars, asked, published, held, hold, fileVars, taken>>

EndFrame ==
  /\ enabled /\ asked = None /\ ~building.finished /\ ~unlocking
  /\ building' = [building EXCEPT !.finished = TRUE]
  /\ published' = [building EXCEPT !.finished = TRUE]
  /\ UNCHANGED <<enabled, tableVars, asked, held, hold, fileVars, taken>>

\* test_override, from begin_frame.
TestOverride(i, c) ==
  /\ <<i, c>> \in Tests
  /\ enabled /\ asked = None /\ ~unlocking
  /\ overrides' = [overrides EXCEPT ![i] = c]
  /\ any' = TRUE
  /\ inForce' = [overrides EXCEPT ![i] = c]
  /\ taken' = taken \ {i}
  /\ UNCHANGED <<enabled, unlocking, asked, frameVars, fileVars>>

\* class_for, when any_classes() lets the rewriter ask: the flag outside the
\* lock, then the table inside it.
Ask(i) ==
  /\ enabled /\ asked = None
  /\ asked' = [id |-> i, flag |-> any, valid |-> {ClassOf(inForce, i)}]
  /\ UNCHANGED <<enabled, tableVars, frameVars, fileVars, taken>>

Answer == IF asked.flag THEN ClassOf(overrides, asked.id) ELSE builtin_class[asked.id]

Lookup ==
  /\ asked # None
  /\ asked.flag => ~unlocking
  /\ asked' = None
  /\ UNCHANGED <<enabled, tableVars, frameVars, fileVars, taken>>

-----------------------------------------------------------------------------
Panel ==
  \/ \E i \in Ids, c \in Classes : Choose(i, c)
  \/ \E i \in Ids : AsClassified(i)
  \/ Clear \/ Unlock \/ Hold
  \/ SaveRead \/ SaveOpen \/ SaveWrite
Lists ==
  \/ BeginFrame \/ NoteElement \/ EndFrame
  \/ \E i \in Ids, c \in Classes : TestOverride(i, c)
  \/ \E i \in Ids : Ask(i)
  \/ Lookup

Next == Panel \/ Lists \/ Restart \/ HandEdit

Spec == Init /\ [][Next]_vars

-----------------------------------------------------------------------------
\* The class an element is drawn with was in force at some moment while it was
\* asked for, though the flag and the table are read at two moments.
\* (class_for, override_class)
AnswersCurrent == [][(Lookup /\ asked # None) => Answer \in asked.valid]_vars

\* The frame the panel shows, held or not, is one the display-list thread has
\* finished, with that frame's elements and no others.  (end_frame, draw_panel)
Shown == IF hold THEN held ELSE published
ShownWhole ==
  /\ Shown.finished
  /\ \A n \in DOMAIN Shown.elements : Shown.elements[n] = Shown.number

\* A save keeps "any entries already there that the panel has not touched"
\* (inspector.cpp:89) and adds the table's: a whole hud.json gives the next
\* session every tag that was saved or written by hand and not taken away
\* since, as it was last given.  What a broken save tore is not asked back.
\* (save_overrides, init)
Remembered == file # None => \A i \in Ids : promised[i] # None => Read(file)[i] = promised[i]

\* A tag the player took away and saved so is not there in the next session:
\* "changing your mind in the panel does not leave both answers behind"
\* (inspector.cpp:121-122).
TakenStaysAway == file # None => \A i \in Ids : promised[i] = None => Read(file)[i] = None

\* "A saved override survives a restart" (inspector.cpp:91), a restart that
\* breaks off a later save included.
SavedSurvives == saving = None => \A i \in Ids : promised[i] # None => Read(file)[i] = promised[i]
=============================================================================
