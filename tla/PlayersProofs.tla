--------------------------- MODULE PlayersProofs ---------------------------
(***************************************************************************)
(* Proofs about Players, for any pads, settings and scripts, and any bound *)
(* on what happens outside: the assignment dialog against the two threads  *)
(* that poll.                                                              *)
(***************************************************************************)
EXTENDS Players, SequenceTheorems, TLAPS

Steps == {"idle", "listed", "differs", "recorded", "passed", "focus", "rumble", "read1", "read2"}

\* What the sequences hold.
SeqInv ==
  /\ connected \in Seq(Pads) /\ assigned \in Seq(Pads)
  /\ seen \in [Threads -> Seq(Pads)]
  /\ players \in Seq(Pads \cup {Keyboard})
  /\ pc \in [Threads -> Steps]

\* An assignment is past its test only if the dialog was not guarded.
GuardInv == is_assigning /\ guarded => \A t \in Threads : pc[t] # "passed"

\* While the choice stands no poll can have anything to record: whatever pads
\* a poll has listed are the ones already assigned.
StandInv ==
  stands =>
    /\ assigned_once /\ assigned = connected
    /\ \A t \in Threads : ~Busy(t) /\ (pc[t] = "listed" => seen[t] = connected)

\* The autostart fires with the last frame it counts.
FrameInv == ~fired => frames < Frames

IInv == TypeOK /\ SeqInv /\ GuardInv /\ StandInv /\ FrameInv

-----------------------------------------------------------------------------
\* The lists of pads: a pad is listed once, however they come and go.
LEMMA ListedOnceAppend ==
  ASSUME NEW s \in Seq(Pads), IsInjective(s), NEW p \in Pads, p \notin ToSet(s)
  PROVE  Append(s, p) \in Seq(Pads) /\ IsInjective(Append(s, p))
<1>1. /\ Append(s, p) \in Seq(Pads)
      /\ Len(Append(s, p)) = Len(s) + 1
      /\ DOMAIN s = 1..Len(s) /\ DOMAIN Append(s, p) = 1..Len(s) + 1
      /\ \A i \in 1..Len(s) : Append(s, p)[i] = s[i]
      /\ Append(s, p)[Len(s) + 1] = p
      /\ Len(s) \in Nat
  OBVIOUS
<1>2. \A i \in 1..Len(s) : s[i] # p
  BY <1>1 DEF ToSet
<1>3. SUFFICES ASSUME NEW a \in 1..Len(s) + 1, NEW b \in 1..Len(s) + 1,
                      Append(s, p)[a] = Append(s, p)[b]
               PROVE  a = b
  BY <1>1 DEF IsInjective
<1>4. a \in 1..Len(s) \/ a = Len(s) + 1
  BY <1>1
<1>5. b \in 1..Len(s) \/ b = Len(s) + 1
  BY <1>1
<1>. QED
  BY <1>1, <1>2, <1>3, <1>4, <1>5 DEF IsInjective

LEMMA ListedOnceRemove ==
  ASSUME NEW s \in Seq(Pads), IsInjective(s), NEW i \in DOMAIN s
  PROVE  RemoveAt(s, i) \in Seq(Pads) /\ IsInjective(RemoveAt(s, i))
<1>. DEFINE r == RemoveAt(s, i)
<1>1. Len(s) \in Nat /\ DOMAIN s = 1..Len(s) /\ i \in 1..Len(s)
  OBVIOUS
<1>2. /\ SubSeq(s, 1, i - 1) \in Seq(Pads)
      /\ Len(SubSeq(s, 1, i - 1)) = i - 1
      /\ \A k \in 1..i - 1 : SubSeq(s, 1, i - 1)[k] = s[k]
  BY <1>1
<1>3. /\ SubSeq(s, i + 1, Len(s)) \in Seq(Pads)
      /\ Len(SubSeq(s, i + 1, Len(s))) = Len(s) - i
      /\ \A k \in 1..Len(s) - i : SubSeq(s, i + 1, Len(s))[k] = s[k + i]
  BY <1>1
<1>. DEFINE u == SubSeq(s, 1, i - 1)
           v == SubSeq(s, i + 1, Len(s))
<1>4. r = u \o v
  BY DEF RemoveAt
<1>. HIDE DEF r, u, v
<1>5. /\ r \in Seq(Pads) /\ Len(r) = Len(s) - 1
      /\ \A k \in 1..Len(s) - 1 : r[k] = IF k < i THEN s[k] ELSE s[k + 1]
  <2>1. u \in Seq(Pads) /\ v \in Seq(Pads) /\ Len(u) = i - 1 /\ Len(v) = Len(s) - i
    BY <1>2, <1>3 DEF u, v
  <2>2. /\ r \in Seq(Pads) /\ Len(r) = Len(u) + Len(v)
        /\ \A k \in 1..Len(u) + Len(v) : r[k] = IF k <= Len(u) THEN u[k] ELSE v[k - Len(u)]
    BY <1>4, <2>1, ConcatProperties
  <2>3. \A k \in 1..i - 1 : u[k] = s[k]
    BY <1>2 DEF u
  <2>4. \A k \in 1..Len(s) - i : v[k] = s[k + i]
    BY <1>3 DEF v
  <2>5. \A k \in i..Len(s) - 1 : k - (i - 1) \in 1..Len(s) - i /\ (k - (i - 1)) + i = k + 1
    BY <1>1
  <2>6. \A k \in 1..Len(s) - 1 : r[k] = IF k < i THEN s[k] ELSE s[k + 1]
    <3>1. SUFFICES ASSUME NEW k \in 1..Len(s) - 1
                   PROVE  r[k] = IF k < i THEN s[k] ELSE s[k + 1]
      OBVIOUS
    <3>2. r[k] = IF k <= i - 1 THEN u[k] ELSE v[k - (i - 1)]
      BY <1>1, <2>1, <2>2
    <3>3. CASE k < i
      BY <1>1, <2>3, <3>2, <3>3
    <3>4. CASE ~(k < i)
      BY <1>1, <2>4, <2>5, <3>2, <3>4
    <3>. QED
      BY <3>3, <3>4
  <2>. QED
    BY <1>1, <2>1, <2>2, <2>6
<1>6. SUFFICES ASSUME NEW a \in 1..Len(s) - 1, NEW b \in 1..Len(s) - 1, r[a] = r[b]
               PROVE  a = b
  <2>1. DOMAIN r = 1..Len(s) - 1
    BY <1>5
  <2>. QED
    BY <1>5, <1>6, <2>1 DEF IsInjective, r
<1>7. \A k, l \in 1..Len(s) : s[k] = s[l] => k = l
  BY <1>1 DEF IsInjective
<1>8. CASE a < i /\ b < i
  BY <1>1, <1>5, <1>6, <1>7, <1>8
<1>9. CASE a < i /\ ~(b < i)
  <2>1. s[a] = s[b + 1] /\ a \in 1..Len(s) /\ b + 1 \in 1..Len(s)
    BY <1>1, <1>5, <1>6, <1>9
  <2>. QED
    BY <1>1, <1>7, <1>9, <2>1
<1>10. CASE ~(a < i) /\ b < i
  <2>1. s[a + 1] = s[b] /\ a + 1 \in 1..Len(s) /\ b \in 1..Len(s)
    BY <1>1, <1>5, <1>6, <1>10
  <2>. QED
    BY <1>1, <1>7, <1>10, <2>1
<1>11. CASE ~(a < i) /\ ~(b < i)
  <2>1. s[a + 1] = s[b + 1] /\ a + 1 \in 1..Len(s) /\ b + 1 \in 1..Len(s)
    BY <1>1, <1>5, <1>6, <1>11
  <2>2. a + 1 = b + 1
    BY <1>7, <2>1
  <2>. QED
    BY <2>2
<1>. QED
  BY <1>1, <1>8, <1>9, <1>10, <1>11

\* Whom an assignment or the dialog names: no more than there may be.
LEMMA InOrderTypes ==
  ASSUME NEW pads \in Seq(Pads)
  PROVE  InOrder(pads) \in Seq(Pads \cup {Keyboard}) /\ Len(InOrder(pads)) <= MaxPlayers
<1>1. CASE pads = <<>>
  BY <1>1, PlayersAssumption DEF InOrder
<1>2. CASE pads # <<>> /\ Len(pads) < MaxPlayers
  <2>1. InOrder(pads) = SubSeq(pads, 1, Len(pads))
    BY <1>2 DEF InOrder
  <2>. QED
    BY <1>2, <2>1, PlayersAssumption
<1>3. CASE pads # <<>> /\ ~(Len(pads) < MaxPlayers)
  <2>1. InOrder(pads) = SubSeq(pads, 1, MaxPlayers)
    BY <1>3 DEF InOrder
  <2>. QED
    BY <1>3, <2>1, PlayersAssumption
<1>. QED
  BY <1>1, <1>2, <1>3

LEMMA AnswersTypes ==
  ASSUME connected \in Seq(Pads), NEW s \in Answers
  PROVE  s \in Seq(Pads \cup {Keyboard}) /\ Len(s) <= MaxPlayers
<1>1. ToSet(connected) \subseteq Pads
  BY DEF ToSet
<1>2. CASE \E p \in ToSet(connected) \cup {Keyboard} : s = <<p>>
  <2>1. PICK p \in Pads \cup {Keyboard} : s = <<p>>
    BY <1>1, <1>2
  <2>. QED
    BY <2>1, PlayersAssumption
<1>3. CASE s \in ToSet(connected) \X ToSet(connected)
  <2>1. PICK p \in Pads, q \in Pads : s = <<p, q>>
    BY <1>1, <1>3
  <2>. QED
    BY <2>1, PlayersAssumption
<1>. QED
  BY <1>2, <1>3 DEF Answers

-----------------------------------------------------------------------------
LEMMA NextCases ==
  ASSUME Next
  PROVE  \/ \E t \in Threads : PollInput(t) \/ Compare(t) \/ Record(t) \/ Test(t) \/ Assign(t)
         \/ Focus \/ Rumble
         \/ \E c \in {1, 2} : Read(c)
         \/ Second
         \/ \E p \in Pads : Plug(p) \/ Unplug(p)
         \/ OpenDialog \/ Cancel
         \/ \E s \in Answers : Commit(s)
         \/ Menu \/ StartGame \/ AltTab
         \/ \E on \in BOOLEAN : set_rumble(on)
  BY DEF Next, Main, Game, Outside, Poll, Threads

\* The lists of pads stay lists in which a pad stands once.
ListsInv ==
  /\ IsInjective(connected) /\ IsInjective(assigned)
  /\ \A t \in Threads : IsInjective(seen[t])

LEMMA ListsTypes ==
  SeqInv => ( ListsInv <=> \A s \in {connected, assigned} \cup {seen[t] : t \in Threads} :
                             ToSet(s) \subseteq Pads /\ IsInjective(s) )
<1>1. SUFFICES ASSUME SeqInv
               PROVE  ListsInv <=> \A s \in {connected, assigned} \cup {seen[t] : t \in Threads} :
                                     ToSet(s) \subseteq Pads /\ IsInjective(s)
  OBVIOUS
<1>2. \A s \in Seq(Pads) : ToSet(s) \subseteq Pads
  BY DEF ToSet
<1>. QED
  BY <1>1, <1>2 DEF ListsInv, SeqInv

LEMMA ListsStep ==
  ASSUME SeqInv, ListsInv, Next
  PROVE  connected' \in Seq(Pads) /\ assigned' \in Seq(Pads)
         /\ seen' \in [Threads -> Seq(Pads)] /\ ListsInv'
<1>. USE DEF SeqInv, ListsInv
<1>1. CASE \E t \in Threads : PollInput(t)
  BY <1>1 DEF PollInput
<1>2. CASE \E t \in Threads : Record(t)
  BY <1>2 DEF Record, padVars
<1>3. CASE \E p \in Pads : Plug(p)
  BY <1>3, ListedOnceAppend DEF Plug, PadsChange, pollVars
<1>4. CASE \E p \in Pads : Unplug(p)
  BY <1>4, ListedOnceRemove DEF Unplug, PadsChange, pollVars
<1>5. CASE \/ \E t \in Threads : Compare(t) \/ Test(t) \/ Assign(t)
           \/ Focus \/ Rumble
           \/ \E c \in {1, 2} : Read(c)
           \/ Second \/ OpenDialog \/ Cancel
           \/ \E s \in Answers : Commit(s)
           \/ Menu \/ StartGame \/ AltTab
           \/ \E on \in BOOLEAN : set_rumble(on)
  <2>1. UNCHANGED <<connected, assigned, seen>>
    BY <1>5 DEF Compare, Test, Assign, Focus, Rumble, Read, Second, OpenDialog, Cancel, Commit,
                Menu, StartGame, AltTab, set_rumble, padVars, pollVars
  <2>. QED
    BY <2>1
<1>. QED
  BY <1>1, <1>2, <1>3, <1>4, <1>5, NextCases

\* So do the players' names and the threads' places.
LEMMA PlayersStep ==
  ASSUME TypeOK, SeqInv, Next
  PROVE  /\ players' \in Seq(Pads \cup {Keyboard}) /\ Len(players') <= MaxPlayers
         /\ ToSet(players') \subseteq Pads \cup {Keyboard}
<1>. SUFFICES players' \in Seq(Pads \cup {Keyboard}) /\ Len(players') <= MaxPlayers
  BY DEF ToSet
<1>1. CASE \E t \in Threads : Assign(t)
  BY <1>1, InOrderTypes DEF Assign, SeqInv
<1>2. CASE \E s \in Answers : Commit(s)
  BY <1>2, AnswersTypes DEF Commit, SeqInv
<1>3. CASE \/ \E t \in Threads : PollInput(t) \/ Compare(t) \/ Record(t) \/ Test(t)
           \/ Focus \/ Rumble
           \/ \E c \in {1, 2} : Read(c)
           \/ Second
           \/ \E p \in Pads : Plug(p) \/ Unplug(p)
           \/ OpenDialog \/ Cancel \/ Menu \/ StartGame \/ AltTab
           \/ \E on \in BOOLEAN : set_rumble(on)
  <2>1. players' = players
    BY <1>3 DEF PollInput, Compare, Record, Test, Focus, Rumble, Read, Second, Plug, Unplug,
                PadsChange, OpenDialog, Cancel, Menu, StartGame, AltTab, set_rumble, playerVars
  <2>. QED
    BY <2>1 DEF SeqInv, TypeOK
<1>. QED
  BY <1>1, <1>2, <1>3, NextCases

LEMMA PlacesStep ==
  ASSUME TypeOK, SeqInv, Next
  PROVE  /\ pc' \in [Threads -> Steps]
         /\ pc'["main"] \in {"idle", "listed", "differs", "recorded", "passed", "focus", "rumble"}
         /\ pc'["game"] \in {"idle", "listed", "differs", "recorded", "passed", "read1", "read2"}
<1>. USE DEF Threads, Steps, TypeOK, SeqInv
<1>1. CASE \E t \in Threads : PollInput(t) \/ Compare(t) \/ Record(t) \/ Test(t) \/ Assign(t)
  <2>1. PICK t \in Threads : PollInput(t) \/ Compare(t) \/ Record(t) \/ Test(t) \/ Assign(t)
    BY <1>1
  <2>2. PICK where \in {"listed", "differs", "recorded", "passed", After(t)} :
          pc' = [pc EXCEPT ![t] = where]
    BY <2>1 DEF PollInput, Compare, Record, Test, Assign
  <2>3. /\ t = "main" => After(t) = "focus"
        /\ t = "game" => After(t) = "read1"
    BY DEF After
  <2>. QED
    BY <2>2, <2>3
<1>2. CASE Focus \/ Rumble
  BY <1>2 DEF Focus, Rumble
<1>3. CASE \E c \in {1, 2} : Read(c)
  BY <1>3 DEF Read
<1>4. CASE \/ Second
           \/ \E p \in Pads : Plug(p) \/ Unplug(p)
           \/ OpenDialog \/ Cancel
           \/ \E s \in Answers : Commit(s)
           \/ Menu \/ StartGame \/ AltTab
           \/ \E on \in BOOLEAN : set_rumble(on)
  <2>1. pc' = pc
    BY <1>4 DEF Second, Plug, Unplug, PadsChange, OpenDialog, Cancel, Commit, Menu, StartGame,
                AltTab, set_rumble, pollVars
  <2>. QED
    BY <2>1
<1>. QED
  BY <1>1, <1>2, <1>3, <1>4, NextCases

-----------------------------------------------------------------------------
\* What a read gives: the devices of players, the keyboard, the script.
LEMMA GivenTypes ==
  ASSUME SeqInv, NEW c \in {1, 2}, NEW t
  PROVE  get_input(c, t) \in {Nobody} \cup SUBSET (Pads \cup {Keyboard, Script})
<1>1. Devices(c) \subseteq Pads \cup {Keyboard}
  BY DEF Devices, ToSet, SeqInv
<1>2. Merge(c, t) \in SUBSET (Pads \cup {Keyboard, Script})
  BY <1>1 DEF Merge
<1>3. CASE ~Present(c)
  BY <1>3 DEF get_input
<1>4. CASE Present(c) /\ capturing_input
  BY <1>4 DEF get_input
<1>5. CASE Present(c) /\ ~capturing_input
  BY <1>2, <1>5 DEF get_input
<1>. QED
  BY <1>3, <1>4, <1>5

LEMMA PrimaryTypes ==
  ASSUME SeqInv
  PROVE  Primary \in Pads \cup {None}
<1>1. CASE g_controller \in ToSet(connected)
  BY <1>1 DEF Primary, ToSet, SeqInv
<1>2. CASE g_controller \notin ToSet(connected) /\ connected = <<>>
  BY <1>2 DEF Primary
<1>3. CASE g_controller \notin ToSet(connected) /\ connected # <<>>
  <2>1. connected[1] \in Pads
    BY <1>3 DEF SeqInv
  <2>. QED
    BY <1>3, <2>1 DEF Primary
<1>. QED
  BY <1>1, <1>2, <1>3

\* What a step does to the statics, the observers and the pad in use ...
LEMMA PollTypes ==
  ASSUME TypeOK, SeqInv, Next
  PROVE  /\ setup' \in Setups /\ events' \in 0..Events
         /\ g_controller' \in Pads \cup {None}
         /\ {assigned_once', is_assigning', stands', guarded', refused', raced'} \subseteq BOOLEAN
         /\ named' \in {"nobody", "poll", "dialog"}
         /\ ~assigned_once' => assigned' = <<>>
<1>. USE DEF TypeOK
<1>1. CASE \E t \in Threads : PollInput(t)
  BY <1>1, PrimaryTypes DEF PollInput, playerVars
<1>2. CASE \E t \in Threads : Compare(t)
  BY <1>2 DEF Compare, padVars, playerVars
<1>3. CASE \E t \in Threads : Record(t)
  BY <1>3 DEF Record, padVars, playerVars
<1>4. CASE \E t \in Threads : Test(t)
  BY <1>4 DEF Test, MayAssign, padVars
<1>5. CASE \E t \in Threads : Assign(t)
  BY <1>5 DEF Assign, padVars
<1>6. CASE Focus \/ Rumble \/ Second \/ StartGame \/ \E c \in {1, 2} : Read(c)
  BY <1>6 DEF Focus, Rumble, Second, StartGame, Read, padVars, playerVars, pollVars
<1>7. CASE Event
  <2>1. setup' = setup /\ events' \in 0..Events
    BY <1>7, PlayersAssumption DEF Event
  <2>2. CASE \E p \in Pads : Plug(p) \/ Unplug(p)
    <3>1. UNCHANGED <<g_controller, assigned_once, assigned, is_assigning, named, guarded, refused,
                      raced>>
          /\ stands' = FALSE
      BY <2>2 DEF Plug, Unplug, PadsChange, pollVars
    <3>. QED
      BY <2>1, <3>1
  <2>3. CASE OpenDialog
    BY <2>1, <2>3 DEF OpenDialog, padVars, pollVars
  <2>4. CASE Cancel \/ \E s \in Answers : Commit(s)
    <3>1. UNCHANGED <<g_controller, assigned_once, assigned, guarded, refused, raced>>
          /\ is_assigning' = FALSE
      BY <2>4 DEF Cancel, Commit, padVars, pollVars
    <3>2. stands' = stands \/ stands' = Quiet
      BY <2>4 DEF Cancel, Commit
    <3>3. Quiet \in BOOLEAN
      BY DEF Quiet
    <3>4. named' \in {"nobody", "poll", "dialog"}
      BY <2>4 DEF Cancel, Commit
    <3>. QED
      BY <2>1, <3>1, <3>2, <3>3, <3>4
  <2>5. CASE Menu \/ AltTab \/ \E on \in BOOLEAN : set_rumble(on)
    BY <2>1, <2>5 DEF Menu, AltTab, set_rumble, padVars, playerVars, pollVars
  <2>6. CASE ~ \/ \E p \in Pads : Plug(p) \/ Unplug(p)
               \/ OpenDialog \/ Cancel \/ \E s \in Answers : Commit(s)
               \/ Menu \/ AltTab \/ \E on \in BOOLEAN : set_rumble(on)
    BY <2>6, <1>1, <1>2, <1>3, <1>4, <1>5, <1>6, NextCases
  <2>. QED
    BY <2>2, <2>3, <2>4, <2>5, <2>6
<1>. QED
  BY <1>1, <1>2, <1>3, <1>4, <1>5, <1>6, <1>7, NextCases
     DEF Plug, Unplug, OpenDialog, Cancel, Commit, Menu, AltTab, set_rumble

\* ... and to the screen, the motor, and what the game reads.  The autostart
\* fires in time: the ticks it counts never pass the number it waits for.
LEMMA ScreenTypes ==
  ASSUME TypeOK, SeqInv, FrameInv, Next
  PROVE  /\ {menu', focused', started', fired', wanted', motor'} \subseteq BOOLEAN
         /\ frames' \in 0..Frames /\ FrameInv'
         /\ clock' \in 0..Seconds \cup {None}
         /\ given' \in [1..MaxPlayers -> {Nobody} \cup SUBSET (Pads \cup {Keyboard, Script})]
<1>. USE DEF TypeOK, FrameInv
<1>1. CASE Focus
  BY <1>1 DEF Focus, screenVars, readVars
<1>2. CASE Rumble
  <2>1. frames' \in 0..Frames /\ (~fired' => frames' < Frames)
    <3>1. CASE setup.armed /\ ~fired
      <4>1. frames' = frames + 1 /\ frames < Frames /\ (frames + 1 >= Frames => fired')
        BY <1>2, <3>1 DEF Rumble, Fires
      <4>. QED
        BY <4>1, PlayersAssumption
    <3>2. CASE ~(setup.armed /\ ~fired)
      <4>1. frames' = frames /\ (fired => fired')
        BY <1>2, <3>2 DEF Rumble, Fires
      <4>. QED
        BY <3>2, <4>1
    <3>. QED
      BY <3>1, <3>2
  <2>. QED
    BY <1>2, <2>1 DEF Rumble, readVars
<1>3. CASE \E c \in {1, 2} : Read(c)
  <2>1. PICK c \in {1, 2} : Read(c)
    BY <1>3
  <2>2. get_input(c, ClockRead) \in {Nobody} \cup SUBSET (Pads \cup {Keyboard, Script})
    BY GivenTypes
  <2>3. given' \in [1..MaxPlayers -> {Nobody} \cup SUBSET (Pads \cup {Keyboard, Script})]
    BY <2>1, <2>2 DEF Read
  <2>4. clock' \in 0..Seconds \cup {None}
    BY <2>1, PlayersAssumption DEF Read, ClockRead
  <2>. QED
    BY <2>1, <2>3, <2>4 DEF Read, screenVars, motorVars
<1>4. CASE Second
  BY <1>4, PlayersAssumption DEF Second, screenVars, motorVars
<1>5. CASE Menu \/ StartGame \/ AltTab
  BY <1>5 DEF Menu, StartGame, AltTab, readVars, motorVars
<1>6. CASE \E on \in BOOLEAN : set_rumble(on)
  BY <1>6 DEF set_rumble, screenVars, readVars
<1>7. CASE \/ \E t \in Threads : PollInput(t) \/ Compare(t) \/ Record(t) \/ Test(t) \/ Assign(t)
           \/ \E p \in Pads : Plug(p) \/ Unplug(p)
           \/ OpenDialog \/ Cancel
           \/ \E s \in Answers : Commit(s)
  <2>1. UNCHANGED <<screenVars, readVars, motorVars>>
    BY <1>7 DEF PollInput, Compare, Record, Test, Assign, Plug, Unplug, PadsChange, OpenDialog,
                Cancel, Commit
  <2>. QED
    BY <2>1 DEF screenVars, readVars, motorVars
<1>. QED
  BY <1>1, <1>2, <1>3, <1>4, <1>5, <1>6, <1>7, NextCases

-----------------------------------------------------------------------------
\* With the dialog open and guarded no poll passes its test.
LEMMA GuardStep ==
  ASSUME TypeOK, SeqInv, GuardInv, Next
  PROVE  GuardInv'
<1>. USE DEF GuardInv, SeqInv
<1>1. CASE \E t \in Threads : PollInput(t) \/ Compare(t) \/ Record(t) \/ Test(t) \/ Assign(t)
  <2>1. PICK t \in Threads : PollInput(t) \/ Compare(t) \/ Record(t) \/ Test(t) \/ Assign(t)
    BY <1>1
  <2>2. is_assigning' = is_assigning /\ guarded' = guarded
    BY <2>1 DEF PollInput, Compare, Record, Test, Assign, playerVars
  <2>3. PICK where : /\ pc' = [pc EXCEPT ![t] = where]
                     /\ is_assigning => where # "passed"
    BY <2>1 DEF PollInput, Compare, Record, Test, Assign, MayAssign, After
  <2>. QED
    BY <2>2, <2>3
<1>2. CASE Focus \/ Rumble \/ \E c \in {1, 2} : Read(c)
  BY <1>2 DEF Focus, Rumble, Read, playerVars, Threads
<1>3. CASE OpenDialog
  BY <1>3 DEF OpenDialog, pollVars
<1>4. CASE Cancel \/ \E s \in Answers : Commit(s)
  BY <1>4 DEF Cancel, Commit
<1>5. CASE \/ Second \/ Menu \/ StartGame \/ AltTab
           \/ \E p \in Pads : Plug(p) \/ Unplug(p)
           \/ \E on \in BOOLEAN : set_rumble(on)
  <2>1. UNCHANGED <<pc, is_assigning, guarded>>
    BY <1>5 DEF Second, Menu, StartGame, AltTab, Plug, Unplug, PadsChange, set_rumble,
                playerVars, pollVars
  <2>. QED
    BY <2>1
<1>. QED
  BY <1>1, <1>2, <1>3, <1>4, <1>5, NextCases

\* A choice that stands leaves the polls nothing to record, until pads change.
LEMMA StandStep ==
  ASSUME TypeOK, SeqInv, StandInv, Next
  PROVE  StandInv'
<1>. USE DEF StandInv, SeqInv
<1>1. CASE \E t \in Threads : PollInput(t)
  BY <1>1 DEF PollInput, playerVars, Busy, After, Threads
<1>2. CASE \E t \in Threads : Compare(t)
  BY <1>2 DEF Compare, playerVars, padVars, Known, Busy, After, Threads
<1>3. CASE \E t \in Threads : Record(t) \/ Test(t)
  BY <1>3 DEF Record, Test, playerVars, Busy
<1>4. CASE \E t \in Threads : Assign(t)
  BY <1>4 DEF Assign, Busy
<1>5. CASE Focus \/ Rumble \/ \E c \in {1, 2} : Read(c)
  <2>1. UNCHANGED <<connected, assigned_once, assigned, seen, stands>>
    BY <1>5 DEF Focus, Rumble, Read, playerVars, padVars
  <2>2. PICK t \in Threads, where \in {"rumble", "idle", "read2"} : pc' = [pc EXCEPT ![t] = where]
    BY <1>5 DEF Focus, Rumble, Read, Threads
  <2>. QED
    BY <2>1, <2>2 DEF Busy
<1>6. CASE \E p \in Pads : Plug(p) \/ Unplug(p)
  BY <1>6 DEF Plug, Unplug, PadsChange
<1>7. CASE \E s \in Answers : Commit(s)
  <2>1. stands' = Quiet /\ UNCHANGED <<connected, assigned_once, assigned, pc, seen>>
    BY <1>7 DEF Commit, padVars, pollVars
  <2>2. Quiet' <=> Quiet
    BY <2>1 DEF Quiet, Busy
  <2>3. stands' => Quiet'
    BY <2>1, <2>2
  <2>. QED
    BY <2>3 DEF Quiet
<1>8. CASE \/ Second \/ OpenDialog \/ Cancel \/ Menu \/ StartGame \/ AltTab
           \/ \E on \in BOOLEAN : set_rumble(on)
  <2>1. UNCHANGED <<connected, assigned_once, assigned, pc, seen, stands>>
    BY <1>8 DEF Second, OpenDialog, Cancel, Menu, StartGame, AltTab, set_rumble,
                playerVars, padVars, pollVars
  <2>. QED
    BY <2>1 DEF Busy
<1>. QED
  BY <1>1, <1>2, <1>3, <1>4, <1>5, <1>6, <1>7, <1>8, NextCases

-----------------------------------------------------------------------------
LEMMA InitIInv ==
  ASSUME Init
  PROVE  IInv
<1>1. SeqInv /\ ListsInv
  BY DEF Init, SeqInv, ListsInv, IsInjective, Threads, Steps
<1>2. TypeOK
  <2>1. \A s \in {connected, assigned} \cup {seen[t] : t \in Threads} :
          ToSet(s) \subseteq Pads /\ IsInjective(s)
    BY <1>1, ListsTypes
  <2>2. Len(players) <= MaxPlayers /\ ToSet(players) \subseteq Pads \cup {Keyboard}
    BY PlayersAssumption DEF Init, ToSet
  <2>3. pc["main"] = "idle" /\ pc["game"] = "idle"
    BY DEF Init, Threads
  <2>4. /\ events \in 0..Events /\ frames \in 0..Frames
        /\ clock \in 0..Seconds \cup {None} /\ g_controller \in Pads \cup {None}
    BY PlayersAssumption DEF Init
  <2>5. given \in [1..MaxPlayers -> {Nobody} \cup SUBSET (Pads \cup {Keyboard, Script})]
    BY DEF Init
  <2>6. {assigned_once, is_assigning, menu, focused, started, fired, wanted, motor,
         stands, guarded, refused, raced} \subseteq BOOLEAN
    BY DEF Init
  <2>7. setup \in Setups /\ named = "nobody" /\ assigned = <<>>
    BY DEF Init
  <2>. QED
    BY <2>1, <2>2, <2>3, <2>4, <2>5, <2>6, <2>7 DEF TypeOK
<1>. QED
  BY <1>1, <1>2, PlayersAssumption DEF Init, IInv, GuardInv, StandInv, FrameInv

LEMMA IInvStep ==
  ASSUME IInv, [Next]_vars
  PROVE  IInv'
<1>1. CASE Next
  <2>1. ListsInv
    BY ListsTypes DEF IInv, TypeOK
  <2>2. SeqInv' /\ ListsInv'
    BY <1>1, <2>1, ListsStep, PlayersStep, PlacesStep DEF IInv, SeqInv
  <2>3. \A s \in {connected', assigned'} \cup {seen'[t] : t \in Threads} :
          ToSet(s) \subseteq Pads /\ IsInjective(s)
    <3>1. \A s \in Seq(Pads) : ToSet(s) \subseteq Pads
      BY DEF ToSet
    <3>. QED
      BY <2>2, <3>1 DEF SeqInv, ListsInv
  <2>4. TypeOK'
    BY <1>1, <2>3, PlayersStep, PlacesStep, PollTypes, ScreenTypes DEF IInv, TypeOK
  <2>. QED
    BY <1>1, <2>2, <2>4, GuardStep, StandStep, ScreenTypes DEF IInv
<1>2. CASE UNCHANGED vars
  <2>1. TypeOK'
    BY <1>2 DEF vars, padVars, pollVars, playerVars, screenVars, readVars, motorVars, IInv, TypeOK
  <2>. QED
    BY <1>2, <2>1 DEF vars, padVars, pollVars, playerVars, screenVars, IInv,
                      SeqInv, GuardInv, StandInv, FrameInv, Busy
<1>. QED
  BY <1>1, <1>2

\* Types: a pad stands once in every list of pads, no more players are named
\* than there may be, each is a pad or the keyboard, and the autostart's
\* count stops.
THEOREM TypeCorrect == Spec => []TypeOK
<1>1. IInv => TypeOK
  BY DEF IInv
<1>. QED
  BY <1>1, InitIInv, IInvStep, PTL DEF Spec

\* Only an assignment and the dialog's answer name players.
LEMMA WhoNames ==
  ASSUME [Next]_vars
  PROVE  \/ players' = players
         \/ \E t \in Threads : Assign(t)
         \/ \E s \in Answers : Commit(s)
<1>1. CASE \/ \E t \in Threads : PollInput(t) \/ Compare(t) \/ Record(t) \/ Test(t)
           \/ Focus \/ Rumble
           \/ \E c \in {1, 2} : Read(c)
           \/ Second
           \/ \E p \in Pads : Plug(p) \/ Unplug(p)
           \/ OpenDialog \/ Cancel \/ Menu \/ StartGame \/ AltTab
           \/ \E on \in BOOLEAN : set_rumble(on)
           \/ UNCHANGED vars
  BY <1>1 DEF PollInput, Compare, Record, Test, Focus, Rumble, Read, Second, Plug, Unplug,
              PadsChange, OpenDialog, Cancel, Menu, StartGame, AltTab, set_rumble, playerVars, vars
<1>. QED
  BY <1>1, NextCases

\* No poll of either thread overrules the dialog: none is past its test while
\* the dialog is open, and none has a reason to assign while its answer stands.
THEOREM ChoiceKept == Spec => ChoiceStands
<1>1. ASSUME IInv, [Next]_vars
      PROVE  [ModalWins /\ AnswerStands]_vars
  <2>1. CASE \E t \in Threads : Assign(t)
    <3>1. ModalWins
      BY <1>1, <2>1 DEF Assign, IInv, GuardInv, ModalWins
    <3>2. ~stands
      BY <1>1, <2>1 DEF Assign, IInv, StandInv, Busy
    <3>. QED
      BY <3>1, <3>2 DEF AnswerStands
  <2>2. CASE \E s \in Answers : Commit(s)
    <3>1. ~is_assigning'
      BY <2>2 DEF Commit
    <3>. QED
      BY <2>2, <3>1 DEF ModalWins, AnswerStands
  <2>3. CASE players' = players
    BY <2>3 DEF ModalWins, AnswerStands
  <2>. QED
    BY <1>1, <2>1, <2>2, <2>3, WhoNames
<1>. QED
  BY <1>1, InitIInv, IInvStep, PTL DEF Spec, ChoiceStands
=============================================================================
