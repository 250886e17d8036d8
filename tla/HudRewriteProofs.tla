-------------------------- MODULE HudRewriteProofs --------------------------
(***************************************************************************)
(* Proofs about HudRewrite, for any display lists, classes and sizes: the  *)
(* copy leads RT64 through the game's lists, whatever is put around their  *)
(* elements, wherever the buffer ends and however deep the calls nest.     *)
(***************************************************************************)
EXTENDS HudRewrite, SequenceTheorems, TLAPS

-----------------------------------------------------------------------------
\* Types.
Kinds ==
  Kept \cup {"rect", "tri", "call", "branch", "end", "enable", "jump", "callcopy", "inlined",
             "xscissor", "xviewport", "xgroup", "xrect", "xaspect"}
Args == Elements \cup Settings \cup Nat \cup Classes \cup {"none", None}
Spots == [list : Lists \cup {None}, pc : Nat]
Copies == [op : Kinds, arg : Args, own : BOOLEAN, spot : Spots]
Writers ==
  [out : Seq(Copies), used : 0 .. ScratchSize, overflow : BOOLEAN,
   known : [Kept -> Settings \cup {None}], list : Lists \cup {None}, pc : Nat, cls : Classes]
Callers == [list : Lists, pc : Nat, cls : Classes, at : Nat]

Vals == Args \cup (Args \X Args)
Shots ==
  [op : Kinds, arg : Args, within : SUBSET Args, scissor : Vals, wide : BOOLEAN,
   viewport : Vals, projection : Vals, rect : Vals, stretched : Vals]
Rdps ==
  [scissor : Vals, wide : BOOLEAN, align : Args, viewport : Vals, aspect : Args,
   projection : Vals, rect : Vals, stretched : Vals, extended : BOOLEAN, sound : BOOLEAN,
   shown : Seq(Shots)]
Places == [list : Lists \cup {None}, pc : Nat, around : SUBSET Args, branch : SUBSET Args]
Machines == [rdp : Rdps, stack : Seq(Places)]

-----------------------------------------------------------------------------
\* A spot of the game's lists ls, the command there, and the spot after it.
InList(ls, s) == s.list \in Lists /\ s.pc \in 1 .. Len(ls[s.list])
Given(ls, s) == ls[s.list][s.pc]
At(v) == [list |-> v.list, pc |-> v.pc]
Start(l) == [list |-> l, pc |-> 1]
After(s) == [list |-> s.list, pc |-> s.pc + 1]

\* The spot of the command at index i of the copy; at the end of the copy,
\* that of the command to come.
SpotAt(v, i) == IF i <= Len(v.out) THEN v.out[i].spot ELSE At(v)

\* The copy of list l starts at index a.
Entrance(v, a, l) == a \in 1 .. Len(v.out) /\ v.out[a].op = "enable" /\ v.out[a].spot = Start(l)

Added == Kept \cup {"enable", "xscissor", "xviewport", "xgroup", "xrect", "xaspect"}
Drawn == {"rect", "tri"}

\* What the command e of the copy does in the game's lists, when the command
\* after it has the spot n.
SameAs(ls, e, op) == e.own /\ Given(ls, e.spot).op = op /\ Given(ls, e.spot).arg = e.arg
IsAdded(e, n) == ~e.own /\ e.op \in Added /\ n = e.spot
IsPlain(ls, e, n) == e.op \in Kept \cup Drawn /\ SameAs(ls, e, e.op) /\ n = After(e.spot)
IsInlined(ls, e, n) == e.op = "inlined" /\ SameAs(ls, e, "branch") /\ n = Start(e.arg)
IsEnd(ls, e) == e.op = "end" /\ SameAs(ls, e, "end")
IsDeep(ls, e, n) == e.op = "call" /\ SameAs(ls, e, "call") /\ n = After(e.spot)
IsCall(ls, v, e, n) ==
  /\ e.op = "callcopy" /\ e.own /\ n = After(e.spot)
  /\ Given(ls, e.spot).op = "call"
  /\ Entrance(v, e.arg, Given(ls, e.spot).arg)
Follows(ls, v, e, n) ==
  \/ IsAdded(e, n) \/ IsPlain(ls, e, n) \/ IsInlined(ls, e, n)
  \/ IsEnd(ls, e) \/ IsDeep(ls, e, n) \/ IsCall(ls, v, e, n)

\* A jump goes to its own spot, or still waits for its target.
IsJump(v, e) ==
  e.op = "jump" /\ ~e.own /\ e.arg \in 1 .. Len(v.out) + 1 /\ SpotAt(v, e.arg) = e.spot
Waits(e) == e.op = "jump" /\ ~e.own

\* The copy v of the lists ls, where the jumps at the indices of P wait.
Chained(ls, v, P, i) ==
  LET e == v.out[i]
  IN /\ InList(ls, e.spot)
     /\ Follows(ls, v, e, SpotAt(v, i + 1)) \/ IsJump(v, e) \/ (Waits(e) /\ i \in P)
     /\ e.op \in {"call", "callcopy"} /\ i < Len(v.out) => v.out[i + 1].op = "enable"

Chain(ls, v, P) == \A i \in 1 .. Len(v.out) : Chained(ls, v, P, i)

Tight(v, P) == \A i \in 1 .. Len(v.out) : v.out[i].op = "jump" /\ i \notin P => v.out[i].arg <= Len(v.out)
Settled(v) == Entrance(v, 1, Main) /\ v.out[Len(v.out)].op \notin {"call", "callcopy"}

\* A call of copy_list that waits for its callee's copy.
Waiting(ls, v, c) ==
  LET s == [list |-> c.list, pc |-> c.pc]
  IN /\ InList(ls, s) /\ Given(ls, s).op = "call"
     /\ c.at \in 1 .. Len(v.out) /\ v.out[c.at].spot = s /\ Waits(v.out[c.at])
     /\ Entrance(v, c.at + 1, Given(ls, s).arg)

Pending(cs) == {cs[k].at : k \in DOMAIN cs}

\* The copy of the lists ls, as far as it goes, unless it did not fit.
Good(ls, v, cs) ==
  ~v.overflow =>
    /\ Chain(ls, v, Pending(cs)) /\ Settled(v)
    /\ \A k \in DOMAIN cs : Waiting(ls, v, cs[k])
    /\ IF v.list = None THEN cs = <<>> ELSE InList(ls, At(v))

-----------------------------------------------------------------------------
\* Two readers, one in the game's lists and one in the copy: the same place,
\* list by list.
Beside(ls, v, p, q) ==
  IF q.list = None
    THEN /\ q.pc \in 1 .. Len(v.out)
         /\ v.out[q.pc].spot = [list |-> p.list, pc |-> p.pc]
    ELSE q.list = p.list /\ q.pc = p.pc /\ InList(ls, [list |-> p.list, pc |-> p.pc])

\* ... whose next command turns the extended GBI on, if it is in the copy.
Enables(v, q) == q.list = None => v.out[q.pc].op = "enable"

SameShown(s, t) == Len(s) = Len(t) /\ \A i \in 1 .. Len(s) : t[i].op = s[i].op /\ t[i].arg = s[i].arg

Abreast(ls, v, g, r) ==
  /\ Len(g.stack) = Len(r.stack)
  /\ \A k \in 1 .. Len(r.stack) : Beside(ls, v, g.stack[k], r.stack[k])
  /\ \A k \in 1 .. Len(r.stack) : k < Len(r.stack) \/ ~r.rdp.extended => Enables(v, r.stack[k])
  /\ r.rdp.sound
  /\ SameShown(g.rdp.shown, r.rdp.shown)

-----------------------------------------------------------------------------
TypeInv ==
  /\ lists \in [Lists -> Seq(Commands)] /\ (\A l \in Lists : Ends(lists[l]))
  /\ class \in [Elements -> Classes]
  /\ status \in {"new", "copying", "reading", "shown", "plain"}
  /\ status \in {"copying", "reading", "shown"} => AnyClasses
  /\ writer \in Writers
  /\ calls \in Seq(Callers) /\ Len(calls) <= MaxDepth
  /\ game \in Machines /\ rt \in Machines

\* The copy, while it is written and read.
CopyInv ==
  /\ status = "new" => writer = NewWriter /\ calls = <<>>
  /\ status \in {"copying", "reading", "shown"} => Good(lists, writer, calls)
  /\ status \in {"reading", "shown"} => ~writer.overflow /\ writer.list = None

\* Where the two machines are in it.
ReadInv ==
  /\ status \in {"new", "copying", "plain"} => game = Started(Main) /\ rt = Started(None)
  /\ status \in {"reading", "shown"} => Abreast(lists, writer, game, rt)
  /\ status = "reading" => rt.stack # <<>>
  /\ status = "shown" => rt.stack = <<>>

IInv == TypeInv /\ CopyInv /\ ReadInv

-----------------------------------------------------------------------------
\* What is asked to be emitted.
Orders == [op : Kinds, arg : Args, own : BOOLEAN]

\* What a command of the game may be.
LEMMA CommandShape ==
  ASSUME NEW c \in Commands
  PROVE  /\ c \in Orders /\ c.own
         /\ c.op \in Kept \cup Drawn \cup {"call", "branch", "end"}
         /\ c.op \in Kept => c.arg \in Settings
         /\ c.op \in {"call", "branch"} => c.arg \in Lists
         /\ c.op = "rect" => c.arg \in Textures
<1>1. ASSUME NEW op \in Kinds, NEW arg \in Args, c = Cmd(op, arg)
      PROVE  c \in Orders /\ c.own /\ c.op = op /\ c.arg = arg
  BY <1>1 DEF Cmd, Orders
<1>2. Settings \subseteq Args /\ Lists \subseteq Args /\ Textures \subseteq Args /\ None \in Args
  BY DEF Args, Elements
<1>3. Kept \cup {"rect", "tri", "call", "branch", "end"} \subseteq Kinds
  BY DEF Kinds
<1>4. CASE \E op \in Kept, s \in Settings : c = Cmd(op, s)
  <2> PICK op \in Kept, s \in Settings : c = Cmd(op, s)
    BY <1>4
  <2>1. c \in Orders /\ c.own /\ c.op = op /\ c.arg = s
    BY <1>1, <1>2, <1>3
  <2>2. op \notin {"call", "branch", "rect"}
    BY DEF Kept
  <2> QED BY <2>1, <2>2
<1>5. CASE \E t \in Textures : c = Cmd("rect", t)
  <2> PICK t \in Textures : c = Cmd("rect", t)
    BY <1>5
  <2>1. c \in Orders /\ c.own /\ c.op = "rect" /\ c.arg = t
    BY <1>1, <1>2, <1>3
  <2> QED BY <2>1 DEF Kept, Drawn
<1>6. CASE \E op \in {"call", "branch"}, l \in Lists : c = Cmd(op, l)
  <2> PICK op \in {"call", "branch"}, l \in Lists : c = Cmd(op, l)
    BY <1>6
  <2>1. c \in Orders /\ c.own /\ c.op = op /\ c.arg = l
    BY <1>1, <1>2, <1>3
  <2> QED BY <2>1 DEF Kept
<1>7. CASE c \in {Cmd("tri", None), Cmd("end", None)}
  <2> PICK op \in {"tri", "end"} : c = Cmd(op, None)
    BY <1>7
  <2>1. c \in Orders /\ c.own /\ c.op = op /\ c.arg = None
    BY <1>1, <1>2, <1>3
  <2> QED BY <2>1 DEF Kept, Drawn
<1> QED BY <1>4, <1>5, <1>6, <1>7 DEF Commands

LEMMA GivenShape ==
  ASSUME NEW ls \in [Lists -> Seq(Commands)], NEW s, InList(ls, s)
  PROVE  Given(ls, s) \in Commands
  BY DEF InList, Given

\* What Emit does to the writer.
LEMMA EmitShape ==
  ASSUME NEW v \in Writers, NEW c \in Orders
  PROVE  LET u == Emit(v, c)
         IN /\ u \in Writers
            /\ u.known = v.known /\ u.list = v.list /\ u.pc = v.pc /\ u.cls = v.cls
            /\ v.overflow => u.overflow
            /\ ~u.overflow => ~v.overflow /\ u.out = Append(v.out, Copied(v, c))
<1> DEFINE u == Emit(v, c)
<1>1. Copied(v, c) \in Copies
  BY DEF Copied, Copies, Writers, Orders, Spots
<1>2. Width(c) \in 0 .. 2
  BY DEF Width
<1>3. CASE Fits(v, c)
  <2>1. u = [v EXCEPT !.out = Append(@, Copied(v, c)), !.used = @ + Width(c)]
    BY <1>3 DEF Emit
  <2>2. Append(v.out, Copied(v, c)) \in Seq(Copies)
    BY <1>1, AppendProperties DEF Writers
  <2>3. v.used + Width(c) \in 0 .. ScratchSize
    BY <1>2, <1>3, HudRewriteAssumption DEF Fits, Writers
  <2> QED BY <2>1, <2>2, <2>3 DEF Writers
<1>4. CASE ~Fits(v, c)
  <2>1. u = [v EXCEPT !.overflow = TRUE]
    BY <1>4 DEF Emit
  <2> QED BY <2>1 DEF Writers
<1> QED BY <1>3, <1>4

\* One more command: what the copy held stays right when the new command is.
LEMMA Grow ==
  ASSUME NEW ls, NEW v \in Writers, NEW P, NEW Q,
         Chain(ls, v, P),
         NEW u \in Writers, NEW e \in Copies,
         u.out = Append(v.out, e), e.spot = At(v), InList(ls, At(v)),
         P \subseteq Q,
         v.out # <<>> /\ v.out[Len(v.out)].op \in {"call", "callcopy"} => e.op = "enable",
         Follows(ls, v, e, At(u)) \/ (Waits(e) /\ Len(v.out) + 1 \in Q)
  PROVE  Chain(ls, u, Q) /\ Tight(u, Q)
<1> DEFINE n == Len(v.out)
<1>1. /\ n \in Nat /\ v.out \in Seq(Copies) /\ Len(u.out) = n + 1 /\ u.out \in Seq(Copies)
      /\ \A i \in 1 .. n : u.out[i] = v.out[i]
      /\ u.out[n + 1] = e
  BY AppendProperties, LenProperties DEF Writers
<1>2. \A i \in 1 .. n + 1 : SpotAt(u, i) = SpotAt(v, i)
  BY <1>1 DEF SpotAt
<1>3. \A a, l : Entrance(v, a, l) => Entrance(u, a, l)
  BY <1>1 DEF Entrance
<1>4. \A d, m : Follows(ls, v, d, m) => Follows(ls, u, d, m)
  BY <1>3, Zenon DEF Follows, IsCall
<1>5. \A d : IsJump(v, d) => IsJump(u, d)
  BY <1>1, <1>2 DEF IsJump
<1>6. ASSUME NEW i \in 1 .. n PROVE Chained(ls, u, Q, i)
  <2>1. Chained(ls, v, P, i)
    BY DEF Chain
  <2>2. u.out[i] = v.out[i] /\ SpotAt(u, i + 1) = SpotAt(v, i + 1)
    BY <1>1, <1>2, <1>3
  <2>3. u.out[i].op \in {"call", "callcopy"} /\ i < Len(u.out) => u.out[i + 1].op = "enable"
    BY <1>1, <2>1 DEF Chained
  <2>4. i \in P => i \in Q
    OBVIOUS
  <2> QED BY <1>4, <1>5, <2>1, <2>2, <2>3, <2>4, Zenon DEF Chained
<1>7. Chained(ls, u, Q, n + 1)
  <2>1. SpotAt(u, n + 1 + 1) = At(u) /\ u.out[n + 1] = e /\ ~(n + 1 < Len(u.out))
    BY <1>1 DEF SpotAt
  <2> QED BY <1>4, <2>1, Zenon DEF Chained
<1>8. Tight(u, Q)
  <2> SUFFICES ASSUME NEW i \in 1 .. n + 1, u.out[i].op = "jump", i \notin Q
               PROVE  u.out[i].arg <= n + 1
    BY <1>1 DEF Tight
  <2>1. i \in 1 .. n
    <3>1. ~Follows(ls, v, e, At(u)) \/ e.op # "jump"
      BY DEF Follows, IsAdded, IsPlain, IsInlined, IsEnd, IsDeep, IsCall, Added, Kept, Drawn
    <3> QED BY <1>1, <3>1
  <2>2. Chained(ls, v, P, i) /\ u.out[i] = v.out[i]
    BY <2>1, <1>1 DEF Chain
  <2>3. \A m : ~Follows(ls, v, v.out[i], m)
    BY <2>2 DEF Follows, IsAdded, IsPlain, IsInlined, IsEnd, IsDeep, IsCall, Added, Kept, Drawn
  <2>4. IsJump(v, v.out[i])
    BY <2>2, <2>3 DEF Chained
  <2> QED BY <1>1, <2>2, <2>4 DEF IsJump
<1> QED BY <1>1, <1>6, <1>7, <1>8 DEF Chain

\* A list of the game is not empty.
LEMMA StartInList ==
  ASSUME NEW ls \in [Lists -> Seq(Commands)], \A l \in Lists : Ends(ls[l]), NEW l \in Lists
  PROVE  InList(ls, Start(l))
<1>1. ls[l] \in Seq(Commands) /\ ls[l] # <<>>
  BY DEF Ends
<1>2. Len(ls[l]) \in Nat /\ Len(ls[l]) > 0
  BY <1>1, LenProperties, EmptySeq
<1> QED BY <1>2 DEF InList, Start

\* ... and goes on after a command that does not end it.
LEMMA AfterInList ==
  ASSUME NEW ls \in [Lists -> Seq(Commands)], \A l \in Lists : Ends(ls[l]),
         NEW s, InList(ls, s), Given(ls, s).op \notin {"end", "branch"}
  PROVE  InList(ls, After(s))
<1>1. ls[s.list] \in Seq(Commands) /\ Len(ls[s.list]) \in Nat
  BY LenProperties DEF InList
<1>2. ls[s.list][Len(ls[s.list])].op \in {"end", "branch"}
  BY DEF InList, Ends
<1>3. s.pc # Len(ls[s.list])
  BY <1>2 DEF Given
<1> QED BY <1>1, <1>3 DEF InList, After

\* The calls that wait go on waiting.
LEMMA WaitGrows ==
  ASSUME NEW ls, NEW v \in Writers, NEW u \in Writers, NEW e \in Copies,
         u.out = Append(v.out, e), NEW c, Waiting(ls, v, c)
  PROVE  Waiting(ls, u, c)
<1>1. /\ Len(v.out) \in Nat /\ Len(u.out) = Len(v.out) + 1
      /\ \A i \in 1 .. Len(v.out) : u.out[i] = v.out[i]
  BY AppendProperties, LenProperties DEF Writers
<1>2. \A a, l : Entrance(v, a, l) => Entrance(u, a, l)
  BY <1>1 DEF Entrance
<1>3. c.at \in 1 .. Len(u.out) /\ u.out[c.at] = v.out[c.at]
  BY <1>1 DEF Waiting
<1> QED BY <1>2, <1>3 DEF Waiting

LEMMA SettledGrows ==
  ASSUME NEW v \in Writers, NEW u \in Writers, NEW e \in Copies,
         u.out = Append(v.out, e), Entrance(v, 1, Main)
  PROVE  /\ Entrance(u, 1, Main)
         /\ e.op \notin {"call", "callcopy"} => Settled(u)
<1>1. /\ Len(v.out) \in Nat /\ Len(u.out) = Len(v.out) + 1
      /\ \A i \in 1 .. Len(v.out) : u.out[i] = v.out[i]
      /\ u.out[Len(v.out) + 1] = e
  BY AppendProperties, LenProperties DEF Writers
<1> QED BY <1>1 DEF Settled, Entrance

LEMMA GoToShape ==
  ASSUME NEW v \in Writers, NEW l \in Lists \cup {None}, NEW pc \in Nat
  PROVE  LET u == GoTo(v, l, pc)
         IN /\ u \in Writers /\ u.out = v.out /\ u.known = v.known /\ u.cls = v.cls
            /\ u.overflow = v.overflow /\ u.list = l /\ u.pc = pc
            /\ At(u) = [list |-> l, pc |-> pc]
  BY DEF GoTo, Writers, At

\* One command more, and the place to go on from.
LEMMA StepGood ==
  ASSUME NEW ls, NEW v \in Writers, NEW c \in Orders, NEW cs \in Seq(Callers),
         NEW l \in Lists \cup {None}, NEW pc \in Nat,
         Good(ls, v, cs), v.list # None, c.op \notin {"call", "callcopy"},
         ~v.overflow => Follows(ls, v, Copied(v, c), [list |-> l, pc |-> pc]),
         IF l = None THEN cs = <<>>
                     ELSE ~v.overflow => InList(ls, [list |-> l, pc |-> pc])
  PROVE  LET u == GoTo(Emit(v, c), l, pc)
         IN /\ Good(ls, u, cs)
            /\ ~u.overflow => /\ ~v.overflow /\ Tight(u, Pending(cs))
                              /\ u.out = Append(v.out, Copied(v, c))
<1> DEFINE u == GoTo(Emit(v, c), l, pc)
           e == Copied(v, c)
<1>1. /\ u \in Writers /\ At(u) = [list |-> l, pc |-> pc] /\ u.list = l
      /\ ~u.overflow => ~v.overflow /\ u.out = Append(v.out, e)
  <2> DEFINE x == Emit(v, c)
  <2>1. /\ x \in Writers
        /\ ~x.overflow => ~v.overflow /\ x.out = Append(v.out, e)
    BY EmitShape
  <2> HIDE DEF x
  <2>2. /\ GoTo(x, l, pc) \in Writers /\ GoTo(x, l, pc).out = x.out
        /\ GoTo(x, l, pc).overflow = x.overflow /\ GoTo(x, l, pc).list = l
        /\ At(GoTo(x, l, pc)) = [list |-> l, pc |-> pc]
    BY <2>1, GoToShape
  <2> QED BY <2>1, <2>2 DEF x
<1>2. SUFFICES ASSUME ~u.overflow
               PROVE  Good(ls, u, cs) /\ Tight(u, Pending(cs))
  BY <1>1 DEF Good
<1>3. ~v.overflow /\ u.out = Append(v.out, e)
  BY <1>1, <1>2
<1>4. e \in Copies /\ e.op = c.op /\ e.spot = At(v)
  BY DEF Copied, Copies, Writers, Orders, Spots, At
<1>5. /\ Chain(ls, v, Pending(cs)) /\ Settled(v) /\ InList(ls, At(v))
      /\ \A k \in DOMAIN cs : Waiting(ls, v, cs[k])
  BY <1>3 DEF Good
<1>6. v.out[Len(v.out)].op \notin {"call", "callcopy"}
  BY <1>5 DEF Settled
<1> HIDE DEF u, e
<1>7. Chain(ls, u, Pending(cs)) /\ Tight(u, Pending(cs))
  BY <1>1, <1>3, <1>4, <1>5, <1>6, Grow DEF e
<1>8. Settled(u)
  BY <1>1, <1>3, <1>4, <1>5, SettledGrows DEF Settled
<1>9. \A k \in DOMAIN cs : Waiting(ls, u, cs[k])
  BY <1>1, <1>3, <1>4, <1>5, WaitGrows
<1>10. IF u.list = None THEN cs = <<>> ELSE InList(ls, At(u))
  BY <1>1, <1>3
<1> QED BY <1>7, <1>8, <1>9, <1>10 DEF Good

\* A call, and the command that turns the extended GBI on again after it.
Enable == Ours("enable", None)
Called(v, c) == Emit(Pass(v, c), Enable)

LEMMA EnableShape == Enable \in Orders /\ Enable.op = "enable" /\ ~Enable.own
  BY DEF Enable, Ours, Orders, Kinds, Args

LEMMA PairShape ==
  ASSUME NEW v \in Writers, NEW c \in Orders
  PROVE  LET u == Pass(v, c)
             w == Called(v, c)
         IN /\ u \in Writers /\ u.list = v.list /\ u.pc = v.pc + 1
            /\ u.known = v.known /\ u.cls = v.cls
            /\ w \in Writers /\ w.list = v.list /\ w.pc = v.pc + 1
            /\ w.known = v.known /\ w.cls = v.cls
            /\ ~u.overflow => ~v.overflow /\ u.out = Append(v.out, Copied(v, c))
            /\ ~w.overflow => ~u.overflow /\ w.out = Append(u.out, Copied(u, Enable))
<1> DEFINE x == Emit(v, c)
           u == Pass(v, c)
<1>1. /\ x \in Writers /\ x.known = v.known /\ x.cls = v.cls
      /\ ~x.overflow => ~v.overflow /\ x.out = Append(v.out, Copied(v, c))
  BY EmitShape
<1>2. u = GoTo(x, v.list, v.pc + 1) /\ v.list \in Lists \cup {None} /\ v.pc + 1 \in Nat
  BY DEF Pass, Writers
<1> HIDE DEF x, u
<1>3. /\ u \in Writers /\ u.list = v.list /\ u.pc = v.pc + 1
      /\ u.known = v.known /\ u.cls = v.cls
      /\ ~u.overflow => ~v.overflow /\ u.out = Append(v.out, Copied(v, c))
  <2>1. /\ u \in Writers /\ u.out = x.out /\ u.known = x.known /\ u.cls = x.cls
        /\ u.overflow = x.overflow /\ u.list = v.list /\ u.pc = v.pc + 1
    <3>1. x \in Writers
      BY <1>1
    <3> QED BY <1>2, <3>1 DEF GoTo, Writers
  <2> QED BY <1>1, <2>1
<1>4. LET w == Emit(u, Enable)
      IN /\ w \in Writers /\ w.list = v.list /\ w.pc = v.pc + 1
         /\ w.known = v.known /\ w.cls = v.cls
         /\ ~w.overflow => ~u.overflow /\ w.out = Append(u.out, Copied(u, Enable))
  BY <1>3, EnableShape, EmitShape
<1> QED BY <1>3, <1>4 DEF Called, u

LEMMA CopiedShape ==
  ASSUME NEW v \in Writers, NEW c \in Orders
  PROVE  LET e == Copied(v, c)
         IN e \in Copies /\ e.op = c.op /\ e.arg = c.arg /\ e.own = c.own /\ e.spot = At(v)
  BY DEF Copied, Copies, Writers, Orders, Spots, At

LEMMA CalledGood ==
  ASSUME NEW ls, NEW v \in Writers, NEW c \in Orders, NEW cs \in Seq(Callers),
         Good(ls, v, cs), v.list # None, c.op \in {"call", "callcopy"},
         ~v.overflow => /\ Follows(ls, v, Copied(v, c), After(At(v)))
                        /\ InList(ls, After(At(v)))
  PROVE  Good(ls, Called(v, c), cs)
<1> DEFINE u == Pass(v, c)
           w == Called(v, c)
           d == Copied(v, c)
           e == Copied(u, Enable)
<1>1. /\ u \in Writers /\ u.list = v.list /\ u.pc = v.pc + 1
      /\ w \in Writers /\ w.list = v.list /\ w.pc = v.pc + 1
      /\ ~u.overflow => ~v.overflow /\ u.out = Append(v.out, d)
      /\ ~w.overflow => ~u.overflow /\ w.out = Append(u.out, e)
  BY PairShape
<1>2. SUFFICES ASSUME ~w.overflow PROVE Good(ls, w, cs)
  BY DEF Good
<1>3. d \in Copies /\ d.op = c.op /\ d.spot = At(v)
  BY CopiedShape
<1> HIDE DEF u
<1>4. e \in Copies /\ e.op = "enable" /\ ~e.own /\ e.spot = At(u)
  BY <1>1, CopiedShape, EnableShape
<1>5. At(u) = After(At(v)) /\ At(w) = At(u)
  BY <1>1 DEF At, After
<1> HIDE DEF w, d, e
<1>6. ~v.overflow /\ u.out = Append(v.out, d) /\ w.out = Append(u.out, e)
  BY <1>1, <1>2
<1>7. /\ Chain(ls, v, Pending(cs)) /\ Settled(v) /\ InList(ls, At(v))
      /\ \A k \in DOMAIN cs : Waiting(ls, v, cs[k])
  BY <1>6 DEF Good
<1>8. Follows(ls, v, d, At(u)) /\ InList(ls, At(u))
  BY <1>5, <1>6 DEF d
<1>9. v.out[Len(v.out)].op \notin {"call", "callcopy"}
  BY <1>7 DEF Settled
<1>10. Chain(ls, u, Pending(cs))
  BY <1>1, <1>3, <1>6, <1>7, <1>8, <1>9, Grow
<1>11. Follows(ls, u, e, At(w))
  BY <1>4, <1>5 DEF Follows, IsAdded, Added
<1>12. Chain(ls, w, Pending(cs))
  BY <1>1, <1>4, <1>6, <1>8, <1>10, <1>11, Grow
<1>13. Entrance(u, 1, Main)
  BY <1>1, <1>3, <1>6, <1>7, SettledGrows DEF Settled
<1>14. Settled(w)
  BY <1>1, <1>4, <1>6, <1>13, SettledGrows
<1>15. \A k \in DOMAIN cs : Waiting(ls, u, cs[k])
  BY <1>1, <1>3, <1>6, <1>7, WaitGrows
<1>16. \A k \in DOMAIN cs : Waiting(ls, w, cs[k])
  BY <1>1, <1>4, <1>6, <1>15, WaitGrows
<1>17. w.list # None /\ InList(ls, At(w))
  BY <1>1, <1>5, <1>8
<1> QED BY <1>12, <1>14, <1>16, <1>17 DEF Good

-----------------------------------------------------------------------------
\* The commands put around an element: they keep the writer's place.
Extends(ls, v, u) ==
  /\ u \in Writers /\ u.known = v.known /\ u.list = v.list /\ u.pc = v.pc /\ u.cls = v.cls
  /\ \A cs \in Seq(Callers) : Good(ls, v, cs) => Good(ls, u, cs)

LEMMA ExtendsTrans ==
  ASSUME NEW ls, NEW v, NEW u, NEW w, Extends(ls, v, u), Extends(ls, u, w)
  PROVE  Extends(ls, v, w)
  BY DEF Extends

LEMMA ExtendsSelf ==
  ASSUME NEW ls, NEW v \in Writers
  PROVE  Extends(ls, v, v)
  BY DEF Extends

LEMMA SameSpot ==
  ASSUME NEW v \in Writers
  PROVE  GoTo(v, v.list, v.pc) = v
  BY DEF GoTo, Writers

LEMMA EmitExtends ==
  ASSUME NEW ls, NEW v \in Writers, v.list # None,
         NEW op \in Added, NEW arg \in Args
  PROVE  Extends(ls, v, Emit(v, Ours(op, arg)))
<1> DEFINE c == Ours(op, arg)
           u == Emit(v, c)
<1>1. c \in Orders /\ c.op = op /\ ~c.own /\ c.op \notin {"call", "callcopy"}
  BY DEF Ours, Orders, Kinds, Added, Kept
<1>2. u \in Writers /\ u.known = v.known /\ u.list = v.list /\ u.pc = v.pc /\ u.cls = v.cls
  BY <1>1, EmitShape
<1>3. Copied(v, c).spot = At(v) /\ Copied(v, c).op = op /\ ~Copied(v, c).own
  BY <1>1 DEF Copied, At
<1>4. Follows(ls, v, Copied(v, c), At(v))
  BY <1>3 DEF Follows, IsAdded
<1>5. v.list \in Lists \cup {None} /\ v.pc \in Nat
  BY DEF Writers
<1> HIDE DEF c
<1>6. ASSUME NEW cs \in Seq(Callers), Good(ls, v, cs)
      PROVE  Good(ls, u, cs)
  <2>1. ~v.overflow => InList(ls, At(v))
    BY <1>6 DEF Good
  <2>2. Good(ls, GoTo(u, v.list, v.pc), cs)
    BY <1>1, <1>4, <1>5, <1>6, <2>1, StepGood DEF At
  <2> QED BY <1>2, <2>2, SameSpot
<1> QED BY <1>2, <1>6 DEF Extends, c

\* Where a list of lemmas about Extends starts: a writer inside a list.
Inside(v) == v \in Writers /\ v.list # None

LEMMA InsideExtends ==
  ASSUME NEW ls, NEW v, Inside(v), NEW u, Extends(ls, v, u)
  PROVE  Inside(u)
  BY DEF Inside, Extends

LEMMA AddedExtends ==
  ASSUME NEW ls, NEW v, Inside(v), NEW op \in Added, NEW arg \in Args
  PROVE  Extends(ls, v, Emit(v, Ours(op, arg)))
  BY EmitExtends DEF Inside

LEMMA ReissueExtends ==
  ASSUME NEW ls, NEW v, Inside(v), NEW op \in Kept
  PROVE  Extends(ls, v, Reissue(v, op))
<1>1. v.known[op] = None \/ v.known[op] \in Args
  BY DEF Inside, Writers, Args
<1>2. op \in Added
  BY DEF Added
<1> QED BY <1>1, <1>2, AddedExtends, ExtendsSelf DEF Reissue, Inside

LEMMA WidenExtends ==
  ASSUME NEW ls, NEW v, Inside(v)
  PROVE  Extends(ls, v, widen_scissor(v))
<1>1. v.known["scissor"] = None \/ v.known["scissor"] \in Args
  BY DEF Inside, Writers, Args, Kept
<1>2. "xscissor" \in Added
  BY DEF Added
<1> QED BY <1>1, <1>2, AddedExtends, ExtendsSelf DEF widen_scissor, Inside

LEMMA RestoreExtends ==
  ASSUME NEW ls, NEW v, Inside(v)
  PROVE  Extends(ls, v, restore_scissor(v))
  BY ReissueExtends DEF restore_scissor, Kept

LEMMA ProjectionExtends ==
  ASSUME NEW ls, NEW v, Inside(v), NEW aspect \in Args
  PROVE  Extends(ls, v, projection_group(v, aspect))
<1> DEFINE u == Emit(v, Ours("xgroup", aspect))
<1>1. Extends(ls, v, u)
  BY AddedExtends DEF Added
<1> HIDE DEF u
<1>2. Extends(ls, u, Reissue(u, "projection"))
  BY <1>1, InsideExtends, ReissueExtends DEF Kept
<1> QED BY <1>1, <1>2, ExtendsTrans DEF projection_group, u

LEMMA ViewportExtends ==
  ASSUME NEW ls, NEW v, Inside(v), NEW origin \in Args
  PROVE  Extends(ls, v, viewport_align(v, origin))
<1> DEFINE u == Emit(v, Ours("xviewport", origin))
<1>1. Extends(ls, v, u)
  BY AddedExtends DEF Added
<1> HIDE DEF u
<1>2. Extends(ls, u, Reissue(u, "viewport"))
  BY <1>1, InsideExtends, ReissueExtends DEF Kept
<1> QED BY <1>1, <1>2, ExtendsTrans DEF viewport_align, u

\* Two of them, one after the other.
LEMMA WidenThen ==
  ASSUME NEW ls, NEW v, Inside(v),
         NEW op \in Added, NEW arg \in Args
  PROVE  /\ Extends(ls, v, Emit(widen_scissor(v), Ours(op, arg)))
         /\ Extends(ls, v, viewport_align(widen_scissor(v), arg))
<1> DEFINE u == widen_scissor(v)
<1>1. Extends(ls, v, u) /\ Inside(u)
  BY WidenExtends, InsideExtends
<1> HIDE DEF u
<1>2. Extends(ls, u, Emit(u, Ours(op, arg))) /\ Extends(ls, u, viewport_align(u, arg))
  BY <1>1, AddedExtends, ViewportExtends
<1> QED BY <1>1, <1>2, ExtendsTrans DEF u

LEMMA ThenRestore ==
  ASSUME NEW ls, NEW v, Inside(v),
         NEW op \in Added, NEW arg \in Args
  PROVE  /\ Extends(ls, v, restore_scissor(Emit(v, Ours(op, arg))))
         /\ Extends(ls, v, restore_scissor(viewport_align(v, arg)))
<1> DEFINE u == Emit(v, Ours(op, arg))
           w == viewport_align(v, arg)
<1>1. Extends(ls, v, u) /\ Inside(u) /\ Extends(ls, v, w) /\ Inside(w)
  BY AddedExtends, ViewportExtends, InsideExtends
<1> HIDE DEF u, w
<1>2. Extends(ls, u, restore_scissor(u)) /\ Extends(ls, w, restore_scissor(w))
  BY <1>1, RestoreExtends
<1> QED BY <1>1, <1>2, ExtendsTrans DEF u, w

LEMMA Directions ==
  /\ Classes \subseteq Args /\ {"none", None} \subseteq Args
  /\ {"auto", "left", "right", "stretch", "spill"} \subseteq Args
  /\ {"xscissor", "xviewport", "xgroup", "xrect", "xaspect", "enable"} \subseteq Added
  BY DEF Args, Classes, Added

\* An element's commands, before and after it.
LEMMA RectExtends ==
  ASSUME NEW ls, NEW v, Inside(v), NEW cls \in Classes
  PROVE  Extends(ls, v, rect_begin(v, cls)) /\ Extends(ls, v, rect_end(v, cls))
<1>1. CASE cls \in {"left", "right"}
  <2>1. /\ rect_begin(v, cls) = Emit(widen_scissor(v), Ours("xrect", cls))
        /\ rect_end(v, cls) = restore_scissor(Emit(v, Ours("xrect", "none")))
    BY <1>1 DEF rect_begin, rect_end
  <2> QED BY <2>1, Directions, WidenThen, ThenRestore
<1>2. CASE cls = "stretch"
  <2>1. /\ rect_begin(v, cls) = Emit(v, Ours("xaspect", "stretch"))
        /\ rect_end(v, cls) = Emit(v, Ours("xaspect", "auto"))
    BY <1>2 DEF rect_begin, rect_end
  <2> QED BY <2>1, Directions, AddedExtends
<1>3. CASE cls = "spill"
  <2>1. rect_begin(v, cls) = widen_scissor(v) /\ rect_end(v, cls) = restore_scissor(v)
    BY <1>3 DEF rect_begin, rect_end
  <2> QED BY <2>1, WidenExtends, RestoreExtends
<1>4. CASE cls = "auto"
  <2>1. rect_begin(v, cls) = v /\ rect_end(v, cls) = v
    BY <1>4 DEF rect_begin, rect_end
  <2> QED BY <2>1, ExtendsSelf DEF Inside
<1> QED BY <1>1, <1>2, <1>3, <1>4 DEF Classes

LEMMA GroupExtends ==
  ASSUME NEW ls, NEW v, Inside(v), NEW cls \in Classes
  PROVE  Extends(ls, v, group_begin(v, cls)) /\ Extends(ls, v, group_end(v, cls))
<1>1. CASE cls \in {"left", "right"}
  <2>1. /\ group_begin(v, cls) = viewport_align(widen_scissor(v), cls)
        /\ group_end(v, cls) = restore_scissor(viewport_align(v, "none"))
    BY <1>1 DEF group_begin, group_end
  <2> QED BY <2>1, Directions, WidenThen, ThenRestore
<1>2. CASE cls = "stretch"
  <2>1. /\ group_begin(v, cls) = projection_group(v, "stretch")
        /\ group_end(v, cls) = projection_group(v, "auto")
    BY <1>2 DEF group_begin, group_end
  <2> QED BY <2>1, Directions, ProjectionExtends
<1>3. CASE cls = "spill"
  <2>1. group_begin(v, cls) = widen_scissor(v) /\ group_end(v, cls) = restore_scissor(v)
    BY <1>3 DEF group_begin, group_end
  <2> QED BY <2>1, WidenExtends, RestoreExtends
<1>4. CASE cls = "auto"
  <2>1. group_begin(v, cls) = v /\ group_end(v, cls) = v
    BY <1>4 DEF group_begin, group_end
  <2> QED BY <2>1, ExtendsSelf DEF Inside
<1> QED BY <1>1, <1>2, <1>3, <1>4 DEF Classes

-----------------------------------------------------------------------------
\* copy_list's turns.
\* A command that neither calls nor ends a list.
LEMMA PassGood ==
  ASSUME NEW ls \in [Lists -> Seq(Commands)], \A l \in Lists : Ends(ls[l]),
         NEW v, Inside(v), NEW c, NEW cs \in Seq(Callers), Good(ls, v, cs),
         c = Given(ls, At(v)),
         c \in Commands, c.op \in Kept \cup Drawn
  PROVE  Inside(Pass(v, c)) /\ Good(ls, Pass(v, c), cs)
<1>1. v \in Writers /\ v.list \in Lists /\ v.pc \in Nat /\ v.list # None
  BY DEF Inside, Writers
<1>2. c \in Orders /\ c.own /\ c.op \notin {"call", "callcopy", "branch", "end"}
  BY CommandShape DEF Kept, Drawn
<1>3. ASSUME ~v.overflow
      PROVE  /\ InList(ls, After(At(v)))
             /\ Follows(ls, v, Copied(v, c), After(At(v)))
  <2>1. InList(ls, At(v))
    BY <1>1, <1>3 DEF Good
  <2>2. InList(ls, After(At(v)))
    BY <1>2, <2>1, AfterInList
  <2>3. IsPlain(ls, Copied(v, c), After(At(v)))
    BY <1>1, <1>2, <2>1, CopiedShape DEF IsPlain, SameAs
  <2> QED BY <2>2, <2>3 DEF Follows
<1>4. After(At(v)) = [list |-> v.list, pc |-> v.pc + 1] /\ v.pc + 1 \in Nat
  BY <1>1 DEF After, At
<1>5. Good(ls, Pass(v, c), cs)
  BY <1>1, <1>2, <1>3, <1>4, StepGood DEF Pass
<1>6. Pass(v, c) \in Writers /\ Pass(v, c).list = v.list
  BY <1>1, <1>2, PairShape
<1> QED BY <1>1, <1>5, <1>6 DEF Inside

\* Good reads the copy, the place and the overflow.
LEMMA SameGood ==
  ASSUME NEW ls, NEW v, NEW u,
         u.out = v.out, u.list = v.list, u.pc = v.pc, u.overflow = v.overflow,
         NEW cs, Good(ls, v, cs)
  PROVE  Good(ls, u, cs)
<1>1. At(u) = At(v)
  BY DEF At
<1>2. \A i : SpotAt(u, i) = SpotAt(v, i)
  BY <1>1 DEF SpotAt
<1>3. \A a, l : Entrance(u, a, l) = Entrance(v, a, l)
  BY DEF Entrance
<1>4. \A e, n : Follows(ls, u, e, n) = Follows(ls, v, e, n)
  BY <1>3 DEF Follows, IsCall
<1>5. \A e : IsJump(u, e) = IsJump(v, e)
  BY <1>2 DEF IsJump
<1>6. \A P, i : Chained(ls, u, P, i) = Chained(ls, v, P, i)
  BY <1>2, <1>4, <1>5, Zenon DEF Chained
<1>7. Chain(ls, u, Pending(cs)) = Chain(ls, v, Pending(cs))
  BY <1>6 DEF Chain
<1>8. Settled(u) = Settled(v) /\ \A c : Waiting(ls, u, c) = Waiting(ls, v, c)
  BY <1>3 DEF Settled, Waiting
<1> QED BY <1>1, <1>7, <1>8 DEF Good

\* A call is copied: the jump over the callee's copy, and the callee's start.
LEMMA EnterGood ==
  ASSUME NEW ls, NEW v, Inside(v), NEW l \in Lists, NEW cs \in Seq(Callers),
         Good(ls, v, cs), InList(ls, Start(l)),
         Given(ls, At(v)).op = "call" /\ Given(ls, At(v)).arg = l
  PROVE  /\ Inside(Enter(v, l)) /\ Caller(v) \in Callers
         /\ Append(cs, Caller(v)) \in Seq(Callers)
         /\ Good(ls, Enter(v, l), Append(cs, Caller(v)))
<1> DEFINE c == Ours("jump", None)
           x == Emit(v, c)
           y == GoTo(x, l, 1)
           u == [y EXCEPT !.cls = "auto"]
           w == Enter(v, l)
           d == Caller(v)
           ds == Append(cs, d)
           n == Len(v.out)
<1>1. v \in Writers /\ v.list \in Lists /\ v.pc \in Nat /\ v.list # None
  BY DEF Inside, Writers
<1>2. n \in Nat /\ d \in Callers
  BY <1>1, LenProperties DEF Caller, Callers, Writers
<1>3. c \in Orders /\ c.op = "jump" /\ ~c.own
  BY DEF Ours, Orders, Kinds, Args
<1>4. x \in Writers /\ (~x.overflow => ~v.overflow /\ x.out = Append(v.out, Copied(v, c)))
  BY <1>1, <1>3, EmitShape
<1> HIDE DEF x
<1>5. y \in Writers /\ y.out = x.out /\ y.overflow = x.overflow /\ y.list = l /\ y.pc = 1
  BY <1>4, GoToShape
<1> HIDE DEF y
<1>6. /\ u \in Writers /\ u.out = x.out /\ u.overflow = x.overflow /\ u.list = l /\ u.pc = 1
  BY <1>5 DEF Writers, Classes
<1>7. w = Emit(u, Enable)
  BY DEF Enter, Enable, x, y
<1> HIDE DEF u
<1>8. /\ w \in Writers /\ w.list = l /\ w.pc = 1
      /\ ~w.overflow => ~u.overflow /\ w.out = Append(u.out, Copied(u, Enable))
  BY <1>6, <1>7, EnableShape, EmitShape
<1> HIDE DEF w, d
<1>9. /\ ds \in Seq(Callers) /\ Len(ds) = Len(cs) + 1 /\ Len(cs) \in Nat
      /\ \A k \in 1 .. Len(cs) : ds[k] = cs[k]
      /\ ds[Len(cs) + 1] = d
  BY <1>2, AppendProperties, LenProperties
<1>10. DOMAIN cs = 1 .. Len(cs) /\ DOMAIN ds = 1 .. Len(cs) + 1
  <2>1. DOMAIN ds = 1 .. Len(ds)
    BY <1>9, LenProperties
  <2> QED BY <1>9, <2>1, LenProperties
<1>11. Inside(w)
  BY <1>8, HudRewriteAssumption DEF Inside
<1> HIDE DEF ds
<1>12. ASSUME ~w.overflow PROVE Good(ls, w, ds)
  <2> DEFINE e == Copied(v, c)
             f == Copied(u, Enable)
  <2>1. ~v.overflow /\ u.out = Append(v.out, e) /\ w.out = Append(u.out, f)
    BY <1>4, <1>6, <1>8, <1>12
  <2>2. e \in Copies /\ e.op = "jump" /\ ~e.own /\ e.spot = At(v)
    BY <1>1, <1>3, CopiedShape
  <2>3. f \in Copies /\ f.op = "enable" /\ ~f.own /\ f.spot = At(u)
    BY <1>6, CopiedShape, EnableShape
  <2> HIDE DEF e, f
  <2>4. At(u) = Start(l) /\ At(w) = Start(l)
    BY <1>6, <1>8 DEF At, Start
  <2>5. /\ Chain(ls, v, Pending(cs)) /\ Settled(v) /\ InList(ls, At(v))
        /\ \A k \in DOMAIN cs : Waiting(ls, v, cs[k])
    BY <1>1, <2>1 DEF Good
  <2>6. /\ Pending(cs) \subseteq Pending(ds) /\ n + 1 \in Pending(ds)
    <3>1. d.at = n + 1
      BY DEF d, Caller
    <3>2. \A k \in DOMAIN cs : k \in DOMAIN ds /\ ds[k] = cs[k]
      BY <1>9, <1>10
    <3>3. Len(cs) + 1 \in DOMAIN ds
      BY <1>9, <1>10
    <3> QED BY <1>9, <3>1, <3>2, <3>3 DEF Pending
  <2>7. v.out[n].op \notin {"call", "callcopy"}
    BY <2>5 DEF Settled
  <2>8. Chain(ls, u, Pending(ds))
    BY <1>1, <1>6, <2>1, <2>2, <2>5, <2>6, <2>7, Grow DEF Waits
  <2>9. Follows(ls, u, f, At(w))
    BY <2>3, <2>4 DEF Follows, IsAdded, Added
  <2>10. Chain(ls, w, Pending(ds))
    BY <1>6, <1>8, <2>1, <2>3, <2>4, <2>8, <2>9, Grow
  <2>11. Entrance(u, 1, Main)
    BY <1>1, <1>6, <2>1, <2>2, <2>5, SettledGrows DEF Settled
  <2>12. Settled(w)
    BY <1>6, <1>8, <2>1, <2>3, <2>11, SettledGrows
  <2>13. \A k \in DOMAIN cs : Waiting(ls, w, cs[k])
    <3>1. \A k \in DOMAIN cs : Waiting(ls, u, cs[k])
      BY <1>1, <1>6, <2>1, <2>2, <2>5, WaitGrows
    <3> QED BY <1>6, <1>8, <2>1, <2>3, <3>1, WaitGrows
  <2>14. Waiting(ls, w, d)
    <3>1. /\ Len(u.out) = n + 1 /\ u.out[n + 1] = e
          /\ Len(w.out) = n + 2 /\ w.out[n + 1] = e /\ w.out[n + 2] = f
      <4>1. v.out \in Seq(Copies) /\ u.out \in Seq(Copies)
        BY <1>1, <1>6 DEF Writers
      <4>2. Len(u.out) = n + 1 /\ u.out[n + 1] = e
        BY <1>2, <2>1, <2>2, <4>1, AppendProperties
      <4> QED BY <1>2, <2>1, <2>3, <4>1, <4>2, AppendProperties
    <3>2. d.at = n + 1 /\ [list |-> d.list, pc |-> d.pc] = At(v)
      BY DEF d, Caller, At
    <3>3. Entrance(w, n + 2, l)
      BY <1>2, <2>3, <2>4, <3>1 DEF Entrance
    <3> QED BY <1>2, <2>1, <2>2, <2>5, <3>1, <3>2, <3>3 DEF Waiting, Waits
  <2>15. \A k \in DOMAIN ds : Waiting(ls, w, ds[k])
    BY <1>9, <1>10, <2>13, <2>14
  <2>16. w.list # None /\ InList(ls, At(w))
    BY <1>11, <2>4 DEF Inside
  <2> QED BY <2>10, <2>12, <2>15, <2>16 DEF Good
<1> QED BY <1>2, <1>9, <1>11, <1>12 DEF Good, w, d, ds

LEMMA PlainGood ==
  ASSUME class \in [Elements -> Classes],
         NEW ls \in [Lists -> Seq(Commands)], \A l \in Lists : Ends(ls[l]),
         NEW v, Inside(v), NEW c, NEW cs \in Seq(Callers), Good(ls, v, cs),
         c = Given(ls, At(v)),
         c \in Commands, c.op \in Kept \cup Drawn
  PROVE  Inside(CopyPlain(v, c)) /\ Good(ls, CopyPlain(v, c), cs)
<1>1. CASE c.op \in Kept
  <2> DEFINE u == Pass(v, c)
             w == [u EXCEPT !.known[c.op] = c.arg]
  <2>1. Inside(u) /\ Good(ls, u, cs) /\ c.arg \in Settings
    BY <1>1, PassGood, CommandShape
  <2>2. CopyPlain(v, c) = w
    BY <1>1 DEF CopyPlain, Kept
  <2> HIDE DEF u
  <2>3. /\ w \in Writers /\ w.out = u.out /\ w.list = u.list /\ w.pc = u.pc
        /\ w.overflow = u.overflow
    BY <1>1, <2>1 DEF Writers, Inside
  <2> HIDE DEF w
  <2>4. Good(ls, w, cs)
    BY <2>1, <2>3, SameGood
  <2> QED BY <2>1, <2>2, <2>3, <2>4 DEF Inside
<1>2. CASE c.op = "rect"
  <2> DEFINE cls == class[c.arg]
             u == rect_begin(v, cls)
             w == Pass(u, c)
  <2>1. cls \in Classes
    BY <1>2, CommandShape DEF Elements
  <2>2. Extends(ls, v, u) /\ Inside(u)
    BY <2>1, RectExtends, InsideExtends
  <2>3. CopyPlain(v, c) = rect_end(w, cls)
    BY <1>2 DEF CopyPlain, Kept
  <2> HIDE DEF u, cls
  <2>4. Good(ls, u, cs) /\ c = Given(ls, At(u))
    BY <2>2 DEF Extends, At
  <2>5. Inside(w) /\ Good(ls, w, cs)
    BY <2>2, <2>4, PassGood
  <2> HIDE DEF w
  <2>6. Extends(ls, w, rect_end(w, cls))
    BY <2>1, <2>5, RectExtends
  <2> QED BY <2>3, <2>5, <2>6, InsideExtends DEF Extends
<1>3. CASE c.op = "tri"
  <2>1. CopyPlain(v, c) = Pass(v, c)
    BY <1>3 DEF CopyPlain, Kept
  <2> QED BY <2>1, PassGood
<1> QED BY <1>1, <1>2, <1>3 DEF Drawn

\* The place of a list that is branched to is in force from the next command.
LEMMA BranchGood ==
  ASSUME NEW ls, NEW v, Inside(v), NEW cs \in Seq(Callers), Good(ls, v, cs),
         NEW l \in Lists, InList(ls, Start(l)), class[l] \in Classes,
         Given(ls, At(v)).op = "branch" /\ Given(ls, At(v)).arg = l
  PROVE  Inside(Branch(v, l)) /\ Good(ls, Branch(v, l), cs)
<1> DEFINE x == group_end(v, v.cls)
           y == group_begin(x, class[l])
           c == Cmd("inlined", l)
           z == GoTo(Emit(y, c), l, 1)
           w == [z EXCEPT !.cls = class[l]]
<1>1. v.cls \in Classes
  BY DEF Inside, Writers
<1>2. Extends(ls, v, x) /\ Inside(x)
  BY <1>1, GroupExtends, InsideExtends
<1> HIDE DEF x
<1>3. Extends(ls, x, y) /\ Inside(y)
  BY <1>2, GroupExtends, InsideExtends
<1> HIDE DEF y
<1>4. y \in Writers /\ y.list # None /\ Good(ls, y, cs) /\ At(y) = At(v)
  BY <1>2, <1>3 DEF Extends, Inside, At
<1>5. c \in Orders /\ c.op = "inlined" /\ c.own /\ c.arg = l
  BY DEF Cmd, Orders, Kinds, Args, Elements
<1> HIDE DEF c
<1>6. Follows(ls, y, Copied(y, c), Start(l))
  BY <1>4, <1>5, CopiedShape DEF Follows, IsInlined, SameAs
<1>7. Good(ls, z, cs)
  BY <1>4, <1>5, <1>6, StepGood, HudRewriteAssumption DEF Start
<1>8. z \in Writers /\ z.list = l
  BY <1>4, <1>5, EmitShape, GoToShape
<1> HIDE DEF z
<1>9. w \in Writers /\ w.out = z.out /\ w.list = l /\ w.pc = z.pc /\ w.overflow = z.overflow
  BY <1>8 DEF Writers
<1> HIDE DEF w
<1>10. Good(ls, w, cs)
  BY <1>7, <1>8, <1>9, SameGood
<1>11. Branch(v, l) = w
  BY DEF Branch, w, z, y, x, c
<1> QED BY <1>9, <1>10, <1>11, HudRewriteAssumption DEF Inside

\* A call with the commands around it.
LEMMA WrappedGood ==
  ASSUME NEW ls, NEW v, Inside(v), NEW c \in Orders, c.op \in {"call", "callcopy"},
         NEW cls \in Classes, NEW cs \in Seq(Callers), Good(ls, v, cs),
         InList(ls, After(At(v))),
         \A x : Extends(ls, v, x) /\ ~x.overflow => Follows(ls, x, Copied(x, c), After(At(x)))
  PROVE  Inside(Wrapped(v, c, cls)) /\ Good(ls, Wrapped(v, c, cls), cs)
<1> DEFINE x == group_begin(v, cls)
           y == Called(x, c)
<1>1. Extends(ls, v, x) /\ Inside(x)
  BY GroupExtends, InsideExtends
<1>2. Wrapped(v, c, cls) = group_end(y, cls)
  BY DEF Wrapped, Called, Enable
<1> HIDE DEF x
<1>3. Good(ls, x, cs) /\ At(x) = At(v) /\ x \in Writers /\ x.list # None
  BY <1>1 DEF Extends, Inside, At
<1>4. Good(ls, y, cs)
  BY <1>1, <1>3, CalledGood
<1>5. y \in Writers /\ y.list = x.list
  BY <1>3, PairShape
<1> HIDE DEF y
<1>6. Inside(y)
  BY <1>3, <1>5 DEF Inside
<1>7. Extends(ls, y, group_end(y, cls))
  BY <1>6, GroupExtends
<1> QED BY <1>2, <1>4, <1>6, <1>7, InsideExtends DEF Extends

\* A call nested too deep stays a call of the game's list.
LEMMA DeepGood ==
  ASSUME NEW ls \in [Lists -> Seq(Commands)], \A l \in Lists : Ends(ls[l]),
         NEW v, Inside(v), NEW c \in Commands, NEW cs \in Seq(Callers), Good(ls, v, cs),
         ~v.overflow, c = Given(ls, At(v)), c.op = "call"
  PROVE  Inside(Wrapped(v, c, "auto")) /\ Good(ls, Wrapped(v, c, "auto"), cs)
<1>1. c \in Orders /\ c.own
  BY CommandShape
<1>2. InList(ls, At(v))
  BY DEF Good, Inside
<1>3. InList(ls, After(At(v)))
  BY <1>2, AfterInList
<1>4. ASSUME NEW x, Extends(ls, v, x)
      PROVE  Follows(ls, x, Copied(x, c), After(At(x)))
  <2>1. x \in Writers /\ At(x) = At(v)
    BY <1>4 DEF Extends, At
  <2> QED BY <1>1, <2>1, CopiedShape DEF Follows, IsDeep, SameAs
<1> QED BY <1>1, <1>3, <1>4, WrappedGood DEF Classes

\* The end of a list, and the commands of the list branched to before it.
LEMMA EndGood ==
  ASSUME NEW ls, NEW v, Inside(v), NEW c \in Commands, NEW cs \in Seq(Callers), Good(ls, v, cs),
         c = Given(ls, At(v)), c.op = "end"
  PROVE  LET w == Emit(group_end(v, v.cls), c)
         IN /\ Inside(w) /\ Good(ls, w, cs)
            /\ ~w.overflow => Tight(w, Pending(cs)) /\ w.out[Len(w.out)].op = "end"
            /\ cs = <<>> => /\ GoTo(w, None, 0) \in Writers
                            /\ Good(ls, GoTo(w, None, 0), cs)
<1> DEFINE x == group_end(v, v.cls)
           w == Emit(x, c)
<1>1. v.cls \in Classes
  BY DEF Inside, Writers
<1>2. Extends(ls, v, x) /\ Inside(x)
  BY <1>1, GroupExtends, InsideExtends
<1> HIDE DEF x
<1>3. x \in Writers /\ x.list # None /\ Good(ls, x, cs) /\ At(x) = At(v)
  BY <1>2 DEF Extends, Inside, At
<1>4. c \in Orders /\ c.own /\ c.op \notin {"call", "callcopy"}
  BY CommandShape
<1>5. \A n : Follows(ls, x, Copied(x, c), n)
  BY <1>3, <1>4, CopiedShape DEF Follows, IsEnd, SameAs
<1>6. /\ w \in Writers /\ w.list = x.list /\ w.pc = x.pc
      /\ ~w.overflow => w.out = Append(x.out, Copied(x, c))
  BY <1>3, <1>4, EmitShape
<1>7. Inside(w) /\ GoTo(w, x.list, x.pc) = w
  BY <1>3, <1>6, SameSpot DEF Inside
<1>8. x.list \in Lists \cup {None} /\ x.pc \in Nat
  BY <1>3 DEF Writers
<1>9. Good(ls, w, cs) /\ (~w.overflow => Tight(w, Pending(cs)))
  <2>1. ~x.overflow => InList(ls, [list |-> x.list, pc |-> x.pc])
    BY <1>3 DEF Good, At
  <2>2. LET u == GoTo(Emit(x, c), x.list, x.pc)
        IN Good(ls, u, cs) /\ (~u.overflow => Tight(u, Pending(cs)))
    BY <1>3, <1>4, <1>5, <1>8, <2>1, StepGood
  <2> QED BY <1>7, <2>2
<1>10. ~w.overflow => w.out[Len(w.out)].op = "end"
  <2>1. x.out \in Seq(Copies) /\ Copied(x, c) \in Copies /\ Copied(x, c).op = "end"
    BY <1>3, <1>4, CopiedShape DEF Writers
  <2> QED BY <1>6, <2>1, AppendProperties
<1>11. ASSUME cs = <<>>
       PROVE  GoTo(w, None, 0) \in Writers /\ Good(ls, GoTo(w, None, 0), cs)
  <2>1. GoTo(w, None, 0) \in Writers
    BY <1>6, GoToShape
  <2>2. Good(ls, GoTo(Emit(x, c), None, 0), cs)
    BY <1>3, <1>4, <1>5, <1>11, StepGood
  <2> QED BY <2>1, <2>2
<1> QED BY <1>7, <1>9, <1>10, <1>11 DEF x

\* The jump over a callee's copy gets its target: the end of the copy, where
\* the commands around the call go.
Patched(v, d) ==
  [v EXCEPT !.out[d.at].arg = Len(v.out) + 1, !.list = d.list, !.pc = d.pc, !.cls = d.cls]

LEMMA FrontShape ==
  ASSUME NEW S, NEW s \in Seq(S), s # <<>>
  PROVE  /\ Len(s) \in Nat /\ Len(s) > 0 /\ DOMAIN s = 1 .. Len(s) /\ s[Len(s)] \in S
         /\ Front(s) \in Seq(S) /\ Len(Front(s)) = Len(s) - 1
         /\ DOMAIN Front(s) = 1 .. Len(s) - 1
         /\ \A k \in 1 .. Len(s) - 1 : Front(s)[k] = s[k]
<1>1. Len(s) \in Nat /\ Len(s) > 0 /\ DOMAIN s = 1 .. Len(s) /\ s[Len(s)] \in S
  BY EmptySeq, LenProperties
<1>2. /\ SubSeq(s, 1, Len(s) - 1) \in Seq(S)
      /\ Len(SubSeq(s, 1, Len(s) - 1)) = Len(s) - 1
      /\ \A k \in 1 .. Len(s) - 1 : SubSeq(s, 1, Len(s) - 1)[k] = s[1 + k - 1]
  BY <1>1, SubSeqProperties
<1>3. DOMAIN SubSeq(s, 1, Len(s) - 1) = 1 .. Len(s) - 1
  BY <1>2, LenProperties
<1> QED BY <1>1, <1>2, <1>3 DEF Front

LEMMA PatchGood ==
  ASSUME NEW ls, NEW v, Inside(v), NEW cs \in Seq(Callers), Good(ls, v, cs), ~v.overflow,
         cs # <<>>, Tight(v, Pending(cs)), v.out[Len(v.out)].op = "end"
  PROVE  LET u == Patched(v, cs[Len(cs)])
         IN Inside(u) /\ Good(ls, u, cs) /\ Good(ls, u, Front(cs))
<1> DEFINE d == cs[Len(cs)]
           u == Patched(v, d)
           ds == Front(cs)
           n == Len(v.out)
<1>1. /\ Len(cs) \in Nat /\ Len(cs) > 0 /\ d \in Callers /\ DOMAIN cs = 1 .. Len(cs)
      /\ ds \in Seq(Callers) /\ DOMAIN ds = 1 .. Len(cs) - 1
      /\ \A k \in 1 .. Len(cs) - 1 : ds[k] = cs[k]
  BY FrontShape
<1>2. /\ Pending(ds) \subseteq Pending(cs)
      /\ \A i \in Pending(cs) : i = d.at \/ i \in Pending(ds)
      /\ \A k \in DOMAIN ds : k \in DOMAIN cs /\ ds[k] = cs[k]
  <2>1. \A k \in DOMAIN ds : k \in DOMAIN cs /\ ds[k] = cs[k]
    BY <1>1
  <2>2. \A k \in DOMAIN cs : k = Len(cs) \/ k \in DOMAIN ds
    BY <1>1
  <2> HIDE DEF ds
  <2> QED BY <2>1, <2>2 DEF Pending
<1>3. v \in Writers /\ v.out \in Seq(Copies) /\ n \in Nat /\ DOMAIN v.out = 1 .. n
  BY LenProperties DEF Inside, Writers
<1>4. /\ Chain(ls, v, Pending(cs)) /\ Settled(v) /\ \A k \in DOMAIN cs : Waiting(ls, v, cs[k])
  BY DEF Good
<1>5. Waiting(ls, v, d)
  BY <1>1, <1>4
<1>6. d.at \in 1 .. n /\ v.out[d.at].spot = [list |-> d.list, pc |-> d.pc] /\ Waits(v.out[d.at])
      /\ InList(ls, [list |-> d.list, pc |-> d.pc])
  BY <1>5 DEF Waiting
<1>7. /\ u \in Writers /\ u.list = d.list /\ u.pc = d.pc /\ u.overflow = v.overflow
      /\ u.out = [v.out EXCEPT ![d.at].arg = n + 1]
  <2>1. n + 1 \in Args
    BY <1>3 DEF Args
  <2>2. [v.out EXCEPT ![d.at].arg = n + 1] \in Seq(Copies)
    <3> DEFINE e == [v.out[d.at] EXCEPT !.arg = n + 1]
    <3>1. e \in Copies
      <4>1. v.out[d.at] \in Copies
        BY <1>3, <1>6, ElementOfSeq
      <4> QED BY <2>1, <4>1 DEF Copies
    <3>2. [v.out EXCEPT ![d.at].arg = n + 1] = [v.out EXCEPT ![d.at] = e]
      OBVIOUS
    <3> HIDE DEF e
    <3> QED BY <1>3, <1>6, <3>1, <3>2, ExceptSeq
  <2> QED BY <1>1, <1>3, <2>2 DEF Patched, Writers, Callers
<1> HIDE DEF u, d, ds
<1>8. /\ Len(u.out) = n
      /\ \A i \in 1 .. n : /\ u.out[i].op = v.out[i].op /\ u.out[i].own = v.out[i].own
                           /\ u.out[i].spot = v.out[i].spot
                           /\ i # d.at => u.out[i] = v.out[i]
      /\ u.out[d.at].arg = n + 1
  <2>1. \A i \in 1 .. n : v.out[i] \in Copies
    BY <1>3, ElementOfSeq
  <2>2. DOMAIN u.out = 1 .. n /\ u.out \in Seq(Copies)
    BY <1>3, <1>7 DEF Writers
  <2>3. Len(u.out) = n
    BY <1>3, <2>2, LenProperties
  <2> QED BY <1>3, <1>6, <1>7, <2>1, <2>3 DEF Copies
<1>9. \A a, l : Entrance(u, a, l) = Entrance(v, a, l)
  BY <1>8 DEF Entrance
<1>10. \A e, m : Follows(ls, v, e, m) => Follows(ls, u, e, m)
  BY <1>9 DEF Follows, IsCall
<1>11. /\ \A i \in 1 .. n : SpotAt(u, i) = SpotAt(v, i)
       /\ SpotAt(u, n + 1) = v.out[d.at].spot
  BY <1>3, <1>6, <1>7, <1>8 DEF SpotAt, At
<1>12. ASSUME NEW Q, Q \in {Pending(cs), Pending(ds)}, NEW i \in 1 .. n
       PROVE  Chained(ls, u, Q, i)
  <2>1. Chained(ls, v, Pending(cs), i)
    BY <1>4 DEF Chain
  <2>2. i < n => u.out[i + 1].op = v.out[i + 1].op
    BY <1>3, <1>8
  <2>3. u.out[i].op \in {"call", "callcopy"} /\ i < Len(u.out) => u.out[i + 1].op = "enable"
    BY <1>8, <2>1, <2>2 DEF Chained
  <2>4. CASE i = d.at
    <3>1. IsJump(u, u.out[i])
      BY <1>3, <1>6, <1>8, <1>11, <2>4 DEF IsJump, Waits
    <3>2. InList(ls, u.out[i].spot)
      BY <1>8, <2>1 DEF Chained
    <3> QED BY <2>3, <3>1, <3>2, Zenon DEF Chained
  <2>5. CASE i # d.at
    <3> DEFINE e == v.out[i]
    <3>1. u.out[i] = e /\ InList(ls, e.spot)
      BY <1>8, <2>1, <2>5 DEF Chained
    <3>2. CASE Follows(ls, v, e, SpotAt(v, i + 1))
      <4>1. CASE i < n
        <5>1. SpotAt(u, i + 1) = SpotAt(v, i + 1)
          BY <1>3, <1>11, <4>1
        <5> QED BY <1>10, <2>3, <3>1, <3>2, <5>1, Zenon DEF Chained
      <4>2. CASE i = n
        <5>1. e.op = "end"
          BY <4>2
        <5>2. \A m : Follows(ls, v, e, m)
          BY <3>2, <5>1 DEF Follows, IsAdded, IsPlain, IsInlined, IsEnd, IsDeep, IsCall, Added,
                            Kept, Drawn
        <5> QED BY <1>10, <2>3, <3>1, <5>2, Zenon DEF Chained
      <4> QED BY <1>3, <4>1, <4>2
    <3>3. CASE Waits(e) /\ i \in Pending(cs)
      <4>1. i \in Q
        BY <1>2, <1>12, <2>5, <3>3
      <4> QED BY <2>3, <3>1, <3>3, <4>1, Zenon DEF Chained
    <3>4. CASE IsJump(v, e) /\ i \notin Pending(cs)
      <4>1. e.arg \in 1 .. n
        BY <1>3, <3>4 DEF IsJump, Tight
      <4>2. IsJump(u, e)
        BY <1>3, <1>8, <1>11, <3>4, <4>1 DEF IsJump
      <4> QED BY <2>3, <3>1, <4>2, Zenon DEF Chained
    <3> QED BY <2>1, <3>2, <3>3, <3>4 DEF Chained, IsJump, Waits
  <2> QED BY <2>4, <2>5
<1>13. Chain(ls, u, Pending(cs)) /\ Chain(ls, u, Pending(ds))
  BY <1>8, <1>12 DEF Chain
<1>14. Settled(u)
  <2>1. n \in 1 .. n
    BY <1>3, <1>6
  <2> QED BY <1>4, <1>8, <1>9, <2>1 DEF Settled
<1>15. \A k \in DOMAIN cs : Waiting(ls, u, cs[k])
  <2> TAKE k \in DOMAIN cs
  <2>1. Waiting(ls, v, cs[k])
    BY <1>4
  <2> QED BY <1>8, <1>9, <2>1, SMTT(20) DEF Waiting, Waits
<1>16. u.list # None /\ InList(ls, At(u))
  BY <1>6, <1>7, HudRewriteAssumption DEF At, InList
<1>17. Good(ls, u, cs) /\ Good(ls, u, ds)
  BY <1>2, <1>13, <1>14, <1>15, <1>16 DEF Good
<1> QED BY <1>7, <1>16, <1>17 DEF Inside, u, d, ds

LEMMA LeaveGood ==
  ASSUME lists \in [Lists -> Seq(Commands)], \A l \in Lists : Ends(lists[l]),
         class \in [Elements -> Classes],
         NEW ls, ls = lists,
         NEW v, Inside(v), NEW cs \in Seq(Callers), Good(ls, v, cs), cs # <<>>,
         ~v.overflow => Tight(v, Pending(cs)) /\ v.out[Len(v.out)].op = "end"
  PROVE  /\ Leave(v, cs[Len(cs)]) \in Writers
         /\ Good(ls, Leave(v, cs[Len(cs)]), Front(cs))
         /\ Leave(v, cs[Len(cs)]).list # None
<1> DEFINE d == cs[Len(cs)]
           ds == Front(cs)
           u == Patched(v, d)
           c == Cmd("callcopy", d.at + 1)
           s == [list |-> d.list, pc |-> d.pc]
           l == Given(ls, s).arg
<1>1. CASE v.overflow
  BY <1>1 DEF Leave, Inside, Good
<1>2. CASE ~v.overflow
  <2>1. Inside(u) /\ Good(ls, u, cs) /\ Good(ls, u, ds)
    BY <1>2, PatchGood
  <2>2. /\ d \in Callers /\ ds \in Seq(Callers) /\ Len(cs) \in DOMAIN cs
    BY FrontShape
  <2>3. Waiting(ls, v, d)
    BY <1>2, <2>2 DEF Good
  <2>4. InList(ls, s) /\ Given(ls, s).op = "call"
    BY <2>3 DEF Waiting
  <2>5. l \in Lists
    BY <2>4, CommandShape, GivenShape
  <2>6. Leave(v, d) = Wrapped(u, c, class[l])
    BY <1>2 DEF Leave, Patched, Given
  <2>7. At(u) = s
    BY DEF Patched, At
  <2> HIDE DEF u, s
  <2>8. InList(ls, After(At(u)))
    BY <2>4, <2>7, AfterInList
  <2>9. c \in Orders /\ c.op = "callcopy" /\ c.own /\ c.arg = d.at + 1
    BY <2>2 DEF Cmd, Orders, Kinds, Args, Callers
  <2>10. ASSUME NEW x, Extends(ls, u, x), ~x.overflow
         PROVE  Follows(ls, x, Copied(x, c), After(At(x)))
    <3>1. x \in Writers /\ At(x) = s
      BY <2>7, <2>10 DEF Extends, At
    <3>2. Good(ls, x, cs)
      BY <2>1, <2>10 DEF Extends
    <3>3. Waiting(ls, x, d)
      BY <2>2, <2>10, <3>2 DEF Good
    <3>4. Entrance(x, d.at + 1, l)
      BY <3>3 DEF Waiting, s
    <3> HIDE DEF c
    <3> QED BY <2>4, <2>9, <3>1, <3>4, CopiedShape DEF Follows, IsCall
  <2>11. class[l] \in Classes
    BY <2>5 DEF Elements
  <2> HIDE DEF c, l, ds
  <2>12. Inside(Wrapped(u, c, class[l])) /\ Good(ls, Wrapped(u, c, class[l]), ds)
    <3> PICK cls : cls = class[l]
      OBVIOUS
    <3> HIDE DEF d
    <3> QED BY <2>1, <2>2, <2>8, <2>9, <2>10, <2>11, WrappedGood
  <2> QED BY <2>6, <2>12 DEF Inside, ds
<1> QED BY <1>1, <1>2

\* The invariant, and its steps.
LEMMA CopyStep ==
  ASSUME TypeInv, CopyInv, Copy
  PROVE  /\ writer' \in Writers
         /\ calls' \in Seq(Callers) /\ Len(calls') <= MaxDepth
         /\ Good(lists, writer', calls')
<1> PICK ls, v, cs : ls = lists /\ v = writer /\ cs = calls
  OBVIOUS
<1> DEFINE c == Given(ls, At(v))
<1>1. /\ ls \in [Lists -> Seq(Commands)] /\ (\A l \in Lists : Ends(ls[l]))
      /\ class \in [Elements -> Classes]
      /\ v \in Writers /\ cs \in Seq(Callers) /\ Len(cs) <= MaxDepth
  BY DEF TypeInv
<1>2. /\ status = "copying" /\ ~v.overflow /\ v.list # None /\ Good(ls, v, cs)
  BY DEF Copy, CopyInv
<1>3. Inside(v) /\ InList(ls, At(v))
  BY <1>1, <1>2 DEF Inside, Good
<1>4. c \in Commands
  BY <1>1, <1>3, GivenShape
<1>5. lists[writer.list][writer.pc] = c
  BY DEF Given, At
<1>6. c.op \in {"call", "branch"} => c.arg \in Lists /\ InList(ls, Start(c.arg))
  BY <1>1, <1>4, CommandShape, StartInList
<1>7. Len(cs) \in Nat
  BY <1>1, LenProperties
<1>8. CASE c.op \notin {"call", "branch", "end"} /\ writer' = CopyPlain(v, c) /\ calls' = cs
  <2>1. c.op \in Kept \cup Drawn
    BY <1>4, <1>8, CommandShape
  <2> QED BY <1>1, <1>2, <1>3, <1>4, <1>8, <2>1, PlainGood DEF Inside
<1>9. CASE c.op = "branch" /\ writer' = Branch(v, c.arg) /\ calls' = cs
  <2>1. class[c.arg] \in Classes
    BY <1>1, <1>6, <1>9 DEF Elements
  <2> PICK l : l = c.arg
    OBVIOUS
  <2> QED BY <1>1, <1>2, <1>3, <1>6, <1>9, <2>1, BranchGood DEF Inside
<1>10. CASE /\ c.op = "call" /\ Len(cs) < MaxDepth
            /\ writer' = Enter(v, c.arg) /\ calls' = Append(cs, Caller(v))
  <2>1. /\ Inside(Enter(v, c.arg)) /\ Caller(v) \in Callers
        /\ Append(cs, Caller(v)) \in Seq(Callers)
        /\ Good(ls, Enter(v, c.arg), Append(cs, Caller(v)))
    BY <1>1, <1>2, <1>3, <1>6, <1>10, EnterGood
  <2>2. Len(Append(cs, Caller(v))) = Len(cs) + 1
    BY <1>1, <2>1, AppendProperties
  <2>3. Len(cs) + 1 <= MaxDepth
    BY <1>7, <1>10, HudRewriteAssumption
  <2> QED BY <1>10, <2>1, <2>2, <2>3 DEF Inside
<1>11. CASE /\ c.op = "call" /\ Len(cs) >= MaxDepth
            /\ writer' = Wrapped(v, c, "auto") /\ calls' = cs
  BY <1>1, <1>2, <1>3, <1>4, <1>11, DeepGood DEF Inside
<1>12. CASE /\ c.op = "end" /\ cs # <<>>
            /\ writer' = Leave(Emit(group_end(v, v.cls), c), cs[Len(cs)])
            /\ calls' = Front(cs)
  <2> DEFINE w == Emit(group_end(v, v.cls), c)
  <2>1. /\ Inside(w) /\ Good(ls, w, cs)
        /\ ~w.overflow => Tight(w, Pending(cs)) /\ w.out[Len(w.out)].op = "end"
    BY <1>1, <1>2, <1>3, <1>4, <1>12, EndGood
  <2> HIDE DEF w
  <2>2. /\ Leave(w, cs[Len(cs)]) \in Writers
        /\ Good(ls, Leave(w, cs[Len(cs)]), Front(cs))
    BY <1>1, <1>12, <2>1, LeaveGood
  <2>3. Front(cs) \in Seq(Callers) /\ Len(Front(cs)) = Len(cs) - 1
    BY <1>1, <1>12, FrontShape
  <2>4. Len(Front(cs)) <= MaxDepth
    BY <1>1, <1>7, <2>3, HudRewriteAssumption
  <2> QED BY <1>12, <2>2, <2>3, <2>4 DEF w
<1>13. CASE /\ c.op = "end" /\ cs = <<>>
            /\ writer' = GoTo(Emit(group_end(v, v.cls), c), None, 0) /\ calls' = cs
  BY <1>1, <1>2, <1>3, <1>4, <1>13, EndGood
<1> QED BY <1>5, <1>8, <1>9, <1>10, <1>11, <1>12, <1>13 DEF Copy

-----------------------------------------------------------------------------
\* A copy that is submitted: no jump waits, and every command but the end of a
\* list has one after it.
Then(v, i, s) == i + 1 \in 1 .. Len(v.out) /\ v.out[i + 1].spot = s

Whole(ls, v, i) ==
  LET e == v.out[i]
      d == Given(ls, e.spot)
  IN /\ e \in Copies /\ InList(ls, e.spot)
     /\ \/ ~e.own /\ e.op \in Added /\ Then(v, i, e.spot)
        \/ ~e.own /\ e.op = "jump" /\ e.arg \in 1 .. Len(v.out) /\ v.out[e.arg].spot = e.spot
        \/ /\ e.own /\ e.op \in Kept \cup Drawn /\ Then(v, i, After(e.spot))
           /\ d.op = e.op /\ d.arg = e.arg
        \/ /\ e.own /\ e.op = "inlined" /\ Then(v, i, Start(d.arg))
           /\ d.op = "branch"
        \/ e.own /\ e.op = "end" /\ d.op = "end"
        \/ /\ e.own /\ e.op = "call" /\ Then(v, i, After(e.spot)) /\ v.out[i + 1].op = "enable"
           /\ d.op = "call" /\ d.arg = e.arg
        \/ /\ e.own /\ e.op = "callcopy" /\ Then(v, i, After(e.spot))
           /\ v.out[i + 1].op = "enable"
           /\ d.op = "call" /\ Entrance(v, e.arg, d.arg)

LEMMA Finished ==
  ASSUME NEW ls \in [Lists -> Seq(Commands)], NEW v \in Writers, NEW cs,
         Good(ls, v, cs), ~v.overflow, v.list = None, NEW i \in 1 .. Len(v.out)
  PROVE  Whole(ls, v, i)
<1> DEFINE e == v.out[i]
           d == Given(ls, e.spot)
           n == SpotAt(v, i + 1)
<1>1. Len(v.out) \in Nat /\ e \in Copies
  BY LenProperties, ElementOfSeq DEF Writers
<1>2. Pending(cs) = {}
  BY DEF Good, Pending
<1>3. Chained(ls, v, {}, i)
  BY <1>2 DEF Good, Chain
<1>4. InList(ls, e.spot) /\ d \in Commands
  BY <1>3, GivenShape DEF Chained
<1>5. ASSUME NEW s, n = s, s.list \in Lists
      PROVE  Then(v, i, s)
  <2>1. n.list # None
    BY <1>5, HudRewriteAssumption
  <2>2. i + 1 <= Len(v.out)
    BY <1>1, <2>1 DEF SpotAt, At
  <2> QED BY <1>1, <1>5, <2>2 DEF SpotAt, Then
<1>6. After(e.spot).list \in Lists /\ e.spot.list \in Lists
  BY <1>4 DEF After, InList
<1>7. e.op \in {"call", "callcopy"} /\ i < Len(v.out) => v.out[i + 1].op = "enable"
  BY <1>3 DEF Chained
<1>8. \A s : Then(v, i, s) => i < Len(v.out)
  BY <1>1 DEF Then
<1>9. CASE IsAdded(e, n)
  BY <1>1, <1>4, <1>5, <1>6, <1>9 DEF IsAdded, Whole
<1>10. CASE IsPlain(ls, e, n)
  BY <1>1, <1>4, <1>5, <1>6, <1>10 DEF IsPlain, SameAs, Whole
<1>11. CASE IsInlined(ls, e, n)
  <2>1. e.arg \in Lists /\ e.arg = d.arg
    BY <1>4, <1>11, CommandShape DEF IsInlined, SameAs
  <2>2. Start(d.arg).list \in Lists /\ n = Start(d.arg)
    BY <1>11, <2>1 DEF Start, IsInlined
  <2>3. Then(v, i, Start(d.arg))
    BY <1>5, <2>2
  <2> QED BY <1>1, <1>4, <1>11, <2>3 DEF IsInlined, SameAs, Whole
<1>12. CASE IsEnd(ls, e)
  BY <1>1, <1>4, <1>12 DEF IsEnd, SameAs, Whole
<1>13. CASE IsDeep(ls, e, n)
  <2>1. Then(v, i, After(e.spot))
    BY <1>5, <1>6, <1>13 DEF IsDeep
  <2> QED BY <1>1, <1>4, <1>7, <1>8, <1>13, <2>1 DEF IsDeep, SameAs, Whole
<1>14. CASE IsCall(ls, v, e, n)
  <2>1. Then(v, i, After(e.spot))
    BY <1>5, <1>6, <1>14 DEF IsCall
  <2> QED BY <1>1, <1>4, <1>7, <1>8, <1>14, <2>1 DEF IsCall, Whole
<1>15. CASE IsJump(v, e)
  <2>1. SpotAt(v, e.arg).list # None /\ e.arg \in 1 .. Len(v.out) + 1
    BY <1>6, <1>15, HudRewriteAssumption DEF IsJump
  <2>2. e.arg \in 1 .. Len(v.out)
    BY <1>1, <2>1 DEF SpotAt, At
  <2> QED BY <1>1, <1>4, <1>15, <2>2 DEF IsJump, SpotAt, Whole
<1> QED BY <1>3, <1>9, <1>10, <1>11, <1>12, <1>13, <1>14, <1>15 DEF Chained, Follows

-----------------------------------------------------------------------------
\* RT64's state after a command.
Readable(c) == c.op \in Kinds /\ c.arg \in Args

LEMMA ShownShape ==
  ASSUME NEW r \in Rdps, NEW c, Readable(c), NEW within \in SUBSET Args
  PROVE  LET e == Shown(r, c, within)
         IN e \in Shots /\ e.op = c.op /\ e.arg = c.arg
  BY DEF Shown, Shots, Rdps, Readable

LEMMA ObeyShape ==
  ASSUME NEW r \in Rdps, NEW c, Readable(c), NEW within \in SUBSET Args
  PROVE  LET u == Obey(r, c, within)
         IN /\ u \in Rdps
            /\ u.shown = IF c.op \in Drawn THEN Append(r.shown, Shown(r, c, within))
                                           ELSE r.shown
            /\ u.sound = (r.sound /\ (Extended(c) => r.extended))
            /\ u.extended = (c.op = "enable" \/ (r.extended /\ c.op # "end"))
<1> DEFINE u == Obey(r, c, within)
<1>1. c.arg \in Args /\ c.arg \in Vals /\ \A a \in Args : <<c.arg, a>> \in Vals
  BY DEF Readable, Vals
<1>2. CASE Extended(c) /\ ~r.extended
  <2>1. u = [r EXCEPT !.sound = FALSE]
    BY <1>2 DEF Obey, Extended, Drawn
  <2> QED BY <1>2, <2>1 DEF Rdps, Extended, Drawn
<1>3. CASE Extended(c) /\ r.extended
  <2>1. CASE c.op = "xscissor"
    <3>1. u = [r EXCEPT !.scissor = c.arg, !.wide = TRUE]
      BY <1>3, <2>1 DEF Obey
    <3> QED BY <1>1, <1>3, <2>1, <3>1 DEF Rdps, Extended, Drawn
  <2>2. CASE c.op = "xviewport"
    <3>1. u = [r EXCEPT !.align = c.arg]
      BY <1>3, <2>2 DEF Obey
    <3> QED BY <1>1, <1>3, <2>2, <3>1 DEF Rdps, Extended, Drawn
  <2>3. CASE c.op = "xgroup"
    <3>1. u = [r EXCEPT !.aspect = c.arg]
      BY <1>3, <2>3 DEF Obey
    <3> QED BY <1>1, <1>3, <2>3, <3>1 DEF Rdps, Extended, Drawn
  <2>4. CASE c.op = "xrect"
    <3>1. u = [r EXCEPT !.rect = c.arg]
      BY <1>3, <2>4 DEF Obey
    <3> QED BY <1>1, <1>3, <2>4, <3>1 DEF Rdps, Extended, Drawn
  <2>5. CASE c.op = "xaspect"
    <3>1. u = [r EXCEPT !.stretched = c.arg]
      BY <1>3, <2>5 DEF Obey
    <3> QED BY <1>1, <1>3, <2>5, <3>1 DEF Rdps, Extended, Drawn
  <2> QED BY <1>3, <2>1, <2>2, <2>3, <2>4, <2>5 DEF Extended
<1>4. CASE ~Extended(c) /\ c.op \notin {"enable", "end"} \cup Kept \cup Drawn
  <2>1. u = r
    BY <1>4 DEF Obey, Extended, Kept, Drawn
  <2> QED BY <1>4, <2>1 DEF Rdps, Drawn
<1>5. CASE c.op = "enable"
  <2>1. u = [r EXCEPT !.extended = TRUE] /\ ~Extended(c)
    BY <1>5 DEF Obey, Extended
  <2> QED BY <1>5, <2>1 DEF Rdps, Drawn
<1>6. CASE c.op = "end"
  <2>1. u = [r EXCEPT !.extended = FALSE] /\ ~Extended(c)
    BY <1>6 DEF Obey, Extended
  <2> QED BY <1>6, <2>1 DEF Rdps, Drawn
<1>7. CASE c.op = "scissor"
  <2>1. u = [r EXCEPT !.scissor = c.arg, !.wide = FALSE] /\ ~Extended(c)
    BY <1>7 DEF Obey, Extended
  <2> QED BY <1>1, <1>7, <2>1 DEF Rdps, Drawn
<1>8. CASE c.op = "viewport"
  <2>1. u = [r EXCEPT !.viewport = <<c.arg, r.align>>] /\ ~Extended(c)
    BY <1>8 DEF Obey, Extended
  <2> QED BY <1>1, <1>8, <2>1 DEF Rdps, Drawn
<1>9. CASE c.op = "projection"
  <2>1. u = [r EXCEPT !.projection = <<c.arg, r.aspect>>] /\ ~Extended(c)
    BY <1>9 DEF Obey, Extended
  <2> QED BY <1>1, <1>9, <2>1 DEF Rdps, Drawn
<1>10. CASE c.op \in Drawn
  <2>1. u = [r EXCEPT !.shown = Append(@, Shown(r, c, within))] /\ ~Extended(c)
    BY <1>10 DEF Obey, Extended, Drawn
  <2>2. Append(r.shown, Shown(r, c, within)) \in Seq(Shots)
    BY ShownShape, AppendProperties DEF Rdps
  <2> QED BY <1>10, <2>1, <2>2 DEF Rdps, Drawn
<1> QED BY <1>2, <1>3, <1>4, <1>5, <1>6, <1>7, <1>8, <1>9, <1>10 DEF Kept

-----------------------------------------------------------------------------
\* Two stacks of places, list by list; unless on, the top one too is about to
\* turn the extended GBI on.
Level(ls, v, G, R, on) ==
  /\ Len(G) = Len(R)
  /\ \A k \in 1 .. Len(R) : Beside(ls, v, G[k], R[k])
  /\ \A k \in 1 .. Len(R) : k < Len(R) \/ ~on => Enables(v, R[k])

LEMMA PopLevel ==
  ASSUME NEW ls, NEW v, NEW G \in Seq(Places), NEW R \in Seq(Places), R # <<>>,
         NEW on, Level(ls, v, G, R, on)
  PROVE  Level(ls, v, Front(G), Front(R), FALSE)
<1>1. Len(R) \in Nat /\ Len(R) > 0 /\ Len(G) = Len(R) /\ G # <<>>
  BY EmptySeq, LenProperties DEF Level
<1>2. /\ Len(Front(R)) = Len(R) - 1 /\ \A k \in 1 .. Len(R) - 1 : Front(R)[k] = R[k]
  BY FrontShape
<1>3. /\ Len(Front(G)) = Len(R) - 1 /\ \A k \in 1 .. Len(R) - 1 : Front(G)[k] = G[k]
  BY <1>1, FrontShape
<1> QED BY <1>1, <1>2, <1>3 DEF Level

LEMMA PutLevel ==
  ASSUME NEW ls, NEW v, NEW G \in Seq(Places), NEW R \in Seq(Places),
         NEW p \in Places, NEW q \in Places, NEW on,
         Level(ls, v, G, R, FALSE), Beside(ls, v, p, q), on \/ Enables(v, q)
  PROVE  Level(ls, v, Append(G, p), Append(R, q), on)
<1>1. /\ Len(R) \in Nat /\ Len(Append(R, q)) = Len(R) + 1
      /\ \A k \in 1 .. Len(R) : Append(R, q)[k] = R[k]
      /\ Append(R, q)[Len(R) + 1] = q
  BY AppendProperties, LenProperties
<1>2. /\ Len(G) = Len(R) /\ Len(Append(G, p)) = Len(R) + 1
      /\ \A k \in 1 .. Len(R) : Append(G, p)[k] = G[k]
      /\ Append(G, p)[Len(R) + 1] = p
  BY AppendProperties, LenProperties DEF Level
<1> QED BY <1>1, <1>2 DEF Level

LEMMA ShownLevel ==
  ASSUME NEW s \in Seq(Shots), NEW t \in Seq(Shots), SameShown(s, t),
         NEW x \in Shots, NEW y \in Shots, y.op = x.op, y.arg = x.arg
  PROVE  SameShown(Append(s, x), Append(t, y))
<1>1. /\ Len(s) \in Nat /\ Len(Append(s, x)) = Len(s) + 1
      /\ \A k \in 1 .. Len(s) : Append(s, x)[k] = s[k]
      /\ Append(s, x)[Len(s) + 1] = x
  BY AppendProperties, LenProperties
<1>2. /\ Len(t) = Len(s) /\ Len(Append(t, y)) = Len(s) + 1
      /\ \A k \in 1 .. Len(s) : Append(t, y)[k] = t[k]
      /\ Append(t, y)[Len(s) + 1] = y
  BY AppendProperties, LenProperties DEF SameShown
<1> QED BY <1>1, <1>2 DEF SameShown

\* What a command does to the places.
LEMMA FollowEnd ==
  ASSUME NEW s, NEW p, NEW c, c.op = "end"
  PROVE  Follow(s, p, c) = Front(s)
  BY DEF Follow

LEMMA FollowBranch ==
  ASSUME NEW s, NEW p, NEW c, c.op = "branch"
  PROVE  Follow(s, p, c) = Append(Front(s), Place(c.arg, 1, p.around, {c.arg}))
  BY DEF Follow

LEMMA FollowJump ==
  ASSUME NEW s, NEW p, NEW c, c.op = "jump"
  PROVE  Follow(s, p, c) = Append(Front(s), [p EXCEPT !.pc = c.arg])
  BY DEF Follow

LEMMA FollowCall ==
  ASSUME NEW s, NEW p, NEW c, c.op = "call"
  PROVE  Follow(s, p, c) = Append(Append(Front(s), Onward(p)),
                                  Place(c.arg, 1, p.around \cup p.branch \cup {c.arg}, {}))
  BY DEF Follow

LEMMA FollowCallCopy ==
  ASSUME NEW s, NEW p, NEW c, c.op = "callcopy"
  PROVE  Follow(s, p, c) = Append(Append(Front(s), Onward(p)), Place(None, c.arg, {}, {}))
  BY DEF Follow

LEMMA FollowOn ==
  ASSUME NEW s, NEW p, NEW c, c.op \notin {"end", "branch", "jump", "call", "callcopy"}
  PROVE  Follow(s, p, c) = Append(Front(s), Onward(p))
  BY DEF Follow

LEMMA PlaceShape ==
  \A p \in Places : /\ Onward(p) \in Places /\ Onward(p).list = p.list /\ Onward(p).pc = p.pc + 1
                    /\ p.list \in Lists \cup {None} /\ p.pc \in Nat
                    /\ p.around \cup p.branch \in SUBSET Args
  BY DEF Places, Onward

LEMMA PlaceIs ==
  ASSUME NEW l \in Lists \cup {None}, NEW pc \in Nat, NEW a \in SUBSET Args, NEW b \in SUBSET Args
  PROVE  LET p == Place(l, pc, a, b) IN p \in Places /\ p.list = l /\ p.pc = pc
  BY DEF Places, Place

LEMMA FrontLast ==
  ASSUME NEW S, NEW s \in Seq(S), s # <<>>
  PROVE  s = Append(Front(s), s[Len(s)])
<1> DEFINE t == Append(Front(s), s[Len(s)])
<1>1. /\ Len(s) \in Nat /\ Len(s) > 0 /\ s[Len(s)] \in S /\ Front(s) \in Seq(S)
      /\ Len(Front(s)) = Len(s) - 1
      /\ \A k \in 1 .. Len(s) - 1 : Front(s)[k] = s[k]
  BY FrontShape
<1>2. /\ t \in Seq(S) /\ Len(t) = Len(s)
      /\ \A k \in 1 .. Len(s) - 1 : t[k] = Front(s)[k]
      /\ t[Len(s)] = s[Len(s)]
  BY <1>1, AppendProperties
<1>3. \A k \in 1 .. Len(s) : t[k] = s[k]
  BY <1>1, <1>2
<1> QED BY <1>1, <1>2, <1>3, SeqEqual

\* A reader takes one command.
Machine(m, c) ==
  LET p == Here(m)
  IN [rdp |-> Obey(m.rdp, c, p.around \cup p.branch), stack |-> Follow(m.stack, p, c)]

LEMMA MachineShape ==
  ASSUME NEW m \in Machines, m.stack # <<>>, NEW c, Readable(c),
         c.op \in {"branch", "call"} => c.arg \in Lists,
         c.op \in {"jump", "callcopy"} => c.arg \in Nat
  PROVE  /\ Machine(m, c) \in Machines
         /\ Front(m.stack) \in Seq(Places) /\ Here(m) \in Places
         /\ m.stack = Append(Front(m.stack), Here(m))
<1> DEFINE p == Here(m)
           below == Front(m.stack)
           inside == p.around \cup p.branch
<1>1. /\ m.rdp \in Rdps /\ m.stack \in Seq(Places)
  BY DEF Machines
<1>2. below \in Seq(Places) /\ p \in Places
  BY <1>1, FrontShape DEF Here
<1>3. inside \in SUBSET Args /\ Onward(p) \in Places /\ p.around \in SUBSET Args
  BY <1>2, PlaceShape DEF Places
<1>4. Obey(m.rdp, c, inside) \in Rdps
  BY <1>1, <1>3, ObeyShape
<1>5. Follow(m.stack, p, c) \in Seq(Places)
  <2>1. \A x \in Places : Append(below, x) \in Seq(Places)
    BY <1>2, AppendProperties
  <2>2. \A x, y \in Places : Append(Append(below, x), y) \in Seq(Places)
    BY <2>1, AppendProperties
  <2>3. CASE c.op = "end"
    BY <1>2, <2>3, FollowEnd
  <2>4. CASE c.op = "branch"
    <3>1. Place(c.arg, 1, p.around, {c.arg}) \in Places
      BY <1>3, <2>4, PlaceIs DEF Readable
    <3>2. Follow(m.stack, p, c) = Append(below, Place(c.arg, 1, p.around, {c.arg}))
      BY <2>4, FollowBranch
    <3> QED BY <2>1, <3>1, <3>2
  <2>5. CASE c.op = "jump"
    <3>1. [p EXCEPT !.pc = c.arg] \in Places
      BY <1>2, <2>5 DEF Places
    <3>2. Follow(m.stack, p, c) = Append(below, [p EXCEPT !.pc = c.arg])
      BY <2>5, FollowJump
    <3> QED BY <2>1, <3>1, <3>2
  <2>6. CASE c.op = "call"
    <3>1. Place(c.arg, 1, inside \cup {c.arg}, {}) \in Places
      BY <1>3, <2>6, PlaceIs DEF Readable
    <3>2. Follow(m.stack, p, c)
            = Append(Append(below, Onward(p)), Place(c.arg, 1, inside \cup {c.arg}, {}))
      BY <2>6, FollowCall
    <3> QED BY <1>3, <2>2, <3>1, <3>2
  <2>7. CASE c.op = "callcopy"
    <3>1. Place(None, c.arg, {}, {}) \in Places
      BY <2>7, PlaceIs
    <3>2. Follow(m.stack, p, c) = Append(Append(below, Onward(p)), Place(None, c.arg, {}, {}))
      BY <2>7, FollowCallCopy
    <3> QED BY <1>3, <2>2, <3>1, <3>2
  <2>8. CASE c.op \notin {"end", "branch", "jump", "call", "callcopy"}
    <3>1. Follow(m.stack, p, c) = Append(below, Onward(p))
      BY <2>8, FollowOn
    <3> QED BY <1>3, <2>1, <3>1
  <2> QED BY <2>3, <2>4, <2>5, <2>6, <2>7, <2>8
<1> QED BY <1>1, <1>2, <1>4, <1>5, FrontLast DEF Machine, Machines, Here

LEMMA MachineParts ==
  ASSUME NEW m, NEW c
  PROVE  /\ Machine(m, c).rdp = Obey(m.rdp, c, Here(m).around \cup Here(m).branch)
         /\ Machine(m, c).stack = Follow(m.stack, Here(m), c)
  BY DEF Machine

\* Both have drawn the same.
LEMMA MachineShown ==
  ASSUME NEW g \in Machines, NEW r \in Machines, g.stack # <<>>, r.stack # <<>>,
         SameShown(g.rdp.shown, r.rdp.shown),
         NEW c, NEW d, Readable(c), Readable(d),
         c.op \in Drawn <=> d.op \in Drawn,
         c.op \in Drawn => c.op = d.op /\ c.arg = d.arg
  PROVE  SameShown(Machine(g, d).rdp.shown, Machine(r, c).rdp.shown)
<1> DEFINE a == Here(g).around \cup Here(g).branch
           b == Here(r).around \cup Here(r).branch
           x == Shown(g.rdp, d, a)
           y == Shown(r.rdp, c, b)
<1>1. /\ g.rdp \in Rdps /\ g.stack \in Seq(Places) /\ Here(g) \in Places
      /\ r.rdp \in Rdps /\ r.stack \in Seq(Places) /\ Here(r) \in Places
  BY FrontShape DEF Machines, Here
<1>2. a \in SUBSET Args /\ b \in SUBSET Args
  BY <1>1, PlaceShape
<1>3. /\ g.rdp.shown \in Seq(Shots) /\ r.rdp.shown \in Seq(Shots)
      /\ x \in Shots /\ x.op = d.op /\ x.arg = d.arg
      /\ y \in Shots /\ y.op = c.op /\ y.arg = c.arg
  BY <1>1, <1>2, ShownShape DEF Rdps
<1>4. Machine(g, d).rdp.shown = IF d.op \in Drawn THEN Append(g.rdp.shown, x) ELSE g.rdp.shown
  <2>1. Machine(g, d).rdp = Obey(g.rdp, d, a)
    BY MachineParts
  <2> HIDE DEF a
  <2> QED BY <1>1, <1>2, <2>1, ObeyShape
<1>5. Machine(r, c).rdp.shown = IF c.op \in Drawn THEN Append(r.rdp.shown, y) ELSE r.rdp.shown
  <2>1. Machine(r, c).rdp = Obey(r.rdp, c, b)
    BY MachineParts
  <2> HIDE DEF b
  <2> QED BY <1>1, <1>2, <2>1, ObeyShape
<1> HIDE DEF x, y
<1> QED BY <1>3, <1>4, <1>5, ShownLevel

\* What the reader of the copy reads, and the game's reader with it.
Taken(ls, v, p) == IF p.list = None THEN v.out[p.pc] ELSE Given(ls, p)

LEMMA TogetherStep ==
  ASSUME NEW ls \in [Lists -> Seq(Commands)], \A l \in Lists : Ends(ls[l]),
         NEW v \in Writers, \A i \in 1 .. Len(v.out) : Whole(ls, v, i),
         NEW g \in Machines, NEW r \in Machines, Abreast(ls, v, g, r), r.stack # <<>>
  PROVE  LET c == Taken(ls, v, Here(r))
             r2 == Machine(r, c)
             g2 == IF c.own THEN Machine(g, Given(ls, Here(g))) ELSE g
         IN /\ g.stack # <<>> /\ Here(g).list # None /\ (Here(r).list = None => Here(r).pc <= Len(v.out))
            /\ c.own \in BOOLEAN
            /\ r2 \in Machines /\ g2 \in Machines /\ Abreast(ls, v, g2, r2)
<1> DEFINE G == g.stack
           R == r.stack
           q == Here(g)
           p == Here(r)
           c == Taken(ls, v, p)
           d == Given(ls, q)
           s == [list |-> q.list, pc |-> q.pc]
           r2 == Machine(r, c)
           on == r.rdp.extended
<1>1. /\ G \in Seq(Places) /\ R \in Seq(Places) /\ g.rdp \in Rdps /\ r.rdp \in Rdps
      /\ Level(ls, v, G, R, on) /\ r.rdp.sound /\ SameShown(g.rdp.shown, r.rdp.shown)
  BY DEF Machines, Abreast, Level
<1>2. Len(R) \in Nat /\ Len(R) > 0 /\ Len(G) = Len(R) /\ G # <<>> /\ R # <<>>
  BY <1>1, EmptySeq, LenProperties DEF Level
<1>3. Beside(ls, v, q, p) /\ (on \/ Enables(v, p)) /\ on \in BOOLEAN
  <2>1. on \in BOOLEAN
    BY <1>1 DEF Rdps
  <2>2. q = G[Len(R)] /\ p = R[Len(R)] /\ Len(R) \in 1 .. Len(R)
    BY <1>2 DEF Here
  <2> HIDE DEF p, q, on, G, R
  <2> QED BY <1>1, <2>1, <2>2 DEF Level
<1>4. /\ Front(G) \in Seq(Places) /\ Front(R) \in Seq(Places) /\ p \in Places /\ q \in Places
      /\ G = Append(Front(G), q) /\ R = Append(Front(R), p)
  BY <1>1, <1>2, FrontShape, FrontLast DEF Here
<1>5. Level(ls, v, Front(G), Front(R), FALSE)
  BY <1>1, PopLevel
<1>6. d = Given(ls, s) /\ s = [list |-> s.list, pc |-> s.pc] /\ q.list = s.list /\ q.pc = s.pc
  BY DEF Given
<1>7. /\ Onward(p) \in Places /\ Onward(p).list = p.list /\ Onward(p).pc = p.pc + 1
      /\ Onward(q) \in Places /\ Onward(q).list = After(s).list /\ Onward(q).pc = After(s).pc
      /\ After(s) = [list |-> After(s).list, pc |-> After(s).pc]
      /\ p.around \cup p.branch \in SUBSET Args /\ q.around \cup q.branch \in SUBSET Args
  BY <1>4, PlaceShape DEF After
<1> DEFINE Fine(g2) == /\ r2 \in Machines /\ g2 \in Machines
                       /\ Level(ls, v, g2.stack, r2.stack, r2.rdp.extended)
                       /\ r2.rdp.sound /\ SameShown(g2.rdp.shown, r2.rdp.shown)
<1>8. ASSUME Readable(c), Extended(c) => on
      PROVE  /\ r2.rdp.sound /\ r2.stack = Follow(R, p, c)
             /\ r2.rdp.extended = (c.op = "enable" \/ (on /\ c.op # "end"))
             /\ c.op \notin Drawn => r2.rdp.shown = r.rdp.shown
  <2>1. r2.rdp = Obey(r.rdp, c, p.around \cup p.branch) /\ r2.stack = Follow(R, p, c)
    BY MachineParts
  <2> DEFINE inside == p.around \cup p.branch
             u == Obey(r.rdp, c, inside)
  <2>2. inside \in SUBSET Args
    BY <1>7
  <2> HIDE DEF p, c, r2, inside
  <2>3. /\ u.sound = (r.rdp.sound /\ (Extended(c) => r.rdp.extended))
        /\ u.extended = (c.op = "enable" \/ (r.rdp.extended /\ c.op # "end"))
        /\ c.op \notin Drawn => u.shown = r.rdp.shown
    BY <1>1, <1>8, <2>2, ObeyShape
  <2>4. r2.rdp = u
    BY <2>1 DEF inside
  <2> HIDE DEF u
  <2>5. r2.rdp.sound
    BY <1>1, <1>8, <2>3, <2>4
  <2> QED BY <2>1, <2>3, <2>4, <2>5
<1>9. SUFFICES /\ s.list \in Lists /\ (p.list = None => p.pc <= Len(v.out))
               /\ c.own \in BOOLEAN
               /\ Fine(IF c.own THEN Machine(g, d) ELSE g)
  <2>1. s.list # None
    BY <1>9, HudRewriteAssumption
  <2> QED BY <1>2, <1>9, <2>1 DEF Fine, Level, Abreast
<1> HIDE DEF G, R, p, q, c, d, s, r2, on
<1>10. CASE p.list = None
  <2>1. p.pc \in 1 .. Len(v.out) /\ c = v.out[p.pc] /\ c.spot = s
    BY <1>3, <1>10 DEF Beside, Taken, c, s
  <2>2. Whole(ls, v, p.pc)
    BY <2>1
  <2>3. c \in Copies /\ InList(ls, s) /\ d \in Commands
    BY <1>6, <2>1, <2>2, GivenShape DEF Whole
  <2>4. /\ Readable(c) /\ Readable(d) /\ c.own \in BOOLEAN
        /\ d.op \in {"call", "branch"} => d.arg \in Lists
        /\ d.op \in Kept \cup Drawn \cup {"call", "branch", "end"}
    BY <2>3, CommandShape DEF Copies, Readable, Orders
  <2>5. on \/ c.op = "enable"
    BY <1>3, <1>10, <2>1 DEF Enables
  <2>6. Extended(c) => on
    BY <2>5 DEF Extended
  <2>7. /\ r2.rdp.sound /\ r2.stack = Follow(R, p, c)
        /\ c.op # "end" => r2.rdp.extended
        /\ c.op \notin Drawn => r2.rdp.shown = r.rdp.shown
    BY <1>3, <1>8, <2>4, <2>5, <2>6
  <2>8. \A t : \A m \in Places, n \in Places :
           /\ n.list = None /\ n.pc \in 1 .. Len(v.out) /\ v.out[n.pc].spot = t
           /\ m.list = t.list /\ m.pc = t.pc /\ t = [list |-> t.list, pc |-> t.pc]
           => Beside(ls, v, m, n)
    BY DEF Beside
  <2>9. ASSUME NEW m \in Places, NEW n \in Places, Beside(ls, v, m, n), c.op # "end"
        PROVE  Level(ls, v, Append(Front(G), m), Append(Front(R), n), r2.rdp.extended)
    BY <1>4, <1>5, <2>7, <2>9, PutLevel
  <2>10. ASSUME Then(v, p.pc, After(s)), v.out[p.pc + 1].op = "enable", c.op # "end",
                NEW m \in Places, NEW n \in Places, Beside(ls, v, m, n)
         PROVE  Level(ls, v, Append(Append(Front(G), Onward(q)), m),
                             Append(Append(Front(R), Onward(p)), n), r2.rdp.extended)
    <3>1. Beside(ls, v, Onward(q), Onward(p)) /\ Enables(v, Onward(p))
      BY <1>7, <1>10, <2>1, <2>8, <2>10 DEF Then, Enables
    <3>2. Level(ls, v, Append(Front(G), Onward(q)), Append(Front(R), Onward(p)), FALSE)
      BY <1>4, <1>5, <1>7, <3>1, PutLevel
    <3>3. /\ Append(Front(G), Onward(q)) \in Seq(Places)
          /\ Append(Front(R), Onward(p)) \in Seq(Places)
      BY <1>4, <1>7, AppendProperties
    <3> QED BY <2>7, <2>10, <3>2, <3>3, PutLevel
  <2>11. r2 \in Machines
    <3>1. c.op = "jump" => c.arg \in Nat
      BY <2>1, <2>2 DEF Whole, Added, Kept, Drawn
    <3>2. c.op = "callcopy" => c.arg \in Nat
      <4>1. c.op = "callcopy" => Entrance(v, c.arg, d.arg)
        BY <1>6, <2>1, <2>2 DEF Whole, Added, Kept, Drawn
      <4> QED BY <4>1 DEF Entrance
    <3>3. c.op \in {"branch", "call"} => c.arg = d.arg /\ d.op = "call"
      BY <1>6, <2>1, <2>2 DEF Whole, Added, Kept, Drawn
    <3> QED BY <1>2, <2>4, <3>1, <3>2, <3>3, MachineShape DEF r2, R
  <2>12. /\ Machine(g, d) \in Machines /\ Machine(g, d).stack = Follow(G, q, d)
    <3>1. d.op \notin {"jump", "callcopy"}
      BY <2>4 DEF Kept, Drawn
    <3>2. Machine(g, d) \in Machines
      BY <1>2, <2>4, <3>1, MachineShape DEF G
    <3> QED BY <3>2, MachineParts DEF G, q
  <2>13. ASSUME ~c.own, c.op \notin {"end"} \cup Drawn,
                Level(ls, v, G, r2.stack, r2.rdp.extended)
         PROVE  Fine(IF c.own THEN Machine(g, d) ELSE g)
    BY <1>1, <2>7, <2>11, <2>13 DEF G
  <2>14. ASSUME c.own, c.op \in Drawn \/ d.op \in Drawn => c.op = d.op /\ c.arg = d.arg,
                Level(ls, v, Follow(G, q, d), Follow(R, p, c), r2.rdp.extended)
         PROVE  Fine(IF c.own THEN Machine(g, d) ELSE g)
    <3>1. SameShown(Machine(g, d).rdp.shown, r2.rdp.shown)
      BY <1>1, <1>2, <2>4, <2>14, MachineShown DEF r2, G, R
    <3> QED BY <2>7, <2>11, <2>12, <2>14, <3>1
  <2> SUFFICES Fine(IF c.own THEN Machine(g, d) ELSE g)
    BY <2>1, <2>3, <2>4 DEF InList
  <2>15. /\ d.op = "branch" => Follow(G, q, d) = Append(Front(G), Place(d.arg, 1, q.around, {d.arg}))
         /\ d.op = "call" =>
              Follow(G, q, d) = Append(Append(Front(G), Onward(q)),
                                       Place(d.arg, 1, q.around \cup q.branch \cup {d.arg}, {}))
    <3>1. d.op = "branch" => Follow(G, q, d) = Append(Front(G), Place(d.arg, 1, q.around, {d.arg}))
      BY FollowBranch
    <3>2. d.op = "call" =>
            Follow(G, q, d) = Append(Append(Front(G), Onward(q)),
                                     Place(d.arg, 1, q.around \cup q.branch \cup {d.arg}, {}))
      BY FollowCall
    <3> QED BY <3>1, <3>2
  <2>16. CASE ~c.own /\ c.op \in Added /\ Then(v, p.pc, s)
    <3>1. c.op \notin {"end", "branch", "jump", "call", "callcopy"} \cup Drawn
      BY <2>16 DEF Added, Kept, Drawn
    <3>2. Beside(ls, v, q, Onward(p))
      <4>1. /\ Onward(p).list = None /\ Onward(p).pc \in 1 .. Len(v.out)
            /\ v.out[Onward(p).pc].spot = [list |-> q.list, pc |-> q.pc]
        BY <1>6, <1>7, <1>10, <2>16 DEF Then
      <4> QED BY <4>1 DEF Beside
    <3>3. Follow(R, p, c) = Append(Front(R), Onward(p))
      BY <3>1, FollowOn
    <3> QED BY <1>4, <1>7, <2>7, <2>9, <2>13, <2>16, <3>1, <3>2, <3>3
  <2>17. CASE ~c.own /\ c.op = "jump" /\ c.arg \in 1 .. Len(v.out) /\ v.out[c.arg].spot = s
    <3> DEFINE n == [p EXCEPT !.pc = c.arg]
    <3>1. n \in Places /\ n.list = None /\ n.pc = c.arg
      <4>1. c.arg \in Nat
        BY <2>17, LenProperties DEF Writers
      <4> QED BY <1>4, <1>10, <4>1 DEF Places
    <3>2. Follow(R, p, c) = Append(Front(R), n)
      BY <2>17, FollowJump
    <3> HIDE DEF n
    <3>3. Beside(ls, v, q, n)
      BY <1>4, <1>6, <2>8, <2>17, <3>1
    <3> QED BY <1>4, <2>7, <2>9, <2>13, <2>17, <3>1, <3>2, <3>3 DEF Drawn
  <2>18. CASE /\ c.own /\ c.op \in Kept \cup Drawn /\ Then(v, p.pc, After(s))
              /\ d.op = c.op /\ d.arg = c.arg
    <3>1. c.op \notin {"end", "branch", "jump", "call", "callcopy"}
      BY <2>18 DEF Kept, Drawn
    <3>2. Beside(ls, v, Onward(q), Onward(p))
      <4>1. /\ Onward(p).list = None /\ Onward(p).pc \in 1 .. Len(v.out)
            /\ v.out[Onward(p).pc].spot = After(s)
        BY <1>7, <1>10, <2>18 DEF Then
      <4> QED BY <1>4, <1>7, <2>8, <4>1
    <3>3. /\ Follow(R, p, c) = Append(Front(R), Onward(p))
          /\ Follow(G, q, d) = Append(Front(G), Onward(q))
      <4>1. Follow(R, p, c) = Append(Front(R), Onward(p))
        BY <3>1, FollowOn
      <4>2. d.op \notin {"end", "branch", "jump", "call", "callcopy"}
        BY <2>18, <3>1
      <4>3. Follow(G, q, d) = Append(Front(G), Onward(q))
        BY <4>2, FollowOn
      <4> QED BY <4>1, <4>3
    <3> QED BY <1>7, <2>9, <2>14, <2>18, <3>1, <3>2, <3>3
  <2>19. CASE c.own /\ c.op = "inlined" /\ Then(v, p.pc, Start(d.arg)) /\ d.op = "branch"
    <3> DEFINE m == Place(d.arg, 1, q.around, {d.arg})
    <3>1. m \in Places /\ m.list = d.arg /\ m.pc = 1
      <4>1. q.around \in SUBSET Args /\ {d.arg} \in SUBSET Args
        BY <1>4, <2>4 DEF Readable, Places
      <4>2. d.arg \in Lists
        BY <2>4, <2>19
      <4> QED BY <4>1, <4>2 DEF Place, Places
    <3>2. Follow(R, p, c) = Append(Front(R), Onward(p))
      BY <2>19, FollowOn
    <3>3. Follow(G, q, d) = Append(Front(G), m)
      BY <2>19, <2>15
    <3> HIDE DEF m
    <3>4. Beside(ls, v, m, Onward(p))
      <4>1. /\ Onward(p).list = None /\ Onward(p).pc \in 1 .. Len(v.out)
            /\ v.out[Onward(p).pc].spot = [list |-> d.arg, pc |-> 1]
        BY <1>7, <1>10, <2>19 DEF Then, Start
      <4> QED BY <3>1, <4>1 DEF Beside
    <3> QED BY <1>7, <2>9, <2>14, <2>19, <3>1, <3>2, <3>3, <3>4 DEF Drawn
  <2>20. CASE c.own /\ c.op = "end" /\ d.op = "end"
    <3>1. Follow(R, p, c) = Front(R) /\ Follow(G, q, d) = Front(G)
      <4>1. Follow(R, p, c) = Front(R)
        BY <2>20, FollowEnd
      <4>2. Follow(G, q, d) = Front(G)
        BY <2>20, FollowEnd
      <4> QED BY <4>1, <4>2
    <3>2. r2.rdp.extended = FALSE
      BY <1>8, <2>4, <2>6, <2>20
    <3> QED BY <1>5, <2>14, <2>20, <3>1, <3>2 DEF Drawn
  <2>21. CASE /\ c.own /\ c.op = "call" /\ Then(v, p.pc, After(s))
              /\ v.out[p.pc + 1].op = "enable" /\ d.op = "call" /\ d.arg = c.arg
    <3> DEFINE m == Place(d.arg, 1, q.around \cup q.branch \cup {d.arg}, {})
               n == Place(c.arg, 1, p.around \cup p.branch \cup {c.arg}, {})
    <3>1. /\ m \in Places /\ m.list = d.arg /\ m.pc = 1
          /\ n \in Places /\ n.list = d.arg /\ n.pc = 1
      <4>1. /\ q.around \cup q.branch \cup {d.arg} \in SUBSET Args
            /\ p.around \cup p.branch \cup {c.arg} \in SUBSET Args
        BY <1>7, <2>4 DEF Readable
      <4>2. d.arg \in Lists /\ c.arg = d.arg
        BY <2>4, <2>21
      <4>3. m \in Places /\ m.list = d.arg /\ m.pc = 1
        BY <4>1, <4>2 DEF Place, Places
      <4>4. p.around \cup p.branch \cup {c.arg} \in SUBSET Args /\ c.arg \in Lists
        BY <4>1, <4>2
      <4>5. n \in Places /\ n.list = c.arg /\ n.pc = 1
        <5> DEFINE b == p.around \cup p.branch \cup {c.arg}
        <5>1. b \in SUBSET Args /\ c.arg \in Lists
          BY <4>4
        <5> HIDE DEF b
        <5>2. LET e == Place(c.arg, 1, b, {}) IN e \in Places /\ e.list = c.arg /\ e.pc = 1
          BY <5>1 DEF Place, Places
        <5> QED BY <5>2 DEF b
      <4> QED BY <4>2, <4>3, <4>5
    <3>2. /\ Follow(R, p, c) = Append(Append(Front(R), Onward(p)), n)
          /\ Follow(G, q, d) = Append(Append(Front(G), Onward(q)), m)
      <4>1. Follow(R, p, c) = Append(Append(Front(R), Onward(p)), n)
        <5>1. c.op = "call"
          BY <2>21
        <5> QED BY <5>1, FollowCall
      <4>2. Follow(G, q, d) = Append(Append(Front(G), Onward(q)), m)
        BY <2>21, <2>15
      <4> QED BY <4>1, <4>2
    <3> HIDE DEF m, n
    <3>3. Beside(ls, v, m, n)
      <4>1. InList(ls, Start(d.arg)) /\ d.arg # None
        BY <2>4, <2>21, StartInList, HudRewriteAssumption
      <4> QED BY <3>1, <4>1 DEF Beside, Start
    <3> QED BY <2>10, <2>14, <2>21, <3>1, <3>2, <3>3 DEF Drawn
  <2>22. CASE /\ c.own /\ c.op = "callcopy" /\ Then(v, p.pc, After(s))
              /\ v.out[p.pc + 1].op = "enable" /\ d.op = "call" /\ Entrance(v, c.arg, d.arg)
    <3> DEFINE m == Place(d.arg, 1, q.around \cup q.branch \cup {d.arg}, {})
               n == Place(None, c.arg, {}, {})
    <3>1. /\ m \in Places /\ m.list = d.arg /\ m.pc = 1
          /\ n \in Places /\ n.list = None /\ n.pc = c.arg
      <4>1. q.around \cup q.branch \cup {d.arg} \in SUBSET Args
        BY <1>7, <2>4 DEF Readable
      <4>2. c.arg \in Nat
        BY <2>22, LenProperties DEF Entrance, Writers
      <4>3. m \in Places /\ m.list = d.arg /\ m.pc = 1
        BY <2>4, <2>22, <4>1, PlaceIs
      <4>4. n \in Places /\ n.list = None /\ n.pc = c.arg
        BY <4>2 DEF n, Place, Places
      <4> QED BY <4>3, <4>4
    <3>2. /\ Follow(R, p, c) = Append(Append(Front(R), Onward(p)), n)
          /\ Follow(G, q, d) = Append(Append(Front(G), Onward(q)), m)
      <4>1. Follow(R, p, c) = Append(Append(Front(R), Onward(p)), n)
        <5>1. c.op = "callcopy"
          BY <2>22
        <5> QED BY <5>1, FollowCallCopy
      <4>2. Follow(G, q, d) = Append(Append(Front(G), Onward(q)), m)
        BY <2>22, <2>15
      <4> QED BY <4>1, <4>2
    <3> HIDE DEF m, n
    <3>3. Beside(ls, v, m, n)
      BY <2>22, <3>1 DEF Beside, Entrance, Start
    <3> QED BY <2>10, <2>14, <2>22, <3>1, <3>2, <3>3 DEF Drawn
  <2> QED BY <1>6, <2>1, <2>2, <2>16, <2>17, <2>18, <2>19, <2>20, <2>21, <2>22 DEF Whole
<1>11. CASE p.list # None
  <2>1. /\ p.list = s.list /\ p.pc = s.pc /\ InList(ls, s)
    BY <1>3, <1>6, <1>11 DEF Beside, s
  <2>2. c = d /\ d \in Commands
    BY <1>6, <1>11, <2>1, GivenShape DEF Taken, Given, c
  <2>3. /\ Readable(d) /\ c.own /\ d.own
        /\ d.op \in {"call", "branch"} => d.arg \in Lists /\ InList(ls, Start(d.arg))
        /\ d.op \in Kept \cup Drawn \cup {"call", "branch", "end"}
    BY <2>2, CommandShape, StartInList DEF Readable, Orders
  <2>4. ~Extended(d) /\ d.op \notin {"jump", "callcopy"}
    BY <2>3 DEF Extended, Kept, Drawn
  <2>5. /\ r2.rdp.sound /\ r2.stack = Follow(R, p, d)
    BY <1>8, <2>2, <2>3, <2>4
  <2>6. r2 \in Machines /\ Machine(g, d) \in Machines /\ Machine(g, d).stack = Follow(G, q, d)
    <3>1. r2 \in Machines
      BY <1>2, <2>2, <2>3, <2>4, MachineShape DEF r2, R
    <3>2. Machine(g, d) \in Machines
      BY <1>2, <2>3, <2>4, MachineShape DEF G
    <3> QED BY <3>1, <3>2, MachineParts DEF G, q
  <2>7. SameShown(Machine(g, d).rdp.shown, r2.rdp.shown)
    BY <1>1, <1>2, <2>2, <2>3, MachineShown DEF r2, G, R
  <2>8. ASSUME Level(ls, v, Follow(G, q, d), Follow(R, p, d), r2.rdp.extended)
        PROVE  Fine(Machine(g, d))
    BY <2>5, <2>6, <2>7, <2>8
  <2> SUFFICES Level(ls, v, Follow(G, q, d), Follow(R, p, d), r2.rdp.extended)
    BY <1>11, <2>1, <2>2, <2>3, <2>8 DEF InList
  <2>9. ASSUME NEW m \in Places, NEW n \in Places, n.list = m.list, n.pc = m.pc,
               InList(ls, [list |-> m.list, pc |-> m.pc])
        PROVE  Beside(ls, v, m, n) /\ Enables(v, n)
    <3>1. n.list # None
      BY <2>9, HudRewriteAssumption DEF InList
    <3> QED BY <2>9, <3>1 DEF Beside, Enables
  <2>10. ASSUME NEW m \in Places, NEW n \in Places, n.list = m.list, n.pc = m.pc,
                InList(ls, [list |-> m.list, pc |-> m.pc])
         PROVE  /\ Level(ls, v, Append(Front(G), m), Append(Front(R), n), r2.rdp.extended)
                /\ Level(ls, v, Append(Front(G), m), Append(Front(R), n), FALSE)
    BY <1>4, <1>5, <2>9, <2>10, PutLevel
  <2>11. Onward(p).list = After(s).list /\ Onward(p).pc = After(s).pc
    BY <1>7, <2>1 DEF After
  <2>12. /\ G \in Seq(Places) /\ G # <<>> /\ R \in Seq(Places) /\ R # <<>>
         /\ q \in Places /\ p \in Places /\ Readable(d)
    BY <1>1, <1>2, <1>4, <2>3
  <2>13. CASE d.op = "end"
    <3>1. Follow(G, q, d) = Front(G)
      BY <2>13, FollowEnd
    <3>2. Follow(R, p, d) = Front(R)
      BY <2>13, FollowEnd
    <3> QED BY <1>5, <3>1, <3>2 DEF Level
  <2>14. CASE d.op = "branch"
    <3> DEFINE m == Place(d.arg, 1, q.around, {d.arg})
               n == Place(d.arg, 1, p.around, {d.arg})
    <3>1. {d.arg} \in SUBSET Args /\ q.around \in SUBSET Args /\ p.around \in SUBSET Args
      BY <1>4, <2>3 DEF Readable, Places
    <3>2. d.arg \in Lists \cup {None} /\ 1 \in Nat
      BY <2>3, <2>14
    <3>3. /\ m \in Places /\ m.list = d.arg /\ m.pc = 1
          /\ n \in Places /\ n.list = d.arg /\ n.pc = 1
      <4>1. m \in Places /\ m.list = d.arg /\ m.pc = 1
        BY <3>1, <3>2 DEF Place, Places
      <4>2. n \in Places /\ n.list = d.arg /\ n.pc = 1
        BY <3>1, <3>2 DEF Place, Places
      <4> QED BY <4>1, <4>2
    <3>4. Follow(G, q, d) = Append(Front(G), m)
      BY <2>14, FollowBranch
    <3>5. Follow(R, p, d) = Append(Front(R), n)
      BY <2>14, FollowBranch
    <3> HIDE DEF m, n
    <3> QED BY <2>3, <2>10, <2>14, <3>3, <3>4, <3>5 DEF Start
  <2>15. CASE d.op = "call"
    <3> DEFINE a == q.around \cup q.branch \cup {d.arg}
               b == p.around \cup p.branch \cup {d.arg}
               m == Place(d.arg, 1, a, {})
               n == Place(d.arg, 1, b, {})
    <3>1. {} \in SUBSET Args /\ a \in SUBSET Args /\ b \in SUBSET Args
      BY <1>7, <2>3 DEF Readable
    <3>2. Follow(G, q, d) = Append(Append(Front(G), Onward(q)), m)
      BY <2>15, FollowCall
    <3>3. Follow(R, p, d) = Append(Append(Front(R), Onward(p)), n)
      BY <2>15, FollowCall
    <3> HIDE DEF a, b
    <3> d.arg \in Lists
      BY <2>3, <2>15
    <3>4. m \in Places /\ m.list = d.arg /\ m.pc = 1
      BY <3>1 DEF Place, Places
    <3>5. n \in Places /\ n.list = d.arg /\ n.pc = 1
      BY <3>1 DEF Place, Places
    <3> HIDE DEF m, n
    <3>6. InList(ls, After(s))
      BY <1>6, <2>1, <2>15, AfterInList
    <3>7. Level(ls, v, Append(Front(G), Onward(q)), Append(Front(R), Onward(p)), FALSE)
      BY <1>7, <2>10, <2>11, <3>6
    <3>8. Append(Front(G), Onward(q)) \in Seq(Places) /\ Append(Front(R), Onward(p)) \in Seq(Places)
      BY <1>4, <1>7, AppendProperties
    <3>9. Beside(ls, v, m, n) /\ Enables(v, n)
      BY <2>3, <2>9, <2>15, <3>4, <3>5 DEF Start
    <3> QED BY <3>2, <3>3, <3>4, <3>5, <3>7, <3>8, <3>9, PutLevel
  <2>16. CASE d.op \in Kept \cup Drawn
    <3>1. d.op \notin {"end", "branch", "jump", "call", "callcopy"}
      BY <2>16 DEF Kept, Drawn
    <3>2. Follow(G, q, d) = Append(Front(G), Onward(q))
      BY <3>1, FollowOn
    <3>3. Follow(R, p, d) = Append(Front(R), Onward(p))
      BY <3>1, FollowOn
    <3>4. InList(ls, After(s))
      BY <1>6, <2>1, <3>1, AfterInList
    <3> QED BY <1>7, <2>10, <2>11, <3>2, <3>3, <3>4
  <2> QED BY <2>3, <2>13, <2>14, <2>15, <2>16
<1> QED BY <1>10, <1>11

-----------------------------------------------------------------------------
\* The steps of the specification.
LEMMA NewWriterShape ==
  NewWriter \in Writers /\ At(NewWriter) = Start(Main) /\ NewWriter.out = <<>>
  BY HudRewriteAssumption DEF NewWriter, Writers, Unknown, Classes, At, Start

LEMMA StartedShape ==
  ASSUME NEW l \in Lists \cup {None}
  PROVE  LET m == Started(l)
         IN /\ m \in Machines /\ m.stack \in Seq(Places) /\ Len(m.stack) = 1
            /\ m.stack[1].list = l /\ m.stack[1].pc = 1
            /\ m.rdp.sound /\ ~m.rdp.extended /\ m.rdp.shown = <<>>
<1>1. Reset \in Rdps /\ Reset.sound /\ ~Reset.extended /\ Reset.shown = <<>>
  BY DEF Reset, Rdps, Vals, Args, Classes
<1>2. Place(l, 1, {}, {}) \in Places /\ Place(l, 1, {}, {}).list = l /\ Place(l, 1, {}, {}).pc = 1
  BY DEF Place, Places
<1> QED BY <1>1, <1>2 DEF Started, Machines

LEMMA SendDlGood ==
  ASSUME NEW ls \in [Lists -> Seq(Commands)], \A l \in Lists : Ends(ls[l])
  PROVE  LET u == Emit(NewWriter, Enable) IN u \in Writers /\ Good(ls, u, <<>>)
<1> DEFINE v == NewWriter
           u == Emit(v, Enable)
           e == Copied(v, Enable)
<1>1. v \in Writers /\ At(v) = Start(Main) /\ v.out = <<>>
  BY NewWriterShape
<1>2. /\ u \in Writers /\ u.list = v.list /\ u.pc = v.pc
      /\ ~u.overflow => u.out = Append(v.out, e)
  BY <1>1, EnableShape, EmitShape
<1>3. e \in Copies /\ e.op = "enable" /\ ~e.own /\ e.spot = At(v)
  BY <1>1, CopiedShape, EnableShape
<1>4. InList(ls, Start(Main))
  BY StartInList, HudRewriteAssumption
<1> HIDE DEF v, e, u
<1>5. SUFFICES ASSUME ~u.overflow PROVE Good(ls, u, <<>>)
  BY <1>2 DEF Good, u, v
<1>6. At(u) = At(v) /\ u.out = Append(v.out, e)
  BY <1>2, <1>5 DEF At
<1>7. Chain(ls, v, {})
  BY <1>1 DEF Chain
<1>8. Follows(ls, v, e, At(u))
  BY <1>3, <1>6 DEF Follows, IsAdded, Added
<1>9. Chain(ls, u, {})
  <2> PICK P : P = {}
    OBVIOUS
  <2>1. InList(ls, At(v)) /\ (v.out # <<>> /\ v.out[Len(v.out)].op \in {"call", "callcopy"} => e.op = "enable")
    BY <1>1, <1>4
  <2>2. Chain(ls, v, P) /\ P \subseteq P
    BY <1>7
  <2>3. Chain(ls, u, P)
    BY <1>1, <1>2, <1>3, <1>6, <1>8, <2>1, <2>2, Grow
  <2> QED BY <2>3
<1>10. u.out = <<e>> /\ Len(u.out) = 1 /\ u.out[1] = e
  BY <1>1, <1>6
<1>11. Settled(u)
  BY <1>1, <1>3, <1>10 DEF Settled, Entrance
<1>12. u.list # None /\ InList(ls, At(u)) /\ Pending(<<>>) = {}
  BY <1>1, <1>4, <1>6, HudRewriteAssumption DEF At, Start, Pending
<1>13. DOMAIN <<>> = {}
  OBVIOUS
<1> QED BY <1>9, <1>11, <1>12, <1>13 DEF Good

LEMMA SubmitAbreast ==
  ASSUME NEW ls, NEW v, Settled(v)
  PROVE  Abreast(ls, v, Started(Main), Started(None))
<1> DEFINE g == Started(Main)
           r == Started(None)
<1>1. /\ Len(g.stack) = 1 /\ g.stack[1].list = Main /\ g.stack[1].pc = 1 /\ g.rdp.shown = <<>>
  BY StartedShape, HudRewriteAssumption
<1>2. /\ Len(r.stack) = 1 /\ r.stack[1].list = None /\ r.stack[1].pc = 1
      /\ r.rdp.sound /\ r.rdp.shown = <<>>
  BY StartedShape
<1>3. Entrance(v, 1, Main)
  BY DEF Settled
<1> HIDE DEF g, r
<1>4. Beside(ls, v, g.stack[1], r.stack[1]) /\ Enables(v, r.stack[1])
  BY <1>1, <1>2, <1>3 DEF Entrance, Beside, Enables, Start
<1>5. SameShown(g.rdp.shown, r.rdp.shown)
  BY <1>1, <1>2 DEF SameShown
<1> QED BY <1>1, <1>2, <1>4, <1>5 DEF Abreast, g, r

LEMMA InitIInv == Init => IInv
<1> SUFFICES ASSUME Init PROVE IInv
  OBVIOUS
<1>1. lists \in [Lists -> Seq(Commands)] /\ (\A l \in Lists : Ends(lists[l]))
  BY HudRewriteAssumption DEF Init
<1>2. class \in [Elements -> Classes]
  BY HudRewriteAssumption DEF Init
<1>3. /\ writer \in Writers /\ game \in Machines /\ rt \in Machines
      /\ calls \in Seq(Callers) /\ Len(calls) <= MaxDepth
  BY NewWriterShape, StartedShape, HudRewriteAssumption DEF Init
<1> QED BY <1>1, <1>2, <1>3 DEF Init, IInv, TypeInv, CopyInv, ReadInv

LEMMA ReadIInv ==
  ASSUME IInv, Read
  PROVE  IInv'
<1> PICK ls, v, g, r : ls = lists /\ v = writer /\ g = game /\ r = rt
  OBVIOUS
<1> DEFINE p == Here(r)
           c == Taken(ls, v, p)
           r2 == Machine(r, c)
           g2 == IF c.own THEN Machine(g, Given(ls, Here(g))) ELSE g
<1>1. /\ ls \in [Lists -> Seq(Commands)] /\ (\A l \in Lists : Ends(ls[l]))
      /\ v \in Writers /\ g \in Machines /\ r \in Machines
  BY DEF IInv, TypeInv
<1>2. /\ Good(ls, v, calls) /\ ~v.overflow /\ v.list = None
      /\ Abreast(ls, v, g, r) /\ r.stack # <<>>
  BY DEF IInv, CopyInv, ReadInv, Read
<1>3. \A i \in 1 .. Len(v.out) : Whole(ls, v, i)
  BY <1>1, <1>2, Finished
<1>4. /\ g.stack # <<>> /\ Here(g).list # None /\ (p.list = None => p.pc <= Len(v.out))
      /\ c.own \in BOOLEAN /\ r2 \in Machines /\ g2 \in Machines /\ Abreast(ls, v, g2, r2)
  <2>1. Abreast(ls, v, g, r) /\ r.stack # <<>>
    BY <1>2
  <2> QED BY <1>1, <1>3, <2>1, TogetherStep
<1>5. p.list = None => ~(p.pc > Len(v.out))
  <2>1. p.pc \in Nat /\ Len(v.out) \in Nat
    <3>1. r.stack \in Seq(Places) /\ v.out \in Seq(Copies)
      BY <1>1 DEF Machines, Writers
    <3>2. p \in Places
      BY <1>2, <3>1, FrontShape DEF Here
    <3> QED BY <3>1, <3>2, LenProperties DEF Places
  <2> QED BY <1>4, <2>1
<1>6. Here(rt) = p /\ ~Lost(p) /\ Command(p) = c
  BY <1>5 DEF Lost, Command, Taken, Given
<1>7. ~Lost(Here(g)) /\ Command(Here(g)) = Given(ls, Here(g))
  BY <1>4 DEF Lost, Command, Given
<1>8. Reads(rt) = r2 /\ Reads(game) = Machine(g, Given(ls, Here(g)))
  BY <1>6, <1>7 DEF Reads, Machine
<1>9. rt' = r2 /\ game' = g2
  BY <1>4, <1>6, <1>8 DEF Read
<1>10. /\ UNCHANGED <<lists, class, writer, calls>> /\ status = "reading"
       /\ status' = IF rt'.stack = <<>> THEN "shown" ELSE "reading"
  BY DEF Read
<1> HIDE DEF r2, g2
<1>11. TypeInv'
  <2>1. AnyClasses' = AnyClasses
    BY <1>10 DEF AnyClasses
  <2> QED BY <1>4, <1>9, <1>10, <2>1 DEF IInv, TypeInv
<1>12. CopyInv'
  BY <1>2, <1>10 DEF CopyInv
<1>13. ReadInv'
  <2>1. Abreast(lists, writer, game, rt)'
    BY <1>4, <1>9, <1>10
  <2> QED BY <1>10, <2>1 DEF ReadInv
<1> QED BY <1>11, <1>12, <1>13 DEF IInv

\* The inductive invariant holds after every step.
LEMMA NextIInv == IInv /\ [Next]_vars => IInv'
<1> SUFFICES ASSUME IInv, [Next]_vars PROVE IInv'
  OBVIOUS
<1>1. CASE SendDl
  <2>1. /\ lists \in [Lists -> Seq(Commands)] /\ (\A l \in Lists : Ends(lists[l]))
        /\ status = "new" /\ calls = <<>> /\ writer = NewWriter
        /\ UNCHANGED <<lists, class, calls, game, rt>>
    BY <1>1 DEF SendDl, IInv, TypeInv, CopyInv
  <2>2. AnyClasses' = AnyClasses
    BY <2>1 DEF AnyClasses
  <2>3. CASE AnyClasses
    <3>1. status' = "copying" /\ writer' = Emit(NewWriter, Enable)
      BY <1>1, <2>3 DEF SendDl, Enable
    <3>2. writer' \in Writers /\ Good(lists', writer', calls')
      <4> PICK ls : ls = lists
        OBVIOUS
      <4> QED BY <2>1, <3>1, SendDlGood
    <3> QED BY <2>1, <2>2, <2>3, <3>1, <3>2 DEF IInv, TypeInv, CopyInv, ReadInv
  <2>4. CASE ~AnyClasses
    <3>1. status' = "plain" /\ writer' = writer
      BY <1>1, <2>4 DEF SendDl
    <3> QED BY <2>1, <2>2, <3>1 DEF IInv, TypeInv, CopyInv, ReadInv
  <2> QED BY <2>3, <2>4
<1>2. CASE Copy
  <2>1. /\ writer' \in Writers /\ calls' \in Seq(Callers) /\ Len(calls') <= MaxDepth
        /\ Good(lists, writer', calls')
    BY <1>2, CopyStep DEF IInv
  <2>2. status = "copying" /\ UNCHANGED <<lists, class, status, game, rt>>
    BY <1>2 DEF Copy
  <2>3. AnyClasses' = AnyClasses
    BY <2>2 DEF AnyClasses
  <2> QED BY <2>1, <2>2, <2>3 DEF IInv, TypeInv, CopyInv, ReadInv
<1>3. CASE Submit
  <2>1. /\ status = "copying" /\ (writer.overflow \/ writer.list = None)
        /\ status' = IF ~writer.overflow THEN "reading" ELSE "plain"
        /\ UNCHANGED <<lists, class, writer, calls, game, rt>>
    BY <1>3 DEF Submit, Accepted
  <2>2. AnyClasses' = AnyClasses
    BY <2>1 DEF AnyClasses
  <2>3. CASE writer.overflow
    BY <2>1, <2>2, <2>3 DEF IInv, TypeInv, CopyInv, ReadInv
  <2>4. CASE ~writer.overflow
    <3>1. /\ status' = "reading" /\ writer.list = None /\ Good(lists, writer, calls)
          /\ game = Started(Main) /\ rt = Started(None)
      BY <2>1, <2>4 DEF IInv, CopyInv, ReadInv
    <3>2. Settled(writer)
      BY <2>4, <3>1 DEF Good
    <3>3. Abreast(lists, writer, game, rt)
      <4> PICK ls, v : ls = lists /\ v = writer
        OBVIOUS
      <4> QED BY <3>1, <3>2, SubmitAbreast
    <3>4. rt.stack # <<>>
      BY <3>1, StartedShape
    <3> QED BY <2>1, <2>2, <2>4, <3>1, <3>3, <3>4 DEF IInv, TypeInv, CopyInv, ReadInv
  <2> QED BY <2>3, <2>4
<1>4. CASE Read
  BY <1>4, ReadIInv
<1>5. CASE NextFrame
  <2>1. /\ status' = "new" /\ writer' = NewWriter /\ calls' = <<>>
        /\ game' = Started(Main) /\ rt' = Started(None) /\ UNCHANGED <<lists, class>>
    BY <1>5 DEF NextFrame
  <2>2. /\ writer' \in Writers /\ game' \in Machines /\ rt' \in Machines
        /\ calls' \in Seq(Callers) /\ Len(calls') <= MaxDepth
    BY <2>1, NewWriterShape, StartedShape, HudRewriteAssumption
  <2> QED BY <2>1, <2>2 DEF IInv, TypeInv, CopyInv, ReadInv
<1>6. CASE UNCHANGED vars
  <2>1. AnyClasses' = AnyClasses
    BY <1>6 DEF AnyClasses, vars
  <2> QED BY <1>6, <2>1 DEF vars, IInv, TypeInv, CopyInv, ReadInv
<1> QED BY <1>1, <1>2, <1>3, <1>4, <1>5, <1>6 DEF Next

LEMMA SpecIInv == Spec => []IInv
<1> QED BY InitIInv, NextIInv, PTL DEF Spec

\* The writer never leaves its scratch buffer (reserve, hudrewrite.cpp:75-92),
\* and calls are never copied deeper than MaxDepth.
THEOREM TypeOKHolds == Spec => []TypeOK
<1>1. IInv => TypeOK
  BY DEF IInv, TypeInv, TypeOK, Writers
<1> QED BY <1>1, SpecIInv, PTL

\* Whatever the lists hold, the classes are and wherever the buffer ends, the
\* player sees every draw the game asked for, in its order, and RT64 is never
\* given an extended command while the extended GBI is off.
THEOREM SameDrawsHolds == Spec => []SameDraws
<1>1. IInv => SameDraws
  <2> SUFFICES ASSUME IInv, status = "shown" PROVE SameDraws
    BY DEF SameDraws
  <2>1. Abreast(lists, writer, game, rt) /\ rt.stack = <<>> /\ game \in Machines /\ rt \in Machines
    BY DEF IInv, TypeInv, ReadInv
  <2>2. game.stack = <<>>
    <3>1. game.stack \in Seq(Places) /\ Len(game.stack) = 0
      BY <2>1 DEF Machines, Abreast
    <3> QED BY <3>1, EmptySeq
  <2>3. DOMAIN rt.rdp.shown = 1 .. Len(game.rdp.shown)
    <3>1. rt.rdp.shown \in Seq(Shots)
      BY <2>1 DEF Machines, Rdps
    <3> QED BY <2>1, <3>1, LenProperties DEF Abreast, SameShown
  <2> QED BY <2>1, <2>2, <2>3 DEF SameDraws, Abreast, SameShown, Draws, drawn, wanted
<1> QED BY <1>1, SpecIInv, PTL
=============================================================================
