----------------------------- MODULE HudRewrite -----------------------------
(***************************************************************************)
(* src/hudrewrite.cpp: every display list the game submits is copied, with *)
(* the lists it calls, into a scratch buffer, and RT64's extended commands *)
(* are put around the elements that have a class.                          *)
(*                                                                         *)
(* A display list is a sequence of commands [op, arg, own].  Of the game's *)
(* commands the model keeps those the rewriter acts on: scissor, viewport, *)
(* projection (the game's are all loads), a texture or fill rectangle, the *)
(* calls, branches and ends of lists, and "tri" for everything that draws  *)
(* in between.  An address is a list of the game or an index of the copy.  *)
(*                                                                         *)
(* One RT64 reads the copy, another the game's own list, a command for     *)
(* each of the game's that the first has read: what they have drawn when   *)
(* the copy ends is what the player sees and what the game asked for.      *)
(***************************************************************************)
EXTENDS Naturals, Sequences, SequencesExt, FiniteSets

CONSTANTS
  Lists,        \* the game's display lists; Main is the one it submits
  Main,
  Frames,       \* what the lists may hold: a set of functions on Lists
  Textures,     \* identities of rectangles
  Settings,     \* scissors, viewports and projections
  Tags,         \* the classes the elements may have: a set of functions
  MaxDepth,     \* how deep calls are copied: 10 in the code
  ScratchSize,  \* kScratchSize, in commands
  None

Classes == {"auto", "left", "right", "stretch", "spill"}
Elements == Lists \cup Textures
Kept == {"scissor", "viewport", "projection"}

\* own: a command of the game's, not one the rewriter adds.
Cmd(op, arg) == [op |-> op, arg |-> arg, own |-> TRUE]
Ours(op, arg) == [op |-> op, arg |-> arg, own |-> FALSE]

Commands ==
  {Cmd(op, s) : op \in Kept, s \in Settings} \cup {Cmd("rect", t) : t \in Textures}
    \cup {Cmd(op, l) : op \in {"call", "branch"}, l \in Lists}
    \cup {Cmd("tri", None), Cmd("end", None)}

\* A list of the game ends, or branches to one that does.
Ends(code) == code # <<>> /\ code[Len(code)].op \in {"end", "branch"}

ASSUME HudRewriteAssumption ==
  /\ Main \in Lists
  /\ Lists \cap Textures = {} /\ None \notin Lists \cup Settings
  /\ Tags \subseteq [Elements -> Classes]
  /\ Frames \subseteq [Lists -> Seq(Commands)]
  /\ \A f \in Frames, l \in Lists : Ends(f[l])
  /\ MaxDepth \in Nat
  /\ ScratchSize \in Nat

VARIABLES
  lists,   \* what the game has written this frame
  class,   \* the inspector's class of every element
  status,  \* "new", "copying", "reading", "shown"; "plain" without a copy
  writer,  \* the Writer, with the locals of the copy_list that is running
  calls,   \* the calls of copy_list that wait for it
  game,    \* RT64 as the game's own list sets it, and
  rt       \* as the copy does

vars == <<lists, class, status, writer, calls, game, rt>>

-----------------------------------------------------------------------------
\* Writer: the copy so far, the game's state as its commands set it, and
\* copy_list's place: the next command, and the class of the list branched to.
Unknown == [op \in Kept |-> None]
NewWriter == [out |-> <<>>, used |-> 0, overflow |-> FALSE, known |-> Unknown,
              list |-> Main, pc |-> 1, cls |-> "auto"]

\* Commands of the extended GBI that take two slots.  "inlined" takes none: it
\* only notes where the copy goes on with a list that was branched to.
Width(c) ==
  CASE c.op \in {"xscissor", "xviewport", "xgroup", "xrect"} -> 2
    [] c.op = "inlined" -> 0
    [] OTHER -> 1

Fits_OffByOne(w, c) == w.used + Width(c) <= ScratchSize + 1   \* mutant
Fits(w, c) == w.used + Width(c) <= ScratchSize

\* A command as the buffer holds it, with the spot of the game's lists it is
\* emitted at (the code keeps no such note: the proofs read it, no action does).
Copied(w, c) ==
  [op |-> c.op, arg |-> c.arg, own |-> c.own, spot |-> [list |-> w.list, pc |-> w.pc]]

\* reserve and emit.
Emit(w, c) ==
  IF Fits(w, c) THEN [w EXCEPT !.out = Append(@, Copied(w, c)), !.used = @ + Width(c)]
  ELSE [w EXCEPT !.overflow = TRUE]

Reissue(w, op) == IF w.known[op] = None THEN w ELSE Emit(w, Ours(op, w.known[op]))

widen_scissor(w) ==
  IF w.known["scissor"] = None THEN w ELSE Emit(w, Ours("xscissor", w.known["scissor"]))
restore_scissor(w) == Reissue(w, "scissor")
projection_group(w, aspect) == Reissue(Emit(w, Ours("xgroup", aspect)), "projection")
viewport_align(w, origin) == Reissue(Emit(w, Ours("xviewport", origin)), "viewport")

\* A rectangle and the commands around it.
rect_begin(w, cls) ==
  CASE cls \in {"left", "right"} -> Emit(widen_scissor(w), Ours("xrect", cls))
    [] cls = "stretch" -> Emit(w, Ours("xaspect", "stretch"))
    [] cls = "spill" -> widen_scissor(w)
    [] OTHER -> w

rect_end(w, cls) ==
  CASE cls \in {"left", "right"} -> restore_scissor(Emit(w, Ours("xrect", "none")))
    [] cls = "stretch" -> Emit(w, Ours("xaspect", "auto"))
    [] cls = "spill" -> restore_scissor(w)
    [] OTHER -> w

\* A called or branched list and the commands around it.
group_begin(w, cls) ==
  CASE cls \in {"left", "right"} -> viewport_align(widen_scissor(w), cls)
    [] cls = "stretch" -> projection_group(w, "stretch")
    [] cls = "spill" -> widen_scissor(w)
    [] OTHER -> w

group_end_KeepsScissor(w, cls) ==   \* mutant: the scissor stays widened
  CASE cls \in {"left", "right"} -> viewport_align(w, "none")
    [] cls = "stretch" -> projection_group(w, "auto")
    [] OTHER -> w

group_end(w, cls) ==
  CASE cls \in {"left", "right"} -> restore_scissor(viewport_align(w, "none"))
    [] cls = "stretch" -> projection_group(w, "auto")
    [] cls = "spill" -> restore_scissor(w)
    [] OTHER -> w

-----------------------------------------------------------------------------
\* copy_list, one command of the game at a time.  Only the place is set by
\* these operators; the call or the end of a copy_list is Copy's.
GoTo(w, l, pc) == [w EXCEPT !.list = l, !.pc = pc]

\* Emits a command of the game's and goes on to the next.
Pass(w, c) == GoTo(Emit(w, c), w.list, w.pc + 1)

\* The commands that neither call nor end a list.
CopyPlain(w, c) ==
  CASE c.op \in Kept -> [Pass(w, c) EXCEPT !.known[c.op] = c.arg]
    [] c.op = "rect" -> rect_end(Pass(rect_begin(w, class[c.arg]), c), class[c.arg])
    [] OTHER -> Pass(w, c)

\* A branch never returns: its target is inlined, wrapped up to its end.
Branch_NotWrapped(w, l) == GoTo(Emit(w, Cmd("inlined", l)), l, 1)   \* mutant: only calls are wrapped
Branch(w, l) ==
  [GoTo(Emit(group_begin(group_end(w, w.cls), class[l]), Cmd("inlined", l)), l, 1)
     EXCEPT !.cls = class[l]]

Wrapped_NoEnable(w, call, cls) ==   \* mutant: the callee's end turns the GBI off
  group_end(Pass(group_begin(w, cls), call), cls)

\* A call and the commands around it.
Wrapped(w, call, cls) ==
  group_end(Emit(Pass(group_begin(w, cls), call), Ours("enable", None)), cls)

\* copy_list is called: the jump over the callee's copy, to be patched, then
\* the copy's first command.
Enter(w, l) ==
  Emit([GoTo(Emit(w, Ours("jump", None)), l, 1) EXCEPT !.cls = "auto"], Ours("enable", None))

\* ... and returns to the call at w's place, whose callee was copied from
\* index at + 1 of the buffer on.
Leave(w, caller) ==
  LET l == lists[caller.list][caller.pc].arg
      patched == [w EXCEPT !.out[caller.at].arg = Len(w.out) + 1, !.list = caller.list,
                           !.pc = caller.pc, !.cls = caller.cls]
  IN IF w.overflow THEN w ELSE Wrapped(patched, Cmd("callcopy", caller.at + 1), class[l])

Caller(w) == [list |-> w.list, pc |-> w.pc, cls |-> w.cls, at |-> Len(w.out) + 1]

-----------------------------------------------------------------------------
\* RT64: the state a draw is made under.  The alignment is taken when a
\* viewport is set, the aspect when a projection is.
Reset == [scissor |-> None, wide |-> FALSE, align |-> "none", viewport |-> None,
          aspect |-> "auto", projection |-> None, rect |-> "none", stretched |-> "auto",
          extended |-> FALSE, sound |-> TRUE, shown |-> <<>>]

Shown(r, c, within) ==
  [op |-> c.op, arg |-> c.arg, within |-> within, scissor |-> r.scissor, wide |-> r.wide,
   viewport |-> r.viewport, projection |-> r.projection, rect |-> r.rect,
   stretched |-> r.stretched]

Extended(c) == c.op \in {"xscissor", "xviewport", "xgroup", "xrect", "xaspect"}

Obey(r, c, within) ==
  IF Extended(c) /\ ~r.extended THEN [r EXCEPT !.sound = FALSE]
  ELSE CASE c.op = "enable" -> [r EXCEPT !.extended = TRUE]
         [] c.op = "end" -> [r EXCEPT !.extended = FALSE]
         [] c.op = "scissor" -> [r EXCEPT !.scissor = c.arg, !.wide = FALSE]
         [] c.op = "xscissor" -> [r EXCEPT !.scissor = c.arg, !.wide = TRUE]
         [] c.op = "viewport" -> [r EXCEPT !.viewport = <<c.arg, r.align>>]
         [] c.op = "xviewport" -> [r EXCEPT !.align = c.arg]
         [] c.op = "projection" -> [r EXCEPT !.projection = <<c.arg, r.aspect>>]
         [] c.op = "xgroup" -> [r EXCEPT !.aspect = c.arg]
         [] c.op = "xrect" -> [r EXCEPT !.rect = c.arg]
         [] c.op = "xaspect" -> [r EXCEPT !.stretched = c.arg]
         [] c.op \in {"rect", "tri"} -> [r EXCEPT !.shown = Append(@, Shown(r, c, within))]
         [] OTHER -> r

\* Where RT64 is in a list (None: in the copy).  around are the game's lists it
\* was called in, with this one, and branch the one branched to since.
Place(l, pc, around, branch) == [list |-> l, pc |-> pc, around |-> around, branch |-> branch]

Here(m) == m.stack[Len(m.stack)]
Lost(p) == p.list = None /\ p.pc > Len(writer.out)
Command(p) == IF p.list = None THEN writer.out[p.pc] ELSE lists[p.list][p.pc]

Onward(p) == [p EXCEPT !.pc = @ + 1]

\* The places after a command.
Follow(stack, p, c) ==
  LET below == Front(stack)
      within == p.around \cup p.branch
  IN CASE c.op = "end" -> below
       [] c.op = "branch" -> Append(below, Place(c.arg, 1, p.around, {c.arg}))
       [] c.op = "jump" -> Append(below, [p EXCEPT !.pc = c.arg])
       [] c.op = "call" -> Append(Append(below, Onward(p)), Place(c.arg, 1, within \cup {c.arg}, {}))
       [] c.op = "callcopy" -> Append(Append(below, Onward(p)), Place(None, c.arg, {}, {}))
       [] OTHER -> Append(below, Onward(p))

Started(l) == [rdp |-> Reset, stack |-> <<Place(l, 1, {}, {})>>]

\* Reads one command.
Reads(m) ==
  LET p == Here(m)
      c == Command(p)
  IN IF Lost(p) THEN [m EXCEPT !.rdp.sound = FALSE, !.stack = <<>>]
     ELSE [rdp |-> Obey(m.rdp, c, p.around \cup p.branch), stack |-> Follow(m.stack, p, c)]

-----------------------------------------------------------------------------
Init ==
  /\ lists \in Frames
  /\ class \in Tags
  /\ status = "new"
  /\ writer = NewWriter /\ calls = <<>>
  /\ game = Started(Main) /\ rt = Started(None)

AnyClasses == \E e \in Elements : class[e] # "auto"

\* send_dl: rewrite looks for a class and starts to copy the submitted list.
SendDl ==
  /\ status = "new"
  /\ IF AnyClasses
       THEN status' = "copying" /\ writer' = Emit(NewWriter, Ours("enable", None))
       ELSE status' = "plain" /\ writer' = writer
  /\ UNCHANGED <<lists, class, calls, game, rt>>

\* One turn of copy_list's loop.  The callee of a call is copied where the call
\* stands and then wrapped; a call nested too deep stays a call of the game's
\* own list.
Copy ==
  LET c == lists[writer.list][writer.pc]
      ended == Emit(group_end(writer, writer.cls), c)
  IN /\ status = "copying" /\ ~writer.overflow /\ writer.list # None
     /\ \/ /\ c.op \notin {"call", "branch", "end"}
           /\ writer' = CopyPlain(writer, c) /\ calls' = calls
        \/ /\ c.op = "branch"
           /\ writer' = Branch(writer, c.arg) /\ calls' = calls
        \/ /\ c.op = "call" /\ Len(calls) < MaxDepth
           /\ writer' = Enter(writer, c.arg)
           /\ calls' = Append(calls, Caller(writer))
        \/ /\ c.op = "call" /\ Len(calls) >= MaxDepth
           /\ writer' = Wrapped(writer, c, "auto") /\ calls' = calls
        \/ /\ c.op = "end" /\ calls # <<>>
           /\ writer' = Leave(ended, calls[Len(calls)])
           /\ calls' = Front(calls)
        \/ /\ c.op = "end" /\ calls = <<>>
           /\ writer' = GoTo(ended, None, 0) /\ calls' = calls
     /\ UNCHANGED <<lists, class, status, game, rt>>

Accepted_Always(w) == TRUE   \* mutant: the overflow is not looked at
Accepted(w) == ~w.overflow

\* rewrite's result: the copy is submitted, or the game's own list.
Submit ==
  /\ status = "copying"
  /\ writer.overflow \/ writer.list = None
  /\ status' = IF Accepted(writer) THEN "reading" ELSE "plain"
  /\ UNCHANGED <<lists, class, writer, calls, game, rt>>

\* RT64 reads a command of the copy, and of the game's list the same, if it is
\* one of the game's.
Read ==
  LET p == Here(rt)
      own == ~Lost(p) /\ Command(p).own
  IN /\ status = "reading"
     /\ rt' = Reads(rt)
     /\ game' = IF own /\ game.stack # <<>> THEN Reads(game) ELSE game
     /\ status' = IF rt'.stack = <<>> THEN "shown" ELSE "reading"
     /\ UNCHANGED <<lists, class, writer, calls>>

\* The next frame: the same lists, with the same classes.
NextFrame ==
  /\ status \in {"plain", "shown"}
  /\ status' = "new"
  /\ writer' = NewWriter /\ calls' = <<>>
  /\ game' = Started(Main) /\ rt' = Started(None)
  /\ UNCHANGED <<lists, class>>

Next == SendDl \/ Copy \/ Submit \/ Read \/ NextFrame
Spec == Init /\ [][Next]_vars

-----------------------------------------------------------------------------
\* The writer stays in its scratch buffer, and a copy is submitted only for a
\* class.
TypeOK ==
  /\ lists \in [Lists -> Seq(Commands)]
  /\ class \in [Elements -> Classes]
  /\ status \in {"new", "copying", "reading", "shown", "plain"}
  /\ status \in {"copying", "reading", "shown"} => AnyClasses
  /\ writer.used \in 0 .. ScratchSize
  /\ Len(calls) <= MaxDepth

wanted == game.rdp.shown
drawn == rt.rdp.shown
Draws == IF status = "shown" THEN DOMAIN drawn ELSE {}

\* The player sees every draw of the game, in its order, and RT64 meets no
\* extended command it has been made to forget: also when the copy does not
\* fit (rewrite, hudrewrite.cpp:378-388).
SameDraws ==
  status = "shown" =>
    /\ rt.rdp.sound
    /\ game.stack = <<>>
    /\ Len(drawn) = Len(wanted)
    /\ \A i \in Draws : drawn[i].op = wanted[i].op /\ drawn[i].arg = wanted[i].arg

Classified(S) == {e \in S : class[e] # "auto"}

\* Nothing but the within field of an entry.
Look(entry) == [f \in DOMAIN entry \ {"within"} |-> entry[f]]

\* A draw that is in no classified list and has no class of its own is made
\* exactly as the game asked: what was set for the elements before it is undone.
UnclassifiedAsBefore ==
  \A i \in Draws :
     LET own == wanted[i]
     IN Classified(own.within \cup ({own.arg} \cap Textures)) = {}
          => Look(drawn[i]) = Look(own)

\* How a class changes the look of an element.
Aligned(setting, a) == IF setting = None THEN None ELSE <<setting[1], a>>
Wider(own) == [own EXCEPT !.wide = own.scissor # None]

Dressed(own, cls) ==
  CASE own.op = "rect" /\ cls \in {"left", "right"} -> [Wider(own) EXCEPT !.rect = cls]
    [] own.op = "rect" /\ cls = "stretch" -> [own EXCEPT !.stretched = "stretch"]
    [] own.op = "tri" /\ cls \in {"left", "right"} ->
         [Wider(own) EXCEPT !.viewport = Aligned(@, cls)]
    [] own.op = "tri" /\ cls = "stretch" -> [own EXCEPT !.projection = Aligned(@, "stretch")]
    [] cls = "spill" -> Wider(own)

\* The lists a list leads to, itself among them, and their commands.
Leads(l) == {c.arg : c \in {x \in ToSet(lists[l]) : x.op \in {"call", "branch"}}}
Closed(S) == \A l \in S : Leads(l) \subseteq S
Reached(l) == {k \in Lists : \A S \in SUBSET Lists : l \in S /\ Closed(S) => k \in S}
Below(l) == UNION {ToSet(lists[k]) : k \in Reached(l)}

\* A list that sets no state and holds no other classified element.
Plain(l) ==
  \A c \in Below(l) : /\ c.op \notin DOMAIN Unknown
                      /\ c.op \in {"rect", "call", "branch"} => class[c.arg] = "auto"

\* A classified element is drawn as its class says, from the state in force
\* where the game draws it; a list, when it sets no state of its own and holds
\* no other classified element (the radar is one rectangle after another and a
\* dial reached by a branch, findings/phase-07.md).
ClassifiedAsTagged ==
  \A i \in Draws :
       LET own == wanted[i]
           around == Classified(own.within)
       IN /\ own.op = "rect" /\ around = {} /\ class[own.arg] # "auto"
               => Look(drawn[i]) = Look(Dressed(own, class[own.arg]))
          /\ own.op = "tri" =>
               \A l \in around : around = {l} /\ Plain(l)
                  => Look(drawn[i]) = Look(Dressed(own, class[l]))

\* ... and whatever the called list sets: a draw sees the game's own scissor
\* and viewport, moved or widened ("the game's viewport reissued", hudrewrite.h).
Base(setting) == IF setting = None THEN None ELSE setting[1]
StateInForce ==
  \A i \in Draws :
     /\ drawn[i].scissor = wanted[i].scissor
     /\ Base(drawn[i].viewport) = Base(wanted[i].viewport)

\* ... and whatever it holds: an element tagged left moves as a whole, also
\* when another element tagged left is drawn inside it ("RT64's extended GBI is
\* inserted around every classified element", hudrewrite.h).
MovesWhole ==
  \A i \in Draws :
     LET around == Classified(wanted[i].within)
         same == {class[l] : l \in around} = {"left"}
     IN same /\ wanted[i].op = "tri" /\ drawn[i].viewport # None
          => drawn[i].viewport[2] = "left"
=============================================================================
