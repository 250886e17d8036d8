------------------------------ MODULE HudFeed ------------------------------
(***************************************************************************)
(* The feed of the inspector's panel (src/dlcensus.cpp): a second walk of  *)
(* the game's display lists, which names every 2D element of the frame.    *)
(* The player tags the names the panel lists, the rewriter looks up those  *)
(* it meets on its own walk; the two walks have to agree.  A list and a    *)
(* texture stand for their identities (hh/hudid.h), and the lists are as   *)
(* the feed leaves them: with overscan scissors already snapped.           *)
(***************************************************************************)
EXTENDS HudRewrite

RECURSIVE Walk(_, _, _, _)

Callee_NotRestored(l, callee) == callee   \* mutant: the caller's name is lost
Callee(l, callee) == l

\* walk, from pc of the list named l, with the names noted so far, one for
\* each draw.  A branch takes the name of its target; after a call the
\* caller's name is back.
Walk(noted, code, pc, l) ==
  LET c == code[pc]
      on(n, name) == Walk(n, code, pc + 1, name)
  IN CASE c.op = "end" -> noted
       [] c.op = "branch" -> Walk(noted, lists[c.arg], 1, c.arg)
       [] c.op = "call" -> on(Walk(noted, lists[c.arg], 1, c.arg), Callee(l, c.arg))
       [] c.op = "rect" -> on(Append(noted, c.arg), l)
       [] c.op = "tri" -> on(Append(noted, l), l)
       [] OTHER -> on(noted, l)

\* per_frame.  Triangles of the submitted list itself go by a texture, which
\* the rewriter never wraps triangles for.
Feed == Walk(<<>>, lists[Main], 1, None)

\* The class the player gives to what the panel names at a draw is the class
\* the draw is made with, when the element is in no other that has one and, if
\* it is a list, sets no state.  "So both name an element the same way"
\* (hudid.h).
PanelNamesWhatMoves ==
  \A i \in Draws :
       LET own == wanted[i]
           e == Feed[i]
       IN /\ e \notin {None, Main}
          /\ Classified(own.within \cup ({own.arg} \cap Textures) \cup {e}) = {e}
          /\ e \in Lists => Plain(e)
          => Look(drawn[i]) = Look(Dressed(own, class[e]))
=============================================================================
