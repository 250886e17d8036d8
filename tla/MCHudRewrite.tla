---------------------------- MODULE MCHudRewrite ----------------------------
(***************************************************************************)
(* HudRewrite with a submitted list (0) and three others it leads to.      *)
(* List 1 holds any two commands, so a call or branch inside it is met     *)
(* with every kind of command before or after it.  List 3 is called too    *)
(* deep to be copied when the lists nest as far as they can.               *)
(***************************************************************************)
EXTENDS HudFeed

MCLists == {0, 1, 2, 3}
MCIcon == 9
MCTextures == {MCIcon}

Tri == Cmd("tri", None)
End == <<Cmd("end", None)>>
Set(op, l) == Cmd(op, l)
All(l) == <<Set("scissor", l), Set("viewport", l), Set("projection", l)>>

Submitted ==
  {s \o <<c>> \o t \o End :
     s \in {<<>>, All(0)},
     c \in {Cmd("call", 1), Cmd("branch", 1)},
     t \in {<<Tri>>, <<Cmd("rect", MCIcon), Tri>>, <<Cmd("call", 2), Tri>>}}

Inner == {Tri, Cmd("rect", MCIcon), Cmd("call", 2), Cmd("branch", 2),
          Set("scissor", 1), Set("viewport", 1), Set("projection", 1)}
Middle == {<<a>> \o <<b>> \o End : a \in Inner, b \in Inner}

Leaf == {<<Cmd("call", 3), Tri>> \o End, <<Tri, Set("scissor", 2)>> \o End, All(2) \o <<Tri>> \o End}

MCFrames == {[l \in MCLists |-> CASE l = 0 -> a [] l = 1 -> b [] l = 2 -> c
                                 [] OTHER -> <<Tri>> \o End] :
               a \in Submitted, b \in Middle, c \in Leaf}

MCTags == {[e \in MCLists \cup MCTextures |->
              CASE e = 0 -> "auto" [] e = 1 -> a [] e = 2 -> b [] e = 3 -> "auto"
                [] OTHER -> c] :
             a \in {"auto", "left", "stretch", "spill"}, b \in {"auto", "left", "stretch"},
             c \in {"auto", "left"}}
=============================================================================
