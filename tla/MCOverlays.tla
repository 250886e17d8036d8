----------------------------- MODULE MCOverlays -----------------------------
(***************************************************************************)
(* Overlays with three code files laid out as the game's windows are: 0    *)
(* and 1 overlap partly (56 and 57), 2 lies inside 1 (10 in 26), touches 0 *)
(* and has a heap copy over 0 (24 and 9).  Entry 9 is data.                *)
(***************************************************************************)
EXTENDS Overlays

MCFiles == 0 .. 2
MCData == {9}
MCAddr == 0 .. 2
MCVram == [f \in MCFiles |-> f]
MCSize == [i \in MCFiles \cup MCData |-> IF i \in {0, 1} THEN 2 ELSE 1]
MCFuncs == [f \in MCFiles |-> {f, f + MCSize[f] - 1}]
MCDests == [i \in MCFiles \cup MCData |->
              CASE i = 2 -> {2, 0} [] i = 9 -> {1} [] OTHER -> {i}]
=============================================================================
