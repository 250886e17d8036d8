---------------------------- MODULE MCInspector ----------------------------
(* Inspector for TLC: an element with a built-in class and one without. *)
EXTENDS Inspector, TLC

CONSTANTS a, b

MCIds == {a, b}
MCBuiltin == (a :> 0) @@ (b :> 1)
\* No tags, as the promotion of tags leaves the file; and one in which an
\* identity stands in two lists, as hand editing may.
MCEdits == {Empty, (a :> {0, 1}) @@ (b :> {1})}
MCTests == {<<b, 0>>}

\* The frame last held is not read again once the panel follows the game.
MCView == <<enabled, tableVars, asked, building, published, hold,
            IF hold THEN held ELSE NoFrame, fileVars, taken>>
=============================================================================
