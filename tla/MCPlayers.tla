----------------------------- MODULE MCPlayers -----------------------------
(* Players for TLC: platforms, settings and scripts that differ in what is read. *)
EXTENDS Players, TLC

Line(p, from, to, ok) == [player |-> p, from |-> from, to |-> to, parses |-> ok]
MCSetup(apple, mute, armed, accepted, script) ==
  [apple |-> apple, mute |-> mute, armed |-> armed, accepted |-> accepted, script |-> script]

\* macOS with a script that plays both; autostart with no dump accepted yet;
\* two polling threads and a script with an error after a line of player two's.
MCSetups ==
  { MCSetup(TRUE, FALSE, TRUE, TRUE, <<Line(1, 0, 1, TRUE), Line(2, 1, 2, TRUE)>>),
    MCSetup(FALSE, TRUE, TRUE, FALSE, <<>>),
    MCSetup(FALSE, TRUE, TRUE, TRUE, <<Line(2, 0, 1, TRUE), Line(1, 0, 1, FALSE)>>) }

\* Two polling threads and nothing else.
MCTwoPolls == { MCSetup(FALSE, FALSE, FALSE, TRUE, <<>>) }
=============================================================================
