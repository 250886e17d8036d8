---------------------------- MODULE MCAudioTask ----------------------------
(* AudioTask for TLC: a list that fits the copy and one that does not. *)
EXTENDS AudioTask

\* The table damaged in the middle of a list, and a command after it that fails
\* the run; and a list with nothing wrong where it fits the copy.
MCContents ==
  { <<"sound", "damages", "fails", "sound">>, <<"sound", "sound", "sound", "damages">> }
=============================================================================
