---------------------------- MODULE MCAudioQueue ----------------------------
(* AudioQueue for TLC: upsampling, and a device that runs at a game's rate. *)
EXTENDS AudioQueue

=============================================================================
