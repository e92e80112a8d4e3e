---------------------------- MODULE MCRecording ----------------------------
(* Three takes of three iterations, with a reset after each: a press can   *)
(* come before the first frame of a take, in its middle, in its last       *)
(* iteration, while it is saved, in the reset and in the take after that.  *)
EXTENDS Recording
=============================================================================
