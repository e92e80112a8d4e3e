----------------------------- MODULE MCMotorBus -----------------------------
(* The loop of a session and the thread that stops it, on one line.  With  *)
(* this print and these positions no checksum agrees by chance.            *)
EXTENDS MotorBus, TLC

CONSTANTS loop, stopper
MCThread == {loop, stopper}
Interchangeable == Permutations(MCThread)
=============================================================================
