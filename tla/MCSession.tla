------------------------------ MODULE MCSession ------------------------------
(* The sessions and threads of TLC's runs. One session with a leader arm,  *)
(* cameras and devices that may fail meets every way a start or a stop can *)
(* go wrong; two sessions whose devices work are what it takes for one to  *)
(* follow another in the slot. One DELETE thread, the watchdog and the     *)
(* engine are three threads that may stop a session at once.               *)
EXTENDS SessionInv

CONSTANTS s1, s2, d1

MCOneSession == {s1}
MCTwoSessions == {s1, s2}
MCStopper == {d1}
MCNone == {}
=============================================================================
