------------------------------- MODULE MCJobs -------------------------------
(* Two jobs, one after the other in the lane, and an engine that is        *)
(* started again once.                                                     *)
EXTENDS Jobs

CONSTANTS j1, j2

MCJob == {j1, j2}
=============================================================================
