------------------------------ MODULE MCRemote ------------------------------
(* Two jobs, one after the other in the lane of the runner: the second may *)
(* find what the first has left on the server.                             *)
EXTENDS RemoteTraining

CONSTANTS j1, j2

MCJob == {j1, j2}
=============================================================================
