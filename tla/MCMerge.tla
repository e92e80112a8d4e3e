------------------------------ MODULE MCMerge ------------------------------
(* Two processes that merge, for sessions of up to two episodes: a second  *)
(* merge of a session finds a ledger and a backup, and a third removes the *)
(* backup while the other process waits.                                   *)
EXTENDS CollectionMerge, TLC

CONSTANTS p1, p2, k1, s1, s2

MCProc == {p1, p2}
MCChecker == {k1}
MCSession == {s1, s2}
MCHubLedger == [s \in MCSession |-> 1]

ProcSymmetry == Permutations(MCProc) \cup Permutations(MCSession)
=============================================================================
