----------------------------- MODULE MCDatasets -----------------------------
(* Three processes on two names: one that is under way, one that comes     *)
(* across it, and one that was there before or comes after.                *)
EXTENDS Datasets, TLC

Interchangeable == Permutations(Name) \cup Permutations(Process)
=============================================================================
