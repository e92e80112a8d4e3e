------------------------------ MODULE JobLedger ------------------------------
(***************************************************************************)
(* What the job manager promises of its jobs, to whoever reads them: one   *)
(* runs at a time, each ends once, and an end is for good, through every   *)
(* restart of the engine. What an engine leaves active has failed.         *)
(***************************************************************************)
CONSTANT Job

VARIABLE ledger

Active == {"queued", "running"}
Ended == {"done", "failed", "cancelled"}

Init == ledger = [j \in Job |-> "none"]

Submit(j) ==
    /\ ledger[j] = "none"
    /\ ledger' = [ledger EXCEPT ![j] = "queued"]

Start(j) ==
    /\ ledger[j] = "queued"
    /\ \A k \in Job : ledger[k] # "running"
    /\ ledger' = [ledger EXCEPT ![j] = "running"]

Cancel(j) ==
    /\ ledger[j] = "queued"
    /\ ledger' = [ledger EXCEPT ![j] = "cancelled"]

End(j) ==
    /\ ledger[j] = "running"
    /\ \E outcome \in Ended : ledger' = [ledger EXCEPT ![j] = outcome]

(* The engine is gone, perhaps in the middle of a submission. *)
Interrupt ==
    /\ \A j \in Job : ledger[j] \in Ended => ledger'[j] = ledger[j]
    /\ \A j \in Job : ledger[j] \in Active => ledger'[j] = "failed"
    /\ \A j \in Job : ledger[j] = "none" => ledger'[j] \in {"none", "failed"}
    /\ ledger' \in [Job -> {"none"} \cup Ended]

Next == (\E j \in Job : Submit(j) \/ Start(j) \/ Cancel(j) \/ End(j)) \/ Interrupt

Spec == Init /\ [][Next]_ledger

-----------------------------------------------------------------------------
(* What follows for a reader. One job trains at a time (jobs.py:262-278).  *)
OneRuns == \A j, k \in Job : ledger[j] = "running" /\ ledger[k] = "running" => j = k

(* What a job was told to have ended as, it has ended as (jobs.py:315-319). *)
EndIsForGood ==
    [][\A j \in Job : ledger[j] \in Ended => ledger'[j] = ledger[j]]_ledger
=============================================================================
