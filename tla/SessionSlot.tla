----------------------------- MODULE SessionSlot -----------------------------
(***************************************************************************)
(* What the session manager promises its clients, and nothing of how it    *)
(* keeps the promise: one slot, owned by at most one session; a session    *)
(* that got the slot leaves it exactly once, and says how it ended.        *)
(***************************************************************************)
CONSTANTS
    Session,      \* every session the engine is ever asked to start
    NoSession     \* the free slot

VARIABLES
    owner,        \* the session that has the slot, or NoSession
    phase         \* the state the manager reports for each session

slotVars == <<owner, phase>>

Phase == {"none", "starting", "running", "stopping", "stopped", "failed"}

Init ==
    /\ owner = NoSession
    /\ phase = [s \in Session |-> "none"]

(* A new session takes the free slot. *)
Open(s) ==
    /\ owner = NoSession
    /\ phase[s] = "none"
    /\ owner' = s
    /\ phase' = [phase EXCEPT ![s] = "starting"]

(* Its hardware is up and its loop runs. *)
Run(s) ==
    /\ owner = s
    /\ phase[s] = "starting"
    /\ phase' = [phase EXCEPT ![s] = "running"]
    /\ UNCHANGED owner

(* Somebody wants it stopped. *)
Stop(s) ==
    /\ owner = s
    /\ phase[s] \in {"starting", "running"}
    /\ phase' = [phase EXCEPT ![s] = "stopping"]
    /\ UNCHANGED owner

(* It is over, and the slot is free. A session nobody asked to stop can    *)
(* only end in "stopped" after it ran.                                     *)
Close(s, how) ==
    /\ owner = s
    /\ how = "stopped" => phase[s] # "starting"
    /\ phase' = [phase EXCEPT ![s] = how]
    /\ owner' = NoSession

Next ==
    \E s \in Session :
        \/ Open(s)
        \/ Run(s)
        \/ Stop(s)
        \/ \E how \in {"stopped", "failed"} : Close(s, how)

Spec == Init /\ [][Next]_slotVars

-----------------------------------------------------------------------------
(* What follows for a client. Who is told that a session is active is told *)
(* of the one that has the slot, and of no other (session.py:150-158).     *)
ActiveIsOwner ==
    \A s \in Session : phase[s] \in {"starting", "running", "stopping"} <=> owner = s

(* A session that ended has ended, and as it was said (session.py:241-256). *)
EndIsForGood ==
    [][\A s \in Session : phase[s] \in {"stopped", "failed"} => phase'[s] = phase[s]]_slotVars
=============================================================================
