----------------------------- MODULE MCCoaching -----------------------------
(* One client is enough to have two handovers at once: its request returns *)
(* while the helper thread still carries the handover out, and the next    *)
(* request comes between two of its steps.                                 *)
EXTENDS Coaching

CONSTANTS c1

MCClient == {c1}
=============================================================================
