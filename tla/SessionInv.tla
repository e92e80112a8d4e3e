------------------------------ MODULE SessionInv ------------------------------
(***************************************************************************)
(* The inductive invariant of module Session: what the safety properties   *)
(* rest on. The proofs of module SessionProofs use it for every value of   *)
(* the constants; the run Session_inductive checks it on a small instance. *)
(***************************************************************************)
EXTENDS Session

(* Labels only starters, and only stopping threads, are ever at. *)
LabelInv ==
    /\ \A s \in Session : pc[s] \in StarterLabel \cup Releasing \cup EndLabel
    /\ \A t \in StopThread : pc[t] \in StopLabel \cup Releasing \cup EndLabel

(* A starter inside worker.start(), or on its way out of a failed one, has *)
(* its start_lock. *)
InStarterSection(s) == pc[s] \in Starting \cup Releasing \cup EndLabel
InStopSection(t) == pc[t] \in {"joining"} \cup Releasing \cup EndLabel
Through(s) == pc[s] \in {"announcing", "done"}

(* So has a stopping thread inside stop(), except the watchdog's reap, which *)
(* relies on start() being through.                                          *)
LockInv ==
    /\ \A s \in Session : InStarterSection(s) => startLock[s] = s
    /\ \A t \in StopThread :
          InStopSection(t) => \/ startLock[on[t]] = t
                              \/ t = Watchdog /\ Through(on[t])
    /\ pc[Watchdog] = "reaping" => Through(on[Watchdog])

(* A stopping thread past its first look at the slot has a session. *)
TargetInv ==
    \A t \in StopThread :
        InStopSection(t) \/ pc[t] \in {"marked", "wanting", "expired", "reaping", "stopAsked"} =>
            on[t] \in Session

(* The slot and the state of its session agree, and agree with how far the *)
(* threads of the session have come.                                       *)
SlotInv ==
    /\ \A s \in Session : live = s <=> info[s] \in Active
    /\ \A s \in Session : pc[s] = "new" <=> info[s] = "none"
    /\ \A s \in Session : info[s] = "running" => Through(s)
    /\ \A s \in Session : info[s] = "starting" => ~Through(s)
    /\ \A s \in Session : pc[s] \in {"ending", "idling", "freeing"} => live # s
    /\ \A s \in Session : pc[s] \in Starting \cup Releasing \cup {"finishing"} =>
          live = s \/ "late" \in mishap[s]
    /\ \A t \in StopThread :
          InStopSection(t) \/ pc[t] \in {"marked", "wanting"} =>
              info[on[t]] \notin {"none", "starting"}

(* How a thread about to finish a session will report it. *)
OutcomeInv ==
    /\ \A p \in Thread : pc[p] = "finishing" => outcome[p] \in Ended
    /\ \A s \in Session : pc[s] = "finishing" => outcome[s] = "failed"

(* What the guard knows, and since when. *)
GuardInv ==
    /\ \A s \in Session :
          pc[s] \in {"new", "claimed", "waiting", "connecting", "leader"} => guard[s] = "none"
    /\ \A s \in Session : pc[s] \in {"readying", "started", "announcing"} => guard[s] = "rest"
    /\ \A s \in Session : pc[s] = "done" /\ live = s => guard[s] = "rest"
    /\ pc[Watchdog] = "reaping" => guard[on[Watchdog]] = "rest"
    /\ \A p \in Thread : pc[p] = "ramping" => guard[Target(p)] = "rest"
    /\ \A s \in Session : loop[s] # "none" => guard[s] = "rest"
    /\ \A s \in Session : guard[s] # "rest" => ~away[s]

(* Torque: off before the connect, and off or accounted for by the time a  *)
(* stopping thread closes the devices.                                     *)
TorqueInv ==
    /\ \A s \in Session : pc[s] \in {"new", "claimed", "waiting", "connecting"} => ~torque[s]
    /\ \A t \in StopThread :
          pc[t] \in {"joining", "release"} /\ guard[on[t]] = "none" => ~torque[on[t]]
    /\ \A t \in StopThread :
          pc[t] = "closing" /\ torque[on[t]] => guardError[on[t]]
    /\ \A t \in StopThread :
          pc[t] = "finishing" /\ outcome[t] = "stopped" => ~torque[on[t]]

(* The port is closed, or known to have leaked, once the devices are. *)
PortInv ==
    /\ \A p \in Thread : pc[p] = "finishing" =>
          ~port[Target(p)] \/ "leaked" \in mishap[Target(p)]
    /\ \A s \in Session : pc[s] \in {"new", "claimed", "waiting"} => ~port[s]

(* The control loop starts with start()'s last act, and is over, or known  *)
(* to be late, when the hardware is released.                              *)
LoopInv ==
    /\ \A s \in Session : loop[s] # "none" => pc[s] \in {"started", "announcing", "done"}
    /\ \A p \in Thread : pc[p] \in Releasing =>
          loop[Target(p)] \in {"none", "dead"} \/ "overrun" \in mishap[Target(p)]

(* Two threads inside stop() of one worker have been noticed. Alone there, *)
(* a thread that has ramped finds the arm where it left it.                *)
RestInv ==
    /\ \A t, u \in StopThread :
          t # u /\ InStop(t, on[t]) /\ InStop(u, on[t]) => "doubled" \in mishap[on[t]]
    /\ \A p \in Thread : pc[p] = "cutting" =>
          \/ ~away[Target(p)]
          \/ guardError[Target(p)]
          \/ "overrun" \in mishap[Target(p)]
          \/ "doubled" \in mishap[Target(p)]

IInv ==
    /\ TypeOK
    /\ LabelInv
    /\ LockInv
    /\ TargetInv
    /\ SlotInv
    /\ OutcomeInv
    /\ GuardInv
    /\ TorqueInv
    /\ PortInv
    /\ LoopInv
    /\ RestInv
    /\ EnergisedHasOwner
    /\ FreedSlotFreesPort
=============================================================================
