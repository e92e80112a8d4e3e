------------------------------- MODULE Session -------------------------------
(***************************************************************************)
(* The session manager (session.py), the lease watchdog and the engine's   *)
(* shutdown (app.py), around the arm workers of module ArmWorker.          *)
(*                                                                         *)
(* Each critical section of manager._lock is one action. live.start_lock   *)
(* is a lock of its own, held across many actions. The request threads     *)
(* that start and stop sessions, the watchdog and the engine's shutdown    *)
(* interleave freely between these actions.                                *)
(***************************************************************************)
EXTENDS ArmWorker, FiniteSets

CONSTANTS
    NoSession,    \* manager._live is None
    Free          \* nobody holds a start_lock

ASSUME NoSessionAssumption == NoSession \notin Session
ASSUME FreeAssumption == Free \notin Session \cup Stopper \cup {Watchdog, Engine}

VARIABLES
    live,         \* manager._live
    info,         \* live.info.state of each session, "none" before it is claimed
    startLock,    \* who holds the session's start_lock
    silent,       \* the lease has run out: no heartbeat for LEASE_TIMEOUT_S
    event         \* the state last published for the session

managerVars == <<live, info, startLock, silent, event>>
vars == <<pc, on, outcome, workerVars, managerVars>>

Active == {"starting", "running", "stopping"}
Ended == {"stopped", "failed"}
State == {"none"} \cup Active \cup Ended

Slot == INSTANCE SessionSlot WITH owner <- live, phase <- info

Init ==
    /\ pc = [p \in Thread |-> IF p \in Session THEN "new" ELSE "idle"]
    /\ on = [p \in StopThread |-> NoSession]
    /\ outcome = [p \in Thread |-> "none"]
    /\ WorkerInit
    /\ live = NoSession
    /\ info = [s \in Session |-> "none"]
    /\ startLock = [s \in Session |-> Free]
    /\ silent = [s \in Session |-> FALSE]
    /\ event = [s \in Session |-> "none"]

(* Labels, beside those of module ArmWorker. A thread is inside the        *)
(* start_lock's critical section of its session from "connecting"          *)
(* (starter) or "joining" (stopping thread) to "freeing".                  *)
StarterLabel == {"new", "claimed", "waiting", "announcing", "done"} \cup Starting
StopLabel == {"idle", "marked", "wanting", "joining", "expired", "reaping",
              "joinWatchdog", "stopCurrent", "stopAsked", "jobsDown", "exited", "aborted"}
EndLabel == {"finishing", "ending", "idling", "freeing"}

TypeOK ==
    /\ pc \in [Thread -> StarterLabel \cup StopLabel \cup Releasing \cup EndLabel]
    /\ on \in [StopThread -> Session \cup {NoSession}]
    /\ outcome \in [Thread -> {"none", "running", "stopping"} \cup Ended]
    /\ WorkerTypeOK
    /\ live \in Session \cup {NoSession}
    /\ info \in [Session -> State]
    /\ startLock \in [Session -> Thread \cup {Free}]
    /\ silent \in [Session -> BOOLEAN]
    /\ event \in [Session -> State \cup {"idle"}]

(* The process is gone, and every thread with it: what is energised stays. *)
Exited == pc[Engine] \in {"exited", "aborted"}
ShuttingDown == pc[Engine] # "idle"

-----------------------------------------------------------------------------
(* SessionManager.start, in the thread of POST /sessions *)

(* A busy manager refuses and changes nothing. uvicorn takes no request    *)
(* once it shuts down.                                                     *)
Claim(s) ==
    /\ pc[s] = "new"
    /\ ~ShuttingDown
    /\ live = NoSession
    /\ live' = s
    /\ info' = [info EXCEPT ![s] = "starting"]
    /\ Goto(s, "claimed")
    /\ UNCHANGED <<on, outcome, workerVars, startLock, silent, event>>

PublishStarting(s) ==
    /\ pc[s] = "claimed"
    /\ event' = [event EXCEPT ![s] = "starting"]
    /\ Goto(s, "waiting")
    /\ UNCHANGED <<on, outcome, workerVars, live, info, startLock, silent>>

(* live.start_lock can be taken *)
StartLockFree(s) == startLock[s] = Free

(* start() does not look again whether the session is still live.          *)
LockStart(s) ==
    /\ pc[s] = "waiting"
    /\ StartLockFree(s)
    /\ startLock' = [startLock EXCEPT ![s] = s]
    /\ mishap' = [mishap EXCEPT ![s] = IF live = s THEN @ ELSE @ \cup {"late"}]
    /\ Goto(s, "connecting")
    /\ UNCHANGED <<on, outcome, stopSet, loop, hardware, error, live, info, silent, event>>

(* worker.start() returned: running, unless a stop was asked for meanwhile. *)
(* What will be published is copied here and published after the lock.      *)
MarkRunning(s) ==
    /\ pc[s] = "started"
    /\ \/ /\ info[s] = "starting"
          /\ info' = [info EXCEPT ![s] = "running"]
          /\ silent' = [silent EXCEPT ![s] = FALSE]
       \/ /\ info[s] # "starting"
          /\ UNCHANGED <<info, silent>>
    /\ outcome' = [outcome EXCEPT ![s] = info'[s]]
    /\ startLock' = [startLock EXCEPT ![s] = Free]
    /\ Goto(s, "announcing")
    /\ UNCHANGED <<on, workerVars, live, event>>

Announce(s) ==
    /\ pc[s] = "announcing"
    /\ event' = [event EXCEPT ![s] = outcome[s]]
    /\ outcome' = [outcome EXCEPT ![s] = "none"]
    /\ Goto(s, "done")
    /\ UNCHANGED <<on, workerVars, live, info, startLock, silent>>

-----------------------------------------------------------------------------
(* SessionManager.stop *)

(* A stopping thread is through: its locals go, and it is back where it     *)
(* waits for its next stop (the engine's shutdown has one stop only).       *)
Home(t) == IF t = Engine THEN "jobsDown" ELSE "idle"
Return(t) == Goto(t, Home(t)) /\ on' = [on EXCEPT ![t] = NoSession]

(* The first request marks the session; a later one finds it stopping and  *)
(* returns at once. (DELETE with an unknown id changes nothing.)           *)
MarkStopping(t, s, from) ==
    /\ pc[t] = from
    /\ live = s
    /\ \/ /\ info[s] # "stopping"
          /\ info' = [info EXCEPT ![s] = "stopping"]
          /\ on' = [on EXCEPT ![t] = s]
          /\ Goto(t, "marked")
       \/ /\ info[s] = "stopping"
          /\ Return(t)
          /\ UNCHANGED info
    /\ UNCHANGED <<outcome, workerVars, live, startLock, silent, event>>

RequestStop(t, s) == ~ShuttingDown /\ MarkStopping(t, s, "idle")

PublishStopping(t) ==
    /\ pc[t] = "marked"
    /\ event' = [event EXCEPT ![on[t]] = "stopping"]
    /\ Goto(t, "wanting")
    /\ UNCHANGED <<on, outcome, workerVars, live, info, startLock, silent>>

(* A second thread inside stop() of the same worker *)
InStop(t, s) == on[t] = s /\ pc[t] \in {"joining"} \cup Releasing
Doubled(t, s) ==
    IF \E u \in StopThread \ {t} : InStop(u, s) THEN mishap[s] \cup {"doubled"} ELSE mishap[s]

(* The start_lock is ours; a start that failed has freed the slot, and     *)
(* then there is nothing to stop. Otherwise worker.stop() raises its flag. *)
LockStop(t) ==
    /\ pc[t] = "wanting"
    /\ StartLockFree(on[t])
    /\ \/ /\ live # on[t]
          /\ Return(t)
          /\ UNCHANGED <<startLock, stopSet, mishap>>
       \/ /\ live = on[t]
          /\ startLock' = [startLock EXCEPT ![on[t]] = t]
          /\ stopSet' = [stopSet EXCEPT ![on[t]] = TRUE]
          /\ mishap' = [mishap EXCEPT ![on[t]] = Doubled(t, on[t])]
          /\ Goto(t, "joining")
          /\ UNCHANGED on
    /\ UNCHANGED <<outcome, loop, hardware, error, live, info, silent, event>>

-----------------------------------------------------------------------------
(* SessionManager._finish, the way out of a failed start and of every stop *)

FinishAny(p) ==   \* mutant: whoever has the slot loses it
    /\ pc[p] = "finishing"
    /\ info' = [info EXCEPT ![Target(p)] = outcome[p]]
    /\ live' = NoSession
    /\ silent' = [silent EXCEPT ![Target(p)] = FALSE]
    /\ Goto(p, "ending")
    /\ UNCHANGED <<on, outcome, workerVars, startLock, event>>

(* Only the session that still has the slot is finished, and its lease ends *)
(* with it.                                                                 *)
Finish(p) ==
    /\ pc[p] = "finishing"
    /\ \/ /\ live = Target(p)
          /\ info' = [info EXCEPT ![Target(p)] = outcome[p]]
          /\ live' = NoSession
          /\ silent' = [silent EXCEPT ![Target(p)] = FALSE]
          /\ Goto(p, "ending")
       \/ /\ live # Target(p)
          /\ Goto(p, "freeing")
          /\ UNCHANGED <<info, live, silent>>
    /\ UNCHANGED <<on, outcome, workerVars, startLock, event>>

PublishEnd(p) ==
    /\ pc[p] = "ending"
    /\ event' = [event EXCEPT ![Target(p)] = outcome[p]]
    /\ Goto(p, "idling")
    /\ UNCHANGED <<on, outcome, workerVars, live, info, startLock, silent>>

PublishIdle(p) ==
    /\ pc[p] = "idling"
    /\ event' = [event EXCEPT ![Target(p)] = "idle"]
    /\ Goto(p, "freeing")
    /\ UNCHANGED <<on, outcome, workerVars, live, info, startLock, silent>>

(* The start_lock is released, by the thread that holds it: the watchdog's *)
(* reap does not.                                                          *)
Leave(p) ==
    /\ pc[p] = "freeing"
    /\ startLock' = [startLock EXCEPT ![Target(p)] = IF @ = p THEN Free ELSE @]
    /\ outcome' = [outcome EXCEPT ![p] = "none"]
    /\ \/ p \in Session /\ Goto(p, "done") /\ UNCHANGED on
       \/ p \in StopThread /\ Return(p)
    /\ UNCHANGED <<workerVars, live, info, silent, event>>

-----------------------------------------------------------------------------
(* The lease and the watchdog *)

(* A heartbeat is taken for the live session in any state. *)
Heartbeat(s) ==
    /\ live = s
    /\ ~ShuttingDown
    /\ silent' = [silent EXCEPT ![s] = FALSE]
    /\ UNCHANGED <<pc, on, outcome, workerVars, live, info, startLock, event>>

LeaseLapse(s) ==
    /\ live = s
    /\ ~silent[s]
    /\ silent' = [silent EXCEPT ![s] = TRUE]
    /\ UNCHANGED <<pc, on, outcome, workerVars, live, info, startLock, event>>

NeverExpired(s) == FALSE   \* mutant: the lease is not looked at
NeverDied(s) == FALSE      \* mutant: dead loops are not looked for

(* What a tick looks for; an expired lease goes first. *)
Expired(s) == silent[s]
Died(s) == ~silent[s] /\ loop[s] = "dead"

(* tick(): one look at the live session under the lock, acted on after it. *)
Tick ==
    /\ pc[Watchdog] = "idle"
    /\ ~ShuttingDown
    /\ \E s \in Session :
        /\ live = s
        /\ info[s] = "running"
        /\ \/ Expired(s) /\ Goto(Watchdog, "expired")
           \/ Died(s) /\ Goto(Watchdog, "reaping")
        /\ on' = [on EXCEPT ![Watchdog] = s]
    /\ UNCHANGED <<outcome, workerVars, managerVars>>

(* The expired lease is stopped like a user would; a session that ended    *)
(* meanwhile raises, and the watchdog's loop swallows it.                  *)
Expire ==
    \/ MarkStopping(Watchdog, on[Watchdog], "expired")
    \/ /\ pc[Watchdog] = "expired"
       /\ live # on[Watchdog]
       /\ Return(Watchdog)
       /\ UNCHANGED <<outcome, workerVars, managerVars>>

(* A worker that died is stopped without marking the session, without the  *)
(* start_lock, and without another look at the slot.                       *)
Reap ==
    /\ pc[Watchdog] = "reaping"
    /\ LET s == on[Watchdog] IN
        /\ stopSet' = [stopSet EXCEPT ![s] = TRUE]
        /\ mishap' = [mishap EXCEPT ![s] = Doubled(Watchdog, s)]
    /\ Goto(Watchdog, "joining")
    /\ UNCHANGED <<on, outcome, loop, hardware, error, managerVars>>

-----------------------------------------------------------------------------
(* The engine's shutdown (the end of app.py's lifespan). uvicorn calls it   *)
(* when the requests in flight have been answered.                          *)

BeginShutdown ==
    /\ pc[Engine] = "idle"
    /\ \A s \in Session : pc[s] \in {"new", "done"}
    /\ \A t \in Stopper : pc[t] = "idle"
    /\ Goto(Engine, "joinWatchdog")
    /\ UNCHANGED <<on, outcome, workerVars, managerVars>>

(* The watchdog is awaited for WATCHDOG_PERIOD_S + 1 seconds only, which a  *)
(* stop it is in the middle of may well outlast.                            *)
JoinWatchdog ==
    /\ pc[Engine] = "joinWatchdog"
    /\ Goto(Engine, "stopCurrent")
    /\ UNCHANGED <<on, outcome, workerVars, managerVars>>

(* stop_current: one section of the lock to find the session, another, in   *)
(* stop(), to mark it.                                                      *)
FindCurrent ==
    /\ pc[Engine] = "stopCurrent"
    /\ \/ /\ live = NoSession
          /\ Goto(Engine, "jobsDown")
          /\ UNCHANGED on
       \/ /\ live # NoSession
          /\ on' = [on EXCEPT ![Engine] = live]
          /\ Goto(Engine, "stopAsked")
    /\ UNCHANGED <<outcome, workerVars, managerVars>>

(* A session that ended in between raises through the lifespan, past the    *)
(* shutdown of the training jobs.                                           *)
StopCurrent ==
    \/ MarkStopping(Engine, on[Engine], "stopAsked")
    \/ /\ pc[Engine] = "stopAsked"
       /\ live # on[Engine]
       /\ Goto(Engine, "aborted")
       /\ UNCHANGED <<on, outcome, workerVars, managerVars>>

(* jobs.shutdown(), dataset_store.close(), and the process ends.            *)
Exit ==
    /\ pc[Engine] = "jobsDown"
    /\ Goto(Engine, "exited")
    /\ UNCHANGED <<on, outcome, workerVars, managerVars>>

-----------------------------------------------------------------------------
(* The steps of one thread, the choices of the outside world left out *)
Step(p) ==
    \/ /\ p \in Session
       /\ PublishStarting(p) \/ LockStart(p) \/ MarkRunning(p) \/ Announce(p)
    \/ p \in Session /\ StartStep(p) /\ UNCHANGED managerVars
    \/ p \in StopThread /\ (PublishStopping(p) \/ LockStop(p))
    \/ p \in StopThread /\ JoinLoop(p) /\ UNCHANGED managerVars
    \/ ReleaseStep(p) /\ UNCHANGED managerVars
    \/ Finish(p) \/ PublishEnd(p) \/ PublishIdle(p) \/ Leave(p)

WatchdogStep == Tick \/ Expire \/ Reap
EngineStep == JoinWatchdog \/ FindCurrent \/ StopCurrent \/ Exit

Environment ==
    \/ \E s \in Session : Claim(s) \/ Heartbeat(s) \/ LeaseLapse(s)
    \/ \E t \in Stopper, s \in Session : RequestStop(t, s)
    \/ BeginShutdown

Next ==
    \/ /\ ~Exited
       /\ \/ \E p \in Thread : Step(p)
          \/ \E s \in Session : LoopStep(s) /\ UNCHANGED managerVars
          \/ WatchdogStep
          \/ EngineStep
          \/ Environment
    \/ Exited /\ UNCHANGED vars

Spec == Init /\ [][Next]_vars

(* Threads run: a thread that can move does, a control loop at the top of  *)
(* an iteration sees its flag, an iteration may hang for ever (stop() does *)
(* not wait for it). The watchdog ticks every WATCHDOG_PERIOD_S, and time  *)
(* passes for the lease. Nothing makes a user start, stop or quit.         *)
Fairness ==
    /\ \A p \in Thread : WF_vars(~Exited /\ Step(p))
    /\ \A s \in Session : WF_vars(~Exited /\ stopSet[s] /\ LoopEnd(s) /\ UNCHANGED managerVars)
    /\ \A s \in Session : WF_vars(~Exited /\ LeaseLapse(s))
    /\ WF_vars(~Exited /\ WatchdogStep)
    /\ WF_vars(~Exited /\ EngineStep)

FairSpec == Spec /\ Fairness

-----------------------------------------------------------------------------
(* Safety *)

InStart(s) == pc[s] \in Starting \cup Releasing

(* worker.start() and worker.stop() of one session never overlap           *)
(* (session.py:93, 186-188), the watchdog's lock-free reap included.       *)
StartStopExclusive ==
    \A s \in Session, t \in StopThread : ~(InStart(s) /\ InStop(t, s))

(* Whoever energised the follower still answers for it: a worker's torque  *)
(* is on only while its session has the slot, or the session ended as      *)
(* "failed", or its start() ran after the session was already closed.      *)
EnergisedHasOwner ==
    \A s \in Session :
        torque[s] => live = s \/ info[s] = "failed" \/ "late" \in mishap[s]

(* The slot is not handed on with the serial port still open (the next     *)
(* session and the desktop open the same one, session.py:259), unless      *)
(* start() ran late or a lost camera hid the open port.                    *)
FreedSlotFreesPort ==
    \A s \in Session :
        port[s] => live = s \/ "late" \in mishap[s] \/ "leaked" \in mishap[s]

(* Torque is cut only with the arm back at rest, or after the ramp failed  *)
(* and said so (arm_worker.py:7-9), unless a control loop outlived the     *)
(* join or two threads were stopping the worker at once.                   *)
CutOnlyAtRest ==
    [][\A s \in Session :
          torque[s] /\ ~torque'[s] =>
              \/ ~away[s] \/ guardError[s]
              \/ "overrun" \in mishap[s] \/ "doubled" \in mishap[s]]_vars

(* Torque is never cut under a control loop that still runs, unless stop() *)
(* gave up waiting for it (arm_worker.py:125-128).                         *)
CutOnlyAfterLoop ==
    [][\A s \in Session :
          torque[s] /\ ~torque'[s] =>
              loop[s] \in {"none", "dead"} \/ "overrun" \in mishap[s]]_vars

(* The manager implements its abstract specification: one slot, each       *)
(* session through it at most once, and only its owner's end frees it,     *)
(* however late a second thread finishes the same session.                 *)
SlotRefinement == Slot!Spec

-----------------------------------------------------------------------------
(* Liveness *)

(* A client that goes silent does not leave the arm energised              *)
(* (session.py:7-10): the watchdog cuts torque, or the cut failed and was  *)
(* recorded, or the client came back, or the engine is gone.               *)
SilentArmReleased ==
    \A s \in Session :
        silent[s] /\ info[s] = "running" ~>
            ~silent[s] \/ ~torque[s] \/ guardError[s] \/ Exited

(* A stop, once asked for, ends: it may wait for start(), for the loop and *)
(* for the ramp, and for nobody who waits for it.                          *)
StopEnds ==
    \A s \in Session : info[s] = "stopping" ~> info[s] \in Ended \/ Exited

(* A session whose loop ended by itself is reaped (session.py:209).        *)
DeadLoopReaped ==
    \A s \in Session :
        info[s] = "running" /\ loop[s] = "dead" ~> info[s] \in Ended \/ Exited

-----------------------------------------------------------------------------
(* What comments and tests of the repository say, and the code does not do *)

(* "stop() must never overlap start(), or the arm is left energised"       *)
(* (session.py:187): a session that ended "stopped" has no torque on.      *)
StoppedIsReleased ==
    \A s \in Session : info[s] = "stopped" => ~torque[s]

(* "Engine shutdown must never leave the arm energised and unattended"     *)
(* (app.py:75), with no release that failed.                               *)
ShutdownReleases ==
    Exited => \A s \in Session : torque[s] => info[s] = "failed" \/ mishap[s] # {}

(* "start() failed and already released everything" (session.py:190), with *)
(* no release that failed.                                                 *)
FailedStartReleases ==
    \A s \in Session :
        pc[s] = "done" /\ loop[s] = "none" /\ ~guardError[s] => ~torque[s]
=============================================================================
