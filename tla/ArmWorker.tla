------------------------------ MODULE ArmWorker ------------------------------
(***************************************************************************)
(* The life of one arm worker (arm_worker.py), as the threads that run it  *)
(* see it: start() in the thread of the request that starts the session,   *)
(* the control loop in a thread of its own, and stop() in whichever thread *)
(* stops it. Nothing in this module keeps two of them apart: that is the   *)
(* session manager's job (module Session).                                 *)
(*                                                                         *)
(* A worker belongs to one session, and is named by it. The thread that    *)
(* starts session s is named s as well.                                    *)
(***************************************************************************)
CONSTANTS
    Session,      \* sessions; also their starter threads and their workers
    Stopper,      \* threads that serve DELETE /sessions/{id}
    Watchdog,     \* the lease watchdog's thread
    Engine,       \* the thread that runs the engine's shutdown
    NeedsLeader,  \* the sessions whose kind also drives a leader arm
    HasCameras,   \* the sessions whose follower carries cameras
    Faulty        \* the sessions whose devices, reads, writes or files may fail

ASSUME LeaderAssumption == NeedsLeader \subseteq Session
ASSUME CameraAssumption == HasCameras \subseteq Session
ASSUME FaultyAssumption == Faulty \subseteq Session
ASSUME ThreadAssumption ==
    /\ Session \cap (Stopper \cup {Watchdog, Engine}) = {}
    /\ Stopper \cap {Watchdog, Engine} = {}
    /\ Watchdog # Engine

VARIABLES
    pc,           \* where each thread is
    on,           \* the session a stopping thread works on
    outcome,      \* what a thread is about to publish of its session
    stopSet,      \* worker._stop
    loop,         \* the control thread: not started, between iterations, in one, over
    port,         \* the follower's serial port is open
    torque,       \* this worker energised the follower and has not cut it since
    guard,        \* worker._guard: none, made, or made and holding a rest pose
    away,         \* the arm was commanded off the captured rest pose
    guardError,   \* worker._guard.error is set
    error,        \* worker.error is set
    mishap        \* history: what went out of the ordinary around this worker

hardware == <<port, torque, guard, away, guardError>>
workerVars == <<stopSet, loop, port, torque, guard, away, guardError, error, mishap>>

Thread == Session \cup Stopper \cup {Watchdog, Engine}
StopThread == Thread \ Session

(* The worker a thread acts on. *)
Target(p) == IF p \in Session THEN p ELSE on[p]

(* Labels inside worker.start(), inside the shared release of the hardware *)
(* and inside worker.stop().                                               *)
Starting == {"connecting", "leader", "engaging", "readying", "started"}
Releasing == {"release", "ramping", "cutting", "closing"}

(* What the history remembers: start() ran on a session that had already   *)
(* been closed; stop() gave up on a control loop; two threads were inside  *)
(* stop() at once; a lost camera kept the port from being closed.          *)
Mishap == {"late", "overrun", "doubled", "leaked"}

WorkerInit ==
    /\ stopSet = [s \in Session |-> FALSE]
    /\ loop = [s \in Session |-> "none"]
    /\ port = [s \in Session |-> FALSE]
    /\ torque = [s \in Session |-> FALSE]
    /\ guard = [s \in Session |-> "none"]
    /\ away = [s \in Session |-> FALSE]
    /\ guardError = [s \in Session |-> FALSE]
    /\ error = [s \in Session |-> FALSE]
    /\ mishap = [s \in Session |-> {}]

WorkerTypeOK ==
    /\ stopSet \in [Session -> BOOLEAN]
    /\ loop \in [Session -> {"none", "alive", "busy", "dead"}]
    /\ port \in [Session -> BOOLEAN]
    /\ torque \in [Session -> BOOLEAN]
    /\ guard \in [Session -> {"none", "made", "rest"}]
    /\ away \in [Session -> BOOLEAN]
    /\ guardError \in [Session -> BOOLEAN]
    /\ error \in [Session -> BOOLEAN]
    /\ mishap \in [Session -> SUBSET Mishap]

Goto(p, label) == pc' = [pc EXCEPT ![p] = label]

(* Talking to the follower of session s fails, or may fail. *)
Fallible(s) == s \in Faulty \/ ~port[s]

-----------------------------------------------------------------------------
(* worker.start() *)

(* _prepare and make_follower and make_leader touch no hardware: their     *)
(* failures are the failure that leaves the port closed. connect() opens   *)
(* the port first and energises the arm last, so a failing connect never   *)
(* leaves torque on; with no guard yet, the release goes straight to the   *)
(* devices.                                                                *)
ConnectFollower(s) ==
    /\ pc[s] = "connecting"
    /\ \/ /\ port' = [port EXCEPT ![s] = TRUE]
          /\ torque' = [torque EXCEPT ![s] = TRUE]
          /\ Goto(s, "leader")
       \/ /\ s \in Faulty
          /\ \E opened \in BOOLEAN : port' = [port EXCEPT ![s] = opened]
          /\ Goto(s, "release")
          /\ UNCHANGED torque
    /\ UNCHANGED <<on, outcome, stopSet, loop, guard, away, guardError, error, mishap>>

ConnectLeader(s) ==
    /\ pc[s] = "leader"
    /\ \/ /\ guard' = [guard EXCEPT ![s] = "made"]
          /\ Goto(s, "engaging")
       \/ /\ s \in NeedsLeader \cap Faulty
          /\ Goto(s, "release")
          /\ UNCHANGED guard
    /\ UNCHANGED <<on, outcome, stopSet, loop, port, torque, away, guardError, error, mishap>>

(* capture_rest: a steady run of valid reads, or none within its attempts. *)
Engage(s) ==
    /\ pc[s] = "engaging"
    /\ \/ /\ guard' = [guard EXCEPT ![s] = "rest"]
          /\ Goto(s, "readying")
       \/ /\ s \in Faulty
          /\ Goto(s, "release")
          /\ UNCHANGED guard
    /\ UNCHANGED <<on, outcome, stopSet, loop, port, torque, away, guardError, error, mishap>>

(* The subclass hook: a replay drives the arm to its first frame here, so  *)
(* the arm may have left the rest pose, whether the hook succeeds or not.  *)
Ready(s) ==
    /\ pc[s] = "readying"
    /\ \E moved \in BOOLEAN : away' = [away EXCEPT ![s] = moved]
    /\ \/ /\ loop' = [loop EXCEPT ![s] = "alive"]
          /\ Goto(s, "started")
       \/ /\ s \in Faulty
          /\ Goto(s, "release")
          /\ UNCHANGED loop
    /\ UNCHANGED <<on, outcome, stopSet, port, torque, guard, guardError, error, mishap>>

-----------------------------------------------------------------------------
JoinLoopForever(p) ==  \* mutant: joined without a timeout
    /\ pc[p] = "joining"
    /\ loop[Target(p)] \in {"none", "dead"}
    /\ Goto(p, "release")
    /\ UNCHANGED <<on, outcome, workerVars>>

(* worker.stop() up to the release: raise the flag, then wait for the loop *)
(* for at most a minute. A loop that is not inside an iteration sees the   *)
(* flag well within that.                                                  *)
JoinLoop(p) ==
    /\ pc[p] = "joining"
    /\ LET s == Target(p) IN
        /\ \/ /\ loop[s] \in {"none", "dead"}
              /\ UNCHANGED mishap
           \/ /\ loop[s] = "busy"
              /\ mishap' = [mishap EXCEPT ![s] = @ \cup {"overrun"}]
    /\ Goto(p, "release")
    /\ UNCHANGED <<on, outcome, stopSet, loop, hardware, error>>

StartReleaseNoRamp(p) ==   \* mutant: torque is cut where the arm stands
    /\ pc[p] = "release"
    /\ Goto(p, IF guard[Target(p)] = "none" THEN "closing" ELSE "cutting")
    /\ UNCHANGED <<on, outcome, workerVars>>

(* FollowerGuard.release: nothing without a guard, no ramp without a rest  *)
(* pose. The ramp starts from one valid read; with no valid read, or on a  *)
(* closed port, it fails without moving the arm.                           *)
StartRelease(p) ==
    /\ pc[p] = "release"
    /\ LET s == Target(p) IN
        \/ /\ guard[s] = "none"
           /\ Goto(p, "closing")
           /\ UNCHANGED guardError
        \/ /\ guard[s] = "made"
           /\ Goto(p, "cutting")
           /\ UNCHANGED guardError
        \/ /\ guard[s] = "rest" /\ port[s]
           /\ Goto(p, "ramping")
           /\ UNCHANGED guardError
        \/ /\ guard[s] = "rest" /\ Fallible(s)
           /\ guardError' = [guardError EXCEPT ![s] = TRUE]
           /\ Goto(p, "cutting")
    /\ UNCHANGED <<on, outcome, stopSet, loop, port, torque, guard, away, error, mishap>>

(* A command part of the way: the ramp steps from its own last command, so *)
(* it pulls the arm off a rest pose another thread may have reached.       *)
RampStep(p) ==
    /\ pc[p] = "ramping"
    /\ port[Target(p)]
    /\ away' = [away EXCEPT ![Target(p)] = TRUE]
    /\ UNCHANGED <<pc, on, outcome, stopSet, loop, port, torque, guard, guardError, error, mishap>>

(* The last command is the rest pose itself; or a write fails or the steps *)
(* run out.                                                                *)
EndRamp(p) ==
    /\ pc[p] = "ramping"
    /\ \/ /\ port[Target(p)]
          /\ away' = [away EXCEPT ![Target(p)] = FALSE]
          /\ UNCHANGED guardError
       \/ /\ Fallible(Target(p))
          /\ guardError' = [guardError EXCEPT ![Target(p)] = TRUE]
          /\ UNCHANGED away
    /\ Goto(p, "cutting")
    /\ UNCHANGED <<on, outcome, stopSet, loop, port, torque, guard, error, mishap>>

CutTorqueEscapes(p) ==   \* mutant: a failing cut escapes release()
    /\ pc[p] = "cutting"
    /\ \/ /\ port[Target(p)]
          /\ torque' = [torque EXCEPT ![Target(p)] = FALSE]
          /\ Goto(p, "closing")
          /\ UNCHANGED outcome
       \/ /\ Fallible(Target(p))
          /\ outcome' = [outcome EXCEPT ![p] = "failed"]
          /\ Goto(p, "finishing")
          /\ UNCHANGED torque
    /\ UNCHANGED <<on, stopSet, loop, port, guard, away, guardError, error, mishap>>

(* A torque-off that fails is kept as the guard's error, never raised.     *)
CutTorque(p) ==
    /\ pc[p] = "cutting"
    /\ \/ /\ port[Target(p)]
          /\ torque' = [torque EXCEPT ![Target(p)] = FALSE]
          /\ UNCHANGED guardError
       \/ /\ Fallible(Target(p))
          /\ guardError' = [guardError EXCEPT ![Target(p)] = TRUE]
          /\ UNCHANGED torque
    /\ Goto(p, "closing")
    /\ UNCHANGED <<on, outcome, stopSet, loop, port, guard, away, error, mishap>>

FailureOfLoop(s) == error[s]   \* mutant: the guard's error is dropped

(* self.error or self._guard.error *)
Failure(s) == error[s] \/ guardError[s]

(* The guard's error becomes the worker's; the devices that say they are   *)
(* connected are closed, which a follower with a lost camera does not say; *)
(* then _finalize runs, and its failure is an error too. What the session  *)
(* manager will say of the session is settled here, where it reads         *)
(* worker.error; a failed start is "failed" whatever the worker says.      *)
CloseDevices(p) ==
    /\ pc[p] = "closing"
    /\ LET s == Target(p) IN
        /\ \/ /\ port' = [port EXCEPT ![s] = FALSE]
              /\ UNCHANGED mishap
           \/ /\ s \in HasCameras \cap Faulty
              /\ mishap' = [mishap EXCEPT ![s] = @ \cup {"leaked"}]
              /\ UNCHANGED port
        /\ \E finalizeFails \in BOOLEAN :
              /\ finalizeFails => s \in Faulty
              /\ error' = [error EXCEPT ![s] = Failure(s) \/ finalizeFails]
        /\ outcome' = [outcome EXCEPT ![p] =
              IF p \in Session \/ error'[s] THEN "failed" ELSE "stopped"]
    /\ Goto(p, "finishing")
    /\ UNCHANGED <<on, stopSet, loop, torque, guard, away, guardError>>

-----------------------------------------------------------------------------
(* The control thread: it looks at the flag between iterations only, and   *)
(* an iteration may take long (a slow read, an episode being saved).       *)

LoopIterate(s) ==
    /\ loop[s] = "alive"
    /\ ~stopSet[s]
    /\ loop' = [loop EXCEPT ![s] = "busy"]
    /\ UNCHANGED <<pc, on, outcome, stopSet, hardware, error, mishap>>

(* One iteration commands the arm, and may go on with slower work. *)
LoopCommand(s) ==
    /\ loop[s] = "busy"
    /\ port[s]
    /\ away' = [away EXCEPT ![s] = TRUE]
    /\ \E after \in {"busy", "alive"} : loop' = [loop EXCEPT ![s] = after]
    /\ UNCHANGED <<pc, on, outcome, stopSet, port, torque, guard, guardError, error, mishap>>

(* Any failure inside an iteration, a closed port among them, ends the     *)
(* loop and is kept as the worker's error.                                 *)
LoopFail(s) ==
    /\ loop[s] = "busy"
    /\ Fallible(s)
    /\ loop' = [loop EXCEPT ![s] = "dead"]
    /\ error' = [error EXCEPT ![s] = TRUE]
    /\ UNCHANGED <<pc, on, outcome, stopSet, hardware, mishap>>

(* The flag is seen, or the kind's work is done (a replayed episode, the   *)
(* last recorded one): the thread ends.                                    *)
LoopEnd(s) ==
    /\ loop[s] = "alive"
    /\ loop' = [loop EXCEPT ![s] = "dead"]
    /\ UNCHANGED <<pc, on, outcome, stopSet, hardware, error, mishap>>

-----------------------------------------------------------------------------
StartStep(s) == ConnectFollower(s) \/ ConnectLeader(s) \/ Engage(s) \/ Ready(s)

ReleaseStep(p) ==
    StartRelease(p) \/ RampStep(p) \/ EndRamp(p) \/ CutTorque(p) \/ CloseDevices(p)

LoopStep(s) == LoopIterate(s) \/ LoopCommand(s) \/ LoopFail(s) \/ LoopEnd(s)
=============================================================================
