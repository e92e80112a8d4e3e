---------------------------- MODULE SessionProofs ----------------------------
(***************************************************************************)
(* Proofs about module Session, for every set of sessions, every set of    *)
(* DELETE threads and every choice of which sessions have leaders, cameras *)
(* and failing devices. The inductive invariant is IInv of module          *)
(* SessionInv; there is one lemma for each action that it is preserved,    *)
(* with its conjuncts as steps.                                            *)
(***************************************************************************)
EXTENDS SessionInv, TLAPS

(* Labels, tuples of variables and the invariant's own abbreviations are   *)
(* expanded throughout.                                                    *)
USE DEF hardware, workerVars, managerVars, Goto, Target,
        Starting, Releasing, EndLabel, StarterLabel, StopLabel,
        IInv, WorkerTypeOK, InStarterSection, InStopSection, Through, InStop

(* The threads: starters are named by their sessions, and are not among the *)
(* threads that stop sessions.                                              *)
LEMMA Threads ==
    /\ Session \subseteq Thread
    /\ StopThread \subseteq Thread
    /\ \A p \in Thread : p \in Session \/ p \in StopThread
    /\ \A p \in Session : p \notin StopThread
    /\ Watchdog \in StopThread /\ Engine \in StopThread /\ Watchdog # Engine
    /\ NoSession \notin Session
    /\ Free \notin Thread
BY ThreadAssumption, NoSessionAssumption, FreeAssumption DEF Thread, StopThread

(* The start_lock, and the order of start() and reap where it is not taken, *)
(* keep the two critical sections of one session apart.                     *)
LEMMA SectionsExclusive ==
    ASSUME IInv
    PROVE  \A s \in Session, t \in StopThread :
               InStarterSection(s) /\ InStopSection(t) => on[t] # s
BY Threads DEF LockInv

-----------------------------------------------------------------------------
(* SessionManager.start *)

(* Claim preserves the inductive invariant. *)
LEMMA ClaimStep ==
    ASSUME IInv, NEW s \in Session, Claim(s)
    PROVE  IInv'
<1>1. TypeOK'
    BY Threads DEF TypeOK, TargetInv, OutcomeInv, Active, Ended, State, Mishap, Claim, ShuttingDown
<1>2. LabelInv' /\ TargetInv' /\ OutcomeInv'
    BY Threads DEF TypeOK, LabelInv, TargetInv, OutcomeInv, Ended, Claim, ShuttingDown
<1>3. LockInv'
    BY Threads DEF TypeOK, LabelInv, LockInv, TargetInv, SlotInv, Claim, ShuttingDown
<1>4. SlotInv'
  <2>1. (\A x \in Session : live = x <=> info[x] \in Active)'
    BY Threads
    DEF TypeOK, LabelInv, LockInv, TargetInv, SlotInv, OutcomeInv, Active, Ended, State, Claim,
        ShuttingDown
  <2>2. (\A x \in Session : pc[x] = "new" <=> info[x] = "none")'
    BY Threads
    DEF TypeOK, LabelInv, LockInv, TargetInv, SlotInv, OutcomeInv, Active, Ended, State, Claim,
        ShuttingDown
  <2>3. (\A x \in Session : info[x] = "running" => Through(x))'
    BY Threads
    DEF TypeOK, LabelInv, LockInv, TargetInv, SlotInv, OutcomeInv, Active, Ended, State, Claim,
        ShuttingDown
  <2>4. (\A x \in Session : info[x] = "starting" => ~Through(x))'
    BY Threads
    DEF TypeOK, LabelInv, LockInv, TargetInv, SlotInv, OutcomeInv, Active, Ended, State, Claim,
        ShuttingDown
  <2>5. (\A x \in Session : pc[x] \in {"ending", "idling", "freeing"} => live # x)'
    BY Threads
    DEF TypeOK, LabelInv, LockInv, TargetInv, SlotInv, OutcomeInv, Active, Ended, State, Claim,
        ShuttingDown
  <2>6. (\A x \in Session : pc[x] \in Starting \cup Releasing \cup {"finishing"} =>
             live = x \/ "late" \in mishap[x])'
    BY Threads
    DEF TypeOK, LabelInv, LockInv, TargetInv, SlotInv, OutcomeInv, Active, Ended, State, Claim,
        ShuttingDown
  <2>7. (\A u \in StopThread :
             InStopSection(u) \/ pc[u] \in {"marked", "wanting"} =>
                 info[on[u]] \notin {"none", "starting"})'
    BY Threads
    DEF TypeOK, LabelInv, LockInv, TargetInv, SlotInv, OutcomeInv, Active, Ended, State, Claim,
        ShuttingDown
  <2> QED
    BY <2>1, <2>2, <2>3, <2>4, <2>5, <2>6, <2>7 DEF SlotInv
<1>5. GuardInv' /\ TorqueInv'
    BY Threads
    DEF TypeOK, LabelInv, TargetInv, SlotInv, GuardInv, TorqueInv, Ended, Claim, ShuttingDown
<1>6. PortInv' /\ LoopInv'
    BY Threads DEF TypeOK, LabelInv, TargetInv, PortInv, LoopInv, Claim, ShuttingDown
<1>7. RestInv'
    BY Threads DEF TypeOK, LabelInv, TargetInv, RestInv, Claim, ShuttingDown
<1>8. EnergisedHasOwner' /\ FreedSlotFreesPort'
    BY Threads
    DEF TypeOK, EnergisedHasOwner, SlotInv, FreedSlotFreesPort, Ended, Active, Claim, ShuttingDown
<1> QED
    BY <1>1, <1>2, <1>3, <1>4, <1>5, <1>6, <1>7, <1>8

(* PublishStarting preserves the inductive invariant. *)
LEMMA PublishStartingStep ==
    ASSUME IInv, NEW s \in Session, PublishStarting(s)
    PROVE  IInv'
<1>1. TypeOK'
    BY Threads DEF TypeOK, TargetInv, OutcomeInv, Active, Ended, State, Mishap, PublishStarting
<1>2. LabelInv' /\ TargetInv' /\ OutcomeInv'
    BY Threads DEF TypeOK, LabelInv, TargetInv, OutcomeInv, Ended, PublishStarting
<1>3. LockInv'
    BY Threads DEF TypeOK, LabelInv, LockInv, TargetInv, SlotInv, PublishStarting
<1>4. SlotInv'
    BY Threads DEF TypeOK, LabelInv, TargetInv, SlotInv, Active, Ended, State, PublishStarting
<1>5. GuardInv' /\ TorqueInv'
    BY Threads DEF TypeOK, LabelInv, TargetInv, SlotInv, GuardInv, TorqueInv, Ended, PublishStarting
<1>6. PortInv' /\ LoopInv'
    BY Threads DEF TypeOK, LabelInv, TargetInv, PortInv, LoopInv, PublishStarting
<1>7. RestInv'
    BY Threads DEF TypeOK, LabelInv, TargetInv, RestInv, PublishStarting
<1>8. EnergisedHasOwner' /\ FreedSlotFreesPort'
    BY Threads DEF TypeOK, EnergisedHasOwner, FreedSlotFreesPort, PublishStarting
<1> QED
    BY <1>1, <1>2, <1>3, <1>4, <1>5, <1>6, <1>7, <1>8

(* LockStart preserves the inductive invariant. *)
LEMMA LockStartStep ==
    ASSUME IInv, NEW s \in Session, LockStart(s)
    PROVE  IInv'
<1>1. TypeOK'
    BY Threads
    DEF TypeOK, TargetInv, OutcomeInv, Active, Ended, State, Mishap, LockStart, StartLockFree
<1>2. LabelInv' /\ TargetInv' /\ OutcomeInv'
    BY Threads DEF TypeOK, LabelInv, TargetInv, OutcomeInv, Ended, LockStart, StartLockFree
<1>3. LockInv'
    BY Threads DEF TypeOK, LabelInv, LockInv, TargetInv, SlotInv, LockStart, StartLockFree
<1>4. SlotInv'
    BY Threads
    DEF TypeOK, LabelInv, TargetInv, SlotInv, Active, Ended, State, LockStart, StartLockFree
<1>5. GuardInv' /\ TorqueInv'
    BY Threads
    DEF TypeOK, LabelInv, TargetInv, SlotInv, GuardInv, TorqueInv, Ended, LockStart, StartLockFree
<1>6. PortInv' /\ LoopInv'
    BY Threads DEF TypeOK, LabelInv, TargetInv, PortInv, LoopInv, LockStart, StartLockFree
<1>7. RestInv'
    BY Threads DEF TypeOK, LabelInv, TargetInv, RestInv, LockStart, StartLockFree
<1>8. EnergisedHasOwner' /\ FreedSlotFreesPort'
    BY Threads DEF TypeOK, EnergisedHasOwner, FreedSlotFreesPort, LockStart, StartLockFree
<1> QED
    BY <1>1, <1>2, <1>3, <1>4, <1>5, <1>6, <1>7, <1>8

-----------------------------------------------------------------------------
(* worker.start() *)

(* ConnectFollower preserves the inductive invariant. *)
LEMMA ConnectFollowerStep ==
    ASSUME IInv, NEW s \in Session, ConnectFollower(s) /\ UNCHANGED managerVars
    PROVE  IInv'
<1>1. TypeOK'
  <2>1. pc' \in [Thread -> StarterLabel \cup StopLabel \cup Releasing \cup EndLabel]
    BY Threads DEF TypeOK, LabelInv, TargetInv, ConnectFollower
  <2>2. port' \in [Session -> BOOLEAN]
    BY Threads DEF TypeOK, LabelInv, TargetInv, ConnectFollower
  <2>3. torque' \in [Session -> BOOLEAN]
    BY Threads DEF TypeOK, LabelInv, TargetInv, ConnectFollower
  <2> QED
    BY <2>1, <2>2, <2>3 DEF TypeOK, ConnectFollower
<1>2. LabelInv' /\ TargetInv' /\ OutcomeInv'
    BY Threads DEF TypeOK, LabelInv, TargetInv, OutcomeInv, Ended, ConnectFollower
<1>3. LockInv'
    BY Threads DEF TypeOK, LabelInv, LockInv, TargetInv, SlotInv, ConnectFollower
<1>4. SlotInv'
    BY Threads DEF TypeOK, LabelInv, TargetInv, SlotInv, Active, Ended, State, ConnectFollower
<1>5. GuardInv'
    BY Threads DEF TypeOK, LabelInv, TargetInv, SlotInv, GuardInv, ConnectFollower
<1>6. TorqueInv'
  <2>1. (\A x \in Session : pc[x] \in {"new", "claimed", "waiting", "connecting"} => ~torque[x])'
    BY Threads DEF TypeOK, LabelInv, LockInv, TargetInv, GuardInv, TorqueInv, ConnectFollower
  <2>2. (\A u \in StopThread :
             pc[u] \in {"joining", "release"} /\ guard[on[u]] = "none" => ~torque[on[u]])'
    BY Threads, SectionsExclusive DEF TypeOK, LabelInv, TargetInv, TorqueInv, ConnectFollower
  <2>3. (\A u \in StopThread :
             pc[u] = "closing" /\ torque[on[u]] => guardError[on[u]])'
    BY Threads, SectionsExclusive DEF TypeOK, LabelInv, TargetInv, TorqueInv, ConnectFollower
  <2>4. (\A u \in StopThread :
             pc[u] = "finishing" /\ outcome[u] = "stopped" => ~torque[on[u]])'
    BY Threads, SectionsExclusive DEF TypeOK, LabelInv, TargetInv, TorqueInv, ConnectFollower
  <2> QED
    BY <2>1, <2>2, <2>3, <2>4 DEF TorqueInv
<1>7. PortInv'
    BY Threads DEF TypeOK, LabelInv, TargetInv, PortInv, LockInv, ConnectFollower
<1>8. LoopInv'
    BY Threads DEF TypeOK, LabelInv, TargetInv, LoopInv, ConnectFollower
<1>9. RestInv'
    BY Threads DEF TypeOK, LabelInv, TargetInv, RestInv, ConnectFollower
<1>10. EnergisedHasOwner'
    BY Threads DEF TypeOK, EnergisedHasOwner, SlotInv, ConnectFollower
<1>11. FreedSlotFreesPort'
  <2>1. live = s \/ "late" \in mishap[s]
    BY DEF IInv, SlotInv, ConnectFollower, Starting
  <2> QED
    BY <2>1 DEF TypeOK, FreedSlotFreesPort, ConnectFollower
<1> QED
    BY <1>1, <1>2, <1>3, <1>4, <1>5, <1>6, <1>7, <1>8, <1>9, <1>10, <1>11

(* ConnectLeader preserves the inductive invariant. *)
LEMMA ConnectLeaderStep ==
    ASSUME IInv, NEW s \in Session, ConnectLeader(s) /\ UNCHANGED managerVars
    PROVE  IInv'
<1>1. TypeOK'
  <2>1. pc' \in [Thread -> StarterLabel \cup StopLabel \cup Releasing \cup EndLabel]
    BY Threads DEF TypeOK, LabelInv, TargetInv, ConnectLeader
  <2>2. WorkerTypeOK'
    BY Threads DEF TypeOK, LabelInv, TargetInv, ConnectLeader
  <2> QED
    BY <2>1, <2>2 DEF TypeOK, ConnectLeader
<1>2. LabelInv' /\ TargetInv' /\ OutcomeInv'
    BY Threads DEF TypeOK, LabelInv, TargetInv, OutcomeInv, Ended, ConnectLeader
<1>3. LockInv'
    BY Threads DEF TypeOK, LabelInv, LockInv, TargetInv, SlotInv, ConnectLeader
<1>4. SlotInv'
    BY Threads DEF TypeOK, LabelInv, TargetInv, SlotInv, Active, Ended, State, ConnectLeader
<1>5. GuardInv'
  <2>1. (\A x \in Session :
             pc[x] \in {"new", "claimed", "waiting", "connecting", "leader"} => guard[x] = "none")'
    BY Threads DEF TypeOK, LabelInv, LockInv, TargetInv, SlotInv, GuardInv, ConnectLeader
  <2>2. (\A x \in Session : pc[x] \in {"readying", "started", "announcing"} => guard[x] = "rest")'
    BY Threads DEF TypeOK, LabelInv, LockInv, TargetInv, SlotInv, GuardInv, ConnectLeader
  <2>3. (\A x \in Session : pc[x] = "done" /\ live = x => guard[x] = "rest")'
    BY Threads DEF TypeOK, LabelInv, LockInv, TargetInv, SlotInv, GuardInv, ConnectLeader
  <2>4. (pc[Watchdog] = "reaping" => guard[on[Watchdog]] = "rest")'
    BY Threads DEF TypeOK, LabelInv, LockInv, TargetInv, SlotInv, GuardInv, ConnectLeader
  <2>5. (\A q \in Thread : pc[q] = "ramping" => guard[Target(q)] = "rest")'
    BY Threads DEF TypeOK, LabelInv, LockInv, TargetInv, SlotInv, GuardInv, ConnectLeader
  <2>6. (\A x \in Session : loop[x] # "none" => guard[x] = "rest")'
    BY Threads DEF TypeOK, LabelInv, LockInv, TargetInv, SlotInv, GuardInv, ConnectLeader
  <2>7. (\A x \in Session : guard[x] # "rest" => ~away[x])'
    BY Threads DEF TypeOK, LabelInv, LockInv, TargetInv, SlotInv, GuardInv, ConnectLeader
  <2> QED
    BY <2>1, <2>2, <2>3, <2>4, <2>5, <2>6, <2>7 DEF GuardInv
<1>6. TorqueInv'
    BY Threads DEF TypeOK, LabelInv, TargetInv, TorqueInv, Ended, ConnectLeader
<1>7. PortInv'
    BY Threads DEF TypeOK, LabelInv, TargetInv, PortInv, ConnectLeader
<1>8. LoopInv'
    BY Threads DEF TypeOK, LabelInv, TargetInv, LoopInv, ConnectLeader
<1>9. RestInv'
    BY Threads DEF TypeOK, LabelInv, TargetInv, RestInv, ConnectLeader
<1>10. EnergisedHasOwner' /\ FreedSlotFreesPort'
    BY Threads DEF TypeOK, EnergisedHasOwner, FreedSlotFreesPort, ConnectLeader
<1> QED
    BY <1>1, <1>2, <1>3, <1>4, <1>5, <1>6, <1>7, <1>8, <1>9, <1>10

(* Engage preserves the inductive invariant. *)
LEMMA EngageStep ==
    ASSUME IInv, NEW s \in Session, Engage(s) /\ UNCHANGED managerVars
    PROVE  IInv'
<1>1. TypeOK'
    BY Threads DEF TypeOK, TargetInv, OutcomeInv, Active, Ended, State, Mishap, Engage
<1>2. LabelInv'
    BY Threads DEF TypeOK, LabelInv, Engage
<1>3. TargetInv'
    BY Threads DEF TypeOK, LabelInv, TargetInv, Engage
<1>4. OutcomeInv'
    BY Threads DEF TypeOK, LabelInv, OutcomeInv, Ended, Engage
<1>5. LockInv'
    BY Threads DEF TypeOK, LabelInv, LockInv, TargetInv, SlotInv, Engage
<1>6. SlotInv'
    BY Threads DEF TypeOK, LabelInv, TargetInv, SlotInv, Active, Ended, State, Engage
<1>7. GuardInv' /\ TorqueInv'
    BY Threads DEF TypeOK, LabelInv, TargetInv, SlotInv, GuardInv, TorqueInv, Ended, Engage
<1>8. PortInv'
    BY Threads DEF TypeOK, LabelInv, TargetInv, PortInv, Engage
<1>9. LoopInv'
    BY Threads DEF TypeOK, LabelInv, TargetInv, LoopInv, Engage
<1>10. RestInv'
    BY Threads DEF TypeOK, LabelInv, TargetInv, RestInv, LockInv, Engage
<1>11. EnergisedHasOwner' /\ FreedSlotFreesPort'
    BY Threads DEF TypeOK, EnergisedHasOwner, FreedSlotFreesPort, Engage
<1> QED
    BY <1>1, <1>2, <1>3, <1>4, <1>5, <1>6, <1>7, <1>8, <1>9, <1>10, <1>11

(* Ready preserves the inductive invariant. *)
LEMMA ReadyStep ==
    ASSUME IInv, NEW s \in Session, Ready(s) /\ UNCHANGED managerVars
    PROVE  IInv'
<1>1. TypeOK'
    BY Threads DEF TypeOK, TargetInv, OutcomeInv, Active, Ended, State, Mishap, Ready
<1>2. LabelInv'
    BY Threads DEF TypeOK, LabelInv, Ready
<1>3. TargetInv'
    BY Threads DEF TypeOK, LabelInv, TargetInv, Ready
<1>4. OutcomeInv'
    BY Threads DEF TypeOK, LabelInv, OutcomeInv, Ended, Ready
<1>5. LockInv'
    BY Threads DEF TypeOK, LabelInv, LockInv, TargetInv, SlotInv, Ready
<1>6. SlotInv'
    BY Threads DEF TypeOK, LabelInv, TargetInv, SlotInv, Active, Ended, State, Ready
<1>7. GuardInv' /\ TorqueInv'
    BY Threads DEF TypeOK, LabelInv, TargetInv, SlotInv, GuardInv, TorqueInv, Ended, Ready
<1>8. PortInv'
    BY Threads DEF TypeOK, LabelInv, TargetInv, PortInv, Ready
<1>9. LoopInv'
  <2>1. (\A x \in Session : loop[x] # "none" => pc[x] \in {"started", "announcing", "done"})'
    BY Threads DEF TypeOK, LabelInv, LockInv, TargetInv, LoopInv, Ready
  <2>2. (\A q \in Thread : pc[q] \in Releasing =>
             loop[Target(q)] \in {"none", "dead"} \/ "overrun" \in mishap[Target(q)])'
    BY Threads DEF TypeOK, LabelInv, LockInv, TargetInv, LoopInv, Ready
  <2> QED
    BY <2>1, <2>2 DEF LoopInv
<1>10. RestInv'
    BY Threads DEF TypeOK, LabelInv, TargetInv, RestInv, LockInv, Ready
<1>11. EnergisedHasOwner' /\ FreedSlotFreesPort'
    BY Threads DEF TypeOK, EnergisedHasOwner, FreedSlotFreesPort, Ready
<1> QED
    BY <1>1, <1>2, <1>3, <1>4, <1>5, <1>6, <1>7, <1>8, <1>9, <1>10, <1>11

(* MarkRunning preserves the inductive invariant. *)
LEMMA MarkRunningStep ==
    ASSUME IInv, NEW s \in Session, MarkRunning(s)
    PROVE  IInv'
<1>1. TypeOK'
  <2>1. pc' \in [Thread -> StarterLabel \cup StopLabel \cup Releasing \cup EndLabel]
    BY Threads DEF TypeOK, LabelInv, TargetInv, MarkRunning
  <2>2. outcome' \in [Thread -> {"none", "running", "stopping"} \cup Ended]
    BY Threads DEF TypeOK, LabelInv, TargetInv, MarkRunning, SlotInv, State, Active, Ended
  <2>3. info' \in [Session -> State]
    BY Threads DEF TypeOK, LabelInv, TargetInv, MarkRunning, State, Active
  <2>4. silent' \in [Session -> BOOLEAN]
    BY Threads DEF TypeOK, LabelInv, TargetInv, MarkRunning
  <2>5. startLock' \in [Session -> Thread \cup {Free}]
    BY Threads DEF TypeOK, LabelInv, TargetInv, MarkRunning
  <2> QED
    BY <2>1, <2>2, <2>3, <2>4, <2>5 DEF TypeOK, MarkRunning
<1>2. LabelInv' /\ TargetInv' /\ OutcomeInv'
    BY Threads DEF TypeOK, LabelInv, TargetInv, OutcomeInv, Ended, MarkRunning
<1>3. LockInv'
    BY Threads DEF TypeOK, LabelInv, LockInv, TargetInv, SlotInv, MarkRunning
<1>4. SlotInv'
    BY Threads DEF TypeOK, LabelInv, TargetInv, SlotInv, Active, Ended, State, MarkRunning
<1>5. GuardInv' /\ TorqueInv'
    BY Threads DEF TypeOK, LabelInv, TargetInv, SlotInv, GuardInv, TorqueInv, Ended, MarkRunning
<1>6. PortInv' /\ LoopInv'
    BY Threads DEF TypeOK, LabelInv, TargetInv, PortInv, LoopInv, MarkRunning
<1>7. RestInv'
    BY Threads DEF TypeOK, LabelInv, TargetInv, RestInv, MarkRunning
<1>8. EnergisedHasOwner' /\ FreedSlotFreesPort'
    BY Threads
    DEF TypeOK, EnergisedHasOwner, SlotInv, FreedSlotFreesPort, Ended, Active, MarkRunning
<1> QED
    BY <1>1, <1>2, <1>3, <1>4, <1>5, <1>6, <1>7, <1>8

(* Announce preserves the inductive invariant. *)
LEMMA AnnounceStep ==
    ASSUME IInv, NEW s \in Session, Announce(s)
    PROVE  IInv'
<1>1. TypeOK'
    BY Threads DEF TypeOK, TargetInv, OutcomeInv, Active, Ended, State, Mishap, Announce
<1>2. LabelInv' /\ TargetInv' /\ OutcomeInv'
    BY Threads DEF TypeOK, LabelInv, TargetInv, OutcomeInv, Ended, Announce
<1>3. LockInv'
    BY Threads DEF TypeOK, LabelInv, LockInv, TargetInv, SlotInv, Announce
<1>4. SlotInv'
    BY Threads DEF TypeOK, LabelInv, TargetInv, SlotInv, Active, Ended, State, Announce
<1>5. GuardInv' /\ TorqueInv'
    BY Threads DEF TypeOK, LabelInv, TargetInv, SlotInv, GuardInv, TorqueInv, Ended, Announce
<1>6. PortInv' /\ LoopInv'
    BY Threads DEF TypeOK, LabelInv, TargetInv, PortInv, LoopInv, Announce
<1>7. RestInv'
    BY Threads DEF TypeOK, LabelInv, TargetInv, RestInv, Announce
<1>8. EnergisedHasOwner' /\ FreedSlotFreesPort'
    BY Threads DEF TypeOK, EnergisedHasOwner, FreedSlotFreesPort, Announce
<1> QED
    BY <1>1, <1>2, <1>3, <1>4, <1>5, <1>6, <1>7, <1>8

-----------------------------------------------------------------------------
(* SessionManager.stop *)

(* MarkStopping preserves the inductive invariant. *)
LEMMA MarkStoppingStep ==
    ASSUME IInv, NEW t \in StopThread, NEW s \in Session, NEW from \in {"idle", "expired", "stopAsked"}, MarkStopping(t, s, from)
    PROVE  IInv'
<1>1. TypeOK'
  <2>1. pc' \in [Thread -> StarterLabel \cup StopLabel \cup Releasing \cup EndLabel]
    BY Threads DEF TypeOK, LabelInv, TargetInv, MarkStopping, Return, Home
  <2>2. on' \in [StopThread -> Session \cup {NoSession}]
    BY Threads DEF TypeOK, LabelInv, TargetInv, MarkStopping, Return, Home
  <2>3. info' \in [Session -> State]
    BY Threads DEF TypeOK, LabelInv, TargetInv, MarkStopping, Return, Home, State, Active
  <2> QED
    BY <2>1, <2>2, <2>3 DEF TypeOK, MarkStopping, Return, Home
<1>2. LabelInv'
  <2>1. (\A x \in Session : pc[x] \in StarterLabel \cup Releasing \cup EndLabel)'
    BY Threads DEF TypeOK, LabelInv, MarkStopping, Return, Home
  <2>2. (\A u \in StopThread : pc[u] \in StopLabel \cup Releasing \cup EndLabel)'
    BY Threads DEF TypeOK, LabelInv, MarkStopping, Return, Home
  <2> QED
    BY <2>1, <2>2 DEF LabelInv
<1>3. TargetInv'
    BY Threads DEF TypeOK, LabelInv, TargetInv, MarkStopping, Return, Home
<1>4. OutcomeInv'
    BY Threads DEF TypeOK, LabelInv, OutcomeInv, Ended, MarkStopping, Return, Home
<1>5. LockInv'
  <2>1. (\A x \in Session : InStarterSection(x) => startLock[x] = x)'
    BY Threads DEF TypeOK, LabelInv, LockInv, TargetInv, SlotInv, MarkStopping, Return, Home
  <2>2. (\A u \in StopThread :
             InStopSection(u) => \/ startLock[on[u]] = u
                                 \/ u = Watchdog /\ Through(on[u]))'
    BY Threads DEF TypeOK, LabelInv, LockInv, TargetInv, SlotInv, MarkStopping, Return, Home
  <2>3. (pc[Watchdog] = "reaping" => Through(on[Watchdog]))'
    BY Threads DEF TypeOK, LabelInv, LockInv, TargetInv, SlotInv, MarkStopping, Return, Home
  <2> QED
    BY <2>1, <2>2, <2>3 DEF LockInv
<1>6. SlotInv'
  <2>1. (\A x \in Session : live = x <=> info[x] \in Active)'
    BY Threads
    DEF TypeOK, LabelInv, TargetInv, SlotInv, Active, Ended, State, MarkStopping, Return, Home
  <2>2. (\A x \in Session : pc[x] = "new" <=> info[x] = "none")'
    BY Threads
    DEF TypeOK, LabelInv, TargetInv, SlotInv, Active, Ended, State, MarkStopping, Return, Home
  <2>3. (\A x \in Session : info[x] = "running" => Through(x))'
    BY Threads
    DEF TypeOK, LabelInv, TargetInv, SlotInv, Active, Ended, State, MarkStopping, Return, Home
  <2>4. (\A x \in Session : info[x] = "starting" => ~Through(x))'
    BY Threads
    DEF TypeOK, LabelInv, TargetInv, SlotInv, Active, Ended, State, MarkStopping, Return, Home
  <2>5. (\A x \in Session : pc[x] \in {"ending", "idling", "freeing"} => live # x)'
    BY Threads
    DEF TypeOK, LabelInv, TargetInv, SlotInv, Active, Ended, State, MarkStopping, Return, Home
  <2>6. (\A x \in Session : pc[x] \in Starting \cup Releasing \cup {"finishing"} =>
             live = x \/ "late" \in mishap[x])'
    BY Threads
    DEF TypeOK, LabelInv, TargetInv, SlotInv, Active, Ended, State, MarkStopping, Return, Home
  <2>7. (\A u \in StopThread :
             InStopSection(u) \/ pc[u] \in {"marked", "wanting"} =>
                 info[on[u]] \notin {"none", "starting"})'
    BY Threads
    DEF TypeOK, LabelInv, TargetInv, SlotInv, Active, Ended, State, MarkStopping, Return, Home
  <2> QED
    BY <2>1, <2>2, <2>3, <2>4, <2>5, <2>6, <2>7 DEF SlotInv
<1>7. GuardInv'
    BY Threads DEF TypeOK, LabelInv, TargetInv, SlotInv, GuardInv, MarkStopping, Return, Home
<1>8. TorqueInv'
  <2>1. (\A x \in Session : pc[x] \in {"new", "claimed", "waiting", "connecting"} => ~torque[x])'
    BY Threads DEF TypeOK, LabelInv, TargetInv, TorqueInv, MarkStopping, Return, Home
  <2>2. (\A u \in StopThread :
             pc[u] \in {"joining", "release"} /\ guard[on[u]] = "none" => ~torque[on[u]])'
    BY Threads DEF TypeOK, LabelInv, TargetInv, TorqueInv, MarkStopping, Return, Home
  <2>3. (\A u \in StopThread :
             pc[u] = "closing" /\ torque[on[u]] => guardError[on[u]])'
    BY Threads DEF TypeOK, LabelInv, TargetInv, TorqueInv, MarkStopping, Return, Home
  <2>4. (\A u \in StopThread :
             pc[u] = "finishing" /\ outcome[u] = "stopped" => ~torque[on[u]])'
    BY Threads DEF TypeOK, LabelInv, TargetInv, TorqueInv, MarkStopping, Return, Home
  <2> QED
    BY <2>1, <2>2, <2>3, <2>4 DEF TorqueInv
<1>9. PortInv'
    BY Threads DEF TypeOK, LabelInv, TargetInv, PortInv, MarkStopping, Return, Home
<1>10. LoopInv'
  <2>1. (\A x \in Session : loop[x] # "none" => pc[x] \in {"started", "announcing", "done"})'
    BY Threads DEF TypeOK, LabelInv, TargetInv, LoopInv, MarkStopping, Return, Home
  <2>2. (\A q \in Thread : pc[q] \in Releasing =>
             loop[Target(q)] \in {"none", "dead"} \/ "overrun" \in mishap[Target(q)])'
    BY Threads DEF TypeOK, LabelInv, TargetInv, LoopInv, MarkStopping, Return, Home
  <2> QED
    BY <2>1, <2>2 DEF LoopInv
<1>11. RestInv'
  <2>1. (\A u, w \in StopThread :
             u # w /\ InStop(u, on[u]) /\ InStop(w, on[u]) => "doubled" \in mishap[on[u]])'
    BY Threads DEF TypeOK, LabelInv, TargetInv, RestInv, MarkStopping, Return, Home
  <2>2. (\A q \in Thread : pc[q] = "cutting" =>
             \/ ~away[Target(q)]
             \/ guardError[Target(q)]
             \/ "overrun" \in mishap[Target(q)]
             \/ "doubled" \in mishap[Target(q)])'
    BY Threads DEF TypeOK, LabelInv, TargetInv, RestInv, MarkStopping, Return, Home
  <2> QED
    BY <2>1, <2>2 DEF RestInv
<1>12. EnergisedHasOwner' /\ FreedSlotFreesPort'
    BY Threads
    DEF TypeOK, EnergisedHasOwner, SlotInv, FreedSlotFreesPort, Ended, Active, MarkStopping, Return,
        Home
<1> QED
    BY <1>1, <1>2, <1>3, <1>4, <1>5, <1>6, <1>7, <1>8, <1>9, <1>10, <1>11, <1>12

(* PublishStopping preserves the inductive invariant. *)
LEMMA PublishStoppingStep ==
    ASSUME IInv, NEW t \in StopThread, PublishStopping(t)
    PROVE  IInv'
<1>1. TypeOK'
    BY Threads DEF TypeOK, TargetInv, OutcomeInv, Active, Ended, State, Mishap, PublishStopping
<1>2. LabelInv' /\ TargetInv' /\ OutcomeInv'
    BY Threads DEF TypeOK, LabelInv, TargetInv, OutcomeInv, Ended, PublishStopping
<1>3. LockInv'
    BY Threads DEF TypeOK, LabelInv, LockInv, TargetInv, SlotInv, PublishStopping
<1>4. SlotInv'
    BY Threads DEF TypeOK, LabelInv, TargetInv, SlotInv, Active, Ended, State, PublishStopping
<1>5. GuardInv' /\ TorqueInv'
    BY Threads DEF TypeOK, LabelInv, TargetInv, SlotInv, GuardInv, TorqueInv, Ended, PublishStopping
<1>6. PortInv' /\ LoopInv'
    BY Threads DEF TypeOK, LabelInv, TargetInv, PortInv, LoopInv, PublishStopping
<1>7. RestInv'
    BY Threads DEF TypeOK, LabelInv, TargetInv, RestInv, PublishStopping
<1>8. EnergisedHasOwner' /\ FreedSlotFreesPort'
    BY Threads DEF TypeOK, EnergisedHasOwner, FreedSlotFreesPort, PublishStopping
<1> QED
    BY <1>1, <1>2, <1>3, <1>4, <1>5, <1>6, <1>7, <1>8

(* LockStop preserves the inductive invariant. *)
LEMMA LockStopStep ==
    ASSUME IInv, NEW t \in StopThread, LockStop(t)
    PROVE  IInv'
<1>1. TypeOK'
  <2>1. pc' \in [Thread -> StarterLabel \cup StopLabel \cup Releasing \cup EndLabel]
    BY Threads DEF TypeOK, LabelInv, TargetInv, LockStop, StartLockFree, Return, Home, Doubled
  <2>2. on' \in [StopThread -> Session \cup {NoSession}]
    BY Threads DEF TypeOK, LabelInv, TargetInv, LockStop, StartLockFree, Return, Home, Doubled
  <2>3. stopSet' \in [Session -> BOOLEAN]
    BY Threads DEF TypeOK, LabelInv, TargetInv, LockStop, StartLockFree, Return, Home, Doubled
  <2>4. mishap' \in [Session -> SUBSET Mishap]
    BY Threads
    DEF TypeOK, LabelInv, TargetInv, LockStop, StartLockFree, Return, Home, Doubled, Mishap
  <2>5. startLock' \in [Session -> Thread \cup {Free}]
    BY Threads DEF TypeOK, LabelInv, TargetInv, LockStop, StartLockFree, Return, Home, Doubled
  <2> QED
    BY <2>1, <2>2, <2>3, <2>4, <2>5 DEF TypeOK, LockStop, StartLockFree, Return, Home, Doubled
<1>2. LabelInv' /\ TargetInv' /\ OutcomeInv'
    BY Threads
    DEF TypeOK, LabelInv, TargetInv, OutcomeInv, Ended, LockStop, StartLockFree, Return, Home,
        Doubled
<1>3. LockInv'
    BY Threads
    DEF TypeOK, LabelInv, LockInv, TargetInv, SlotInv, LockStop, StartLockFree, Return, Home,
        Doubled
<1>4. SlotInv'
    BY Threads
    DEF TypeOK, LabelInv, TargetInv, SlotInv, Active, Ended, State, LockStop, StartLockFree, Return,
        Home, Doubled
<1>5. GuardInv'
    BY Threads
    DEF TypeOK, LabelInv, TargetInv, SlotInv, GuardInv, LockStop, StartLockFree, Return, Home,
        Doubled
<1>6. TorqueInv'
  <2>1. (\A x \in Session : pc[x] \in {"new", "claimed", "waiting", "connecting"} => ~torque[x])'
    BY Threads
    DEF TypeOK, LabelInv, LockInv, TargetInv, SlotInv, GuardInv, TorqueInv, LockStop, StartLockFree,
        Return, Home, Doubled
  <2>2. (\A u \in StopThread :
             pc[u] \in {"joining", "release"} /\ guard[on[u]] = "none" => ~torque[on[u]])'
    BY Threads
    DEF TypeOK, LabelInv, LockInv, TargetInv, SlotInv, GuardInv, TorqueInv, LockStop, StartLockFree,
        Return, Home, Doubled
  <2>3. (\A u \in StopThread :
             pc[u] = "closing" /\ torque[on[u]] => guardError[on[u]])'
    BY Threads
    DEF TypeOK, LabelInv, LockInv, TargetInv, SlotInv, GuardInv, TorqueInv, LockStop, StartLockFree,
        Return, Home, Doubled
  <2>4. (\A u \in StopThread :
             pc[u] = "finishing" /\ outcome[u] = "stopped" => ~torque[on[u]])'
    BY Threads
    DEF TypeOK, LabelInv, LockInv, TargetInv, SlotInv, GuardInv, TorqueInv, LockStop, StartLockFree,
        Return, Home, Doubled
  <2> QED
    BY <2>1, <2>2, <2>3, <2>4 DEF TorqueInv
<1>7. PortInv'
    BY Threads
    DEF TypeOK, LabelInv, TargetInv, PortInv, LockStop, StartLockFree, Return, Home, Doubled
<1>8. LoopInv'
  <2>1. (\A x \in Session : loop[x] # "none" => pc[x] \in {"started", "announcing", "done"})'
    BY Threads
    DEF TypeOK, LabelInv, TargetInv, LoopInv, LockStop, StartLockFree, Return, Home, Doubled
  <2>2. (\A q \in Thread : pc[q] \in Releasing =>
             loop[Target(q)] \in {"none", "dead"} \/ "overrun" \in mishap[Target(q)])'
    BY Threads
    DEF TypeOK, LabelInv, TargetInv, LoopInv, LockStop, StartLockFree, Return, Home, Doubled
  <2> QED
    BY <2>1, <2>2 DEF LoopInv
<1>9. RestInv'
  <2>1. (\A u, w \in StopThread :
             u # w /\ InStop(u, on[u]) /\ InStop(w, on[u]) => "doubled" \in mishap[on[u]])'
    BY Threads
    DEF TypeOK, LabelInv, TargetInv, RestInv, LockStop, StartLockFree, Return, Home, Doubled
  <2>2. (\A q \in Thread : pc[q] = "cutting" =>
             \/ ~away[Target(q)]
             \/ guardError[Target(q)]
             \/ "overrun" \in mishap[Target(q)]
             \/ "doubled" \in mishap[Target(q)])'
    <3> SUFFICES ASSUME NEW q \in Thread, pc'[q] = "cutting"
                 PROVE  (\/ ~away[Target(q)]
                        \/ guardError[Target(q)]
                        \/ "overrun" \in mishap[Target(q)]
                        \/ "doubled" \in mishap[Target(q)])'
        OBVIOUS
    <3>1. Target(q) \in Session /\ Target(q)' = Target(q)
        BY Threads DEF TypeOK, LabelInv, TargetInv, LockStop, StartLockFree, Return, Home, Doubled
    <3>2. CASE q = t
        BY <3>1, <3>2 DEF TypeOK, LabelInv, LockStop, StartLockFree, Return, Home, Doubled
    <3>3. CASE q # t
        BY <3>1, <3>3 DEF TypeOK, RestInv, LockStop, StartLockFree, Return, Home, Doubled
    <3> QED
        BY <3>2, <3>3
  <2> QED
    BY <2>1, <2>2 DEF RestInv
<1>10. EnergisedHasOwner' /\ FreedSlotFreesPort'
    BY Threads
    DEF TypeOK, EnergisedHasOwner, FreedSlotFreesPort, LockStop, StartLockFree, Return, Home,
        Doubled
<1> QED
    BY <1>1, <1>2, <1>3, <1>4, <1>5, <1>6, <1>7, <1>8, <1>9, <1>10

-----------------------------------------------------------------------------
(* worker.stop() *)

(* JoinLoop preserves the inductive invariant. *)
LEMMA JoinLoopStep ==
    ASSUME IInv, NEW t \in StopThread, JoinLoop(t) /\ UNCHANGED managerVars
    PROVE  IInv'
<1>1. TypeOK'
    BY Threads DEF TypeOK, TargetInv, OutcomeInv, Active, Ended, State, Mishap, JoinLoop
<1>2. LabelInv' /\ TargetInv' /\ OutcomeInv'
    BY Threads DEF TypeOK, LabelInv, TargetInv, OutcomeInv, Ended, JoinLoop
<1>3. LockInv'
    BY Threads DEF TypeOK, LabelInv, LockInv, TargetInv, SlotInv, JoinLoop
<1>4. SlotInv'
  <2>1. (\A x \in Session : live = x <=> info[x] \in Active)'
    BY Threads
    DEF TypeOK, LabelInv, LockInv, TargetInv, SlotInv, OutcomeInv, Active, Ended, State, JoinLoop
  <2>2. (\A x \in Session : pc[x] = "new" <=> info[x] = "none")'
    BY Threads
    DEF TypeOK, LabelInv, LockInv, TargetInv, SlotInv, OutcomeInv, Active, Ended, State, JoinLoop
  <2>3. (\A x \in Session : info[x] = "running" => Through(x))'
    BY Threads
    DEF TypeOK, LabelInv, LockInv, TargetInv, SlotInv, OutcomeInv, Active, Ended, State, JoinLoop
  <2>4. (\A x \in Session : info[x] = "starting" => ~Through(x))'
    BY Threads
    DEF TypeOK, LabelInv, LockInv, TargetInv, SlotInv, OutcomeInv, Active, Ended, State, JoinLoop
  <2>5. (\A x \in Session : pc[x] \in {"ending", "idling", "freeing"} => live # x)'
    BY Threads
    DEF TypeOK, LabelInv, LockInv, TargetInv, SlotInv, OutcomeInv, Active, Ended, State, JoinLoop
  <2>6. (\A x \in Session : pc[x] \in Starting \cup Releasing \cup {"finishing"} =>
             live = x \/ "late" \in mishap[x])'
    BY Threads
    DEF TypeOK, LabelInv, LockInv, TargetInv, SlotInv, OutcomeInv, Active, Ended, State, JoinLoop
  <2>7. (\A u \in StopThread :
             InStopSection(u) \/ pc[u] \in {"marked", "wanting"} =>
                 info[on[u]] \notin {"none", "starting"})'
    BY Threads
    DEF TypeOK, LabelInv, LockInv, TargetInv, SlotInv, OutcomeInv, Active, Ended, State, JoinLoop
  <2> QED
    BY <2>1, <2>2, <2>3, <2>4, <2>5, <2>6, <2>7 DEF SlotInv
<1>5. GuardInv' /\ TorqueInv'
    BY Threads DEF TypeOK, LabelInv, TargetInv, SlotInv, GuardInv, TorqueInv, Ended, JoinLoop
<1>6. PortInv' /\ LoopInv'
    BY Threads DEF TypeOK, LabelInv, TargetInv, PortInv, LoopInv, JoinLoop
<1>7. RestInv'
  <2>1. (\A u, w \in StopThread :
             u # w /\ InStop(u, on[u]) /\ InStop(w, on[u]) => "doubled" \in mishap[on[u]])'
    BY Threads DEF TypeOK, LabelInv, TargetInv, RestInv, JoinLoop
  <2>2. (\A q \in Thread : pc[q] = "cutting" =>
             \/ ~away[Target(q)]
             \/ guardError[Target(q)]
             \/ "overrun" \in mishap[Target(q)]
             \/ "doubled" \in mishap[Target(q)])'
    BY Threads DEF TypeOK, LabelInv, TargetInv, RestInv, JoinLoop
  <2> QED
    BY <2>1, <2>2 DEF RestInv
<1>8. EnergisedHasOwner' /\ FreedSlotFreesPort'
    BY Threads DEF TypeOK, EnergisedHasOwner, FreedSlotFreesPort, JoinLoop
<1> QED
    BY <1>1, <1>2, <1>3, <1>4, <1>5, <1>6, <1>7, <1>8

(* StartRelease preserves the inductive invariant. *)
LEMMA StartReleaseStep ==
    ASSUME IInv, NEW p \in Thread, StartRelease(p) /\ UNCHANGED managerVars
    PROVE  IInv'
<1>1. TypeOK'
  <2>1. pc' \in [Thread -> StarterLabel \cup StopLabel \cup Releasing \cup EndLabel]
    BY Threads DEF TypeOK, LabelInv, TargetInv, StartRelease
  <2>2. guardError' \in [Session -> BOOLEAN]
    BY Threads DEF TypeOK, LabelInv, TargetInv, StartRelease
  <2> QED
    BY <2>1, <2>2 DEF TypeOK, StartRelease
<1>2. LabelInv' /\ TargetInv' /\ OutcomeInv'
    BY Threads DEF TypeOK, LabelInv, TargetInv, OutcomeInv, Ended, StartRelease
<1>3. LockInv'
    BY Threads DEF TypeOK, LabelInv, LockInv, TargetInv, SlotInv, StartRelease
<1>4. SlotInv'
    BY Threads DEF TypeOK, LabelInv, TargetInv, SlotInv, Active, Ended, State, StartRelease
<1>5. GuardInv'
    BY Threads DEF TypeOK, LabelInv, TargetInv, SlotInv, GuardInv, StartRelease
<1>6. TorqueInv'
    BY Threads DEF TypeOK, LabelInv, TargetInv, TorqueInv, Ended, StartRelease
<1>7. PortInv'
    BY Threads DEF TypeOK, LabelInv, TargetInv, PortInv, StartRelease
<1>8. LoopInv'
    BY Threads DEF TypeOK, LabelInv, TargetInv, LoopInv, StartRelease
<1>9. RestInv'
  <2>1. (\A u, w \in StopThread :
             u # w /\ InStop(u, on[u]) /\ InStop(w, on[u]) => "doubled" \in mishap[on[u]])'
    BY Threads DEF TypeOK, LabelInv, TargetInv, RestInv, StartRelease
  <2>2. (\A q \in Thread : pc[q] = "cutting" =>
             \/ ~away[Target(q)]
             \/ guardError[Target(q)]
             \/ "overrun" \in mishap[Target(q)]
             \/ "doubled" \in mishap[Target(q)])'
    <3> SUFFICES ASSUME NEW q \in Thread, pc'[q] = "cutting"
                 PROVE  (\/ ~away[Target(q)]
                        \/ guardError[Target(q)]
                        \/ "overrun" \in mishap[Target(q)]
                        \/ "doubled" \in mishap[Target(q)])'
        OBVIOUS
    <3>1. Target(q) \in Session /\ Target(q)' = Target(q)
        BY Threads DEF TypeOK, LabelInv, TargetInv, StartRelease
    <3>2. CASE q = p
        BY <3>1, <3>2 DEF TypeOK, LabelInv, GuardInv, StartRelease
    <3>3. CASE q # p
        BY <3>1, <3>3 DEF TypeOK, RestInv, StartRelease
    <3> QED
        BY <3>2, <3>3
  <2> QED
    BY <2>1, <2>2 DEF RestInv
<1>10. EnergisedHasOwner' /\ FreedSlotFreesPort'
    BY Threads DEF TypeOK, EnergisedHasOwner, FreedSlotFreesPort, StartRelease
<1> QED
    BY <1>1, <1>2, <1>3, <1>4, <1>5, <1>6, <1>7, <1>8, <1>9, <1>10

(* RampStep preserves the inductive invariant. *)
LEMMA RampStepStep ==
    ASSUME IInv, NEW p \in Thread, RampStep(p) /\ UNCHANGED managerVars
    PROVE  IInv'
<1>1. TypeOK'
    BY Threads DEF TypeOK, TargetInv, OutcomeInv, Active, Ended, State, Mishap, RampStep
<1>2. LabelInv' /\ TargetInv' /\ OutcomeInv'
    BY Threads DEF TypeOK, LabelInv, TargetInv, OutcomeInv, Ended, RampStep
<1>3. LockInv'
    BY Threads DEF TypeOK, LabelInv, LockInv, TargetInv, SlotInv, RampStep
<1>4. SlotInv'
    BY Threads DEF TypeOK, LabelInv, TargetInv, SlotInv, Active, Ended, State, RampStep
<1>5. GuardInv' /\ TorqueInv'
    BY Threads DEF TypeOK, LabelInv, TargetInv, SlotInv, GuardInv, TorqueInv, Ended, RampStep
<1>6. PortInv' /\ LoopInv'
    BY Threads DEF TypeOK, LabelInv, TargetInv, PortInv, LoopInv, RampStep
<1>7. RestInv'
    BY Threads DEF TypeOK, LabelInv, TargetInv, RestInv, LockInv, RampStep
<1>8. EnergisedHasOwner' /\ FreedSlotFreesPort'
    BY Threads DEF TypeOK, EnergisedHasOwner, FreedSlotFreesPort, RampStep
<1> QED
    BY <1>1, <1>2, <1>3, <1>4, <1>5, <1>6, <1>7, <1>8

(* EndRamp preserves the inductive invariant. *)
LEMMA EndRampStep ==
    ASSUME IInv, NEW p \in Thread, EndRamp(p) /\ UNCHANGED managerVars
    PROVE  IInv'
<1>1. TypeOK'
  <2>1. pc' \in [Thread -> StarterLabel \cup StopLabel \cup Releasing \cup EndLabel]
    BY Threads DEF TypeOK, LabelInv, TargetInv, EndRamp
  <2>2. away' \in [Session -> BOOLEAN]
    BY Threads DEF TypeOK, LabelInv, TargetInv, EndRamp
  <2>3. guardError' \in [Session -> BOOLEAN]
    BY Threads DEF TypeOK, LabelInv, TargetInv, EndRamp
  <2> QED
    BY <2>1, <2>2, <2>3 DEF TypeOK, EndRamp
<1>2. LabelInv' /\ TargetInv' /\ OutcomeInv'
    BY Threads DEF TypeOK, LabelInv, TargetInv, OutcomeInv, Ended, EndRamp
<1>3. LockInv'
    BY Threads DEF TypeOK, LabelInv, LockInv, TargetInv, SlotInv, EndRamp
<1>4. SlotInv'
    BY Threads DEF TypeOK, LabelInv, TargetInv, SlotInv, Active, Ended, State, EndRamp
<1>5. GuardInv'
    BY Threads DEF TypeOK, LabelInv, TargetInv, SlotInv, GuardInv, EndRamp
<1>6. TorqueInv'
    BY Threads DEF TypeOK, LabelInv, TargetInv, TorqueInv, Ended, EndRamp
<1>7. PortInv' /\ LoopInv'
    BY Threads DEF TypeOK, LabelInv, TargetInv, PortInv, LoopInv, EndRamp
<1>8. RestInv'
  <2>1. (\A u, w \in StopThread :
             u # w /\ InStop(u, on[u]) /\ InStop(w, on[u]) => "doubled" \in mishap[on[u]])'
    BY Threads DEF TypeOK, LabelInv, TargetInv, RestInv, EndRamp
  <2>2. (\A q \in Thread : pc[q] = "cutting" =>
             \/ ~away[Target(q)]
             \/ guardError[Target(q)]
             \/ "overrun" \in mishap[Target(q)]
             \/ "doubled" \in mishap[Target(q)])'
    <3> SUFFICES ASSUME NEW q \in Thread, pc'[q] = "cutting"
                 PROVE  (\/ ~away[Target(q)]
                        \/ guardError[Target(q)]
                        \/ "overrun" \in mishap[Target(q)]
                        \/ "doubled" \in mishap[Target(q)])'
        OBVIOUS
    <3>1. Target(q) \in Session /\ Target(q)' = Target(q)
        BY Threads DEF TypeOK, LabelInv, TargetInv, EndRamp
    <3>2. CASE q = p
        BY <3>1, <3>2 DEF TypeOK, LabelInv, TargetInv, EndRamp
    <3>3. CASE q # p
        BY <3>1, <3>3 DEF TypeOK, RestInv, EndRamp
    <3> QED
        BY <3>2, <3>3
  <2> QED
    BY <2>1, <2>2 DEF RestInv
<1>9. EnergisedHasOwner' /\ FreedSlotFreesPort'
    BY Threads DEF TypeOK, EnergisedHasOwner, FreedSlotFreesPort, EndRamp
<1> QED
    BY <1>1, <1>2, <1>3, <1>4, <1>5, <1>6, <1>7, <1>8, <1>9

(* CutTorque preserves the inductive invariant. *)
LEMMA CutTorqueStep ==
    ASSUME IInv, NEW p \in Thread, CutTorque(p) /\ UNCHANGED managerVars
    PROVE  IInv'
<1>1. TypeOK'
  <2>1. pc' \in [Thread -> StarterLabel \cup StopLabel \cup Releasing \cup EndLabel]
    BY Threads DEF TypeOK, LabelInv, TargetInv, CutTorque
  <2>2. torque' \in [Session -> BOOLEAN]
    BY Threads DEF TypeOK, LabelInv, TargetInv, CutTorque
  <2>3. guardError' \in [Session -> BOOLEAN]
    BY Threads DEF TypeOK, LabelInv, TargetInv, CutTorque
  <2> QED
    BY <2>1, <2>2, <2>3 DEF TypeOK, CutTorque
<1>2. LabelInv' /\ TargetInv' /\ OutcomeInv'
    BY Threads DEF TypeOK, LabelInv, TargetInv, OutcomeInv, Ended, CutTorque
<1>3. LockInv'
    BY Threads DEF TypeOK, LabelInv, LockInv, TargetInv, SlotInv, CutTorque
<1>4. SlotInv'
    BY Threads DEF TypeOK, LabelInv, TargetInv, SlotInv, Active, Ended, State, CutTorque
<1>5. GuardInv'
    BY Threads DEF TypeOK, LabelInv, TargetInv, SlotInv, GuardInv, CutTorque
<1>6. TorqueInv'
  <2>1. (\A x \in Session : pc[x] \in {"new", "claimed", "waiting", "connecting"} => ~torque[x])'
    BY Threads DEF TypeOK, LabelInv, TargetInv, TorqueInv, CutTorque
  <2>2. (\A u \in StopThread :
             pc[u] \in {"joining", "release"} /\ guard[on[u]] = "none" => ~torque[on[u]])'
    BY Threads DEF TypeOK, LabelInv, TargetInv, TorqueInv, CutTorque
  <2>3. (\A u \in StopThread :
             pc[u] = "closing" /\ torque[on[u]] => guardError[on[u]])'
    BY Threads DEF TypeOK, LabelInv, TargetInv, TorqueInv, CutTorque
  <2>4. (\A u \in StopThread :
             pc[u] = "finishing" /\ outcome[u] = "stopped" => ~torque[on[u]])'
    BY Threads DEF TypeOK, LabelInv, TargetInv, TorqueInv, CutTorque
  <2> QED
    BY <2>1, <2>2, <2>3, <2>4 DEF TorqueInv
<1>7. PortInv' /\ LoopInv'
    BY Threads DEF TypeOK, LabelInv, TargetInv, PortInv, LoopInv, CutTorque
<1>8. RestInv'
    BY Threads DEF TypeOK, LabelInv, TargetInv, RestInv, CutTorque
<1>9. EnergisedHasOwner' /\ FreedSlotFreesPort'
    BY Threads DEF TypeOK, EnergisedHasOwner, TargetInv, LabelInv, FreedSlotFreesPort, CutTorque
<1> QED
    BY <1>1, <1>2, <1>3, <1>4, <1>5, <1>6, <1>7, <1>8, <1>9

(* CloseDevices preserves the inductive invariant. *)
LEMMA CloseDevicesStep ==
    ASSUME IInv, NEW p \in Thread, CloseDevices(p) /\ UNCHANGED managerVars
    PROVE  IInv'
<1>1. TypeOK'
  <2>1. pc' \in [Thread -> StarterLabel \cup StopLabel \cup Releasing \cup EndLabel]
    BY Threads DEF TypeOK, LabelInv, TargetInv, CloseDevices, Failure
  <2>2. outcome' \in [Thread -> {"none", "running", "stopping"} \cup Ended]
    BY Threads DEF TypeOK, LabelInv, TargetInv, CloseDevices, Failure, Ended
  <2>3. port' \in [Session -> BOOLEAN]
    BY Threads DEF TypeOK, LabelInv, TargetInv, CloseDevices, Failure
  <2>4. error' \in [Session -> BOOLEAN]
    BY Threads DEF TypeOK, LabelInv, TargetInv, CloseDevices, Failure
  <2>5. mishap' \in [Session -> SUBSET Mishap]
    BY Threads DEF TypeOK, LabelInv, TargetInv, CloseDevices, Failure, Mishap
  <2> QED
    BY <2>1, <2>2, <2>3, <2>4, <2>5 DEF TypeOK, CloseDevices, Failure
<1>2. LabelInv' /\ TargetInv' /\ OutcomeInv'
    BY Threads DEF TypeOK, LabelInv, TargetInv, OutcomeInv, Ended, CloseDevices, Failure
<1>3. LockInv'
    BY Threads DEF TypeOK, LabelInv, LockInv, TargetInv, SlotInv, CloseDevices, Failure
<1>4. SlotInv'
    BY Threads DEF TypeOK, LabelInv, TargetInv, SlotInv, Active, Ended, State, CloseDevices, Failure
<1>5. GuardInv' /\ TorqueInv'
    BY Threads
    DEF TypeOK, LabelInv, TargetInv, SlotInv, GuardInv, TorqueInv, Ended, CloseDevices, Failure
<1>6. PortInv'
  <2>1. (\A q \in Thread : pc[q] = "finishing" =>
             ~port[Target(q)] \/ "leaked" \in mishap[Target(q)])'
    BY Threads DEF TypeOK, LabelInv, TargetInv, PortInv, CloseDevices
  <2>2. (\A x \in Session : pc[x] \in {"new", "claimed", "waiting"} => ~port[x])'
    BY Threads DEF TypeOK, LabelInv, TargetInv, PortInv, CloseDevices
  <2> QED
    BY <2>1, <2>2 DEF PortInv
<1>7. LoopInv'
    BY Threads DEF TypeOK, LabelInv, TargetInv, LoopInv, CloseDevices, Failure
<1>8. RestInv'
  <2>1. (\A u, w \in StopThread :
             u # w /\ InStop(u, on[u]) /\ InStop(w, on[u]) => "doubled" \in mishap[on[u]])'
    BY Threads DEF TypeOK, LabelInv, TargetInv, RestInv, CloseDevices
  <2>2. (\A q \in Thread : pc[q] = "cutting" =>
             \/ ~away[Target(q)]
             \/ guardError[Target(q)]
             \/ "overrun" \in mishap[Target(q)]
             \/ "doubled" \in mishap[Target(q)])'
    BY Threads DEF TypeOK, LabelInv, TargetInv, RestInv, CloseDevices
  <2> QED
    BY <2>1, <2>2 DEF RestInv
<1>9. EnergisedHasOwner'
    BY Threads DEF TypeOK, EnergisedHasOwner, CloseDevices, Failure
<1>10. FreedSlotFreesPort'
    BY Threads DEF TypeOK, FreedSlotFreesPort, TargetInv, LabelInv, CloseDevices, Failure
<1> QED
    BY <1>1, <1>2, <1>3, <1>4, <1>5, <1>6, <1>7, <1>8, <1>9, <1>10

-----------------------------------------------------------------------------
(* SessionManager._finish *)

(* Finish preserves the inductive invariant. *)
LEMMA FinishStep ==
    ASSUME IInv, NEW p \in Thread, Finish(p)
    PROVE  IInv'
<1>1. TypeOK'
  <2>1. pc' \in [Thread -> StarterLabel \cup StopLabel \cup Releasing \cup EndLabel]
    BY Threads DEF TypeOK, LabelInv, TargetInv, Finish
  <2>2. live' \in Session \cup {NoSession}
    BY Threads DEF TypeOK, LabelInv, TargetInv, Finish
  <2>3. info' \in [Session -> State]
    BY Threads DEF TypeOK, LabelInv, TargetInv, Finish, OutcomeInv, Ended, State
  <2>4. silent' \in [Session -> BOOLEAN]
    BY Threads DEF TypeOK, LabelInv, TargetInv, Finish
  <2> QED
    BY <2>1, <2>2, <2>3, <2>4 DEF TypeOK, Finish
<1>2. LabelInv'
    BY Threads DEF TypeOK, LabelInv, Finish
<1>3. TargetInv'
    BY Threads DEF TypeOK, LabelInv, TargetInv, Finish
<1>4. OutcomeInv'
    BY Threads DEF TypeOK, LabelInv, OutcomeInv, Ended, Finish
<1>5. LockInv'
    BY Threads DEF TypeOK, LabelInv, LockInv, TargetInv, SlotInv, Finish
<1>6. SlotInv'
  <2>1. (\A x \in Session : live = x <=> info[x] \in Active)'
    BY Threads
    DEF TypeOK, LabelInv, LockInv, TargetInv, SlotInv, OutcomeInv, Active, Ended, State, Finish
  <2>2. (\A x \in Session : pc[x] = "new" <=> info[x] = "none")'
    BY Threads
    DEF TypeOK, LabelInv, LockInv, TargetInv, SlotInv, OutcomeInv, Active, Ended, State, Finish
  <2>3. (\A x \in Session : info[x] = "running" => Through(x))'
    BY Threads
    DEF TypeOK, LabelInv, LockInv, TargetInv, SlotInv, OutcomeInv, Active, Ended, State, Finish
  <2>4. (\A x \in Session : info[x] = "starting" => ~Through(x))'
    BY Threads
    DEF TypeOK, LabelInv, LockInv, TargetInv, SlotInv, OutcomeInv, Active, Ended, State, Finish
  <2>5. (\A x \in Session : pc[x] \in {"ending", "idling", "freeing"} => live # x)'
    BY Threads
    DEF TypeOK, LabelInv, LockInv, TargetInv, SlotInv, OutcomeInv, Active, Ended, State, Finish
  <2>6. (\A x \in Session : pc[x] \in Starting \cup Releasing \cup {"finishing"} =>
             live = x \/ "late" \in mishap[x])'
    BY Threads
    DEF TypeOK, LabelInv, LockInv, TargetInv, SlotInv, OutcomeInv, Active, Ended, State, Finish
  <2>7. (\A u \in StopThread :
             InStopSection(u) \/ pc[u] \in {"marked", "wanting"} =>
                 info[on[u]] \notin {"none", "starting"})'
    BY Threads
    DEF TypeOK, LabelInv, LockInv, TargetInv, SlotInv, OutcomeInv, Active, Ended, State, Finish
  <2> QED
    BY <2>1, <2>2, <2>3, <2>4, <2>5, <2>6, <2>7 DEF SlotInv
<1>7. GuardInv' /\ TorqueInv'
    BY Threads DEF TypeOK, LabelInv, TargetInv, SlotInv, GuardInv, TorqueInv, Ended, Finish
<1>8. PortInv'
    BY Threads DEF TypeOK, LabelInv, TargetInv, PortInv, Finish
<1>9. LoopInv'
  <2>1. (\A x \in Session : loop[x] # "none" => pc[x] \in {"started", "announcing", "done"})'
    BY Threads DEF TypeOK, LabelInv, TargetInv, LoopInv, Finish
  <2>2. (\A q \in Thread : pc[q] \in Releasing =>
             loop[Target(q)] \in {"none", "dead"} \/ "overrun" \in mishap[Target(q)])'
    BY Threads DEF TypeOK, LabelInv, TargetInv, LoopInv, Finish
  <2> QED
    BY <2>1, <2>2 DEF LoopInv
<1>10. RestInv'
    BY Threads DEF TypeOK, LabelInv, TargetInv, RestInv, Finish
<1>11. EnergisedHasOwner'
    BY Threads
    DEF TypeOK, EnergisedHasOwner, LabelInv, TargetInv, OutcomeInv, TorqueInv, Ended, Active, Finish
<1>12. FreedSlotFreesPort'
    BY Threads DEF TypeOK, FreedSlotFreesPort, TargetInv, PortInv, LabelInv, Finish
<1> QED
    BY <1>1, <1>2, <1>3, <1>4, <1>5, <1>6, <1>7, <1>8, <1>9, <1>10, <1>11, <1>12

(* PublishEnd preserves the inductive invariant. *)
LEMMA PublishEndStep ==
    ASSUME IInv, NEW p \in Thread, PublishEnd(p)
    PROVE  IInv'
<1>1. TypeOK'
    BY Threads DEF TypeOK, TargetInv, OutcomeInv, Active, Ended, State, Mishap, PublishEnd
<1>2. LabelInv' /\ TargetInv' /\ OutcomeInv'
    BY Threads DEF TypeOK, LabelInv, TargetInv, OutcomeInv, Ended, PublishEnd
<1>3. LockInv'
    BY Threads DEF TypeOK, LabelInv, LockInv, TargetInv, SlotInv, PublishEnd
<1>4. SlotInv'
    BY Threads DEF TypeOK, LabelInv, TargetInv, SlotInv, Active, Ended, State, PublishEnd
<1>5. GuardInv' /\ TorqueInv'
    BY Threads DEF TypeOK, LabelInv, TargetInv, SlotInv, GuardInv, TorqueInv, Ended, PublishEnd
<1>6. PortInv' /\ LoopInv'
    BY Threads DEF TypeOK, LabelInv, TargetInv, PortInv, LoopInv, PublishEnd
<1>7. RestInv'
    BY Threads DEF TypeOK, LabelInv, TargetInv, RestInv, PublishEnd
<1>8. EnergisedHasOwner' /\ FreedSlotFreesPort'
    BY Threads DEF TypeOK, EnergisedHasOwner, FreedSlotFreesPort, PublishEnd
<1> QED
    BY <1>1, <1>2, <1>3, <1>4, <1>5, <1>6, <1>7, <1>8

(* PublishIdle preserves the inductive invariant. *)
LEMMA PublishIdleStep ==
    ASSUME IInv, NEW p \in Thread, PublishIdle(p)
    PROVE  IInv'
<1>1. TypeOK'
    BY Threads DEF TypeOK, TargetInv, OutcomeInv, Active, Ended, State, Mishap, PublishIdle
<1>2. LabelInv' /\ TargetInv' /\ OutcomeInv'
    BY Threads DEF TypeOK, LabelInv, TargetInv, OutcomeInv, Ended, PublishIdle
<1>3. LockInv'
    BY Threads DEF TypeOK, LabelInv, LockInv, TargetInv, SlotInv, PublishIdle
<1>4. SlotInv'
    BY Threads DEF TypeOK, LabelInv, TargetInv, SlotInv, Active, Ended, State, PublishIdle
<1>5. GuardInv' /\ TorqueInv'
    BY Threads DEF TypeOK, LabelInv, TargetInv, SlotInv, GuardInv, TorqueInv, Ended, PublishIdle
<1>6. PortInv' /\ LoopInv'
    BY Threads DEF TypeOK, LabelInv, TargetInv, PortInv, LoopInv, PublishIdle
<1>7. RestInv'
    BY Threads DEF TypeOK, LabelInv, TargetInv, RestInv, PublishIdle
<1>8. EnergisedHasOwner' /\ FreedSlotFreesPort'
    BY Threads DEF TypeOK, EnergisedHasOwner, FreedSlotFreesPort, PublishIdle
<1> QED
    BY <1>1, <1>2, <1>3, <1>4, <1>5, <1>6, <1>7, <1>8

(* Leave preserves the inductive invariant. *)
LEMMA LeaveStep ==
    ASSUME IInv, NEW p \in Thread, Leave(p)
    PROVE  IInv'
<1>1. TypeOK'
  <2>1. pc' \in [Thread -> StarterLabel \cup StopLabel \cup Releasing \cup EndLabel]
    BY Threads DEF TypeOK, LabelInv, TargetInv, Leave, Return, Home
  <2>2. on' \in [StopThread -> Session \cup {NoSession}]
    BY Threads DEF TypeOK, LabelInv, TargetInv, Leave, Return, Home
  <2>3. outcome' \in [Thread -> {"none", "running", "stopping"} \cup Ended]
    BY Threads DEF TypeOK, LabelInv, TargetInv, Leave, Return, Home
  <2>4. startLock' \in [Session -> Thread \cup {Free}]
    BY Threads DEF TypeOK, LabelInv, TargetInv, Leave, Return, Home
  <2> QED
    BY <2>1, <2>2, <2>3, <2>4 DEF TypeOK, Leave, Return, Home
<1>2. LabelInv'
    BY Threads DEF TypeOK, LabelInv, Leave, Return, Home
<1>3. TargetInv'
    BY Threads DEF TypeOK, LabelInv, TargetInv, Leave, Return, Home
<1>4. OutcomeInv'
    BY Threads DEF TypeOK, LabelInv, OutcomeInv, Ended, Leave, Return, Home
<1>5. LockInv'
    BY Threads DEF TypeOK, LabelInv, LockInv, TargetInv, SlotInv, Leave, Return, Home
<1>6. SlotInv'
  <2>1. (\A x \in Session : live = x <=> info[x] \in Active)'
    BY Threads
    DEF TypeOK, LabelInv, LockInv, TargetInv, SlotInv, OutcomeInv, Active, Ended, State, Leave,
        Return, Home
  <2>2. (\A x \in Session : pc[x] = "new" <=> info[x] = "none")'
    BY Threads
    DEF TypeOK, LabelInv, LockInv, TargetInv, SlotInv, OutcomeInv, Active, Ended, State, Leave,
        Return, Home
  <2>3. (\A x \in Session : info[x] = "running" => Through(x))'
    BY Threads
    DEF TypeOK, LabelInv, LockInv, TargetInv, SlotInv, OutcomeInv, Active, Ended, State, Leave,
        Return, Home
  <2>4. (\A x \in Session : info[x] = "starting" => ~Through(x))'
    BY Threads
    DEF TypeOK, LabelInv, LockInv, TargetInv, SlotInv, OutcomeInv, Active, Ended, State, Leave,
        Return, Home
  <2>5. (\A x \in Session : pc[x] \in {"ending", "idling", "freeing"} => live # x)'
    BY Threads
    DEF TypeOK, LabelInv, LockInv, TargetInv, SlotInv, OutcomeInv, Active, Ended, State, Leave,
        Return, Home
  <2>6. (\A x \in Session : pc[x] \in Starting \cup Releasing \cup {"finishing"} =>
             live = x \/ "late" \in mishap[x])'
    BY Threads
    DEF TypeOK, LabelInv, LockInv, TargetInv, SlotInv, OutcomeInv, Active, Ended, State, Leave,
        Return, Home
  <2>7. (\A u \in StopThread :
             InStopSection(u) \/ pc[u] \in {"marked", "wanting"} =>
                 info[on[u]] \notin {"none", "starting"})'
    BY Threads
    DEF TypeOK, LabelInv, LockInv, TargetInv, SlotInv, OutcomeInv, Active, Ended, State, Leave,
        Return, Home
  <2> QED
    BY <2>1, <2>2, <2>3, <2>4, <2>5, <2>6, <2>7 DEF SlotInv
<1>7. GuardInv'
    BY Threads DEF TypeOK, LabelInv, TargetInv, SlotInv, GuardInv, Leave, Return, Home
<1>8. TorqueInv'
  <2>1. (\A x \in Session : pc[x] \in {"new", "claimed", "waiting", "connecting"} => ~torque[x])'
    BY Threads DEF TypeOK, LabelInv, TargetInv, TorqueInv, Leave, Return, Home
  <2>2. (\A u \in StopThread :
             pc[u] \in {"joining", "release"} /\ guard[on[u]] = "none" => ~torque[on[u]])'
    BY Threads DEF TypeOK, LabelInv, TargetInv, TorqueInv, Leave, Return, Home
  <2>3. (\A u \in StopThread :
             pc[u] = "closing" /\ torque[on[u]] => guardError[on[u]])'
    BY Threads DEF TypeOK, LabelInv, TargetInv, TorqueInv, Leave, Return, Home
  <2>4. (\A u \in StopThread :
             pc[u] = "finishing" /\ outcome[u] = "stopped" => ~torque[on[u]])'
    BY Threads DEF TypeOK, LabelInv, TargetInv, TorqueInv, Leave, Return, Home
  <2> QED
    BY <2>1, <2>2, <2>3, <2>4 DEF TorqueInv
<1>9. PortInv'
    BY Threads DEF TypeOK, LabelInv, TargetInv, PortInv, Leave, Return, Home
<1>10. LoopInv'
  <2>1. (\A x \in Session : loop[x] # "none" => pc[x] \in {"started", "announcing", "done"})'
    BY Threads DEF TypeOK, LabelInv, TargetInv, LoopInv, Leave, Return, Home
  <2>2. (\A q \in Thread : pc[q] \in Releasing =>
             loop[Target(q)] \in {"none", "dead"} \/ "overrun" \in mishap[Target(q)])'
    BY Threads DEF TypeOK, LabelInv, TargetInv, LoopInv, Leave, Return, Home
  <2> QED
    BY <2>1, <2>2 DEF LoopInv
<1>11. RestInv'
  <2>1. (\A u, w \in StopThread :
             u # w /\ InStop(u, on[u]) /\ InStop(w, on[u]) => "doubled" \in mishap[on[u]])'
    BY Threads DEF TypeOK, LabelInv, TargetInv, RestInv, Leave, Return, Home
  <2>2. (\A q \in Thread : pc[q] = "cutting" =>
             \/ ~away[Target(q)]
             \/ guardError[Target(q)]
             \/ "overrun" \in mishap[Target(q)]
             \/ "doubled" \in mishap[Target(q)])'
    BY Threads DEF TypeOK, LabelInv, TargetInv, RestInv, Leave, Return, Home
  <2> QED
    BY <2>1, <2>2 DEF RestInv
<1>12. EnergisedHasOwner' /\ FreedSlotFreesPort'
    BY Threads DEF TypeOK, EnergisedHasOwner, FreedSlotFreesPort, Leave, Return, Home
<1> QED
    BY <1>1, <1>2, <1>3, <1>4, <1>5, <1>6, <1>7, <1>8, <1>9, <1>10, <1>11, <1>12

-----------------------------------------------------------------------------
(* The control loop *)

(* LoopIterate preserves the inductive invariant. *)
LEMMA LoopIterateStep ==
    ASSUME IInv, NEW s \in Session, LoopIterate(s) /\ UNCHANGED managerVars
    PROVE  IInv'
<1>1. TypeOK'
    BY Threads DEF TypeOK, TargetInv, OutcomeInv, Active, Ended, State, Mishap, LoopIterate
<1>2. LabelInv' /\ TargetInv' /\ OutcomeInv'
    BY Threads DEF TypeOK, LabelInv, TargetInv, OutcomeInv, Ended, LoopIterate
<1>3. LockInv'
    BY Threads DEF TypeOK, LabelInv, LockInv, TargetInv, SlotInv, LoopIterate
<1>4. SlotInv'
    BY Threads DEF TypeOK, LabelInv, TargetInv, SlotInv, Active, Ended, State, LoopIterate
<1>5. GuardInv' /\ TorqueInv'
    BY Threads DEF TypeOK, LabelInv, TargetInv, SlotInv, GuardInv, TorqueInv, Ended, LoopIterate
<1>6. PortInv' /\ LoopInv'
    BY Threads DEF TypeOK, LabelInv, TargetInv, PortInv, LoopInv, LoopIterate
<1>7. RestInv'
    BY Threads DEF TypeOK, LabelInv, TargetInv, RestInv, LoopIterate
<1>8. EnergisedHasOwner' /\ FreedSlotFreesPort'
    BY Threads DEF TypeOK, EnergisedHasOwner, FreedSlotFreesPort, LoopIterate
<1> QED
    BY <1>1, <1>2, <1>3, <1>4, <1>5, <1>6, <1>7, <1>8

(* LoopCommand preserves the inductive invariant. *)
LEMMA LoopCommandStep ==
    ASSUME IInv, NEW s \in Session, LoopCommand(s) /\ UNCHANGED managerVars
    PROVE  IInv'
<1>1. TypeOK'
    BY Threads DEF TypeOK, TargetInv, OutcomeInv, Active, Ended, State, Mishap, LoopCommand
<1>2. LabelInv' /\ TargetInv' /\ OutcomeInv'
    BY Threads DEF TypeOK, LabelInv, TargetInv, OutcomeInv, Ended, LoopCommand
<1>3. LockInv'
    BY Threads DEF TypeOK, LabelInv, LockInv, TargetInv, SlotInv, LoopCommand
<1>4. SlotInv'
    BY Threads DEF TypeOK, LabelInv, TargetInv, SlotInv, Active, Ended, State, LoopCommand
<1>5. GuardInv'
  <2>1. (\A x \in Session :
             pc[x] \in {"new", "claimed", "waiting", "connecting", "leader"} => guard[x] = "none")'
    BY Threads DEF TypeOK, LabelInv, LockInv, TargetInv, SlotInv, GuardInv, LoopCommand
  <2>2. (\A x \in Session : pc[x] \in {"readying", "started", "announcing"} => guard[x] = "rest")'
    BY Threads DEF TypeOK, LabelInv, LockInv, TargetInv, SlotInv, GuardInv, LoopCommand
  <2>3. (\A x \in Session : pc[x] = "done" /\ live = x => guard[x] = "rest")'
    BY Threads DEF TypeOK, LabelInv, LockInv, TargetInv, SlotInv, GuardInv, LoopCommand
  <2>4. (pc[Watchdog] = "reaping" => guard[on[Watchdog]] = "rest")'
    BY Threads DEF TypeOK, LabelInv, LockInv, TargetInv, SlotInv, GuardInv, LoopCommand
  <2>5. (\A q \in Thread : pc[q] = "ramping" => guard[Target(q)] = "rest")'
    BY Threads DEF TypeOK, LabelInv, LockInv, TargetInv, SlotInv, GuardInv, LoopCommand
  <2>6. (\A x \in Session : loop[x] # "none" => guard[x] = "rest")'
    BY Threads DEF TypeOK, LabelInv, LockInv, TargetInv, SlotInv, GuardInv, LoopCommand
  <2>7. (\A x \in Session : guard[x] # "rest" => ~away[x])'
    BY Threads DEF TypeOK, LabelInv, LockInv, TargetInv, SlotInv, GuardInv, LoopCommand
  <2> QED
    BY <2>1, <2>2, <2>3, <2>4, <2>5, <2>6, <2>7 DEF GuardInv
<1>6. TorqueInv'
    BY Threads DEF TypeOK, LabelInv, TargetInv, TorqueInv, Ended, LoopCommand
<1>7. PortInv' /\ LoopInv'
    BY Threads DEF TypeOK, LabelInv, TargetInv, PortInv, LoopInv, LoopCommand
<1>8. RestInv'
  <2>1. (\A u, w \in StopThread :
             u # w /\ InStop(u, on[u]) /\ InStop(w, on[u]) => "doubled" \in mishap[on[u]])'
    BY Threads DEF TypeOK, LabelInv, TargetInv, LoopInv, RestInv, LoopCommand
  <2>2. (\A q \in Thread : pc[q] = "cutting" =>
             \/ ~away[Target(q)]
             \/ guardError[Target(q)]
             \/ "overrun" \in mishap[Target(q)]
             \/ "doubled" \in mishap[Target(q)])'
    BY Threads DEF TypeOK, LabelInv, TargetInv, LoopInv, RestInv, LoopCommand
  <2> QED
    BY <2>1, <2>2 DEF RestInv
<1>9. EnergisedHasOwner' /\ FreedSlotFreesPort'
    BY Threads DEF TypeOK, EnergisedHasOwner, FreedSlotFreesPort, LoopCommand
<1> QED
    BY <1>1, <1>2, <1>3, <1>4, <1>5, <1>6, <1>7, <1>8, <1>9

(* LoopFail preserves the inductive invariant. *)
LEMMA LoopFailStep ==
    ASSUME IInv, NEW s \in Session, LoopFail(s) /\ UNCHANGED managerVars
    PROVE  IInv'
<1>1. TypeOK'
    BY Threads DEF TypeOK, TargetInv, OutcomeInv, Active, Ended, State, Mishap, LoopFail
<1>2. LabelInv' /\ TargetInv' /\ OutcomeInv'
    BY Threads DEF TypeOK, LabelInv, TargetInv, OutcomeInv, Ended, LoopFail
<1>3. LockInv'
    BY Threads DEF TypeOK, LabelInv, LockInv, TargetInv, SlotInv, LoopFail
<1>4. SlotInv'
    BY Threads DEF TypeOK, LabelInv, TargetInv, SlotInv, Active, Ended, State, LoopFail
<1>5. GuardInv' /\ TorqueInv'
    BY Threads DEF TypeOK, LabelInv, TargetInv, SlotInv, GuardInv, TorqueInv, Ended, LoopFail
<1>6. PortInv' /\ LoopInv'
    BY Threads DEF TypeOK, LabelInv, TargetInv, PortInv, LoopInv, LoopFail
<1>7. RestInv'
    BY Threads DEF TypeOK, LabelInv, TargetInv, RestInv, LoopFail
<1>8. EnergisedHasOwner' /\ FreedSlotFreesPort'
    BY Threads DEF TypeOK, EnergisedHasOwner, FreedSlotFreesPort, LoopFail
<1> QED
    BY <1>1, <1>2, <1>3, <1>4, <1>5, <1>6, <1>7, <1>8

(* LoopEnd preserves the inductive invariant. *)
LEMMA LoopEndStep ==
    ASSUME IInv, NEW s \in Session, LoopEnd(s) /\ UNCHANGED managerVars
    PROVE  IInv'
<1>1. TypeOK'
    BY Threads DEF TypeOK, TargetInv, OutcomeInv, Active, Ended, State, Mishap, LoopEnd
<1>2. LabelInv' /\ TargetInv' /\ OutcomeInv'
    BY Threads DEF TypeOK, LabelInv, TargetInv, OutcomeInv, Ended, LoopEnd
<1>3. LockInv'
    BY Threads DEF TypeOK, LabelInv, LockInv, TargetInv, SlotInv, LoopEnd
<1>4. SlotInv'
    BY Threads DEF TypeOK, LabelInv, TargetInv, SlotInv, Active, Ended, State, LoopEnd
<1>5. GuardInv' /\ TorqueInv'
    BY Threads DEF TypeOK, LabelInv, TargetInv, SlotInv, GuardInv, TorqueInv, Ended, LoopEnd
<1>6. PortInv' /\ LoopInv'
    BY Threads DEF TypeOK, LabelInv, TargetInv, PortInv, LoopInv, LoopEnd
<1>7. RestInv'
    BY Threads DEF TypeOK, LabelInv, TargetInv, RestInv, LoopEnd
<1>8. EnergisedHasOwner' /\ FreedSlotFreesPort'
    BY Threads DEF TypeOK, EnergisedHasOwner, FreedSlotFreesPort, LoopEnd
<1> QED
    BY <1>1, <1>2, <1>3, <1>4, <1>5, <1>6, <1>7, <1>8

-----------------------------------------------------------------------------
(* The lease, the watchdog and the shutdown *)

(* Heartbeat preserves the inductive invariant. *)
LEMMA HeartbeatStep ==
    ASSUME IInv, NEW s \in Session, Heartbeat(s) \/ LeaseLapse(s)
    PROVE  IInv'
<1>1. TypeOK'
  <2>1. silent' \in [Session -> BOOLEAN]
    BY Threads DEF TypeOK, LabelInv, TargetInv, Heartbeat, LeaseLapse
  <2> QED
    BY <2>1 DEF TypeOK, Heartbeat, LeaseLapse
<1>2. LabelInv' /\ TargetInv' /\ OutcomeInv'
    BY Threads DEF TypeOK, LabelInv, TargetInv, OutcomeInv, Ended, Heartbeat, LeaseLapse
<1>3. LockInv'
    BY Threads DEF TypeOK, LabelInv, LockInv, TargetInv, SlotInv, Heartbeat, LeaseLapse
<1>4. SlotInv'
    BY Threads DEF TypeOK, LabelInv, TargetInv, SlotInv, Active, Ended, State, Heartbeat, LeaseLapse
<1>5. GuardInv' /\ TorqueInv'
    BY Threads
    DEF TypeOK, LabelInv, TargetInv, SlotInv, GuardInv, TorqueInv, Ended, Heartbeat, LeaseLapse
<1>6. PortInv' /\ LoopInv'
    BY Threads DEF TypeOK, LabelInv, TargetInv, PortInv, LoopInv, Heartbeat, LeaseLapse
<1>7. RestInv'
    BY Threads DEF TypeOK, LabelInv, TargetInv, RestInv, Heartbeat, LeaseLapse
<1>8. EnergisedHasOwner' /\ FreedSlotFreesPort'
    BY Threads DEF TypeOK, EnergisedHasOwner, FreedSlotFreesPort, Heartbeat, LeaseLapse
<1> QED
    BY <1>1, <1>2, <1>3, <1>4, <1>5, <1>6, <1>7, <1>8

(* Tick preserves the inductive invariant. *)
LEMMA TickStep ==
    ASSUME IInv, Tick
    PROVE  IInv'
<1>1. TypeOK'
    BY Threads DEF TypeOK, TargetInv, OutcomeInv, Active, Ended, State, Mishap, Tick, Expired, Died
<1>2. LabelInv' /\ TargetInv' /\ OutcomeInv'
    BY Threads DEF TypeOK, LabelInv, TargetInv, OutcomeInv, Ended, Tick, Expired, Died
<1>3. LockInv'
    BY Threads DEF TypeOK, LabelInv, LockInv, TargetInv, SlotInv, Tick, Expired, Died
<1>4. SlotInv'
    BY Threads DEF TypeOK, LabelInv, TargetInv, SlotInv, Active, Ended, State, Tick, Expired, Died
<1>5. GuardInv'
    BY Threads DEF TypeOK, LabelInv, TargetInv, SlotInv, GuardInv, Tick, Expired, Died
<1>6. TorqueInv'
  <2>1. (\A x \in Session : pc[x] \in {"new", "claimed", "waiting", "connecting"} => ~torque[x])'
    BY Threads DEF TypeOK, LabelInv, TargetInv, TorqueInv, Tick, Expired, Died
  <2>2. (\A u \in StopThread :
             pc[u] \in {"joining", "release"} /\ guard[on[u]] = "none" => ~torque[on[u]])'
    BY Threads DEF TypeOK, LabelInv, TargetInv, TorqueInv, Tick, Expired, Died
  <2>3. (\A u \in StopThread :
             pc[u] = "closing" /\ torque[on[u]] => guardError[on[u]])'
    BY Threads DEF TypeOK, LabelInv, TargetInv, TorqueInv, Tick, Expired, Died
  <2>4. (\A u \in StopThread :
             pc[u] = "finishing" /\ outcome[u] = "stopped" => ~torque[on[u]])'
    BY Threads DEF TypeOK, LabelInv, TargetInv, TorqueInv, Tick, Expired, Died
  <2> QED
    BY <2>1, <2>2, <2>3, <2>4 DEF TorqueInv
<1>7. PortInv'
  <2>1. (\A q \in Thread : pc[q] = "finishing" =>
             ~port[Target(q)] \/ "leaked" \in mishap[Target(q)])'
    BY Threads DEF TypeOK, LabelInv, PortInv, Tick, Expired, Died
  <2>2. (\A x \in Session : pc[x] \in {"new", "claimed", "waiting"} => ~port[x])'
    BY Threads DEF TypeOK, LabelInv, PortInv, Tick, Expired, Died
  <2> QED
    BY <2>1, <2>2 DEF PortInv
<1>8. LoopInv'
  <2>1. (\A x \in Session : loop[x] # "none" => pc[x] \in {"started", "announcing", "done"})'
    BY Threads DEF TypeOK, LabelInv, TargetInv, LoopInv, Tick, Expired, Died
  <2>2. (\A q \in Thread : pc[q] \in Releasing =>
             loop[Target(q)] \in {"none", "dead"} \/ "overrun" \in mishap[Target(q)])'
    BY Threads DEF TypeOK, LabelInv, TargetInv, LoopInv, Tick, Expired, Died
  <2> QED
    BY <2>1, <2>2 DEF LoopInv
<1>9. RestInv'
    BY Threads DEF TypeOK, LabelInv, TargetInv, RestInv, Tick, Expired, Died
<1>10. EnergisedHasOwner' /\ FreedSlotFreesPort'
    BY Threads DEF TypeOK, EnergisedHasOwner, FreedSlotFreesPort, Tick, Expired, Died
<1> QED
    BY <1>1, <1>2, <1>3, <1>4, <1>5, <1>6, <1>7, <1>8, <1>9, <1>10

(* Reap preserves the inductive invariant. *)
LEMMA ReapStep ==
    ASSUME IInv, Reap
    PROVE  IInv'
<1>1. TypeOK'
    BY Threads DEF TypeOK, TargetInv, OutcomeInv, Active, Ended, State, Mishap, Reap, Doubled
<1>2. LabelInv' /\ TargetInv' /\ OutcomeInv'
    BY Threads DEF TypeOK, LabelInv, TargetInv, OutcomeInv, Ended, Reap, Doubled
<1>3. LockInv'
    BY Threads DEF TypeOK, LabelInv, LockInv, TargetInv, SlotInv, Reap, Doubled
<1>4. SlotInv'
  <2>1. (\A x \in Session : live = x <=> info[x] \in Active)'
    BY Threads
    DEF TypeOK, LabelInv, TargetInv, SlotInv, Active, Ended, State, LockInv, Reap, Doubled
  <2>2. (\A x \in Session : pc[x] = "new" <=> info[x] = "none")'
    BY Threads
    DEF TypeOK, LabelInv, TargetInv, SlotInv, Active, Ended, State, LockInv, Reap, Doubled
  <2>3. (\A x \in Session : info[x] = "running" => Through(x))'
    BY Threads
    DEF TypeOK, LabelInv, TargetInv, SlotInv, Active, Ended, State, LockInv, Reap, Doubled
  <2>4. (\A x \in Session : info[x] = "starting" => ~Through(x))'
    BY Threads
    DEF TypeOK, LabelInv, TargetInv, SlotInv, Active, Ended, State, LockInv, Reap, Doubled
  <2>5. (\A x \in Session : pc[x] \in {"ending", "idling", "freeing"} => live # x)'
    BY Threads
    DEF TypeOK, LabelInv, TargetInv, SlotInv, Active, Ended, State, LockInv, Reap, Doubled
  <2>6. (\A x \in Session : pc[x] \in Starting \cup Releasing \cup {"finishing"} =>
             live = x \/ "late" \in mishap[x])'
    BY Threads
    DEF TypeOK, LabelInv, TargetInv, SlotInv, Active, Ended, State, LockInv, Reap, Doubled
  <2>7. (\A u \in StopThread :
             InStopSection(u) \/ pc[u] \in {"marked", "wanting"} =>
                 info[on[u]] \notin {"none", "starting"})'
    BY Threads
    DEF TypeOK, LabelInv, TargetInv, SlotInv, Active, Ended, State, LockInv, Reap, Doubled
  <2> QED
    BY <2>1, <2>2, <2>3, <2>4, <2>5, <2>6, <2>7 DEF SlotInv
<1>5. GuardInv' /\ TorqueInv'
    BY Threads DEF TypeOK, LabelInv, TargetInv, SlotInv, GuardInv, TorqueInv, Ended, Reap, Doubled
<1>6. PortInv' /\ LoopInv'
    BY Threads DEF TypeOK, LabelInv, TargetInv, PortInv, LoopInv, Reap, Doubled
<1>7. RestInv'
    BY Threads DEF TypeOK, LabelInv, TargetInv, RestInv, Reap, Doubled
<1>8. EnergisedHasOwner' /\ FreedSlotFreesPort'
    BY Threads DEF TypeOK, EnergisedHasOwner, FreedSlotFreesPort, Reap, Doubled
<1> QED
    BY <1>1, <1>2, <1>3, <1>4, <1>5, <1>6, <1>7, <1>8

(* Shutdown preserves the inductive invariant. *)
LEMMA ShutdownStep ==
    ASSUME IInv, BeginShutdown \/ JoinWatchdog \/ FindCurrent \/ Exit
    PROVE  IInv'
<1>1. TypeOK'
    BY Threads
    DEF TypeOK, TargetInv, OutcomeInv, Active, Ended, State, Mishap, BeginShutdown, JoinWatchdog,
        FindCurrent, Exit
<1>2. LabelInv' /\ TargetInv' /\ OutcomeInv'
    BY Threads
    DEF TypeOK, LabelInv, TargetInv, OutcomeInv, Ended, BeginShutdown, JoinWatchdog, FindCurrent,
        Exit
<1>3. LockInv'
    BY Threads
    DEF TypeOK, LabelInv, LockInv, TargetInv, SlotInv, BeginShutdown, JoinWatchdog, FindCurrent,
        Exit
<1>4. SlotInv'
    BY Threads
    DEF TypeOK, LabelInv, TargetInv, SlotInv, Active, Ended, State, BeginShutdown, JoinWatchdog,
        FindCurrent, Exit
<1>5. GuardInv' /\ TorqueInv'
    BY Threads
    DEF TypeOK, LabelInv, TargetInv, SlotInv, GuardInv, TorqueInv, Ended, BeginShutdown,
        JoinWatchdog, FindCurrent, Exit
<1>6. PortInv'
    BY Threads
    DEF TypeOK, LabelInv, TargetInv, PortInv, BeginShutdown, JoinWatchdog, FindCurrent, Exit
<1>7. LoopInv'
    BY Threads
    DEF TypeOK, LabelInv, TargetInv, LoopInv, BeginShutdown, JoinWatchdog, FindCurrent, Exit
<1>8. RestInv'
    BY Threads
    DEF TypeOK, LabelInv, TargetInv, RestInv, BeginShutdown, JoinWatchdog, FindCurrent, Exit
<1>9. EnergisedHasOwner' /\ FreedSlotFreesPort'
    BY Threads
    DEF TypeOK, EnergisedHasOwner, FreedSlotFreesPort, BeginShutdown, JoinWatchdog, FindCurrent,
        Exit
<1> QED
    BY <1>1, <1>2, <1>3, <1>4, <1>5, <1>6, <1>7, <1>8, <1>9

HIDE DEF IInv

(* The session ended before its expired lease was acted on. *)
LEMMA LateExpiryStep ==
    ASSUME IInv, pc[Watchdog] = "expired", Return(Watchdog),
           UNCHANGED <<outcome, workerVars, managerVars>>
    PROVE  IInv'
<1>1. TypeOK'
    BY Threads DEF IInv, TypeOK, Return, Home
<1>2. LabelInv'
    BY Threads DEF IInv, TypeOK, LabelInv, Return, Home
<1>3. LockInv'
    BY Threads DEF IInv, TypeOK, LabelInv, TargetInv, LockInv, Return, Home
<1>4. TargetInv'
    BY Threads DEF IInv, TypeOK, LabelInv, TargetInv, Return, Home
<1>5. SlotInv'
    BY Threads DEF IInv, TypeOK, LabelInv, TargetInv, SlotInv, Return, Home
<1>6. OutcomeInv'
    BY Threads DEF IInv, TypeOK, LabelInv, OutcomeInv, Return, Home
<1>7. GuardInv'
    BY Threads DEF IInv, TypeOK, LabelInv, TargetInv, GuardInv, Return, Home
<1>8. TorqueInv'
    BY Threads DEF IInv, TypeOK, LabelInv, TargetInv, TorqueInv, Return, Home
<1>9. PortInv'
    BY Threads DEF IInv, TypeOK, LabelInv, TargetInv, PortInv, Return, Home
<1>10. LoopInv'
    BY Threads DEF IInv, TypeOK, LabelInv, TargetInv, LoopInv, Return, Home
<1>11. RestInv'
    BY Threads DEF IInv, TypeOK, LabelInv, TargetInv, RestInv, Return, Home
<1>12. EnergisedHasOwner' /\ FreedSlotFreesPort'
    BY Threads DEF IInv, EnergisedHasOwner, FreedSlotFreesPort, Return, Home
<1> QED
    BY <1>1, <1>2, <1>3, <1>4, <1>5, <1>6, <1>7, <1>8, <1>9, <1>10, <1>11, <1>12 DEF IInv

(* The session ended before the shutdown stopped it. *)
LEMMA LateShutdownStep ==
    ASSUME IInv, pc[Engine] = "stopAsked", Goto(Engine, "aborted"), UNCHANGED on,
           UNCHANGED <<outcome, workerVars, managerVars>>
    PROVE  IInv'
<1>1. TypeOK'
    BY Threads DEF IInv, TypeOK
<1>2. LabelInv'
    BY Threads DEF IInv, TypeOK, LabelInv
<1>3. LockInv'
    BY Threads DEF IInv, TypeOK, LabelInv, TargetInv, LockInv
<1>4. TargetInv'
    BY Threads DEF IInv, TypeOK, LabelInv, TargetInv
<1>5. SlotInv'
    BY Threads DEF IInv, TypeOK, LabelInv, TargetInv, SlotInv
<1>6. OutcomeInv'
    BY Threads DEF IInv, TypeOK, LabelInv, OutcomeInv
<1>7. GuardInv'
    BY Threads DEF IInv, TypeOK, LabelInv, TargetInv, GuardInv
<1>8. TorqueInv'
    BY Threads DEF IInv, TypeOK, LabelInv, TargetInv, TorqueInv
<1>9. PortInv'
    BY Threads DEF IInv, TypeOK, LabelInv, TargetInv, PortInv
<1>10. LoopInv'
    BY Threads DEF IInv, TypeOK, LabelInv, TargetInv, LoopInv
<1>11. RestInv'
    BY Threads DEF IInv, TypeOK, LabelInv, TargetInv, RestInv
<1>12. EnergisedHasOwner' /\ FreedSlotFreesPort'
    BY Threads DEF IInv, EnergisedHasOwner, FreedSlotFreesPort
<1> QED
    BY <1>1, <1>2, <1>3, <1>4, <1>5, <1>6, <1>7, <1>8, <1>9, <1>10, <1>11, <1>12 DEF IInv

-----------------------------------------------------------------------------
(* The invariant *)

(* The invariant holds initially. *)
LEMMA InvInit ==
    ASSUME Init
    PROVE  IInv
<1>1. TypeOK
    BY Threads DEF Init, WorkerInit, TypeOK, WorkerTypeOK, State, Active, Ended, Mishap
<1>2. LabelInv /\ LockInv /\ TargetInv
    BY Threads DEF Init, LabelInv, LockInv, TargetInv, InStarterSection, InStopSection
<1>3. SlotInv /\ OutcomeInv
    BY Threads DEF Init, SlotInv, OutcomeInv, Active, InStopSection, Through
<1>4. GuardInv /\ TorqueInv /\ PortInv /\ LoopInv /\ RestInv
    BY Threads DEF Init, WorkerInit, GuardInv, TorqueInv, PortInv, LoopInv, RestInv, InStop
<1>5. EnergisedHasOwner /\ FreedSlotFreesPort
    BY DEF Init, WorkerInit, EnergisedHasOwner, FreedSlotFreesPort
<1> QED
    BY <1>1, <1>2, <1>3, <1>4, <1>5 DEF IInv

(* A step of a thread preserves the invariant. *)
LEMMA ThreadStep ==
    ASSUME IInv, NEW p \in Thread, Step(p)
    PROVE  IInv'
<1>1. CASE p \in Session /\ (PublishStarting(p) \/ LockStart(p) \/ MarkRunning(p) \/ Announce(p))
    BY <1>1, PublishStartingStep, LockStartStep, MarkRunningStep, AnnounceStep
<1>2. CASE p \in Session /\ StartStep(p) /\ UNCHANGED managerVars
    BY <1>2, ConnectFollowerStep, ConnectLeaderStep, EngageStep, ReadyStep DEF StartStep
<1>3. CASE p \in StopThread /\ (PublishStopping(p) \/ LockStop(p))
    BY <1>3, PublishStoppingStep, LockStopStep
<1>4. CASE p \in StopThread /\ JoinLoop(p) /\ UNCHANGED managerVars
    BY <1>4, JoinLoopStep
<1>5. CASE ReleaseStep(p) /\ UNCHANGED managerVars
    BY <1>5, StartReleaseStep, RampStepStep, EndRampStep, CutTorqueStep, CloseDevicesStep
    DEF ReleaseStep
<1>6. CASE Finish(p) \/ PublishEnd(p) \/ PublishIdle(p) \/ Leave(p)
    BY <1>6, FinishStep, PublishEndStep, PublishIdleStep, LeaveStep
<1> QED
    BY <1>1, <1>2, <1>3, <1>4, <1>5, <1>6 DEF Step

(* A step of the watchdog beyond stop() itself preserves the invariant. *)
LEMMA WatchdogStepStep ==
    ASSUME IInv, WatchdogStep
    PROVE  IInv'
<1>1. CASE Tick
    BY <1>1, TickStep
<1>2. CASE MarkStopping(Watchdog, on[Watchdog], "expired")
    <2>1. on[Watchdog] \in Session
        BY <1>2, Threads DEF IInv, TargetInv, MarkStopping
    <2> QED
        BY <1>2, <2>1, Threads, MarkStoppingStep
<1>3. CASE /\ pc[Watchdog] = "expired"
           /\ live # on[Watchdog]
           /\ Return(Watchdog)
           /\ UNCHANGED <<outcome, workerVars, managerVars>>
    BY <1>3, LateExpiryStep
<1>4. CASE Reap
    BY <1>4, ReapStep
<1> QED
    BY <1>1, <1>2, <1>3, <1>4 DEF WatchdogStep, Expire

(* A step of the engine's shutdown preserves the invariant. *)
LEMMA EngineStepStep ==
    ASSUME IInv, EngineStep
    PROVE  IInv'
<1>1. CASE JoinWatchdog \/ FindCurrent \/ Exit
    BY <1>1, ShutdownStep
<1>2. CASE MarkStopping(Engine, on[Engine], "stopAsked")
    <2>1. on[Engine] \in Session
        BY <1>2, Threads DEF IInv, TargetInv, MarkStopping
    <2> QED
        BY <1>2, <2>1, Threads, MarkStoppingStep
<1>3. CASE /\ pc[Engine] = "stopAsked"
           /\ live # on[Engine]
           /\ Goto(Engine, "aborted")
           /\ UNCHANGED <<on, outcome, workerVars, managerVars>>
    BY <1>3, LateShutdownStep
<1> QED
    BY <1>1, <1>2, <1>3 DEF EngineStep, StopCurrent

(* Every step preserves the invariant. *)
LEMMA InvNext ==
    ASSUME IInv, [Next]_vars
    PROVE  IInv'
<1>1. CASE UNCHANGED vars
    BY <1>1 DEF vars, IInv, TypeOK, WorkerTypeOK, LabelInv, LockInv, TargetInv, SlotInv,
        OutcomeInv, GuardInv, TorqueInv, PortInv, LoopInv, RestInv, EnergisedHasOwner,
        FreedSlotFreesPort, InStarterSection, InStopSection, Through, InStop
<1>2. ASSUME NEW p \in Thread, Step(p) PROVE IInv'
    BY <1>2, ThreadStep
<1>3. ASSUME NEW s \in Session, LoopStep(s), UNCHANGED managerVars PROVE IInv'
    BY <1>3, LoopIterateStep, LoopCommandStep, LoopFailStep, LoopEndStep DEF LoopStep
<1>4. CASE WatchdogStep
    BY <1>4, WatchdogStepStep
<1>5. CASE EngineStep
    BY <1>5, EngineStepStep
<1>6. CASE Environment
    <2>1. ASSUME NEW s \in Session, Claim(s) \/ Heartbeat(s) \/ LeaseLapse(s) PROVE IInv'
        BY <2>1, ClaimStep, HeartbeatStep
    <2>2. ASSUME NEW t \in Stopper, NEW s \in Session, RequestStop(t, s) PROVE IInv'
        <3>1. t \in StopThread
            BY ThreadAssumption DEF StopThread, Thread
        <3> QED
            BY <2>2, <3>1, MarkStoppingStep DEF RequestStop
    <2>3. CASE BeginShutdown
        BY <2>3, ShutdownStep
    <2> QED
        BY <1>6, <2>1, <2>2, <2>3 DEF Environment
<1> QED
    BY <1>1, <1>2, <1>3, <1>4, <1>5, <1>6 DEF Next

(* The invariant holds in every reachable state. *)
THEOREM Invariance == Spec => []IInv
BY InvInit, InvNext, PTL DEF Spec

-----------------------------------------------------------------------------
(* What follows from it *)

(* Every variable keeps its type. *)
THEOREM TypeCorrect == Spec => []TypeOK
<1>1. IInv => TypeOK
    BY DEF IInv
<1> QED
    BY Invariance, <1>1, PTL

(* start() and stop() of one worker never overlap: the comments at          *)
(* session.py:93 and 186-187, for the watchdog's lock-free reap too.        *)
THEOREM NoOverlap == Spec => []StartStopExclusive
<1>1. IInv => StartStopExclusive
    BY SectionsExclusive
    DEF StartStopExclusive, InStart, InStop, InStarterSection, InStopSection
<1> QED
    BY Invariance, <1>1, PTL

(* A follower is energised only by a worker whose session still has the     *)
(* slot, ended as failed, or was started after it had been closed: the last *)
(* is the only way a session can be reported stopped with torque on.        *)
THEOREM EnergisedIsAccountedFor == Spec => []EnergisedHasOwner
<1>1. IInv => EnergisedHasOwner
    BY DEF IInv
<1> QED
    BY Invariance, <1>1, PTL

(* The slot is never free with the follower's port still open, a start that *)
(* ran late and a lost camera excepted.                                     *)
THEOREM SlotFreesPort == Spec => []FreedSlotFreesPort
<1>1. IInv => FreedSlotFreesPort
    BY DEF IInv
<1> QED
    BY Invariance, <1>1, PTL

(* Only CutTorque turns torque off. *)
LEMMA OnlyCutTorqueCuts ==
    ASSUME IInv, Next, NEW s \in Session, torque[s], ~torque'[s]
    PROVE  \E p \in Thread : pc[p] = "cutting" /\ Target(p) = s
<1>1. PICK p \in Thread : Step(p)
    BY DEF Next, LoopStep, LoopIterate, LoopCommand, LoopFail, LoopEnd, WatchdogStep, Tick,
        Expire, MarkStopping, Reap, EngineStep, JoinWatchdog, FindCurrent, StopCurrent, Exit,
        Environment, Claim, Heartbeat, LeaseLapse, RequestStop, BeginShutdown, vars
<1>2. CutTorque(p) \/ ConnectFollower(p)
    BY <1>1 DEF Step, PublishStarting, LockStart, MarkRunning, Announce, StartStep,
        ConnectLeader, Engage, Ready, PublishStopping, LockStop, JoinLoop, ReleaseStep,
        StartRelease, RampStep, EndRamp, CloseDevices, Finish, PublishEnd, PublishIdle, Leave
<1>3. CutTorque(p)
    BY <1>2 DEF ConnectFollower, IInv, TypeOK, WorkerTypeOK
<1> QED
    BY <1>3 DEF CutTorque, IInv, TypeOK, WorkerTypeOK

(* Torque is cut with the arm at rest, unless the ramp failed, a control    *)
(* loop outlived its join or two threads were stopping the worker.          *)
THEOREM TorqueCutAtRest == Spec => CutOnlyAtRest
<1>1. ASSUME IInv, [Next]_vars
      PROVE  [\A s \in Session :
                 torque[s] /\ ~torque'[s] =>
                     \/ ~away[s] \/ guardError[s]
                     \/ "overrun" \in mishap[s] \/ "doubled" \in mishap[s]]_vars
    <2> SUFFICES ASSUME Next, NEW s \in Session, torque[s], ~torque'[s]
                 PROVE  \/ ~away[s] \/ guardError[s]
                        \/ "overrun" \in mishap[s] \/ "doubled" \in mishap[s]
        BY <1>1
    <2>1. PICK p \in Thread : pc[p] = "cutting" /\ Target(p) = s
        BY <1>1, OnlyCutTorqueCuts
    <2> QED
        BY <1>1, <2>1 DEF IInv, RestInv
<1> QED
    BY Invariance, <1>1, PTL DEF Spec, CutOnlyAtRest

(* Torque is never cut under a running control loop, unless stop() gave up  *)
(* waiting for it.                                                          *)
THEOREM TorqueCutAfterLoop == Spec => CutOnlyAfterLoop
<1>1. ASSUME IInv, [Next]_vars
      PROVE  [\A s \in Session :
                 torque[s] /\ ~torque'[s] =>
                     loop[s] \in {"none", "dead"} \/ "overrun" \in mishap[s]]_vars
    <2> SUFFICES ASSUME Next, NEW s \in Session, torque[s], ~torque'[s]
                 PROVE  loop[s] \in {"none", "dead"} \/ "overrun" \in mishap[s]
        BY <1>1
    <2>1. PICK p \in Thread : pc[p] = "cutting" /\ Target(p) = s
        BY <1>1, OnlyCutTorqueCuts
    <2> QED
        BY <1>1, <2>1 DEF IInv, LoopInv
<1> QED
    BY Invariance, <1>1, PTL DEF Spec, CutOnlyAfterLoop

-----------------------------------------------------------------------------
(* The manager implements its abstract specification *)

(* A step of the manager on the slot is a step of the slot, or none. *)
LEMMA SlotStep ==
    ASSUME IInv, [Next]_vars
    PROVE  [Slot!Next]_(Slot!slotVars)
<1> DEFINE Stutters == UNCHANGED <<live, info>>
<1>1. CASE UNCHANGED vars
    BY <1>1 DEF vars, Slot!slotVars
<1>2. ASSUME NEW s \in Session, Claim(s) PROVE Slot!Open(s)
    BY <1>2 DEF IInv, TypeOK, SlotInv, Claim, Slot!Open
<1>3. ASSUME NEW s \in Session, MarkRunning(s) PROVE Slot!Run(s) \/ Stutters
    BY <1>3 DEF IInv, TypeOK, SlotInv, Active, MarkRunning, Slot!Run
<1>4. ASSUME NEW t \in StopThread, NEW s \in Session, NEW from, MarkStopping(t, s, from)
      PROVE  Slot!Stop(s) \/ Stutters
    BY <1>4 DEF IInv, TypeOK, SlotInv, Active, MarkStopping, Slot!Stop
<1>5. ASSUME NEW p \in Thread, Finish(p)
      PROVE  (\E s \in Session : \E how \in {"stopped", "failed"} : Slot!Close(s, how)) \/ Stutters
    <2>1. Target(p) \in Session
        BY <1>5, Threads DEF IInv, LabelInv, TargetInv, Finish
    <2>2. outcome[p] \in {"stopped", "failed"}
        BY <1>5 DEF IInv, OutcomeInv, Ended, Finish
    <2>3. outcome[p] = "stopped" => info[Target(p)] # "starting"
        BY <1>5, Threads DEF IInv, OutcomeInv, SlotInv, Finish
    <2>4. Slot!Close(Target(p), outcome[p]) \/ Stutters
        BY <1>5, <2>1, <2>2, <2>3 DEF Finish, Slot!Close
    <2> QED
        BY <2>1, <2>2, <2>4
<1>6. ASSUME NEW p \in Thread, Step(p) PROVE Slot!Next \/ Stutters
    <2>1. CASE Finish(p)
        BY <2>1, <1>5 DEF Slot!Next
    <2>2. CASE p \in Session /\ MarkRunning(p)
        BY <2>2, <1>3 DEF Slot!Next
    <2>3. CASE ~Finish(p) /\ ~(p \in Session /\ MarkRunning(p))
        BY <1>6, <2>3 DEF Step, PublishStarting, LockStart, Announce, PublishStopping, LockStop,
            PublishEnd, PublishIdle, Leave
    <2> QED
        BY <2>1, <2>2, <2>3
<1>7. ASSUME NEW s \in Session, LoopStep(s), UNCHANGED managerVars PROVE Stutters
    BY <1>7
<1>8. CASE WatchdogStep
    <2>1. CASE MarkStopping(Watchdog, on[Watchdog], "expired")
        <3>1. on[Watchdog] \in Session
            BY <2>1, Threads DEF IInv, TargetInv, MarkStopping
        <3> QED
            BY <2>1, <3>1, <1>4, Threads DEF Slot!Next, Slot!slotVars
    <2>2. CASE ~MarkStopping(Watchdog, on[Watchdog], "expired")
        BY <1>8, <2>2 DEF WatchdogStep, Tick, Expire, Reap, Slot!slotVars
    <2> QED
        BY <2>1, <2>2
<1>9. CASE EngineStep
    <2>1. CASE MarkStopping(Engine, on[Engine], "stopAsked")
        <3>1. on[Engine] \in Session
            BY <2>1, Threads DEF IInv, TargetInv, MarkStopping
        <3> QED
            BY <2>1, <3>1, <1>4, Threads DEF Slot!Next, Slot!slotVars
    <2>2. CASE ~MarkStopping(Engine, on[Engine], "stopAsked")
        BY <1>9, <2>2 DEF EngineStep, JoinWatchdog, FindCurrent, StopCurrent, Exit, Slot!slotVars
    <2> QED
        BY <2>1, <2>2
<1>10. CASE Environment
    <2>1. ASSUME NEW s \in Session, Claim(s) PROVE Slot!Next
        BY <2>1, <1>2 DEF Slot!Next
    <2>2. ASSUME NEW s \in Session, Heartbeat(s) \/ LeaseLapse(s) PROVE Stutters
        BY <2>2 DEF Heartbeat, LeaseLapse
    <2>3. ASSUME NEW t \in Stopper, NEW s \in Session, RequestStop(t, s)
          PROVE  Slot!Next \/ Stutters
        <3>1. t \in StopThread
            BY ThreadAssumption DEF StopThread, Thread
        <3> QED
            BY <2>3, <3>1, <1>4 DEF RequestStop, Slot!Next
    <2>4. CASE BeginShutdown
        BY <2>4 DEF BeginShutdown, Slot!slotVars
    <2> QED
        BY <1>10, <2>1, <2>2, <2>3, <2>4 DEF Environment, Slot!slotVars
<1> QED
    BY <1>1, <1>6, <1>7, <1>8, <1>9, <1>10 DEF Next, Slot!slotVars

(* The session manager implements the abstract slot: no two sessions own it, *)
(* a session leaves it once, and only what has it can be stopped or run.     *)
THEOREM ImplementsSlot == Spec => SlotRefinement
<1>1. Init => Slot!Init
    BY DEF Init, Slot!Init
<1>2. IInv /\ [Next]_vars => [Slot!Next]_(Slot!slotVars)
    BY SlotStep
<1> QED
    BY Invariance, <1>1, <1>2, PTL DEF Spec, SlotRefinement, Slot!Spec

-----------------------------------------------------------------------------
(* What the slot promises, the session manager keeps: it follows of the    *)
(* slot alone.                                                             *)
OwnerInv ==
    /\ live \in Session \cup {NoSession}
    /\ info \in [Session -> Slot!Phase]
    /\ Slot!ActiveIsOwner

LEMMA SlotStepKeeps ==
    ASSUME OwnerInv, Slot!Next
    PROVE  /\ OwnerInv'
           /\ \A s \in Session : info[s] \in {"stopped", "failed"} => info'[s] = info[s]
<1>1. PICK s \in Session :
         \/ Slot!Open(s) \/ Slot!Run(s) \/ Slot!Stop(s)
         \/ \E how \in {"stopped", "failed"} : Slot!Close(s, how)
    BY DEF Slot!Next
<1>2. NoSession \notin Session
    BY NoSessionAssumption
<1>3. \E new \in Slot!Phase :
         /\ info' = [info EXCEPT ![s] = new]
         /\ live' \in {s, NoSession}
         /\ new \in {"starting", "running", "stopping"} <=> live' = s
         /\ live \in {s, NoSession} /\ info[s] \notin {"stopped", "failed"}
    BY <1>1, <1>2 DEF Slot!Open, Slot!Run, Slot!Stop, Slot!Close, Slot!Phase, OwnerInv, Slot!ActiveIsOwner
<1>4. PICK new \in Slot!Phase :
         /\ info' = [info EXCEPT ![s] = new]
         /\ live' \in {s, NoSession}
         /\ new \in {"starting", "running", "stopping"} <=> live' = s
         /\ live \in {s, NoSession} /\ info[s] \notin {"stopped", "failed"}
    BY <1>3
<1>5. info' \in [Session -> Slot!Phase] /\ info'[s] = new /\ \A r \in Session \ {s} : info'[r] = info[r]
    BY <1>4 DEF OwnerInv
<1>6. Slot!ActiveIsOwner'
    BY <1>2, <1>4, <1>5 DEF OwnerInv, Slot!ActiveIsOwner
<1> QED
    BY <1>4, <1>5, <1>6 DEF OwnerInv

(* Whoever is told that a session is active is told of the one that has    *)
(* the slot, and what a session was said to have ended as, it has ended as, *)
(* however many threads stop it (session.py:150-158, 241-256).             *)
THEOREM EndedSessionsHaveEnded == Spec => []Slot!ActiveIsOwner /\ Slot!EndIsForGood
<1>1. Slot!Init => OwnerInv
    BY NoSessionAssumption DEF Slot!Init, OwnerInv, Slot!ActiveIsOwner, Slot!Phase
<1>2. OwnerInv /\ [Slot!Next]_(Slot!slotVars) => OwnerInv'
    <2>1. OwnerInv /\ UNCHANGED Slot!slotVars => OwnerInv'
        BY DEF OwnerInv, Slot!ActiveIsOwner, Slot!slotVars
    <2> QED
        BY <2>1, SlotStepKeeps
<1>3. OwnerInv /\ [Slot!Next]_(Slot!slotVars) =>
        [\A s \in Session : info[s] \in {"stopped", "failed"} => info'[s] = info[s]]_(Slot!slotVars)
    BY SlotStepKeeps
<1>4. OwnerInv => Slot!ActiveIsOwner
    BY DEF OwnerInv
<1> QED
    BY <1>1, <1>2, <1>3, <1>4, ImplementsSlot, PTL
       DEF SlotRefinement, Slot!Spec, Slot!EndIsForGood
=============================================================================
