------------------------------ MODULE Coaching ------------------------------
(***************************************************************************)
(* A coaching session (coaching.py on rollout.py): requests that control   *)
(* it, the helper thread that carries a handover out step by step, the     *)
(* loop of the library's dagger strategy, and the threads in start() and   *)
(* stop(). The strategy is not part of the repository: its phase machine,  *)
(* what it does with the leader arm and when it saves are those that       *)
(* coaching.py and tests/nexarm_service/test_coaching.py rely on.          *)
(*                                                                         *)
(* A follower's rest pose, ramp and torque are ArmWorker's subject; here   *)
(* it is energised or not.                                                 *)
(***************************************************************************)
EXTENDS Naturals, Sequences, FiniteSets

CONSTANTS
    Client,      \* the threads that serve POST /sessions/{id}/control
    Episodes,    \* params.num_episodes
    MaxDrops,    \* bound: how often drop_last is asked for
    Faulty       \* devices, reads and the strategy may fail

ASSUME ClientsAssumption == IsFiniteSet(Client)
ASSUME EpisodesAssumption == Episodes \in Nat \ {0}
ASSUME DropsAssumption == MaxDrops \in Nat
ASSUME FaultyAssumption == Faulty \in BOOLEAN

VARIABLES
    worker,      \* where start() or stop() is
    events,      \* DAggerEvents: the phase, and the transition asked for
    loop,        \* the strategy's loop, and the phase it comes from
    chain,       \* the helper thread: what it carries out, and the steps left; free is the lock
    req,         \* where each request is, what it asks, and the phase it has read
    hold,        \* _hold_action is set
    discardNext, \* _discard_next
    target,      \* strategy.config.num_episodes
    corrections, \* corrections saved
    discarded,   \* corrections dropped
    leader,      \* its torque, whether the worker knows, and where it was driven
    energised,   \* the follower's torque
    mishap       \* history: what went out of the ordinary

countVars == <<target, corrections, discarded>>
armVars == <<leader, energised>>
vars == <<worker, events, loop, chain, req, hold, discardNext, countVars, armVars, mishap>>

Phase == {"autonomous", "paused", "correcting"}
Event == {"pause_resume", "correction"}

Step(e, p) == [event |-> e, reaches |-> p]

(* _PLANS, and the plan of a reset. *)
Plans ==
    [takeover  |-> [autonomous |-> <<Step("pause_resume", "paused"),
                                     Step("correction", "correcting")>>,
                    paused |-> <<Step("correction", "correcting")>>],
     handback  |-> [correcting |-> <<Step("correction", "paused"),
                                     Step("pause_resume", "autonomous")>>,
                    paused |-> <<Step("pause_resume", "autonomous")>>],
     hold      |-> [autonomous |-> <<Step("pause_resume", "paused")>>],
     resume    |-> [paused |-> <<Step("pause_resume", "autonomous")>>],
     drop_last |-> [correcting |-> <<Step("correction", "paused")>>],
     reset     |-> [autonomous |-> <<Step("pause_resume", "paused")>>, paused |-> <<>>]]

Action == DOMAIN Plans
Handovers == {"takeover", "handback", "resume"}

(* What the library's consume_transition makes of an event. *)
Transition(p, e) ==
    CASE e = "pause_resume" /\ p = "autonomous" -> "paused"
      [] e = "pause_resume" /\ p = "paused" -> "autonomous"
      [] e = "correction" /\ p = "paused" -> "correcting"
      [] e = "correction" /\ p = "correcting" -> "paused"
      [] OTHER -> p

Free == [at |-> "free", action |-> "none", left |-> <<>>]
LoopAt(label) == [at |-> label, from |-> "autonomous"]
Idle == [at |-> "idle", action |-> "none", phase |-> "paused"]

Init ==
    /\ worker = "new"
    /\ events = [phase |-> "autonomous", pending |-> "none"]
    /\ loop = LoopAt("none")
    /\ chain = Free
    /\ req = [c \in Client |-> Idle]
    /\ hold = FALSE
    /\ discardNext = FALSE
    /\ target = Episodes
    /\ corrections = 0
    /\ discarded = 0
    /\ leader = [torque |-> FALSE, known |-> FALSE, at |-> "start"]
    /\ energised = FALSE
    /\ mishap = {}

(* stray: a plan began in another phase than it was made for, on a hold    *)
(* that was set again or when the mark of its drop_last had dropped an     *)
(* earlier correction, or a handover gave up and its transition may still  *)
(* follow; refused: a drop_last that had left its mark; crossed: a reset   *)
(* or the loop still drove the arms while stop() released them; fault: a   *)
(* device failed while it was released.                                    *)
Mishap == {"stray", "refused", "crossed", "fault"}

TypeOK ==
    /\ worker \in {"new", "preparing", "running", "joining", "leader", "freeing", "follower",
                   "over", "broken"}
    /\ events \in [phase : Phase, pending : Event \cup {"none"}]
    /\ loop \in [at : {"none", "turn", "apply", "save", "over"}, from : Phase]
    /\ chain \in [at : {"free", "request", "wait", "then", "move", "track", "moving"},
                  action : Action \cup {"none"}, left : Seq([event : Event, reaches : Phase])]
    /\ req \in [Client -> [at : {"idle", "drop", "slot", "clear", "chain"},
                           action : Action \cup {"none"}, phase : Phase]]
    /\ hold \in BOOLEAN /\ discardNext \in BOOLEAN /\ energised \in BOOLEAN
    /\ target \in Episodes..(Episodes + MaxDrops)
    /\ corrections \in Nat /\ discarded \in Nat
    /\ leader \in [torque : BOOLEAN, known : BOOLEAN, at : {"start", "away"}]
    /\ mishap \subseteq Mishap

-----------------------------------------------------------------------------
(* start()                                                                 *)

(* build_context() connects both arms and energises the follower. It is    *)
(* called before the try: what it has connected when it fails stays so.    *)
BuildContext ==
    /\ worker = "new"
    /\ \/ worker' = "preparing" /\ energised' = TRUE
       \/ Faulty /\ worker' = "broken" /\ energised' \in BOOLEAN
    /\ UNCHANGED <<events, loop, chain, req, hold, discardNext, countVars, leader, mishap>>

(* Rest poses, the strategy and its set-up; or what was built is released. *)
Prepare ==
    /\ worker = "preparing"
    /\ \/ worker' = "running" /\ loop' = LoopAt("turn")
       \/ Faulty /\ worker' = "follower" /\ UNCHANGED loop
    /\ UNCHANGED <<events, chain, req, hold, discardNext, countVars, armVars, mishap>>

-----------------------------------------------------------------------------
(* control()                                                               *)

DropsAsked == target - Episodes + Cardinality({c \in Client : req[c].at \in {"drop", "slot"}})

(* The phase is read and the plan looked up; without one it is refused. *)
Ask(c, a) ==
    /\ worker = "running"
    /\ req[c].at = "idle"
    /\ events.phase \in DOMAIN Plans[a]
    /\ a = "drop_last" => DropsAsked < MaxDrops
    /\ req' = [req EXCEPT ![c] =
          [at |-> IF a = "drop_last" THEN "drop" ELSE IF a \in Handovers THEN "clear" ELSE "chain",
           action |-> a, phase |-> events.phase]]
    /\ UNCHANGED <<worker, events, loop, chain, hold, discardNext, countVars, armVars, mishap>>

(* stop_recording: the loop sees it when its turn is over. *)
Finish ==
    /\ worker = "running"
    /\ loop.at = "turn"
    /\ loop' = LoopAt("over")
    /\ UNCHANGED <<worker, events, chain, req, hold, discardNext, countVars, armVars, mishap>>

Advance(c, label) == req' = [req EXCEPT ![c].at = label]

MarkDropOnly(c) ==   \* mutant: the discarded take's slot is not given back
    /\ req[c].at = "drop"
    /\ discardNext' = TRUE
    /\ Advance(c, "chain")
    /\ UNCHANGED <<worker, events, loop, chain, hold, countVars, armVars, mishap>>

MarkDrop(c) ==
    /\ req[c].at = "drop"
    /\ discardNext' = TRUE
    /\ Advance(c, "slot")
    /\ UNCHANGED <<worker, events, loop, chain, hold, countVars, armVars, mishap>>

(* The strategy counts the dropped take as one of its episodes. *)
GiveSlotBack(c) ==
    /\ req[c].at = "slot"
    /\ \/ worker # "over" /\ target' = target + 1 /\ Advance(c, "chain")
       \/ worker = "over" /\ req' = [req EXCEPT ![c] = Idle] /\ UNCHANGED target
    /\ UNCHANGED <<worker, events, loop, chain, hold, discardNext, corrections, discarded, armVars,
                   mishap>>

ClearHold(c) ==
    /\ req[c].at = "clear"
    /\ hold' = FALSE
    /\ Advance(c, "chain")
    /\ UNCHANGED <<worker, events, loop, chain, discardNext, countVars, armVars, mishap>>

Begin(a, steps) ==
    [at |-> IF steps = <<>> THEN "then" ELSE "request", action |-> a, left |-> steps]

TakeChainAnyway(c) ==   \* mutant: a handover takes the place of the one under way
    /\ req[c].at = "chain"
    /\ chain' = Begin(req[c].action, Plans[req[c].action][req[c].phase])
    /\ req' = [req EXCEPT ![c] = Idle]
    /\ mishap' = IF events.phase # req[c].phase THEN mishap \cup {"stray"} ELSE mishap
    /\ UNCHANGED <<worker, events, loop, hold, discardNext, countVars, armVars>>

(* _run_chain: one handover at a time, a second one is refused; what the   *)
(* request has done by then is not taken back.                             *)
TakeChain(c) ==
    /\ req[c].at = "chain"
    /\ req' = [req EXCEPT ![c] = Idle]
    /\ LET a == req[c].action  p == req[c].phase IN
        \/ /\ chain.at = "free"
           /\ chain' = Begin(a, Plans[a][p])
           /\ mishap' = IF \/ events.phase # p
                           \/ a \in Handovers /\ hold
                           \/ a = "drop_last" /\ ~discardNext
                        THEN mishap \cup {"stray"} ELSE mishap
        \/ /\ chain.at # "free"
           /\ mishap' = IF a = "drop_last" THEN mishap \cup {"refused"} ELSE mishap
           /\ UNCHANGED chain
    /\ UNCHANGED <<worker, events, loop, hold, discardNext, countVars, armVars>>

Request(c) == MarkDrop(c) \/ GiveSlotBack(c) \/ ClearHold(c) \/ TakeChain(c)

-----------------------------------------------------------------------------
(* _run_chain's thread                                                     *)

Stopping == worker \notin {"new", "preparing", "running"}

RequestTransition ==
    /\ chain.at = "request"
    /\ \/ /\ worker # "over"
          /\ events' = [events EXCEPT !.pending = Head(chain.left).event]
          /\ chain' = [chain EXCEPT !.at = "wait"]
       \/ worker = "over" /\ chain' = Free /\ UNCHANGED events
    /\ UNCHANGED <<worker, loop, req, hold, discardNext, countVars, armVars, mishap>>

PhaseReached ==
    /\ chain.at = "wait"
    /\ events.phase = Head(chain.left).reaches
    /\ LET rest == Tail(chain.left) IN
        chain' = IF rest # <<>> \/ chain.action = "reset" THEN Begin(chain.action, rest) ELSE Free
    /\ UNCHANGED <<worker, events, loop, req, hold, discardNext, countVars, armVars, mishap>>

PhaseTimesOutHeld ==   \* mutant: a handover that fails keeps the lock
    /\ chain.at = "wait"
    /\ events.phase # Head(chain.left).reaches
    /\ UNCHANGED vars

(* HANDOVER_TIMEOUT_S have passed, or the session stops: the handover is   *)
(* over, but what it asked of the strategy is not taken back.              *)
PhaseTimesOut ==
    /\ chain.at = "wait"
    /\ events.phase # Head(chain.left).reaches
    /\ chain' = Free
    /\ mishap' = mishap \cup {"stray"}
    /\ UNCHANGED <<worker, events, loop, req, hold, discardNext, countVars, armVars>>

(* _reset_to_rest(): without a guard there is no rest pose. *)
HoldAtRest ==
    /\ chain.at = "then"
    /\ \/ /\ worker # "over"
          /\ hold' = TRUE
          /\ chain' = [chain EXCEPT !.at = "move"]
          /\ mishap' = IF Stopping THEN mishap \cup {"crossed"} ELSE mishap
       \/ worker = "over" /\ chain' = Free /\ UNCHANGED <<hold, mishap>>
    /\ UNCHANGED <<worker, events, loop, req, discardNext, countVars, armVars>>

(* teleop_smooth_move_to() begins: the leader's torque goes on, and only   *)
(* then does the worker take note of it (tracked_enable).                  *)
EnableLeader ==
    /\ chain.at = "move"
    /\ \/ /\ worker # "over"
          /\ leader' = [leader EXCEPT !.torque = TRUE]
          /\ chain' = [chain EXCEPT !.at = "track"]
       \/ worker = "over" /\ chain' = Free /\ UNCHANGED leader
    /\ UNCHANGED <<worker, events, loop, req, hold, discardNext, countVars, energised, mishap>>

TrackLeader ==
    /\ chain.at = "track"
    /\ leader' = [leader EXCEPT !.known = TRUE]
    /\ chain' = [chain EXCEPT !.at = "moving"]
    /\ UNCHANGED <<worker, events, loop, req, hold, discardNext, countVars, energised, mishap>>

(* One command of many, over two seconds; nothing tells it of a stop. *)
MoveLeader ==
    /\ chain.at = "moving"
    /\ \/ /\ worker # "over"
          /\ leader' = [leader EXCEPT !.at = "away"]
          /\ chain' \in {chain, Free}
       \/ worker = "over" /\ chain' = Free /\ UNCHANGED leader
    /\ UNCHANGED <<worker, events, loop, req, hold, discardNext, countVars, energised, mishap>>

Helper ==
    \/ RequestTransition \/ PhaseReached \/ PhaseTimesOut
    \/ HoldAtRest \/ EnableLeader \/ TrackLeader \/ MoveLeader

-----------------------------------------------------------------------------
(* The strategy's loop                                                     *)

MayGoOn == ~Stopping /\ corrections + discarded < target

LoopEnds ==
    /\ loop.at = "turn"
    /\ ~MayGoOn
    /\ loop' = LoopAt("over")
    /\ UNCHANGED <<worker, events, chain, req, hold, discardNext, countVars, armVars, mishap>>

(* A device, the policy or the dataset fails, or is closed by now. *)
LoopFails ==
    /\ loop.at \in {"turn", "apply", "save"}
    /\ Faulty \/ worker = "over"
    /\ loop' = LoopAt("over")
    /\ UNCHANGED <<worker, events, chain, req, hold, discardNext, countVars, armVars, mishap>>

(* consume_transition(): an event that means nothing in this phase is lost. *)
Consume ==
    /\ loop.at = "turn"
    /\ MayGoOn
    /\ events.pending # "none"
    /\ LET new == Transition(events.phase, events.pending) IN
        /\ events' = [events EXCEPT !.phase = new, !.pending = "none"]
        /\ loop' = IF new = events.phase THEN loop ELSE [at |-> "apply", from |-> events.phase]
    /\ UNCHANGED <<worker, chain, req, hold, discardNext, countVars, armVars, mishap>>

(* _apply_transition(): a correction frees the leader; otherwise it holds, *)
(* driven to the follower's pose.                                          *)
Apply ==
    /\ loop.at = "apply"
    /\ worker # "over"
    /\ LET torque == events.phase # "correcting" IN
          leader' = [torque |-> torque, known |-> torque, at |-> "away"]
    /\ loop' = LoopAt(IF loop.from = "correcting" /\ events.phase = "paused" THEN "save" ELSE "turn")
    /\ UNCHANGED <<worker, events, chain, req, hold, discardNext, countVars, energised, mishap>>

(* save_episode(), as _after_setup wraps it. *)
Save ==
    /\ loop.at = "save"
    /\ worker # "over"
    /\ loop' = LoopAt("turn")
    /\ \/ discardNext /\ discarded' = discarded + 1 /\ UNCHANGED corrections
       \/ ~discardNext /\ corrections' = corrections + 1 /\ UNCHANGED discarded
    /\ discardNext' = FALSE
    /\ UNCHANGED <<worker, events, chain, req, hold, target, armVars, mishap>>

Loop == LoopEnds \/ LoopFails \/ Consume \/ Apply \/ Save

-----------------------------------------------------------------------------
(* stop(), and the release it shares with a start that fails               *)

Stop ==
    /\ worker = "running"
    /\ worker' = "joining"
    /\ mishap' = IF chain.at \in {"move", "track", "moving"} THEN mishap \cup {"crossed"} ELSE mishap
    /\ UNCHANGED <<events, loop, chain, req, hold, discardNext, countVars, armVars>>

JoinLoopNot ==   \* mutant: the loop is not joined
    /\ worker = "joining"
    /\ hold' = FALSE
    /\ worker' = IF leader.known THEN "leader" ELSE "follower"
    /\ UNCHANGED <<events, loop, chain, req, discardNext, countVars, armVars, mishap>>

(* For a minute at most: a move or a save may take longer. Then            *)
(* _before_release(); the helper thread is not joined.                     *)
JoinLoop ==
    /\ worker = "joining"
    /\ \/ loop.at = "over" /\ UNCHANGED mishap
       \/ loop.at \in {"apply", "save"} /\ mishap' = mishap \cup {"crossed"}
    /\ hold' = FALSE
    /\ worker' = IF leader.known THEN "leader" ELSE "follower"
    /\ UNCHANGED <<events, loop, chain, req, discardNext, countVars, armVars>>

RampLeader ==
    /\ worker = "leader"
    /\ worker' = "freeing"
    /\ \/ leader' = [leader EXCEPT !.at = "start"] /\ UNCHANGED mishap
       \/ Faulty /\ mishap' = mishap \cup {"fault"} /\ UNCHANGED leader
    /\ UNCHANGED <<events, loop, chain, req, hold, discardNext, countVars, energised>>

FreeLeader ==
    /\ worker = "freeing"
    /\ worker' = "follower"
    /\ \/ leader' = [leader EXCEPT !.torque = FALSE, !.known = FALSE] /\ UNCHANGED mishap
       \/ Faulty /\ mishap' = mishap \cup {"fault"} /\ UNCHANGED leader
    /\ UNCHANGED <<events, loop, chain, req, hold, discardNext, countVars, energised>>

(* FollowerGuard.release (ArmWorker); then the devices are disconnected,   *)
(* and without a strategy phase() says "autonomous".                       *)
ReleaseFollower ==
    /\ worker = "follower"
    /\ worker' = "over"
    /\ events' = [phase |-> "autonomous", pending |-> "none"]
    /\ \/ energised' = FALSE /\ UNCHANGED mishap
       \/ Faulty /\ mishap' = mishap \cup {"fault"} /\ UNCHANGED energised
    /\ UNCHANGED <<loop, chain, req, hold, discardNext, countVars, leader>>

Release == JoinLoop \/ RampLeader \/ FreeLeader \/ ReleaseFollower

-----------------------------------------------------------------------------
Next ==
    \/ BuildContext \/ Prepare \/ Finish \/ Stop
    \/ \E c \in Client : Request(c) \/ \E a \in Action : Ask(c, a)
    \/ Helper \/ Loop \/ Release

Spec == Init /\ [][Next]_vars

(* The program's own threads run; a handover that does not get anywhere    *)
(* times out. Nobody has to ask for anything.                              *)
Fairness ==
    /\ WF_vars(Helper)
    /\ WF_vars(LoopEnds \/ Consume \/ Apply \/ Save \/ (worker = "over" /\ LoopFails))
    /\ WF_vars(Release)
    /\ \A c \in Client : WF_vars(Request(c))

FairSpec == Spec /\ Fairness

-----------------------------------------------------------------------------
(* The loop does not end short of the corrections that were asked for:     *)
(* every dropped one, and every one that is marked to be, has its slot     *)
(* given back (coaching.py:179), except between the two assignments of a   *)
(* request that drops one.                                                 *)
SlotsGivenBack ==
    worker # "over" =>
        target + Cardinality({c \in Client : req[c].at = "slot"})
            >= Episodes + discarded + (IF discardNext THEN 1 ELSE 0)

(* While handovers are carried out in the phase they were planned in and   *)
(* in time, an operator who corrects drags a free leader, and the follower *)
(* follows it: no reset holds it at rest (coaching.py:74, 166).            *)
CorrectionIsFree ==
    /\ "stray" \notin mishap
    /\ ~Stopping
    /\ loop.at = "turn"
    /\ events.phase = "correcting"
    => ~hold /\ ~leader.torque

(* A correction is dropped by the drop_last that names it, and only by     *)
(* that, if none was refused after it had left its mark (coaching.py:178). *)
DropsAreAsked ==
    ~Stopping /\ loop.at \in {"turn", "apply", "save"} /\ mishap \cap {"stray", "refused"} = {} =>
        /\ discardNext => \/ \E c \in Client : req[c].action = "drop_last"
                          \/ chain.action = "drop_last"
                          \/ loop = [at |-> "apply", from |-> "correcting"] \/ loop.at = "save"
        /\ loop.at = "save" /\ chain.action = "drop_last" => discardNext

(* A drop_last is honoured: its slot is given back, and nothing else is    *)
(* dropped (coaching.py:177-180).                                          *)
DropsHonoured == SlotsGivenBack /\ DropsAreAsked

(* However the session ends, once it was built: both arms are released,    *)
(* unless a device failed, or a reset or the loop came across.             *)
ArmsReleased ==
    worker = "over" =>
        /\ ~energised \/ "fault" \in mishap
        /\ ~leader.torque \/ mishap \cap {"fault", "crossed"} # {}

(* The leader's torque is cut where the session found it, or else a device *)
(* failed, a reset still drove it, or the loop did (coaching.py:20-22).    *)
LeaderReturned ==
    [][worker = "freeing" /\ ~leader'.torque =>
          leader.at = "start" \/ mishap \cap {"fault", "crossed"} # {}]_vars

(* What these rest on, for the proofs. Before start() is through there is  *)
(* nothing to stop; once the loop was joined, it does nothing more, or     *)
(* came across.                                                            *)
FreshInv ==
    worker \in {"new", "preparing", "broken"} =>
        /\ events = [phase |-> "autonomous", pending |-> "none"]
        /\ loop.at = "none"
        /\ chain = Free
        /\ \A c \in Client : req[c] = Idle
        /\ ~hold /\ ~discardNext
        /\ ~leader.torque /\ ~leader.known

LoopInv ==
    /\ worker = "running" /\ loop.at = "save" => events.phase = "paused"
    /\ worker = "running" /\ loop.at = "apply" /\ loop.from = "correcting" => events.phase = "paused"
    /\ worker \in {"leader", "freeing", "follower", "over"} =>
          loop.at \in {"none", "over"} \/ "crossed" \in mishap

(* The worker knows of the leader's torque but for one step of the helper; *)
(* a reset that drives the leader while stop() is under way has crossed it.*)
LeaderInv ==
    /\ leader.torque /\ ~leader.known => chain.at = "track"
    /\ Stopping /\ chain.at \in {"move", "track", "moving"} => "crossed" \in mishap
    /\ worker = "freeing" => leader.at = "start" \/ mishap \cap {"fault", "crossed"} # {}
    /\ worker = "follower" => ~leader.torque \/ mishap \cap {"fault", "crossed"} # {}

(* Steps that lead from a phase to other ones. *)
Leads(p, steps) ==
    \A i \in 1..Len(steps) :
        LET from == IF i = 1 THEN p ELSE steps[i - 1].reaches IN
        steps[i].reaches # from /\ steps[i].reaches = Transition(from, steps[i].event)

Reaches(steps, p) == \E i \in 1..Len(steps) : steps[i].reaches = p

Ordinary == worker = "running" /\ "stray" \notin mishap

(* A request asks what has a plan in the phase it read. *)
RequestInv ==
    \A c \in Client :
        /\ req[c].at = "idle" => req[c].action = "none"
        /\ req[c].at # "idle" => req[c].action \in Action /\ req[c].phase \in DOMAIN Plans[req[c].action]
        /\ req[c].at = "drop" => req[c].action = "drop_last"
        /\ req[c].at = "slot" => req[c].action = "drop_last"
        /\ req[c].at = "clear" => req[c].action \in Handovers

(* The helper asks for one transition after the other, each in the phase   *)
(* it is meant for, and nobody else asks for any.                          *)
ChainInv ==
    /\ chain.at = "free" => chain = Free
    /\ chain.at \in {"request", "wait"} => chain.left # <<>>
    /\ Ordinary =>
        /\ chain.at = "request" => Leads(events.phase, chain.left)
        /\ chain.at = "wait" =>
              \/ events.pending = Head(chain.left).event /\ Leads(events.phase, chain.left)
              \/ /\ events.pending = "none" /\ events.phase = Head(chain.left).reaches
                 /\ Leads(events.phase, Tail(chain.left))
        /\ chain.at # "wait" => events.pending = "none"
        /\ chain.at \in {"then", "move", "track", "moving"} => events.phase = "paused"
        /\ chain.action = "reset" /\ chain.at \in {"request", "wait"} =>
              \A i \in 1..Len(chain.left) : chain.left[i].reaches = "paused"
        /\ chain.action = "drop_last" =>
              chain.at \in {"request", "wait"} /\ chain.left = <<Step("correction", "paused")>>

(* The hold is cleared before a correction is asked for, and the leader is *)
(* free in every turn of one.                                              *)
HoldInv ==
    Ordinary =>
        /\ events.phase = "correcting" => ~hold
        /\ chain.at \in {"request", "wait"} /\ Reaches(chain.left, "correcting") => ~hold
        /\ events.phase = "correcting" /\ loop.at = "turn" => ~leader.torque

(* A mark is that of a drop_last that is asked for, whose handover waits   *)
(* for the end of the correction, or whose correction is being saved.      *)
MarkInv ==
    Ordinary /\ "refused" \notin mishap /\ loop.at \in {"turn", "apply", "save"} =>
        /\ discardNext => \/ \E c \in Client : req[c].action = "drop_last"
                          \/ chain.action = "drop_last" /\ events.phase = "correcting"
                          \/ loop = [at |-> "apply", from |-> "correcting"] \/ loop.at = "save"
        /\ chain.action = "drop_last" =>
              \/ discardNext
              \/ loop.at = "turn" /\ events.phase = "paused"

BoundInv == DropsAsked <= MaxDrops

CoachingInv ==
    /\ TypeOK
    /\ FreshInv
    /\ LoopInv
    /\ LeaderInv
    /\ RequestInv
    /\ ChainInv
    /\ HoldInv
    /\ MarkInv
    /\ BoundInv
    /\ SlotsGivenBack
    /\ ArmsReleased

-----------------------------------------------------------------------------
(* A handover ends, or times out: the next one is not refused for ever. *)
ChainFreed == chain.at # "free" ~> chain.at = "free"

-----------------------------------------------------------------------------
(* What the repository says and the code does not do *)

(* "The leader's start pose is captured and it is returned there, then     *)
(* released, when the session ends, so it does not drop when its torque is *)
(* cut" (coaching.py:21-22).                                               *)
CutOnlyAtStart == [][worker = "freeing" /\ ~leader'.torque => leader.at = "start"]_vars
=============================================================================
