------------------------------- MODULE Station -------------------------------
(***************************************************************************)
(* The hosting station (HostingWorker in remote_teleop.py): it parks the   *)
(* follower at rest and lets one operator drive it. Its fields are touched *)
(* by the WebSocket handlers on the event loop, by the control requests    *)
(* and by the control loop; each section of worker._lock is one action.    *)
(*                                                                         *)
(* One joint stands for the six, which the code treats alike. Time is      *)
(* counted in ticks of the length a property can tell apart.               *)
(***************************************************************************)
EXTENDS Integers

CONSTANTS
    Operator,     \* the remote operators, one per connection
    Nobody,       \* worker._operator is None
    NoTarget,     \* worker._target is None
    Low, High,    \* the joint's soft limits
    Rest,         \* the captured rest pose
    Sent,         \* the positions an operator may send
    Cap,          \* rate_cap / fps: the longest step of one iteration
    SoftStart,    \* soft_start_s
    Silence       \* silence_s

ASSUME NobodyAssumption == Nobody \notin Operator
ASSUME LimitAssumption ==
    /\ Low \in Int /\ High \in Int /\ Low <= High
    /\ Rest \in Int /\ Sent \subseteq Int /\ NoTarget \notin Int
ASSUME PaceAssumption == Cap \in Nat \ {0} /\ SoftStart \in Nat \ {0} /\ Silence \in Nat

VARIABLES
    operator,     \* worker._operator, named by its connection
    accepting,    \* worker._accepting
    target,       \* worker._target
    frameAge,     \* time since _last_frame
    engagedAge,   \* time since _engaged_at
    echoSeq,      \* worker._echo_seq
    phase,        \* worker._phase
    commanded,    \* worker._commanded
    arm,          \* the last position sent to the follower
    loop,         \* where the control loop is
    seen,         \* what it saw under the lock at the top of the iteration
    stopSet,      \* worker._stop
    driver,       \* history: whose frame set the target
    strayed       \* history: steps made on what was taken in an attachment that had ended

stationVars == <<operator, accepting, target, frameAge, engagedAge, echoSeq, phase,
                 commanded, arm, loop, seen, stopSet, driver, strayed>>
desk == <<operator, accepting, target, frameAge, engagedAge, echoSeq, driver>>

Least(a, b) == IF a < b THEN a ELSE b
Most(a, b) == IF a < b THEN b ELSE a

Clamp(p) == Most(Low, Least(High, p))

Jump(current, goal, cap) == goal   \* mutant: no rate cap
StepToward(current, goal, cap) == current + Most(-cap, Least(cap, goal - current))

(* A fifth of the cap at first, all of it after the soft start. *)
Speed(age) == (Cap * (2 * SoftStart + 8 * age)) \div (10 * SoftStart)

AtRest(p) == Rest - 1 <= p /\ p <= Rest + 1
Silent == operator # Nobody /\ frameAge > Silence

Phase == {"parked", "parking", "engaging", "engaged"}
Seen == [operator : Operator \cup {Nobody}, sender : Operator \cup {Nobody},
         target : Low..High \cup {NoTarget}, age : 0..SoftStart]

Unseen == [operator |-> Nobody, sender |-> Nobody, target |-> NoTarget, age |-> 0]

StationInit ==
    /\ operator = Nobody
    /\ accepting = TRUE
    /\ target = NoTarget
    /\ frameAge = 0
    /\ engagedAge = 0
    /\ echoSeq = 0
    /\ phase = "parked"
    /\ commanded = Rest
    /\ arm = Rest
    /\ loop = "top"
    /\ seen = Unseen
    /\ stopSet = FALSE
    /\ driver = Nobody
    /\ strayed = [o \in Operator |-> 0]

(* The position the loop steps from may be beyond the limits only if the  *)
(* rest pose is.                                                           *)
Reach == Least(Low, Rest)..Most(High, Rest)

StationTypeOK ==
    /\ operator \in Operator \cup {Nobody}
    /\ accepting \in BOOLEAN
    /\ target \in Low..High \cup {NoTarget}
    /\ frameAge \in 0..(Silence + 1)
    /\ engagedAge \in 0..SoftStart
    /\ echoSeq \in Nat
    /\ phase \in Phase
    /\ commanded \in Reach
    /\ arm \in Low..High \cup {Rest}
    /\ loop \in {"top", "silent", "moving", "over"} \cup Phase
    /\ seen \in Seen
    /\ stopSet \in BOOLEAN
    /\ driver \in Operator \cup {Nobody}
    /\ strayed \in [Operator -> 0..2]

-----------------------------------------------------------------------------
(* Called by a connection's handler *)

(* Why an operator is refused *)
Refused == ~accepting \/ operator # Nobody

(* The new operator has not sent anything yet: the clocks start now. *)
Attach(o) ==
    /\ ~Refused
    /\ operator' = o
    /\ target' = NoTarget
    /\ engagedAge' = 0
    /\ frameAge' = 0
    /\ phase' = "engaging"
    /\ driver' = Nobody
    /\ UNCHANGED <<accepting, echoSeq, commanded, arm, loop, seen, stopSet, strayed>>

DismissParked ==   \* mutant: "parked" before the arm is there
    /\ operator' = Nobody
    /\ target' = NoTarget
    /\ driver' = Nobody
    /\ phase' = "parked"

(* detach() takes no name: whoever is attached goes. *)
Dismiss ==
    /\ operator' = Nobody
    /\ target' = NoTarget
    /\ driver' = Nobody
    /\ phase' = IF phase = "parked" THEN "parked" ELSE "parking"

Detach ==
    /\ Dismiss
    /\ UNCHANGED <<accepting, frameAge, engagedAge, echoSeq, commanded, arm, loop,
                   seen, stopSet, strayed>>

(* A frame is taken, if anybody is attached and it is no older than the    *)
(* last one that was; the sender is not looked at.                         *)
Stale(seq) == operator = Nobody \/ seq < echoSeq

OnAction(o, seq, ticks) ==
    \/ /\ Stale(seq)
       /\ UNCHANGED stationVars
    \/ /\ ~Stale(seq)
       /\ target' = Clamp(ticks)
       /\ frameAge' = 0
       /\ echoSeq' = seq
       /\ driver' = o
       /\ UNCHANGED <<operator, accepting, engagedAge, phase, commanded, arm, loop, seen,
                      stopSet, strayed>>

-----------------------------------------------------------------------------
(* The controls of the session, and its stop *)

Park == Detach

(* The flag is written before, and outside, the section of the lock. *)
Block ==
    /\ accepting
    /\ accepting' = FALSE
    /\ UNCHANGED <<operator, target, frameAge, engagedAge, echoSeq, phase, commanded, arm,
                   loop, seen, stopSet, driver, strayed>>

Allow ==
    /\ accepting' = TRUE
    /\ UNCHANGED <<operator, target, frameAge, engagedAge, echoSeq, phase, commanded, arm,
                   loop, seen, stopSet, driver, strayed>>

StopStation ==
    /\ stopSet' = TRUE
    /\ UNCHANGED <<desk, phase, commanded, arm, loop, seen, strayed>>

-----------------------------------------------------------------------------
(* The control loop *)

LookPastSilence ==   \* mutant: silence is not looked at
    /\ loop = "top"
    /\ ~stopSet
    /\ seen' = [operator |-> operator, sender |-> driver, target |-> target, age |-> engagedAge]
    /\ loop' = "moving"
    /\ UNCHANGED <<desk, phase, commanded, arm, stopSet, strayed>>

Look ==
    /\ loop = "top"
    /\ ~stopSet
    /\ seen' = [operator |-> operator, sender |-> driver, target |-> target, age |-> engagedAge]
    /\ loop' = IF Silent THEN "silent" ELSE "moving"
    /\ UNCHANGED <<desk, phase, commanded, arm, stopSet, strayed>>

(* The look is over when the operator is dismissed for its silence. *)
DismissSilent ==
    /\ loop = "silent"
    /\ Dismiss
    /\ seen' = [seen EXCEPT !.operator = Nobody, !.sender = Nobody, !.target = NoTarget]
    /\ loop' = "moving"
    /\ UNCHANGED <<accepting, frameAge, engagedAge, echoSeq, commanded, arm, stopSet, strayed>>

Driven == seen.operator # Nobody /\ seen.target # NoTarget
Holding == seen.operator # Nobody /\ seen.target = NoTarget

GoalStays == IF Driven THEN seen.target ELSE commanded   \* mutant: it never goes home
Goal == IF Driven THEN seen.target ELSE IF Holding THEN commanded ELSE Rest
Pace == IF Driven THEN Speed(seen.age) ELSE IF Holding THEN 0 ELSE Cap

(* The phase of this iteration. *)
Iteration ==
    IF Driven THEN IF seen.age = SoftStart THEN "engaged" ELSE "engaging"
    ELSE IF Holding THEN "engaging"
    ELSE IF AtRest(commanded) THEN "parked" ELSE "parking"

(* A step on what was taken while somebody was attached who is no longer:  *)
(* an operator is named by its connection, which attaches once.            *)
Strayed ==
    [o \in Operator |-> IF Driven /\ seen.operator = o /\ operator # o
                        THEN Least(strayed[o] + 1, 2) ELSE strayed[o]]

(* One command to the follower, and a look at it. Either may fail, which   *)
(* ends the loop.                                                          *)
Move ==
    /\ loop = "moving"
    /\ commanded' = StepToward(commanded, Goal, Pace)
    /\ \/ /\ arm' = Clamp(commanded')
          /\ strayed' = Strayed
          /\ loop' \in {Iteration, "over"}
       \/ loop' = "over" /\ UNCHANGED <<arm, strayed>>
    /\ UNCHANGED <<desk, phase, seen, stopSet>>

LookOnce ==   \* mutant: operator and target are read before the loop
    /\ loop \in Phase
    /\ phase' = loop
    /\ loop' = "moving"
    /\ UNCHANGED <<desk, commanded, arm, seen, stopSet, strayed>>

(* The phase this iteration was in is published in the next section of the *)
(* lock, over whatever a handler wrote meanwhile.                          *)
ShowPhase ==
    /\ loop \in Phase
    /\ phase' = loop
    /\ seen' = Unseen
    /\ loop' = "top"
    /\ UNCHANGED <<desk, commanded, arm, stopSet, strayed>>

EndLoop ==
    /\ loop = "top"
    /\ stopSet
    /\ loop' = "over"
    /\ UNCHANGED <<desk, phase, commanded, arm, seen, stopSet, strayed>>

LoopStep == Look \/ DismissSilent \/ Move \/ ShowPhase \/ EndLoop

(* Time passes: no clock is followed further than anything looks at it, and *)
(* with nobody attached nothing looks.                                      *)
Elapse ==
    /\ operator # Nobody
    /\ frameAge' = Least(frameAge + 1, Silence + 1)
    /\ engagedAge' = Least(engagedAge + 1, SoftStart)
    /\ UNCHANGED <<operator, accepting, target, echoSeq, phase, commanded, arm, loop, seen,
                   stopSet, driver, strayed>>
=============================================================================
