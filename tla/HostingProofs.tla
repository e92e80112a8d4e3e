---------------------------- MODULE HostingProofs ----------------------------
(***************************************************************************)
(* Theorems about the hosting station for every set of operators, every    *)
(* limit, cap, rest pose and number of frames.                             *)
(***************************************************************************)
EXTENDS Hosting, TLAPS

USE NobodyAssumption, LimitAssumption, PaceAssumption, FramesAssumption

(* A quotient is no more than c when the numerator is no more than c times *)
(* the divisor.                                                            *)
LEMMA QuotientBound ==
    ASSUME NEW a \in Nat, NEW b \in Nat \ {0}, NEW c \in Nat, a <= c * b
    PROVE  a \div b \in 0..c
<1> DEFINE q == a \div b
           r == a % b
<1>1. q \in Int /\ r \in 0..(b - 1) /\ a = b * q + r
  BY SMT
<1> HIDE DEF q, r
<1>2. q >= 0
  <2> SUFFICES ASSUME q <= -1 PROVE FALSE
    BY <1>1, SMT
  <2>1. b * q <= b * (-1)
    BY <1>1, SMT
  <2> QED BY <1>1, <2>1, SMT
<1>3. q <= c
  <2> SUFFICES ASSUME q >= c + 1 PROVE FALSE
    BY <1>1, SMT
  <2>1. b * q >= b * (c + 1)
    BY <1>1, SMT
  <2>2. b * (c + 1) = c * b + b
    BY SMT
  <2> QED BY <1>1, <2>1, <2>2, SMT
<1> QED BY <1>1, <1>2, <1>3, SMT DEF q

(* The soft start gives no more than the cap (remote_teleop.py:196-197). *)
LEMMA SpeedRange ==
    ASSUME NEW age \in 0..SoftStart
    PROVE  Speed(age) \in 0..Cap
<1> DEFINE a == Cap * (2 * SoftStart + 8 * age)
           b == 10 * SoftStart
           k == 2 * SoftStart + 8 * age
<1>1. b \in Nat \ {0} /\ Cap \in Nat /\ k \in Nat /\ k <= b
  BY SMT
<1> HIDE DEF b, k
<1>2. a = Cap * k
  BY DEF k
<1>3. Cap * k \in Nat /\ Cap * k <= Cap * b
  BY <1>1, SMT
<1> QED BY <1>1, <1>2, <1>3, QuotientBound DEF Speed, b

(* clamp_action keeps to the limits and leaves alone what is within them. *)
LEMMA ClampRange ==
    ASSUME NEW p \in Int
    PROVE  Clamp(p) \in Low..High /\ (p \in Low..High => Clamp(p) = p)
BY DEF Clamp, Least, Most

(* step_toward goes no further than its cap, and not beyond its goal. *)
LEMMA StepBounds ==
    ASSUME NEW current \in Int, NEW goal \in Int, NEW cap \in Nat
    PROVE  LET next == StepToward(current, goal, cap)
           IN  /\ next \in Int
               /\ next - current <= cap /\ current - next <= cap
               /\ Least(current, goal) <= next /\ next <= Most(current, goal)
BY DEF StepToward, Least, Most

(* The arm's next position is reachable, and one cap away at most. *)
Commanded == StepToward(commanded, Goal, Pace)

LEMMA NextCommand ==
    ASSUME StationTypeOK
    PROVE  /\ Commanded \in Reach
           /\ Commanded - commanded <= Cap /\ commanded - Commanded <= Cap
           /\ Least(commanded, Goal) <= Commanded /\ Commanded <= Most(commanded, Goal)
<1>1. commanded \in Reach /\ seen \in Seen
  BY DEF StationTypeOK
<1>2. Reach \subseteq Int /\ Low..High \subseteq Reach /\ Rest \in Reach
  BY DEF Reach, Least, Most
<1>3. seen.age \in 0..SoftStart /\ (Driven => seen.target \in Low..High)
  BY <1>1 DEF Seen, Driven
<1>4. Pace \in 0..Cap
  <2>1. Speed(seen.age) \in 0..Cap
    BY <1>3, SpeedRange
  <2> QED BY <2>1 DEF Pace
<1>5. Goal \in Reach
  BY <1>1, <1>2, <1>3 DEF Goal
<1>6. /\ Commanded \in Int
      /\ Commanded - commanded <= Pace /\ commanded - Commanded <= Pace
      /\ Least(commanded, Goal) <= Commanded /\ Commanded <= Most(commanded, Goal)
  BY <1>1, <1>2, <1>4, <1>5, StepBounds DEF Commanded
<1>7. Commanded \in Reach
  BY <1>1, <1>5, <1>6 DEF Reach, Least, Most
<1>8. commanded \in Int /\ Cap \in Int /\ Pace \in Int /\ Pace <= Cap
  BY <1>1, <1>2, <1>4
<1>9. Commanded - commanded <= Cap /\ commanded - Commanded <= Cap
  BY <1>6, <1>8
<1> QED BY <1>6, <1>7, <1>9

-----------------------------------------------------------------------------
(* The station's own steps *)

(* Dismissing the operator leaves every variable in its type. *)
LEMMA DismissType ==
    ASSUME StationTypeOK, Dismiss,
           UNCHANGED <<accepting, frameAge, engagedAge, echoSeq, commanded, arm, stopSet, strayed>>,
           seen' \in Seen, loop' \in {"top", "silent", "moving", "over"} \cup Phase
    PROVE  StationTypeOK'
<1>1. (operator \in Operator \cup {Nobody} /\ driver \in Operator \cup {Nobody})'
  BY DEF Dismiss
<1>2. (target \in Low..High \cup {NoTarget} /\ strayed \in [Operator -> 0..2])'
  BY DEF Dismiss, StationTypeOK
<1>3. (phase \in Phase /\ seen \in Seen /\ loop \in {"top", "silent", "moving", "over"} \cup Phase)'
  BY DEF Dismiss, Phase
<1>4. (accepting \in BOOLEAN /\ frameAge \in 0..(Silence + 1) /\ engagedAge \in 0..SoftStart)'
  BY DEF StationTypeOK
<1>5. (echoSeq \in Nat /\ commanded \in Reach /\ arm \in Low..High \cup {Rest} /\ stopSet \in BOOLEAN)'
  BY DEF StationTypeOK
<1> QED BY <1>1, <1>2, <1>3, <1>4, <1>5 DEF StationTypeOK

(* detach() keeps every part of the invariant, whoever calls it. *)
LEMMA DetachKeeps ==
    ASSUME HostInv, Detach, UNCHANGED <<client, sent>>,
           handler' \in [Operator -> {"none", "hello", "attached", "serving", "leaving", "closed"}],
           \A o \in Operator : client[o] = "idle" => handler'[o] = "none",
           \A o \in Operator : handler'[o] \in {handler[o], "closed"},
           control' \in {"idle", "blocking"},
           link' \in [Operator -> {"none", "open", "broken"}],
           UNCHANGED <<up, reply>>
    PROVE  HostInv'
<1> USE DEF HostInv, Detach
<1>1. TypeOK'
  <2>1. StationTypeOK'
    BY DismissType DEF TypeOK, StationTypeOK
  <2> QED BY <2>1 DEF TypeOK
<1>2. HandlerInv'
  BY DEF HandlerInv, OperatorHasHandler, Dismiss
<1>3. FramesAreLetIn'
  BY DEF FramesAreLetIn, LetIn, Driven, Dismiss
<1>4. StrayInv'
  BY DEF StrayInv, OneStray, Driven, Dismiss
<1>5. ParkInv'
  BY DEF ParkInv, Dismiss, AtRest
<1>6. ArmInv'
  BY DEF ArmInv
<1> QED BY <1>1, <1>2, <1>3, <1>4, <1>5, <1>6

(* A step that does not touch the station keeps what is said of it, unless *)
(* it takes back a "ready" or a connection that has been used.             *)
LEMMA StationStays ==
    ASSUME HostInv, UNCHANGED stationVars,
           \A o \in Operator : reply[o] = "ready" => reply'[o] = "ready",
           \A o \in Operator : handler'[o] \in {"none", "hello"} => handler[o] \in {"none", "hello"}
    PROVE  /\ StationTypeOK' /\ (echoSeq <= MaxFrames)'
           /\ FramesAreLetIn' /\ StrayInv' /\ ParkInv' /\ ArmInv'
<1> USE DEF HostInv, stationVars
<1>1. StationTypeOK' /\ (echoSeq <= MaxFrames)'
  BY DEF TypeOK, StationTypeOK
<1>2. FramesAreLetIn' /\ StrayInv'
  BY DEF FramesAreLetIn, LetIn, StrayInv, OneStray, Driven
<1>3. ParkInv' /\ ArmInv'
  BY DEF ParkInv, ArmInv, AtRest
<1> QED BY <1>1, <1>2, <1>3

-----------------------------------------------------------------------------
(* The handlers and the engines *)

(* Reading a message leaves the connections in their type. *)
LEMMA ReceiveType ==
    ASSUME TypeOK, NEW o \in Operator, NEW type, Receive(o, type)
    PROVE  /\ up' \in [Operator -> Seq(Message)]
           /\ Head(up[o]) \in Message
<1>1. up[o] \in Seq(Message) /\ up[o] # <<>>
  BY DEF TypeOK, Receive
<1>2. Head(up[o]) \in Message /\ Tail(up[o]) \in Seq(Message)
  BY <1>1
<1> QED BY <1>2 DEF TypeOK, Receive

(* So does sending one. *)
LEMMA SendType ==
    ASSUME TypeOK, NEW o \in Operator, NEW message \in Message, Send(o, message)
    PROVE  up' \in [Operator -> Seq(Message)]
<1>1. up[o] \in Seq(Message)
  BY DEF TypeOK
<1>2. Append(up[o], message) \in Seq(Message)
  BY <1>1
<1> QED BY <1>2 DEF TypeOK, Send

(* A frame carries a number and a position that an operator may send. *)
LEMMA ActionFields ==
    ASSUME NEW message \in Message, message.type = "action"
    PROVE  message.seq \in 1..MaxFrames /\ message.ticks \in Sent
BY DEF Message, Hello, Bye, Action

LEMMA HelloBye == Hello \in Message /\ Bye \in Message
BY DEF Message

(* The steps that do not touch the station: the engines, the network, and  *)
(* the handlers that only answer or hang up.                               *)
LEMMA WireSteps ==
    ASSUME HostInv, NEW o \in Operator,
           Dial(o) \/ Answered(o) \/ Stream(o) \/ Part(o) \/ BreakLink(o)
              \/ NoHello(o) \/ SendReady(o) \/ Hangup(o)
    PROVE  HostInv'
<1> USE DEF HostInv
<1>0. UNCHANGED stationVars
  BY DEF Dial, Answered, Stream, Part, BreakLink, NoHello, SendReady, Hangup
<1>a. \A p \in Operator : reply[p] = "ready" => reply'[p] = "ready"
  BY DEF TypeOK, Dial, Answered, Stream, Part, BreakLink, NoHello, SendReady, Hangup
<1>b. \A p \in Operator : handler'[p] \in {"none", "hello"} => handler[p] \in {"none", "hello"}
  <2>1. CASE Dial(o)
    BY <2>1 DEF TypeOK, HandlerInv, Dial
  <2>2. CASE NoHello(o) \/ SendReady(o) \/ Hangup(o)
    BY <2>2 DEF TypeOK, NoHello, SendReady, Hangup
  <2>3. CASE Answered(o) \/ Stream(o) \/ Part(o) \/ BreakLink(o)
    BY <2>3 DEF Answered, Stream, Part, BreakLink
  <2> QED BY <2>1, <2>2, <2>3
<1>1. CASE Dial(o)
  <2>1. <<Hello>> \in Seq(Message)
    BY HelloBye
  <2>2. TypeOK'
    <3>1. (handler \in [Operator -> {"none", "hello", "attached", "serving", "leaving", "closed"}])'
      BY <1>1 DEF TypeOK, Dial
    <3>2. (link \in [Operator -> {"none", "open", "broken"}])'
      BY <1>1 DEF TypeOK, Dial
    <3>4. (up \in [Operator -> Seq(Message)])'
      BY ZenonT(60), <1>1, <2>1 DEF TypeOK, Dial
    <3>3. (client \in [Operator -> {"idle", "waiting", "streaming", "over"}])'
      BY <1>1 DEF TypeOK, Dial
    <3> QED BY <1>0, <1>1, <3>1, <3>2, <3>3, <3>4, <1>a, <1>b, StationStays DEF TypeOK, Dial
  <2>3. HandlerInv'
    <3>1. operator' # o /\ operator' = operator
      BY <1>0, <1>1 DEF HandlerInv, OperatorHasHandler, Dial, stationVars
    <3>2. \A p \in Operator \ {o} : handler'[p] = handler[p] /\ client'[p] = client[p]
      BY <1>1 DEF TypeOK, Dial
    <3>3. client'[o] # "idle"
      BY <1>1 DEF TypeOK, Dial
    <3>4. OperatorHasHandler'
      BY <3>1, <3>2 DEF TypeOK, StationTypeOK, HandlerInv, OperatorHasHandler
    <3>5. handler'[o] # "serving" /\ handler[o] \in {"none"} /\ reply' = reply
      BY <1>1 DEF TypeOK, HandlerInv, Dial
    <3> QED BY <3>2, <3>3, <3>4, <3>5 DEF HandlerInv
  <2> QED BY <1>0, <2>2, <2>3, <1>a, <1>b, StationStays
<1>2. CASE Answered(o)
  <2>1. TypeOK'
    BY <1>0, <1>2, <1>a, <1>b, StationStays DEF TypeOK, Answered
  <2>2. HandlerInv'
    BY <1>0, <1>2 DEF TypeOK, HandlerInv, OperatorHasHandler, Answered, stationVars
  <2> QED BY <1>0, <2>1, <2>2, <1>a, <1>b, StationStays
<1>3. CASE Stream(o)
  <2>1. sent'[o] \in 1..MaxFrames /\ sent' \in [Operator -> 0..MaxFrames]
    BY <1>3 DEF TypeOK, Stream
  <2>2. PICK ticks \in Sent : Send(o, Action(sent'[o], ticks))
    BY <1>3 DEF Stream
  <2>3. Action(sent'[o], ticks) \in Message
    BY <2>1 DEF Message
  <2>4. up' \in [Operator -> Seq(Message)]
    BY <2>2, <2>3, SendType
  <2>5. TypeOK'
    BY <1>0, <1>3, <2>1, <2>4, <1>a, <1>b, StationStays DEF TypeOK, Stream
  <2>6. HandlerInv'
    BY <1>0, <1>3 DEF HandlerInv, OperatorHasHandler, Stream, stationVars
  <2> QED BY <1>0, <2>5, <2>6, <1>a, <1>b, StationStays
<1>4. CASE Part(o)
  <2>1. up' \in [Operator -> Seq(Message)]
    BY <1>4, SendType, HelloBye DEF Part
  <2>2. TypeOK'
    BY <1>0, <1>4, <2>1, <1>a, <1>b, StationStays DEF TypeOK, Part
  <2>3. HandlerInv'
    BY <1>0, <1>4 DEF TypeOK, HandlerInv, OperatorHasHandler, Part, stationVars
  <2> QED BY <1>0, <2>2, <2>3, <1>a, <1>b, StationStays
<1>5. CASE BreakLink(o)
  <2>1. TypeOK'
    BY <1>0, <1>5, <1>a, <1>b, StationStays DEF TypeOK, BreakLink
  <2>2. HandlerInv'
    BY <1>0, <1>5 DEF HandlerInv, OperatorHasHandler, BreakLink, stationVars
  <2> QED BY <1>0, <2>1, <2>2, <1>a, <1>b, StationStays
<1>6. CASE NoHello(o)
  <2>1. TypeOK'
    BY <1>0, <1>6, <1>a, <1>b, StationStays DEF TypeOK, NoHello
  <2>2. HandlerInv'
    BY <1>0, <1>6 DEF TypeOK, HandlerInv, OperatorHasHandler, NoHello, stationVars
  <2> QED BY <1>0, <2>1, <2>2, <1>a, <1>b, StationStays
<1>7. CASE SendReady(o)
  <2>1. TypeOK'
    <3>1. (handler \in [Operator -> {"none", "hello", "attached", "serving", "leaving", "closed"}])'
      BY <1>7 DEF TypeOK, SendReady
    <3>2. (reply \in [Operator -> {"none", "ready", "refused"}])'
      BY <1>7 DEF TypeOK, SendReady
    <3> QED BY <1>0, <1>7, <3>1, <3>2, <1>a, <1>b, StationStays DEF TypeOK, SendReady
  <2>2. HandlerInv'
    <3>1. \A p \in Operator \ {o} : handler'[p] = handler[p]
      BY <1>7 DEF TypeOK, SendReady
    <3>2. handler'[o] \in {"serving", "leaving"} /\ client[o] # "idle"
      BY <1>7 DEF TypeOK, HandlerInv, SendReady
    <3>3. OperatorHasHandler'
      BY <1>0, <3>1, <3>2 DEF TypeOK, StationTypeOK, HandlerInv, OperatorHasHandler, stationVars
    <3>4. \A p \in Operator \ {o} : reply'[p] = reply[p]
      BY <1>7 DEF TypeOK, SendReady
    <3>5. handler'[o] = "serving" => reply'[o] = "ready"
      BY <1>7 DEF TypeOK, SendReady
    <3> QED BY <1>7, <3>1, <3>2, <3>3, <3>4, <3>5 DEF HandlerInv, SendReady
  <2> QED BY <1>0, <2>1, <2>2, <1>a, <1>b, StationStays
<1>8. CASE Hangup(o)
  <2>1. up' \in [Operator -> Seq(Message)]
    <3>1. CASE Receive(o, "bye")
      BY <3>1, ReceiveType
    <3>2. CASE up' = [up EXCEPT ![o] = <<>>]
      BY <3>2 DEF TypeOK
    <3> QED BY <1>8, <3>1, <3>2 DEF Hangup
  <2>2. TypeOK'
    BY <1>0, <1>8, <2>1, <1>a, <1>b, StationStays DEF TypeOK, Hangup
  <2>3. HandlerInv'
    BY <1>0, <1>8 DEF TypeOK, HandlerInv, OperatorHasHandler, Hangup, stationVars
  <2> QED BY <1>0, <2>2, <2>3, <1>a, <1>b, StationStays
<1> QED BY <1>1, <1>2, <1>3, <1>4, <1>5, <1>6, <1>7, <1>8

(* A hello is refused, or attaches its operator. *)
LEMMA HandshakeKeeps ==
    ASSUME HostInv, NEW o \in Operator, Handshake(o)
    PROVE  HostInv'
<1> USE DEF HostInv
<1>1. up' \in [Operator -> Seq(Message)]
  BY ReceiveType DEF Handshake
<1>2. CASE UNCHANGED stationVars /\ handler' = [handler EXCEPT ![o] = "closed"]
           /\ reply' = [reply EXCEPT ![o] = "refused"]
           /\ link' = [link EXCEPT ![o] = "broken"]
  <2>0. /\ \A p \in Operator : reply[p] = "ready" => reply'[p] = "ready"
        /\ \A p \in Operator : handler'[p] \in {"none", "hello"} => handler[p] \in {"none", "hello"}
    BY <1>2 DEF TypeOK, HandlerInv, Handshake
  <2>1. TypeOK'
    BY <1>1, <1>2, <2>0, StationStays DEF TypeOK, Handshake
  <2>2. HandlerInv'
    BY <1>2 DEF TypeOK, HandlerInv, OperatorHasHandler, Handshake, stationVars
  <2> QED BY <1>2, <2>0, <2>1, <2>2, StationStays
<1>3. CASE Attach(o) /\ handler' = [handler EXCEPT ![o] = "attached"] /\ UNCHANGED <<reply, link>>
  <2>1. StationTypeOK'
    <3>1. (operator \in Operator \cup {Nobody} /\ driver \in Operator \cup {Nobody})'
      BY <1>3 DEF Attach
    <3>2. (target \in Low..High \cup {NoTarget} /\ strayed \in [Operator -> 0..2])'
      BY <1>3 DEF Attach, TypeOK, StationTypeOK
    <3>3. (phase \in Phase /\ frameAge \in 0..(Silence + 1) /\ engagedAge \in 0..SoftStart)'
      BY <1>3 DEF Attach, Phase
    <3>4. (accepting \in BOOLEAN /\ echoSeq \in Nat /\ commanded \in Reach /\ arm \in Low..High \cup {Rest})'
      BY <1>3 DEF TypeOK, StationTypeOK, Attach
    <3>5. (loop \in {"top", "silent", "moving", "over"} \cup Phase /\ seen \in Seen /\ stopSet \in BOOLEAN)'
      BY <1>3 DEF TypeOK, StationTypeOK, Attach
    <3> QED BY <3>1, <3>2, <3>3, <3>4, <3>5 DEF StationTypeOK
  <2>2. TypeOK'
    BY <1>1, <1>3, <2>1 DEF TypeOK, Handshake, Attach
  <2>3. HandlerInv'
    BY <1>3 DEF TypeOK, HandlerInv, OperatorHasHandler, Handshake, Attach
  <2>4. FramesAreLetIn' /\ ArmInv'
    BY <1>3 DEF FramesAreLetIn, LetIn, Driven, ArmInv, Attach
  <2>5. StrayInv'
    <3>1. handler[o] = "hello" /\ operator' = o /\ strayed' = strayed /\ seen' = seen /\ loop' = loop
      BY <1>3 DEF Handshake, Attach
    <3>2. \A p \in Operator : handler'[p] \in {"none", "hello"} => handler[p] = handler'[p]
      BY <1>3 DEF TypeOK
    <3> QED BY <3>1, <3>2 DEF StrayInv, OneStray, Driven
  <2>6. ParkInv'
    BY <1>3 DEF ParkInv, Attach, AtRest
  <2> QED BY <2>2, <2>3, <2>4, <2>5, <2>6
<1> QED BY <1>2, <1>3 DEF Handshake

(* A frame sets a target within the limits, or is dropped. *)
LEMMA TakeActionKeeps ==
    ASSUME HostInv, NEW o \in Operator, TakeAction(o)
    PROVE  HostInv'
<1> USE DEF HostInv
<1> DEFINE frame == Head(up[o])
<1>1. up' \in [Operator -> Seq(Message)] /\ frame \in Message
  BY ReceiveType DEF TakeAction
<1>2. frame.seq \in 1..MaxFrames /\ frame.ticks \in Sent
  BY <1>1, ActionFields DEF TakeAction, Receive
<1>3. CASE UNCHANGED stationVars
  <2>0. UNCHANGED <<handler, reply>>
    BY DEF TakeAction
  <2>1. TypeOK'
    BY <1>1, <1>3, <2>0, StationStays DEF TypeOK, TakeAction
  <2>2. HandlerInv'
    BY <1>3 DEF HandlerInv, OperatorHasHandler, TakeAction, stationVars
  <2> QED BY <1>3, <2>0, <2>1, <2>2, StationStays
<1>4. CASE ~Stale(frame.seq)
  <2>1. /\ target' = Clamp(frame.ticks) /\ frameAge' = 0
        /\ echoSeq' = frame.seq /\ driver' = o
        /\ UNCHANGED <<operator, accepting, engagedAge, phase, commanded, arm, loop, seen,
                       stopSet, strayed>>
    BY <1>4 DEF TakeAction, OnAction, stationVars
  <2>2. target' \in Low..High
    BY <1>2, <2>1, ClampRange
  <2>3. StationTypeOK'
    BY <1>2, <2>1, <2>2 DEF TypeOK, StationTypeOK
  <2>4. TypeOK'
    BY <1>1, <1>2, <2>1, <2>3 DEF TypeOK, TakeAction
  <2>5. HandlerInv'
    BY <2>1 DEF HandlerInv, OperatorHasHandler, TakeAction
  <2>6. FramesAreLetIn' /\ ArmInv'
    <3>1. reply[o] = "ready" /\ reply' = reply
      BY DEF HandlerInv, TakeAction
    <3> QED BY <1>4, <2>1, <3>1 DEF FramesAreLetIn, LetIn, Driven, ArmInv, Stale
  <2>7. StrayInv'
    BY <2>1 DEF StrayInv, OneStray, Driven, TakeAction
  <2>8. ParkInv'
    BY <2>1 DEF ParkInv, AtRest
  <2> QED BY <2>4, <2>5, <2>6, <2>7, <2>8
<1> QED BY <1>3, <1>4 DEF TakeAction, OnAction

(* The handler's end, and the controls, detach or touch a flag. *)
LEMMA LeaveKeeps ==
    ASSUME HostInv, NEW o \in Operator, Leave(o)
    PROVE  HostInv'
BY DetachKeeps DEF HostInv, TypeOK, HandlerInv, Leave

LEMMA FlagKeeps ==
    ASSUME HostInv, Block \/ Allow \/ StopStation, UNCHANGED <<handler, client, link, up, reply, sent>>,
           control' \in {"idle", "blocking"}
    PROVE  HostInv'
<1> USE DEF HostInv, Block, Allow, StopStation, desk
<1>1. StationTypeOK'
  BY DEF TypeOK, StationTypeOK
<1>2. TypeOK'
  BY <1>1 DEF TypeOK
<1>3. HandlerInv' /\ FramesAreLetIn' /\ ArmInv'
  BY DEF HandlerInv, OperatorHasHandler, FramesAreLetIn, LetIn, Driven, ArmInv
<1>4. StrayInv'
  BY DEF StrayInv, OneStray, Driven
<1>5. ParkInv'
  BY DEF ParkInv, AtRest
<1> QED BY <1>2, <1>3, <1>4, <1>5

LEMMA ControlsKeep ==
    ASSUME HostInv,
           ParkControl \/ BlockControl \/ AllowControl \/ (StopStation /\ UNCHANGED wire)
    PROVE  HostInv'
<1>1. CASE ParkControl
  BY <1>1, DetachKeeps DEF HostInv, TypeOK, HandlerInv, ParkControl, Park, wire
<1>2. CASE BlockControl
  <2>1. CASE Block /\ control' = "blocking" /\ UNCHANGED <<handler, client, link, up, reply, sent>>
    BY <2>1, FlagKeeps
  <2>2. CASE Detach /\ control' = "idle" /\ UNCHANGED <<handler, client, link, up, reply, sent>>
    BY <2>2, DetachKeeps DEF HostInv, TypeOK, HandlerInv
  <2> QED BY <1>2, <2>1, <2>2 DEF BlockControl
<1>3. CASE AllowControl
  BY <1>3, FlagKeeps DEF AllowControl, HostInv, TypeOK, wire
<1>4. CASE StopStation /\ UNCHANGED wire
  BY <1>4, FlagKeeps DEF HostInv, TypeOK, wire
<1> QED BY <1>1, <1>2, <1>3, <1>4

-----------------------------------------------------------------------------
(* The control loop, and the passage of time *)

LEMMA LookKeeps ==
    ASSUME HostInv, Look \/ EndLoop, UNCHANGED wire
    PROVE  HostInv'
<1> USE DEF HostInv, desk, wire
<1>1. seen' \in Seen /\ loop' \in {"top", "silent", "moving", "over"} \cup Phase
  <2>1. [operator |-> operator, sender |-> driver, target |-> target, age |-> engagedAge] \in Seen
    BY DEF TypeOK, StationTypeOK, Seen
  <2>2. seen' \in Seen
    BY <2>1 DEF TypeOK, StationTypeOK, Look, EndLoop
  <2>3. loop' \in {"top", "silent", "moving", "over"} \cup Phase
    BY DEF Look, EndLoop
  <2> QED BY <2>2, <2>3
<1>2. StationTypeOK'
  BY <1>1 DEF TypeOK, StationTypeOK, Look, EndLoop
<1>3. TypeOK'
  BY <1>2 DEF TypeOK, Look, EndLoop
<1>4. HandlerInv' /\ FramesAreLetIn' /\ ArmInv'
  BY DEF HandlerInv, OperatorHasHandler, FramesAreLetIn, LetIn, Driven, ArmInv, Look, EndLoop
<1>5. StrayInv'
  <2>1. CASE Look
    <3>1. UNCHANGED <<operator, strayed, handler>> /\ seen'.operator = operator
      BY <2>1 DEF Look
    <3>2. Driven' => operator # Nobody
      BY <2>1 DEF Look, Driven, FramesAreLetIn
    <3>3. \A o \in Operator : handler[o] \in {"none", "hello"} => operator # o
      BY DEF HandlerInv, OperatorHasHandler, TypeOK, StationTypeOK
    <3>4. (loop = "moving" /\ Driven => strayed[seen.operator] = 0)'
      BY <3>1, <3>2 DEF StrayInv
    <3> QED BY <3>1, <3>3, <3>4 DEF StrayInv, OneStray
  <2>2. CASE EndLoop
    BY <2>2 DEF StrayInv, OneStray, Driven, EndLoop
  <2> QED BY <2>1, <2>2
<1>6. ParkInv'
  BY DEF ParkInv, AtRest, Look, EndLoop
<1> QED BY <1>3, <1>4, <1>5, <1>6

LEMMA DismissSilentKeeps ==
    ASSUME HostInv, DismissSilent, UNCHANGED wire
    PROVE  HostInv'
<1> USE DEF HostInv, wire
<1>1. seen' \in Seen /\ ~Driven'
  BY DEF TypeOK, StationTypeOK, DismissSilent, Seen, Driven
<1>2. StationTypeOK'
  BY <1>1, DismissType DEF TypeOK, DismissSilent
<1>3. TypeOK'
  BY <1>2 DEF TypeOK, DismissSilent
<1>4. HandlerInv' /\ FramesAreLetIn' /\ ArmInv'
  BY <1>1 DEF HandlerInv, OperatorHasHandler, FramesAreLetIn, ArmInv, DismissSilent, Dismiss
<1>5. StrayInv'
  <2>1. seen'.operator = Nobody
    BY DEF TypeOK, StationTypeOK, Seen, DismissSilent
  <2> QED BY <1>1, <2>1 DEF StrayInv, OneStray, DismissSilent, Dismiss
<1>6. ParkInv'
  BY DEF ParkInv, AtRest, DismissSilent, Dismiss
<1> QED BY <1>3, <1>4, <1>5, <1>6

(* A step of the arm stays in reach, and towards rest it stays at rest. *)
LEMMA MoveKeeps ==
    ASSUME HostInv, Move, UNCHANGED wire
    PROVE  HostInv'
<1> USE DEF HostInv, desk, wire
<1>1. /\ commanded' = Commanded /\ Commanded \in Reach /\ Reach \subseteq Int
      /\ Least(commanded, Goal) <= Commanded /\ Commanded <= Most(commanded, Goal)
  BY NextCommand DEF TypeOK, Move, Commanded, Reach, Least, Most
<1>2. arm' \in Low..High \cup {Rest}
  <2>1. Clamp(commanded') \in Low..High
    BY <1>1, ClampRange
  <2> QED BY <2>1 DEF TypeOK, StationTypeOK, Move
<1>3. /\ strayed' \in [Operator -> 0..1]
      /\ \A o \in Operator : operator = o \/ seen.operator # o => strayed'[o] = strayed[o]
  <2>1. strayed \in [Operator -> 0..1]
    BY DEF StrayInv, OneStray, TypeOK, StationTypeOK
  <2>2. CASE strayed' = strayed
    BY <2>1, <2>2
  <2>3. CASE strayed' = Strayed
    <3>1. ASSUME NEW o \in Operator
          PROVE  /\ Strayed[o] \in 0..1
                 /\ operator = o \/ seen.operator # o => Strayed[o] = strayed[o]
      <4>1. strayed[o] \in 0..1
        BY <2>1
      <4>2. Driven /\ seen.operator = o => strayed[o] = 0
        BY DEF StrayInv, Move
      <4> QED BY <4>1, <4>2 DEF Strayed, Least
    <3>2. Strayed \in [Operator -> 0..1]
      BY <3>1 DEF Strayed
    <3> QED BY <2>3, <3>1, <3>2
  <2> QED BY <2>2, <2>3 DEF Move
<1>4. loop' \in {"over"} \cup Phase
  BY DEF Move, Iteration, Phase
<1>5. StationTypeOK'
  <2>1. commanded' \in Reach
    BY <1>1 DEF TypeOK, StationTypeOK, Move
  <2>2. (strayed \in [Operator -> 0..2] /\ loop \in {"top", "silent", "moving", "over"} \cup Phase)'
    BY <1>3, <1>4
  <2> QED BY <1>2, <2>1, <2>2 DEF TypeOK, StationTypeOK, Move
<1>6. TypeOK'
  BY <1>5 DEF TypeOK, Move
<1>7. HandlerInv' /\ FramesAreLetIn'
  BY DEF HandlerInv, OperatorHasHandler, FramesAreLetIn, LetIn, Driven, Move
<1>8. StrayInv'
  <2>1. UNCHANGED <<operator, seen, handler>> /\ loop' # "moving"
    BY <1>4 DEF Move, Phase
  <2>2. OneStray'
    BY <1>3 DEF OneStray
  <2>3. operator # Nobody => strayed'[operator] = 0
    BY <1>3 DEF StrayInv, TypeOK, StationTypeOK
  <2>4. \A o \in Operator : handler[o] \in {"none", "hello"} => seen.operator # o /\ strayed'[o] = 0
    BY <1>3 DEF StrayInv
  <2> QED BY <2>1, <2>2, <2>3, <2>4 DEF StrayInv
<1>9. ParkInv'
  <2>1. CASE loop' = "parked"
    <3>1. Goal = Rest /\ AtRest(commanded)
      BY <2>1 DEF Move, Iteration, Goal
    <3>2. AtRest(commanded')
      BY <1>1, <3>1 DEF AtRest, Least, Most, TypeOK, StationTypeOK
    <3> QED BY <1>4, <3>2 DEF ParkInv, Phase
  <2>2. CASE loop' # "parked"
    BY <1>4, <2>2 DEF ParkInv, Phase
  <2> QED BY <2>1, <2>2
<1>10. ArmInv'
  <2> SUFFICES ASSUME Rest \in Low..High, loop' # "over" PROVE arm' = commanded'
    BY DEF ArmInv
  <2>1. commanded' \in Low..High
    BY <1>1 DEF Reach, Least, Most
  <2>2. Clamp(commanded') = commanded'
    BY <2>1, ClampRange
  <2> QED BY <2>2 DEF Move
<1> QED BY <1>6, <1>7, <1>8, <1>9, <1>10

LEMMA ShowPhaseKeeps ==
    ASSUME HostInv, ShowPhase, UNCHANGED wire
    PROVE  HostInv'
<1> USE DEF HostInv, desk, wire
<1>1. seen' \in Seen /\ ~Driven'
  BY DEF ShowPhase, Unseen, Seen, Driven
<1>2. StationTypeOK'
  BY <1>1 DEF TypeOK, StationTypeOK, ShowPhase
<1>3. TypeOK'
  BY <1>2 DEF TypeOK, ShowPhase
<1>4. HandlerInv' /\ FramesAreLetIn' /\ ArmInv'
  <2>1. UNCHANGED <<operator, target, driver, commanded, arm>> /\ (loop' = "over" <=> loop = "over")
    BY DEF ShowPhase, Phase
  <2>2. HandlerInv'
    BY <2>1 DEF HandlerInv, OperatorHasHandler
  <2>3. FramesAreLetIn'
    BY <1>1, <2>1 DEF FramesAreLetIn, LetIn
  <2> QED BY <2>1, <2>2, <2>3 DEF ArmInv
<1>5. StrayInv'
  <2>1. seen'.operator = Nobody
    BY DEF ShowPhase, Unseen
  <2> QED BY <1>1, <2>1 DEF StrayInv, OneStray, ShowPhase
<1>6. ParkInv'
  BY DEF ParkInv, AtRest, ShowPhase
<1> QED BY <1>3, <1>4, <1>5, <1>6

LEMMA ElapseKeeps ==
    ASSUME HostInv, Elapse, UNCHANGED wire
    PROVE  HostInv'
<1> USE DEF HostInv, wire
<1>1. frameAge' \in 0..(Silence + 1) /\ engagedAge' \in 0..SoftStart
  BY DEF TypeOK, StationTypeOK, Elapse, Least
<1>2. StationTypeOK'
  BY <1>1 DEF TypeOK, StationTypeOK, Elapse
<1>3. TypeOK'
  BY <1>2 DEF TypeOK, Elapse
<1>4. HandlerInv' /\ FramesAreLetIn' /\ ArmInv'
  BY DEF HandlerInv, OperatorHasHandler, FramesAreLetIn, LetIn, Driven, ArmInv, Elapse
<1>5. StrayInv'
  BY DEF StrayInv, OneStray, Driven, Elapse
<1>6. ParkInv'
  BY DEF ParkInv, AtRest, Elapse
<1> QED BY <1>3, <1>4, <1>5, <1>6

-----------------------------------------------------------------------------
(* The invariant *)

LEMMA HostInit == Init => HostInv
<1> SUFFICES ASSUME Init PROVE HostInv
  OBVIOUS
<1> USE DEF Init, StationInit
<1>1. commanded \in Reach /\ seen \in Seen
  BY DEF Reach, Least, Most, Unseen, Seen
<1>2. StationTypeOK
  <2>1. target \in Low..High \cup {NoTarget} /\ arm \in Low..High \cup {Rest}
    OBVIOUS
  <2>2. /\ frameAge \in 0..(Silence + 1) /\ engagedAge \in 0..SoftStart
        /\ echoSeq \in Nat /\ strayed \in [Operator -> 0..2]
    OBVIOUS
  <2>3. accepting \in BOOLEAN /\ stopSet \in BOOLEAN
    OBVIOUS
  <2>4. phase \in Phase /\ loop \in {"top", "silent", "moving", "over"} \cup Phase
    BY DEF Phase
  <2> QED BY <1>1, <2>1, <2>2, <2>3, <2>4 DEF StationTypeOK
<1>3. up \in [Operator -> Seq(Message)]
  OBVIOUS
<1>4. TypeOK
  BY <1>2, <1>3 DEF TypeOK
<1>5. HandlerInv /\ FramesAreLetIn /\ StrayInv /\ ParkInv /\ ArmInv
  BY DEF HandlerInv, OperatorHasHandler, FramesAreLetIn, StrayInv, OneStray, Driven, Unseen, ParkInv,
         ArmInv, AtRest
<1> QED BY <1>4, <1>5 DEF HostInv

LEMMA HostStep == HostInv /\ [Next]_vars => HostInv'
<1> SUFFICES ASSUME HostInv, [Next]_vars PROVE HostInv'
  OBVIOUS
<1>1. ASSUME NEW o \in Operator, Answered(o) \/ Handler(o) PROVE HostInv'
  BY <1>1, WireSteps, HandshakeKeeps, TakeActionKeeps, LeaveKeeps DEF Handler
<1>2. CASE LoopStep /\ UNCHANGED wire
  BY <1>2, LookKeeps, DismissSilentKeeps, MoveKeeps, ShowPhaseKeeps DEF LoopStep
<1>3. CASE Elapse /\ UNCHANGED wire
  BY <1>3, ElapseKeeps
<1>4. CASE Environment
  BY <1>4, WireSteps, ControlsKeep DEF Environment
<1>5. CASE UNCHANGED vars
  <2>1. UNCHANGED stationVars /\ UNCHANGED wire
    BY <1>5 DEF vars
  <2>2. UNCHANGED <<handler, reply>>
    BY <2>1 DEF wire
  <2>3. TypeOK' /\ HandlerInv'
    BY <2>1, <2>2, StationStays DEF HostInv, TypeOK, HandlerInv, OperatorHasHandler, wire, stationVars
  <2> QED BY <2>1, <2>2, <2>3, StationStays DEF HostInv
<1> QED BY <1>1, <1>2, <1>3, <1>4, <1>5 DEF Next

(* What is said of the station, its operator and its handlers in every     *)
(* state (HostingWorker and remote_operator).                              *)
THEOREM HostInvariance == Spec => []HostInv
BY HostInit, HostStep, PTL DEF Spec

(* Types, for any bound on the frames. *)
THEOREM HostTypes == Spec => []TypeOK
BY HostInvariance, PTL DEF HostInv

(* Whoever drives the station has a handler that will detach it            *)
(* (routes/remote.py:72-101).                                              *)
THEOREM StationIsNeverStuck == Spec => []OperatorHasHandler
<1>1. HostInv => OperatorHasHandler
  BY DEF HostInv, HandlerInv
<1> QED BY <1>1, HostInvariance, PTL

(* No frame of a connection that was refused, or not yet answered, is ever *)
(* the target or what the loop steps for (routes/remote.py:66-93,          *)
(* remote_teleop.py:141-148).                                              *)
THEOREM OnlyWhoWasLetIn == Spec => []FramesAreLetIn
<1>1. HostInv => FramesAreLetIn
  BY DEF HostInv
<1> QED BY <1>1, HostInvariance, PTL

(* Once an operator is no longer attached, the arm makes at most one more  *)
(* step on what was taken while it was, whoever is attached next           *)
(* (remote_teleop.py:133-148, 187-198).                                    *)
THEOREM OneMoreStep == Spec => []OneStray
<1>1. HostInv => OneStray
  BY DEF HostInv, StrayInv
<1> QED BY <1>1, HostInvariance, PTL

(* A station that says it is parked is (remote_teleop.py:203-213). *)
THEOREM ParkedIsTrue == Spec => []ParkedIsAtRest
<1>1. HostInv => ParkedIsAtRest
  BY DEF HostInv, ParkInv, ParkedIsAtRest
<1> QED BY <1>1, HostInvariance, PTL

(* No command is outside the soft limits, whatever operators send          *)
(* (safety.py:56-62, remote_teleop.py:142, 209).                           *)
THEOREM CommandsWithinLimits == Spec => []WithinLimits
<1>1. HostInv => WithinLimits
  BY DEF HostInv, TypeOK, StationTypeOK, WithinLimits, Reach, Least, Most
<1> QED BY <1>1, HostInvariance, PTL

(* From a rest pose within the limits no command is further than the cap   *)
(* from the one before (remote_teleop.py:68-70, 195-209). From one outside *)
(* them the first command may be: it jumps to the limit.                   *)
THEOREM CommandsAreCapped ==
    ASSUME Rest \in Low..High
    PROVE  Spec => RateCapped
<1>1. HostInv /\ [Next]_vars => [arm' - arm <= Cap /\ arm - arm' <= Cap]_vars
  <2> SUFFICES ASSUME HostInv, Next
               PROVE  arm' - arm <= Cap /\ arm - arm' <= Cap
    BY DEF vars
  <2>1. arm \in Int /\ Cap \in Nat
    BY DEF HostInv, TypeOK, StationTypeOK
  <2>2. CASE arm' = arm
    BY <2>1, <2>2
  <2>3. CASE Move /\ arm' # arm
    <3>1. arm = commanded /\ arm' = Clamp(commanded')
      BY <2>3 DEF HostInv, ArmInv, Move
    <3>2. /\ commanded' = Commanded /\ Commanded \in Reach
          /\ Commanded - commanded <= Cap /\ commanded - Commanded <= Cap
      BY <2>3, NextCommand DEF HostInv, TypeOK, Move, Commanded
    <3>3. Commanded \in Low..High
      BY <3>2 DEF Reach, Least, Most
    <3>4. arm' = Commanded
      BY <3>1, <3>2, <3>3, ClampRange
    <3> QED BY <3>1, <3>2, <3>4
  <2>4. arm' = arm \/ Move
    <3>1. CASE LoopStep
      BY <3>1 DEF LoopStep, Look, DismissSilent, ShowPhase, EndLoop
    <3>2. CASE Elapse
      BY <3>2 DEF Elapse
    <3>3. CASE Environment
      BY <3>3 DEF Environment, Dial, Stream, Part, BreakLink, ParkControl, Park, Detach,
           BlockControl, Block, AllowControl, Allow, StopStation, stationVars
    <3>4. ASSUME NEW o \in Operator, Answered(o) \/ Handler(o) PROVE arm' = arm
      BY <3>4 DEF Answered, Handler, Handshake, NoHello, SendReady, TakeAction, Hangup, Leave,
           Attach, Detach, OnAction, stationVars
    <3> QED BY <3>1, <3>2, <3>3, <3>4 DEF Next
  <2> QED BY <2>2, <2>3, <2>4
<1> QED BY <1>1, HostInvariance, PTL DEF Spec, RateCapped
=============================================================================
