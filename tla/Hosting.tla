------------------------------- MODULE Hosting -------------------------------
(***************************************************************************)
(* Remote teleoperation: the station of module Station, the handler of     *)
(* each operator's WebSocket in the station's engine (routes/remote.py),   *)
(* and the operators' engines (RemoteOperatorWorker in remote_teleop.py).  *)
(* A connection delivers in order, after any delay, until it breaks; what  *)
(* it still held is then read or lost.                                     *)
(***************************************************************************)
EXTENDS Station, Sequences

CONSTANT MaxFrames    \* bound: how many frames one operator sends

ASSUME FramesAssumption == MaxFrames \in Nat

VARIABLES
    handler,      \* where each connection's handler is
    control,      \* the request thread that works a control of the session
    client,       \* where each operator's engine is
    link,         \* the connection: not made, open, or broken
    up,           \* what the operator has sent and the handler not yet read
    reply,        \* what the handler has answered to the hello
    sent          \* worker._seq: frames the operator has sent

wire == <<handler, control, client, link, up, reply, sent>>
vars == <<stationVars, wire>>

Hello == [type |-> "hello"]
Bye == [type |-> "bye"]
Action(seq, ticks) == [type |-> "action", seq |-> seq, ticks |-> ticks]
Message == {Hello, Bye} \cup {Action(seq, ticks) : seq \in 1..MaxFrames, ticks \in Sent}

Init ==
    /\ StationInit
    /\ handler = [o \in Operator |-> "none"]
    /\ control = "idle"
    /\ client = [o \in Operator |-> "idle"]
    /\ link = [o \in Operator |-> "none"]
    /\ up = [o \in Operator |-> <<>>]
    /\ reply = [o \in Operator |-> "none"]
    /\ sent = [o \in Operator |-> 0]

TypeOK ==
    /\ StationTypeOK
    /\ echoSeq <= MaxFrames
    /\ handler \in [Operator -> {"none", "hello", "attached", "serving", "leaving", "closed"}]
    /\ control \in {"idle", "blocking"}
    /\ client \in [Operator -> {"idle", "waiting", "streaming", "over"}]
    /\ link \in [Operator -> {"none", "open", "broken"}]
    /\ up \in [Operator -> Seq(Message)]
    /\ reply \in [Operator -> {"none", "ready", "refused"}]
    /\ sent \in [Operator -> 0..MaxFrames]

-----------------------------------------------------------------------------
(* The operator's engine *)

Send(o, message) ==
    up' = IF link[o] = "open" THEN [up EXCEPT ![o] = Append(@, message)] ELSE up

(* start(): the leader, the WebSocket and the hello. An engine that is not *)
(* hosting answers and closes, which fails the start.                      *)
Dial(o) ==
    /\ client[o] = "idle"
    /\ \/ /\ ~stopSet
          /\ link' = [link EXCEPT ![o] = "open"]
          /\ handler' = [handler EXCEPT ![o] = "hello"]
          /\ up' = [up EXCEPT ![o] = <<Hello>>]
          /\ client' = [client EXCEPT ![o] = "waiting"]
       \/ /\ client' = [client EXCEPT ![o] = "over"]
          /\ UNCHANGED <<link, handler, up>>
    /\ UNCHANGED <<stationVars, control, reply, sent>>

Answered(o) ==
    /\ client[o] = "waiting"
    /\ reply[o] = "ready"
    /\ client' = [client EXCEPT ![o] = "streaming"]
    /\ UNCHANGED <<stationVars, handler, control, link, up, reply, sent>>

Stream(o) ==
    /\ client[o] = "streaming"
    /\ link[o] = "open"
    /\ sent[o] < MaxFrames
    /\ sent' = [sent EXCEPT ![o] = @ + 1]
    /\ \E ticks \in Sent : Send(o, Action(sent'[o], ticks))
    /\ UNCHANGED <<stationVars, handler, control, client, link, reply>>

(* The user stops; or the leader or the socket fails, and the engine's     *)
(* watchdog reaps the worker; or start() fails, on a refusal or for want of *)
(* an answer. _shutdown says bye if the socket takes it, and closes.       *)
Part(o) ==
    /\ client[o] \in {"waiting", "streaming"}
    /\ Send(o, Bye)
    /\ link' = [link EXCEPT ![o] = "broken"]
    /\ client' = [client EXCEPT ![o] = "over"]
    /\ UNCHANGED <<stationVars, handler, control, reply, sent>>

(* The network drops the connection; neither end knows yet. *)
BreakLink(o) ==
    /\ link[o] = "open"
    /\ link' = [link EXCEPT ![o] = "broken"]
    /\ UNCHANGED <<stationVars, handler, control, client, up, reply, sent>>

-----------------------------------------------------------------------------
(* The handler of operator o, on the station's event loop: it may pause at *)
(* every await.                                                            *)

Receive(o, type) ==
    /\ up[o] # <<>>
    /\ Head(up[o]).type = type
    /\ up' = [up EXCEPT ![o] = Tail(@)]

(* The worker was looked up when the connection was accepted; it may have  *)
(* been stopped since.                                                     *)
Handshake(o) ==
    /\ handler[o] = "hello"
    /\ Receive(o, "hello")
    /\ \/ /\ Attach(o)
          /\ handler' = [handler EXCEPT ![o] = "attached"]
          /\ UNCHANGED <<reply, link>>
       \/ /\ Refused
          /\ handler' = [handler EXCEPT ![o] = "closed"]
          /\ reply' = [reply EXCEPT ![o] = "refused"]
          /\ link' = [link EXCEPT ![o] = "broken"]
          /\ UNCHANGED stationVars
    /\ UNCHANGED <<control, client, sent>>

NoHello(o) ==
    /\ handler[o] = "hello"
    /\ link[o] = "broken"
    /\ handler' = [handler EXCEPT ![o] = "closed"]
    /\ UNCHANGED <<stationVars, control, client, link, up, reply, sent>>

SendReady(o) ==
    /\ handler[o] = "attached"
    /\ \/ /\ link[o] = "open"
          /\ reply' = [reply EXCEPT ![o] = "ready"]
          /\ handler' = [handler EXCEPT ![o] = "serving"]
       \/ /\ link[o] = "broken"
          /\ handler' = [handler EXCEPT ![o] = "leaving"]
          /\ UNCHANGED reply
    /\ UNCHANGED <<stationVars, control, client, link, up, sent>>

TakeAction(o) ==
    /\ handler[o] = "serving"
    /\ Receive(o, "action")
    /\ OnAction(o, Head(up[o]).seq, Head(up[o]).ticks)
    /\ UNCHANGED <<handler, control, client, link, reply, sent>>

HangupOnBye(o) ==   \* mutant: a broken connection goes unnoticed
    /\ handler[o] = "serving"
    /\ Receive(o, "bye")
    /\ handler' = [handler EXCEPT ![o] = "leaving"]
    /\ UNCHANGED <<stationVars, control, client, link, reply, sent>>

(* A bye, or a connection that broke, with or without what it still held.  *)
(* The engine's own operators send no frame that parse_action refuses.     *)
Hangup(o) ==
    /\ handler[o] = "serving"
    /\ \/ Receive(o, "bye")
       \/ link[o] = "broken" /\ up' = [up EXCEPT ![o] = <<>>]
    /\ handler' = [handler EXCEPT ![o] = "leaving"]
    /\ UNCHANGED <<stationVars, control, client, link, reply, sent>>

Leave(o) ==
    /\ handler[o] = "leaving"
    /\ Detach
    /\ handler' = [handler EXCEPT ![o] = "closed"]
    /\ link' = [link EXCEPT ![o] = "broken"]
    /\ UNCHANGED <<control, client, up, reply, sent>>

-----------------------------------------------------------------------------
(* The station's controls, which its session forwards while it runs *)

ParkControl == ~stopSet /\ control = "idle" /\ Park /\ UNCHANGED wire

BlockControl ==
    \/ /\ ~stopSet /\ control = "idle"
       /\ Block
       /\ control' = "blocking"
       /\ UNCHANGED <<handler, client, link, up, reply, sent>>
    \/ /\ control = "blocking"
       /\ Detach
       /\ control' = "idle"
       /\ UNCHANGED <<handler, client, link, up, reply, sent>>

AllowControl == ~stopSet /\ control = "idle" /\ Allow /\ UNCHANGED wire

-----------------------------------------------------------------------------
Handler(o) ==
    Handshake(o) \/ NoHello(o) \/ SendReady(o) \/ TakeAction(o) \/ Hangup(o) \/ Leave(o)

Environment ==
    \/ \E o \in Operator : Dial(o) \/ Stream(o) \/ Part(o) \/ BreakLink(o)
    \/ ParkControl \/ BlockControl \/ AllowControl
    \/ StopStation /\ UNCHANGED wire

Next ==
    \/ \E o \in Operator : Answered(o) \/ Handler(o)
    \/ LoopStep /\ UNCHANGED wire
    \/ Elapse /\ UNCHANGED wire
    \/ Environment

Spec == Init /\ [][Next]_vars

(* The threads run and time passes; users, networks and leaders owe nothing. *)
Fairness ==
    /\ \A o \in Operator : WF_vars(Handler(o))
    /\ WF_vars(LoopStep /\ UNCHANGED wire)
    /\ WF_vars(Elapse /\ UNCHANGED wire)

FairSpec == Spec /\ Fairness

-----------------------------------------------------------------------------
(* Safety *)

(* Whoever is attached has a handler that will detach it                   *)
(* (routes/remote.py:72-101): no ended connection keeps the station.       *)
OperatorHasHandler ==
    operator # Nobody => handler[operator] \in {"attached", "serving", "leaving"}

(* Only who was let in moves the arm: the target, and the copy of it that  *)
(* the loop steps for, came over a connection that was attached and told   *)
(* "ready" (routes/remote.py:66-93), and a target needs somebody attached  *)
(* (remote_teleop.py:144-146). That this is the sender is not so: see      *)
(* OneDriver.                                                              *)
LetIn(o) == o \in Operator /\ reply[o] = "ready"

FramesAreLetIn ==
    /\ target # NoTarget => operator # Nobody /\ LetIn(driver)
    /\ Driven => LetIn(seen.sender)

(* The loop reads operator and target together under the lock              *)
(* (remote_teleop.py:188-198): once an operator is no longer attached, for *)
(* whatever reason and whoever is attached next, the arm makes at most one *)
(* more step on the frames that were taken while it was. Frames which its  *)
(* handler takes later, while another is attached, count as that one's.    *)
OneStray == \A o \in Operator : strayed[o] <= 1

(* A station that shows "parked" commands the rest pose (routes and        *)
(* desktop read worker._phase), but for the step it is just making.        *)
ParkedIsAtRest == phase = "parked" /\ loop \in {"top", "moving"} => AtRest(commanded)

(* One command is never further than the cap from the one before           *)
(* (remote_teleop.py:16-17), whoever comes and goes.                       *)
RateCapped == [][arm' - arm <= Cap /\ arm - arm' <= Cap]_vars

(* No command leaves the soft limits (clamp_action), nor does the position *)
(* the loop steps from, whatever the operators send.                       *)
WithinLimits == Rest \in Low..High => commanded \in Low..High /\ arm \in Low..High

(* What these rest on, for the proofs. A handler starts when its operator   *)
(* dials, and serves once it has answered; nothing strays before the        *)
(* attachment has ended, and no operator is attached twice; a "parked" that *)
(* is to be shown is true; until the loop ends the arm is where it was sent.*)
HandlerInv ==
    /\ OperatorHasHandler
    /\ \A o \in Operator : client[o] = "idle" => handler[o] = "none"
    /\ \A o \in Operator : handler[o] = "serving" => reply[o] = "ready"
    /\ \A o \in Operator : handler[o] \in {"none", "hello", "attached"} => reply[o] = "none"

StrayInv ==
    /\ OneStray
    /\ operator # Nobody => strayed[operator] = 0
    /\ loop = "moving" /\ Driven => strayed[seen.operator] = 0
    /\ \A o \in Operator : handler[o] \in {"none", "hello"} => seen.operator # o /\ strayed[o] = 0

ParkInv ==
    /\ loop = "parked" => AtRest(commanded)
    /\ phase = "parked" /\ loop \in {"top", "silent", "moving"} => AtRest(commanded)

ArmInv == Rest \in Low..High /\ loop # "over" => arm = commanded

HostInv == TypeOK /\ HandlerInv /\ FramesAreLetIn /\ StrayInv /\ ParkInv /\ ArmInv

-----------------------------------------------------------------------------
(* Liveness *)

(* An operator who goes silent does not keep the station                   *)
(* (remote_teleop.py:11-12).                                               *)
SilentOperatorLeaves ==
    \A o \in Operator :
        operator = o /\ Silent ~> operator # o \/ ~Silent \/ loop = "over"

(* With nobody attached the arm goes home.                                 *)
AbandonedParks ==
    operator = Nobody ~> operator # Nobody \/ arm = Clamp(Rest) \/ loop = "over"

(* An ended connection frees the station: its handler comes to its end.    *)
HandlerEnds ==
    \A o \in Operator : client[o] = "over" ~> handler[o] \in {"none", "closed"}

-----------------------------------------------------------------------------
(* What the repository says and the code does not do *)

(* "lets one operator drive it" (remote_teleop.py:91): the arm follows the *)
(* frames of the operator who is attached.                                 *)
OneDriver == driver \in {Nobody, operator}

(* "parks again when the operator leaves, says bye, or goes silent for a   *)
(* second" (remote_teleop.py:11-12), or at a control: for nothing else.    *)
ParkedForCause ==
    [][\A o \in Operator :
          operator = o /\ operator' # o =>
              \/ handler[o] = "leaving"
              \/ Silent
              \/ handler' = handler /\ loop' = loop]_vars

(* "stale or from nobody: drop it" (remote_teleop.py:145): a frame of the  *)
(* attached operator, newer than any it sent before, is taken.             *)
NewFramesCount ==
    [][\A o \in Operator :
          TakeAction(o) /\ operator = o => echoSeq' = Head(up[o]).seq]_vars
=============================================================================
