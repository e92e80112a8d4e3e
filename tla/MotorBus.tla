------------------------------ MODULE MotorBus ------------------------------
(***************************************************************************)
(* The serial line to an arm (motors/nexarm.py) and the threads that share *)
(* it: the loop of a session and the ramp of the thread that stops it.     *)
(* The protocol numbers nothing: an answer is told from another by when it *)
(* comes.  What the firmware prints goes over the same line, and a read    *)
(* takes whatever has arrived so far, be it the half of a header.          *)
(*                                                                         *)
(* Bytes have four bits (eight in the code), a position takes one byte     *)
(* (twelve bytes for six joints): a frame is                               *)
(*   <<Header, Header, id, length, command, position, checksum>>.          *)
(***************************************************************************)
EXTENDS Integers, Sequences

CONSTANTS
    Thread, Free,
    Retries,        \* attempts of a read
    Position,       \* what the servos may report, a byte
    Noise,          \* a byte of a print of the firmware
    Short,          \* the arm is a leader, whose firmware sums up too little
    MaxCalls,       \* bound: reads and commands
    MaxFrames,      \* bound: frames sent before nobody tries again
    MaxPrints,      \* bound: bytes printed
    MaxOpens        \* bound: times the port is opened

Header == 15        \* 0xFF
Read == 12          \* CMD 96: as a length, more than ever comes at once

ASSUME MotorBusAssumption ==
    /\ Free \notin Thread
    /\ Retries \in Nat \ {0}
    /\ Position \subseteq 0..15
    /\ Noise \in 0..14 /\ Short \in BOOLEAN
    /\ MaxCalls \in Nat /\ MaxFrames \in Nat /\ MaxPrints \in Nat /\ MaxOpens \in Nat

VARIABLES
    port,       \* the port is open
    lock,       \* the thread that has the bus
    th,         \* each thread
    sent,       \* frames sent, which number the requests
    asked,      \* reads the arm has not come to
    wire,       \* bytes on their way
    input,      \* bytes that have come
    calls, prints, opens

vars == <<port, lock, th, sent, asked, wire, input, calls, prints, opens>>

(* Each byte remembers which request it answers, 0 for a print.            *)
ByteOf(b, r) == [byte |-> b, of |-> r]
ByteRecords == [byte : 0..15, of : Nat]

Ended == {"idle", "done", "raised"}
Holding == {"reset", "write", "poll", "scan"}

CallRecords ==
    [at : Ended \cup Holding \cup {"check", "lock", "pause"}, reads : BOOLEAN,
     attempt : Nat, request : Nat, buf : Seq(ByteRecords), heard : Seq(ByteRecords),
     split : BOOLEAN, known : SUBSET Nat]

TypeOK ==
    /\ port \in BOOLEAN
    /\ lock \in Thread \cup {Free}
    /\ th \in [Thread -> CallRecords]
    /\ sent \in Nat /\ calls \in Nat /\ prints \in Nat /\ opens \in Nat
    /\ asked \in Seq(Nat)
    /\ wire \in Seq(ByteRecords) /\ input \in Seq(ByteRecords)

Idle(at) ==
    [at |-> at, reads |-> FALSE, attempt |-> 0, request |-> 0,
     buf |-> <<>>, heard |-> <<>>, split |-> FALSE, known |-> {}]

Init ==
    /\ port = FALSE
    /\ lock = Free
    /\ th = [t \in Thread |-> Idle("idle")]
    /\ sent = 0 /\ calls = 0 /\ prints = 0 /\ opens = 0
    /\ asked = <<>> /\ wire = <<>> /\ input = <<>>

-----------------------------------------------------------------------------
(* Frames: the sum is over four bits, and the master's firmware sums only  *)
(* as far as its request was long.                                         *)
Sum(bytes) ==
    LET s[i \in 0..Len(bytes)] == IF i = 0 THEN 0 ELSE s[i - 1] + bytes[i] IN s[Len(bytes)]

Checksum(bytes) == 15 - (Sum(bytes) % 16)

BuildReply(r, position, checksum) ==
    [i \in 1..7 |-> ByteOf(<<Header, Header, Header, 3, Read, position, checksum>>[i], r)]

Summed(position) == IF Short THEN <<Header, 3, Read>> ELSE <<Header, 3, Read, position>>

Replies(r) ==
    {BuildReply(r, pc[1], pc[2]) : pc \in {pc \in Position \X (0..15) : pc[2] = Checksum(Summed(pc[1]))}}

(* parse_frame() of a sequence that is as long as its fourth byte says *)
ParseFrame(frame) ==
    LET b == [i \in 1..Len(frame) |-> frame[i].byte] IN
    /\ Len(frame) >= 6
    /\ b[Len(b)] \in {Checksum(SubSeq(b, 3, Len(b) - 1)), Checksum(SubSeq(b, 3, 5))}

HeadersIn(buf) == {i \in 1..(Len(buf) - 1) : buf[i].byte = Header /\ buf[i + 1].byte = Header}

From(buf, i) == SubSeq(buf, i, Len(buf))

-----------------------------------------------------------------------------
Set(t, new) == th' = [th EXCEPT ![t] = new]

(* A call is over; the lock is released on every way out of _send().       *)
Fail(t) ==
    /\ Set(t, Idle("raised"))
    /\ lock' = IF lock = t THEN Free ELSE lock

Done(t) ==
    /\ Set(t, Idle("done"))
    /\ lock' = Free

(* A read of the positions, or a command nobody answers. *)
Call(t) ==
    /\ th[t].at \in Ended
    /\ calls < MaxCalls
    /\ calls' = calls + 1
    /\ \E reads \in BOOLEAN :
         Set(t, [th[t] EXCEPT !.at = "check", !.reads = reads, !.attempt = 1])
    /\ UNCHANGED <<port, lock, sent, asked, wire, input, prints, opens>>

(* _send() looks at the port before it waits for the lock. *)
Check(t) ==
    /\ th[t].at = "check"
    /\ IF port
       THEN Set(t, [th[t] EXCEPT !.at = "lock"]) /\ UNCHANGED lock
       ELSE Fail(t)
    /\ UNCHANGED <<port, sent, asked, wire, input, calls, prints, opens>>

AcquireAnyway(t) ==   \* mutant: I/O without the lock
    /\ th[t].at = "lock"
    /\ lock' = t
    /\ Set(t, [th[t] EXCEPT !.at = "reset"])
    /\ UNCHANGED <<port, sent, asked, wire, input, calls, prints, opens>>

Acquire(t) ==
    /\ th[t].at = "lock"
    /\ lock = Free
    /\ lock' = t
    /\ Set(t, [th[t] EXCEPT !.at = "reset"])
    /\ UNCHANGED <<port, sent, asked, wire, input, calls, prints, opens>>

(* The requests whose answer has come in full, or never will.              *)
Come == {r \in 1..sent : /\ \A i \in 1..Len(asked) : asked[i] # r
                         /\ \A i \in 1..Len(wire) : wire[i].of # r}

ResetInput(t) ==
    /\ th[t].at = "reset"
    /\ IF port
       THEN /\ Set(t, [th[t] EXCEPT !.at = "write", !.known = Come])
            /\ input' = <<>>
            /\ UNCHANGED lock
       ELSE Fail(t) /\ UNCHANGED input
    /\ UNCHANGED <<port, sent, asked, wire, calls, prints, opens>>

(* The arm may have got a frame whose write timed out. *)
Write(t) ==
    /\ th[t].at = "write"
    /\ \/ /\ port
          /\ sent' = sent + 1
          /\ asked' = IF th[t].reads THEN Append(asked, sent + 1) ELSE asked
          /\ IF th[t].reads
             THEN /\ Set(t, [th[t] EXCEPT !.at = "poll", !.request = sent + 1])
                  /\ UNCHANGED lock
             ELSE Done(t)
       \/ /\ Fail(t)
          /\ UNCHANGED <<sent, asked>>
       \/ /\ port /\ th[t].reads
          /\ sent' = sent + 1
          /\ asked' = Append(asked, sent + 1)
          /\ Set(t, Idle("raised"))
          /\ lock' = Free
    /\ UNCHANGED <<port, wire, input, calls, prints, opens>>

(* _read_reply() takes what is there. *)
Poll(t) ==
    /\ th[t].at = "poll"
    /\ \/ /\ port /\ input # <<>>
          /\ Set(t, [th[t] EXCEPT !.at = "scan", !.buf = @ \o input, !.heard = @ \o input])
          /\ input' = <<>>
          /\ UNCHANGED lock
       \/ ~port /\ Fail(t) /\ UNCHANGED input
    /\ UNCHANGED <<port, sent, asked, wire, calls, prints, opens>>

(* read_positions() tries again. *)
AttemptOver(t) ==
    /\ Set(t, IF th[t].attempt < Retries /\ sent < MaxFrames
              THEN [Idle("pause") EXCEPT !.reads = TRUE, !.attempt = th[t].attempt]
              ELSE Idle("raised"))
    /\ lock' = Free

Deadline(t) ==
    /\ th[t].at = "poll"
    /\ AttemptOver(t)
    /\ UNCHANGED <<port, sent, asked, wire, input, calls, prints, opens>>

Retry(t) ==
    /\ th[t].at = "pause"
    /\ Set(t, [th[t] EXCEPT !.at = "check", !.attempt = @ + 1])
    /\ UNCHANGED <<port, lock, sent, asked, wire, input, calls, prints, opens>>

(* One iteration of _try_parse(), and what _read_reply() does of it.       *)
KeepBuf(t, at, buf) ==
    /\ Set(t, [th[t] EXCEPT !.at = at, !.buf = buf])
    /\ UNCHANGED lock

Parse(t, rest, total) ==
    LET frame == SubSeq(rest, 1, total) IN
    IF ~ParseFrame(frame)
    THEN KeepBuf(t, "scan", From(rest, 3))
    ELSE IF frame[5].byte # Read
    THEN KeepBuf(t, "scan", From(rest, total + 1))
    ELSE IF total < 7   \* too short for a position
    THEN AttemptOver(t)
    ELSE Done(t)

ScanAtLate(t, rest) ==   \* mutant: one byte more than the frame is waited for
    IF Len(rest) < 4 \/ Len(rest) <= 4 + rest[4].byte
    THEN KeepBuf(t, "poll", rest)
    ELSE Parse(t, rest, 4 + rest[4].byte)

ScanAt(t, rest) ==
    IF Len(rest) < 4 \/ Len(rest) < 4 + rest[4].byte
    THEN KeepBuf(t, "poll", rest)
    ELSE Parse(t, rest, 4 + rest[4].byte)

Scan(t) ==
    /\ th[t].at = "scan"
    /\ LET buf == th[t].buf IN
       \/ Len(buf) < 6 /\ KeepBuf(t, "poll", buf)
       \/ /\ Len(buf) >= 6 /\ HeadersIn(buf) = {}
          /\ Set(t, [th[t] EXCEPT !.at = "poll", !.buf = <<>>,
                                  !.split = @ \/ buf[Len(buf)].byte = Header])
          /\ UNCHANGED lock
       \/ \E i \in HeadersIn(buf) :
            /\ Len(buf) >= 6
            /\ \A j \in HeadersIn(buf) : i <= j
            /\ ScanAt(t, From(buf, i))
    /\ UNCHANGED <<port, sent, asked, wire, input, calls, prints, opens>>

Work(t) ==
    \/ Check(t) \/ Acquire(t) \/ ResetInput(t) \/ Write(t)
    \/ Poll(t) \/ Deadline(t) \/ Retry(t) \/ Scan(t)

-----------------------------------------------------------------------------
(* The worker connects before it makes the threads that use the bus, and   *)
(* what came while connect() waited is thrown away.                        *)
Connect ==
    /\ ~port
    /\ \A t \in Thread : th[t].at \in Ended
    /\ opens < MaxOpens
    /\ opens' = opens + 1
    /\ port' = TRUE
    /\ input' = <<>>
    /\ UNCHANGED <<lock, th, sent, asked, wire, calls, prints>>

(* disconnect() takes no lock. *)
Disconnect ==
    /\ port
    /\ port' = FALSE
    /\ input' = <<>>
    /\ UNCHANGED <<lock, th, sent, asked, wire, calls, prints, opens>>

-----------------------------------------------------------------------------
(* The arm: it answers in order, or not at all, and prints before, between *)
(* and in the middle of its answers; one thing is out before the next.     *)
Say(bytes) == wire = <<>> /\ wire' = bytes

Answer ==
    /\ asked # <<>>
    /\ asked' = Tail(asked)
    /\ \E reply \in Replies(Head(asked)) :
         \/ Say(reply) /\ UNCHANGED prints
         \/ /\ prints < MaxPrints
            /\ prints' = prints + 1
            /\ \E k \in 1..6 : Say(SubSeq(reply, 1, k) \o <<ByteOf(Noise, 0)>> \o From(reply, k + 1))
    /\ UNCHANGED <<port, lock, th, sent, input, calls, opens>>

Ignore ==
    /\ asked # <<>>
    /\ asked' = Tail(asked)
    /\ UNCHANGED <<port, lock, th, sent, wire, input, calls, prints, opens>>

PrintOut ==
    /\ prints < MaxPrints
    /\ prints' = prints + 1
    /\ Say(<<ByteOf(Noise, 0)>>)
    /\ UNCHANGED <<port, lock, th, sent, asked, input, calls, opens>>

(* Some of the bytes come; nobody keeps those that come to a closed port.  *)
Arrive ==
    /\ \E n \in 1..Len(wire) :
         /\ input' = IF port THEN input \o SubSeq(wire, 1, n) ELSE input
         /\ wire' = From(wire, n + 1)
    /\ UNCHANGED <<port, lock, th, sent, asked, calls, prints, opens>>

Arm == Answer \/ Ignore \/ PrintOut \/ Arrive

Next ==
    \/ \E t \in Thread : Call(t) \/ Work(t)
    \/ Connect \/ Disconnect
    \/ Arm

Spec == Init /\ [][Next]_vars

-----------------------------------------------------------------------------
(* What a read returns is the answer to its own request, or to an earlier  *)
(* one that nobody waits for any longer, whose answer had not come in full *)
(* when this one was sent: no thread takes another's answer, and what has  *)
(* come is not read again (_send, _read_reply).  0 is a print that passes  *)
(* for an answer, which is the checksum's affair.                          *)
Returned(t) ==
    LET buf == th[t].buf IN
    {buf[i + 5].of : i \in {i \in HeadersIn(buf) : \A j \in HeadersIn(buf) : i <= j}}

AnswerIsOwnOrLate ==
    [][\A t \in Thread :
         th[t].at = "scan" /\ th'[t].at = "done" =>
            \A r \in Returned(t) \ {0, th[t].request} :
               /\ \A u \in Thread : th[u].request # r
               /\ r \notin th[t].known]_vars

(* A whole answer with no header byte before it is found as soon as it is  *)
(* there, however it was cut on the way, or a poll cleared the first byte  *)
(* of its header (_try_parse).                                             *)
ReplyIsFound ==
    \A t \in Thread : th[t].at = "poll" /\ ~th[t].split =>
        \A i \in 1..(Len(th[t].heard) - 6) :
            (\A j \in 1..(i - 1) : th[t].heard[j].byte # Header) =>
                SubSeq(th[t].heard, i, i + 6) \notin Replies(th[t].heard[i].of)
=============================================================================
