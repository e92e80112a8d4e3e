--------------------------- MODULE MotorBusProofs ---------------------------
(***************************************************************************)
(* No thread takes another's answer from the line, nor one that had come   *)
(* before it asked, and a whole answer is found as soon as it is there,    *)
(* for any number of threads, calls and attempts, and whatever is printed  *)
(* in between.                                                             *)
(***************************************************************************)
EXTENDS MotorBus, SequenceTheorems, TLAPS

USE MotorBusAssumption

(* The requests whose bytes are in a sequence *)
Tags(s) == {s[i].of : i \in 1..Len(s)}

(* At most one thread is inside _send(), and it is the one that waits.     *)
LockInv ==
    \A t \in Thread :
       /\ th[t].at \in Holding <=> lock = t
       /\ th[t].request # 0 => th[t].at \in {"poll", "scan"}
       /\ th[t].at \notin {"poll", "scan"} => th[t].buf = <<>>

(* Nothing is left of the answers that had come when the input was emptied. *)
KnownInv ==
    \A t \in Thread :
       /\ th[t].known \subseteq 1..sent
       /\ th[t].at \in {"write", "poll", "scan"} =>
            \A r \in th[t].known :
               /\ \A i \in 1..Len(asked) : asked[i] # r
               /\ r \notin Tags(wire) /\ r \notin Tags(input) /\ r \notin Tags(th[t].buf)

BusInv == TypeOK /\ LockInv /\ KnownInv

-----------------------------------------------------------------------------
LEMMA TagsOfConcat ==
    ASSUME NEW s \in Seq(ByteRecords), NEW u \in Seq(ByteRecords)
    PROVE  s \o u \in Seq(ByteRecords) /\ Tags(s \o u) \subseteq Tags(s) \cup Tags(u)
<1>1. /\ s \o u \in Seq(ByteRecords)
      /\ Len(s \o u) = Len(s) + Len(u)
      /\ \A i \in 1..(Len(s) + Len(u)) : (s \o u)[i] = IF i <= Len(s) THEN s[i] ELSE u[i - Len(s)]
  BY ConcatProperties
<1>2. Len(s) \in Nat /\ Len(u) \in Nat
  BY LenProperties
<1>3. ASSUME NEW i \in 1..Len(s \o u) PROVE (s \o u)[i].of \in Tags(s) \cup Tags(u)
  <2>1. CASE i <= Len(s)
    BY <1>1, <1>2, <2>1 DEF Tags
  <2>2. CASE ~(i <= Len(s))
    <3>1. i - Len(s) \in 1..Len(u)
      BY <1>1, <1>2, <2>2
    <3> QED BY <1>1, <1>2, <2>2, <3>1 DEF Tags
  <2> QED BY <2>1, <2>2
<1> QED BY <1>1, <1>3 DEF Tags

LEMMA TagsOfSubSeq ==
    ASSUME NEW s \in Seq(ByteRecords), NEW m \in Nat \ {0}, NEW n \in Int, n <= Len(s)
    PROVE  /\ SubSeq(s, m, n) \in Seq(ByteRecords)
           /\ Tags(SubSeq(s, m, n)) \subseteq Tags(s)
<1>1. Len(s) \in Nat
  BY LenProperties
<1>2. \A i \in m..n : s[i] \in ByteRecords
  BY <1>1, ElementOfSeq
<1>3. /\ SubSeq(s, m, n) \in Seq(ByteRecords)
      /\ Len(SubSeq(s, m, n)) = IF m <= n THEN n - m + 1 ELSE 0
      /\ \A i \in 1..(n - m + 1) : SubSeq(s, m, n)[i] = s[m + i - 1]
  BY <1>2, SubSeqProperties
<1>4. ASSUME NEW i \in 1..Len(SubSeq(s, m, n)) PROVE SubSeq(s, m, n)[i].of \in Tags(s)
  <2>1. i \in 1..(n - m + 1) /\ m + i - 1 \in 1..Len(s)
    BY <1>1, <1>3
  <2> QED BY <1>3, <2>1 DEF Tags
<1> QED BY <1>3, <1>4 DEF Tags

LEMMA TagsOfFrom ==
    ASSUME NEW s \in Seq(ByteRecords), NEW m \in Nat \ {0}
    PROVE  From(s, m) \in Seq(ByteRecords) /\ Tags(From(s, m)) \subseteq Tags(s)
<1>1. Len(s) \in Int
  BY LenProperties
<1> QED BY <1>1, TagsOfSubSeq DEF From

LEMMA TagsOfReply ==
    ASSUME NEW r \in Nat, NEW reply \in Replies(r)
    PROVE  reply \in Seq(ByteRecords) /\ Len(reply) = 7 /\ Tags(reply) \subseteq {r}
<1>1. PICK p \in Position, c \in 0..15 : reply = BuildReply(r, p, c)
  BY DEF Replies
<1>2. reply \in [1..7 -> ByteRecords] /\ \A i \in 1..7 : reply[i].of = r
  <2>1. \A i \in 1..7 : <<Header, Header, Header, 3, Read, p, c>>[i] \in 0..15
    BY DEF Header, Read
  <2>2. \A i \in 1..7 : ByteOf(<<Header, Header, Header, 3, Read, p, c>>[i], r) \in ByteRecords
    BY <2>1 DEF ByteOf, ByteRecords
  <2> QED BY <1>1, <2>2 DEF BuildReply, ByteOf
<1>3. reply \in Seq(ByteRecords)
  BY <1>2, SeqDef, ZenonT(60)
<1>4. Len(reply) = 7
  BY <1>2, <1>3, LenProperties
<1> QED BY <1>2, <1>3, <1>4 DEF Tags

-----------------------------------------------------------------------------
LEMMA IdleIsACall ==
    ASSUME NEW at \in Ended \cup {"pause"}
    PROVE  Idle(at) \in CallRecords
<1>1. <<>> \in Seq(ByteRecords)
  BY EmptySeq
<1> QED BY <1>1 DEF Idle, CallRecords

LEMMA EnteringIsACall ==
    ASSUME NEW call \in CallRecords,
           NEW at \in Ended \cup Holding \cup {"check", "lock", "pause"}, NEW reads \in BOOLEAN,
           NEW n \in Nat, NEW r \in Nat, NEW known \in SUBSET Nat, NEW split \in BOOLEAN
    PROVE  /\ [call EXCEPT !.at = at] \in CallRecords
           /\ [call EXCEPT !.at = at, !.reads = reads, !.attempt = n] \in CallRecords
           /\ [call EXCEPT !.at = at, !.attempt = n] \in CallRecords
           /\ [call EXCEPT !.reads = reads, !.attempt = n] \in CallRecords
           /\ [call EXCEPT !.at = at, !.request = r] \in CallRecords
           /\ [call EXCEPT !.at = at, !.known = known] \in CallRecords
BY DEF CallRecords

LEMMA BufferIsACall ==
    ASSUME NEW call \in CallRecords,
           NEW at \in {"poll", "scan"}, NEW buf \in Seq(ByteRecords), NEW heard \in Seq(ByteRecords),
           NEW split \in BOOLEAN
    PROVE  /\ [call EXCEPT !.at = at, !.buf = buf] \in CallRecords
           /\ [call EXCEPT !.at = at, !.buf = buf, !.heard = heard] \in CallRecords
           /\ [call EXCEPT !.at = at, !.buf = buf, !.split = split] \in CallRecords
BY DEF CallRecords, Holding

LEMMA SetCall ==
    ASSUME TypeOK, NEW t \in Thread, NEW new \in CallRecords, Set(t, new)
    PROVE  /\ th' \in [Thread -> CallRecords]
           /\ th'[t] = new
           /\ \A u \in Thread \ {t} : th'[u] = th[u]
BY DEF TypeOK, Set


(* One thread goes on: it is inside _send() as before, and its buffer is   *)
(* in order.                                                               *)
LEMMA LockStays ==
    ASSUME BusInv, NEW t \in Thread, NEW new \in CallRecords, Set(t, new), lock' = lock,
           new.at \in Holding <=> th[t].at \in Holding,
           new.request # 0 => new.at \in {"poll", "scan"},
           new.at \notin {"poll", "scan"} => new.buf = <<>>
    PROVE  LockInv'
<1>1. th'[t] = new /\ \A u \in Thread \ {t} : th'[u] = th[u]
  BY SetCall DEF BusInv
<1> QED BY <1>1 DEF BusInv, LockInv

LEMMA LockGiven ==
    ASSUME BusInv, NEW t \in Thread, NEW new \in CallRecords, Set(t, new),
           lock' = IF lock = t THEN Free ELSE lock,
           new.at \notin Holding, new.request = 0, new.buf = <<>>
    PROVE  LockInv' /\ lock' \in Thread \cup {Free}
<1>1. th'[t] = new /\ \A u \in Thread \ {t} : th'[u] = th[u]
  BY SetCall DEF BusInv
<1>2. lock \in Thread \cup {Free}
  BY DEF BusInv, TypeOK
<1>3. LockInv'
  BY <1>1, <1>2 DEF BusInv, LockInv, Holding
<1> QED BY <1>2, <1>3

(* What it knows it knew, and its buffer has nothing but what had come.    *)
LEMMA KnownStays ==
    ASSUME BusInv, NEW t \in Thread, NEW new \in CallRecords, Set(t, new),
           sent' = sent, asked' = asked, wire' = wire, Tags(input') \subseteq Tags(input),
           new.known \subseteq th[t].known,
           new.at \in {"write", "poll", "scan"} => th[t].at \in {"write", "poll", "scan"},
           new.at \in {"write", "poll", "scan"} => Tags(new.buf) \subseteq Tags(th[t].buf) \cup Tags(input)
    PROVE  KnownInv'
<1>1. th'[t] = new /\ \A u \in Thread \ {t} : th'[u] = th[u]
  BY SetCall DEF BusInv
<1>2. ASSUME NEW u \in Thread
      PROVE  /\ th'[u].known \subseteq 1..sent
             /\ th'[u].at \in {"write", "poll", "scan"} =>
                  \A r \in th'[u].known :
                     /\ \A i \in 1..Len(asked) : asked[i] # r
                     /\ r \notin Tags(wire) /\ r \notin Tags(input') /\ r \notin Tags(th'[u].buf)
  <2>1. CASE u = t
    BY <1>1, <2>1 DEF BusInv, KnownInv
  <2>2. CASE u # t
    BY <1>1, <2>2 DEF BusInv, KnownInv
  <2> QED BY <2>1, <2>2
<1> QED BY <1>2 DEF KnownInv

LEMMA CallOfThread ==
    ASSUME BusInv, NEW t \in Thread
    PROVE  /\ th[t] \in CallRecords
           /\ th[t].at \in Holding <=> lock = t
           /\ th[t].request # 0 => th[t].at \in {"poll", "scan"}
           /\ th[t].at \notin {"poll", "scan"} => th[t].buf = <<>>
           /\ th[t].attempt \in Nat /\ th[t].reads \in BOOLEAN
           /\ th[t].buf \in Seq(ByteRecords) /\ th[t].heard \in Seq(ByteRecords)
<1>1. th[t] \in CallRecords
  BY DEF BusInv, TypeOK
<1> QED BY <1>1 DEF BusInv, LockInv, CallRecords

-----------------------------------------------------------------------------
LEMMA FailKeeps ==
    ASSUME BusInv, NEW t \in Thread, Fail(t),
           UNCHANGED <<port, sent, asked, wire, input, calls, prints, opens>>
    PROVE  BusInv'
<1> DEFINE new == Idle("raised")
<1>1. new \in CallRecords /\ Set(t, new)
  BY IdleIsACall DEF Fail, Ended
<1>2. new.at = "raised" /\ new.request = 0 /\ new.buf = <<>> /\ new.known = {}
  BY DEF Idle
<1> HIDE DEF new
<1>3. LockInv' /\ lock' \in Thread \cup {Free}
  BY <1>1, <1>2, LockGiven DEF Fail, Holding
<1>4. KnownInv'
  BY <1>1, <1>2, KnownStays
<1>5. TypeOK'
  BY <1>1, <1>3, SetCall DEF BusInv, TypeOK
<1> QED BY <1>3, <1>4, <1>5 DEF BusInv

LEMMA DoneKeeps ==
    ASSUME BusInv, NEW t \in Thread, Done(t), lock = t,
           UNCHANGED <<port, sent, asked, wire, input, calls, prints, opens>>
    PROVE  BusInv'
<1> DEFINE new == Idle("done")
<1>1. new \in CallRecords /\ Set(t, new)
  BY IdleIsACall DEF Done, Ended
<1>2. new.at = "done" /\ new.request = 0 /\ new.buf = <<>> /\ new.known = {}
  BY DEF Idle
<1> HIDE DEF new
<1>3. LockInv' /\ lock' \in Thread \cup {Free}
  BY <1>1, <1>2, LockGiven DEF Done, Holding
<1>4. KnownInv'
  BY <1>1, <1>2, KnownStays
<1>5. TypeOK'
  BY <1>1, <1>3, SetCall DEF BusInv, TypeOK
<1> QED BY <1>3, <1>4, <1>5 DEF BusInv

LEMMA CallKeeps ==
    ASSUME BusInv, NEW t \in Thread, Call(t)
    PROVE  BusInv'
<1>1. PICK reads \in BOOLEAN : Set(t, [th[t] EXCEPT !.at = "check", !.reads = reads, !.attempt = 1])
  BY DEF Call
<1> DEFINE new == [th[t] EXCEPT !.at = "check", !.reads = reads, !.attempt = 1]
<1>2. new \in CallRecords
  BY CallOfThread, EnteringIsACall
<1>3. /\ new.at = "check" /\ new.request = th[t].request /\ new.buf = th[t].buf
      /\ new.known = th[t].known
  BY CallOfThread DEF CallRecords
<1>4. th[t].at \in Ended
  BY DEF Call
<1> HIDE DEF new
<1>5. Set(t, new)
  BY <1>1 DEF new
<1>6. LockInv'
  BY <1>2, <1>3, <1>4, <1>5, LockStays, CallOfThread DEF Call, Ended, Holding
<1>7. KnownInv'
  BY <1>2, <1>3, <1>5, KnownStays DEF Call
<1>8. TypeOK'
  BY <1>2, <1>5, SetCall DEF BusInv, TypeOK, Call
<1> QED BY <1>6, <1>7, <1>8 DEF BusInv

LEMMA CheckKeeps ==
    ASSUME BusInv, NEW t \in Thread, Check(t)
    PROVE  BusInv'
<1>1. CASE ~port
  BY <1>1, FailKeeps DEF Check
<1>2. CASE port
  <2> DEFINE new == [th[t] EXCEPT !.at = "lock"]
  <2>1. new \in CallRecords
    BY CallOfThread, EnteringIsACall, ZenonT(60)
  <2>2. new.at = "lock" /\ new.request = th[t].request /\ new.buf = th[t].buf /\ new.known = th[t].known
    BY CallOfThread DEF CallRecords
  <2>3. Set(t, new) /\ th[t].at = "check" /\ lock' = lock
    BY <1>2 DEF Check
  <2> HIDE DEF new
  <2>4. LockInv'
    BY <2>1, <2>2, <2>3, LockStays, CallOfThread DEF Holding
  <2>5. KnownInv'
    BY <2>1, <2>2, <2>3, KnownStays DEF Check
  <2>6. TypeOK'
    BY <2>1, <2>3, SetCall DEF BusInv, TypeOK, Check
  <2> QED BY <2>4, <2>5, <2>6 DEF BusInv
<1> QED BY <1>1, <1>2

LEMMA AcquireKeeps ==
    ASSUME BusInv, NEW t \in Thread, Acquire(t)
    PROVE  BusInv'
<1> DEFINE new == [th[t] EXCEPT !.at = "reset"]
<1>1. new \in CallRecords
  BY CallOfThread, EnteringIsACall, ZenonT(60) DEF Holding
<1>2. new.at = "reset" /\ new.request = th[t].request /\ new.buf = th[t].buf /\ new.known = th[t].known
  BY CallOfThread DEF CallRecords
<1>3. Set(t, new) /\ th[t].at = "lock" /\ lock = Free /\ lock' = t
  BY DEF Acquire
<1> HIDE DEF new
<1>4. LockInv'
  <2>1. th'[t] = new /\ \A u \in Thread \ {t} : th'[u] = th[u]
    BY <1>1, <1>3, SetCall DEF BusInv
  <2> QED BY <2>1, <1>2, <1>3 DEF BusInv, LockInv, Holding
<1>5. KnownInv'
  BY <1>1, <1>2, <1>3, KnownStays DEF Acquire
<1>6. TypeOK'
  BY <1>1, <1>3, SetCall DEF BusInv, TypeOK, Acquire
<1> QED BY <1>4, <1>5, <1>6 DEF BusInv

LEMMA OneHolder ==
    ASSUME BusInv, NEW t \in Thread, lock = t, NEW u \in Thread, th[u].at \in Holding
    PROVE  u = t
BY DEF BusInv, LockInv

LEMMA ResetInputKeeps ==
    ASSUME BusInv, NEW t \in Thread, ResetInput(t)
    PROVE  BusInv'
<1>1. CASE ~port
  BY <1>1, FailKeeps DEF ResetInput
<1>2. CASE port
  <2> DEFINE new == [th[t] EXCEPT !.at = "write", !.known = Come]
  <2>0. Come \subseteq 1..sent /\ Come \in SUBSET Nat
    BY DEF Come, BusInv, TypeOK
  <2>1. new \in CallRecords
    BY <2>0, CallOfThread, EnteringIsACall DEF Holding
  <2>2. new.at = "write" /\ new.request = th[t].request /\ new.buf = th[t].buf /\ new.known = Come
    BY CallOfThread DEF CallRecords
  <2>3. Set(t, new) /\ th[t].at = "reset" /\ lock' = lock /\ input' = <<>>
    BY <1>2 DEF ResetInput
  <2> HIDE DEF new
  <2>4. LockInv'
    BY <2>1, <2>2, <2>3, LockStays, CallOfThread DEF Holding
  <2>5. th'[t] = new /\ \A u \in Thread \ {t} : th'[u] = th[u]
    BY <2>1, <2>3, SetCall DEF BusInv
  <2>6. lock = t /\ th[t].buf = <<>>
    BY <2>3, CallOfThread DEF Holding
  <2>7. Tags(<<>>) = {}
    BY EmptySeq DEF Tags
  <2>8. KnownInv'
    <3>1. \A r \in Come : (\A i \in 1..Len(asked) : asked[i] # r) /\ r \notin Tags(wire)
      BY DEF Come, Tags
    <3>2. ASSUME NEW u \in Thread
          PROVE  /\ th'[u].known \subseteq 1..sent
                 /\ th'[u].at \in {"write", "poll", "scan"} => u = t
      <4>1. CASE u = t
        BY <4>1, <2>0, <2>2, <2>5
      <4>2. CASE u # t
        BY <4>2, <2>5, <2>6, OneHolder DEF BusInv, KnownInv, Holding
      <4> QED BY <4>1, <4>2
    <3>3. UNCHANGED <<sent, asked, wire>>
      BY DEF ResetInput
    <3> QED BY <3>1, <3>2, <3>3, <2>2, <2>3, <2>5, <2>6, <2>7 DEF KnownInv
  <2>9. TypeOK'
    <3>1. <<>> \in Seq(ByteRecords)
      BY EmptySeq
    <3> QED BY <3>1, <2>1, <2>3, SetCall DEF BusInv, TypeOK, ResetInput
  <2> QED BY <2>4, <2>8, <2>9 DEF BusInv
<1> QED BY <1>1, <1>2

(* A new request is none of those that were known. *)
LEMMA AskKeeps ==
    ASSUME BusInv, NEW t \in Thread, lock = t, th[t].at = "write", NEW new \in CallRecords, Set(t, new),
           new.known \subseteq th[t].known, new.buf = <<>>,
           sent' = sent + 1, asked' = asked \/ asked' = Append(asked, sent + 1),
           UNCHANGED <<wire, input>>
    PROVE  KnownInv'
<1>1. th'[t] = new /\ \A u \in Thread \ {t} : th'[u] = th[u]
  BY SetCall DEF BusInv
<1>2. sent \in Nat /\ asked \in Seq(Nat)
  BY DEF BusInv, TypeOK
<1>3. \A i \in 1..Len(asked') : asked'[i] = sent + 1 \/ \E j \in 1..Len(asked) : asked'[i] = asked[j]
  <2>1. CASE asked' = asked
    BY <2>1
  <2>2. CASE asked' = Append(asked, sent + 1)
    <3>1. /\ Len(asked') = Len(asked) + 1 /\ Len(asked) \in Nat
          /\ \A i \in 1..Len(asked) : asked'[i] = asked[i]
          /\ asked'[Len(asked) + 1] = sent + 1
      BY <1>2, <2>2, AppendProperties, LenProperties
    <3>2. ASSUME NEW i \in 1..Len(asked') PROVE i = Len(asked) + 1 \/ i \in 1..Len(asked)
      BY <3>1
    <3> QED BY <3>1, <3>2
  <2> QED BY <2>1, <2>2
<1>4. th[t].known \subseteq 1..sent
  BY DEF BusInv, KnownInv
<1>5. ASSUME NEW u \in Thread
      PROVE  /\ th'[u].known \subseteq 1..sent'
             /\ th'[u].at \in {"write", "poll", "scan"} => u = t
  <2>1. CASE u = t
    BY <2>1, <1>1, <1>2, <1>4
  <2>2. CASE u # t
    <3>1. th'[u] = th[u] /\ th[u].known \subseteq 1..sent /\ 1..sent \subseteq 1..sent'
      BY <2>2, <1>1, <1>2 DEF BusInv, KnownInv
    <3>2. th[u].at \notin {"write", "poll", "scan"}
      BY <2>2, OneHolder DEF Holding
    <3> QED BY <3>1, <3>2
  <2> QED BY <2>1, <2>2
<1>6. ASSUME NEW r \in new.known
      PROVE  /\ \A i \in 1..Len(asked') : asked'[i] # r
             /\ r \notin Tags(wire) /\ r \notin Tags(input) /\ r \notin Tags(<<>>)
  <2>1. r \in 1..sent /\ r # sent + 1
    BY <1>2, <1>4
  <2>2. (\A j \in 1..Len(asked) : asked[j] # r) /\ r \notin Tags(wire) /\ r \notin Tags(input)
    BY DEF BusInv, KnownInv
  <2>3. Tags(<<>>) = {}
    BY EmptySeq DEF Tags
  <2> QED BY <2>1, <2>2, <2>3, <1>3
<1> QED BY <1>1, <1>5, <1>6 DEF KnownInv

LEMMA WriteKeeps ==
    ASSUME BusInv, NEW t \in Thread, Write(t)
    PROVE  BusInv'
<1>1. th[t].at = "write" /\ lock = t /\ th[t].buf = <<>> /\ sent \in Nat /\ sent + 1 \in Nat
      /\ asked \in Seq(Nat) /\ Append(asked, sent + 1) \in Seq(Nat)
  <2>1. th[t].at = "write" /\ lock = t /\ th[t].buf = <<>>
    BY CallOfThread DEF Write, Holding
  <2>2. sent \in Nat /\ sent + 1 \in Nat /\ asked \in Seq(Nat)
    BY DEF BusInv, TypeOK
  <2>3. Append(asked, sent + 1) \in Seq(Nat)
    BY <2>2, AppendProperties
  <2> QED BY <2>1, <2>2, <2>3
<1>2. ASSUME Fail(t), UNCHANGED <<sent, asked>> PROVE BusInv'
  BY <1>2, FailKeeps DEF Write
<1>3. ASSUME NEW new \in CallRecords, Set(t, new), new.buf = <<>>, new.known \subseteq th[t].known,
             sent' = sent + 1, asked' = asked \/ asked' = Append(asked, sent + 1),
             LockInv', lock' \in Thread \cup {Free}
      PROVE  BusInv'
  <2>1. UNCHANGED <<port, wire, input, calls, prints, opens>>
    BY DEF Write
  <2>2. KnownInv'
    BY <1>1, <1>3, <2>1, AskKeeps
  <2>3. TypeOK'
    BY <1>1, <1>3, <2>1, SetCall DEF BusInv, TypeOK
  <2> QED BY <1>3, <2>2, <2>3 DEF BusInv
<1>4. ASSUME Set(t, [th[t] EXCEPT !.at = "poll", !.request = sent + 1]), lock' = lock,
             sent' = sent + 1, asked' = asked \/ asked' = Append(asked, sent + 1)
      PROVE  BusInv'
  <2> DEFINE new == [th[t] EXCEPT !.at = "poll", !.request = sent + 1]
  <2>1. new \in CallRecords
    BY <1>1, CallOfThread, EnteringIsACall DEF Holding
  <2>2. new.at = "poll" /\ new.buf = <<>> /\ new.known = th[t].known
    BY <1>1, CallOfThread DEF CallRecords
  <2>3. Set(t, new)
    BY <1>4
  <2> HIDE DEF new
  <2>4. LockInv'
    BY <1>1, <1>4, <2>1, <2>2, <2>3, LockStays DEF Holding
  <2> QED BY <1>3, <1>4, <2>1, <2>2, <2>3, <2>4 DEF BusInv, TypeOK
<1>5. ASSUME NEW at \in {"done", "raised"}, Set(t, Idle(at)), lock' = Free,
             sent' = sent + 1, asked' = asked \/ asked' = Append(asked, sent + 1)
      PROVE  BusInv'
  <2> DEFINE new == Idle(at)
  <2>1. new \in CallRecords /\ Set(t, new)
    BY <1>5, IdleIsACall DEF Ended
  <2>2. new.at = at /\ new.request = 0 /\ new.buf = <<>> /\ new.known = {}
    BY DEF Idle
  <2> HIDE DEF new
  <2>3. LockInv' /\ lock' \in Thread \cup {Free}
    BY <1>1, <1>5, <2>1, <2>2, LockGiven DEF Holding
  <2> QED BY <1>3, <1>5, <2>1, <2>2, <2>3
<1> QED BY <1>2, <1>4, <1>5 DEF Write, Done

LEMMA PollKeeps ==
    ASSUME BusInv, NEW t \in Thread, Poll(t)
    PROVE  BusInv'
<1>1. CASE ~port
  BY <1>1, FailKeeps DEF Poll
<1>2. CASE port
  <2> DEFINE new == [th[t] EXCEPT !.at = "scan", !.buf = @ \o input, !.heard = @ \o input]
  <2>1. input \in Seq(ByteRecords) /\ th[t].buf \in Seq(ByteRecords) /\ th[t].heard \in Seq(ByteRecords)
    BY CallOfThread DEF BusInv, TypeOK
  <2>2. /\ th[t].buf \o input \in Seq(ByteRecords) /\ th[t].heard \o input \in Seq(ByteRecords)
        /\ Tags(th[t].buf \o input) \subseteq Tags(th[t].buf) \cup Tags(input)
    BY <2>1, TagsOfConcat
  <2>3. new = [th[t] EXCEPT !.at = "scan", !.buf = th[t].buf \o input, !.heard = th[t].heard \o input]
    OBVIOUS
  <2>4. new \in CallRecords
    BY <2>2, <2>3, CallOfThread, BufferIsACall
  <2>5. /\ new.at = "scan" /\ new.request = th[t].request /\ new.buf = th[t].buf \o input
        /\ new.known = th[t].known
    BY CallOfThread DEF CallRecords
  <2>6. Set(t, new) /\ th[t].at = "poll" /\ lock' = lock /\ input' = <<>>
    BY <1>2 DEF Poll
  <2> HIDE DEF new
  <2>7. LockInv'
    BY <2>4, <2>5, <2>6, LockStays DEF Holding
  <2>8. Tags(<<>>) = {} /\ <<>> \in Seq(ByteRecords)
    BY EmptySeq DEF Tags
  <2>9. KnownInv'
    BY <2>2, <2>4, <2>5, <2>6, <2>8, KnownStays DEF Poll
  <2>10. TypeOK'
    BY <2>4, <2>6, <2>8, SetCall DEF BusInv, TypeOK, Poll
  <2> QED BY <2>7, <2>9, <2>10 DEF BusInv
<1> QED BY <1>1, <1>2

LEMMA AttemptOverKeeps ==
    ASSUME BusInv, NEW t \in Thread, th[t].at \in {"poll", "scan"}, AttemptOver(t),
           UNCHANGED <<port, sent, asked, wire, input, calls, prints, opens>>
    PROVE  BusInv' /\ th'[t].at # "done"
<1> DEFINE again == [Idle("pause") EXCEPT !.reads = TRUE, !.attempt = th[t].attempt]
<1>1. PICK new \in {again, Idle("raised")} : Set(t, new)
  BY DEF AttemptOver
<1>2. again \in CallRecords /\ Idle("raised") \in CallRecords
  <2>1. Idle("pause") \in CallRecords /\ Idle("raised") \in CallRecords
    BY IdleIsACall DEF Ended
  <2>2. th[t].attempt \in Nat
    BY CallOfThread
  <2>3. again \in CallRecords
    BY <2>1, <2>2, EnteringIsACall DEF Holding
  <2> QED BY <2>1, <2>3
<1>3. new \in CallRecords /\ new.at \in {"pause", "raised"} /\ new.request = 0 /\ new.buf = <<>> /\ new.known = {}
  <2>1. CASE new = again
    <3>1. /\ again.at = "pause" /\ again.request = 0 /\ again.buf = <<>> /\ again.known = {}
      BY DEF Idle
    <3> HIDE DEF again
    <3> QED BY <1>2, <2>1, <3>1
  <2>2. CASE new = Idle("raised")
    <3>1. /\ Idle("raised").at = "raised" /\ Idle("raised").request = 0 /\ Idle("raised").buf = <<>>
          /\ Idle("raised").known = {}
      BY DEF Idle
    <3> QED BY <1>2, <2>2, <3>1
  <2> QED BY <1>1, <2>1, <2>2
<1>4. lock = t /\ lock' = IF lock = t THEN Free ELSE lock
  BY CallOfThread DEF AttemptOver, Holding
<1> HIDE DEF again
<1>5. LockInv' /\ lock' \in Thread \cup {Free}
  BY <1>1, <1>3, <1>4, LockGiven DEF Holding
<1>6. KnownInv'
  BY <1>1, <1>3, KnownStays
<1>7. TypeOK' /\ th'[t] = new
  BY <1>1, <1>3, <1>5, SetCall DEF BusInv, TypeOK
<1> QED BY <1>3, <1>5, <1>6, <1>7 DEF BusInv

LEMMA DeadlineKeeps ==
    ASSUME BusInv, NEW t \in Thread, Deadline(t)
    PROVE  BusInv'
BY AttemptOverKeeps DEF Deadline

LEMMA RetryKeeps ==
    ASSUME BusInv, NEW t \in Thread, Retry(t)
    PROVE  BusInv'
<1> DEFINE new == [th[t] EXCEPT !.at = "check", !.attempt = th[t].attempt + 1]
<1>1. new \in CallRecords
  <2>1. th[t] \in CallRecords /\ th[t].attempt + 1 \in Nat
    BY CallOfThread
  <2> QED BY <2>1, EnteringIsACall
<1>2. new.at = "check" /\ new.request = th[t].request /\ new.buf = th[t].buf /\ new.known = th[t].known
  BY CallOfThread DEF CallRecords
<1>3. Set(t, new) /\ th[t].at = "pause" /\ lock' = lock
  BY DEF Retry
<1> HIDE DEF new
<1>4. LockInv'
  BY <1>1, <1>2, <1>3, LockStays, CallOfThread DEF Holding
<1>5. KnownInv'
  BY <1>1, <1>2, <1>3, KnownStays DEF Retry
<1>6. TypeOK'
  BY <1>1, <1>3, SetCall DEF BusInv, TypeOK, Retry
<1> QED BY <1>4, <1>5, <1>6 DEF BusInv

(* What is kept of the buffer was in it. *)
LEMMA KeepBufKeeps ==
    ASSUME BusInv, NEW t \in Thread, th[t].at = "scan", NEW at \in {"poll", "scan"},
           NEW buf \in Seq(ByteRecords), Tags(buf) \subseteq Tags(th[t].buf), NEW split \in BOOLEAN,
           \/ Set(t, [th[t] EXCEPT !.at = at, !.buf = buf])
           \/ Set(t, [th[t] EXCEPT !.at = at, !.buf = buf, !.split = split]),
           lock' = lock, UNCHANGED <<port, sent, asked, wire, input, calls, prints, opens>>
    PROVE  BusInv'
<1>1. PICK new \in {[th[t] EXCEPT !.at = at, !.buf = buf], [th[t] EXCEPT !.at = at, !.buf = buf, !.split = split]} :
         Set(t, new)
  OBVIOUS
<1>2. new \in CallRecords
  <2>1. th[t].heard \in Seq(ByteRecords) /\ th[t] \in CallRecords
    BY CallOfThread
  <2>2. [th[t] EXCEPT !.at = at, !.buf = buf] \in CallRecords
    BY <2>1, BufferIsACall
  <2>3. [th[t] EXCEPT !.at = at, !.buf = buf, !.split = split] \in CallRecords
    BY <2>1, BufferIsACall
  <2> QED BY <1>1, <2>2, <2>3
<1>3. new.at = at /\ new.request = th[t].request /\ new.buf = buf /\ new.known = th[t].known
  BY CallOfThread DEF CallRecords
<1>4. LockInv'
  BY <1>1, <1>2, <1>3, LockStays DEF Holding
<1>5. KnownInv'
  BY <1>1, <1>2, <1>3, KnownStays
<1>6. TypeOK'
  BY <1>1, <1>2, SetCall DEF BusInv, TypeOK
<1> QED BY <1>4, <1>5, <1>6 DEF BusInv

(* Scan, split into what can come of it. *)
LEMMA ScanCases ==
    ASSUME BusInv, NEW t \in Thread, Scan(t)
    PROVE  \/ /\ lock' = lock
              /\ \E at \in {"poll", "scan"}, buf \in Seq(ByteRecords), split \in BOOLEAN :
                   /\ Tags(buf) \subseteq Tags(th[t].buf)
                   /\ \/ Set(t, [th[t] EXCEPT !.at = at, !.buf = buf])
                      \/ Set(t, [th[t] EXCEPT !.at = at, !.buf = buf, !.split = split])
           \/ AttemptOver(t)
           \/ /\ Done(t)
              /\ Returned(t) \subseteq Tags(th[t].buf)
<1> DEFINE Goal(buf) == buf \in Seq(ByteRecords) /\ Tags(buf) \subseteq Tags(th[t].buf)
<1>1. th[t].buf \in Seq(ByteRecords) /\ Len(th[t].buf) \in Nat
  BY CallOfThread, LenProperties
<1>2. Goal(th[t].buf) /\ Goal(<<>>)
  BY <1>1, EmptySeq DEF Tags
<1>3. ASSUME NEW at \in {"poll", "scan"}, NEW buf, KeepBuf(t, at, buf), Goal(buf)
      PROVE  /\ lock' = lock
             /\ \E at2 \in {"poll", "scan"}, buf2 \in Seq(ByteRecords), split \in BOOLEAN :
                  /\ Tags(buf2) \subseteq Tags(th[t].buf)
                  /\ \/ Set(t, [th[t] EXCEPT !.at = at2, !.buf = buf2])
                     \/ Set(t, [th[t] EXCEPT !.at = at2, !.buf = buf2, !.split = split])
  BY <1>3 DEF KeepBuf
<1>4. CASE KeepBuf(t, "poll", th[t].buf)
  BY <1>2, <1>3, <1>4
<1>5. CASE /\ Set(t, [th[t] EXCEPT !.at = "poll", !.buf = <<>>,
                                    !.split = @ \/ th[t].buf[Len(th[t].buf)].byte = Header])
           /\ lock' = lock
  <2>1. PICK split \in BOOLEAN : split = (th[t].split \/ th[t].buf[Len(th[t].buf)].byte = Header)
    OBVIOUS
  <2>2. Set(t, [th[t] EXCEPT !.at = "poll", !.buf = <<>>, !.split = split])
    BY <1>5, <2>1
  <2> QED BY <1>2, <1>5, <2>2
<1>6. ASSUME NEW i \in HeadersIn(th[t].buf), \A j \in HeadersIn(th[t].buf) : i <= j,
             Len(th[t].buf) >= 6, ScanAt(t, From(th[t].buf, i))
      PROVE  \/ /\ lock' = lock
                /\ \E at \in {"poll", "scan"}, buf \in Seq(ByteRecords), split \in BOOLEAN :
                     /\ Tags(buf) \subseteq Tags(th[t].buf)
                     /\ \/ Set(t, [th[t] EXCEPT !.at = at, !.buf = buf])
                        \/ Set(t, [th[t] EXCEPT !.at = at, !.buf = buf, !.split = split])
             \/ AttemptOver(t)
             \/ /\ Done(t)
                /\ Returned(t) \subseteq Tags(th[t].buf)
  <2> DEFINE rest == From(th[t].buf, i)
             total == 4 + rest[4].byte
  <2>1. i \in 1..(Len(th[t].buf) - 1) /\ i \in Nat \ {0}
    BY <1>1 DEF HeadersIn
  <2>2. Goal(rest) /\ Len(rest) = Len(th[t].buf) - i + 1
    <3>1. \A k \in i..Len(th[t].buf) : th[t].buf[k] \in ByteRecords
      BY <1>1, <2>1, ElementOfSeq
    <3>2. Len(rest) = Len(th[t].buf) - i + 1
      BY <1>1, <2>1, <3>1, SubSeqProperties DEF From
    <3> QED BY <1>1, <2>1, <3>2, TagsOfFrom
  <2>3. CASE KeepBuf(t, "poll", rest)
    BY <1>3, <2>2, <2>3
  <2>4. rest \in Seq(ByteRecords) /\ Len(rest) \in Nat
    BY <2>2, LenProperties
  <2>5. ASSUME ~(Len(rest) < 4) PROVE total \in Nat /\ total >= 4
    <3> HIDE DEF rest
    <3>1. rest[4] \in ByteRecords
      BY <2>4, <2>5, ElementOfSeq
    <3>2. rest[4].byte \in 0..15
      BY <3>1 DEF ByteRecords
    <3> QED BY <3>2
  <2>6. CASE ~(Len(rest) < 4) /\ ~(Len(rest) < total) /\ Parse(t, rest, total)
    <3>1. total \in 4..Len(rest)
      <4> HIDE DEF total, rest
      <4> QED BY <2>4, <2>5, <2>6
    <3>2. Goal(From(rest, 3)) /\ Goal(From(rest, total + 1))
      <4> HIDE DEF total, rest
      <4>1. total + 1 \in Nat \ {0} /\ 3 \in Nat \ {0}
        BY <3>1
      <4>2. From(rest, 3) \in Seq(ByteRecords) /\ Tags(From(rest, 3)) \subseteq Tags(rest)
        BY <2>4, <4>1, TagsOfFrom
      <4>3. From(rest, total + 1) \in Seq(ByteRecords) /\ Tags(From(rest, total + 1)) \subseteq Tags(rest)
        BY <2>4, <4>1, TagsOfFrom
      <4> QED BY <2>2, <4>2, <4>3
    <3>3. ASSUME ParseFrame(SubSeq(rest, 1, total)), Done(t)
          PROVE  Returned(t) \subseteq Tags(th[t].buf)
      <4>1. Len(SubSeq(rest, 1, total)) = total
        <5> HIDE DEF total, rest
        <5>1. \A k \in 1..total : rest[k] \in ByteRecords
          BY <2>4, <3>1, ElementOfSeq
        <5>2. total \in Int /\ 1 <= total
          BY <3>1
        <5> QED BY <5>1, <5>2, SubSeqProperties
      <4>2. Len(SubSeq(rest, 1, total)) >= 6
        BY <3>3 DEF ParseFrame
      <4>3. i + 5 \in 1..Len(th[t].buf)
        <5> HIDE DEF total, rest
        <5> QED BY <1>1, <2>1, <2>2, <3>1, <4>1, <4>2
      <4>4. ASSUME NEW k \in HeadersIn(th[t].buf), \A j \in HeadersIn(th[t].buf) : k <= j PROVE k = i
        <5>1. k <= i /\ i <= k
          BY <1>6, <4>4
        <5>2. k \in Int /\ i \in Int
          BY <1>1 DEF HeadersIn
        <5> QED BY <5>1, <5>2
      <4> QED BY <4>3, <4>4 DEF Returned, Tags
    <3>4. \/ KeepBuf(t, "scan", From(rest, 3))
          \/ KeepBuf(t, "scan", From(rest, total + 1))
          \/ AttemptOver(t)
          \/ ParseFrame(SubSeq(rest, 1, total)) /\ Done(t)
      BY <2>6 DEF Parse
    <3> QED BY <1>3, <3>2, <3>3, <3>4
  <2>7. \/ KeepBuf(t, "poll", rest)
        \/ ~(Len(rest) < 4) /\ ~(Len(rest) < total) /\ Parse(t, rest, total)
    BY <1>6 DEF ScanAt
  <2> QED BY <2>3, <2>6, <2>7
<1> QED BY <1>4, <1>5, <1>6 DEF Scan

LEMMA ScanKeeps ==
    ASSUME BusInv, NEW t \in Thread, Scan(t)
    PROVE  BusInv'
<1>1. th[t].at = "scan" /\ lock = t /\ UNCHANGED <<port, sent, asked, wire, input, calls, prints, opens>>
  BY CallOfThread DEF Scan, Holding
<1>2. CASE Done(t)
  BY <1>1, <1>2, DoneKeeps
<1>3. ASSUME lock' = lock, NEW at \in {"poll", "scan"}, NEW buf \in Seq(ByteRecords), NEW split \in BOOLEAN,
             Tags(buf) \subseteq Tags(th[t].buf),
             \/ Set(t, [th[t] EXCEPT !.at = at, !.buf = buf])
             \/ Set(t, [th[t] EXCEPT !.at = at, !.buf = buf, !.split = split])
      PROVE  BusInv'
  BY <1>1, <1>3, KeepBufKeeps
<1>4. CASE AttemptOver(t)
  BY <1>1, <1>4, AttemptOverKeeps
<1> QED BY <1>2, <1>3, <1>4, ScanCases

-----------------------------------------------------------------------------
(* The line: what is on it, or still asked for, only moves on.             *)
LEMMA LineKeeps ==
    ASSUME BusInv, UNCHANGED <<lock, th, sent>>,
           port' \in BOOLEAN, prints' \in Nat, opens' \in Nat, calls' = calls,
           asked' \in Seq(Nat), wire' \in Seq(ByteRecords), input' \in Seq(ByteRecords),
           \A i \in 1..Len(asked') : \E j \in 1..Len(asked) : asked'[i] = asked[j],
           \A r \in Tags(wire') \ {0} : r \in Tags(wire) \/ \E j \in 1..Len(asked) : asked[j] = r,
           Tags(input') \subseteq Tags(wire) \cup Tags(input)
    PROVE  BusInv'
<1>1. TypeOK'
  BY DEF BusInv, TypeOK
<1>2. LockInv'
  BY DEF BusInv, LockInv
<1>3. ASSUME NEW u \in Thread, th[u].at \in {"write", "poll", "scan"}, NEW r \in th[u].known
      PROVE  /\ \A i \in 1..Len(asked') : asked'[i] # r
             /\ r \notin Tags(wire') /\ r \notin Tags(input') /\ r \notin Tags(th[u].buf)
  <2>1. r # 0
    BY DEF BusInv, KnownInv, TypeOK
  <2>2. /\ \A i \in 1..Len(asked) : asked[i] # r
        /\ r \notin Tags(wire) /\ r \notin Tags(input) /\ r \notin Tags(th[u].buf)
    BY <1>3 DEF BusInv, KnownInv
  <2> QED BY <2>1, <2>2
<1>4. KnownInv'
  BY <1>3 DEF BusInv, KnownInv
<1> QED BY <1>1, <1>2, <1>4 DEF BusInv

LEMMA OpenKeeps ==
    ASSUME BusInv, Connect \/ Disconnect
    PROVE  BusInv'
<1>1. <<>> \in Seq(ByteRecords) /\ Tags(<<>>) = {}
  BY EmptySeq DEF Tags
<1>2. /\ UNCHANGED <<lock, th, sent, asked, wire, calls, prints>> /\ input' = <<>>
      /\ port' \in BOOLEAN /\ opens' \in Nat
  <2>1. opens \in Nat
    BY DEF BusInv, TypeOK
  <2>2. CASE Connect
    BY <2>1, <2>2 DEF Connect
  <2>3. CASE Disconnect
    BY <2>1, <2>3 DEF Disconnect
  <2> QED BY <2>2, <2>3
<1>3. /\ asked \in Seq(Nat) /\ wire \in Seq(ByteRecords) /\ prints \in Nat
  BY DEF BusInv, TypeOK
<1> QED BY <1>1, <1>2, <1>3, LineKeeps

LEMMA TailOfAsked ==
    ASSUME BusInv, asked # <<>>, asked' = Tail(asked)
    PROVE  /\ asked' \in Seq(Nat)
           /\ \A i \in 1..Len(asked') : \E j \in 1..Len(asked) : asked'[i] = asked[j]
           /\ Head(asked) \in Nat
           /\ \E j \in 1..Len(asked) : asked[j] = Head(asked)
<1>1. asked \in Seq(Nat) /\ Len(asked) \in Nat \ {0}
  BY EmptySeq DEF BusInv, TypeOK
<1>2. /\ Head(asked) \in Nat /\ Tail(asked) \in Seq(Nat)
      /\ Len(Tail(asked)) = Len(asked) - 1
      /\ \A i \in 1..Len(Tail(asked)) : Tail(asked)[i] = asked[i + 1]
  BY <1>1, HeadTailProperties
<1>3. \A i \in 1..Len(asked') : i + 1 \in 1..Len(asked)
  BY <1>1, <1>2
<1>4. Head(asked) = asked[1] /\ 1 \in 1..Len(asked)
  BY <1>1
<1> QED BY <1>2, <1>3, <1>4

LEMMA NoiseIsAByte ==
    /\ <<ByteOf(Noise, 0)>> \in Seq(ByteRecords)
    /\ Tags(<<ByteOf(Noise, 0)>>) \subseteq {0}
<1>1. ByteOf(Noise, 0) \in ByteRecords /\ ByteOf(Noise, 0).of = 0
  BY DEF ByteOf, ByteRecords
<1> QED BY <1>1 DEF Tags

LEMMA AnswerKeeps ==
    ASSUME BusInv, Answer
    PROVE  BusInv'
<1>1. /\ asked # <<>> /\ asked' = Tail(asked)
      /\ UNCHANGED <<port, lock, th, sent, input, calls, opens>>
  BY DEF Answer
<1>2. PICK reply \in Replies(Head(asked)) :
         \/ Say(reply) /\ UNCHANGED prints
         \/ /\ prints' = prints + 1
            /\ \E k \in 1..6 : Say(SubSeq(reply, 1, k) \o <<ByteOf(Noise, 0)>> \o From(reply, k + 1))
  BY DEF Answer
<1>3. reply \in Seq(ByteRecords) /\ Len(reply) = 7 /\ Tags(reply) \subseteq {Head(asked)}
  BY <1>1, TailOfAsked, TagsOfReply
<1>4. ASSUME NEW k \in 1..6
      PROVE  LET said == SubSeq(reply, 1, k) \o <<ByteOf(Noise, 0)>> \o From(reply, k + 1) IN
             said \in Seq(ByteRecords) /\ Tags(said) \subseteq {Head(asked), 0}
  <2> DEFINE first == SubSeq(reply, 1, k)
             noise == <<ByteOf(Noise, 0)>>
             second == From(reply, k + 1)
  <2>1. first \in Seq(ByteRecords) /\ Tags(first) \subseteq Tags(reply)
    <3>1. reply \in Seq(ByteRecords) /\ k \in Int /\ k <= Len(reply) /\ 1 \in Nat \ {0}
      BY <1>3
    <3>2. SubSeq(reply, 1, k) \in Seq(ByteRecords) /\ Tags(SubSeq(reply, 1, k)) \subseteq Tags(reply)
      BY <3>1, TagsOfSubSeq
    <3> QED BY <3>2
  <2>2. second \in Seq(ByteRecords) /\ Tags(second) \subseteq Tags(reply)
    BY <1>3, TagsOfFrom
  <2>3. noise \in Seq(ByteRecords) /\ Tags(noise) \subseteq {0}
    BY NoiseIsAByte
  <2> HIDE DEF first, noise, second
  <2>4. first \o noise \in Seq(ByteRecords) /\ Tags(first \o noise) \subseteq Tags(first) \cup Tags(noise)
    BY <2>1, <2>3, TagsOfConcat
  <2>5. /\ (first \o noise) \o second \in Seq(ByteRecords)
        /\ Tags((first \o noise) \o second) \subseteq Tags(first \o noise) \cup Tags(second)
    BY <2>2, <2>4, TagsOfConcat
  <2>6. (first \o noise) \o second \in Seq(ByteRecords) /\ Tags((first \o noise) \o second) \subseteq {Head(asked), 0}
    BY <1>3, <2>1, <2>2, <2>3, <2>4, <2>5
  <2> QED BY <2>6 DEF first, noise, second
<1>5. /\ wire' \in Seq(ByteRecords) /\ Tags(wire') \subseteq {Head(asked), 0}
      /\ prints' \in Nat
  <2>1. CASE Say(reply) /\ UNCHANGED prints
    BY <1>3, <2>1 DEF Say, BusInv, TypeOK
  <2>2. CASE /\ prints' = prints + 1
             /\ \E k \in 1..6 : Say(SubSeq(reply, 1, k) \o <<ByteOf(Noise, 0)>> \o From(reply, k + 1))
    <3>1. PICK k \in 1..6 : wire' = SubSeq(reply, 1, k) \o <<ByteOf(Noise, 0)>> \o From(reply, k + 1)
      BY <2>2 DEF Say
    <3>2. prints' \in Nat
      BY <2>2 DEF BusInv, TypeOK
    <3> QED BY <1>4, <3>1, <3>2
  <2> QED BY <1>2, <2>1, <2>2
<1>6. input \in Seq(ByteRecords) /\ opens \in Nat /\ port \in BOOLEAN
  BY DEF BusInv, TypeOK
<1> QED BY <1>1, <1>5, <1>6, TailOfAsked, LineKeeps

LEMMA IgnoreKeeps ==
    ASSUME BusInv, Ignore
    PROVE  BusInv'
<1>1. /\ asked # <<>> /\ asked' = Tail(asked)
      /\ UNCHANGED <<port, lock, th, sent, wire, input, calls, prints, opens>>
  BY DEF Ignore
<1>2. /\ input \in Seq(ByteRecords) /\ wire \in Seq(ByteRecords) /\ opens \in Nat /\ prints \in Nat
      /\ port \in BOOLEAN
  BY DEF BusInv, TypeOK
<1> QED BY <1>1, <1>2, TailOfAsked, LineKeeps

LEMMA PrintOutKeeps ==
    ASSUME BusInv, PrintOut
    PROVE  BusInv'
<1>1. /\ UNCHANGED <<port, lock, th, sent, asked, input, calls, opens>>
      /\ wire' = <<ByteOf(Noise, 0)>> /\ prints' = prints + 1
  BY DEF PrintOut, Say
<1>2. /\ input \in Seq(ByteRecords) /\ asked \in Seq(Nat) /\ opens \in Nat /\ prints' \in Nat
      /\ port \in BOOLEAN
  BY <1>1 DEF BusInv, TypeOK
<1>3. wire' \in Seq(ByteRecords) /\ Tags(wire') \subseteq {0}
  BY <1>1, NoiseIsAByte
<1> QED BY <1>1, <1>2, <1>3, LineKeeps

LEMMA ArriveKeeps ==
    ASSUME BusInv, Arrive
    PROVE  BusInv'
<1>1. PICK n \in 1..Len(wire) :
         /\ input' = IF port THEN input \o SubSeq(wire, 1, n) ELSE input
         /\ wire' = From(wire, n + 1)
  BY DEF Arrive
<1>2. UNCHANGED <<port, lock, th, sent, asked, calls, prints, opens>>
  BY DEF Arrive
<1>3. /\ wire \in Seq(ByteRecords) /\ input \in Seq(ByteRecords) /\ asked \in Seq(Nat)
      /\ opens \in Nat /\ prints \in Nat /\ port \in BOOLEAN /\ Len(wire) \in Nat
  BY LenProperties DEF BusInv, TypeOK
<1>4. wire' \in Seq(ByteRecords) /\ Tags(wire') \subseteq Tags(wire)
  BY <1>1, <1>3, TagsOfFrom
<1>5. SubSeq(wire, 1, n) \in Seq(ByteRecords) /\ Tags(SubSeq(wire, 1, n)) \subseteq Tags(wire)
  BY <1>1, <1>3, TagsOfSubSeq
<1>6. input' \in Seq(ByteRecords) /\ Tags(input') \subseteq Tags(wire) \cup Tags(input)
  <2>1. CASE port
    <3> DEFINE some == SubSeq(wire, 1, n)
    <3>1. input' = input \o some
      BY <1>1, <2>1
    <3>2. some \in Seq(ByteRecords) /\ Tags(some) \subseteq Tags(wire)
      BY <1>5
    <3> HIDE DEF some
    <3>3. input \o some \in Seq(ByteRecords) /\ Tags(input \o some) \subseteq Tags(input) \cup Tags(some)
      BY <1>3, <3>2, TagsOfConcat
    <3> QED BY <3>1, <3>2, <3>3
  <2>2. CASE ~port
    BY <1>1, <1>3, <2>2
  <2> QED BY <2>1, <2>2
<1> QED BY <1>2, <1>3, <1>4, <1>6, LineKeeps

-----------------------------------------------------------------------------
LEMMA InitHolds == Init => BusInv
<1> SUFFICES ASSUME Init PROVE BusInv
  OBVIOUS
<1>1. <<>> \in Seq(ByteRecords) /\ <<>> \in Seq(Nat) /\ Tags(<<>>) = {}
  BY EmptySeq DEF Tags
<1>2. Idle("idle") \in CallRecords
  BY IdleIsACall DEF Ended
<1>3. \A t \in Thread : th[t] = Idle("idle")
  BY DEF Init
<1>4. /\ Idle("idle").at = "idle" /\ Idle("idle").request = 0 /\ Idle("idle").buf = <<>>
      /\ Idle("idle").known = {}
  BY DEF Idle
<1>5. TypeOK
  BY <1>1, <1>2 DEF Init, TypeOK
<1>6. LockInv
  BY <1>3, <1>4 DEF Init, LockInv, Holding
<1>7. KnownInv
  BY <1>3, <1>4 DEF KnownInv
<1> QED BY <1>5, <1>6, <1>7 DEF BusInv

LEMMA NextKeeps == BusInv /\ [Next]_vars => BusInv'
<1> SUFFICES ASSUME BusInv, [Next]_vars PROVE BusInv'
  OBVIOUS
<1>1. ASSUME NEW t \in Thread, Call(t) \/ Work(t) PROVE BusInv'
  BY <1>1, CallKeeps, CheckKeeps, AcquireKeeps, ResetInputKeeps, WriteKeeps, PollKeeps, DeadlineKeeps,
     RetryKeeps, ScanKeeps DEF Work
<1>2. CASE Connect \/ Disconnect
  BY <1>2, OpenKeeps
<1>3. CASE Arm
  BY <1>3, AnswerKeeps, IgnoreKeeps, PrintOutKeeps, ArriveKeeps DEF Arm
<1>4. CASE UNCHANGED vars
  BY <1>4 DEF vars, BusInv, TypeOK, LockInv, KnownInv, Tags
<1> QED BY <1>1, <1>2, <1>3, <1>4 DEF Next

(* One thread at a time is inside _send(), and what had come before it     *)
(* emptied the input is nowhere on the line (motors/nexarm.py:199-204).    *)
THEOREM OneAtATime == Spec => []BusInv
<1>1. Init => BusInv
  BY InitHolds
<1>2. BusInv /\ [Next]_vars => BusInv'
  BY NextKeeps
<1> QED BY <1>1, <1>2, PTL DEF Spec

(* A read returns its own answer, or a late one that nobody waits for.     *)
LEMMA AnswerStep ==
    ASSUME BusInv, [Next]_vars, NEW t \in Thread, th[t].at = "scan", th'[t].at = "done",
           NEW r \in Returned(t) \ {0, th[t].request}
    PROVE  (\A u \in Thread : th[u].request # r) /\ r \notin th[t].known
<1>1. lock = t
  BY CallOfThread DEF Holding
<1>2. Scan(t)
  <2>1. ~(UNCHANGED vars)
    BY DEF vars
  <2>2. ASSUME NEW u \in Thread, Call(u) \/ Work(u), u # t PROVE FALSE
    BY <2>2 DEF BusInv, TypeOK, Set, Call, Work, Check, Acquire, ResetInput, Write, Poll, Deadline, Retry,
       Scan, ScanAt, Parse, KeepBuf, AttemptOver, Fail, Done
  <2>3. Call(t) \/ Work(t)
    BY <2>1, <2>2 DEF Next, Connect, Disconnect, Arm, Answer, Ignore, PrintOut, Arrive
  <2> QED BY <2>3 DEF Call, Work, Check, Acquire, ResetInput, Write, Poll, Deadline, Retry, Ended
<1>3. Returned(t) \subseteq Tags(th[t].buf)
  <2>1. ASSUME NEW at \in {"poll", "scan"}, NEW new, new.at = at, Set(t, new) PROVE FALSE
    <3>1. th'[t] = new
      BY <2>1 DEF Set, BusInv, TypeOK
    <3> QED BY <2>1, <3>1
  <2>2. ASSUME NEW at \in {"poll", "scan"}, NEW buf \in Seq(ByteRecords), NEW split \in BOOLEAN
        PROVE  /\ ~Set(t, [th[t] EXCEPT !.at = at, !.buf = buf])
               /\ ~Set(t, [th[t] EXCEPT !.at = at, !.buf = buf, !.split = split])
    <3> DEFINE plain == [th[t] EXCEPT !.at = at, !.buf = buf]
               marked == [th[t] EXCEPT !.at = at, !.buf = buf, !.split = split]
    <3>1. plain.at = at /\ marked.at = at
      BY CallOfThread DEF CallRecords
    <3> HIDE DEF plain, marked
    <3>2. ~Set(t, plain) /\ ~Set(t, marked)
      BY <2>1, <3>1
    <3> QED BY <3>2 DEF plain, marked
  <2>3. ~AttemptOver(t)
    BY <1>2, AttemptOverKeeps DEF Scan
  <2> QED BY <1>2, <2>2, <2>3, ScanCases
<1>4. r \notin th[t].known
  BY <1>3 DEF BusInv, KnownInv
<1>5. ASSUME NEW u \in Thread PROVE th[u].request # r
  <2>1. CASE u = t
    BY <2>1
  <2>2. CASE u # t
    BY <1>1, <2>2, OneHolder, CallOfThread DEF Holding
  <2> QED BY <2>1, <2>2
<1> QED BY <1>4, <1>5

(* No thread takes another's answer, and what has come is not read again   *)
(* (motors/nexarm.py:151, 199-204).                                        *)
THEOREM AnswersAreOwnOrLate == Spec => AnswerIsOwnOrLate
<1>1. BusInv /\ [Next]_vars =>
        [\A t \in Thread :
           th[t].at = "scan" /\ th'[t].at = "done" =>
              \A r \in Returned(t) \ {0, th[t].request} :
                 /\ \A u \in Thread : th[u].request # r
                 /\ r \notin th[t].known]_vars
  BY AnswerStep
<1> QED BY <1>1, OneAtATime, PTL DEF Spec, AnswerIsOwnOrLate

-----------------------------------------------------------------------------
(* What is in the buffer is the end of what was heard.                     *)
IsTheEnd(buf, h) ==
    /\ Len(buf) <= Len(h)
    /\ \A j \in 1..Len(buf) : buf[j] = h[Len(h) - Len(buf) + j]

(* The first header byte is there. *)
Begins(h, p) == h[p].byte = Header /\ \A j \in 1..(p - 1) : h[j].byte # Header

(* No answer begins there, whatever comes yet. *)
NoAnswerAt(h, p) ==
    \/ p + 1 <= Len(h) /\ h[p + 1].byte # Header
    \/ p + 3 <= Len(h) /\ h[p + 3].byte # 3
    \/ p + 6 <= Len(h) /\ SubSeq(h, p, p + 6) \notin Replies(h[p].of)

(* What was dropped has no beginning of an answer. *)
Skippable(h, n) == \A p \in 1..n : Begins(h, p) => NoAnswerAt(h, p)

(* A poll has no whole frame at the start of its buffer. *)
Waits(buf) ==
    \/ Len(buf) < 6
    \/ buf[1].byte = Header /\ buf[2].byte = Header /\ Len(buf) < 4 + buf[4].byte

HeardOK(c) ==
    /\ c.at \notin {"poll", "scan"} => c.heard = <<>> /\ c.buf = <<>> /\ ~c.split
    /\ c.at \in {"poll", "scan"} /\ ~c.split =>
          IsTheEnd(c.buf, c.heard) /\ Skippable(c.heard, Len(c.heard) - Len(c.buf))
    /\ c.at = "poll" /\ ~c.split => Waits(c.buf)

HeardInv == \A t \in Thread : HeardOK(th[t])

LEMMA PartOfSeq ==
    ASSUME NEW s \in Seq(ByteRecords), NEW m \in Nat \ {0}, NEW n \in Nat, m <= n + 1, n <= Len(s)
    PROVE  /\ SubSeq(s, m, n) \in Seq(ByteRecords)
           /\ Len(SubSeq(s, m, n)) = n - m + 1
           /\ \A k \in 1..(n - m + 1) : SubSeq(s, m, n)[k] = s[m + k - 1]
<1>1. Len(s) \in Nat
  BY LenProperties
<1>2. \A k \in m..n : s[k] \in ByteRecords
  BY <1>1, ElementOfSeq
<1>3. /\ SubSeq(s, m, n) \in Seq(ByteRecords)
      /\ Len(SubSeq(s, m, n)) = IF m <= n THEN n - m + 1 ELSE 0
      /\ \A k \in 1..(n - m + 1) : SubSeq(s, m, n)[k] = s[m + k - 1]
  BY <1>2, SubSeqProperties
<1> QED BY <1>3

LEMMA EndOfSeq ==
    ASSUME NEW s \in Seq(ByteRecords), NEW m \in 1..(Len(s) + 1)
    PROVE  /\ From(s, m) \in Seq(ByteRecords)
           /\ Len(From(s, m)) = Len(s) - m + 1
           /\ \A k \in 1..(Len(s) - m + 1) : From(s, m)[k] = s[m + k - 1]
<1>1. Len(s) \in Nat
  BY LenProperties
<1> QED BY <1>1, PartOfSeq DEF From

LEMMA SevenOfSeq ==
    ASSUME NEW s \in Seq(ByteRecords), NEW m \in 1..Len(s), m + 6 <= Len(s)
    PROVE  /\ SubSeq(s, m, m + 6) \in Seq(ByteRecords)
           /\ Len(SubSeq(s, m, m + 6)) = 7
           /\ \A k \in 1..7 : SubSeq(s, m, m + 6)[k] = s[m + k - 1]
<1>1. m \in Nat \ {0} /\ m + 6 \in Nat /\ m <= m + 6 + 1 /\ (m + 6) - m + 1 = 7
  BY LenProperties
<1> QED BY <1>1, PartOfSeq

(* A reply is a frame of seven bytes that parse_frame() takes.             *)
LEMMA ReplyIsAFrame ==
    ASSUME NEW r \in Nat, NEW reply \in Replies(r)
    PROVE  /\ reply \in Seq(ByteRecords) /\ Len(reply) = 7
           /\ reply[1].byte = Header /\ reply[2].byte = Header
           /\ reply[4].byte = 3 /\ reply[5].byte = Read
           /\ ParseFrame(reply)
<1>1. PICK p \in Position, c \in 0..15 : reply = BuildReply(r, p, c) /\ c = Checksum(Summed(p))
  BY DEF Replies
<1>2. reply \in Seq(ByteRecords) /\ Len(reply) = 7
  BY TagsOfReply
<1> DEFINE b == [i \in 1..7 |-> reply[i].byte]
<1>3. /\ reply[1].byte = Header /\ reply[2].byte = Header /\ reply[3].byte = Header
      /\ reply[4].byte = 3 /\ reply[5].byte = Read /\ reply[6].byte = p /\ reply[7].byte = c
  BY <1>1 DEF BuildReply, ByteOf
<1>4. b \in Seq(0..15) /\ Len(b) = 7
  <2>1. \A i \in 1..7 : reply[i] \in ByteRecords
    BY <1>2, ElementOfSeq
  <2>2. b \in [1..7 -> 0..15]
    BY <2>1 DEF ByteRecords
  <2>3. b \in Seq(0..15)
    BY <2>2, SeqDef
  <2>4. DOMAIN b = 1..Len(b) /\ Len(b) \in Nat
    BY <2>3, LenProperties
  <2> QED BY <2>2, <2>3, <2>4
<1>5. /\ b[3] = Header /\ b[4] = 3 /\ b[5] = Read /\ b[6] = p /\ b[7] = c
  BY <1>3
<1> HIDE DEF b
<1>6. \A i \in 1..7 : b[i] \in 0..15
  BY <1>4, ElementOfSeq
<1>7. /\ SubSeq(b, 3, 5) \in Seq(0..15) /\ Len(SubSeq(b, 3, 5)) = 3
      /\ \A k \in 1..3 : SubSeq(b, 3, 5)[k] = b[k + 2]
  <2>1. \A i \in 3..5 : b[i] \in 0..15
    BY <1>6
  <2>2. /\ SubSeq(b, 3, 5) \in Seq(0..15)
        /\ Len(SubSeq(b, 3, 5)) = IF 3 <= 5 THEN 5 - 3 + 1 ELSE 0
        /\ \A k \in 1..(5 - 3 + 1) : SubSeq(b, 3, 5)[k] = b[3 + k - 1]
    BY <2>1, SubSeqProperties
  <2> QED BY <2>2
<1>8. /\ SubSeq(b, 3, 6) \in Seq(0..15) /\ Len(SubSeq(b, 3, 6)) = 4
      /\ \A k \in 1..4 : SubSeq(b, 3, 6)[k] = b[k + 2]
  <2>1. \A i \in 3..6 : b[i] \in 0..15
    BY <1>6
  <2>2. /\ SubSeq(b, 3, 6) \in Seq(0..15)
        /\ Len(SubSeq(b, 3, 6)) = IF 3 <= 6 THEN 6 - 3 + 1 ELSE 0
        /\ \A k \in 1..(6 - 3 + 1) : SubSeq(b, 3, 6)[k] = b[3 + k - 1]
    BY <2>1, SubSeqProperties
  <2> QED BY <2>2
<1>9. SubSeq(b, 3, 5) = <<Header, 3, Read>>
  <2>1. <<Header, 3, Read>> \in Seq(0..15) /\ Len(<<Header, 3, Read>>) = 3
    BY DEF Header, Read
  <2>2. \A k \in 1..3 : SubSeq(b, 3, 5)[k] = <<Header, 3, Read>>[k]
    BY <1>5, <1>7
  <2> QED BY <1>7, <2>1, <2>2, SeqEqual
<1>10. SubSeq(b, 3, 6) = <<Header, 3, Read, p>>
  <2>1. <<Header, 3, Read, p>> \in Seq(0..15) /\ Len(<<Header, 3, Read, p>>) = 4
    BY DEF Header, Read
  <2>2. \A k \in 1..4 : SubSeq(b, 3, 6)[k] = <<Header, 3, Read, p>>[k]
    BY <1>5, <1>8
  <2> QED BY <1>8, <2>1, <2>2, SeqEqual
<1>11. Summed(p) \in {SubSeq(b, 3, 5), SubSeq(b, 3, 6)}
  BY <1>9, <1>10 DEF Summed
<1>12. c \in {Checksum(SubSeq(b, 3, 6)), Checksum(SubSeq(b, 3, 5))}
  BY <1>1, <1>11
<1>13. [i \in 1..Len(reply) |-> reply[i].byte] = b
  BY <1>2 DEF b
<1>14. ParseFrame(reply)
  <2>1. Len(b) - 1 = 6 /\ Len(reply) >= 6
    BY <1>2, <1>4
  <2>2. b[Len(b)] = c
    BY <1>4, <1>5
  <2> QED BY <1>12, <1>13, <2>1, <2>2 DEF ParseFrame
<1> QED BY <1>2, <1>3, <1>14

-----------------------------------------------------------------------------
LEMMA HeardGrows ==
    ASSUME NEW buf \in Seq(ByteRecords), NEW h \in Seq(ByteRecords), NEW new \in Seq(ByteRecords),
           IsTheEnd(buf, h), Skippable(h, Len(h) - Len(buf))
    PROVE  /\ IsTheEnd(buf \o new, h \o new)
           /\ Skippable(h \o new, Len(h \o new) - Len(buf \o new))
<1> DEFINE hn == h \o new
           bn == buf \o new
<1>1. Len(buf) \in Nat /\ Len(h) \in Nat /\ Len(new) \in Nat
  BY LenProperties
<1>2. /\ hn \in Seq(ByteRecords) /\ Len(hn) = Len(h) + Len(new)
      /\ \A i \in 1..(Len(h) + Len(new)) : hn[i] = IF i <= Len(h) THEN h[i] ELSE new[i - Len(h)]
  BY ConcatProperties
<1>3. /\ bn \in Seq(ByteRecords) /\ Len(bn) = Len(buf) + Len(new)
      /\ \A i \in 1..(Len(buf) + Len(new)) : bn[i] = IF i <= Len(buf) THEN buf[i] ELSE new[i - Len(buf)]
  BY ConcatProperties
<1> HIDE DEF hn, bn
<1>4. IsTheEnd(bn, hn)
  <2>1. Len(bn) <= Len(hn) /\ Len(hn) - Len(bn) = Len(h) - Len(buf)
    BY <1>1, <1>2, <1>3 DEF IsTheEnd
  <2>2. ASSUME NEW j \in 1..Len(bn) PROVE bn[j] = hn[Len(h) - Len(buf) + j]
    <3>1. Len(h) - Len(buf) + j \in 1..(Len(h) + Len(new)) /\ Len(buf) <= Len(h)
      BY <1>1, <1>3 DEF IsTheEnd
    <3>2. CASE j <= Len(buf)
      <4>1. Len(h) - Len(buf) + j <= Len(h) /\ j \in 1..Len(buf)
        BY <1>1, <3>2
      <4> QED BY <1>2, <1>3, <3>1, <3>2, <4>1 DEF IsTheEnd
    <3>3. CASE ~(j <= Len(buf))
      <4> DEFINE k == Len(h) - Len(buf) + j
      <4>1. k \in 1..(Len(h) + Len(new)) /\ ~(k <= Len(h)) /\ k - Len(h) = j - Len(buf)
        BY <1>1, <3>1, <3>3
      <4> HIDE DEF k
      <4>2. hn[k] = new[j - Len(buf)]
        BY <1>2, <4>1
      <4>3. bn[j] = new[j - Len(buf)]
        BY <1>3, <3>3
      <4> QED BY <4>2, <4>3 DEF k
    <3> QED BY <3>2, <3>3
  <2> QED BY <2>1, <2>2 DEF IsTheEnd
<1>5. ASSUME NEW p \in 1..(Len(h) - Len(buf)), Begins(hn, p) PROVE NoAnswerAt(hn, p)
  <2>1. \A i \in 1..Len(h) : hn[i] = h[i]
    BY <1>1, <1>2
  <2>2. p \in 1..Len(h)
    BY <1>1
  <2>3. Begins(h, p)
    <3>1. \A j \in 1..(p - 1) : j \in 1..Len(h)
      BY <1>1, <2>2
    <3> QED BY <1>5, <2>1, <2>2, <3>1 DEF Begins
  <2>4. NoAnswerAt(h, p)
    BY <2>3 DEF Skippable
  <2>5. CASE p + 6 <= Len(h) /\ SubSeq(h, p, p + 6) \notin Replies(h[p].of)
    <3>1. SubSeq(hn, p, p + 6) = SubSeq(h, p, p + 6)
      <4>1. p \in 1..Len(h) /\ p + 6 \in 1..Len(h)
        BY <1>1, <2>2, <2>5
      <4> QED BY <4>1, SubSeqOfConcat1 DEF hn
    <3>2. p + 6 <= Len(hn)
      BY <1>1, <1>2, <2>5
    <3> QED BY <2>1, <2>2, <2>5, <3>1, <3>2 DEF NoAnswerAt
  <2>6. CASE p + 1 <= Len(h) /\ h[p + 1].byte # Header
    <3>1. p + 1 \in 1..Len(h) /\ p + 1 <= Len(hn)
      BY <1>1, <1>2, <2>2, <2>6
    <3> QED BY <2>1, <2>6, <3>1 DEF NoAnswerAt
  <2>7. CASE p + 3 <= Len(h) /\ h[p + 3].byte # 3
    <3>1. p + 3 \in 1..Len(h) /\ p + 3 <= Len(hn)
      BY <1>1, <1>2, <2>2, <2>7
    <3> QED BY <2>1, <2>7, <3>1 DEF NoAnswerAt
  <2> QED BY <2>4, <2>5, <2>6, <2>7 DEF NoAnswerAt
<1>6. Len(hn) - Len(bn) = Len(h) - Len(buf)
  BY <1>1, <1>2, <1>3
<1> QED BY <1>4, <1>5, <1>6 DEF Skippable, hn, bn

(* Bytes are dropped from the buffer where no answer begins. *)
LEMMA HeardIsDropped ==
    ASSUME NEW buf \in Seq(ByteRecords), NEW h \in Seq(ByteRecords), NEW m \in 1..(Len(buf) + 1),
           IsTheEnd(buf, h), Skippable(h, Len(h) - Len(buf)),
           \A q \in 1..(m - 1) : Begins(buf, q) => NoAnswerAt(buf, q)
    PROVE  /\ IsTheEnd(From(buf, m), h)
           /\ Skippable(h, Len(h) - Len(From(buf, m)))
<1> DEFINE rest == From(buf, m)
           d == Len(h) - Len(buf)
<1>1. Len(buf) \in Nat /\ Len(h) \in Nat /\ Len(buf) <= Len(h) /\ d \in Nat
  BY LenProperties DEF IsTheEnd
<1>2. /\ rest \in Seq(ByteRecords) /\ Len(rest) = Len(buf) - m + 1
      /\ \A k \in 1..(Len(buf) - m + 1) : rest[k] = buf[m + k - 1]
  BY EndOfSeq
<1>3. \A j \in 1..Len(buf) : buf[j] = h[d + j]
  BY DEF IsTheEnd
<1>4. Len(h) - Len(rest) = d + (m - 1)
  BY <1>1, <1>2
<1>5. IsTheEnd(rest, h)
  <2>1. Len(rest) <= Len(h)
    BY <1>1, <1>2
  <2>2. ASSUME NEW j \in 1..Len(rest) PROVE rest[j] = h[Len(h) - Len(rest) + j]
    <3> HIDE DEF rest, d
    <3>1. m + j - 1 \in 1..Len(buf) /\ j \in 1..(Len(buf) - m + 1)
      BY <1>1, <1>2
    <3>2. d + (m + j - 1) = Len(h) - Len(rest) + j
      BY <1>1, <1>4
    <3> QED BY <1>2, <1>3, <3>1, <3>2
  <2> QED BY <2>1, <2>2 DEF IsTheEnd
<1>6. ASSUME NEW p \in 1..(d + (m - 1)), Begins(h, p) PROVE NoAnswerAt(h, p)
  <2>1. CASE p <= d
    <3> HIDE DEF d
    <3>1. p \in 1..d
      BY <1>1, <2>1
    <3> QED BY <1>6, <3>1 DEF Skippable, d
  <2>2. CASE ~(p <= d)
    <3> HIDE DEF rest, d
    <3> DEFINE q == p - d
    <3>1. q \in 1..(m - 1) /\ q \in 1..Len(buf) /\ p = d + q
      BY <1>1, <2>2
    <3> HIDE DEF q
    <3>2. Begins(buf, q)
      <4>1. \A j \in 1..(q - 1) : j \in 1..Len(buf) /\ d + j \in 1..(p - 1)
        BY <1>1, <3>1
      <4> QED BY <1>3, <1>6, <3>1, <4>1 DEF Begins
    <3>3. NoAnswerAt(buf, q)
      BY <3>1, <3>2
    <3>4. Len(h) = d + Len(buf)
      BY <1>1 DEF d
    <3>5. CASE q + 1 <= Len(buf) /\ buf[q + 1].byte # Header
      <4>1. q + 1 \in 1..Len(buf) /\ p + 1 <= Len(h) /\ p + 1 = d + (q + 1)
        BY <1>1, <3>1, <3>4, <3>5
      <4> QED BY <1>3, <3>5, <4>1 DEF NoAnswerAt
    <3>6. CASE q + 3 <= Len(buf) /\ buf[q + 3].byte # 3
      <4>1. q + 3 \in 1..Len(buf) /\ p + 3 <= Len(h) /\ p + 3 = d + (q + 3)
        BY <1>1, <3>1, <3>4, <3>6
      <4> QED BY <1>3, <3>6, <4>1 DEF NoAnswerAt
    <3>7. CASE q + 6 <= Len(buf) /\ SubSeq(buf, q, q + 6) \notin Replies(buf[q].of)
      <4>1. q \in 1..Len(buf) /\ p + 6 <= Len(h) /\ p \in 1..Len(h)
        BY <1>1, <3>1, <3>4, <3>7
      <4>2. /\ SubSeq(buf, q, q + 6) \in Seq(ByteRecords) /\ Len(SubSeq(buf, q, q + 6)) = 7
            /\ \A k \in 1..7 : SubSeq(buf, q, q + 6)[k] = buf[q + k - 1]
        BY <3>7, <4>1, SevenOfSeq
      <4>3. /\ SubSeq(h, p, p + 6) \in Seq(ByteRecords) /\ Len(SubSeq(h, p, p + 6)) = 7
            /\ \A k \in 1..7 : SubSeq(h, p, p + 6)[k] = h[p + k - 1]
        BY <4>1, SevenOfSeq
      <4>5. ASSUME NEW k \in 1..7 PROVE SubSeq(buf, q, q + 6)[k] = SubSeq(h, p, p + 6)[k]
        <5>1. q + k - 1 \in 1..Len(buf) /\ p + k - 1 = d + (q + k - 1)
          BY <1>1, <3>1, <3>7, <4>1
        <5>2. buf[q + k - 1] = h[p + k - 1]
          BY <1>3, <5>1
        <5> QED BY <4>2, <4>3, <5>2
      <4>6. SubSeq(buf, q, q + 6) = SubSeq(h, p, p + 6)
        BY <4>2, <4>3, <4>5, SeqEqual
      <4>7. buf[q] = h[p]
        BY <1>3, <3>1
      <4> QED BY <3>7, <4>1, <4>6, <4>7 DEF NoAnswerAt
    <3> QED BY <3>3, <3>5, <3>6, <3>7 DEF NoAnswerAt
  <2> QED BY <2>1, <2>2
<1> QED BY <1>4, <1>5, <1>6 DEF Skippable

(* What is dropped before the first header of two bytes, or behind a frame *)
(* that is none, has no beginning of an answer.                            *)
LEMMA NothingBefore ==
    ASSUME NEW buf \in Seq(ByteRecords), NEW m \in 1..Len(buf),
           \A i \in HeadersIn(buf) : m <= i
    PROVE  \A q \in 1..(m - 1) : Begins(buf, q) => NoAnswerAt(buf, q)
<1>1. Len(buf) \in Nat
  BY LenProperties
<1>2. ASSUME NEW q \in 1..(m - 1), Begins(buf, q) PROVE NoAnswerAt(buf, q)
  <2>1. q \in 1..(Len(buf) - 1) /\ q + 1 <= Len(buf) /\ ~(m <= q)
    BY <1>1
  <2>2. buf[q + 1].byte # Header
    BY <1>2, <2>1 DEF HeadersIn, Begins
  <2> QED BY <2>1, <2>2 DEF NoAnswerAt
<1> QED BY <1>2

LEMMA NothingInAFrame ==
    ASSUME NEW buf \in Seq(ByteRecords), NEW i \in HeadersIn(buf), \A j \in HeadersIn(buf) : i <= j,
           NEW rest, rest = From(buf, i), Len(rest) >= 4,
           NEW total \in Nat, total = 4 + rest[4].byte, total <= Len(rest),
           \/ ~ParseFrame(SubSeq(rest, 1, total))
           \/ SubSeq(rest, 1, total)[5].byte # Read,
           NEW m \in i..(Len(buf) + 1)
    PROVE  \A q \in 1..(m - 1) : Begins(buf, q) => NoAnswerAt(buf, q)
<1>1. Len(buf) \in Nat /\ i \in 1..(Len(buf) - 1) /\ i \in 1..Len(buf) /\ buf[i].byte = Header
  BY LenProperties DEF HeadersIn
<1>2. /\ rest \in Seq(ByteRecords) /\ Len(rest) = Len(buf) - i + 1
      /\ \A k \in 1..(Len(buf) - i + 1) : rest[k] = buf[i + k - 1]
  BY <1>1, EndOfSeq, SMTT(30)
<1>3. i + 3 <= Len(buf) /\ rest[4] = buf[i + 3]
  BY <1>1, <1>2
<1>4. ASSUME buf[i + 3].byte # 3 PROVE NoAnswerAt(buf, i)
  BY <1>3, <1>4 DEF NoAnswerAt
<1>5. ASSUME buf[i + 3].byte = 3 PROVE NoAnswerAt(buf, i)
  <2>1. total = 7 /\ i + 6 <= Len(buf)
    BY <1>1, <1>2, <1>3, <1>5
  <2>2. /\ SubSeq(buf, i, i + 6) \in Seq(ByteRecords) /\ Len(SubSeq(buf, i, i + 6)) = 7
        /\ \A k \in 1..7 : SubSeq(buf, i, i + 6)[k] = buf[i + k - 1]
    BY <1>1, <2>1, SevenOfSeq
  <2>3. /\ SubSeq(rest, 1, 7) \in Seq(ByteRecords) /\ Len(SubSeq(rest, 1, 7)) = 7
        /\ \A k \in 1..7 : SubSeq(rest, 1, 7)[k] = rest[k]
    <3>1. 1 \in 1..Len(rest) /\ 1 + 6 <= Len(rest) /\ 1 + 6 = 7 /\ \A k \in 1..7 : 1 + k - 1 = k
      BY <1>1, <1>2, <2>1
    <3> QED BY <1>2, <3>1, SevenOfSeq
  <2>4. SubSeq(rest, 1, 7) = SubSeq(buf, i, i + 6)
    <3>1. \A k \in 1..7 : k \in 1..(Len(buf) - i + 1)
      BY <1>1, <2>1
    <3>2. \A k \in 1..7 : SubSeq(rest, 1, 7)[k] = SubSeq(buf, i, i + 6)[k]
      BY <1>2, <2>2, <2>3, <3>1
    <3>3. \A s, u \in Seq(ByteRecords) : Len(s) = 7 /\ Len(u) = 7 /\ (\A k \in 1..7 : s[k] = u[k]) => s = u
      BY SeqEqual, ZenonT(60)
    <3> QED BY <2>2, <2>3, <3>2, <3>3
  <2>5. buf[i].of \in Nat
    <3>1. buf[i] \in ByteRecords
      BY <1>1, ElementOfSeq
    <3> QED BY <3>1 DEF ByteRecords
  <2>6. SubSeq(buf, i, i + 6) \notin Replies(buf[i].of)
    <3>1. SUFFICES ASSUME SubSeq(buf, i, i + 6) \in Replies(buf[i].of) PROVE FALSE
      OBVIOUS
    <3>2. ParseFrame(SubSeq(buf, i, i + 6)) /\ SubSeq(buf, i, i + 6)[5].byte = Read
      BY <2>5, <3>1, ReplyIsAFrame
    <3> QED BY <2>1, <2>4, <3>2
  <2> QED BY <2>1, <2>6 DEF NoAnswerAt
<1>6. ASSUME NEW q \in 1..(m - 1), Begins(buf, q), q < i PROVE NoAnswerAt(buf, q)
  <2>1. q \in 1..(i - 1)
    BY <1>1, <1>6
  <2> QED BY <1>1, <1>6, <2>1, NothingBefore
<1>7. ASSUME NEW q \in 1..(m - 1), Begins(buf, q), q > i PROVE FALSE
  <2>1. i \in 1..(q - 1)
    BY <1>1, <1>7
  <2> QED BY <1>1, <1>7, <2>1 DEF Begins
<1>8. ASSUME NEW q \in 1..(m - 1), Begins(buf, q) PROVE NoAnswerAt(buf, q)
  <2>1. q < i \/ q = i \/ q > i
    BY <1>1
  <2> QED BY <1>4, <1>5, <1>6, <1>7, <1>8, <2>1
<1> QED BY <1>8

-----------------------------------------------------------------------------
(* One thread goes on. *)
LEMMA HeardOfOne ==
    ASSUME BusInv, HeardInv, NEW t \in Thread, NEW new \in CallRecords, Set(t, new), HeardOK(new)
    PROVE  HeardInv'
<1>1. th'[t] = new /\ \A u \in Thread \ {t} : th'[u] = th[u]
  BY SetCall DEF BusInv
<1>2. ASSUME NEW u \in Thread PROVE HeardOK(th'[u])
  <2>1. CASE u = t
    BY <1>1, <2>1
  <2>2. CASE u # t
    <3>1. th'[u] = th[u] /\ HeardOK(th[u])
      BY <1>1, <2>2 DEF HeardInv
    <3> QED BY <3>1
  <2> QED BY <2>1, <2>2
<1> QED BY <1>2 DEF HeardInv

LEMMA HeardOfIdle ==
    ASSUME NEW at \in Ended \cup {"pause"}
    PROVE  HeardOK(Idle(at))
<1>1. at \notin {"poll", "scan"}
  BY DEF Ended
<1> QED BY <1>1 DEF HeardOK, Idle

LEMMA EndOfEnd ==
    ASSUME NEW s \in Seq(ByteRecords), NEW m \in 1..(Len(s) + 1), NEW n \in 1..(Len(s) - m + 2)
    PROVE  From(From(s, m), n) = From(s, m + n - 1) /\ m + n - 1 \in 1..(Len(s) + 1)
<1> DEFINE rest == From(s, m)
<1>1. Len(s) \in Nat
  BY LenProperties
<1>2. /\ rest \in Seq(ByteRecords) /\ Len(rest) = Len(s) - m + 1
      /\ \A k \in 1..(Len(s) - m + 1) : rest[k] = s[m + k - 1]
  BY EndOfSeq
<1> HIDE DEF rest
<1>3. m + n - 1 \in 1..(Len(s) + 1) /\ n \in 1..(Len(rest) + 1)
  BY <1>1, <1>2
<1>4. /\ From(rest, n) \in Seq(ByteRecords) /\ Len(From(rest, n)) = Len(rest) - n + 1
      /\ \A k \in 1..(Len(rest) - n + 1) : From(rest, n)[k] = rest[n + k - 1]
  BY <1>2, <1>3, EndOfSeq
<1> DEFINE o == m + n - 1
<1>5. /\ From(s, o) \in Seq(ByteRecords) /\ Len(From(s, o)) = Len(s) - o + 1
      /\ \A k \in 1..(Len(s) - o + 1) : From(s, o)[k] = s[o + k - 1]
  BY <1>3, EndOfSeq
<1>6. o \in Nat /\ Len(rest) - n + 1 = Len(s) - o + 1 /\ o = m + n - 1
  BY <1>1, <1>2, <1>3
<1> HIDE DEF o
<1>7. ASSUME NEW k \in 1..(Len(s) - o + 1) PROVE From(rest, n)[k] = From(s, o)[k]
  <2>1. n + k - 1 \in 1..(Len(s) - m + 1) /\ m + (n + k - 1) - 1 = o + k - 1
    BY <1>1, <1>3, <1>6
  <2>2. rest[n + k - 1] = s[o + k - 1]
    BY <1>2, <2>1
  <2> QED BY <1>4, <1>5, <1>6, <2>2
<1>8. Len(From(rest, n)) = Len(From(s, o)) /\ 1..Len(From(rest, n)) = 1..(Len(s) - o + 1)
  BY <1>4, <1>5, <1>6
<1>9. From(rest, n) = From(s, o)
  BY <1>4, <1>5, <1>7, <1>8, SeqEqual
<1> QED BY <1>3, <1>9 DEF rest, o

LEMMA HeardIfKept ==
    ASSUME BusInv, HeardInv, NEW t \in Thread, th[t].at = "scan", NEW at \in {"poll", "scan"},
           NEW m \in 1..(Len(th[t].buf) + 1),
           \A q \in 1..(m - 1) : Begins(th[t].buf, q) => NoAnswerAt(th[t].buf, q),
           at = "poll" => Waits(From(th[t].buf, m)),
           KeepBuf(t, at, From(th[t].buf, m))
    PROVE  HeardInv'
<1> DEFINE c == th[t]
           kept == From(c.buf, m)
           new == [c EXCEPT !.at = at, !.buf = kept]
<1>1. c \in CallRecords /\ c.buf \in Seq(ByteRecords) /\ c.heard \in Seq(ByteRecords) /\ c.at = "scan"
  BY CallOfThread
<1>2. kept \in Seq(ByteRecords)
  BY <1>1, EndOfSeq
<1>3. ~c.split => IsTheEnd(kept, c.heard) /\ Skippable(c.heard, Len(c.heard) - Len(kept))
  <2>1. HeardOK(c)
    BY DEF HeardInv
  <2>2. ~c.split => IsTheEnd(c.buf, c.heard) /\ Skippable(c.heard, Len(c.heard) - Len(c.buf))
    BY <1>1, <2>1 DEF HeardOK
  <2> QED BY <1>1, <2>2, HeardIsDropped
<1>4. Set(t, new) /\ (at = "poll" => Waits(kept))
  BY DEF KeepBuf
<1> HIDE DEF kept, c
<1>5. new \in CallRecords
  BY <1>1, <1>2, BufferIsACall
<1>6. new.at = at /\ new.buf = kept /\ new.heard = c.heard /\ new.split = c.split
  BY <1>1 DEF CallRecords
<1> HIDE DEF new
<1>7. HeardOK(new)
  BY <1>3, <1>4, <1>6 DEF HeardOK
<1> QED BY <1>4, <1>5, <1>7, HeardOfOne

LEMMA HeardIfOver ==
    ASSUME BusInv, HeardInv, NEW t \in Thread, AttemptOver(t) \/ Fail(t) \/ Done(t)
    PROVE  HeardInv'
<1>1. ASSUME NEW at \in Ended, Set(t, Idle(at)) PROVE HeardInv'
  <2>1. Idle(at) \in CallRecords /\ HeardOK(Idle(at))
    BY IdleIsACall, HeardOfIdle
  <2> QED BY <1>1, <2>1, HeardOfOne
<1>2. ASSUME Set(t, [Idle("pause") EXCEPT !.reads = TRUE, !.attempt = th[t].attempt]) PROVE HeardInv'
  <2> DEFINE new == [Idle("pause") EXCEPT !.reads = TRUE, !.attempt = th[t].attempt]
  <2>1. Idle("pause") \in CallRecords /\ th[t].attempt \in Nat
    BY IdleIsACall, CallOfThread
  <2>2. new \in CallRecords
    BY <2>1, EnteringIsACall DEF Holding
  <2>3. new.at = "pause" /\ new.buf = <<>> /\ new.heard = <<>> /\ new.split = FALSE
    BY DEF Idle
  <2>4. Set(t, new)
    BY <1>2
  <2> HIDE DEF new
  <2>5. HeardOK(new)
    BY <2>3 DEF HeardOK
  <2> QED BY <2>2, <2>4, <2>5, HeardOfOne
<1>3. Set(t, Idle("raised")) \/ Set(t, Idle("done"))
      \/ Set(t, [Idle("pause") EXCEPT !.reads = TRUE, !.attempt = th[t].attempt])
  BY DEF AttemptOver, Fail, Done
<1> QED BY <1>1, <1>2, <1>3 DEF Ended

LEMMA HeardIfScanned ==
    ASSUME BusInv, HeardInv, NEW t \in Thread, Scan(t)
    PROVE  HeardInv'
<1> DEFINE c == th[t]
           buf == th[t].buf
<1>1. c \in CallRecords /\ buf \in Seq(ByteRecords) /\ c.heard \in Seq(ByteRecords)
      /\ c.at = "scan" /\ HeardOK(c) /\ Len(buf) \in Nat
  <2>1. c \in CallRecords /\ buf \in Seq(ByteRecords) /\ c.heard \in Seq(ByteRecords)
    BY CallOfThread
  <2> QED BY <2>1, LenProperties DEF Scan, HeardInv
<1>2. CASE Len(buf) < 6 /\ KeepBuf(t, "poll", buf)
  <2>1. From(buf, 1) = buf
    BY <1>1, SubSeqFull DEF From
  <2>2. Waits(From(buf, 1))
    BY <1>2, <2>1 DEF Waits
  <2>3. KeepBuf(t, "poll", From(buf, 1))
    BY <1>2, <2>1
  <2>4. 1 \in 1..(Len(buf) + 1) /\ \A q \in 1..(1 - 1) : Begins(buf, q) => NoAnswerAt(buf, q)
    BY <1>1
  <2> QED BY <1>1, <2>2, <2>3, <2>4, HeardIfKept
<1>3. CASE /\ Len(buf) >= 6 /\ HeadersIn(buf) = {}
           /\ Set(t, [c EXCEPT !.at = "poll", !.buf = <<>>,
                               !.split = @ \/ buf[Len(buf)].byte = Header])
  <2> DEFINE new == [c EXCEPT !.at = "poll", !.buf = <<>>,
                              !.split = @ \/ buf[Len(buf)].byte = Header]
  <2>1. <<>> \in Seq(ByteRecords) /\ Len(<<>>) = 0
    BY EmptySeq
  <2>2. new \in CallRecords /\ Set(t, new)
    <3>1. PICK split \in BOOLEAN : split = (c.split \/ buf[Len(buf)].byte = Header)
      OBVIOUS
    <3>2. new = [c EXCEPT !.at = "poll", !.buf = <<>>, !.split = split]
      BY <3>1
    <3> HIDE DEF c, buf
    <3> QED BY <1>1, <1>3, <2>1, <3>2, BufferIsACall
  <2>3. /\ new.at = "poll" /\ new.buf = <<>> /\ new.heard = c.heard
        /\ new.split = (c.split \/ buf[Len(buf)].byte = Header)
    BY <1>1 DEF CallRecords
  <2> HIDE DEF new
  <2>4. ASSUME ~new.split
        PROVE  IsTheEnd(<<>>, c.heard) /\ Skippable(c.heard, Len(c.heard) - Len(<<>>))
    <3>1. ~c.split /\ buf[Len(buf)].byte # Header
      BY <2>3, <2>4
    <3>2. IsTheEnd(buf, c.heard) /\ Skippable(c.heard, Len(c.heard) - Len(buf))
      BY <1>1, <3>1 DEF HeardOK
    <3> DEFINE m == Len(buf) + 1
    <3>3. ASSUME NEW q \in 1..(m - 1), Begins(buf, q) PROVE NoAnswerAt(buf, q)
      <4>1. q \in 1..Len(buf) /\ q # Len(buf)
        BY <1>1, <3>1, <3>3 DEF Begins
      <4>2. q \in 1..(Len(buf) - 1) /\ q + 1 <= Len(buf)
        BY <1>1, <4>1
      <4>3. buf[q + 1].byte # Header
        BY <1>3, <3>3, <4>2 DEF HeadersIn, Begins
      <4> QED BY <4>2, <4>3 DEF NoAnswerAt
    <3>4. From(buf, m) = <<>> /\ m \in 1..(Len(buf) + 1)
      <4>1. Len(buf) + 1 \in Int /\ Len(buf) \in Int /\ Len(buf) < Len(buf) + 1
        BY <1>1
      <4> QED BY <1>1, <4>1, SubSeqEmpty DEF From
    <3> HIDE DEF m
    <3>5. IsTheEnd(From(buf, m), c.heard) /\ Skippable(c.heard, Len(c.heard) - Len(From(buf, m)))
      BY <1>1, <3>2, <3>3, <3>4, HeardIsDropped
    <3> QED BY <3>4, <3>5
  <2>5. HeardOK(new)
    BY <2>1, <2>3, <2>4 DEF HeardOK, Waits
  <2> QED BY <2>2, <2>5, HeardOfOne
<1>4. ASSUME NEW i \in HeadersIn(buf), \A j \in HeadersIn(buf) : i <= j, Len(buf) >= 6,
             ScanAt(t, From(buf, i))
      PROVE  HeardInv'
  <2> DEFINE rest == From(buf, i)
             total == 4 + rest[4].byte
  <2>1. i \in 1..(Len(buf) - 1) /\ i \in 1..Len(buf) /\ i \in 1..(Len(buf) + 1)
        /\ buf[i].byte = Header /\ buf[i + 1].byte = Header
    BY <1>1, <1>4 DEF HeadersIn
  <2>2. /\ rest \in Seq(ByteRecords) /\ Len(rest) = Len(buf) - i + 1 /\ Len(rest) \in Nat
        /\ \A k \in 1..(Len(buf) - i + 1) : rest[k] = buf[i + k - 1]
    <3> HIDE DEF buf, c
    <3>1. /\ rest \in Seq(ByteRecords) /\ Len(rest) = Len(buf) - i + 1
          /\ \A k \in 1..(Len(buf) - i + 1) : rest[k] = buf[i + k - 1]
      BY <1>1, <2>1, EndOfSeq
    <3> HIDE DEF rest
    <3>2. Len(rest) \in Nat
      BY <3>1, LenProperties
    <3> QED BY <3>1, <3>2
  <2>3. \A q \in 1..(i - 1) : Begins(buf, q) => NoAnswerAt(buf, q)
    BY <1>1, <1>4, <2>1, NothingBefore
  <2>4. CASE (Len(rest) < 4 \/ Len(rest) < total) /\ KeepBuf(t, "poll", rest)
    <3>1. Waits(rest)
      <4>1. rest[1].byte = Header /\ rest[2].byte = Header
        <5>1. 1 \in 1..(Len(buf) - i + 1) /\ 2 \in 1..(Len(buf) - i + 1) /\ i + 1 - 1 = i /\ i + 2 - 1 = i + 1
          BY <1>1, <2>1
        <5> QED BY <2>1, <2>2, <5>1
      <4>2. Len(rest) < 4 => Len(rest) < 6
        BY <2>2
      <4> QED BY <2>4, <4>1, <4>2 DEF Waits
    <3> QED BY <1>1, <2>1, <2>3, <2>4, <3>1, HeardIfKept
  <2>5. CASE ~(Len(rest) < 4) /\ ~(Len(rest) < total) /\ Parse(t, rest, total)
    <3>1. total \in Nat /\ Len(rest) >= 4 /\ total <= Len(rest) /\ total = 4 + rest[4].byte /\ total >= 4
      <4>1. rest[4] \in ByteRecords
        <5>1. 4 \in 1..Len(rest)
          BY <2>2, <2>5
        <5> QED BY <2>2, <5>1, ElementOfSeq
      <4>2. rest[4].byte \in 0..15
        BY <4>1 DEF ByteRecords
      <4>3. total = 4 + rest[4].byte
        OBVIOUS
      <4> HIDE DEF total, rest
      <4>4. Len(rest) \in Nat /\ ~(Len(rest) < 4) /\ ~(Len(rest) < total)
        BY <2>2, <2>5
      <4> HIDE DEF buf
      <4> QED BY <4>2, <4>3, <4>4
    <3> HIDE DEF total, rest
    <3>2. ASSUME NEW n \in {3, total + 1}, KeepBuf(t, "scan", From(rest, n)),
                 \/ ~ParseFrame(SubSeq(rest, 1, total))
                 \/ SubSeq(rest, 1, total)[5].byte # Read
          PROVE  HeardInv'
      <4>1. n \in 1..(Len(buf) - i + 2) /\ i + n - 1 \in i..(Len(buf) + 1)
        <5> HIDE DEF buf, c
        <5>1. n = 3 \/ n = total + 1
          BY <3>2
        <5>2. n \in Nat /\ 1 <= n /\ n <= Len(rest) + 1
          BY <2>2, <3>1, <5>1
        <5> QED BY <1>1, <2>1, <2>2, <5>2
      <4>2. From(rest, n) = From(buf, i + n - 1) /\ i + n - 1 \in 1..(Len(buf) + 1)
        BY <1>1, <2>1, <4>1, EndOfEnd DEF rest
      <4> DEFINE m == i + n - 1
      <4>3. m \in i..(Len(buf) + 1) /\ m \in 1..(Len(buf) + 1) /\ KeepBuf(t, "scan", From(buf, m))
        BY <3>2, <4>1, <4>2
      <4> HIDE DEF m
      <4>4. rest = From(buf, i)
        BY DEF rest
      <4>5. \A q \in 1..(m - 1) : Begins(buf, q) => NoAnswerAt(buf, q)
        BY <1>1, <1>4, <3>1, <3>2, <4>3, <4>4, NothingInAFrame
      <4> QED BY <1>1, <4>3, <4>5, HeardIfKept
    <3>3. \/ KeepBuf(t, "scan", From(rest, 3)) /\ ~ParseFrame(SubSeq(rest, 1, total))
          \/ KeepBuf(t, "scan", From(rest, total + 1)) /\ SubSeq(rest, 1, total)[5].byte # Read
          \/ AttemptOver(t) \/ Done(t)
      BY <2>5 DEF Parse
    <3> QED BY <3>2, <3>3, HeardIfOver
  <2>6. \/ (Len(rest) < 4 \/ Len(rest) < total) /\ KeepBuf(t, "poll", rest)
        \/ ~(Len(rest) < 4) /\ ~(Len(rest) < total) /\ Parse(t, rest, total)
    BY <1>4 DEF ScanAt
  <2> QED BY <2>4, <2>5, <2>6
<1> QED BY <1>2, <1>3, <1>4 DEF Scan

LEMMA HeardIfPolled ==
    ASSUME BusInv, HeardInv, NEW t \in Thread, Poll(t)
    PROVE  HeardInv'
<1>1. CASE Fail(t)
  BY <1>1, HeardIfOver
<1>2. CASE Set(t, [th[t] EXCEPT !.at = "scan", !.buf = @ \o input, !.heard = @ \o input])
  <2> DEFINE c == th[t]
             new == [c EXCEPT !.at = "scan", !.buf = c.buf \o input, !.heard = c.heard \o input]
  <2>1. /\ c \in CallRecords /\ c.buf \in Seq(ByteRecords) /\ c.heard \in Seq(ByteRecords)
        /\ input \in Seq(ByteRecords) /\ HeardOK(c) /\ c.at = "poll"
    <3>1. c \in CallRecords /\ c.buf \in Seq(ByteRecords) /\ c.heard \in Seq(ByteRecords)
      BY CallOfThread
    <3>2. c.at = "poll"
      BY DEF Poll
    <3> QED BY <3>1, <3>2 DEF BusInv, TypeOK, HeardInv
  <2>2. Set(t, new)
    BY <1>2
  <2> HIDE DEF c
  <2>3. c.buf \o input \in Seq(ByteRecords) /\ c.heard \o input \in Seq(ByteRecords)
    BY <2>1, TagsOfConcat
  <2>4. new \in CallRecords
    BY <2>1, <2>3, BufferIsACall
  <2>5. /\ new.at = "scan" /\ new.buf = c.buf \o input /\ new.heard = c.heard \o input
        /\ new.split = c.split
    BY <2>1 DEF CallRecords
  <2> HIDE DEF new
  <2>6. ASSUME ~c.split
        PROVE  /\ IsTheEnd(c.buf \o input, c.heard \o input)
               /\ Skippable(c.heard \o input, Len(c.heard \o input) - Len(c.buf \o input))
    <3>1. IsTheEnd(c.buf, c.heard) /\ Skippable(c.heard, Len(c.heard) - Len(c.buf))
      BY <2>1, <2>6 DEF HeardOK
    <3> QED BY <2>1, <3>1, HeardGrows
  <2>7. HeardOK(new)
    BY <2>5, <2>6 DEF HeardOK
  <2> QED BY <2>2, <2>4, <2>7, HeardOfOne
<1> QED BY <1>1, <1>2 DEF Poll

(* Before a read is sent, nothing was heard. *)
LEMMA HeardIfNew ==
    ASSUME BusInv, HeardInv, NEW t \in Thread, th[t].at \notin {"poll", "scan"},
           NEW new \in CallRecords, Set(t, new), new.at # "scan",
           new.buf = th[t].buf, new.heard = th[t].heard, new.split = th[t].split
    PROVE  HeardInv'
<1>1. th[t].heard = <<>> /\ th[t].buf = <<>> /\ ~th[t].split
  BY DEF HeardInv, HeardOK
<1>2. Len(<<>>) = 0
  BY EmptySeq
<1>3. IsTheEnd(<<>>, <<>>) /\ Skippable(<<>>, Len(<<>>) - Len(<<>>)) /\ Waits(<<>>)
  BY <1>2 DEF IsTheEnd, Skippable, Waits
<1>4. HeardOK(new)
  BY <1>1, <1>3 DEF HeardOK
<1> QED BY <1>4, HeardOfOne

LEMMA HeardIfPrepared ==
    ASSUME BusInv, HeardInv, NEW t \in Thread,
           Call(t) \/ Check(t) \/ Acquire(t) \/ ResetInput(t) \/ Write(t) \/ Retry(t)
    PROVE  HeardInv'
<1>1. th[t] \in CallRecords /\ th[t].attempt \in Nat /\ sent + 1 \in Nat /\ Come \in SUBSET Nat
  BY CallOfThread DEF BusInv, TypeOK, Come
<1>2. th[t].at \notin {"poll", "scan"}
  BY DEF Call, Check, Acquire, ResetInput, Write, Retry, Ended
<1>3. ASSUME NEW new \in CallRecords, Set(t, new), new.at # "scan",
             new.buf = th[t].buf, new.heard = th[t].heard, new.split = th[t].split
      PROVE  HeardInv'
  BY <1>2, <1>3, HeardIfNew
<1>4. ASSUME NEW reads \in BOOLEAN, Set(t, [th[t] EXCEPT !.at = "check", !.reads = reads, !.attempt = 1])
      PROVE  HeardInv'
  <2> DEFINE new == [th[t] EXCEPT !.at = "check", !.reads = reads, !.attempt = 1]
  <2>1. new \in CallRecords
    BY <1>1, EnteringIsACall
  <2>2. new.at = "check" /\ new.buf = th[t].buf /\ new.heard = th[t].heard /\ new.split = th[t].split
    BY <1>1 DEF CallRecords
  <2> QED BY <1>3, <1>4, <2>1, <2>2
<1>5. ASSUME NEW at \in {"lock", "reset"}, Set(t, [th[t] EXCEPT !.at = at]) PROVE HeardInv'
  <2> DEFINE new == [th[t] EXCEPT !.at = at]
  <2>1. new \in CallRecords
    BY <1>1, EnteringIsACall DEF Holding
  <2>2. new.at = at /\ new.buf = th[t].buf /\ new.heard = th[t].heard /\ new.split = th[t].split
    BY <1>1 DEF CallRecords
  <2> QED BY <1>3, <1>5, <2>1, <2>2
<1>6. ASSUME Set(t, [th[t] EXCEPT !.at = "write", !.known = Come]) PROVE HeardInv'
  <2> DEFINE new == [th[t] EXCEPT !.at = "write", !.known = Come]
  <2>1. new \in CallRecords
    BY <1>1, EnteringIsACall DEF Holding
  <2>2. new.at = "write" /\ new.buf = th[t].buf /\ new.heard = th[t].heard /\ new.split = th[t].split
    BY <1>1 DEF CallRecords
  <2> QED BY <1>3, <1>6, <2>1, <2>2
<1>7. ASSUME Set(t, [th[t] EXCEPT !.at = "poll", !.request = sent + 1]) PROVE HeardInv'
  <2> DEFINE new == [th[t] EXCEPT !.at = "poll", !.request = sent + 1]
  <2>1. new \in CallRecords
    BY <1>1, EnteringIsACall DEF Holding
  <2>2. new.at = "poll" /\ new.buf = th[t].buf /\ new.heard = th[t].heard /\ new.split = th[t].split
    BY <1>1 DEF CallRecords
  <2> QED BY <1>3, <1>7, <2>1, <2>2
<1>8. ASSUME Set(t, [th[t] EXCEPT !.at = "check", !.attempt = th[t].attempt + 1]) PROVE HeardInv'
  <2> DEFINE new == [th[t] EXCEPT !.at = "check", !.attempt = th[t].attempt + 1]
  <2>0. th[t].attempt + 1 \in Nat
    BY <1>1
  <2>1. new \in CallRecords
    BY <1>1, <2>0, EnteringIsACall
  <2>2. new.at = "check" /\ new.buf = th[t].buf /\ new.heard = th[t].heard /\ new.split = th[t].split
    BY <1>1 DEF CallRecords
  <2> QED BY <1>3, <1>8, <2>1, <2>2
<1>9. ASSUME Fail(t) \/ Done(t) \/ (Set(t, Idle("raised")) /\ lock' = Free) PROVE HeardInv'
  <2>1. ASSUME Set(t, Idle("raised")) PROVE HeardInv'
    <3>1. Idle("raised") \in CallRecords /\ HeardOK(Idle("raised"))
      BY IdleIsACall, HeardOfIdle DEF Ended
    <3> QED BY <2>1, <3>1, HeardOfOne
  <2> QED BY <1>9, <2>1, HeardIfOver
<1>10. CASE Check(t)
  <2>1. \/ Set(t, [th[t] EXCEPT !.at = "lock"])
        \/ Fail(t)
    BY <1>10 DEF Check
  <2> QED BY <1>5, <1>9, <2>1
<1>11. CASE Write(t)
  <2>1. \/ Set(t, [th[t] EXCEPT !.at = "poll", !.request = sent + 1])
        \/ Fail(t) \/ Done(t) \/ (Set(t, Idle("raised")) /\ lock' = Free)
    BY <1>11 DEF Write
  <2> QED BY <1>7, <1>9, <2>1
<1> QED BY <1>4, <1>5, <1>6, <1>8, <1>9, <1>10, <1>11 DEF Call, Acquire, ResetInput, Retry

LEMMA HeardStep == BusInv /\ HeardInv /\ [Next]_vars => HeardInv'
<1> SUFFICES ASSUME BusInv, HeardInv, [Next]_vars PROVE HeardInv'
  OBVIOUS
<1>1. ASSUME NEW t \in Thread, Call(t) \/ Work(t) PROVE HeardInv'
  BY <1>1, HeardIfPrepared, HeardIfPolled, HeardIfScanned, HeardIfOver DEF Work, Deadline
<1>2. CASE Connect \/ Disconnect \/ Arm \/ UNCHANGED vars
  <2>1. th' = th
    BY <1>2 DEF Connect, Disconnect, Arm, Answer, Ignore, PrintOut, Arrive, vars
  <2> QED BY <2>1 DEF HeardInv
<1> QED BY <1>1, <1>2 DEF Next

LEMMA HeardMeansFound == BusInv /\ HeardInv => ReplyIsFound
<1> SUFFICES ASSUME BusInv, HeardInv, NEW t \in Thread, th[t].at = "poll", ~th[t].split,
                    NEW i \in 1..(Len(th[t].heard) - 6),
                    \A j \in 1..(i - 1) : th[t].heard[j].byte # Header,
                    SubSeq(th[t].heard, i, i + 6) \in Replies(th[t].heard[i].of)
             PROVE  FALSE
  BY DEF ReplyIsFound
<1> DEFINE h == th[t].heard
           buf == th[t].buf
           d == Len(h) - Len(buf)
<1>1. h \in Seq(ByteRecords) /\ buf \in Seq(ByteRecords)
  BY CallOfThread
<1>2. IsTheEnd(buf, h) /\ Skippable(h, d) /\ Waits(buf)
  BY DEF HeardInv, HeardOK
<1>3. /\ \A j \in 1..(i - 1) : h[j].byte # Header
      /\ SubSeq(h, i, i + 6) \in Replies(h[i].of)
      /\ i \in 1..(Len(h) - 6)
  OBVIOUS
<1> HIDE DEF h, buf, d
<1>4. Len(h) \in Nat /\ Len(buf) \in Nat /\ Len(h) = d + Len(buf) /\ d \in Nat
      /\ i \in 1..Len(h) /\ i + 6 <= Len(h)
  <2>1. Len(h) \in Nat /\ Len(buf) \in Nat /\ Len(buf) <= Len(h)
    BY <1>1, <1>2, LenProperties DEF IsTheEnd
  <2> QED BY <1>3, <2>1 DEF d
<1>5. \A j \in 1..Len(buf) : buf[j] = h[d + j]
  BY <1>2 DEF IsTheEnd, d
<1>6. /\ SubSeq(h, i, i + 6)[1].byte = Header /\ SubSeq(h, i, i + 6)[2].byte = Header
      /\ SubSeq(h, i, i + 6)[4].byte = 3
  <2>1. h[i] \in ByteRecords
    BY <1>1, <1>4, ElementOfSeq
  <2>2. h[i].of \in Nat
    BY <2>1 DEF ByteRecords
  <2> QED BY <1>3, <2>2, ReplyIsAFrame
<1>7. h[i].byte = Header /\ h[i + 1].byte = Header /\ h[i + 3].byte = 3
  <2>1. \A k \in 1..7 : SubSeq(h, i, i + 6)[k] = h[i + k - 1]
    BY <1>1, <1>4, SevenOfSeq
  <2>2. i + 1 - 1 = i /\ i + 2 - 1 = i + 1 /\ i + 4 - 1 = i + 3
    BY <1>4
  <2> QED BY <1>6, <2>1, <2>2
<1>8. i > d
  <2>1. ~NoAnswerAt(h, i)
    BY <1>3, <1>7 DEF NoAnswerAt
  <2>2. Begins(h, i)
    BY <1>3, <1>7 DEF Begins
  <2> QED BY <1>2, <1>4, <2>1, <2>2 DEF Skippable
<1>9. Len(buf) >= 7
  BY <1>4, <1>8
<1>10. buf[1].byte = Header /\ Len(buf) < 4 + buf[4].byte
  BY <1>2, <1>9 DEF Waits
<1>11. i = d + 1
  <2>1. buf[1] = h[d + 1] /\ d + 1 \in Nat
    BY <1>4, <1>5, <1>9
  <2>2. d + 1 \notin 1..(i - 1)
    BY <1>3, <1>10, <2>1
  <2> QED BY <1>4, <1>8, <2>1, <2>2
<1>12. buf[4].byte = 3
  <2>1. 4 \in 1..Len(buf) /\ d + 4 = i + 3
    BY <1>4, <1>9, <1>11
  <2> QED BY <1>5, <1>7, <2>1
<1> QED BY <1>4, <1>9, <1>10, <1>12

(* A whole answer is found as soon as it is there, however it was cut on   *)
(* the way (motors/nexarm.py, _try_parse): what a poll leaves in its       *)
(* buffer begins with the first header byte an answer can begin with.      *)
THEOREM RepliesAreFound == Spec => []ReplyIsFound
<1>1. Init => HeardInv
  <2> SUFFICES ASSUME Init PROVE HeardInv
    OBVIOUS
  <2>1. \A t \in Thread : th[t] = Idle("idle")
    BY DEF Init
  <2>2. HeardOK(Idle("idle"))
    BY HeardOfIdle DEF Ended
  <2> QED BY <2>1, <2>2 DEF HeardInv
<1>2. BusInv /\ HeardInv /\ [Next]_vars => HeardInv'
  BY HeardStep
<1>3. BusInv /\ HeardInv => ReplyIsFound
  BY HeardMeansFound
<1> QED BY <1>1, <1>2, <1>3, OneAtATime, PTL DEF Spec
=============================================================================
