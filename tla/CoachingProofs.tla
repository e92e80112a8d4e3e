--------------------------- MODULE CoachingProofs ---------------------------
(***************************************************************************)
(* Theorems about a coaching session, for any number of clients, episodes  *)
(* and dropped corrections: an operator who corrects drags a free leader,  *)
(* a dropped correction is one that was asked to be and gets its slot      *)
(* back, and both arms are released.                                       *)
(***************************************************************************)
EXTENDS Coaching, FiniteSetTheorems, SequenceTheorems, TLAPS

USE ClientsAssumption, EpisodesAssumption, DropsAssumption, FaultyAssumption

Steps == Seq([event : Event, reaches : Phase])

Chains == [at : {"free", "request", "wait", "then", "move", "track", "moving"},
           action : Action \cup {"none"}, left : Steps]

Requests == [at : {"idle", "drop", "slot", "clear", "chain"},
             action : Action \cup {"none"}, phase : Phase]

-----------------------------------------------------------------------------
(* Plans *)

LEMMA OneStep ==
    ASSUME NEW p \in Phase, NEW e \in Event, NEW q \in Phase, q # p, q = Transition(p, e)
    PROVE  /\ <<Step(e, q)>> \in Steps /\ <<Step(e, q)>> # <<>>
           /\ Leads(p, <<Step(e, q)>>)
           /\ \A i \in 1..Len(<<Step(e, q)>>) : <<Step(e, q)>>[i].reaches = q
BY DEF Leads, Step, Steps

LEMMA TwoSteps ==
    ASSUME NEW p \in Phase, NEW e \in Event, NEW q \in Phase, q # p, q = Transition(p, e),
           NEW f \in Event, NEW r \in Phase, r # q, r = Transition(q, f)
    PROVE  /\ <<Step(e, q), Step(f, r)>> \in Steps /\ <<Step(e, q), Step(f, r)>> # <<>>
           /\ Leads(p, <<Step(e, q), Step(f, r)>>)
           /\ \A i \in 1..Len(<<Step(e, q), Step(f, r)>>) :
                 <<Step(e, q), Step(f, r)>>[i].reaches \in {q, r}
<1> DEFINE s == <<Step(e, q), Step(f, r)>>
<1>1. Len(s) = 2 /\ s[1] = Step(e, q) /\ s[2] = Step(f, r)
  OBVIOUS
<1>2. s \in Steps
  BY DEF Step, Steps
<1>3. /\ s # <<>>
      /\ s[1].event = e /\ s[1].reaches = q /\ s[2].event = f /\ s[2].reaches = r
  BY <1>1 DEF Step
<1> HIDE DEF s
<1>4. Leads(p, s)
  BY <1>1, <1>3 DEF Leads
<1> QED BY <1>1, <1>2, <1>3, <1>4 DEF s

(* Every plan leads from its phase, step by step; only a takeover reaches  *)
(* "correcting", and only a reset may have nothing to ask for.             *)
LEMMA PlansLead ==
    ASSUME NEW a \in Action, NEW p \in DOMAIN Plans[a]
    PROVE  /\ p \in Phase /\ Plans[a][p] \in Steps
           /\ Leads(p, Plans[a][p])
           /\ Plans[a][p] = <<>> => a = "reset" /\ p = "paused"
           /\ Reaches(Plans[a][p], "correcting") => a \in Handovers
           /\ a = "reset" => \A i \in 1..Len(Plans[a][p]) : Plans[a][p][i].reaches = "paused"
           /\ a = "drop_last" => p = "correcting" /\ Plans[a][p] = <<Step("correction", "paused")>>
<1> USE DEF Phase, Event, Transition, Handovers, Reaches
<1>1. a \in {"takeover", "handback", "hold", "resume", "drop_last", "reset"}
  BY DEF Action, Plans
<1>2. CASE a = "takeover"
  <2>1. Plans[a] = [autonomous |-> <<Step("pause_resume", "paused"), Step("correction", "correcting")>>,
                    paused |-> <<Step("correction", "correcting")>>]
    BY <1>2 DEF Plans
  <2>2. \/ p = "autonomous" /\ Plans[a][p] = <<Step("pause_resume", "paused"), Step("correction", "correcting")>>
        \/ p = "paused" /\ Plans[a][p] = <<Step("correction", "correcting")>>
    BY <2>1
  <2>3. CASE p = "autonomous"
    <3>1. Transition("autonomous", "pause_resume") = "paused" /\ Transition("paused", "correction") = "correcting"
      OBVIOUS
    <3>2. LET s == <<Step("pause_resume", "paused"), Step("correction", "correcting")>> IN
          /\ s \in Steps /\ s # <<>> /\ Leads("autonomous", s)
          /\ \A i \in 1..Len(s) : s[i].reaches \in {"paused", "correcting"}
      BY <3>1, TwoSteps
    <3> QED BY <1>2, <2>2, <2>3, <3>2
  <2>4. CASE p = "paused"
    BY <1>2, <2>2, <2>4, OneStep
  <2> QED BY <2>2, <2>3, <2>4
<1>3. CASE a = "handback"
  <2>1. Plans[a] = [correcting |-> <<Step("correction", "paused"), Step("pause_resume", "autonomous")>>,
                    paused |-> <<Step("pause_resume", "autonomous")>>]
    BY <1>3 DEF Plans
  <2>2. \/ p = "correcting" /\ Plans[a][p] = <<Step("correction", "paused"), Step("pause_resume", "autonomous")>>
        \/ p = "paused" /\ Plans[a][p] = <<Step("pause_resume", "autonomous")>>
    BY <2>1
  <2>3. CASE p = "correcting"
    <3>1. Transition("correcting", "correction") = "paused" /\ Transition("paused", "pause_resume") = "autonomous"
      OBVIOUS
    <3>2. LET s == <<Step("correction", "paused"), Step("pause_resume", "autonomous")>> IN
          /\ s \in Steps /\ s # <<>> /\ Leads("correcting", s)
          /\ \A i \in 1..Len(s) : s[i].reaches \in {"paused", "autonomous"}
      BY <3>1, TwoSteps
    <3> QED BY <1>3, <2>2, <2>3, <3>2
  <2>4. CASE p = "paused"
    BY <1>3, <2>2, <2>4, OneStep
  <2> QED BY <2>2, <2>3, <2>4
<1>4. CASE a = "hold"
  <2>1. p = "autonomous" /\ Plans[a][p] = <<Step("pause_resume", "paused")>>
    BY <1>4 DEF Plans
  <2> QED BY <1>4, <2>1, OneStep
<1>5. CASE a = "resume"
  <2>1. p = "paused" /\ Plans[a][p] = <<Step("pause_resume", "autonomous")>>
    BY <1>5 DEF Plans
  <2> QED BY <1>5, <2>1, OneStep
<1>6. CASE a = "drop_last"
  <2>1. p = "correcting" /\ Plans[a][p] = <<Step("correction", "paused")>>
    BY <1>6 DEF Plans
  <2> QED BY <1>6, <2>1, OneStep
<1>7. CASE a = "reset"
  <2>1. Plans[a] = [autonomous |-> <<Step("pause_resume", "paused")>>,
                    paused |-> <<>>]
    BY <1>7 DEF Plans
  <2>2. \/ p = "autonomous" /\ Plans[a][p] = <<Step("pause_resume", "paused")>>
        \/ p = "paused" /\ Plans[a][p] = <<>>
    BY <2>1
  <2>3. <<>> \in Steps /\ Len(<<>>) = 0
    BY DEF Steps
  <2>4. Leads(p, <<>>)
    BY <2>3 DEF Leads
  <2> QED BY <1>7, <2>2, <2>3, <2>4, OneStep
<1> QED BY <1>1, <1>2, <1>3, <1>4, <1>5, <1>6, <1>7

(* What is left of a plan after its first step leads on from there. *)
LEMMA StepLeads ==
    ASSUME NEW p \in Phase, NEW s \in Steps, s # <<>>
    PROVE  /\ Head(s) \in [event : Event, reaches : Phase] /\ Tail(s) \in Steps
           /\ Leads(p, s) =>
                 /\ Head(s).reaches # p /\ Head(s).reaches = Transition(p, Head(s).event)
                 /\ Leads(Head(s).reaches, Tail(s))
           /\ \A q : Head(s).reaches = q \/ Reaches(Tail(s), q) => Reaches(s, q)
           /\ \A q : (\A i \in 1..Len(s) : s[i].reaches = q) =>
                        Head(s).reaches = q /\ \A i \in 1..Len(Tail(s)) : Tail(s)[i].reaches = q
<1>1. /\ Head(s) \in [event : Event, reaches : Phase]
      /\ Tail(s) \in Steps
      /\ Len(Tail(s)) = Len(s) - 1
      /\ \A i \in 1..Len(Tail(s)) : Tail(s)[i] = s[i + 1]
  BY HeadTailProperties DEF Steps
<1>2. Head(s) = s[1] /\ Len(s) \in Nat \ {0} /\ 1 \in 1..Len(s)
  BY DEF Steps
<1>3. \A i \in 1..Len(Tail(s)) : i + 1 \in 1..Len(s) /\ i + 1 # 1 /\ (i + 1) - 1 = i
  BY <1>1, <1>2
<1>4. ASSUME Leads(p, s)
      PROVE  Leads(Head(s).reaches, Tail(s))
  <2> SUFFICES ASSUME NEW i \in 1..Len(Tail(s))
               PROVE  LET from == IF i = 1 THEN Head(s).reaches ELSE Tail(s)[i - 1].reaches IN
                      Tail(s)[i].reaches # from /\ Tail(s)[i].reaches = Transition(from, Tail(s)[i].event)
    BY DEF Leads
  <2>1. /\ s[i + 1].reaches # s[i].reaches
        /\ s[i + 1].reaches = Transition(s[i].reaches, s[i + 1].event)
    BY <1>3, <1>4 DEF Leads
  <2>2. s[i].reaches = IF i = 1 THEN Head(s).reaches ELSE Tail(s)[i - 1].reaches
    <3>1. CASE i = 1
      BY <3>1, <1>2
    <3>2. CASE i # 1
      <4>1. i - 1 \in 1..Len(Tail(s)) /\ (i - 1) + 1 = i
        BY <3>2, <1>1, <1>2
      <4> QED BY <4>1, <3>2, <1>1
    <3> QED BY <3>1, <3>2
  <2> QED BY <1>1, <2>1, <2>2
<1>5. Leads(p, s) => Head(s).reaches # p /\ Head(s).reaches = Transition(p, Head(s).event)
  BY <1>2 DEF Leads
<1>6. \A q : Head(s).reaches = q \/ Reaches(Tail(s), q) => Reaches(s, q)
  BY <1>1, <1>2, <1>3 DEF Reaches
<1>7. \A q : (\A i \in 1..Len(s) : s[i].reaches = q) =>
                Head(s).reaches = q /\ \A i \in 1..Len(Tail(s)) : Tail(s)[i].reaches = q
  BY <1>1, <1>2, <1>3
<1> QED BY <1>1, <1>4, <1>5, <1>6, <1>7

LEMMA BeginTyped ==
    ASSUME NEW a \in Action \cup {"none"}, NEW s \in Steps
    PROVE  /\ Begin(a, s) \in Chains
           /\ Begin(a, s).at = IF s = <<>> THEN "then" ELSE "request"
           /\ Begin(a, s).action = a
           /\ Begin(a, s).left = s
BY DEF Begin, Chains

LEMMA NothingFollows ==
    ASSUME NEW x \in [event : Event, reaches : Phase]
    PROVE  Tail(<<x>>) = <<>>
OBVIOUS

-----------------------------------------------------------------------------
(* What a step may do to the counts *)

Slots == {c \in Client : req[c].at = "slot"}
Dropping == {c \in Client : req[c].at \in {"drop", "slot"}}

LEMMA Counts ==
    /\ IsFiniteSet(Slots) /\ IsFiniteSet(Dropping)
    /\ Cardinality(Slots) \in Nat /\ Cardinality(Dropping) \in Nat
<1>1. Slots \in SUBSET Client /\ Dropping \in SUBSET Client
  BY DEF Slots, Dropping
<1> QED BY <1>1, FS_Subset, FS_CardinalityType

(* The requests and the counts are left alone. *)
LEMMA RequestsAlone ==
    ASSUME CoachingInv, UNCHANGED <<req, target, discarded, discardNext>>,
           worker = "over" => worker' = "over"
    PROVE  RequestInv' /\ BoundInv' /\ SlotsGivenBack'
<1>1. RequestInv'
  BY DEF CoachingInv, RequestInv
<1>2. BoundInv'
  BY DEF CoachingInv, BoundInv, DropsAsked
<1>3. SlotsGivenBack'
  BY DEF CoachingInv, SlotsGivenBack
<1> QED BY <1>1, <1>2, <1>3

(* One request goes to another place. *)
LEMMA CountsAfter ==
    ASSUME NEW c \in Client, \A d \in Client : d # c => req'[d] = req[d]
    PROVE  /\ Cardinality(Slots') = Cardinality(Slots) + (IF req'[c].at = "slot" THEN 1 ELSE 0)
                                                       - (IF req[c].at = "slot" THEN 1 ELSE 0)
           /\ Cardinality(Dropping') =
                 Cardinality(Dropping) + (IF req'[c].at \in {"drop", "slot"} THEN 1 ELSE 0)
                                       - (IF req[c].at \in {"drop", "slot"} THEN 1 ELSE 0)
<1>2. Slots' = IF req'[c].at = "slot" THEN Slots \cup {c} ELSE Slots \ {c}
  BY DEF Slots
<1>3. Dropping' = IF req'[c].at \in {"drop", "slot"} THEN Dropping \cup {c} ELSE Dropping \ {c}
  BY DEF Dropping
<1>4. c \in Slots <=> req[c].at = "slot"
  BY DEF Slots
<1>5. c \in Dropping <=> req[c].at \in {"drop", "slot"}
  BY DEF Dropping
<1>6. Cardinality(Slots \cup {c}) = IF c \in Slots THEN Cardinality(Slots) ELSE Cardinality(Slots) + 1
  BY Counts, FS_AddElement
<1>7. Cardinality(Slots \ {c}) = IF c \in Slots THEN Cardinality(Slots) - 1 ELSE Cardinality(Slots)
  BY Counts, FS_RemoveElement
<1>8. Cardinality(Dropping \cup {c}) =
         IF c \in Dropping THEN Cardinality(Dropping) ELSE Cardinality(Dropping) + 1
  BY Counts, FS_AddElement
<1>9. Cardinality(Dropping \ {c}) =
         IF c \in Dropping THEN Cardinality(Dropping) - 1 ELSE Cardinality(Dropping)
  BY Counts, FS_RemoveElement
<1>10. Cardinality(Slots') = Cardinality(Slots) + (IF req'[c].at = "slot" THEN 1 ELSE 0)
                                                - (IF req[c].at = "slot" THEN 1 ELSE 0)
  BY <1>2, <1>4, <1>6, <1>7, Counts
<1>11. Cardinality(Dropping') =
          Cardinality(Dropping) + (IF req'[c].at \in {"drop", "slot"} THEN 1 ELSE 0)
                                - (IF req[c].at \in {"drop", "slot"} THEN 1 ELSE 0)
  BY <1>3, <1>5, <1>8, <1>9, Counts
<1> QED BY <1>10, <1>11

LEMMA Counted ==
    /\ DropsAsked = target - Episodes + Cardinality(Dropping)
    /\ SlotsGivenBack <=>
          (worker # "over" => target + Cardinality(Slots)
                                  >= Episodes + discarded + (IF discardNext THEN 1 ELSE 0))
BY DEF DropsAsked, SlotsGivenBack, Slots, Dropping

LEMMA CountedNext ==
    /\ DropsAsked' = target' - Episodes + Cardinality(Dropping')
    /\ SlotsGivenBack' <=>
          (worker' # "over" => target' + Cardinality(Slots')
                                  >= Episodes + discarded' + (IF discardNext' THEN 1 ELSE 0))
BY DEF DropsAsked, SlotsGivenBack, Slots, Dropping

-----------------------------------------------------------------------------
(* What a step may do to the helper and to the leader *)

LEMMA ChainTyped ==
    ASSUME TypeOK
    PROVE  /\ chain \in Chains /\ Free \in Chains
           /\ \A label \in {"free", "request", "wait", "then", "move", "track", "moving"} :
                 LET after == [chain EXCEPT !.at = label] IN
                 /\ after \in Chains /\ after.at = label
                 /\ after.action = chain.action /\ after.left = chain.left
<1>1. chain \in Chains
  BY DEF TypeOK, Chains, Steps
<1>2. <<>> \in Steps
  BY DEF Steps
<1>3. Free \in Chains
  BY <1>2 DEF Free, Chains
<1>4. ASSUME NEW label \in {"free", "request", "wait", "then", "move", "track", "moving"}
      PROVE  LET after == [chain EXCEPT !.at = label] IN
             /\ after \in Chains /\ after.at = label
             /\ after.action = chain.action /\ after.left = chain.left
  BY <1>1 DEF Chains
<1> QED BY <1>1, <1>3, <1>4

-----------------------------------------------------------------------------
(* One step *)

(* start() builds the context, or fails. *)
LEMMA BuildContextKeeps ==
    ASSUME CoachingInv, BuildContext
    PROVE  CoachingInv'
<1> USE DEF CoachingInv, countVars, armVars
<1>1. TypeOK'
  <2>1. energised' \in BOOLEAN
    BY DEF BuildContext
  <2> QED BY <2>1 DEF TypeOK, Phase, Mishap, BuildContext
<1>2. FreshInv'
  BY DEF FreshInv, TypeOK, BuildContext
<1>3. LoopInv'
  BY DEF LoopInv, TypeOK, BuildContext
<1>4. LeaderInv'
  BY DEF LeaderInv, TypeOK, Stopping, FreshInv, Free, BuildContext
<1>5. ChainInv'
  BY DEF ChainInv, Ordinary, TypeOK, FreshInv, Free, BuildContext
<1>6. HoldInv'
  BY DEF HoldInv, Ordinary, TypeOK, BuildContext
<1>7. MarkInv'
  BY DEF MarkInv, Ordinary, TypeOK, BuildContext
<1>8. ArmsReleased'
  BY DEF ArmsReleased, TypeOK, BuildContext
<1>9. RequestInv' /\ BoundInv' /\ SlotsGivenBack'
  <2> HIDE DEF CoachingInv
  <2> QED BY RequestsAlone DEF BuildContext
<1> QED BY <1>1, <1>2, <1>3, <1>4, <1>5, <1>6, <1>7, <1>8, <1>9

(* start() is through, or releases what it had built. *)
LEMMA PrepareKeeps ==
    ASSUME CoachingInv, Prepare
    PROVE  CoachingInv'
<1> USE DEF CoachingInv, countVars, armVars
<1>1. TypeOK'
  BY DEF TypeOK, Phase, Mishap, Prepare, LoopAt
<1>2. FreshInv'
  BY DEF FreshInv, TypeOK, Prepare, LoopAt
<1>3. LoopInv'
  BY DEF LoopInv, TypeOK, FreshInv, Prepare, LoopAt
<1>4. LeaderInv'
  BY DEF LeaderInv, TypeOK, Stopping, FreshInv, Free, Prepare, LoopAt
<1>5. ChainInv'
  BY DEF ChainInv, Ordinary, TypeOK, FreshInv, Free, Prepare, LoopAt
<1>6. HoldInv'
  BY DEF HoldInv, Ordinary, TypeOK, FreshInv, Free, Prepare, LoopAt
<1>7. MarkInv'
  BY DEF MarkInv, Ordinary, TypeOK, FreshInv, Free, Prepare, LoopAt
<1>8. ArmsReleased'
  BY DEF ArmsReleased, TypeOK, Prepare, LoopAt
<1>9. RequestInv' /\ BoundInv' /\ SlotsGivenBack'
  <2> HIDE DEF CoachingInv
  <2> QED BY RequestsAlone DEF Prepare, LoopAt
<1> QED BY <1>1, <1>2, <1>3, <1>4, <1>5, <1>6, <1>7, <1>8, <1>9

(* The episodes are cut short. *)
LEMMA FinishKeeps ==
    ASSUME CoachingInv, Finish
    PROVE  CoachingInv'
<1> USE DEF CoachingInv, countVars, armVars
<1>1. TypeOK'
  BY DEF TypeOK, Phase, Mishap, Finish, LoopAt
<1>2. FreshInv'
  BY DEF FreshInv, TypeOK, Finish, LoopAt
<1>3. LoopInv'
  BY DEF LoopInv, TypeOK, Finish, LoopAt
<1>4. LeaderInv'
  BY DEF LeaderInv, TypeOK, Stopping, Finish, LoopAt
<1>5. ChainInv'
  BY DEF ChainInv, Ordinary, TypeOK, Finish, LoopAt
<1>6. HoldInv'
  BY DEF HoldInv, Ordinary, TypeOK, Finish, LoopAt
<1>7. MarkInv'
  BY DEF MarkInv, Ordinary, TypeOK, Finish, LoopAt
<1>8. ArmsReleased'
  BY DEF ArmsReleased, TypeOK, Finish, LoopAt
<1>9. RequestInv' /\ BoundInv' /\ SlotsGivenBack'
  <2> HIDE DEF CoachingInv
  <2> QED BY RequestsAlone DEF Finish, LoopAt
<1> QED BY <1>1, <1>2, <1>3, <1>4, <1>5, <1>6, <1>7, <1>8, <1>9

(* A request reads the phase and looks its plan up. *)
LEMMA AskKeeps ==
    ASSUME CoachingInv, NEW c \in Client, NEW a \in Action, Ask(c, a)
    PROVE  CoachingInv'
<1> USE DEF CoachingInv, countVars, armVars
<1>0. /\ Cardinality(Slots') = Cardinality(Slots)
      /\ Cardinality(Dropping') = Cardinality(Dropping) + (IF a = "drop_last" THEN 1 ELSE 0)
  <2>1. /\ req[c].at = "idle" /\ req'[c].at # "slot"
        /\ req'[c].at \in {"drop", "slot"} <=> a = "drop_last"
        /\ \A d \in Client : d # c => req'[d] = req[d]
    BY DEF TypeOK, Ask
  <2> QED BY <2>1, CountsAfter, Counts
<1>1. TypeOK'
  BY DEF TypeOK, Phase, Mishap, Ask
<1>2. FreshInv'
  BY DEF FreshInv, TypeOK, Ask
<1>3. LoopInv'
  BY DEF LoopInv, TypeOK, Ask
<1>4. LeaderInv'
  BY DEF LeaderInv, TypeOK, Stopping, Ask
<1>5. ChainInv'
  BY DEF ChainInv, Ordinary, TypeOK, Ask
<1>6. HoldInv'
  BY DEF HoldInv, Ordinary, TypeOK, Ask
<1>7. MarkInv'
  <2>1. ASSUME NEW d \in Client, req[d].action = "drop_last"
        PROVE  req'[d].action = "drop_last"
    BY <2>1 DEF TypeOK, RequestInv, Ask
  <2> QED BY <2>1 DEF MarkInv, Ordinary, TypeOK, Ask
<1>8. ArmsReleased'
  BY DEF ArmsReleased, TypeOK, Ask
<1>9. RequestInv'
  BY DEF RequestInv, TypeOK, Ask
<1>10. BoundInv'
  BY <1>0, Counted, CountedNext, Counts DEF BoundInv, TypeOK, Ask
<1>11. SlotsGivenBack'
  BY <1>0, Counted, CountedNext, Counts DEF TypeOK, Ask
<1> QED BY <1>1, <1>2, <1>3, <1>4, <1>5, <1>6, <1>7, <1>8, <1>9, <1>10, <1>11

(* A drop_last leaves its mark. *)
LEMMA MarkDropKeeps ==
    ASSUME CoachingInv, NEW c \in Client, MarkDrop(c)
    PROVE  CoachingInv'
<1> USE DEF CoachingInv, countVars, armVars
<1>0. /\ Cardinality(Slots') = Cardinality(Slots) + 1
      /\ Cardinality(Dropping') = Cardinality(Dropping)
  <2>1. /\ req[c].at = "drop" /\ req'[c].at = "slot"
        /\ \A d \in Client : d # c => req'[d] = req[d]
    BY DEF TypeOK, MarkDrop, Advance
  <2> QED BY <2>1, CountsAfter, Counts
<1>1. TypeOK'
  <2>1. req' \in [Client -> Requests]
    <3>1. req \in [Client -> Requests] /\ req' = [req EXCEPT ![c].at = "slot"]
      BY DEF TypeOK, Requests, MarkDrop, Advance
    <3>2. [req[c] EXCEPT !.at = "slot"] \in Requests
      BY <3>1 DEF Requests
    <3> QED BY <3>1, <3>2
  <2>2. discardNext' \in BOOLEAN
    BY DEF MarkDrop, Advance
  <2> QED BY <2>1, <2>2 DEF TypeOK, Phase, Mishap, Requests, MarkDrop, Advance
<1>2. FreshInv'
  <2>1. req[c] # Idle /\ worker' = worker
    BY DEF Idle, MarkDrop, Advance
  <2> QED BY <2>1 DEF FreshInv
<1>3. LoopInv'
  BY DEF LoopInv, TypeOK, MarkDrop, Advance
<1>4. LeaderInv'
  BY DEF LeaderInv, TypeOK, Stopping, MarkDrop, Advance
<1>5. ChainInv'
  BY DEF ChainInv, Ordinary, TypeOK, MarkDrop, Advance
<1>6. HoldInv'
  BY DEF HoldInv, Ordinary, TypeOK, MarkDrop, Advance
<1>7. MarkInv'
  <2>1. req'[c].action = "drop_last"
    BY DEF TypeOK, RequestInv, MarkDrop, Advance
  <2> QED BY <2>1 DEF MarkInv, Ordinary, TypeOK, MarkDrop
<1>8. ArmsReleased'
  BY DEF ArmsReleased, TypeOK, MarkDrop, Advance
<1>9. RequestInv'
  BY DEF RequestInv, TypeOK, MarkDrop, Advance
<1>10. BoundInv'
  BY <1>0, Counted, CountedNext, Counts DEF BoundInv, TypeOK, MarkDrop
<1>11. SlotsGivenBack'
  BY <1>0, Counted, CountedNext, Counts DEF TypeOK, MarkDrop
<1> QED BY <1>1, <1>2, <1>3, <1>4, <1>5, <1>6, <1>7, <1>8, <1>9, <1>10, <1>11

(* The slot of the dropped take is given back. *)
LEMMA GiveSlotBackKeeps ==
    ASSUME CoachingInv, NEW c \in Client, GiveSlotBack(c)
    PROVE  CoachingInv'
<1> USE DEF CoachingInv, countVars, armVars
<1>0. /\ Cardinality(Slots') = Cardinality(Slots) - 1
      /\ Cardinality(Dropping') = Cardinality(Dropping) - 1
  <2>1. /\ req[c].at = "slot" /\ req'[c].at \in {"chain", "idle"}
        /\ \A d \in Client : d # c => req'[d] = req[d]
    BY DEF TypeOK, GiveSlotBack, Advance, Idle
  <2> QED BY <2>1, CountsAfter, Counts
<1>00. target' \in {target, target + 1} /\ (worker # "over" => target' = target + 1)
  BY DEF GiveSlotBack
<1>1. TypeOK'
  <2>1. req' \in [Client -> Requests]
    <3>1. [req[c] EXCEPT !.at = "chain"] \in Requests
      <4>1. req[c] \in Requests
        BY DEF TypeOK, Requests
      <4> HIDE DEF CoachingInv
      <4> QED BY <4>1 DEF Requests
    <3>2. req' \in {[req EXCEPT ![c] = [req[c] EXCEPT !.at = "chain"]], [req EXCEPT ![c] = Idle]}
      BY DEF GiveSlotBack, Advance
    <3>3. req \in [Client -> Requests]
      BY DEF TypeOK, Requests
    <3>4. Idle \in Requests
      BY DEF Idle, Requests, Phase
    <3> QED BY <3>1, <3>2, <3>3, <3>4
  <2>2. target' \in Episodes..(Episodes + MaxDrops)
    <3>1. target + 1 \in Episodes..(Episodes + MaxDrops)
      <4>1. c \in Dropping
        BY DEF Dropping, GiveSlotBack
      <4>2. Cardinality(Dropping) # 0
        BY <4>1, Counts, FS_EmptySet
      <4> QED BY <4>2, Counted, Counts DEF TypeOK, BoundInv
    <3> QED BY <3>1, <1>00 DEF TypeOK
  <2> QED BY <2>1, <2>2 DEF TypeOK, Phase, Mishap, Requests, GiveSlotBack, Advance, Idle
<1>2. FreshInv'
  BY DEF FreshInv, TypeOK, GiveSlotBack, Advance, Idle
<1>3. LoopInv'
  BY DEF LoopInv, TypeOK, GiveSlotBack, Advance, Idle
<1>4. LeaderInv'
  BY DEF LeaderInv, TypeOK, Stopping, GiveSlotBack, Advance, Idle
<1>5. ChainInv'
  BY DEF ChainInv, Ordinary, TypeOK, GiveSlotBack, Advance, Idle
<1>6. HoldInv'
  BY DEF HoldInv, Ordinary, TypeOK, GiveSlotBack, Advance, Idle
<1>7. MarkInv'
  BY DEF MarkInv, Ordinary, TypeOK, GiveSlotBack, Advance, Idle
<1>8. ArmsReleased'
  BY DEF ArmsReleased, TypeOK, GiveSlotBack, Advance, Idle
<1>9. RequestInv'
  BY DEF RequestInv, TypeOK, GiveSlotBack, Advance, Idle
<1>10. BoundInv'
  BY <1>0, <1>00, Counted, CountedNext, Counts DEF BoundInv, TypeOK
<1>11. SlotsGivenBack'
  BY <1>0, <1>00, Counted, CountedNext, Counts, SMTT(30) DEF TypeOK, GiveSlotBack
<1> QED BY <1>1, <1>2, <1>3, <1>4, <1>5, <1>6, <1>7, <1>8, <1>9, <1>10, <1>11

(* A handover to come lets go of the hold. *)
LEMMA ClearHoldKeeps ==
    ASSUME CoachingInv, NEW c \in Client, ClearHold(c)
    PROVE  CoachingInv'
<1> USE DEF CoachingInv, countVars, armVars
<1>0. /\ Cardinality(Slots') = Cardinality(Slots)
      /\ Cardinality(Dropping') = Cardinality(Dropping)
  <2>1. /\ req[c].at = "clear" /\ req'[c].at = "chain"
        /\ \A d \in Client : d # c => req'[d] = req[d]
    BY DEF TypeOK, ClearHold, Advance
  <2> QED BY <2>1, CountsAfter, Counts
<1>1. TypeOK'
  <2>1. req' \in [Client -> Requests]
    <3>1. req \in [Client -> Requests] /\ req' = [req EXCEPT ![c].at = "chain"]
      BY DEF TypeOK, Requests, ClearHold, Advance
    <3>2. [req[c] EXCEPT !.at = "chain"] \in Requests
      BY <3>1 DEF Requests
    <3> QED BY <3>1, <3>2
  <2>2. hold' \in BOOLEAN
    BY DEF ClearHold, Advance
  <2> QED BY <2>1, <2>2 DEF TypeOK, Phase, Mishap, Requests, ClearHold, Advance
<1>2. FreshInv'
  <2>1. req[c] # Idle /\ worker' = worker
    BY DEF Idle, ClearHold, Advance
  <2> QED BY <2>1 DEF FreshInv
<1>3. LoopInv'
  BY DEF LoopInv, TypeOK, ClearHold, Advance
<1>4. LeaderInv'
  BY DEF LeaderInv, TypeOK, Stopping, ClearHold, Advance
<1>5. ChainInv'
  BY DEF ChainInv, Ordinary, TypeOK, ClearHold, Advance
<1>6. HoldInv'
  BY DEF HoldInv, Ordinary, TypeOK, ClearHold, Advance
<1>7. MarkInv'
  BY DEF MarkInv, Ordinary, TypeOK, ClearHold, Advance
<1>8. ArmsReleased'
  BY DEF ArmsReleased, TypeOK, ClearHold, Advance
<1>9. RequestInv'
  BY DEF RequestInv, TypeOK, ClearHold, Advance
<1>10. BoundInv'
  BY <1>0, Counted, CountedNext, Counts DEF BoundInv, TypeOK, ClearHold
<1>11. SlotsGivenBack'
  BY <1>0, Counted, CountedNext, Counts DEF TypeOK, ClearHold
<1> QED BY <1>1, <1>2, <1>3, <1>4, <1>5, <1>6, <1>7, <1>8, <1>9, <1>10, <1>11

(* A request takes the lock, or is refused. *)
LEMMA TakeChainKeeps ==
    ASSUME CoachingInv, NEW c \in Client, TakeChain(c)
    PROVE  CoachingInv'
<1> USE DEF CoachingInv, countVars, armVars
<1>0. /\ Cardinality(Slots') = Cardinality(Slots)
      /\ Cardinality(Dropping') = Cardinality(Dropping)
  <2>1. /\ req[c].at = "chain" /\ req'[c].at = "idle"
        /\ \A d \in Client : d # c => req'[d] = req[d]
    BY DEF TypeOK, TakeChain, Idle
  <2> QED BY <2>1, CountsAfter, Counts
<1>01. ASSUME chain.at # "free"
      PROVE  /\ chain' = chain /\ mishap \subseteq mishap'
             /\ req[c].action = "drop_last" => "refused" \in mishap'
  BY <1>01 DEF TakeChain
<1>02. ASSUME chain.at = "free"
      PROVE  /\ chain = Free
             /\ mishap \subseteq mishap'
             /\ "stray" \notin mishap' =>
                   /\ events.phase = req[c].phase
                   /\ req[c].action \in Handovers => ~hold
                   /\ req[c].action = "drop_last" => discardNext
             /\ chain' = Begin(req[c].action, Plans[req[c].action][req[c].phase])
  BY <1>02 DEF TakeChain, ChainInv
<1>03. req[c].action \in Action /\ req[c].phase \in DOMAIN Plans[req[c].action]
  BY DEF RequestInv, TakeChain
<1>04. UNCHANGED <<worker, events, loop, hold, discardNext, leader>>
  BY DEF TakeChain
<1>05. ASSUME chain.at = "free"
       PROVE  LET steps == Plans[req[c].action][req[c].phase] IN
              /\ chain'.at = IF steps = <<>> THEN "then" ELSE "request"
              /\ chain'.action = req[c].action
              /\ chain'.left = steps
  BY <1>02, <1>03, <1>05, PlansLead, BeginTyped
<1>06. LET steps == Plans[req[c].action][req[c].phase] IN
       /\ Leads(req[c].phase, steps)
       /\ steps = <<>> => req[c].action = "reset" /\ req[c].phase = "paused"
       /\ Reaches(steps, "correcting") => req[c].action \in Handovers
       /\ req[c].action = "reset" => \A i \in 1..Len(steps) : steps[i].reaches = "paused"
       /\ req[c].action = "drop_last" =>
             req[c].phase = "correcting" /\ steps = <<Step("correction", "paused")>>
  BY <1>03, PlansLead
<1>1. TypeOK'
  <2>1. req' \in [Client -> Requests]
    BY DEF TypeOK, Requests, Phase, TakeChain, Idle
  <2>2. chain' \in Chains
    <3>1. CASE chain.at = "free"
      <4>1. req[c].action \in Action /\ req[c].phase \in DOMAIN Plans[req[c].action]
        BY DEF RequestInv, TakeChain
      <4>2. chain' = Begin(req[c].action, Plans[req[c].action][req[c].phase])
        BY <3>1 DEF TakeChain
      <4> QED BY <4>1, <4>2, PlansLead, BeginTyped DEF Chains
    <3>2. CASE chain.at # "free"
      BY <3>2, ChainTyped DEF TakeChain
    <3> QED BY <3>1, <3>2
  <2>3. mishap' \subseteq Mishap
    BY DEF TypeOK, Mishap, TakeChain, Idle
  <2> QED BY <2>1, <2>2, <2>3 DEF TypeOK, Phase, Mishap, Chains, Requests, Steps, TakeChain, Idle
<1>2. FreshInv'
  BY DEF FreshInv, TypeOK, TakeChain, Idle
<1>3. LoopInv'
  BY DEF LoopInv, TypeOK, TakeChain, Idle
<1>4. LeaderInv'
  BY <1>01, <1>02, <1>04, <1>05 DEF LeaderInv, Stopping, Free
<1>5. ChainInv'
  <2>1. CASE chain.at # "free"
    BY <1>01, <1>04, <2>1 DEF ChainInv, Ordinary
  <2>2. CASE chain.at = "free"
    <3> DEFINE steps == Plans[req[c].action][req[c].phase]
    <3>1. chain'.at \in {"then", "request"} /\ (chain'.at = "request" => chain'.left # <<>>)
      BY <1>05, <2>2
    <3>2. ASSUME Ordinary'
          PROVE  /\ events.phase = req[c].phase /\ events.pending = "none"
      BY <1>02, <1>04, <2>2, <3>2 DEF ChainInv, Ordinary
    <3> QED BY <1>04, <1>05, <1>06, <2>2, <3>1, <3>2 DEF ChainInv, Ordinary
  <2> QED BY <2>1, <2>2
<1>6. HoldInv'
  <2>1. CASE chain.at # "free"
    BY <1>01, <1>04, <2>1 DEF HoldInv, Ordinary
  <2>2. CASE chain.at = "free"
    BY <1>02, <1>04, <1>05, <1>06, <2>2 DEF HoldInv, Ordinary
  <2> QED BY <2>1, <2>2
<1>7. MarkInv'
  <2>1. ASSUME NEW d \in Client, req[d].action = "drop_last", d # c
        PROVE  req'[d].action = "drop_last"
    BY <2>1 DEF TypeOK, TakeChain
  <2>2. CASE chain.at # "free"
    BY <1>01, <1>04, <2>1, <2>2 DEF MarkInv, Ordinary
  <2>3. CASE chain.at = "free"
    <3>1. chain.action # "drop_last"
      BY <1>02, <2>3 DEF Free
    <3> QED BY <1>02, <1>04, <1>05, <1>06, <2>1, <2>3, <3>1 DEF MarkInv, Ordinary
  <2> QED BY <2>2, <2>3
<1>8. ArmsReleased'
  BY DEF ArmsReleased, TypeOK, TakeChain, Idle
<1>9. RequestInv'
  BY DEF RequestInv, TypeOK, TakeChain, Idle
<1>10. BoundInv'
  BY <1>0, Counted, CountedNext, Counts DEF BoundInv, TypeOK, TakeChain
<1>11. SlotsGivenBack'
  BY <1>0, Counted, CountedNext, Counts DEF TypeOK, TakeChain
<1> QED BY <1>1, <1>2, <1>3, <1>4, <1>5, <1>6, <1>7, <1>8, <1>9, <1>10, <1>11

(* The helper asks the strategy for a transition. *)
LEMMA RequestTransitionKeeps ==
    ASSUME CoachingInv, RequestTransition
    PROVE  CoachingInv'
<1> USE DEF CoachingInv, countVars, armVars
<1>1. TypeOK'
  <2>1. chain' \in Chains
    BY ChainTyped DEF RequestTransition
  <2>2. events' \in [phase : Phase, pending : Event \cup {"none"}]
    <3>1. Head(chain.left).event \in Event
      BY StepLeads DEF TypeOK, ChainInv, RequestTransition, Steps
    <3> QED BY <3>1 DEF TypeOK, RequestTransition
  <2> QED BY <2>1, <2>2 DEF TypeOK, Phase, Mishap, Chains, Steps, RequestTransition, Free
<1>2. FreshInv'
  BY DEF FreshInv, TypeOK, RequestTransition, Free
<1>3. LoopInv'
  BY DEF LoopInv, TypeOK, RequestTransition, Free
<1>4. LeaderInv'
  BY DEF LeaderInv, TypeOK, Stopping, RequestTransition, Free
<1>5. ChainInv'
  BY SMTT(30) DEF ChainInv, Ordinary, TypeOK, RequestTransition, Free
<1>6. HoldInv'
  BY DEF HoldInv, Ordinary, TypeOK, RequestTransition, Free
<1>7. MarkInv'
  BY DEF MarkInv, Ordinary, TypeOK, RequestTransition, Free
<1>8. ArmsReleased'
  BY DEF ArmsReleased, TypeOK, RequestTransition, Free
<1>9. RequestInv' /\ BoundInv' /\ SlotsGivenBack'
  <2> HIDE DEF CoachingInv
  <2> QED BY RequestsAlone DEF RequestTransition, Free
<1> QED BY <1>1, <1>2, <1>3, <1>4, <1>5, <1>6, <1>7, <1>8, <1>9

(* The phase it waits for is there. *)
LEMMA PhaseReachedKeeps ==
    ASSUME CoachingInv, PhaseReached
    PROVE  CoachingInv'
<1> USE DEF CoachingInv, countVars, armVars
<1>01. /\ chain.left \in Steps /\ chain.left # <<>>
       /\ chain.at = "wait" /\ events.phase = Head(chain.left).reaches /\ events.phase \in Phase
  BY ChainTyped DEF ChainInv, PhaseReached, Chains, TypeOK
<1>02. /\ Tail(chain.left) \in Steps
       /\ \A q : Reaches(Tail(chain.left), q) => Reaches(chain.left, q)
       /\ \A q : (\A i \in 1..Len(chain.left) : chain.left[i].reaches = q) =>
                events.phase = q /\ \A i \in 1..Len(Tail(chain.left)) : Tail(chain.left)[i].reaches = q
  BY <1>01, StepLeads
<1>03. ASSUME Ordinary
       PROVE  /\ events.pending = "none" /\ Leads(events.phase, Tail(chain.left))
              /\ chain.action = "drop_last" => Tail(chain.left) = <<>>
  <2>1. ~Leads(events.phase, chain.left)
    BY <1>01, StepLeads
  <2>2. Step("correction", "paused") \in [event : Event, reaches : Phase]
    BY DEF Step, Event, Phase
  <2> QED BY <1>01, <1>03, <2>1, <2>2, NothingFollows DEF ChainInv
<1>04. UNCHANGED <<worker, events, loop, req, hold, discardNext, leader, mishap>>
  BY DEF PhaseReached
<1>05. \/ /\ Tail(chain.left) # <<>> \/ chain.action = "reset"
          /\ chain' \in Chains
          /\ chain'.at = IF Tail(chain.left) = <<>> THEN "then" ELSE "request"
          /\ chain'.action = chain.action
          /\ chain'.left = Tail(chain.left)
       \/ chain' = Free
  <2>1. chain.action \in Action \cup {"none"}
    BY DEF TypeOK
  <2>2. LET b == Begin(chain.action, Tail(chain.left)) IN
        /\ b \in Chains
        /\ b.at = IF Tail(chain.left) = <<>> THEN "then" ELSE "request"
        /\ b.action = chain.action
        /\ b.left = Tail(chain.left)
    <3> DEFINE rest == Tail(chain.left)
    <3>1. rest \in Steps
      BY <1>02
    <3> HIDE DEF CoachingInv, rest
    <3>2. /\ Begin(chain.action, rest) \in Chains
          /\ Begin(chain.action, rest).at = IF rest = <<>> THEN "then" ELSE "request"
          /\ Begin(chain.action, rest).action = chain.action
          /\ Begin(chain.action, rest).left = rest
      BY <2>1, <3>1 DEF Begin, Chains
    <3> QED BY <3>2 DEF rest
  <2>3. \/ /\ Tail(chain.left) # <<>> \/ chain.action = "reset"
           /\ chain' = Begin(chain.action, Tail(chain.left))
        \/ chain' = Free
    BY DEF PhaseReached
  <2> QED BY <2>2, <2>3
<1>06. Free.at = "free" /\ Free.action = "none"
  BY DEF Free
<1>1. TypeOK'
  <2>1. chain' \in Chains
    BY <1>05, ChainTyped
  <2> QED BY <2>1 DEF TypeOK, Phase, Mishap, Chains, Steps, PhaseReached, Free
<1>2. FreshInv'
  BY DEF FreshInv, TypeOK, PhaseReached, Free
<1>3. LoopInv'
  BY DEF LoopInv, TypeOK, PhaseReached, Free
<1>4. LeaderInv'
  BY <1>01, <1>04, <1>05, <1>06 DEF LeaderInv, Stopping
<1>5. ChainInv'
  <2>1. CASE chain' = Free
    BY <1>03, <1>04, <1>06, <2>1 DEF ChainInv, Ordinary
  <2>2. CASE chain' # Free
    <3>1. ASSUME Ordinary, Tail(chain.left) = <<>>
          PROVE  events.phase = "paused" /\ chain.action # "drop_last"
      BY <1>01, <1>02, <1>05, <2>2, <3>1 DEF ChainInv
    <3>2. ASSUME Ordinary, chain.action = "reset"
          PROVE  \A i \in 1..Len(chain'.left) : chain'.left[i].reaches = "paused"
      <4>1. \A i \in 1..Len(chain.left) : chain.left[i].reaches = "paused"
        BY <1>01, <3>2 DEF ChainInv
      <4>2. \A i \in 1..Len(Tail(chain.left)) : Tail(chain.left)[i].reaches = "paused"
        BY <1>02, <4>1
      <4>3. chain'.left = Tail(chain.left)
        BY <1>05, <2>2
      <4> HIDE DEF CoachingInv
      <4> QED BY <4>2, <4>3
    <3>3. chain'.at \in {"then", "request"} /\ (chain'.at = "request" => chain'.left # <<>>)
      BY <1>05, <2>2
    <3>4. Ordinary' <=> Ordinary
      BY <1>04 DEF Ordinary
    <3> QED BY <1>03, <1>04, <1>05, <2>2, <3>1, <3>2, <3>3, <3>4 DEF ChainInv
  <2> QED BY <2>1, <2>2
<1>6. HoldInv'
  BY <1>01, <1>02, <1>04, <1>05, <1>06 DEF HoldInv, Ordinary
<1>7. MarkInv'
  <2>1. ASSUME Ordinary, chain.action = "drop_last"
        PROVE  chain'.action # "drop_last" /\ events.phase # "correcting"
    BY <1>01, <1>03, <1>05, <1>06, <2>1 DEF ChainInv, Step
  <2> QED BY <1>04, <1>05, <1>06, <2>1 DEF MarkInv, Ordinary
<1>8. ArmsReleased'
  BY DEF ArmsReleased, TypeOK, PhaseReached, Free
<1>9. RequestInv' /\ BoundInv' /\ SlotsGivenBack'
  <2> HIDE DEF CoachingInv
  <2> QED BY RequestsAlone DEF PhaseReached, Free
<1> QED BY <1>1, <1>2, <1>3, <1>4, <1>5, <1>6, <1>7, <1>8, <1>9

(* The helper gives up. *)
LEMMA PhaseTimesOutKeeps ==
    ASSUME CoachingInv, PhaseTimesOut
    PROVE  CoachingInv'
<1> USE DEF CoachingInv, countVars, armVars
<1>1. TypeOK'
  <2>1. chain' \in Chains
    BY ChainTyped DEF PhaseTimesOut
  <2> QED BY <2>1 DEF TypeOK, Phase, Mishap, Chains, Steps, PhaseTimesOut, Free
<1>2. FreshInv'
  BY DEF FreshInv, TypeOK, PhaseTimesOut, Free
<1>3. LoopInv'
  BY DEF LoopInv, TypeOK, PhaseTimesOut, Free
<1>4. LeaderInv'
  BY DEF LeaderInv, TypeOK, Stopping, PhaseTimesOut, Free
<1>5. ChainInv'
  BY DEF ChainInv, Ordinary, TypeOK, PhaseTimesOut, Free
<1>6. HoldInv'
  BY DEF HoldInv, Ordinary, TypeOK, PhaseTimesOut, Free
<1>7. MarkInv'
  BY DEF MarkInv, Ordinary, TypeOK, PhaseTimesOut, Free
<1>8. ArmsReleased'
  BY DEF ArmsReleased, TypeOK, PhaseTimesOut, Free
<1>9. RequestInv' /\ BoundInv' /\ SlotsGivenBack'
  <2> HIDE DEF CoachingInv
  <2> QED BY RequestsAlone DEF PhaseTimesOut, Free
<1> QED BY <1>1, <1>2, <1>3, <1>4, <1>5, <1>6, <1>7, <1>8, <1>9

(* A reset holds the follower. *)
LEMMA HoldAtRestKeeps ==
    ASSUME CoachingInv, HoldAtRest
    PROVE  CoachingInv'
<1> USE DEF CoachingInv, countVars, armVars
<1>1. TypeOK'
  <2>1. chain' \in Chains
    BY ChainTyped DEF HoldAtRest
  <2>2. hold' \in BOOLEAN
    BY DEF TypeOK, HoldAtRest, Free
  <2> QED BY <2>1, <2>2 DEF TypeOK, Phase, Mishap, Chains, Steps, HoldAtRest, Free
<1>2. FreshInv'
  BY DEF FreshInv, TypeOK, HoldAtRest, Free
<1>3. LoopInv'
  BY DEF LoopInv, TypeOK, HoldAtRest, Free
<1>4. LeaderInv'
  BY DEF LeaderInv, TypeOK, Stopping, HoldAtRest, Free
<1>5. ChainInv'
  BY DEF ChainInv, Ordinary, TypeOK, HoldAtRest, Free
<1>6. HoldInv'
  BY DEF HoldInv, ChainInv, Ordinary, TypeOK, HoldAtRest, Free
<1>7. MarkInv'
  BY DEF MarkInv, Ordinary, TypeOK, HoldAtRest, Free
<1>8. ArmsReleased'
  BY DEF ArmsReleased, TypeOK, HoldAtRest, Free
<1>9. RequestInv' /\ BoundInv' /\ SlotsGivenBack'
  <2> HIDE DEF CoachingInv
  <2> QED BY RequestsAlone DEF HoldAtRest, Free
<1> QED BY <1>1, <1>2, <1>3, <1>4, <1>5, <1>6, <1>7, <1>8, <1>9

(* The leader is energised. *)
LEMMA EnableLeaderKeeps ==
    ASSUME CoachingInv, EnableLeader
    PROVE  CoachingInv'
<1> USE DEF CoachingInv, countVars, armVars
<1>1. TypeOK'
  <2>1. chain' \in Chains
    BY ChainTyped DEF EnableLeader
  <2>2. leader' \in [torque : BOOLEAN, known : BOOLEAN, at : {"start", "away"}]
    BY DEF TypeOK, EnableLeader, Free
  <2> QED BY <2>1, <2>2 DEF TypeOK, Phase, Mishap, Chains, Steps, EnableLeader, Free
<1>2. FreshInv'
  BY DEF FreshInv, TypeOK, EnableLeader, Free
<1>3. LoopInv'
  BY DEF LoopInv, TypeOK, EnableLeader, Free
<1>4. LeaderInv'
  BY DEF LeaderInv, TypeOK, Stopping, EnableLeader, Free
<1>5. ChainInv'
  BY DEF ChainInv, Ordinary, TypeOK, EnableLeader, Free
<1>6. HoldInv'
  BY DEF HoldInv, ChainInv, Ordinary, TypeOK, EnableLeader, Free
<1>7. MarkInv'
  BY DEF MarkInv, Ordinary, TypeOK, EnableLeader, Free
<1>8. ArmsReleased'
  BY DEF ArmsReleased, TypeOK, EnableLeader, Free
<1>9. RequestInv' /\ BoundInv' /\ SlotsGivenBack'
  <2> HIDE DEF CoachingInv
  <2> QED BY RequestsAlone DEF EnableLeader, Free
<1> QED BY <1>1, <1>2, <1>3, <1>4, <1>5, <1>6, <1>7, <1>8, <1>9

(* The worker takes note of it. *)
LEMMA TrackLeaderKeeps ==
    ASSUME CoachingInv, TrackLeader
    PROVE  CoachingInv'
<1> USE DEF CoachingInv, countVars, armVars
<1>1. TypeOK'
  <2>1. chain' \in Chains
    BY DEF TypeOK, Chains, Steps, TrackLeader, Free
  <2>2. leader' \in [torque : BOOLEAN, known : BOOLEAN, at : {"start", "away"}]
    BY DEF TypeOK, TrackLeader, Free
  <2> QED BY <2>1, <2>2 DEF TypeOK, Phase, Mishap, Chains, Steps, TrackLeader, Free
<1>2. FreshInv'
  BY DEF FreshInv, TypeOK, TrackLeader, Free
<1>3. LoopInv'
  BY DEF LoopInv, TypeOK, TrackLeader, Free
<1>4. LeaderInv'
  BY DEF LeaderInv, TypeOK, Stopping, TrackLeader, Free
<1>5. ChainInv'
  BY DEF ChainInv, Ordinary, TypeOK, TrackLeader, Free
<1>6. HoldInv'
  BY DEF HoldInv, Ordinary, TypeOK, TrackLeader, Free
<1>7. MarkInv'
  BY DEF MarkInv, Ordinary, TypeOK, TrackLeader, Free
<1>8. ArmsReleased'
  BY DEF ArmsReleased, TypeOK, TrackLeader, Free
<1>9. RequestInv' /\ BoundInv' /\ SlotsGivenBack'
  <2> HIDE DEF CoachingInv
  <2> QED BY RequestsAlone DEF TrackLeader, Free
<1> QED BY <1>1, <1>2, <1>3, <1>4, <1>5, <1>6, <1>7, <1>8, <1>9

(* The leader is driven to rest. *)
LEMMA MoveLeaderKeeps ==
    ASSUME CoachingInv, MoveLeader
    PROVE  CoachingInv'
<1> USE DEF CoachingInv, countVars, armVars
<1>1. TypeOK'
  <2>1. chain' \in Chains
    BY ChainTyped DEF MoveLeader
  <2>2. leader' \in [torque : BOOLEAN, known : BOOLEAN, at : {"start", "away"}]
    BY DEF TypeOK, MoveLeader, Free
  <2> QED BY <2>1, <2>2 DEF TypeOK, Phase, Mishap, Chains, Steps, MoveLeader, Free
<1>2. FreshInv'
  BY DEF FreshInv, TypeOK, MoveLeader, Free
<1>3. LoopInv'
  BY DEF LoopInv, TypeOK, MoveLeader, Free
<1>4. LeaderInv'
  BY DEF LeaderInv, TypeOK, Stopping, MoveLeader, Free
<1>5. ChainInv'
  BY DEF ChainInv, Ordinary, TypeOK, MoveLeader, Free
<1>6. HoldInv'
  BY DEF HoldInv, Ordinary, TypeOK, MoveLeader, Free
<1>7. MarkInv'
  <2>1. Ordinary => chain.action # "drop_last" /\ Free.action # "drop_last"
    BY DEF ChainInv, MoveLeader, Free
  <2> QED BY <2>1 DEF MarkInv, Ordinary, MoveLeader
<1>8. ArmsReleased'
  BY DEF ArmsReleased, TypeOK, MoveLeader, Free
<1>9. RequestInv' /\ BoundInv' /\ SlotsGivenBack'
  <2> HIDE DEF CoachingInv
  <2> QED BY RequestsAlone DEF MoveLeader, Free
<1> QED BY <1>1, <1>2, <1>3, <1>4, <1>5, <1>6, <1>7, <1>8, <1>9

(* The loop has what it wants. *)
LEMMA LoopEndsKeeps ==
    ASSUME CoachingInv, LoopEnds
    PROVE  CoachingInv'
<1> USE DEF CoachingInv, countVars, armVars
<1>1. TypeOK'
  BY DEF TypeOK, Phase, Mishap, LoopEnds, LoopAt
<1>2. FreshInv'
  BY DEF FreshInv, TypeOK, LoopEnds, LoopAt
<1>3. LoopInv'
  BY DEF LoopInv, TypeOK, LoopEnds, LoopAt
<1>4. LeaderInv'
  BY DEF LeaderInv, TypeOK, Stopping, LoopEnds, LoopAt
<1>5. ChainInv'
  BY DEF ChainInv, Ordinary, TypeOK, LoopEnds, LoopAt
<1>6. HoldInv'
  BY DEF HoldInv, Ordinary, TypeOK, LoopEnds, LoopAt
<1>7. MarkInv'
  BY DEF MarkInv, Ordinary, TypeOK, LoopEnds, LoopAt
<1>8. ArmsReleased'
  BY DEF ArmsReleased, TypeOK, LoopEnds, LoopAt
<1>9. RequestInv' /\ BoundInv' /\ SlotsGivenBack'
  <2> HIDE DEF CoachingInv
  <2> QED BY RequestsAlone DEF LoopEnds, LoopAt
<1> QED BY <1>1, <1>2, <1>3, <1>4, <1>5, <1>6, <1>7, <1>8, <1>9

(* The loop fails. *)
LEMMA LoopFailsKeeps ==
    ASSUME CoachingInv, LoopFails
    PROVE  CoachingInv'
<1> USE DEF CoachingInv, countVars, armVars
<1>1. TypeOK'
  BY DEF TypeOK, Phase, Mishap, LoopFails, LoopAt
<1>2. FreshInv'
  BY DEF FreshInv, TypeOK, LoopFails, LoopAt
<1>3. LoopInv'
  BY DEF LoopInv, TypeOK, LoopFails, LoopAt
<1>4. LeaderInv'
  BY DEF LeaderInv, TypeOK, Stopping, LoopFails, LoopAt
<1>5. ChainInv'
  BY DEF ChainInv, Ordinary, TypeOK, LoopFails, LoopAt
<1>6. HoldInv'
  BY DEF HoldInv, Ordinary, TypeOK, LoopFails, LoopAt
<1>7. MarkInv'
  BY DEF MarkInv, Ordinary, TypeOK, LoopFails, LoopAt
<1>8. ArmsReleased'
  BY DEF ArmsReleased, TypeOK, LoopFails, LoopAt
<1>9. RequestInv' /\ BoundInv' /\ SlotsGivenBack'
  <2> HIDE DEF CoachingInv
  <2> QED BY RequestsAlone DEF LoopFails, LoopAt
<1> QED BY <1>1, <1>2, <1>3, <1>4, <1>5, <1>6, <1>7, <1>8, <1>9

(* The loop takes the transition. *)
LEMMA ConsumeKeeps ==
    ASSUME CoachingInv, Consume
    PROVE  CoachingInv'
<1> USE DEF CoachingInv, countVars, armVars
<1>01. /\ worker = "running" /\ loop.at = "turn" /\ events.pending \in Event
       /\ events.phase \in Phase /\ events'.phase = Transition(events.phase, events.pending)
       /\ events'.pending = "none"
       /\ events'.phase # events.phase => loop' = [at |-> "apply", from |-> events.phase]
       /\ events'.phase = events.phase => loop' = loop
       /\ UNCHANGED <<worker, chain, req, hold, discardNext, leader, mishap>>
  BY DEF Consume, MayGoOn, Stopping, TypeOK, FreshInv
<1>02. ASSUME Ordinary
       PROVE  /\ chain.at = "wait" /\ chain.left \in Steps /\ chain.left # <<>>
              /\ Leads(events.phase, chain.left)
              /\ events'.phase = Head(chain.left).reaches
              /\ events'.phase # events.phase
              /\ Leads(events'.phase, Tail(chain.left))
  <2>1. /\ chain.at = "wait" /\ chain.left \in Steps /\ chain.left # <<>>
        /\ Leads(events.phase, chain.left) /\ events.pending = Head(chain.left).event
    BY <1>01, <1>02, ChainTyped DEF ChainInv, Chains, Event
  <2> QED BY <1>01, <2>1, StepLeads
<1>1. TypeOK'
  <2>1. events' \in [phase : Phase, pending : Event \cup {"none"}]
    BY DEF TypeOK, Phase, Transition, Consume, MayGoOn
  <2>2. loop' \in [at : {"none", "turn", "apply", "save", "over"}, from : Phase]
    BY DEF TypeOK, Consume, MayGoOn
  <2> QED BY <2>1, <2>2 DEF TypeOK, Phase, Mishap, Consume, MayGoOn
<1>2. FreshInv'
  BY DEF FreshInv, TypeOK, Consume, MayGoOn
<1>3. LoopInv'
  BY <1>01 DEF LoopInv, Transition, Event, Phase
<1>4. LeaderInv'
  BY DEF LeaderInv, TypeOK, Stopping, Consume, MayGoOn
<1>5. ChainInv'
  <2>1. Ordinary' <=> Ordinary
    BY <1>01 DEF Ordinary
  <2> QED BY <1>01, <1>02, <2>1 DEF ChainInv
<1>6. HoldInv'
  <2>1. Ordinary' <=> Ordinary
    BY <1>01 DEF Ordinary
  <2>2. ASSUME Ordinary, events'.phase = "correcting"
        PROVE  Reaches(chain.left, "correcting")
    BY <1>02, <2>2, StepLeads DEF TypeOK
  <2> QED BY <1>01, <1>02, <2>1, <2>2 DEF HoldInv
<1>7. MarkInv'
  <2>1. Ordinary' <=> Ordinary
    BY <1>01 DEF Ordinary
  <2>2. ASSUME Ordinary, chain.action = "drop_last"
        PROVE  events'.phase = "paused" /\ events.phase # "paused"
    BY <1>02, <2>2 DEF ChainInv, Step
  <2>3. ASSUME Ordinary, events.phase = "correcting"
        PROVE  loop' = [at |-> "apply", from |-> "correcting"]
    BY <1>01, <1>02, <2>3
  <2> QED BY <1>01, <2>1, <2>2, <2>3 DEF MarkInv
<1>8. ArmsReleased'
  BY DEF ArmsReleased, TypeOK, Consume, MayGoOn
<1>9. RequestInv' /\ BoundInv' /\ SlotsGivenBack'
  <2> HIDE DEF CoachingInv
  <2> QED BY RequestsAlone DEF Consume, MayGoOn
<1> QED BY <1>1, <1>2, <1>3, <1>4, <1>5, <1>6, <1>7, <1>8, <1>9

(* The loop acts upon the transition. *)
LEMMA ApplyKeeps ==
    ASSUME CoachingInv, Apply
    PROVE  CoachingInv'
<1> USE DEF CoachingInv, countVars, armVars
<1>1. TypeOK'
  <2>1. leader' \in [torque : BOOLEAN, known : BOOLEAN, at : {"start", "away"}]
    BY DEF TypeOK, Apply, LoopAt
  <2> QED BY <2>1 DEF TypeOK, Phase, Mishap, Apply, LoopAt
<1>2. FreshInv'
  BY DEF FreshInv, TypeOK, Apply, LoopAt
<1>3. LoopInv'
  BY DEF LoopInv, TypeOK, Apply, LoopAt
<1>4. LeaderInv'
  BY DEF LeaderInv, LoopInv, TypeOK, Stopping, Apply, LoopAt
<1>5. ChainInv'
  BY DEF ChainInv, Ordinary, TypeOK, Apply, LoopAt
<1>6. HoldInv'
  BY DEF HoldInv, Ordinary, TypeOK, Apply, LoopAt
<1>7. MarkInv'
  BY DEF MarkInv, LoopInv, Ordinary, TypeOK, Apply, LoopAt
<1>8. ArmsReleased'
  BY DEF ArmsReleased, TypeOK, Apply, LoopAt
<1>9. RequestInv' /\ BoundInv' /\ SlotsGivenBack'
  <2> HIDE DEF CoachingInv
  <2> QED BY RequestsAlone DEF Apply, LoopAt
<1> QED BY <1>1, <1>2, <1>3, <1>4, <1>5, <1>6, <1>7, <1>8, <1>9

(* A correction is saved or dropped. *)
LEMMA SaveKeeps ==
    ASSUME CoachingInv, Save
    PROVE  CoachingInv'
<1> USE DEF CoachingInv, countVars, armVars
<1>01. /\ Slots' = Slots /\ Dropping' = Dropping /\ target' = target /\ worker' = worker
        /\ ~discardNext' /\ discarded' = IF discardNext THEN discarded + 1 ELSE discarded
  BY DEF Save, Slots, Dropping
<1>1. TypeOK'
  <2>1. corrections' \in {corrections, corrections + 1} /\ discarded' \in {discarded, discarded + 1}
    BY DEF Save
  <2>2. corrections' \in Nat /\ discarded' \in Nat
    BY <2>1 DEF TypeOK
  <2>3. discardNext' \in BOOLEAN
    BY DEF Save
  <2> QED BY <2>2, <2>3 DEF TypeOK, Phase, Mishap, Save, LoopAt
<1>2. FreshInv'
  BY DEF FreshInv, TypeOK, Save, LoopAt
<1>3. LoopInv'
  BY DEF LoopInv, TypeOK, Save, LoopAt
<1>4. LeaderInv'
  BY DEF LeaderInv, TypeOK, Stopping, Save, LoopAt
<1>5. ChainInv'
  BY DEF ChainInv, Ordinary, TypeOK, Save, LoopAt
<1>6. HoldInv'
  BY DEF HoldInv, LoopInv, Ordinary, TypeOK, Save, LoopAt
<1>7. MarkInv'
  BY DEF MarkInv, LoopInv, Ordinary, TypeOK, Save, LoopAt
<1>8. ArmsReleased'
  BY DEF ArmsReleased, TypeOK, Save, LoopAt
<1>9. RequestInv'
  BY DEF RequestInv, TypeOK, Save, LoopAt
<1>10. BoundInv'
  BY <1>01, Counted, CountedNext DEF BoundInv
<1>11. SlotsGivenBack'
  <2>1. discarded' + (IF discardNext' THEN 1 ELSE 0) = discarded + (IF discardNext THEN 1 ELSE 0)
    BY <1>01 DEF TypeOK
  <2> QED BY <1>01, <2>1, Counted, CountedNext, Counts DEF TypeOK
<1> QED BY <1>1, <1>2, <1>3, <1>4, <1>5, <1>6, <1>7, <1>8, <1>9, <1>10, <1>11

(* stop() is called. *)
LEMMA StopKeeps ==
    ASSUME CoachingInv, Stop
    PROVE  CoachingInv'
<1> USE DEF CoachingInv, countVars, armVars
<1>1. TypeOK'
  BY DEF TypeOK, Phase, Mishap, Stop
<1>2. FreshInv'
  BY DEF FreshInv, TypeOK, Stop
<1>3. LoopInv'
  BY DEF LoopInv, TypeOK, Stop
<1>4. LeaderInv'
  BY DEF LeaderInv, TypeOK, Stopping, Stop
<1>5. ChainInv'
  BY DEF ChainInv, Ordinary, TypeOK, Stop
<1>6. HoldInv'
  BY DEF HoldInv, Ordinary, TypeOK, Stop
<1>7. MarkInv'
  BY DEF MarkInv, Ordinary, TypeOK, Stop
<1>8. ArmsReleased'
  BY DEF ArmsReleased, TypeOK, Stop
<1>9. RequestInv' /\ BoundInv' /\ SlotsGivenBack'
  <2> HIDE DEF CoachingInv
  <2> QED BY RequestsAlone DEF Stop
<1> QED BY <1>1, <1>2, <1>3, <1>4, <1>5, <1>6, <1>7, <1>8, <1>9

(* stop() is done with the loop. *)
LEMMA JoinLoopKeeps ==
    ASSUME CoachingInv, JoinLoop
    PROVE  CoachingInv'
<1> USE DEF CoachingInv, countVars, armVars
<1>1. TypeOK'
  <2>1. hold' \in BOOLEAN
    BY DEF JoinLoop
  <2>2. mishap' \subseteq Mishap
    BY DEF TypeOK, Mishap, JoinLoop
  <2> QED BY <2>1, <2>2 DEF TypeOK, Phase, Mishap, JoinLoop
<1>2. FreshInv'
  BY DEF FreshInv, TypeOK, JoinLoop
<1>3. LoopInv'
  BY DEF LoopInv, TypeOK, JoinLoop
<1>4. LeaderInv'
  BY DEF LeaderInv, TypeOK, Stopping, JoinLoop
<1>5. ChainInv'
  BY DEF ChainInv, Ordinary, TypeOK, JoinLoop
<1>6. HoldInv'
  BY DEF HoldInv, Ordinary, TypeOK, JoinLoop
<1>7. MarkInv'
  BY DEF MarkInv, Ordinary, TypeOK, JoinLoop
<1>8. ArmsReleased'
  BY DEF ArmsReleased, TypeOK, JoinLoop
<1>9. RequestInv' /\ BoundInv' /\ SlotsGivenBack'
  <2> HIDE DEF CoachingInv
  <2> QED BY RequestsAlone DEF JoinLoop
<1> QED BY <1>1, <1>2, <1>3, <1>4, <1>5, <1>6, <1>7, <1>8, <1>9

(* The leader is driven back. *)
LEMMA RampLeaderKeeps ==
    ASSUME CoachingInv, RampLeader
    PROVE  CoachingInv'
<1> USE DEF CoachingInv, countVars, armVars
<1>1. TypeOK'
  BY DEF TypeOK, Phase, Mishap, RampLeader
<1>2. FreshInv'
  BY DEF FreshInv, TypeOK, RampLeader
<1>3. LoopInv'
  BY DEF LoopInv, TypeOK, RampLeader
<1>4. LeaderInv'
  BY DEF LeaderInv, TypeOK, Stopping, RampLeader
<1>5. ChainInv'
  BY DEF ChainInv, Ordinary, TypeOK, RampLeader
<1>6. HoldInv'
  BY DEF HoldInv, Ordinary, TypeOK, RampLeader
<1>7. MarkInv'
  BY DEF MarkInv, Ordinary, TypeOK, RampLeader
<1>8. ArmsReleased'
  BY DEF ArmsReleased, TypeOK, RampLeader
<1>9. RequestInv' /\ BoundInv' /\ SlotsGivenBack'
  <2> HIDE DEF CoachingInv
  <2> QED BY RequestsAlone DEF RampLeader
<1> QED BY <1>1, <1>2, <1>3, <1>4, <1>5, <1>6, <1>7, <1>8, <1>9

(* Its torque is cut. *)
LEMMA FreeLeaderKeeps ==
    ASSUME CoachingInv, FreeLeader
    PROVE  CoachingInv'
<1> USE DEF CoachingInv, countVars, armVars
<1>1. TypeOK'
  <2>1. leader' \in [torque : BOOLEAN, known : BOOLEAN, at : {"start", "away"}]
    BY DEF TypeOK, FreeLeader
  <2>2. mishap' \subseteq Mishap
    BY DEF TypeOK, Mishap, FreeLeader
  <2> QED BY <2>1, <2>2 DEF TypeOK, Phase, Mishap, FreeLeader
<1>2. FreshInv'
  BY DEF FreshInv, TypeOK, FreeLeader
<1>3. LoopInv'
  BY DEF LoopInv, TypeOK, FreeLeader
<1>4. LeaderInv'
  BY DEF LeaderInv, TypeOK, Stopping, FreeLeader
<1>5. ChainInv'
  BY DEF ChainInv, Ordinary, TypeOK, FreeLeader
<1>6. HoldInv'
  BY DEF HoldInv, Ordinary, TypeOK, FreeLeader
<1>7. MarkInv'
  BY DEF MarkInv, Ordinary, TypeOK, FreeLeader
<1>8. ArmsReleased'
  BY DEF ArmsReleased, TypeOK, FreeLeader
<1>9. RequestInv' /\ BoundInv' /\ SlotsGivenBack'
  <2> HIDE DEF CoachingInv
  <2> QED BY RequestsAlone DEF FreeLeader
<1> QED BY <1>1, <1>2, <1>3, <1>4, <1>5, <1>6, <1>7, <1>8, <1>9

(* The follower is released. *)
LEMMA ReleaseFollowerKeeps ==
    ASSUME CoachingInv, ReleaseFollower
    PROVE  CoachingInv'
<1> USE DEF CoachingInv, countVars, armVars
<1>1. TypeOK'
  <2>1. energised' \in BOOLEAN
    BY DEF TypeOK, ReleaseFollower
  <2>2. events' \in [phase : Phase, pending : Event \cup {"none"}]
    BY DEF TypeOK, Phase, ReleaseFollower
  <2>3. mishap' \subseteq Mishap
    BY DEF TypeOK, Mishap, ReleaseFollower
  <2> QED BY <2>1, <2>2, <2>3 DEF TypeOK, Phase, Mishap, ReleaseFollower
<1>2. FreshInv'
  BY DEF FreshInv, TypeOK, ReleaseFollower
<1>3. LoopInv'
  BY DEF LoopInv, TypeOK, ReleaseFollower
<1>4. LeaderInv'
  BY DEF LeaderInv, TypeOK, Stopping, ReleaseFollower
<1>5. ChainInv'
  BY DEF ChainInv, Ordinary, TypeOK, ReleaseFollower
<1>6. HoldInv'
  BY DEF HoldInv, Ordinary, TypeOK, ReleaseFollower
<1>7. MarkInv'
  BY DEF MarkInv, Ordinary, TypeOK, ReleaseFollower
<1>8. ArmsReleased'
  BY DEF ArmsReleased, LeaderInv, TypeOK, ReleaseFollower
<1>9. RequestInv' /\ BoundInv' /\ SlotsGivenBack'
  <2> HIDE DEF CoachingInv
  <2> QED BY RequestsAlone DEF ReleaseFollower
<1> QED BY <1>1, <1>2, <1>3, <1>4, <1>5, <1>6, <1>7, <1>8, <1>9

-----------------------------------------------------------------------------
(* Every step *)

LEMMA InitHolds == Init => CoachingInv
<1> SUFFICES ASSUME Init PROVE CoachingInv
  OBVIOUS
<1>1. TypeOK
  <2>1. chain \in Chains
    BY ChainTyped DEF Init, Chains, Free, Steps
  <2>2. req \in [Client -> Requests]
    BY DEF Init, Idle, Requests, Phase
  <2>3. target \in Episodes..(Episodes + MaxDrops)
    BY DEF Init
  <2>4. leader \in [torque : BOOLEAN, known : BOOLEAN, at : {"start", "away"}]
    BY DEF Init
  <2>5. hold \in BOOLEAN /\ discardNext \in BOOLEAN /\ energised \in BOOLEAN
    BY DEF Init
  <2> QED BY <2>1, <2>2, <2>3, <2>4, <2>5 DEF TypeOK, Init, LoopAt, Phase, Mishap, Chains, Requests, Steps
<1>2. FreshInv /\ LoopInv /\ LeaderInv /\ RequestInv /\ ArmsReleased
  BY DEF Init, FreshInv, LoopInv, LeaderInv, RequestInv, ArmsReleased, LoopAt, Idle, Stopping
<1>3. ChainInv /\ HoldInv /\ MarkInv
  BY DEF Init, ChainInv, HoldInv, MarkInv, Ordinary, Free, LoopAt
<1>4. BoundInv /\ SlotsGivenBack
  <2>1. Slots = {} /\ Dropping = {}
    BY DEF Init, Idle, Slots, Dropping
  <2> QED BY <2>1, Counted, FS_EmptySet DEF Init, BoundInv
<1> QED BY <1>1, <1>2, <1>3, <1>4 DEF CoachingInv

LEMMA StutterKeeps == CoachingInv /\ UNCHANGED vars => CoachingInv'
<1> SUFFICES ASSUME CoachingInv, UNCHANGED vars PROVE CoachingInv'
  OBVIOUS
<1> USE DEF CoachingInv, vars, countVars, armVars
<1>1. TypeOK' /\ FreshInv' /\ LoopInv' /\ LeaderInv'
  BY DEF TypeOK, FreshInv, LoopInv, LeaderInv, Stopping
<1>2. ChainInv' /\ HoldInv' /\ MarkInv' /\ ArmsReleased'
  BY DEF ChainInv, HoldInv, MarkInv, ArmsReleased, Ordinary
<1>3. RequestInv' /\ BoundInv' /\ SlotsGivenBack'
  <2> HIDE DEF CoachingInv
  <2> QED BY RequestsAlone
<1> QED BY <1>1, <1>2, <1>3

LEMMA NextKeeps == CoachingInv /\ [Next]_vars => CoachingInv'
<1> SUFFICES ASSUME CoachingInv, [Next]_vars PROVE CoachingInv'
  OBVIOUS
<1>1. CASE BuildContext \/ Prepare \/ Finish \/ Stop
  BY <1>1, BuildContextKeeps, PrepareKeeps, FinishKeeps, StopKeeps
<1>2. ASSUME NEW c \in Client, Request(c) \/ \E a \in Action : Ask(c, a)
      PROVE  CoachingInv'
  BY <1>2, MarkDropKeeps, GiveSlotBackKeeps, ClearHoldKeeps, TakeChainKeeps, AskKeeps DEF Request
<1>3. CASE Helper
  BY <1>3, RequestTransitionKeeps, PhaseReachedKeeps, PhaseTimesOutKeeps, HoldAtRestKeeps,
     EnableLeaderKeeps, TrackLeaderKeeps, MoveLeaderKeeps DEF Helper
<1>4. CASE Loop
  BY <1>4, LoopEndsKeeps, LoopFailsKeeps, ConsumeKeeps, ApplyKeeps, SaveKeeps DEF Loop
<1>5. CASE Release
  BY <1>5, JoinLoopKeeps, RampLeaderKeeps, FreeLeaderKeeps, ReleaseFollowerKeeps DEF Release
<1>6. CASE UNCHANGED vars
  BY <1>6, StutterKeeps
<1> QED BY <1>1, <1>2, <1>3, <1>4, <1>5, <1>6 DEF Next

(* The inductive invariant: what the requests, the helper, the loop and    *)
(* the thread in stop() know of each other, for any number of clients.     *)
THEOREM CoachingInvariance == Spec => []CoachingInv
<1> QED BY InitHolds, NextKeeps, PTL DEF Spec

(* Every variable stays in its type; no more is asked to be dropped than   *)
(* the episodes were raised by.                                            *)
THEOREM CoachingTypesHold == Spec => []TypeOK
<1>1. CoachingInv => TypeOK
  BY DEF CoachingInv
<1> QED BY <1>1, CoachingInvariance, PTL

(* An operator who corrects drags a free leader, and no reset holds the    *)
(* follower (coaching.py:74, 166).                                         *)
THEOREM CorrectionsAreFree == Spec => []CorrectionIsFree
<1>1. CoachingInv => CorrectionIsFree
  <2> SUFFICES ASSUME CoachingInv, "stray" \notin mishap, ~Stopping, loop.at = "turn",
                      events.phase = "correcting"
               PROVE  ~hold /\ ~leader.torque
    BY DEF CorrectionIsFree
  <2>1. worker = "running"
    BY DEF CoachingInv, FreshInv, TypeOK, Stopping
  <2> QED BY <2>1 DEF CoachingInv, HoldInv, Ordinary
<1> QED BY <1>1, CoachingInvariance, PTL

(* A drop_last is honoured: its slot is given back, and nothing but what   *)
(* was asked to be is dropped (coaching.py:177-180).                       *)
THEOREM DropsAreHonoured == Spec => []DropsHonoured
<1>1. CoachingInv => DropsAreAsked
  <2> SUFFICES ASSUME CoachingInv, ~Stopping, loop.at \in {"turn", "apply", "save"},
                      mishap \cap {"stray", "refused"} = {}
               PROVE  /\ discardNext => \/ \E c \in Client : req[c].action = "drop_last"
                                        \/ chain.action = "drop_last"
                                        \/ loop = [at |-> "apply", from |-> "correcting"]
                                        \/ loop.at = "save"
                      /\ loop.at = "save" /\ chain.action = "drop_last" => discardNext
    BY DEF DropsAreAsked
  <2>1. Ordinary /\ "refused" \notin mishap
    BY DEF CoachingInv, FreshInv, TypeOK, Stopping, Ordinary
  <2> QED BY <2>1 DEF CoachingInv, MarkInv
<1>2. CoachingInv => DropsHonoured
  BY <1>1 DEF CoachingInv, DropsHonoured
<1> QED BY <1>2, CoachingInvariance, PTL

(* Both arms are released when the session is over. *)
THEOREM ArmsAreReleased == Spec => []ArmsReleased
<1>1. CoachingInv => ArmsReleased
  BY DEF CoachingInv
<1> QED BY <1>1, CoachingInvariance, PTL

(* The leader is where the session found it when its torque is cut.        *)
THEOREM LeaderIsReturned == Spec => LeaderReturned
<1> DEFINE Returned == worker = "freeing" /\ ~leader'.torque =>
                          leader.at = "start" \/ mishap \cap {"fault", "crossed"} # {}
<1>1. CoachingInv => Returned
  BY DEF CoachingInv, LeaderInv
<1> QED BY <1>1, CoachingInvariance, PTL DEF LeaderReturned
=============================================================================
