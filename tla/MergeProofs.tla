---------------------------- MODULE MergeProofs ----------------------------
(***************************************************************************)
(* Theorems about the merge of collection sessions, for any number of      *)
(* processes, checks, sessions and episodes.                               *)
(***************************************************************************)
EXTENDS CollectionMerge, TLAPS

USE EpisodesAssumption, HubAssumption, NoneAssumption

(* The labels inside the lock, and a directory is not None. *)
LEMMA Labels ==
    /\ "idle" \notin Inside /\ "waiting" \notin Inside
    /\ \A d \in Dir : d # None
    /\ \A p \in Proc : p # None
BY DEF Inside

(* A dataset that has what its ledger counts is honest, and so is what a  *)
(* merge starts from without a root.                                       *)
LEMMA CountingIsHonest ==
    ASSUME NEW l \in [Session -> 0..MaxEpisodes], NEW b \in BOOLEAN
    PROVE  /\ Counting(l, b) \in Dir /\ Counting(l, b).whole /\ Honest(Counting(l, b))
           /\ Counting(l, b).ledger = l /\ Counting(l, b).seeded = b
BY DEF Counting, Dir, Episode, Honest

LEMMA FreshIsHonest ==
    /\ NoLedger \in [Session -> 0..MaxEpisodes]
    /\ FromHub \in Dir /\ FromHub.whole /\ Honest(FromHub)
    /\ LET c == Counting(NoLedger, TRUE) IN c \in Dir /\ c.whole /\ Honest(c)
<1>1. NoLedger \in [Session -> 0..MaxEpisodes]
  BY DEF NoLedger
<1> QED BY <1>1, CountingIsHonest DEF FromHub

(* A directory that loses files is still one, with the same ledger. *)
LEMMA BrokenIsDir ==
    ASSUME NEW d \in Dir
    PROVE  LET b == [d EXCEPT !.whole = FALSE] IN
              b \in Dir /\ ~b.whole /\ b.ledger = d.ledger
BY DEF Dir

(* A check that is crossed is still a check. *)
LEMMA CrossedTypes ==
    ASSUME TypeOK
    PROVE  Crossed \in [Checker -> [at : {"idle", "root", "backup", "hub", "found", "new", "error"},
                                    was : BOOLEAN, crossed : BOOLEAN]]
<1>1. ASSUME NEW k \in Checker
      PROVE  [check[k] EXCEPT !.crossed = TRUE]
                \in [at : {"idle", "root", "backup", "hub", "found", "new", "error"},
                     was : BOOLEAN, crossed : BOOLEAN]
  BY ZenonT(60) DEF TypeOK
<1> QED BY <1>1 DEF Crossed, TypeOK

(* Adding what a session has after the episodes its ledger names keeps it  *)
(* honest, whatever the session has become since it was counted.           *)
LEMMA ExtendedIsHonest ==
    ASSUME NEW d \in Dir, d.whole, Honest(d), NEW s \in Session, NEW n \in 0..MaxEpisodes,
           d.ledger[s] < n, NEW now \in 0..MaxEpisodes
    PROVE  LET x == Extended(d, s, n, now) IN
              /\ x \in Dir /\ x.whole /\ Honest(x)
              /\ x.seeded = d.seeded
              /\ x.ledger = [d.ledger EXCEPT ![s] = n]
<1> DEFINE x == Extended(d, s, n, now)
           gone == Slips(d, s, n, now)
           c == [e \in Episode |->
                    IF e \in Taken(d, s, n, now) THEN d.copies[s][e] + 1 ELSE d.copies[s][e]]
<1>1. /\ d.copies \in [Session -> [Episode -> Nat]] /\ d.ledger \in [Session -> 0..MaxEpisodes]
      /\ d.slipped \in SUBSET (Session \X Episode)
  BY DEF Dir
<1>2. c \in [Episode -> Nat]
  BY <1>1
<1>0. x = [d EXCEPT !.copies[s] = c, !.ledger[s] = n, !.slipped = @ \cup ({s} \X gone)]
  BY DEF Extended
<1>a. gone \subseteq Episode
  BY DEF Slips
<1>b. \A e \in Episode : c[e] = IF e \in Taken(d, s, n, now) THEN d.copies[s][e] + 1
                                                             ELSE d.copies[s][e]
  OBVIOUS
<1> HIDE DEF c, x, gone
<1>3. x = [copies |-> [d.copies EXCEPT ![s] = c], ledger |-> [d.ledger EXCEPT ![s] = n],
           seeded |-> d.seeded, whole |-> d.whole, slipped |-> d.slipped \cup ({s} \X gone)]
  BY <1>0, <1>1 DEF Dir
<1>4. [d.copies EXCEPT ![s] = c] \in [Session -> [Episode -> Nat]]
  BY <1>1, <1>2
<1>5. [d.ledger EXCEPT ![s] = n] \in [Session -> 0..MaxEpisodes]
  BY <1>1
<1>c. d.slipped \cup ({s} \X gone) \in SUBSET (Session \X Episode)
  BY <1>1, <1>a
<1>6. x \in Dir
  BY <1>3, <1>4, <1>5, <1>c DEF Dir
<1>7. ASSUME NEW t \in Session, NEW e \in Episode, <<t, e>> \notin x.slipped
      PROVE  x.copies[t][e] = IF e <= x.ledger[t] THEN 1 ELSE 0
  <2>0. <<t, e>> \notin d.slipped /\ (t = s => e \notin gone)
    BY <1>3, <1>7
  <2>1. d.copies[t][e] = IF e <= d.ledger[t] THEN 1 ELSE 0
    BY <2>0, Labels DEF Honest
  <2>2. x.copies[t] = (IF t = s THEN c ELSE d.copies[t]) /\ x.ledger[t] = IF t = s THEN n ELSE d.ledger[t]
    BY <1>1, <1>3
  <2>3. CASE t # s
    BY <2>1, <2>2, <2>3
  <2>4. CASE t = s
    <3>1. d.ledger[s] \in 0..MaxEpisodes /\ e \in 1..MaxEpisodes
      BY <1>1 DEF Episode
    <3>2. e \in Taken(d, s, n, now) <=> d.ledger[s] < e /\ e <= n
      BY <2>0, <2>4, <3>1 DEF Taken, Slips, gone
    <3>3. c[e] = IF d.ledger[s] < e /\ e <= n THEN d.copies[s][e] + 1 ELSE d.copies[s][e]
      BY <1>b, <3>2
    <3> QED BY <2>1, <2>2, <2>4, <3>1, <3>3
  <2> QED BY <2>3, <2>4
<1>8. Honest(x)
  BY <1>7 DEF Honest
<1> QED BY <1>3, <1>6, <1>8 DEF x

(* A process asks for the lock. *)
LEMMA BeginKeeps ==
    ASSUME MergeInv, NEW p \in Proc, NEW s \in Session, Begin(p, s)
    PROVE  MergeInv'
<1> USE Labels DEF MergeInv
<1>1. TypeOK'
  BY DEF TypeOK, Inside, Begin
<1>2. LockInv'
  BY DEF LockInv, TypeOK, At, Inside, Begin
<1>3. StageInv'
  <2> SUFFICES ASSUME NEW q \in Proc
              PROVE  StageOK(q)'
    BY DEF StageInv
  <2>0. UNCHANGED <<root, backup>>
    BY DEF Begin
  <2>1. CASE q # p
    <3>1. merge'[q] = merge[q]
      BY <2>1 DEF Begin, TypeOK
    <3> QED BY <2>0, <3>1 DEF StageInv, StageOK, StagedOK, At, Base, Content
  <2>2. CASE q = p
    <3>1. At(q)' = "waiting" /\ merge'[q].of = s
      BY <2>2 DEF Begin, TypeOK, At
    <3> QED BY <3>1 DEF StageOK
  <2> QED BY <2>1, <2>2
<1>4. CheckInv'
  BY DEF CheckInv, TypeOK, CheckOK, Content, StageInv, StageOK, BackupCanStandIn, Begin
<1>5. ExactlyOnce'
  BY DEF ExactlyOnce, TypeOK, Honest, StageInv, StageOK, StagedOK, BackupCanStandIn, Begin
<1>6. BackupCanStandIn'
  BY DEF BackupCanStandIn, TypeOK, StageInv, StageOK, StagedOK, Begin
<1>7. BackupIsEarlier'
  BY DEF BackupIsEarlier, TypeOK, StageInv, StageOK, StagedOK, Base, Content, Begin
<1> QED BY <1>1, <1>2, <1>3, <1>4, <1>5, <1>6, <1>7

LEMMA TakeLockKeeps ==
    ASSUME MergeInv, NEW p \in Proc, TakeLock(p)
    PROVE  MergeInv'
<1> USE Labels DEF MergeInv
<1>1. TypeOK'
  BY DEF TypeOK, Inside, TakeLock, Goto
<1>2. LockInv'
  BY DEF LockInv, TypeOK, At, Inside, TakeLock, Goto
<1>3. StageInv'
  <2> SUFFICES ASSUME NEW q \in Proc
              PROVE  StageOK(q)'
    BY DEF StageInv
  <2>1. CASE q # p
    <3>1. At(q) \notin Inside /\ merge'[q] = merge[q]
      BY <2>1 DEF TakeLock, Goto, LockInv, TypeOK, At, Inside
    <3> QED BY <3>1 DEF StageInv, StageOK, At, Inside
  <2>2. CASE q = p
    BY <2>2 DEF TakeLock, Goto, TypeOK, StageInv, StageOK, At, Inside
  <2> QED BY <2>1, <2>2
<1>4. CheckInv'
  BY DEF CheckInv, TypeOK, CheckOK, Content, StageInv, StageOK, BackupCanStandIn, TakeLock, Goto
<1>5. ExactlyOnce'
  BY DEF ExactlyOnce, TypeOK, Honest, StageInv, StageOK, StagedOK, BackupCanStandIn, TakeLock, Goto
<1>6. BackupCanStandIn'
  BY DEF BackupCanStandIn, TypeOK, StageInv, StageOK, StagedOK, TakeLock, Goto
<1>7. BackupIsEarlier'
  BY DEF BackupIsEarlier, TypeOK, StageInv, StageOK, StagedOK, Base, Content, TakeLock, Goto
<1> QED BY <1>1, <1>2, <1>3, <1>4, <1>5, <1>6, <1>7

(* A backup without a root becomes the root again. *)
LEMMA RecoverKeeps ==
    ASSUME MergeInv, NEW p \in Proc, Recover(p)
    PROVE  MergeInv'
<1> USE Labels DEF MergeInv
<1>1. TypeOK'
  <2>2. (root \in Dir \cup {None} /\ backup \in Dir \cup {None})'
    BY DEF TypeOK, Recover, Restore, Goto, Inside
  <2>3. (lock \in Proc \cup {None})'
    BY DEF TypeOK, Recover, Restore, Goto, Inside
  <2>4. (merge \in [Proc -> [at : {"idle", "waiting"} \cup Inside, of : Session \cup {None},
                         count : 0..MaxEpisodes, staged : Dir \cup {None}]])'
    BY DEF TypeOK, Recover, Restore, Goto, Inside
  <2>5. (check \in [Checker -> [at : {"idle", "root", "backup", "hub", "found", "new", "error"},
                            was : BOOLEAN, crossed : BOOLEAN]])'
    BY CrossedTypes DEF TypeOK, Recover, Restore
  <2> QED BY <2>2, <2>3, <2>4, <2>5 DEF TypeOK
<1>2. LockInv'
  BY DEF LockInv, TypeOK, At, Inside, Recover, Restore, Crossed, Goto
<1>3. StageInv'
  <2> SUFFICES ASSUME NEW q \in Proc
              PROVE  StageOK(q)'
    BY DEF StageInv
  <2>1. CASE q # p
    <3>1. At(q) \notin Inside /\ merge'[q] = merge[q]
      BY <2>1 DEF Recover, Goto, LockInv, TypeOK, At, Inside
    <3> QED BY <3>1 DEF StageInv, StageOK, At, Inside
  <2>2. CASE q = p
    BY <2>2 DEF Recover, Restore, Goto, TypeOK, StageInv, StageOK, At, Inside
  <2> QED BY <2>1, <2>2
<1>4. CheckInv'
  BY DEF CheckInv, TypeOK, CheckOK, Content, StageInv, StageOK, BackupCanStandIn, Recover, Restore, Crossed, Goto
<1>5. ExactlyOnce'
  BY DEF ExactlyOnce, TypeOK, Honest, StageInv, StageOK, StagedOK, BackupCanStandIn, Recover, Restore, Crossed, Goto
<1>6. BackupCanStandIn'
  BY DEF BackupCanStandIn, TypeOK, StageInv, StageOK, StagedOK, Recover, Restore, Crossed, Goto
<1>7. BackupIsEarlier'
  BY DEF BackupIsEarlier, TypeOK, StageInv, StageOK, StagedOK, Base, Content, Recover, Restore, Crossed, Goto
<1> QED BY <1>1, <1>2, <1>3, <1>4, <1>5, <1>6, <1>7

LEMMA NothingNewKeeps ==
    ASSUME MergeInv, NEW p \in Proc, NothingNew(p)
    PROVE  MergeInv'
<1> USE Labels DEF MergeInv
<1>1. TypeOK'
  BY DEF TypeOK, Inside, NothingNew, Leave, Idle
<1>2. LockInv'
  BY DEF LockInv, TypeOK, At, Inside, NothingNew, Leave, Idle
<1>3. StageInv'
  BY ZenonT(60) DEF StageInv, TypeOK, LockInv, StageOK, StagedOK, At, Base, Content, Inside, NothingNew, Leave, Idle
<1>4. CheckInv'
  BY DEF CheckInv, TypeOK, CheckOK, Content, StageInv, StageOK, BackupCanStandIn, NothingNew, Leave, Idle
<1>5. ExactlyOnce'
  BY DEF ExactlyOnce, TypeOK, Honest, StageInv, StageOK, StagedOK, BackupCanStandIn, NothingNew, Leave, Idle
<1>6. BackupCanStandIn'
  BY DEF BackupCanStandIn, TypeOK, StageInv, StageOK, StagedOK, NothingNew, Leave, Idle
<1>7. BackupIsEarlier'
  BY DEF BackupIsEarlier, TypeOK, StageInv, StageOK, StagedOK, Base, Content, NothingNew, Leave, Idle
<1> QED BY <1>1, <1>2, <1>3, <1>4, <1>5, <1>6, <1>7

LEMMA CompareKeeps ==
    ASSUME MergeInv, NEW p \in Proc, Compare(p)
    PROVE  MergeInv'
<1> USE Labels DEF MergeInv
<1>1. TypeOK'
  BY DEF TypeOK, Inside, Compare, Goto
<1>2. LockInv'
  BY DEF LockInv, TypeOK, At, Inside, Compare, Goto
<1>3. StageInv'
  <2> SUFFICES ASSUME NEW q \in Proc
              PROVE  StageOK(q)'
    BY DEF StageInv
  <2>1. CASE q # p
    <3>1. At(q) \notin Inside /\ merge'[q] = merge[q]
      BY <2>1 DEF Compare, Goto, LockInv, TypeOK, At, Inside
    <3> QED BY <3>1 DEF StageInv, StageOK, At, Inside
  <2>2. CASE q = p
    <3>1. At(p)' = "stage" /\ merge'[p].of = merge[p].of /\ merge'[p].count = merge[p].count
      BY DEF Compare, Goto, TypeOK, At
    <3>2. Existing = Base
      BY DEF Compare, StageInv, StageOK, Existing, Base, Content
    <3>3. Base' = Base /\ root' = root /\ backup' = backup
      BY DEF Compare, Base, Content
    <3> QED BY <2>2, <3>1, <3>2, <3>3 DEF Compare, StageInv, StageOK, At
  <2> QED BY <2>1, <2>2
<1>4. CheckInv'
  BY DEF CheckInv, TypeOK, CheckOK, Content, StageInv, StageOK, BackupCanStandIn, Compare, Goto
<1>5. ExactlyOnce'
  BY DEF ExactlyOnce, TypeOK, Honest, StageInv, StageOK, StagedOK, BackupCanStandIn, Compare, Goto
<1>6. BackupCanStandIn'
  BY DEF BackupCanStandIn, TypeOK, StageInv, StageOK, StagedOK, Compare, Goto
<1>7. BackupIsEarlier'
  BY DEF BackupIsEarlier, TypeOK, StageInv, StageOK, StagedOK, Base, Content, Compare, Goto
<1> QED BY <1>1, <1>2, <1>3, <1>4, <1>5, <1>6, <1>7

(* The staged dataset extends what there is. *)
LEMMA StageKeeps ==
    ASSUME MergeInv, NEW p \in Proc, Stage(p)
    PROVE  MergeInv'
<1> USE Labels DEF MergeInv
<1>1. TypeOK'
  <2>2. (root \in Dir \cup {None} /\ backup \in Dir \cup {None})'
    BY DEF TypeOK, Stage, Inside
  <2>3. (lock \in Proc \cup {None})'
    BY DEF TypeOK, Stage, Inside
  <2>4. (merge \in [Proc -> [at : {"idle", "waiting"} \cup Inside, of : Session \cup {None},
                         count : 0..MaxEpisodes, staged : Dir \cup {None}]])'
    <3>1. Existing \in Dir /\ Existing.whole /\ Honest(Existing)
      BY FreshIsHonest DEF Existing, TypeOK, BackupCanStandIn, ExactlyOnce
    <3>2. merge[p].of \in Session /\ Existing.ledger[merge[p].of] < merge[p].count
      BY DEF Stage, StageInv, StageOK, Existing, Base, Content, At
    <3>3. \A now \in 0..MaxEpisodes : Extended(Existing, merge[p].of, merge[p].count, now) \in Dir
      BY <3>1, <3>2, ExtendedIsHonest DEF TypeOK
    <3>4. PICK now \in 0..MaxEpisodes :
             merge' = [merge EXCEPT ![p] = [at |-> "swap", of |-> merge[p].of, count |-> merge[p].count,
                 staged |-> Extended(Existing, merge[p].of, merge[p].count, now)]]
      BY DEF Stage, TypeOK
    <3> QED BY <3>3, <3>4 DEF TypeOK, Inside
  <2>5. (check \in [Checker -> [at : {"idle", "root", "backup", "hub", "found", "new", "error"},
                            was : BOOLEAN, crossed : BOOLEAN]])'
    BY DEF TypeOK, Stage, Inside
  <2> QED BY <2>2, <2>3, <2>4, <2>5 DEF TypeOK
<1>2. LockInv'
  BY DEF LockInv, TypeOK, At, Inside, Stage
<1>3. StageInv'
  <2> SUFFICES ASSUME NEW q \in Proc
              PROVE  StageOK(q)'
    BY DEF StageInv
  <2>1. CASE q # p
    <3>1. At(q) \notin Inside /\ merge'[q] = merge[q]
      BY <2>1 DEF Stage, LockInv, TypeOK, At, Inside
    <3> QED BY <3>1 DEF StageInv, StageOK, At, Inside
  <2>2. CASE q = p
    <3>1. /\ At(p)' = "swap"
          /\ merge'[p].of = merge[p].of /\ merge'[p].count = merge[p].count
          /\ \E now \in 0..MaxEpisodes :
                merge'[p].staged = Extended(Existing, merge[p].of, merge[p].count, now)
      BY DEF Stage, TypeOK, At
    <3>2. Existing = Base
      BY DEF Stage, StageInv, StageOK, Existing, Base, Content
    <3>3. Base \in Dir /\ Base.whole /\ Honest(Base)
      BY FreshIsHonest DEF Base, Content, TypeOK, BackupCanStandIn, ExactlyOnce
    <3>4. merge[p].of \in Session /\ Base.ledger[merge[p].of] < merge[p].count
      BY DEF Stage, StageInv, StageOK, At
    <3>5. merge[p].count \in 0..MaxEpisodes
      BY DEF TypeOK
    <3>6. Base' = Base /\ root' = root /\ backup' = backup
      BY DEF Stage, Base, Content
    <3>7. StagedOK(p)'
      BY <3>1, <3>2, <3>3, <3>4, <3>5, <3>6, ExtendedIsHonest DEF StagedOK
    <3> QED BY <2>2, <3>1, <3>4, <3>6, <3>7 DEF Stage, StageInv, StageOK, At
  <2> QED BY <2>1, <2>2
<1>4. CheckInv'
  BY DEF CheckInv, TypeOK, CheckOK, Content, StageInv, StageOK, BackupCanStandIn, Stage
<1>5. ExactlyOnce'
  BY DEF ExactlyOnce, TypeOK, Honest, StageInv, StageOK, StagedOK, BackupCanStandIn, Stage
<1>6. BackupCanStandIn'
  BY DEF BackupCanStandIn, TypeOK, StageInv, StageOK, StagedOK, Stage
<1>7. BackupIsEarlier'
  BY DEF BackupIsEarlier, TypeOK, StageInv, StageOK, StagedOK, Base, Content, Stage
<1> QED BY <1>1, <1>2, <1>3, <1>4, <1>5, <1>6, <1>7

LEMMA SwapKeeps ==
    ASSUME MergeInv, NEW p \in Proc, Swap(p)
    PROVE  MergeInv'
<1> USE Labels DEF MergeInv
<1>1. TypeOK'
  BY SMTT(30) DEF TypeOK, Inside, Swap, Goto
<1>2. LockInv'
  BY DEF LockInv, TypeOK, At, Inside, Swap, Goto
<1>3. StageInv'
  <2> SUFFICES ASSUME NEW q \in Proc
              PROVE  StageOK(q)'
    BY DEF StageInv
  <2>1. CASE q # p
    <3>1. At(q) \notin Inside /\ merge'[q] = merge[q]
      BY <2>1 DEF Swap, Goto, LockInv, TypeOK, At, Inside
    <3> QED BY <3>1 DEF StageInv, StageOK, At, Inside
  <2>2. CASE q = p
    <3>1. /\ At(p)' \in {"install", "unlink", "shelve"} /\ StagedOK(p)
          /\ merge'[p].of = merge[p].of /\ merge'[p].count = merge[p].count
          /\ merge'[p].staged = merge[p].staged
      BY DEF Swap, Goto, TypeOK, StageInv, StageOK, At
    <3>2. Base' = Base
      BY DEF Swap, TypeOK, StageInv, StageOK, Base, Content, At
    <3>3. StagedOK(p)'
      BY <3>1, <3>2 DEF StagedOK
    <3> QED BY <2>2, <3>1, <3>3 DEF Swap, Goto, TypeOK, StageInv, StageOK, At
  <2> QED BY <2>1, <2>2
<1>4. CheckInv'
  BY DEF CheckInv, TypeOK, CheckOK, Content, StageInv, StageOK, BackupCanStandIn, Swap, Goto
<1>5. ExactlyOnce'
  BY DEF ExactlyOnce, TypeOK, Honest, StageInv, StageOK, StagedOK, BackupCanStandIn, Swap, Goto
<1>6. BackupCanStandIn'
  BY DEF BackupCanStandIn, TypeOK, StageInv, StageOK, StagedOK, Swap, Goto
<1>7. BackupIsEarlier'
  BY DEF BackupIsEarlier, TypeOK, StageInv, StageOK, StagedOK, Base, Content, Swap, Goto
<1> QED BY <1>1, <1>2, <1>3, <1>4, <1>5, <1>6, <1>7

(* The old backup goes while the root is there. *)
LEMMA UnlinkKeeps ==
    ASSUME MergeInv, NEW p \in Proc, Unlink(p)
    PROVE  MergeInv'
<1> USE Labels DEF MergeInv
<1>1. TypeOK'
  <2>2. (root \in Dir \cup {None} /\ backup \in Dir \cup {None})'
    BY BrokenIsDir DEF TypeOK, Unlink, StageInv, StageOK, At
  <2>3. (lock \in Proc \cup {None})'
    BY DEF TypeOK, Unlink, Goto, Inside, Crossed
  <2>4. (merge \in [Proc -> [at : {"idle", "waiting"} \cup Inside, of : Session \cup {None},
                         count : 0..MaxEpisodes, staged : Dir \cup {None}]])'
    <3>1. merge' = merge \/ merge' = [merge EXCEPT ![p].at = "shelve"]
      BY DEF Unlink, Goto
    <3> QED BY <3>1 DEF TypeOK, Inside
  <2>5. (check \in [Checker -> [at : {"idle", "root", "backup", "hub", "found", "new", "error"},
                            was : BOOLEAN, crossed : BOOLEAN]])'
    BY CrossedTypes DEF TypeOK, Unlink
  <2> QED BY <2>2, <2>3, <2>4, <2>5 DEF TypeOK
<1>2. LockInv'
  BY DEF LockInv, TypeOK, At, Inside, Unlink, Crossed, Goto
<1>3. StageInv'
  <2> SUFFICES ASSUME NEW q \in Proc
              PROVE  StageOK(q)'
    BY DEF StageInv
  <2>1. CASE q # p
    <3>1. At(q) \notin Inside /\ merge'[q] = merge[q]
      BY <2>1 DEF Unlink, Goto, LockInv, TypeOK, At, Inside
    <3> QED BY <3>1 DEF StageInv, StageOK, At, Inside
  <2>2. CASE q = p
    <3>1. /\ At(p)' \in {"unlink", "shelve"} /\ StagedOK(p)
          /\ merge'[p].of = merge[p].of /\ merge'[p].count = merge[p].count
          /\ merge'[p].staged = merge[p].staged
      BY DEF Unlink, Goto, TypeOK, StageInv, StageOK, At
    <3>2. Base' = Base
      BY DEF Unlink, TypeOK, StageInv, StageOK, Base, Content, At
    <3>3. StagedOK(p)'
      BY <3>1, <3>2 DEF StagedOK
    <3>4. backup \in Dir
      BY DEF Unlink, TypeOK, StageInv, StageOK, At
    <3>5. (At(p)' = "unlink" => backup' # None) /\ (At(p)' = "shelve" => backup' = None)
      BY <3>4, BrokenIsDir DEF Unlink, Goto, TypeOK, At
    <3> QED BY <2>2, <3>1, <3>3, <3>5 DEF Unlink, Goto, TypeOK, StageInv, StageOK, At
  <2> QED BY <2>1, <2>2
<1>4. CheckInv'
  <2>1. backup # None /\ root # None /\ root' = root
    BY DEF Unlink, StageInv, StageOK, At
  <2>0. backup \in Dir
    BY <2>1 DEF TypeOK
  <2>2. \/ backup' = None
        \/ backup' \in Dir /\ ~backup'.whole /\ backup'.ledger = backup.ledger
    BY <2>0, BrokenIsDir DEF Unlink
  <2>3. check' = Crossed
    BY DEF Unlink
  <2> SUFFICES ASSUME NEW k \in Checker
              PROVE  CheckOK(k)'
    BY DEF CheckInv
  <2>4. Content' # None
    BY <2>1 DEF Content
  <2> QED BY <2>3, <2>4 DEF Crossed, CheckInv, CheckOK, TypeOK
<1>5. ExactlyOnce'
  <2>1. backup # None /\ root # None /\ root' = root
    BY DEF Unlink, StageInv, StageOK, At
  <2>0. backup \in Dir
    BY <2>1 DEF TypeOK
  <2>2. \/ backup' = None
        \/ backup' \in Dir /\ ~backup'.whole /\ backup'.ledger = backup.ledger
    BY <2>0, BrokenIsDir DEF Unlink
  <2> QED BY <2>1, <2>2 DEF ExactlyOnce, Honest
<1>6. BackupCanStandIn'
  BY DEF BackupCanStandIn, TypeOK, StageInv, StageOK, StagedOK, Unlink, Crossed, Goto
<1>7. BackupIsEarlier'
  <2>1. backup # None /\ root # None /\ root' = root
    BY DEF Unlink, StageInv, StageOK, At
  <2>0. backup \in Dir
    BY <2>1 DEF TypeOK
  <2>2. \/ backup' = None
        \/ backup' \in Dir /\ ~backup'.whole /\ backup'.ledger = backup.ledger
    BY <2>0, BrokenIsDir DEF Unlink
  <2> QED BY <2>1, <2>2 DEF BackupIsEarlier
<1> QED BY <1>1, <1>2, <1>3, <1>4, <1>5, <1>6, <1>7

(* The root becomes the backup: there is as much as before. *)
LEMMA ShelveKeeps ==
    ASSUME MergeInv, NEW p \in Proc, Shelve(p)
    PROVE  MergeInv'
<1> USE Labels DEF MergeInv
<1>1. TypeOK'
  BY DEF TypeOK, Inside, Shelve, Goto
<1>2. LockInv'
  BY DEF LockInv, TypeOK, At, Inside, Shelve, Goto
<1>3. StageInv'
  <2> SUFFICES ASSUME NEW q \in Proc
              PROVE  StageOK(q)'
    BY DEF StageInv
  <2>1. CASE q # p
    <3>1. At(q) \notin Inside /\ merge'[q] = merge[q]
      BY <2>1 DEF Shelve, Goto, LockInv, TypeOK, At, Inside
    <3> QED BY <3>1 DEF StageInv, StageOK, At, Inside
  <2>2. CASE q = p
    <3>1. /\ At(p)' \in {"install"} /\ StagedOK(p)
          /\ merge'[p].of = merge[p].of /\ merge'[p].count = merge[p].count
          /\ merge'[p].staged = merge[p].staged
      BY DEF Shelve, Goto, TypeOK, StageInv, StageOK, At
    <3>2. Base' = Base
      BY DEF Shelve, TypeOK, StageInv, StageOK, Base, Content, At
    <3>3. StagedOK(p)'
      BY <3>1, <3>2 DEF StagedOK
    <3> QED BY <2>2, <3>1, <3>3 DEF Shelve, Goto, TypeOK, StageInv, StageOK, At
  <2> QED BY <2>1, <2>2
<1>4. CheckInv'
  BY DEF CheckInv, TypeOK, CheckOK, Content, StageInv, StageOK, BackupCanStandIn, Shelve, Goto
<1>5. ExactlyOnce'
  BY DEF ExactlyOnce, TypeOK, Honest, StageInv, StageOK, StagedOK, BackupCanStandIn, Shelve, Goto
<1>6. BackupCanStandIn'
  BY DEF BackupCanStandIn, TypeOK, StageInv, StageOK, StagedOK, Shelve, Goto
<1>7. BackupIsEarlier'
  BY DEF BackupIsEarlier, TypeOK, StageInv, StageOK, StagedOK, Base, Content, Shelve, Goto
<1> QED BY <1>1, <1>2, <1>3, <1>4, <1>5, <1>6, <1>7

(* The staged dataset becomes the root. *)
LEMMA InstallKeeps ==
    ASSUME MergeInv, NEW p \in Proc, Install(p)
    PROVE  MergeInv'
<1> USE Labels DEF MergeInv
<1>1. TypeOK'
  BY DEF TypeOK, Inside, Install, Leave, Idle
<1>2. LockInv'
  BY DEF LockInv, TypeOK, At, Inside, Install, Leave, Idle
<1>3. StageInv'
  <2> SUFFICES ASSUME NEW q \in Proc
              PROVE  StageOK(q)'
    BY DEF StageInv
  <2>1. CASE q # p
    <3>1. At(q) \notin Inside /\ merge'[q] = merge[q]
      BY <2>1 DEF Install, Leave, Idle, LockInv, TypeOK, At, Inside
    <3> QED BY <3>1 DEF StageInv, StageOK, At, Inside
  <2>2. CASE q = p
    BY <2>2 DEF Install, Leave, Idle, TypeOK, StageOK, At, Inside
  <2> QED BY <2>1, <2>2
<1>4. CheckInv'
  BY DEF CheckInv, TypeOK, CheckOK, Content, StageInv, StageOK, BackupCanStandIn, Install, Leave, Idle
<1>5. ExactlyOnce'
  <2>1. root' = merge[p].staged /\ Honest(merge[p].staged) /\ backup' = backup
    BY DEF Install, StageInv, StageOK, StagedOK
  <2> QED BY <2>1 DEF ExactlyOnce
<1>6. BackupCanStandIn'
  BY DEF BackupCanStandIn, TypeOK, StageInv, StageOK, StagedOK, Install, Leave, Idle
<1>7. BackupIsEarlier'
  <2>1. /\ root = None /\ root' = merge[p].staged /\ backup' = backup
        /\ merge[p].of \in Session /\ merge[p].count \in 0..MaxEpisodes
        /\ merge[p].staged.ledger = [Base.ledger EXCEPT ![merge[p].of] = merge[p].count]
        /\ Base.ledger[merge[p].of] < merge[p].count
    BY DEF Install, TypeOK, StageInv, StageOK, StagedOK, At
  <2>2. backup # None => Base = backup /\ backup.ledger \in [Session -> 0..MaxEpisodes]
    BY <2>1 DEF Base, Content, TypeOK, Dir
  <2> QED BY <2>1, <2>2 DEF BackupIsEarlier
<1> QED BY <1>1, <1>2, <1>3, <1>4, <1>5, <1>6, <1>7

LEMMA InstallFailsKeeps ==
    ASSUME MergeInv, NEW p \in Proc, InstallFails(p)
    PROVE  MergeInv'
<1> USE Labels DEF MergeInv
<1>1. TypeOK'
  BY SMTT(30) DEF TypeOK, Inside, InstallFails, Goto
<1>2. LockInv'
  BY DEF LockInv, TypeOK, At, Inside, InstallFails, Goto
<1>3. StageInv'
  <2> SUFFICES ASSUME NEW q \in Proc
              PROVE  StageOK(q)'
    BY DEF StageInv
  <2>1. CASE q # p
    <3>1. At(q) \notin Inside /\ merge'[q] = merge[q]
      BY <2>1 DEF InstallFails, Goto, LockInv, TypeOK, At, Inside
    <3> QED BY <3>1 DEF StageInv, StageOK, At, Inside
  <2>2. CASE q = p
    BY <2>2 DEF InstallFails, Goto, TypeOK, StageInv, StageOK, At, Inside
  <2> QED BY <2>1, <2>2
<1>4. CheckInv'
  BY DEF CheckInv, TypeOK, CheckOK, Content, StageInv, StageOK, BackupCanStandIn, InstallFails, Goto
<1>5. ExactlyOnce'
  BY DEF ExactlyOnce, TypeOK, Honest, StageInv, StageOK, StagedOK, BackupCanStandIn, InstallFails, Goto
<1>6. BackupCanStandIn'
  BY DEF BackupCanStandIn, TypeOK, StageInv, StageOK, StagedOK, InstallFails, Goto
<1>7. BackupIsEarlier'
  BY DEF BackupIsEarlier, TypeOK, StageInv, StageOK, StagedOK, Base, Content, InstallFails, Goto
<1> QED BY <1>1, <1>2, <1>3, <1>4, <1>5, <1>6, <1>7

LEMMA RollbackKeeps ==
    ASSUME MergeInv, NEW p \in Proc, Rollback(p)
    PROVE  MergeInv'
<1> USE Labels DEF MergeInv
<1>1. TypeOK'
  <2>2. (root \in Dir \cup {None} /\ backup \in Dir \cup {None})'
    BY DEF TypeOK, Rollback, Restore, Leave, Idle, Inside
  <2>3. (lock \in Proc \cup {None})'
    BY DEF TypeOK, Rollback, Restore, Leave, Idle, Inside
  <2>4. (merge \in [Proc -> [at : {"idle", "waiting"} \cup Inside, of : Session \cup {None},
                         count : 0..MaxEpisodes, staged : Dir \cup {None}]])'
    BY DEF TypeOK, Rollback, Restore, Leave, Idle, Inside
  <2>5. (check \in [Checker -> [at : {"idle", "root", "backup", "hub", "found", "new", "error"},
                            was : BOOLEAN, crossed : BOOLEAN]])'
    BY CrossedTypes DEF TypeOK, Rollback, Restore
  <2> QED BY <2>2, <2>3, <2>4, <2>5 DEF TypeOK
<1>2. LockInv'
  BY DEF LockInv, TypeOK, At, Inside, Rollback, Restore, Crossed, Leave, Idle
<1>3. StageInv'
  BY ZenonT(60) DEF StageInv, TypeOK, LockInv, StageOK, StagedOK, At, Base, Content, Inside, Rollback, Restore, Crossed, Leave, Idle
<1>4. CheckInv'
  BY DEF CheckInv, TypeOK, CheckOK, Content, StageInv, StageOK, BackupCanStandIn, Rollback, Restore, Crossed, Leave, Idle
<1>5. ExactlyOnce'
  BY DEF ExactlyOnce, TypeOK, Honest, StageInv, StageOK, StagedOK, BackupCanStandIn, Rollback, Restore, Crossed, Leave, Idle
<1>6. BackupCanStandIn'
  BY DEF BackupCanStandIn, TypeOK, StageInv, StageOK, StagedOK, Rollback, Restore, Crossed, Leave, Idle
<1>7. BackupIsEarlier'
  BY DEF BackupIsEarlier, TypeOK, StageInv, StageOK, StagedOK, Base, Content, Rollback, Restore, Crossed, Leave, Idle
<1> QED BY <1>1, <1>2, <1>3, <1>4, <1>5, <1>6, <1>7

(* Nothing that is given up was half done, but a backup. *)
LEMMA GiveUpKeeps ==
    ASSUME MergeInv, NEW p \in Proc, GiveUp(p)
    PROVE  MergeInv'
<1> USE Labels DEF MergeInv
<1>1. TypeOK'
  BY DEF TypeOK, Inside, GiveUp, Leave, Idle
<1>2. LockInv'
  BY DEF LockInv, TypeOK, At, Inside, GiveUp, Leave, Idle
<1>3. StageInv'
  BY ZenonT(60) DEF StageInv, TypeOK, LockInv, StageOK, StagedOK, At, Base, Content, Inside, GiveUp, Leave, Idle
<1>4. CheckInv'
  BY DEF CheckInv, TypeOK, CheckOK, Content, StageInv, StageOK, BackupCanStandIn, GiveUp, Leave, Idle
<1>5. ExactlyOnce'
  BY DEF ExactlyOnce, TypeOK, Honest, StageInv, StageOK, StagedOK, BackupCanStandIn, GiveUp, Leave, Idle
<1>6. BackupCanStandIn'
  BY DEF BackupCanStandIn, TypeOK, StageInv, StageOK, StagedOK, GiveUp, Leave, Idle
<1>7. BackupIsEarlier'
  BY DEF BackupIsEarlier, TypeOK, StageInv, StageOK, StagedOK, Base, Content, GiveUp, Leave, Idle
<1> QED BY <1>1, <1>2, <1>3, <1>4, <1>5, <1>6, <1>7

LEMMA GiveUpWaitingKeeps ==
    ASSUME MergeInv, NEW p \in Proc, GiveUpWaiting(p)
    PROVE  MergeInv'
<1> USE Labels DEF MergeInv
<1>1. TypeOK'
  BY DEF TypeOK, Inside, GiveUpWaiting, Idle
<1>2. LockInv'
  BY DEF LockInv, TypeOK, At, Inside, GiveUpWaiting, Idle
<1>3. StageInv'
  BY ZenonT(60) DEF StageInv, TypeOK, LockInv, StageOK, StagedOK, At, Base, Content, Inside, GiveUpWaiting, Idle
<1>4. CheckInv'
  BY DEF CheckInv, TypeOK, CheckOK, Content, StageInv, StageOK, BackupCanStandIn, GiveUpWaiting, Idle
<1>5. ExactlyOnce'
  BY DEF ExactlyOnce, TypeOK, Honest, StageInv, StageOK, StagedOK, BackupCanStandIn, GiveUpWaiting, Idle
<1>6. BackupCanStandIn'
  BY DEF BackupCanStandIn, TypeOK, StageInv, StageOK, StagedOK, GiveUpWaiting, Idle
<1>7. BackupIsEarlier'
  BY DEF BackupIsEarlier, TypeOK, StageInv, StageOK, StagedOK, Base, Content, GiveUpWaiting, Idle
<1> QED BY <1>1, <1>2, <1>3, <1>4, <1>5, <1>6, <1>7

LEMMA BeginCheckKeeps ==
    ASSUME MergeInv, NEW k \in Checker, BeginCheck(k)
    PROVE  MergeInv'
<1> USE Labels DEF MergeInv
<1>1. TypeOK'
  BY DEF TypeOK, Inside, BeginCheck
<1>2. LockInv'
  BY DEF LockInv, TypeOK, At, Inside, BeginCheck
<1>3. StageInv'
  BY DEF StageInv, TypeOK, LockInv, StageOK, StagedOK, At, Base, Content, Inside, BeginCheck
<1>4. CheckInv'
  BY DEF CheckInv, TypeOK, CheckOK, Content, StageInv, StageOK, BackupCanStandIn, BeginCheck
<1>5. ExactlyOnce'
  BY DEF ExactlyOnce, TypeOK, Honest, StageInv, StageOK, StagedOK, BackupCanStandIn, BeginCheck
<1>6. BackupCanStandIn'
  BY DEF BackupCanStandIn, TypeOK, StageInv, StageOK, StagedOK, BeginCheck
<1>7. BackupIsEarlier'
  BY DEF BackupIsEarlier, TypeOK, StageInv, StageOK, StagedOK, Base, Content, BeginCheck
<1> QED BY <1>1, <1>2, <1>3, <1>4, <1>5, <1>6, <1>7

LEMMA LookAtRootKeeps ==
    ASSUME MergeInv, NEW k \in Checker, LookAtRoot(k)
    PROVE  MergeInv'
<1> USE Labels DEF MergeInv
<1>1. TypeOK'
  BY DEF TypeOK, Inside, LookAtRoot, Answer
<1>2. LockInv'
  BY DEF LockInv, TypeOK, At, Inside, LookAtRoot, Answer
<1>3. StageInv'
  BY DEF StageInv, TypeOK, LockInv, StageOK, StagedOK, At, Base, Content, Inside, LookAtRoot, Answer
<1>4. CheckInv'
  BY DEF CheckInv, TypeOK, CheckOK, Content, StageInv, StageOK, BackupCanStandIn, LookAtRoot, Answer
<1>5. ExactlyOnce'
  BY DEF ExactlyOnce, TypeOK, Honest, StageInv, StageOK, StagedOK, BackupCanStandIn, LookAtRoot, Answer
<1>6. BackupCanStandIn'
  BY DEF BackupCanStandIn, TypeOK, StageInv, StageOK, StagedOK, LookAtRoot, Answer
<1>7. BackupIsEarlier'
  BY DEF BackupIsEarlier, TypeOK, StageInv, StageOK, StagedOK, Base, Content, LookAtRoot, Answer
<1> QED BY <1>1, <1>2, <1>3, <1>4, <1>5, <1>6, <1>7

LEMMA LookAtBackupKeeps ==
    ASSUME MergeInv, NEW k \in Checker, LookAtBackup(k)
    PROVE  MergeInv'
<1> USE Labels DEF MergeInv
<1>1. TypeOK'
  BY DEF TypeOK, Inside, LookAtBackup, Answer
<1>2. LockInv'
  BY DEF LockInv, TypeOK, At, Inside, LookAtBackup, Answer
<1>3. StageInv'
  BY ZenonT(60) DEF StageInv, TypeOK, LockInv, StageOK, StagedOK, At, Base, Content, Inside, LookAtBackup, Answer
<1>4. CheckInv'
  BY DEF CheckInv, TypeOK, CheckOK, Content, StageInv, StageOK, BackupCanStandIn, LookAtBackup, Answer
<1>5. ExactlyOnce'
  BY DEF ExactlyOnce, TypeOK, Honest, StageInv, StageOK, StagedOK, BackupCanStandIn, LookAtBackup, Answer
<1>6. BackupCanStandIn'
  BY DEF BackupCanStandIn, TypeOK, StageInv, StageOK, StagedOK, LookAtBackup, Answer
<1>7. BackupIsEarlier'
  BY DEF BackupIsEarlier, TypeOK, StageInv, StageOK, StagedOK, Base, Content, LookAtBackup, Answer
<1> QED BY <1>1, <1>2, <1>3, <1>4, <1>5, <1>6, <1>7

LEMMA AskHubKeeps ==
    ASSUME MergeInv, NEW k \in Checker, AskHub(k)
    PROVE  MergeInv'
<1> USE Labels DEF MergeInv
<1>1. TypeOK'
  BY DEF TypeOK, Inside, AskHub, Answer
<1>2. LockInv'
  BY DEF LockInv, TypeOK, At, Inside, AskHub, Answer
<1>3. StageInv'
  BY ZenonT(60) DEF StageInv, TypeOK, LockInv, StageOK, StagedOK, At, Base, Content, Inside, AskHub, Answer
<1>4. CheckInv'
  BY DEF CheckInv, TypeOK, CheckOK, Content, StageInv, StageOK, BackupCanStandIn, AskHub, Answer
<1>5. ExactlyOnce'
  BY DEF ExactlyOnce, TypeOK, Honest, StageInv, StageOK, StagedOK, BackupCanStandIn, AskHub, Answer
<1>6. BackupCanStandIn'
  BY DEF BackupCanStandIn, TypeOK, StageInv, StageOK, StagedOK, AskHub, Answer
<1>7. BackupIsEarlier'
  BY DEF BackupIsEarlier, TypeOK, StageInv, StageOK, StagedOK, Base, Content, AskHub, Answer
<1> QED BY <1>1, <1>2, <1>3, <1>4, <1>5, <1>6, <1>7

LEMMA EndCheckKeeps ==
    ASSUME MergeInv, NEW k \in Checker, EndCheck(k)
    PROVE  MergeInv'
<1> USE Labels DEF MergeInv
<1>1. TypeOK'
  BY DEF TypeOK, Inside, EndCheck, Unasked
<1>2. LockInv'
  BY DEF LockInv, TypeOK, At, Inside, EndCheck, Unasked
<1>3. StageInv'
  BY ZenonT(60) DEF StageInv, TypeOK, LockInv, StageOK, StagedOK, At, Base, Content, Inside, EndCheck, Unasked
<1>4. CheckInv'
  BY DEF CheckInv, TypeOK, CheckOK, Content, StageInv, StageOK, BackupCanStandIn, EndCheck, Unasked
<1>5. ExactlyOnce'
  BY DEF ExactlyOnce, TypeOK, Honest, StageInv, StageOK, StagedOK, BackupCanStandIn, EndCheck, Unasked
<1>6. BackupCanStandIn'
  BY DEF BackupCanStandIn, TypeOK, StageInv, StageOK, StagedOK, EndCheck, Unasked
<1>7. BackupIsEarlier'
  BY DEF BackupIsEarlier, TypeOK, StageInv, StageOK, StagedOK, Base, Content, EndCheck, Unasked
<1> QED BY <1>1, <1>2, <1>3, <1>4, <1>5, <1>6, <1>7

LEMMA InitHolds == Init => MergeInv
<1> SUFFICES ASSUME Init PROVE MergeInv OBVIOUS
<1> USE Labels, FreshIsHonest DEF Init
<1>1. TypeOK
  <2>1. Idle \in [at : {"idle", "waiting"} \cup Inside, of : Session \cup {None},
                  count : 0..MaxEpisodes, staged : Dir \cup {None}]
    BY DEF Idle
  <2>2. Unasked \in [at : {"idle", "root", "backup", "hub", "found", "new", "error"},
                     was : BOOLEAN, crossed : BOOLEAN]
    BY DEF Unasked
  <2> QED BY <2>1, <2>2 DEF TypeOK
<1>2. LockInv /\ StageInv /\ CheckInv
  BY DEF LockInv, StageInv, StageOK, CheckInv, CheckOK, At, Idle, Unasked
<1>3. ExactlyOnce
  <2>1. Honest(None)
    BY DEF Honest
  <2> QED BY <2>1 DEF ExactlyOnce
<1>4. BackupCanStandIn /\ BackupIsEarlier
  BY DEF BackupCanStandIn, BackupIsEarlier
<1> QED BY <1>1, <1>2, <1>3, <1>4 DEF MergeInv

LEMMA StutterKeeps == MergeInv /\ UNCHANGED vars => MergeInv'
<1> SUFFICES ASSUME MergeInv, UNCHANGED vars PROVE MergeInv' OBVIOUS
<1> USE DEF MergeInv, vars
<1>1. TypeOK' /\ LockInv'
  BY DEF TypeOK, LockInv, At
<1>2. StageInv'
  BY DEF StageInv, StageOK, StagedOK, Base, Content, At
<1>3. CheckInv'
  BY DEF CheckInv, CheckOK, Content
<1>4. ExactlyOnce' /\ BackupCanStandIn' /\ BackupIsEarlier'
  BY DEF ExactlyOnce, BackupCanStandIn, BackupIsEarlier
<1> QED BY <1>1, <1>2, <1>3, <1>4

LEMMA StepKeeps == MergeInv /\ [Next]_vars => MergeInv'
<1> SUFFICES ASSUME MergeInv, [Next]_vars PROVE MergeInv' OBVIOUS
<1>2. ASSUME NEW p \in Proc, NEW s \in Session, Begin(p, s) PROVE MergeInv'
  BY <1>2, BeginKeeps
<1>3. ASSUME NEW p \in Proc, Merge(p) PROVE MergeInv'
  BY <1>3, TakeLockKeeps, RecoverKeeps, NothingNewKeeps, CompareKeeps, StageKeeps, SwapKeeps,
     UnlinkKeeps, ShelveKeeps, InstallKeeps, InstallFailsKeeps, RollbackKeeps, GiveUpKeeps,
     GiveUpWaitingKeeps DEF Merge
<1>4. ASSUME NEW k \in Checker, Check(k) PROVE MergeInv'
  BY <1>4, BeginCheckKeeps, LookAtRootKeeps, LookAtBackupKeeps, AskHubKeeps, EndCheckKeeps DEF Check
<1>5. CASE UNCHANGED vars
  BY <1>5, StutterKeeps
<1> QED BY <1>2, <1>3, <1>4, <1>5 DEF Next

(* The inductive invariant: who is inside the lock, and what each stage of *)
(* a merge knows of the two directories and of the staged one.             *)
THEOREM MergeInvariance == Spec => []MergeInv
<1> QED BY InitHolds, StepKeeps, PTL DEF Spec

(* Every variable stays in its type. *)
THEOREM TypesHold == Spec => []TypeOK
<1>1. MergeInv => TypeOK
  BY DEF MergeInv
<1> QED BY <1>1, MergeInvariance, PTL

(* No episode is in the root twice, and each the ledger counts is there,   *)
(* but for those that came or went while their session was merged.         *)
THEOREM EpisodesOnce == Spec => []ExactlyOnce
<1>1. MergeInv => ExactlyOnce
  BY DEF MergeInv
<1> QED BY <1>1, MergeInvariance, PTL

(* Whenever the root is not there, a backup that is there has all its files. *)
THEOREM BackupStandsIn == Spec => []BackupCanStandIn
<1>1. MergeInv => BackupCanStandIn
  BY DEF MergeInv
<1> QED BY <1>1, MergeInvariance, PTL

(* The backup is a state the root was in. *)
THEOREM BackupStaysEarlier == Spec => []BackupIsEarlier
<1>1. MergeInv => BackupIsEarlier
  BY DEF MergeInv
<1> QED BY <1>1, MergeInvariance, PTL

(* Only a backup that goes, or begins to go, between its two looks         *)
(* misleads a check.                                                       *)
THEOREM ChecksAreRight == Spec => []NewIsNew
<1>1. MergeInv => NewIsNew
  BY DEF MergeInv, CheckInv, CheckOK, NewIsNew
<1> QED BY <1>1, MergeInvariance, PTL

(* What the disk holds, as the abstract ledger sees it. *)
LEMMA SoilIsBase ==
    ASSUME TypeOK
    PROVE  /\ Ledger!Soil = [seeded |-> Base.seeded, ledger |-> Base.ledger]
           /\ Base \in Dir
<1>1. Content # None => Merged # None /\ Merged = [seeded |-> Content.seeded, ledger |-> Content.ledger]
  <2> SUFFICES ASSUME Content # None
              PROVE  [seeded |-> Content.seeded, ledger |-> Content.ledger] # None
    BY DEF Merged
  <2>1. Content \in Dir
    BY DEF Content, TypeOK
  <2>2. [seeded |-> Content.seeded, ledger |-> Content.ledger]
           \in [seeded : BOOLEAN, ledger : [Session -> 0..MaxEpisodes]]
    BY <2>1 DEF Dir
  <2> QED BY <2>2
<1>2. Content = None => Merged = None
  BY DEF Merged
<1>3. Ledger!FromHub = [seeded |-> FromHub.seeded, ledger |-> FromHub.ledger]
  BY DEF Ledger!FromHub, FromHub, Ledger!Start, Ledger!NoLedger, NoLedger, Counting
<1> QED BY <1>1, <1>2, <1>3, FreshIsHonest DEF Ledger!Soil, Base, Content, TypeOK

(* A step that leaves the disk's data as it is. *)
LEMMA Stutters ==
    ASSUME Content' = Content
    PROVE  UNCHANGED Merged
BY DEF Merged

LEMMA MergeStep ==
    ASSUME MergeInv, MergeInv', NEW p \in Proc, Merge(p)
    PROVE  Ledger!Next \/ UNCHANGED Merged
<1> USE DEF MergeInv
<1>1. CASE Recover(p) \/ Rollback(p)
  BY <1>1, Stutters DEF Recover, Rollback, Restore, Content
<1>2. CASE Unlink(p)
  <2>1. root # None /\ root' = root
    BY <1>2 DEF Unlink, StageInv, StageOK, At
  <2> QED BY <2>1, Stutters DEF Content
<1>3. CASE Shelve(p)
  <2>1. root # None /\ root' = None /\ backup' = root
    BY <1>3 DEF Shelve, StageInv, StageOK, At
  <2> QED BY <2>1, Stutters DEF Content
<1>4. CASE Install(p)
  <2> DEFINE s == merge[p].of
             n == merge[p].count
             d == merge[p].staged
  <2>1. /\ s \in Session /\ d \in Dir /\ d.seeded = Base.seeded
        /\ d.ledger = [Base.ledger EXCEPT ![s] = n]
        /\ Base.ledger[s] < n
        /\ root' = d
    BY <1>4 DEF Install, StageInv, StageOK, StagedOK, At
  <2>2. n \in 1..MaxEpisodes
    <3>1. n \in 0..MaxEpisodes /\ Base.ledger[s] \in 0..MaxEpisodes
      BY <2>1, SoilIsBase DEF TypeOK, Dir
    <3> QED BY <2>1, <3>1
  <2>3. Merged' = [seeded |-> d.seeded, ledger |-> d.ledger]
    BY <2>1, Labels DEF Merged, Content
  <2>4. Merged' = [Ledger!Soil EXCEPT !.ledger[s] = n] /\ n > Ledger!Soil.ledger[s]
    <3> HIDE DEF s, n, d
    <3>1. Ledger!Soil = [seeded |-> Base.seeded, ledger |-> Base.ledger] /\ Base \in Dir
      BY SoilIsBase
    <3>2. Base.ledger \in [Session -> 0..MaxEpisodes] /\ n \in Nat
      BY <2>2, <3>1 DEF Dir
    <3> QED BY <2>1, <2>3, <3>1, <3>2
  <2>5. Ledger!Append(s, n)
    BY <2>4 DEF Ledger!Append
  <2> HIDE DEF s, n
  <2> QED BY <2>1, <2>2, <2>5 DEF Ledger!Next
<1>5. CASE /\ ~Recover(p) /\ ~Rollback(p) /\ ~Unlink(p) /\ ~Shelve(p) /\ ~Install(p)
  <2>1. UNCHANGED <<root, backup>>
    BY <1>5 DEF Merge, TakeLock, NothingNew, Compare, Stage, Swap, InstallFails, GiveUp, GiveUpWaiting
  <2> QED BY <2>1, Stutters DEF Content
<1> QED BY <1>1, <1>2, <1>3, <1>4, <1>5

(* The merges, with their crashes and failures, implement a ledger that    *)
(* only grows.                                                             *)
THEOREM RootKeepsTheLedger == Spec => LedgerRefinement
<1>1. Init => Ledger!Init
  <2> SUFFICES ASSUME Init PROVE Ledger!Init OBVIOUS
  <2>1. CASE root = None
    BY <2>1 DEF Init, Merged, Content, Ledger!Init
  <2>2. CASE root = Counting(NoLedger, TRUE)
    <3>1. Merged = [seeded |-> TRUE, ledger |-> [s \in Session |-> 0]]
      BY <2>2, FreshIsHonest, Labels DEF Merged, Content, Counting, NoLedger
    <3>2. Ledger!Start(Ledger!NoLedger, TRUE) = [seeded |-> TRUE, ledger |-> [s \in Session |-> 0]]
      BY DEF Ledger!Start, Ledger!NoLedger
    <3> QED BY <3>1, <3>2 DEF Ledger!Init
  <2> QED BY <2>1, <2>2 DEF Init
<1>2. MergeInv /\ MergeInv' /\ [Next]_vars => [Ledger!Next]_Merged
  <2> SUFFICES ASSUME MergeInv, MergeInv', [Next]_vars PROVE Ledger!Next \/ UNCHANGED Merged
    OBVIOUS
  <2>1. ASSUME NEW p \in Proc, Merge(p) PROVE Ledger!Next \/ UNCHANGED Merged
    BY <2>1, MergeStep
  <2>2. ASSUME NEW s \in Session, NEW p \in Proc, Begin(p, s)
        PROVE  UNCHANGED Merged
    BY <2>2, Stutters DEF Begin, Content
  <2>3. ASSUME NEW k \in Checker, Check(k) PROVE UNCHANGED Merged
    BY <2>3, Stutters DEF Check, BeginCheck, LookAtRoot, LookAtBackup, AskHub, EndCheck, Content
  <2>4. CASE UNCHANGED vars
    BY <2>4, Stutters DEF vars, Content
  <2> QED BY <2>1, <2>2, <2>3, <2>4 DEF Next
<1> QED BY <1>1, <1>2, MergeInvariance, PTL DEF Spec, LedgerRefinement, Ledger!Spec

-----------------------------------------------------------------------------
(* What the ledger promises, the root keeps: it follows of the ledger      *)
(* alone.                                                                  *)
LedgerInv == Merged \in {None} \cup [seeded : BOOLEAN, ledger : [Session -> 0..MaxEpisodes]]

LEMMA AppendGrows ==
    ASSUME LedgerInv, Ledger!Next
    PROVE  /\ LedgerInv'
           /\ Merged # None => /\ Merged' # None
                               /\ Merged'.seeded = Merged.seeded
                               /\ \A s \in Session : Merged'.ledger[s] >= Merged.ledger[s]
<1> DEFINE Ledgers == [seeded : BOOLEAN, ledger : [Session -> 0..MaxEpisodes]]
           soil == Ledger!Soil
<1>1. PICK s \in Session, n \in 1..MaxEpisodes : n > soil.ledger[s] /\ Merged' = [soil EXCEPT !.ledger[s] = n]
  BY DEF Ledger!Next, Ledger!Append
<1>2. soil \in Ledgers /\ (Merged # None => soil = Merged)
  BY HubAssumption, EpisodesAssumption DEF LedgerInv, Ledger!Soil, Ledger!FromHub, Ledger!Start, Ledger!NoLedger
<1> HIDE DEF soil
<1>3. Merged' \in Ledgers /\ Merged'.seeded = soil.seeded /\ Merged'.ledger = [soil.ledger EXCEPT ![s] = n]
  BY <1>1, <1>2
<1>4. \A r \in Session : Merged'.ledger[r] >= soil.ledger[r]
  <2>1. soil.ledger \in [Session -> 0..MaxEpisodes] /\ MaxEpisodes \in Nat
    BY <1>2, EpisodesAssumption
  <2> QED BY <1>1, <1>3, <2>1
<1>5. Merged' # None
  BY <1>3, NoneAssumption
<1> QED BY <1>2, <1>3, <1>4, <1>5 DEF LedgerInv

(* No retry, failure or crash of a merge takes away what the root held:    *)
(* every session's episodes, and what it started from                      *)
(* (collection_merge.py:201-226).                                          *)
THEOREM RootOnlyGrows == Spec => Ledger!OnlyGrows
<1>1. Ledger!Init => LedgerInv
  <2>1. 0 \in 0..MaxEpisodes
    BY EpisodesAssumption
  <2>2. Ledger!Start(Ledger!NoLedger, TRUE) \in [seeded : BOOLEAN, ledger : [Session -> 0..MaxEpisodes]]
    BY <2>1 DEF Ledger!Start, Ledger!NoLedger
  <2> QED BY <2>2 DEF Ledger!Init, LedgerInv
<1>2. LedgerInv /\ [Ledger!Next]_Merged => LedgerInv'
  BY AppendGrows DEF LedgerInv
<1>3. LedgerInv /\ [Ledger!Next]_Merged =>
        [Merged # None =>
            /\ Merged' # None
            /\ Merged'.seeded = Merged.seeded
            /\ \A s \in Session : Merged'.ledger[s] >= Merged.ledger[s]]_Merged
  BY AppendGrows
<1> QED BY <1>1, <1>2, <1>3, RootKeepsTheLedger, PTL DEF LedgerRefinement, Ledger!Spec, Ledger!OnlyGrows
=============================================================================
