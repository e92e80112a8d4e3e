--------------------------- MODULE CollectionMerge ---------------------------
(***************************************************************************)
(* Merging collection sessions into a local root dataset                   *)
(* (collection_merge.py): processes that merge one session at a time under *)
(* a file lock, any of which may fail or be killed between two renames;    *)
(* and the check before a recording, which reads the root without the      *)
(* lock.                                                                   *)
(*                                                                         *)
(* A dataset directory is how often each episode of each session is in it, *)
(* its ledger (meta/collection_sessions.json), whether the data it was     *)
(* started from is, whether all its files still are, and, as history, the  *)
(* episodes that came or went while a merge that is in it was under way.   *)
(***************************************************************************)
EXTENDS Naturals

CONSTANTS
    Proc,         \* processes that merge
    Checker,      \* processes that are about to record
    Session,      \* repo ids of the sessions
    MaxEpisodes,  \* bound: the episodes of a session
    OnHub,        \* the Hub has the root dataset
    HubLedger,    \* how far each session is in the Hub's, by its ledger
    None          \* no such directory; nobody

VARIABLES
    root,      \* the root's directory
    backup,    \* its sibling .previous
    lock,      \* who holds .merge.lock
    merge,     \* where each merging process is
    check      \* where each check is, and what it found

vars == <<root, backup, lock, merge, check>>

Episode == 1..MaxEpisodes
Dir == [copies : [Session -> [Episode -> Nat]], ledger : [Session -> 0..MaxEpisodes],
        seeded : BOOLEAN, whole : BOOLEAN, slipped : SUBSET (Session \X Episode)]

ASSUME EpisodesAssumption == MaxEpisodes \in Nat \ {0}
ASSUME HubAssumption == OnHub \in BOOLEAN /\ HubLedger \in [Session -> 0..MaxEpisodes]
ASSUME NoneAssumption == None \notin Dir \cup Proc \cup [seeded : BOOLEAN, ledger : [Session -> 0..MaxEpisodes]]

(* A dataset that has the episodes its ledger counts, as one that was      *)
(* merged elsewhere; without a ledger no session is in it.                 *)
Counting(ledger, seeded) ==
    [copies |-> [s \in Session |-> [e \in Episode |-> IF e <= ledger[s] THEN 1 ELSE 0]],
     ledger |-> ledger, seeded |-> seeded, whole |-> TRUE, slipped |-> {}]

NoLedger == [s \in Session |-> 0]

Idle == [at |-> "idle", of |-> None, count |-> 0, staged |-> None]
Unasked == [at |-> "idle", was |-> FALSE, crossed |-> FALSE]

Init ==
    /\ root \in {None, Counting(NoLedger, TRUE)}
    /\ backup = None
    /\ lock = None
    /\ merge = [p \in Proc |-> Idle]
    /\ check = [k \in Checker |-> Unasked]

(* Inside the lock, in the order of the code. *)
Inside == {"recover", "open", "stage", "swap", "unlink", "shelve", "install", "rollback"}

TypeOK ==
    /\ root \in Dir \cup {None}
    /\ backup \in Dir \cup {None}
    /\ lock \in Proc \cup {None}
    /\ merge \in [Proc -> [at : {"idle", "waiting"} \cup Inside, of : Session \cup {None},
                           count : 0..MaxEpisodes, staged : Dir \cup {None}]]
    /\ check \in [Checker -> [at : {"idle", "root", "backup", "hub", "found", "new", "error"},
                              was : BOOLEAN, crossed : BOOLEAN]]

At(p) == merge[p].at
Goto(p, label) == merge' = [merge EXCEPT ![p].at = label]

(* The lock is released by the end of the block, and by the system when a  *)
(* process dies; the staging directory goes with the block, or is garbage. *)
Leave(p) ==
    /\ merge' = [merge EXCEPT ![p] = Idle]
    /\ lock' = None

-----------------------------------------------------------------------------
(* merge_collection_session()                                              *)

(* A session is recorded, resumed and edited at any time: each time its    *)
(* directory is read it has any number of episodes. They are counted here, *)
(* and the lock is taken later.                                            *)
Begin(p, s) ==
    /\ At(p) = "idle"
    /\ \E n \in 1..MaxEpisodes :
          merge' = [merge EXCEPT ![p] = [at |-> "waiting", of |-> s, count |-> n, staged |-> None]]
    /\ UNCHANGED <<root, backup, lock, check>>

TakeLock(p) ==
    /\ At(p) = "waiting"
    /\ lock = None
    /\ lock' = p
    /\ Goto(p, "recover")
    /\ UNCHANGED <<root, backup, check>>

(* A check that is between its two looks misses a backup that goes, or     *)
(* that loses its info.json while it goes.                                 *)
Crossed == [k \in Checker |->
    IF check[k].at = "backup" THEN [check[k] EXCEPT !.crossed = TRUE] ELSE check[k]]

Restore ==
    IF root = None /\ backup # None
    THEN root' = backup /\ backup' = None /\ check' = Crossed
    ELSE UNCHANGED <<root, backup, check>>

RecoverNot(p) ==   \* mutant: a backup without a root is not taken back
    /\ At(p) = "recover"
    /\ Goto(p, "open")
    /\ UNCHANGED <<root, backup, lock, check>>

Recover(p) ==
    /\ At(p) = "recover"
    /\ Restore
    /\ Goto(p, "open")
    /\ UNCHANGED lock

(* Without a root the Hub's is taken, with its ledger if it has one. *)
FromHub == IF OnHub THEN Counting(HubLedger, TRUE) ELSE Counting(NoLedger, FALSE)

Existing == IF root # None THEN root ELSE FromHub

(* Everything of this session is in the root already (0 is returned), or   *)
(* more than it has (an error).                                            *)
NothingNew(p) ==
    /\ At(p) = "open"
    /\ Existing.ledger[merge[p].of] >= merge[p].count
    /\ Leave(p)
    /\ UNCHANGED <<root, backup, check>>

Compare(p) ==
    /\ At(p) = "open"
    /\ Existing.ledger[merge[p].of] < merge[p].count
    /\ Goto(p, "stage")
    /\ UNCHANGED <<root, backup, lock, check>>

(* The episodes that are copied when the session has "now" of them: one    *)
(* that is new to the root is handed on as it is on the disk, of any other *)
(* those after the ledger's, as far as they were counted, are split off.   *)
Taken(dir, s, n, now) ==
    {e \in 1..now : dir.ledger[s] = 0 \/ (dir.ledger[s] < e /\ e <= n)}

(* What was counted and is gone, and what came and is taken uncounted. *)
Slips(dir, s, n, now) ==
    {e \in Episode : \/ dir.ledger[s] < e /\ now < e /\ e <= n
                     \/ dir.ledger[s] = 0 /\ n < e /\ e <= now}

ExtendedFromStart(dir, s, n, now) ==   \* mutant: the whole session is merged again
    [dir EXCEPT !.copies[s] = [e \in Episode |-> IF e <= now THEN @[e] + 1 ELSE @[e]],
                !.ledger[s] = n,
                !.slipped = @ \cup ({s} \X Slips(dir, s, n, now))]

(* The episodes that are taken, and the ledger with the count. *)
Extended(dir, s, n, now) ==
    [dir EXCEPT !.copies[s] = [e \in Episode |->
                                  IF e \in Taken(dir, s, n, now) THEN @[e] + 1 ELSE @[e]],
                !.ledger[s] = n,
                !.slipped = @ \cup ({s} \X Slips(dir, s, n, now))]

(* split_dataset and merge_datasets, into the staging directory, of the    *)
(* session as it is by now.                                                *)
Stage(p) ==
    /\ At(p) = "stage"
    /\ \E now \in 0..MaxEpisodes :
          merge' = [merge EXCEPT ![p] = [at |-> "swap", of |-> @.of, count |-> @.count,
                                         staged |-> Extended(Existing, @.of, @.count, now)]]
    /\ UNCHANGED <<root, backup, lock, check>>

(* Without a root there is nothing to keep. *)
Swap(p) ==
    /\ At(p) = "swap"
    /\ Goto(p, IF root = None THEN "install" ELSE IF backup # None THEN "unlink" ELSE "shelve")
    /\ UNCHANGED <<root, backup, lock, check>>

(* rmtree(backup), file by file. *)
Unlink(p) ==
    /\ At(p) = "unlink"
    /\ \/ backup' = [backup EXCEPT !.whole = FALSE] /\ UNCHANGED merge
       \/ backup' = None /\ Goto(p, "shelve")
    /\ check' = Crossed
    /\ UNCHANGED <<root, lock>>

Shelve(p) ==
    /\ At(p) = "shelve"
    /\ backup' = root
    /\ root' = None
    /\ Goto(p, "install")
    /\ UNCHANGED <<lock, check>>

Install(p) ==
    /\ At(p) = "install"
    /\ root' = merge[p].staged
    /\ Leave(p)
    /\ UNCHANGED <<backup, check>>

InstallFails(p) ==
    /\ At(p) = "install"
    /\ Goto(p, "rollback")
    /\ UNCHANGED <<root, backup, lock, check>>

Rollback(p) ==
    /\ At(p) = "rollback"
    /\ Restore
    /\ Leave(p)

(* An error, Ctrl-C or a kill: the Hub that cannot be reached, a session   *)
(* that does not fit, a full disk.                                         *)
GiveUp(p) ==
    /\ At(p) \in Inside
    /\ Leave(p)
    /\ UNCHANGED <<root, backup, check>>

GiveUpWaiting(p) ==
    /\ At(p) = "waiting"
    /\ merge' = [merge EXCEPT ![p] = Idle]
    /\ UNCHANGED <<root, backup, lock, check>>

-----------------------------------------------------------------------------
(* check_session_mergeable(), before a session is recorded: root_info()    *)
(* looks at the root, then at its backup, then at the Hub, without a lock  *)

BeginCheck(k) ==
    /\ check[k].at = "idle"
    /\ check' = [check EXCEPT ![k] = [at |-> "root", was |-> root # None \/ backup # None,
                                      crossed |-> FALSE]]
    /\ UNCHANGED <<root, backup, lock, merge>>

Answer(k, label) == check' = [check EXCEPT ![k].at = label]

LookAtRootOnly(k) ==   \* mutant: the backup is not looked at
    /\ check[k].at = "root"
    /\ \/ root # None /\ \E label \in {"found", "error"} : Answer(k, label)
       \/ root = None /\ Answer(k, "hub")
    /\ UNCHANGED <<root, backup, lock, merge>>

(* A directory that is there may be renamed before it is read: an error. *)
LookAtRoot(k) ==
    /\ check[k].at = "root"
    /\ \/ root # None /\ \E label \in {"found", "error"} : Answer(k, label)
       \/ root = None /\ Answer(k, "backup")
    /\ UNCHANGED <<root, backup, lock, merge>>

(* One that is being removed may have lost its info.json: it is passed by. *)
LookAtBackup(k) ==
    /\ check[k].at = "backup"
    /\ \/ backup # None /\ \E label \in {"found", "error"} : Answer(k, label)
       \/ (backup # None => ~backup.whole) /\ Answer(k, "hub")
    /\ UNCHANGED <<root, backup, lock, merge>>

(* hub_root_info(): an error when it cannot be reached. *)
AskHub(k) ==
    /\ check[k].at = "hub"
    /\ \E label \in {IF OnHub THEN "found" ELSE "new", "error"} : Answer(k, label)
    /\ UNCHANGED <<root, backup, lock, merge>>

EndCheck(k) ==
    /\ check[k].at \in {"found", "new", "error"}
    /\ check' = [check EXCEPT ![k] = Unasked]
    /\ UNCHANGED <<root, backup, lock, merge>>

-----------------------------------------------------------------------------
Merge(p) ==
    \/ TakeLock(p) \/ Recover(p) \/ NothingNew(p) \/ Compare(p) \/ Stage(p) \/ Swap(p)
    \/ Unlink(p) \/ Shelve(p) \/ Install(p) \/ InstallFails(p) \/ Rollback(p)
    \/ GiveUp(p) \/ GiveUpWaiting(p)

Check(k) == BeginCheck(k) \/ LookAtRoot(k) \/ LookAtBackup(k) \/ AskHub(k) \/ EndCheck(k)

Next ==
    \/ \E p \in Proc : Merge(p) \/ \E s \in Session : Begin(p, s)
    \/ \E k \in Checker : Check(k)

Spec == Init /\ [][Next]_vars

-----------------------------------------------------------------------------
(* In every dataset that is whole, an episode of a session is there once   *)
(* if the ledger counts it, and not at all otherwise, unless it came or    *)
(* went while the session was merged: no retry, crash or second process    *)
(* duplicates or drops one (collection_merge.py:172-178, 196-210).         *)
Honest(dir) ==
    dir # None /\ dir.whole =>
        \A s \in Session : \A e \in Episode :
            <<s, e>> \notin dir.slipped =>
                dir.copies[s][e] = IF e <= dir.ledger[s] THEN 1 ELSE 0

ExactlyOnce == Honest(root) /\ Honest(backup)

(* When the root is not there, its backup, if any, has all its files: the  *)
(* next merge takes it for the root (collection_merge.py:158, 215-218).    *)
BackupCanStandIn ==
    /\ root # None => root.whole
    /\ root = None /\ backup # None => backup.whole

(* The backup is an earlier state of the root: no merge that lost a race   *)
(* is kept as the previous root of a newer one.                            *)
BackupIsEarlier ==
    root # None /\ backup # None =>
        \A s \in Session : backup.ledger[s] <= root.ledger[s]

(* The data a reader of the disk can get back. *)
Content == IF root # None THEN root ELSE backup

(* Whatever happens, the root only grows, each session comes in once and   *)
(* in order, and what it was started from stays (CollectionLedger).        *)
Merged == IF Content = None THEN None
          ELSE [seeded |-> Content.seeded, ledger |-> Content.ledger]

Ledger == INSTANCE CollectionLedger WITH merged <- Merged

LedgerRefinement == Ledger!Spec

(* A check that answers "a new root" is right, unless a backup was taken   *)
(* back, or removed in part or whole, between its two looks                *)
(* (collection_merge.py:56-63).                                            *)
NewIsNew == \A k \in Checker : check[k].at = "new" /\ check[k].was => check[k].crossed

-----------------------------------------------------------------------------
(* Why they hold *)

(* Whoever is inside the block has the lock, and nobody else. *)
LockInv == \A p \in Proc : At(p) \in Inside <=> lock = p

(* What a merge adds to. *)
Base == IF Content # None THEN Content ELSE FromHub

(* A staged dataset adds the episodes of one session to what there is, and *)
(* it still does when it is installed.                                     *)
StagedOK(p) ==
    LET m == merge[p] IN
        /\ m.staged \in Dir /\ m.staged.whole /\ Honest(m.staged)
        /\ m.staged.seeded = Base.seeded
        /\ m.staged.ledger = [Base.ledger EXCEPT ![m.of] = m.count]
        /\ Base.ledger[m.of] < m.count

StageOK(p) ==
    /\ At(p) # "idle" => merge[p].of \in Session
    /\ At(p) \in {"open", "stage", "swap"} /\ root = None => backup = None
    /\ At(p) = "stage" => Base.ledger[merge[p].of] < merge[p].count
    /\ At(p) \in {"swap", "unlink", "shelve", "install"} => StagedOK(p)
    /\ At(p) \in {"unlink", "shelve"} => root # None
    /\ At(p) = "unlink" => backup # None
    /\ At(p) = "shelve" => backup = None
    /\ At(p) \in {"install", "rollback"} => root = None

StageInv == \A p \in Proc : StageOK(p)

CheckOK(k) ==
    check[k].was =>
        /\ Content # None
        /\ check[k].at = "backup" => (backup # None /\ backup.whole) \/ check[k].crossed
        /\ check[k].at \in {"hub", "new"} => check[k].crossed

CheckInv == \A k \in Checker : CheckOK(k)

MergeInv ==
    /\ TypeOK /\ LockInv /\ StageInv /\ CheckInv
    /\ ExactlyOnce /\ BackupCanStandIn /\ BackupIsEarlier

-----------------------------------------------------------------------------
(* What the repository says and the code does not do *)

(* "info.json of the local root (or its backup), else of the Hub root;     *)
(* None for a new root" (collection_merge.py:57).                          *)
NewRootIsNew == \A k \in Checker : check[k].at = "new" => ~check[k].was

(* "Append only new episodes locally" (collection_merge.py:141): an        *)
(* episode that is recorded while the first merge of its session waits is  *)
(* merged with it, and the next merge brings it again, uncounted as it is. *)
OnlyNewEpisodes ==
    root # None => \A s \in Session : \A e \in Episode : root.copies[s][e] <= 1
=============================================================================
