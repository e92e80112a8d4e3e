------------------------------ MODULE Datasets ------------------------------
(***************************************************************************)
(* The directory of datasets and those who write in it: the operations     *)
(* (dataset_ops.py) on threads of their own, the rename of a request, the  *)
(* archives that come in on the event loop (routes/datasets.py), and the   *)
(* sessions that record.  Nobody locks a name: each looks whether it is    *)
(* free, or not in use, and goes on later.                                 *)
(*                                                                         *)
(* A dataset is known by whose data are in it; every process writes data   *)
(* of its own.  What the library does when it creates, resumes, downloads  *)
(* or edits is taken from how the code relies on it: create() refuses a    *)
(* directory that exists, a download does not, and both may fail half way. *)
(***************************************************************************)
EXTENDS FiniteSets

CONSTANTS Name, Process, Nobody, NoName

ASSUME DatasetsAssumption ==
    /\ Nobody \notin Process
    /\ NoName \notin Name

VARIABLES
    disk,       \* the directory of each name
    op,         \* what each process does, on which names, and where it is
    slot,       \* the process that has the session slot
    training,   \* the dataset an active training job uses
    overtaken   \* history: whose names were changed by another since it looked at them

vars == <<disk, op, slot, training, overtaken>>

Nothing == [data |-> {}, meta |-> FALSE, sent |-> FALSE, whole |-> FALSE]

(* meta: meta/info.json is there, which is what makes it a dataset; sent:  *)
(* the marker of a transfer is; whole: so is everything else.              *)
Directory(data, sent, whole) == [data |-> data, meta |-> TRUE, sent |-> sent, whole |-> whole]

Kind == {"edit", "split", "rename", "import", "upload", "record", "coach"}
Ended == {"idle", "refused", "done", "failed", "dead"}
InSession == {"look", "open", "record"}
Place == Ended \cup InSession \cup
    {"source", "target", "create", "fill", "stage", "move", "download", "fetch", "check",
     "ask", "receive", "swap", "install", "construct", "claim"}

Idle == [kind |-> "edit", from |-> NoName, to |-> NoName, fresh |-> FALSE, good |-> FALSE, at |-> "idle"]

Init ==
    /\ disk \in [Name -> {Nothing} \cup {Directory({Nobody}, sent, TRUE) : sent \in BOOLEAN}]
    /\ op = [p \in Process |-> Idle]
    /\ slot = Nobody
    /\ training = NoName
    /\ overtaken = {}

Directories == [data : SUBSET (Process \cup {Nobody}), meta : BOOLEAN, sent : BOOLEAN, whole : BOOLEAN]
Operations ==
    [kind : Kind, from : Name \cup {NoName}, to : Name \cup {NoName},
     fresh : BOOLEAN, good : BOOLEAN, at : Place]

DiskOK ==
    /\ disk \in [Name -> Directories]
    /\ \A n \in Name :
         /\ disk[n].data = {} => disk[n] = Nothing
         /\ disk[n].sent \/ disk[n].whole => disk[n].meta

OperationsOK ==
    /\ op \in [Process -> Operations]
    /\ \A p \in Process :
         /\ op[p].at \notin Ended => op[p].from \in Name /\ op[p].to \in Name
         /\ op[p].at \in InSession <=> slot = p

TypeOK ==
    /\ DiskOK
    /\ OperationsOK
    /\ slot \in Process \cup {Nobody}
    /\ training \in Name \cup {NoName}
    /\ overtaken \subseteq Process

Exists(n) == disk[n].data # {}
Listed(n) == disk[n].meta                                    \* path() finds it
Mine(p) == p \in disk[op[p].to].data

(* A rollout that records (coaching, evaluation) does not make it busy.    *)
IsBusy(n) == slot # Nobody /\ op[slot].kind = "record" /\ op[slot].to = n

-----------------------------------------------------------------------------
(* What a process has decided by looking at it *)
Looked(p) ==
    CASE op[p].at = "target" /\ op[p].kind # "import" -> {op[p].from}
      [] op[p].at \in {"create", "fill", "stage", "move"} -> {op[p].from, op[p].to}
      [] op[p].at \in {"download", "fetch", "check", "receive", "swap", "install", "claim", "open", "record"} ->
            {op[p].to}
      [] OTHER -> {}

Overtakes(q, names) ==
    overtaken' = overtaken \cup {p \in Process \ {q} : Looked(p) \cap names # {}}

(* Of what has ended it is only remembered what it was. *)
At(p, place) ==
    IF place \in Ended THEN [Idle EXCEPT !.kind = op[p].kind, !.at = place]
                       ELSE [op[p] EXCEPT !.at = place]

Goto(p, place) == op' = [op EXCEPT ![p] = At(p, place)]

(* Only the process itself moves on. *)
Steps(p, place) ==
    /\ Goto(p, place)
    /\ UNCHANGED <<disk, slot, training, overtaken>>

(* It leaves another directory under a name. *)
Puts(p, place, n, directory) ==
    /\ Goto(p, place)
    /\ disk' = [disk EXCEPT ![n] = directory]
    /\ Overtakes(p, {n})
    /\ UNCHANGED <<slot, training>>

(* The files of p come to those that are there. *)
Adds(p, n, meta, whole) ==
    [data |-> disk[n].data \cup {p}, meta |-> meta, sent |-> disk[n].sent, whole |-> whole]

(* Where each kind of request begins *)
Start(k) ==
    CASE k \in {"edit", "split", "rename"} -> "source"
      [] k = "import" -> "target"
      [] k = "upload" -> "ask"
      [] k = "record" -> "construct"
      [] k = "coach" -> "claim"

Request(p) ==
    /\ op[p].at = "idle"
    /\ \E k \in Kind, a \in Name, b \in Name :
         /\ k \in {"edit", "split", "rename"} \/ a = b
         /\ op' = [op EXCEPT ![p] =
              [kind |-> k, from |-> a, to |-> b, fresh |-> FALSE, good |-> FALSE, at |-> Start(k)]]
    /\ UNCHANGED <<disk, slot, training, overtaken>>

-----------------------------------------------------------------------------
(* Operations (dataset_ops.py) *)

RequireSourceOnly(p) ==   \* mutant: whether it is being recorded is not asked
    /\ op[p].at = "source"
    /\ Steps(p, IF Listed(op[p].from) THEN "target" ELSE "refused")

RequireSource(p) ==
    /\ op[p].at = "source"
    /\ Steps(p, IF Listed(op[p].from) /\ ~IsBusy(op[p].from) THEN "target" ELSE "refused")

AfterTarget(p) ==
    CASE op[p].kind = "edit" -> "create"
      [] op[p].kind = "split" -> "stage"
      [] op[p].kind = "rename" -> "move"
      [] op[p].kind = "import" -> "download"
      [] OTHER -> "failed"

RequireNewNot(p) ==   \* mutant: the new name may be taken
    /\ op[p].at = "target"
    /\ Steps(p, AfterTarget(p))

RequireNew(p) ==
    /\ op[p].at = "target"
    /\ Steps(p, IF Exists(op[p].to) THEN "refused" ELSE AfterTarget(p))

(* delete_episodes, merge, modify_features: the library opens the source,  *)
(* creates the output, which is a dataset from then on, and fills it.      *)
Create(p) ==
    /\ op[p].at = "create"
    /\ IF Listed(op[p].from) /\ ~Exists(op[p].to)
       THEN Puts(p, "fill", op[p].to, Directory({p}, FALSE, FALSE))
       ELSE Steps(p, "failed")

Fill(p) ==
    /\ op[p].at = "fill"
    /\ \/ /\ Mine(p) /\ Listed(op[p].from)
          /\ Puts(p, "done", op[p].to, Adds(p, op[p].to, TRUE, TRUE))
       \/ Steps(p, "failed")

(* split() works in a directory that only it knows. *)
Stage(p) ==
    /\ op[p].at = "stage"
    /\ \/ Listed(op[p].from) /\ Steps(p, "move")
       \/ Steps(p, "failed")

(* shutil.move(): a directory that is already there takes the other in.    *)
MoveSplit(p) ==
    /\ op[p].at = "move"
    /\ op[p].kind = "split"
    /\ IF Exists(op[p].to)
       THEN Steps(p, "done")
       ELSE Puts(p, "done", op[p].to, Directory({p}, FALSE, TRUE))

(* A move of a directory onto itself changes nothing. *)
MoveRenamed(p) ==
    /\ op[p].at = "move"
    /\ op[p].kind = "rename"
    /\ IF Listed(op[p].from)
       THEN /\ Goto(p, "done")
            /\ disk' = [disk EXCEPT ![op[p].to] = IF Exists(op[p].to) THEN @ ELSE disk[op[p].from],
                                    ![op[p].from] = IF op[p].from = op[p].to THEN @ ELSE Nothing]
            /\ Overtakes(p, {op[p].from, op[p].to})
            /\ UNCHANGED <<slot, training>>
       ELSE Steps(p, "failed")

(* import_from_hub(): files come in one by one, into whatever is there.    *)
Download(p) ==
    /\ op[p].at = "download"
    /\ \E meta \in BOOLEAN :
         Puts(p, "fetch", op[p].to, Adds(p, op[p].to, Listed(op[p].to) \/ meta, FALSE))

Fetch(p) ==
    /\ op[p].at = "fetch"
    /\ \/ Puts(p, "check", op[p].to, Adds(p, op[p].to, TRUE, disk[op[p].to].whole \/ Mine(p)))
       \/ ~Listed(op[p].to) /\ Steps(p, "check")             \* it is no dataset
       \/ Steps(p, "failed")

CheckImport(p) ==
    /\ op[p].at = "check"
    /\ IF Listed(op[p].to) THEN Steps(p, "done") ELSE Puts(p, "failed", op[p].to, Nothing)

-----------------------------------------------------------------------------
(* An archive comes in (routes/datasets.py) *)

Refuses(p) == Exists(op[p].to) /\ (~disk[op[p].to].sent \/ training = op[p].to)

AskIfUsed(p) ==   \* mutant: any dataset may be replaced
    /\ op[p].at = "ask"
    /\ \/ ~(Exists(op[p].to) /\ training = op[p].to) /\ Steps(p, "receive")
       \/ Exists(op[p].to) /\ Steps(p, "refused")

(* A request without replace=true is refused whatever is there. *)
Ask(p) ==
    /\ op[p].at = "ask"
    /\ \/ ~Refuses(p) /\ Steps(p, "receive")
       \/ Exists(op[p].to) /\ Steps(p, "refused")

(* The body, which takes minutes, and its extraction beside the name.  An  *)
(* info.json that is not as it should be is found out by summary() only.   *)
Receive(p) ==
    /\ op[p].at = "receive"
    /\ \/ \E good \in BOOLEAN :
            /\ op' = [op EXCEPT ![p].at = "swap", ![p].good = good]
            /\ UNCHANGED <<disk, slot, training, overtaken>>
       \/ Steps(p, "failed")

Installs(p) ==
    Puts(p, IF op[p].good THEN "done" ELSE "failed", op[p].to, Directory({p}, TRUE, op[p].good))

Swap(p) ==
    /\ op[p].at = "swap"
    /\ IF Exists(op[p].to) THEN Puts(p, "install", op[p].to, Nothing) ELSE Installs(p)

(* A directory that was made between the two renames makes the second fail, *)
(* and what was there is neither put back nor removed.                      *)
Install(p) ==
    /\ op[p].at = "install"
    /\ IF Exists(op[p].to) THEN Steps(p, "failed") ELSE Installs(p)

-----------------------------------------------------------------------------
(* A session that records *)

(* RecordingWorker.__init__: resume is asked for what exists, else refused. *)
Construct(p) ==
    /\ op[p].at = "construct"
    /\ \/ /\ op' = [op EXCEPT ![p].at = "claim", ![p].fresh = ~Exists(op[p].to)]
          /\ UNCHANGED <<disk, slot, training, overtaken>>
       \/ Steps(p, "refused")

Claim(p) ==
    /\ op[p].at = "claim"
    /\ IF slot = Nobody
       THEN /\ slot' = p
            /\ Goto(p, IF op[p].kind = "coach" THEN "look" ELSE "open")
            /\ Overtakes(p, {op[p].to})
            /\ UNCHANGED <<disk, training>>
       ELSE Steps(p, "refused")

EndSession(p, place) ==
    /\ Goto(p, place)
    /\ slot' = Nobody
    /\ UNCHANGED <<disk, training, overtaken>>

(* make_config() of a coaching or an evaluation, which never resumes.      *)
LookNew(p) ==
    /\ op[p].at = "look"
    /\ IF Exists(op[p].to)
       THEN EndSession(p, "failed")
       ELSE /\ op' = [op EXCEPT ![p].at = "open", ![p].fresh = TRUE]
            /\ UNCHANGED <<disk, slot, training, overtaken>>

Open(p) ==
    /\ op[p].at = "open"
    /\ \/ /\ op[p].fresh /\ ~Exists(op[p].to)
          /\ Puts(p, "record", op[p].to, Directory({p}, FALSE, TRUE))
       \/ /\ ~op[p].fresh /\ Listed(op[p].to)
          /\ Steps(p, "record")
       \/ EndSession(p, "failed")                            \* it is not as it was, or a device failed

(* Episodes are added to the directory that has the name. *)
SaveEpisode(p) ==
    /\ op[p].at = "record"
    /\ Listed(op[p].to)
    /\ ~Mine(p)
    /\ Puts(p, "record", op[p].to, Adds(p, op[p].to, TRUE, disk[op[p].to].whole))

EndRecord(p) ==
    /\ op[p].at = "record"
    /\ \/ EndSession(p, "done")
       \/ EndSession(p, "failed")

-----------------------------------------------------------------------------
(* A training job that uses a dataset, until it ends. *)
StartTraining(n) ==
    /\ training = NoName
    /\ Listed(n)
    /\ training' = n
    /\ UNCHANGED <<disk, op, slot, overtaken>>

EndTraining ==
    /\ training # NoName
    /\ training' = NoName
    /\ UNCHANGED <<disk, op, slot, overtaken>>

(* The engine ends: what is on the disk stays as it is. *)
Crash ==
    /\ \E p \in Process : op[p].at \notin Ended
    /\ op' = [p \in Process |-> IF op[p].at \in Ended THEN op[p] ELSE At(p, "dead")]
    /\ slot' = Nobody
    /\ training' = NoName
    /\ UNCHANGED <<disk, overtaken>>

Operation(p) ==
    \/ RequireSource(p) \/ RequireNew(p) \/ Create(p) \/ Fill(p) \/ Stage(p)
    \/ MoveSplit(p) \/ MoveRenamed(p) \/ Download(p) \/ Fetch(p) \/ CheckImport(p)
Upload(p) == Ask(p) \/ Receive(p) \/ Swap(p) \/ Install(p)
Recorder(p) == Construct(p) \/ Claim(p) \/ LookNew(p) \/ Open(p) \/ SaveEpisode(p) \/ EndRecord(p)

Next ==
    \/ \E p \in Process : Request(p) \/ Operation(p) \/ Upload(p) \/ Recorder(p)
    \/ \E n \in Name : StartTraining(n)
    \/ EndTraining
    \/ Crash

Spec == Init /\ [][Next]_vars

-----------------------------------------------------------------------------
(* The one that takes this step was overtaken *)
ByOvertaken == \E p \in overtaken : op'[p] # op[p]

Kept(d) == \E n \in Name : Listed(n) /\ d \in disk[n].data

(* A dataset that no transfer wrote is not lost: whoever takes its         *)
(* directory away has looked at the name before it was there, or before it *)
(* was changed (dataset_ops.py:1-3, routes/datasets.py:245-248).           *)
OwnIsKept ==
    [][\A n \in Name : Listed(n) /\ ~disk[n].sent =>
         \A d \in disk[n].data : Kept(d)' \/ ByOvertaken]_vars

(* A recording that is under way keeps its dataset under its name, if no   *)
(* transfer wrote it, against whoever asks after it began                  *)
(* (dataset_ops.py:33).                                                    *)
RecordingIsLeftAlone ==
    [][\A r \in Process :
         /\ op[r].kind = "record" /\ op[r].at = "record" /\ op'[r].at = "record"
         /\ Mine(r) /\ ~disk[op[r].to].sent
         => Mine(r)' \/ ByOvertaken]_vars

(* An operation that says it is done has put its dataset, in full, under   *)
(* the name it was given, if nobody came across it (operations.py,         *)
(* routes/datasets.py).                                                    *)
InPlace(p) ==
    CASE op[p].kind \in {"edit", "split", "import", "upload"} ->
            p \in disk'[op[p].to].data /\ disk'[op[p].to].whole
      [] op[p].kind = "rename" -> disk'[op[p].to] = disk[op[p].from] /\ disk'[op[p].from] = Nothing
      [] OTHER -> TRUE

DoneIsTrue ==
    [][\A p \in Process \ overtaken :
         op[p].at # "done" /\ op'[p].at = "done" => InPlace(p)]_vars

(* What a process has seen is still so, as long as nobody came across it.  *)
SeenIsSo(p) ==
    /\ op[p].at = "target" /\ op[p].kind # "import" => Listed(op[p].from) /\ ~IsBusy(op[p].from)
    /\ op[p].at \in {"create", "stage", "move"} =>
         Listed(op[p].from) /\ ~IsBusy(op[p].from) /\ ~Exists(op[p].to)
    /\ op[p].at = "fill" => Mine(p)
    /\ op[p].at \in {"download", "install"} => ~Exists(op[p].to)
    /\ op[p].at = "fetch" => disk[op[p].to].data = {p}
    /\ op[p].at = "check" =>
         /\ disk[op[p].to].data \subseteq {p}
         /\ Listed(op[p].to) => disk[op[p].to].whole
    /\ op[p].at \in {"receive", "swap"} /\ Exists(op[p].to) => disk[op[p].to].sent

(* Each place belongs to one kind of work. *)
RightPlace(p) ==
    /\ op[p].at = "source" => op[p].kind \in {"edit", "split", "rename"}
    /\ op[p].at = "target" => op[p].kind \in {"edit", "split", "rename", "import"}
    /\ op[p].at \in {"create", "fill"} => op[p].kind = "edit"
    /\ op[p].at = "stage" => op[p].kind = "split"
    /\ op[p].at = "move" => op[p].kind \in {"split", "rename"}
    /\ op[p].at \in {"download", "fetch", "check"} => op[p].kind = "import"
    /\ op[p].at \in {"ask", "receive", "swap", "install"} => op[p].kind = "upload"
    /\ op[p].at \in {"construct", "claim", "look", "open", "record"} => op[p].kind \in {"record", "coach"}

DatasetsInv ==
    /\ TypeOK
    /\ \A p \in Process : RightPlace(p)
    /\ \A p \in Process \ overtaken : SeenIsSo(p)

(* "never a dataset recorded here" (routes/datasets.py:247)                *)
RecordedIsKept ==
    [][\A r \in Process : op[r].kind = "record" /\ Kept(r) => Kept(r)']_vars
=============================================================================
