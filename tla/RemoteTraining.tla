--------------------------- MODULE RemoteTraining ---------------------------
(***************************************************************************)
(* Training on a GPU server: the threads of RemoteRunner (remote.py) on    *)
(* this engine, the calls they make through the tunnel, and what the       *)
(* server's engine does with them: its copy of the dataset, replaced by    *)
(* upload_archive (routes/datasets.py), and its jobs, as JobLedger         *)
(* promises them. All jobs are about one dataset. Any call may fail,       *)
(* before the server saw it or after it took effect.                       *)
(***************************************************************************)
EXTENDS Naturals, Sequences, FiniteSets

CONSTANTS
    Job,               \* the jobs given to this runner
    MaxPollFailures,   \* MAX_POLL_FAILURES
    Checkpoints,       \* how many checkpoints a training leaves
    MaxLines,          \* bound: lines a training prints
    MaxVersion,        \* bound: how often the local dataset changes
    MaxCrashes         \* bound: how often the server's engine goes down

ASSUME FailuresAssumption == MaxPollFailures \in Nat \ {0}
ASSUME BoundsAssumption == {Checkpoints, MaxLines, MaxVersion, MaxCrashes} \subseteq Nat

VARIABLES
    local,      \* the job as this engine's manager has it
    run,        \* the job's thread: where it is, and its local variables
    asked,      \* the jobs whose cancel event is set
    mirror,     \* the remote lines in the local train.log, by number
    fetched,    \* checkpoints downloaded
    engine,     \* this engine
    here,       \* the version of the dataset on this engine
    body,       \* the upload in the server's handler, and the version it carries
    there,      \* the server's copy of the dataset
    server,     \* the server's engine
    remote,     \* the job as the server's manager has it
    written,    \* lines in the remote train.log
    stopping,   \* remote trainings that a cancel reached
    crashes     \* how often the server's engine went down

threadVars == <<local, run, asked>>
copyVars == <<mirror, fetched>>
hereVars == <<engine, here>>
dataVars == <<body, there>>
jobVars == <<remote, written, stopping>>
serverVars == <<server, crashes>>
vars == <<threadVars, copyVars, hereVars, dataVars, jobVars, serverVars>>

Active == {"queued", "running"}
TERMINAL == {"done", "failed", "cancelled"}
Nothing == [version |-> 0, owner |-> "nobody"]
NoBody == [stage |-> "none", version |-> 0]

(* A thread's variables: replace is what _ensure_dataset decided, sent,    *)
(* failures and polled (the last job read) are those of _follow.           *)
Thread ==
    [at : {"idle", "connect", "dataset", "upload", "sending", "submit", "poll", "logs", "metrics",
           "fetch", "over"},
     replace : BOOLEAN, sent : BOOLEAN, failures : 0..(MaxPollFailures - 1),
     polled : {"none"} \cup Active \cup TERMINAL]

ThreadAt(label) ==
    [at |-> label, replace |-> FALSE, sent |-> FALSE, failures |-> 0, polled |-> "none"]

At(j) == run[j].at

Init ==
    /\ local = [j \in Job |-> "none"]
    /\ run = [j \in Job |-> ThreadAt("idle")]
    /\ asked = {}
    /\ mirror = [j \in Job |-> <<>>]
    /\ fetched = [j \in Job |-> 0]
    /\ engine = "up"
    /\ here = 1
    /\ body = [j \in Job |-> NoBody]
    /\ there = Nothing
    /\ server = "up"
    /\ remote = [j \in Job |-> "none"]
    /\ written = [j \in Job |-> 0]
    /\ stopping = {}
    /\ crashes = 0

TypeOK ==
    /\ local \in [Job -> {"none", "running"} \cup TERMINAL]
    /\ run \in [Job -> Thread]
    /\ asked \subseteq Job
    /\ mirror \in [Job -> Seq(Nat)]
    /\ fetched \in [Job -> 0..Checkpoints]
    /\ engine \in {"up", "ended"}
    /\ here \in Nat
    /\ body \in [Job -> [stage : {"none", "coming", "received"}, version : Nat]]
    /\ there \in [version : Nat, owner : {"nobody", "transfer", "user"}]
    /\ server \in {"up", "down"}
    /\ remote \in [Job -> {"none"} \cup Active \cup TERMINAL]
    /\ written \in [Job -> Nat]
    /\ stopping \subseteq Job
    /\ crashes \in Nat

-----------------------------------------------------------------------------
(* start(), cancel(), shutdown(), and how a thread ends                    *)

Attended(j) == At(j) \notin {"idle", "over"}

(* The manager gives the lane to one job at a time (Jobs). *)
Start(j) ==
    /\ engine = "up"
    /\ local[j] = "none"
    /\ \A k \in Job : local[k] # "running"
    /\ local' = [local EXCEPT ![j] = "running"]
    /\ run' = [run EXCEPT ![j] = ThreadAt("connect")]
    /\ UNCHANGED <<asked, copyVars, hereVars, dataVars, jobVars, serverVars>>

(* By a user, or by shutdown(), which cancels every thread there is. One   *)
(* that comes before the thread is registered finds no event to set.       *)
Cancel(j) ==
    /\ engine = "up"
    /\ Attended(j)
    /\ asked' = asked \cup {j}
    /\ UNCHANGED <<local, run, copyVars, hereVars, dataVars, jobVars, serverVars>>

Goto(j, thread) ==
    /\ run' = [run EXCEPT ![j] = thread]
    /\ UNCHANGED <<local, asked>>

ExitUntold(j, s) ==   \* mutant: an exception ends the thread and the manager is not told
    /\ local' = IF s = "failed" THEN local ELSE [local EXCEPT ![j] = s]
    /\ run' = [run EXCEPT ![j] = ThreadAt("over")]
    /\ asked' = asked \ {j}

(* _run(): whatever ended the thread, sink.exit is told (Jobs, OnExit). *)
Exit(j, s) ==
    /\ local' = [local EXCEPT ![j] = s]
    /\ run' = [run EXCEPT ![j] = ThreadAt("over")]
    /\ asked' = asked \ {j}

(* This engine ends: shutdown() waits 20 s for each thread, a crash for    *)
(* none. The next one finds what was running failed (Jobs, Loaded).        *)
EndEngine ==
    /\ engine = "up"
    /\ engine' = "ended"
    /\ local' = [j \in Job |-> IF local[j] = "running" THEN "failed" ELSE local[j]]
    /\ run' = [j \in Job |-> ThreadAt("over")]
    /\ asked' = {}
    /\ body' = [j \in Job |-> IF body[j].stage = "coming" THEN NoBody ELSE body[j]]
    /\ UNCHANGED <<copyVars, here, there, jobVars, serverVars>>

-----------------------------------------------------------------------------
(* _drive(): a tunnel, an engine, a dataset, a job                         *)

CallFails(j) ==
    /\ At(j) \in {"connect", "dataset", "upload", "submit", "fetch"}
    /\ Exit(j, "failed")
    /\ UNCHANGED <<copyVars, hereVars, dataVars, jobVars, serverVars>>

(* ensure_engine() starts an engine that does not answer; that one takes   *)
(* what was active in the last one for failed.                             *)
Connect(j) ==
    /\ At(j) = "connect"
    /\ server' = "up"
    /\ remote' = [k \in Job |->
          IF server = "down" /\ remote[k] \in Active THEN "failed" ELSE remote[k]]
    /\ Goto(j, ThreadAt("dataset"))
    /\ UNCHANGED <<copyVars, hereVars, dataVars, written, stopping, crashes>>

(* The same data is used as it is; other data is replaced if a transfer    *)
(* brought it, and refused if not (CallFails).                             *)
EnsureDataset(j) ==
    /\ At(j) = "dataset"
    /\ server = "up"
    /\ \/ there.version = here /\ Goto(j, ThreadAt("submit"))
       \/ /\ there.version # here
          /\ there.owner # "user"
          /\ Goto(j, [ThreadAt("upload") EXCEPT !.replace = there.owner = "transfer"])
    /\ UNCHANGED <<copyVars, hereVars, dataVars, jobVars, serverVars>>

AcceptsAnyTime(j) ==   \* mutant: the trainings on the copy are not looked at
    there.owner = "nobody" \/ (run[j].replace /\ there.owner = "transfer")

(* What upload_archive checks, before it reads the body. *)
Accepts(j) ==
    \/ there.owner = "nobody"
    \/ /\ run[j].replace
       /\ there.owner = "transfer"
       /\ \A k \in Job : remote[k] \notin Active

Upload(j) ==
    /\ At(j) = "upload"
    /\ server = "up"
    /\ Accepts(j)
    /\ body' = [body EXCEPT ![j] = [stage |-> "coming", version |-> here]]
    /\ Goto(j, ThreadAt("sending"))
    /\ UNCHANGED <<copyVars, hereVars, there, jobVars, serverVars>>

(* The handler has the whole body, and extracts it. *)
Receive(j) ==
    /\ body[j].stage = "coming"
    /\ body' = [body EXCEPT ![j].stage = "received"]
    /\ UNCHANGED <<threadVars, copyVars, hereVars, there, jobVars, serverVars>>

(* The old copy is moved away and the new one into its place. The answer   *)
(* may find nobody, or be lost.                                            *)
Swap(j) ==
    /\ body[j].stage = "received"
    /\ there' = [version |-> body[j].version, owner |-> "transfer"]
    /\ body' = [body EXCEPT ![j] = NoBody]
    /\ \/ At(j) = "sending" /\ Goto(j, ThreadAt("submit"))
       \/ At(j) = "sending" /\ Exit(j, "failed")
       \/ At(j) # "sending" /\ UNCHANGED threadVars
    /\ UNCHANGED <<copyVars, hereVars, jobVars, serverVars>>

(* The archive is rejected, or the connection breaks. A handler that still *)
(* reads the body then gives up; one that has it may go on.                *)
UploadFails(j) ==
    /\ At(j) = "sending"
    /\ Exit(j, "failed")
    /\ \/ body' = [body EXCEPT ![j] = NoBody]
       \/ body[j].stage = "received" /\ UNCHANGED body
    /\ UNCHANGED <<copyVars, hereVars, there, jobVars, serverVars>>

Submit(j) ==
    /\ At(j) = "submit"
    /\ server = "up"
    /\ there.owner # "nobody"
    /\ remote' = [remote EXCEPT ![j] = "queued"]
    /\ \/ Goto(j, ThreadAt("poll"))
       \/ Exit(j, "failed")   \* the answer is lost
    /\ UNCHANGED <<copyVars, hereVars, dataVars, written, stopping, serverVars>>

-----------------------------------------------------------------------------
(* _follow()                                                               *)

(* The server's cancel(): it misses a training whose process is not        *)
(* registered yet (Jobs, CancelChild).                                     *)
CancelThere(j) ==
    \/ /\ remote[j] = "queued"
       /\ remote' = [remote EXCEPT ![j] = "cancelled"]
       /\ UNCHANGED stopping
    \/ /\ remote[j] = "running"
       /\ stopping' = stopping \cup {j}
       /\ UNCHANGED remote
    \/ remote[j] # "queued" /\ UNCHANGED <<remote, stopping>>

(* Outside the try: the first failure ends the job. *)
SendCancel(j) ==
    /\ At(j) = "poll"
    /\ j \in asked
    /\ ~run[j].sent
    /\ \/ server = "up" /\ CancelThere(j) /\ Goto(j, [run[j] EXCEPT !.sent = TRUE])
       \/ server = "up" /\ CancelThere(j) /\ Exit(j, "failed")
       \/ Exit(j, "failed") /\ UNCHANGED <<remote, stopping>>
    /\ UNCHANGED <<copyVars, hereVars, dataVars, written, serverVars>>

Polls(j) == At(j) = "poll" /\ (j \in asked => run[j].sent)

ReadJob(j) ==
    /\ Polls(j)
    /\ server = "up"
    /\ Goto(j, [run[j] EXCEPT !.at = "logs", !.polled = remote[j]])
    /\ UNCHANGED <<copyVars, hereVars, dataVars, jobVars, serverVars>>

(* The lines after the n-th *)
LinesFrom(j, n) == [i \in 1..(written[j] - n) |-> n + i]

ReadLogsAgain(j) ==   \* mutant: after a failure the log is read from its start
    /\ At(j) = "logs"
    /\ server = "up"
    /\ mirror' = [mirror EXCEPT ![j] =
          @ \o LinesFrom(j, IF run[j].failures > 0 THEN 0 ELSE Len(@))]
    /\ Goto(j, [run[j] EXCEPT !.at = "metrics"])
    /\ UNCHANGED <<fetched, hereVars, dataVars, jobVars, serverVars>>

ReadLogs(j) ==
    /\ At(j) = "logs"
    /\ server = "up"
    /\ mirror' = [mirror EXCEPT ![j] = @ \o LinesFrom(j, Len(@))]
    /\ Goto(j, [run[j] EXCEPT !.at = "metrics"])
    /\ UNCHANGED <<fetched, hereVars, dataVars, jobVars, serverVars>>

VerdictByNow(j) ==   \* mutant: the state is read after the log it is used with
    /\ At(j) = "metrics"
    /\ server = "up"
    /\ \/ remote[j] \in {"cancelled", "failed"} /\ Exit(j, remote[j])
       \/ remote[j] = "done" /\ Goto(j, ThreadAt("fetch"))
       \/ remote[j] \notin TERMINAL
          /\ Goto(j, [run[j] EXCEPT !.at = "poll", !.failures = 0, !.polled = "none"])
    /\ UNCHANGED <<copyVars, hereVars, dataVars, jobVars, serverVars>>

(* The metrics are read like the log; then it counts what the job was when *)
(* this poll began.                                                        *)
ReadMetrics(j) ==
    /\ At(j) = "metrics"
    /\ server = "up"
    /\ \/ run[j].polled \in {"cancelled", "failed"} /\ Exit(j, run[j].polled)
       \/ run[j].polled = "done" /\ Goto(j, ThreadAt("fetch"))
       \/ run[j].polled \notin TERMINAL
          /\ Goto(j, [run[j] EXCEPT !.at = "poll", !.failures = 0, !.polled = "none"])
    /\ UNCHANGED <<copyVars, hereVars, dataVars, jobVars, serverVars>>

PollAgain(j) ==   \* mutant: there is no end to failing polls
    /\ Polls(j) \/ At(j) \in {"logs", "metrics"}
    /\ Goto(j, [run[j] EXCEPT !.at = "poll", !.polled = "none"])
    /\ UNCHANGED <<copyVars, hereVars, dataVars, jobVars, serverVars>>

PollFails(j) ==
    /\ Polls(j) \/ At(j) \in {"logs", "metrics"}
    /\ IF run[j].failures + 1 = MaxPollFailures
       THEN Exit(j, "failed")
       ELSE Goto(j, [run[j] EXCEPT !.at = "poll", !.failures = @ + 1, !.polled = "none"])
    /\ UNCHANGED <<copyVars, hereVars, dataVars, jobVars, serverVars>>

(* _fetch_checkpoints(), one after the other *)
Fetch(j) ==
    /\ At(j) = "fetch"
    /\ server = "up"
    /\ \/ /\ fetched[j] < Checkpoints
          /\ fetched' = [fetched EXCEPT ![j] = @ + 1]
          /\ UNCHANGED threadVars
       \/ fetched[j] = Checkpoints /\ Exit(j, "done") /\ UNCHANGED fetched
    /\ UNCHANGED <<mirror, hereVars, dataVars, jobVars, serverVars>>

-----------------------------------------------------------------------------
(* The server's engine, as Jobs shows it, and the people on both sides     *)

RunRemote(j) ==
    /\ server = "up"
    /\ remote[j] = "queued"
    /\ \A k \in Job : remote[k] # "running"
    /\ remote' = [remote EXCEPT ![j] = "running"]
    /\ UNCHANGED <<threadVars, copyVars, hereVars, dataVars, written, stopping, serverVars>>

PrintLine(j) ==
    /\ server = "up"
    /\ remote[j] = "running"
    /\ written[j] < MaxLines
    /\ written' = [written EXCEPT ![j] = @ + 1]
    /\ UNCHANGED <<threadVars, copyVars, hereVars, dataVars, remote, stopping, serverVars>>

EndRemote(j) ==
    /\ server = "up"
    /\ remote[j] = "running"
    /\ \E s \in IF j \in stopping THEN {"cancelled"} ELSE {"done", "failed"} :
          remote' = [remote EXCEPT ![j] = s]
    /\ UNCHANGED <<threadVars, copyVars, hereVars, dataVars, written, stopping, serverVars>>

(* Its handlers end with it; one that was swapping may leave no copy. *)
CrashServer ==
    /\ server = "up"
    /\ crashes < MaxCrashes
    /\ crashes' = crashes + 1
    /\ server' = "down"
    /\ body' = [j \in Job |-> NoBody]
    /\ stopping' = {}
    /\ \/ UNCHANGED there
       \/ (\E j \in Job : body[j].stage = "received") /\ there' = Nothing
    /\ UNCHANGED <<threadVars, copyVars, hereVars, remote, written>>

(* Somebody records a dataset of that name, which the recorder allows if   *)
(* there is none.                                                          *)
RecordThere ==
    /\ server = "up"
    /\ there.owner = "nobody"
    /\ there' = [version |-> MaxVersion + 1, owner |-> "user"]
    /\ UNCHANGED <<threadVars, copyVars, hereVars, body, jobVars, serverVars>>

RecordHere ==
    /\ here < MaxVersion
    /\ here' = here + 1
    /\ UNCHANGED <<threadVars, copyVars, engine, dataVars, jobVars, serverVars>>

-----------------------------------------------------------------------------
Drive(j) ==
    Connect(j) \/ EnsureDataset(j) \/ Upload(j) \/ Submit(j) \/ CallFails(j) \/ UploadFails(j)

Follow(j) ==
    SendCancel(j) \/ ReadJob(j) \/ ReadLogs(j) \/ ReadMetrics(j) \/ PollFails(j) \/ Fetch(j)

ServerStep(j) == RunRemote(j) \/ PrintLine(j) \/ EndRemote(j) \/ Receive(j) \/ Swap(j)

Next ==
    \/ \E j \in Job : Start(j) \/ Cancel(j) \/ Drive(j) \/ Follow(j) \/ ServerStep(j)
    \/ EndEngine \/ CrashServer \/ RecordThere \/ RecordHere

Spec == Init /\ [][Next]_vars

(* The runner's threads run: a call is answered or fails, it does not hang *)
(* (httpx.Timeout, SshTunnel's deadline). The server stops a training that *)
(* a cancel reached (Jobs, CancelEnds). Nobody has to do anything else: a  *)
(* training need not end.                                                  *)
Fairness ==
    \A j \in Job :
        /\ WF_vars(Drive(j) \/ Follow(j))
        /\ WF_vars(j \in stopping /\ EndRemote(j))

FairSpec == Spec /\ Fairness

-----------------------------------------------------------------------------
(* What a reader of the local job is told is true of the remote one: done  *)
(* is a training that ended well, with its whole log and every checkpoint  *)
(* here (remote.py:281-286); cancelled is one that trains no more.         *)
EndIsHonest ==
    \A j \in Job :
        /\ local[j] = "done" => /\ remote[j] = "done"
                                /\ Len(mirror[j]) = written[j]
                                /\ fetched[j] = Checkpoints
        /\ local[j] = "cancelled" => remote[j] = "cancelled"

(* The local log is a copy of the remote one as far as it goes, through    *)
(* polls that fail in the middle (remote.py:262-264).                      *)
LogIsCopied ==
    \A j \in Job :
        /\ Len(mirror[j]) <= written[j]
        /\ \A i \in DOMAIN mirror[j] : mirror[j][i] = i

(* The data under a training of this engine is replaced by an upload only  *)
(* if the engine gave that upload up for lost (routes/datasets.py:265).    *)
TrainingKeepsItsData ==
    [][there' # there /\ (\E j \in Job : remote[j] \in Active) =>
          \E i \in Job : body[i].stage = "received" /\ At(i) # "sending"]_vars

(* What the server's engine does of the jobs is what Jobs shows one to do: *)
(* nothing here rests on more (jobs.py).                                   *)
There == INSTANCE JobLedger WITH ledger <- remote

ServerKeepsTheLedger == There!Spec

(* What these rest on, for the proofs. The lane has one thread; a job      *)
(* without one has not begun, or was told how it ended.                    *)
LaneInv ==
    /\ \A j \in Job : local[j] = "running" <=> Attended(j)
    /\ \A j \in Job : At(j) = "idle" => local[j] = "none"
    /\ \A j \in Job : engine = "up" /\ local[j] = "none" => At(j) = "idle"
    /\ \A j, k \in Job : Attended(j) /\ Attended(k) => j = k

(* A job is on the server once its thread follows it; before, there is     *)
(* nothing of it on either side.                                           *)
FreshInv ==
    \A j \in Job :
        /\ At(j) \in {"poll", "logs", "metrics", "fetch"} => remote[j] # "none"
        /\ At(j) \in {"idle", "connect", "dataset", "upload", "sending", "submit"} =>
              remote[j] = "none"
        /\ remote[j] = "none" => written[j] = 0 /\ mirror[j] = <<>>

(* An end that was read is for good, and so is the log that was read after *)
(* it.                                                                     *)
PolledInv ==
    \A j \in Job :
        /\ At(j) \in {"logs", "metrics"} /\ run[j].polled \in TERMINAL =>
              remote[j] = run[j].polled
        /\ At(j) = "metrics" /\ run[j].polled \in TERMINAL => Len(mirror[j]) = written[j]
        /\ At(j) = "fetch" => remote[j] = "done" /\ Len(mirror[j]) = written[j]

(* An upload that its thread waits for began when nothing was training,    *)
(* and nothing is submitted until it ends.                                 *)
UploadInv ==
    /\ \A j \in Job : body[j].stage # "none" => server = "up"
    /\ there.owner = "nobody" /\ server = "up" => \A k \in Job : remote[k] \notin Active
    /\ \A j \in Job : At(j) = "sending" /\ body[j].stage # "none" =>
          \A k \in Job : remote[k] \notin Active

RemoteInv ==
    /\ TypeOK
    /\ LaneInv
    /\ FreshInv
    /\ PolledInv
    /\ UploadInv
    /\ EndIsHonest
    /\ LogIsCopied

-----------------------------------------------------------------------------
(* Every job ends unless its training does not: the lane is not lost to a  *)
(* server that is (remote.py:194). A job stays only as long as the server  *)
(* answers that it trains.                                                 *)
LaneFreed ==
    \A j \in Job :
        local[j] = "running" ~> local[j] # "running" \/ (server = "up" /\ remote[j] \in Active)

(* A training that the cancel reached ends, and its job here with it. *)
CancelEnds == \A j \in Job : j \in stopping ~> local[j] # "running"

=============================================================================
