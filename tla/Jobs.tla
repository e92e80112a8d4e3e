-------------------------------- MODULE Jobs --------------------------------
(***************************************************************************)
(* The job manager (jobs.py) with its local runner (local_runner.py): the  *)
(* queue, job.json on the disk, the training processes, the threads that   *)
(* pump their output, and the end and the restart of the engine.           *)
(*                                                                         *)
(* Each section of manager._lock or of runner._lock is one action. The     *)
(* manager keeps a lane per runner and lanes share nothing but the lock:   *)
(* this is the lane of the local runner.                                   *)
(***************************************************************************)
EXTENDS Naturals, Sequences, FiniteSets

CONSTANTS
    Job,          \* the jobs that may be submitted
    NoJob,        \* a thread that is starting none
    MaxLives      \* bound: how often the engine is started

ASSUME NoJobAssumption == NoJob \notin Job
ASSUME LivesAssumption == MaxLives \in Nat \ {0}

VARIABLES
    state,        \* manager._jobs[j].state; "none" before the submission
    created,      \* the jobs in the order of their created_at
    disk,         \* the state in job.json; "torn" when half written
    proc,         \* the training process of each job
    procs,        \* runner._procs
    cancelled,    \* runner._cancelled
    verdict,      \* what the pump of a job is about to report
    at,           \* where each thread is
    work,         \* the job each thread is starting
    engine,       \* the engine process
    doomed,       \* the processes shutdown() has still to terminate
    lives         \* how often the engine was started

jobVars == <<state, disk>>
runnerVars == <<proc, procs, cancelled>>
engineVars == <<engine, doomed, lives>>
vars == <<state, created, disk, proc, procs, cancelled, verdict, at, work, engine, doomed,
          lives>>

Active == {"queued", "running"}
Ended == {"done", "failed", "cancelled"}

(* The request that submits a job, the one that cancels it, its pump *)
Submitter(j) == <<"submit", j>>
Canceller(j) == <<"cancel", j>>
Pump(j) == <<"pump", j>>
Thread == {"submit", "cancel", "pump"} \X Job

Up == engine \in {"up", "stopping", "killing"}
Exited(j) == proc[j] \in {"ok", "bad"}
Go(t, label) == at' = [at EXCEPT ![t] = label]

Init ==
    /\ state = [j \in Job |-> "none"]
    /\ created = <<>>
    /\ disk = [j \in Job |-> "none"]
    /\ proc = [j \in Job |-> "none"]
    /\ procs = {}
    /\ cancelled = {}
    /\ verdict = [j \in Job |-> "none"]
    /\ at = [t \in Thread |-> "idle"]
    /\ work = [t \in Thread |-> NoJob]
    /\ engine = "up"
    /\ doomed = {}
    /\ lives = 1

TypeOK ==
    /\ state \in [Job -> {"none"} \cup Active \cup Ended]
    /\ created \in Seq(Job)
    /\ disk \in [Job -> {"none", "torn"} \cup Active \cup Ended]
    /\ proc \in [Job -> {"none", "alive", "orphan", "ok", "bad"}]
    /\ procs \subseteq Job
    /\ cancelled \subseteq procs
    /\ verdict \in [Job -> {"none"} \cup Ended]
    /\ at \in [Thread -> {"idle", "inserting", "scheduling", "starting", "registering", "failing",
                          "cancelling", "terminating", "pumping", "reporting", "over"}]
    /\ work \in [Thread -> Job \cup {NoJob}]
    /\ engine \in {"up", "stopping", "killing", "exited", "crashed", "broken"}
    /\ doomed \subseteq Job
    /\ lives \in 1..MaxLives

-----------------------------------------------------------------------------
(* submit() *)

(* The time of creation is taken before the lock. *)
Create(j) ==
    /\ engine = "up"
    /\ at[Submitter(j)] = "idle"
    /\ created' = Append(created, j)
    /\ Go(Submitter(j), "inserting")
    /\ UNCHANGED <<jobVars, runnerVars, verdict, work, engineVars>>

Save(j, s) ==
    /\ state' = [state EXCEPT ![j] = s]
    /\ disk' = [disk EXCEPT ![j] = s]

Insert(j) ==
    /\ at[Submitter(j)] = "inserting"
    /\ Save(j, "queued")
    /\ Go(Submitter(j), "scheduling")
    /\ UNCHANGED <<created, runnerVars, verdict, work, engineVars>>

-----------------------------------------------------------------------------
(* _schedule(), by the thread of a submission or of an exit *)

LaneTaken == \E j \in Job : state[j] = "running"
Queued == {j \in Job : state[j] = "queued"}

(* The queued job that was created first *)
Oldest(j) ==
    \E i \in DOMAIN created :
        created[i] = j /\ \A k \in 1..(i - 1) : created[k] \notin Queued

Schedule(t) ==
    /\ at[t] = "scheduling"
    /\ \/ /\ ~LaneTaken
          /\ \E j \in Queued :
                /\ Oldest(j)
                /\ Save(j, "running")
                /\ work' = [work EXCEPT ![t] = j]
          /\ Go(t, "starting")
       \/ /\ LaneTaken \/ Queued = {}
          /\ Go(t, "over")
          /\ UNCHANGED <<jobVars, work>>
    /\ UNCHANGED <<created, runnerVars, verdict, engineVars>>

(* The dataset may have vanished, or the process may not start. *)
StartChild(t) ==
    /\ at[t] = "starting"
    /\ \/ /\ proc' = [proc EXCEPT ![work[t]] = "alive"]
          /\ Go(t, "registering")
       \/ /\ Go(t, "failing")
          /\ UNCHANGED proc
    /\ UNCHANGED <<jobVars, created, procs, cancelled, verdict, work, engineVars>>

(* Only now does cancel() or shutdown() know of the process. Its pump is   *)
(* started at once: nothing looks at the pump in between.                  *)
Register(t) ==
    /\ at[t] = "registering"
    /\ procs' = procs \cup {work[t]}
    /\ at' = [at EXCEPT ![t] = "over", ![Pump(work[t])] = "pumping"]
    /\ work' = [work EXCEPT ![t] = NoJob]
    /\ UNCHANGED <<jobVars, created, proc, cancelled, verdict, engineVars>>

ExitUnscheduled(t, j, outcome) ==   \* mutant: nobody looks at the queue again
    /\ Save(j, outcome)
    /\ Go(t, "over")

(* _on_exit(), which schedules the next job *)
OnExit(t, j, outcome) ==
    \/ /\ state[j] = "running"
       /\ Save(j, outcome)
       /\ Go(t, "scheduling")
    \/ /\ state[j] # "running"
       /\ Go(t, "over")
       /\ UNCHANGED jobVars

FailStart(t) ==
    /\ at[t] = "failing"
    /\ OnExit(t, work[t], "failed")
    /\ work' = [work EXCEPT ![t] = NoJob]
    /\ UNCHANGED <<created, runnerVars, verdict, engineVars>>

-----------------------------------------------------------------------------
(* _pump() *)

ReapAtOnce(j) ==   \* mutant: the end of the output is taken for the end of the process
    /\ at[Pump(j)] = "pumping"
    /\ procs' = procs \ {j}
    /\ cancelled' = cancelled \ {j}
    /\ verdict' = [verdict EXCEPT ![j] = IF j \in cancelled THEN "cancelled" ELSE "done"]
    /\ Go(Pump(j), "reporting")
    /\ UNCHANGED <<jobVars, created, proc, work, engineVars>>

(* The process is gone: what came of it is what is reported. *)
Reap(j) ==
    /\ at[Pump(j)] = "pumping"
    /\ Exited(j)
    /\ procs' = procs \ {j}
    /\ cancelled' = cancelled \ {j}
    /\ verdict' = [verdict EXCEPT ![j] =
          IF j \in cancelled THEN "cancelled" ELSE IF proc[j] = "ok" THEN "done" ELSE "failed"]
    /\ Go(Pump(j), "reporting")
    /\ UNCHANGED <<jobVars, created, proc, work, engineVars>>

Report(j) ==
    /\ at[Pump(j)] = "reporting"
    /\ OnExit(Pump(j), j, verdict[j])
    /\ UNCHANGED <<created, runnerVars, verdict, work, engineVars>>

-----------------------------------------------------------------------------
(* cancel() *)

Cancel(j) ==
    /\ engine = "up"
    /\ at[Canceller(j)] = "idle"
    /\ \/ /\ state[j] = "queued"
          /\ Save(j, "cancelled")
          /\ UNCHANGED at
       \/ /\ state[j] = "running"
          /\ Go(Canceller(j), "cancelling")
          /\ UNCHANGED jobVars
    /\ UNCHANGED <<created, runnerVars, verdict, work, engineVars>>

(* A process that is not registered, not yet or no more, is left alone. *)
CancelChild(j) ==
    /\ at[Canceller(j)] = "cancelling"
    /\ \/ /\ j \in procs
          /\ cancelled' = cancelled \cup {j}
          /\ Go(Canceller(j), "terminating")
       \/ /\ j \notin procs
          /\ Go(Canceller(j), "idle")
          /\ UNCHANGED cancelled
    /\ UNCHANGED <<jobVars, created, proc, procs, verdict, work, engineVars>>

TerminateOnly(j) ==   \* mutant: a process that ignores the signal is not killed
    UNCHANGED proc

(* A process that is asked to end, and is not gone after the grace, is killed. *)
Terminate(j) ==
    \/ Exited(j) /\ UNCHANGED proc
    \/ ~Exited(j) /\ proc' = [proc EXCEPT ![j] = "bad"]

EndCancel(j) ==
    /\ at[Canceller(j)] = "terminating"
    /\ Terminate(j)
    /\ Go(Canceller(j), "idle")
    /\ UNCHANGED <<jobVars, created, procs, cancelled, verdict, work, engineVars>>

-----------------------------------------------------------------------------
(* A training process ends by itself, well or badly, when it likes; so does *)
(* one that has lost its engine.                                           *)
ChildEnds(j) ==
    /\ \/ proc[j] = "alive" /\ \E code \in {"ok", "bad"} : proc' = [proc EXCEPT ![j] = code]
       \/ proc[j] = "orphan" /\ proc' = [proc EXCEPT ![j] = "bad"]
    /\ UNCHANGED <<jobVars, created, procs, cancelled, verdict, at, work, engineVars>>

(* The engine ends when its requests are answered, and takes no more. *)
BeginShutdown ==
    /\ engine = "up"
    /\ \A j \in Job :
          at[Submitter(j)] \in {"idle", "over"} /\ at[Canceller(j)] = "idle"
    /\ engine' = "stopping"
    /\ UNCHANGED <<jobVars, created, runnerVars, verdict, at, work, doomed, lives>>

Shutdown ==
    /\ engine = "stopping"
    /\ doomed' = procs
    /\ cancelled' = cancelled \cup procs
    /\ engine' = "killing"
    /\ UNCHANGED <<jobVars, created, proc, procs, verdict, at, work, lives>>

Kill(j) ==
    /\ engine = "killing"
    /\ j \in doomed
    /\ Terminate(j)
    /\ doomed' = doomed \ {j}
    /\ UNCHANGED <<jobVars, created, procs, cancelled, verdict, at, work, engine, lives>>

(* The jobs whose job.json some thread may be writing: a new one, a queued *)
(* one (to start or to cancel it), one that reports progress or its end.   *)
BeingSaved(j) ==
    \/ at[Submitter(j)] = "inserting"
    \/ state[j] = "queued"
    \/ at[Pump(j)] \in {"pumping", "reporting"}
    \/ \E t \in Thread : at[t] = "failing" /\ work[t] = j

(* The engine's threads end where they are, perhaps between the truncation *)
(* of a job.json and its writing (one at most: writing is under the lock). *)
(* Processes go on.                                                        *)
Vanish ==
    /\ state' = [j \in Job |-> "none"]
    /\ \/ UNCHANGED disk
       \/ \E j \in Job : BeingSaved(j) /\ disk' = [disk EXCEPT ![j] = "torn"]
    /\ proc' = [j \in Job |-> IF proc[j] = "alive" THEN "orphan" ELSE proc[j]]
    /\ procs' = {}
    /\ cancelled' = {}
    /\ doomed' = {}
    /\ at' = [t \in Thread |-> IF at[t] = "idle" \/ t[1] = "cancel" THEN "idle" ELSE "over"]
    /\ work' = [t \in Thread |-> NoJob]
    /\ UNCHANGED <<created, verdict, lives>>

Exit ==
    /\ engine = "killing"
    /\ doomed = {}
    /\ engine' = "exited"
    /\ Vanish

Crash ==
    /\ Up
    /\ engine' = "crashed"
    /\ Vanish

LoadAsIs(s) == s   \* mutant: what was active is taken over

(* What a new engine makes of a job.json *)
Loaded(s) == IF s \in Active THEN "failed" ELSE s

(* _load(). A job.json that cannot be read ends the engine's start, after  *)
(* the files read before it were marked.                                   *)
Restart ==
    /\ engine \in {"exited", "crashed"}
    /\ lives < MaxLives
    /\ \/ /\ \A j \in Job : disk[j] # "torn"
          /\ disk' = [j \in Job |-> Loaded(disk[j])]
          /\ state' = disk'
          /\ engine' = "up"
          /\ lives' = lives + 1
       \/ /\ \E j \in Job : disk[j] = "torn"
          /\ \E read \in SUBSET {j \in Job : disk[j] # "torn"} :
                disk' = [j \in Job |-> IF j \in read THEN Loaded(disk[j]) ELSE disk[j]]
          /\ engine' = "broken"
          /\ UNCHANGED <<state, lives>>
    /\ UNCHANGED <<created, runnerVars, verdict, at, work, doomed>>

-----------------------------------------------------------------------------
ThreadStep(t) == Up /\ (Schedule(t) \/ StartChild(t) \/ Register(t) \/ FailStart(t))

JobStep(j) ==
    Up /\ (Insert(j) \/ Reap(j) \/ Report(j) \/ CancelChild(j) \/ EndCancel(j))

EngineStep == Shutdown \/ Exit \/ \E j \in Job : Kill(j)

Environment ==
    \/ \E j \in Job : Create(j) \/ Cancel(j) \/ ChildEnds(j)
    \/ BeginShutdown \/ Crash \/ Restart

Next ==
    \/ \E t \in Thread : ThreadStep(t)
    \/ \E j \in Job : JobStep(j)
    \/ EngineStep
    \/ Environment

Spec == Init /\ [][Next]_vars

(* Threads run, while the engine lives. Users owe nothing, and a training  *)
(* need not end.                                                           *)
Fairness ==
    /\ \A t \in Thread : WF_vars(ThreadStep(t))
    /\ \A j \in Job :
          /\ WF_vars(Up /\ Insert(j))
          /\ WF_vars(Up /\ (Reap(j) \/ Report(j)))
          /\ WF_vars(Up /\ (CancelChild(j) \/ EndCancel(j)))
    /\ WF_vars(EngineStep)

FairSpec == Spec /\ Fairness

-----------------------------------------------------------------------------
(* Safety *)

(* What a reader of the jobs is shown; between two engines, what the next  *)
(* one will load (of a torn job.json nothing is left but that it was).     *)
Shown ==
    IF Up THEN state
    ELSE [j \in Job |-> IF disk[j] = "torn" THEN "failed" ELSE Loaded(disk[j])]

Ledger == INSTANCE JobLedger WITH ledger <- Shown

(* Whoever reads the jobs sees the promise of JobLedger kept, through      *)
(* crashes and restarts (jobs.py:166-175).                                 *)
LedgerRefinement == Ledger!Spec

(* A training process of this engine belongs to a running job: one trains  *)
(* at a time, and a job that ended (jobs.py:315-328) trains no more.       *)
ChildIsRunning == \A j \in Job : proc[j] = "alive" => state[j] = "running"

Starting(t) == at[t] \in {"starting", "registering", "failing"}

(* A running job has a thread that will report its end (jobs.py:129), or   *)
(* the lane would be taken for good.                                       *)
RunningIsAttended ==
    \A j \in Job : state[j] = "running" =>
        \/ at[Pump(j)] \in {"pumping", "reporting"}
        \/ \E t \in Thread : Starting(t) /\ work[t] = j

(* What these rest on, for the proofs. One job has the lane; an engine that *)
(* is up has on the disk what it has in memory, and one that is not has     *)
(* nothing in memory.                                                       *)
LaneInv == \A j, k \in Job : state[j] = "running" /\ state[k] = "running" => j = k

DiskInv ==
    /\ Up => disk = state
    /\ ~Up => /\ \A j \in Job : state[j] = "none" /\ proc[j] # "alive"
              /\ \A t \in Thread : at[t] \in {"idle", "over"}
              /\ procs = {}

(* One thread at a time starts a job: the one that has the lane. *)
StartInv ==
    /\ \A t, u \in Thread : Starting(t) /\ Starting(u) => t = u
    /\ \A t \in Thread : Starting(t) =>
          /\ work[t] \in Job
          /\ state[work[t]] = "running"
          /\ at[Pump(work[t])] = "idle"
          /\ at[t] = "registering" <=> proc[work[t]] # "none"

PumpInv ==
    \A j \in Job :
        /\ at[Pump(j)] \in {"pumping", "reporting"} => state[j] = "running"
        /\ at[Pump(j)] = "pumping" <=> j \in procs
        /\ at[Pump(j)] = "reporting" => verdict[j] \in Ended
        /\ proc[j] = "alive" =>
              at[Pump(j)] = "pumping" \/ \E t \in Thread : at[t] = "registering" /\ work[t] = j

(* A job that nobody has started has no process and no pump. *)
FreshInv ==
    \A j \in Job :
        /\ at[Submitter(j)] \in {"idle", "inserting"} => state[j] = "none" /\ disk[j] = "none"
        /\ at[Submitter(j)] \in {"idle", "inserting"} \/ state[j] = "queued" =>
              at[Pump(j)] = "idle" /\ proc[j] = "none"

(* What each kind of thread does, and that what is asked to end was started. *)
KindInv ==
    \A j \in Job :
        /\ at[Canceller(j)] \in {"idle", "cancelling", "terminating"}
        /\ at[Pump(j)] \notin {"inserting", "cancelling", "terminating"}
        /\ at[Submitter(j)] \notin {"pumping", "reporting", "cancelling", "terminating"}
        /\ at[Canceller(j)] = "terminating" \/ j \in doomed \/ j \in procs => proc[j] # "none"
        /\ ~Up => at[Canceller(j)] = "idle" /\ doomed = {}

JobsInv ==
    /\ TypeOK
    /\ LaneInv
    /\ DiskInv
    /\ StartInv
    /\ PumpInv
    /\ FreshInv
    /\ KindInv
    /\ RunningIsAttended

-----------------------------------------------------------------------------
(* Liveness *)

(* The queue moves: with nothing training, the next job is started.        *)
QueueMoves ==
    \A j \in Job :
        state[j] = "queued" ~>
            state[j] # "queued" \/ (\E k \in Job : proc[k] = "alive") \/ engine # "up"

(* A cancel that reached the process ends the job. *)
CancelEnds ==
    \A j \in Job : j \in cancelled ~> state[j] \in Ended \/ engine # "up"

-----------------------------------------------------------------------------
(* What the repository says and the code does not do *)

(* "Stop everything this runner started." (jobs.py:144): no training is    *)
(* left when the engine has shut down.                                     *)
NothingLeftRunning ==
    [][engine' = "exited" => engine = "exited" \/ \A j \in Job : proc[j] # "alive"]_vars
=============================================================================
