----------------------------- MODULE JobsProofs -----------------------------
(***************************************************************************)
(* Theorems about the job manager and its local runner, for every set of   *)
(* jobs and any number of restarts.                                        *)
(***************************************************************************)
EXTENDS Jobs, TLAPS

USE NoJobAssumption, LivesAssumption

(* The threads are told apart by their kind and their job. *)
LEMMA Threads ==
    /\ \A j \in Job : Pump(j) \in Thread /\ Submitter(j) \in Thread /\ Canceller(j) \in Thread
    /\ \A j, k \in Job :
          /\ Pump(j) # Submitter(k)
          /\ Pump(j) # Canceller(k)
          /\ Submitter(j) # Canceller(k)
          /\ j # k => Pump(j) # Pump(k) /\ Submitter(j) # Submitter(k) /\ Canceller(j) # Canceller(k)
BY DEF Pump, Submitter, Canceller, Thread

(* A thread that is not a cancel is a submission or a pump. *)
LEMMA Kinds ==
    /\ \A j \in Job : Submitter(j)[1] = "submit" /\ Pump(j)[1] = "pump" /\ Canceller(j)[1] = "cancel"
    /\ \A t \in Thread : \E j \in Job : t \in {Submitter(j), Canceller(j), Pump(j)}
BY DEF Pump, Submitter, Canceller, Thread

(* The request is taken, the job not yet in the queue. *)
LEMMA CreateKeeps ==
    ASSUME JobsInv, NEW j \in Job, Create(j)
    PROVE  JobsInv'
<1> USE Threads DEF JobsInv, jobVars, runnerVars, engineVars
<1>0. /\ at[Submitter(j)] = "idle" /\ at'[Submitter(j)] = "inserting" /\ Up /\ Up'
      /\ \A u \in Thread : u # Submitter(j) => at'[u] = at[u]
      /\ UNCHANGED <<state, disk, proc, procs, cancelled, verdict, work, doomed>>
  BY DEF TypeOK, Create, Go, Up
<1>00. \A k \in Job : /\ at'[Pump(k)] = at[Pump(k)] /\ at'[Canceller(k)] = at[Canceller(k)]
                      /\ k # j => at'[Submitter(k)] = at[Submitter(k)]
  BY <1>0
<1>1. TypeOK'
  BY DEF TypeOK, Create, Go
<1>2. LaneInv'
  BY DEF TypeOK, LaneInv, Create, Go
<1>3. DiskInv'
  BY DEF TypeOK, DiskInv, Up, Create, Go
<1>4. StartInv'
  <2>1. \A u \in Thread : Starting(u)' => Starting(u) /\ work'[u] = work[u] /\ at'[u] = at[u]
    BY DEF TypeOK, Starting, Create, Go
  <2>2. \A u, v \in Thread : Starting(u)' /\ Starting(v)' => u = v
    BY <2>1 DEF StartInv
  <2>3. ASSUME NEW u \in Thread, Starting(u)'
        PROVE  /\ (work[u] \in Job)'
               /\ (state[work[u]] = "running")'
               /\ (at[Pump(work[u])] = "idle")'
               /\ (at[u] = "registering" <=> proc[work[u]] # "none")'
    <3>1. /\ work[u] \in Job /\ state[work[u]] = "running" /\ at[Pump(work[u])] = "idle"
          /\ at[u] = "registering" <=> proc[work[u]] # "none"
          /\ work'[u] = work[u] /\ at'[u] = at[u]
      BY <2>1, <2>3 DEF StartInv
    <3>2. state'[work[u]] = "running"
      BY <1>0, <1>00, <3>1 DEF TypeOK, Create, Go
    <3>3. at'[Pump(work[u])] = "idle"
      BY <1>0, <1>00, <3>1 DEF TypeOK, Create, Go
    <3>4. proc[work[u]] = "none" <=> proc'[work[u]] = "none"
      BY <1>0, <1>00, <3>1 DEF TypeOK, Create, Go
    <3> QED BY <3>1, <3>2, <3>3, <3>4
  <2> QED BY <2>2, <2>3 DEF StartInv
<1>5. PumpInv'
  BY DEF TypeOK, PumpInv, StartInv, Starting, FreshInv, Create, Go
<1>6. FreshInv'
  <2> SUFFICES ASSUME NEW k \in Job
              PROVE  /\ (at[Submitter(k)] \in {"idle", "inserting"} => state[k] = "none" /\ disk[k] = "none")'
                     /\ (at[Submitter(k)] \in {"idle", "inserting"} \/ state[k] = "queued" => at[Pump(k)] = "idle" /\ proc[k] = "none")'
    BY DEF FreshInv
  <2>1. (at[Submitter(k)] \in {"idle", "inserting"} => state[k] = "none" /\ disk[k] = "none")'
    BY <1>0, <1>00 DEF FreshInv, KindInv, StartInv, PumpInv, Starting
  <2>2. (at[Submitter(k)] \in {"idle", "inserting"} \/ state[k] = "queued" => at[Pump(k)] = "idle" /\ proc[k] = "none")'
    BY <1>0, <1>00 DEF FreshInv, KindInv, StartInv, PumpInv, Starting
  <2> QED BY <2>1, <2>2
<1>7. KindInv'
  <2> SUFFICES ASSUME NEW k \in Job
              PROVE  /\ (at[Canceller(k)] \in {"idle", "cancelling", "terminating"})'
                     /\ (at[Pump(k)] \notin {"inserting", "cancelling", "terminating"})'
                     /\ (at[Submitter(k)] \notin {"pumping", "reporting", "cancelling", "terminating"})'
                     /\ (at[Canceller(k)] = "terminating" \/ k \in doomed \/ k \in procs => proc[k] # "none")'
                     /\ (~Up => at[Canceller(k)] = "idle" /\ doomed = {})'
    BY DEF KindInv
  <2>1. (at[Canceller(k)] \in {"idle", "cancelling", "terminating"})'
    BY <1>0, <1>00 DEF KindInv, Up, StartInv, PumpInv, Starting, FreshInv
  <2>2. (at[Pump(k)] \notin {"inserting", "cancelling", "terminating"})'
    BY <1>0, <1>00 DEF KindInv, Up, StartInv, PumpInv, Starting, FreshInv
  <2>3. (at[Submitter(k)] \notin {"pumping", "reporting", "cancelling", "terminating"})'
    BY <1>0, <1>00 DEF KindInv, Up, StartInv, PumpInv, Starting, FreshInv
  <2>4. (at[Canceller(k)] = "terminating" \/ k \in doomed \/ k \in procs => proc[k] # "none")'
    BY <1>0, <1>00 DEF KindInv, Up, StartInv, PumpInv, Starting, FreshInv
  <2>5. (~Up => at[Canceller(k)] = "idle" /\ doomed = {})'
    BY <1>0, <1>00 DEF KindInv, Up, StartInv, PumpInv, Starting, FreshInv
  <2> QED BY <2>1, <2>2, <2>3, <2>4, <2>5
<1>8. RunningIsAttended'
  BY DEF TypeOK, RunningIsAttended, LaneInv, Starting, Create, Go
<1> QED BY <1>1, <1>2, <1>3, <1>4, <1>5, <1>6, <1>7, <1>8

(* The job enters the queue. *)
LEMMA InsertKeeps ==
    ASSUME JobsInv, NEW j \in Job, Up, Insert(j)
    PROVE  JobsInv'
<1> USE Threads DEF JobsInv, jobVars, runnerVars, engineVars
<1>1. TypeOK'
  <2>1. (state \in [Job -> {"none"} \cup Active \cup Ended])'
    BY DEF TypeOK, Insert, Go, Save, Active, Ended
  <2>2. (created \in Seq(Job))'
    BY DEF TypeOK, Insert, Go, Save
  <2>3. (disk \in [Job -> {"none", "torn"} \cup Active \cup Ended])'
    BY DEF TypeOK, Insert, Go, Save, Active, Ended
  <2>4. (proc \in [Job -> {"none", "alive", "orphan", "ok", "bad"}] /\ procs \subseteq Job /\ cancelled \subseteq procs)'
    BY DEF TypeOK, Insert, Go, Save
  <2>5. (verdict \in [Job -> {"none"} \cup Ended])'
    BY DEF TypeOK, Insert, Go, Save, Active, Ended
  <2>6. (at \in [Thread -> {"idle", "inserting", "scheduling",
             "starting", "registering", "failing", "cancelling", "terminating", "pumping", "reporting", "over"}])'
    BY DEF TypeOK, Insert, Go, Save
  <2>7. (work \in [Thread -> Job \cup {NoJob}])'
    BY DEF TypeOK, Insert, Go, Save
  <2>8. (engine \in {"up", "stopping", "killing", "exited", "crashed", "broken"} /\ doomed \subseteq Job /\ lives \in 1..MaxLives)'
    BY DEF TypeOK, Insert, Go, Save
  <2> QED BY <2>1, <2>2, <2>3, <2>4, <2>5, <2>6, <2>7, <2>8 DEF TypeOK
<1>2. LaneInv'
  BY DEF TypeOK, LaneInv, Insert, Save, Go
<1>3. DiskInv'
  BY DEF TypeOK, DiskInv, Up, Insert, Save, Go
<1>4. StartInv'
  BY DEF TypeOK, StartInv, Starting, LaneInv, FreshInv, Insert, Save, Go
<1>5. PumpInv'
  BY DEF TypeOK, PumpInv, StartInv, Starting, FreshInv, Insert, Save, Go
<1>6. FreshInv'
  BY DEF TypeOK, FreshInv, KindInv, StartInv, PumpInv, Starting, Insert, Save, Go
<1>7. KindInv'
  BY DEF TypeOK, KindInv, Up, StartInv, Starting, FreshInv, Insert, Save, Go
<1>8. RunningIsAttended'
  BY DEF TypeOK, RunningIsAttended, LaneInv, Starting, Insert, Save, Go
<1> QED BY <1>1, <1>2, <1>3, <1>4, <1>5, <1>6, <1>7, <1>8

(* A thread takes the oldest queued job, if the lane is free. *)
LEMMA ScheduleKeeps ==
    ASSUME JobsInv, NEW t \in Thread, Up, Schedule(t)
    PROVE  JobsInv'
<1> USE Threads DEF JobsInv, jobVars, runnerVars, engineVars
<1>1. TypeOK'
  <2>1. (state \in [Job -> {"none"} \cup Active \cup Ended])'
    BY DEF TypeOK, Schedule, Go, Save, LaneTaken, Queued, Active, Ended
  <2>2. (created \in Seq(Job))'
    BY DEF TypeOK, Schedule, Go, Save, LaneTaken, Queued
  <2>3. (disk \in [Job -> {"none", "torn"} \cup Active \cup Ended])'
    BY DEF TypeOK, Schedule, Go, Save, LaneTaken, Queued, Active, Ended
  <2>4. (proc \in [Job -> {"none", "alive", "orphan", "ok", "bad"}] /\ procs \subseteq Job /\ cancelled \subseteq procs)'
    BY DEF TypeOK, Schedule, Go, Save, LaneTaken, Queued
  <2>5. (verdict \in [Job -> {"none"} \cup Ended])'
    BY DEF TypeOK, Schedule, Go, Save, LaneTaken, Queued, Active, Ended
  <2>6. (at \in [Thread -> {"idle", "inserting", "scheduling",
             "starting", "registering", "failing", "cancelling", "terminating", "pumping", "reporting", "over"}])'
    BY DEF TypeOK, Schedule, Go, Save, LaneTaken, Queued
  <2>7. (work \in [Thread -> Job \cup {NoJob}])'
    BY DEF TypeOK, Schedule, Go, Save, LaneTaken, Queued
  <2>8. (engine \in {"up", "stopping", "killing", "exited", "crashed", "broken"} /\ doomed \subseteq Job /\ lives \in 1..MaxLives)'
    BY DEF TypeOK, Schedule, Go, Save, LaneTaken, Queued
  <2> QED BY <2>1, <2>2, <2>3, <2>4, <2>5, <2>6, <2>7, <2>8 DEF TypeOK
<1>2. LaneInv'
  BY DEF TypeOK, LaneInv, Schedule, Save, LaneTaken, Queued, Go
<1>3. DiskInv'
  BY DEF TypeOK, DiskInv, Up, Schedule, Save, LaneTaken, Queued, Go
<1>4. StartInv'
  BY DEF TypeOK, StartInv, Starting, LaneInv, FreshInv, Schedule, Save, LaneTaken, Queued, Go
<1>5. PumpInv'
  BY DEF TypeOK, PumpInv, StartInv, Starting, FreshInv, Schedule, Save, LaneTaken, Queued, Go
<1>6. FreshInv'
  BY DEF TypeOK, FreshInv, KindInv, StartInv, PumpInv, Starting, Schedule, Save, LaneTaken, Queued, Go
<1>7. KindInv'
  BY DEF TypeOK, KindInv, Up, StartInv, Starting, FreshInv, Schedule, Save, LaneTaken, Queued, Go
<1>8. RunningIsAttended'
  BY DEF TypeOK, RunningIsAttended, LaneInv, Starting, Schedule, Save, LaneTaken, Queued, Go
<1> QED BY <1>1, <1>2, <1>3, <1>4, <1>5, <1>6, <1>7, <1>8

(* The process starts, or does not. *)
LEMMA StartChildKeeps ==
    ASSUME JobsInv, NEW t \in Thread, Up, StartChild(t)
    PROVE  JobsInv'
<1> USE Threads DEF JobsInv, jobVars, runnerVars, engineVars
<1>1. TypeOK'
  BY DEF TypeOK, StartChild, Go
<1>2. LaneInv'
  BY DEF TypeOK, LaneInv, StartChild, Go
<1>3. DiskInv'
  BY DEF TypeOK, DiskInv, Up, StartChild, Go
<1>4. StartInv'
  BY DEF TypeOK, StartInv, Starting, LaneInv, FreshInv, StartChild, Go
<1>5. PumpInv'
  BY DEF TypeOK, PumpInv, StartInv, Starting, FreshInv, StartChild, Go
<1>6. FreshInv'
  BY DEF TypeOK, FreshInv, KindInv, StartInv, PumpInv, Starting, StartChild, Go
<1>7. KindInv'
  BY DEF TypeOK, KindInv, Up, StartInv, Starting, FreshInv, StartChild, Go
<1>8. RunningIsAttended'
  BY DEF TypeOK, RunningIsAttended, LaneInv, Starting, StartChild, Go
<1> QED BY <1>1, <1>2, <1>3, <1>4, <1>5, <1>6, <1>7, <1>8

(* The runner knows of the process. *)
LEMMA RegisterKeeps ==
    ASSUME JobsInv, NEW t \in Thread, Up, Register(t)
    PROVE  JobsInv'
<1> USE Threads DEF JobsInv, jobVars, runnerVars, engineVars
<1>0. PICK j \in Job : /\ work[t] = j /\ state[j] = "running" /\ at[Pump(j)] = "idle"
                       /\ at[t] = "registering"
  BY DEF Register, StartInv, Starting
<1>00. /\ t # Pump(j) /\ at'[t] = "over" /\ at'[Pump(j)] = "pumping" /\ Up'
       /\ \A u \in Thread : u # t /\ u # Pump(j) => at'[u] = at[u] /\ work'[u] = work[u]
       /\ procs' = procs \cup {j}
       /\ UNCHANGED <<state, disk, proc, cancelled, verdict, doomed>>
  BY <1>0 DEF TypeOK, Register, Up
<1>000. \A k \in Job :
           /\ at'[Canceller(k)] = at[Canceller(k)]
           /\ \/ at'[Submitter(k)] = at[Submitter(k)]
              \/ at[Submitter(k)] = "registering" /\ at'[Submitter(k)] = "over"
           /\ k # j => \/ at'[Pump(k)] = at[Pump(k)]
                       \/ at[Pump(k)] = "registering" /\ at'[Pump(k)] = "over"
  <2> SUFFICES ASSUME NEW k \in Job
               PROVE  /\ at'[Canceller(k)] = at[Canceller(k)]
                      /\ \/ at'[Submitter(k)] = at[Submitter(k)]
                         \/ at[Submitter(k)] = "registering" /\ at'[Submitter(k)] = "over"
                      /\ k # j => \/ at'[Pump(k)] = at[Pump(k)]
                                  \/ at[Pump(k)] = "registering" /\ at'[Pump(k)] = "over"
    OBVIOUS
  <2>1. at[Canceller(k)] # "registering"
    BY DEF KindInv
  <2>2. at'[Canceller(k)] = at[Canceller(k)]
    BY <1>0, <1>00, <2>1
  <2>3. at'[Submitter(k)] = at[Submitter(k)] \/ Submitter(k) = t
    BY <1>00
  <2>4. k # j => at'[Pump(k)] = at[Pump(k)] \/ Pump(k) = t
    BY <1>00
  <2> QED BY <1>0, <1>00, <2>2, <2>3, <2>4
<1>1. TypeOK'
  <2>1. (state \in [Job -> {"none"} \cup Active \cup Ended])'
    BY DEF TypeOK, Register, Active, Ended
  <2>2. (created \in Seq(Job))'
    BY DEF TypeOK, Register
  <2>3. (disk \in [Job -> {"none", "torn"} \cup Active \cup Ended])'
    BY DEF TypeOK, Register, Active, Ended
  <2>4. (proc \in [Job -> {"none", "alive", "orphan", "ok", "bad"}] /\ procs \subseteq Job /\ cancelled \subseteq procs)'
    BY <1>0, <1>00 DEF TypeOK, Register
  <2>5. (verdict \in [Job -> {"none"} \cup Ended])'
    BY DEF TypeOK, Register, Active, Ended
  <2>6. (at \in [Thread -> {"idle", "inserting", "scheduling",
             "starting", "registering", "failing", "cancelling", "terminating", "pumping", "reporting", "over"}])'
    BY DEF TypeOK, Register
  <2>7. (work \in [Thread -> Job \cup {NoJob}])'
    BY DEF TypeOK, Register
  <2>8. (engine \in {"up", "stopping", "killing", "exited", "crashed", "broken"} /\ doomed \subseteq Job /\ lives \in 1..MaxLives)'
    BY DEF TypeOK, Register
  <2> QED BY <2>1, <2>2, <2>3, <2>4, <2>5, <2>6, <2>7, <2>8 DEF TypeOK
<1>2. LaneInv'
  BY DEF TypeOK, LaneInv, Register, Go
<1>3. DiskInv'
  BY DEF TypeOK, DiskInv, Up, Register, Go
<1>4. StartInv'
  BY DEF TypeOK, StartInv, Starting, LaneInv, FreshInv, Register, Go
<1>5. PumpInv'
  <2> SUFFICES ASSUME NEW k \in Job
              PROVE  /\ (at[Pump(k)] \in {"pumping", "reporting"} => state[k] = "running")'
                     /\ (at[Pump(k)] = "pumping" <=> k \in procs)'
                     /\ (at[Pump(k)] = "reporting" => verdict[k] \in Ended)'
                     /\ (proc[k] = "alive" => at[Pump(k)] = "pumping" \/ \E u \in Thread : at[u] = "registering" /\ work[u] = k)'
    BY DEF PumpInv
  <2>1. (at[Pump(k)] \in {"pumping", "reporting"} => state[k] = "running")'
    BY <1>0, <1>00, <1>000 DEF PumpInv, KindInv, StartInv, Starting, Ended
  <2>2. (at[Pump(k)] = "pumping" <=> k \in procs)'
    BY <1>0, <1>00, <1>000 DEF PumpInv, KindInv, StartInv, Starting, Ended
  <2>3. (at[Pump(k)] = "reporting" => verdict[k] \in Ended)'
    BY <1>0, <1>00, <1>000 DEF PumpInv, KindInv, StartInv, Starting, Ended
  <2>4. (proc[k] = "alive" => at[Pump(k)] = "pumping" \/ \E u \in Thread : at[u] = "registering" /\ work[u] = k)'
    BY <1>0, <1>00, <1>000 DEF PumpInv, KindInv, StartInv, Starting, Ended
  <2> QED BY <2>1, <2>2, <2>3, <2>4
<1>6. FreshInv'
  <2> SUFFICES ASSUME NEW k \in Job
              PROVE  /\ (at[Submitter(k)] \in {"idle", "inserting"} => state[k] = "none" /\ disk[k] = "none")'
                     /\ (at[Submitter(k)] \in {"idle", "inserting"} \/ state[k] = "queued" => at[Pump(k)] = "idle" /\ proc[k] = "none")'
    BY DEF FreshInv
  <2>1. (at[Submitter(k)] \in {"idle", "inserting"} => state[k] = "none" /\ disk[k] = "none")'
    BY <1>0, <1>00, <1>000 DEF FreshInv, KindInv, StartInv, PumpInv, Starting
  <2>2. (at[Submitter(k)] \in {"idle", "inserting"} \/ state[k] = "queued" => at[Pump(k)] = "idle" /\ proc[k] = "none")'
    BY <1>0, <1>00, <1>000 DEF FreshInv, KindInv, StartInv, PumpInv, Starting
  <2> QED BY <2>1, <2>2
<1>7. KindInv'
  <2> SUFFICES ASSUME NEW k \in Job
              PROVE  /\ (at[Canceller(k)] \in {"idle", "cancelling", "terminating"})'
                     /\ (at[Pump(k)] \notin {"inserting", "cancelling", "terminating"})'
                     /\ (at[Submitter(k)] \notin {"pumping", "reporting", "cancelling", "terminating"})'
                     /\ (at[Canceller(k)] = "terminating" \/ k \in doomed \/ k \in procs => proc[k] # "none")'
                     /\ (~Up => at[Canceller(k)] = "idle" /\ doomed = {})'
    BY DEF KindInv
  <2>1. (at[Canceller(k)] \in {"idle", "cancelling", "terminating"})'
    BY <1>0, <1>00, <1>000 DEF KindInv, Up, StartInv, PumpInv, Starting, FreshInv
  <2>2. (at[Pump(k)] \notin {"inserting", "cancelling", "terminating"})'
    BY <1>0, <1>00, <1>000 DEF KindInv, Up, StartInv, PumpInv, Starting, FreshInv
  <2>3. (at[Submitter(k)] \notin {"pumping", "reporting", "cancelling", "terminating"})'
    BY <1>0, <1>00, <1>000 DEF KindInv, Up, StartInv, PumpInv, Starting, FreshInv
  <2>4. (at[Canceller(k)] = "terminating" \/ k \in doomed \/ k \in procs => proc[k] # "none")'
    BY <1>0, <1>00, <1>000 DEF KindInv, Up, StartInv, PumpInv, Starting, FreshInv
  <2>5. (~Up => at[Canceller(k)] = "idle" /\ doomed = {})'
    BY <1>0, <1>00, <1>000 DEF KindInv, Up, StartInv, PumpInv, Starting, FreshInv
  <2> QED BY <2>1, <2>2, <2>3, <2>4, <2>5
<1>8. RunningIsAttended'
  <2> SUFFICES ASSUME NEW k \in Job, state[k] = "running"
               PROVE  at'[Pump(k)] = "pumping"
    BY <1>00 DEF RunningIsAttended
  <2> QED BY <1>0, <1>00 DEF LaneInv
<1> QED BY <1>1, <1>2, <1>3, <1>4, <1>5, <1>6, <1>7, <1>8

(* A start that failed ends its job. *)
LEMMA FailStartKeeps ==
    ASSUME JobsInv, NEW t \in Thread, Up, FailStart(t)
    PROVE  JobsInv'
<1> USE Threads DEF JobsInv, jobVars, runnerVars, engineVars
<1>1. TypeOK'
  <2>1. (state \in [Job -> {"none"} \cup Active \cup Ended])'
    BY DEF TypeOK, FailStart, Go, OnExit, Save, Active, Ended
  <2>2. (created \in Seq(Job))'
    BY DEF TypeOK, FailStart, Go, OnExit, Save
  <2>3. (disk \in [Job -> {"none", "torn"} \cup Active \cup Ended])'
    BY DEF TypeOK, FailStart, Go, OnExit, Save, Active, Ended
  <2>4. (proc \in [Job -> {"none", "alive", "orphan", "ok", "bad"}] /\ procs \subseteq Job /\ cancelled \subseteq procs)'
    BY DEF TypeOK, FailStart, Go, OnExit, Save
  <2>5. (verdict \in [Job -> {"none"} \cup Ended])'
    BY DEF TypeOK, FailStart, Go, OnExit, Save, Active, Ended
  <2>6. (at \in [Thread -> {"idle", "inserting", "scheduling",
             "starting", "registering", "failing", "cancelling", "terminating", "pumping", "reporting", "over"}])'
    BY DEF TypeOK, FailStart, Go, OnExit, Save
  <2>7. (work \in [Thread -> Job \cup {NoJob}])'
    BY DEF TypeOK, FailStart, Go, OnExit, Save
  <2>8. (engine \in {"up", "stopping", "killing", "exited", "crashed", "broken"} /\ doomed \subseteq Job /\ lives \in 1..MaxLives)'
    BY DEF TypeOK, FailStart, Go, OnExit, Save
  <2> QED BY <2>1, <2>2, <2>3, <2>4, <2>5, <2>6, <2>7, <2>8 DEF TypeOK
<1>2. LaneInv'
  BY DEF TypeOK, LaneInv, FailStart, OnExit, Save, Go
<1>3. DiskInv'
  BY DEF TypeOK, DiskInv, Up, FailStart, OnExit, Save, Go
<1>4. StartInv'
  BY SMTT(30) DEF TypeOK, StartInv, Starting, LaneInv, FreshInv, FailStart, OnExit, Save, Go
<1>5. PumpInv'
  BY DEF TypeOK, PumpInv, StartInv, Starting, FreshInv, FailStart, OnExit, Save, Go
<1>6. FreshInv'
  <2> SUFFICES ASSUME NEW k \in Job
              PROVE  /\ (at[Submitter(k)] \in {"idle", "inserting"} => state[k] = "none" /\ disk[k] = "none")'
                     /\ (at[Submitter(k)] \in {"idle", "inserting"} \/ state[k] = "queued" => at[Pump(k)] = "idle" /\ proc[k] = "none")'
    BY DEF FreshInv
  <2>1. (at[Submitter(k)] \in {"idle", "inserting"} => state[k] = "none" /\ disk[k] = "none")'
    BY DEF TypeOK, FreshInv, KindInv, StartInv, PumpInv, Starting, FailStart, Go, OnExit, Save
  <2>2. (at[Submitter(k)] \in {"idle", "inserting"} \/ state[k] = "queued" => at[Pump(k)] = "idle" /\ proc[k] = "none")'
    BY DEF TypeOK, FreshInv, KindInv, StartInv, PumpInv, Starting, FailStart, Go, OnExit, Save
  <2> QED BY <2>1, <2>2
<1>7. KindInv'
  BY DEF TypeOK, KindInv, Up, StartInv, Starting, FreshInv, FailStart, OnExit, Save, Go
<1>8. RunningIsAttended'
  BY DEF TypeOK, RunningIsAttended, LaneInv, Starting, FailStart, OnExit, Save, Go
<1> QED BY <1>1, <1>2, <1>3, <1>4, <1>5, <1>6, <1>7, <1>8

(* The process is gone. *)
LEMMA ReapKeeps ==
    ASSUME JobsInv, NEW j \in Job, Up, Reap(j)
    PROVE  JobsInv'
<1> USE Threads DEF JobsInv, jobVars, runnerVars, engineVars
<1>0. /\ at[Pump(j)] = "pumping" /\ at'[Pump(j)] = "reporting" /\ Up'
      /\ \A u \in Thread : u # Pump(j) => at'[u] = at[u]
      /\ procs' = procs \ {j} /\ proc[j] # "alive"
      /\ \A k \in Job : k # j => verdict'[k] = verdict[k]
      /\ verdict'[j] \in {"cancelled", "done", "failed"}
      /\ UNCHANGED <<state, disk, proc, work, doomed>>
  BY DEF TypeOK, Reap, Exited, Go, Up
<1>00. \A k \in Job : /\ at'[Canceller(k)] = at[Canceller(k)] /\ at'[Submitter(k)] = at[Submitter(k)]
                      /\ k # j => at'[Pump(k)] = at[Pump(k)]
  BY <1>0
<1>1. TypeOK'
  <2>1. (state \in [Job -> {"none"} \cup Active \cup Ended])'
    BY DEF TypeOK, Reap, Go, Exited, Active, Ended
  <2>2. (created \in Seq(Job))'
    BY DEF TypeOK, Reap, Go, Exited
  <2>3. (disk \in [Job -> {"none", "torn"} \cup Active \cup Ended])'
    BY DEF TypeOK, Reap, Go, Exited, Active, Ended
  <2>4. (proc \in [Job -> {"none", "alive", "orphan", "ok", "bad"}] /\ procs \subseteq Job /\ cancelled \subseteq procs)'
    BY DEF TypeOK, Reap, Go, Exited
  <2>5. (verdict \in [Job -> {"none"} \cup Ended])'
    BY DEF TypeOK, Reap, Go, Exited, Active, Ended
  <2>6. (at \in [Thread -> {"idle", "inserting", "scheduling",
             "starting", "registering", "failing", "cancelling", "terminating", "pumping", "reporting", "over"}])'
    BY DEF TypeOK, Reap, Go, Exited
  <2>7. (work \in [Thread -> Job \cup {NoJob}])'
    BY DEF TypeOK, Reap, Go, Exited
  <2>8. (engine \in {"up", "stopping", "killing", "exited", "crashed", "broken"} /\ doomed \subseteq Job /\ lives \in 1..MaxLives)'
    BY DEF TypeOK, Reap, Go, Exited
  <2> QED BY <2>1, <2>2, <2>3, <2>4, <2>5, <2>6, <2>7, <2>8 DEF TypeOK
<1>2. LaneInv'
  BY DEF TypeOK, LaneInv, Reap, Exited, Go
<1>3. DiskInv'
  BY DEF TypeOK, DiskInv, Up, Reap, Exited, Go
<1>4. StartInv'
  BY DEF TypeOK, StartInv, Starting, LaneInv, FreshInv, Reap, Exited, Go
<1>5. PumpInv'
  <2> SUFFICES ASSUME NEW k \in Job
              PROVE  /\ (at[Pump(k)] \in {"pumping", "reporting"} => state[k] = "running")'
                     /\ (at[Pump(k)] = "pumping" <=> k \in procs)'
                     /\ (at[Pump(k)] = "reporting" => verdict[k] \in Ended)'
                     /\ (proc[k] = "alive" => at[Pump(k)] = "pumping" \/ \E u \in Thread : at[u] = "registering" /\ work[u] = k)'
    BY DEF PumpInv
  <2>1. (at[Pump(k)] \in {"pumping", "reporting"} => state[k] = "running")'
    BY <1>0, <1>00 DEF PumpInv, KindInv, StartInv, Starting, Ended
  <2>2. (at[Pump(k)] = "pumping" <=> k \in procs)'
    BY <1>0, <1>00 DEF PumpInv, KindInv, StartInv, Starting, Ended
  <2>3. (at[Pump(k)] = "reporting" => verdict[k] \in Ended)'
    BY <1>0, <1>00 DEF PumpInv, KindInv, StartInv, Starting, Ended
  <2>4. (proc[k] = "alive" => at[Pump(k)] = "pumping" \/ \E u \in Thread : at[u] = "registering" /\ work[u] = k)'
    BY <1>0, <1>00 DEF PumpInv, KindInv, StartInv, Starting, Ended
  <2> QED BY <2>1, <2>2, <2>3, <2>4
<1>6. FreshInv'
  BY DEF TypeOK, FreshInv, KindInv, StartInv, PumpInv, Starting, Reap, Exited, Go
<1>7. KindInv'
  BY DEF TypeOK, KindInv, Up, StartInv, Starting, FreshInv, Reap, Exited, Go
<1>8. RunningIsAttended'
  BY DEF TypeOK, RunningIsAttended, LaneInv, Starting, Reap, Exited, Go
<1> QED BY <1>1, <1>2, <1>3, <1>4, <1>5, <1>6, <1>7, <1>8

(* The pump reports how it went. *)
LEMMA ReportKeeps ==
    ASSUME JobsInv, NEW j \in Job, Up, Report(j)
    PROVE  JobsInv'
<1> USE Threads DEF JobsInv, jobVars, runnerVars, engineVars
<1>0. /\ at[Pump(j)] = "reporting" /\ at'[Pump(j)] \in {"scheduling", "over"} /\ Up'
      /\ \A u \in Thread : u # Pump(j) => at'[u] = at[u]
      /\ \A k \in Job : k # j => state'[k] = state[k] /\ disk'[k] = disk[k]
      /\ state[j] = "running" /\ state'[j] = verdict[j] /\ verdict[j] \in Ended
      /\ UNCHANGED <<proc, procs, cancelled, verdict, work, doomed>>
  BY DEF TypeOK, Report, OnExit, Save, Go, Up, PumpInv
<1>00. \A k \in Job : /\ at'[Canceller(k)] = at[Canceller(k)] /\ at'[Submitter(k)] = at[Submitter(k)]
                      /\ k # j => at'[Pump(k)] = at[Pump(k)]
  BY <1>0
<1>1. TypeOK'
  <2>1. (state \in [Job -> {"none"} \cup Active \cup Ended])'
    BY DEF TypeOK, Report, Go, OnExit, Save, Active, Ended
  <2>2. (created \in Seq(Job))'
    BY DEF TypeOK, Report, Go, OnExit, Save
  <2>3. (disk \in [Job -> {"none", "torn"} \cup Active \cup Ended])'
    BY DEF TypeOK, Report, Go, OnExit, Save, Active, Ended
  <2>4. (proc \in [Job -> {"none", "alive", "orphan", "ok", "bad"}] /\ procs \subseteq Job /\ cancelled \subseteq procs)'
    BY DEF TypeOK, Report, Go, OnExit, Save
  <2>5. (verdict \in [Job -> {"none"} \cup Ended])'
    BY DEF TypeOK, Report, Go, OnExit, Save, Active, Ended
  <2>6. (at \in [Thread -> {"idle", "inserting", "scheduling",
             "starting", "registering", "failing", "cancelling", "terminating", "pumping", "reporting", "over"}])'
    BY DEF TypeOK, Report, Go, OnExit, Save
  <2>7. (work \in [Thread -> Job \cup {NoJob}])'
    BY DEF TypeOK, Report, Go, OnExit, Save
  <2>8. (engine \in {"up", "stopping", "killing", "exited", "crashed", "broken"} /\ doomed \subseteq Job /\ lives \in 1..MaxLives)'
    BY DEF TypeOK, Report, Go, OnExit, Save
  <2> QED BY <2>1, <2>2, <2>3, <2>4, <2>5, <2>6, <2>7, <2>8 DEF TypeOK
<1>2. LaneInv'
  BY DEF TypeOK, LaneInv, Report, OnExit, Save, Go
<1>3. DiskInv'
  BY DEF TypeOK, DiskInv, Up, Report, OnExit, Save, Go
<1>4. StartInv'
  <2>1. \A u \in Thread : ~Starting(u)
    BY <1>0 DEF StartInv, LaneInv
  <2> QED BY <1>0, <2>1 DEF StartInv, Starting
<1>5. PumpInv'
  BY DEF TypeOK, PumpInv, StartInv, Starting, FreshInv, Report, OnExit, Save, Go
<1>6. FreshInv'
  <2> SUFFICES ASSUME NEW k \in Job
              PROVE  /\ (at[Submitter(k)] \in {"idle", "inserting"} => state[k] = "none" /\ disk[k] = "none")'
                     /\ (at[Submitter(k)] \in {"idle", "inserting"} \/ state[k] = "queued" => at[Pump(k)] = "idle" /\ proc[k] = "none")'
    BY DEF FreshInv
  <2>1. (at[Submitter(k)] \in {"idle", "inserting"} => state[k] = "none" /\ disk[k] = "none")'
    BY <1>0, <1>00 DEF FreshInv, KindInv, StartInv, PumpInv, Starting
  <2>2. (at[Submitter(k)] \in {"idle", "inserting"} \/ state[k] = "queued" => at[Pump(k)] = "idle" /\ proc[k] = "none")'
    BY <1>0, <1>00 DEF FreshInv, KindInv, StartInv, PumpInv, Starting, Ended
  <2> QED BY <2>1, <2>2
<1>7. KindInv'
  BY DEF TypeOK, KindInv, Up, StartInv, Starting, FreshInv, Report, OnExit, Save, Go
<1>8. RunningIsAttended'
  <2> SUFFICES ASSUME NEW k \in Job, state'[k] = "running"
               PROVE  FALSE
    BY DEF RunningIsAttended
  <2>1. k # j
    BY <1>0 DEF Ended
  <2> QED BY <1>0, <2>1 DEF LaneInv
<1> QED BY <1>1, <1>2, <1>3, <1>4, <1>5, <1>6, <1>7, <1>8

(* A queued job is cancelled at once. *)
LEMMA CancelKeeps ==
    ASSUME JobsInv, NEW j \in Job, Cancel(j)
    PROVE  JobsInv'
<1> USE Threads DEF JobsInv, jobVars, runnerVars, engineVars
<1>0. /\ at[Canceller(j)] = "idle" /\ at'[Canceller(j)] \in {"idle", "cancelling"} /\ Up /\ Up'
      /\ \A u \in Thread : u # Canceller(j) => at'[u] = at[u]
      /\ \A k \in Job : k # j => state'[k] = state[k] /\ disk'[k] = disk[k]
      /\ \/ state'[j] = state[j] /\ disk'[j] = disk[j]
         \/ state[j] = "queued" /\ state'[j] = "cancelled"
      /\ state[j] \in {"queued", "running"}
      /\ UNCHANGED <<proc, procs, cancelled, verdict, work, doomed>>
  <2>1. at[Canceller(j)] = "idle" /\ engine = "up" /\ UNCHANGED <<proc, procs, cancelled, verdict, work, engine, doomed>>
    BY DEF Cancel
  <2>2. CASE state[j] = "queued"
    BY <2>1, <2>2 DEF TypeOK, Cancel, Save, Up
  <2>3. CASE state[j] = "running"
    <3>1. Go(Canceller(j), "cancelling") /\ UNCHANGED <<state, disk>>
      BY <2>3 DEF Cancel
    <3> QED BY <2>1, <2>3, <3>1 DEF TypeOK, Go, Up
  <2> QED BY <2>2, <2>3 DEF Cancel
<1>00. \A k \in Job : /\ at'[Pump(k)] = at[Pump(k)] /\ at'[Submitter(k)] = at[Submitter(k)]
                      /\ k # j => at'[Canceller(k)] = at[Canceller(k)]
  BY <1>0
<1>1. TypeOK'
  <2>1. (state \in [Job -> {"none"} \cup Active \cup Ended])'
    BY DEF TypeOK, Cancel, Go, Save, Active, Ended
  <2>2. (created \in Seq(Job))'
    BY DEF TypeOK, Cancel, Go, Save
  <2>3. (disk \in [Job -> {"none", "torn"} \cup Active \cup Ended])'
    BY DEF TypeOK, Cancel, Go, Save, Active, Ended
  <2>4. (proc \in [Job -> {"none", "alive", "orphan", "ok", "bad"}] /\ procs \subseteq Job /\ cancelled \subseteq procs)'
    BY DEF TypeOK, Cancel, Go, Save
  <2>5. (verdict \in [Job -> {"none"} \cup Ended])'
    BY DEF TypeOK, Cancel, Go, Save, Active, Ended
  <2>6. (at \in [Thread -> {"idle", "inserting", "scheduling",
             "starting", "registering", "failing", "cancelling", "terminating", "pumping", "reporting", "over"}])'
    BY DEF TypeOK, Cancel, Go, Save
  <2>7. (work \in [Thread -> Job \cup {NoJob}])'
    BY DEF TypeOK, Cancel, Go, Save
  <2>8. (engine \in {"up", "stopping", "killing", "exited", "crashed", "broken"} /\ doomed \subseteq Job /\ lives \in 1..MaxLives)'
    BY DEF TypeOK, Cancel, Go, Save
  <2> QED BY <2>1, <2>2, <2>3, <2>4, <2>5, <2>6, <2>7, <2>8 DEF TypeOK
<1>2. LaneInv'
  BY DEF TypeOK, LaneInv, Cancel, Save, Go
<1>3. DiskInv'
  BY DEF TypeOK, DiskInv, Up, Cancel, Save, Go
<1>4. StartInv'
  <2>1. \A u \in Thread : Starting(u)' => Starting(u) /\ work'[u] = work[u] /\ at'[u] = at[u]
    BY DEF TypeOK, Starting, Cancel, Go, Save
  <2>2. \A u, v \in Thread : Starting(u)' /\ Starting(v)' => u = v
    BY <2>1 DEF StartInv
  <2>3. ASSUME NEW u \in Thread, Starting(u)'
        PROVE  /\ (work[u] \in Job)'
               /\ (state[work[u]] = "running")'
               /\ (at[Pump(work[u])] = "idle")'
               /\ (at[u] = "registering" <=> proc[work[u]] # "none")'
    <3>1. /\ work[u] \in Job /\ state[work[u]] = "running" /\ at[Pump(work[u])] = "idle"
          /\ at[u] = "registering" <=> proc[work[u]] # "none"
          /\ work'[u] = work[u] /\ at'[u] = at[u]
      BY <2>1, <2>3 DEF StartInv
    <3>2. state'[work[u]] = "running"
      BY <1>0, <1>00, <3>1 DEF TypeOK, Cancel, Go, Save
    <3>3. at'[Pump(work[u])] = "idle"
      BY <1>0, <1>00, <3>1 DEF TypeOK, Cancel, Go, Save
    <3>4. proc[work[u]] = "none" <=> proc'[work[u]] = "none"
      BY <1>0, <1>00, <3>1 DEF TypeOK, Cancel, Go, Save
    <3> QED BY <3>1, <3>2, <3>3, <3>4
  <2> QED BY <2>2, <2>3 DEF StartInv
<1>5. PumpInv'
  BY DEF TypeOK, PumpInv, StartInv, Starting, FreshInv, Cancel, Save, Go
<1>6. FreshInv'
  <2> SUFFICES ASSUME NEW k \in Job
              PROVE  /\ (at[Submitter(k)] \in {"idle", "inserting"} => state[k] = "none" /\ disk[k] = "none")'
                     /\ (at[Submitter(k)] \in {"idle", "inserting"} \/ state[k] = "queued" => at[Pump(k)] = "idle" /\ proc[k] = "none")'
    BY DEF FreshInv
  <2>1. (at[Submitter(k)] \in {"idle", "inserting"} => state[k] = "none" /\ disk[k] = "none")'
    BY <1>0, <1>00 DEF FreshInv, KindInv, StartInv, PumpInv, Starting
  <2>2. (at[Submitter(k)] \in {"idle", "inserting"} \/ state[k] = "queued" => at[Pump(k)] = "idle" /\ proc[k] = "none")'
    BY <1>0, <1>00 DEF FreshInv, KindInv, StartInv, PumpInv, Starting
  <2> QED BY <2>1, <2>2
<1>7. KindInv'
  <2> SUFFICES ASSUME NEW k \in Job
              PROVE  /\ (at[Canceller(k)] \in {"idle", "cancelling", "terminating"})'
                     /\ (at[Pump(k)] \notin {"inserting", "cancelling", "terminating"})'
                     /\ (at[Submitter(k)] \notin {"pumping", "reporting", "cancelling", "terminating"})'
                     /\ (at[Canceller(k)] = "terminating" \/ k \in doomed \/ k \in procs => proc[k] # "none")'
                     /\ (~Up => at[Canceller(k)] = "idle" /\ doomed = {})'
    BY DEF KindInv
  <2>1. (at[Canceller(k)] \in {"idle", "cancelling", "terminating"})'
    BY <1>0, <1>00 DEF KindInv, Up, StartInv, PumpInv, Starting, FreshInv
  <2>2. (at[Pump(k)] \notin {"inserting", "cancelling", "terminating"})'
    BY <1>0, <1>00 DEF KindInv, Up, StartInv, PumpInv, Starting, FreshInv
  <2>3. (at[Submitter(k)] \notin {"pumping", "reporting", "cancelling", "terminating"})'
    BY <1>0, <1>00 DEF KindInv, Up, StartInv, PumpInv, Starting, FreshInv
  <2>4. (at[Canceller(k)] = "terminating" \/ k \in doomed \/ k \in procs => proc[k] # "none")'
    BY <1>0, <1>00 DEF KindInv, Up, StartInv, PumpInv, Starting, FreshInv
  <2>5. (~Up => at[Canceller(k)] = "idle" /\ doomed = {})'
    BY <1>0, <1>00 DEF KindInv, Up, StartInv, PumpInv, Starting, FreshInv
  <2> QED BY <2>1, <2>2, <2>3, <2>4, <2>5
<1>8. RunningIsAttended'
  BY DEF TypeOK, RunningIsAttended, LaneInv, Starting, Cancel, Save, Go
<1> QED BY <1>1, <1>2, <1>3, <1>4, <1>5, <1>6, <1>7, <1>8

(* A running one by its process. *)
LEMMA CancelChildKeeps ==
    ASSUME JobsInv, NEW j \in Job, Up, CancelChild(j)
    PROVE  JobsInv'
<1> USE Threads DEF JobsInv, jobVars, runnerVars, engineVars
<1>0. /\ at[Canceller(j)] = "cancelling" /\ at'[Canceller(j)] \in {"idle", "terminating"} /\ Up'
      /\ \A u \in Thread : u # Canceller(j) => at'[u] = at[u]
      /\ at'[Canceller(j)] = "terminating" => j \in procs
      /\ UNCHANGED <<state, disk, proc, procs, verdict, work, doomed>>
  BY DEF TypeOK, CancelChild, Go, Up
<1>00. \A k \in Job : /\ at'[Pump(k)] = at[Pump(k)] /\ at'[Submitter(k)] = at[Submitter(k)]
                      /\ k # j => at'[Canceller(k)] = at[Canceller(k)]
  BY <1>0
<1>1. TypeOK'
  BY DEF TypeOK, CancelChild, Go
<1>2. LaneInv'
  BY DEF TypeOK, LaneInv, CancelChild, Go
<1>3. DiskInv'
  BY DEF TypeOK, DiskInv, Up, CancelChild, Go
<1>4. StartInv'
  BY DEF TypeOK, StartInv, Starting, LaneInv, FreshInv, CancelChild, Go
<1>5. PumpInv'
  BY DEF TypeOK, PumpInv, StartInv, Starting, FreshInv, CancelChild, Go
<1>6. FreshInv'
  BY DEF TypeOK, FreshInv, KindInv, StartInv, PumpInv, Starting, CancelChild, Go
<1>7. KindInv'
  <2> SUFFICES ASSUME NEW k \in Job
              PROVE  /\ (at[Canceller(k)] \in {"idle", "cancelling", "terminating"})'
                     /\ (at[Pump(k)] \notin {"inserting", "cancelling", "terminating"})'
                     /\ (at[Submitter(k)] \notin {"pumping", "reporting", "cancelling", "terminating"})'
                     /\ (at[Canceller(k)] = "terminating" \/ k \in doomed \/ k \in procs => proc[k] # "none")'
                     /\ (~Up => at[Canceller(k)] = "idle" /\ doomed = {})'
    BY DEF KindInv
  <2>1. (at[Canceller(k)] \in {"idle", "cancelling", "terminating"})'
    BY <1>0, <1>00 DEF KindInv, Up, StartInv, PumpInv, Starting, FreshInv
  <2>2. (at[Pump(k)] \notin {"inserting", "cancelling", "terminating"})'
    BY <1>0, <1>00 DEF KindInv, Up, StartInv, PumpInv, Starting, FreshInv
  <2>3. (at[Submitter(k)] \notin {"pumping", "reporting", "cancelling", "terminating"})'
    BY <1>0, <1>00 DEF KindInv, Up, StartInv, PumpInv, Starting, FreshInv
  <2>4. (at[Canceller(k)] = "terminating" \/ k \in doomed \/ k \in procs => proc[k] # "none")'
    BY <1>0, <1>00 DEF KindInv, Up, StartInv, PumpInv, Starting, FreshInv
  <2>5. (~Up => at[Canceller(k)] = "idle" /\ doomed = {})'
    BY <1>0, <1>00 DEF KindInv, Up, StartInv, PumpInv, Starting, FreshInv
  <2> QED BY <2>1, <2>2, <2>3, <2>4, <2>5
<1>8. RunningIsAttended'
  BY DEF TypeOK, RunningIsAttended, LaneInv, Starting, CancelChild, Go
<1> QED BY <1>1, <1>2, <1>3, <1>4, <1>5, <1>6, <1>7, <1>8

LEMMA EndCancelKeeps ==
    ASSUME JobsInv, NEW j \in Job, Up, EndCancel(j)
    PROVE  JobsInv'
<1> USE Threads DEF JobsInv, jobVars, runnerVars, engineVars
<1>1. TypeOK'
  BY DEF TypeOK, EndCancel, Terminate, Exited, Go
<1>2. LaneInv'
  BY DEF TypeOK, LaneInv, EndCancel, Terminate, Exited, Go
<1>3. DiskInv'
  BY DEF TypeOK, DiskInv, Up, EndCancel, Terminate, Exited, Go
<1>4. StartInv'
  <2>1. \A u \in Thread : Starting(u)' => Starting(u) /\ work'[u] = work[u] /\ at'[u] = at[u]
    BY DEF TypeOK, Starting, EndCancel, Go, Terminate, Exited
  <2>2. \A u, v \in Thread : Starting(u)' /\ Starting(v)' => u = v
    BY <2>1 DEF StartInv
  <2>3. ASSUME NEW u \in Thread, Starting(u)'
        PROVE  /\ (work[u] \in Job)'
               /\ (state[work[u]] = "running")'
               /\ (at[Pump(work[u])] = "idle")'
               /\ (at[u] = "registering" <=> proc[work[u]] # "none")'
    <3>1. /\ work[u] \in Job /\ state[work[u]] = "running" /\ at[Pump(work[u])] = "idle"
          /\ at[u] = "registering" <=> proc[work[u]] # "none"
          /\ work'[u] = work[u] /\ at'[u] = at[u]
      BY <2>1, <2>3 DEF StartInv
    <3>2. state'[work[u]] = "running"
      BY <3>1 DEF TypeOK, EndCancel, Go, Terminate, Exited
    <3>3. at'[Pump(work[u])] = "idle"
      BY <3>1 DEF TypeOK, EndCancel, Go, Terminate, Exited
    <3>4. proc[work[u]] = "none" <=> proc'[work[u]] = "none"
      BY <3>1 DEF TypeOK, KindInv, EndCancel, Go, Terminate, Exited
    <3> QED BY <3>1, <3>2, <3>3, <3>4
  <2> QED BY <2>2, <2>3 DEF StartInv
<1>5. PumpInv'
  BY DEF TypeOK, PumpInv, StartInv, Starting, FreshInv, EndCancel, Terminate, Exited, Go
<1>6. FreshInv'
  BY DEF TypeOK, FreshInv, KindInv, StartInv, PumpInv, Starting, EndCancel, Terminate, Exited, Go
<1>7. KindInv'
  BY DEF TypeOK, KindInv, Up, StartInv, Starting, FreshInv, EndCancel, Terminate, Exited, Go
<1>8. RunningIsAttended'
  BY DEF TypeOK, RunningIsAttended, LaneInv, Starting, EndCancel, Terminate, Exited, Go
<1> QED BY <1>1, <1>2, <1>3, <1>4, <1>5, <1>6, <1>7, <1>8

LEMMA ChildEndsKeeps ==
    ASSUME JobsInv, NEW j \in Job, ChildEnds(j)
    PROVE  JobsInv'
<1> USE Threads DEF JobsInv, jobVars, runnerVars, engineVars
<1>1. TypeOK'
  BY DEF TypeOK, ChildEnds
<1>2. LaneInv'
  BY DEF TypeOK, LaneInv, ChildEnds
<1>3. DiskInv'
  BY DEF TypeOK, DiskInv, Up, ChildEnds
<1>4. StartInv'
  BY DEF TypeOK, StartInv, Starting, LaneInv, FreshInv, ChildEnds
<1>5. PumpInv'
  BY DEF TypeOK, PumpInv, StartInv, Starting, FreshInv, ChildEnds
<1>6. FreshInv'
  BY DEF TypeOK, FreshInv, KindInv, StartInv, PumpInv, Starting, ChildEnds
<1>7. KindInv'
  BY DEF TypeOK, KindInv, Up, StartInv, Starting, FreshInv, ChildEnds
<1>8. RunningIsAttended'
  BY DEF TypeOK, RunningIsAttended, LaneInv, Starting, ChildEnds
<1> QED BY <1>1, <1>2, <1>3, <1>4, <1>5, <1>6, <1>7, <1>8

LEMMA BeginShutdownKeeps ==
    ASSUME JobsInv, BeginShutdown
    PROVE  JobsInv'
<1> USE Threads DEF JobsInv, jobVars, runnerVars, engineVars
<1>1. TypeOK'
  BY DEF TypeOK, BeginShutdown
<1>2. LaneInv'
  BY DEF TypeOK, LaneInv, BeginShutdown
<1>3. DiskInv'
  BY DEF TypeOK, DiskInv, Up, BeginShutdown
<1>4. StartInv'
  BY DEF TypeOK, StartInv, Starting, LaneInv, FreshInv, BeginShutdown
<1>5. PumpInv'
  BY DEF TypeOK, PumpInv, StartInv, Starting, FreshInv, BeginShutdown
<1>6. FreshInv'
  BY DEF TypeOK, FreshInv, KindInv, StartInv, PumpInv, Starting, BeginShutdown
<1>7. KindInv'
  BY DEF TypeOK, KindInv, Up, StartInv, Starting, FreshInv, BeginShutdown
<1>8. RunningIsAttended'
  BY DEF TypeOK, RunningIsAttended, LaneInv, Starting, BeginShutdown
<1> QED BY <1>1, <1>2, <1>3, <1>4, <1>5, <1>6, <1>7, <1>8

LEMMA ShutdownKeeps ==
    ASSUME JobsInv, Shutdown
    PROVE  JobsInv'
<1> USE Threads DEF JobsInv, jobVars, runnerVars, engineVars
<1>1. TypeOK'
  BY DEF TypeOK, Shutdown
<1>2. LaneInv'
  BY DEF TypeOK, LaneInv, Shutdown
<1>3. DiskInv'
  BY DEF TypeOK, DiskInv, Up, Shutdown
<1>4. StartInv'
  BY DEF TypeOK, StartInv, Starting, LaneInv, FreshInv, Shutdown
<1>5. PumpInv'
  BY DEF TypeOK, PumpInv, StartInv, Starting, FreshInv, Shutdown
<1>6. FreshInv'
  BY DEF TypeOK, FreshInv, KindInv, StartInv, PumpInv, Starting, Shutdown
<1>7. KindInv'
  BY DEF TypeOK, KindInv, Up, StartInv, Starting, FreshInv, Shutdown
<1>8. RunningIsAttended'
  BY DEF TypeOK, RunningIsAttended, LaneInv, Starting, Shutdown
<1> QED BY <1>1, <1>2, <1>3, <1>4, <1>5, <1>6, <1>7, <1>8

LEMMA KillKeeps ==
    ASSUME JobsInv, NEW j \in Job, Kill(j)
    PROVE  JobsInv'
<1> USE Threads DEF JobsInv, jobVars, runnerVars, engineVars
<1>1. TypeOK'
  BY DEF TypeOK, Kill, Terminate, Exited
<1>2. LaneInv'
  BY DEF TypeOK, LaneInv, Kill, Terminate, Exited
<1>3. DiskInv'
  BY DEF TypeOK, DiskInv, Up, Kill, Terminate, Exited
<1>4. StartInv'
  <2>1. \A u \in Thread : Starting(u)' => Starting(u) /\ work'[u] = work[u] /\ at'[u] = at[u]
    BY DEF TypeOK, Starting, Kill, Terminate, Exited
  <2>2. \A u, v \in Thread : Starting(u)' /\ Starting(v)' => u = v
    BY <2>1 DEF StartInv
  <2>3. ASSUME NEW u \in Thread, Starting(u)'
        PROVE  /\ (work[u] \in Job)'
               /\ (state[work[u]] = "running")'
               /\ (at[Pump(work[u])] = "idle")'
               /\ (at[u] = "registering" <=> proc[work[u]] # "none")'
    <3>1. /\ work[u] \in Job /\ state[work[u]] = "running" /\ at[Pump(work[u])] = "idle"
          /\ at[u] = "registering" <=> proc[work[u]] # "none"
          /\ work'[u] = work[u] /\ at'[u] = at[u]
      BY <2>1, <2>3 DEF StartInv
    <3>2. state'[work[u]] = "running"
      BY <3>1 DEF TypeOK, Kill, Terminate, Exited
    <3>3. at'[Pump(work[u])] = "idle"
      BY <3>1 DEF TypeOK, Kill, Terminate, Exited
    <3>4. proc[work[u]] = "none" <=> proc'[work[u]] = "none"
      BY <3>1 DEF TypeOK, KindInv, Kill, Terminate, Exited
    <3> QED BY <3>1, <3>2, <3>3, <3>4
  <2> QED BY <2>2, <2>3 DEF StartInv
<1>5. PumpInv'
  BY DEF TypeOK, PumpInv, StartInv, Starting, FreshInv, Kill, Terminate, Exited
<1>6. FreshInv'
  BY DEF TypeOK, FreshInv, KindInv, StartInv, PumpInv, Starting, Kill, Terminate, Exited
<1>7. KindInv'
  BY DEF TypeOK, KindInv, Up, StartInv, Starting, FreshInv, Kill, Terminate, Exited
<1>8. RunningIsAttended'
  BY DEF TypeOK, RunningIsAttended, LaneInv, Starting, Kill, Terminate, Exited
<1> QED BY <1>1, <1>2, <1>3, <1>4, <1>5, <1>6, <1>7, <1>8

(* A new engine marks what was active. *)
LEMMA RestartKeeps ==
    ASSUME JobsInv, Restart
    PROVE  JobsInv'
<1> USE Threads DEF JobsInv, jobVars, runnerVars, engineVars
<1>0. /\ UNCHANGED <<at, proc, procs, cancelled, verdict, work, doomed>>
      /\ ~Up /\ \A u \in Thread : at[u] \in {"idle", "over"}
      /\ procs = {} /\ \A k \in Job : proc[k] # "alive"
  <2>1. ~Up /\ UNCHANGED <<created, proc, procs, cancelled, verdict, at, work, doomed>>
    BY DEF Restart, Up
  <2>2. (\A u \in Thread : at[u] \in {"idle", "over"}) /\ procs = {} /\ \A k \in Job : proc[k] # "alive"
    BY <2>1 DEF DiskInv
  <2> QED BY <2>1, <2>2
<1>00. \A k \in Job : /\ state'[k] \notin {"queued", "running"}
                      /\ disk[k] = "none" => disk'[k] = "none" /\ state'[k] = "none"
  BY <1>0 DEF TypeOK, Restart, Loaded, Active, Ended, DiskInv
<1>1. TypeOK'
  <2>1. (state \in [Job -> {"none"} \cup Active \cup Ended])'
    BY DEF TypeOK, Restart, Loaded, Active, Ended
  <2>2. (created \in Seq(Job))'
    BY DEF TypeOK, Restart, Loaded
  <2>3. (disk \in [Job -> {"none", "torn"} \cup Active \cup Ended])'
    BY DEF TypeOK, Restart, Loaded, Active, Ended
  <2>4. (proc \in [Job -> {"none", "alive", "orphan", "ok", "bad"}] /\ procs \subseteq Job /\ cancelled \subseteq procs)'
    BY DEF TypeOK, Restart, Loaded
  <2>5. (verdict \in [Job -> {"none"} \cup Ended])'
    BY DEF TypeOK, Restart, Loaded, Active, Ended
  <2>6. (at \in [Thread -> {"idle", "inserting", "scheduling",
             "starting", "registering", "failing", "cancelling", "terminating", "pumping", "reporting", "over"}])'
    BY DEF TypeOK, Restart, Loaded
  <2>7. (work \in [Thread -> Job \cup {NoJob}])'
    BY DEF TypeOK, Restart, Loaded
  <2>8. (engine \in {"up", "stopping", "killing", "exited", "crashed", "broken"} /\ doomed \subseteq Job /\ lives \in 1..MaxLives)'
    BY DEF TypeOK, Restart, Loaded
  <2> QED BY <2>1, <2>2, <2>3, <2>4, <2>5, <2>6, <2>7, <2>8 DEF TypeOK
<1>2. LaneInv'
  BY <1>00 DEF LaneInv
<1>3. DiskInv'
  BY DEF TypeOK, DiskInv, Up, Restart, Loaded
<1>4. StartInv'
  BY <1>0 DEF StartInv, Starting
<1>5. PumpInv'
  <2> SUFFICES ASSUME NEW k \in Job
              PROVE  /\ (at[Pump(k)] \in {"pumping", "reporting"} => state[k] = "running")'
                     /\ (at[Pump(k)] = "pumping" <=> k \in procs)'
                     /\ (at[Pump(k)] = "reporting" => verdict[k] \in Ended)'
                     /\ (proc[k] = "alive" => at[Pump(k)] = "pumping" \/ \E u \in Thread : at[u] = "registering" /\ work[u] = k)'
    BY DEF PumpInv
  <2>1. (at[Pump(k)] \in {"pumping", "reporting"} => state[k] = "running")'
    BY <1>0, <1>00 DEF PumpInv, KindInv, StartInv, Starting, Ended
  <2>2. (at[Pump(k)] = "pumping" <=> k \in procs)'
    BY <1>0, <1>00 DEF PumpInv, KindInv, StartInv, Starting, Ended
  <2>3. (at[Pump(k)] = "reporting" => verdict[k] \in Ended)'
    BY <1>0, <1>00 DEF PumpInv, KindInv, StartInv, Starting, Ended
  <2>4. (proc[k] = "alive" => at[Pump(k)] = "pumping" \/ \E u \in Thread : at[u] = "registering" /\ work[u] = k)'
    BY <1>0, <1>00 DEF PumpInv, KindInv, StartInv, Starting, Ended
  <2> QED BY <2>1, <2>2, <2>3, <2>4
<1>6. FreshInv'
  <2> SUFFICES ASSUME NEW k \in Job
              PROVE  /\ (at[Submitter(k)] \in {"idle", "inserting"} => state[k] = "none" /\ disk[k] = "none")'
                     /\ (at[Submitter(k)] \in {"idle", "inserting"} \/ state[k] = "queued" => at[Pump(k)] = "idle" /\ proc[k] = "none")'
    BY DEF FreshInv
  <2>1. (at[Submitter(k)] \in {"idle", "inserting"} => state[k] = "none" /\ disk[k] = "none")'
    BY <1>0, <1>00 DEF FreshInv, KindInv, StartInv, PumpInv, Starting
  <2>2. (at[Submitter(k)] \in {"idle", "inserting"} \/ state[k] = "queued" => at[Pump(k)] = "idle" /\ proc[k] = "none")'
    BY <1>0, <1>00 DEF FreshInv, KindInv, StartInv, PumpInv, Starting
  <2> QED BY <2>1, <2>2
<1>7. KindInv'
  BY DEF TypeOK, KindInv, Up, StartInv, Starting, FreshInv, Restart, Loaded
<1>8. RunningIsAttended'
  BY <1>00 DEF RunningIsAttended
<1> QED BY <1>1, <1>2, <1>3, <1>4, <1>5, <1>6, <1>7, <1>8

(* The engine's end: what was in memory is gone. *)
LEMMA VanishKeeps ==
    ASSUME JobsInv, Up, ~Up', Vanish, engine' \in {"exited", "crashed"}
    PROVE  JobsInv'
<1> USE Threads DEF JobsInv
<1>1. /\ \A k \in Job : state'[k] = "none" /\ proc'[k] # "alive" /\ (proc'[k] = "none" <=> proc[k] = "none")
      /\ procs' = {} /\ cancelled' = {} /\ doomed' = {} /\ verdict' = verdict
      /\ \A u \in Thread : at'[u] \in {"idle", "over"} /\ (at'[u] = "idle" <=> at[u] = "idle" \/ u[1] = "cancel")
  BY DEF TypeOK, Vanish
<1>2. \A k \in Job : /\ at'[Submitter(k)] = "idle" <=> at[Submitter(k)] = "idle"
                     /\ at'[Pump(k)] = "idle" <=> at[Pump(k)] = "idle"
                     /\ at'[Canceller(k)] = "idle"
  BY <1>1, Kinds
<1>3. TypeOK'
  <2>1. (state \in [Job -> {"none"} \cup Active \cup Ended])'
    BY DEF TypeOK, Vanish
  <2>2. (disk \in [Job -> {"none", "torn"} \cup Active \cup Ended])'
    BY DEF TypeOK, Vanish
  <2>3. (proc \in [Job -> {"none", "alive", "orphan", "ok", "bad"}])'
    BY DEF TypeOK, Vanish
  <2>4. (at \in [Thread -> {"idle", "over"}])'
    BY DEF TypeOK, Vanish
  <2>5. (work \in [Thread -> Job \cup {NoJob}])'
    BY DEF TypeOK, Vanish
  <2>6. (created \in Seq(Job) /\ lives \in 1..MaxLives /\ verdict \in [Job -> {"none"} \cup Ended])'
    BY DEF TypeOK, Vanish
  <2>7. (at \in [Thread -> {"idle", "inserting", "scheduling", "starting", "registering", "failing",
             "cancelling", "terminating", "pumping", "reporting", "over"}])'
    BY <2>4
  <2> QED BY <1>1, <2>1, <2>2, <2>3, <2>5, <2>6, <2>7 DEF TypeOK
<1>4. LaneInv' /\ RunningIsAttended'
  BY <1>1 DEF LaneInv, RunningIsAttended
<1>5. DiskInv'
  BY <1>1 DEF DiskInv
<1>6. StartInv'
  BY <1>1 DEF StartInv, Starting
<1>7. PumpInv'
  BY <1>1 DEF PumpInv
<1>8. FreshInv'
  <2> SUFFICES ASSUME NEW k \in Job, at'[Submitter(k)] = "idle"
               PROVE  disk'[k] = "none" /\ at'[Pump(k)] = "idle" /\ proc'[k] = "none"
    BY <1>1 DEF FreshInv
  <2>1. /\ at[Submitter(k)] = "idle" /\ state[k] = "none" /\ disk[k] = "none"
        /\ at[Pump(k)] = "idle" /\ proc[k] = "none"
    BY <1>2 DEF FreshInv
  <2>2. ~BeingSaved(k)
    BY <2>1 DEF BeingSaved, StartInv, Starting
  <2> QED BY <1>1, <1>2, <2>1, <2>2 DEF Vanish, TypeOK
<1>9. KindInv'
  BY <1>1, <1>2 DEF KindInv
<1> QED BY <1>3, <1>4, <1>5, <1>6, <1>7, <1>8, <1>9

(* Nothing is wrong at the start. *)
LEMMA InitHolds == Init => JobsInv
<1> SUFFICES ASSUME Init PROVE JobsInv
  OBVIOUS
<1> USE Threads
<1>1. TypeOK
  BY DEF Init, TypeOK, Thread
<1>2. LaneInv /\ RunningIsAttended /\ StartInv /\ PumpInv
  BY DEF Init, LaneInv, RunningIsAttended, StartInv, Starting, PumpInv
<1>3. DiskInv /\ FreshInv /\ KindInv
  BY DEF Init, Up, DiskInv, FreshInv, KindInv
<1> QED BY <1>1, <1>2, <1>3 DEF JobsInv

LEMMA StepKeeps == JobsInv /\ [Next]_vars => JobsInv'
<1> SUFFICES ASSUME JobsInv, [Next]_vars PROVE JobsInv'
  OBVIOUS
<1>1. CASE UNCHANGED vars
  BY <1>1 DEF vars, JobsInv, TypeOK, LaneInv, DiskInv, StartInv, PumpInv, FreshInv, KindInv,
              RunningIsAttended, Starting, Up
<1>2. ASSUME NEW t \in Thread, ThreadStep(t) PROVE JobsInv'
  BY <1>2, ScheduleKeeps, StartChildKeeps, RegisterKeeps, FailStartKeeps DEF ThreadStep
<1>3. ASSUME NEW j \in Job, JobStep(j) PROVE JobsInv'
  BY <1>3, InsertKeeps, ReapKeeps, ReportKeeps, CancelChildKeeps, EndCancelKeeps DEF JobStep
<1>4. CASE EngineStep
  <2>1. CASE Shutdown
    BY <2>1, ShutdownKeeps
  <2>2. CASE Exit
    BY <2>2, VanishKeeps DEF Exit, Up
  <2>3. ASSUME NEW j \in Job, Kill(j) PROVE JobsInv'
    BY <2>3, KillKeeps
  <2> QED BY <1>4, <2>1, <2>2, <2>3 DEF EngineStep
<1>5. CASE Environment
  <2>1. ASSUME NEW j \in Job, Create(j) \/ Cancel(j) \/ ChildEnds(j) PROVE JobsInv'
    BY <2>1, CreateKeeps, CancelKeeps, ChildEndsKeeps
  <2>2. CASE Crash
    BY <2>2, VanishKeeps DEF Crash, Up
  <2> QED BY <1>5, <2>1, <2>2, BeginShutdownKeeps, RestartKeeps DEF Environment
<1> QED BY <1>1, <1>2, <1>3, <1>4, <1>5 DEF Next

(* The inductive invariant holds in every state the engine can reach. *)
THEOREM JobsInvariance == Spec => []JobsInv
BY InitHolds, StepKeeps, PTL DEF Spec

(* Every variable keeps its type: a mark of cancellation is never left     *)
(* without a process, and no job has more than the states of jobs.py.      *)
THEOREM JobsTypes == Spec => []TypeOK
<1>1. JobsInv => TypeOK
  BY DEF JobsInv
<1> QED BY <1>1, JobsInvariance, PTL

(* A training process that the engine keeps belongs to the running job: no *)
(* two train at once, and a job that ended (jobs.py:315-328) trains no     *)
(* more.                                                                   *)
THEOREM OneTrains == Spec => []ChildIsRunning
<1>1. JobsInv => ChildIsRunning
  BY Threads DEF JobsInv, ChildIsRunning, PumpInv, StartInv, Starting
<1> QED BY <1>1, JobsInvariance, PTL

(* A running job always has a thread that will report its end, so that the *)
(* lane is never taken for good (jobs.py:129).                             *)
THEOREM RunningHasAThread == Spec => []RunningIsAttended
<1>1. JobsInv => RunningIsAttended
  BY DEF JobsInv
<1> QED BY <1>1, JobsInvariance, PTL

-----------------------------------------------------------------------------
(* The ledger's promise *)

(* What an engine shows is what it has in memory. *)
LEMMA ShownState ==
    ASSUME Up, Up', NEW A, state' = A
    PROVE  Shown = state /\ Shown' = A
BY DEF Shown

(* Between two engines the ledger shows what the next one will make of the *)
(* disk.                                                                   *)
LEMMA ShownDisk ==
    ASSUME JobsInv, ~Up
    PROVE  /\ Shown \in [Job -> {"none"} \cup Ended]
           /\ \A j \in Job : Shown[j] = IF disk[j] = "torn" THEN "failed" ELSE Loaded(disk[j])
BY DEF Shown, JobsInv, TypeOK, Loaded, Active, Ended

LEMMA InsertSubmits ==
    ASSUME JobsInv, NEW j \in Job, Up, Insert(j)
    PROVE  Ledger!Submit(j)
<1>1. Up' /\ state' = [state EXCEPT ![j] = "queued"] /\ state[j] = "none"
  BY DEF JobsInv, Insert, Save, engineVars, Up, FreshInv
<1> QED BY <1>1, ShownState DEF Ledger!Submit

LEMMA ScheduleStarts ==
    ASSUME JobsInv, NEW t \in Thread, Up, Schedule(t)
    PROVE  (\E j \in Job : Ledger!Start(j)) \/ Shown' = Shown
<1>1. Up'
  BY DEF Schedule, engineVars, Up
<1>2. ASSUME ~LaneTaken, NEW j \in Queued, Save(j, "running") PROVE Ledger!Start(j)
  <2>1. state' = [state EXCEPT ![j] = "running"] /\ state[j] = "queued"
    BY <1>2 DEF Save, Queued
  <2>2. \A k \in Job : state[k] # "running"
    BY <1>2 DEF LaneTaken
  <2> QED BY <1>1, <2>1, <2>2, ShownState DEF Ledger!Start
<1>3. CASE UNCHANGED jobVars
  BY <1>1, <1>3, ShownState DEF jobVars
<1> QED BY <1>2, <1>3 DEF Schedule, Queued

LEMMA ExitEnds ==
    ASSUME NEW t, NEW j \in Job, NEW outcome \in Ended, Up, Up', OnExit(t, j, outcome)
    PROVE  Ledger!End(j) \/ Shown' = Shown
<1>1. CASE state[j] = "running" /\ Save(j, outcome)
  <2>1. state' = [state EXCEPT ![j] = outcome]
    BY <1>1 DEF Save
  <2> QED BY <1>1, <2>1, ShownState DEF Ledger!End, Ledger!Ended, Ended
<1>2. CASE UNCHANGED jobVars
  BY <1>2, ShownState DEF jobVars
<1> QED BY <1>1, <1>2 DEF OnExit

LEMMA CancelCancels ==
    ASSUME JobsInv, NEW j \in Job, Cancel(j)
    PROVE  Ledger!Cancel(j) \/ Shown' = Shown
<1>1. Up /\ Up'
  BY DEF Cancel, engineVars, Up
<1>2. CASE state[j] = "queued" /\ Save(j, "cancelled")
  <2>1. state' = [state EXCEPT ![j] = "cancelled"]
    BY <1>2 DEF Save
  <2> QED BY <1>1, <1>2, <2>1, ShownState DEF Ledger!Cancel
<1>3. CASE UNCHANGED jobVars
  BY <1>1, <1>3, ShownState DEF jobVars
<1> QED BY <1>2, <1>3 DEF Cancel

(* The end of the engine fails what was active. *)
LEMMA VanishInterrupts ==
    ASSUME JobsInv, JobsInv', Up, ~Up', Vanish
    PROVE  Ledger!Interrupt
<1>1. Shown = state /\ disk = state
  BY DEF Shown, JobsInv, DiskInv
<1>2. /\ Shown' \in [Job -> {"none"} \cup Ended]
      /\ \A j \in Job : Shown'[j] = IF disk'[j] = "torn" THEN "failed" ELSE Loaded(disk'[j])
  BY ShownDisk DEF Shown, JobsInv, TypeOK, Loaded, Active, Ended
<1>3. \A j \in Job : disk'[j] = state[j] \/ (disk'[j] = "torn" /\ BeingSaved(j))
  <2>1. CASE UNCHANGED disk
    BY <1>1, <2>1
  <2>2. ASSUME NEW k \in Job, BeingSaved(k), disk' = [disk EXCEPT ![k] = "torn"]
        PROVE  \A j \in Job : disk'[j] = state[j] \/ (disk'[j] = "torn" /\ BeingSaved(j))
    BY <1>1, <2>2 DEF JobsInv, TypeOK
  <2> QED BY <2>1, <2>2 DEF Vanish
<1>4. \A j \in Job : BeingSaved(j) => state[j] \notin Ended
  BY DEF JobsInv, BeingSaved, FreshInv, PumpInv, StartInv, Starting, Ended
<1>5. \A j \in Job : state[j] \in {"none"} \cup Active \cup Ended
  BY DEF JobsInv, TypeOK
<1>6. \A j \in Job : Shown'[j] \in {Loaded(state[j]), "failed"} /\ (state[j] \in Ended => Shown'[j] = state[j])
  BY <1>2, <1>3, <1>4 DEF Loaded, Active, Ended
<1> QED BY <1>1, <1>2, <1>5, <1>6
        DEF Ledger!Interrupt, Ledger!Ended, Ledger!Active, Loaded, Active, Ended

(* A new engine shows what there was to load. *)
LEMMA RestartShowsTheSame ==
    ASSUME JobsInv, JobsInv', Restart
    PROVE  Shown' = Shown
<1>1. ~Up /\ disk \in [Job -> {"none", "torn"} \cup Active \cup Ended]
  BY DEF Restart, Up, JobsInv, TypeOK
<1>2. CASE Up'
  <2>1. (\A j \in Job : disk[j] # "torn") /\ state' = [j \in Job |-> Loaded(disk[j])]
    BY <1>2 DEF Restart, Up
  <2> QED BY <1>1, <1>2, <2>1 DEF Shown
<1>3. CASE ~Up'
  <2>1. PICK read \in SUBSET {j \in Job : disk[j] # "torn"} :
            disk' = [j \in Job |-> IF j \in read THEN Loaded(disk[j]) ELSE disk[j]]
    BY <1>3 DEF Restart, Up
  <2>2. \A j \in Job : Loaded(Loaded(disk[j])) = Loaded(disk[j])
    BY DEF Loaded, Active
  <2>3. \A j \in Job : disk[j] # "torn" => Loaded(disk[j]) # "torn"
    BY DEF Loaded
  <2>4. \A j \in Job : /\ disk'[j] = "torn" <=> disk[j] = "torn"
                       /\ disk[j] # "torn" => Loaded(disk'[j]) = Loaded(disk[j])
    BY <2>1, <2>2, <2>3
  <2>5. Shown = [j \in Job |-> IF disk[j] = "torn" THEN "failed" ELSE Loaded(disk[j])]
    BY <1>1 DEF Shown
  <2>6. Shown' = [j \in Job |-> IF disk'[j] = "torn" THEN "failed" ELSE Loaded(disk'[j])]
    BY <1>3 DEF Shown
  <2> QED BY <2>4, <2>5, <2>6
<1> QED BY <1>2, <1>3

(* Every step keeps the promise: it is a step of the ledger, or shows none. *)
LEMMA StepIsAllowed ==
    ASSUME JobsInv, JobsInv', [Next]_vars
    PROVE  Ledger!Next \/ Shown' = Shown
<1>1. CASE UNCHANGED vars
  BY <1>1 DEF vars, Shown, Up
<1>2. ASSUME Up, Up', UNCHANGED state PROVE Shown' = Shown
  BY <1>2 DEF Shown
<1>3. ASSUME NEW t \in Thread, ThreadStep(t) PROVE Ledger!Next \/ Shown' = Shown
  <2>1. CASE Up /\ Schedule(t)
    BY <2>1, ScheduleStarts DEF Ledger!Next
  <2>2. CASE Up /\ (StartChild(t) \/ Register(t))
    BY <1>2, <2>2 DEF StartChild, Register, jobVars, engineVars, Up
  <2>3. CASE Up /\ FailStart(t)
    <3>1. work[t] \in Job /\ Up' /\ OnExit(t, work[t], "failed")
      BY <2>3 DEF FailStart, JobsInv, StartInv, Starting, engineVars, Up
    <3> QED BY <2>3, <3>1, ExitEnds DEF Ledger!Next, Ended
  <2> QED BY <1>3, <2>1, <2>2, <2>3 DEF ThreadStep
<1>4. ASSUME NEW j \in Job, JobStep(j) PROVE Ledger!Next \/ Shown' = Shown
  <2>1. CASE Up /\ Insert(j)
    BY <2>1, InsertSubmits DEF Ledger!Next
  <2>2. CASE Up /\ Report(j)
    <3>1. Up' /\ OnExit(Pump(j), j, verdict[j]) /\ verdict[j] \in Ended
      BY <2>2 DEF Report, JobsInv, PumpInv, engineVars, Up
    <3> QED BY <2>2, <3>1, ExitEnds DEF Ledger!Next
  <2>3. CASE Up /\ (Reap(j) \/ CancelChild(j) \/ EndCancel(j))
    BY <1>2, <2>3 DEF Reap, CancelChild, EndCancel, jobVars, engineVars, Up
  <2> QED BY <1>4, <2>1, <2>2, <2>3 DEF JobStep
<1>5. CASE EngineStep
  <2>1. CASE Exit
    BY <2>1, VanishInterrupts DEF Exit, Up, Ledger!Next
  <2>2. CASE Shutdown \/ \E j \in Job : Kill(j)
    BY <1>2, <2>2 DEF Shutdown, Kill, jobVars, Up
  <2> QED BY <1>5, <2>1, <2>2 DEF EngineStep
<1>6. CASE Environment
  <2>1. CASE Crash
    BY <2>1, VanishInterrupts DEF Crash, Up, Ledger!Next
  <2>2. CASE Restart
    BY <2>2, RestartShowsTheSame
  <2>3. ASSUME NEW j \in Job, Cancel(j) PROVE Ledger!Next \/ Shown' = Shown
    BY <2>3, CancelCancels DEF Ledger!Next
  <2>4. CASE BeginShutdown \/ \E j \in Job : Create(j)
    BY <1>2, <2>4 DEF BeginShutdown, Create, jobVars, engineVars, Up
  <2>5. ASSUME NEW j \in Job, ChildEnds(j) PROVE Shown' = Shown
    BY <2>5 DEF ChildEnds, jobVars, engineVars, Shown, Up
  <2> QED BY <1>6, <2>1, <2>2, <2>3, <2>4, <2>5 DEF Environment
<1> QED BY <1>1, <1>3, <1>4, <1>5, <1>6 DEF Next

(* The manager implements its ledger: whatever the threads, the engine and *)
(* the disk do, a job runs alone, ends once, and an end that was shown is  *)
(* shown again by every later engine.                                      *)
THEOREM ManagerKeepsTheLedger == Spec => LedgerRefinement
<1>1. Init => Ledger!Init
  BY DEF Init, Ledger!Init, Shown, Up
<1>2. JobsInv /\ JobsInv' /\ [Next]_vars => [Ledger!Next]_Shown
  BY StepIsAllowed
<1> QED BY <1>1, <1>2, JobsInvariance, PTL DEF Spec, LedgerRefinement, Ledger!Spec

-----------------------------------------------------------------------------
(* What the ledger promises, its manager keeps: it follows of the ledger   *)
(* alone.                                                                  *)
LedgerInv == Shown \in [Job -> {"none"} \cup Ledger!Active \cup Ledger!Ended] /\ Ledger!OneRuns

LEMMA LedgerStep ==
    ASSUME LedgerInv, Ledger!Next
    PROVE  /\ LedgerInv'
           /\ \A j \in Job : Shown[j] \in Ledger!Ended => Shown'[j] = Shown[j]
<1> USE DEF Ledger!Active, Ledger!Ended
<1>1. Shown \in [Job -> {"none", "queued", "running", "done", "failed", "cancelled"}] /\ Ledger!OneRuns
  BY DEF LedgerInv
<1> HIDE DEF LedgerInv
<1> DEFINE shown == Shown
           then == Shown'
<1> DEFINE Goal ==
      /\ then \in [Job -> {"none", "queued", "running", "done", "failed", "cancelled"}]
      /\ \A j, k \in Job : then[j] = "running" /\ then[k] = "running" => j = k
      /\ \A j \in Job : shown[j] \in {"done", "failed", "cancelled"} => then[j] = shown[j]
<1>2. Goal
  <2>1. CASE Ledger!Interrupt
    BY <1>1, <2>1 DEF Ledger!Interrupt, Ledger!OneRuns
  <2>2. ASSUME NEW j \in Job, NEW s \in {"queued", "done", "failed", "cancelled"},
               then = [shown EXCEPT ![j] = s], shown[j] \in {"none", "queued", "running"}
        PROVE  Goal
    <3> HIDE DEF shown, then
    <3>1. shown \in [Job -> {"none", "queued", "running", "done", "failed", "cancelled"}]
          /\ \A i, k \in Job : shown[i] = "running" /\ shown[k] = "running" => i = k
      BY <1>1 DEF Ledger!OneRuns, shown
    <3>2. then[j] = s /\ \A k \in Job \ {j} : then[k] = shown[k]
      BY <2>2, <3>1
    <3>3. then \in [Job -> {"none", "queued", "running", "done", "failed", "cancelled"}]
      BY <2>2, <3>1
    <3> QED BY <2>2, <3>1, <3>2, <3>3
  <2>3. ASSUME NEW j \in Job, Ledger!Start(j) PROVE Goal
    BY <1>1, <2>3 DEF Ledger!Start, Ledger!OneRuns
  <2>4. ASSUME NEW j \in Job, Ledger!Submit(j) \/ Ledger!Cancel(j) \/ Ledger!End(j) PROVE Goal
    BY <2>2, <2>4 DEF Ledger!Submit, Ledger!Cancel, Ledger!End
  <2> QED BY <2>1, <2>3, <2>4 DEF Ledger!Next
<1>3. LedgerInv'
  BY <1>2 DEF LedgerInv, Ledger!OneRuns
<1> QED BY <1>2, <1>3

(* Whatever crashes and restarts, one job is shown to train at a time, and *)
(* a job that was shown to have ended is never shown otherwise             *)
(* (jobs.py:262-278, 315-319).                                             *)
THEOREM ShownEndsAreForGood == Spec => []Ledger!OneRuns /\ Ledger!EndIsForGood
<1>1. Ledger!Init => LedgerInv
  BY DEF Ledger!Init, LedgerInv, Ledger!OneRuns
<1>2. LedgerInv /\ [Ledger!Next]_Shown => LedgerInv'
  <2>1. LedgerInv /\ Shown' = Shown => LedgerInv'
    BY DEF LedgerInv, Ledger!OneRuns
  <2> QED BY <2>1, LedgerStep
<1>3. LedgerInv /\ [Ledger!Next]_Shown =>
        [\A j \in Job : Shown[j] \in Ledger!Ended => Shown'[j] = Shown[j]]_Shown
  BY LedgerStep
<1>4. LedgerInv => Ledger!OneRuns
  BY DEF LedgerInv
<1> QED BY <1>1, <1>2, <1>3, <1>4, ManagerKeepsTheLedger, PTL
        DEF LedgerRefinement, Ledger!Spec, Ledger!EndIsForGood
=============================================================================
