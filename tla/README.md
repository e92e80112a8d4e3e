# Verification of the NexArm engine

This directory holds a TLA+ model of the engine in this repository
(`packages/nexarm_service`): a local server that drives a robot arm for a desktop
application, records datasets with it, trains policies and runs them, and of the two
parts of the robot package (`packages/lerobot_robot_nexarm`) it rests on: the merge
of collection sessions and the serial line. TLC checks the model on small instances;
TLAPS proves the central safety results for every number of sessions, threads,
operators, jobs, processes and names.

File names without a directory are in
`src/packages/nexarm_service/src/nexarm_service/`; `collection_merge.py` and
`motors/nexarm.py` are in `src/packages/lerobot_robot_nexarm/src/lerobot_robot_nexarm/`.

## 1. Inventory

| Component | State | Operations | Interacts with | What is hard |
| --- | --- | --- | --- | --- |
| Session manager (`session.py`, `routes/sessions.py`) | `_live` (one slot), `info.state`, `start_lock`, `last_heartbeat` | `start`, `heartbeat`, `stop`, `stop_current`, `tick`, `control` | calls the worker outside its lock; publishes events | request threads, watchdog and shutdown interleave; two locks; decisions taken on a stale look |
| Arm worker (`arm_worker.py`, `teleop.py`, `replay.py`, drivers) | `_stop`, `_thread`, `_guard`, `error`; the port and the torque of the arm | `start`, control loop, `stop` | called by the manager; serial port, cameras | every call can fail half way; the loop may outlive the join |
| Watchdog and shutdown (`app.py`) | the watchdog thread, the lifespan | tick every 2 s; join, `stop_current`, `jobs.shutdown` | the manager, the jobs | a join that times out |
| Remote hosting (`remote_teleop.py`, `routes/remote.py`) | `_operator`, `_target`, `_last_frame`, `_echo_seq`, `_phase`, `_commanded` | attach, action, detach, park/block/allow, the loop | WebSocket handlers on the event loop, the control thread | frames of a previous operator, silence racing frames, reconnects |
| Jobs (`jobs.py`, `local_runner.py`) | `_jobs`, `job.json` on disk, `_procs` | submit, cancel, schedule, line/metric/exit callbacks, load | child processes, pump threads | cancel racing start, crash between writes, shutdown |
| Remote training (`remote.py`, `servers.py`) | drive threads, server cache | sync, follow, cancel, fetch | a GPU server over HTTP | lost connections, cancel of a job that goes on remotely |
| Rollout and coaching (`rollout.py`, `coaching.py`) | strategy phase, pending controls | takeover, resume, drop, reset | LeRobot's rollout strategies | controls refused half way |
| Recording (`record.py`) | episode flags, dataset | episodes, rerecord, pause, finish | the dataset store | controls racing the end of an episode |
| Datasets (`dataset_store.py`, `dataset_ops.py`, `operations.py`, `archive.py`, `routes/datasets.py`) | directories, import markers | upload, swap, edit, delete | sessions and jobs that use a dataset | check-then-act across an `await` |
| Collection merge (`collection_merge.py`) | the root dataset, `.previous`, `.merge.lock`, a ledger in the root | merge a session, the check before a recording | recordings, the Hub | processes killed between two renames, retries |
| Event hub (`events.py`) | one bounded queue per subscriber | publish, subscribe | every thread to the event loop | the oldest event is dropped |
| Motion safety (`safety.py`) | none | `capture_rest`, `ramp_to`, `clamp_action` | position reads and writes | corrupt and lost reads |
| Motor bus (`motors/nexarm.py`) | receive buffer | write, read | serial line | stale replies, resynchronisation |
| Models, auth, profiles, calibration, hardware discovery | files | lookups | - | little |
| Simulations, policies, tools, firmware, desktop documentation | - | - | - | outside the service |

What makes each of them correct:

* Sessions: one session has the arm; start and stop of one worker never overlap;
  torque is cut at rest, after the loop; nobody leaves the arm energised and
  unaccounted for; a silent client, a dead loop and a stop request all end with
  the arm released.
* Hosting: the arm moves only on frames of connections that were let in, makes at most
  one step on what an operator sent before it was dismissed, is never faster than the
  cap, and goes home when nobody is attached.
* Jobs: one local job at a time; an ended job stays ended; a cancelled job's child
  does not go on; a restart knows what was running.
* Remote training: a job that is done or cancelled here is so there; the lane comes free.
* Coaching, recording: a refused control changes nothing; no episode is saved
  that was dropped.
* Datasets: an upload never replaces what was recorded here or what is in use.
* Event hub: a subscriber sees a suffix of the events, in order.
* Motion safety: no command is outside the limits or further than one step from
  the one before, whatever is read.

## 2. Plan

The order is that of what can hurt: arms that stay energised, then jobs and data
that are lost, then what only misleads.

| Part | Modules | State |
| --- | --- | --- |
| Sessions, workers, watchdog, shutdown | `ArmWorker`, `Session` (composed), `SessionSlot` (abstract), `SessionInv`, `SessionProofs` | done, proved |
| Hosting | `Station`, `Hosting` (composed), `HostingProofs` | done, proved |
| Jobs and the local runner | `Jobs`, `JobLedger` (abstract), `JobsProofs` | done, proved |
| Remote training and the server's uploads | `RemoteTraining`, `RemoteProofs` | done, proved |
| Coaching on a rollout | `Coaching`, `CoachingProofs` | done, proved |
| Recording | `Recording`, `StoreProofs` | done, proved |
| Collection merge | `CollectionMerge`, `CollectionLedger` (abstract), `MergeProofs` | done, proved |
| Names of datasets | `Datasets`, `StoreProofs` | done, proved |
| The serial line | `MotorBus`, `MotorBusProofs` | done, proved |
| Motion safety (`ramp_to`, `capture_rest` against corrupt reads) | - | next |
| Event hub: a subscriber sees a suffix of the events, in order | - | next |
| Calibration and profiles; the idle relax of the drivers | - | next |

Every safety property of a run that must pass is proved for all values of the
constants; what is left to prove belongs to the parts above that have no module yet.
Abstract specifications still worth stating: what a station promises an operator
(section 4), and what a rollout promises who corrects it (section 7).

Types and inductive invariants that a theorem covers are not run again: TLC checked
each of them on the same instances before it was proved.

## 3. The core: sessions and arm workers

`SessionSlot` is the abstract promise: one slot; a session opens it, may run, may
be asked to stop, and leaves it once. `ArmWorker` is the life of one worker: the
steps of `start()`, of the control thread, of `stop()` and of the release that both
share. `Session` extends it with the manager, the lease, the watchdog and the
engine's shutdown. `SessionInv` is the inductive invariant, `SessionProofs` the
theorems, `MCSession` the instances for TLC.

State. A thread is a process with a label in `pc`: a starter per session (the
request thread of `POST /sessions`, named as its session), `Stopper` threads (for
`DELETE`), the `Watchdog` and the `Engine` (the end of the lifespan). `live` is
`_live`, `info` the states, `startLock` the holder of `start_lock`, `silent` the
lease run out (elapsed time is a flag that the passage of time sets and a
heartbeat clears), `event` the last state published. `port`, `torque`, `guard`,
`away`, `guardError`, `error`, `stopSet` and `loop` are the worker's. `mishap` is
history, written and never read by the program: `late` (start ran on a session
already closed), `overrun` (the join gave up), `doubled` (two threads in `stop()`
at once), `leaked` (a lost camera hid the open port).

Actions. A critical section of `manager._lock` is one action, a publication is
another, each call on the hardware another; `start_lock` is held over many of
them. Every thread interleaves with every other between any two.

| Code | Actions |
| --- | --- |
| `SessionManager.start` | `Claim`, `PublishStarting`, `LockStart`, the worker's `ConnectFollower`, `ConnectLeader`, `Engage`, `Ready`, then `MarkRunning`, `Announce`, or the release and `_finish` |
| `SessionManager.stop` | `MarkStopping`, `PublishStopping`, `LockStop`, `JoinLoop`, the release, `_finish`, `Leave` |
| `_finish` | `Finish`, `PublishEnd`, `PublishIdle` |
| release (`FollowerGuard.release`, `_shutdown_hardware`, `_finalize_quietly`) | `StartRelease`, `RampStep`, `EndRamp`, `CutTorque`, `CloseDevices` |
| control thread | `LoopIterate`, `LoopCommand`, `LoopFail`, `LoopEnd` |
| `tick` | `Tick`, then `Expire` or `Reap` |
| lifespan | `BeginShutdown`, `JoinWatchdog`, `FindCurrent`, `StopCurrent`, `Exit` |

Taken from the environment: uvicorn calls the end of the lifespan when the
requests in flight are answered and accepts none after (`BeginShutdown`,
`ShuttingDown`). Each session is started once, as its id is new. `_last` is only
reported; `control()` does not change the manager; the leader's port is not
modelled.

### Runs

| Run | Instance | Shows |
| --- | --- | --- |
| `Session_faults` | one session with leader and cameras, all devices may fail, four threads, fair | an energised arm is accounted for, a freed slot has a closed port, torque is cut only at rest; a silent client, a dead loop and a stop all end with the arm released |
| `Session_slot` | two sessions, devices work | `Session` implements `SessionSlot` |
| `Session_StoppedIsReleased` | one session, devices work | see section 13 |

Bounds. One session is enough for the hardware properties, since a worker belongs
to one session and workers share nothing in the model but the slot; two sessions
are what it takes for a late thread to meet somebody else's session. A starter, a
`DELETE`, the watchdog and the engine are all the kinds of threads there are; a
second `DELETE` thread returns at `MarkStopping` while the first is in its stop. The
proofs need none of these bounds.

Fairness. Every thread that can step does (`WF` on its steps), the watchdog ticks,
time passes for a lease (`LeaseLapse`), and a control loop at the top of an
iteration sees its flag. A loop inside an iteration is *not* fair: it may hang, and
`stop()` then gives up on it after 60 s, which is why a stop ends anyway. Users owe
nothing: no start, stop, heartbeat or quit is fair. A ramp ends since it has at
most 400 steps (weak fairness of the thread, with `EndRamp` always enabled in it).

## 4. Remote hosting

`Station` is the hosting worker: its fields, the calls that handlers and controls
make on it, and the control loop. `Hosting` extends it with the WebSocket handler
of each operator (`routes/remote.py`), the operators' engines, the connections
between them and the session's controls. `MCHosting` has the instances,
`HostingProofs` the theorems.

State. The first variables of `Station` are the worker's fields; `frameAge` and
`engagedAge` are the times since `_last_frame` and `_engaged_at`; `arm` is the last
position sent to the follower; `loop` and `seen` are the control loop's place and
the copies it took under the lock. `driver` and `strayed` are history: who sent the
target, and for each operator the steps made on a copy that was taken while it was
attached and followed when it was not any more. An
operator is named by its connection, so one that dials again is another operator.
`up[o]` is what `o` has sent and its handler has not read. One joint stands for the
six, which are treated alike and independently.

| Code | Actions |
| --- | --- |
| `try_attach`, `detach`, `on_action`, `control` | `Attach`, `Detach`, `OnAction`, `Park`, `Block`, `Allow` |
| `_run` | `Look` (first section of the lock), `DismissSilent`, `Move` (one command, which may fail and end the loop), `ShowPhase` (second section), `EndLoop` |
| `remote_operator` | `Handshake`, `NoHello`, `SendReady`, `TakeAction`, `Hangup`, `Leave` |
| `RemoteOperatorWorker` | `Dial`, `Answered`, `Stream`, `Part` |
| the network, the clock | `BreakLink`, `Elapse` |

The handlers share one event loop but pause at each `await`, so a step of a handler
lies between two of its awaits. `block` writes its flag outside the lock, hence the
two steps of `BlockControl`. A connection delivers in order, after any delay, and
what it holds when it breaks is read or lost. Left out: the state frames a station
sends back (they change nothing there), the frames `parse_action` refuses (the
engine's own operators send none; the handler would end as after a bye), and
connecting and releasing the follower, which are those of section 3.

### Runs

| Run | Instance | Shows |
| --- | --- | --- |
| `Hosting_stream` | one operator, two frames at positions beyond both limits, fair threads | the cap, a true "parked", the three liveness properties |
| `Hosting_relay` | two operators, one frame each, interchangeable | once an operator is no longer attached, one more step at most on what was taken while it was, whoever comes next; only connections that were let in are followed |

Bounds. Limits 0 and 6 and a cap of 5 make both a step cut by the cap and a step
that ends at its goal, and the slow start gives steps of 1 of 5. One tick each for
the soft start and the silence are enough to tell before, at and after. Two
operators are what it takes for the frames or the end of one to meet the other; a
third is one of them again. The bound on stray steps is about what was taken before an
operator was dismissed; frames its handler takes later, under the next operator, drive
the arm for as long as they come (`OneDriver`, section 13). A second frame is one more than the loop can have in
hand, and takes the arm from one limit to the other.

Fairness. The control loop, the handlers and time; not the operators, the network
or the controls. `_run` has no step that waits for anything but the follower, whose
reads time out; a failure ends the loop, so each liveness property allows
`loop = "over"`, after which the watchdog of section 3 releases the arm.

## 5. Jobs

`Jobs` is the job manager with the local runner: the queue, `job.json` on the disk,
the training processes, the threads that pump their output, and the end and the
restart of the engine. `JobLedger` is what it promises whoever reads the jobs: one
runs at a time, each ends once, an end is for good. `MCJobs` has the instances,
`JobsProofs` the theorems.

State. `state` is `_jobs[j].state`, `created` the order of `created_at`, `disk` what
`job.json` says ("torn" between truncation and writing), `proc` the training process
("orphan" when its engine is gone), `procs` and `cancelled` the runner's fields,
`verdict` what a pump is about to report, `at` and `work` each thread's place and
the job it is starting, `doomed` the processes `shutdown` has still to terminate. A
job has three threads: the request that submits it, the one that cancels it, its
pump. `_schedule` runs in the first and the last.

| Code | Actions |
| --- | --- |
| `JobManager.submit` | `Create` (the time of creation, taken before the lock), `Insert` |
| `_schedule` | `Schedule` (under the lock), `StartChild` and `Register` (`LocalRunner.start`), `FailStart` |
| `_on_exit` | `OnExit`, a part of `FailStart` and `Report` |
| `LocalRunner._pump` | `Reap` (the process is gone), `Report` |
| `cancel`, `LocalRunner.cancel`, `_terminate` | `Cancel`, `CancelChild`, `EndCancel` |
| `shutdown` | `BeginShutdown` (the server answers its requests first), `Shutdown`, `Kill`, `Exit` |
| `_load` | `Restart` |
| the process, the end of the engine | `ChildEnds`, `Crash` |

Each action is one section of `manager._lock` or `runner._lock`, or what lies between
two of them. Between two engines the ledger is read as the next engine will load it;
a torn file counts as failed, as that engine cannot read more from it.

Left out: the log and the metrics, but for the writing of `job.json` a metric causes
(it is why a running job's file may be torn); a disk that refuses a write; the lanes
of other runners, which share no state with this one.

### Runs

| Run | Instance | Shows |
| --- | --- | --- |
| `Jobs_lane` | two jobs, one restart, fair threads | a training belongs to the running job, the ledger's promise, the queue moves, a cancel that reached its process ends the job |

Bounds. Two jobs are one in the lane and one that waits for it, which is all that a
scheduling thread tells apart; a third was tried for the safety properties and adds
only longer queues, and the theorems of section 12 hold for any number. One restart is
a load of what one engine left. Deadlock is not checked: an engine that was started
`MaxLives` times, or that cannot read its files, is down for good.

Fairness. The engine's threads run while it lives, and a shutdown goes on. Users owe
nothing, and a training need not end: `QueueMoves` allows a training that goes on
for ever, `CancelEnds` does not, because `_terminate` kills what ignores the signal.

## 6. Remote training

`RemoteTraining` is the runner of the jobs that train on a GPU server (`remote.py`):
a thread per job on this engine, the calls it makes through the tunnel, and the
server's engine with its copy of the dataset (`routes/datasets.py`) and its jobs,
which are taken as `JobLedger` promises them. All jobs are about one dataset, the
case in which they can disturb each other. `RemoteProofs` has the theorems.

State. `local` is the job here, `run[j]` the thread of `_drive` and `_follow` with
its local variables, `asked` the cancel events, `mirror` and `fetched` what was
copied; `here` and `there` are the versions of the dataset on either side and who
wrote the server's (its transfer marker), `body` an upload in the server's handler; `remote`,
`written` and `stopping` are the server's job, its log and the cancels it got.

| Code | Actions |
| --- | --- |
| `RemoteRunner.start`, `cancel`, `shutdown` | `Start`, `Cancel`, `EndEngine` |
| `_drive`, `ensure_engine`, `_ensure_dataset` | `Connect`, `EnsureDataset`, `Upload`, `Submit`, `CallFails`, `UploadFails` |
| `upload_archive` on the server | `Accepts` (its checks), `Receive`, `Swap` |
| `_follow`, `_fetch_checkpoints` | `SendCancel`, `ReadJob`, `ReadLogs`, `ReadMetrics`, `PollFails`, `Fetch` |
| the server's engine and its users | `RunRemote`, `PrintLine`, `EndRemote`, `CrashServer`, `RecordThere`; `RecordHere` on this side |

A call is two halves: it may fail before the server saw it, or after it took effect.
`Remote_training` has two jobs, two poll failures, one checkpoint, one line, two
versions and one crash of the server: the second job meets what the first left, a
poll may fail once without ending the job, and a log with a line in it is the
shortest that can be copied too early or twice. That the server's jobs keep the
promise of `JobLedger` is an instance of it (`ServerKeepsTheLedger`), so that what is
taken from `Jobs` is no more than what `Jobs` shows. The run shows that what is said of an
ended job is true of the training (`EndIsHonest`), that the local log is always a
prefix of the remote one (`LogIsCopied`), that an upload the engine waits for never
replaces the data under a training, that the lane is freed, and that a cancel which
reached the server ends the job.

Fairness: each thread of the runner, since every call answers or times out; and the
server ends a training that a cancel reached, which is `CancelEnds` of section 5.
A training need not end otherwise.

## 7. Coaching

`Coaching` is a coaching session on a rollout worker (`coaching.py`, `rollout.py`):
the requests that control it, the helper thread that carries a handover out step by
step, the loop of the library's strategy, and `start()` and `stop()`. The strategy is
external; its phase machine is taken from how `coaching.py` and its tests use it.

State. `events` is the strategy's phase and the transition asked for, `chain` the
helper thread (and `_chain_lock`: "free"), `req` the requests with the phase each
has read, `hold`, `discardNext` and `target` the worker's fields, `leader` the leader
arm (its torque, whether the worker knows of it, where it was driven), `mishap` what
went out of the ordinary: `stray` (a handover timed out, or another phase than the
planned one was met, or a hold that was set again, or a mark that an earlier
correction had used up), `refused` (a `drop_last` that came too late), `crossed` (a stop
met a reset or a loop that still moved), `fault`.

| Code | Actions |
| --- | --- |
| `control` | `Ask` (reads the phase), `MarkDrop`, `GiveSlotBack`, `ClearHold`, `TakeChain` |
| `_run_chain`, `_wait_for_phase`, `_reset_to_rest` | `RequestTransition`, `PhaseReached`, `PhaseTimesOut`, `HoldAtRest`, `EnableLeader`, `TrackLeader`, `MoveLeader` |
| the strategy's loop, `save_episode` as `_after_setup` wraps it | `LoopEnds`, `LoopFails`, `Consume`, `Apply`, `Save` |
| `start` and its failure, `_after_context` | `BuildContext`, `Prepare` |
| `stop`, `_before_release`, `_release_leader` | `Stop`, `JoinLoop`, `RampLeader`, `FreeLeader`, `ReleaseFollower` |
| the session's own end | `Finish` |

`Coaching_handover` has one client and one correction with one drop: a request
returns while its helper thread still works, so one client meets its own earlier
handover. A second one adds requests that the lock refuses and one case of `stray`:
its `drop_last` may find that the save of the correction before has taken its mark.
With two clients the state space has 9.9 million states; TLC went through it once for
`CoachingInv` and the properties, which section 12 then proves for any number, and the
run keeps one client for the sake of the liveness properties. It shows that
an operator who corrects drags a free leader, that a `drop_last` drops what it names
and gives its slot back, that both arms end released and the leader where it was
found, and that a handover never keeps the lock. Each holds outside the mishaps its
definition names; without them it fails, see section 13.

Fairness: the helper, the loop, the release and a request that has begun; users ask
for nothing, and the library's loop, inside a turn, ends or fails.

## 8. Recording

`Recording` is the recording worker (`record.py`): the loop of takes and resets, the
requests that set its flags, and the `stop()` that waits a minute and then flushes.

State. `at` is the loop's place, `record` whether it is in a take or in the reset
after it, `outcome` what `_episode` returned, `flags` and `paused` what the requests
set, `buffer` the frames not yet saved, `saved`, `told` and `flushed` the episodes
written, counted and encoded. `redo` (how far a take was when it was asked to be
recorded again) and `mishap` are history.

| Code | Actions |
| --- | --- |
| `control` | `Press(f)`, `Pause`, `Resume` |
| `_run`, `_episode` | `BeginTake`, `Look` (the controls, in the code's order), `Drive`, `Store`, `Pace`, `ResetEnds`, `DropTake`, `KeepTake`, `Save`, `Count`, `LoopEnds` |
| `stop`, `_finalize` | `Stop`, `Join`, `Finalize` |

`Recording_takes` has three takes of three iterations with a reset of one after
each, and pauses until the fourth frame: a press can come before the first frame of
a take, in its middle, in its last iteration, while it is saved, and in the reset.
It shows that frames stay in their take, that a take to be recorded again is not
saved unless the request came in its last iteration, that the loop fails only for a
cause, and that a finish and a stop end it.

Fairness: both threads. `FinishEnds` assumes that somebody does not ask for another
take for ever; nobody has to resume a pause.

## 9. Collection merge

`CollectionMerge` is `collection_merge.py`: processes that each merge one session
into the local root under a file lock, and the check before a recording, which reads
the root without it. `CollectionLedger` is what the root promises: it only grows,
each session comes in once and in order, what it started from stays.

State. `root` and `backup` are two directories, each with how often every episode is
in it, its ledger, whether it is whole and, as history, which episodes came or went
while a merge that is in it was under way (`slipped`); `lock` is `.merge.lock`;
`merge` and `check` are the places of the processes. A session is recorded, resumed
and edited at any time, so its directory is no variable: each of the two times a merge
reads it, for the count before the lock (`Begin`) and for the copy after it (`Stage`),
it has any number of episodes. A session that is new to the root is copied as it is by
then, of any other the counted episodes after the ledger's (`Taken`). The Hub's root,
if there is one, comes with a ledger of its own (`HubLedger`), which is taken to be
right. A backup that is being removed may have lost its `info.json`, and the check
then passes it by. Between any two file operations a process
may fail or be killed; the system then gives the lock back.

| Code | Actions |
| --- | --- |
| `merge_collection_session` | `Begin` (reads the session), `TakeLock`, `Recover`, `NothingNew`, `Compare`, `Stage`, `GiveUp`, `GiveUpWaiting` |
| the swap | `Swap`, `Unlink` (file by file), `Shelve`, `Install`, `InstallFails`, `Rollback` |
| the check before a recording | `BeginCheck`, `LookAtRoot`, `LookAtBackup`, `AskHub`, `EndCheck` |
| recordings and edits of a session | the numbers that `Begin` and `Stage` read |

`Merge_sessions` has two processes, two sessions of up to two episodes and one
check: a second merge of a session finds a ledger and a backup, a third removes the
backup while the other process waits. It shows that every episode is in as often as
the ledger says, once or not at all, unless it came or went between the count and the
copy; that a check which says "new" is right unless a backup was taken back, or began
to go, between its two looks; and the refinement of the ledger. Two episodes are what
it takes for a session to be partly merged, to grow and to shrink. The Hub has no root
in the run, or no check could answer "new"; the theorems hold either way. Safety only:
no process owes a merge anything.

## 10. Datasets

`Datasets` is the directory of datasets and all who write in it: the operations
(`dataset_ops.py`) on threads of their own, the rename inside a request, the archives
that come in on the event loop (`routes/datasets.py`), and the sessions that record.
Nobody locks a name: each looks whether it is free, or not in use, and goes on later.

State. `disk[n]` is whose data are under a name, whether `meta/info.json` and the
marker of a transfer are there, and whether all files are; `op[p]` is what a process
does, on which names, and where it is; `slot` is the session slot, `training` the
dataset of an active job. `overtaken` is history: the processes whose names another
has changed since they looked.

| Code | Actions |
| --- | --- |
| `delete_episodes`, `modify_features`, `merge`, `split`, `rename` | `RequireSource`, `RequireNew`, then `Create`, `Fill`; `Stage`, `MoveSplit`; `MoveRenamed` |
| `import_from_hub` | `Download`, `Fetch`, `CheckImport` |
| `upload_archive` | `Ask`, `Receive`, `Swap`, `Install` |
| a session that records or coaches | `Construct`, `Claim`, `LookNew`, `Open`, `SaveEpisode`, `EndRecord` |
| jobs, the end of the engine | `StartTraining`, `EndTraining`, `Crash` |

`Datasets_names` has three processes on two names: one under way, one that comes
across it, and one that was there before or comes after. It shows that a dataset no
transfer wrote is lost, and a recording loses its directory, only by the step of a
process that was overtaken after its check, and that whoever was not overtaken and
says "done" has its dataset, whole, under its name. Without "overtaken" the first
two are false: section 13. Left out: which episodes are excluded (a file by name),
the reads, and the bytes of an archive.

## 11. The serial line

`MotorBus` is `motors/nexarm.py` with the threads that share a line (the loop of a
session and the ramp of the thread that stops it) and the arm at its other end. The
protocol numbers nothing, and the firmware prints over the same line.

State. `th[t]` is a call: its place in `_send` and `_read_reply`, the attempt, the
request it waits for and its `buf`; `lock` is `_lock`; `asked` are the reads the arm
has not come to, `wire` the bytes on their way, `input` those that have come. Every
byte remembers which request it answers; `known` (the answers that had come when the
input was emptied), `heard` and `split` are history.

| Code | Actions |
| --- | --- |
| `read_positions` and every command | `Call`, `Deadline` and the end of an attempt (`AttemptOver`), `Retry` |
| `_send` | `Check`, `Acquire`, `ResetInput`, `Write` |
| `_read_reply`, `_try_parse`, `parse_frame` | `Poll`, `Scan` (one iteration), `ScanAt`, `Parse`, `ParseFrame` |
| `connect`, `disconnect` | `Connect` (before there are threads), `Disconnect` (at any moment, without the lock) |
| the firmware and the port (external) | `Answer`, `Ignore`, `PrintOut`, `Arrive` |

`MotorBus_line` has two threads with a call each, two attempts, three frames, one
printed byte and one opening of the port. Bytes have four bits and a position takes
one byte, so a frame has seven. Two attempts are what it takes for a
late answer to meet a later request of the same or of the other thread; the one
print may fall before an answer or within it. `Noise` and `Position` are chosen so
that no checksum agrees by chance: one that does is data the protocol cannot tell
(a byte of a print is tagged 0, and the properties except it). The instance was also
checked with `Short = TRUE`, the leader's firmware that sums up too little.

It shows that a read returns the answer to its own request, or a late one that
nobody waits for any longer and that had not come when the input was emptied
(`AnswerIsOwnOrLate`); and that an answer that came whole, with no header byte before
it, is found by the poll that completes it, however it was cut (`ReplyIsFound`).
Safety only.

## 12. What is proved

`SessionProofs` proves, for every set of sessions and of stopping threads, any
choice of kinds and any failures, and from the assumptions of `ArmWorker` and
`Session` only (the kinds of threads are disjoint, `NoSession` and `Free` are
neither sessions nor threads):

* `Invariance`: the inductive invariant `IInv`;
* `TypeCorrect`, `NoOverlap`, `EnergisedIsAccountedFor`, `SlotFreesPort`: its
  state properties, two of which `Session_faults` runs;
* `TorqueCutAtRest`, `TorqueCutAfterLoop`: torque is cut at rest, and after the loop;
* `ImplementsSlot`: the refinement of `Session_slot`;
* `EndedSessionsHaveEnded`: what a client may rely on, from the refinement alone: a
  session shown as active is the one that has the slot, and an end is for good.

The argument. None of the properties is inductive. `StartStopExclusive` needs to
know that whoever is inside start or stop holds the session's `start_lock`
(`LockInv`), and, as the watchdog's reap takes no lock, that a session the watchdog
has seen running is one whose starter is through. `EnergisedHasOwner` needs to
follow the torque through the release: a release that has passed the cut has either
cut it or set the guard's error (`TorqueInv`), and the guard's error reaches the
outcome the manager publishes (`OutcomeInv`). `CutOnlyAtRest` needs that between
the end of the ramp and the cut nobody else moves the arm: no loop (`LoopInv`), no
second ramp (`RestInv`). `SlotInv` ties the label of each thread to the state of its
session. There is one lemma per action, with one step per conjunct the action can
disturb.

`HostingProofs` proves, for every set of operators, limits, cap, rest pose, soft
start, silence and number of frames, from the assumptions of `Station` and
`Hosting` (`Nobody` is no operator, the limits are ordered integers, the cap and the
soft start are positive):

* `HostInvariance`: the inductive invariant `HostInv`;
* `HostTypes`, `StationIsNeverStuck`, `OnlyWhoWasLetIn`, `OneMoreStep`,
  `ParkedIsTrue`, `CommandsWithinLimits`: its state properties, those of the runs
  among them;
* `CommandsAreCapped`: the rate cap, when the rest pose is within the limits. It
  must be: `_commanded` starts at the captured rest pose, only what is sent is
  clamped, and from a rest pose beyond a limit the first command jumps to it.

The argument: `SpeedRange` bounds the soft start's quotient by the cap,
`StepBounds` and `NextCommand` bound one iteration. `OneStray` needs that a
connection is attached once, and that no step has strayed for an operator who is
attached or whose copy the loop is about to follow (`StrayInv`): the step after the
dismissal is then the first, and the next look reads another operator.
`FramesAreLetIn` rests on the order of attach, "ready" and the first frame read
(`HandlerInv`), `ParkedIsAtRest` on that an iteration which will publish "parked" was
at rest and stays so (`ParkInv`), `RateCapped` on that `arm` and `commanded` agree until the loop ends (`ArmInv`).

`JobsProofs` proves, for every set of jobs and any number of restarts, from the
assumptions of `Jobs` (`NoJob` is no job, there is at least one start):

* `JobsInvariance`: the inductive invariant `JobsInv`;
* `JobsTypes`, `OneTrains`, `RunningHasAThread`: its state properties;
* `ManagerKeepsTheLedger`: the refinement of `JobLedger`;
* `ShownEndsAreForGood`: from it, that at most one job is shown as running and that a
  job is never shown as anything else after its end, restarts included.

The argument: a process that is alive is either registered, and then its pump is
there, or held by the one thread that has the lane (`StartInv`, `PumpInv`); what a
cancel or a shutdown terminates was started (`KindInv`), so it is no job that still
waits (`FreshInv`); the disk says what the memory says (`DiskInv`), and a file that may
be torn is one of a job that has not ended, so the end of an engine fails only what
was active.

`StoreProofs` has the theorems of the two parts that write datasets. Of `Recording`,
for any number of episodes and lengths of takes and resets, from
`RecordingAssumption`: `RecordingInvariance` (the inductive `RecordingInv`),
`RecordingTypesHold`, `FramesStayInTheirTake`, `SavedIsFlushed`, `FailuresHaveACause`
and `RedoIsHeeded`. `FailsForCause` needs to know where a press may stand when a take
begins (`FirstFrameInv`), and `RerecordWins` that between the request and the next
look at most one iteration passes (`RedoInv`).

Of `Datasets`, for every set of processes and names: `SeenStaysSo` (the inductive
`DatasetsInv`), `NothingIsLost`, `RecordingsAreLeftAlone` and `WhatIsDoneIsDone`. The
invariant says of each place in the code what its check has seen, and that it is still
so unless the process is in `overtaken` (`SeenIsSo`): every step that changes a name
puts into `overtaken` whoever relies on it.

`CoachingProofs` proves, for any finite set of clients and any number of episodes and
drops, whether devices fail or not, from `ClientsAssumption`, `EpisodesAssumption`,
`DropsAssumption` and `FaultyAssumption`: `CoachingInvariance` (the inductive
`CoachingInv`), `CoachingTypesHold`, `CorrectionsAreFree`, `DropsAreHonoured`,
`ArmsAreReleased`, and the step property `LeaderIsReturned`. That an operator who
corrects drags a free leader needs the whole way of a handover: the request has
cleared the hold, and nothing sets it before the phase is reached, since the helper's
steps lead one to the next from the phase the strategy is in (`Leads`, in `ChainInv`)
and nobody else asks for a transition (`HoldInv`). That a `drop_last` drops what it
names needs to follow its mark from the request through the handover and the end of the
turn to the save (`MarkInv`). The arms at the end rest on what the worker knows of the
leader's torque: all but what one step of the helper is about to tell it (`LeaderInv`).
Each part says nothing after the mishaps of section 7, which the code allows; the
release of the arms (`LoopInv`, `LeaderInv`) holds after a `stray` as well.

`MergeProofs` proves, for every set of processes, checks and sessions and any number
of episodes: `MergeInvariance` (the inductive `MergeInv`), `TypesHold`,
`EpisodesOnce`, `BackupStandsIn`, `BackupStaysEarlier`, `ChecksAreRight`,
`RootKeepsTheLedger`, the refinement of `CollectionLedger`, and from it `RootOnlyGrows`:
no merge, failed or killed, takes an episode away. The argument: one process
is inside the lock (`LockInv`), and what it staged still extends what the disk holds
when it installs (`StageInv`), since without a root the backup is what it started
from. `ExtendedIsHonest` is the step of `EpisodesOnce`: whatever the session has become
since it was counted, only what came or went is copied otherwise than the ledger says.
`ChecksAreRight` needs that a check which has missed the root finds a whole backup, or
was crossed (`CheckInv`).

`RemoteProofs` proves, for any number of jobs, lines, checkpoints, versions and crashes,
from `FailuresAssumption` and `BoundsAssumption`: `RemoteInvariance` (the inductive
`RemoteInv`), `EndsAreHonest`, `LogsAreCopied`, `DataOfTrainingsIsKept` and
`ServerIsALedger` (the server's jobs implement `JobLedger`). An end that
a poll has read is for good, and the log read after it is the whole log (`PolledInv`):
that is what the order of the two reads in `_follow` is for. `UploadInv` says that an
upload its thread waits for began when nothing trained, and the lane (`LaneInv`) that
nobody else can submit before it ends.

`MotorBusProofs` proves, for every set of threads, attempts, prints, positions and
openings of the port: `OneAtATime` (the inductive `BusInv`), `AnswersAreOwnOrLate` and
`RepliesAreFound`. `LockInv` says that the thread inside `_send` is the one that has the
lock, also after every way out of it; `KnownInv` that an answer which had come when the
input was emptied is neither asked for, on its way, in the input nor in a buffer.
`RepliesAreFound` is the resynchronisation: what a poll still holds is the end of what
it heard, and if the first header byte it heard is among what it dropped, no answer
begins there, whatever comes yet, unless a poll cleared the first half of a header
(`HeardInv`). So the scan comes to an answer that begins there with the answer whole,
and `parse_frame` takes it (`ReplyIsAFrame`). Nothing is assumed
of the bytes, so it holds with checksums that agree by chance as well, for what the
read then returns.

Only model-checked: the liveness properties, since fairness and `ENABLED` are beyond
the prover. Every other property of a run that must pass is a theorem. No module uses
`RECURSIVE`; `MotorBus` sums bytes with a recursive function, of which the proofs use
only that equal bytes have equal sums.

## 13. What the models found

One disagreement with the repository's own words is kept as a run:

| Run | The repository says | The code does |
| --- | --- | --- |
| `Session_StoppedIsReleased` | "stop() must never overlap start(), or the arm is left energised" (`session.py:187`) | a stop that gets `start_lock` first closes the session; the start then energises the arm for nobody |

Others are stated in the modules, under "what the repository says and the code does
not do", and fail when TLC is given them as a property:

| Definition | The repository says | The code does |
| --- | --- | --- |
| `ShutdownReleases` (`Session`) | "Engine shutdown must never leave the arm energised and unattended" (`app.py:75`) | the join of a watchdog that is stopping a session times out, and the engine exits under it |
| `FailedStartReleases` (`Session`) | "start() failed and already released everything" (`session.py:190`) | if the leader does not connect, there is no guard yet (`arm_worker.py:107`) and nothing cuts the follower's torque |
| `OneDriver` (`Hosting`) | "lets one operator drive it, safely" (`remote_teleop.py:91`) | an operator dismissed by a park or a silence keeps its handler, and while another is attached its frames count as that one's and move the arm, for as many steps as they come |
| `ParkedForCause` (`Hosting`) | "parks again when the operator leaves, says bye, or goes silent for a second" (`remote_teleop.py:11-12`) | the end of an earlier operator's connection throws out the present one |
| `NewFramesCount` (`Hosting`) | "stale or from nobody: drop it" (`remote_teleop.py:145`) | the sequence number outlives its operator; the next one's frames are dropped |
| `NothingLeftRunning` (`Jobs`) | "Stop everything this runner started." (`jobs.py:144`) | the pump of a terminated process reports its exit, which starts the next queued job in an engine that is about to end |
| `CutOnlyAtStart` (`Coaching`) | "returned there, then released, when the session ends" (`coaching.py:21-22`) | a stop that meets a reset or a busy loop cuts the leader's torque where it is |
| `NewRootIsNew` (`CollectionMerge`) | "None for a new root" (`collection_merge.py:57`) | a check that looks at the root and then at the backup, while a merge takes the backup back or removes it, finds neither |
| `OnlyNewEpisodes` (`CollectionMerge`) | "Append only new episodes locally" (`collection_merge.py:141`) | a session is counted before the lock (`:150`) and, if it is new to the root, copied whole after it (`:202`): an episode recorded meanwhile is merged uncounted, and the next merge brings it again |
| `RecordedIsKept` (`Datasets`) | "never a dataset recorded here" (`routes/datasets.py:247`) | the marker is checked before the body arrives and not again at the swap (`routes/datasets.py:281`), which replaces what was recorded in between |

Seen while modelling, each with its case in a module and no sentence of the
repository against it:

* `Coaching`: a `drop_last` that the lock refuses has already marked the next
  correction (`coaching.py:178`); with two clients a `drop_last` may find that the save
  of the correction before has used up its mark, and keeps its own; a refused takeover has already cleared the hold
  (`coaching.py:181`); a handover that times out leaves its transition with the
  strategy, which takes it later.
* `Recording`: a finish pressed in a reset ends the next take before its first frame,
  the empty episode is refused, and the session fails; a rerecord in the last
  iteration saves the take and drops the next; a reset that is paused looks at no
  finish.
* `RemoteTraining`: the cancel is sent outside the `try`, once, so a lost answer ends
  the job here while the training may go on; a lost answer to a submission leaves a
  training nobody follows.
* `Datasets`: a directory that appears between the check and `shutil.move` gets the
  moved dataset inside it (`dataset_ops.py:135`); an edit or import that fails half way
  leaves a dataset that is listed; an upload may fail after the swap was made, in
  `summary()`.
* `CollectionMerge`: the ledger counts by name, so a session recorded anew under its
  name is merged from where the old one ended.
* `MotorBus`: a poll that ends in the first byte of a header clears it (`_try_parse`
  looks for both), and the answer is lost to that attempt; an answer whose first byte
  fell to the emptying of the input reads as a longer frame and blocks the
  resynchronisation until the deadline; a late answer of an earlier attempt is taken
  for the present one, as old as it is.
* `Hosting`: with a rest pose beyond a limit, the first command jumps to the limit,
  since `_commanded` itself is not clamped.

Further hazards, which the models contain or leave out and no property is about:
session events are published outside the locks, in either order (`session.py:169`);
`control()` looks at the state under the lock and calls the worker after it
(`session.py:201`); a heartbeat between the watchdog's look and its stop does not save
the session (`session.py:219`), nor does one that comes as the session is replaced;
`stop_current` may find its session gone, and the lifespan then skips the jobs'
shutdown (`session.py:206`); a station's worker is looked up before the hello is
awaited (`routes/remote.py:66`); the soft start is timed from the attach and not from
the first frame (`remote_teleop.py:129`); no "parked" message is ever sent to an
operator (`remote_teleop.py:360`); a cancel between "running" and the registration of
its process is lost (`local_runner.py:95`); `job.json` may be left torn, and the next
engine does not start (`jobs.py:164`); a disk that refuses a write ends a pump without
a report (`local_runner.py:124`) or leaves a job queued that nobody schedules
(`jobs.py:236`); a rollout whose context cannot be built leaves what is connected
(`rollout.py:167`); `kept_episodes` is taken from the dataset as it is now and not from
what was uploaded (`remote.py:216`); a server whose engine ends between two renames of
an upload has no dataset under that name (`routes/datasets.py:283`).

## 14. What is not modelled

* Next in the plan: the event hub (`events.py`), motion safety (`safety.py`; the
  models take a ramp as steps that may fail), calibration and profiles, and the
  drivers of the two arms beyond what a worker calls.
* The manual recording session of the command line (`recording_session.py`): one
  thread and a keyboard listener, whose takes and resets are those of section 8.
* Simulated and mobile robots, gym environments, benchmarks and policies: floating
  point computation without concurrency, driven by MuJoCo and PyTorch.
* The firmware (C++ for the ESP32, and Python examples for a camera board): the
  service meets it through the serial line only, where section 11 has it as an
  environment.
* Scripts, examples, experiments, the desktop application's documentation, and build
  and container files: no state that anything depends on.

These make up most of the repository's lines, so the models cover a small share of
them; of the engine's own stateful files they cover nearly all that changes state.
