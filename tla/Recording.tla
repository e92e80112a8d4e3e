------------------------------ MODULE Recording ------------------------------
(***************************************************************************)
(* A recording session (record.py, on ArmWorker's start and stop): the     *)
(* thread that records takes and resets in turn, the requests that steer   *)
(* it by setting flags nobody locks, and the thread in stop(), which waits *)
(* a minute for the loop and then flushes the dataset.                     *)
(*                                                                         *)
(* A dataset is the number of its episodes and of the frames in its        *)
(* buffer; that save_episode() refuses an empty buffer is the library's    *)
(* (recording_session.py guards its own call against it).                  *)
(***************************************************************************)
EXTENDS Naturals

CONSTANTS
    NumEpisodes,   \* params.num_episodes
    TakeTicks,     \* params.episode_time_s, in iterations of the loop
    ResetTicks,    \* params.reset_time_s, likewise
    MaxFrames,     \* bound: a take is not paused between two of its frames beyond these
    Faulty         \* devices and writes may fail

ASSUME RecordingAssumption ==
    /\ {NumEpisodes, TakeTicks} \subseteq Nat \ {0}
    /\ {ResetTicks, MaxFrames} \subseteq Nat
    /\ Faulty \in BOOLEAN

VARIABLES
    worker,    \* the thread in stop(): not there, in the join, past it, done
    at,        \* where the loop is
    record,    \* it is in a take, or in the reset that follows one
    outcome,   \* what _episode returned
    elapsed,   \* iterations of this take or reset that counted
    flags,     \* _flags
    paused,    \* _paused
    buffer,    \* frames in the dataset's buffer
    saved,     \* episodes save_episode() has written
    flushed,   \* those that were written when the encoding manager was closed
    told,      \* _episodes_recorded
    redo,      \* history: how far this take was when it was asked to be recorded again
    mishap     \* history: what went out of the ordinary

takeVars == <<record, outcome, elapsed>>
diskVars == <<saved, flushed>>
recordingVars == <<worker, at, takeVars, flags, paused, buffer, diskVars, told, redo, mishap>>

Flag == {"exit_early", "rerecord", "finish"}
Never == TakeTicks + 1

RecordingInit ==
    /\ worker = "running"
    /\ at = "next"
    /\ record = TRUE
    /\ outcome = "none"
    /\ elapsed = 0
    /\ flags = [f \in Flag |-> FALSE]
    /\ paused = FALSE
    /\ buffer = 0
    /\ saved = 0
    /\ flushed = 0
    /\ told = 0
    /\ redo = Never
    /\ mishap = {}

(* hasty: the operator ended a take before its first frame; overrun: the   *)
(* join gave up on a loop that was still busy; fault: a device or the disk *)
(* failed.                                                                 *)
Mishap == {"hasty", "overrun", "fault"}

RecordingTypeOK ==
    /\ worker \in {"running", "joining", "joined", "over"}
    /\ at \in {"next", "look", "drive", "store", "pace", "ended", "save", "count", "over", "failed"}
    /\ record \in BOOLEAN
    /\ outcome \in {"none", "done", "exit_early", "rerecord", "stopped"}
    /\ elapsed \in 0..(TakeTicks + ResetTicks)
    /\ flags \in [Flag -> BOOLEAN]
    /\ paused \in BOOLEAN
    /\ buffer \in Nat
    /\ told \in 0..NumEpisodes
    /\ saved \in {told, told + 1}
    /\ flushed \in 0..saved
    /\ redo \in 0..Never
    /\ mishap \subseteq Mishap

Stopping == worker # "running"
InTake == record /\ at \in {"look", "drive", "store", "pace"}

-----------------------------------------------------------------------------
(* control()                                                               *)

(* A take without a frame yet that this press, with the flags as they are, *)
(* is going to end.                                                        *)
EndsEmptyTake(f) ==
    \/ f = "finish" /\ buffer = 0 /\ at # "count"
    \/ f = "exit_early" /\ buffer = 0 /\ InTake
    \/ f = "finish" /\ flags["rerecord"]
    \/ f = "rerecord" /\ flags["finish"]

Press(f) ==
    /\ worker = "running"
    /\ flags' = [flags EXCEPT ![f] = TRUE]
    /\ redo' = IF f = "rerecord" /\ InTake /\ redo = Never THEN elapsed ELSE redo
    /\ mishap' = IF EndsEmptyTake(f) THEN mishap \cup {"hasty"} ELSE mishap
    /\ UNCHANGED <<worker, at, takeVars, paused, buffer, diskVars, told>>

Pause ==
    /\ worker = "running"
    /\ ~paused
    /\ at = "pace" => buffer < MaxFrames
    /\ paused' = TRUE
    /\ UNCHANGED <<worker, at, takeVars, flags, buffer, diskVars, told, redo, mishap>>

(* An iteration looks at the pause twice: one that is resumed in between   *)
(* counts, and stores no frame.                                            *)
Resume ==
    /\ worker = "running"
    /\ paused
    /\ paused' = FALSE
    /\ mishap' = IF at = "pace" /\ record /\ buffer = 0 THEN mishap \cup {"hasty"} ELSE mishap
    /\ UNCHANGED <<worker, at, takeVars, flags, buffer, diskVars, told, redo>>

-----------------------------------------------------------------------------
(* _run() and _episode()                                                   *)

BeginForgetfully(isTake) ==   \* mutant: exit_early is not cleared
    /\ record' = isTake
    /\ outcome' = "none"
    /\ elapsed' = 0
    /\ UNCHANGED flags
    /\ redo' = Never
    /\ at' = "look"

(* An _episode() begins: what was pressed before it to end one is void. *)
Begin(isTake) ==
    /\ record' = isTake
    /\ outcome' = "none"
    /\ elapsed' = 0
    /\ flags' = [flags EXCEPT !["exit_early"] = FALSE]
    /\ redo' = Never
    /\ at' = "look"

BeginTake ==
    /\ at = "next"
    /\ told < NumEpisodes /\ ~Stopping
    /\ Begin(TRUE)
    /\ UNCHANGED <<worker, paused, buffer, diskVars, told, mishap>>

LoopEnds ==
    /\ at = "next"
    /\ told >= NumEpisodes \/ Stopping
    /\ at' = "over"
    /\ UNCHANGED <<worker, takeVars, flags, paused, buffer, diskVars, told, redo, mishap>>

Duration == IF record THEN TakeTicks ELSE ResetTicks

SeenExitFirst ==   \* mutant: the controls are looked at in another order
    IF elapsed >= Duration THEN "done"
    ELSE IF Stopping THEN "stopped"
    ELSE IF flags["exit_early"] \/ (flags["finish"] /\ record) THEN "exit_early"
    ELSE IF flags["rerecord"] /\ record THEN "rerecord" ELSE "none"

SeenFinishNot ==   \* mutant: finish is not looked at in a take
    IF elapsed >= Duration THEN "done"
    ELSE IF Stopping THEN "stopped"
    ELSE IF flags["rerecord"] /\ record THEN "rerecord"
    ELSE IF flags["exit_early"] THEN "exit_early" ELSE "none"

SeenResumeFirst ==   \* mutant: a paused take waits to be resumed, whatever else is asked
    IF paused /\ record THEN "none"
    ELSE IF elapsed >= Duration THEN "done"
    ELSE IF Stopping THEN "stopped"
    ELSE IF flags["rerecord"] /\ record THEN "rerecord"
    ELSE IF flags["exit_early"] \/ (flags["finish"] /\ record) THEN "exit_early" ELSE "none"

(* What an iteration sees before it drives the arm, in the code's order: a *)
(* reset looks at neither rerecord nor finish.                             *)
Seen ==
    IF elapsed >= Duration THEN "done"
    ELSE IF Stopping THEN "stopped"
    ELSE IF flags["rerecord"] /\ record THEN "rerecord"
    ELSE IF flags["exit_early"] \/ (flags["finish"] /\ record) THEN "exit_early" ELSE "none"

Look ==
    /\ at = "look"
    /\ outcome' = Seen
    /\ at' = IF Seen = "none" THEN "drive" ELSE "ended"
    /\ flags' = [flags EXCEPT !["exit_early"] = @ /\ Seen # "exit_early"]
    /\ UNCHANGED <<worker, record, elapsed, paused, buffer, diskVars, told, redo, mishap>>

Fails ==
    /\ at' = "failed"
    /\ mishap' = mishap \cup {"fault"}

(* Read both arms, command the follower; once stop() has given up on the   *)
(* loop the devices are disconnected.                                      *)
Drive ==
    /\ at = "drive"
    /\ \/ worker \in {"running", "joining"} /\ at' = "store" /\ UNCHANGED mishap
       \/ Faulty /\ Fails
       \/ worker \in {"joined", "over"} /\ at' \in {"store", "failed"} /\ UNCHANGED mishap
    /\ UNCHANGED <<worker, takeVars, flags, paused, buffer, diskVars, told, redo>>

Store ==
    /\ at = "store"
    /\ \/ /\ at' = "pace"
          /\ buffer' = IF record /\ ~paused THEN buffer + 1 ELSE buffer
          /\ UNCHANGED mishap
       \/ Faulty /\ record /\ ~paused /\ Fails /\ UNCHANGED buffer
    /\ UNCHANGED <<worker, takeVars, flags, paused, diskVars, told, redo>>

(* While paused no time passes. *)
Pace ==
    /\ at = "pace"
    /\ elapsed' = IF paused THEN elapsed ELSE elapsed + 1
    /\ at' = "look"
    /\ UNCHANGED <<worker, record, outcome, flags, paused, buffer, diskVars, told, redo, mishap>>

ResetEnds ==
    /\ at = "ended"
    /\ ~record
    /\ at' = "next"
    /\ UNCHANGED <<worker, takeVars, flags, paused, buffer, diskVars, told, redo, mishap>>

(* A take that is recorded again or stopped, a whole one too if the stop   *)
(* came with its end.                                                      *)
DropTake ==
    /\ at = "ended"
    /\ record
    /\ Stopping \/ outcome = "rerecord"
    /\ buffer' = 0
    /\ flags' = [flags EXCEPT !["rerecord"] = @ /\ outcome # "rerecord"]
    /\ at' = IF outcome = "rerecord" THEN "next" ELSE "over"
    /\ UNCHANGED <<worker, takeVars, paused, diskVars, told, redo, mishap>>

KeepTake ==
    /\ at = "ended"
    /\ record
    /\ ~Stopping /\ outcome # "rerecord"
    /\ at' = "save"
    /\ UNCHANGED <<worker, takeVars, flags, paused, buffer, diskVars, told, redo, mishap>>

(* save_episode(): at "save" the loop is in it, however long it takes. If  *)
(* _finalize() takes the buffer and the encoders from under it, it fails   *)
(* or not, depending on how far it was.                                    *)
Save ==
    /\ at = "save"
    /\ \/ /\ buffer > 0 \/ worker = "over"
          /\ saved' = saved + 1
          /\ buffer' = 0
          /\ at' = "count"
          /\ UNCHANGED mishap
       \/ /\ buffer = 0 \/ worker = "over"
          /\ at' = "failed"
          /\ UNCHANGED <<buffer, saved, mishap>>
       \/ /\ Faulty
          /\ Fails
          /\ UNCHANGED <<buffer, saved>>
    /\ UNCHANGED <<worker, takeVars, flags, paused, flushed, told, redo>>

(* finish is looked at here, and from here on not before the next take. *)
Count ==
    /\ at = "count"
    /\ told' = told + 1
    /\ \/ /\ (flags["finish"] \/ told + 1 >= NumEpisodes)
          /\ at' = "over"
          /\ UNCHANGED <<takeVars, flags, redo>>
       \/ /\ ~flags["finish"] /\ told + 1 < NumEpisodes
          /\ Begin(FALSE)
    /\ UNCHANGED <<worker, paused, buffer, diskVars, mishap>>

Loop ==
    \/ BeginTake \/ LoopEnds \/ Look \/ Drive \/ Store \/ Pace
    \/ ResetEnds \/ DropTake \/ KeepTake \/ Save \/ Count

-----------------------------------------------------------------------------
(* stop(), by a request, the lease watchdog or the tick that finds the     *)
(* loop over                                                               *)

Stop ==
    /\ worker = "running"
    /\ worker' = "joining"
    /\ UNCHANGED <<at, takeVars, flags, paused, buffer, diskVars, told, redo, mishap>>

LoopOver == at \in {"over", "failed"}

(* A minute at most: a device or the encoding of a long take may need      *)
(* longer. Then the arms are released (ArmWorker).                         *)
Join ==
    /\ worker = "joining"
    /\ worker' = "joined"
    /\ \/ LoopOver /\ UNCHANGED mishap
       \/ at \in {"drive", "save"} /\ mishap' = mishap \cup {"overrun"}
    /\ UNCHANGED <<at, takeVars, flags, paused, buffer, diskVars, told, redo>>

(* _finalize(): the frames of an unsaved take are dropped, the rest is     *)
(* flushed.                                                                *)
Finalize ==
    /\ worker = "joined"
    /\ worker' = "over"
    /\ buffer' = 0
    /\ flushed' = saved
    /\ UNCHANGED <<at, takeVars, flags, paused, saved, told, redo, mishap>>

-----------------------------------------------------------------------------
RecordingNext ==
    \/ \E f \in Flag : Press(f)
    \/ Pause \/ Resume \/ Loop \/ Stop \/ Join \/ Finalize

RecordingSpec == RecordingInit /\ [][RecordingNext]_recordingVars

(* Both threads run; nobody has to press anything, resume or stop. *)
FairSpec == RecordingSpec /\ WF_recordingVars(Loop) /\ WF_recordingVars(Join \/ Finalize)

-----------------------------------------------------------------------------
(* Frames in the buffer are those of the take under way: none is left of a *)
(* take that was dropped, none comes from a reset, and none is left when   *)
(* the session is over (record.py:190, 178, 236).                          *)
BufferIsOfThisTake ==
    /\ at \in {"next", "count"} \/ ~record => buffer = 0
    /\ worker = "over" /\ LoopOver => buffer = 0

(* A take that is asked to be recorded again is not saved, whatever else   *)
(* is pressed with it, unless the request came in its last iteration       *)
(* (record.py:222 comes before 224, and neither after the last frame).     *)
RerecordWins == [][saved' # saved /\ redo # Never => redo >= TakeTicks - 1]_recordingVars

(* The loop fails for a device or the disk, or because the operator ended  *)
(* a take that had no frame, or stop() gave up on it: a press that was     *)
(* meant for an earlier take or reset does not (record.py:217, 225).       *)
FailsForCause == at = "failed" => mishap # {}

(* Every episode that was saved is flushed when the session is over,       *)
(* unless stop() gave up on the loop (record.py:177).                      *)
AllFlushed == worker = "over" /\ "overrun" \notin mishap => flushed = saved

(* A finish ends the loop if it finds it in a take, even a paused one,     *)
(* unless somebody keeps asking for another take (record.py:224, 201). One *)
(* that comes in a reset waits for its end, for ever if it stays paused.   *)
FinishEnds == <>[]~flags["rerecord"] => (flags["finish"] /\ record ~> LoopOver)

(* A stop ends the loop, paused or not. *)
StopEnds == Stopping ~> LoopOver

-----------------------------------------------------------------------------
(* Why they hold                                                           *)

(* What is saved is counted next; a take and the reset after it are only   *)
(* begun while there is an episode to go.                                  *)
CountInv ==
    /\ saved = IF at = "count" THEN told + 1 ELSE told
    /\ at \in {"look", "drive", "store", "pace", "ended", "save", "count"} => told < NumEpisodes
    /\ at \in {"save", "count"} => record

TickInv ==
    /\ at = "look" => elapsed <= Duration
    /\ at \in {"drive", "store", "pace"} => elapsed < Duration
    /\ at = "ended" /\ outcome = "done" => elapsed >= Duration

(* stop() goes on without the loop only if it gave up on it, in one of two *)
(* places; what the loop does after that ends at its next look.            *)
JoinInv ==
    /\ worker \in {"joined", "over"} => LoopOver \/ "overrun" \in mishap
    /\ worker = "over" /\ at \notin {"pace", "look", "ended"} => buffer = 0
    /\ worker = "over" /\ "overrun" \notin mishap => flushed = saved

OutcomeInv ==
    at = "ended" =>
        /\ outcome # "none"
        /\ outcome = "rerecord" => record /\ flags["rerecord"]
        /\ outcome = "stopped" => Stopping

(* Without a mishap, a take is not ended before its first frame: not by a  *)
(* finish, not by an exit_early, not by time.                              *)
FirstFrameInv ==
    mishap = {} =>
        /\ ~(flags["finish"] /\ flags["rerecord"])
        /\ flags["finish"] => \/ at \in {"count", "over", "failed"}
                              \/ record /\ buffer > 0
        /\ InTake /\ buffer = 0 =>
              /\ ~flags["exit_early"]
              /\ elapsed = 0
              /\ at = "pace" => paused
        /\ at = "ended" /\ record /\ outcome \in {"done", "exit_early"} => buffer > 0
        /\ at = "save" => buffer > 0

(* A take that is to be recorded again finds that out at its next look. *)
RedoInv ==
    redo # Never =>
        /\ record
        /\ InTake => flags["rerecord"] /\ elapsed \in {redo, redo + 1}
        /\ at \in {"drive", "store", "pace"} => elapsed = redo
        /\ redo < TakeTicks - 1 =>
              /\ at = "ended" => outcome \in {"rerecord", "stopped"}
              /\ at # "save"

RecordingInv ==
    /\ RecordingTypeOK /\ CountInv /\ TickInv /\ OutcomeInv
    /\ JoinInv /\ BufferIsOfThisTake /\ FirstFrameInv /\ RedoInv /\ FailsForCause
=============================================================================
