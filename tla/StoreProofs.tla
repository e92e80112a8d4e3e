---------------------------- MODULE StoreProofs ----------------------------
(***************************************************************************)
(* Theorems about what a recording session puts into its dataset, for any  *)
(* number of takes and any length of takes and resets; and about the       *)
(* directory of datasets, for any number of names and of processes: what a *)
(* process has seen of a name is still so as long as nobody came across it *)
(* (SeenIsSo), hence no dataset recorded here is lost, a recording is left *)
(* alone, and what is done is done.                                        *)
(***************************************************************************)
EXTENDS Recording, Datasets, TLAPS

USE RecordingAssumption, DatasetsAssumption

-----------------------------------------------------------------------------
(* A recording session *)

(* A control, at any moment of the loop. *)
LEMMA PressKeeps ==
    ASSUME RecordingInv, NEW f \in Flag, Press(f)
    PROVE  RecordingInv'
<1> USE DEF RecordingInv, takeVars, diskVars
<1>1. RecordingTypeOK'
  BY DEF RecordingTypeOK, Flag, Mishap, Never, CountInv, TickInv, Duration, Press, EndsEmptyTake, InTake
<1>2. CountInv'
  BY DEF CountInv, RecordingTypeOK, FailsForCause, Press, EndsEmptyTake, InTake
<1>3. TickInv'
  BY DEF TickInv, RecordingTypeOK, Duration, Press, EndsEmptyTake, InTake
<1>4. OutcomeInv'
  BY DEF OutcomeInv, RecordingTypeOK, Stopping, Flag, Press, EndsEmptyTake, InTake
<1>5. JoinInv'
  BY DEF JoinInv, RecordingTypeOK, LoopOver, Mishap, Press, EndsEmptyTake, InTake
<1>6. BufferIsOfThisTake'
  BY DEF BufferIsOfThisTake, RecordingTypeOK, LoopOver, JoinInv, CountInv, Press, EndsEmptyTake, InTake
<1>7. FirstFrameInv'
  BY DEF FirstFrameInv, RecordingTypeOK, InTake, JoinInv, LoopOver, OutcomeInv, TickInv, Duration, Stopping, Flag, BufferIsOfThisTake, CountInv, Press, EndsEmptyTake
<1>8. RedoInv'
  BY DEF RedoInv, RecordingTypeOK, InTake, Never, TickInv, Duration, OutcomeInv, Stopping, Flag, Press, EndsEmptyTake
<1>9. FailsForCause'
  BY DEF FailsForCause, RecordingTypeOK, JoinInv, FirstFrameInv, LoopOver, Press, EndsEmptyTake, InTake
<1> QED BY <1>1, <1>2, <1>3, <1>4, <1>5, <1>6, <1>7, <1>8, <1>9

LEMMA PauseKeeps ==
    ASSUME RecordingInv, Pause
    PROVE  RecordingInv'
<1> USE DEF RecordingInv, takeVars, diskVars
<1>1. RecordingTypeOK'
  BY DEF RecordingTypeOK, Flag, Mishap, Never, CountInv, TickInv, Duration, Pause, InTake
<1>2. CountInv'
  BY DEF CountInv, RecordingTypeOK, FailsForCause, Pause, InTake
<1>3. TickInv'
  BY DEF TickInv, RecordingTypeOK, Duration, Pause, InTake
<1>4. OutcomeInv'
  BY DEF OutcomeInv, RecordingTypeOK, Stopping, Flag, Pause, InTake
<1>5. JoinInv'
  BY DEF JoinInv, RecordingTypeOK, LoopOver, Mishap, Pause, InTake
<1>6. BufferIsOfThisTake'
  BY DEF BufferIsOfThisTake, RecordingTypeOK, LoopOver, JoinInv, CountInv, Pause, InTake
<1>7. FirstFrameInv'
  BY DEF FirstFrameInv, RecordingTypeOK, InTake, JoinInv, LoopOver, OutcomeInv, TickInv, Duration, Stopping, Flag, BufferIsOfThisTake, CountInv, Pause
<1>8. RedoInv'
  BY DEF RedoInv, RecordingTypeOK, InTake, Never, TickInv, Duration, OutcomeInv, Stopping, Flag, Pause
<1>9. FailsForCause'
  BY DEF FailsForCause, RecordingTypeOK, JoinInv, FirstFrameInv, LoopOver, Pause, InTake
<1> QED BY <1>1, <1>2, <1>3, <1>4, <1>5, <1>6, <1>7, <1>8, <1>9

LEMMA ResumeKeeps ==
    ASSUME RecordingInv, Resume
    PROVE  RecordingInv'
<1> USE DEF RecordingInv, takeVars, diskVars
<1>1. RecordingTypeOK'
  BY DEF RecordingTypeOK, Flag, Mishap, Never, CountInv, TickInv, Duration, Resume, InTake
<1>2. CountInv'
  BY DEF CountInv, RecordingTypeOK, FailsForCause, Resume, InTake
<1>3. TickInv'
  BY DEF TickInv, RecordingTypeOK, Duration, Resume, InTake
<1>4. OutcomeInv'
  BY DEF OutcomeInv, RecordingTypeOK, Stopping, Flag, Resume, InTake
<1>5. JoinInv'
  BY DEF JoinInv, RecordingTypeOK, LoopOver, Mishap, Resume, InTake
<1>6. BufferIsOfThisTake'
  BY DEF BufferIsOfThisTake, RecordingTypeOK, LoopOver, JoinInv, CountInv, Resume, InTake
<1>7. FirstFrameInv'
  BY DEF FirstFrameInv, RecordingTypeOK, InTake, JoinInv, LoopOver, OutcomeInv, TickInv, Duration, Stopping, Flag, BufferIsOfThisTake, CountInv, Resume
<1>8. RedoInv'
  BY DEF RedoInv, RecordingTypeOK, InTake, Never, TickInv, Duration, OutcomeInv, Stopping, Flag, Resume
<1>9. FailsForCause'
  BY DEF FailsForCause, RecordingTypeOK, JoinInv, FirstFrameInv, LoopOver, Resume, InTake
<1> QED BY <1>1, <1>2, <1>3, <1>4, <1>5, <1>6, <1>7, <1>8, <1>9

(* A take begins with an empty buffer and no exit_early. *)
LEMMA BeginTakeKeeps ==
    ASSUME RecordingInv, BeginTake
    PROVE  RecordingInv'
<1> USE DEF RecordingInv, takeVars, diskVars
<1>1. RecordingTypeOK'
  BY DEF RecordingTypeOK, Flag, Mishap, Never, CountInv, TickInv, Duration, BeginTake, Begin, Stopping
<1>2. CountInv'
  BY DEF CountInv, RecordingTypeOK, FailsForCause, BeginTake, Begin, Stopping
<1>3. TickInv'
  BY DEF TickInv, RecordingTypeOK, Duration, BeginTake, Begin, Stopping
<1>4. OutcomeInv'
  BY DEF OutcomeInv, RecordingTypeOK, Stopping, Flag, BeginTake, Begin
<1>5. JoinInv'
  BY DEF JoinInv, RecordingTypeOK, LoopOver, Mishap, BeginTake, Begin, Stopping
<1>6. BufferIsOfThisTake'
  BY DEF BufferIsOfThisTake, RecordingTypeOK, LoopOver, JoinInv, CountInv, BeginTake, Begin, Stopping
<1>7. FirstFrameInv'
  BY DEF FirstFrameInv, RecordingTypeOK, InTake, JoinInv, LoopOver, OutcomeInv, TickInv, Duration, Stopping, Flag, BufferIsOfThisTake, CountInv, BeginTake, Begin
<1>8. RedoInv'
  BY DEF RedoInv, RecordingTypeOK, InTake, Never, TickInv, Duration, OutcomeInv, Stopping, Flag, BeginTake, Begin
<1>9. FailsForCause'
  BY DEF FailsForCause, RecordingTypeOK, JoinInv, FirstFrameInv, LoopOver, BeginTake, Begin, Stopping
<1> QED BY <1>1, <1>2, <1>3, <1>4, <1>5, <1>6, <1>7, <1>8, <1>9

LEMMA LoopEndsKeeps ==
    ASSUME RecordingInv, LoopEnds
    PROVE  RecordingInv'
<1> USE DEF RecordingInv, takeVars, diskVars
<1>1. RecordingTypeOK'
  BY DEF RecordingTypeOK, Flag, Mishap, Never, CountInv, TickInv, Duration, LoopEnds, Stopping
<1>2. CountInv'
  BY DEF CountInv, RecordingTypeOK, FailsForCause, LoopEnds, Stopping
<1>3. TickInv'
  BY DEF TickInv, RecordingTypeOK, Duration, LoopEnds, Stopping
<1>4. OutcomeInv'
  BY DEF OutcomeInv, RecordingTypeOK, Stopping, Flag, LoopEnds
<1>5. JoinInv'
  BY DEF JoinInv, RecordingTypeOK, LoopOver, Mishap, LoopEnds, Stopping
<1>6. BufferIsOfThisTake'
  BY DEF BufferIsOfThisTake, RecordingTypeOK, LoopOver, JoinInv, CountInv, LoopEnds, Stopping
<1>7. FirstFrameInv'
  BY DEF FirstFrameInv, RecordingTypeOK, InTake, JoinInv, LoopOver, OutcomeInv, TickInv, Duration, Stopping, Flag, BufferIsOfThisTake, CountInv, LoopEnds
<1>8. RedoInv'
  BY DEF RedoInv, RecordingTypeOK, InTake, Never, TickInv, Duration, OutcomeInv, Stopping, Flag, LoopEnds
<1>9. FailsForCause'
  BY DEF FailsForCause, RecordingTypeOK, JoinInv, FirstFrameInv, LoopOver, LoopEnds, Stopping
<1> QED BY <1>1, <1>2, <1>3, <1>4, <1>5, <1>6, <1>7, <1>8, <1>9

(* What an iteration sees, in order. *)
LEMMA LookKeeps ==
    ASSUME RecordingInv, Look
    PROVE  RecordingInv'
<1> USE DEF RecordingInv, takeVars, diskVars
<1>1. RecordingTypeOK'
  BY DEF RecordingTypeOK, Flag, Mishap, Never, CountInv, TickInv, Duration, Look, Seen
<1>2. CountInv'
  BY DEF CountInv, RecordingTypeOK, FailsForCause, Look, Seen
<1>3. TickInv'
  BY DEF TickInv, RecordingTypeOK, Duration, Look, Seen
<1>4. OutcomeInv'
  BY DEF OutcomeInv, RecordingTypeOK, Stopping, Flag, Look, Seen
<1>5. JoinInv'
  <2>1. Stopping => Seen # "none"
    BY DEF Seen
  <2>2. worker \in {"joined", "over"} => Stopping
    BY DEF Stopping
  <2>3. worker = "over" => at' = "ended"
    BY <2>1, <2>2 DEF Look
  <2>4. at = "look" /\ at' \in {"drive", "ended"} /\ UNCHANGED <<worker, buffer, flushed, saved, mishap>>
    BY DEF Look
  <2> QED BY <2>3, <2>4 DEF JoinInv, LoopOver
<1>6. BufferIsOfThisTake'
  BY DEF BufferIsOfThisTake, RecordingTypeOK, LoopOver, JoinInv, CountInv, Look, Seen
<1>7. FirstFrameInv'
  BY DEF FirstFrameInv, RecordingTypeOK, InTake, JoinInv, LoopOver, OutcomeInv, TickInv, Duration, Stopping, Flag, BufferIsOfThisTake, CountInv, Look, Seen
<1>8. RedoInv'
  <2>1. at = "look" /\ outcome' = Seen /\ UNCHANGED <<record, elapsed, redo>>
    BY DEF Look
  <2>2. at' = IF Seen = "none" THEN "drive" ELSE "ended"
    BY DEF Look
  <2>3. flags'["rerecord"] = flags["rerecord"]
    BY DEF Look, RecordingTypeOK, Flag
  <2>4. CASE redo = Never
    BY <2>1, <2>4 DEF RedoInv, Never
  <2>5. CASE redo # Never /\ record
    <3>1. flags["rerecord"] /\ elapsed \in {redo, redo + 1}
      BY <2>1, <2>5 DEF RedoInv, InTake
    <3>2. Seen \in {"done", "stopped", "rerecord"}
      BY <2>5, <3>1 DEF Seen
    <3>3. redo < TakeTicks - 1 => Seen # "done"
      BY <2>5, <3>1 DEF Seen, Duration, RecordingTypeOK, Never
    <3> QED BY <2>1, <2>2, <2>5, <3>2, <3>3 DEF RedoInv, InTake
  <2>6. redo # Never => record
    BY DEF RedoInv
  <2> QED BY <2>4, <2>5, <2>6
<1>9. FailsForCause'
  BY DEF FailsForCause, RecordingTypeOK, JoinInv, FirstFrameInv, LoopOver, Look, Seen
<1> QED BY <1>1, <1>2, <1>3, <1>4, <1>5, <1>6, <1>7, <1>8, <1>9

LEMMA DriveKeeps ==
    ASSUME RecordingInv, Drive
    PROVE  RecordingInv'
<1> USE DEF RecordingInv, takeVars, diskVars
<1>1. RecordingTypeOK'
  BY DEF RecordingTypeOK, Flag, Mishap, Never, CountInv, TickInv, Duration, Drive, Fails
<1>2. CountInv'
  BY DEF CountInv, RecordingTypeOK, FailsForCause, Drive, Fails
<1>3. TickInv'
  BY DEF TickInv, RecordingTypeOK, Duration, Drive, Fails
<1>4. OutcomeInv'
  BY DEF OutcomeInv, RecordingTypeOK, Stopping, Flag, Drive, Fails
<1>5. JoinInv'
  BY DEF JoinInv, RecordingTypeOK, LoopOver, Mishap, Drive, Fails
<1>6. BufferIsOfThisTake'
  BY DEF BufferIsOfThisTake, RecordingTypeOK, LoopOver, JoinInv, CountInv, Drive, Fails
<1>7. FirstFrameInv'
  BY DEF FirstFrameInv, RecordingTypeOK, InTake, JoinInv, LoopOver, OutcomeInv, TickInv, Duration, Stopping, Flag, BufferIsOfThisTake, CountInv, Drive, Fails
<1>8. RedoInv'
  BY DEF RedoInv, RecordingTypeOK, InTake, Never, TickInv, Duration, OutcomeInv, Stopping, Flag, Drive, Fails
<1>9. FailsForCause'
  BY DEF FailsForCause, RecordingTypeOK, JoinInv, FirstFrameInv, LoopOver, Drive, Fails
<1> QED BY <1>1, <1>2, <1>3, <1>4, <1>5, <1>6, <1>7, <1>8, <1>9

LEMMA StoreKeeps ==
    ASSUME RecordingInv, Store
    PROVE  RecordingInv'
<1> USE DEF RecordingInv, takeVars, diskVars
<1>1. RecordingTypeOK'
  <2>1. mishap' \subseteq Mishap
    BY DEF RecordingTypeOK, Mishap, Store, Fails
  <2>2. buffer' \in Nat /\ told' \in 0..NumEpisodes /\ saved' \in {told', told' + 1} /\ flushed' \in 0..saved'
    BY DEF RecordingTypeOK, CountInv, Store, Fails
  <2>3. elapsed' \in 0..(TakeTicks + ResetTicks) /\ redo' \in 0..Never'
    BY DEF RecordingTypeOK, Never, Store, Fails
  <2>4. flags' \in [Flag -> BOOLEAN] /\ paused' \in BOOLEAN /\ record' \in BOOLEAN
    BY DEF RecordingTypeOK, Flag, Store, Fails
  <2>5. worker' \in {"running", "joining", "joined", "over"}
    BY DEF RecordingTypeOK, Store, Fails
  <2>6. at' \in {"next", "look", "drive", "store", "pace", "ended", "save", "count", "over", "failed"}
    BY DEF RecordingTypeOK, Store, Fails
  <2>7. outcome' \in {"none", "done", "exit_early", "rerecord", "stopped"}
    BY DEF RecordingTypeOK, Store, Fails
  <2> QED BY <2>1, <2>2, <2>3, <2>4, <2>5, <2>6, <2>7 DEF RecordingTypeOK
<1>2. CountInv'
  BY DEF CountInv, RecordingTypeOK, FailsForCause, Store, Fails
<1>3. TickInv'
  BY DEF TickInv, RecordingTypeOK, Duration, Store, Fails
<1>4. OutcomeInv'
  BY DEF OutcomeInv, RecordingTypeOK, Stopping, Flag, Store, Fails
<1>5. JoinInv'
  BY DEF JoinInv, RecordingTypeOK, LoopOver, Mishap, Store, Fails
<1>6. BufferIsOfThisTake'
  BY DEF BufferIsOfThisTake, RecordingTypeOK, LoopOver, JoinInv, CountInv, Store, Fails
<1>7. FirstFrameInv'
  BY DEF FirstFrameInv, RecordingTypeOK, InTake, JoinInv, LoopOver, OutcomeInv, TickInv, Duration, Stopping, Flag, BufferIsOfThisTake, CountInv, Store, Fails
<1>8. RedoInv'
  BY DEF RedoInv, RecordingTypeOK, InTake, Never, TickInv, Duration, OutcomeInv, Stopping, Flag, Store, Fails
<1>9. FailsForCause'
  BY DEF FailsForCause, RecordingTypeOK, JoinInv, FirstFrameInv, LoopOver, Store, Fails
<1> QED BY <1>1, <1>2, <1>3, <1>4, <1>5, <1>6, <1>7, <1>8, <1>9

LEMMA PaceKeeps ==
    ASSUME RecordingInv, Pace
    PROVE  RecordingInv'
<1> USE DEF RecordingInv, takeVars, diskVars
<1>1. RecordingTypeOK'
  BY DEF RecordingTypeOK, Flag, Mishap, Never, CountInv, TickInv, Duration, Pace
<1>2. CountInv'
  BY DEF CountInv, RecordingTypeOK, FailsForCause, Pace
<1>3. TickInv'
  BY DEF TickInv, RecordingTypeOK, Duration, Pace
<1>4. OutcomeInv'
  BY DEF OutcomeInv, RecordingTypeOK, Stopping, Flag, Pace
<1>5. JoinInv'
  BY DEF JoinInv, RecordingTypeOK, LoopOver, Mishap, Pace
<1>6. BufferIsOfThisTake'
  BY DEF BufferIsOfThisTake, RecordingTypeOK, LoopOver, JoinInv, CountInv, Pace
<1>7. FirstFrameInv'
  BY DEF FirstFrameInv, RecordingTypeOK, InTake, JoinInv, LoopOver, OutcomeInv, TickInv, Duration, Stopping, Flag, BufferIsOfThisTake, CountInv, Pace
<1>8. RedoInv'
  BY DEF RedoInv, RecordingTypeOK, InTake, Never, TickInv, Duration, OutcomeInv, Stopping, Flag, Pace
<1>9. FailsForCause'
  BY DEF FailsForCause, RecordingTypeOK, JoinInv, FirstFrameInv, LoopOver, Pace
<1> QED BY <1>1, <1>2, <1>3, <1>4, <1>5, <1>6, <1>7, <1>8, <1>9

LEMMA ResetEndsKeeps ==
    ASSUME RecordingInv, ResetEnds
    PROVE  RecordingInv'
<1> USE DEF RecordingInv, takeVars, diskVars
<1>1. RecordingTypeOK'
  BY DEF RecordingTypeOK, Flag, Mishap, Never, CountInv, TickInv, Duration, ResetEnds
<1>2. CountInv'
  BY DEF CountInv, RecordingTypeOK, FailsForCause, ResetEnds
<1>3. TickInv'
  BY DEF TickInv, RecordingTypeOK, Duration, ResetEnds
<1>4. OutcomeInv'
  BY DEF OutcomeInv, RecordingTypeOK, Stopping, Flag, ResetEnds
<1>5. JoinInv'
  <2>1. worker' # "over" \/ buffer' = 0 \/ at' \in {"pace", "look", "ended"}
    BY DEF BufferIsOfThisTake, ResetEnds
  <2>2. worker' \in {"joined", "over"} => LoopOver' \/ "overrun" \in mishap'
    BY DEF JoinInv, LoopOver, ResetEnds
  <2>3. worker' = "over" /\ "overrun" \notin mishap' => flushed' = saved'
    <3>1. UNCHANGED <<worker, mishap, flushed, saved>>
      BY DEF ResetEnds
    <3> QED BY <3>1 DEF JoinInv
  <2> QED BY <2>1, <2>2, <2>3 DEF JoinInv
<1>6. BufferIsOfThisTake'
  BY DEF BufferIsOfThisTake, RecordingTypeOK, LoopOver, JoinInv, CountInv, ResetEnds
<1>7. FirstFrameInv'
  BY DEF FirstFrameInv, RecordingTypeOK, InTake, JoinInv, LoopOver, OutcomeInv, TickInv, Duration, Stopping, Flag, BufferIsOfThisTake, CountInv, ResetEnds
<1>8. RedoInv'
  BY DEF RedoInv, RecordingTypeOK, InTake, Never, TickInv, Duration, OutcomeInv, Stopping, Flag, ResetEnds
<1>9. FailsForCause'
  BY DEF FailsForCause, RecordingTypeOK, JoinInv, FirstFrameInv, LoopOver, ResetEnds
<1> QED BY <1>1, <1>2, <1>3, <1>4, <1>5, <1>6, <1>7, <1>8, <1>9

LEMMA DropTakeKeeps ==
    ASSUME RecordingInv, DropTake
    PROVE  RecordingInv'
<1> USE DEF RecordingInv, takeVars, diskVars
<1>1. RecordingTypeOK'
  BY DEF RecordingTypeOK, Flag, Mishap, Never, CountInv, TickInv, Duration, DropTake
<1>2. CountInv'
  BY DEF CountInv, RecordingTypeOK, FailsForCause, DropTake
<1>3. TickInv'
  BY DEF TickInv, RecordingTypeOK, Duration, DropTake
<1>4. OutcomeInv'
  BY DEF OutcomeInv, RecordingTypeOK, Stopping, Flag, DropTake
<1>5. JoinInv'
  BY DEF JoinInv, RecordingTypeOK, LoopOver, Mishap, DropTake
<1>6. BufferIsOfThisTake'
  BY DEF BufferIsOfThisTake, RecordingTypeOK, LoopOver, JoinInv, CountInv, DropTake
<1>7. FirstFrameInv'
  BY DEF FirstFrameInv, RecordingTypeOK, InTake, JoinInv, LoopOver, OutcomeInv, TickInv, Duration, Stopping, Flag, BufferIsOfThisTake, CountInv, DropTake
<1>8. RedoInv'
  BY DEF RedoInv, RecordingTypeOK, InTake, Never, TickInv, Duration, OutcomeInv, Stopping, Flag, DropTake
<1>9. FailsForCause'
  BY DEF FailsForCause, RecordingTypeOK, JoinInv, FirstFrameInv, LoopOver, DropTake
<1> QED BY <1>1, <1>2, <1>3, <1>4, <1>5, <1>6, <1>7, <1>8, <1>9

LEMMA KeepTakeKeeps ==
    ASSUME RecordingInv, KeepTake
    PROVE  RecordingInv'
<1> USE DEF RecordingInv, takeVars, diskVars
<1>1. RecordingTypeOK'
  BY DEF RecordingTypeOK, Flag, Mishap, Never, CountInv, TickInv, Duration, KeepTake
<1>2. CountInv'
  BY DEF CountInv, RecordingTypeOK, FailsForCause, KeepTake
<1>3. TickInv'
  BY DEF TickInv, RecordingTypeOK, Duration, KeepTake
<1>4. OutcomeInv'
  BY DEF OutcomeInv, RecordingTypeOK, Stopping, Flag, KeepTake
<1>5. JoinInv'
  <2>1. worker' # "over" \/ buffer' = 0 \/ at' \in {"pace", "look", "ended"}
    BY DEF Stopping, KeepTake
  <2>2. worker' \in {"joined", "over"} => LoopOver' \/ "overrun" \in mishap'
    BY DEF JoinInv, LoopOver, KeepTake
  <2>3. worker' = "over" /\ "overrun" \notin mishap' => flushed' = saved'
    <3>1. UNCHANGED <<worker, mishap, flushed, saved>>
      BY DEF KeepTake
    <3> QED BY <3>1 DEF JoinInv
  <2> QED BY <2>1, <2>2, <2>3 DEF JoinInv
<1>6. BufferIsOfThisTake'
  BY DEF BufferIsOfThisTake, RecordingTypeOK, LoopOver, JoinInv, CountInv, KeepTake
<1>7. FirstFrameInv'
  BY DEF FirstFrameInv, RecordingTypeOK, InTake, JoinInv, LoopOver, OutcomeInv, TickInv, Duration, Stopping, Flag, BufferIsOfThisTake, CountInv, KeepTake
<1>8. RedoInv'
  BY DEF RedoInv, RecordingTypeOK, InTake, Never, TickInv, Duration, OutcomeInv, Stopping, Flag, KeepTake
<1>9. FailsForCause'
  BY DEF FailsForCause, RecordingTypeOK, JoinInv, FirstFrameInv, LoopOver, KeepTake
<1> QED BY <1>1, <1>2, <1>3, <1>4, <1>5, <1>6, <1>7, <1>8, <1>9

(* A buffer that is empty is the operator's doing, or stop() has taken it. *)
LEMMA SaveKeeps ==
    ASSUME RecordingInv, Save
    PROVE  RecordingInv'
<1> USE DEF RecordingInv, takeVars, diskVars
<1>1. RecordingTypeOK'
  <2>1. mishap' \subseteq Mishap
    BY DEF RecordingTypeOK, Mishap, Save, Fails
  <2>2. buffer' \in Nat /\ told' \in 0..NumEpisodes /\ saved' \in {told', told' + 1} /\ flushed' \in 0..saved'
    BY DEF RecordingTypeOK, CountInv, Save, Fails
  <2>3. elapsed' \in 0..(TakeTicks + ResetTicks) /\ redo' \in 0..Never'
    BY DEF RecordingTypeOK, Never, Save, Fails
  <2>4. flags' \in [Flag -> BOOLEAN] /\ paused' \in BOOLEAN /\ record' \in BOOLEAN
    BY DEF RecordingTypeOK, Flag, Save, Fails
  <2>5. worker' \in {"running", "joining", "joined", "over"}
    BY DEF RecordingTypeOK, Save, Fails
  <2>6. at' \in {"next", "look", "drive", "store", "pace", "ended", "save", "count", "over", "failed"}
    BY DEF RecordingTypeOK, Save, Fails
  <2>7. outcome' \in {"none", "done", "exit_early", "rerecord", "stopped"}
    BY DEF RecordingTypeOK, Save, Fails
  <2> QED BY <2>1, <2>2, <2>3, <2>4, <2>5, <2>6, <2>7 DEF RecordingTypeOK
<1>2. CountInv'
  BY DEF CountInv, RecordingTypeOK, FailsForCause, Save, Fails
<1>3. TickInv'
  BY DEF TickInv, RecordingTypeOK, Duration, Save, Fails
<1>4. OutcomeInv'
  BY DEF OutcomeInv, RecordingTypeOK, Stopping, Flag, Save, Fails
<1>5. JoinInv'
  BY DEF JoinInv, RecordingTypeOK, LoopOver, Mishap, Save, Fails
<1>6. BufferIsOfThisTake'
  BY DEF BufferIsOfThisTake, RecordingTypeOK, LoopOver, JoinInv, CountInv, Save, Fails
<1>7. FirstFrameInv'
  BY DEF FirstFrameInv, RecordingTypeOK, InTake, JoinInv, LoopOver, OutcomeInv, TickInv, Duration, Stopping, Flag, BufferIsOfThisTake, CountInv, Save, Fails
<1>8. RedoInv'
  BY DEF RedoInv, RecordingTypeOK, InTake, Never, TickInv, Duration, OutcomeInv, Stopping, Flag, Save, Fails
<1>9. FailsForCause'
  BY DEF FailsForCause, RecordingTypeOK, JoinInv, FirstFrameInv, LoopOver, Save, Fails
<1> QED BY <1>1, <1>2, <1>3, <1>4, <1>5, <1>6, <1>7, <1>8, <1>9

LEMMA CountKeeps ==
    ASSUME RecordingInv, Count
    PROVE  RecordingInv'
<1> USE DEF RecordingInv, takeVars, diskVars
<1>1. RecordingTypeOK'
  <2>1. mishap' \subseteq Mishap
    BY DEF RecordingTypeOK, Mishap, Count, Begin
  <2>2. buffer' \in Nat /\ told' \in 0..NumEpisodes /\ saved' \in {told', told' + 1} /\ flushed' \in 0..saved'
    BY DEF RecordingTypeOK, CountInv, Count, Begin
  <2>3. elapsed' \in 0..(TakeTicks + ResetTicks) /\ redo' \in 0..Never'
    BY DEF RecordingTypeOK, Never, Count, Begin
  <2>4. flags' \in [Flag -> BOOLEAN] /\ paused' \in BOOLEAN /\ record' \in BOOLEAN
    BY DEF RecordingTypeOK, Flag, Count, Begin
  <2>5. worker' \in {"running", "joining", "joined", "over"}
    BY DEF RecordingTypeOK, Count, Begin
  <2>6. at' \in {"next", "look", "drive", "store", "pace", "ended", "save", "count", "over", "failed"}
    BY DEF RecordingTypeOK, Count, Begin
  <2>7. outcome' \in {"none", "done", "exit_early", "rerecord", "stopped"}
    BY DEF RecordingTypeOK, Count, Begin
  <2> QED BY <2>1, <2>2, <2>3, <2>4, <2>5, <2>6, <2>7 DEF RecordingTypeOK
<1>2. CountInv'
  BY DEF CountInv, RecordingTypeOK, FailsForCause, Count, Begin
<1>3. TickInv'
  BY DEF TickInv, RecordingTypeOK, Duration, Count, Begin
<1>4. OutcomeInv'
  BY DEF OutcomeInv, RecordingTypeOK, Stopping, Flag, Count, Begin
<1>5. JoinInv'
  BY DEF JoinInv, RecordingTypeOK, LoopOver, Mishap, Count, Begin
<1>6. BufferIsOfThisTake'
  BY DEF BufferIsOfThisTake, RecordingTypeOK, LoopOver, JoinInv, CountInv, Count, Begin
<1>7. FirstFrameInv'
  BY DEF FirstFrameInv, RecordingTypeOK, InTake, JoinInv, LoopOver, OutcomeInv, TickInv, Duration, Stopping, Flag, BufferIsOfThisTake, CountInv, Count, Begin
<1>8. RedoInv'
  BY DEF RedoInv, RecordingTypeOK, InTake, Never, TickInv, Duration, OutcomeInv, Stopping, Flag, Count, Begin
<1>9. FailsForCause'
  BY DEF FailsForCause, RecordingTypeOK, JoinInv, FirstFrameInv, LoopOver, Count, Begin
<1> QED BY <1>1, <1>2, <1>3, <1>4, <1>5, <1>6, <1>7, <1>8, <1>9

LEMMA StopKeeps ==
    ASSUME RecordingInv, Stop
    PROVE  RecordingInv'
<1> USE DEF RecordingInv, takeVars, diskVars
<1>1. RecordingTypeOK'
  BY DEF RecordingTypeOK, Flag, Mishap, Never, CountInv, TickInv, Duration, Stop
<1>2. CountInv'
  BY DEF CountInv, RecordingTypeOK, FailsForCause, Stop
<1>3. TickInv'
  BY DEF TickInv, RecordingTypeOK, Duration, Stop
<1>4. OutcomeInv'
  BY DEF OutcomeInv, RecordingTypeOK, Stopping, Flag, Stop
<1>5. JoinInv'
  BY DEF JoinInv, RecordingTypeOK, LoopOver, Mishap, Stop
<1>6. BufferIsOfThisTake'
  BY DEF BufferIsOfThisTake, RecordingTypeOK, LoopOver, JoinInv, CountInv, Stop
<1>7. FirstFrameInv'
  BY DEF FirstFrameInv, RecordingTypeOK, InTake, JoinInv, LoopOver, OutcomeInv, TickInv, Duration, Stopping, Flag, BufferIsOfThisTake, CountInv, Stop
<1>8. RedoInv'
  BY DEF RedoInv, RecordingTypeOK, InTake, Never, TickInv, Duration, OutcomeInv, Stopping, Flag, Stop
<1>9. FailsForCause'
  BY DEF FailsForCause, RecordingTypeOK, JoinInv, FirstFrameInv, LoopOver, Stop
<1> QED BY <1>1, <1>2, <1>3, <1>4, <1>5, <1>6, <1>7, <1>8, <1>9

LEMMA JoinKeeps ==
    ASSUME RecordingInv, Join
    PROVE  RecordingInv'
<1> USE DEF RecordingInv, takeVars, diskVars
<1>1. RecordingTypeOK'
  BY DEF RecordingTypeOK, Flag, Mishap, Never, CountInv, TickInv, Duration, Join
<1>2. CountInv'
  BY DEF CountInv, RecordingTypeOK, FailsForCause, Join
<1>3. TickInv'
  BY DEF TickInv, RecordingTypeOK, Duration, Join
<1>4. OutcomeInv'
  BY DEF OutcomeInv, RecordingTypeOK, Stopping, Flag, Join
<1>5. JoinInv'
  BY DEF JoinInv, RecordingTypeOK, LoopOver, Mishap, Join
<1>6. BufferIsOfThisTake'
  BY DEF BufferIsOfThisTake, RecordingTypeOK, LoopOver, JoinInv, CountInv, Join
<1>7. FirstFrameInv'
  BY DEF FirstFrameInv, RecordingTypeOK, InTake, JoinInv, LoopOver, OutcomeInv, TickInv, Duration, Stopping, Flag, BufferIsOfThisTake, CountInv, Join
<1>8. RedoInv'
  BY DEF RedoInv, RecordingTypeOK, InTake, Never, TickInv, Duration, OutcomeInv, Stopping, Flag, Join
<1>9. FailsForCause'
  BY DEF FailsForCause, RecordingTypeOK, JoinInv, FirstFrameInv, LoopOver, Join
<1> QED BY <1>1, <1>2, <1>3, <1>4, <1>5, <1>6, <1>7, <1>8, <1>9

LEMMA FinalizeKeeps ==
    ASSUME RecordingInv, Finalize
    PROVE  RecordingInv'
<1> USE DEF RecordingInv, takeVars, diskVars
<1>1. RecordingTypeOK'
  BY DEF RecordingTypeOK, Flag, Mishap, Never, CountInv, TickInv, Duration, Finalize
<1>2. CountInv'
  BY DEF CountInv, RecordingTypeOK, FailsForCause, Finalize
<1>3. TickInv'
  BY DEF TickInv, RecordingTypeOK, Duration, Finalize
<1>4. OutcomeInv'
  BY DEF OutcomeInv, RecordingTypeOK, Stopping, Flag, Finalize
<1>5. JoinInv'
  BY DEF JoinInv, RecordingTypeOK, LoopOver, Mishap, Finalize
<1>6. BufferIsOfThisTake'
  BY DEF BufferIsOfThisTake, RecordingTypeOK, LoopOver, JoinInv, CountInv, Finalize
<1>7. FirstFrameInv'
  BY DEF FirstFrameInv, RecordingTypeOK, InTake, JoinInv, LoopOver, OutcomeInv, TickInv, Duration, Stopping, Flag, BufferIsOfThisTake, CountInv, Finalize
<1>8. RedoInv'
  BY DEF RedoInv, RecordingTypeOK, InTake, Never, TickInv, Duration, OutcomeInv, Stopping, Flag, Finalize
<1>9. FailsForCause'
  BY DEF FailsForCause, RecordingTypeOK, JoinInv, FirstFrameInv, LoopOver, Finalize
<1> QED BY <1>1, <1>2, <1>3, <1>4, <1>5, <1>6, <1>7, <1>8, <1>9

LEMMA RecordingInitHolds == RecordingInit => RecordingInv
<1> SUFFICES ASSUME RecordingInit PROVE RecordingInv OBVIOUS
<1> USE DEF RecordingInit
<1>1. RecordingTypeOK
  <2>1. flags \in [Flag -> BOOLEAN]
    BY DEF Flag
  <2>2. redo \in 0..Never /\ elapsed \in 0..(TakeTicks + ResetTicks)
    BY DEF Never
  <2>3. buffer \in Nat /\ told \in 0..NumEpisodes /\ saved \in {told, told + 1} /\ flushed \in 0..saved
    OBVIOUS
  <2>4. worker = "running" /\ at = "next" /\ record \in BOOLEAN /\ outcome = "none" /\ paused \in BOOLEAN /\ mishap = {}
    OBVIOUS
  <2> HIDE DEF RecordingInit
  <2> QED BY <2>1, <2>2, <2>3, <2>4 DEF RecordingTypeOK, Mishap
<1>2. CountInv /\ TickInv /\ OutcomeInv /\ JoinInv
  BY DEF CountInv, TickInv, OutcomeInv, JoinInv
<1>3. BufferIsOfThisTake /\ FirstFrameInv /\ RedoInv /\ FailsForCause
  BY DEF BufferIsOfThisTake, FirstFrameInv, InTake, RedoInv, FailsForCause, Flag
<1> QED BY <1>1, <1>2, <1>3 DEF RecordingInv

LEMMA RecordingStutterKeeps == RecordingInv /\ UNCHANGED recordingVars => RecordingInv'
<1> SUFFICES ASSUME RecordingInv, UNCHANGED recordingVars PROVE RecordingInv' OBVIOUS
<1> USE DEF RecordingInv, recordingVars, takeVars, diskVars
<1>1. RecordingTypeOK' /\ CountInv' /\ TickInv' /\ OutcomeInv'
  BY DEF RecordingTypeOK, CountInv, TickInv, OutcomeInv, Duration, Stopping
<1>2. JoinInv' /\ BufferIsOfThisTake' /\ FirstFrameInv' /\ RedoInv' /\ FailsForCause'
  BY DEF JoinInv, LoopOver, BufferIsOfThisTake, FirstFrameInv, InTake, RedoInv, FailsForCause
<1> QED BY <1>1, <1>2

LEMMA RecordingStepKeeps == RecordingInv /\ [RecordingNext]_recordingVars => RecordingInv'
<1> SUFFICES ASSUME RecordingInv, [RecordingNext]_recordingVars PROVE RecordingInv' OBVIOUS
<1>1. ASSUME NEW f \in Flag, Press(f) PROVE RecordingInv'
  BY <1>1, PressKeeps
<1>2. CASE Loop
  BY <1>2, BeginTakeKeeps, LoopEndsKeeps, LookKeeps, DriveKeeps, StoreKeeps, PaceKeeps, ResetEndsKeeps,
     DropTakeKeeps, KeepTakeKeeps, SaveKeeps, CountKeeps DEF Loop
<1>3. CASE Pause \/ Resume \/ Stop \/ Join \/ Finalize
  BY <1>3, PauseKeeps, ResumeKeeps, StopKeeps, JoinKeeps, FinalizeKeeps
<1>4. CASE UNCHANGED recordingVars
  BY <1>4, RecordingStutterKeeps
<1> QED BY <1>1, <1>2, <1>3, <1>4 DEF RecordingNext

(* The inductive invariant: what the loop, the flags and the thread in     *)
(* stop() know of each other.                                              *)
THEOREM RecordingInvariance == RecordingSpec => []RecordingInv
<1> QED BY RecordingInitHolds, RecordingStepKeeps, PTL DEF RecordingSpec

(* Every variable stays in its type: what is counted is saved. *)
THEOREM RecordingTypesHold == RecordingSpec => []RecordingTypeOK
<1>1. RecordingInv => RecordingTypeOK
  BY DEF RecordingInv
<1> QED BY <1>1, RecordingInvariance, PTL

(* No frame of a dropped take, or of a reset, is in the next take. *)
THEOREM FramesStayInTheirTake == RecordingSpec => []BufferIsOfThisTake
<1>1. RecordingInv => BufferIsOfThisTake
  BY DEF RecordingInv
<1> QED BY <1>1, RecordingInvariance, PTL

(* A recording fails for a device, or for what the operator did. *)
THEOREM FailuresHaveACause == RecordingSpec => []FailsForCause
<1>1. RecordingInv => FailsForCause
  BY DEF RecordingInv
<1> QED BY <1>1, RecordingInvariance, PTL

(* What is saved is flushed. *)
THEOREM SavedIsFlushed == RecordingSpec => []AllFlushed
<1>1. RecordingInv => AllFlushed
  BY DEF RecordingInv, JoinInv, AllFlushed
<1> QED BY <1>1, RecordingInvariance, PTL

(* A take that is asked to be recorded again in time is not saved. *)
THEOREM RedoIsHeeded == RecordingSpec => RerecordWins
<1> DEFINE Heeded == saved' # saved /\ redo # Never => redo >= TakeTicks - 1
<1>1. RecordingInv /\ [RecordingNext]_recordingVars => [Heeded]_recordingVars
  <2> SUFFICES ASSUME RecordingInv, [RecordingNext]_recordingVars, saved' # saved, redo # Never
              PROVE  redo >= TakeTicks - 1
    OBVIOUS
  <2>1. Save
    BY DEF RecordingNext, Press, Pause, Resume, Loop, BeginTake, LoopEnds, Look, Drive, Store, Pace, ResetEnds,
           DropTake, KeepTake, Count, Stop, Join, Finalize, recordingVars, diskVars
  <2>2. at = "save" /\ record
    BY <2>1 DEF Save, RecordingInv, CountInv
  <2>3. redo \in Nat /\ ~(redo < TakeTicks - 1)
    BY <2>2 DEF RecordingInv, RedoInv, RecordingTypeOK, Never
  <2> QED BY <2>3
<1> QED BY <1>1, RecordingInvariance, PTL DEF RecordingSpec, RerecordWins

-----------------------------------------------------------------------------
(* The directory of datasets: types *)

(* A directory that may be put under a name. *)
Sound(d) ==
    /\ d \in Directories
    /\ d.data = {} => d = Nothing
    /\ d.sent \/ d.whole => d.meta

(* A process that is under way may go to this place; the session slot it   *)
(* keeps, or does not get.                                                 *)
MayGo(p, place) ==
    /\ p \in Process
    /\ place \in Place
    /\ op[p].at \notin Ended
    /\ op[p].at \in InSession <=> place \in InSession

LEMMA NothingIsSound == Sound(Nothing)
BY DEF Sound, Nothing, Directories

LEMMA DirectoryIsSound ==
    ASSUME NEW p \in Process, NEW sent \in BOOLEAN, NEW whole \in BOOLEAN
    PROVE  Sound(Directory({p}, sent, whole))
BY DEF Sound, Directory, Directories, Nothing

LEMMA AddsIsSound ==
    ASSUME TypeOK, NEW p \in Process, NEW n \in Name, NEW meta \in BOOLEAN, NEW whole \in BOOLEAN,
           whole => meta, disk[n].sent => meta
    PROVE  Sound(Adds(p, n, meta, whole))
BY DEF TypeOK, DiskOK, Sound, Adds, Directories, Nothing

LEMMA DiskIsSound ==
    ASSUME TypeOK, NEW n \in Name
    PROVE  Sound(disk[n])
BY DEF TypeOK, DiskOK, Sound

LEMMA AtTyped ==
    ASSUME TypeOK, NEW p \in Process, NEW place \in Place, op[p].at \notin Ended
    PROVE  /\ At(p, place) \in Operations
           /\ At(p, place).at = place
           /\ At(p, place).kind = op[p].kind
           /\ place \notin Ended =>
                /\ At(p, place).from = op[p].from
                /\ At(p, place).to = op[p].to
                /\ op[p].from \in Name /\ op[p].to \in Name
<1>1. op[p] \in Operations /\ op[p].from \in Name /\ op[p].to \in Name
  BY DEF TypeOK, OperationsOK
<1>2. CASE place \in Ended
  <2>1. At(p, place) = [kind |-> op[p].kind, from |-> NoName, to |-> NoName,
                        fresh |-> FALSE, good |-> FALSE, at |-> place]
    BY <1>2 DEF At, Idle
  <2>2. At(p, place) \in Operations
    BY <1>1, <2>1 DEF Operations
  <2>3. At(p, place).at = place /\ At(p, place).kind = op[p].kind
    BY <2>1
  <2> QED BY <1>2, <2>2, <2>3
<1>3. CASE place \notin Ended
  <2>1. At(p, place) = [op[p] EXCEPT !.at = place]
    BY <1>3 DEF At
  <2> QED BY <1>1, <1>3, <2>1 DEF Operations
<1> QED BY <1>2, <1>3

LEMMA GotoTyped ==
    ASSUME TypeOK, NEW p, NEW place, MayGo(p, place), Goto(p, place), slot' = slot
    PROVE  /\ OperationsOK'
           /\ op'[p] = At(p, place)
           /\ \A q \in Process \ {p} : op'[q] = op[q]
<1> USE DEF MayGo
<1>1. /\ op'[p] = At(p, place)
      /\ \A q \in Process \ {p} : op'[q] = op[q]
  BY DEF TypeOK, OperationsOK, Goto
<1>2. op' \in [Process -> Operations]
  BY AtTyped DEF TypeOK, OperationsOK, Goto
<1>3. ASSUME NEW q \in Process
      PROVE  /\ op'[q].at \notin Ended => op'[q].from \in Name /\ op'[q].to \in Name
             /\ op'[q].at \in InSession <=> slot' = q
  <2>1. CASE q = p
    BY <2>1, <1>1, AtTyped DEF TypeOK, OperationsOK
  <2>2. CASE q # p
    BY <2>2, <1>1 DEF TypeOK, OperationsOK
  <2> QED BY <2>1, <2>2
<1> QED BY <1>1, <1>2, <1>3 DEF OperationsOK

LEMMA StepsTyped ==
    ASSUME TypeOK, NEW p, NEW place, MayGo(p, place), Steps(p, place)
    PROVE  TypeOK'
<1>1. OperationsOK'
  BY GotoTyped DEF Steps
<1> QED BY <1>1 DEF Steps, TypeOK, DiskOK

LEMMA PutsTyped ==
    ASSUME TypeOK, NEW p, NEW place, MayGo(p, place), NEW n \in Name, NEW d, Sound(d), Puts(p, place, n, d)
    PROVE  /\ TypeOK'
           /\ disk'[n] = d
           /\ \A k \in Name \ {n} : disk'[k] = disk[k]
<1>1. OperationsOK'
  BY GotoTyped DEF Puts
<1>2. /\ disk' \in [Name -> Directories]
      /\ disk'[n] = d
      /\ \A k \in Name \ {n} : disk'[k] = disk[k]
  BY DEF Puts, TypeOK, DiskOK, Sound
<1>3. DiskOK'
  BY <1>2 DEF TypeOK, DiskOK, Sound
<1>4. overtaken' \subseteq Process
  BY DEF Puts, Overtakes, TypeOK
<1> QED BY <1>1, <1>2, <1>3, <1>4 DEF Puts, TypeOK

-----------------------------------------------------------------------------
(* A step of q that changes no other name than these, makes no other busy, *)
(* and is remembered by all who looked at one of them.                     *)
Confined(q, names) ==
    /\ \A p \in Process \ {q} : op'[p] = op[p]
    /\ \A n \in Name \ names : disk'[n] = disk[n]
    /\ \A n \in Name \ names : IsBusy(n)' => IsBusy(n)
    /\ overtaken \subseteq overtaken'
    /\ \A p \in Process \ {q} : Looked(p) \cap names # {} => p \in overtaken'

LEMMA OthersSeeTheSame ==
    ASSUME DatasetsInv, NEW q \in Process, NEW names, Confined(q, names),
           NEW p \in Process \ {q}
    PROVE  /\ RightPlace(p)'
           /\ p \notin overtaken' => SeenIsSo(p)'
<1>1. op'[p] = op[p] /\ p \in Process
  BY DEF Confined
<1>2. RightPlace(p)'
  BY <1>1 DEF DatasetsInv, RightPlace
<1>3. ASSUME p \notin overtaken'
      PROVE  SeenIsSo(p)'
  <2>1. SeenIsSo(p) /\ RightPlace(p) /\ Looked(p) \cap names = {}
    BY <1>3, <1>1 DEF Confined, DatasetsInv
  <2>2. op[p].at \notin Ended => op[p].from \in Name /\ op[p].to \in Name
    BY <1>1 DEF DatasetsInv, TypeOK, OperationsOK
  <2>3. ASSUME NEW n \in Name, n \in Looked(p)
        PROVE  /\ disk'[n] = disk[n]
               /\ IsBusy(n)' => IsBusy(n)
    BY <2>1, <2>3 DEF Confined
  <2>4. CASE op[p].at = "target" /\ op[p].kind # "import"
    <3>1. op[p].from \in Looked(p) /\ op[p].from \in Name
      BY <2>2, <2>4 DEF Looked, Ended
    <3>2. Listed(op[p].from)' /\ ~IsBusy(op[p].from)'
      BY <2>1, <2>3, <2>4, <3>1, <1>1 DEF SeenIsSo, Listed
    <3> QED BY <3>2, <2>4, <1>1 DEF SeenIsSo
  <2>5. CASE op[p].at \in {"create", "fill", "stage", "move"}
    <3>1. /\ op[p].from \in Looked(p) /\ op[p].from \in Name
          /\ op[p].to \in Looked(p) /\ op[p].to \in Name
      BY <2>2, <2>5 DEF Looked, Ended
    <3>2. /\ disk'[op[p].from] = disk[op[p].from]
          /\ disk'[op[p].to] = disk[op[p].to]
      BY <2>3, <3>1
    <3>3. IsBusy(op[p].from)' => IsBusy(op[p].from)
      BY <2>3, <3>1, <1>1 DEF IsBusy
    <3> QED BY <2>1, <2>5, <3>2, <3>3, <1>1 DEF SeenIsSo, Listed, Exists, Mine
  <2>6. CASE op[p].at \in {"download", "fetch", "check", "receive", "swap", "install"}
    <3>1. op[p].to \in Looked(p) /\ op[p].to \in Name
      BY <2>2, <2>6 DEF Looked, Ended
    <3>2. disk'[op[p].to] = disk[op[p].to]
      BY <2>3, <3>1
    <3> QED BY <2>1, <2>6, <3>2, <1>1 DEF SeenIsSo, Listed, Exists, Mine
  <2>7. CASE /\ ~(op[p].at = "target" /\ op[p].kind # "import")
             /\ op[p].at \notin {"create", "fill", "stage", "move", "download", "fetch", "check",
                                 "receive", "swap", "install"}
    BY <2>7, <1>1 DEF SeenIsSo
  <2> QED BY <2>4, <2>5, <2>6, <2>7
<1> QED BY <1>2, <1>3

LEMMA ConfinedKeeps ==
    ASSUME DatasetsInv, NEW q \in Process, NEW names, Confined(q, names), TypeOK',
           RightPlace(q)', q \notin overtaken => SeenIsSo(q)'
    PROVE  DatasetsInv'
<1>1. ASSUME NEW p \in Process
      PROVE  RightPlace(p)' /\ (p \notin overtaken' => SeenIsSo(p)')
  BY OthersSeeTheSame DEF Confined
<1> QED BY <1>1 DEF DatasetsInv

(* Who is busy with what does not change when a process only moves on.     *)
LEMMA BusyStays ==
    ASSUME TypeOK, NEW p, NEW place, MayGo(p, place), Goto(p, place), slot' = slot,
           NEW n, IsBusy(n)'
    PROVE  IsBusy(n)
<1>1. /\ op'[p] = At(p, place)
      /\ \A q \in Process \ {p} : op'[q] = op[q]
  BY GotoTyped
<1>2. slot # Nobody /\ slot \in Process
  BY DEF IsBusy, TypeOK
<1>3. CASE slot = p
  <2>1. op[p].at \in InSession /\ place \in InSession
    BY <1>3, <1>2 DEF TypeOK, OperationsOK, MayGo
  <2>2. place \notin Ended
    BY <2>1 DEF InSession, Ended
  <2>3. op'[p].to = op[p].to /\ op'[p].kind = op[p].kind
    BY <1>1, <2>2, AtTyped DEF MayGo
  <2> QED BY <1>2, <1>3, <2>3 DEF IsBusy
<1>4. CASE slot # p
  BY <1>1, <1>2, <1>4 DEF IsBusy
<1> QED BY <1>3, <1>4

(* What is to be shown of the process that moves. *)
Fits(p) ==
    /\ RightPlace(p)'
    /\ p \notin overtaken => SeenIsSo(p)'

LEMMA StepsKeep ==
    ASSUME DatasetsInv, NEW p, NEW place, MayGo(p, place), Steps(p, place), Fits(p)
    PROVE  DatasetsInv'
<1>1. TypeOK'
  BY StepsTyped DEF DatasetsInv
<1>2. Confined(p, {})
  BY GotoTyped, BusyStays DEF Confined, Steps, DatasetsInv
<1> QED BY <1>1, <1>2, ConfinedKeeps DEF Fits, MayGo

LEMMA PutsKeep ==
    ASSUME DatasetsInv, NEW p, NEW place, MayGo(p, place), NEW n \in Name, NEW d, Sound(d),
           Puts(p, place, n, d), Fits(p)
    PROVE  DatasetsInv'
<1>1. /\ TypeOK'
      /\ \A k \in Name \ {n} : disk'[k] = disk[k]
  BY PutsTyped DEF DatasetsInv
<1>2. \A q \in Process \ {p} : op'[q] = op[q]
  BY GotoTyped DEF Puts, DatasetsInv
<1>3. \A k \in Name : IsBusy(k)' => IsBusy(k)
  BY BusyStays DEF Puts, DatasetsInv
<1>4. Confined(p, {n})
  BY <1>1, <1>2, <1>3 DEF Confined, Puts, Overtakes
<1> QED BY <1>1, <1>4, ConfinedKeeps DEF Fits, MayGo
(* It ends, or it goes on with what it has. *)
LEMMA WentThere ==
    ASSUME DatasetsInv, NEW p, NEW place, MayGo(p, place), Goto(p, place), slot' = slot
    PROVE  /\ op'[p].at = place
           /\ op'[p].kind = op[p].kind
           /\ place \notin Ended =>
                /\ op'[p].from = op[p].from
                /\ op'[p].to = op[p].to
                /\ op[p].from \in Name /\ op[p].to \in Name
           /\ place \in Ended => Fits(p)
<1>1. /\ op'[p] = At(p, place)
      /\ p \in Process
      /\ place \in Place
      /\ op[p].at \notin Ended
  BY GotoTyped DEF DatasetsInv, MayGo
<1>2. /\ op'[p].at = place
      /\ op'[p].kind = op[p].kind
      /\ place \notin Ended =>
           /\ op'[p].from = op[p].from
           /\ op'[p].to = op[p].to
           /\ op[p].from \in Name /\ op[p].to \in Name
  BY <1>1, AtTyped DEF DatasetsInv
<1>3. place \in Ended => Fits(p)
  BY <1>2 DEF Fits, RightPlace, SeenIsSo, Ended
<1> QED BY <1>2, <1>3

LEMMA StepsToEnd ==
    ASSUME DatasetsInv, NEW p, NEW place \in Ended, MayGo(p, place), Steps(p, place)
    PROVE  DatasetsInv'
BY WentThere, StepsKeep DEF Steps

LEMMA PutsAtEnd ==
    ASSUME DatasetsInv, NEW p, NEW place \in Ended, MayGo(p, place), NEW n \in Name, NEW d, Sound(d),
           Puts(p, place, n, d)
    PROVE  DatasetsInv'
BY WentThere, PutsKeep DEF Puts

-----------------------------------------------------------------------------
(* The operations *)

LEMMA RequestKeeps ==
    ASSUME DatasetsInv, NEW p \in Process, Request(p)
    PROVE  DatasetsInv'
<1>1. PICK k \in Kind, a \in Name, b \in Name :
         op' = [op EXCEPT ![p] =
           [kind |-> k, from |-> a, to |-> b, fresh |-> FALSE, good |-> FALSE, at |-> Start(k)]]
  BY DEF Request
<1> DEFINE place == Start(k)
<1>c. /\ place \in {"source", "target", "ask", "construct", "claim"}
      /\ place = "source" <=> k \in {"edit", "split", "rename"}
      /\ place = "target" <=> k = "import"
      /\ place = "ask" <=> k = "upload"
      /\ place \in {"construct", "claim"} <=> k \in {"record", "coach"}
  BY DEF Kind, Start
<1>2. /\ op[p].at = "idle"
      /\ UNCHANGED <<disk, slot, training, overtaken>>
  BY DEF Request
<1>3. op'[p] = [kind |-> k, from |-> a, to |-> b, fresh |-> FALSE, good |-> FALSE, at |-> place]
  BY <1>1 DEF DatasetsInv, TypeOK, OperationsOK
<1>4. \A q \in Process \ {p} : op'[q] = op[q]
  BY <1>1 DEF DatasetsInv, TypeOK, OperationsOK
<1>5. slot # p
  BY <1>2 DEF DatasetsInv, TypeOK, OperationsOK, InSession
<1>6. TypeOK'
  <2>1. op'[p] \in Operations
    BY <1>3, <1>c DEF Operations, Place
  <2>2. op' \in [Process -> Operations]
    BY <2>1, <1>1, <1>3 DEF DatasetsInv, TypeOK, OperationsOK
  <2>3. OperationsOK'
    BY <2>2, <1>2, <1>3, <1>4, <1>5, <1>c DEF DatasetsInv, TypeOK, OperationsOK, InSession
  <2> QED BY <2>3, <1>2 DEF DatasetsInv, TypeOK, DiskOK
<1>7. \A n \in Name : IsBusy(n)' => IsBusy(n)
  BY <1>2, <1>4, <1>5 DEF IsBusy, DatasetsInv, TypeOK
<1>8. Confined(p, {})
  BY <1>2, <1>4, <1>7 DEF Confined
<1>9. RightPlace(p)' /\ SeenIsSo(p)'
  BY <1>3, <1>c DEF RightPlace, SeenIsSo
<1> QED BY <1>6, <1>8, <1>9, ConfinedKeeps

LEMMA RequireSourceKeeps ==
    ASSUME DatasetsInv, NEW p \in Process, RequireSource(p)
    PROVE  DatasetsInv'
<1>1. MayGo(p, "target") /\ MayGo(p, "refused")
  BY DEF RequireSource, MayGo, Ended, InSession, Place
<1>2. CASE Listed(op[p].from) /\ ~IsBusy(op[p].from)
  <2>1. Steps(p, "target")
    BY <1>2 DEF RequireSource
  <2>2. ~IsBusy(op[p].from)'
    BY <1>1, <2>1, <1>2, WentThere, BusyStays DEF Steps, Ended, DatasetsInv, IsBusy
  <2>3. Fits(p)
    BY <1>1, <2>1, <2>2, <1>2, WentThere
       DEF Steps, RequireSource, Fits, RightPlace, SeenIsSo, Ended, DatasetsInv, Listed
  <2> QED BY <1>1, <2>1, <2>3, StepsKeep
<1>3. CASE ~(Listed(op[p].from) /\ ~IsBusy(op[p].from))
  <2>1. Steps(p, "refused")
    BY <1>3 DEF RequireSource
  <2> QED BY <1>1, <2>1, StepsToEnd DEF Ended
<1> QED BY <1>2, <1>3

LEMMA RequireNewKeeps ==
    ASSUME DatasetsInv, NEW p \in Process, RequireNew(p)
    PROVE  DatasetsInv'
<1> DEFINE place == AfterTarget(p)
<1>1. op[p].at = "target" /\ op[p].kind \in {"edit", "split", "rename", "import"}
  BY DEF RequireNew, DatasetsInv, RightPlace
<1>2. /\ place \in {"create", "stage", "move", "download"}
      /\ place = "create" <=> op[p].kind = "edit"
      /\ place = "stage" <=> op[p].kind = "split"
      /\ place = "move" <=> op[p].kind = "rename"
      /\ place = "download" <=> op[p].kind = "import"
  BY <1>1 DEF AfterTarget
<1>3. MayGo(p, place) /\ MayGo(p, "refused")
  BY <1>1, <1>2 DEF MayGo, Ended, InSession, Place
<1>4. CASE ~Exists(op[p].to)
  <2>1. Steps(p, place)
    BY <1>4 DEF RequireNew
  <2> HIDE DEF place
  <2>2. /\ op'[p].at = place /\ op'[p].kind = op[p].kind
        /\ op'[p].from = op[p].from /\ op'[p].to = op[p].to
    BY <1>2, <1>3, <2>1, WentThere DEF Steps, Ended
  <2>3. IsBusy(op[p].from)' => IsBusy(op[p].from)
    BY <1>3, <2>1, <2>2, BusyStays DEF Steps, DatasetsInv, IsBusy
  <2>4. Fits(p)
    BY <1>1, <1>2, <1>4, <2>1, <2>2, <2>3
       DEF Steps, Fits, RightPlace, SeenIsSo, DatasetsInv, Listed, Exists
  <2> QED BY <1>3, <2>1, <2>4, StepsKeep
<1>5. CASE Exists(op[p].to)
  <2>1. Steps(p, "refused")
    BY <1>5 DEF RequireNew
  <2> QED BY <1>3, <2>1, StepsToEnd DEF Ended
<1> QED BY <1>4, <1>5

LEMMA CreateKeeps ==
    ASSUME DatasetsInv, NEW p \in Process, Create(p)
    PROVE  DatasetsInv'
<1>1. MayGo(p, "fill") /\ MayGo(p, "failed") /\ op[p].to \in Name /\ op[p].kind = "edit"
  BY DEF Create, MayGo, Ended, InSession, Place, DatasetsInv, TypeOK, OperationsOK, RightPlace
<1>2. CASE Listed(op[p].from) /\ ~Exists(op[p].to)
  <2> DEFINE d == Directory({p}, FALSE, FALSE)
  <2>1. Puts(p, "fill", op[p].to, d) /\ Sound(d) /\ d.data = {p}
    BY <1>2, DirectoryIsSound DEF Create, Directory
  <2> HIDE DEF d
  <2>2. disk'[op[p].to] = d
    BY <1>1, <2>1, PutsTyped DEF DatasetsInv
  <2>3. op'[p].at = "fill" /\ op'[p].kind = "edit" /\ op'[p].to = op[p].to
    BY <1>1, <2>1, WentThere DEF Puts, Ended
  <2>4. Fits(p)
    BY <2>1, <2>2, <2>3 DEF Fits, RightPlace, SeenIsSo, Mine
  <2> QED BY <1>1, <2>1, <2>4, PutsKeep
<1>3. CASE ~(Listed(op[p].from) /\ ~Exists(op[p].to))
  <2>1. Steps(p, "failed")
    BY <1>3 DEF Create
  <2> QED BY <1>1, <2>1, StepsToEnd DEF Ended
<1> QED BY <1>2, <1>3

LEMMA FillKeeps ==
    ASSUME DatasetsInv, NEW p \in Process, Fill(p)
    PROVE  DatasetsInv'
<1>1. MayGo(p, "done") /\ MayGo(p, "failed") /\ op[p].to \in Name
  BY DEF Fill, MayGo, Ended, InSession, Place, DatasetsInv, TypeOK, OperationsOK
<1>2. CASE Mine(p) /\ Listed(op[p].from) /\ Puts(p, "done", op[p].to, Adds(p, op[p].to, TRUE, TRUE))
  <2>1. Sound(Adds(p, op[p].to, TRUE, TRUE))
    BY <1>1, AddsIsSound DEF DatasetsInv
  <2> QED BY <1>1, <1>2, <2>1, PutsAtEnd DEF Ended
<1>3. CASE Steps(p, "failed")
  BY <1>1, <1>3, StepsToEnd DEF Ended
<1> QED BY <1>2, <1>3 DEF Fill

LEMMA StageKeeps ==
    ASSUME DatasetsInv, NEW p \in Process, Stage(p)
    PROVE  DatasetsInv'
<1>1. MayGo(p, "move") /\ MayGo(p, "failed") /\ op[p].at = "stage" /\ op[p].kind = "split"
  BY DEF Stage, MayGo, Ended, InSession, Place, DatasetsInv, RightPlace
<1>2. CASE Listed(op[p].from) /\ Steps(p, "move")
  <2>1. /\ op'[p].at = "move" /\ op'[p].kind = "split"
        /\ op'[p].from = op[p].from /\ op'[p].to = op[p].to
    BY <1>1, <1>2, WentThere DEF Steps, Ended
  <2>2. IsBusy(op[p].from)' => IsBusy(op[p].from)
    BY <1>1, <1>2, <2>1, BusyStays DEF Steps, DatasetsInv, IsBusy
  <2>3. Fits(p)
    BY <1>1, <1>2, <2>1, <2>2 DEF Steps, Fits, RightPlace, SeenIsSo, DatasetsInv, Listed, Exists
  <2> QED BY <1>1, <1>2, <2>3, StepsKeep
<1>3. CASE Steps(p, "failed")
  BY <1>1, <1>3, StepsToEnd DEF Ended
<1> QED BY <1>2, <1>3 DEF Stage

LEMMA MoveSplitKeeps ==
    ASSUME DatasetsInv, NEW p \in Process, MoveSplit(p)
    PROVE  DatasetsInv'
<1>1. MayGo(p, "done") /\ op[p].to \in Name
  BY DEF MoveSplit, MayGo, Ended, InSession, Place, DatasetsInv, TypeOK, OperationsOK
<1>2. CASE Exists(op[p].to)
  BY <1>1, <1>2, StepsToEnd DEF MoveSplit, Ended
<1>3. CASE ~Exists(op[p].to)
  BY <1>1, <1>3, DirectoryIsSound, PutsAtEnd DEF MoveSplit, Ended
<1> QED BY <1>2, <1>3

LEMMA MoveRenamedKeeps ==
    ASSUME DatasetsInv, NEW p \in Process, MoveRenamed(p)
    PROVE  DatasetsInv'
<1>1. MayGo(p, "done") /\ MayGo(p, "failed") /\ op[p].from \in Name /\ op[p].to \in Name
  BY DEF MoveRenamed, MayGo, Ended, InSession, Place, DatasetsInv, TypeOK, OperationsOK
<1>2. CASE Listed(op[p].from)
  <2> DEFINE a == op[p].from
             b == op[p].to
             to == IF Exists(b) THEN disk[b] ELSE disk[a]
  <2>1. /\ Goto(p, "done")
        /\ disk' = [disk EXCEPT ![b] = IF Exists(b) THEN @ ELSE disk[a], ![a] = IF a = b THEN @ ELSE Nothing]
        /\ Overtakes(p, {a, b})
        /\ slot' = slot /\ training' = training
    BY <1>2 DEF MoveRenamed
  <2>2. Sound(to) /\ Sound(disk[b]) /\ Sound(Nothing)
    BY <1>1, DiskIsSound, NothingIsSound DEF DatasetsInv
  <2>3. /\ disk' \in [Name -> Directories]
        /\ \A n \in Name \ {a, b} : disk'[n] = disk[n]
        /\ \A n \in {a, b} : disk'[n] \in {to, disk[b], Nothing}
    BY <1>1, <2>1, <2>2 DEF DatasetsInv, TypeOK, DiskOK, Sound
  <2>4. DiskOK'
    BY <1>1, <2>2, <2>3 DEF DatasetsInv, TypeOK, DiskOK, Sound
  <2>5. OperationsOK' /\ \A q \in Process \ {p} : op'[q] = op[q]
    BY <1>1, <2>1, GotoTyped DEF DatasetsInv
  <2>6. TypeOK'
    BY <2>1, <2>4, <2>5 DEF DatasetsInv, TypeOK, Overtakes
  <2>7. Fits(p)
    BY <1>1, <2>1, WentThere DEF Ended
  <2>8. \A k \in Name : IsBusy(k)' => IsBusy(k)
    BY <1>1, <2>1, BusyStays DEF DatasetsInv
  <2>9. Confined(p, {a, b})
    BY <2>1, <2>3, <2>5, <2>8 DEF Confined, Overtakes
  <2> QED BY <2>6, <2>7, <2>9, ConfinedKeeps DEF Fits
<1>3. CASE ~Listed(op[p].from)
  BY <1>1, <1>3, StepsToEnd DEF MoveRenamed, Ended
<1> QED BY <1>2, <1>3

LEMMA DownloadKeeps ==
    ASSUME DatasetsInv, NEW p \in Process, Download(p)
    PROVE  DatasetsInv'
<1>1. MayGo(p, "fetch") /\ op[p].to \in Name /\ op[p].kind = "import" /\ op[p].at = "download"
  BY DEF Download, MayGo, Ended, InSession, Place, DatasetsInv, TypeOK, OperationsOK, RightPlace
<1> DEFINE n == op[p].to
<1>2. PICK meta \in BOOLEAN : Puts(p, "fetch", n, Adds(p, n, Listed(n) \/ meta, FALSE))
  BY DEF Download
<1> DEFINE d == Adds(p, n, Listed(n) \/ meta, FALSE)
<1>3. Sound(disk[n])
  BY <1>1, DiskIsSound DEF DatasetsInv
<1>4. d.data = disk[n].data \cup {p} /\ d.sent = disk[n].sent
  BY DEF Adds
<1>5. Sound(d)
  BY <1>1, <1>3, AddsIsSound DEF DatasetsInv, Sound, Listed
<1>p. Puts(p, "fetch", n, d)
  BY <1>2
<1> HIDE DEF d
<1>6. disk'[n] = d
  BY <1>1, <1>p, <1>5, PutsTyped DEF DatasetsInv
<1>7. op'[p].at = "fetch" /\ op'[p].kind = "import" /\ op'[p].to = n
  BY <1>1, <1>2, WentThere DEF Puts, Ended
<1>8. p \notin overtaken => disk[n].data = {}
  BY <1>1 DEF DatasetsInv, SeenIsSo, Exists
<1>9. Fits(p)
  BY <1>4, <1>6, <1>7, <1>8 DEF Fits, RightPlace, SeenIsSo
<1> QED BY <1>1, <1>p, <1>5, <1>9, PutsKeep

LEMMA FetchKeeps ==
    ASSUME DatasetsInv, NEW p \in Process, Fetch(p)
    PROVE  DatasetsInv'
<1>1. /\ MayGo(p, "check") /\ MayGo(p, "failed")
      /\ op[p].to \in Name /\ op[p].kind = "import" /\ op[p].at = "fetch"
  BY DEF Fetch, MayGo, Ended, InSession, Place, DatasetsInv, TypeOK, OperationsOK, RightPlace
<1> DEFINE n == op[p].to
           d == Adds(p, n, TRUE, disk[n].whole \/ Mine(p))
<1>2. Sound(disk[n])
  BY <1>1, DiskIsSound DEF DatasetsInv
<1>3. p \notin overtaken => disk[n].data = {p} /\ Mine(p)
  BY <1>1 DEF DatasetsInv, SeenIsSo, Mine
<1>4. CASE Puts(p, "check", n, d)
  <2>1. d.data = disk[n].data \cup {p} /\ (Mine(p) => d.whole)
    BY DEF Adds
  <2>2. Sound(d)
    BY <1>1, <1>2, AddsIsSound DEF DatasetsInv, Sound, Mine
  <2> HIDE DEF d
  <2>3. disk'[n] = d
    BY <1>1, <1>4, <2>2, PutsTyped DEF DatasetsInv
  <2>4. op'[p].at = "check" /\ op'[p].kind = "import" /\ op'[p].to = n
    BY <1>1, <1>4, WentThere DEF Puts, Ended
  <2>5. p \notin overtaken => d.data = {p} /\ d.whole
    BY <1>3, <2>1
  <2>6. Fits(p)
    BY <2>3, <2>4, <2>5 DEF Fits, RightPlace, SeenIsSo
  <2> QED BY <1>1, <1>4, <2>2, <2>6, PutsKeep
<1>5. CASE ~Listed(n) /\ Steps(p, "check")
  <2>1. op'[p].at = "check" /\ op'[p].kind = "import" /\ op'[p].to = n
    BY <1>1, <1>5, WentThere DEF Steps, Ended
  <2>2. Fits(p)
    BY <1>3, <1>5, <2>1 DEF Steps, Fits, RightPlace, SeenIsSo, Listed
  <2> QED BY <1>1, <1>5, <2>2, StepsKeep
<1>6. CASE Steps(p, "failed")
  BY <1>1, <1>6, StepsToEnd DEF Ended
<1> QED BY <1>4, <1>5, <1>6 DEF Fetch

LEMMA CheckImportKeeps ==
    ASSUME DatasetsInv, NEW p \in Process, CheckImport(p)
    PROVE  DatasetsInv'
<1>1. MayGo(p, "done") /\ MayGo(p, "failed") /\ op[p].to \in Name
  BY DEF CheckImport, MayGo, Ended, InSession, Place, DatasetsInv, TypeOK, OperationsOK
<1>2. CASE Listed(op[p].to)
  BY <1>1, <1>2, StepsToEnd DEF CheckImport, Ended
<1>3. CASE ~Listed(op[p].to)
  BY <1>1, <1>3, NothingIsSound, PutsAtEnd DEF CheckImport, Ended
<1> QED BY <1>2, <1>3

-----------------------------------------------------------------------------
(* An archive comes in *)

LEMMA AskKeeps ==
    ASSUME DatasetsInv, NEW p \in Process, Ask(p)
    PROVE  DatasetsInv'
<1>1. MayGo(p, "receive") /\ MayGo(p, "refused") /\ op[p].kind = "upload"
  BY DEF Ask, MayGo, Ended, InSession, Place, DatasetsInv, RightPlace
<1>2. CASE ~Refuses(p) /\ Steps(p, "receive")
  <2>1. op'[p].at = "receive" /\ op'[p].kind = "upload" /\ op'[p].to = op[p].to
    BY <1>1, <1>2, WentThere DEF Steps, Ended
  <2>2. Fits(p)
    BY <1>2, <2>1 DEF Steps, Fits, RightPlace, SeenIsSo, Refuses, Exists
  <2> QED BY <1>1, <1>2, <2>2, StepsKeep
<1>3. CASE Steps(p, "refused")
  BY <1>1, <1>3, StepsToEnd DEF Ended
<1> QED BY <1>2, <1>3 DEF Ask

LEMMA ReceiveKeeps ==
    ASSUME DatasetsInv, NEW p \in Process, Receive(p)
    PROVE  DatasetsInv'
<1>1. /\ MayGo(p, "failed") /\ op[p].at = "receive" /\ op[p].kind = "upload"
      /\ op[p] \in Operations /\ op[p].from \in Name /\ op[p].to \in Name /\ slot # p
  BY DEF Receive, MayGo, Ended, InSession, Place, DatasetsInv, RightPlace, TypeOK, OperationsOK
<1>2. CASE \E good \in BOOLEAN :
              /\ op' = [op EXCEPT ![p].at = "swap", ![p].good = good]
              /\ UNCHANGED <<disk, slot, training, overtaken>>
  <2>1. PICK good \in BOOLEAN :
              /\ op' = [op EXCEPT ![p].at = "swap", ![p].good = good]
              /\ UNCHANGED <<disk, slot, training, overtaken>>
    BY <1>2
  <2>2. /\ op'[p] = [op[p] EXCEPT !.at = "swap", !.good = good]
        /\ \A q \in Process \ {p} : op'[q] = op[q]
    BY <2>1 DEF DatasetsInv, TypeOK, OperationsOK
  <2>3. /\ op'[p] \in Operations
        /\ op'[p].at = "swap" /\ op'[p].kind = op[p].kind
        /\ op'[p].from = op[p].from /\ op'[p].to = op[p].to
    BY <1>1, <2>2 DEF Operations, Place
  <2>4. op' \in [Process -> Operations]
    BY <2>1, <2>2, <2>3 DEF DatasetsInv, TypeOK, OperationsOK
  <2>5. TypeOK'
    BY <1>1, <2>1, <2>2, <2>3, <2>4 DEF DatasetsInv, TypeOK, OperationsOK, DiskOK, Ended, InSession
  <2>6. Confined(p, {})
    BY <1>1, <2>1, <2>2 DEF Confined, IsBusy, DatasetsInv, TypeOK
  <2>7. Fits(p)
    BY <1>1, <2>1, <2>3 DEF Fits, RightPlace, SeenIsSo, DatasetsInv, Exists
  <2> QED BY <2>5, <2>6, <2>7, ConfinedKeeps DEF Fits
<1>3. CASE Steps(p, "failed")
  BY <1>1, <1>3, StepsToEnd DEF Ended
<1> QED BY <1>2, <1>3 DEF Receive

LEMMA InstallsKeeps ==
    ASSUME DatasetsInv, NEW p \in Process, op[p].at \in {"swap", "install"}, Installs(p)
    PROVE  DatasetsInv'
<1>1. /\ MayGo(p, "done") /\ MayGo(p, "failed")
      /\ op[p].good \in BOOLEAN /\ op[p].to \in Name
  BY DEF MayGo, Ended, InSession, Place, DatasetsInv, TypeOK, OperationsOK, Operations
<1> DEFINE d == Directory({p}, TRUE, op[p].good)
<1>2. Sound(d)
  BY <1>1, DirectoryIsSound
<1>3. CASE op[p].good
  <2>1. Puts(p, "done", op[p].to, d)
    BY <1>3 DEF Installs
  <2> QED BY <1>1, <1>2, <2>1, PutsAtEnd DEF Ended
<1>4. CASE ~op[p].good
  <2>1. Puts(p, "failed", op[p].to, d)
    BY <1>4 DEF Installs
  <2> QED BY <1>1, <1>2, <2>1, PutsAtEnd DEF Ended
<1> QED BY <1>1, <1>3, <1>4

LEMMA SwapKeeps ==
    ASSUME DatasetsInv, NEW p \in Process, Swap(p)
    PROVE  DatasetsInv'
<1>1. /\ MayGo(p, "install") /\ op[p].to \in Name /\ op[p].kind = "upload"
  BY DEF Swap, MayGo, Ended, InSession, Place, DatasetsInv, TypeOK, OperationsOK, RightPlace
<1>2. CASE Exists(op[p].to)
  <2>1. Puts(p, "install", op[p].to, Nothing)
    BY <1>2 DEF Swap
  <2>2. disk'[op[p].to] = Nothing
    BY <1>1, <2>1, NothingIsSound, PutsTyped DEF DatasetsInv
  <2>3. op'[p].at = "install" /\ op'[p].kind = "upload" /\ op'[p].to = op[p].to
    BY <1>1, <2>1, WentThere DEF Puts, Ended
  <2>4. Fits(p)
    BY <2>2, <2>3 DEF Fits, RightPlace, SeenIsSo, Exists, Nothing
  <2> QED BY <1>1, <2>1, <2>4, NothingIsSound, PutsKeep
<1>3. CASE ~Exists(op[p].to)
  BY <1>3, InstallsKeeps DEF Swap
<1> QED BY <1>2, <1>3

LEMMA InstallKeeps ==
    ASSUME DatasetsInv, NEW p \in Process, Install(p)
    PROVE  DatasetsInv'
<1>1. MayGo(p, "failed")
  BY DEF Install, MayGo, Ended, InSession, Place
<1>2. CASE Exists(op[p].to)
  BY <1>1, <1>2, StepsToEnd DEF Install, Ended
<1>3. CASE ~Exists(op[p].to)
  BY <1>3, InstallsKeeps DEF Install
<1> QED BY <1>2, <1>3

-----------------------------------------------------------------------------
(* A session that records *)

LEMMA ConstructKeeps ==
    ASSUME DatasetsInv, NEW p \in Process, Construct(p)
    PROVE  DatasetsInv'
<1>1. /\ MayGo(p, "refused") /\ op[p].at = "construct" /\ op[p].kind \in {"record", "coach"}
      /\ op[p] \in Operations /\ op[p].from \in Name /\ op[p].to \in Name /\ slot # p
  BY DEF Construct, MayGo, Ended, InSession, Place, DatasetsInv, RightPlace, TypeOK, OperationsOK
<1>2. CASE /\ op' = [op EXCEPT ![p].at = "claim", ![p].fresh = ~Exists(op[p].to)]
           /\ UNCHANGED <<disk, slot, training, overtaken>>
  <2> DEFINE new == ~Exists(op[p].to)
  <2>1. new \in BOOLEAN
    OBVIOUS
  <2> HIDE DEF new
  <2>2. /\ op'[p] = [op[p] EXCEPT !.at = "claim", !.fresh = new]
        /\ \A q \in Process \ {p} : op'[q] = op[q]
    BY <1>2 DEF DatasetsInv, TypeOK, OperationsOK, new
  <2>3. /\ op'[p] \in Operations
        /\ op'[p].at = "claim" /\ op'[p].kind = op[p].kind
        /\ op'[p].from = op[p].from /\ op'[p].to = op[p].to
    BY <1>1, <2>1, <2>2 DEF Operations, Place
  <2>4. op' \in [Process -> Operations]
    BY <1>2, <2>2, <2>3 DEF DatasetsInv, TypeOK, OperationsOK
  <2>5. TypeOK'
    BY <1>1, <1>2, <2>2, <2>3, <2>4 DEF DatasetsInv, TypeOK, OperationsOK, DiskOK, Ended, InSession
  <2>6. Confined(p, {})
    BY <1>1, <1>2, <2>2 DEF Confined, IsBusy, DatasetsInv, TypeOK
  <2>7. Fits(p)
    BY <1>1, <2>3 DEF Fits, RightPlace, SeenIsSo
  <2> QED BY <2>5, <2>6, <2>7, ConfinedKeeps DEF Fits
<1>3. CASE Steps(p, "refused")
  BY <1>1, <1>3, StepsToEnd DEF Ended
<1> QED BY <1>2, <1>3 DEF Construct

LEMMA ClaimKeeps ==
    ASSUME DatasetsInv, NEW p \in Process, Claim(p)
    PROVE  DatasetsInv'
<1>1. /\ MayGo(p, "refused") /\ op[p].at = "claim" /\ op[p].kind \in {"record", "coach"}
      /\ op[p].at \notin Ended /\ op[p].to \in Name
  BY DEF Claim, MayGo, Ended, InSession, Place, DatasetsInv, RightPlace, TypeOK, OperationsOK
<1>2. CASE slot = Nobody
  <2> DEFINE place == IF op[p].kind = "coach" THEN "look" ELSE "open"
  <2>1. /\ slot' = p
        /\ Goto(p, place)
        /\ Overtakes(p, {op[p].to})
        /\ UNCHANGED <<disk, training>>
    BY <1>2 DEF Claim
  <2>2. place \in {"look", "open"} /\ place \in InSession /\ place \in Place /\ place \notin Ended
    BY DEF InSession, Place, Ended
  <2> HIDE DEF place
  <2>3. /\ op'[p] = At(p, place)
        /\ op' = [op EXCEPT ![p] = At(p, place)]
        /\ \A q \in Process \ {p} : op'[q] = op[q]
    BY <2>1 DEF Goto, DatasetsInv, TypeOK, OperationsOK
  <2>4. /\ op'[p] \in Operations
        /\ op'[p].at = place /\ op'[p].kind = op[p].kind
        /\ op'[p].to = op[p].to /\ op'[p].from = op[p].from
        /\ op'[p].to \in Name /\ op'[p].from \in Name
    BY <1>1, <2>2, <2>3, AtTyped DEF DatasetsInv
  <2>5. op' \in [Process -> Operations]
    BY <2>3, <2>4 DEF DatasetsInv, TypeOK, OperationsOK
  <2>6. OperationsOK'
    <3>1. ASSUME NEW q \in Process
          PROVE  /\ op'[q].at \notin Ended => op'[q].from \in Name /\ op'[q].to \in Name
                 /\ op'[q].at \in InSession <=> slot' = q
      BY <1>2, <2>1, <2>2, <2>3, <2>4 DEF DatasetsInv, TypeOK, OperationsOK
    <3> QED BY <2>5, <3>1 DEF OperationsOK
  <2>7. TypeOK'
    BY <2>1, <2>6 DEF DatasetsInv, TypeOK, DiskOK, Overtakes
  <2>8. Confined(p, {op[p].to})
    BY <2>1, <2>3, <2>4 DEF Confined, IsBusy, Overtakes
  <2>9. Fits(p)
    BY <1>1, <2>2, <2>4 DEF Fits, RightPlace, SeenIsSo
  <2> QED BY <2>7, <2>8, <2>9, ConfinedKeeps DEF Fits
<1>3. CASE slot # Nobody
  BY <1>1, <1>3, StepsToEnd DEF Claim, Ended
<1> QED BY <1>2, <1>3

LEMMA EndSessionKeeps ==
    ASSUME DatasetsInv, NEW p \in Process, op[p].at \in InSession,
           NEW place \in {"done", "failed"}, EndSession(p, place)
    PROVE  DatasetsInv'
<1>1. /\ op[p].at \notin Ended /\ place \in Ended /\ place \in Place /\ place \notin InSession
      /\ slot = p /\ slot' = Nobody
  BY DEF InSession, Ended, Place, EndSession, DatasetsInv, TypeOK, OperationsOK
<1>2. /\ op'[p] = At(p, place)
      /\ op' = [op EXCEPT ![p] = At(p, place)]
      /\ \A q \in Process \ {p} : op'[q] = op[q]
  BY DEF EndSession, Goto, DatasetsInv, TypeOK, OperationsOK
<1>3. op'[p] \in Operations /\ op'[p].at = place /\ op'[p].kind = op[p].kind
  BY <1>1, <1>2, AtTyped DEF DatasetsInv
<1>4. op' \in [Process -> Operations]
  BY <1>2, <1>3 DEF DatasetsInv, TypeOK, OperationsOK
<1>5. OperationsOK'
  <2>1. ASSUME NEW q \in Process
        PROVE  /\ op'[q].at \notin Ended => op'[q].from \in Name /\ op'[q].to \in Name
               /\ op'[q].at \in InSession <=> slot' = q
    BY <1>1, <1>2, <1>3 DEF DatasetsInv, TypeOK, OperationsOK
  <2> QED BY <1>4, <2>1 DEF OperationsOK
<1>6. TypeOK'
  BY <1>5 DEF EndSession, DatasetsInv, TypeOK, DiskOK
<1>7. Confined(p, {})
  BY <1>1, <1>2 DEF EndSession, Confined, IsBusy
<1>8. Fits(p)
  BY <1>3 DEF Fits, RightPlace, SeenIsSo
<1> QED BY <1>6, <1>7, <1>8, ConfinedKeeps DEF Fits

LEMMA LookNewKeeps ==
    ASSUME DatasetsInv, NEW p \in Process, LookNew(p)
    PROVE  DatasetsInv'
<1>1. CASE Exists(op[p].to)
  BY <1>1, EndSessionKeeps DEF LookNew, InSession
<1>2. CASE ~Exists(op[p].to)
  <2>1. /\ op' = [op EXCEPT ![p].at = "open", ![p].fresh = TRUE]
        /\ UNCHANGED <<disk, slot, training, overtaken>>
        /\ op[p].at = "look" /\ op[p].kind \in {"record", "coach"}
    BY <1>2 DEF LookNew, DatasetsInv, RightPlace
  <2>2. op[p] \in Operations /\ op[p].from \in Name /\ op[p].to \in Name /\ slot = p
    BY <2>1 DEF DatasetsInv, TypeOK, OperationsOK, InSession, Ended
  <2>3. /\ op'[p] = [op[p] EXCEPT !.at = "open", !.fresh = TRUE]
        /\ \A q \in Process \ {p} : op'[q] = op[q]
    BY <2>1 DEF DatasetsInv, TypeOK, OperationsOK
  <2>4. /\ op'[p] \in Operations
        /\ op'[p].at = "open" /\ op'[p].kind = op[p].kind
        /\ op'[p].from = op[p].from /\ op'[p].to = op[p].to
    BY <2>2, <2>3 DEF Operations, Place, InSession
  <2>5. op' \in [Process -> Operations]
    BY <2>1, <2>3, <2>4 DEF DatasetsInv, TypeOK, OperationsOK
  <2>6. TypeOK'
    BY <2>1, <2>2, <2>3, <2>4, <2>5 DEF DatasetsInv, TypeOK, OperationsOK, DiskOK, InSession
  <2>7. Confined(p, {})
    BY <2>1, <2>2, <2>3, <2>4 DEF Confined, IsBusy
  <2>8. Fits(p)
    BY <2>1, <2>4 DEF Fits, RightPlace, SeenIsSo
  <2> QED BY <2>6, <2>7, <2>8, ConfinedKeeps DEF Fits
<1> QED BY <1>1, <1>2

LEMMA OpenKeeps ==
    ASSUME DatasetsInv, NEW p \in Process, Open(p)
    PROVE  DatasetsInv'
<1>1. MayGo(p, "record") /\ op[p].to \in Name /\ op[p].kind \in {"record", "coach"}
  BY DEF Open, MayGo, Ended, InSession, Place, DatasetsInv, RightPlace, TypeOK, OperationsOK
<1>2. CASE Puts(p, "record", op[p].to, Directory({p}, FALSE, TRUE))
  <2>1. op'[p].at = "record" /\ op'[p].kind = op[p].kind
    BY <1>1, <1>2, WentThere DEF Puts
  <2>2. Fits(p)
    BY <1>1, <2>1 DEF Fits, RightPlace, SeenIsSo
  <2> QED BY <1>1, <1>2, <2>2, DirectoryIsSound, PutsKeep
<1>3. CASE Steps(p, "record")
  <2>1. op'[p].at = "record" /\ op'[p].kind = op[p].kind
    BY <1>1, <1>3, WentThere DEF Steps
  <2>2. Fits(p)
    BY <1>1, <2>1 DEF Fits, RightPlace, SeenIsSo
  <2> QED BY <1>1, <1>3, <2>2, StepsKeep
<1>4. CASE EndSession(p, "failed")
  BY <1>4, EndSessionKeeps DEF Open, InSession
<1> QED BY <1>2, <1>3, <1>4 DEF Open

LEMMA SaveEpisodeKeeps ==
    ASSUME DatasetsInv, NEW p \in Process, SaveEpisode(p)
    PROVE  DatasetsInv'
<1>1. /\ MayGo(p, "record") /\ op[p].to \in Name /\ op[p].kind \in {"record", "coach"}
      /\ Sound(disk[op[p].to])
  BY DiskIsSound
     DEF SaveEpisode, MayGo, Ended, InSession, Place, DatasetsInv, RightPlace, TypeOK, OperationsOK
<1> DEFINE d == Adds(p, op[p].to, TRUE, disk[op[p].to].whole)
<1>2. Puts(p, "record", op[p].to, d)
  BY DEF SaveEpisode
<1>3. disk[op[p].to].whole \in BOOLEAN
  BY <1>1 DEF Sound, Directories
<1>4. Sound(d)
  BY <1>1, <1>3, AddsIsSound DEF DatasetsInv
<1>5. op'[p].at = "record" /\ op'[p].kind = op[p].kind
  BY <1>1, <1>2, WentThere DEF Puts
<1>6. Fits(p)
  BY <1>1, <1>5 DEF Fits, RightPlace, SeenIsSo
<1> QED BY <1>1, <1>2, <1>4, <1>6, PutsKeep

LEMMA EndRecordKeeps ==
    ASSUME DatasetsInv, NEW p \in Process, EndRecord(p)
    PROVE  DatasetsInv'
BY EndSessionKeeps DEF EndRecord, InSession

-----------------------------------------------------------------------------
LEMMA TrainingKeeps ==
    ASSUME DatasetsInv, UNCHANGED <<disk, op, slot, overtaken>>, training' \in Name \cup {NoName}
    PROVE  DatasetsInv'
BY ZenonT(60) DEF DatasetsInv, TypeOK, DiskOK, OperationsOK, RightPlace, SeenIsSo, Listed, Exists, Mine, IsBusy

LEMMA CrashKeeps ==
    ASSUME DatasetsInv, Crash
    PROVE  DatasetsInv'
<1>1. ASSUME NEW p \in Process
      PROVE  op'[p] \in Operations /\ op'[p].at \in Ended
  <2>1. CASE op[p].at \in Ended
    BY <2>1 DEF Crash, DatasetsInv, TypeOK, OperationsOK
  <2>2. CASE op[p].at \notin Ended
    BY <2>2, AtTyped DEF Crash, DatasetsInv, Place, Ended
  <2> QED BY <2>1, <2>2
<1>2. op' \in [Process -> Operations]
  BY <1>1 DEF Crash
<1>3. slot' = Nobody /\ UNCHANGED <<disk, overtaken>> /\ training' = NoName
  BY DEF Crash
<1>4. TypeOK'
  BY <1>1, <1>2, <1>3 DEF DatasetsInv, TypeOK, DiskOK, OperationsOK, Ended, InSession
<1>5. ASSUME NEW p \in Process
      PROVE  RightPlace(p)' /\ SeenIsSo(p)'
  BY <1>1 DEF RightPlace, SeenIsSo, Ended
<1> QED BY <1>4, <1>5 DEF DatasetsInv

LEMMA InitHolds == Init => DatasetsInv
<1> SUFFICES ASSUME Init PROVE DatasetsInv
  OBVIOUS
<1>1. ASSUME NEW n \in Name
      PROVE  Sound(disk[n])
  <2>1. disk[n] = Nothing \/ \E sent \in BOOLEAN : disk[n] = Directory({Nobody}, sent, TRUE)
    BY DEF Init
  <2>2. ASSUME NEW sent \in BOOLEAN, disk[n] = Directory({Nobody}, sent, TRUE)
        PROVE  Sound(disk[n])
    BY <2>2 DEF Sound, Nothing, Directory, Directories
  <2> QED BY <2>1, <2>2, NothingIsSound
<1>2. DiskOK
  <2>1. disk \in [Name -> {Nothing} \cup {Directory({Nobody}, sent, TRUE) : sent \in BOOLEAN}]
    BY DEF Init
  <2>2. disk \in [Name -> Directories]
    BY <1>1, <2>1 DEF Sound
  <2> QED BY <1>1, <2>2 DEF DiskOK, Sound
<1>3. OperationsOK /\ \A p \in Process : op[p].at = "idle"
  BY DEF Init, Idle, OperationsOK, Operations, Kind, Place, Ended, InSession
<1> QED BY <1>2, <1>3 DEF Init, DatasetsInv, TypeOK, RightPlace, SeenIsSo

LEMMA NextKeeps == DatasetsInv /\ [Next]_vars => DatasetsInv'
<1> SUFFICES ASSUME DatasetsInv, [Next]_vars PROVE DatasetsInv'
  OBVIOUS
<1>1. ASSUME NEW p \in Process, Request(p) \/ Operation(p)
      PROVE  DatasetsInv'
  BY <1>1, RequestKeeps, RequireSourceKeeps, RequireNewKeeps, CreateKeeps, FillKeeps, StageKeeps,
     MoveSplitKeeps, MoveRenamedKeeps, DownloadKeeps, FetchKeeps, CheckImportKeeps DEF Operation
<1>2. ASSUME NEW p \in Process, Upload(p) \/ Recorder(p)
      PROVE  DatasetsInv'
  BY <1>2, AskKeeps, ReceiveKeeps, SwapKeeps, InstallKeeps, ConstructKeeps, ClaimKeeps, LookNewKeeps,
     OpenKeeps, SaveEpisodeKeeps, EndRecordKeeps DEF Upload, Recorder
<1>3. CASE \E n \in Name : StartTraining(n)
  BY <1>3, TrainingKeeps DEF StartTraining
<1>4. CASE EndTraining
  BY <1>4, TrainingKeeps DEF EndTraining
<1>5. CASE Crash
  BY <1>5, CrashKeeps
<1>6. CASE UNCHANGED vars
  BY <1>6, TrainingKeeps DEF vars, DatasetsInv, TypeOK
<1> QED BY <1>1, <1>2, <1>3, <1>4, <1>5, <1>6 DEF Next

(* Types hold, and what a process saw of a name is so until another comes  *)
(* across it, for any number of names and processes.                       *)
THEOREM SeenStaysSo == Spec => []DatasetsInv
<1>1. Init => DatasetsInv
  BY InitHolds
<1>2. DatasetsInv /\ [Next]_vars => DatasetsInv'
  BY NextKeeps
<1> QED BY <1>1, <1>2, PTL DEF Spec

-----------------------------------------------------------------------------
(* What becomes of the files under a name that no transfer wrote *)

LEMMA AddedTo ==
    ASSUME TypeOK, NEW n \in Name, NEW k \in Name, NEW p, NEW place, MayGo(p, place),
           NEW meta \in BOOLEAN, NEW whole \in BOOLEAN, whole => meta, disk[k].sent => meta,
           Listed(k) => meta, Puts(p, place, k, Adds(p, k, meta, whole))
    PROVE  disk[n].data \subseteq disk'[n].data /\ (Listed(n) => Listed(n)')
<1>1. Sound(Adds(p, k, meta, whole))
  BY AddsIsSound DEF MayGo
<1>2. /\ disk'[k] = Adds(p, k, meta, whole)
      /\ \A m \in Name \ {k} : disk'[m] = disk[m]
  BY <1>1, PutsTyped
<1> QED BY <1>2 DEF Adds, Listed

LEMMA PutElsewhere ==
    ASSUME TypeOK, NEW n \in Name, NEW k \in Name, n # k, NEW p, NEW place, NEW d, Puts(p, place, k, d)
    PROVE  disk'[n] = disk[n]
BY DEF Puts, TypeOK, DiskOK

(* They stay, unless one who was overtaken takes them away, or they are     *)
(* renamed, or they are what one import left of something that is no       *)
(* dataset.                                                                *)
Survives(n) ==
    \/ disk[n].data \subseteq disk'[n].data /\ (Listed(n) => Listed(n)')
    \/ ByOvertaken
    \/ Listed(n) /\ ~IsBusy(n) /\ \E m \in Name : disk'[m] = disk[n]
    \/ ~Listed(n) /\ \E p \in Process : op[p].at = "check" /\ disk[n].data \subseteq {p}

LEMMA RenamedSurvives ==
    ASSUME DatasetsInv, NEW p \in Process, MoveRenamed(p), NEW n \in Name
    PROVE  Survives(n)
<1>1. op[p].from \in Name /\ op[p].to \in Name /\ MayGo(p, "done")
  BY DEF MoveRenamed, MayGo, Ended, InSession, Place, DatasetsInv, TypeOK, OperationsOK
<1>2. CASE ~Listed(op[p].from)
  BY <1>2 DEF MoveRenamed, Steps, Survives, Listed
<1>3. CASE Listed(op[p].from) /\ p \in overtaken
  <2>1. op'[p].at = "done" /\ op[p].at = "move"
    BY <1>1, <1>3, WentThere DEF MoveRenamed
  <2> QED BY <1>3, <2>1 DEF Survives, ByOvertaken
<1>4. CASE Listed(op[p].from) /\ p \notin overtaken
  <2>1. ~Exists(op[p].to) /\ ~IsBusy(op[p].from) /\ Exists(op[p].from)
    BY <1>1, <1>4 DEF DatasetsInv, SeenIsSo, MoveRenamed, TypeOK, DiskOK, Listed, Exists, Nothing
  <2>2. op[p].from # op[p].to
    BY <2>1
  <2>3. /\ disk'[op[p].to] = disk[op[p].from]
        /\ \A m \in Name \ {op[p].from, op[p].to} : disk'[m] = disk[m]
    BY <1>1, <1>4, <2>1, <2>2 DEF MoveRenamed, DatasetsInv, TypeOK, DiskOK
  <2>4. CASE n = op[p].from
    BY <1>1, <1>4, <2>1, <2>3, <2>4 DEF Survives
  <2>5. CASE n = op[p].to
    BY <2>1, <2>5 DEF DatasetsInv, TypeOK, DiskOK, Survives, Listed, Exists, Nothing
  <2>6. CASE n \notin {op[p].from, op[p].to}
    BY <2>3, <2>6 DEF Survives, Listed
  <2> QED BY <2>4, <2>5, <2>6
<1> QED BY <1>2, <1>3, <1>4

LEMMA OperationSurvives ==
    ASSUME DatasetsInv, NEW p \in Process, Operation(p), NEW n \in Name, Exists(n)
    PROVE  Survives(n)
<1>1. CASE RequireSource(p) \/ RequireNew(p) \/ Stage(p)
  BY <1>1 DEF RequireSource, RequireNew, Stage, Steps, Survives, Listed
<1>2. CASE Create(p)
  <2>1. op[p].to \in Name
    BY <1>2 DEF Create, DatasetsInv, TypeOK, OperationsOK, Ended
  <2>2. disk'[n] = disk[n]
    BY <1>2, <2>1, PutElsewhere DEF Create, Steps, DatasetsInv
  <2> QED BY <2>2 DEF Survives, Listed
<1>3. CASE Fill(p)
  <2>1. op[p].to \in Name /\ MayGo(p, "done")
    BY <1>3 DEF Fill, MayGo, Ended, InSession, Place, DatasetsInv, TypeOK, OperationsOK
  <2>2. CASE Puts(p, "done", op[p].to, Adds(p, op[p].to, TRUE, TRUE))
    BY <2>1, <2>2, AddedTo DEF Survives, DatasetsInv
  <2>3. CASE Steps(p, "failed")
    BY <2>3 DEF Steps, Survives, Listed
  <2> QED BY <1>3, <2>2, <2>3 DEF Fill
<1>4. CASE MoveSplit(p)
  <2>1. op[p].to \in Name
    BY <1>4 DEF MoveSplit, DatasetsInv, TypeOK, OperationsOK, Ended
  <2>2. disk'[n] = disk[n]
    BY <1>4, <2>1, PutElsewhere DEF MoveSplit, Steps, DatasetsInv
  <2> QED BY <2>2 DEF Survives, Listed
<1>5. CASE MoveRenamed(p)
  BY <1>5, RenamedSurvives
<1>6. CASE Download(p)
  <2>1. op[p].to \in Name /\ MayGo(p, "fetch") /\ Sound(disk[op[p].to])
    BY <1>6, DiskIsSound DEF Download, MayGo, Ended, InSession, Place, DatasetsInv, TypeOK, OperationsOK
  <2>2. PICK meta \in BOOLEAN : Puts(p, "fetch", op[p].to, Adds(p, op[p].to, Listed(op[p].to) \/ meta, FALSE))
    BY <1>6 DEF Download
  <2> DEFINE listed == Listed(op[p].to) \/ meta
  <2>3. listed \in BOOLEAN /\ (disk[op[p].to].sent => listed) /\ (Listed(op[p].to) => listed)
    BY <2>1 DEF Sound, Listed
  <2>4. Puts(p, "fetch", op[p].to, Adds(p, op[p].to, listed, FALSE))
    BY <2>2
  <2> HIDE DEF listed
  <2> QED BY <2>1, <2>3, <2>4, AddedTo DEF Survives, DatasetsInv
<1>7. CASE Fetch(p)
  <2>1. op[p].to \in Name /\ MayGo(p, "check")
    BY <1>7 DEF Fetch, MayGo, Ended, InSession, Place, DatasetsInv, TypeOK, OperationsOK
  <2> DEFINE whole == disk[op[p].to].whole \/ Mine(p)
  <2>2. CASE Puts(p, "check", op[p].to, Adds(p, op[p].to, TRUE, whole))
    <3>1. whole \in BOOLEAN
      BY <2>1, DiskIsSound DEF Sound, Directories, Mine, DatasetsInv
    <3> HIDE DEF whole
    <3> QED BY <2>1, <2>2, <3>1, AddedTo DEF Survives, DatasetsInv
  <2>3. CASE disk' = disk
    BY <2>3 DEF Survives, Listed
  <2> QED BY <1>7, <2>2, <2>3 DEF Fetch, Steps
<1>8. CASE CheckImport(p)
  <2>1. op[p].to \in Name /\ MayGo(p, "failed") /\ op[p].at = "check"
    BY <1>8 DEF CheckImport, MayGo, Ended, InSession, Place, DatasetsInv, TypeOK, OperationsOK
  <2>2. CASE Listed(op[p].to)
    BY <1>8, <2>2 DEF CheckImport, Steps, Survives, Listed
  <2>3. CASE ~Listed(op[p].to) /\ n # op[p].to
    <3>1. disk'[n] = disk[n]
      BY <1>8, <2>1, <2>3, PutElsewhere DEF CheckImport, DatasetsInv
    <3> QED BY <3>1 DEF Survives, Listed
  <2>4. CASE ~Listed(op[p].to) /\ n = op[p].to /\ p \in overtaken
    <3>1. op'[p].at = "failed"
      BY <1>8, <2>1, <2>4, WentThere DEF CheckImport, Puts
    <3> QED BY <2>1, <2>4, <3>1 DEF Survives, ByOvertaken
  <2>5. CASE ~Listed(op[p].to) /\ n = op[p].to /\ p \notin overtaken
    BY <2>1, <2>5 DEF Survives, DatasetsInv, SeenIsSo
  <2> QED BY <2>2, <2>3, <2>4, <2>5
<1> QED BY <1>1, <1>2, <1>3, <1>4, <1>5, <1>6, <1>7, <1>8 DEF Operation

LEMMA UploadSurvives ==
    ASSUME DatasetsInv, NEW p \in Process, Upload(p), NEW n \in Name, Exists(n), ~disk[n].sent
    PROVE  Survives(n)
<1>1. CASE Ask(p) \/ Receive(p)
  BY <1>1 DEF Ask, Receive, Steps, Survives, Listed
<1>2. CASE Swap(p) /\ Exists(op[p].to) /\ n = op[p].to
  <2>1. MayGo(p, "install") /\ op[p].at = "swap"
    BY <1>2 DEF Swap, MayGo, Ended, InSession, Place
  <2>2. p \in overtaken
    BY <1>2, <2>1 DEF DatasetsInv, SeenIsSo
  <2>3. op'[p].at = "install"
    BY <1>2, <2>1, WentThere DEF Swap, Puts
  <2> QED BY <2>1, <2>2, <2>3 DEF Survives, ByOvertaken
<1>3. CASE (Swap(p) \/ Install(p)) /\ n # op[p].to
  <2>1. op[p].to \in Name
    BY <1>3 DEF Swap, Install, DatasetsInv, TypeOK, OperationsOK, Ended
  <2>2. disk'[n] = disk[n]
    BY <1>3, <2>1, PutElsewhere DEF Swap, Install, Installs, Steps, DatasetsInv
  <2> QED BY <2>2 DEF Survives, Listed
<1>4. CASE Install(p) /\ Exists(op[p].to)
  BY <1>4 DEF Install, Steps, Survives, Listed
<1> QED BY <1>1, <1>2, <1>3, <1>4 DEF Upload

LEMMA RecorderSurvives ==
    ASSUME DatasetsInv, NEW p \in Process, Recorder(p), NEW n \in Name, Exists(n)
    PROVE  Survives(n)
<1>1. CASE Construct(p) \/ Claim(p) \/ LookNew(p) \/ EndRecord(p)
  BY <1>1 DEF Construct, Claim, LookNew, EndRecord, EndSession, Steps, Survives, Listed
<1>2. CASE Open(p)
  <2>1. op[p].to \in Name
    BY <1>2 DEF Open, DatasetsInv, TypeOK, OperationsOK, Ended
  <2>2. disk'[n] = disk[n]
    BY <1>2, <2>1, PutElsewhere DEF Open, EndSession, Steps, DatasetsInv
  <2> QED BY <2>2 DEF Survives, Listed
<1>3. CASE SaveEpisode(p)
  <2>1. op[p].to \in Name /\ MayGo(p, "record") /\ disk[op[p].to].whole \in BOOLEAN
    BY <1>3, DiskIsSound
       DEF SaveEpisode, MayGo, Ended, InSession, Place, DatasetsInv, TypeOK, OperationsOK, Sound, Directories
  <2> QED BY <1>3, <2>1, AddedTo DEF SaveEpisode, Survives, DatasetsInv
<1> QED BY <1>1, <1>2, <1>3 DEF Recorder

LEMMA NextSurvives ==
    ASSUME DatasetsInv, [Next]_vars, NEW n \in Name, Exists(n), ~disk[n].sent
    PROVE  Survives(n)
<1>1. ASSUME NEW p \in Process, Request(p)
      PROVE  Survives(n)
  BY <1>1 DEF Request, Survives, Listed
<1>2. CASE (\E m \in Name : StartTraining(m)) \/ EndTraining \/ Crash \/ UNCHANGED vars
  BY <1>2 DEF StartTraining, EndTraining, Crash, vars, Survives, Listed
<1> QED BY <1>1, <1>2, OperationSurvives, UploadSurvives, RecorderSurvives DEF Next

LEMMA OwnStays ==
    ASSUME DatasetsInv, [Next]_vars, NEW n \in Name, Listed(n), ~disk[n].sent, NEW d \in disk[n].data
    PROVE  Kept(d)' \/ ByOvertaken
<1>1. Survives(n)
  BY NextSurvives DEF Exists
<1> QED BY <1>1 DEF Survives, Kept, Listed

(* No dataset recorded here is lost to an operation, an import or a        *)
(* transfer that nobody came across (dataset_ops.py:5-6,                   *)
(* routes/datasets.py:245-248).                                            *)
THEOREM NothingIsLost == Spec => OwnIsKept
<1>1. DatasetsInv /\ [Next]_vars =>
        \A n \in Name : Listed(n) /\ ~disk[n].sent => \A d \in disk[n].data : Kept(d)' \/ ByOvertaken
  BY OwnStays
<1> QED BY <1>1, SeenStaysSo, PTL DEF Spec, OwnIsKept

-----------------------------------------------------------------------------
(* A step of one process is no step of another. *)
LEMMA OneMoves ==
    ASSUME DatasetsInv, NEW q \in Process, Request(q) \/ Operation(q) \/ Upload(q) \/ Recorder(q),
           NEW p \in Process, p # q
    PROVE  op'[p] = op[p]
<1> USE DEF DatasetsInv, TypeOK, OperationsOK, Steps, Puts, Goto
<1>1. CASE Request(q)
  BY <1>1 DEF Request
<1>2. CASE Operation(q)
  <2>1. \E place : Goto(q, place)
    BY <1>2 DEF Operation, RequireSource, RequireNew, Create, Fill, Stage, MoveSplit, MoveRenamed,
       Download, Fetch, CheckImport
  <2> QED BY <2>1
<1>3. CASE Upload(q) /\ ~Receive(q)
  <2>1. \E place : Goto(q, place)
    BY <1>3 DEF Upload, Ask, Swap, Install, Installs
  <2> QED BY <2>1
<1>4. CASE Receive(q)
  BY <1>4 DEF Receive
<1>5. CASE Recorder(q) /\ ~Construct(q) /\ ~LookNew(q)
  <2>1. \E place : Goto(q, place)
    BY <1>5 DEF Recorder, Claim, Open, SaveEpisode, EndRecord, EndSession
  <2> QED BY <2>1
<1>6. CASE Construct(q) \/ LookNew(q)
  BY <1>6 DEF Construct, LookNew, EndSession
<1> QED BY <1>1, <1>2, <1>3, <1>4, <1>5, <1>6

LEMMA RecorderKeepsItsName ==
    ASSUME DatasetsInv, [Next]_vars, NEW r \in Process, op[r].at = "record", op'[r].at = "record"
    PROVE  op'[r].to = op[r].to
<1>1. ASSUME NEW q \in Process, Request(q) \/ Operation(q) \/ Upload(q) \/ Recorder(q), q # r
      PROVE  op'[r].to = op[r].to
  BY <1>1, OneMoves
<1>2. CASE Request(r) \/ Operation(r) \/ Upload(r) \/ Recorder(r)
  <2>1. SaveEpisode(r) \/ EndRecord(r)
    BY <1>2 DEF Request, Operation, RequireSource, RequireNew, Create, Fill, Stage, MoveSplit, MoveRenamed,
       Download, Fetch, CheckImport, Upload, Ask, Receive, Swap, Install,
       Recorder, Construct, Claim, LookNew, Open
  <2>2. CASE SaveEpisode(r)
    <3>1. MayGo(r, "record")
      BY DEF MayGo, Ended, InSession, Place
    <3> QED BY <2>2, <3>1, WentThere DEF SaveEpisode, Puts, Ended
  <2>3. CASE EndRecord(r)
    <3>1. PICK place \in {"done", "failed"} : EndSession(r, place)
      BY <2>3 DEF EndRecord
    <3>2. op'[r] = At(r, place)
      BY <3>1 DEF EndSession, Goto, DatasetsInv, TypeOK, OperationsOK
    <3>3. op'[r].at = place
      BY <3>2, AtTyped DEF DatasetsInv, Place, Ended
    <3> QED BY <3>1, <3>3
  <2> QED BY <2>1, <2>2, <2>3
<1>3. CASE (\E m \in Name : StartTraining(m)) \/ EndTraining \/ UNCHANGED vars
  BY <1>3 DEF StartTraining, EndTraining, vars
<1>4. CASE Crash
  <2>1. op'[r] = At(r, "dead")
    BY <1>4 DEF Crash, Ended
  <2>2. op'[r].at = "dead"
    BY <2>1, AtTyped DEF DatasetsInv, Place, Ended
  <2> QED BY <2>2
<1> QED BY <1>1, <1>2, <1>3, <1>4 DEF Next

LEMMA RecordingStays ==
    ASSUME DatasetsInv, [Next]_vars, NEW r \in Process,
           op[r].kind = "record", op[r].at = "record", op'[r].at = "record",
           Mine(r), ~disk[op[r].to].sent
    PROVE  Mine(r)' \/ ByOvertaken
<1> DEFINE n == op[r].to
<1>1. n \in Name /\ slot = r /\ slot # Nobody
  BY DEF DatasetsInv, TypeOK, OperationsOK, Ended, InSession
<1>2. IsBusy(n)
  BY <1>1 DEF IsBusy
<1>3. Survives(n)
  BY <1>1, NextSurvives DEF Exists, Mine
<1>4. op'[r].to = n
  BY RecorderKeepsItsName
<1>5. ASSUME NEW p \in Process, op[p].at = "check", disk[n].data \subseteq {p}
      PROVE  FALSE
  BY <1>5 DEF Mine
<1> QED BY <1>2, <1>3, <1>4, <1>5 DEF Survives, Mine

(* A recording that is under way keeps its dataset under its name against  *)
(* whoever asks after it began (dataset_ops.py:31-32).                     *)
THEOREM RecordingsAreLeftAlone == Spec => RecordingIsLeftAlone
<1>1. DatasetsInv /\ [Next]_vars =>
        \A r \in Process :
          /\ op[r].kind = "record" /\ op[r].at = "record" /\ op'[r].at = "record"
          /\ Mine(r) /\ ~disk[op[r].to].sent
          => Mine(r)' \/ ByOvertaken
  BY RecordingStays
<1> QED BY <1>1, SeenStaysSo, PTL DEF Spec, RecordingIsLeftAlone

-----------------------------------------------------------------------------
(* What is said to be done *)

LEMMA OperationIsTrue ==
    ASSUME DatasetsInv, NEW p \in Process \ overtaken, Operation(p), op'[p].at = "done"
    PROVE  InPlace(p)
<1>1. ASSUME NEW place, MayGo(p, place), Steps(p, place)
      PROVE  op'[p].at = place
  BY <1>1, WentThere DEF Steps
<1>2. CASE RequireSource(p) \/ RequireNew(p) \/ Stage(p) \/ Create(p) \/ Download(p) \/ Fetch(p)
  <2>1. PICK place \in {"target", "refused", "create", "stage", "move", "download", "failed", "fill", "fetch", "check"} :
          Goto(p, place) /\ op[p].at \notin Ended /\ op[p].at \notin InSession
    BY <1>2 DEF RequireSource, RequireNew, AfterTarget, Stage, Create, Download, Fetch, Steps, Puts, Ended, InSession
  <2>2. op'[p] = At(p, place)
    BY <2>1 DEF Goto, DatasetsInv, TypeOK, OperationsOK
  <2>3. place \in Place
    BY <2>1 DEF Place, Ended
  <2>4. op'[p].at = place
    BY <2>1, <2>2, <2>3, AtTyped DEF DatasetsInv
  <2> QED BY <2>1, <2>4
<1>3. CASE Fill(p)
  <2>1. op[p].to \in Name /\ MayGo(p, "done") /\ MayGo(p, "failed") /\ op[p].kind = "edit"
    BY <1>3 DEF Fill, MayGo, Ended, InSession, Place, DatasetsInv, TypeOK, OperationsOK, RightPlace
  <2>2. Puts(p, "done", op[p].to, Adds(p, op[p].to, TRUE, TRUE))
    BY <1>1, <1>3, <2>1 DEF Fill
  <2>3. disk'[op[p].to] = Adds(p, op[p].to, TRUE, TRUE)
    BY <2>1, <2>2 DEF Puts, DatasetsInv, TypeOK, DiskOK
  <2> QED BY <2>1, <2>3 DEF InPlace, Adds
<1>4. CASE MoveSplit(p)
  <2>1. op[p].to \in Name /\ ~Exists(op[p].to) /\ op[p].kind = "split"
    BY <1>4 DEF MoveSplit, DatasetsInv, TypeOK, OperationsOK, Ended, SeenIsSo
  <2>2. disk'[op[p].to] = Directory({p}, FALSE, TRUE)
    BY <1>4, <2>1 DEF MoveSplit, Puts, DatasetsInv, TypeOK, DiskOK
  <2> QED BY <2>1, <2>2 DEF InPlace, Directory
<1>5. CASE MoveRenamed(p)
  <2>1. /\ op[p].to \in Name /\ op[p].from \in Name /\ op[p].kind = "rename"
        /\ ~Exists(op[p].to) /\ Listed(op[p].from) /\ Exists(op[p].from)
    BY <1>5 DEF MoveRenamed, DatasetsInv, TypeOK, OperationsOK, DiskOK, Ended, SeenIsSo, Listed, Exists, Nothing
  <2>2. op[p].from # op[p].to
    BY <2>1
  <2>3. disk'[op[p].to] = disk[op[p].from] /\ disk'[op[p].from] = Nothing
    BY <1>5, <2>1, <2>2 DEF MoveRenamed, DatasetsInv, TypeOK, DiskOK
  <2> QED BY <2>1, <2>3 DEF InPlace
<1>6. CASE CheckImport(p)
  <2>1. op[p].to \in Name /\ MayGo(p, "failed") /\ op[p].kind = "import" /\ op[p].at = "check"
    BY <1>6 DEF CheckImport, MayGo, Ended, InSession, Place, DatasetsInv, TypeOK, OperationsOK, RightPlace
  <2>2. Listed(op[p].to) /\ disk' = disk
    BY <1>6, <2>1, WentThere DEF CheckImport, Steps, Puts
  <2>3. disk[op[p].to].data = {p} /\ disk[op[p].to].whole
    BY <2>1, <2>2 DEF DatasetsInv, SeenIsSo, TypeOK, DiskOK, Listed, Nothing
  <2> QED BY <2>1, <2>2, <2>3 DEF InPlace
<1> QED BY <1>2, <1>3, <1>4, <1>5, <1>6 DEF Operation

LEMMA UploadIsTrue ==
    ASSUME DatasetsInv, NEW p \in Process, Upload(p), op'[p].at = "done"
    PROVE  InPlace(p)
<1>1. op[p].kind = "upload" /\ op[p].at \notin Ended /\ op[p].at \notin InSession
      /\ op[p].to \in Name /\ op[p] \in Operations
  BY DEF Upload, Ask, Receive, Swap, Install, DatasetsInv, RightPlace, Ended, InSession, TypeOK, OperationsOK
<1>2. ASSUME NEW place \in {"receive", "refused", "failed", "install"}, Goto(p, place)
      PROVE  FALSE
  <2>1. op'[p] = At(p, place) /\ place \in Place
    BY <1>2 DEF Goto, DatasetsInv, TypeOK, OperationsOK, Place, Ended
  <2>2. op'[p].at = place
    BY <1>1, <2>1, AtTyped DEF DatasetsInv
  <2> QED BY <1>2, <2>2
<1>3. ~Ask(p)
  BY <1>2 DEF Ask, Steps
<1>4. ~Receive(p)
  <2>1. ASSUME NEW good \in BOOLEAN, op' = [op EXCEPT ![p].at = "swap", ![p].good = good]
        PROVE  FALSE
    <3>1. op'[p] = [op[p] EXCEPT !.at = "swap", !.good = good]
      BY <2>1 DEF DatasetsInv, TypeOK, OperationsOK
    <3> QED BY <1>1, <3>1 DEF Operations
  <2> QED BY <1>2, <2>1 DEF Receive, Steps
<1>5. Installs(p)
  BY <1>2, <1>3, <1>4 DEF Upload, Swap, Install, Steps, Puts
<1>6. op[p].good /\ disk'[op[p].to] = Directory({p}, TRUE, op[p].good)
  BY <1>1, <1>2, <1>5 DEF Installs, Puts, DatasetsInv, TypeOK, DiskOK
<1> QED BY <1>1, <1>6 DEF InPlace, Directory

(* What an operation or a transfer says is done is in place, unless another *)
(* came across it (operations.py:83-86, routes/datasets.py:281-294).       *)
THEOREM WhatIsDoneIsDone == Spec => DoneIsTrue
<1>1. DatasetsInv /\ [Next]_vars =>
        \A p \in Process \ overtaken : op[p].at # "done" /\ op'[p].at = "done" => InPlace(p)
  <2> SUFFICES ASSUME DatasetsInv, [Next]_vars, NEW p \in Process \ overtaken,
                      op[p].at # "done", op'[p].at = "done"
               PROVE  InPlace(p)
    OBVIOUS
  <2>1. ASSUME NEW q \in Process, Request(q) \/ Operation(q) \/ Upload(q) \/ Recorder(q)
        PROVE  q = p
    BY <2>1, OneMoves
  <2>2. CASE Request(p)
    <3>1. PICK k \in Kind : op'[p].at = Start(k)
      BY <2>2 DEF Request, DatasetsInv, TypeOK, OperationsOK
    <3> QED BY <3>1 DEF Start, Kind
  <2>3. CASE Operation(p)
    BY <2>3, OperationIsTrue
  <2>4. CASE Upload(p)
    BY <2>4, UploadIsTrue
  <2>5. CASE Recorder(p)
    <3>1. op[p].kind \in {"record", "coach"}
      BY <2>5 DEF Recorder, Construct, Claim, LookNew, Open, SaveEpisode, EndRecord, DatasetsInv, RightPlace
    <3> QED BY <3>1 DEF InPlace
  <2>6. CASE (\E m \in Name : StartTraining(m)) \/ EndTraining \/ UNCHANGED vars
    BY <2>6 DEF StartTraining, EndTraining, vars
  <2>7. CASE Crash
    <3>1. CASE op[p].at \in Ended
      BY <2>7, <3>1 DEF Crash
    <3>2. CASE op[p].at \notin Ended
      <4>1. op'[p].at = "dead"
        BY <2>7, <3>2, AtTyped DEF Crash, DatasetsInv, Place, Ended
      <4> QED BY <4>1
    <3> QED BY <3>1, <3>2
  <2> QED BY <2>1, <2>2, <2>3, <2>4, <2>5, <2>6, <2>7 DEF Next
<1> QED BY <1>1, SeenStaysSo, PTL DEF Spec, DoneIsTrue
=============================================================================
