SPECIFICATION FairSpec
CONSTANTS
    NumEpisodes = 3
    TakeTicks = 3
    ResetTicks = 1
    MaxFrames = 4
    Faulty = TRUE
INVARIANTS RecordingInv FailsForCause
PROPERTIES RerecordWins FinishEnds StopEnds
CHECK_DEADLOCK FALSE
