SPECIFICATION FairSpec
CONSTANTS
    j1 = j1
    j2 = j2
    Job <- MCJob
    MaxPollFailures = 2
    Checkpoints = 1
    MaxLines = 1
    MaxVersion = 2
    MaxCrashes = 1
INVARIANTS EndIsHonest LogIsCopied
PROPERTIES TrainingKeepsItsData LaneFreed CancelEnds
CHECK_DEADLOCK FALSE
