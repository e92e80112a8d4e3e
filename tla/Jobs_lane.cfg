SPECIFICATION FairSpec
CONSTANTS
    j1 = j1
    j2 = j2
    NoJob = NoJob
    Job <- MCJob
    MaxLives = 2
INVARIANTS ChildIsRunning
PROPERTIES LedgerRefinement QueueMoves CancelEnds
CHECK_DEADLOCK FALSE
