SPECIFICATION FairSpec
CONSTANTS
    c1 = c1
    Client <- MCClient
    Episodes = 1
    MaxDrops = 1
    Faulty = TRUE
INVARIANTS CorrectionIsFree DropsHonoured ArmsReleased
PROPERTIES LeaderReturned ChainFreed
CHECK_DEADLOCK FALSE
