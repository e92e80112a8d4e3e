SPECIFICATION FairSpec
CONSTANTS
    alice = alice
    bob = bob
    Operator <- MCOneOperator
    Nobody = Nobody
    NoTarget = NoTarget
    Low = 0
    High = 6
    Rest = 2
    Sent <- MCWide
    Cap = 5
    SoftStart = 1
    Silence = 1
    MaxFrames = 2
INVARIANTS ParkedIsAtRest
PROPERTIES RateCapped SilentOperatorLeaves AbandonedParks HandlerEnds
