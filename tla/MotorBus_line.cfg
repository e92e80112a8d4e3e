SPECIFICATION Spec
CONSTANTS
    loop = loop
    stopper = stopper
    Free = Free
    Thread <- MCThread
    Retries = 2
    Position = {3}
    Noise = 4
    Short = FALSE
    MaxCalls = 2
    MaxFrames = 3
    MaxPrints = 1
    MaxOpens = 1
SYMMETRY Interchangeable
INVARIANTS ReplyIsFound
PROPERTIES AnswerIsOwnOrLate
CHECK_DEADLOCK FALSE
