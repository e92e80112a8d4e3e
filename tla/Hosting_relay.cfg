SPECIFICATION Spec
CONSTANTS
    alice = alice
    bob = bob
    Operator <- MCTwoOperators
    Nobody = Nobody
    NoTarget = NoTarget
    Low = 0
    High = 6
    Rest = 2
    Sent <- MCFar
    Cap = 5
    SoftStart = 1
    Silence = 1
    MaxFrames = 1
SYMMETRY MCSymmetry
INVARIANTS OneStray
