SPECIFICATION Spec
CONSTANTS
    n1 = n1
    n2 = n2
    p1 = p1
    p2 = p2
    p3 = p3
    Nobody = Nobody
    NoName = NoName
    Name = {n1, n2}
    Process = {p1, p2, p3}
SYMMETRY Interchangeable
PROPERTIES OwnIsKept RecordingIsLeftAlone DoneIsTrue
CHECK_DEADLOCK FALSE
