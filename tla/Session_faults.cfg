SPECIFICATION FairSpec
CONSTANTS
    s1 = s1
    s2 = s2
    d1 = d1
    Watchdog = Watchdog
    Engine = Engine
    NoSession = NoSession
    Free = Free
    Session <- MCOneSession
    Stopper <- MCStopper
    NeedsLeader <- MCOneSession
    HasCameras <- MCOneSession
    Faulty <- MCOneSession
INVARIANTS EnergisedHasOwner FreedSlotFreesPort
PROPERTIES CutOnlyAtRest SilentArmReleased StopEnds DeadLoopReaped
