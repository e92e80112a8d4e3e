SPECIFICATION Spec
CONSTANTS
    p1 = p1
    p2 = p2
    k1 = k1
    s1 = s1
    s2 = s2
    None = None
    Proc <- MCProc
    Checker <- MCChecker
    Session <- MCSession
    MaxEpisodes = 2
    OnHub = FALSE
    HubLedger <- MCHubLedger
SYMMETRY ProcSymmetry
INVARIANTS ExactlyOnce NewIsNew
PROPERTIES LedgerRefinement
