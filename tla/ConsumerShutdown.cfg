\* Finding: one SIGTERM, and messages that can all be processed.
SPECIFICATION Spec
CONSTANTS
    p1 = p1
    p2 = p2
    good = good
    bad = bad
    NoMsg = NoMsg
    Procs <- OneProc
    Msgs <- AllMsgs
    Failing <- None
    Prefetch = 2
    MaxLosses = 0
    MaxTerms = 1
INVARIANT
    ShutdownCompletesInFlight
