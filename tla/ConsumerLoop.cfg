\* Two replicas of a worker, two channels lost or processes killed, and a SIGTERM.
SPECIFICATION FairSpec
CONSTANTS
    p1 = p1
    p2 = p2
    good = good
    bad = bad
    NoMsg = NoMsg
    Procs <- TwoProcs
    Msgs <- AllMsgs
    Failing <- OnlyBad
    Prefetch = 2
    MaxLosses = 2
    MaxTerms = 1
\* The consumers rest when the queue is empty.
CHECK_DEADLOCK FALSE
INVARIANTS
    TypeOK
    AckedMeansCommitted
PROPERTIES
    HealthyDeath
    EveryMessageEnds
    ShutdownEnds
