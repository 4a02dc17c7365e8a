\* The migrate job, two services that migrate themselves and odds-service; two faults.
SPECIFICATION FairSpec
CONSTANTS
    m = m r = r w = w o = o
    Nobody = Nobody
    Procs <- Four
    Service <- FourServices
    Root = {m}
    MaxFaults = 2
INVARIANTS
    TypeOK
    RecordedIsComplete
    RefusedHasCause
    ReadyMeansReady
PROPERTY
    EveryoneStarts
\* The system rests when everybody is up.
CHECK_DEADLOCK FALSE
