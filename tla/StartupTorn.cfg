\* Finding: a migrator that dies between a CREATE TABLE and its version row.
SPECIFICATION Spec
CONSTANTS
    m = m r = r w = w o = o
    Nobody = Nobody
    Procs <- Two
    Service <- TwoServices
    Root = {m}
    MaxFaults = 1
INVARIANT
    FileRunsAtMostOnce
\* The system rests when everybody is up.
CHECK_DEADLOCK FALSE
