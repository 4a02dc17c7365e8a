\* Two pollers and a binlog reader over one table, crashes, lost channels, failed commits.
SPECIFICATION FairSpec
CONSTANTS
    r1 = r1
    r2 = r2
    c1 = c1
    Pollers <- TwoPollers
    Streamers <- OneStreamer
    WritePublished = TRUE
    MaxRows = 2
    MaxFaults = 2
\* The relays rest when every row is published.
CHECK_DEADLOCK FALSE
INVARIANTS
    TypeOK
    CausalOrder
    DuplicatesNeedFaults
PROPERTIES
    CommittedIsSent
    ImplementsFeed
