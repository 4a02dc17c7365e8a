\* Finding: a binlog reader that loses its channel.
SPECIFICATION FairSpec
CONSTANTS
    r1 = r1
    r2 = r2
    c1 = c1
    Pollers <- Nobody
    Streamers <- OneStreamer
    WritePublished = TRUE
    MaxRows = 2
    MaxFaults = 1
\* The relays rest when every row is published.
CHECK_DEADLOCK FALSE
PROPERTY
    AtLeastOnce
