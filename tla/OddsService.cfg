\* Two updates and a start race two bets and the GETs they make, on the version that opens
\* and on the suspended one.
SPECIFICATION FairSpec
CONSTANTS
    u1 = u1 u2 = u2 d1 = d1 g1 = g1 b1 = b1 b2 = b2
    NoOdds = NoOdds NoRedis = NoRedis
    Updates = {u1, u2}
    Starts = {d1}
    Gets = {}
    Bets = {b1, b2}
    Offer <- MoveThenSuspend
    Asked <- ExpectEither
    Earlier <- Version1
\* Every request ends.
CHECK_DEADLOCK FALSE
INVARIANTS
    TypeOK
    PlacedWasOffered
    WithoutRedisNoBets
PROPERTIES
    CacheConverges
