\* One bet, two replicas of each consumer: every duplicate and every crash.
SPECIFICATION FairSpec
CONSTANTS
    u1 = u1 b1 = b1 b2 = b2 b3 = b3 r1 = r1 r2 = r2 s1 = s1 s2 = s2
    NoEvent = NoEvent
    Users = {u1}
    Bets = {b1}
    Owner <- OneOwner
    Stake <- OneStake
    Payout <- OnePayout
    Opening <- Purse
    Mismatched = {}
    Lost = {}
    ReserveWorkers = {r1, r2}
    SettleWorkers = {s1, s2}
    MaxCopies = 1
    MaxCrashes = 1
INVARIANTS TypeOK RejectedNeverDebited ProcessedMeansDone
PROPERTIES Lifecycle ImplementsLedger QueuedIsAnswered
