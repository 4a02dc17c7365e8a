\* Three bets of one wallet: stakes and payouts contend for its row.
SPECIFICATION Spec
CONSTANTS
    u1 = u1 b1 = b1 b2 = b2 b3 = b3 r1 = r1 r2 = r2 s1 = s1 s2 = s2
    NoEvent = NoEvent
    Users = {u1}
    Bets = {b1, b2, b3}
    Owner <- ThreeOwners
    Stake <- ThreeStakes
    Payout <- ThreePayouts
    Opening <- Purse
    Mismatched = {b3}
    Lost = {b2}
    ReserveWorkers = {r1}
    SettleWorkers = {s1}
    MaxCopies = 1
    MaxCrashes = 0
INVARIANTS LedgerExact VersionHeld
