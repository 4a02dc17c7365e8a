\* Finding: u2 stakes 7 and has 5.
SPECIFICATION Spec
CONSTANTS
    u1 = u1 u2 = u2 b1 = b1 b2 = b2 b3 = b3
    Users = {u1, u2}
    Bets = {b1, b2}
    Owner <- TwoOwners
    Stake <- TwoStakes
    Payout <- TwoPayouts
    Opening <- TwoPurses
    Mismatched = {}
    Lost = {b1}
    Failing = {}
    Replicated = {}
    MaxPlaced = 2
    NoticeCap = 1
INVARIANT NoOverdraft
\* The saga rests when every bet has been paid, closed, rejected or dead-lettered.
CHECK_DEADLOCK FALSE
