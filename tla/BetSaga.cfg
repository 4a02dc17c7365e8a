\* One bet of three kinds; wallet-service's handlers may fail, bet-worker has replicas that
\* hold the same delivery, the broker may lose unconfirmed messages, and every Ack and
\* relay commit be lost.
SPECIFICATION FairSpec
CONSTANTS
    u1 = u1 u2 = u2 b1 = b1 b2 = b2 b3 = b3
    Users = {u1}
    Bets = {b1, b2, b3}
    Owner <- ThreeOwners
    Stake <- ThreeStakes
    Payout <- ThreePayouts
    Opening <- OnePurse
    Mismatched = {b3}
    Lost = {b2}
    Failing = {"wallet-reserve", "wallet-settled"}
    Replicated = {"bet-accept"}
    MaxPlaced = 1
    NoticeCap = 1
INVARIANTS TypeOK NoLimbo OnlyRepeatsRefused StatusMatchesEvents SagaOrder
PROPERTIES BetIsAnswered ImplementsLedger
\* The saga rests when every bet has been paid, closed, rejected or dead-lettered.
CHECK_DEADLOCK FALSE
