----------------------------- MODULE MCBetSaga -----------------------------
(***************************************************************************)
(* Small instances of BetSaga for TLC.                                     *)
(***************************************************************************)
EXTENDS BetSaga, TLC

CONSTANTS u1, u2, b1, b2, b3

\* One bet that wins, one that loses, one in another currency than the wallet.
ThreeOwners == b1 :> u1 @@ b2 :> u1 @@ b3 :> u1
ThreeStakes == b1 :> 3 @@ b2 :> 3 @@ b3 :> 3
ThreePayouts == b1 :> 10 @@ b2 :> 0 @@ b3 :> 0
OnePurse == u1 :> 5
\* The seeded users of the Postman collection: u1 can pay, u2 has 5 and stakes 7.
TwoOwners == b1 :> u1 @@ b2 :> u2
TwoStakes == b1 :> 3 @@ b2 :> 7
TwoPayouts == b1 :> 10 @@ b2 :> 0
TwoPurses == u1 :> 9 @@ u2 :> 5
=============================================================================
