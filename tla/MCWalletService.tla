--------------------------- MODULE MCWalletService ---------------------------
(***************************************************************************)
(* Small instances of WalletService for TLC.                               *)
(***************************************************************************)
EXTENDS WalletService, TLC

CONSTANTS u1, b1, b2, b3, r1, r2, s1, s2

OneOwner == b1 :> u1
OneStake == b1 :> 3
OnePayout == b1 :> 10
\* Bets of one user contend for the wallet row: b1 wins, b2 is settled with nothing to
\* pay, b3 is in another currency than the wallet.
ThreeOwners == b1 :> u1 @@ b2 :> u1 @@ b3 :> u1
ThreeStakes == b1 :> 3 @@ b2 :> 7 @@ b3 :> 4
ThreePayouts == b1 :> 10 @@ b2 :> 0 @@ b3 :> 0
Purse == u1 :> 5
=============================================================================
