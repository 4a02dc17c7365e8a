---------------------------- MODULE MCOddsService ----------------------------
(* Instance of OddsService for TLC: a market that opens at version 1 or     *)
(* with the demo odds, is moved to version 2 and suspended.                 *)
EXTENDS OddsService, TLC

CONSTANTS u1, u2, d1, g1, b1, b2

At(v, s) == [version |-> v, status |-> s]
Version1 == At(1, "OPEN")
MoveThenSuspend == u1 :> At(2, "OPEN") @@ u2 :> At(3, "SUSPENDED")
ExpectEither == b1 :> 2 @@ b2 :> 3
=============================================================================
