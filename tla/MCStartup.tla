------------------------------ MODULE MCStartup ------------------------------
(* Instances of Startup for TLC: the migrate job, as root, and services     *)
(* whose user has no GRANT OPTION.                                          *)
EXTENDS Startup, TLC

CONSTANTS m, r, w, o

Four == {m, r, w, o}
\* Every kind of start; wallet-service has the longest.
FourServices == m :> "migrate" @@ r :> "outbox-relay" @@ w :> "wallet-service"
                @@ o :> "odds-service"
Two == {m, r}
TwoServices == m :> "migrate" @@ r :> "outbox-relay"
=============================================================================
