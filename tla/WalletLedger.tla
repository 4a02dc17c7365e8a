---------------------------- MODULE WalletLedger ----------------------------
(***************************************************************************)
(* What wallet-service promises to the rest of the sportsbook: a ledger    *)
(* that answers every placed bet once (its stake is taken, or the bet is   *)
(* rejected) and every settled bet once (its payout is paid, or the losing *)
(* bet is closed), whatever the queues, the transactions and the restarts  *)
(* do.  WalletService.tla is shown to implement this module.               *)
(***************************************************************************)
EXTENDS Integers

CONSTANTS
    Users, Bets,
    Owner,       \* [Bets -> Users]: who placed the bet
    Stake,       \* [Bets -> Nat]: what the bet costs
    Payout,      \* [Bets -> Int]: what its settlement pays (not validated: any sign)
    Opening,     \* [Users -> Int]: the balance a wallet row is created with
    Mismatched,  \* bets whose currency is not their wallet's
    Lost         \* bets settled as LOSE with a zero payout

VARIABLES
    funded,      \* users that have a wallet row
    balance,     \* [Users -> Int], meaningful for funded users
    stakeFate,   \* what became of the stake of each bet
    payoutFate   \* what became of the payout of each bet

lvars == <<funded, balance, stakeFate, payoutFate>>

LedgerInit ==
    /\ funded \in SUBSET Users
    /\ balance = Opening
    /\ stakeFate = [b \in Bets |-> "none"]
    /\ payoutFate = [b \in Bets |-> "none"]

OpenAccount(u) ==
    /\ u \notin funded
    /\ funded' = funded \cup {u}
    /\ UNCHANGED <<balance, stakeFate, payoutFate>>

Debit(b) ==
    /\ stakeFate[b] = "none"
    /\ Owner[b] \in funded
    /\ b \notin Mismatched
    /\ stakeFate' = [stakeFate EXCEPT ![b] = "debited"]
    /\ balance' = [balance EXCEPT ![Owner[b]] = @ - Stake[b]]
    /\ UNCHANGED <<funded, payoutFate>>

Reject(b) ==
    /\ stakeFate[b] = "none"
    /\ Owner[b] \notin funded \/ b \in Mismatched
    /\ stakeFate' = [stakeFate EXCEPT ![b] = "rejected"]
    /\ UNCHANGED <<funded, balance, payoutFate>>

Pay(b) ==
    /\ stakeFate[b] = "debited"
    /\ payoutFate[b] = "none"
    /\ b \notin Lost
    /\ payoutFate' = [payoutFate EXCEPT ![b] = "paid"]
    /\ balance' = [balance EXCEPT ![Owner[b]] = @ + Payout[b]]
    /\ UNCHANGED <<funded, stakeFate>>

Close(b) ==
    /\ stakeFate[b] = "debited"
    /\ payoutFate[b] = "none"
    /\ b \in Lost
    /\ payoutFate' = [payoutFate EXCEPT ![b] = "closed"]
    /\ UNCHANGED <<funded, balance, stakeFate>>

LedgerNext ==
    \/ \E u \in Users : OpenAccount(u)
    \/ \E b \in Bets : Debit(b) \/ Reject(b) \/ Pay(b) \/ Close(b)

LedgerSpec == LedgerInit /\ [][LedgerNext]_lvars
=============================================================================
