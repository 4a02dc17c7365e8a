------------------------------- MODULE BetSaga -------------------------------
(***************************************************************************)
(* The life of a bet across the services, one database transaction a step: *)
(* bet-service places it, the outbox relay carries its events to RabbitMQ, *)
(* wallet-service takes the stake, bet-worker opens it, settlement-service *)
(* settles it, wallet-service pays; risk and notification listen.          *)
(*                                                                         *)
(* A row of outbox_events is identified by its place in the sequence, and  *)
(* stands for its event_id.  A queue is the set of rows waiting in it: a   *)
(* row published twice, or returned to the queue because its Ack was lost, *)
(* is a row that stays or comes back.                                      *)
(*                                                                         *)
(* A process handles one delivery at a time, but the replicas of a service *)
(* may each hold a delivery of the same row.  In a consumer that is        *)
(* Replicated a handler asks processed_events whether the row was handled  *)
(* (Begin) in a step of its own: the answer may be stale when it goes on.  *)
(* The rest, up to its COMMIT, is one step, since it is done under the     *)
(* lock of the bet's or the wallet's row and the primary key of            *)
(* processed_events; WalletService has wallet-service's steps in between.  *)
(***************************************************************************)
EXTENDS Integers, Sequences, FiniteSets

CONSTANTS
    Users, Bets,
    Owner,       \* [Bets -> Users]
    Stake,       \* [Bets -> Nat]
    Payout,      \* [Bets -> Int]: the payout settlement-service is told to pay
    Opening,     \* [Users -> Int]
    Mismatched,  \* bets whose currency is not their wallet's
    Lost,        \* bets settled as LOSE with a zero payout
    Failing,     \* consumers whose handler may fail, sending the event to the DLX
    Replicated,  \* consumers that several processes run at a time
    MaxPlaced,   \* bound: bets that are placed
    NoticeCap    \* bound: notifications of one event are counted up to this

Types == {"placed", "reserved", "accepted", "settled", "credited"}
Consumers == {"wallet-reserve", "risk-bet-placed", "bet-accept", "wallet-settled",
              "notify"}
Rows == [type : Types, bet : Bets]
Statuses == {"none", "PENDING_RESERVE", "OPEN", "REJECTED", "SETTLED"}

\* Mutant: q.wallet.bet-settled is not bound.
RoutesWithoutPayouts == [type \in Types |->
    CASE type = "placed"   -> {"wallet-reserve", "risk-bet-placed"}
      [] type = "reserved" -> {"bet-accept"}
      [] type = "accepted" -> {"notify"}
      [] type = "settled"  -> {"notify"}
      [] type = "credited" -> {}]
\* The queues bound to the topic exchange, by routing key; wallet.credited has none.
Routes == [type \in Types |->
    CASE type = "placed"   -> {"wallet-reserve", "risk-bet-placed"}
      [] type = "reserved" -> {"bet-accept"}
      [] type = "accepted" -> {"notify"}
      [] type = "settled"  -> {"wallet-settled", "notify"}
      [] type = "credited" -> {}]

ASSUME SagaBets == IsFiniteSet(Bets) /\ Owner \in [Bets -> Users]
ASSUME SagaAmounts ==
    /\ Stake \in [Bets -> Nat]
    /\ Payout \in [Bets -> Int]
    /\ Opening \in [Users -> Int]
ASSUME SagaInputs ==
    /\ Mismatched \subseteq Bets
    /\ Lost \subseteq Bets
    /\ Failing \subseteq Consumers
    /\ Replicated \subseteq Consumers \ {"notify"}
    /\ MaxPlaced \in Nat
    /\ NoticeCap \in Nat \ {0}

VARIABLES
    funded,     \* users with a wallet row
    status,     \* bets.status ("none": no row yet)
    balance,    \* wallets.available_amount
    outbox,     \* outbox_events, in id order
    published,  \* ids with published_at set
    sending,    \* id the relay has published in its open transaction, or 0
    queues,     \* [Consumers -> set of ids], until they are acknowledged or rejected
    begun,      \* [Consumers -> set of ids] workers hold, found not to be processed
    processed,  \* processed_events: <<consumer, id>>
    notices,    \* notifications sent, by event
    dead,       \* <<consumer, id>> dead-lettered (x-death names the queue)
    arrived     \* ids that have reached their queues

vars == <<funded, status, balance, outbox, published, sending, queues, begun,
          processed, notices, dead, arrived>>

Init ==
    /\ funded \in SUBSET Users
    /\ status = [b \in Bets |-> "none"]
    /\ balance = Opening
    /\ outbox = <<>>
    /\ published = {}
    /\ sending = 0
    /\ queues = [c \in Consumers |-> {}]
    /\ begun = [c \in Consumers |-> {}]
    /\ processed = {}
    /\ notices = [r \in Rows |-> 0]
    /\ dead = {}
    /\ arrived = {}

-----------------------------------------------------------------------------
(* The HTTP services.                                                      *)

Announce(type, b) == outbox' = Append(outbox, [type |-> type, bet |-> b])

\* PlaceBet, after validation: the bet and its event in one transaction.
PlaceBet(b) ==
    /\ status[b] = "none"
    /\ Cardinality({d \in Bets : status[d] # "none"}) < MaxPlaced
    /\ status' = [status EXCEPT ![b] = "PENDING_RESERVE"]
    /\ Announce("placed", b)
    /\ UNCHANGED <<funded, balance, published, sending, queues, begun, processed,
                   notices, dead, arrived>>

\* Mutant: UPDATE bets ... WHERE id = ? AND user_id = ?, whatever the status.
SettleAnyStatus(b, u) ==
    /\ status[b] \notin {"none", "SETTLED"}
    /\ Owner[b] = u
    /\ status' = [status EXCEPT ![b] = "SETTLED"]
    /\ Announce("settled", b)
    /\ UNCHANGED <<funded, balance, published, sending, queues, begun, processed,
                   notices, dead, arrived>>
\* Settle: only an open bet, only for its own user; otherwise ErrBetNotOpen.
Settle(b, u) ==
    /\ status[b] = "OPEN"
    /\ Owner[b] = u
    /\ status' = [status EXCEPT ![b] = "SETTLED"]
    /\ Announce("settled", b)
    /\ UNCHANGED <<funded, balance, published, sending, queues, begun, processed,
                   notices, dead, arrived>>

-----------------------------------------------------------------------------
(* The polling relay: one row per tick, published inside its transaction.  *)

Unpublished == DOMAIN outbox \ published
\* Mutant: the SELECT forgets WHERE published_at IS NULL.
IsFirst(id) == id \in DOMAIN outbox /\ \A j \in DOMAIN outbox : id <= j
IsNext(id) == id \in Unpublished /\ \A j \in Unpublished : id <= j

Enqueue(id) == queues' = [c \in Consumers |->
    IF c \in Routes[outbox[id].type] THEN queues[c] \cup {id} ELSE queues[c]]

\* SELECT ... ORDER BY id LIMIT 1 FOR UPDATE, PublishJSON.  Without publisher
\* confirms the relay does not learn of a message the broker lost.
RelaySend(id) ==
    /\ sending = 0
    /\ IsNext(id)
    /\ sending' = id
    /\ \/ Enqueue(id) /\ arrived' = arrived \cup {id}
       \/ UNCHANGED <<queues, arrived>>
    /\ UNCHANGED <<funded, status, balance, outbox, published, begun, processed,
                   notices, dead>>

\* UPDATE outbox_events SET published_at, COMMIT.
RelayMark ==
    /\ sending # 0
    /\ published' = published \cup {sending}
    /\ sending' = 0
    /\ UNCHANGED <<funded, status, balance, outbox, queues, begun, processed, notices,
                   dead, arrived>>

\* The UPDATE or the COMMIT fails, or the relay dies: the row will be sent again.
RelayFail ==
    /\ sending # 0
    /\ sending' = 0
    /\ UNCHANGED <<funded, status, balance, outbox, published, queues, begun, processed,
                   notices, dead, arrived>>

-----------------------------------------------------------------------------
(* The consumers.                                                          *)

\* Mutant: IsProcessed is not consulted and MarkProcessed never conflicts.
NeverSeen(c, id) == TRUE
FirstTime(c, id) == <<c, id>> \notin processed

\* IsProcessed finds no mark: the worker goes on with the row.
Begin(c, id) ==
    /\ c \in Replicated
    /\ id \in queues[c]
    /\ FirstTime(c, id)
    /\ begun' = [begun EXCEPT ![c] = @ \cup {id}]
    /\ UNCHANGED <<funded, status, balance, outbox, published, sending, queues,
                   processed, notices, dead, arrived>>

\* The rows with whose handling a worker may go on after IsProcessed.
InHand(c) == IF c \in Replicated THEN begun[c] ELSE queues[c]

\* A delivery ends.  The row leaves the queue, or it stays because the Ack was lost or
\* because there is another delivery of it, which another worker may hold as well.
Ended(c, id) ==
    \/ /\ queues' = [queues EXCEPT ![c] = @ \ {id}]
       /\ begun' = [begun EXCEPT ![c] = @ \ {id}]
    \/ /\ UNCHANGED queues
       /\ begun' \in {begun, [begun EXCEPT ![c] = @ \ {id}]}

\* A handler that was told the row is new commits its mark, unless another delivery did:
\* then the primary key refuses the INSERT (Refused).
Commits(c, id) ==
    /\ id \in InHand(c)
    /\ FirstTime(c, id)
    /\ processed' = processed \cup {<<c, id>>}
    /\ Ended(c, id)

\* IsProcessed finds the mark: the delivery is acknowledged and commits nothing.
Again(c, id) ==
    /\ c # "notify"
    /\ id \in queues[c] \ begun[c]
    /\ ~FirstTime(c, id)
    /\ Ended(c, id)
    /\ UNCHANGED <<funded, status, balance, outbox, published, sending, processed,
                   notices, dead, arrived>>

\* A worker dies with a row that another one handled meanwhile: it is delivered again.
\* (A row that nobody handled is then as if its handler had not begun.)
WorkerDies(c, id) ==
    /\ id \in begun[c]
    /\ ~FirstTime(c, id)
    /\ begun' = [begun EXCEPT ![c] = @ \ {id}]
    /\ UNCHANGED <<funded, status, balance, outbox, published, sending, queues,
                   processed, notices, dead, arrived>>

CanPayStake(b) == Owner[b] \in funded /\ b \notin Mismatched

\* Mutant: rejectBet after the balance was updated, in the same transaction.
ReserveBalanceAlwaysDebits(id) == LET b == outbox[id].bet IN
    /\ Commits("wallet-reserve", id)
    /\ balance' = [balance EXCEPT ![Owner[b]] = @ - Stake[b]]
    /\ IF CanPayStake(b)
       THEN Announce("reserved", b) /\ UNCHANGED status
       ELSE status' = [status EXCEPT ![b] = "REJECTED"] /\ UNCHANGED outbox
    /\ UNCHANGED <<funded, published, sending, notices, dead, arrived>>
\* ReserveBalance: take the stake, or rejectBet.
ReserveBalance(id) == LET b == outbox[id].bet IN
    /\ Commits("wallet-reserve", id)
    /\ IF CanPayStake(b)
       THEN /\ balance' = [balance EXCEPT ![Owner[b]] = @ - Stake[b]]
            /\ Announce("reserved", b)
            /\ UNCHANGED status
       ELSE /\ status' = [status EXCEPT ![b] = "REJECTED"]
            /\ UNCHANGED <<balance, outbox>>
    /\ UNCHANGED <<funded, published, sending, notices, dead, arrived>>

\* AcceptBet after IsProcessed: UPDATE ... WHERE status = PENDING_RESERVE.  With no row
\* changed, an open bet is marked and acknowledged; any other status is an error
\* (AcceptRefused).
AcceptBet(id) == LET b == outbox[id].bet IN
    /\ Commits("bet-accept", id)
    /\ status[b] \in {"PENDING_RESERVE", "OPEN"}
    /\ IF status[b] = "PENDING_RESERVE"
       THEN /\ status' = [status EXCEPT ![b] = "OPEN"]
            /\ Announce("accepted", b)
       ELSE UNCHANGED <<status, outbox>>
    /\ UNCHANGED <<funded, balance, published, sending, notices, dead, arrived>>

\* "bet ... in unexpected status", or "bet not found".
AcceptRefused(id) == status[outbox[id].bet] \notin {"PENDING_RESERVE", "OPEN"}

\* SettleBalance: nothing to pay, or credit the payout; an error without a wallet row
\* (CreditRefused).
SettleBalance(id) == LET b == outbox[id].bet IN
    /\ Commits("wallet-settled", id)
    /\ IF b \in Lost
       THEN UNCHANGED <<balance, outbox>>
       ELSE /\ Owner[b] \in funded
            /\ balance' = [balance EXCEPT ![Owner[b]] = @ + Payout[b]]
            /\ Announce("credited", b)
    /\ UNCHANGED <<funded, status, published, sending, notices, dead, arrived>>

CreditRefused(id) == outbox[id].bet \notin Lost /\ Owner[outbox[id].bet] \notin funded

EvaluateRisk(id) ==
    /\ Commits("risk-bet-placed", id)
    /\ UNCHANGED <<funded, status, balance, outbox, published, sending, notices, dead,
                   arrived>>

\* Notify sends what it receives: it has no processed_events check.
Notify(id) ==
    /\ id \in queues["notify"]
    /\ Ended("notify", id)
    /\ notices' = [notices EXCEPT ![outbox[id]] = IF @ < NoticeCap THEN @ + 1 ELSE @]
    /\ UNCHANGED <<funded, status, balance, outbox, published, sending, processed,
                   dead, arrived>>

\* A handler that was told the row is new fails although nothing is broken: the mark is
\* a duplicate, the bet's status is unexpected or the wallet is missing.
Refused(c, id) ==
    \/ id \in begun[c] /\ ~FirstTime(c, id)
    \/ /\ id \in InHand(c)
       /\ FirstTime(c, id)
       /\ \/ c = "bet-accept" /\ AcceptRefused(id)
          \/ c = "wallet-settled" /\ CreditRefused(id)

\* Mutant: a delivery is acknowledged whether or not its handler failed.
AckFailed(c, id) ==
    /\ id \in queues[c]
    /\ c \in Failing \/ Refused(c, id)
    /\ Ended(c, id)
    /\ UNCHANGED <<funded, status, balance, outbox, published, sending, processed,
                   notices, dead, arrived>>
\* The handler returns an error: its transaction is rolled back and the delivery is
\* rejected without requeue, on the first failure.
DeadLetter(c, id) ==
    /\ id \in queues[c]
    /\ c \in Failing \/ Refused(c, id)
    /\ Ended(c, id)
    /\ dead' = dead \cup {<<c, id>>}
    /\ UNCHANGED <<funded, status, balance, outbox, published, sending, processed,
                   notices, arrived>>

Handle(c, id) ==
    \/ Begin(c, id)
    \/ Again(c, id)
    \/ c = "wallet-reserve" /\ ReserveBalance(id)
    \/ c = "bet-accept" /\ AcceptBet(id)
    \/ c = "wallet-settled" /\ SettleBalance(id)
    \/ c = "risk-bet-placed" /\ EvaluateRisk(id)
    \/ c = "notify" /\ Notify(id)
    \/ DeadLetter(c, id)

Next ==
    \/ \E b \in Bets : PlaceBet(b) \/ \E u \in Users : Settle(b, u)
    \/ \E id \in DOMAIN outbox : RelaySend(id)
    \/ RelayMark
    \/ RelayFail
    \/ \E c \in Consumers, id \in DOMAIN outbox : Handle(c, id) \/ WorkerDies(c, id)

Spec == Init /\ [][Next]_vars

\* The relay ticks on and does not fail for ever on one row; wallet-service and bet-worker
\* run, and handle or dead-letter some row while any waits (the queues are FIFO, which is
\* more).  Nothing relies on risk-service, on notification-service or on a failure, and
\* nobody is obliged to place or settle a bet.
Fairness ==
    /\ WF_vars(\E id \in DOMAIN outbox : RelaySend(id))
    /\ SF_vars(RelayMark)
    /\ \A c \in {"wallet-reserve", "bet-accept", "wallet-settled"} :
           WF_vars(\E id \in DOMAIN outbox : Handle(c, id))

FairSpec == Spec /\ Fairness

-----------------------------------------------------------------------------
(* Properties.                                                             *)

\* Types; the relay holds only a row that is not marked, a worker only one that is queued.
TypeOK ==
    /\ funded \subseteq Users
    /\ status \in [Bets -> Statuses]
    /\ balance \in [Users -> Int]
    /\ outbox \in Seq(Rows)
    /\ published \subseteq DOMAIN outbox
    /\ sending \in {0} \cup Unpublished
    /\ queues \in [Consumers -> SUBSET DOMAIN outbox]
    /\ begun \in [Consumers -> SUBSET DOMAIN outbox]
    /\ \A c \in Consumers : begun[c] \subseteq queues[c]
    /\ processed \in SUBSET (Consumers \X DOMAIN outbox)
    /\ notices \in [Rows -> 0 .. NoticeCap]
    /\ dead \in SUBSET (Consumers \X DOMAIN outbox)
    /\ arrived \subseteq DOMAIN outbox

Has(type, b) == \E id \in DOMAIN outbox : outbox[id] = [type |-> type, bet |-> b]

\* However events are resent, redelivered and dead-lettered, a bet announces each stage
\* of its life at most once, and in the order placed, reserved, accepted, settled,
\* credited: an effect is never in the outbox before its cause.
Stage == [type \in Types |-> CASE type = "placed" -> 1 [] type = "reserved" -> 2
             [] type = "accepted" -> 3 [] type = "settled" -> 4 [] type = "credited" -> 5]
SagaOrder ==
    \A i, j \in DOMAIN outbox :
        i < j /\ outbox[i].bet = outbox[j].bet =>
            Stage[outbox[i].type] < Stage[outbox[j].type]

\* What the database says of a bet, what its events say and what the customer was told
\* agree: an open or settled bet has its stake taken and its acceptance announced, a
\* rejected bet has neither, a payout belongs to a settled bet.
StatusMatchesEvents ==
    \A b \in Bets :
        /\ status[b] \in {"OPEN", "SETTLED"} <=> Has("accepted", b)
        /\ status[b] \in {"OPEN", "SETTLED"} => Has("reserved", b)
        /\ status[b] \in {"none", "REJECTED"} => ~Has("reserved", b)
        /\ status[b] = "SETTLED" <=> Has("settled", b)
        /\ Has("credited", b) => status[b] = "SETTLED"
        /\ notices[[type |-> "accepted", bet |-> b]] > 0 => status[b] \in {"OPEN", "SETTLED"}
        /\ notices[[type |-> "settled", bet |-> b]] > 0 => status[b] = "SETTLED"

\* No bet is forgotten: one that waits for its reservation, its acceptance or its payout
\* has an event that is unpublished, queued, dead-lettered at the consumer that would
\* move it on, or marked as published although the broker lost it.
Vanished == published \ arrived
CanMoveOn(b, c) ==
    \E id \in DOMAIN outbox :
        /\ outbox[id].bet = b
        /\ c \in Routes[outbox[id].type]
        /\ FirstTime(c, id)
        /\ \/ id \in Unpublished \cup queues[c] \cup Vanished
           \/ <<c, id>> \in dead
NoLimbo ==
    \A b \in Bets :
        /\ status[b] = "PENDING_RESERVE" =>
               CanMoveOn(b, "wallet-reserve") \/ CanMoveOn(b, "bet-accept")
        /\ status[b] = "SETTLED" /\ b \notin Lost /\ ~Has("credited", b) =>
               CanMoveOn(b, "wallet-settled")

\* A handler's own errors meet repeats only.  A worker that holds an event handled
\* meanwhile by another one may find the bet settled ("unexpected status") or its mark a
\* duplicate, and that delivery is dead-lettered; but an event that nobody has handled
\* finds its bet in the status, and its user with the wallet, that the saga left them in,
\* so what is dead-lettered by a consumer that does not fail has been handled already.
OnlyRepeatsRefused ==
    /\ \A id \in InHand("bet-accept") : AcceptRefused(id) => ~FirstTime("bet-accept", id)
    /\ \A id \in InHand("wallet-settled") : ~CreditRefused(id)
    /\ \A d \in dead : d[1] \in Failing \/ d \in processed

\* A placed bet is eventually opened or rejected, and a settled bet that won is eventually
\* paid, unless an event of the bet was dead-lettered before it was handled or the broker
\* lost it.
GivenUp(b) == \/ \E d \in dead \ processed : outbox[d[2]].bet = b
              \/ \E id \in Vanished : outbox[id].bet = b
BetIsAnswered ==
    \A b \in Bets :
        /\ status[b] = "PENDING_RESERVE" ~> status[b] # "PENDING_RESERVE" \/ GivenUp(b)
        /\ status[b] = "SETTLED" ~> b \in Lost \/ Has("credited", b) \/ GivenUp(b)

-----------------------------------------------------------------------------
(* The saga moves money as the wallet's ledger does.                       *)

StakeFate == [b \in Bets |-> IF Has("reserved", b) THEN "debited"
                             ELSE IF status[b] = "REJECTED" THEN "rejected"
                             ELSE "none"]
PayoutFate == [b \in Bets |->
    IF Has("credited", b) THEN "paid"
    ELSE IF \E p \in processed : p[1] = "wallet-settled" /\ outbox[p[2]].bet = b
         THEN "closed"
         ELSE "none"]

Ledger == INSTANCE WalletLedger WITH
              stakeFate <- StakeFate, payoutFate <- PayoutFate

\* Every step of the saga is a step of the ledger or leaves it unchanged.
ImplementsLedger == Ledger!LedgerSpec

-----------------------------------------------------------------------------
(* What the documentation says and the code does not do.                   *)

\* postman/postman_collection.json: a bet of 10 of a user who has 5.00 is rejected, so
\* stakes never overdraw a wallet.
NoOverdraft == \A u \in Users : balance[u] >= 0
=============================================================================
