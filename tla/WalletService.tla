---------------------------- MODULE WalletService ----------------------------
(***************************************************************************)
(* The two consumers of wallet-service (internal/app/wallet/service.go) at *)
(* the granularity of their database transactions: ReserveBalance takes    *)
(* the stake of a placed bet, SettleBalance pays a settled one.  Several   *)
(* replicas run each consumer on one shared database; the broker delivers  *)
(* an event any number of times, also to two workers at once.              *)
(*                                                                         *)
(* A transaction is open from Begin (BEGIN, IsProcessed) to Commit or      *)
(* Abort.  Its writes stay invisible until Commit, so they are installed   *)
(* there; between, pc records which writes it carries, and its row locks   *)
(* follow from pc.  Statements that wait for one another's locks are       *)
(* guarded by them; every statement may also fail (Abort): a lost          *)
(* connection, a deadlock victim, a lock wait timeout, the context         *)
(* cancelled at shutdown, an amount that CAST refuses.                     *)
(***************************************************************************)
EXTENDS Integers, FiniteSets, FiniteSetsExt

CONSTANTS
    Users, Bets,
    Owner,           \* [Bets -> Users]: user_id of the bet
    Stake,           \* [Bets -> Nat]: stake of the bet, in units of 0.0001
    Payout,          \* [Bets -> Int]: payout of its settlement, not validated
    Opening,         \* [Users -> Int]: available_amount a wallet is seeded with
    Mismatched,      \* bets whose currency is not their wallet's
    Lost,            \* bets settled as LOSE with a zero payout
    ReserveWorkers,  \* consumers of q.wallet.bet-placed
    SettleWorkers,   \* consumers of q.wallet.bet-settled
    NoEvent,         \* what an idle worker holds
    MaxCopies,       \* bound: copies of one event in the queue at a time
    MaxCrashes       \* bound: worker crashes

Workers == ReserveWorkers \cup SettleWorkers
Events == [kind : {"placed", "settled"}, bet : Bets]
Placed(b) == [kind |-> "placed", bet |-> b]
Settled(b) == [kind |-> "settled", bet |-> b]

ASSUME BetsAssumption == IsFiniteSet(Bets) /\ Owner \in [Bets -> Users]
ASSUME AmountsAssumption ==
    /\ Stake \in [Bets -> Nat]
    /\ Payout \in [Bets -> Int]
    /\ Opening \in [Users -> Int]
ASSUME InputsAssumption ==
    /\ Mismatched \subseteq Bets
    /\ Lost \subseteq Bets
ASSUME WorkersAssumption == ReserveWorkers \cap SettleWorkers = {}
ASSUME NoEventAssumption == NoEvent \notin Events
ASSUME BoundsAssumption == MaxCopies \in Nat /\ MaxCrashes \in Nat

VARIABLES
    \* the shared database: committed rows only
    funded,      \* users with a row in wallets
    amount,      \* wallets.available_amount
    version,     \* wallets.version
    status,      \* bets.status
    processed,   \* rows of processed_events; the kind of event names the consumer
    reserved,    \* wallet.reserved rows of outbox_events, counted by bet
    credited,    \* wallet.credited rows of outbox_events, counted by bet
    \* the broker
    queue,       \* copies of each event waiting in its queue
    dlq,         \* events that reached the dead-letter queue
    \* the workers
    pc, msg, seen,   \* stage, event held, wallet version read under FOR UPDATE
    crashes

db == <<funded, amount, version, status, processed, reserved, credited>>
broker == <<queue, dlq>>
vars == <<db, broker, pc, msg, seen, crashes>>

-----------------------------------------------------------------------------
(* What an open transaction has locked, written and marked.                *)

Stages == {"idle", "begun", "locked", "missing", "reserving", "rejecting",
           "discarding", "crediting", "failed", "acking"}

InTx(w) == pc[w] \in Stages \ {"idle", "failed", "acking"}
User(w) == Owner[msg[w].bet]

\* The FOR UPDATE lock on an existing wallet row, held to the end of the transaction.
HoldsWallet(w, u) == /\ pc[w] \in {"locked", "reserving", "rejecting", "crediting"}
                     /\ User(w) = u
                     /\ u \in funded

\* FOR UPDATE on a missing row locks the gap: nobody inserts that wallet meanwhile.
HoldsGap(w, u) == /\ pc[w] \in {"missing", "rejecting"}
                  /\ User(w) = u

\* Uncommitted INSERT INTO processed_events for the event the worker holds.
Marks(w, e) == /\ pc[w] \in {"reserving", "rejecting", "discarding", "crediting"}
               /\ msg[w] = e

\* Mutant: GetByUserID is called with lock = false.
PlainSelect(w, u) == TRUE
LockFree(w, u) == \A v \in Workers \ {w} : ~HoldsWallet(v, u)

\* Mutant: processed_events has no primary key.
MarkUnchecked(w, e) == TRUE
\* INSERT INTO processed_events succeeds: no committed row, no uncommitted one.
CanMarkProcessed(w, e) == /\ e \notin processed
                          /\ \A v \in Workers \ {w} : ~Marks(v, e)

-----------------------------------------------------------------------------
Init ==
    /\ funded \in SUBSET Users
    /\ amount = Opening
    /\ version = [u \in Users |-> 0]
    /\ status = [b \in Bets |-> "PENDING_RESERVE"]
    /\ processed = {}
    /\ reserved = [b \in Bets |-> 0]
    /\ credited = [b \in Bets |-> 0]
    /\ queue = [e \in Events |-> 0]
    /\ dlq = {}
    /\ pc = [w \in Workers |-> "idle"]
    /\ msg = [w \in Workers |-> NoEvent]
    /\ seen = [w \in Workers |-> 0]
    /\ crashes = 0

-----------------------------------------------------------------------------
(* The environment: the relay, bet-worker, settlement-service, operators.  *)

\* The relay publishes the outbox row of the event, once or again (at-least-once,
\* and a binlog replay re-publishes rows of any age).
Publish(e) ==
    /\ e.kind = "settled" => status[e.bet] = "SETTLED"
    /\ queue[e] < MaxCopies
    /\ queue' = [queue EXCEPT ![e] = @ + 1]
    /\ UNCHANGED <<db, dlq, pc, msg, seen, crashes>>

WriteStatus(b, new) ==
    /\ status' = [status EXCEPT ![b] = new]
    /\ UNCHANGED <<funded, amount, version, processed, reserved, credited>>
    /\ UNCHANGED <<broker, pc, msg, seen, crashes>>

\* Mutant: AcceptBet opens the bet whatever its status is.
AcceptUnconditionally(b) ==
    /\ reserved[b] > 0
    /\ WriteStatus(b, "OPEN")
\* Mutant: the status is written after the name of the event.
AcceptAsAccepted(b) ==
    /\ reserved[b] > 0
    /\ status[b] = "PENDING_RESERVE"
    /\ WriteStatus(b, "ACCEPTED")
\* AcceptBet commits: the wallet.reserved row opens the bet.
Accept(b) ==
    /\ reserved[b] > 0
    /\ status[b] = "PENDING_RESERVE"
    /\ \A w \in Workers : ~Marks(w, Placed(b)) \/ pc[w] # "rejecting"
    /\ WriteStatus(b, "OPEN")

\* settlement-service commits the settlement of an open bet.
Settle(b) ==
    /\ status[b] = "OPEN"
    /\ WriteStatus(b, "SETTLED")

\* A wallet row is seeded by hand: INSERT IGNORE INTO wallets.
CreateWallet(u) ==
    /\ u \notin funded
    /\ \A w \in Workers : ~HoldsGap(w, u)
    /\ funded' = funded \cup {u}
    /\ UNCHANGED <<amount, version, status, processed, reserved, credited>>
    /\ UNCHANGED <<broker, pc, msg, seen, crashes>>

-----------------------------------------------------------------------------
(* A worker: one delivery at a time, from the queue to Ack or Nack.        *)

Goto(w, stage) == pc' = [pc EXCEPT ![w] = stage]

Consumes(w, e) == w \in IF e.kind = "placed" THEN ReserveWorkers ELSE SettleWorkers

\* Delivery, BeginTx, IsProcessed.  A processed event is only acknowledged; the empty
\* COMMIT may fail like any other statement.
Begin(w, e) ==
    /\ pc[w] = "idle"
    /\ Consumes(w, e)
    /\ queue[e] > 0
    /\ queue' = [queue EXCEPT ![e] = @ - 1]
    /\ msg' = [msg EXCEPT ![w] = e]
    /\ IF e \in processed THEN Goto(w, "acking") \/ Goto(w, "failed")
                          ELSE Goto(w, "begun")
    /\ UNCHANGED <<db, dlq, seen, crashes>>

\* Mutant: the check for a LOSE with a zero payout ignores the outcome and the amount.
CloseAnything(w) == msg[w].kind = "settled"
\* payout is "0", "0.00" or "0.0000" and the outcome is LOSE.
IsLostBet(w) == msg[w].kind = "settled" /\ msg[w].bet \in Lost

\* GetByUserID(..., lock = true).
LockWallet(w) ==
    /\ pc[w] = "begun"
    /\ ~IsLostBet(w)
    /\ LockFree(w, User(w))
    /\ \/ /\ User(w) \in funded
          /\ Goto(w, "locked")
          /\ seen' = [seen EXCEPT ![w] = version[User(w)]]
       \/ /\ User(w) \notin funded
          /\ Goto(w, IF msg[w].kind = "placed" THEN "missing" ELSE "failed")
          /\ UNCHANGED seen
    /\ UNCHANGED <<db, broker, msg, crashes>>

\* UpdateBalance(-amount), outbox wallet.reserved, MarkProcessed.
Reserve(w) ==
    /\ pc[w] = "locked"
    /\ msg[w].kind = "placed"
    /\ msg[w].bet \notin Mismatched
    /\ version[User(w)] = seen[w]
    /\ CanMarkProcessed(w, msg[w])
    /\ Goto(w, "reserving")
    /\ UNCHANGED <<db, broker, msg, seen, crashes>>

\* rejectBet: UpdateStatus REJECTED, MarkProcessed.
RejectBet(w) ==
    /\ \/ pc[w] = "missing"
       \/ pc[w] = "locked" /\ msg[w].kind = "placed" /\ msg[w].bet \in Mismatched
    /\ CanMarkProcessed(w, msg[w])
    /\ Goto(w, "rejecting")
    /\ UNCHANGED <<db, broker, msg, seen, crashes>>

\* SettleBalance of a lost bet: MarkProcessed only, without looking at the wallet.
Discard(w) ==
    /\ pc[w] = "begun"
    /\ IsLostBet(w)
    /\ CanMarkProcessed(w, msg[w])
    /\ Goto(w, "discarding")
    /\ UNCHANGED <<db, broker, msg, seen, crashes>>

\* UpdateBalance(payout), outbox wallet.credited, MarkProcessed.
Credit(w) ==
    /\ pc[w] = "locked"
    /\ msg[w].kind = "settled"
    /\ version[User(w)] = seen[w]
    /\ CanMarkProcessed(w, msg[w])
    /\ Goto(w, "crediting")
    /\ UNCHANGED <<db, broker, msg, seen, crashes>>

-----------------------------------------------------------------------------
(* The end of a transaction.                                               *)

\* COMMIT took effect.  The worker may still see an error: the connection broke
\* before the answer.
Committed(w) ==
    /\ processed' = processed \cup {msg[w]}
    /\ Goto(w, "acking") \/ Goto(w, "failed")
    /\ UNCHANGED <<funded, broker, msg, seen, crashes>>

MoveBalance(u, delta) ==
    /\ amount' = [amount EXCEPT ![u] = @ + delta]
    /\ version' = [version EXCEPT ![u] = @ + 1]

\* Mutant: the debit is committed without its outbox row.
CommitReserveSilently(w) ==
    /\ pc[w] = "reserving"
    /\ MoveBalance(User(w), -Stake[msg[w].bet])
    /\ Committed(w)
    /\ UNCHANGED <<status, reserved, credited>>
CommitReserve(w) ==
    /\ pc[w] = "reserving"
    /\ MoveBalance(User(w), -Stake[msg[w].bet])
    /\ reserved' = [reserved EXCEPT ![msg[w].bet] = @ + 1]
    /\ Committed(w)
    /\ UNCHANGED <<status, credited>>

\* Mutant: rejectBet does not MarkProcessed.
CommitRejectUnmarked(w) ==
    /\ pc[w] = "rejecting"
    /\ status' = [status EXCEPT ![msg[w].bet] = "REJECTED"]
    /\ Goto(w, "acking")
    /\ UNCHANGED <<funded, processed, broker, msg, seen, crashes>>
    /\ UNCHANGED <<amount, version, reserved, credited>>
CommitReject(w) ==
    /\ pc[w] = "rejecting"
    /\ status' = [status EXCEPT ![msg[w].bet] = "REJECTED"]
    /\ Committed(w)
    /\ UNCHANGED <<amount, version, reserved, credited>>

CommitDiscard(w) ==
    /\ pc[w] = "discarding"
    /\ Committed(w)
    /\ UNCHANGED <<amount, version, status, reserved, credited>>

CommitCredit(w) ==
    /\ pc[w] = "crediting"
    /\ MoveBalance(User(w), Payout[msg[w].bet])
    /\ credited' = [credited EXCEPT ![msg[w].bet] = @ + 1]
    /\ Committed(w)
    /\ UNCHANGED <<status, reserved>>

Commit(w) == CommitReserve(w) \/ CommitReject(w) \/ CommitDiscard(w) \/ CommitCredit(w)

\* Some statement, or COMMIT itself, fails; the deferred Rollback undoes the rest.
Abort(w) ==
    /\ InTx(w)
    /\ Goto(w, "failed")
    /\ UNCHANGED <<db, broker, msg, seen, crashes>>

-----------------------------------------------------------------------------
(* The end of a delivery (rabbitmq.ConsumeWithWaitGroup).                  *)

Release(w) ==
    /\ Goto(w, "idle")
    /\ msg' = [msg EXCEPT ![w] = NoEvent]
    /\ UNCHANGED <<db, seen>>

Ack(w) ==
    /\ pc[w] = "acking"
    /\ Release(w)
    /\ UNCHANGED <<broker, crashes>>

\* Mutant: the failed delivery is acknowledged.
NackAsAck(w) ==
    /\ pc[w] = "failed"
    /\ Release(w)
    /\ UNCHANGED <<broker, crashes>>
\* Nack(requeue = false) on the first failure: the event goes to the dead letters.
Nack(w) ==
    /\ pc[w] = "failed"
    /\ dlq' = dlq \cup {msg[w]}
    /\ Release(w)
    /\ UNCHANGED <<queue, crashes>>

\* The process dies, or its connections do: the transaction is rolled back and the
\* unacknowledged delivery returns to the queue.  Another worker takes its place.
Crash(w) ==
    /\ pc[w] # "idle"
    /\ crashes < MaxCrashes
    /\ crashes' = crashes + 1
    /\ queue' = [queue EXCEPT ![msg[w]] = @ + 1]
    /\ Release(w)
    /\ UNCHANGED dlq

\* What a worker that holds a delivery does next.
Step(w) ==
    \/ LockWallet(w) \/ Reserve(w) \/ RejectBet(w) \/ Discard(w) \/ Credit(w)
    \/ Commit(w) \/ Abort(w) \/ Ack(w) \/ Nack(w)

Next ==
    \/ \E e \in Events : Publish(e)
    \/ \E b \in Bets : Accept(b) \/ Settle(b)
    \/ \E u \in Users : CreateWallet(u)
    \/ \E w \in Workers : Step(w) \/ Crash(w)
    \/ \E w \in Workers, e \in Events : Begin(w, e)

Spec == Init /\ [][Next]_vars

\* A worker that holds a delivery goes on (a handler waits at most for a lock, and
\* InnoDB ends a lock wait with an error), and the queues are FIFO: an event that
\* workers keep passing over reaches the head and is delivered.
Fairness ==
    /\ \A w \in Workers : WF_vars(Step(w))
    /\ \A e \in Events : SF_vars(\E w \in Workers : Begin(w, e))

FairSpec == Spec /\ Fairness

-----------------------------------------------------------------------------
(* Properties.                                                             *)

\* The types of the tables, the queues and the workers.
TypeOK ==
    /\ funded \in SUBSET Users
    /\ amount \in [Users -> Int]
    /\ version \in [Users -> Nat]
    /\ status \in [Bets -> {"PENDING_RESERVE", "OPEN", "REJECTED", "SETTLED"}]
    /\ processed \in SUBSET Events
    /\ reserved \in [Bets -> Nat]
    /\ credited \in [Bets -> Nat]
    /\ queue \in [Events -> Nat]
    /\ dlq \in SUBSET Events
    /\ pc \in [Workers -> Stages]
    /\ msg \in [Workers -> Events \cup {NoEvent}]
    /\ seen \in [Workers -> Nat]
    /\ crashes \in 0 .. MaxCrashes

\* The balance of a wallet is its opening balance less the stakes its outbox announces
\* as reserved plus the payouts it announces as credited, and its version counts them:
\* UpdateBalance, the outbox row and the processed_events row commit together.
BetsOf(u) == {b \in Bets : Owner[b] = u}
LedgerExact ==
    \A u \in Users :
        /\ amount[u] = Opening[u] + MapThenSumSet(
               LAMBDA b : credited[b] * Payout[b] - reserved[b] * Stake[b], BetsOf(u))
        /\ version[u] = MapThenSumSet(LAMBDA b : credited[b] + reserved[b], BetsOf(u))

\* However often an event is delivered, and to however many workers at once, its stake
\* is reserved at most once and its payout credited at most once.
AtMostOnce == \A b \in Bets : reserved[b] <= 1 /\ credited[b] <= 1

\* A bet is rejected or its stake is taken, never both, even when the wallet row
\* appears between two deliveries of the event.
RejectedNeverDebited ==
    \A b \in Bets : status[b] = "REJECTED" => reserved[b] = 0 /\ credited[b] = 0

\* The version test of UpdateBalance never fails: the FOR UPDATE lock already keeps
\* the row as it was read, so no event is dead-lettered for a "version mismatch".
VersionHeld ==
    \A w \in Workers : pc[w] = "locked" => version[User(w)] = seen[w]

\* processed_events says exactly which events had their effect: a placed event is
\* marked with a reservation or a rejection, a settled event with a credit unless it
\* lost.  A delivery is acknowledged only once that is committed.
ProcessedMeansDone ==
    /\ \A b \in Bets :
        /\ Placed(b) \in processed <=> reserved[b] > 0 \/ status[b] = "REJECTED"
        /\ b \notin Lost => (Settled(b) \in processed <=> credited[b] > 0)
    /\ \A w \in Workers : pc[w] = "acking" => msg[w] \in processed

\* The branch "no wallet for user" of SettleBalance is never taken: only bets whose
\* stake was reserved are settled, and a reservation needs the wallet.
SettledHasWallet ==
    \A w \in Workers : pc[w] \in {"begun", "locked", "crediting"}
                       /\ msg[w].kind = "settled" => User(w) \in funded

\* A bet moves only PENDING_RESERVE -> OPEN -> SETTLED or PENDING_RESERVE -> REJECTED,
\* although rejectBet's UPDATE does not look at the status it overwrites.
LegalMove ==
    \A b \in Bets : status'[b] # status[b] =>
        \/ status[b] = "PENDING_RESERVE" /\ status'[b] \in {"OPEN", "REJECTED"}
        \/ status[b] = "OPEN" /\ status'[b] = "SETTLED"
Lifecycle == [][LegalMove]_vars

\* An event that waits in a queue is eventually processed or dead-lettered, though
\* workers crash, wait for one another's locks and fail at any statement.
QueuedIsAnswered ==
    \A e \in Events : queue[e] > 0 ~> e \in processed \/ e \in dlq

-----------------------------------------------------------------------------
(* The ledger this service implements.                                     *)

StakeFate == [b \in Bets |-> IF reserved[b] > 0 THEN "debited"
                             ELSE IF status[b] = "REJECTED" THEN "rejected"
                             ELSE "none"]
PayoutFate == [b \in Bets |-> IF credited[b] > 0 THEN "paid"
                              ELSE IF Settled(b) \in processed THEN "closed"
                              ELSE "none"]

Ledger == INSTANCE WalletLedger WITH
              balance <- amount, stakeFate <- StakeFate, payoutFate <- PayoutFate

\* Every step of the two consumers is a step of the ledger or leaves it unchanged.
ImplementsLedger == Ledger!LedgerSpec
=============================================================================
