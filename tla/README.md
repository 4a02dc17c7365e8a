# sportsbook: TLA+ models, model checking and proofs

A formal model of the event-driven sportsbook in this repository: nine Go
processes around one MySQL database, RabbitMQ and Redis. TLC checks the models
on small instances; TLAPS proves every safety property and every refinement that
TLC checks, for every instance: of the wallet, which moves the money, of the saga
around it, of the outbox relays and the consumer loops, which move the events, of
the odds, of the start with its migrations and of the HTTP requests. Liveness is
TLC's alone. `PROJECT.json` maps each definition to the source lines it models, and lists runs, mutants, hazards,
findings and theorems.

1. [Inventory](#1-inventory)
2. [Modules](#2-modules)
3. [Runs](#3-runs)
4. [Fairness](#4-fairness)
5. [Proofs](#5-proofs)
6. [Where documents and code disagree](#6-where-documents-and-code-disagree)
7. [Abstractions, and what is not modelled](#7-abstractions-and-what-is-not-modelled)
8. [Plan](#8-plan)

## 1. Inventory

Paths are relative to the root of the repository.

A bet's life: `POST /bets` checks the odds with odds-service over HTTP and
inserts the bet and a `bet.placed` row of `outbox_events` in one transaction.
Clients reach it, and settlement-service, through api-gateway.
The relay publishes outbox rows to a topic exchange. wallet-service takes the
stake and writes `wallet.reserved` (or rejects the bet); bet-worker opens the
bet (`bet.accepted`); `POST /v1/settlements` settles it
(`bet.settled`); wallet-service pays (`wallet.credited`). risk and notification
only listen. Each consumer records the event in `processed_events` in the
transaction of its effect, and a handler that fails has its message rejected
without requeue, into the dead-letter exchange.

Before any of this the processes start: most apply the embedded migrations
themselves, then declare the topology.

| Component | State it keeps | Operations | Correct means |
|---|---|---|---|
| wallet-service (`internal/app/wallet`) | `wallets` (amount, version), `processed_events`, outbox rows | ReserveBalance, SettleBalance | each stake taken once, each payout paid once, whatever is redelivered, reordered or crashes; rejected bets cost nothing; the balance is what the outbox says |
| bet-service (`internal/app/bets`, `internal/infra/httpapi`) | `bets`, outbox rows | PlaceBet, the odds check | a bet and its event together; a success is durable; no bet on odds never on offer |
| bet-worker (`internal/app/bets`) | `bets.status` | AcceptBet | a bet opens once, only from PENDING_RESERVE |
| settlement-service (`internal/app/settlement`) | `bets.status`, outbox rows | Settle | only open bets settle, once, however often the operator asks |
| risk-service, notification-service | `processed_events`; nothing | EvaluateRisk; Notify | nobody is told what is not so |
| outbox relay, polling (`internal/outboxrelay/relay.go`) | `outbox_events.published_at`, one AMQP channel | processOne | nothing marked before it is sent; causal order; no duplicate without a fault |
| outbox relay, CDC (`internal/outboxrelay/cdc.go`) | the canal's position (in memory), one channel | OnRow | the same, and a restart loses nothing |
| consumer loop (`internal/infra/rabbitmq/consume.go`) | deliveries held, the contexts of the handler and of the drain | the loop, shutdownConsumer | no Ack without the effect, every message ends, shutdown ends |
| topology, publisher (`internal/infra/rabbitmq`) | exchange, queues, DLX | declare, PublishJSON | events reach the queues that move a bet on; nothing is published or dead-lettered before its queue is there |
| odds-service (`internal/app/odds`, `internal/infra/redis`) | `market_odds`, a Redis copy | GetOdds, UpdateOdds, Seed | the copy is never invented, and converges |
| repositories (`internal/infra/mysql`) | none of their own | the statements | locks and conditional updates as the services rely on |
| migrations (`internal/migrate`) | `schema_migrations`, the schema, an advisory lock | Apply | records are true; migrators exclude one another; everyone gets up |
| api-gateway | none | reverse proxy, 502 | every request is answered |
| mains, configuration, metrics, tracing, uuid | counters | the order of a start, SIGTERM | ready means ready; a shutdown answers what it took |

Interactions: processes share the MySQL tables and nothing else in memory;
HTTP goes from the gateway to bet-service and settlement-service and from
bet-service to odds-service; everything else goes outbox row -> relay ->
exchange -> queue -> handler -> outbox row.

What is hard here, each listed with its line in `PROJECT.json` "hazards":

- duplicates: the relay publishes before its commit, an Ack may be lost, a
  commit may succeed and report an error, the canal replays its whole binlog;
- two deliveries of one event handled at the same time by two replicas;
- contention: reservations and payouts of one wallet; the row lock, the
  version test and the primary key of `processed_events` all guard it;
- partial failure: a first failure dead-letters an event and stops the saga; a
  failed Seed leaves odds-service without odds;
- the order of events: outbox ids and commits come in different orders;
- shutdown: SIGTERM cancels the context of the running handler, then drains;
- processes that stay up and useless: a relay without its channel, a
  wallet-service without its consumer;
- stale reads: a cache fill racing an update, a check before a transaction;
- starting: seven processes migrate at once, DDL commits by itself, and nothing
  but the code's order makes a queue exist before its first message;
- doubt: a commit whose answer is lost, and a client that tries again.

## 2. Modules

    WalletLedger  <--implements--  WalletService  <--proves--  WalletServiceProofs --uses--> FiniteSums
         ^                              |
         +----implements----------  BetSaga     (the other services around it)  <--proves--  BetSagaProofs
    EventFeed     <--implements--  OutboxRelay    <--proves--  OutboxRelayProofs
    ConsumerLoop   the loop WalletService and BetSaga have workers for  <--proves-- ConsumerLoopProofs
    OddsService    what happens before BetSaga's PlaceBet      <--proves-- OddsServiceProofs
    HttpApi        PlaceBet and Settle from the client's side  <--proves-- HttpApiProofs
    Startup        what happens before all the others          <--proves-- StartupProofs

The modules overlap at the steps where one takes as a single action what
another opens up. BetSaga composes all services over one database and one
broker with a transaction per step. WalletService opens the wallet's
transactions, ConsumerLoop the delivery, OutboxRelay the relay's transaction,
HttpApi the transactions of the two HTTP services, OddsService the check that
precedes one of them.

### WalletLedger
The promise, without queues or transactions: each placed bet is answered once
(debited or rejected), each settled bet once (paid or closed as lost), and the
balance moves with the answer and at no other time. Wallet rows may appear late
(they are seeded by hand).

### WalletService
`internal/app/wallet/service.go` in the granularity of its statements. The
broker holds `queue[e]` copies of each event. A worker goes through

    idle -Begin-> begun -LockWallet-> locked  -Reserve/Credit/RejectBet-> reserving/crediting/rejecting
                        |          -> missing -RejectBet-> rejecting
                        -Discard-> discarding (a LOSE with a zero payout)
    each of these -Commit...-> acking or failed;  any statement -Abort-> failed
    acking -Ack-> idle (or the Ack is lost);  failed -Nack-> idle, dead-lettered;  Crash anywhere

Writes of an open transaction are invisible, so they are installed by the
Commit action, and locks follow from `pc`: `HoldsWallet` (FOR UPDATE on the
row), `HoldsGap` (FOR UPDATE on a missing row under REPEATABLE READ), `Marks`
(the uncommitted primary key of `processed_events`). A Commit goes to `acking`
or to `failed`: the connection may break after the commit took effect. The
relay, bet-worker and settlement-service appear as the environment's `Publish`,
`Accept` and `Settle`.

### EventFeed
What the outbox promises: an event leaves if its transaction commits and only
then, after every event committed before it was written, and is forgotten only
after it left.

### WalletServiceProofs, BetSagaProofs, OutboxRelayProofs, ConsumerLoopProofs, OddsServiceProofs, StartupProofs, HttpApiProofs
One module of proofs for each of the seven models: the inductive invariants and
the proofs (section 5). FiniteSums has the facts about sums over finite sets that
the wallet's ledger needs.

### BetSaga
All services, a database transaction per step. `outbox` is the table, its ids
the events; `queues` the sets of ids waiting; `published` and `sending` the
relay; `dead` what is dead-lettered. `Routes` is the topology's bindings.
`funded` are the users with a wallet row. `Failing` names the consumers whose
handler may return an error. Any publish may be lost by the broker without the
relay noticing; `arrived` tells those rows apart (`Vanished`).

A consumer that is `Replicated` handles a delivery in two steps, because the
answer of IsProcessed may be stale when the handler goes on:

    queued -Begin-> begun -ReserveBalance/AcceptBet/SettleBalance/EvaluateRisk-> handled, or queued again
                          -DeadLetter-> dead, or dead and queued again
                          -WorkerDies-> queued
    queued -Again-> handled (IsProcessed finds the mark)

`begun[c]` holds the rows some worker was told are new. When another worker's
commit comes first, the rest of the handler is `Refused`: its mark is a duplicate
key, or AcceptBet finds a bet that is already settled. The rest, up to the COMMIT,
is one step: AcceptBet's UPDATE locks the bet's row (also when the status does not
match), so the status it then reads outside its transaction is the one the UPDATE
saw, and the primary key of `processed_events` decides at the mark.

### ConsumerLoop
`consume.go` for several replicas on one queue: the select, the handler under
the context it really gets, Ack and Nack with a closed channel, `ctx.Done` ->
basic.cancel -> drain under its own context -> drain timeout, SIGTERM, kill and
restart. `exits` is what the main does when its consumer ends: bet-worker's
exits, wallet-service's logs the error and waits for SIGTERM.

### OutboxRelay
The table with ids given at INSERT and rows visible at COMMIT (`row`, `saw`),
the binlog in commit order, pollers that select-for-update, publish, mark and
commit, and streamers (CDC) that read the binlog and mark afterwards. Crashes,
lost channels, publishes that break halfway, failed marks. `Stage` maps a row to
its stage in EventFeed.

### OddsService
One market: MySQL's row, Redis' copy (or none: `NoRedis`), and requests that
GET, POST odds or place a bet, each call a step that may fail; starts of
odds-service run `Seed`. `history` records what MySQL has held.

### Startup
`cmd/*/main.go` up to the point where a process serves: `Boot` lists the phases
of each main, `migrate`, `declare` or `seed`. `migrate` is
`internal/migrate/migrate.go` over the five files under `sql/` (`Script`: their
kinds and how many statements each has): GET_LOCK, per file a lookup, the
statements, the record, RELEASE_LOCK. A `ddl` or `grant` statement is durable at
once, a `seed` file at its commit. `declare` is DeclareBettingTopology. `SeedFails`
is a Seed whose ListAll or Save fails: odds-service logs it, serves all the same
and is remembered in `unseeded`.
`ordered` chooses between Compose, which starts services after the migrate job,
and processes that start at any time.

### HttpApi
A request from the client through the gateway to a handler and back:

    idle -Send-> gateway -Forward-> handling -Save/Settle-> written -SaveEvent-> announced -Commit-> replying -Reply-> ended
                         -> bounced (502)     -Refuse, Fail-> replying
                                              -PanicBet-> panicked (502)

and servers that get SIGTERM, drain, are killed, come back. `reply` is what the
handler decided, `answer` what the client saw. What a transaction wrote is
installed by `Commit`; `RowLockFree` is the lock of the bet's row.

MC modules hold the instances. Definitions headed "Mutant:" are plausible bugs
(a dropped guard, a lost lock, a swallowed error): with one put in place of the
definition below it, the property it is paired with in `PROJECT.json` fails. No
specification uses them.

## 3. Runs

Eight runs must pass, four show a document's claim violated (section 6). State
counts are distinct states.

| Run | Instance | Question and result |
|---|---|---|
| `wallet_duplicates` | 1 bet, 2 reserve + 2 settle workers, 1 copy of each event queued beside those in hand, 1 crash; fair; 182k | Every event may be with two workers at once, republished at any age, lost between commit and Ack. A rejected bet is never debited even if its wallet appears between two deliveries; marks are exact; the status follows its lifecycle; every step is a ledger step; every queued event is processed or dead-lettered. |
| `wallet_contention` | 3 bets of one user (paid, lost, wrong currency), 1 worker per queue; 2.1M | Stakes and payouts meet at one row. The balance is the opening balance less `wallet.reserved` plus `wallet.credited`, and the version test never fails. |
| `saga` | 1 bet of three kinds, with or without a wallet; reserve and payout handlers may fail; replicas of bet-worker hold one delivery; the broker loses publishes, Acks and relay commits get lost; fair; 59k | Events in causal order, status and events and notices agree, handlers refuse only repeats of what was handled, no bet in limbo; a bet is answered and its payout arrives unless an event of the bet is in a DLQ unhandled or was lost; the whole saga implements WalletLedger. |
| `saga_overdraft` | u2 has 5 and stakes 7 | Violation: section 6. |
| `consumer_loop` | 2 replicas, a message that can always be processed and one that may fail, prefetch 2, 2 losses or kills, 1 SIGTERM, both kinds of main; fair; 65k | Ack implies commit; the first message is dead-lettered only by a process under SIGTERM and, in the drain, only after its clock ran out; every message and every shutdown ends. |
| `consumer_shutdown` | 1 replica, 1 SIGTERM, nothing fails | Violation: section 6. |
| `outbox_relay` | 2 pollers + 1 CDC relay, 2 rows, 2 faults; fair; 23k | Causes before effects; one send per poller pool and streamer plus one per fault; committed rows are sent unless all relays end without a channel; the relays implement EventFeed. |
| `relay_at_least_once` | 1 CDC relay, 1 fault | Violation: section 6. |
| `odds_service` | 2 bets with their GETs, 2 updates (move, then suspend), 1 start; odds from an earlier life or none, Redis or none, failing calls, expiry; fair; 81k | No checked bet on odds that were never open; Redis converges; without Redis nobody can bet. |
| `startup` | the migrate job, outbox-relay, wallet-service, odds-service over the five real files, in Compose's order or any; 2 deaths, lock timeouts or failed Seeds; fair; 316k | Records are true, a refused statement has a cause, whoever serves has what it needs (odds-service its odds unless its Seed failed), everyone gets up unless a death tore a file. |
| `startup_torn` | the migrate job and a relay, 1 death | Violation: section 6. |
| `http_api` | 1 customer, 1 operator, 2 attempts each, 1 SIGTERM, 1 kill or drain timeout or lost connection; fair; 691k | Bet and event together, 201 and 202 are durable, a settlement takes effect once, only 500, 502 and silence leave doubt, SIGTERM loses no answer, everything comes to rest. |

Why the bounds are enough to be interesting:

- Two workers per queue and one queued copy (`MaxCopies`) put the same event
  with two workers and one more in the queue; a third adds no pair of lock
  holders. The proofs of section 5 remove this bound for the safety part.
- Bets interact only through their wallet, so bets of one user are the
  contention; a bet's own life needs one. In `saga`, `MaxPlaced` = 1 lets one of
  three bets be placed, so that one run covers the kinds.
- `MaxCrashes`, `MaxFaults`, `MaxLosses`: one fault breaks each atomic pair
  (publish/mark, commit/Ack, statement/record); two of them show a fault during
  the recovery from the first. `MaxTerms` = 1: SIGTERM to one process, so that
  the others work on beside one that drains.
- `MaxRows = 2` in OutboxRelay is the smallest table in which id order and
  commit order differ, and a rolled back id leaves a gap.
- `MaxTries` = 2 in HttpApi is one retry, after any answer.
- `NoticeCap` = 1 distinguishes a notice from none; the properties ask no more.
- `Replicated` = {bet-accept} in `saga`: bet-worker is the consumer whose second
  worker can find the bet two steps on. WalletService has wallet-service's
  duplicates statement by statement, and the proofs cover any `Replicated`.
  `Failing` leaves bet-worker out, so that its dead letters are refusals only.
- Two updates, the demo odds and the odds of an earlier life give four versions,
  so a fill can be two updates late.
- Startup's processes are the longest start, a start with GRANT, one without,
  and the one that does not migrate; every other main does a part of the longest start.

Deadlock checking is off where the system may come to rest (no more bets, an
empty queue, all requests answered, all processes up); each such cfg says so.
The wallet runs check for it: the relay can always resend.

## 4. Fairness

Liveness assumes:

- *Goroutines run and calls return* (`WF` of a worker's `Step`, a replica's
  `Loop`, a relay's `Relay`, a request's `Serve`, a process' `Step` in Startup,
  `RelaySend` in BetSaga): each database or HTTP call has a context or a timeout,
  and InnoDB ends a lock wait with an error. Nothing is assumed about *which* way
  a call returns.
- *Queues are FIFO*: `SF` of `Begin` for each event in WalletService, whose queues
  are counters, so that an event others keep overtaking must be said to reach the
  head. BetSaga asks for less: wallet-service's consumers and bet-worker handle
  some row while any waits. Nothing rests on risk-service or notification-service.
- *MySQL queues lock waiters* (`SF` of `Select` and `Mark` in OutboxRelay, of
  `GetLock` in Startup). A wait of more than 30 seconds for the advisory lock ends
  the process; it is one of Startup's faults.
- *A relay does not fail for ever on one row* (`SF` of `RelayMark` in BetSaga):
  losing every commit for ever is an outage, not a behaviour of the code.
- *What exits is started again* (`WF` of `Restart`, of `Start` in Startup): the
  Kubernetes Deployments and Jobs restart containers. docker-compose.yml has no
  restart policy, so there the liveness results hold up to the first exit, or
  with `docker compose up` run again.
- *A drain that nothing holds up ends* (`WF` of `Drained` in HttpApi).

No fault, signal, bet, settlement, retry or expiry of the drain is assumed to
happen. Conversely, processes that stay up but do nothing are not restarted by
anyone: `EveryMessageEnds` and `CommittedIsSent` name that exception (`Zombie`,
`Useless`) in the property instead of assuming it away, as `EveryoneStarts` does
with a torn migration (`Torn`).

## 5. Proofs

### The wallet

`WalletServiceProofs` proves, for any sets of users, bets, workers, any amounts,
any number of copies and crashes:

| Theorem | Property | In words |
|---|---|---|
| Invariance | `[]IInv` | the inductive invariant |
| TypeCorrect | TypeOK | |
| EffectsOnce | `AtMostOnce` (no run) | a stake is taken and a payout paid at most once |
| RejectionKeepsStake | RejectedNeverDebited | |
| VersionTestPasses | VersionHeld | the optimistic test under FOR UPDATE never fails |
| MarksAreExact | ProcessedMeansDone | `processed_events` records exactly the committed effects |
| WalletIsThere | `SettledHasWallet` (no run) | "no wallet for user" is dead code |
| LedgerIsExact | LedgerExact | a balance is its opening less the stakes plus the payouts its outbox announces |
| BetLifecycle | Lifecycle | although rejectBet's UPDATE is unconditional |
| Refinement | ImplementsLedger | the service implements WalletLedger |

Assumptions: those named in WalletService (bets are finite and have owners,
amounts are integers, the two kinds of workers are disjoint, `NoEvent` is no
event), which every wallet run evaluates on its instance.

None of the properties is inductive. `AtMostOnce` says nothing about a
transaction that is about to commit a second reservation. The invariant adds:

- `Holding`: a busy worker holds an event of its own queue;
- `Checked`: what each stage has established - the wallet exists and has the
  version seen, the bet is not mismatched, the event is committed when it is
  being acknowledged;
- `Exclusive`: two workers never hold one wallet row or mark one event, and what
  a transaction marks is not committed yet;
- `Recorded`: `processed_events`, `outbox_events` and `bets` agree on each bet;
- `Sequenced`: a settled event, queued or in hand, belongs to a SETTLED bet.

The argument in a line: `Exclusive` gives an event's effect to one open
transaction, which by `Exclusive` and `Recorded` finds it not done, so that its
commit does it the first time; `Sequenced` and `Recorded` say that a bet being
paid was reserved, hence has a wallet. Each conjunct has a lemma (TypeStep,
HoldingStep, CheckedStep, ExclusiveStep, RecordedStep, SequencedStep) with one
step per action. The refinement maps a committed reservation to Debit, a
rejection to Reject, a credit to Pay, a discarded lost bet to Close, a new
wallet to OpenAccount, and everything else to a stutter (LedgerUnmoved).

`LedgerExact` is inductive together with `IInv`, but speaks of a sum over all bets
of a user, which `MapThenSumSet` computes by a recursive function on sets. What
the proof needs of it is in `FiniteSums`: such a function exists, is the only one,
has integers as its values, is zero when all summands are, and changes by d when
one summand does (SumExists, SumIsUnique, SumIsInt, SumOfZeros, SumChanges). Those
are inductions on the size of a set; since the provers cannot use a theorem with
an operator parameter, each is argued from a counterexample of least size
(LeastNat, from the well-foundedness of <). A commit changes the summand of one
bet by minus its stake or by its payout, and the balance by as much (LedgerMoves).

### The saga

`BetSagaProofs` proves, for any users, bets, amounts, consumers that fail or have
replicas, and messages the broker loses:

| Theorem | Property | In words |
|---|---|---|
| Invariance | `[]IInv` | the inductive invariant |
| TypeCorrect | TypeOK | and the relay never holds a row that is marked published, a worker only one that is queued |
| StagesInOrder | SagaOrder | each stage of a bet once, no effect before its cause |
| StatusIsTrue | StatusMatchesEvents | status, events and notices of a bet agree |
| RefusalsAreRepeats | OnlyRepeatsRefused | the errors of the handlers themselves meet only events that were handled already |
| NobodyInLimbo | NoLimbo | a waiting bet has a row that can still move it on, or was given up visibly |
| Refinement | ImplementsLedger | all services together implement WalletLedger |

Assumptions: `SagaBets`, `SagaAmounts`, `SagaInputs` of BetSaga (bets are finite
and have owners, amounts are integers, the bounds are naturals). TLC has its
bounds in `MaxPlaced` and `NoticeCap`; the theorems hold for each value of them.

StatusMatchesEvents relates `status` and `outbox` and is silent on the marks of
`processed_events`, which decide what a redelivered row does. The invariant adds:

- `Unique`: the outbox holds one row of each type and bet;
- `Routed`: only rows of the types a queue is bound to are in it or marked for it;
- `Tracked`: a row that arrived is queued, marked or dead for each of its consumers
  (but notification-service, which marks nothing);
- `OnlyRepeatsDead`: what a consumer that does not fail dead-letters is marked for
  it;
- `Told`: notices are of rows that exist;
- `Life(b)`: a bet's status says which of its rows exist, and the wallet's answer
  is the one its currency and its wallet row call for;
- `Answered(b)`: a row is marked for its consumer exactly when the rows or the
  status its handler writes are there.

A handler that finds its row unmarked then finds, by `Answered`, that the bet has
not moved on and, by `Life`, the status the row announced (FirstDelivery): it can
neither refuse nor write a stage twice. One that was told its row is new and finds
it marked at its own INSERT commits nothing, whatever the bet's status is by then,
and dead-letters a row that is handled (RefusalsOK). With `Tracked` the row of a waiting bet is
unpublished, vanished, queued or dead, which is NoLimbo. There is one lemma for
each handler; the relay's and the broker's steps leave bets and rows alone
(QuietStep).

### The relays

`OutboxRelayProofs` proves, for any numbers of rows, pollers, streamers and
faults, with or without `published_at` written by the CDC relay:

| Theorem | Property | In words |
|---|---|---|
| Invariance | `[]IInv` | the inductive invariant |
| TypeCorrect | TypeOK | and the binlog holds each committed row once, pollers exclude one another |
| CausesFirst | CausalOrder | no event leaves before one its transaction saw |
| NothingIsForgotten | `published \subseteq Sent` | a row is marked only after its message left |
| FewDuplicates | DuplicatesNeedFaults | one send for all pollers, one per binlog reader, one per fault |
| Refinement | ImplementsFeed | any mix of relays implements EventFeed |

Assumption: `RelayAssumption` of OutboxRelay (pollers and streamers are disjoint,
streamers are finitely many, the bounds are naturals), which both relay runs
evaluate.

CausalOrder is not inductive: it says nothing of a relay that is about to
publish. The invariant adds:

- `Numbered`: ids are given in order, and a row saw only committed rows of
  smaller ids;
- `Logged`: the binlog holds every committed row once, after its causes;
- `Honest`: marked rows are sent, sent rows are committed, in causal order;
- `Ready`: a relay that has selected a row knows the row's causes to be sent;
  one that has published it knows it to be sent; a streamer has sent all that
  lies behind its position;
- `Exclusive`: pollers hold different rows.

A poller's row is the smallest unmarked id, so by `Numbered` its causes are
marked and by `Honest` sent; a streamer's is the next of the binlog, so by
`Logged` its causes lie behind it. One lemma per action (InsertOK, CommitOK, ...,
MarkOK) shows each conjunct; ReadyIsKept covers the relays that do not move. The
refinement maps Insert to Write, CommitRow and RollbackRow to End, the first
send of a row to Send, its mark to Forget, and every repetition to a stutter.

DuplicatesNeedFaults needs a count of its own, `Counted`: what was sent of a row is
at most one for the pollers if one of them has published it (`PollersDone`: it is
marked or about to be), one for each streamer that has passed it since it started
(`Past`), and the faults (`WithinCount`). `Distinct` (the binlog lists a row once)
and `Locked` (the row a poller has locked is not marked) show that whoever
publishes a row is not counted for it yet (SelectedIsNew). A streamer that starts
again is counted no longer, and a poller that loses its mark neither, which a
fault pays for (CountIsKept).

### The consumers

`ConsumerLoopProofs` proves, for any replicas and messages, any prefetch, and any
numbers of lost channels, kills and SIGTERMs:

| Theorem | Property | In words |
|---|---|---|
| Invariance | `[]IInv` | the inductive invariant |
| TypeCorrect | TypeOK | and a message is in one place only |
| NothingAckedUndone | AckedMeansCommitted | an acknowledged message is processed |
| DeathIsHealthy | HealthyDeath | only a process under SIGTERM dead-letters what it could process |

Assumption: `LoopAssumption` of ConsumerLoop (`NoMsg` is no message, the prefetch
is positive, the bounds are naturals).

TypeOK says that each message is in one place, AckedMeansCommitted what holds of
those that are gone; neither says what a goroutine is about to acknowledge. The
invariant takes TypeOK apart (`Shape`, `Somewhere`, `OnePlace`) and adds `Hand`
(the message in hand is delivered and unacknowledged while the channel is open)
and `Outcome` (after a commit it is processed; a handler fails on a message that
always fails, or because SIGTERM cancelled its context; while draining, because
the drain's clock ran out). HealthyDeath follows from `Outcome` at the one step
that dead-letters, Nack.

### The odds

`OddsServiceProofs` proves, for any updates, reads, bets, starts, odds and
failures:

| Theorem | Property | In words |
|---|---|---|
| Invariance | `[]IInv` | the inductive invariant |
| TypeCorrect | TypeOK | and cache and answers hold only what MySQL has held |
| BetsWereOffered | PlacedWasOffered | a checked bet is placed at odds that were on offer |
| RedisIsNeeded | WithoutRedisNoBets | without Redis no bet is placed |

Assumption: `OddsAssumption` of OddsService (the four kinds of requests are
disjoint, `NoOdds` and `NoRedis` are no odds).

The invariant adds to the types `Carried` (what a writer brings to Redis after its
upsert is in MySQL's history), `Checked` (a bet past its check passed it on the
answer it keeps) and `Stuck` (without Redis a read gets no further than its first
call). The history only grows, so an entry or an answer that was true once stays
accounted for, however late it is written; that is all the code gives, and why
PlacedWasOffered says "at some time".

### The start

`StartupProofs` proves, for any processes running any of the nine programs in any
number of copies, and any number of deaths, lock timeouts and failed Seeds:

| Theorem | Property | In words |
|---|---|---|
| Invariance | `[]IInv` | the inductive invariant |
| TypeCorrect | TypeOK | and whoever is inside Apply, nobody else, owns the advisory lock |
| RecordsAreTrue | RecordedIsComplete | a recorded file is durable, and so are those before it |
| Readiness | ReadyMeansReady | whoever is up finds the schema and queues it needs, in whatever order they start; odds-service finds odds in Compose's order, unless its Seed failed |
| NobodyInTheWay | RefusedHasCause | a statement is refused only after a death or, out of Compose's order, for a missing right |

Assumptions: `StartupAssumption` of Startup, and for NobodyInTheWay also
`JobMayGrant` (the user of the migrate job has GRANT OPTION, as in Compose; the
Kubernetes manifests give it to nobody, see section 6). The files, the statements
in them and the lists of phases are those of the code, not parameters.

RecordedIsComplete is not inductive: it must be known that the file a runner is
about to record has been executed and that nobody else has come between. The
invariant adds:

- `Locked`: a process is between GET_LOCK and RELEASE_LOCK exactly when it owns
  the lock;
- `TornByDeath`: statements of an unrecorded file are there because the file's
  runner is under way in it or a death interrupted one;
- `DeadLettersFirst`: no work queue without the dead-letter exchange;
- for each process, `Phased` and `Position`: where it is in its program, file and
  statement, and that what lies behind it is recorded or declared;
- for each process, `Served`: what the phases before its present one have left,
  and, in Compose's order, what the services before it have left.

By `Locked` a runner is alone in Apply, so what it found about a file when it
looked (`Position`) still holds when it records it. A table that is already there
then has, by `TornByDeath` and since no other runner is under way, a death behind
it.

### The requests

`HttpApiProofs` proves, for any sets of customers and operators, any number of
attempts, SIGTERMs and faults:

| Theorem | Property | In words |
|---|---|---|
| Invariance | `[]IInv` | the inductive invariant |
| TypeCorrect | TypeOK | and no handler replies without a status |
| SuccessMeansDone | SuccessIsDurable | 201 and 202 mean the bet or settlement and its event are there |
| SettledOnce | OneSettlement | a settlement takes effect once; 409 means another one did |
| OnlyDoubtDuplicates | DuplicatesNeedDoubt | a second bet only after 500, 502 or silence |
| ShutdownIsClean | ShutdownLosesNothing | SIGTERM alone loses no answer |

Assumption: `HttpAssumption` of HttpApi (no customer is an operator, the bounds
are naturals, an attempt at least).

Each property speaks of answers that clients got, so the invariant says what a
handler may be about to answer: `Decided`, `Unanswered` and `Committed` place the
status and the commit in a request's life; `Durable`, `Conflict` and `Doubt` tie
the status under way, like the one that arrived, to the tables; `Waited` says
that without a fault a request on its way still has a client; `Exclusive` is the
lock of the bet's row with the status read under it; `InTurn` says that an
attempt starts when all before it have failed. QuietStep covers a request that
moves without committing, OneIsKept the requests that do not move.

### What is only model-checked

All liveness, since fairness and ENABLED are beyond the provers: QueuedIsAnswered,
BetIsAnswered, EveryMessageEnds, ShutdownEnds, CommittedIsSent, CacheConverges,
EveryoneStarts and ComesToRest. Every other property of a passing run, invariant,
action property or refinement, is a theorem. The properties of the four runs that
expect a violation are false, so there is nothing to prove.

## 6. Where documents and code disagree

Each with a run whose counterexample shows it:

- `saga_overdraft`. The Postman collection expects a bet of a user with 5.00 USD
  to be rejected for its size; ReserveBalance never compares stake and balance,
  so the bet opens and the wallet is negative.
- `consumer_shutdown`. docs/ARCHITECTURE.md says SIGTERM waits for in-flight
  processing. The context SIGTERM cancels is the handler's, so its next
  statement fails and the message is rejected without requeue.
- `relay_at_least_once`. README.md and docs/ARCHITECTURE.md promise
  at-least-once delivery. A relay whose channel closed never opens another; the
  CDC relay's canal ends and only a log line says so.
- `startup_torn`. migrate.go:19 says that each SQL file runs at most once. A
  `CREATE TABLE` commits the transaction it is in, so a migrator that dies before
  the version is recorded leaves a file that runs again, fails on its own table,
  and keeps every process from starting until somebody repairs the schema.

Seen while reading, without a run of their own:

- README.md:55 "All consumers use a `processed_events` table": Notify does not
  (BetSaga's `Notify` has no such check, and `notices` may grow on a redelivery).
- docs/ARCHITECTURE.md:139 dead-letters "messages that fail repeatedly":
  consume.go:73 dead-letters on the first failure.
- Publishes are not confirmed (publisher.go:27), so a message the broker drops
  is marked published; `saga` shows that this loses progress, not money.
- docs/ARCHITECTURE.md section 10.2 describes compensation through
  `bet.failed.v1`; no code emits or consumes it. A bet whose `wallet.reserved`
  event is dead-lettered keeps its stake reserved (the exception in
  `BetIsAnswered`).
- docs/ARCHITECTURE.md section 10.3 has optimistic locking in odds-service; the
  upsert overwrites any version (OddsService `Save`).
- docs/ARCHITECTURE.md:51-52 has the check keep users from betting on stale
  prices. A fill that read MySQL before an update may overwrite the update's
  entry and lives for ten minutes: `PlacedWasOffered` says "at some time", and
  `CacheConverges` only that the stale entry goes away.
- REDIS_ADDR may be empty, but then main stores a nil `*RedisOddsCache` in the
  interface: every request for odds panics, and `WithoutRedisNoBets` holds.
- The Kubernetes manifests give no process a user with GRANT OPTION, so
  `0004_cdc_privileges.sql` never succeeds there; in Compose only the migrate job
  has one. `EveryoneStarts` is checked with one such process.
- `manual_seed.sql` is embedded and applied with the numbered files.
- Two workers that hold one `wallet.reserved` (a redelivery while the first still
  works) both pass IsProcessed. The slower one fails, on the duplicate key or, once
  the operator has settled, with "unexpected status" (bets/service.go:85), and its
  delivery is dead-lettered although the event was handled: OnlyRepeatsRefused says
  that such repeats are all a healthy bet-worker dead-letters.
- A failed Seed is only logged (cmd/odds-service/main.go:62-64): odds-service
  then serves an empty table until its next start.
- bets.go:51 ignores the error of NewRequestWithContext: a market_id such as `%zz`
  makes Do panic, and the client gets 502 instead of 400 (HttpApi `PanicBet`).
- `ParseFloat` accepts NaN and Inf as a stake (MySQL refuses them at the INSERT)
  and 0.00001, which DECIMAL(19,4) stores as 0.

## 7. Abstractions, and what is not modelled

- Amounts are integers in units of 0.0001; DECIMAL rounding and the parsing of
  request text are not modelled. A payout the CAST refuses is a statement that
  fails (`Abort`). Event payloads are a type and a bet.
- The database is one serial point with InnoDB's row, gap and unique-key locks
  as far as the handlers use them; a deadlock victim and a lock wait timeout are
  failures of a statement (`Abort`).
- BetSaga's queues have no order and no count: a duplicate is a row that stays.
  The fanout of the dead-letter exchange to all five DLQs is one set, `dead`.
- ConsumerLoop's handler commits or leaves nothing; a commit that reports an
  error is WalletService's `Commit` to `failed`. Handlers run in the loop's own
  goroutine, so `waitInflightOrTimeout` always finds its WaitGroup at zero and is
  no action. preNackBackoff is a delay only.
- wallet-service runs two loops over one connection; ConsumerLoop models one
  queue. One channel closing without the other is the general case there.
- OutboxRelay: a message is sent when the channel has taken it. The canal starts
  at the first binlog the server still has; that none has been purged is
  assumed. The canal's own reconnects to MySQL and multi-row INSERTs (no code
  makes any) are left out.
- OddsService has one market; requests share nothing across markets. A GET
  cancelled by bet-service's timeout leaves its fill undone, which is the same
  as a fill that fails. With an empty ODDS_SERVICE_URL bet-service makes no check
  at all; that configuration is not modelled.
- Startup counts what a statement creates and does not look inside it. A queue
  with its bindings is one declaration. A process that is told to stop while it
  starts is a `Fault`. Between the services of one database user it makes no
  difference which of them runs a file, so four processes stand for nine.
- HttpApi has one open bet to settle and takes validation and the odds check as
  one refusal (a market_id that makes no URL is PanicBet); the 409 for a bet of another user or one that never was, GET
  through the gateway (it writes nothing) and POST /dev/publish-test-bet-placed
  are left out. A 500 or 502 may follow a commit or a rollback, which is what the
  client cannot know.
- Not modelled, because nothing about it is state: ListOdds, JSON, metrics,
  tracing, log context, the drawing of identifiers (taken to be fresh),
  configuration values. The Kubernetes manifests appear as restart policies.

## 8. Plan

Done: the abstract specifications WalletLedger and EventFeed, the seven models
WalletService, BetSaga, ConsumerLoop, OutboxRelay, OddsService, HttpApi and
Startup, and for each its inductive invariant and the proofs of its safety
properties and refinements.

Next:

1. What the liveness results rest on, as far as it is safety: that a waiting
   message or row always has a step some process can take to move it on, stated
   without ENABLED.
2. Consequences of the abstract specifications, proved once of WalletLedger and
   EventFeed and carried to their implementations by the refinements.
