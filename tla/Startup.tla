------------------------------- MODULE Startup -------------------------------
(***************************************************************************)
(* How the processes of the system come up (cmd/*/main.go) on one MySQL    *)
(* and one RabbitMQ: most apply the embedded migrations themselves         *)
(* (internal/migrate), in parallel, one at a time under GET_LOCK; then     *)
(* they declare the topology and serve.  An error ends the process with    *)
(* exit status 1, and an orchestrator may start it again; but odds-service *)
(* logs an error of its Seed and serves.                                   *)
(*                                                                         *)
(* A migration file runs statement by statement in what the code takes for *)
(* a transaction.  MySQL commits DDL and GRANT at once, and with them the  *)
(* transaction: their statements, and the version recorded after them, are *)
(* durable one by one.  Only the seed files really are transactions.       *)
(***************************************************************************)
EXTENDS Integers, Sequences, Functions

CONSTANTS
    Procs,
    Service,    \* [Procs -> Services]: the program a process runs
    Root,       \* processes whose DSN is that of a user with GRANT OPTION
    Nobody,     \* owner of a free lock
    MaxFaults   \* bound: deaths of processes or connections, waits that time out

\* The files under internal/migrate/sql: what kind of statements, and how many.
InitSchema    == [kind |-> "ddl",   size |-> 5]
DevSeed       == [kind |-> "seed",  size |-> 6]
OddsTable     == [kind |-> "ddl",   size |-> 1]
CdcPrivileges == [kind |-> "grant", size |-> 2]
ManualSeed    == [kind |-> "seed",  size |-> 2]

\* collectSQLNames: every .sql file, in lexical order, manual_seed.sql among them.
Script == <<InitSchema, DevSeed, OddsTable, CdcPrivileges, ManualSeed>>
Files == DOMAIN Script
MarketOdds == 3

\* DeclareBettingTopology, in its order: exchanges, and queues with their bindings.
Topology == <<"dlx", "dlqs", "topic", "wallet.bet-placed", "risk.bet-placed",
              "bet.wallet-reserved", "wallet.bet-settled", "notify.bet-events">>
WorkQueues == {"wallet.bet-placed", "risk.bet-placed", "bet.wallet-reserved",
               "wallet.bet-settled", "notify.bet-events"}

\* What each main does that others can see, before it serves or consumes.
MigrateJob == <<"migrate">>
BetService == <<"migrate", "declare">>
BetWorker == <<"migrate", "declare">>
WalletService == <<"migrate", "declare", "declare">>
RiskService == <<"migrate", "declare">>
SettlementService == <<"migrate">>
\* Mutant: the relay trusts the consumers to declare their queues.
RelayDeclaresNothing == <<"migrate">>
OutboxRelay == <<"migrate", "declare">>
NotificationService == <<"declare">>
OddsService == <<"seed">>

Services == {"migrate", "bet-service", "bet-worker", "wallet-service", "risk-service",
             "settlement-service", "outbox-relay", "notification-service", "odds-service"}
Boot(p) == CASE Service[p] = "migrate"              -> MigrateJob
             [] Service[p] = "bet-service"          -> BetService
             [] Service[p] = "bet-worker"           -> BetWorker
             [] Service[p] = "wallet-service"       -> WalletService
             [] Service[p] = "risk-service"         -> RiskService
             [] Service[p] = "settlement-service"   -> SettlementService
             [] Service[p] = "outbox-relay"         -> OutboxRelay
             [] Service[p] = "notification-service" -> NotificationService
             [] Service[p] = "odds-service"         -> OddsService

ASSUME StartupAssumption ==
    /\ Service \in [Procs -> Services]
    /\ Root \subseteq Procs
    /\ Nobody \notin Procs
    /\ MaxFaults \in Nat

VARIABLES
    \* MySQL
    lock,         \* owner of GET_LOCK('sportsbook_migrate')
    done,         \* [Files -> number of its statements that are durable]
    recorded,     \* rows of schema_migrations
    market,       \* market_odds has a row
    \* RabbitMQ
    topology,     \* what has been declared
    \* the orchestrator: does it start the services after the migrate job (Compose)?
    ordered,
    \* the processes
    pc, phase,    \* where a process is, and in which phase of its start
    file, stmt,   \* in Apply and Declare: next file, next statement or declaration; else 1
    faults,
    interrupted,  \* files in the middle of which a process died
    unseeded      \* processes that serve although the database failed their Seed

db == <<lock, done, recorded, market>>
where == <<pc, phase, file, stmt>>
vars == <<db, topology, ordered, where, faults, interrupted, unseeded>>

Init ==
    /\ lock = Nobody
    /\ done = [f \in Files |-> 0]
    /\ recorded = {}
    /\ market = FALSE
    /\ topology = {}
    /\ ordered \in BOOLEAN
    /\ pc = [p \in Procs |-> "down"]
    /\ phase = [p \in Procs |-> 1]
    /\ file = [p \in Procs |-> 1]
    /\ stmt = [p \in Procs |-> 1]
    /\ faults = 0
    /\ interrupted = {}
    /\ unseeded = {}

-----------------------------------------------------------------------------
(* Starting and ending.                                                    *)

Goto(p, label) == pc' = [pc EXCEPT ![p] = label]

\* The phase is over: the next one, or serve.
Proceed(p) ==
    /\ phase' = [phase EXCEPT ![p] = @ + 1]
    /\ Goto(p, IF phase[p] = Len(Boot(p)) THEN "up" ELSE Boot(p)[phase[p] + 1])
    /\ stmt' = [stmt EXCEPT ![p] = 1]
    /\ file' = [file EXCEPT ![p] = 1]

\* os.Exit(1), or death: MySQL ends the session and with it its advisory lock.
Exit(p) ==
    /\ Goto(p, "down")
    /\ lock' = IF lock = p THEN Nobody ELSE lock
    /\ phase' = [phase EXCEPT ![p] = 1]
    /\ file' = [file EXCEPT ![p] = 1]
    /\ stmt' = [stmt EXCEPT ![p] = 1]
    /\ unseeded' = unseeded \ {p}
    /\ UNCHANGED <<done, recorded, market, topology, ordered>>

Completed(p) == Service[p] = "migrate" /\ pc[p] = "up"

\* Compose starts what depends on the migrate job when the job has completed.
Start(p) ==
    /\ pc[p] = "down"
    /\ ordered /\ Service[p] \notin {"migrate", "notification-service"}
           => \E m \in Procs : Completed(m)
    /\ Goto(p, Boot(p)[1])
    /\ UNCHANGED <<db, topology, ordered, phase, file, stmt, faults, interrupted, unseeded>>

\* The process is killed, told to stop (ctx is cancelled), or loses a connection.
Fault(p) ==
    /\ pc[p] # "down" /\ ~Completed(p)
    /\ faults < MaxFaults
    /\ faults' = faults + 1
    /\ interrupted' = IF pc[p] = "running" THEN interrupted \cup {file[p]} ELSE interrupted
    /\ Exit(p)

-----------------------------------------------------------------------------
(* migrate.Apply.                                                          *)

\* Mutant: no advisory lock.
LockIgnored(p) ==
    /\ pc[p] = "migrate"
    /\ lock' = p
    /\ Goto(p, "checking")
    /\ UNCHANGED <<done, recorded, market, topology, ordered>>
    /\ UNCHANGED <<phase, file, stmt, faults, interrupted, unseeded>>
\* SELECT GET_LOCK; CREATE TABLE IF NOT EXISTS schema_migrations.
GetLock(p) ==
    /\ pc[p] = "migrate"
    /\ lock = Nobody
    /\ lock' = p
    /\ Goto(p, "checking")
    /\ UNCHANGED <<done, recorded, market, topology, ordered>>
    /\ UNCHANGED <<phase, file, stmt, faults, interrupted, unseeded>>

\* Another process kept the lock for 30 seconds.
LockTimeout(p) ==
    /\ pc[p] = "migrate"
    /\ lock # Nobody
    /\ faults < MaxFaults
    /\ faults' = faults + 1
    /\ Exit(p)
    /\ UNCHANGED interrupted

\* SELECT COUNT(*) FROM schema_migrations WHERE version = ?
Skip(p) ==
    /\ pc[p] = "checking"
    /\ file[p] \in recorded
    /\ file' = [file EXCEPT ![p] = @ + 1]
    /\ UNCHANGED <<db, topology, ordered, pc, phase, stmt, faults, interrupted, unseeded>>

BeginFile(p) ==
    /\ pc[p] = "checking"
    /\ file[p] \in Files \ recorded
    /\ Goto(p, "running")
    /\ UNCHANGED <<db, topology, ordered, phase, file, stmt, faults, interrupted, unseeded>>

Kind(p) == Script[file[p]].kind
Remaining(p) == pc[p] = "running" /\ stmt[p] <= Script[file[p]].size

\* CREATE TABLE of a table that is there, or GRANT without the right to.
Refused(p) == \/ Kind(p) = "ddl" /\ stmt[p] <= done[file[p]]
              \/ Kind(p) = "grant" /\ p \notin Root

\* execStatements: one statement.  INSERT IGNORE waits for the commit.
Execute(p) ==
    /\ Remaining(p)
    /\ ~Refused(p)
    /\ done' = IF Kind(p) = "seed" \/ stmt[p] <= done[file[p]] THEN done
               ELSE [done EXCEPT ![file[p]] = stmt[p]]
    /\ stmt' = [stmt EXCEPT ![p] = @ + 1]
    /\ UNCHANGED <<lock, recorded, market, topology, ordered, pc, phase, file, faults,
                   interrupted, unseeded>>

ExecuteFails(p) ==
    /\ Remaining(p)
    /\ Refused(p)
    /\ Exit(p)
    /\ UNCHANGED <<faults, interrupted>>

\* Mutant: the version is recorded before the statements, not after them.
RecordFirst(p) ==
    /\ pc[p] = "running" /\ stmt[p] = 1
    /\ recorded' = recorded \cup {file[p]}
    /\ done' = IF Kind(p) = "seed" THEN [done EXCEPT ![file[p]] = Script[file[p]].size] ELSE done
    /\ file' = [file EXCEPT ![p] = @ + 1]
    /\ stmt' = [stmt EXCEPT ![p] = 1]
    /\ Goto(p, "checking")
    /\ UNCHANGED <<lock, market, topology, ordered, phase, faults, interrupted, unseeded>>
\* INSERT INTO schema_migrations and COMMIT.
Record(p) ==
    /\ pc[p] = "running" /\ stmt[p] > Script[file[p]].size
    /\ recorded' = recorded \cup {file[p]}
    /\ done' = [done EXCEPT ![file[p]] = Script[file[p]].size]
    /\ file' = [file EXCEPT ![p] = @ + 1]
    /\ stmt' = [stmt EXCEPT ![p] = 1]
    /\ Goto(p, "checking")
    /\ UNCHANGED <<lock, market, topology, ordered, phase, faults, interrupted, unseeded>>

\* Mutant: the connection returns to the pool with the lock.
FinishLocked(p) ==
    /\ pc[p] = "checking"
    /\ file[p] \notin Files
    /\ Proceed(p)
    /\ UNCHANGED <<db, topology, ordered, faults, interrupted, unseeded>>
\* No file is left: RELEASE_LOCK.
Finish(p) ==
    /\ pc[p] = "checking"
    /\ file[p] \notin Files
    /\ lock' = Nobody
    /\ Proceed(p)
    /\ UNCHANGED <<done, recorded, market, topology, ordered, faults, interrupted, unseeded>>

-----------------------------------------------------------------------------
(* The rest of a start.                                                    *)

\* DeclareBettingTopology: every declaration is idempotent.
Declare(p) ==
    /\ pc[p] = "declare"
    /\ topology' = topology \cup {Topology[stmt[p]]}
    /\ IF stmt[p] = Len(Topology)
       THEN Proceed(p)
       ELSE /\ stmt' = [stmt EXCEPT ![p] = @ + 1]
            /\ UNCHANGED <<pc, phase, file>>
    /\ UNCHANGED <<db, ordered, faults, interrupted, unseeded>>

\* Seed: without the table an error that is only logged; an empty table gets its row.
SeedMarket(p) ==
    /\ pc[p] = "seed"
    /\ market' = (market \/ done[MarketOdds] > 0)
    /\ Proceed(p)
    /\ UNCHANGED <<lock, done, recorded, topology, ordered, faults, interrupted, unseeded>>

\* ListAll or Save fails, or its answer is lost after the row was written: the error is
\* logged and odds-service serves all the same.
SeedFails(p) ==
    /\ pc[p] = "seed"
    /\ faults < MaxFaults
    /\ faults' = faults + 1
    /\ market' \in {market, market \/ done[MarketOdds] > 0}
    /\ unseeded' = unseeded \cup {p}
    /\ Proceed(p)
    /\ UNCHANGED <<lock, done, recorded, topology, ordered, interrupted>>

Step(p) ==
    \/ GetLock(p) \/ Skip(p) \/ BeginFile(p) \/ Execute(p) \/ ExecuteFails(p)
    \/ Record(p) \/ Finish(p) \/ Declare(p) \/ SeedMarket(p)

Next == \E p \in Procs : Start(p) \/ Step(p) \/ LockTimeout(p) \/ Fault(p) \/ SeedFails(p)

Spec == Init /\ [][Next]_vars

\* A process that has started goes on, one that waits for the lock gets it some time,
\* and what ended is started again (the restart policy of a Kubernetes Job or
\* Deployment; `docker compose up`, run again).
Fairness == \A p \in Procs :
    WF_vars(Start(p)) /\ WF_vars(Step(p)) /\ SF_vars(GetLock(p))

FairSpec == Spec /\ Fairness

-----------------------------------------------------------------------------
(* Properties.                                                             *)

Phases == {"migrate", "declare", "seed"}
InApply == {"checking", "running"}

\* Types; the lock belongs to whoever is inside Apply.
TypeOK ==
    /\ lock \in Procs \cup {Nobody}
    /\ done \in [Files -> Nat] /\ \A f \in Files : done[f] <= Script[f].size
    /\ recorded \subseteq Files
    /\ market \in BOOLEAN /\ ordered \in BOOLEAN
    /\ topology \subseteq Range(Topology)
    /\ pc \in [Procs -> {"down", "up"} \cup Phases \cup InApply]
    /\ phase \in [Procs -> 1 .. 4]
    /\ file \in [Procs -> 1 .. Len(Script) + 1]
    /\ stmt \in [Procs -> 1 .. 9]
    /\ faults \in 0 .. MaxFaults
    /\ interrupted \subseteq Files
    /\ unseeded \subseteq Procs
    /\ \A p \in Procs : pc[p] \in InApply <=> lock = p

\* schema_migrations tells the truth, whoever dies where: every statement of a recorded
\* file is durable, and a file leaves something behind only after all files before it
\* are recorded.
RecordedIsComplete ==
    \A f \in Files :
        /\ f \in recorded => done[f] = Script[f].size
        /\ f \in recorded \/ done[f] > 0 => 1 .. f - 1 \subseteq recorded

\* Migrators never get into one another's way, however many start at once: CREATE TABLE
\* finds its table only where a process died in the middle of that file, and in Compose's
\* order no process without the right to GRANT gets as far as trying.
RefusedHasCause ==
    \A p \in Procs : Remaining(p) /\ Refused(p) =>
        \/ Kind(p) = "ddl" /\ file[p] \in interrupted
        \/ Kind(p) = "grant" /\ ~ordered

\* Nothing is used before it is there.  A process serves or consumes only on a complete
\* schema and a complete topology, so that the relay's first message finds all its queues,
\* started or not the consumers; no work queue exists before the exchange and the queues
\* that take its dead letters, even if the process that declares them dies half-way; and
\* odds-service, if it is started in Compose's order, has odds to serve unless the database
\* failed its Seed, which it does not try again.
ReadyMeansReady ==
    /\ \A p \in Procs : pc[p] = "up" =>
        /\ "migrate" \in Range(Boot(p)) => recorded = Files
        /\ Service[p] \notin {"migrate", "settlement-service", "odds-service"}
               => topology = Range(Topology)
        /\ ordered /\ Service[p] = "odds-service" => market \/ p \in unseeded
    /\ topology \cap WorkQueues # {} => {"dlx", "dlqs"} \subseteq topology

\* With one process that may GRANT, every process gets up in the end, in whatever order
\* they start, wait for the lock, fail and start again, unless a death left a table of an
\* unrecorded file behind.
Torn == \E f \in Files \ recorded : Script[f].kind = "ddl" /\ done[f] > 0
EveryoneStarts == <>[](Torn \/ \A p \in Procs : pc[p] = "up")

\* What internal/migrate/migrate.go:19 says: each SQL file runs at most once.  It is not
\* so of a file one of whose runs left statements behind and no record.
FileRunsAtMostOnce ==
    \A p \in Procs : pc[p] = "running" /\ stmt[p] = 1 => done[file[p]] = 0
=============================================================================
