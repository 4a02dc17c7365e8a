------------------------------- MODULE HttpApi -------------------------------
(***************************************************************************)
(* A customer's POST /bets and an operator's POST /v1/settlements, from    *)
(* the client through api-gateway, a reverse proxy, to bet-service or      *)
(* settlement-service and back: what the answer says of the database.      *)
(*                                                                         *)
(* The services write in a transaction, statement by statement; servers    *)
(* are told to stop (SIGTERM: Shutdown waits 20 seconds for the requests   *)
(* in flight), are killed and come back.  A client without a success may   *)
(* try again: nothing in a request tells a repetition from a new bet.      *)
(***************************************************************************)
EXTENDS Integers, FiniteSets

CONSTANTS
    Customers,   \* clients that want one bet placed
    Operators,   \* clients that want the one open bet settled, each with its own payout
    MaxTries,    \* bound: attempts of one client
    MaxTerms,    \* bound: SIGTERMs
    MaxFaults    \* bound: kills, drains that time out, lost connections, clients that leave

Clients == Customers \cup Operators
Requests == Clients \X (1 .. MaxTries)
Servers == {"api-gateway", "bet-service", "settlement-service"}

ASSUME HttpAssumption ==
    /\ Customers \cap Operators = {}
    /\ MaxTries \in Nat \ {0} /\ MaxTerms \in Nat /\ MaxFaults \in Nat

VARIABLES
    server,         \* [Servers -> {"up", "draining", "down"}]
    pc,             \* where each request is
    reply,          \* the status its handler has decided on, until it is passed on
    answer,         \* what the client got: a status, NoAnswer or Pending
    bets,           \* requests whose row is in bets
    settled,        \* requests whose UPDATE bets SET status = 'SETTLED' is committed
    events,         \* requests whose event is in outbox_events
    terms, faults

tables == <<bets, settled, events>>
vars == <<server, pc, reply, answer, tables, terms, faults>>

NoAnswer == 0
Pending == 1
InHandler == {"handling", "written", "announced", "replying"}
Success == {201, 202}

Init ==
    /\ server = [s \in Servers |-> "up"]
    /\ pc = [r \in Requests |-> "idle"]
    /\ reply = [r \in Requests |-> NoAnswer]
    /\ answer = [r \in Requests |-> NoAnswer]
    /\ bets = {} /\ settled = {} /\ events = {}
    /\ terms = 0 /\ faults = 0

\* The gateway's mux: /v1/settlements, and everything else to bet-service.
Upstream(r) == IF r[1] \in Operators THEN "settlement-service" ELSE "bet-service"

Goto(r, where) == pc' = [pc EXCEPT ![r] = where]
Decide(r, status) == /\ reply' = [reply EXCEPT ![r] = status]
                     /\ Goto(r, "replying")
Answered(r, what) == answer' = [answer EXCEPT ![r] = IF @ = Pending THEN what ELSE @]

-----------------------------------------------------------------------------
(* Client and gateway.                                                     *)

\* The next attempt, when the one before ended without success.
Send(r) ==
    /\ pc[r] = "idle"
    /\ server["api-gateway"] = "up"
    /\ r[2] > 1 => LET before == <<r[1], r[2] - 1>> IN
           pc[before] # "idle" /\ answer[before] \notin Success \cup {Pending}
    /\ Goto(r, "gateway")
    /\ answer' = [answer EXCEPT ![r] = Pending]
    /\ UNCHANGED <<server, reply, tables, terms, faults>>

\* Mutant: ErrorHandler logs and writes nothing.
ForwardUnanswered(r) ==
    /\ pc[r] = "gateway"
    /\ Goto(r, IF server[Upstream(r)] = "up" THEN "handling" ELSE "bounced")
    /\ UNCHANGED <<server, reply, answer, tables, terms, faults>>
\* ServeHTTP: a service that accepts no connection makes ErrorHandler answer 502.
Forward(r) ==
    /\ pc[r] = "gateway"
    /\ IF server[Upstream(r)] = "up"
       THEN Goto(r, "handling") /\ UNCHANGED answer
       ELSE Goto(r, "bounced") /\ Answered(r, 502)
    /\ UNCHANGED <<server, reply, tables, terms, faults>>

\* The handler's status is what the client gets, if both still wait for it.
Reply(r) ==
    /\ pc[r] = "replying"
    /\ Goto(r, "ended")
    /\ Answered(r, reply[r])
    /\ reply' = [reply EXCEPT ![r] = NoAnswer]
    /\ UNCHANGED <<server, tables, terms, faults>>

\* The client leaves, or a connection breaks under the answer: the handler runs on,
\* with its context cancelled.
Disconnect(r) ==
    /\ answer[r] = Pending
    /\ faults < MaxFaults
    /\ faults' = faults + 1
    /\ \E what \in {NoAnswer, 502} : answer' = [answer EXCEPT ![r] = what]
    /\ UNCHANGED <<server, pc, reply, tables, terms>>

-----------------------------------------------------------------------------
(* The handlers: HandlePlaceBet with PlaceBet, and settlement's with Settle. *)

\* Refused before the transaction: the body, the odds check (400, or 503 without
\* odds-service), validate; in a settlement the body or a missing id.
RefuseBet(r) ==
    /\ pc[r] = "handling" /\ r[1] \in Customers
    /\ \E status \in {400, 503} : Decide(r, status)
    /\ UNCHANGED <<server, answer, tables, terms, faults>>

\* A market_id that makes no URL leaves the odds request nil and Do panics: net/http
\* closes the connection and the gateway answers 502 for a handler that decided nothing.
PanicBet(r) ==
    /\ pc[r] = "handling" /\ r[1] \in Customers
    /\ Goto(r, "panicked")
    /\ Answered(r, 502)
    /\ UNCHANGED <<server, reply, tables, terms, faults>>

RefuseSettlement(r) ==
    /\ pc[r] = "handling" /\ r[1] \in Operators
    /\ Decide(r, 400)
    /\ UNCHANGED <<server, answer, tables, terms, faults>>

\* BEGIN; INSERT INTO bets.  An unknown user violates the foreign key: 400.
SaveBet(r) ==
    /\ pc[r] = "handling" /\ r[1] \in Customers
    /\ \/ Goto(r, "written") /\ UNCHANGED reply
       \/ Decide(r, 400)
    /\ UNCHANGED <<server, answer, tables, terms, faults>>

RowLockFree == \A q \in Requests : q[1] \in Operators => pc[q] \notin {"written", "announced"}

\* Mutant: the status is not read under the row lock.
SettleUnlocked(r) ==
    /\ pc[r] = "handling" /\ r[1] \in Operators
    /\ IF settled = {} THEN Goto(r, "written") /\ UNCHANGED reply
                       ELSE Decide(r, 409)
    /\ UNCHANGED <<server, answer, tables, terms, faults>>
\* BEGIN; UPDATE bets SET status = 'SETTLED' WHERE ... status = 'OPEN', which waits for
\* the row lock and then sees the committed status.  No row changed: ErrBetNotOpen, 409.
SettleBet(r) ==
    /\ pc[r] = "handling" /\ r[1] \in Operators
    /\ RowLockFree
    /\ IF settled = {} THEN Goto(r, "written") /\ UNCHANGED reply
                       ELSE Decide(r, 409)
    /\ UNCHANGED <<server, answer, tables, terms, faults>>

\* INSERT INTO outbox_events.
SaveEvent(r) ==
    /\ pc[r] = "written"
    /\ Goto(r, "announced")
    /\ UNCHANGED <<server, reply, answer, tables, terms, faults>>

\* Mutant: the event is written after the commit.
CommitWithoutEvent(r) ==
    /\ pc[r] = "announced"
    /\ bets' = IF r[1] \in Customers THEN bets \cup {r} ELSE bets
    /\ settled' = IF r[1] \in Operators THEN settled \cup {r} ELSE settled
    /\ Decide(r, IF r[1] \in Customers THEN 201 ELSE 202)
    /\ UNCHANGED <<server, answer, events, terms, faults>>
\* Mutant: an error of COMMIT is taken for a refusal.
CommitErrorIs400(r) ==
    /\ pc[r] = "announced"
    /\ bets' = IF r[1] \in Customers THEN bets \cup {r} ELSE bets
    /\ settled' = IF r[1] \in Operators THEN settled \cup {r} ELSE settled
    /\ events' = events \cup {r}
    /\ \E status \in {IF r[1] \in Customers THEN 201 ELSE 202, 400} : Decide(r, status)
    /\ UNCHANGED <<server, answer, terms, faults>>
\* COMMIT takes effect; its answer may get lost on the way to the service: 500.
Commit(r) ==
    /\ pc[r] = "announced"
    /\ bets' = IF r[1] \in Customers THEN bets \cup {r} ELSE bets
    /\ settled' = IF r[1] \in Operators THEN settled \cup {r} ELSE settled
    /\ events' = events \cup {r}
    /\ \E status \in {IF r[1] \in Customers THEN 201 ELSE 202, 500} : Decide(r, status)
    /\ UNCHANGED <<server, answer, terms, faults>>

\* Mutant: the error branch forgets its status.
FailUndecided(r) ==
    /\ pc[r] \in {"handling", "written", "announced"}
    /\ Goto(r, "replying")
    /\ UNCHANGED <<server, reply, answer, tables, terms, faults>>
\* A statement fails (the context was cancelled, a deadlock, the connection): 500, and
\* the deferred Rollback.
Fail(r) ==
    /\ pc[r] \in {"handling", "written", "announced"}
    /\ Decide(r, 500)
    /\ UNCHANGED <<server, answer, tables, terms, faults>>

-----------------------------------------------------------------------------
(* The servers.                                                            *)

AtServer(s) == IF s = "api-gateway"
               THEN {r \in Requests : answer[r] = Pending}
               ELSE {r \in Requests : Upstream(r) = s /\ pc[r] \in InHandler}

\* The process is gone: its handlers end where they are (MySQL rolls back), the gateway
\* answers 502 for a service, nobody answers for the gateway.
Stop(s) ==
    /\ server' = [server EXCEPT ![s] = "down"]
    /\ pc' = [r \in Requests |->
           IF r \in AtServer(s) /\ (s = "api-gateway" => pc[r] = "gateway") THEN "cut"
           ELSE pc[r]]
    /\ answer' = [r \in Requests |->
           IF r \in AtServer(s) /\ answer[r] = Pending
           THEN IF s = "api-gateway" THEN NoAnswer ELSE 502
           ELSE answer[r]]
    /\ reply' = [r \in Requests |->
           IF s # "api-gateway" /\ Upstream(r) = s THEN NoAnswer ELSE reply[r]]
    /\ UNCHANGED tables

\* SIGTERM: Shutdown closes the listeners; handlers go on.
Term(s) ==
    /\ server[s] = "up"
    /\ terms < MaxTerms
    /\ terms' = terms + 1
    /\ server' = [server EXCEPT ![s] = "draining"]
    /\ UNCHANGED <<pc, reply, answer, tables, faults>>

\* Mutant: Close instead of Shutdown.
CloseAtOnce(s) ==
    /\ server[s] = "draining"
    /\ Stop(s)
    /\ UNCHANGED <<terms, faults>>
\* No request is in flight: Shutdown returns, and main.
Drained(s) ==
    /\ server[s] = "draining"
    /\ AtServer(s) = {}
    /\ Stop(s)
    /\ UNCHANGED <<terms, faults>>

\* The 20 seconds are over: main returns under the handlers that are left.
DrainExpires(s) ==
    /\ server[s] = "draining"
    /\ AtServer(s) # {}
    /\ faults < MaxFaults
    /\ faults' = faults + 1
    /\ Stop(s)
    /\ UNCHANGED terms

Kill(s) ==
    /\ server[s] # "down"
    /\ faults < MaxFaults
    /\ faults' = faults + 1
    /\ Stop(s)
    /\ UNCHANGED terms

Restart(s) ==
    /\ server[s] = "down"
    /\ server' = [server EXCEPT ![s] = "up"]
    /\ UNCHANGED <<pc, reply, answer, tables, terms, faults>>

Serve(r) ==
    \/ Forward(r) \/ Reply(r)
    \/ RefuseBet(r) \/ PanicBet(r) \/ SaveBet(r)
    \/ RefuseSettlement(r) \/ SettleBet(r)
    \/ SaveEvent(r) \/ Commit(r) \/ Fail(r)

Next ==
    \/ \E r \in Requests : Send(r) \/ Serve(r) \/ Disconnect(r)
    \/ \E s \in Servers : Term(s) \/ Drained(s) \/ DrainExpires(s) \/ Kill(s) \/ Restart(s)

Spec == Init /\ [][Next]_vars

\* Requests in a server go on (the odds check has a timeout, a lock wait ends), and so
\* does a drain that nothing holds up.
Fairness == /\ WF_vars(\E r \in Requests : Serve(r))
            /\ WF_vars(\E s \in Servers : Drained(s))
FairSpec == Spec /\ Fairness

-----------------------------------------------------------------------------
(* Properties.                                                             *)

\* Types; a request is never decided without a status.
TypeOK ==
    /\ server \in [Servers -> {"up", "draining", "down"}]
    /\ pc \in [Requests ->
           {"idle", "gateway", "bounced", "panicked", "ended", "cut"} \cup InHandler]
    /\ reply \in [Requests -> {NoAnswer, 201, 202, 400, 409, 500, 503}]
    /\ \A r \in Requests :
           answer[r] \in {NoAnswer, Pending, 201, 202, 400, 409, 500, 502, 503}
    /\ bets \subseteq Requests /\ settled \subseteq Requests /\ events \subseteq Requests
    /\ terms \in 0 .. MaxTerms /\ faults \in 0 .. MaxFaults
    /\ \A r \in Requests : pc[r] = "replying" => reply[r] # NoAnswer

\* A bet or a settlement and its event stand or fall together, wherever the process
\* dies, and the customer's success means both are there.
SuccessIsDurable ==
    /\ events = bets \cup settled
    /\ \A r \in Requests : answer[r] \in Success => r \in events

\* Whatever order the operators' and customers' retries and the crashes come in, a
\* settlement takes effect once, and 409 tells an operator that one did (it may have
\* been the operator's own earlier attempt).
OneSettlement ==
    /\ Cardinality(settled) <= 1
    /\ \A r \in Requests : answer[r] = 409 => \E q \in settled : q # r

\* A customer who tries again ends up with two bets only where an earlier attempt had
\* 500, 502 or no answer: after a 400 or 503 it is safe to repeat.
DuplicatesNeedDoubt ==
    \A c \in Customers, i, j \in 1 .. MaxTries :
        i < j /\ {<<c, i>>, <<c, j>>} \subseteq bets => answer[<<c, i>>] \in {500, 502, NoAnswer}

\* SIGTERMs, to whichever servers and in whatever order, lose no answer: a request whose
\* handler comes to a decision is answered with it, unless the drain timed out, something
\* died or the client left.
ShutdownLosesNothing ==
    faults = 0 => \A r \in Requests :
        /\ pc[r] # "cut"
        /\ pc[r] = "ended" => answer[r] \notin {NoAnswer, Pending, 502}

\* In the end every request is answered or given up, though settlements wait for one
\* another's row lock, and every server that was told to stop has stopped.
ComesToRest ==
    <>[](/\ \A r \in Requests : answer[r] # Pending
         /\ \A s \in Servers : server[s] # "draining")
=============================================================================
