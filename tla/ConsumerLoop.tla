----------------------------- MODULE ConsumerLoop -----------------------------
(***************************************************************************)
(* The consumer every worker of the sportsbook runs                        *)
(* (internal/infra/rabbitmq/consume.go): one goroutine per queue takes the *)
(* deliveries one at a time, calls the handler, and acknowledges or        *)
(* rejects.  SIGTERM cancels the handlers' context, and the loop then      *)
(* cancels its consumer and drains the deliveries it was already sent      *)
(* under a context of its own.  Several processes consume one queue.       *)
(*                                                                         *)
(* The broker keeps a message ready until it is delivered, unacked until   *)
(* its channel acknowledges, rejects or loses it.  A handler is a database *)
(* transaction that either commits or leaves nothing, guarded by           *)
(* processed_events (WalletService shows the inside of one).               *)
(***************************************************************************)
EXTENDS Integers, FiniteSets

CONSTANTS
    Procs,        \* processes (replicas) that consume the queue
    Msgs,         \* the messages
    Failing,      \* messages whose handler may fail (ErrPoison, a refusal, a deadlock)
    Prefetch,     \* basic.qos: unacked deliveries per consumer
    MaxLosses,    \* bound: channels lost, and processes killed
    MaxTerms,     \* bound: SIGTERMs sent
    NoMsg         \* no delivery in hand

ASSUME LoopAssumption ==
    /\ Failing \subseteq Msgs
    /\ Prefetch \in Nat \ {0}
    /\ MaxLosses \in Nat
    /\ MaxTerms \in Nat
    /\ NoMsg \notin Msgs

VARIABLES
    \* the broker
    ready,      \* messages in the queue
    unacked,    \* [Procs -> set of messages delivered to the process]
    done,       \* acknowledged
    dead,       \* rejected without requeue: in the dead-letter queues
    processed,  \* messages with a committed effect (processed_events)
    \* each process
    pc,         \* where its consumer goroutine is
    cur,        \* the delivery it handles, or NoMsg
    buffer,     \* deliveries the client library holds for it
    open,       \* its channel is open
    term,       \* SIGTERM received: the context of Run is cancelled
    draining,   \* inside shutdownConsumer, after basic.cancel
    drainOver,  \* drainCtx expired (shutdownDrainTimeout)
    exits,      \* main returns with its consumer (bet-worker), or waits for
                \* SIGTERM all the same (wallet-service)
    losses, terms

broker == <<ready, unacked, done, dead>>
vars == <<broker, processed, pc, cur, buffer, open, term, draining, drainOver,
          losses, terms, exits>>

PCs == {"select", "handling", "committed", "failed", "cancel", "exited", "down"}

Init ==
    /\ ready = Msgs
    /\ unacked = [p \in Procs |-> {}]
    /\ done = {}
    /\ dead = {}
    /\ processed = {}
    /\ pc = [p \in Procs |-> "select"]
    /\ cur = [p \in Procs |-> NoMsg]
    /\ buffer = [p \in Procs |-> {}]
    /\ open = [p \in Procs |-> TRUE]
    /\ term = [p \in Procs |-> FALSE]
    /\ draining = [p \in Procs |-> FALSE]
    /\ drainOver = [p \in Procs |-> FALSE]
    /\ exits \in BOOLEAN
    /\ losses = 0
    /\ terms = 0

Goto(p, where) == pc' = [pc EXCEPT ![p] = where]

-----------------------------------------------------------------------------
(* The broker and the client library.                                      *)

\* The broker pushes up to Prefetch unacknowledged deliveries to a live consumer.
Deliver(p, m) ==
    /\ open[p] /\ ~draining[p] /\ pc[p] \notin {"exited", "down"}
    /\ m \in ready
    /\ Cardinality(unacked[p]) < Prefetch
    /\ ready' = ready \ {m}
    /\ unacked' = [unacked EXCEPT ![p] = @ \cup {m}]
    /\ buffer' = [buffer EXCEPT ![p] = @ \cup {m}]
    /\ UNCHANGED <<done, dead, processed, pc, cur, open, term>>
    /\ UNCHANGED <<draining, drainOver, losses, terms, exits>>

\* A channel that closes gives its unacknowledged messages back to the queue and drops
\* what the library still held.
Requeue(p) ==
    /\ ready' = ready \cup unacked[p]
    /\ unacked' = [unacked EXCEPT ![p] = {}]
    /\ buffer' = [buffer EXCEPT ![p] = {}]
    /\ open' = [open EXCEPT ![p] = FALSE]
    /\ UNCHANGED <<done, dead>>

\* The connection to the broker breaks.  Nothing reopens it.
ChannelLost(p) ==
    /\ open[p]
    /\ losses < MaxLosses
    /\ losses' = losses + 1
    /\ Requeue(p)
    /\ UNCHANGED <<processed, pc, cur, term, draining, drainOver, terms, exits>>

-----------------------------------------------------------------------------
(* The goroutine.                                                          *)

\* case d, ok := <-deliveries.  The select picks either ready case: a delivery may be
\* taken although the context is cancelled, and in the drain although it timed out.
Receive(p, m) ==
    /\ pc[p] = "select"
    /\ m \in buffer[p]
    /\ buffer' = [buffer EXCEPT ![p] = @ \ {m}]
    /\ cur' = [cur EXCEPT ![p] = m]
    /\ Goto(p, "handling")
    /\ UNCHANGED <<broker, processed, open, term, draining, drainOver, losses, terms, exits>>

\* The context the handler runs under: ctx, or drainCtx in the drain.
ContextAlive(p) == IF draining[p] THEN ~drainOver[p] ELSE ~term[p]

\* The handler's transaction commits (or finds the event processed) and it returns nil.
HandlerCommits(p) ==
    /\ pc[p] = "handling"
    /\ ContextAlive(p)
    /\ processed' = processed \cup {cur[p]}
    /\ Goto(p, "committed")
    /\ UNCHANGED <<broker, cur, buffer, open, term, draining, drainOver, losses, terms, exits>>

\* Mutant: the error of the handler is swallowed and the message left unsettled.
HandlerFailsSilently(p) ==
    /\ pc[p] = "handling"
    /\ cur[p] \in Failing \/ ~ContextAlive(p)
    /\ Goto(p, "select")
    /\ UNCHANGED <<broker, processed, cur, buffer, open, term, draining, drainOver>>
    /\ UNCHANGED <<losses, terms, exits>>
\* Mutant: a drained message runs under the context SIGTERM has cancelled.
HandlerFailsInDrain(p) ==
    /\ pc[p] = "handling"
    /\ cur[p] \in Failing \/ term[p]
    /\ Goto(p, "failed")
    /\ UNCHANGED <<broker, processed, cur, buffer, open, term, draining, drainOver>>
    /\ UNCHANGED <<losses, terms, exits>>
\* The handler returns an error: its message is bad, a statement failed, or its context
\* is cancelled and every database call returns at once.
HandlerFails(p) ==
    /\ pc[p] = "handling"
    /\ cur[p] \in Failing \/ ~ContextAlive(p)
    /\ Goto(p, "failed")
    /\ UNCHANGED <<broker, processed, cur, buffer, open, term, draining, drainOver>>
    /\ UNCHANGED <<losses, terms, exits>>

Settled(p, m) == unacked' = [unacked EXCEPT ![p] = @ \ {m}]

\* Ack(false).  On a closed channel it fails: the loop returns, the drain ignores it.
Ack(p) ==
    /\ pc[p] = "committed"
    /\ cur' = [cur EXCEPT ![p] = NoMsg]
    /\ IF open[p]
       THEN /\ Settled(p, cur[p])
            /\ done' = done \cup {cur[p]}
            /\ Goto(p, "select")
       ELSE /\ Goto(p, IF draining[p] THEN "select" ELSE "exited")
            /\ UNCHANGED <<unacked, done>>
    /\ UNCHANGED <<ready, dead, processed, buffer, open, term>>
    /\ UNCHANGED <<draining, drainOver, losses, terms, exits>>

\* Mutant: the loop acknowledges whatever the handler returned.
NackAsAck(p) ==
    /\ pc[p] = "failed"
    /\ cur' = [cur EXCEPT ![p] = NoMsg]
    /\ Goto(p, "select")
    /\ IF open[p]
       THEN Settled(p, cur[p]) /\ done' = done \cup {cur[p]}
       ELSE UNCHANGED <<unacked, done>>
    /\ UNCHANGED <<ready, dead, processed, buffer, open, term>>
    /\ UNCHANGED <<draining, drainOver, losses, terms, exits>>
\* Mutant: Nack(false, true) gives the message back to the queue.
NackRequeues(p) ==
    /\ pc[p] = "failed"
    /\ cur' = [cur EXCEPT ![p] = NoMsg]
    /\ Goto(p, "select")
    /\ IF open[p]
       THEN Settled(p, cur[p]) /\ ready' = ready \cup {cur[p]}
       ELSE UNCHANGED <<unacked, ready>>
    /\ UNCHANGED <<done, dead, processed, buffer, open, term>>
    /\ UNCHANGED <<draining, drainOver, losses, terms, exits>>
\* preNackBackoff (a delay), Nack(false, false): dead-lettered on the first failure.
\* The error of a Nack on a closed channel is ignored.
Nack(p) ==
    /\ pc[p] = "failed"
    /\ cur' = [cur EXCEPT ![p] = NoMsg]
    /\ Goto(p, "select")
    /\ IF open[p]
       THEN Settled(p, cur[p]) /\ dead' = dead \cup {cur[p]}
       ELSE UNCHANGED <<unacked, dead>>
    /\ UNCHANGED <<ready, done, processed, buffer, open, term>>
    /\ UNCHANGED <<draining, drainOver, losses, terms, exits>>

\* The deliveries channel is closed and empty: an error in the loop, the end of the
\* drain in shutdownConsumer.
DeliveriesClosed(p) ==
    /\ pc[p] = "select"
    /\ buffer[p] = {}
    /\ ~open[p] \/ draining[p]
    /\ Goto(p, "exited")
    /\ UNCHANGED <<broker, processed, cur, buffer, open, term, draining, drainOver>>
    /\ UNCHANGED <<losses, terms, exits>>

\* case <-ctx.Done() in the loop: shutdownConsumer.
SeeDone(p) ==
    /\ pc[p] = "select"
    /\ term[p] /\ ~draining[p]
    /\ Goto(p, "cancel")
    /\ UNCHANGED <<broker, processed, cur, buffer, open, term, draining, drainOver>>
    /\ UNCHANGED <<losses, terms, exits>>

\* Mutant: basic.cancel is not sent, and the loop goes on under the cancelled context.
CancelForgotten(p) ==
    /\ pc[p] = "cancel"
    /\ Goto(p, "select")
    /\ UNCHANGED <<broker, processed, cur, buffer, open, term, draining, drainOver>>
    /\ UNCHANGED <<losses, terms, exits>>
\* ch.Cancel: no more deliveries; on a closed channel an error, and no drain.
CancelConsumer(p) ==
    /\ pc[p] = "cancel"
    /\ IF open[p]
       THEN Goto(p, "select") /\ draining' = [draining EXCEPT ![p] = TRUE]
       ELSE Goto(p, "exited") /\ UNCHANGED draining
    /\ UNCHANGED <<broker, processed, cur, buffer, open, term, drainOver, losses, terms, exits>>

\* shutdownDrainTimeout elapses.
DrainExpires(p) ==
    /\ draining[p] /\ ~drainOver[p] /\ pc[p] \notin {"exited", "down"}
    /\ drainOver' = [drainOver EXCEPT ![p] = TRUE]
    /\ UNCHANGED <<broker, processed, pc, cur, buffer, open, term, draining>>
    /\ UNCHANGED <<losses, terms, exits>>

\* case <-drainCtx.Done(): what is left in the buffer is left to the broker.
GiveUpDrain(p) ==
    /\ pc[p] = "select"
    /\ draining[p] /\ drainOver[p]
    /\ Goto(p, "exited")
    /\ UNCHANGED <<broker, processed, cur, buffer, open, term, draining, drainOver>>
    /\ UNCHANGED <<losses, terms, exits>>

-----------------------------------------------------------------------------
(* The process.                                                            *)

Sigterm(p) ==
    /\ pc[p] # "down"
    /\ ~term[p]
    /\ terms < MaxTerms
    /\ terms' = terms + 1
    /\ term' = [term EXCEPT ![p] = TRUE]
    /\ UNCHANGED <<broker, processed, pc, cur, buffer, open, draining, drainOver, losses, exits>>

\* main returns and closes its connection.
Exit(p) ==
    /\ pc[p] = "exited"
    /\ term[p] \/ exits
    /\ Goto(p, "down")
    /\ Requeue(p)
    /\ UNCHANGED <<processed, cur, term, draining, drainOver, losses, terms, exits>>

\* The process dies at any point.
Kill(p) ==
    /\ pc[p] # "down"
    /\ losses < MaxLosses
    /\ losses' = losses + 1
    /\ Goto(p, "down")
    /\ cur' = [cur EXCEPT ![p] = NoMsg]
    /\ Requeue(p)
    /\ UNCHANGED <<processed, term, draining, drainOver, terms, exits>>

\* The orchestrator starts it again, with a new connection and consumer.
Restart(p) ==
    /\ pc[p] = "down"
    /\ Goto(p, "select")
    /\ open' = [open EXCEPT ![p] = TRUE]
    /\ term' = [term EXCEPT ![p] = FALSE]
    /\ draining' = [draining EXCEPT ![p] = FALSE]
    /\ drainOver' = [drainOver EXCEPT ![p] = FALSE]
    /\ UNCHANGED <<broker, processed, cur, buffer, losses, terms, exits>>

Loop(p) ==
    \/ \E m \in Msgs : Receive(p, m)
    \/ HandlerCommits(p) \/ HandlerFails(p) \/ Ack(p) \/ Nack(p)
    \/ DeliveriesClosed(p) \/ SeeDone(p) \/ CancelConsumer(p) \/ GiveUpDrain(p)
    \/ Exit(p)

Next ==
    \E p \in Procs :
        \/ \E m \in Msgs : Deliver(p, m)
        \/ Loop(p)
        \/ ChannelLost(p) \/ DrainExpires(p)
        \/ Sigterm(p) \/ Kill(p) \/ Restart(p)

Spec == Init /\ [][Next]_vars

\* The goroutines are scheduled and the handlers return (no call blocks for ever: the
\* database answers or its connection breaks), the broker delivers what it can, and the
\* orchestrator restarts what stopped.  Nothing is assumed of losses, SIGTERM, Kill or
\* the drain's clock.
FairSpec ==
    /\ Spec
    /\ \A p \in Procs :
        /\ WF_vars(Loop(p))
        /\ WF_vars(\E m \in Msgs : Deliver(p, m))
        /\ WF_vars(Restart(p))

-----------------------------------------------------------------------------
(* Properties.                                                             *)

Handling == {"handling", "committed", "failed"}

\* Types, and the broker's bookkeeping: a message is in one place only, a process with
\* an open channel holds and handles only what is unacknowledged on it, and it has a
\* delivery in hand exactly while it handles one.
TypeOK ==
    /\ pc \in [Procs -> PCs]
    /\ unacked \in [Procs -> SUBSET Msgs]
    /\ ready \cup done \cup dead \cup UNION {unacked[p] : p \in Procs} = Msgs
    /\ ready \cap done = {} /\ ready \cap dead = {} /\ done \cap dead = {}
    /\ \A p \in Procs :
        /\ unacked[p] \cap (ready \cup done \cup dead) = {}
        /\ \A q \in Procs \ {p} : unacked[p] \cap unacked[q] = {}
        /\ buffer[p] \subseteq unacked[p]
        /\ (cur[p] # NoMsg) <=> (pc[p] \in Handling)
        /\ open[p] /\ cur[p] # NoMsg => cur[p] \in unacked[p] \ buffer[p]
    /\ processed \subseteq Msgs

\* consume.go acknowledges only what its handler committed: across lost channels,
\* drains, kills and replicas, no message leaves the broker for good without its effect,
\* unless it is in the dead-letter queues.
AckedMeansCommitted == done \subseteq processed

\* A message that could be processed is dead-lettered only by a process that received
\* SIGTERM, and, once that process drains (shutdownConsumer gives the drain a context of
\* its own), only after the drain's clock ran out.
HealthyDeath ==
    [][\A m \in (dead' \ dead) \ Failing : \E p \in Procs :
            /\ cur[p] = m
            /\ term[p]
            /\ draining[p] => drainOver[p]]_vars

\* The process stays up without a consumer (wallet-service logs the consumer's error
\* and waits for SIGTERM).
Zombie(p) == pc[p] = "exited" /\ ~term[p] /\ ~exits

\* A failing message never blocks the queue: every message is acknowledged or
\* dead-lettered in the end, whatever fails, unless all that remains of the workers is
\* processes without a consumer.
EveryMessageEnds ==
    \A m \in Msgs :
        <>(m \in done \cup dead) \/ <>[](\A p \in Procs : Zombie(p))

\* A process that received SIGTERM stops, with messages in its buffer, a handler
\* running or its channel gone.
ShutdownEnds == \A p \in Procs : term[p] ~> pc[p] = "down"

\* What docs/ARCHITECTURE.md:132-136 says: on SIGTERM a service waits for in-flight
\* processing and acknowledges it, so only a message that cannot be processed is
\* dead-lettered.  It is not so: the handler's context is the one SIGTERM cancels.
ShutdownCompletesInFlight == dead \subseteq Failing
=============================================================================
