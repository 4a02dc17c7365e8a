----------------------------- MODULE OutboxRelay -----------------------------
(***************************************************************************)
(* The outbox table and the relays that publish it                         *)
(* (internal/outboxrelay).  Business transactions insert rows, which get   *)
(* their id at the INSERT and become visible at the COMMIT, in any order.  *)
(* A poller (relay.go) locks the first unpublished row, publishes it and   *)
(* marks it in one transaction; a CDC relay (cdc.go) reads the inserts     *)
(* from the binlog, in commit order, and marks them afterwards if          *)
(* CDC_WRITE_PUBLISHED_AT says so.  cmd/outbox-relay opens one channel at  *)
(* start and never another.                                                *)
(*                                                                         *)
(* A message is "sent" once the channel has taken it: what the broker does *)
(* with it is BetSaga's business.                                          *)
(***************************************************************************)
EXTENDS Integers, FiniteSets, Sequences

CONSTANTS
    Pollers,         \* relay processes without USE_CDC
    Streamers,       \* relay processes with USE_CDC=1
    WritePublished,  \* CDC_WRITE_PUBLISHED_AT
    MaxRows,         \* bound: rows inserted
    MaxFaults        \* bound: crashes, channels lost, statements that fail

ASSUME RelayAssumption ==
    /\ Pollers \cap Streamers = {} /\ IsFiniteSet(Streamers)
    /\ WritePublished \in BOOLEAN
    /\ MaxRows \in Nat
    /\ MaxFaults \in Nat

Relays == Pollers \cup Streamers
Ids == 1..MaxRows

VARIABLES
    row,        \* [Ids -> {"none", "open", "committed", "rolledback"}]
    published,  \* ids with published_at set
    binlog,     \* committed ids, in commit order
    saw,        \* [Ids -> rows committed when this one was inserted]
    pc,         \* what each relay does
    holds,      \* [Relays -> the id it publishes, 0 for none]
    pos,        \* [Relays -> the binlog position of a streamer]
    open,       \* its AMQP channel is open
    sends,      \* [Ids -> how often the row was published]
    faults

table == <<row, published, binlog, saw>>
vars == <<table, pc, holds, pos, open, sends, faults>>

Init ==
    /\ row = [i \in Ids |-> "none"]
    /\ published = {}
    /\ binlog = <<>>
    /\ saw = [i \in Ids |-> {}]
    /\ pc = [r \in Relays |-> "idle"]
    /\ holds = [r \in Relays |-> 0]
    /\ pos = [r \in Relays |-> 0]
    /\ open = [r \in Relays |-> TRUE]
    /\ sends = [i \in Ids |-> 0]
    /\ faults = 0

Committed == {i \in Ids : row[i] = "committed"}
Sent == {i \in Ids : sends[i] > 0}

Goto(r, where, id) ==
    /\ pc' = [pc EXCEPT ![r] = where]
    /\ holds' = [holds EXCEPT ![r] = id]

Fault ==
    /\ faults < MaxFaults
    /\ faults' = faults + 1

-----------------------------------------------------------------------------
(* The services' transactions.                                             *)

\* OutboxRepository.Save inside a business transaction: AUTO_INCREMENT gives the id.
Insert(i) ==
    /\ row[i] = "none"
    /\ \A j \in 1..(i - 1) : row[j] # "none"
    /\ row' = [row EXCEPT ![i] = "open"]
    /\ saw' = [saw EXCEPT ![i] = Committed]
    /\ UNCHANGED <<published, binlog, pc, holds, pos, open, sends, faults>>

CommitRow(i) ==
    /\ row[i] = "open"
    /\ row' = [row EXCEPT ![i] = "committed"]
    /\ binlog' = Append(binlog, i)
    /\ UNCHANGED <<published, saw, pc, holds, pos, open, sends, faults>>

RollbackRow(i) ==
    /\ row[i] = "open"
    /\ row' = [row EXCEPT ![i] = "rolledback"]
    /\ UNCHANGED <<published, binlog, saw, pc, holds, pos, open, sends, faults>>

-----------------------------------------------------------------------------
(* The poller.                                                             *)

Unpublished == {i \in Ids : row[i] \in {"open", "committed"}} \ published

\* Mutant: ORDER BY id DESC.
LastUnpublished(i) ==
    /\ i \in Unpublished
    /\ \A j \in Unpublished : j <= i
    /\ row[i] = "committed"
    /\ \A q \in Pollers : holds[q] # i
\* Mutant: the SELECT without FOR UPDATE.
PlainSelect(i) ==
    /\ i \in Unpublished \cap Committed
    /\ \A j \in Unpublished \cap Committed : i <= j
\* Mutant: a transaction that reads uncommitted rows.
DirtySelect(i) ==
    /\ i \in Unpublished
    /\ \A j \in Unpublished : i <= j
    /\ \A q \in Pollers : holds[q] # i
\* The row SELECT ... WHERE published_at IS NULL ORDER BY id LIMIT 1 FOR UPDATE returns.
\* The locking read waits for the first such row, be it another poller's or one whose
\* transaction is still open.
Selected(i) ==
    /\ i \in Unpublished
    /\ \A j \in Unpublished : i <= j
    /\ row[i] = "committed"
    /\ \A q \in Pollers : holds[q] # i

Select(r) ==
    /\ r \in Pollers
    /\ pc[r] = "idle"
    /\ \E i \in Ids : Selected(i) /\ Goto(r, "selected", i)
    /\ UNCHANGED <<table, pos, open, sends, faults>>

\* Mutant: the error of PublishJSON is logged, and the row marked all the same.
PublishErrorIgnored(r) ==
    /\ pc[r] = "selected"
    /\ ~open[r]
    /\ Goto(r, "sent", holds[r])
    /\ UNCHANGED <<table, pos, open, sends, faults>>
\* PublishJSON on a closed channel: the poller rolls back and tries again later; OnRow
\* returns the error, which ends canal.Run, and the process waits for a signal.
PublishFails(r) ==
    /\ pc[r] = "selected"
    /\ ~open[r]
    /\ Goto(r, IF r \in Pollers THEN "idle" ELSE "stopped", 0)
    /\ UNCHANGED <<table, pos, open, sends, faults>>

\* The channel breaks while it takes the message, which may have left.
PublishBreaks(r) ==
    /\ pc[r] = "selected"
    /\ open[r]
    /\ Fault
    /\ open' = [open EXCEPT ![r] = FALSE]
    /\ \E left \in {0, 1} : sends' = [sends EXCEPT ![holds[r]] = @ + left]
    /\ Goto(r, IF r \in Pollers THEN "idle" ELSE "stopped", 0)
    /\ UNCHANGED <<table, pos>>

\* PublishJSON succeeds.
Publish(r) ==
    /\ pc[r] = "selected"
    /\ open[r]
    /\ sends' = [sends EXCEPT ![holds[r]] = @ + 1]
    /\ Goto(r, "sent", holds[r])
    /\ UNCHANGED <<table, pos, open, faults>>

AfterMark(r) ==
    /\ pos' = [pos EXCEPT ![r] = IF r \in Streamers THEN @ + 1 ELSE @]
    /\ Goto(r, "idle", 0)

\* Mutant: OnRow without its test for InsertAction also sees the UPDATE of the mark.
MarkComesBack(r) ==
    /\ pc[r] = "sent"
    /\ published' = published \cup {holds[r]}
    /\ binlog' = Append(binlog, holds[r])
    /\ AfterMark(r)
    /\ UNCHANGED <<row, saw, open, sends, faults>>
\* UPDATE outbox_events SET published_at and, for the poller, COMMIT.  A streamer writes
\* it under autocommit, if it does, when no poller has the row locked, and moves on.
Mark(r) ==
    /\ pc[r] = "sent"
    /\ IF r \in Pollers \/ WritePublished
       THEN /\ \A q \in Pollers \ {r} : holds[q] # holds[r]
            /\ published' = published \cup {holds[r]}
       ELSE UNCHANGED published
    /\ AfterMark(r)
    /\ UNCHANGED <<row, binlog, saw, open, sends, faults>>

\* The UPDATE or the COMMIT fails.  The poller's next tick finds the row again; a
\* streamer only logs it.
MarkFails(r) ==
    /\ pc[r] = "sent"
    /\ r \in Pollers \/ WritePublished
    /\ Fault
    /\ AfterMark(r)
    /\ UNCHANGED <<table, open, sends>>

-----------------------------------------------------------------------------
(* The binlog reader.                                                      *)

\* OnRow is called for the next insert.
ReadRow(r) ==
    /\ r \in Streamers
    /\ pc[r] = "idle"
    /\ pos[r] < Len(binlog)
    /\ Goto(r, "selected", binlog[pos[r] + 1])
    /\ UNCHANGED <<table, pos, open, sends, faults>>

-----------------------------------------------------------------------------
(* The processes.                                                          *)

ChannelLost(r) ==
    /\ open[r]
    /\ pc[r] \in {"idle", "selected", "sent"}
    /\ Fault
    /\ open' = [open EXCEPT ![r] = FALSE]
    /\ UNCHANGED <<table, pc, holds, pos, sends>>

\* The process dies: the database rolls its transaction back.
Crash(r) ==
    /\ pc[r] # "down"
    /\ Fault
    /\ Goto(r, "down", 0)
    /\ UNCHANGED <<table, pos, open, sends>>

\* A new connection and channel.  The canal keeps no position: it starts from the first
\* binlog the server has.
Restart(r) ==
    /\ pc[r] = "down"
    /\ Goto(r, "idle", 0)
    /\ open' = [open EXCEPT ![r] = TRUE]
    /\ pos' = [pos EXCEPT ![r] = 0]
    /\ UNCHANGED <<table, sends, faults>>

Relay(r) ==
    \/ Select(r) \/ ReadRow(r)
    \/ PublishFails(r) \/ Publish(r) \/ Mark(r)

Next ==
    \/ \E i \in Ids : Insert(i) \/ CommitRow(i) \/ RollbackRow(i)
    \/ \E r \in Relays :
        \/ Relay(r)
        \/ PublishBreaks(r) \/ MarkFails(r) \/ ChannelLost(r) \/ Crash(r) \/ Restart(r)

Spec == Init /\ [][Next]_vars

\* Transactions end (each has a request's or a handler's context), relays tick, and a
\* process that died is started again.  Row locks are won in the end: InnoDB queues the
\* waiters and a poller that failed backs off before it takes the lock again.  No fault
\* has to happen.
FairSpec ==
    /\ Spec
    /\ \A i \in Ids : WF_vars(CommitRow(i) \/ RollbackRow(i))
    /\ \A r \in Relays :
        /\ WF_vars(Relay(r))
        /\ SF_vars(Select(r))
        /\ SF_vars(Mark(r))
        /\ WF_vars(Restart(r))

-----------------------------------------------------------------------------
(* Properties.                                                             *)

\* Types; the binlog holds the committed rows once each; a relay holds a committed row
\* exactly while it publishes, and pollers never the same one.
TypeOK ==
    /\ row \in [Ids -> {"none", "open", "committed", "rolledback"}]
    /\ pc \in [Relays -> {"idle", "selected", "sent", "stopped", "down"}]
    /\ pos \in [Relays -> 0..MaxRows]
    /\ {binlog[k] : k \in DOMAIN binlog} = Committed
    /\ Len(binlog) = Cardinality(Committed)
    /\ \A r \in Relays :
        IF pc[r] \in {"selected", "sent"} THEN holds[r] \in Committed ELSE holds[r] = 0
    /\ \A p, q \in Pollers : p # q /\ holds[p] # 0 => holds[p] # holds[q]

\* An event leaves after every event committed before its row was inserted: a bet's
\* events reach the broker in causal order though ids and commits are out of order, and
\* through retries, restarts, replays and several pollers.
CausalOrder == \A i \in Sent : saw[i] \subseteq Sent

\* Only a fault makes a duplicate (relay.go:16-20): a row is published once by all the
\* pollers together, however many run, once by each streamer, and once more per fault.
DuplicatesNeedFaults ==
    \A i \in Ids : sends[i] <= (IF Pollers = {} THEN 0 ELSE 1) + Cardinality(Streamers) + faults

\* The process is up and will not publish again: nothing reopens its channel.
Useless(r) == pc[r] \in {"idle", "selected", "stopped"} /\ ~open[r]

\* Every committed event is published in the end, unless all relays end up running
\* without a channel.
CommittedIsSent ==
    \/ \A i \in Ids : row[i] = "committed" ~> i \in Sent
    \/ <>[](\A r \in Relays : Useless(r))

\* What README.md:54 says: the relay ensures at-least-once delivery to RabbitMQ.  It is
\* not so: a relay whose channel closed publishes nothing more and does not exit.
AtLeastOnce == \A i \in Ids : row[i] = "committed" ~> i \in Sent

\* How far each row has come, as EventFeed sees it.
Stage == [i \in Ids |->
    CASE row[i] = "none" -> "absent"
      [] row[i] = "open" -> "written"
      [] row[i] = "rolledback" -> "withdrawn"
      [] row[i] = "committed" /\ i \in published -> "forgotten"
      [] row[i] = "committed" /\ i \in Sent \ published -> "sent"
      [] OTHER -> "recorded"]

Feed == INSTANCE EventFeed WITH Events <- Ids, stage <- Stage, cause <- saw

\* The table and its relays implement the feed: only a committed row leaves, after its
\* causes, and a row is forgotten once it has left and never taken up again.
ImplementsFeed == Feed!FeedSpec
=============================================================================
