-------------------------- MODULE ConsumerLoopProofs --------------------------
(***************************************************************************)
(* What holds of ConsumerLoop for any number of processes and messages,    *)
(* any prefetch, and any number of lost channels, kills and SIGTERMs.      *)
(*                                                                         *)
(* The argument: the broker keeps every message in one place (Somewhere,   *)
(* OnePlace), a goroutine with an open channel holds only what is unacked  *)
(* on it (Hand), so what it acknowledges or rejects is its own message;    *)
(* and where the goroutine stands tells how its handler ended (Outcome).   *)
(***************************************************************************)
EXTENDS ConsumerLoop, TLAPS

\* The types TypeOK leaves to the bookkeeping.
Shape ==
    /\ pc \in [Procs -> PCs]
    /\ cur \in [Procs -> Msgs \cup {NoMsg}]
    /\ unacked \in [Procs -> SUBSET Msgs] /\ buffer \in [Procs -> SUBSET Msgs]
    /\ open \in [Procs -> BOOLEAN] /\ term \in [Procs -> BOOLEAN]
    /\ draining \in [Procs -> BOOLEAN] /\ drainOver \in [Procs -> BOOLEAN]
    /\ ready \subseteq Msgs /\ done \subseteq Msgs /\ dead \subseteq Msgs
    /\ processed \subseteq Msgs

\* No message is gone.
Somewhere ==
    \A m \in Msgs : m \in ready \cup done \cup dead \/ \E p \in Procs : m \in unacked[p]

\* No message is in two places.
OnePlace ==
    /\ ready \cap done = {} /\ ready \cap dead = {} /\ done \cap dead = {}
    /\ \A p \in Procs :
        /\ unacked[p] \cap (ready \cup done \cup dead) = {}
        /\ \A q \in Procs \ {p} : unacked[p] \cap unacked[q] = {}

\* What a goroutine holds.
Hand(p) ==
    /\ buffer[p] \subseteq unacked[p]
    /\ (cur[p] # NoMsg) <=> (pc[p] \in Handling)
    /\ open[p] /\ cur[p] # NoMsg => cur[p] \in unacked[p] \ buffer[p]

\* How its handler ended, and why.
Outcome(p) ==
    /\ pc[p] = "committed" => cur[p] \in processed
    /\ pc[p] = "failed" => cur[p] \in Failing \/ (term[p] /\ (draining[p] => drainOver[p]))
    /\ draining[p] \/ pc[p] = "cancel" => term[p]

IInv == /\ Shape /\ Somewhere /\ OnePlace /\ AckedMeansCommitted
        /\ \A p \in Procs : Hand(p) /\ Outcome(p)

-----------------------------------------------------------------------------

LEMMA TypesFollow == IInv => TypeOK
<1>. SUFFICES ASSUME IInv PROVE TypeOK
  OBVIOUS
<1>1. Shape /\ Somewhere /\ OnePlace /\ \A p \in Procs : Hand(p)
  BY DEF IInv
<1>2. ready \cup done \cup dead \cup UNION {unacked[p] : p \in Procs} = Msgs
  <2>1. UNION {unacked[p] : p \in Procs} \subseteq Msgs
    BY <1>1 DEF Shape
  <2>2. ASSUME NEW m \in Msgs
        PROVE  m \in ready \cup done \cup dead \cup UNION {unacked[p] : p \in Procs}
    BY <1>1 DEF Somewhere
  <2>. QED
    BY <2>1, <2>2, <1>1 DEF Shape
<1>. QED
  BY <1>1, <1>2 DEF TypeOK, Shape, OnePlace, Hand

LEMMA InitOK == Init => IInv
<1>. SUFFICES ASSUME Init PROVE IInv
  OBVIOUS
<1>1. Shape
  BY DEF Init, Shape, PCs
<1>2. Somewhere /\ OnePlace /\ AckedMeansCommitted
  BY DEF Init, Somewhere, OnePlace, AckedMeansCommitted
<1>3. ASSUME NEW p \in Procs PROVE Hand(p) /\ Outcome(p)
  BY DEF Init, Hand, Outcome, Handling
<1>. QED
  BY <1>1, <1>2, <1>3 DEF IInv

-----------------------------------------------------------------------------
(* The steps that move messages.                                           *)

LEMMA DeliverOK ==
    ASSUME IInv, NEW p \in Procs, NEW m \in Msgs, Deliver(p, m)
    PROVE  IInv'
<1>1. /\ m \in ready /\ ready' = ready \ {m}
      /\ unacked' = [unacked EXCEPT ![p] = @ \cup {m}]
      /\ buffer' = [buffer EXCEPT ![p] = @ \cup {m}]
      /\ UNCHANGED <<done, dead, processed, pc, cur, open, term, draining, drainOver>>
  BY DEF Deliver
<1>2. Shape /\ Somewhere /\ OnePlace /\ AckedMeansCommitted
  BY DEF IInv
<1>3. \A q \in Procs : /\ unacked'[q] = IF q = p THEN unacked[p] \cup {m} ELSE unacked[q]
                       /\ buffer'[q] = IF q = p THEN buffer[p] \cup {m} ELSE buffer[q]
  BY <1>1, <1>2 DEF Shape
<1>4. Shape'
  BY <1>1, <1>2 DEF Shape
<1>5. Somewhere'
  BY <1>1, <1>2, <1>3 DEF Somewhere
<1>6. OnePlace'
  BY <1>1, <1>2, <1>3 DEF OnePlace
<1>7. ASSUME NEW q \in Procs PROVE Hand(q)' /\ Outcome(q)'
  <2>1. Hand(q) /\ Outcome(q) /\ m \notin unacked[q]
    BY <1>1, <1>2 DEF IInv, OnePlace
  <2>2. Hand(q)'
    BY <1>1, <1>3, <2>1 DEF Hand
  <2>. QED
    BY <1>1, <2>1, <2>2 DEF Outcome
<1>. QED
  BY <1>1, <1>2, <1>4, <1>5, <1>6, <1>7 DEF IInv, AckedMeansCommitted

\* A channel that closes: what it held is ready again.  The goroutine stays where it is,
\* or its process goes down with nothing in hand.
LEMMA RequeueOK ==
    ASSUME IInv, NEW p \in Procs, Requeue(p),
           UNCHANGED <<processed, term, draining, drainOver>>,
           \/ UNCHANGED <<pc, cur>>
           \/ /\ pc' = [pc EXCEPT ![p] = "down"]
              /\ cur' = [cur EXCEPT ![p] = NoMsg]
    PROVE  IInv'
<1>1. /\ ready' = ready \cup unacked[p]
      /\ unacked' = [unacked EXCEPT ![p] = {}]
      /\ buffer' = [buffer EXCEPT ![p] = {}]
      /\ open' = [open EXCEPT ![p] = FALSE]
      /\ UNCHANGED <<done, dead, processed, term, draining, drainOver>>
  BY DEF Requeue
<1>2. Shape /\ Somewhere /\ OnePlace /\ AckedMeansCommitted
  BY DEF IInv
<1>3. \A q \in Procs : /\ unacked'[q] = IF q = p THEN {} ELSE unacked[q]
                       /\ buffer'[q] = IF q = p THEN {} ELSE buffer[q]
                       /\ open'[q] = IF q = p THEN FALSE ELSE open[q]
  BY <1>1, <1>2 DEF Shape
<1>4. \A q \in Procs : \/ pc'[q] = pc[q] /\ cur'[q] = cur[q]
                       \/ q = p /\ pc'[q] = "down" /\ cur'[q] = NoMsg
  BY <1>2 DEF Shape
<1>5. Shape'
  <2>1. pc' \in [Procs -> PCs] /\ cur' \in [Procs -> Msgs \cup {NoMsg}]
    BY <1>2 DEF Shape, PCs
  <2>. QED
    BY <2>1, <1>1, <1>2 DEF Shape
<1>6. Somewhere'
  BY <1>1, <1>2, <1>3 DEF Somewhere
<1>7. OnePlace'
  <2>1. ready' \cap done' = {} /\ ready' \cap dead' = {} /\ done' \cap dead' = {}
    BY <1>1, <1>2 DEF OnePlace
  <2>2. ASSUME NEW q \in Procs
        PROVE  /\ unacked'[q] \cap (ready' \cup done' \cup dead') = {}
               /\ \A r \in Procs \ {q} : unacked'[q] \cap unacked'[r] = {}
    <3>1. unacked'[q] \subseteq unacked[q] /\ \A r \in Procs : unacked'[r] \subseteq unacked[r]
      BY <1>3
    <3>2. q = p => unacked'[q] = {}
      BY <1>3
    <3>. QED
      BY <3>1, <3>2, <1>1, <1>2 DEF OnePlace
  <2>. QED
    BY <2>1, <2>2 DEF OnePlace
<1>8. ASSUME NEW q \in Procs PROVE Hand(q)' /\ Outcome(q)'
  <2>1. Hand(q) /\ Outcome(q)
    BY DEF IInv
  <2>2. Hand(q)'
    BY <1>3, <1>4, <2>1 DEF Hand, Handling
  <2>. QED
    BY <1>1, <1>4, <2>1, <2>2 DEF Outcome
<1>. QED
  BY <1>1, <1>2, <1>5, <1>6, <1>7, <1>8 DEF IInv, AckedMeansCommitted

\* A delivery that ends: on an open channel it is acknowledged or dead-lettered.
LEMMA SettledOK ==
    ASSUME IInv, NEW p \in Procs, cur[p] # NoMsg, cur' = [cur EXCEPT ![p] = NoMsg],
           pc' \in {[pc EXCEPT ![p] = "select"], [pc EXCEPT ![p] = "exited"]},
           UNCHANGED <<ready, processed, buffer, open, term, draining, drainOver>>,
           IF open[p]
           THEN /\ unacked' = [unacked EXCEPT ![p] = @ \ {cur[p]}]
                /\ \/ done' = done \cup {cur[p]} /\ cur[p] \in processed /\ dead' = dead
                   \/ dead' = dead \cup {cur[p]} /\ done' = done
           ELSE UNCHANGED <<unacked, done, dead>>
    PROVE  IInv'
<1>2. Shape /\ Somewhere /\ OnePlace /\ AckedMeansCommitted /\ Hand(p)
  BY DEF IInv
<1>. DEFINE m == cur[p]
<1>3. m \in Msgs /\ (open[p] => m \in unacked[p] \ buffer[p])
  BY <1>2 DEF Shape, Hand
<1>4. \A q \in Procs : /\ unacked'[q] = IF q = p /\ open[p] THEN unacked[q] \ {m} ELSE unacked[q]
                       /\ cur'[q] = IF q = p THEN NoMsg ELSE cur[q]
                       /\ IF q = p THEN pc'[q] \in {"select", "exited"} ELSE pc'[q] = pc[q]
  BY <1>2 DEF Shape
<1>5. /\ open[p] => done' \cup dead' = done \cup dead \cup {m}
      /\ ~open[p] => UNCHANGED <<done, dead>>
      /\ done \subseteq done' /\ dead \subseteq dead' /\ done' \subseteq processed
      /\ done' = done \/ dead' = dead
  BY <1>2 DEF AckedMeansCommitted
<1>. HIDE DEF m
<1>6. Shape'
  <2>1. pc' \in [Procs -> PCs] /\ cur' \in [Procs -> Msgs \cup {NoMsg}]
    BY <1>2 DEF Shape, PCs
  <2>2. unacked' \in [Procs -> SUBSET Msgs]
    BY <1>2 DEF Shape
  <2>3. done' \subseteq Msgs /\ dead' \subseteq Msgs
    BY <1>2, <1>3, <1>5 DEF Shape
  <2>. QED
    BY <2>1, <2>2, <2>3, <1>2 DEF Shape
<1>7. Somewhere'
  BY <1>2, <1>3, <1>4, <1>5 DEF Somewhere
<1>8. OnePlace'
  <2>1. ready' = ready /\ (open[p] => m \notin ready \cup done \cup dead)
    BY <1>2, <1>3 DEF OnePlace
  <2>2. ready' \cap done' = {} /\ ready' \cap dead' = {} /\ done' \cap dead' = {}
    <3>1. CASE open[p]
      BY <3>1, <2>1, <1>2, <1>5 DEF OnePlace
    <3>2. CASE ~open[p]
      BY <3>2, <2>1, <1>2, <1>5 DEF OnePlace
    <3>. QED
      BY <3>1, <3>2
  <2>3. ASSUME NEW q \in Procs
        PROVE  /\ unacked'[q] \cap (ready' \cup done' \cup dead') = {}
               /\ \A r \in Procs \ {q} : unacked'[q] \cap unacked'[r] = {}
    <3>1. unacked'[q] \subseteq unacked[q] /\ \A r \in Procs : unacked'[r] \subseteq unacked[r]
      BY <1>4
    <3>2. open[p] => m \notin unacked'[q]
      BY <1>2, <1>3, <1>4 DEF OnePlace
    <3>3. done' \cup dead' \subseteq IF open[p] THEN done \cup dead \cup {m} ELSE done \cup dead
      BY <1>5
    <3>. QED
      BY <3>1, <3>2, <3>3, <2>1, <1>2 DEF OnePlace
  <2>. QED
    BY <2>2, <2>3 DEF OnePlace
<1>9. ASSUME NEW q \in Procs PROVE Hand(q)' /\ Outcome(q)'
  <2>1. Hand(q) /\ Outcome(q)
    BY DEF IInv
  <2>2. Hand(q)'
    BY <1>3, <1>4, <2>1 DEF Hand, Handling
  <2>3. pc'[q] \in {"committed", "failed", "cancel"} => pc'[q] = pc[q] /\ cur'[q] = cur[q]
    BY <1>4
  <2>. QED
    BY <2>1, <2>2, <2>3 DEF Outcome
<1>. QED
  BY <1>5, <1>6, <1>7, <1>8, <1>9 DEF IInv, AckedMeansCommitted

-----------------------------------------------------------------------------
(* The steps that leave the broker alone.                                  *)

LEMMA LocalStep ==
    ASSUME IInv, NEW p \in Procs, UNCHANGED broker, Shape', processed \subseteq processed',
           \A q \in Procs \ {p} :
               /\ pc'[q] = pc[q] /\ cur'[q] = cur[q] /\ buffer'[q] = buffer[q]
               /\ open'[q] = open[q] /\ term'[q] = term[q] /\ draining'[q] = draining[q]
               /\ drainOver'[q] = drainOver[q],
           Hand(p)', Outcome(p)'
    PROVE  IInv'
<1>1. Somewhere' /\ OnePlace' /\ AckedMeansCommitted'
  BY DEF IInv, broker, Somewhere, OnePlace, AckedMeansCommitted
<1>2. ASSUME NEW q \in Procs \ {p} PROVE Hand(q)' /\ Outcome(q)'
  <2>1. Hand(q) /\ Outcome(q)
    BY DEF IInv
  <2>. QED
    BY <2>1 DEF Hand, Outcome, broker
<1>. QED
  BY <1>1, <1>2 DEF IInv

LEMMA NextOK == IInv /\ [Next]_vars => IInv'
<1>. SUFFICES ASSUME IInv, [Next]_vars PROVE IInv'
  OBVIOUS
<1>0. Shape /\ \A p \in Procs : Hand(p) /\ Outcome(p)
  BY DEF IInv
<1>1. ASSUME NEW p \in Procs, NEW m \in Msgs, Deliver(p, m) PROVE IInv'
  BY <1>1, DeliverOK
<1>2. ASSUME NEW p \in Procs, ChannelLost(p) PROVE IInv'
  BY <1>2, RequeueOK DEF ChannelLost
<1>3. ASSUME NEW p \in Procs, Kill(p) PROVE IInv'
  BY <1>3, RequeueOK DEF Kill, Goto
<1>4. ASSUME NEW p \in Procs, Exit(p) PROVE IInv'
  <2>1. cur[p] = NoMsg
    BY <1>0, <1>4 DEF Exit, Hand, Handling
  <2>2. cur' = [cur EXCEPT ![p] = NoMsg]
    BY <2>1, <1>0, <1>4 DEF Exit, Shape
  <2>. QED
    BY <2>2, <1>4, RequeueOK DEF Exit, Goto
<1>5. ASSUME NEW p \in Procs, Ack(p) PROVE IInv'
  <2>1. cur[p] # NoMsg /\ cur[p] \in processed
    BY <1>0, <1>5 DEF Ack, Hand, Outcome, Handling
  <2>. QED
    BY <2>1, <1>5, SettledOK DEF Ack, Settled, Goto
<1>6. ASSUME NEW p \in Procs, Nack(p) PROVE IInv'
  <2>1. cur[p] # NoMsg
    BY <1>0, <1>6 DEF Nack, Hand, Handling
  <2>. QED
    BY <2>1, <1>6, SettledOK DEF Nack, Settled, Goto
<1>7. ASSUME NEW p \in Procs, NEW m \in Msgs, Receive(p, m) PROVE IInv'
  <2>1. Shape' /\ UNCHANGED broker /\ processed' = processed
    BY <1>0, <1>7 DEF Receive, Goto, Shape, PCs, broker
  <2>2. Hand(p)' /\ Outcome(p)'
    BY <1>0, <1>7, LoopAssumption DEF Receive, Goto, Shape, Hand, Outcome, Handling, broker
  <2>. QED
    BY <2>1, <2>2, <1>0, <1>7, LocalStep DEF Receive, Goto, Shape
<1>8. ASSUME NEW p \in Procs,
             HandlerCommits(p) \/ HandlerFails(p) \/ DeliveriesClosed(p) \/ SeeDone(p)
                \/ GiveUpDrain(p)
      PROVE  IInv'
  <2>1. /\ UNCHANGED <<broker, cur, buffer, open, term, draining, drainOver>>
        /\ \E where \in PCs : pc' = [pc EXCEPT ![p] = where]
        /\ processed' \in {processed, processed \cup {cur[p]}}
        /\ processed' # processed => cur[p] # NoMsg
    BY <1>0, <1>8 DEF HandlerCommits, HandlerFails, DeliveriesClosed, SeeDone, GiveUpDrain, Goto,
                      PCs, Hand, Handling
  <2>2. Shape'
    BY <2>1, <1>0 DEF Shape, broker
  <2>3. Hand(p)'
    BY <2>1, <1>0, <1>8 DEF HandlerCommits, HandlerFails, DeliveriesClosed, SeeDone, GiveUpDrain,
                            Goto, Shape, Hand, Handling, broker
  <2>4. Outcome(p)'
    BY <2>1, <1>0, <1>8 DEF HandlerCommits, HandlerFails, DeliveriesClosed, SeeDone, GiveUpDrain,
                            Goto, Shape, Outcome, ContextAlive
  <2>. QED
    BY <2>1, <2>2, <2>3, <2>4, <1>0, LocalStep DEF Shape
<1>9. ASSUME NEW p \in Procs,
             CancelConsumer(p) \/ DrainExpires(p) \/ Sigterm(p) \/ Restart(p)
      PROVE  IInv'
  <2>1. /\ UNCHANGED <<broker, processed, cur, buffer>>
        /\ \E where \in PCs : pc' = [pc EXCEPT ![p] = where] \/ pc' = pc
        /\ open' \in {open, [open EXCEPT ![p] = TRUE]}
        /\ term' \in {term, [term EXCEPT ![p] = TRUE], [term EXCEPT ![p] = FALSE]}
        /\ draining' \in {draining, [draining EXCEPT ![p] = TRUE], [draining EXCEPT ![p] = FALSE]}
        /\ drainOver' \in {drainOver, [drainOver EXCEPT ![p] = TRUE], [drainOver EXCEPT ![p] = FALSE]}
    BY <1>9 DEF CancelConsumer, DrainExpires, Sigterm, Restart, Goto, PCs
  <2>2. Shape'
    BY <2>1, <1>0 DEF Shape, broker
  <2>3. Hand(p)'
    BY <2>1, <1>0, <1>9 DEF CancelConsumer, DrainExpires, Sigterm, Restart,
                            Goto, Shape, Hand, Handling, broker
  <2>4. Outcome(p)'
    BY <2>1, <1>0, <1>9 DEF CancelConsumer, DrainExpires, Sigterm, Restart,
                            Goto, Shape, Outcome
  <2>. QED
    BY <2>1, <2>2, <2>3, <2>4, <1>0, LocalStep DEF Shape
<1>10. CASE UNCHANGED vars
  BY <1>10 DEF vars, broker, IInv, Shape, Somewhere, OnePlace, AckedMeansCommitted, Hand, Outcome
<1>. QED
  BY <1>1, <1>2, <1>3, <1>4, <1>5, <1>6, <1>7, <1>8, <1>9, <1>10 DEF Next, Loop

\* The loop keeps its inductive invariant.
THEOREM Invariance == Spec => []IInv
BY InitOK, NextOK, PTL DEF Spec

\* A message is in one place only, whatever channels are lost and processes killed, and a
\* goroutine on an open channel handles only what is unacknowledged on that channel.
THEOREM TypeCorrect == Spec => []TypeOK
BY TypesFollow, Invariance, PTL

\* No message leaves the broker for good without its effect committed, unless it is in the
\* dead-letter queues: across replicas, drains, kills and lost channels.
THEOREM NothingAckedUndone == Spec => []AckedMeansCommitted
<1>1. IInv => AckedMeansCommitted
  BY DEF IInv
<1>. QED
  BY <1>1, Invariance, PTL

-----------------------------------------------------------------------------

LEMMA DeathStep ==
    IInv /\ [Next]_vars =>
        [\A m \in (dead' \ dead) \ Failing : \E p \in Procs :
            /\ cur[p] = m
            /\ term[p]
            /\ draining[p] => drainOver[p]]_vars
<1>. SUFFICES ASSUME IInv, [Next]_vars, NEW m \in (dead' \ dead) \ Failing
              PROVE  \E p \in Procs : cur[p] = m /\ term[p] /\ (draining[p] => drainOver[p])
  OBVIOUS
<1>1. PICK p \in Procs : Nack(p)
  <2>1. \A p \in Procs, n \in Msgs : Deliver(p, n) \/ Receive(p, n) => dead' = dead
    BY DEF Deliver, Receive, broker
  <2>2. \A p \in Procs : ChannelLost(p) \/ Kill(p) \/ Exit(p) => dead' = dead
    BY DEF ChannelLost, Kill, Exit, Requeue
  <2>3. \A p \in Procs : HandlerCommits(p) \/ HandlerFails(p) \/ Ack(p) \/ DeliveriesClosed(p)
                            \/ SeeDone(p) \/ CancelConsumer(p) \/ GiveUpDrain(p) => dead' = dead
    BY DEF HandlerCommits, HandlerFails, Ack, DeliveriesClosed, SeeDone, CancelConsumer,
           GiveUpDrain, broker
  <2>4. \A p \in Procs : DrainExpires(p) \/ Sigterm(p) \/ Restart(p) => dead' = dead
    BY DEF DrainExpires, Sigterm, Restart, broker
  <2>5. UNCHANGED vars => dead' = dead
    BY DEF vars, broker
  <2>. QED
    BY <2>1, <2>2, <2>3, <2>4, <2>5 DEF Next, Loop
<1>2. pc[p] = "failed" /\ m = cur[p]
  BY <1>1 DEF Nack
<1>. QED
  BY <1>2 DEF IInv, Outcome

\* A message that could be processed is dead-lettered only by a process that received
\* SIGTERM, and, once that process drains, only after the drain's clock ran out.
THEOREM DeathIsHealthy == Spec => HealthyDeath
BY Invariance, DeathStep, PTL DEF Spec, HealthyDeath
=============================================================================
