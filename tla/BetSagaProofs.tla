---------------------------- MODULE BetSagaProofs ----------------------------
(***************************************************************************)
(* What holds of BetSaga for any users, bets, amounts, failing consumers   *)
(* and lost messages.                                                      *)
(*                                                                         *)
(* The argument: a bet's status, its rows in the outbox and the marks of   *)
(* its rows in processed_events always tell the same story (Life,          *)
(* Answered), because every transaction writes all three or none; a row    *)
(* is there once (Unique) and reaches only the queues its type is bound to *)
(* (Routed), so a handler of a row that nobody has handled finds its bet   *)
(* in the status the row announced; and what has arrived stays queued      *)
(* until it is handled or dead-lettered (Tracked).                         *)
(***************************************************************************)
EXTENDS BetSaga, TLAPS

Row(type, b) == [type |-> type, bet |-> b]

\* A bet announces each stage once.
Unique == \A i, j \in DOMAIN outbox : outbox[i] = outbox[j] => i = j

\* A consumer sees only rows of the types its queue is bound to.
Routed ==
    /\ \A c \in Consumers : \A id \in queues[c] : c \in Routes[outbox[id].type]
    /\ \A c \in Consumers, id \in DOMAIN outbox :
           <<c, id>> \in processed => c \in Routes[outbox[id].type]

\* What has reached the queues is there, handled or dead-lettered.
Tracked ==
    \A id \in arrived, c \in Consumers \ {"notify"} :
        c \in Routes[outbox[id].type] => id \in queues[c] \/ <<c, id>> \in processed \cup dead

\* What a consumer that does not fail dead-letters was handled through another delivery.
OnlyRepeatsDead == \A d \in dead : d[1] \in Failing \/ d \in processed

\* A worker holds only rows that are still queued.
HeldIsQueued == \A c \in Consumers : begun[c] \subseteq queues[c]

\* Nobody is told what was not announced.
Told == \A type \in Types, b \in Bets : notices[Row(type, b)] > 0 => Has(type, b)

\* The status of a bet and its rows.
Life(b) ==
    /\ Has("placed", b) <=> status[b] # "none"
    /\ Has("reserved", b) => CanPayStake(b) /\ status[b] \in {"PENDING_RESERVE", "OPEN", "SETTLED"}
    /\ status[b] = "REJECTED" => ~CanPayStake(b)
    /\ Has("accepted", b) <=> status[b] \in {"OPEN", "SETTLED"}
    /\ Has("accepted", b) => Has("reserved", b)
    /\ Has("settled", b) <=> status[b] = "SETTLED"
    /\ Has("credited", b) => status[b] = "SETTLED" /\ b \notin Lost

\* The rows of a bet and their marks.
Answered(b) ==
    \A id \in DOMAIN outbox :
        /\ outbox[id] = Row("placed", b) =>
               (<<"wallet-reserve", id>> \in processed
                    <=> Has("reserved", b) \/ status[b] = "REJECTED")
        /\ outbox[id] = Row("reserved", b) =>
               (<<"bet-accept", id>> \in processed <=> Has("accepted", b))
        /\ outbox[id] = Row("settled", b) /\ b \notin Lost =>
               (<<"wallet-settled", id>> \in processed <=> Has("credited", b))

IInv == /\ TypeOK /\ Unique /\ Routed /\ SagaOrder /\ Tracked /\ OnlyRepeatsDead /\ Told
        /\ \A b \in Bets : Life(b) /\ Answered(b)

-----------------------------------------------------------------------------
(* The bindings, the stages and the outbox.                                *)

LEMMA RoutesAre ==
    \A t \in Types : /\ Routes[t] \subseteq Consumers
                     /\ "wallet-reserve" \in Routes[t] <=> t = "placed"
                     /\ "bet-accept" \in Routes[t] <=> t = "reserved"
                     /\ "wallet-settled" \in Routes[t] <=> t = "settled"
<1>1. /\ Routes["placed"] = {"wallet-reserve", "risk-bet-placed"}
      /\ Routes["reserved"] = {"bet-accept"} /\ Routes["accepted"] = {"notify"}
      /\ Routes["settled"] = {"wallet-settled", "notify"} /\ Routes["credited"] = {}
  BY DEF Routes, Types
<1>. QED
  BY <1>1 DEF Types, Consumers

LEMMA NamesAre ==
    /\ {"placed", "reserved", "accepted", "settled", "credited"} \subseteq Types
    /\ {"wallet-reserve", "risk-bet-placed", "bet-accept", "wallet-settled", "notify"} \subseteq Consumers
    /\ {"none", "PENDING_RESERVE", "OPEN", "REJECTED", "SETTLED"} \subseteq Statuses
BY DEF Types, Consumers, Statuses

LEMMA StagesAre ==
    /\ Stage["placed"] = 1 /\ Stage["reserved"] = 2 /\ Stage["accepted"] = 3
    /\ Stage["settled"] = 4 /\ Stage["credited"] = 5
BY DEF Stage, Types

LEMMA RowsAre ==
    /\ \A r \in Rows : r.type \in Types /\ r.bet \in Bets /\ r = Row(r.type, r.bet)
    /\ \A t \in Types, b \in Bets : Row(t, b) \in Rows /\ Row(t, b).type = t /\ Row(t, b).bet = b
BY DEF Rows, Row

LEMMA Appended ==
    ASSUME outbox \in Seq(Rows), NEW t \in Types, NEW b \in Bets, Announce(t, b)
    PROVE  /\ outbox' \in Seq(Rows) /\ Len(outbox) \in Nat
           /\ DOMAIN outbox = 1 .. Len(outbox)
           /\ DOMAIN outbox' = DOMAIN outbox \cup {Len(outbox) + 1}
           /\ Len(outbox) + 1 \notin DOMAIN outbox
           /\ outbox'[Len(outbox) + 1] = Row(t, b)
           /\ \A id \in DOMAIN outbox : outbox'[id] = outbox[id]
<1>1. Row(t, b) \in Rows /\ outbox' = Append(outbox, Row(t, b))
  BY RowsAre DEF Announce, Row
<1>. HIDE DEF Row
<1>. QED
  BY <1>1

LEMMA HasAppended ==
    ASSUME outbox \in Seq(Rows), NEW t \in Types, NEW b \in Bets, Announce(t, b),
           NEW u \in Types, NEW d \in Bets
    PROVE  Has(u, d)' <=> Has(u, d) \/ (u = t /\ d = b)
<1>1. Row(u, d) = Row(t, b) <=> u = t /\ d = b
  BY DEF Row
<1>2. Has(u, d) <=> \E id \in DOMAIN outbox : outbox[id] = Row(u, d)
  BY DEF Has, Row
<1>3. Has(u, d)' <=> \E id \in DOMAIN outbox' : outbox'[id] = Row(u, d)
  BY DEF Has, Row
<1>. HIDE DEF Row
<1>. QED
  BY <1>1, <1>2, <1>3, Appended

LEMMA HasKept ==
    ASSUME outbox' = outbox, NEW u, NEW d
    PROVE  Has(u, d)' <=> Has(u, d)
BY DEF Has

\* What the rows of a bet are, in terms of Has.
LEMMA RowsOf ==
    ASSUME outbox \in Seq(Rows), NEW id \in DOMAIN outbox
    PROVE  /\ outbox[id] \in Rows /\ outbox[id].type \in Types /\ outbox[id].bet \in Bets
           /\ outbox[id] = Row(outbox[id].type, outbox[id].bet)
           /\ \A t \in Types, b \in Bets : outbox[id] = Row(t, b) => Has(t, b)
<1>1. outbox[id] \in Rows
  OBVIOUS
<1>2. \A t \in Types, b \in Bets : outbox[id] = Row(t, b) => Has(t, b)
  BY DEF Has, Row
<1>. QED
  BY <1>1, <1>2, RowsAre

-----------------------------------------------------------------------------

LEMMA InitOK == Init => IInv
<1>. SUFFICES ASSUME Init PROVE IInv
  OBVIOUS
<1>1. outbox = <<>> /\ DOMAIN outbox = {} /\ processed = {}
  BY DEF Init
<1>2. \A t \in Types, b \in Bets : ~Has(t, b)
  BY <1>1 DEF Has
<1>3. TypeOK
  <2>1. funded \subseteq Users /\ status \in [Bets -> Statuses] /\ balance \in [Users -> Int]
    BY SagaAmounts DEF Init, Statuses
  <2>2. outbox \in Seq(Rows) /\ published \subseteq DOMAIN outbox /\ sending \in {0} \cup Unpublished
    BY <1>1 DEF Init
  <2>3. /\ queues \in [Consumers -> SUBSET DOMAIN outbox] /\ notices \in [Rows -> 0 .. NoticeCap]
        /\ begun \in [Consumers -> SUBSET DOMAIN outbox]
        /\ \A c \in Consumers : begun[c] \subseteq queues[c]
    BY SagaInputs DEF Init
  <2>. QED
    BY <1>1, <2>1, <2>2, <2>3 DEF Init, TypeOK
<1>4. Unique /\ SagaOrder
  BY <1>1 DEF Unique, SagaOrder
<1>5. Routed /\ Tracked /\ OnlyRepeatsDead
  BY <1>1 DEF Init, Routed, Tracked, OnlyRepeatsDead
<1>6. Told
  BY RowsAre DEF Init, Told
<1>7. ASSUME NEW b \in Bets PROVE Life(b) /\ Answered(b)
  <2>1. status[b] = "none"
    BY DEF Init
  <2>. QED
    BY <1>1, <1>2, <2>1 DEF Life, Answered, Types
<1>. QED
  BY <1>3, <1>4, <1>5, <1>6, <1>7 DEF IInv

\* A step that writes no bet, no event and no mark leaves the bets' story as it is.
LEMMA QuietStep ==
    ASSUME IInv, UNCHANGED <<funded, status, outbox, processed>>,
           TypeOK', Routed', Tracked', OnlyRepeatsDead', Told'
    PROVE  IInv'
<1>1. Unique' /\ SagaOrder'
  BY DEF IInv, Unique, SagaOrder
<1>2. ASSUME NEW b \in Bets PROVE Life(b)' /\ Answered(b)'
  <2>1. \A t : Has(t, b)' <=> Has(t, b)
    BY HasKept
  <2>2. Life(b) /\ Answered(b)
    BY DEF IInv
  <2>3. Life(b)'
    BY <2>1, <2>2 DEF Life, CanPayStake
  <2>. QED
    BY <2>1, <2>2, <2>3 DEF Answered
<1>. QED
  BY <1>1, <1>2 DEF IInv

\* What is told was announced: notices of announced rows only, and rows are for ever.
LEMMA QuietNotices ==
    ASSUME Told, outbox' = outbox, notices' = notices
    PROVE  Told'
BY HasKept DEF Told

LEMMA RelaySendOK ==
    ASSUME IInv, NEW id \in DOMAIN outbox, RelaySend(id)
    PROVE  IInv'
<1>1. /\ sending = 0 /\ sending' = id /\ id \in Unpublished
      /\ UNCHANGED <<funded, status, balance, outbox, published, begun, processed, notices, dead>>
      /\ \/ /\ queues' = [c \in Consumers |->
                 IF c \in Routes[outbox[id].type] THEN queues[c] \cup {id} ELSE queues[c]]
            /\ arrived' = arrived \cup {id}
         \/ UNCHANGED <<queues, arrived>>
  BY DEF RelaySend, Enqueue, IsNext
<1>2. TypeOK /\ Routed /\ Tracked /\ OnlyRepeatsDead /\ Told
  BY DEF IInv
<1>3. queues' \in [Consumers -> SUBSET DOMAIN outbox] /\ arrived' \subseteq DOMAIN outbox
  BY <1>1, <1>2 DEF TypeOK
<1>5. ASSUME NEW c \in Consumers
      PROVE  /\ queues[c] \subseteq queues'[c]
             /\ \A i \in queues'[c] \ queues[c] : c \in Routes[outbox[i].type]
             /\ id \in arrived' \ arrived /\ c \in Routes[outbox[id].type] => id \in queues'[c]
             /\ arrived' \subseteq arrived \cup {id}
  BY <1>1
<1>4. TypeOK'
  BY <1>1, <1>2, <1>3, <1>5 DEF TypeOK, Unpublished
<1>6. Routed' /\ OnlyRepeatsDead'
  BY <1>1, <1>2, <1>5 DEF Routed, OnlyRepeatsDead
<1>7. Tracked'
  BY <1>1, <1>2, <1>5 DEF Tracked
<1>. QED
  BY <1>1, <1>2, <1>4, <1>6, <1>7, QuietStep, QuietNotices

LEMMA RelayEndOK ==
    ASSUME IInv, RelayMark \/ RelayFail
    PROVE  IInv'
<1>1. /\ sending # 0 /\ sending' = 0 /\ published' \in {published, published \cup {sending}}
      /\ UNCHANGED <<funded, status, balance, outbox, queues, begun, processed, notices, dead, arrived>>
  BY DEF RelayMark, RelayFail
<1>2. TypeOK /\ Routed /\ Tracked /\ OnlyRepeatsDead /\ Told
  BY DEF IInv
<1>3. TypeOK'
  BY <1>1, <1>2 DEF TypeOK, Unpublished
<1>4. Routed' /\ Tracked' /\ OnlyRepeatsDead'
  BY <1>1, <1>2 DEF Routed, Tracked, OnlyRepeatsDead
<1>. QED
  BY <1>1, <1>2, <1>3, <1>4, QuietStep, QuietNotices

\* A delivery that ends leaves its queue only if it is notify's, marked or dead-lettered.
LEMMA DeliveryEnds ==
    ASSUME IInv, NEW c \in Consumers, NEW id \in queues[c],
           Ended(c, id),
           processed \subseteq processed', dead \subseteq dead', arrived' = arrived,
           queues' = queues \/ c = "notify" \/ <<c, id>> \in processed' \cup dead',
           \A i \in DOMAIN outbox : i \in DOMAIN outbox' /\ outbox'[i] = outbox[i],
           \A k \in Consumers, i \in DOMAIN outbox' :
               <<k, i>> \in processed' \ processed => k = c /\ i = id
    PROVE  /\ queues' \in [Consumers -> SUBSET DOMAIN outbox] /\ id \in DOMAIN outbox
           /\ begun' \in [Consumers -> SUBSET DOMAIN outbox] /\ HeldIsQueued'
           /\ Routed' /\ Tracked'
<1>1. TypeOK /\ Routed /\ Tracked
  BY DEF IInv
<1>0. \/ /\ queues' = [queues EXCEPT ![c] = @ \ {id}]
         /\ begun' = [begun EXCEPT ![c] = @ \ {id}]
      \/ queues' = queues /\ begun' \in {begun, [begun EXCEPT ![c] = @ \ {id}]}
  BY DEF Ended
<1>2. queues' \in [Consumers -> SUBSET DOMAIN outbox] /\ id \in DOMAIN outbox
      /\ begun' \in [Consumers -> SUBSET DOMAIN outbox]
  BY <1>0, <1>1 DEF TypeOK
<1>6. HeldIsQueued'
  BY <1>0, <1>1 DEF TypeOK, HeldIsQueued
<1>3. \A k \in Consumers : /\ queues'[k] \subseteq queues[k] /\ queues[k] \subseteq DOMAIN outbox
                          /\ \A i \in queues[k] \ queues'[k] : k = c /\ i = id
  BY <1>0, <1>1 DEF TypeOK
<1>4. Routed'
  <2>1. ASSUME NEW k \in Consumers, NEW i \in queues'[k] PROVE k \in Routes[outbox'[i].type]
    BY <2>1, <1>1, <1>3 DEF Routed
  <2>2. ASSUME NEW k \in Consumers, NEW i \in DOMAIN outbox', <<k, i>> \in processed'
        PROVE  k \in Routes[outbox'[i].type]
    <3>1. CASE <<k, i>> \in processed
      <4>1. i \in DOMAIN outbox
        BY <3>1, <1>1 DEF TypeOK
      <4>. QED
        BY <4>1, <3>1, <1>1 DEF Routed
    <3>2. CASE <<k, i>> \notin processed
      BY <3>2, <2>2, <1>1, <1>2 DEF Routed
    <3>. QED
      BY <3>1, <3>2
  <2>. QED
    BY <2>1, <2>2 DEF Routed
<1>5. Tracked'
  <2>. SUFFICES ASSUME NEW i \in arrived, NEW k \in Consumers \ {"notify"},
                       k \in Routes[outbox'[i].type], <<k, i>> \notin processed' \cup dead'
                PROVE  i \in queues'[k]
    BY DEF Tracked
  <2>1. i \in DOMAIN outbox
    BY <1>1 DEF TypeOK
  <2>2. i \in queues[k]
    BY <2>1, <1>1 DEF Tracked
  <2>. QED
    BY <2>2, <1>3
<1>. QED
  BY <1>2, <1>4, <1>5, <1>6

\* A worker takes a row that is queued into its hands, or dies with it.
LEMMA HandOK ==
    ASSUME IInv, NEW c \in Consumers, NEW id \in DOMAIN outbox, Begin(c, id) \/ WorkerDies(c, id)
    PROVE  IInv'
<1>1. /\ \/ id \in queues[c] /\ begun' = [begun EXCEPT ![c] = @ \cup {id}]
         \/ begun' = [begun EXCEPT ![c] = @ \ {id}]
      /\ UNCHANGED <<funded, status, balance, outbox, published, sending, queues,
                     processed, notices, dead, arrived>>
  BY DEF Begin, WorkerDies
<1>2. TypeOK /\ Routed /\ Tracked /\ OnlyRepeatsDead /\ Told
  BY DEF IInv
<1>3. /\ begun' \in [Consumers -> SUBSET DOMAIN outbox]
      /\ \A k \in Consumers : begun'[k] \subseteq queues[k]
  <2>1. /\ begun \in [Consumers -> SUBSET DOMAIN outbox]
        /\ \A k \in Consumers : begun[k] \subseteq queues[k]
    BY <1>2 DEF TypeOK
  <2>2. CASE id \in queues[c] /\ begun' = [begun EXCEPT ![c] = @ \cup {id}]
    BY <2>1, <2>2
  <2>3. CASE begun' = [begun EXCEPT ![c] = @ \ {id}]
    BY <2>1, <2>3
  <2>. QED
    BY <1>1, <2>2, <2>3
<1>4. TypeOK'
  BY <1>1, <1>2, <1>3 DEF TypeOK, Unpublished
<1>5. Routed' /\ Tracked' /\ OnlyRepeatsDead'
  BY <1>1, <1>2 DEF Routed, Tracked, OnlyRepeatsDead
<1>. QED
  BY <1>1, <1>2, <1>4, <1>5, QuietStep, QuietNotices

LEMMA AgainOK ==
    ASSUME IInv, NEW c \in Consumers, NEW id \in DOMAIN outbox, Again(c, id)
    PROVE  IInv'
<1>1. /\ id \in queues[c] /\ <<c, id>> \in processed /\ Ended(c, id)
      /\ UNCHANGED <<funded, status, balance, outbox, published, sending, processed,
                     notices, dead, arrived>>
  BY DEF Again, FirstTime
<1>2. TypeOK /\ OnlyRepeatsDead /\ Told
  BY DEF IInv
<1>3. /\ queues' \in [Consumers -> SUBSET DOMAIN outbox] /\ Routed' /\ Tracked'
      /\ begun' \in [Consumers -> SUBSET DOMAIN outbox] /\ HeldIsQueued'
  BY <1>1, DeliveryEnds
<1>4. TypeOK' /\ OnlyRepeatsDead'
  BY <1>1, <1>2, <1>3 DEF TypeOK, Unpublished, HeldIsQueued, OnlyRepeatsDead
<1>. QED
  BY <1>1, <1>2, <1>3, <1>4, QuietStep, QuietNotices

LEMMA NotifyOK ==
    ASSUME IInv, NEW id \in DOMAIN outbox, Notify(id)
    PROVE  IInv'
<1>1. /\ id \in queues["notify"] /\ Ended("notify", id)
      /\ notices' = [notices EXCEPT ![outbox[id]] = IF @ < NoticeCap THEN @ + 1 ELSE @]
      /\ UNCHANGED <<funded, status, balance, outbox, published, sending, processed, dead, arrived>>
  BY DEF Notify
<1>2. TypeOK /\ OnlyRepeatsDead /\ Told /\ outbox[id] \in Rows
  BY DEF IInv, TypeOK
<1>3. /\ queues' \in [Consumers -> SUBSET DOMAIN outbox] /\ Routed' /\ Tracked'
      /\ begun' \in [Consumers -> SUBSET DOMAIN outbox] /\ HeldIsQueued'
  BY <1>1, DeliveryEnds DEF Consumers
<1>4. notices' \in [Rows -> 0 .. NoticeCap]
  BY <1>1, <1>2, SagaInputs DEF TypeOK
<1>5. TypeOK' /\ OnlyRepeatsDead'
  BY <1>1, <1>2, <1>3, <1>4 DEF TypeOK, Unpublished, HeldIsQueued, OnlyRepeatsDead
<1>6. Told'
  <2>. SUFFICES ASSUME NEW t \in Types, NEW b \in Bets, notices'[Row(t, b)] > 0 PROVE Has(t, b)
    BY <1>1, HasKept DEF Told
  <2>1. Row(t, b) \in Rows
    BY RowsAre
  <2>2. CASE outbox[id] = Row(t, b)
    BY <2>2, <1>2, RowsOf DEF TypeOK
  <2>3. CASE outbox[id] # Row(t, b)
    <3>1. notices'[Row(t, b)] = notices[Row(t, b)]
      BY <2>1, <2>3, <1>1, <1>2 DEF TypeOK
    <3>. QED
      BY <3>1, <1>2 DEF Told
  <2>. QED
    BY <2>2, <2>3
<1>. QED
  BY <1>1, <1>3, <1>5, <1>6, QuietStep

-----------------------------------------------------------------------------
(* A transaction of a service: it writes the status of one bet, announces  *)
(* its next stage or nothing, and marks rows of that bet.                  *)

\* A bet announces a stage that comes after all it has announced.
AnnouncesNext(t, b) == Announce(t, b) /\ \A u \in Types : Has(u, b) => Stage[u] < Stage[t]

\* What an announcement leaves of the outbox: the bet's next stage, after all others.
LEMMA AnnounceOK ==
    ASSUME IInv, NEW t \in Types, NEW b \in Bets, Announce(t, b),
           \A u \in Types : Has(u, b) => Stage[u] < Stage[t]
    PROVE  Unique' /\ SagaOrder' /\ (notices' = notices => Told')
<1>1. TypeOK /\ Unique /\ SagaOrder /\ Told /\ outbox \in Seq(Rows)
  BY DEF IInv, TypeOK
<1>. DEFINE n == Len(outbox) + 1
<1>2. /\ DOMAIN outbox' = DOMAIN outbox \cup {n} /\ DOMAIN outbox = 1 .. Len(outbox)
      /\ Len(outbox) \in Nat /\ n \notin DOMAIN outbox /\ outbox'[n] = Row(t, b)
      /\ \A id \in DOMAIN outbox : outbox'[id] = outbox[id]
  BY <1>1, Appended
<1>3. Row(t, b).bet = b /\ Row(t, b).type = t
  BY DEF Row
<1>4. \A u \in Types : Stage[u] \in Nat
  BY StagesAre DEF Types
<1>5. ASSUME NEW i \in DOMAIN outbox, outbox[i].bet = b
      PROVE  outbox[i].type \in Types /\ Stage[outbox[i].type] < Stage[t]
  BY <1>1, <1>5, RowsOf
<1>6. Unique'
  <2>1. ASSUME NEW i \in DOMAIN outbox PROVE outbox[i] # Row(t, b)
    <3>. SUFFICES ASSUME outbox[i] = Row(t, b) PROVE FALSE
      OBVIOUS
    <3>1. outbox[i].bet = b /\ outbox[i].type = t
      BY <1>3
    <3>. QED
      BY <3>1, <1>4, <1>5
  <2>. QED
    BY <2>1, <1>1, <1>2 DEF Unique
<1>7. SagaOrder'
  <2>. SUFFICES ASSUME NEW i \in DOMAIN outbox', NEW j \in DOMAIN outbox', i < j,
                       outbox'[i].bet = outbox'[j].bet
                PROVE  Stage[outbox'[i].type] < Stage[outbox'[j].type]
    BY DEF SagaOrder
  <2>1. i \in DOMAIN outbox
    BY <1>2
  <2>2. CASE j \in DOMAIN outbox
    BY <2>1, <2>2, <1>1, <1>2 DEF SagaOrder
  <2>3. CASE j = n
    BY <2>1, <2>3, <1>2, <1>3, <1>5
  <2>. QED
    BY <2>2, <2>3, <1>2
<1>8. notices' = notices => Told'
  BY <1>1, HasAppended DEF Told
<1>. QED
  BY <1>6, <1>7, <1>8

\* The story of the other bets.
LEMMA LifeIsKept ==
    ASSUME NEW d \in Bets, Life(d), Answered(d), status'[d] = status[d], funded' = funded,
           \A t \in Types : Has(t, d)' <=> Has(t, d),
           \A id \in DOMAIN outbox' : outbox'[id] \in Rows,
           \A id \in DOMAIN outbox' : outbox'[id].bet = d =>
               /\ id \in DOMAIN outbox /\ outbox'[id] = outbox[id]
               /\ \A c \in Consumers : <<c, id>> \in processed' <=> <<c, id>> \in processed
    PROVE  Life(d)' /\ Answered(d)'
<1>1. Life(d)'
  BY DEF Life, CanPayStake, Types
<1>2. \A t \in Types : Row(t, d).bet = d
  BY DEF Row
<1>3. Answered(d)'
  BY <1>2 DEF Answered, Types, Consumers
<1>. QED
  BY <1>1, <1>3

LEMMA CommitOK ==
    ASSUME IInv, NEW b \in Bets,
           status' \in [Bets -> Statuses], \A d \in Bets \ {b} : status'[d] = status[d],
           outbox' = outbox \/ \E t \in Types : AnnouncesNext(t, b),
           \A p \in processed' \ processed :
               p \in Consumers \X DOMAIN outbox /\ outbox[p[2]].bet = b,
           processed \subseteq processed',
           queues' \in [Consumers -> SUBSET DOMAIN outbox], Routed', Tracked',
           begun' \in [Consumers -> SUBSET DOMAIN outbox], HeldIsQueued',
           balance' \in [Users -> Int],
           UNCHANGED <<funded, published, sending, notices, dead, arrived>>,
           Life(b)', Answered(b)'
    PROVE  IInv'
<1>1. TypeOK /\ Unique /\ SagaOrder /\ OnlyRepeatsDead /\ Told /\ outbox \in Seq(Rows)
  BY DEF IInv, TypeOK
<1>6. OnlyRepeatsDead'
  BY <1>1 DEF OnlyRepeatsDead
<1>2. Unique' /\ SagaOrder' /\ Told'
  <2>1. CASE outbox' = outbox
    BY <2>1, <1>1, QuietNotices DEF Unique, SagaOrder
  <2>2. ASSUME NEW t \in Types, AnnouncesNext(t, b) PROVE Unique' /\ SagaOrder' /\ Told'
    BY <2>2, AnnounceOK DEF AnnouncesNext
  <2>. QED
    BY <2>1, <2>2
<1>3. /\ outbox' \in Seq(Rows) /\ DOMAIN outbox \subseteq DOMAIN outbox'
      /\ \A id \in DOMAIN outbox : outbox'[id] = outbox[id]
      /\ \A id \in DOMAIN outbox' : id \notin DOMAIN outbox => outbox'[id].bet = b
      /\ \A d \in Bets \ {b}, u \in Types : Has(u, d)' <=> Has(u, d)
  <2>1. CASE outbox' = outbox
    BY <2>1, <1>1, HasKept
  <2>2. ASSUME NEW t \in Types, AnnouncesNext(t, b)
        PROVE  /\ outbox' \in Seq(Rows) /\ DOMAIN outbox \subseteq DOMAIN outbox'
               /\ \A id \in DOMAIN outbox : outbox'[id] = outbox[id]
               /\ \A id \in DOMAIN outbox' : id \notin DOMAIN outbox => outbox'[id].bet = b
               /\ \A d \in Bets \ {b}, u \in Types : Has(u, d)' <=> Has(u, d)
    <3>0. Announce(t, b)
      BY <2>2 DEF AnnouncesNext
    <3>1. \A d \in Bets \ {b}, u \in Types : Has(u, d)' <=> Has(u, d)
      BY <3>0, <1>1, HasAppended
    <3>2. Row(t, b).bet = b
      BY DEF Row
    <3>. QED
      BY <3>0, <3>1, <3>2, <1>1, Appended
  <2>. QED
    BY <2>1, <2>2
<1>4. TypeOK'
  <2>2. processed' \in SUBSET (Consumers \X DOMAIN outbox') /\ dead' \in SUBSET (Consumers \X DOMAIN outbox')
    BY <1>1, <1>3 DEF TypeOK
  <2>3. /\ published' \subseteq DOMAIN outbox' /\ arrived' \subseteq DOMAIN outbox'
        /\ sending' \in {0} \cup Unpublished'
        /\ queues' \in [Consumers -> SUBSET DOMAIN outbox']
        /\ begun' \in [Consumers -> SUBSET DOMAIN outbox']
    BY <1>1, <1>3 DEF TypeOK, Unpublished
  <2>. QED
    BY <2>2, <2>3, <1>1, <1>3 DEF TypeOK, HeldIsQueued
<1>5. ASSUME NEW d \in Bets \ {b} PROVE Life(d)' /\ Answered(d)'
  <2>1. Life(d) /\ Answered(d) /\ status'[d] = status[d]
    BY <1>1 DEF IInv, TypeOK
  <2>2. ASSUME NEW id \in DOMAIN outbox', outbox'[id].bet = d
        PROVE  /\ id \in DOMAIN outbox /\ outbox'[id] = outbox[id]
               /\ \A c \in Consumers : <<c, id>> \in processed' <=> <<c, id>> \in processed
    BY <2>2, <1>3
  <2>3. \A id \in DOMAIN outbox' : outbox'[id] \in Rows
    BY <1>3
  <2>. QED
    BY <2>1, <2>2, <2>3, <1>3, LifeIsKept
<1>. QED
  BY <1>2, <1>4, <1>5, <1>6 DEF IInv

\* A transaction of an HTTP service touches no queue and no mark.
LEMMA NothingDelivered ==
    ASSUME IInv, NEW t \in Types, NEW b \in Bets, Announce(t, b),
           UNCHANGED <<queues, begun, processed, dead, arrived>>
    PROVE  /\ queues' \in [Consumers -> SUBSET DOMAIN outbox] /\ Routed' /\ Tracked'
           /\ begun' \in [Consumers -> SUBSET DOMAIN outbox] /\ HeldIsQueued'
<1>1. TypeOK /\ Routed /\ Tracked /\ outbox \in Seq(Rows)
  BY DEF IInv, TypeOK
<1>2. \A id \in DOMAIN outbox : outbox'[id] = outbox[id]
  BY <1>1, Appended
<1>3. Routed'
  <2>1. \A c \in Consumers : \A id \in queues[c] : c \in Routes[outbox'[id].type]
    BY <1>1, <1>2 DEF Routed, TypeOK
  <2>2. \A c \in Consumers, id \in DOMAIN outbox :
            <<c, id>> \in processed => c \in Routes[outbox'[id].type]
    BY <1>1, <1>2 DEF Routed
  <2>3. \A c \in Consumers, id \in DOMAIN outbox' : <<c, id>> \in processed => id \in DOMAIN outbox
    BY <1>1 DEF TypeOK
  <2>. QED
    BY <2>1, <2>2, <2>3 DEF Routed
<1>4. Tracked'
  BY <1>1, <1>2 DEF Tracked, TypeOK
<1>. QED
  BY <1>1, <1>3, <1>4 DEF TypeOK, HeldIsQueued

LEMMA PlaceBetOK ==
    ASSUME IInv, NEW b \in Bets, PlaceBet(b)
    PROVE  IInv'
<1>1. /\ status[b] = "none" /\ status' = [status EXCEPT ![b] = "PENDING_RESERVE"]
      /\ Announce("placed", b)
      /\ UNCHANGED <<funded, balance, published, sending, queues, begun, processed,
                     notices, dead, arrived>>
  BY DEF PlaceBet
<1>2. TypeOK /\ Life(b) /\ Answered(b) /\ outbox \in Seq(Rows)
  BY DEF IInv, TypeOK
<1>3. \A u \in Types : ~Has(u, b)
  BY <1>1, <1>2 DEF Life, Types
<1>4. \A u \in Types : Has(u, b)' <=> u = "placed"
  BY <1>1, <1>2, <1>3, HasAppended DEF Types
<1>5. status'[b] = "PENDING_RESERVE"
  BY <1>1, <1>2 DEF TypeOK
<1>6. Life(b)'
  BY <1>1, <1>4, <1>5 DEF Life, Types
<1>7. Answered(b)'
  <2>. SUFFICES ASSUME NEW id \in DOMAIN outbox', NEW t \in {"placed", "reserved", "settled"},
                       outbox'[id] = Row(t, b)
                PROVE  /\ t = "placed" /\ \A c \in Consumers : <<c, id>> \notin processed
    BY <1>1, <1>4, <1>5 DEF Answered, Types, Consumers
  <2>1. id \notin DOMAIN outbox
    <3>. SUFFICES ASSUME id \in DOMAIN outbox PROVE FALSE
      OBVIOUS
    <3>1. outbox[id] = Row(t, b)
      BY <1>1, <1>2, Appended DEF Types
    <3>. QED
      BY <3>1, <1>2, <1>3, RowsOf DEF Types
  <2>2. outbox'[id] = Row("placed", b)
    BY <2>1, <1>1, <1>2, Appended DEF Types
  <2>3. t = "placed"
    BY <2>2 DEF Row
  <2>. QED
    BY <2>1, <2>3, <1>2 DEF TypeOK
<1>8. /\ queues' \in [Consumers -> SUBSET DOMAIN outbox] /\ Routed' /\ Tracked'
      /\ begun' \in [Consumers -> SUBSET DOMAIN outbox] /\ HeldIsQueued'
  BY <1>1, NothingDelivered DEF Types
<1>9. AnnouncesNext("placed", b) /\ "placed" \in Types
  BY <1>1, <1>3, NamesAre DEF AnnouncesNext
<1>10. status' \in [Bets -> Statuses] /\ \A d \in Bets \ {b} : status'[d] = status[d]
  BY <1>1, <1>2, NamesAre DEF TypeOK
<1>11. balance' \in [Users -> Int]
  BY <1>1, <1>2 DEF TypeOK
<1>. QED
  BY <1>1, <1>6, <1>7, <1>8, <1>9, <1>10, <1>11, CommitOK

LEMMA SettleOK ==
    ASSUME IInv, NEW b \in Bets, NEW u \in Users, Settle(b, u)
    PROVE  IInv'
<1>1. /\ status[b] = "OPEN" /\ status' = [status EXCEPT ![b] = "SETTLED"]
      /\ Announce("settled", b)
      /\ UNCHANGED <<funded, balance, published, sending, queues, begun, processed,
                     notices, dead, arrived>>
  BY DEF Settle
<1>2. TypeOK /\ Life(b) /\ Answered(b) /\ outbox \in Seq(Rows)
  BY DEF IInv, TypeOK
<1>3. \A t \in Types : Has(t, b) <=> t \in {"placed", "reserved", "accepted"}
  BY <1>1, <1>2 DEF Life, Types
<1>4. \A t \in Types : Has(t, b)' <=> t # "credited"
  BY <1>1, <1>2, <1>3, HasAppended DEF Types
<1>5. status'[b] = "SETTLED"
  BY <1>1, <1>2 DEF TypeOK
<1>6. Life(b)'
  BY <1>1, <1>2, <1>3, <1>4, <1>5 DEF Life, Types, CanPayStake
<1>7. Answered(b)'
  <2>. SUFFICES ASSUME NEW id \in DOMAIN outbox', NEW t \in {"placed", "reserved", "settled"},
                       outbox'[id] = Row(t, b)
                PROVE  /\ t = "placed" => <<"wallet-reserve", id>> \in processed
                       /\ t = "reserved" => <<"bet-accept", id>> \in processed
                       /\ t = "settled" => <<"wallet-settled", id>> \notin processed
    BY <1>1, <1>4, <1>5 DEF Answered, Types
  <2>1. CASE id \in DOMAIN outbox
    <3>1. outbox[id] = Row(t, b)
      BY <2>1, <1>1, <1>2, Appended DEF Types
    <3>2. Has(t, b)
      BY <2>1, <3>1, <1>2, RowsOf DEF Types
    <3>. QED
      BY <2>1, <3>1, <3>2, <1>2, <1>3 DEF Answered, Types
  <2>2. CASE id \notin DOMAIN outbox
    <3>1. outbox'[id] = Row("settled", b)
      BY <2>2, <1>1, <1>2, Appended DEF Types
    <3>2. t = "settled"
      BY <3>1 DEF Row
    <3>. QED
      BY <2>2, <3>2, <1>2 DEF TypeOK
  <2>. QED
    BY <2>1, <2>2
<1>8. /\ queues' \in [Consumers -> SUBSET DOMAIN outbox] /\ Routed' /\ Tracked'
      /\ begun' \in [Consumers -> SUBSET DOMAIN outbox] /\ HeldIsQueued'
  BY <1>1, NothingDelivered DEF Types
<1>9. AnnouncesNext("settled", b) /\ "settled" \in Types
  BY <1>1, <1>3, StagesAre, NamesAre DEF AnnouncesNext
<1>10. status' \in [Bets -> Statuses] /\ \A d \in Bets \ {b} : status'[d] = status[d]
  BY <1>1, <1>2, NamesAre DEF TypeOK
<1>11. balance' \in [Users -> Int]
  BY <1>1, <1>2 DEF TypeOK
<1>. QED
  BY <1>1, <1>6, <1>7, <1>8, <1>9, <1>10, <1>11, CommitOK

\* What a handler finds that has not seen a row before.
LEMMA FirstDelivery ==
    ASSUME IInv, NEW c \in Consumers, NEW id \in queues[c], FirstTime(c, id), NEW b,
           b = outbox[id].bet
    PROVE  /\ id \in DOMAIN outbox /\ b \in Bets /\ Owner[b] \in Users
           /\ c = "wallet-reserve" =>
                  /\ outbox[id] = Row("placed", b) /\ status[b] = "PENDING_RESERVE"
                  /\ \A t \in Types : Has(t, b) <=> t = "placed"
           /\ c = "bet-accept" =>
                  /\ outbox[id] = Row("reserved", b) /\ status[b] = "PENDING_RESERVE"
                  /\ \A t \in Types : Has(t, b) <=> t \in {"placed", "reserved"}
           /\ c = "wallet-settled" =>
                  /\ outbox[id] = Row("settled", b) /\ status[b] = "SETTLED"
                  /\ Owner[b] \in funded /\ b \notin Mismatched
                  /\ b \notin Lost => ~Has("credited", b)
                  /\ \A t \in Types \ {"credited"} : Has(t, b)
<1>1. TypeOK /\ Routed /\ outbox \in Seq(Rows)
  BY DEF IInv, TypeOK
<1>2. id \in DOMAIN outbox
  BY <1>1 DEF TypeOK
<1>3. b \in Bets /\ outbox[id].type \in Types /\ outbox[id] = Row(outbox[id].type, b)
      /\ Has(outbox[id].type, b)
  BY <1>1, <1>2, RowsOf
<1>4. Life(b) /\ Answered(b) /\ status[b] \in Statuses
  BY <1>1, <1>3 DEF IInv, TypeOK
<1>5. <<c, id>> \notin processed /\ c \in Routes[outbox[id].type]
  BY <1>1 DEF FirstTime, Routed
<1>6. CASE c = "wallet-reserve"
  <2>1. outbox[id] = Row("placed", b) /\ Has("placed", b)
    BY <1>3, <1>5, <1>6, RoutesAre
  <2>2. ~Has("reserved", b) /\ status[b] # "REJECTED"
    BY <2>1, <1>2, <1>4, <1>5, <1>6 DEF Answered
  <2>. QED
    BY <2>1, <2>2, <1>2, <1>3, <1>4, <1>6, SagaBets DEF Life, Types, Statuses
<1>7. CASE c = "bet-accept"
  <2>1. outbox[id] = Row("reserved", b) /\ Has("reserved", b)
    BY <1>3, <1>5, <1>7, RoutesAre
  <2>2. ~Has("accepted", b)
    BY <2>1, <1>2, <1>4, <1>5, <1>7 DEF Answered
  <2>. QED
    BY <2>1, <2>2, <1>2, <1>3, <1>4, <1>7, SagaBets DEF Life, Types, Statuses
<1>8. CASE c = "wallet-settled"
  <2>1. outbox[id] = Row("settled", b) /\ Has("settled", b)
    BY <1>3, <1>5, <1>8, RoutesAre
  <2>2. b \notin Lost => ~Has("credited", b)
    BY <2>1, <1>2, <1>4, <1>5, <1>8 DEF Answered
  <2>. QED
    BY <2>1, <2>2, <1>2, <1>3, <1>4, <1>8, SagaBets DEF Life, Types, Statuses, CanPayStake
<1>. QED
  BY <1>2, <1>3, <1>6, <1>7, <1>8, SagaBets

\* What a worker may go on with is queued.
LEMMA InHandQueued ==
    ASSUME IInv, NEW c \in Consumers
    PROVE  InHand(c) \subseteq queues[c] /\ begun[c] \subseteq queues[c]
BY DEF IInv, TypeOK, InHand

\* The rows of a bet after its row id was marked for c.
LEMMA MarksAfter ==
    ASSUME IInv, NEW c \in Consumers, NEW id \in DOMAIN outbox,
           processed' = processed \cup {<<c, id>>},
           \A i \in DOMAIN outbox : i \in DOMAIN outbox' /\ outbox'[i] = outbox[i]
    PROVE  \A b \in Bets, u \in Types, i \in DOMAIN outbox' : outbox'[i] = Row(u, b) =>
               /\ \A k \in Consumers : <<k, i>> \in processed'
                      <=> i \in DOMAIN outbox /\ (<<k, i>> \in processed \/ (k = c /\ i = id))
               /\ i \in DOMAIN outbox => outbox[i] = Row(u, b) /\ Has(u, b)
               /\ i \in DOMAIN outbox /\ outbox[id] = Row(u, b) => i = id
<1>. SUFFICES ASSUME NEW b \in Bets, NEW u \in Types, NEW i \in DOMAIN outbox', outbox'[i] = Row(u, b)
              PROVE  /\ \A k \in Consumers : <<k, i>> \in processed'
                            <=> i \in DOMAIN outbox /\ (<<k, i>> \in processed \/ (k = c /\ i = id))
                     /\ i \in DOMAIN outbox => outbox[i] = Row(u, b) /\ Has(u, b)
                     /\ i \in DOMAIN outbox /\ outbox[id] = Row(u, b) => i = id
  OBVIOUS
<1>1. TypeOK /\ Unique /\ outbox \in Seq(Rows)
  BY DEF IInv, TypeOK
<1>2. i \in DOMAIN outbox => outbox[i] = Row(u, b)
  OBVIOUS
<1>5. i \in DOMAIN outbox => Has(u, b)
  BY <1>1, <1>2, RowsOf
<1>. QED
  BY <1>1, <1>2, <1>5 DEF Unique, TypeOK

LEMMA ReserveBalanceOK ==
    ASSUME IInv, NEW id \in DOMAIN outbox, NEW b \in Bets, b = outbox[id].bet, ReserveBalance(id)
    PROVE  IInv'
<1>1. /\ id \in queues["wallet-reserve"] /\ FirstTime("wallet-reserve", id)
      /\ Ended("wallet-reserve", id)
      /\ processed' = processed \cup {<<"wallet-reserve", id>>}
      /\ UNCHANGED <<funded, published, sending, notices, dead, arrived>>
  BY InHandQueued, NamesAre DEF ReserveBalance, Commits
<1>2. IF CanPayStake(b)
      THEN /\ balance' = [balance EXCEPT ![Owner[b]] = @ - Stake[b]]
           /\ Announce("reserved", b) /\ status' = status
      ELSE status' = [status EXCEPT ![b] = "REJECTED"] /\ balance' = balance /\ outbox' = outbox
  BY DEF ReserveBalance
<1>3. /\ b \in Bets /\ Owner[b] \in Users
      /\ outbox[id] = Row("placed", b) /\ status[b] = "PENDING_RESERVE"
      /\ \A t \in Types : Has(t, b) <=> t = "placed"
  BY <1>1, FirstDelivery DEF Consumers
<1>4. TypeOK /\ Life(b) /\ Answered(b) /\ outbox \in Seq(Rows)
  BY <1>3 DEF IInv, TypeOK
<1>5. outbox' = outbox \/ Announce("reserved", b)
  BY <1>2
<1>6. \A i \in DOMAIN outbox : i \in DOMAIN outbox' /\ outbox'[i] = outbox[i]
  BY <1>3, <1>4, <1>5, Appended DEF Types
<1>7. /\ queues' \in [Consumers -> SUBSET DOMAIN outbox] /\ Routed' /\ Tracked'
      /\ begun' \in [Consumers -> SUBSET DOMAIN outbox] /\ HeldIsQueued'
  BY <1>1, <1>6, DeliveryEnds DEF Consumers
<1>8. \A t \in Types : Has(t, b)' <=> t = "placed" \/ (t = "reserved" /\ CanPayStake(b))
  BY <1>2, <1>3, <1>4, HasAppended, HasKept DEF Types
<1>9. /\ status'[b] = IF CanPayStake(b) THEN "PENDING_RESERVE" ELSE "REJECTED"
      /\ status' = [status EXCEPT ![b] = status'[b]]
  BY <1>2, <1>3, <1>4 DEF TypeOK
<1>10. Life(b)'
  BY <1>1, <1>8, <1>9 DEF Life, Types, CanPayStake
<1>rows. \A t \in Types, i \in DOMAIN outbox' : outbox'[i] = Row(t, b) =>
          /\ \A k \in Consumers : <<k, i>> \in processed'
                <=> i \in DOMAIN outbox /\ (<<k, i>> \in processed \/ (k = "wallet-reserve" /\ i = id))
          /\ i \in DOMAIN outbox => outbox[i] = Row(t, b) /\ Has(t, b)
          /\ i \notin DOMAIN outbox => t = "reserved"
          /\ i \in DOMAIN outbox /\ outbox[id] = Row(t, b) => i = id
  <2>1. \A i \in DOMAIN outbox' : i \notin DOMAIN outbox => outbox'[i] = Row("reserved", b)
    BY <1>5, <1>4, Appended, NamesAre
  <2>2. \A t \in Types : Row(t, b) = Row("reserved", b) => t = "reserved"
    BY DEF Row
  <2>3. "wallet-reserve" \in Consumers
    BY NamesAre
  <2>. QED
    BY <2>1, <2>2, <2>3, <1>1, <1>6, MarksAfter
<1>11. Answered(b)'
  <2>. SUFFICES ASSUME NEW t \in {"placed", "reserved", "settled"}, NEW i \in DOMAIN outbox',
                       outbox'[i] = Row(t, b)
                PROVE  /\ t = "placed" => <<"wallet-reserve", i>> \in processed'
                       /\ t = "reserved" => <<"bet-accept", i>> \notin processed'
                       /\ t # "settled"
    BY <1>8, <1>9 DEF Answered, Types
  <2>1. /\ \A k \in Consumers : <<k, i>> \in processed'
            <=> i \in DOMAIN outbox /\ (<<k, i>> \in processed \/ (k = "wallet-reserve" /\ i = id))
        /\ i \in DOMAIN outbox => outbox[i] = Row(t, b) /\ Has(t, b)
        /\ i \notin DOMAIN outbox => t = "reserved"
        /\ i \in DOMAIN outbox /\ outbox[id] = Row(t, b) => i = id
    BY <1>rows DEF Types
  <2>. QED
    BY <2>1, <1>3 DEF Types, Consumers
<1>12. balance' \in [Users -> Int]
  BY <1>2, <1>3, <1>4, SagaAmounts DEF TypeOK
<1>13. outbox' = outbox \/ \E t \in Types : AnnouncesNext(t, b)
  BY <1>3, <1>5, StagesAre, NamesAre DEF AnnouncesNext
<1>14. status' \in [Bets -> Statuses] /\ \A d \in Bets \ {b} : status'[d] = status[d]
  BY <1>2, <1>4, NamesAre DEF TypeOK
<1>15. \A p \in processed' \ processed : p \in Consumers \X DOMAIN outbox /\ outbox[p[2]].bet = b
  BY <1>1, NamesAre
<1>. QED
  BY <1>1, <1>7, <1>10, <1>11, <1>12, <1>13, <1>14, <1>15, CommitOK

LEMMA AcceptBetOK ==
    ASSUME IInv, NEW id \in DOMAIN outbox, NEW b \in Bets, b = outbox[id].bet, AcceptBet(id)
    PROVE  IInv'
<1>1. /\ id \in queues["bet-accept"] /\ FirstTime("bet-accept", id)
      /\ Ended("bet-accept", id)
      /\ processed' = processed \cup {<<"bet-accept", id>>}
      /\ UNCHANGED <<funded, balance, published, sending, notices, dead, arrived>>
  BY InHandQueued, NamesAre DEF AcceptBet, Commits
<1>2. /\ b \in Bets /\ Owner[b] \in Users
      /\ outbox[id] = Row("reserved", b) /\ status[b] = "PENDING_RESERVE"
      /\ \A t \in Types : Has(t, b) <=> t \in {"placed", "reserved"}
  BY <1>1, FirstDelivery DEF Consumers
<1>3. status' = [status EXCEPT ![b] = "OPEN"] /\ Announce("accepted", b)
  BY <1>2 DEF AcceptBet
<1>4. TypeOK /\ Life(b) /\ Answered(b) /\ outbox \in Seq(Rows)
  BY <1>2 DEF IInv, TypeOK
<1>5. \A i \in DOMAIN outbox : i \in DOMAIN outbox' /\ outbox'[i] = outbox[i]
  BY <1>2, <1>3, <1>4, Appended DEF Types
<1>6. /\ queues' \in [Consumers -> SUBSET DOMAIN outbox] /\ Routed' /\ Tracked'
      /\ begun' \in [Consumers -> SUBSET DOMAIN outbox] /\ HeldIsQueued'
  BY <1>1, <1>5, DeliveryEnds DEF Consumers
<1>7. \A t \in Types : Has(t, b)' <=> t \in {"placed", "reserved", "accepted"}
  BY <1>2, <1>3, <1>4, HasAppended DEF Types
<1>8. status'[b] = "OPEN"
  BY <1>2, <1>3, <1>4 DEF TypeOK
<1>9. Life(b)'
  BY <1>1, <1>2, <1>4, <1>7, <1>8 DEF Life, Types, CanPayStake
<1>rows. \A t \in Types, i \in DOMAIN outbox' : outbox'[i] = Row(t, b) =>
          /\ \A k \in Consumers : <<k, i>> \in processed'
                <=> i \in DOMAIN outbox /\ (<<k, i>> \in processed \/ (k = "bet-accept" /\ i = id))
          /\ i \in DOMAIN outbox => outbox[i] = Row(t, b) /\ Has(t, b)
          /\ i \notin DOMAIN outbox => t = "accepted"
          /\ i \in DOMAIN outbox /\ outbox[id] = Row(t, b) => i = id
  <2>1. \A i \in DOMAIN outbox' : i \notin DOMAIN outbox => outbox'[i] = Row("accepted", b)
    BY <1>3, <1>4, Appended, NamesAre
  <2>2. \A t \in Types : Row(t, b) = Row("accepted", b) => t = "accepted"
    BY DEF Row
  <2>3. "bet-accept" \in Consumers
    BY NamesAre
  <2>. QED
    BY <2>1, <2>2, <2>3, <1>1, <1>5, MarksAfter
<1>10. Answered(b)'
  <2>. SUFFICES ASSUME NEW t \in {"placed", "reserved", "settled"}, NEW i \in DOMAIN outbox',
                       outbox'[i] = Row(t, b)
                PROVE  /\ t = "placed" => <<"wallet-reserve", i>> \in processed'
                       /\ t = "reserved" => <<"bet-accept", i>> \in processed'
                       /\ t # "settled"
    BY <1>7, <1>8 DEF Answered, Types
  <2>1. /\ \A k \in Consumers : <<k, i>> \in processed'
            <=> i \in DOMAIN outbox /\ (<<k, i>> \in processed \/ (k = "bet-accept" /\ i = id))
        /\ i \in DOMAIN outbox => outbox[i] = Row(t, b) /\ Has(t, b)
        /\ i \notin DOMAIN outbox => t = "accepted"
        /\ i \in DOMAIN outbox /\ outbox[id] = Row(t, b) => i = id
    BY <1>rows DEF Types
  <2>2. t = "placed" => <<"wallet-reserve", i>> \in processed
    BY <2>1, <1>2, <1>4 DEF Answered, Types
  <2>. QED
    BY <2>1, <2>2, <1>2 DEF Types, Consumers
<1>11. AnnouncesNext("accepted", b) /\ "accepted" \in Types
  BY <1>2, <1>3, StagesAre, NamesAre DEF AnnouncesNext
<1>12. status' \in [Bets -> Statuses] /\ \A d \in Bets \ {b} : status'[d] = status[d]
  BY <1>3, <1>4, NamesAre DEF TypeOK
<1>13. \A p \in processed' \ processed : p \in Consumers \X DOMAIN outbox /\ outbox[p[2]].bet = b
  BY <1>1, NamesAre
<1>14. balance' \in [Users -> Int]
  BY <1>1, <1>4 DEF TypeOK
<1>. QED
  BY <1>1, <1>6, <1>9, <1>10, <1>11, <1>12, <1>13, <1>14, CommitOK

LEMMA SettleBalanceOK ==
    ASSUME IInv, NEW id \in DOMAIN outbox, NEW b \in Bets, b = outbox[id].bet, SettleBalance(id)
    PROVE  IInv'
<1>1. /\ id \in queues["wallet-settled"] /\ FirstTime("wallet-settled", id)
      /\ Ended("wallet-settled", id)
      /\ processed' = processed \cup {<<"wallet-settled", id>>}
      /\ UNCHANGED <<funded, status, published, sending, notices, dead, arrived>>
  BY InHandQueued, NamesAre DEF SettleBalance, Commits
<1>2. IF b \in Lost
      THEN balance' = balance /\ outbox' = outbox
      ELSE balance' = [balance EXCEPT ![Owner[b]] = @ + Payout[b]] /\ Announce("credited", b)
  BY DEF SettleBalance
<1>3. /\ b \in Bets /\ Owner[b] \in Users
      /\ outbox[id] = Row("settled", b) /\ status[b] = "SETTLED"
      /\ b \notin Lost => ~Has("credited", b)
      /\ \A t \in Types \ {"credited"} : Has(t, b)
  BY <1>1, FirstDelivery DEF Consumers
<1>4. TypeOK /\ Life(b) /\ Answered(b) /\ outbox \in Seq(Rows)
  BY <1>3 DEF IInv, TypeOK
<1>5. outbox' = outbox \/ Announce("credited", b)
  BY <1>2
<1>6. \A i \in DOMAIN outbox : i \in DOMAIN outbox' /\ outbox'[i] = outbox[i]
  BY <1>3, <1>4, <1>5, Appended DEF Types
<1>7. /\ queues' \in [Consumers -> SUBSET DOMAIN outbox] /\ Routed' /\ Tracked'
      /\ begun' \in [Consumers -> SUBSET DOMAIN outbox] /\ HeldIsQueued'
  BY <1>1, <1>6, DeliveryEnds DEF Consumers
<1>8. \A t \in Types : Has(t, b)' <=> t # "credited" \/ b \notin Lost
  BY <1>2, <1>3, <1>4, HasAppended, HasKept DEF Types, Life
<1>9. status'[b] = "SETTLED" /\ status' = [status EXCEPT ![b] = "SETTLED"]
  BY <1>1, <1>3, <1>4 DEF TypeOK
<1>10. Life(b)'
  BY <1>1, <1>3, <1>4, <1>8, <1>9 DEF Life, Types, CanPayStake
<1>rows. \A t \in Types, i \in DOMAIN outbox' : outbox'[i] = Row(t, b) =>
          /\ \A k \in Consumers : <<k, i>> \in processed'
                <=> i \in DOMAIN outbox /\ (<<k, i>> \in processed \/ (k = "wallet-settled" /\ i = id))
          /\ i \in DOMAIN outbox => outbox[i] = Row(t, b) /\ Has(t, b)
          /\ i \notin DOMAIN outbox => t = "credited"
          /\ i \in DOMAIN outbox /\ outbox[id] = Row(t, b) => i = id
  <2>1. \A i \in DOMAIN outbox' : i \notin DOMAIN outbox => outbox'[i] = Row("credited", b)
    BY <1>5, <1>4, Appended, NamesAre
  <2>2. \A t \in Types : Row(t, b) = Row("credited", b) => t = "credited"
    BY DEF Row
  <2>3. "wallet-settled" \in Consumers
    BY NamesAre
  <2>. QED
    BY <2>1, <2>2, <2>3, <1>1, <1>6, MarksAfter
<1>11. Answered(b)'
  <2>. SUFFICES ASSUME NEW t \in {"placed", "reserved", "settled"}, NEW i \in DOMAIN outbox',
                       outbox'[i] = Row(t, b)
                PROVE  /\ t = "placed" => <<"wallet-reserve", i>> \in processed'
                       /\ t = "reserved" => <<"bet-accept", i>> \in processed'
                       /\ t = "settled" => <<"wallet-settled", i>> \in processed'
    BY <1>8, <1>9 DEF Answered, Types
  <2>1. /\ \A k \in Consumers : <<k, i>> \in processed'
            <=> i \in DOMAIN outbox /\ (<<k, i>> \in processed \/ (k = "wallet-settled" /\ i = id))
        /\ i \in DOMAIN outbox => outbox[i] = Row(t, b) /\ Has(t, b)
        /\ i \notin DOMAIN outbox => t = "credited"
        /\ i \in DOMAIN outbox /\ outbox[id] = Row(t, b) => i = id
    BY <1>rows DEF Types
  <2>2. /\ t = "placed" => <<"wallet-reserve", i>> \in processed
        /\ t = "reserved" => <<"bet-accept", i>> \in processed
    BY <2>1, <1>3, <1>4 DEF Answered, Types
  <2>. QED
    BY <2>1, <2>2, <1>3 DEF Types, Consumers
<1>12. balance' \in [Users -> Int]
  BY <1>2, <1>3, <1>4, SagaAmounts DEF TypeOK
<1>13. b \notin Lost => \A t \in Types : Has(t, b) => Stage[t] < Stage["credited"]
  BY <1>3, StagesAre DEF Types
<1>14. outbox' = outbox \/ \E t \in Types : AnnouncesNext(t, b)
  BY <1>2, <1>13, NamesAre DEF AnnouncesNext
<1>15. status' \in [Bets -> Statuses] /\ \A d \in Bets \ {b} : status'[d] = status[d]
  BY <1>1, <1>4 DEF TypeOK
<1>16. \A p \in processed' \ processed : p \in Consumers \X DOMAIN outbox /\ outbox[p[2]].bet = b
  BY <1>1, NamesAre
<1>. QED
  BY <1>1, <1>7, <1>10, <1>11, <1>12, <1>14, <1>15, <1>16, CommitOK

\* An event nobody has handled is not refused by its handler.
LEMMA NewIsNotRefused ==
    ASSUME IInv, NEW c \in Consumers, NEW id, FirstTime(c, id)
    PROVE  /\ id \in InHand(c) /\ c = "bet-accept" => ~AcceptRefused(id)
           /\ id \in InHand(c) /\ c = "wallet-settled" => ~CreditRefused(id)
           /\ ~Refused(c, id)
<1>1. ASSUME id \in InHand(c), c = "bet-accept" PROVE ~AcceptRefused(id)
  <2>1. status[outbox[id].bet] = "PENDING_RESERVE"
    BY <1>1, InHandQueued, FirstDelivery
  <2>. QED
    BY <2>1 DEF AcceptRefused
<1>2. ASSUME id \in InHand(c), c = "wallet-settled" PROVE ~CreditRefused(id)
  <2>1. Owner[outbox[id].bet] \in funded
    BY <1>2, InHandQueued, FirstDelivery
  <2>. QED
    BY <2>1 DEF CreditRefused
<1>. QED
  BY <1>1, <1>2 DEF Refused

LEMMA DeadLetterOK ==
    ASSUME IInv, NEW c \in Consumers, NEW id \in DOMAIN outbox, DeadLetter(c, id)
    PROVE  IInv'
<1>1. /\ id \in queues[c] /\ dead' = dead \cup {<<c, id>>} /\ Ended(c, id)
      /\ c \in Failing \/ Refused(c, id)
      /\ UNCHANGED <<funded, status, balance, outbox, published, sending, processed,
                     notices, arrived>>
  BY DEF DeadLetter
<1>2. TypeOK /\ OnlyRepeatsDead /\ Told
  BY DEF IInv
<1>3. /\ queues' \in [Consumers -> SUBSET DOMAIN outbox] /\ Routed' /\ Tracked'
      /\ begun' \in [Consumers -> SUBSET DOMAIN outbox] /\ HeldIsQueued'
  BY <1>1, DeliveryEnds
<1>4. TypeOK'
  BY <1>1, <1>2, <1>3 DEF TypeOK, Unpublished, HeldIsQueued
<1>5. OnlyRepeatsDead'
  <2>1. c \in Failing \/ <<c, id>> \in processed
    BY <1>1, NewIsNotRefused DEF FirstTime
  <2>. QED
    BY <2>1, <1>1, <1>2 DEF OnlyRepeatsDead
<1>. QED
  BY <1>1, <1>2, <1>3, <1>4, <1>5, QuietStep, QuietNotices

LEMMA EvaluateRiskOK ==
    ASSUME IInv, NEW id \in DOMAIN outbox, NEW b \in Bets, b = outbox[id].bet, EvaluateRisk(id)
    PROVE  IInv'
<1>1. /\ id \in queues["risk-bet-placed"] /\ FirstTime("risk-bet-placed", id)
      /\ Ended("risk-bet-placed", id)
      /\ processed' = processed \cup {<<"risk-bet-placed", id>>}
      /\ UNCHANGED <<funded, status, balance, outbox, published, sending, notices, dead, arrived>>
  BY InHandQueued, NamesAre DEF EvaluateRisk, Commits
<1>2. id \in DOMAIN outbox
  BY <1>1, FirstDelivery DEF Consumers
<1>3. TypeOK /\ Life(b) /\ Answered(b) /\ outbox \in Seq(Rows)
  BY <1>2 DEF IInv, TypeOK
<1>4. /\ queues' \in [Consumers -> SUBSET DOMAIN outbox] /\ Routed' /\ Tracked'
      /\ begun' \in [Consumers -> SUBSET DOMAIN outbox] /\ HeldIsQueued'
  BY <1>1, DeliveryEnds DEF Consumers
<1>5. \A t : Has(t, b)' <=> Has(t, b)
  BY <1>1, HasKept
<1>6. Life(b)'
  BY <1>1, <1>3, <1>5 DEF Life, CanPayStake
<1>7. Answered(b)'
  BY <1>1, <1>3, <1>5 DEF Answered
<1>8. /\ status' \in [Bets -> Statuses] /\ \A d \in Bets \ {b} : status'[d] = status[d]
      /\ balance' \in [Users -> Int]
  BY <1>1, <1>3 DEF TypeOK
<1>9. \A p \in processed' \ processed : p \in Consumers \X DOMAIN outbox /\ outbox[p[2]].bet = b
  BY <1>1, NamesAre
<1>. QED
  BY <1>1, <1>4, <1>6, <1>7, <1>8, <1>9, CommitOK

LEMMA NextOK == IInv /\ [Next]_vars => IInv'
<1>. SUFFICES ASSUME IInv, [Next]_vars PROVE IInv'
  OBVIOUS
<1>1. ASSUME NEW b \in Bets, PlaceBet(b) PROVE IInv'
  BY <1>1, PlaceBetOK
<1>2. ASSUME NEW b \in Bets, NEW u \in Users, Settle(b, u) PROVE IInv'
  BY <1>2, SettleOK
<1>3. ASSUME NEW id \in DOMAIN outbox, RelaySend(id) PROVE IInv'
  BY <1>3, RelaySendOK
<1>4. CASE RelayMark \/ RelayFail
  BY <1>4, RelayEndOK
<1>5. ASSUME NEW c \in Consumers, NEW id \in DOMAIN outbox, Handle(c, id) PROVE IInv'
  <2>1. PICK b \in Bets : b = outbox[id].bet
    BY RowsOf DEF IInv, TypeOK
  <2>0. CASE Begin(c, id)
    BY <2>0, HandOK
  <2>2. CASE Again(c, id)
    BY <2>2, AgainOK
  <2>3. CASE ReserveBalance(id)
    BY <2>1, <2>3, ReserveBalanceOK
  <2>4. CASE AcceptBet(id)
    BY <2>1, <2>4, AcceptBetOK
  <2>5. CASE SettleBalance(id)
    BY <2>1, <2>5, SettleBalanceOK
  <2>6. CASE EvaluateRisk(id)
    BY <2>1, <2>6, EvaluateRiskOK
  <2>7. CASE Notify(id)
    BY <2>7, NotifyOK
  <2>8. CASE DeadLetter(c, id)
    BY <2>8, DeadLetterOK
  <2>. QED
    BY <1>5, <2>0, <2>2, <2>3, <2>4, <2>5, <2>6, <2>7, <2>8 DEF Handle
<1>7. ASSUME NEW c \in Consumers, NEW id \in DOMAIN outbox, WorkerDies(c, id) PROVE IInv'
  BY <1>7, HandOK
<1>6. CASE UNCHANGED vars
  <2>1. /\ UNCHANGED <<funded, status, outbox, processed, notices>>
        /\ UNCHANGED <<balance, published, sending, queues, begun, dead, arrived>>
    BY <1>6 DEF vars
  <2>2. TypeOK /\ Routed /\ Tracked /\ OnlyRepeatsDead /\ Told
    BY DEF IInv
  <2>3. TypeOK' /\ Routed' /\ Tracked' /\ OnlyRepeatsDead'
    BY <2>1, <2>2 DEF TypeOK, Unpublished, Routed, Tracked, OnlyRepeatsDead
  <2>. QED
    BY <2>1, <2>2, <2>3, QuietStep, QuietNotices
<1>. QED
  BY <1>1, <1>2, <1>3, <1>4, <1>5, <1>6, <1>7 DEF Next

\* The saga keeps its inductive invariant.
THEOREM Invariance == Spec => []IInv
BY InitOK, NextOK, PTL DEF Spec

\* Every variable keeps its type, and the relay holds only a row that is not marked as
\* published: a marked row is never chosen again.
THEOREM TypeCorrect == Spec => []TypeOK
<1>1. IInv => TypeOK
  BY DEF IInv
<1>. QED
  BY <1>1, Invariance, PTL

\* However rows are resent, redelivered, lost and dead-lettered, a bet announces each
\* stage of its life at most once and in order: no effect precedes its cause.
THEOREM StagesInOrder == Spec => []SagaOrder
<1>1. IInv => SagaOrder
  BY DEF IInv
<1>. QED
  BY <1>1, Invariance, PTL

-----------------------------------------------------------------------------

LEMMA StatusOK == IInv => StatusMatchesEvents
<1>. SUFFICES ASSUME IInv, NEW b \in Bets
              PROVE  /\ status[b] \in {"OPEN", "SETTLED"} <=> Has("accepted", b)
                     /\ status[b] \in {"OPEN", "SETTLED"} => Has("reserved", b)
                     /\ status[b] \in {"none", "REJECTED"} => ~Has("reserved", b)
                     /\ status[b] = "SETTLED" <=> Has("settled", b)
                     /\ Has("credited", b) => status[b] = "SETTLED"
                     /\ notices[Row("accepted", b)] > 0 => status[b] \in {"OPEN", "SETTLED"}
                     /\ notices[Row("settled", b)] > 0 => status[b] = "SETTLED"
  BY DEF StatusMatchesEvents, Row
<1>1. Life(b)
  BY DEF IInv
<1>2. \A t \in Types : notices[Row(t, b)] > 0 => Has(t, b)
  BY DEF IInv, Told
<1>. QED
  BY <1>1, <1>2, NamesAre DEF Life

\* A bet's status, its events and what its customer was told agree: an open or settled
\* bet has its stake taken and its acceptance announced, a rejected bet has neither, and
\* no notice goes out of what is not in the database.
THEOREM StatusIsTrue == Spec => []StatusMatchesEvents
BY StatusOK, Invariance, PTL

\* A queued settlement is of a bet whose stake was taken, from a wallet that exists.
LEMMA SettledIsFunded ==
    ASSUME IInv, NEW id \in queues["wallet-settled"]
    PROVE  Owner[outbox[id].bet] \in funded
<1>1. TypeOK /\ Routed /\ outbox \in Seq(Rows) /\ id \in DOMAIN outbox
  BY NamesAre DEF IInv, TypeOK
<1>2. outbox[id].type = "settled"
  BY <1>1, RowsOf, RoutesAre, NamesAre DEF Routed
<1>3. outbox[id].bet \in Bets /\ Has("settled", outbox[id].bet)
  BY <1>1, <1>2, RowsOf
<1>4. Life(outbox[id].bet)
  BY <1>3 DEF IInv
<1>. QED
  BY <1>3, <1>4 DEF Life, CanPayStake

LEMMA RefusalsOK == IInv => OnlyRepeatsRefused
<1>. SUFFICES ASSUME IInv PROVE OnlyRepeatsRefused
  OBVIOUS
<1>1. ASSUME NEW id \in InHand("bet-accept"), AcceptRefused(id) PROVE ~FirstTime("bet-accept", id)
  BY <1>1, NewIsNotRefused, NamesAre
<1>2. ASSUME NEW id \in InHand("wallet-settled") PROVE ~CreditRefused(id)
  <2>1. id \in queues["wallet-settled"]
    BY InHandQueued, NamesAre
  <2>. QED
    BY <2>1, SettledIsFunded DEF CreditRefused
<1>3. \A d \in dead : d[1] \in Failing \/ d \in processed
  BY DEF IInv, OnlyRepeatsDead
<1>. QED
  BY <1>1, <1>2, <1>3 DEF OnlyRepeatsRefused

\* Whatever the replicas of a consumer hold, read and commit in between, the errors of the
\* handlers themselves ("unexpected status", "bet not found", "no wallet for user", a
\* duplicate mark) meet repeats only: an event nobody has handled is accepted, and what a
\* consumer that does not fail dead-letters was handled through another delivery.
THEOREM RefusalsAreRepeats == Spec => []OnlyRepeatsRefused
BY RefusalsOK, Invariance, PTL

\* A row not handled by the consumer it is for is unpublished, queued, lost or
\* dead-lettered: the bet can still move on.
LEMMA RowCanMoveOn ==
    ASSUME IInv, NEW id \in DOMAIN outbox, NEW b \in Bets, outbox[id].bet = b,
           NEW c \in Consumers \ {"notify"}, c \in Routes[outbox[id].type],
           <<c, id>> \notin processed
    PROVE  CanMoveOn(b, c)
<1>1. TypeOK /\ Tracked
  BY DEF IInv
<1>2. id \in published /\ id \in arrived => id \in queues[c] \/ <<c, id>> \in dead
  BY <1>1 DEF Tracked
<1>3. id \in Unpublished \cup queues[c] \cup Vanished \/ <<c, id>> \in dead
  BY <1>2 DEF Unpublished, Vanished
<1>. QED
  BY <1>3 DEF CanMoveOn, FirstTime

LEMMA HasRow ==
    ASSUME IInv, NEW t \in Types, NEW b \in Bets, Has(t, b)
    PROVE  \E id \in DOMAIN outbox : outbox[id] = Row(t, b) /\ outbox[id].bet = b
                                     /\ outbox[id].type = t
BY DEF Has, Row

LEMMA LimboOK == IInv => NoLimbo
<1>. SUFFICES ASSUME IInv, NEW b \in Bets
              PROVE  /\ status[b] = "PENDING_RESERVE" =>
                            CanMoveOn(b, "wallet-reserve") \/ CanMoveOn(b, "bet-accept")
                     /\ status[b] = "SETTLED" /\ b \notin Lost /\ ~Has("credited", b) =>
                            CanMoveOn(b, "wallet-settled")
  BY DEF NoLimbo
<1>1. Life(b) /\ Answered(b)
  BY DEF IInv
<1>2. ASSUME status[b] = "PENDING_RESERVE", ~Has("reserved", b) PROVE CanMoveOn(b, "wallet-reserve")
  <2>1. Has("placed", b)
    BY <1>1, <1>2 DEF Life
  <2>2. PICK id \in DOMAIN outbox : outbox[id] = Row("placed", b) /\ outbox[id].bet = b
                                    /\ outbox[id].type = "placed"
    BY <2>1, HasRow, NamesAre
  <2>3. <<"wallet-reserve", id>> \notin processed
    BY <2>2, <1>1, <1>2 DEF Answered
  <2>4. "wallet-reserve" \in Routes["placed"] /\ "wallet-reserve" \in Consumers \ {"notify"}
    BY RoutesAre, NamesAre
  <2>. QED
    BY <2>2, <2>3, <2>4, RowCanMoveOn
<1>3. ASSUME status[b] = "PENDING_RESERVE", Has("reserved", b) PROVE CanMoveOn(b, "bet-accept")
  <2>1. ~Has("accepted", b)
    BY <1>1, <1>3 DEF Life
  <2>2. PICK id \in DOMAIN outbox : outbox[id] = Row("reserved", b) /\ outbox[id].bet = b
                                    /\ outbox[id].type = "reserved"
    BY <1>3, HasRow, NamesAre
  <2>3. <<"bet-accept", id>> \notin processed
    BY <2>1, <2>2, <1>1 DEF Answered
  <2>4. "bet-accept" \in Routes["reserved"] /\ "bet-accept" \in Consumers \ {"notify"}
    BY RoutesAre, NamesAre
  <2>. QED
    BY <2>2, <2>3, <2>4, RowCanMoveOn
<1>4. ASSUME status[b] = "SETTLED", b \notin Lost, ~Has("credited", b)
      PROVE  CanMoveOn(b, "wallet-settled")
  <2>1. Has("settled", b)
    BY <1>1, <1>4 DEF Life
  <2>2. PICK id \in DOMAIN outbox : outbox[id] = Row("settled", b) /\ outbox[id].bet = b
                                    /\ outbox[id].type = "settled"
    BY <2>1, HasRow, NamesAre
  <2>3. <<"wallet-settled", id>> \notin processed
    BY <2>2, <1>1, <1>4 DEF Answered
  <2>4. "wallet-settled" \in Routes["settled"] /\ "wallet-settled" \in Consumers \ {"notify"}
    BY RoutesAre, NamesAre
  <2>. QED
    BY <2>2, <2>3, <2>4, RowCanMoveOn
<1>. QED
  BY <1>2, <1>3, <1>4

\* No bet is forgotten: one that waits for its reservation, its acceptance or its payout
\* has a row that is unpublished, queued, dead-lettered or lost by the broker.
THEOREM NobodyInLimbo == Spec => []NoLimbo
BY LimboOK, Invariance, PTL

-----------------------------------------------------------------------------
(* The saga implements the wallet's ledger: a handled BetPlaced debits or  *)
(* rejects, a handled BetSettled pays or closes, the rest stutters.        *)

\* A row of b that wallet-settled has handled.
SettlementHandled(b) ==
    \E p \in processed : p[1] = "wallet-settled" /\ outbox[p[2]].bet = b

FatesTold ==
    /\ StakeFate = [b \in Bets |-> StakeFate[b]]
    /\ PayoutFate = [b \in Bets |-> PayoutFate[b]]
    /\ \A b \in Bets :
        /\ StakeFate[b] = IF Has("reserved", b) THEN "debited"
                          ELSE IF status[b] = "REJECTED" THEN "rejected" ELSE "none"
        /\ PayoutFate[b] = IF Has("credited", b) THEN "paid"
                           ELSE IF SettlementHandled(b) THEN "closed" ELSE "none"

LEMMA FatesAre == FatesTold /\ FatesTold'
BY DEF FatesTold, StakeFate, PayoutFate, SettlementHandled

LEMMA LedgerInitially == Init => Ledger!LedgerInit
<1>. SUFFICES ASSUME Init PROVE Ledger!LedgerInit
  OBVIOUS
<1>1. \A t \in Types, b \in Bets : ~Has(t, b)
  BY DEF Init, Has
<1>2. \A b \in Bets : status[b] # "REJECTED" /\ ~SettlementHandled(b)
  BY DEF Init, SettlementHandled
<1>3. \A b \in Bets : StakeFate[b] = "none" /\ PayoutFate[b] = "none"
  BY <1>1, <1>2, FatesAre, NamesAre DEF FatesTold
<1>4. StakeFate = [b \in Bets |-> "none"] /\ PayoutFate = [b \in Bets |-> "none"]
  BY <1>3, FatesAre DEF FatesTold
<1>. QED
  BY <1>4 DEF Init, Ledger!LedgerInit

\* The bets whose settlement was handled, when rows of one bet are announced and marked.
LEMMA HandledAfter ==
    ASSUME IInv, NEW c \in Consumers, NEW id \in DOMAIN outbox,
           processed' = processed \cup {<<c, id>>},
           \A i \in DOMAIN outbox : outbox'[i] = outbox[i]
    PROVE  \A d \in Bets : SettlementHandled(d)' <=>
               SettlementHandled(d) \/ (c = "wallet-settled" /\ outbox[id].bet = d)
<1>1. \A p \in processed : p[2] \in DOMAIN outbox
  BY DEF IInv, TypeOK
<1>2. \A p \in processed' : p \in processed \/ (p[1] = c /\ p[2] = id)
  OBVIOUS
<1>3. \A p \in processed : p \in processed' /\ outbox'[p[2]] = outbox[p[2]]
  BY <1>1
<1>4. <<c, id>> \in processed' /\ <<c, id>>[1] = c /\ <<c, id>>[2] = id
  OBVIOUS
<1>. QED
  BY <1>2, <1>3, <1>4 DEF SettlementHandled

LEMMA HandledKept ==
    ASSUME IInv, processed' = processed, \A i \in DOMAIN outbox : outbox'[i] = outbox[i]
    PROVE  \A d \in Bets : SettlementHandled(d)' <=> SettlementHandled(d)
<1>1. \A p \in processed : p[2] \in DOMAIN outbox
  BY DEF IInv, TypeOK
<1>. QED
  BY <1>1 DEF SettlementHandled

\* What does not decide a bet's stake or payout leaves the ledger alone.
LEMMA LedgerUnmoved ==
    ASSUME \A b \in Bets : /\ Has("reserved", b)' <=> Has("reserved", b)
                           /\ Has("credited", b)' <=> Has("credited", b)
                           /\ status'[b] = "REJECTED" <=> status[b] = "REJECTED"
                           /\ SettlementHandled(b)' <=> SettlementHandled(b),
           UNCHANGED <<funded, balance>>
    PROVE  UNCHANGED Ledger!lvars
<1>1. \A b \in Bets : StakeFate'[b] = StakeFate[b] /\ PayoutFate'[b] = PayoutFate[b]
  BY FatesAre DEF FatesTold
<1>2. StakeFate' = StakeFate /\ PayoutFate' = PayoutFate
  BY <1>1, FatesAre DEF FatesTold
<1>. QED
  BY <1>2 DEF Ledger!lvars

LEMMA ReserveMoves ==
    ASSUME IInv, NEW id \in DOMAIN outbox, NEW b \in Bets, b = outbox[id].bet, ReserveBalance(id)
    PROVE  Ledger!Debit(b) \/ Ledger!Reject(b)
<1>1. /\ id \in queues["wallet-reserve"] /\ FirstTime("wallet-reserve", id)
      /\ processed' = processed \cup {<<"wallet-reserve", id>>} /\ funded' = funded
  BY InHandQueued, NamesAre DEF ReserveBalance, Commits
<1>2. IF CanPayStake(b)
      THEN /\ balance' = [balance EXCEPT ![Owner[b]] = @ - Stake[b]]
           /\ Announce("reserved", b) /\ status' = status
      ELSE status' = [status EXCEPT ![b] = "REJECTED"] /\ balance' = balance /\ outbox' = outbox
  BY DEF ReserveBalance
<1>3. TypeOK /\ outbox \in Seq(Rows) /\ status[b] = "PENDING_RESERVE"
      /\ \A t \in Types : Has(t, b) <=> t = "placed"
  BY <1>1, FirstDelivery, NamesAre DEF IInv, TypeOK
<1>4. \A i \in DOMAIN outbox : outbox'[i] = outbox[i]
  BY <1>2, <1>3, Appended, NamesAre
<1>5. \A d \in Bets : SettlementHandled(d)' <=> SettlementHandled(d)
  BY <1>1, <1>4, HandledAfter, NamesAre
<1>6. \A d \in Bets : /\ Has("reserved", d)' <=> Has("reserved", d) \/ (d = b /\ CanPayStake(b))
                      /\ Has("credited", d)' <=> Has("credited", d)
  BY <1>2, <1>3, HasAppended, HasKept, NamesAre
<1>7. \A d \in Bets : status'[d] = IF d = b /\ ~CanPayStake(b) THEN "REJECTED" ELSE status[d]
  BY <1>2, <1>3 DEF TypeOK
<1>8. StakeFate[b] = "none"
  BY <1>3, FatesAre, NamesAre DEF FatesTold
<1>9. PayoutFate' = PayoutFate
  <2>1. \A d \in Bets : PayoutFate'[d] = PayoutFate[d]
    BY <1>5, <1>6, FatesAre DEF FatesTold
  <2>. QED
    BY <2>1, FatesAre DEF FatesTold
<1>10. StakeFate' = [StakeFate EXCEPT ![b] = IF CanPayStake(b) THEN "debited" ELSE "rejected"]
  <2>1. \A d \in Bets : StakeFate'[d] = IF d = b THEN IF CanPayStake(b) THEN "debited" ELSE "rejected"
                                                ELSE StakeFate[d]
    BY <1>3, <1>6, <1>7, FatesAre, NamesAre DEF FatesTold
  <2>. QED
    BY <2>1, FatesAre DEF FatesTold
<1>. QED
  BY <1>1, <1>2, <1>8, <1>9, <1>10 DEF CanPayStake, Ledger!Debit, Ledger!Reject

LEMMA SettlementMoves ==
    ASSUME IInv, NEW id \in DOMAIN outbox, NEW b \in Bets, b = outbox[id].bet, SettleBalance(id)
    PROVE  Ledger!Pay(b) \/ Ledger!Close(b)
<1>1. /\ id \in queues["wallet-settled"] /\ FirstTime("wallet-settled", id)
      /\ processed' = processed \cup {<<"wallet-settled", id>>} /\ UNCHANGED <<funded, status>>
  BY InHandQueued, NamesAre DEF SettleBalance, Commits
<1>2. IF b \in Lost
      THEN balance' = balance /\ outbox' = outbox
      ELSE balance' = [balance EXCEPT ![Owner[b]] = @ + Payout[b]] /\ Announce("credited", b)
  BY DEF SettleBalance
<1>0. TypeOK /\ Routed /\ Unique /\ Life(b) /\ outbox \in Seq(Rows)
  BY DEF IInv, TypeOK
<1>3. outbox[id] = Row("settled", b) /\ (b \notin Lost => ~Has("credited", b)) /\ Has("reserved", b)
  BY <1>1, FirstDelivery, NamesAre
<1>4. \A i \in DOMAIN outbox : outbox'[i] = outbox[i]
  BY <1>0, <1>2, Appended, NamesAre
<1>5. ~SettlementHandled(b)
  <2>. SUFFICES ASSUME NEW p \in processed, p[1] = "wallet-settled", outbox[p[2]].bet = b PROVE FALSE
    BY DEF SettlementHandled
  <2>1. p[2] \in DOMAIN outbox /\ p = <<"wallet-settled", p[2]>>
    BY <1>0 DEF TypeOK
  <2>2. outbox[p[2]].type \in Types /\ outbox[p[2]] = Row(outbox[p[2]].type, b)
    BY <2>1, <1>0, RowsOf
  <2>3. "wallet-settled" \in Routes[outbox[p[2]].type]
    BY <2>1, <1>0, NamesAre DEF Routed
  <2>4. outbox[p[2]] = outbox[id]
    BY <2>2, <2>3, <1>3, RoutesAre
  <2>. QED
    BY <2>1, <2>4, <1>0, <1>1 DEF Unique, FirstTime
<1>6. \A d \in Bets : SettlementHandled(d)' <=> SettlementHandled(d) \/ d = b
  BY <1>1, <1>4, HandledAfter, NamesAre
<1>7. \A d \in Bets : /\ Has("reserved", d)' <=> Has("reserved", d)
                      /\ Has("credited", d)' <=> Has("credited", d) \/ (d = b /\ b \notin Lost)
  BY <1>0, <1>2, HasAppended, HasKept, NamesAre
<1>8. ~Has("credited", b)
  BY <1>0, <1>3 DEF Life
<1>9. StakeFate[b] = "debited" /\ PayoutFate[b] = "none"
  BY <1>3, <1>5, <1>8, FatesAre DEF FatesTold
<1>10. StakeFate' = StakeFate
  <2>1. \A d \in Bets : StakeFate'[d] = StakeFate[d]
    BY <1>1, <1>7, FatesAre DEF FatesTold
  <2>. QED
    BY <2>1, FatesAre DEF FatesTold
<1>11. PayoutFate' = [PayoutFate EXCEPT ![b] = IF b \in Lost THEN "closed" ELSE "paid"]
  <2>1. \A d \in Bets : PayoutFate'[d] = IF d = b THEN IF b \in Lost THEN "closed" ELSE "paid"
                                                 ELSE PayoutFate[d]
    BY <1>6, <1>7, <1>8, FatesAre DEF FatesTold
  <2>. QED
    BY <2>1, FatesAre DEF FatesTold
<1>. QED
  BY <1>1, <1>2, <1>9, <1>10, <1>11 DEF Ledger!Pay, Ledger!Close

\* The transactions that move no money.
LEMMA StatusOnly ==
    ASSUME IInv, NEW b \in Bets, UNCHANGED <<funded, balance>>,
           outbox' = outbox \/ \E t \in Types \ {"reserved", "credited"} : Announce(t, b),
           \A d \in Bets : status'[d] = "REJECTED" <=> status[d] = "REJECTED",
           processed' = processed \/ \E c \in Consumers \ {"wallet-settled"}, id \in DOMAIN outbox :
                                         processed' = processed \cup {<<c, id>>}
    PROVE  UNCHANGED Ledger!lvars
<1>1. outbox \in Seq(Rows)
  BY DEF IInv, TypeOK
<1>2. \A i \in DOMAIN outbox : outbox'[i] = outbox[i]
  BY <1>1, Appended
<1>3. \A d \in Bets : /\ Has("reserved", d)' <=> Has("reserved", d)
                      /\ Has("credited", d)' <=> Has("credited", d)
  BY <1>1, HasAppended, HasKept, NamesAre
<1>4. \A d \in Bets : SettlementHandled(d)' <=> SettlementHandled(d)
  BY <1>2, HandledKept, HandledAfter
<1>. QED
  BY <1>3, <1>4, LedgerUnmoved

LEMMA LedgerStep == IInv /\ [Next]_vars => [Ledger!LedgerNext]_(Ledger!lvars)
<1>. SUFFICES ASSUME IInv, [Next]_vars PROVE [Ledger!LedgerNext]_(Ledger!lvars)
  OBVIOUS
<1>0. TypeOK
  BY DEF IInv
<1>1. ASSUME NEW b \in Bets, PlaceBet(b) PROVE UNCHANGED Ledger!lvars
  <2>1. Announce("placed", b) /\ UNCHANGED <<funded, balance, processed>>
    BY <1>1 DEF PlaceBet
  <2>2. \A d \in Bets : status'[d] = "REJECTED" <=> status[d] = "REJECTED"
    BY <1>0, <1>1 DEF PlaceBet, TypeOK
  <2>. QED
    BY <2>1, <2>2, StatusOnly, NamesAre
<1>2. ASSUME NEW b \in Bets, NEW u \in Users, Settle(b, u) PROVE UNCHANGED Ledger!lvars
  <2>1. Announce("settled", b) /\ UNCHANGED <<funded, balance, processed>>
    BY <1>2 DEF Settle
  <2>2. \A d \in Bets : status'[d] = "REJECTED" <=> status[d] = "REJECTED"
    BY <1>0, <1>2 DEF Settle, TypeOK
  <2>. QED
    BY <2>1, <2>2, StatusOnly, NamesAre
<1>3. ASSUME UNCHANGED <<funded, balance, status, outbox, processed>>
      PROVE  UNCHANGED Ledger!lvars
  <2>1. \A d \in Bets : SettlementHandled(d)' <=> SettlementHandled(d)
    BY <1>3, HandledKept
  <2>. QED
    BY <1>3, <2>1, HasKept, LedgerUnmoved
<1>4. ASSUME NEW id \in DOMAIN outbox, RelaySend(id) PROVE UNCHANGED Ledger!lvars
  BY <1>3, <1>4 DEF RelaySend
<1>5. CASE RelayMark \/ RelayFail
  BY <1>3, <1>5 DEF RelayMark, RelayFail
<1>6. ASSUME NEW c \in Consumers, NEW id \in DOMAIN outbox, Handle(c, id)
      PROVE  [Ledger!LedgerNext]_(Ledger!lvars)
  <2>1. PICK b \in Bets : b = outbox[id].bet
    BY <1>0, RowsOf DEF TypeOK
  <2>2. CASE Begin(c, id) \/ Again(c, id) \/ DeadLetter(c, id) \/ Notify(id)
    BY <2>2, <1>3 DEF Begin, Again, DeadLetter, Notify
  <2>3. CASE ReserveBalance(id)
    BY <2>1, <2>3, ReserveMoves DEF Ledger!LedgerNext
  <2>4. CASE SettleBalance(id)
    BY <2>1, <2>4, SettlementMoves DEF Ledger!LedgerNext
  <2>5. CASE AcceptBet(id)
    <3>1. /\ UNCHANGED <<funded, balance>> /\ (outbox' = outbox \/ Announce("accepted", b))
          /\ processed' = processed \cup {<<"bet-accept", id>>}
      BY <2>1, <2>5 DEF AcceptBet, Commits
    <3>2. \A d \in Bets : status'[d] = "REJECTED" <=> status[d] = "REJECTED"
      BY <2>1, <2>5, <1>0 DEF AcceptBet, TypeOK
    <3>. QED
      BY <3>1, <3>2, StatusOnly, NamesAre
  <2>6. CASE EvaluateRisk(id)
    <3>1. /\ UNCHANGED <<funded, balance, outbox, status>>
          /\ processed' = processed \cup {<<"risk-bet-placed", id>>}
      BY <2>6 DEF EvaluateRisk, Commits
    <3>. QED
      BY <3>1, <2>1, StatusOnly, NamesAre
  <2>. QED
    BY <1>6, <2>2, <2>3, <2>4, <2>5, <2>6 DEF Handle
<1>7. CASE UNCHANGED vars
  BY <1>3, <1>7 DEF vars
<1>8. ASSUME NEW c \in Consumers, NEW id \in DOMAIN outbox, WorkerDies(c, id)
      PROVE  UNCHANGED Ledger!lvars
  BY <1>3, <1>8 DEF WorkerDies
<1>. QED
  BY <1>1, <1>2, <1>4, <1>5, <1>6, <1>7, <1>8 DEF Next

\* Whatever the relay, the broker and the consumers do, the saga moves money as the
\* wallet's ledger does: every bet's stake is taken or refused once, and its payout paid
\* or closed once and only after its stake was taken.
THEOREM Refinement == Spec => ImplementsLedger
BY LedgerInitially, Invariance, LedgerStep, PTL DEF Spec, ImplementsLedger, Ledger!LedgerSpec
=============================================================================
