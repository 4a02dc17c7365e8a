-------------------------- MODULE OutboxRelayProofs --------------------------
(***************************************************************************)
(* What holds of OutboxRelay for any number of rows, pollers, binlog       *)
(* readers and faults.                                                     *)
(*                                                                         *)
(* The argument: the binlog lists the committed rows in an order that      *)
(* respects their causes (Logged), a reader has sent what lies before its  *)
(* position, and a poller that holds the first unpublished row finds all   *)
(* its causes, which have smaller ids, marked (Ready).  So whoever is      *)
(* about to publish a row knows its causes to be sent.                     *)
(***************************************************************************)
EXTENDS OutboxRelay, FiniteSetTheorems, TLAPS

Busy(r) == pc[r] \in {"selected", "sent"}

Types ==
    /\ row \in [Ids -> {"none", "open", "committed", "rolledback"}]
    /\ published \subseteq Ids
    /\ binlog \in Seq(Ids)
    /\ saw \in [Ids -> SUBSET Ids]
    /\ pc \in [Relays -> {"idle", "selected", "sent", "stopped", "down"}]
    /\ holds \in [Relays -> Ids \cup {0}]
    /\ pos \in [Relays -> Nat]
    /\ open \in [Relays -> BOOLEAN]
    /\ sends \in [Ids -> Nat]
    /\ faults \in Nat

\* Ids are given in order, so that the causes of a row have smaller ids.
Numbered ==
    /\ \A i, j \in Ids : j < i /\ row[i] # "none" => row[j] # "none"
    /\ \A i \in Ids : saw[i] \subseteq {j \in Committed : j < i}

\* The binlog holds every committed row once, after its causes.
Logged ==
    /\ {binlog[k] : k \in DOMAIN binlog} = Committed
    /\ IsFiniteSet(Committed) /\ Len(binlog) = Cardinality(Committed)
    /\ \A k \in DOMAIN binlog : saw[binlog[k]] \subseteq {binlog[m] : m \in 1..(k - 1)}

\* What has left was committed, and its causes have left.
Honest == published \subseteq Sent /\ Sent \subseteq Committed /\ CausalOrder

\* A relay that is about to publish holds a committed row whose causes are sent, and a
\* binlog reader has sent what lies behind it.
Ready(r) ==
    /\ IF Busy(r) THEN holds[r] \in Committed ELSE holds[r] = 0
    /\ pc[r] = "selected" => saw[holds[r]] \subseteq Sent
    /\ pc[r] = "sent" => holds[r] \in Sent
    /\ pos[r] <= Len(binlog)
    /\ \A k \in 1..pos[r] : binlog[k] \in Sent
    /\ r \in Streamers /\ Busy(r) => pos[r] < Len(binlog) /\ holds[r] = binlog[pos[r] + 1]
    /\ r \in Pollers => pos[r] = 0

Exclusive == \A p, q \in Pollers : p # q /\ holds[p] # 0 => holds[p] # holds[q]

IInv == Types /\ Numbered /\ Logged /\ Honest /\ (\A r \in Relays : Ready(r)) /\ Exclusive

-----------------------------------------------------------------------------

\* A relay that does not move stays ready while rows commit and leave.
LEMMA ReadyIsKept ==
    ASSUME Types, NEW r \in Relays, Ready(r),
           Committed \subseteq Committed', Sent \subseteq Sent',
           Len(binlog) \in Nat, Len(binlog') \in Nat, Len(binlog) <= Len(binlog'),
           \A k \in 1..Len(binlog) : binlog'[k] = binlog[k],
           \A i \in Committed : saw'[i] = saw[i],
           pc'[r] = pc[r], holds'[r] = holds[r], pos'[r] = pos[r]
    PROVE  Ready(r)'
<1>1. pos[r] \in Nat
  BY DEF Types
<1>2. \A k \in 1..pos[r] : binlog'[k] = binlog[k]
  BY <1>1 DEF Ready
<1>3. \A k \in 1..pos'[r] : binlog'[k] \in Sent'
  BY <1>2 DEF Ready
<1>4. r \in Streamers /\ Busy(r)' => pos'[r] < Len(binlog') /\ holds'[r] = binlog'[pos'[r] + 1]
  BY <1>1 DEF Ready, Busy
<1>5. pc'[r] = "selected" => saw'[holds'[r]] \subseteq Sent'
  BY DEF Ready, Busy
<1>6. pos'[r] <= Len(binlog')
  BY <1>1 DEF Ready
<1>7. /\ IF Busy(r)' THEN holds'[r] \in Committed' ELSE holds'[r] = 0
      /\ pc'[r] = "sent" => holds'[r] \in Sent'
      /\ r \in Pollers => pos'[r] = 0
  BY DEF Ready, Busy
<1>. QED
  BY <1>3, <1>4, <1>5, <1>6, <1>7 DEF Ready

\* A step of one relay that leaves the rows and the binlog alone and sends no less leaves
\* the other relays ready.
LEMMA OthersReady ==
    ASSUME IInv, NEW r \in Relays, NEW s \in Relays \ {r},
           UNCHANGED <<row, binlog, saw>>, Sent \subseteq Sent',
           pc'[s] = pc[s], holds'[s] = holds[s], pos'[s] = pos[s]
    PROVE  Ready(s)'
<1>1. Types /\ Ready(s) /\ Len(binlog) \in Nat
  BY DEF IInv, Types
<1>2. Committed' = Committed
  BY DEF Committed
<1>. QED
  BY <1>1, <1>2, ReadyIsKept

LEMMA FiniteIds ==
    IsFiniteSet(Ids) /\ Cardinality(Ids) = MaxRows
<1>1. MaxRows \in Nat
  BY RelayAssumption
<1>. QED
  BY <1>1, FS_Interval DEF Ids

LEMMA InitOK == Init => IInv
<1>. SUFFICES ASSUME Init PROVE IInv
  OBVIOUS
<1>1. Committed = {} /\ Sent = {}
  BY DEF Init, Committed, Sent
<1>2. Types
  BY RelayAssumption DEF Init, Types, Ids, Relays
<1>3. Numbered /\ Honest
  BY <1>1 DEF Init, Numbered, Honest, CausalOrder
<1>4. Logged
  BY <1>1, FS_EmptySet DEF Init, Logged
<1>5. (\A r \in Relays : Ready(r)) /\ Exclusive
  BY DEF Init, Ready, Busy, Exclusive, Relays
<1>. QED
  BY <1>2, <1>3, <1>4, <1>5 DEF IInv

\* What a step that touches neither the rows nor the sends leaves true of the table.
LEMMA TableIsKept ==
    ASSUME IInv, UNCHANGED <<row, saw, binlog, sends>>, published' \subseteq Sent
    PROVE  Numbered' /\ Logged' /\ Honest' /\ Committed' = Committed /\ Sent' = Sent
<1>1. Committed' = Committed /\ Sent' = Sent
  BY DEF Committed, Sent
<1>2. Numbered'
  BY <1>1 DEF IInv, Numbered
<1>3. Logged'
  BY <1>1 DEF IInv, Logged
<1>4. Honest'
  BY <1>1 DEF IInv, Honest, CausalOrder
<1>. QED
  BY <1>1, <1>2, <1>3, <1>4

-----------------------------------------------------------------------------
(* The services' transactions.                                             *)

LEMMA InsertOK ==
    ASSUME IInv, NEW i \in Ids, Insert(i)
    PROVE  IInv'
<1>1. Types /\ Numbered /\ Logged /\ Honest /\ Exclusive /\ \A r \in Relays : Ready(r)
  BY DEF IInv
<1>2. Types'
  BY <1>1 DEF Types, Insert, Committed
<1>3. Committed' = Committed /\ Sent' = Sent
  BY <1>1 DEF Types, Insert, Committed, Sent
<1>4. i \notin Committed /\ i \notin Sent /\ \A j \in Ids : j # i => saw'[j] = saw[j]
  <2>1. i \notin Committed
    BY <1>1 DEF Insert, Committed
  <2>. QED
    BY <2>1, <1>1 DEF Insert, Types, Honest
<1>5. Numbered'
  <2>1. \A j, k \in Ids : k < j /\ row'[j] # "none" => row'[k] # "none"
    <3>. SUFFICES ASSUME NEW j \in Ids, NEW k \in Ids, k < j, row'[j] # "none"
                  PROVE  row'[k] # "none"
      OBVIOUS
    <3>1. k \in 1..(j - 1)
      BY RelayAssumption DEF Ids
    <3>2. CASE j = i
      BY <3>1, <3>2, <1>1 DEF Insert, Types
    <3>3. CASE j # i
      BY <3>3, <1>1 DEF Insert, Types, Numbered
    <3>. QED
      BY <3>2, <3>3
  <2>2. \A j \in Committed : j < i
    <3>. SUFFICES ASSUME NEW j \in Committed, ~(j < i)
                  PROVE  FALSE
      OBVIOUS
    <3>1. j \in Ids /\ row[j] = "committed" /\ j # i
      BY <1>4 DEF Committed
    <3>2. i < j
      BY <3>1, RelayAssumption DEF Ids
    <3>. QED
      BY <3>1, <3>2, <1>1 DEF Numbered, Insert
  <2>3. \A j \in Ids : saw'[j] \subseteq {k \in Committed' : k < j}
    BY <2>2, <1>1, <1>3, <1>4 DEF Insert, Types, Numbered
  <2>. QED
    BY <2>1, <2>3 DEF Numbered
<1>6. Logged'
  <2>1. \A k \in DOMAIN binlog : binlog[k] # i /\ binlog[k] \in Ids
    BY <1>1, <1>4 DEF Logged, Types
  <2>2. binlog' = binlog
    BY DEF Insert
  <2>. QED
    BY <2>1, <2>2, <1>1, <1>3, <1>4 DEF Logged
<1>7. Honest'
  BY <1>1, <1>3, <1>4 DEF Honest, CausalOrder, Insert, Sent
<1>8. \A r \in Relays : Ready(r)'
  <2>. SUFFICES ASSUME NEW r \in Relays PROVE Ready(r)'
    OBVIOUS
  <2>1. \A j \in Committed : saw'[j] = saw[j]
    BY <1>4 DEF Committed
  <2>2. binlog' = binlog /\ Len(binlog) \in Nat
    BY <1>1 DEF Insert, Types
  <2>3. pc'[r] = pc[r] /\ holds'[r] = holds[r] /\ pos'[r] = pos[r]
    BY DEF Insert
  <2>. QED
    BY <1>1, <1>3, <2>1, <2>2, <2>3, ReadyIsKept
<1>9. Exclusive'
  BY <1>1 DEF Exclusive, Insert
<1>. QED
  BY <1>2, <1>5, <1>6, <1>7, <1>8, <1>9 DEF IInv

LEMMA CommitOK ==
    ASSUME IInv, NEW i \in Ids, CommitRow(i)
    PROVE  IInv'
<1>1. Types /\ Numbered /\ Logged /\ Honest /\ Exclusive /\ \A r \in Relays : Ready(r)
  BY DEF IInv
<1>2. Types'
  BY <1>1 DEF Types, CommitRow
<1>3. i \notin Committed /\ Committed' = Committed \cup {i} /\ Sent' = Sent
  BY <1>1 DEF Types, CommitRow, Committed, Sent
<1>4. Numbered'
  <2>1. \A j, k \in Ids : k < j /\ row'[j] # "none" => row'[k] # "none"
    BY <1>1 DEF CommitRow, Types, Numbered
  <2>2. \A j \in Ids : saw'[j] \subseteq {k \in Committed' : k < j}
    BY <1>1, <1>3 DEF CommitRow, Numbered
  <2>. QED
    BY <2>1, <2>2 DEF Numbered
<1>5. /\ Len(binlog) \in Nat /\ Len(binlog') = Len(binlog) + 1
      /\ DOMAIN binlog = 1..Len(binlog) /\ DOMAIN binlog' = 1..(Len(binlog) + 1)
      /\ \A k \in 1..Len(binlog) : binlog'[k] = binlog[k]
      /\ binlog'[Len(binlog) + 1] = i
  BY <1>1 DEF CommitRow, Types
<1>6. Logged'
  <2>1. {binlog'[k] : k \in DOMAIN binlog'} = Committed'
    BY <1>1, <1>3, <1>5 DEF Logged
  <2>2. IsFiniteSet(Committed') /\ Len(binlog') = Cardinality(Committed')
    <3>1. IsFiniteSet(Committed) /\ Len(binlog) = Cardinality(Committed)
      BY <1>1 DEF Logged
    <3>2. IsFiniteSet(Committed \cup {i}) /\ Cardinality(Committed \cup {i}) = Cardinality(Committed) + 1
      BY <3>1, <1>3, FS_AddElement
    <3>. QED
      BY <3>1, <3>2, <1>3, <1>5
  <2>3. \A k \in DOMAIN binlog' : saw'[binlog'[k]] \subseteq {binlog'[m] : m \in 1..(k - 1)}
    <3>. SUFFICES ASSUME NEW k \in DOMAIN binlog', NEW j \in saw[binlog'[k]]
                  PROVE  \E m \in 1..(k - 1) : binlog'[m] = j
      BY DEF CommitRow
    <3>1. CASE k \in 1..Len(binlog)
      <4>1. PICK m \in 1..(k - 1) : binlog[m] = j
        BY <3>1, <1>1, <1>5 DEF Logged
      <4>. QED
        BY <4>1, <3>1, <1>5
    <3>2. CASE k = Len(binlog) + 1
      <4>1. j \in Committed
        BY <3>2, <1>1, <1>5 DEF Numbered
      <4>2. PICK m \in DOMAIN binlog : binlog[m] = j
        BY <4>1, <1>1 DEF Logged
      <4>. QED
        BY <4>2, <3>2, <1>5
    <3>. QED
      BY <3>1, <3>2, <1>5
  <2>. QED
    BY <2>1, <2>2, <2>3 DEF Logged
<1>7. Honest'
  BY <1>1, <1>3 DEF Honest, CausalOrder, CommitRow
<1>8. \A r \in Relays : Ready(r)'
  <2>. SUFFICES ASSUME NEW r \in Relays PROVE Ready(r)'
    OBVIOUS
  <2>1. pc'[r] = pc[r] /\ holds'[r] = holds[r] /\ pos'[r] = pos[r] /\ saw' = saw
    BY DEF CommitRow
  <2>2. Len(binlog') \in Nat /\ Len(binlog) <= Len(binlog')
    BY <1>5
  <2>. QED
    BY <1>1, <1>3, <1>5, <2>1, <2>2, ReadyIsKept
<1>9. Exclusive'
  BY <1>1 DEF Exclusive, CommitRow
<1>. QED
  BY <1>2, <1>4, <1>6, <1>7, <1>8, <1>9 DEF IInv

LEMMA RollbackOK ==
    ASSUME IInv, NEW i \in Ids, RollbackRow(i)
    PROVE  IInv'
<1>1. Types /\ Numbered /\ Logged /\ Honest /\ Exclusive /\ \A r \in Relays : Ready(r)
  BY DEF IInv
<1>2. Types'
  BY <1>1 DEF Types, RollbackRow
<1>3. Committed' = Committed /\ Sent' = Sent
  BY <1>1 DEF Types, RollbackRow, Committed, Sent
<1>4. Numbered'
  BY <1>1, <1>3 DEF RollbackRow, Types, Numbered
<1>5. Logged' /\ Honest'
  BY <1>1, <1>3 DEF RollbackRow, Logged, Honest, CausalOrder
<1>6. \A r \in Relays : Ready(r)'
  <2>. SUFFICES ASSUME NEW r \in Relays PROVE Ready(r)'
    OBVIOUS
  <2>1. pc'[r] = pc[r] /\ holds'[r] = holds[r] /\ pos'[r] = pos[r] /\ saw' = saw
        /\ binlog' = binlog /\ Len(binlog) \in Nat
    BY <1>1 DEF RollbackRow, Types
  <2>. QED
    BY <1>1, <1>3, <2>1, ReadyIsKept
<1>7. Exclusive'
  BY <1>1 DEF Exclusive, RollbackRow
<1>. QED
  BY <1>2, <1>4, <1>5, <1>6, <1>7 DEF IInv

-----------------------------------------------------------------------------
(* The relays.                                                             *)

\* The parts that the step of one relay has to show.
LEMMA RelayStepOK ==
    ASSUME IInv, NEW r \in Relays, UNCHANGED <<row, binlog, saw>>, Sent \subseteq Sent',
           \A s \in Relays \ {r} : pc'[s] = pc[s] /\ holds'[s] = holds[s] /\ pos'[s] = pos[s],
           Types', Numbered', Logged', Honest', Ready(r)', Exclusive'
    PROVE  IInv'
<1>1. \A s \in Relays \ {r} : Ready(s)'
  BY OthersReady
<1>. QED
  BY <1>1 DEF IInv

\* A relay that lets go of its row leaves the pollers apart.
LEMMA LetGo ==
    ASSUME IInv, NEW r \in Relays, holds' = [holds EXCEPT ![r] = 0]
    PROVE  Exclusive'
BY DEF IInv, Types, Exclusive, Relays

LEMMA SelectOK ==
    ASSUME IInv, NEW r \in Relays, Select(r)
    PROVE  IInv'
<1>1. Types /\ Numbered /\ Honest /\ Exclusive /\ Ready(r)
  BY DEF IInv
<1>2. PICK i \in Ids : Selected(i) /\ Goto(r, "selected", i)
  BY DEF Select
<1>3. UNCHANGED <<table, pos, open, sends, faults>> /\ r \in Pollers /\ pc[r] = "idle"
  BY DEF Select
<1>4. Types'
  BY <1>1, <1>2, <1>3 DEF Types, Goto, table
<1>5. Numbered' /\ Logged' /\ Honest' /\ Committed' = Committed /\ Sent' = Sent
  BY <1>1, <1>3, TableIsKept DEF table, Honest
<1>6. saw[i] \subseteq Sent
  <2>. SUFFICES ASSUME NEW j \in saw[i] PROVE j \in Sent
    OBVIOUS
  <2>1. j \in Ids /\ row[j] = "committed" /\ j < i
    BY <1>1 DEF Numbered, Committed
  <2>2. j \in published
    BY <2>1, <1>2, RelayAssumption DEF Selected, Unpublished, Ids
  <2>. QED
    BY <2>2, <1>1 DEF Honest
<1>7. i \in Committed
  BY <1>2 DEF Selected, Committed
<1>8. Ready(r)'
  <2>1. pc'[r] = "selected" /\ holds'[r] = i /\ pos'[r] = pos[r]
    BY <1>1, <1>2, <1>3 DEF Types, Goto
  <2>2. r \notin Streamers
    BY <1>3, RelayAssumption
  <2>. QED
    BY <1>1, <1>3, <1>5, <1>6, <1>7, <2>1, <2>2 DEF Ready, Busy, table
<1>9. Exclusive'
  BY <1>1, <1>2, <1>3 DEF Exclusive, Selected, Goto, Types, Relays
<1>10. \A s \in Relays \ {r} : pc'[s] = pc[s] /\ holds'[s] = holds[s] /\ pos'[s] = pos[s]
  BY <1>1, <1>2, <1>3 DEF Goto, Types
<1>. QED
  BY <1>3, <1>4, <1>5, <1>8, <1>9, <1>10, RelayStepOK DEF table

LEMMA ReadRowOK ==
    ASSUME IInv, NEW r \in Relays, ReadRow(r)
    PROVE  IInv'
<1>1. Types /\ Logged /\ Honest /\ Exclusive /\ Ready(r)
  BY DEF IInv
<1>. DEFINE i == binlog[pos[r] + 1]
<1>2. /\ Goto(r, "selected", i) /\ UNCHANGED <<table, pos, open, sends, faults>>
      /\ r \in Streamers /\ pos[r] < Len(binlog) /\ pos[r] \in Nat /\ Len(binlog) \in Nat
  BY <1>1 DEF ReadRow, Types
<1>3. i \in Committed /\ i \in Ids
  BY <1>1, <1>2 DEF Logged, Types
<1>4. Types'
  BY <1>1, <1>2, <1>3 DEF Types, Goto, table
<1>5. Numbered' /\ Logged' /\ Honest' /\ Committed' = Committed /\ Sent' = Sent
  BY <1>1, <1>2, TableIsKept DEF table, Honest
<1>6. saw[i] \subseteq Sent
  <2>1. saw[i] \subseteq {binlog[m] : m \in 1..pos[r]}
    BY <1>1, <1>2 DEF Logged
  <2>. QED
    BY <2>1, <1>1 DEF Ready
<1>7. pc'[r] = "selected" /\ holds'[r] = i /\ pos'[r] = pos[r]
  BY <1>1, <1>2 DEF Types, Goto
<1>8. r \notin Pollers
  BY <1>2, RelayAssumption
<1>9. Ready(r)'
  BY <1>1, <1>2, <1>3, <1>5, <1>6, <1>7, <1>8 DEF Ready, Busy, table
<1>10. Exclusive'
  BY <1>1, <1>2, <1>8 DEF Exclusive, Goto, Types, Relays
<1>11. \A s \in Relays \ {r} : pc'[s] = pc[s] /\ holds'[s] = holds[s] /\ pos'[s] = pos[s]
  BY <1>1, <1>2 DEF Goto, Types
<1>. QED
  BY <1>2, <1>4, <1>5, <1>9, <1>10, <1>11, RelayStepOK DEF table

\* A step that only lets go of the row, and perhaps returns to the head of the binlog.
LEMMA GiveUpOK ==
    ASSUME IInv, NEW r \in Relays, NEW where \in {"idle", "stopped", "down"},
           Goto(r, where, 0), UNCHANGED <<table, sends>>,
           pos' = pos \/ pos' = [pos EXCEPT ![r] = 0],
           open' \in [Relays -> BOOLEAN], faults' \in Nat
    PROVE  IInv'
<1>1. Types /\ Honest /\ Ready(r)
  BY DEF IInv
<1>2. Types'
  BY <1>1 DEF Types, Goto, table
<1>3. Numbered' /\ Logged' /\ Honest' /\ Committed' = Committed /\ Sent' = Sent
  BY <1>1, TableIsKept DEF table, Honest
<1>4. pc'[r] = where /\ holds'[r] = 0 /\ pos'[r] \in {pos[r], 0} /\ Len(binlog) \in Nat
  BY <1>1 DEF Types, Goto
<1>5. Ready(r)'
  BY <1>1, <1>3, <1>4 DEF Ready, Busy, table
<1>6. Exclusive'
  BY LetGo DEF Goto
<1>7. \A s \in Relays \ {r} : pc'[s] = pc[s] /\ holds'[s] = holds[s] /\ pos'[s] = pos[s]
  BY <1>1 DEF Goto, Types
<1>. QED
  BY <1>2, <1>3, <1>5, <1>6, <1>7, RelayStepOK DEF table

LEMMA QuietOK ==
    ASSUME IInv, NEW r \in Relays,
           PublishFails(r) \/ Crash(r) \/ Restart(r) \/ ChannelLost(r)
    PROVE  IInv'
<1>1. Types
  BY DEF IInv
<1>2. CASE PublishFails(r)
  BY <1>1, <1>2, GiveUpOK DEF PublishFails, Types
<1>3. CASE Crash(r)
  BY <1>1, <1>3, GiveUpOK DEF Crash, Fault, Types
<1>4. CASE Restart(r)
  BY <1>1, <1>4, GiveUpOK DEF Restart, Types
<1>5. CASE ChannelLost(r)
  <2>1. UNCHANGED <<table, pc, holds, pos, sends>>
    BY <1>5 DEF ChannelLost
  <2>2. Types'
    BY <1>1, <1>5 DEF ChannelLost, Fault, Types, table
  <2>3. Numbered' /\ Logged' /\ Honest' /\ Committed' = Committed /\ Sent' = Sent
    BY <2>1, TableIsKept DEF table, IInv, Honest
  <2>4. Ready(r)' /\ Exclusive'
    BY <2>1, <2>3 DEF IInv, Ready, Busy, Exclusive, table
  <2>. QED
    BY <2>1, <2>2, <2>3, <2>4, RelayStepOK DEF table
<1>. QED
  BY <1>2, <1>3, <1>4, <1>5

\* What it does to the table that a selected row leaves.
LEMMA SendingIsHonest ==
    ASSUME IInv, NEW r \in Relays, pc[r] = "selected", NEW n \in {0, 1},
           sends' = [sends EXCEPT ![holds[r]] = @ + n], UNCHANGED table
    PROVE  /\ Numbered' /\ Logged' /\ Honest' /\ Committed' = Committed
           /\ sends' \in [Ids -> Nat]
           /\ Sent \subseteq Sent' /\ (n = 1 => holds[r] \in Sent')
<1>1. Types /\ Numbered /\ Logged /\ Honest /\ Ready(r)
  BY DEF IInv
<1>2. holds[r] \in Committed /\ holds[r] \in Ids /\ saw[holds[r]] \subseteq Sent
  BY <1>1 DEF Ready, Busy, Committed
<1>3. sends' \in [Ids -> Nat] /\ \A i \in Ids : sends'[i] = IF i = holds[r] THEN sends[i] + n ELSE sends[i]
  BY <1>1, <1>2 DEF Types
<1>4. Committed' = Committed
  BY DEF Committed, table
<1>5. Sent \subseteq Sent' /\ Sent' \subseteq Sent \cup {holds[r]} /\ (n = 1 => holds[r] \in Sent')
  BY <1>1, <1>2, <1>3 DEF Sent, Types
<1>6. Numbered' /\ Logged'
  BY <1>1, <1>4 DEF Numbered, Logged, table
<1>7. Honest'
  BY <1>1, <1>2, <1>4, <1>5 DEF Honest, CausalOrder, table
<1>. QED
  BY <1>3, <1>4, <1>5, <1>6, <1>7

LEMMA PublishOK ==
    ASSUME IInv, NEW r \in Relays, Publish(r) \/ PublishBreaks(r)
    PROVE  IInv'
<1>1. Types /\ Exclusive /\ Ready(r) /\ Len(binlog) \in Nat
  BY DEF IInv, Types
<1>2. UNCHANGED <<table, pos>> /\ pc[r] = "selected"
  BY DEF Publish, PublishBreaks
<1>3. PICK n \in {0, 1}, where \in {"sent", "idle", "stopped"} :
        /\ sends' = [sends EXCEPT ![holds[r]] = @ + n]
        /\ Goto(r, where, IF where = "sent" THEN holds[r] ELSE 0)
        /\ where = "sent" => n = 1
  BY DEF Publish, PublishBreaks
<1>4. Numbered' /\ Logged' /\ Honest' /\ Committed' = Committed /\ sends' \in [Ids -> Nat]
      /\ Sent \subseteq Sent' /\ (n = 1 => holds[r] \in Sent')
  BY <1>2, <1>3, SendingIsHonest
<1>5. faults' \in Nat /\ open' \in [Relays -> BOOLEAN]
  <2>1. CASE Publish(r)
    BY <2>1, <1>1 DEF Publish, Types
  <2>2. CASE PublishBreaks(r)
    BY <2>2, <1>1 DEF PublishBreaks, Fault, Types
  <2>. QED
    BY <2>1, <2>2
<1>6. Types'
  BY <1>1, <1>2, <1>3, <1>4, <1>5 DEF Types, Goto, table
<1>7. pc'[r] = where /\ holds'[r] = (IF where = "sent" THEN holds[r] ELSE 0) /\ pos'[r] = pos[r]
  BY <1>1, <1>2, <1>3 DEF Types, Goto
<1>8. Ready(r)'
  <2>1. \A k \in 1..pos[r] : binlog[k] \in Sent'
    BY <1>1, <1>4 DEF Ready
  <2>2. CASE where = "sent"
    BY <2>1, <2>2, <1>1, <1>2, <1>3, <1>4, <1>7 DEF Ready, Busy, table
  <2>3. CASE where # "sent"
    BY <2>1, <2>3, <1>1, <1>2, <1>3, <1>4, <1>7 DEF Ready, Busy, table
  <2>. QED
    BY <2>2, <2>3
<1>9. Exclusive'
  BY <1>1, <1>3 DEF Exclusive, Goto, Types, Relays
<1>10. \A s \in Relays \ {r} : pc'[s] = pc[s] /\ holds'[s] = holds[s] /\ pos'[s] = pos[s]
  BY <1>1, <1>2, <1>3 DEF Goto, Types
<1>. QED
  BY <1>2, <1>4, <1>6, <1>8, <1>9, <1>10, RelayStepOK DEF table

\* Marking, or failing to, and moving on.
LEMMA MarkOK ==
    ASSUME IInv, NEW r \in Relays, Mark(r) \/ MarkFails(r)
    PROVE  IInv'
<1>1. Types /\ Honest /\ Exclusive /\ Ready(r) /\ Len(binlog) \in Nat
  BY DEF IInv, Types
<1>2. pc[r] = "sent" /\ AfterMark(r) /\ UNCHANGED <<row, binlog, saw, open, sends>>
  BY DEF Mark, MarkFails, table
<1>3. holds[r] \in Sent /\ holds[r] \in Committed /\ holds[r] \in Ids
  BY <1>1, <1>2 DEF Ready, Busy, Sent
<1>4. published' \subseteq published \cup {holds[r]} /\ faults' \in Nat
  BY <1>1 DEF Mark, MarkFails, Fault, Types, table
<1>5. pc'[r] = "idle" /\ holds'[r] = 0
      /\ pos'[r] = IF r \in Streamers THEN pos[r] + 1 ELSE pos[r]
  BY <1>1, <1>2 DEF AfterMark, Goto, Types
<1>6. Types'
  BY <1>1, <1>2, <1>3, <1>4 DEF Types, AfterMark, Goto
<1>7. Numbered' /\ Logged' /\ Honest' /\ Committed' = Committed /\ Sent' = Sent
  BY <1>1, <1>2, <1>3, <1>4, TableIsKept DEF Honest
<1>8. Ready(r)'
  <2>1. pos'[r] \in Nat /\ pos[r] \in Nat
    BY <1>1, <1>6 DEF Types
  <2>2. CASE r \in Streamers
    <3>1. pos[r] < Len(binlog) /\ holds[r] = binlog[pos[r] + 1] /\ pos'[r] = pos[r] + 1
      BY <2>2, <1>1, <1>2, <1>5 DEF Ready, Busy
    <3>2. \A k \in 1..pos'[r] : binlog'[k] \in Sent'
      BY <3>1, <2>1, <1>1, <1>2, <1>3, <1>7 DEF Ready
    <3>3. r \notin Pollers
      BY <2>2, RelayAssumption
    <3>. QED
      BY <3>1, <3>2, <3>3, <2>1, <1>1, <1>2, <1>5 DEF Ready, Busy
  <2>3. CASE r \notin Streamers
    BY <2>1, <2>3, <1>1, <1>2, <1>5, <1>7 DEF Ready, Busy
  <2>. QED
    BY <2>2, <2>3
<1>9. Exclusive'
  BY <1>2, LetGo DEF AfterMark, Goto
<1>10. \A s \in Relays \ {r} : pc'[s] = pc[s] /\ holds'[s] = holds[s] /\ pos'[s] = pos[s]
  BY <1>1, <1>2 DEF AfterMark, Goto, Types
<1>. QED
  BY <1>2, <1>6, <1>7, <1>8, <1>9, <1>10, RelayStepOK

-----------------------------------------------------------------------------
(* The theorems.                                                           *)

LEMMA NextOK == IInv /\ [Next]_vars => IInv'
<1>. SUFFICES ASSUME IInv, [Next]_vars PROVE IInv'
  OBVIOUS
<1>1. ASSUME NEW i \in Ids, Insert(i) \/ CommitRow(i) \/ RollbackRow(i) PROVE IInv'
  BY <1>1, InsertOK, CommitOK, RollbackOK
<1>2. ASSUME NEW r \in Relays,
             Relay(r) \/ PublishBreaks(r) \/ MarkFails(r) \/ ChannelLost(r)
                      \/ Crash(r) \/ Restart(r)
      PROVE  IInv'
  BY <1>2, SelectOK, ReadRowOK, QuietOK, PublishOK, MarkOK DEF Relay
<1>3. CASE UNCHANGED vars
  <2>1. Numbered' /\ Logged' /\ Honest' /\ Committed' = Committed /\ Sent' = Sent
    BY <1>3, TableIsKept DEF vars, table, IInv, Honest
  <2>2. Types' /\ Exclusive'
    BY <1>3 DEF vars, table, IInv, Types, Exclusive
  <2>3. \A r \in Relays : Ready(r)'
    BY <1>3, <2>1 DEF vars, table, IInv, Ready, Busy
  <2>. QED
    BY <2>1, <2>2, <2>3 DEF IInv
<1>. QED
  BY <1>1, <1>2, <1>3 DEF Next

\* The inductive invariant holds of every run of the relays, however many there are.
THEOREM Invariance == Spec => []IInv
<1>. QED
  BY InitOK, NextOK, PTL DEF Spec

LEMMA InvTypeOK == IInv => TypeOK
<1>. SUFFICES ASSUME IInv PROVE TypeOK
  OBVIOUS
<1>1. Types /\ Logged /\ Exclusive /\ \A r \in Relays : Ready(r)
  BY DEF IInv
<1>2. Len(binlog) \in Nat /\ Len(binlog) <= MaxRows
  <2>1. Committed \subseteq Ids
    BY DEF Committed
  <2>2. Cardinality(Committed) <= MaxRows
    BY <2>1, FiniteIds, FS_Subset
  <2>. QED
    BY <2>2, <1>1 DEF Types, Logged
<1>3. pos \in [Relays -> 0..MaxRows]
  <2>1. \A r \in Relays : pos[r] \in 0..MaxRows
    BY <1>1, <1>2, RelayAssumption DEF Types, Ready
  <2>. QED
    BY <2>1, <1>1 DEF Types
<1>. QED
  BY <1>1, <1>3 DEF TypeOK, Types, Logged, Ready, Busy, Exclusive

\* The types hold, the binlog lists the committed rows once each, and pollers never hold
\* the same row.
THEOREM TypeCorrect == Spec => []TypeOK
<1>. QED
  BY Invariance, InvTypeOK, PTL

\* Events leave in causal order from any number of relays, whatever fails.
THEOREM CausesFirst == Spec => []CausalOrder
<1>1. IInv => CausalOrder
  BY DEF IInv, Honest
<1>. QED
  BY <1>1, Invariance, PTL

\* No crash loses an event between the table and the channel: a row is marked only after
\* its message left.
THEOREM NothingIsForgotten == Spec => [](published \subseteq Sent)
<1>1. IInv => published \subseteq Sent
  BY DEF IInv, Honest
<1>. QED
  BY <1>1, Invariance, PTL

-----------------------------------------------------------------------------
(* The relays implement the feed.                                          *)

\* Stage, case by case.
LEMMA StageIs ==
    ASSUME IInv, NEW i \in Ids
    PROVE  /\ row[i] = "none" => Stage[i] = "absent"
           /\ row[i] = "open" => Stage[i] = "written"
           /\ row[i] = "rolledback" => Stage[i] = "withdrawn"
           /\ row[i] = "committed" =>
                Stage[i] = IF i \in published THEN "forgotten"
                           ELSE IF i \in Sent THEN "sent" ELSE "recorded"
           /\ i \in Committed <=> Stage[i] \in {"recorded", "sent", "forgotten"}
           /\ i \in Sent <=> Stage[i] \in {"sent", "forgotten"}
           /\ i \in published <=> Stage[i] = "forgotten"
<1>1. row[i] \in {"none", "open", "committed", "rolledback"} /\ published \subseteq Sent
      /\ Sent \subseteq Committed
  BY DEF IInv, Types, Honest
<1>. QED
  BY <1>1 DEF Stage, Committed

\* Two stages differ only where the row does.
LEMMA StageMoves ==
    ASSUME NEW i \in Ids, NEW to,
           \A j \in Ids \ {i} : /\ row'[j] = row[j]
                                /\ j \in Sent' <=> j \in Sent
                                /\ j \in published' <=> j \in published,
           Stage'[i] = to
    PROVE  Stage' = [Stage EXCEPT ![i] = to]
BY DEF Stage

LEMMA FeedInitOK == Init => Feed!FeedInit
BY DEF Init, Feed!FeedInit, Stage

LEMMA FeedStepOK ==
    ASSUME IInv, IInv', [Next]_vars
    PROVE  [Feed!FeedNext]_Feed!fvars
<1>. USE DEF Feed!FeedNext, Feed!fvars
<1>1. Types /\ Types'
  BY DEF IInv
<1>2. ASSUME UNCHANGED <<row, saw, published>>, Sent' = Sent
      PROVE  UNCHANGED <<Stage, saw>>
  BY <1>2 DEF Stage
<1>3. ASSUME NEW i \in Ids, Insert(i) PROVE Feed!Write(i)
  <2>1. row' = [row EXCEPT ![i] = "open"] /\ row[i] = "none" /\ published' = published
        /\ saw' = [saw EXCEPT ![i] = Committed] /\ sends' = sends
    BY <1>3 DEF Insert
  <2>2. Stage[i] = "absent" /\ Stage'[i] = "written" /\ Sent' = Sent
    BY <2>1, <1>1, StageIs DEF Types, Sent, Stage
  <2>3. Stage' = [Stage EXCEPT ![i] = "written"]
    BY <2>1, <2>2, <1>1, StageMoves DEF Types
  <2>4. Committed = {d \in Ids : Stage[d] \in {"recorded", "sent", "forgotten"}}
    BY StageIs DEF Committed
  <2>. QED
    BY <2>1, <2>2, <2>3, <2>4 DEF Feed!Write, Feed!Move
<1>4. ASSUME NEW i \in Ids, CommitRow(i) \/ RollbackRow(i) PROVE Feed!End(i)
  <2>1. /\ row[i] = "open" /\ published' = published /\ saw' = saw /\ Sent' = Sent
        /\ \/ row' = [row EXCEPT ![i] = "committed"]
           \/ row' = [row EXCEPT ![i] = "rolledback"]
    BY <1>4 DEF CommitRow, RollbackRow, Sent
  <2>2. Stage[i] = "written" /\ i \notin Sent /\ i \notin published
    BY <2>1, StageIs
  <2>3. Stage'[i] \in {"recorded", "withdrawn"}
    BY <2>1, <2>2, <1>1 DEF Types, Stage
  <2>4. Stage' = [Stage EXCEPT ![i] = Stage'[i]]
    BY <2>1, <1>1, StageMoves DEF Types
  <2>. QED
    BY <2>1, <2>2, <2>3, <2>4 DEF Feed!End, Feed!Move
<1>5. ASSUME NEW r \in Relays, Publish(r) \/ PublishBreaks(r)
      PROVE  Feed!Send(holds[r]) \/ UNCHANGED <<Stage, saw>>
  <2>. DEFINE i == holds[r]
  <2>1. UNCHANGED <<row, saw, published>> /\ pc[r] = "selected"
    BY <1>5 DEF Publish, PublishBreaks, table
  <2>2. i \in Committed /\ i \in Ids /\ saw[i] \subseteq Sent
    BY <2>1 DEF IInv, Ready, Busy, Committed
  <2>3. PICK n \in {0, 1} : sends' = [sends EXCEPT ![i] = @ + n]
    BY <1>5 DEF Publish, PublishBreaks
  <2>4. \A j \in Ids : sends'[j] = IF j = i THEN sends[j] + n ELSE sends[j]
    BY <2>2, <2>3, <1>1 DEF Types
  <2>5. CASE i \in Sent \/ n = 0
    <3>1. ASSUME NEW j \in Ids PROVE sends'[j] > 0 <=> sends[j] > 0
      <4>1. sends[j] \in Nat /\ sends'[j] = IF j = i THEN sends[j] + n ELSE sends[j]
        BY <2>4, <1>1 DEF Types
      <4>2. j = i => sends[j] > 0 \/ n = 0
        BY <2>5 DEF Sent
      <4>. HIDE DEF i
      <4>. QED
        BY <4>1, <4>2
    <3>2. Sent' = Sent
      BY <3>1 DEF Sent
    <3>. QED
      BY <3>2, <2>1, <1>2
  <2>6. CASE i \notin Sent /\ n = 1
    <3>1. Sent' = Sent \cup {i}
      BY <2>2, <2>4, <2>6, <1>1 DEF Types, Sent
    <3>2. Stage[i] = "recorded" /\ i \notin published
      BY <2>2, <2>6, StageIs DEF Committed
    <3>3. Stage'[i] = "sent"
      BY <2>1, <2>2, <3>1, <3>2 DEF Stage, Committed
    <3>4. Stage' = [Stage EXCEPT ![i] = "sent"]
      BY <2>1, <2>2, <3>1, <3>3, StageMoves
    <3>5. \A d \in saw[i] : Stage[d] \in {"sent", "forgotten"}
      BY <2>2, StageIs DEF Sent
    <3>. QED
      BY <2>1, <3>2, <3>4, <3>5 DEF Feed!Send, Feed!Move
  <2>. QED
    BY <2>5, <2>6
<1>6. ASSUME NEW r \in Relays, Mark(r)
      PROVE  Feed!Forget(holds[r]) \/ UNCHANGED <<Stage, saw>>
  <2>. DEFINE i == holds[r]
  <2>1. UNCHANGED <<row, saw, sends>> /\ pc[r] = "sent" /\ published' \in {published, published \cup {i}}
    BY <1>6 DEF Mark
  <2>2. i \in Committed /\ i \in Ids /\ i \in Sent /\ Sent' = Sent
    BY <2>1 DEF IInv, Ready, Busy, Committed, Sent
  <2>3. CASE published' = published
    BY <2>1, <2>2, <2>3, <1>2
  <2>4. CASE published' = published \cup {i} /\ i \notin published
    <3>1. Stage[i] = "sent"
      BY <2>2, <2>4, StageIs DEF Committed
    <3>2. Stage'[i] = "forgotten"
      BY <2>1, <2>2, <2>4 DEF Stage, Committed
    <3>3. Stage' = [Stage EXCEPT ![i] = "forgotten"]
      BY <2>1, <2>2, <2>4, <3>2, StageMoves
    <3>. QED
      BY <2>1, <3>1, <3>3 DEF Feed!Forget, Feed!Move
  <2>. QED
    BY <2>1, <2>3, <2>4
<1>7. ASSUME NEW r \in Relays,
             Select(r) \/ ReadRow(r) \/ PublishFails(r) \/ MarkFails(r) \/ ChannelLost(r)
                       \/ Crash(r) \/ Restart(r)
      PROVE  UNCHANGED <<Stage, saw>>
  <2>1. UNCHANGED <<table, sends>>
    BY <1>7 DEF Select, ReadRow, PublishFails, MarkFails, ChannelLost, Crash, Restart
  <2>. QED
    BY <2>1, <1>2 DEF table, Sent
<1>8. CASE UNCHANGED vars
  BY <1>8, <1>2 DEF vars, table, Sent
<1>9. \A r \in Relays : pc[r] \in {"selected", "sent"} => holds[r] \in Ids
  BY DEF IInv, Ready, Busy, Committed
<1>10. ASSUME NEW r \in Relays, Publish(r) \/ PublishBreaks(r) \/ Mark(r)
       PROVE  holds[r] \in Ids
  BY <1>9, <1>10 DEF Publish, PublishBreaks, Mark
<1>. QED
  BY <1>3, <1>4, <1>5, <1>6, <1>7, <1>8, <1>10 DEF Next, Relay

\* The outbox table and any mix of pollers and binlog readers implement the feed.
THEOREM Refinement == Spec => ImplementsFeed
<1>. QED
  BY FeedInitOK, FeedStepOK, Invariance, PTL DEF Spec, ImplementsFeed, Feed!FeedSpec

-----------------------------------------------------------------------------
(* Duplicates.  A row is sent once for the pollers, which is over when it  *)
(* is marked, and once by each binlog reader that has passed it since it   *)
(* started; whoever loses what it has done pays with a fault.              *)

\* A poller has sent the row: it is marked, or about to be.
PollersDone(i) == i \in published \/ \E q \in Pollers : pc[q] = "sent" /\ holds[q] = i

\* The binlog readers that have sent the row since they started.
Past(i) == {c \in Streamers :
    /\ pc[c] # "down"
    /\ \/ pc[c] = "sent" /\ holds[c] = i
       \/ \E k \in 1..pos[c] : binlog[k] = i}

\* The binlog lists a row once.
Distinct == \A k, m \in DOMAIN binlog : binlog[k] = binlog[m] => k = m

\* The row a poller has locked is not marked.
Locked == \A q \in Pollers : Busy(q) => holds[q] \notin published

WithinCount(i) ==
    sends[i] <= (IF Pollers # {} /\ PollersDone(i) THEN 1 ELSE 0) + Cardinality(Past(i)) + faults

Counted == IInv /\ Distinct /\ Locked /\ \A i \in Ids : WithinCount(i)

LEMMA Sizes ==
    ASSUME NEW S \in SUBSET Streamers, NEW T \in SUBSET Streamers, NEW r, S \ {r} \subseteq T
    PROVE  /\ Cardinality(S) \in Nat /\ Cardinality(T) \in Nat
           /\ Cardinality(S) <= Cardinality(T) + 1
           /\ (r \in S => r \in T) => Cardinality(S) <= Cardinality(T)
           /\ r \notin S /\ r \in T => Cardinality(S) + 1 <= Cardinality(T)
<1>1. IsFiniteSet(S) /\ IsFiniteSet(T)
  BY RelayAssumption, FS_Subset
<1>2. Cardinality(S) \in Nat /\ Cardinality(T) \in Nat
  BY <1>1, FS_CardinalityType
<1>3. IsFiniteSet(S \ {r}) /\ Cardinality(S \ {r}) = IF r \in S THEN Cardinality(S) - 1 ELSE Cardinality(S)
  BY <1>1, FS_RemoveElement
<1>4. Cardinality(S \ {r}) <= Cardinality(T)
  BY <1>1, FS_Subset
<1>5. ASSUME r \in S => r \in T PROVE Cardinality(S) <= Cardinality(T)
  <2>1. S \in SUBSET T
    BY <1>5
  <2>. QED
    BY <2>1, <1>1, FS_Subset
<1>6. ASSUME r \notin S, r \in T PROVE Cardinality(S) + 1 <= Cardinality(T)
  <2>1. Cardinality(S \cup {r}) = Cardinality(S) + 1
    BY <1>1, <1>6, FS_AddElement
  <2>2. S \cup {r} \in SUBSET T
    BY <1>6
  <2>. QED
    BY <2>1, <2>2, <1>1, FS_Subset
<1>. QED
  BY <1>2, <1>3, <1>4, <1>5, <1>6

\* The step of one relay keeps a row's count: nothing is sent, or a fault pays for it or
\* for what is lost, or the pollers' one or the reader's one is used.
LEMMA CountIsKept ==
    ASSUME Counted, Types', NEW r, NEW i \in Ids, Past(i) \ {r} \subseteq Past(i)',
           LET done == PollersDone(i) => PollersDone(i)'
               past == r \in Past(i) => r \in Past(i)'
           IN  \/ /\ done /\ past
                  /\ sends'[i] = sends[i] /\ faults <= faults'
               \/ /\ done /\ past
                  /\ sends'[i] <= sends[i] + 1 /\ faults' = faults + 1
               \/ /\ done \/ past
                  /\ sends'[i] = sends[i] /\ faults' = faults + 1
               \/ /\ Pollers # {} /\ ~PollersDone(i) /\ PollersDone(i)' /\ past
                  /\ sends'[i] = sends[i] + 1 /\ faults' = faults
               \/ /\ r \notin Past(i) /\ r \in Past(i)' /\ done
                  /\ sends'[i] = sends[i] + 1 /\ faults' = faults
    PROVE  WithinCount(i)'
<1>1. WithinCount(i) /\ sends[i] \in Nat /\ faults \in Nat /\ sends'[i] \in Nat /\ faults' \in Nat
  BY DEF Counted, IInv, Types
<1>2. Past(i) \in SUBSET Streamers /\ Past(i)' \in SUBSET Streamers
  BY DEF Past
<1>3. /\ Cardinality(Past(i)) \in Nat /\ Cardinality(Past(i)') \in Nat
      /\ Cardinality(Past(i)) <= Cardinality(Past(i)') + 1
      /\ (r \in Past(i) => r \in Past(i)') => Cardinality(Past(i)) <= Cardinality(Past(i)')
      /\ r \notin Past(i) /\ r \in Past(i)' => Cardinality(Past(i)) + 1 <= Cardinality(Past(i)')
  BY <1>2, Sizes
<1>. QED
  BY <1>1, <1>3 DEF WithinCount

\* What the other relays have done is done.
LEMMA OthersHaveDone ==
    ASSUME Types, NEW r \in Relays, UNCHANGED binlog, published \subseteq published',
           \A s \in Relays \ {r} : pc'[s] = pc[s] /\ holds'[s] = holds[s] /\ pos'[s] = pos[s],
           NEW i \in Ids
    PROVE  /\ Past(i) \ {r} \subseteq Past(i)'
           /\ PollersDone(i) => PollersDone(i)' \/ (r \in Pollers /\ pc[r] = "sent" /\ holds[r] = i)
<1>1. Past(i) \ {r} \subseteq Past(i)'
  BY DEF Past, Relays
<1>2. PollersDone(i) => PollersDone(i)' \/ (r \in Pollers /\ pc[r] = "sent" /\ holds[r] = i)
  BY DEF PollersDone, Relays
<1>. QED
  BY <1>1, <1>2

LEMMA CountInitially == Init => Counted
<1>. SUFFICES ASSUME Init PROVE Counted
  OBVIOUS
<1>1. IInv
  BY InitOK
<1>2. Distinct /\ Locked
  BY DEF Init, Distinct, Locked, Busy, Relays
<1>3. ASSUME NEW i \in Ids PROVE WithinCount(i)
  <2>1. Past(i) \in SUBSET Streamers
    BY DEF Past
  <2>2. Cardinality(Past(i)) \in Nat
    BY <2>1, Sizes
  <2>3. sends[i] = 0 /\ faults = 0
    BY <1>1 DEF Init
  <2>. QED
    BY <2>2, <2>3 DEF WithinCount
<1>. QED
  BY <1>1, <1>2, <1>3 DEF Counted

\* The services' transactions send nothing.
LEMMA CountOfTable ==
    ASSUME Counted, IInv', NEW i \in Ids, Insert(i) \/ CommitRow(i) \/ RollbackRow(i)
    PROVE  Counted'
<1>1. Types /\ Types' /\ Logged /\ Distinct /\ Locked
  BY DEF Counted, IInv
<1>2. UNCHANGED <<published, pc, holds, pos, open, sends, faults>>
  BY DEF Insert, CommitRow, RollbackRow
<1>3. binlog' = binlog \/ (binlog' = Append(binlog, i) /\ row[i] = "open")
  BY DEF Insert, CommitRow, RollbackRow
<1>4. /\ Len(binlog) \in Nat /\ DOMAIN binlog = 1..Len(binlog)
      /\ \A k \in DOMAIN binlog : k \in DOMAIN binlog' /\ binlog'[k] = binlog[k]
  <2>1. Len(binlog) \in Nat /\ DOMAIN binlog = 1..Len(binlog) /\ binlog \in Seq(Ids)
    BY <1>1 DEF Types
  <2>2. CASE binlog' = Append(binlog, i)
    BY <2>1, <2>2
  <2>. QED
    BY <2>1, <2>2, <1>3
<1>5. Distinct'
  <2>1. CASE binlog' = binlog
    BY <2>1, <1>1 DEF Distinct
  <2>2. CASE binlog' = Append(binlog, i) /\ row[i] = "open"
    <3>1. \A k \in DOMAIN binlog : binlog[k] # i
      BY <2>2, <1>1 DEF Logged, Committed
    <3>2. DOMAIN binlog' = DOMAIN binlog \cup {Len(binlog) + 1} /\ binlog'[Len(binlog) + 1] = i
      BY <2>2, <1>1, <1>4 DEF Types
    <3>. QED
      BY <3>1, <3>2, <1>1, <1>4 DEF Distinct
  <2>. QED
    BY <2>1, <2>2, <1>3
<1>6. Locked'
  BY <1>1, <1>2 DEF Locked, Busy
<1>7. ASSUME NEW j \in Ids PROVE WithinCount(j)'
  <2>1. ASSUME NEW c \in Past(j) PROVE c \in Past(j)'
    <3>1. c \in Streamers /\ c \in Relays /\ pos[c] \in Nat /\ pos[c] <= Len(binlog)
      BY <1>1 DEF Past, Relays, Types, Counted, IInv, Ready
    <3>2. \A k \in 1..pos[c] : k \in DOMAIN binlog
      BY <3>1, <1>4
    <3>. QED
      BY <3>2, <1>2, <1>4 DEF Past
  <2>2. PollersDone(j) => PollersDone(j)'
    BY <1>2 DEF PollersDone
  <2>3. sends'[j] = sends[j] /\ faults <= faults'
    BY <1>1, <1>2 DEF Types
  <2>. QED
    BY <2>1, <2>2, <2>3, <1>1, CountIsKept
<1>. QED
  BY <1>5, <1>6, <1>7 DEF Counted

\* The row a relay has selected was sent neither by the pollers, if it is one, nor by the
\* reader since it started.
LEMMA SelectedIsNew ==
    ASSUME Counted, NEW r \in Relays, pc[r] = "selected"
    PROVE  /\ holds[r] \in Ids
           /\ r \in Pollers => ~PollersDone(holds[r])
           /\ r \notin Past(holds[r])
<1>1. Types /\ Logged /\ Exclusive /\ Ready(r) /\ Distinct /\ Locked
  BY DEF Counted, IInv
<1>2. holds[r] \in Ids /\ holds[r] # 0
  BY <1>1, RelayAssumption DEF Ready, Busy, Committed, Ids
<1>3. r \in Pollers => ~PollersDone(holds[r])
  BY <1>1, <1>2 DEF PollersDone, Locked, Busy, Exclusive
<1>4. r \notin Past(holds[r])
  <2>. SUFFICES ASSUME r \in Streamers, NEW k \in 1..pos[r], binlog[k] = holds[r] PROVE FALSE
    BY DEF Past
  <2>1. pos[r] \in Nat /\ pos[r] < Len(binlog) /\ holds[r] = binlog[pos[r] + 1] /\ Len(binlog) \in Nat
    BY <1>1 DEF Types, Ready, Busy
  <2>2. k \in DOMAIN binlog /\ pos[r] + 1 \in DOMAIN binlog /\ k # pos[r] + 1
    BY <2>1, <1>1 DEF Types
  <2>. QED
    BY <2>1, <2>2, <1>1 DEF Distinct
<1>. QED
  BY <1>2, <1>3, <1>4

LEMMA CountOfRelay ==
    ASSUME Counted, IInv', NEW r \in Relays,
           Relay(r) \/ PublishBreaks(r) \/ MarkFails(r) \/ ChannelLost(r) \/ Crash(r) \/ Restart(r)
    PROVE  Counted'
<1>1. Types /\ Types' /\ Ready(r) /\ Distinct /\ Locked
  BY DEF Counted, IInv
<1>2. UNCHANGED <<row, binlog, saw>> /\ published \subseteq published'
      /\ \A s \in Relays \ {r} : pc'[s] = pc[s] /\ holds'[s] = holds[s] /\ pos'[s] = pos[s]
  BY <1>1 DEF Relay, Select, ReadRow, PublishFails, Publish, Mark, AfterMark, PublishBreaks, MarkFails,
              ChannelLost, Crash, Restart, Goto, Types, table
<1>3. Distinct'
  BY <1>1, <1>2 DEF Distinct
<1>4. Locked'
  <2>1. \A q \in Pollers \ {r} : Busy(q)' => holds'[q] \notin published
    BY <1>1, <1>2 DEF Locked, Busy, Relays
  <2>2. CASE Mark(r)
    <3>1. pc'[r] = "idle"
      BY <2>2, <1>1 DEF Mark, AfterMark, Goto, Types
    <3>2. \A q \in Pollers \ {r} : holds'[q] \notin published' \ published
      BY <2>2, <1>2 DEF Mark, Relays
    <3>. QED
      BY <3>1, <3>2, <2>1 DEF Locked, Busy
  <2>3. CASE Select(r)
    BY <2>1, <2>3, <1>1 DEF Select, Selected, Unpublished, Goto, Locked, Types, table
  <2>4. CASE ~Mark(r) /\ ~Select(r)
    <3>1. published' = published
      BY <2>4 DEF Relay, ReadRow, PublishFails, Publish, PublishBreaks, MarkFails, ChannelLost,
                  Crash, Restart, table
    <3>2. r \in Pollers /\ Busy(r)' => Busy(r) /\ holds'[r] = holds[r]
      BY <2>4, <1>1, RelayAssumption DEF Relay, ReadRow, PublishFails, Publish, PublishBreaks, MarkFails,
                  AfterMark, ChannelLost, Crash, Restart, Goto, Busy, Types
    <3>. QED
      BY <3>1, <3>2, <2>1, <1>1 DEF Locked
  <2>. QED
    BY <2>2, <2>3, <2>4
<1>5. ASSUME NEW i \in Ids PROVE WithinCount(i)'
  <2>1. /\ Past(i) \ {r} \subseteq Past(i)'
        /\ PollersDone(i) => PollersDone(i)' \/ (r \in Pollers /\ pc[r] = "sent" /\ holds[r] = i)
    BY <1>1, <1>2, OthersHaveDone
  <2>2. r \in Pollers => r \notin Past(i)
    BY RelayAssumption DEF Past
  <2>3. faults \in Nat /\ sends[i] \in Nat
    BY <1>1 DEF Types
  <2>4. CASE Select(r) \/ ReadRow(r) \/ PublishFails(r) \/ ChannelLost(r) \/ Restart(r)
    <3>1. sends' = sends /\ faults <= faults'
      BY <2>3, <2>4 DEF Select, ReadRow, PublishFails, ChannelLost, Restart, Fault
    <3>2. PollersDone(i) => PollersDone(i)'
      <4>1. pc[r] # "sent" \/ UNCHANGED <<pc, holds, published>>
        BY <2>4 DEF Select, ReadRow, PublishFails, ChannelLost, Restart, table
      <4>. QED
        BY <4>1, <2>1 DEF PollersDone
    <3>3. r \in Past(i) => r \in Past(i)'
      <4>1. /\ pc[r] = "down" \/ pos' = pos
            /\ pc[r] = "down" \/ pc'[r] # "down"
            /\ pc[r] # "sent" \/ UNCHANGED <<pc, holds>>
        BY <2>4, <1>1 DEF Select, ReadRow, PublishFails, ChannelLost, Restart, Goto, Types
      <4>. QED
        BY <4>1, <1>2 DEF Past
    <3>. QED
      BY <3>1, <3>2, <3>3, <2>1, <1>1, CountIsKept
  <2>5. CASE Publish(r)
    <3>1. /\ pc[r] = "selected" /\ pc'[r] = "sent" /\ holds'[r] = holds[r] /\ pos'[r] = pos[r]
          /\ sends' = [sends EXCEPT ![holds[r]] = @ + 1] /\ faults' = faults
      BY <2>5, <1>1 DEF Publish, Goto, Types
    <3>2. holds[r] \in Ids /\ (r \in Pollers => ~PollersDone(holds[r])) /\ r \notin Past(holds[r])
      BY <3>1, SelectedIsNew
    <3>3. sends'[i] = IF i = holds[r] THEN sends[i] + 1 ELSE sends[i]
      BY <3>1, <3>2, <1>1 DEF Types
    <3>4. (PollersDone(i) => PollersDone(i)') /\ (r \in Past(i) => r \in Past(i)')
      BY <3>1, <2>1, <1>2 DEF Past
    <3>5. CASE i # holds[r]
      BY <3>1, <3>3, <3>4, <3>5, <2>1, <2>3, <1>1, CountIsKept
    <3>6. CASE i = holds[r] /\ r \in Pollers
      <4>1. PollersDone(i)'
        BY <3>1, <3>6 DEF PollersDone
      <4>. QED
        BY <4>1, <3>1, <3>2, <3>3, <3>4, <3>6, <2>1, <1>1, CountIsKept
    <3>7. CASE i = holds[r] /\ r \in Streamers
      <4>1. r \in Past(i)'
        BY <3>1, <3>7 DEF Past
      <4>. QED
        BY <4>1, <3>1, <3>2, <3>3, <3>4, <3>7, <2>1, <1>1, CountIsKept
    <3>. QED
      BY <3>5, <3>6, <3>7 DEF Relays
  <2>6. CASE PublishBreaks(r)
    <3>1. /\ pc[r] = "selected" /\ pc'[r] # "down" /\ pos' = pos /\ faults' = faults + 1
      BY <2>6, <1>1 DEF PublishBreaks, Fault, Goto, Types
    <3>2. sends'[i] <= sends[i] + 1
      <4>1. PICK left \in {0, 1} : sends' = [sends EXCEPT ![holds[r]] = @ + left]
        BY <2>6 DEF PublishBreaks
      <4>. QED
        BY <4>1, <2>3, <1>1 DEF Types
    <3>3. (PollersDone(i) => PollersDone(i)') /\ (r \in Past(i) => r \in Past(i)')
      BY <3>1, <2>1, <1>2 DEF Past
    <3>. QED
      BY <3>1, <3>2, <3>3, <2>1, <1>1, CountIsKept
  <2>7. CASE Mark(r) \/ MarkFails(r)
    <3>1. /\ pc[r] = "sent" /\ pc'[r] = "idle" /\ sends' = sends
          /\ pos'[r] = IF r \in Streamers THEN pos[r] + 1 ELSE pos[r]
      BY <2>7, <1>1 DEF Mark, MarkFails, AfterMark, Goto, Types
    <3>2. r \in Past(i) => r \in Past(i)'
      <4>. SUFFICES ASSUME r \in Past(i) PROVE r \in Past(i)'
        OBVIOUS
      <4>1. /\ r \in Streamers /\ pos[r] \in Nat /\ holds[r] = binlog[pos[r] + 1]
            /\ holds[r] = i \/ \E k \in 1..pos[r] : binlog[k] = i
        BY <3>1, <1>1 DEF Past, Ready, Busy, Types
      <4>2. \E k \in 1..pos'[r] : binlog'[k] = i
        BY <4>1, <3>1, <1>2
      <4>. QED
        BY <4>1, <4>2, <3>1 DEF Past
    <3>3. CASE Mark(r)
      <4>1. PollersDone(i) => PollersDone(i)'
        BY <3>3, <2>1 DEF Mark, PollersDone
      <4>2. faults' = faults
        BY <3>3 DEF Mark
      <4>. QED
        BY <4>1, <4>2, <3>1, <3>2, <2>1, <2>3, <1>1, CountIsKept
    <3>4. CASE MarkFails(r)
      <4>1. faults' = faults + 1
        BY <3>4 DEF MarkFails, Fault
      <4>. QED
        BY <4>1, <3>1, <3>2, <2>1, <1>1, CountIsKept
    <3>. QED
      BY <2>7, <3>3, <3>4
  <2>8. CASE Crash(r)
    <3>1. sends' = sends /\ faults' = faults + 1
      BY <2>8 DEF Crash, Fault
    <3>2. (PollersDone(i) => PollersDone(i)') \/ (r \in Past(i) => r \in Past(i)')
      BY <2>1, <2>2
    <3>. QED
      BY <3>1, <3>2, <2>1, <1>1, CountIsKept
  <2>. QED
    BY <2>4, <2>5, <2>6, <2>7, <2>8 DEF Relay
<1>. QED
  BY <1>3, <1>4, <1>5 DEF Counted

LEMMA CountNext == Counted /\ [Next]_vars => Counted'
<1>. SUFFICES ASSUME Counted, [Next]_vars PROVE Counted'
  OBVIOUS
<1>1. IInv'
  BY NextOK DEF Counted
<1>2. CASE UNCHANGED vars
  <2>1. \A i \in Ids : Past(i)' = Past(i) /\ (PollersDone(i)' <=> PollersDone(i))
    BY <1>2 DEF vars, table, Past, PollersDone
  <2>2. \A i \in Ids : WithinCount(i)'
    BY <2>1, <1>2 DEF vars, Counted, WithinCount
  <2>3. Distinct' /\ Locked'
    BY <1>2 DEF vars, table, Counted, Distinct, Locked, Busy
  <2>. QED
    BY <1>1, <2>2, <2>3 DEF Counted
<1>. QED
  BY <1>1, <1>2, CountOfTable, CountOfRelay DEF Next

LEMMA CountEnough == Counted => DuplicatesNeedFaults
<1>. SUFFICES ASSUME Counted, NEW i \in Ids
              PROVE  sends[i] <= (IF Pollers = {} THEN 0 ELSE 1) + Cardinality(Streamers) + faults
  BY DEF DuplicatesNeedFaults
<1>1. WithinCount(i) /\ sends[i] \in Nat /\ faults \in Nat
  BY DEF Counted, IInv, Types
<1>2. Past(i) \in SUBSET Streamers
  BY DEF Past
<1>3. /\ Cardinality(Past(i)) \in Nat /\ Cardinality(Streamers) \in Nat
      /\ Cardinality(Past(i)) <= Cardinality(Streamers)
  BY <1>2, RelayAssumption, FS_Subset, FS_CardinalityType
<1>. QED
  BY <1>1, <1>3 DEF WithinCount

\* Only a fault makes a duplicate: a row is sent once by all the pollers together, once by
\* each binlog reader, and at most once more for every crash, lost channel or failed
\* statement.
THEOREM FewDuplicates == Spec => []DuplicatesNeedFaults
BY CountInitially, CountNext, CountEnough, PTL DEF Spec
=============================================================================
