----------------------------- MODULE HttpApiProofs -----------------------------
(***************************************************************************)
(* What holds of HttpApi for any numbers of customers, operators, attempts,*)
(* SIGTERMs and faults.                                                    *)
(*                                                                         *)
(* The argument: what a handler may decide depends on what its transaction *)
(* has committed (Durable, Conflict, Doubt), the row lock admits one       *)
(* settlement that is not refused (Exclusive), an attempt begins only when *)
(* those before it have failed (InTurn), and without a fault a request     *)
(* that is on its way still has a client (Waited).                         *)
(***************************************************************************)
EXTENDS HttpApi, FiniteSetTheorems, TLAPS

Under == {"gateway"} \cup InHandler
InTransaction == {"written", "announced"}
IsBet(r) == r[1] \in Customers
IsSettlement(r) == r[1] \in Operators

Types ==
    /\ server \in [Servers -> {"up", "draining", "down"}]
    /\ pc \in [Requests ->
           {"idle", "gateway", "bounced", "panicked", "ended", "cut"} \cup InHandler]
    /\ reply \in [Requests -> {NoAnswer, 201, 202, 400, 409, 500, 503}]
    /\ answer \in [Requests -> {NoAnswer, Pending, 201, 202, 400, 409, 500, 502, 503}]
    /\ bets \subseteq {r \in Requests : IsBet(r)}
    /\ settled \subseteq {r \in Requests : IsSettlement(r)}
    /\ terms \in 0 .. MaxTerms /\ faults \in 0 .. MaxFaults
    /\ events = bets \cup settled

\* A handler that is about to reply has a status, and only such a one has.
Decided(r) == reply[r] # NoAnswer <=> pc[r] = "replying"

\* A request that is on its way has no status yet.
Unanswered(r) ==
    /\ pc[r] = "idle" => answer[r] = NoAnswer
    /\ pc[r] \in Under => answer[r] \in {NoAnswer, Pending, 502}

\* What is committed was committed by a handler that has come to its end.
Committed(r) == r \in events => pc[r] \in {"replying", "ended", "cut"}

Durable(r) == reply[r] \in Success \/ answer[r] \in Success => r \in events

Conflict(r) == reply[r] = 409 \/ answer[r] = 409 => \E q \in settled : q # r

Doubt(r) == r \in bets => /\ reply[r] \in {NoAnswer, 201, 500}
                          /\ answer[r] \in {NoAnswer, Pending, 201, 500, 502}

Waited(r) ==
    faults = 0 => /\ pc[r] # "cut"
                  /\ pc[r] \in Under => answer[r] = Pending
                  /\ pc[r] = "ended" => answer[r] \notin {NoAnswer, Pending, 502}

\* The row lock, and the status that is read under it.
Exclusive ==
    /\ \A q, r \in Requests :
           IsSettlement(q) /\ IsSettlement(r) /\ {pc[q], pc[r]} \subseteq InTransaction => q = r
    /\ \A r \in Requests : IsSettlement(r) /\ pc[r] \in InTransaction => settled = {}
    /\ \A q, r \in settled : q = r

InTurn ==
    \A c \in Clients, i, j \in 1 .. MaxTries :
        i < j /\ pc[<<c, j>>] # "idle" =>
            pc[<<c, i>>] # "idle" /\ answer[<<c, i>>] \notin Success \cup {Pending}

One(r) == /\ Decided(r) /\ Unanswered(r) /\ Committed(r) /\ Durable(r)
          /\ Conflict(r) /\ Doubt(r) /\ Waited(r)

IInv == Types /\ Exclusive /\ InTurn /\ \A r \in Requests : One(r)

-----------------------------------------------------------------------------

LEMMA InitOK == Init => IInv
<1>. SUFFICES ASSUME Init PROVE IInv
  OBVIOUS
<1>1. Types
  <2>1. server \in [Servers -> {"up", "draining", "down"}]
    BY DEF Init
  <2>2. pc \in [Requests ->
            {"idle", "gateway", "bounced", "panicked", "ended", "cut"} \cup InHandler]
    BY DEF Init
  <2>3. /\ reply \in [Requests -> {NoAnswer, 201, 202, 400, 409, 500, 503}]
        /\ answer \in [Requests -> {NoAnswer, Pending, 201, 202, 400, 409, 500, 502, 503}]
    BY DEF Init
  <2>4. bets = {} /\ settled = {} /\ events = {} /\ terms \in 0 .. MaxTerms /\ faults \in 0 .. MaxFaults
    BY HttpAssumption DEF Init
  <2>. QED
    BY <2>1, <2>2, <2>3, <2>4 DEF Types
<1>2. Exclusive
  <2>1. settled = {} /\ \A r \in Requests : pc[r] \notin InTransaction
    BY DEF Init, InTransaction
  <2>. QED
    BY <2>1 DEF Exclusive
<1>3. InTurn
  <2>. SUFFICES ASSUME NEW c \in Clients, NEW j \in 1 .. MaxTries PROVE pc[<<c, j>>] = "idle"
    BY DEF InTurn
  <2>. QED
    BY DEF Init, Requests
<1>4. ASSUME NEW r \in Requests PROVE One(r)
  <2>1. pc[r] = "idle" /\ reply[r] = NoAnswer /\ answer[r] = NoAnswer /\ r \notin events /\ r \notin bets
    BY DEF Init
  <2>. QED
    BY <2>1 DEF One, Decided, Unanswered, Committed, Durable, Conflict, Doubt, Waited, Under,
                InHandler, Success, NoAnswer, Pending
<1>. QED
  BY <1>1, <1>2, <1>3, <1>4 DEF IInv

\* A request that does not move, while others commit and fail.
LEMMA OneIsKept ==
    ASSUME NEW q \in Requests, One(q), pc'[q] = pc[q], reply'[q] = reply[q],
           answer'[q] = answer[q], events \subseteq events', settled \subseteq settled',
           q \in events' => q \in events, q \in bets' => q \in bets, faults' = 0 => faults = 0
    PROVE  One(q)'
<1>1. Decided(q)' /\ Unanswered(q)' /\ Committed(q)' /\ Durable(q)'
  BY DEF One, Decided, Unanswered, Committed, Durable
<1>2. Conflict(q)' /\ Doubt(q)' /\ Waited(q)'
  BY DEF One, Conflict, Doubt, Waited
<1>. QED
  BY <1>1, <1>2 DEF One

\* Attempts stay in turn when none begins and no answer is waited for again.
LEMMA TurnIsKept ==
    ASSUME IInv, \A r \in Requests : /\ pc'[r] = "idle" <=> pc[r] = "idle"
                                     /\ answer[r] # Pending => answer'[r] = answer[r]
    PROVE  InTurn'
<1>. SUFFICES ASSUME NEW c \in Clients, NEW i \in 1 .. MaxTries, NEW j \in 1 .. MaxTries,
                     i < j, pc'[<<c, j>>] # "idle"
              PROVE  pc'[<<c, i>>] # "idle" /\ answer'[<<c, i>>] \notin Success \cup {Pending}
  BY DEF InTurn
<1>1. <<c, i>> \in Requests /\ <<c, j>> \in Requests
  BY DEF Requests
<1>2. pc[<<c, i>>] # "idle" /\ answer[<<c, i>>] \notin Success \cup {Pending}
  BY <1>1 DEF IInv, InTurn
<1>. QED
  BY <1>1, <1>2

\* The step of one request that commits nothing.
LEMMA QuietStep ==
    ASSUME IInv, NEW r \in Requests, UNCHANGED <<bets, settled, events>>, Types',
           \A q \in Requests \ {r} : pc'[q] = pc[q] /\ reply'[q] = reply[q] /\ answer'[q] = answer[q],
           faults' = 0 => faults = 0, InTurn', One(r)',
           IsSettlement(r) /\ pc'[r] \in InTransaction =>
               \/ pc[r] \in InTransaction
               \/ settled = {} /\ \A q \in Requests : IsSettlement(q) => pc[q] \notin InTransaction
    PROVE  IInv'
<1>1. ASSUME NEW q \in Requests \ {r} PROVE One(q)'
  BY OneIsKept DEF IInv
<1>2. Exclusive'
  BY DEF IInv, Exclusive
<1>. QED
  BY <1>1, <1>2 DEF IInv

-----------------------------------------------------------------------------
(* Client and gateway.                                                     *)

LEMMA SendOK ==
    ASSUME IInv, NEW r \in Requests, Send(r)
    PROVE  IInv'
<1>1. /\ pc[r] = "idle"
      /\ pc' = [pc EXCEPT ![r] = "gateway"]
      /\ answer' = [answer EXCEPT ![r] = Pending]
      /\ UNCHANGED <<server, reply, bets, settled, events, terms, faults>>
  BY DEF Send, Goto, tables
<1>2. Types /\ One(r) /\ InTurn
  BY DEF IInv
<1>3. Types'
  BY <1>1, <1>2 DEF Types
<1>4. pc'[r] = "gateway" /\ answer'[r] = Pending
      /\ \A q \in Requests \ {r} : pc'[q] = pc[q] /\ answer'[q] = answer[q]
  BY <1>1, <1>2 DEF Types
<1>5. One(r)'
  BY <1>1, <1>2, <1>4 DEF One, Decided, Unanswered, Committed, Durable, Conflict, Doubt, Waited,
                          Under, InHandler, Success, NoAnswer, Pending
<1>6. InTurn'
  <2>. SUFFICES ASSUME NEW c \in Clients, NEW i \in 1 .. MaxTries, NEW j \in 1 .. MaxTries,
                       i < j, pc'[<<c, j>>] # "idle"
                PROVE  pc'[<<c, i>>] # "idle" /\ answer'[<<c, i>>] \notin Success \cup {Pending}
    BY DEF InTurn
  <2>1. <<c, i>> \in Requests /\ <<c, j>> \in Requests
    BY DEF Requests
  <2>2. CASE <<c, j>> # r
    <3>1. pc[<<c, i>>] # "idle" /\ answer[<<c, i>>] \notin Success \cup {Pending}
      BY <2>1, <2>2, <1>2, <1>4 DEF InTurn
    <3>2. <<c, i>> # r
      BY <3>1, <1>1
    <3>. QED
      BY <3>1, <3>2, <2>1, <1>4
  <2>3. CASE <<c, j>> = r
    <3>. DEFINE before == <<c, j - 1>>
    <3>1. j - 1 \in 1 .. MaxTries /\ j > 1 /\ (i = j - 1 \/ i < j - 1)
      BY HttpAssumption
    <3>2. pc[before] # "idle" /\ answer[before] \notin Success \cup {Pending}
      BY <2>3, <3>1 DEF Send
    <3>3. pc[<<c, i>>] # "idle" /\ answer[<<c, i>>] \notin Success \cup {Pending}
      <4>1. CASE i = j - 1
        BY <4>1, <3>2
      <4>2. CASE i < j - 1
        BY <4>2, <3>1, <3>2, <1>2 DEF InTurn
      <4>. QED
        BY <4>1, <4>2, <3>1
    <3>4. <<c, i>> # r
      BY <3>3, <1>1
    <3>. QED
      BY <3>3, <3>4, <2>1, <1>4
  <2>. QED
    BY <2>2, <2>3
<1>7. pc'[r] \notin InTransaction
  BY <1>4 DEF InTransaction
<1>. QED
  BY <1>1, <1>3, <1>4, <1>5, <1>6, <1>7, QuietStep

LEMMA ForwardOK ==
    ASSUME IInv, NEW r \in Requests, Forward(r)
    PROVE  IInv'
<1>1. /\ pc[r] = "gateway"
      /\ \/ pc' = [pc EXCEPT ![r] = "handling"] /\ UNCHANGED answer
         \/ /\ pc' = [pc EXCEPT ![r] = "bounced"]
            /\ answer' = [answer EXCEPT ![r] = IF @ = Pending THEN 502 ELSE @]
      /\ UNCHANGED <<server, reply, bets, settled, events, terms, faults>>
  BY DEF Forward, Goto, Answered, tables
<1>2. Types /\ One(r)
  BY DEF IInv
<1>3. Types'
  <2>1. pc' \in [Requests ->
            {"idle", "gateway", "bounced", "panicked", "ended", "cut"} \cup InHandler]
    BY <1>1, <1>2 DEF Types, InHandler
  <2>2. answer' \in [Requests -> {NoAnswer, Pending, 201, 202, 400, 409, 500, 502, 503}]
    BY <1>1, <1>2 DEF Types
  <2>. QED
    BY <2>1, <2>2, <1>1, <1>2 DEF Types
<1>4. /\ \/ pc'[r] = "handling" /\ answer'[r] = answer[r]
         \/ pc'[r] = "bounced" /\ answer'[r] \in {NoAnswer, 502}
      /\ \A q \in Requests \ {r} : pc'[q] = pc[q] /\ answer'[q] = answer[q]
      /\ answer[r] # Pending => answer'[r] = answer[r]
  BY <1>1, <1>2 DEF Types, One, Unanswered, Under
<1>5. One(r)'
  BY <1>1, <1>2, <1>4 DEF One, Decided, Unanswered, Committed, Durable, Conflict, Doubt, Waited,
                          Under, InHandler, Success, NoAnswer, Pending
<1>6. InTurn'
  BY <1>1, <1>4, TurnIsKept
<1>7. pc'[r] \notin InTransaction
  BY <1>4 DEF InTransaction
<1>. QED
  BY <1>1, <1>3, <1>4, <1>5, <1>6, <1>7, QuietStep

LEMMA ReplyOK ==
    ASSUME IInv, NEW r \in Requests, Reply(r)
    PROVE  IInv'
<1>1. /\ pc[r] = "replying"
      /\ pc' = [pc EXCEPT ![r] = "ended"]
      /\ answer' = [answer EXCEPT ![r] = IF @ = Pending THEN reply[r] ELSE @]
      /\ reply' = [reply EXCEPT ![r] = NoAnswer]
      /\ UNCHANGED <<server, bets, settled, events, terms, faults>>
  BY DEF Reply, Goto, Answered, tables
<1>2. Types /\ One(r)
  BY DEF IInv
<1>3. reply[r] \in {201, 202, 400, 409, 500, 503} /\ answer[r] \in {NoAnswer, Pending, 502}
  BY <1>1, <1>2 DEF Types, One, Decided, Unanswered, Under, InHandler
<1>4. /\ pc'[r] = "ended" /\ reply'[r] = NoAnswer
      /\ answer'[r] = IF answer[r] = Pending THEN reply[r] ELSE answer[r]
      /\ \A q \in Requests \ {r} : pc'[q] = pc[q] /\ answer'[q] = answer[q] /\ reply'[q] = reply[q]
  BY <1>1, <1>2 DEF Types
<1>5. Types'
  BY <1>1, <1>2, <1>3 DEF Types
<1>6. Decided(r)' /\ Unanswered(r)' /\ Committed(r)'
  BY <1>4 DEF Decided, Unanswered, Committed, Under, InHandler
<1>7. Durable(r)' /\ Doubt(r)' /\ Conflict(r)'
  BY <1>1, <1>2, <1>3, <1>4 DEF One, Durable, Doubt, Conflict, Success, NoAnswer, Pending
<1>8. Waited(r)'
  BY <1>1, <1>2, <1>3, <1>4 DEF One, Waited, Under, InHandler, NoAnswer, Pending
<1>9. InTurn'
  BY <1>1, <1>4, TurnIsKept
<1>10. pc'[r] \notin InTransaction
  BY <1>4 DEF InTransaction
<1>. QED
  BY <1>1, <1>4, <1>5, <1>6, <1>7, <1>8, <1>9, <1>10, QuietStep DEF One

LEMMA DisconnectOK ==
    ASSUME IInv, NEW r \in Requests, Disconnect(r)
    PROVE  IInv'
<1>1. PICK what \in {NoAnswer, 502} : answer' = [answer EXCEPT ![r] = what]
  BY DEF Disconnect
<1>2. /\ answer[r] = Pending /\ faults < MaxFaults /\ faults' = faults + 1
      /\ UNCHANGED <<server, pc, reply, bets, settled, events, terms>>
  BY DEF Disconnect, tables
<1>3. Types /\ One(r)
  BY DEF IInv
<1>4. answer'[r] = what /\ \A q \in Requests \ {r} : answer'[q] = answer[q]
  BY <1>1, <1>3 DEF Types
<1>5. faults' \in 0 .. MaxFaults /\ faults' # 0
  BY <1>2, <1>3, HttpAssumption DEF Types
<1>6. Types'
  BY <1>1, <1>2, <1>3, <1>5 DEF Types
<1>7. One(r)'
  BY <1>1, <1>2, <1>3, <1>4, <1>5 DEF One, Decided, Unanswered, Committed, Durable, Conflict, Doubt,
                          Waited, Under, InHandler, Success, NoAnswer, Pending
<1>8. InTurn'
  BY <1>2, <1>4, TurnIsKept
<1>. QED
  BY <1>2, <1>4, <1>5, <1>6, <1>7, <1>8, QuietStep

-----------------------------------------------------------------------------
(* The handlers.                                                           *)

\* A handler decides on a refusal or a failure.
LEMMA DecideOK ==
    ASSUME IInv, NEW r \in Requests, NEW status \in {400, 409, 500, 503}, Decide(r, status),
           pc[r] \in {"handling", "written", "announced"}, status = 409 => settled # {},
           UNCHANGED <<server, answer, tables, terms, faults>>
    PROVE  IInv'
<1>1. /\ reply' = [reply EXCEPT ![r] = status]
      /\ pc' = [pc EXCEPT ![r] = "replying"]
      /\ UNCHANGED <<server, answer, bets, settled, events, terms, faults>>
  BY DEF Decide, Goto, tables
<1>2. Types /\ One(r)
  BY DEF IInv
<1>3. pc'[r] = "replying" /\ reply'[r] = status
      /\ \A q \in Requests \ {r} : pc'[q] = pc[q] /\ reply'[q] = reply[q]
  BY <1>1, <1>2 DEF Types
<1>4. Types'
  <2>1. pc' \in [Requests ->
            {"idle", "gateway", "bounced", "panicked", "ended", "cut"} \cup InHandler]
    BY <1>1, <1>2 DEF Types, InHandler
  <2>2. reply' \in [Requests -> {NoAnswer, 201, 202, 400, 409, 500, 503}]
    BY <1>1, <1>2 DEF Types
  <2>. QED
    BY <2>1, <2>2, <1>1, <1>2 DEF Types
<1>5. r \notin events /\ r \notin bets /\ r \notin settled
  BY <1>2 DEF One, Committed, Types
<1>6. Decided(r)' /\ Unanswered(r)' /\ Committed(r)' /\ Durable(r)' /\ Doubt(r)' /\ Waited(r)'
  BY <1>1, <1>2, <1>3, <1>5 DEF One, Decided, Unanswered, Committed, Durable, Doubt, Waited,
                                Under, InHandler, Success, NoAnswer, Pending
<1>7. Conflict(r)'
  <2>1. answer[r] # 409
    BY <1>2 DEF One, Unanswered, Under, InHandler, NoAnswer, Pending
  <2>. QED
    BY <2>1, <1>1, <1>3, <1>5 DEF Conflict
<1>8. InTurn'
  BY <1>1, <1>3, TurnIsKept
<1>9. pc'[r] \notin InTransaction
  BY <1>3 DEF InTransaction
<1>. QED
  BY <1>1, <1>3, <1>4, <1>6, <1>7, <1>8, <1>9, QuietStep DEF One

\* A handler panics before its transaction; the gateway answers for it.
LEMMA PanicOK ==
    ASSUME IInv, NEW r \in Requests, PanicBet(r)
    PROVE  IInv'
<1>1. /\ pc[r] = "handling"
      /\ pc' = [pc EXCEPT ![r] = "panicked"]
      /\ answer' = [answer EXCEPT ![r] = IF @ = Pending THEN 502 ELSE @]
      /\ UNCHANGED <<server, reply, bets, settled, events, terms, faults>>
  BY DEF PanicBet, Goto, Answered, tables
<1>2. Types /\ One(r)
  BY DEF IInv
<1>3. /\ pc'[r] = "panicked" /\ answer'[r] \in {NoAnswer, 502}
      /\ \A q \in Requests \ {r} : pc'[q] = pc[q] /\ answer'[q] = answer[q]
      /\ answer[r] # Pending => answer'[r] = answer[r]
  BY <1>1, <1>2 DEF Types, One, Unanswered, Under, InHandler
<1>4. Types'
  <2>1. pc' \in [Requests ->
            {"idle", "gateway", "bounced", "panicked", "ended", "cut"} \cup InHandler]
    BY <1>1, <1>2 DEF Types, InHandler
  <2>2. answer' \in [Requests -> {NoAnswer, Pending, 201, 202, 400, 409, 500, 502, 503}]
    BY <1>1, <1>2 DEF Types
  <2>. QED
    BY <2>1, <2>2, <1>1, <1>2 DEF Types
<1>5. One(r)'
  BY <1>1, <1>2, <1>3 DEF One, Decided, Unanswered, Committed, Durable, Conflict, Doubt, Waited,
                          Under, InHandler, Success, NoAnswer, Pending
<1>6. InTurn'
  BY <1>1, <1>3, TurnIsKept
<1>7. pc'[r] \notin InTransaction
  BY <1>3 DEF InTransaction
<1>. QED
  BY <1>1, <1>3, <1>4, <1>5, <1>6, <1>7, QuietStep

\* A handler goes on in its transaction.
LEMMA GoOnOK ==
    ASSUME IInv, NEW r \in Requests, NEW where \in InTransaction, Goto(r, where),
           pc[r] \in {"handling", "written"},
           UNCHANGED <<server, reply, answer, tables, terms, faults>>,
           IsSettlement(r) => \/ pc[r] = "written"
                              \/ settled = {} /\ RowLockFree
    PROVE  IInv'
<1>1. /\ pc' = [pc EXCEPT ![r] = where]
      /\ UNCHANGED <<server, reply, answer, bets, settled, events, terms, faults>>
  BY DEF Goto, tables
<1>2. Types /\ One(r)
  BY DEF IInv
<1>3. pc'[r] = where /\ \A q \in Requests \ {r} : pc'[q] = pc[q]
  BY <1>1, <1>2 DEF Types
<1>4. Types'
  BY <1>1, <1>2 DEF Types, InHandler, InTransaction
<1>5. One(r)'
  BY <1>1, <1>2, <1>3 DEF One, Decided, Unanswered, Committed, Durable, Conflict, Doubt, Waited,
                          Under, InHandler, InTransaction
<1>6. InTurn'
  BY <1>1, <1>3, TurnIsKept DEF InTransaction
<1>7. IsSettlement(r) =>
          \/ pc[r] \in InTransaction
          \/ settled = {} /\ \A q \in Requests : IsSettlement(q) => pc[q] \notin InTransaction
  BY DEF RowLockFree, IsSettlement, InTransaction
<1>. QED
  BY <1>1, <1>3, <1>4, <1>5, <1>6, <1>7, QuietStep

\* Either one or the other runs a request.
LEMMA Kinds == \A r \in Requests : ~(IsBet(r) /\ IsSettlement(r))
BY HttpAssumption DEF IsBet, IsSettlement

LEMMA CommitOK ==
    ASSUME IInv, NEW r \in Requests, Commit(r)
    PROVE  IInv'
<1>1. PICK status \in {IF r[1] \in Customers THEN 201 ELSE 202, 500} : Decide(r, status)
  BY DEF Commit
<1>2. /\ pc[r] = "announced"
      /\ reply' = [reply EXCEPT ![r] = status]
      /\ pc' = [pc EXCEPT ![r] = "replying"]
      /\ bets' = IF IsBet(r) THEN bets \cup {r} ELSE bets
      /\ settled' = IF IsSettlement(r) THEN settled \cup {r} ELSE settled
      /\ events' = events \cup {r}
      /\ UNCHANGED <<server, answer, terms, faults>>
  BY <1>1 DEF Commit, Decide, Goto, IsBet, IsSettlement
<1>3. Types /\ Exclusive /\ One(r) /\ status \in {201, 202, 500} /\ (IsBet(r) => status # 202)
  BY HttpAssumption DEF IInv, IsBet
<1>4. pc'[r] = "replying" /\ reply'[r] = status
      /\ \A q \in Requests \ {r} : pc'[q] = pc[q] /\ reply'[q] = reply[q]
  BY <1>2, <1>3 DEF Types
<1>5. Types'
  <2>1. pc' \in [Requests ->
            {"idle", "gateway", "bounced", "panicked", "ended", "cut"} \cup InHandler]
    BY <1>2, <1>3 DEF Types, InHandler
  <2>2. reply' \in [Requests -> {NoAnswer, 201, 202, 400, 409, 500, 503}]
    BY <1>2, <1>3 DEF Types
  <2>3. IsBet(r) \/ IsSettlement(r)
    BY DEF Requests, Clients, IsBet, IsSettlement
  <2>4. events' = bets' \cup settled' /\ bets' \subseteq {q \in Requests : IsBet(q)}
        /\ settled' \subseteq {q \in Requests : IsSettlement(q)}
    BY <2>3, <1>2, <1>3, Kinds DEF Types
  <2>. QED
    BY <2>1, <2>2, <2>4, <1>2, <1>3 DEF Types
<1>6. One(r)'
  <2>1. answer[r] \in {NoAnswer, Pending, 502}
    BY <1>2, <1>3 DEF One, Unanswered, Under, InHandler
  <2>2. Decided(r)' /\ Unanswered(r)' /\ Committed(r)' /\ Durable(r)' /\ Doubt(r)' /\ Waited(r)'
    BY <2>1, <1>2, <1>3, <1>4, Kinds DEF One, Decided, Unanswered, Committed, Durable, Doubt, Waited,
                                  Under, InHandler, Success, NoAnswer, Pending, Types
  <2>3. Conflict(r)'
    BY <2>1, <1>2, <1>3, <1>4 DEF Conflict, NoAnswer, Pending
  <2>. QED
    BY <2>2, <2>3 DEF One
<1>7. ASSUME NEW q \in Requests \ {r} PROVE One(q)'
  BY <1>2, <1>4, OneIsKept DEF IInv
<1>8. Exclusive'
  <2>1. \A q \in Requests : pc'[q] \in InTransaction => pc[q] \in InTransaction /\ q # r
    BY <1>4 DEF InTransaction
  <2>2. CASE IsSettlement(r)
    <3>1. settled = {} /\ settled' = {r}
      BY <2>2, <1>2, <1>3 DEF Exclusive, InTransaction
    <3>2. \A q \in Requests : IsSettlement(q) => pc'[q] \notin InTransaction
      BY <2>1, <2>2, <1>2, <1>3 DEF Exclusive, InTransaction
    <3>3. \A p, q \in settled' : p = q
      BY <3>1
    <3>. QED
      BY <3>2, <3>3 DEF Exclusive
  <2>3. CASE ~IsSettlement(r)
    BY <2>1, <2>3, <1>2, <1>3 DEF Exclusive
  <2>. QED
    BY <2>2, <2>3
<1>9. InTurn'
  BY <1>2, <1>4, TurnIsKept
<1>. QED
  BY <1>5, <1>6, <1>7, <1>8, <1>9 DEF IInv

LEMMA ServeOK ==
    ASSUME IInv, NEW r \in Requests, Serve(r)
    PROVE  IInv'
<1>1. CASE RefuseBet(r) \/ RefuseSettlement(r) \/ Fail(r)
  <2>1. PICK status \in {400, 500, 503} : Decide(r, status)
    BY <1>1 DEF RefuseBet, RefuseSettlement, Fail
  <2>2. pc[r] \in {"handling", "written", "announced"}
        /\ UNCHANGED <<server, answer, tables, terms, faults>>
    BY <1>1 DEF RefuseBet, RefuseSettlement, Fail
  <2>. QED
    BY <2>1, <2>2, DecideOK
<1>2. CASE SaveBet(r)
  <2>1. CASE Goto(r, "written") /\ UNCHANGED reply
    <3>1. ~IsSettlement(r)
      BY <1>2, Kinds DEF SaveBet, IsBet
    <3>. QED
      BY <1>2, <2>1, <3>1, GoOnOK DEF SaveBet, InTransaction
  <2>2. CASE Decide(r, 400)
    BY <1>2, <2>2, DecideOK DEF SaveBet
  <2>. QED
    BY <1>2, <2>1, <2>2 DEF SaveBet
<1>3. CASE SettleBet(r)
  <2>1. CASE settled = {}
    BY <1>3, <2>1, GoOnOK DEF SettleBet, InTransaction
  <2>2. CASE settled # {}
    BY <1>3, <2>2, DecideOK DEF SettleBet
  <2>. QED
    BY <2>1, <2>2
<1>4. CASE SaveEvent(r)
  BY <1>4, GoOnOK DEF SaveEvent, InTransaction
<1>. QED
  BY <1>1, <1>2, <1>3, <1>4, ForwardOK, ReplyOK, PanicOK, CommitOK DEF Serve

-----------------------------------------------------------------------------
(* The servers.                                                            *)

\* A server comes and goes without a request in it.
LEMMA IdleServerOK ==
    ASSUME IInv, UNCHANGED <<pc, reply, answer, tables, faults>>,
           server' \in [Servers -> {"up", "draining", "down"}], terms' \in 0 .. MaxTerms
    PROVE  IInv'
<1>1. UNCHANGED <<pc, reply, answer, bets, settled, events, faults>>
  BY DEF tables
<1>2. Types' /\ Exclusive'
  BY <1>1 DEF IInv, Types, Exclusive
<1>3. InTurn'
  BY <1>1, TurnIsKept
<1>4. ASSUME NEW q \in Requests PROVE One(q)'
  BY <1>1, OneIsKept DEF IInv
<1>. QED
  BY <1>2, <1>3, <1>4 DEF IInv

\* A process ends, with requests in it only if something went wrong.
LEMMA StopOK ==
    ASSUME IInv, NEW s \in Servers, Stop(s), terms' = terms, faults' \in 0 .. MaxFaults,
           faults' = 0 => faults = 0 /\ AtServer(s) = {}
    PROVE  IInv'
<1>. DEFINE Cut(r) == r \in AtServer(s) /\ (s = "api-gateway" => pc[r] = "gateway")
            Gone(r) == r \in AtServer(s) /\ answer[r] = Pending
            Silent(r) == s # "api-gateway" /\ Upstream(r) = s
<1>1. /\ server' = [server EXCEPT ![s] = "down"]
      /\ pc' = [r \in Requests |-> IF Cut(r) THEN "cut" ELSE pc[r]]
      /\ answer' = [r \in Requests |-> IF Gone(r) THEN IF s = "api-gateway" THEN NoAnswer ELSE 502
                                       ELSE answer[r]]
      /\ reply' = [r \in Requests |-> IF Silent(r) THEN NoAnswer ELSE reply[r]]
      /\ UNCHANGED <<bets, settled, events>>
  BY DEF Stop, tables
<1>2. Types /\ Exclusive
  BY DEF IInv
<1>3. \A r \in Requests : Cut(r) => pc[r] \in Under
  BY DEF AtServer, Under
<1>4. ASSUME NEW r \in Requests
      PROVE  /\ pc'[r] = IF Cut(r) THEN "cut" ELSE pc[r]
             /\ reply'[r] = IF Silent(r) THEN NoAnswer ELSE reply[r]
             /\ \/ answer[r] = Pending /\ answer'[r] \in {NoAnswer, 502}
                \/ answer'[r] = answer[r]
             /\ AtServer(s) = {} => answer'[r] = answer[r] /\ pc'[r] = pc[r]
  BY <1>1
<1>. HIDE DEF Cut, Gone, Silent
<1>5. Types'
  <2>1. pc' \in [Requests ->
            {"idle", "gateway", "bounced", "panicked", "ended", "cut"} \cup InHandler]
    BY <1>1, <1>2 DEF Types
  <2>2. /\ reply' \in [Requests -> {NoAnswer, 201, 202, 400, 409, 500, 503}]
        /\ answer' \in [Requests -> {NoAnswer, Pending, 201, 202, 400, 409, 500, 502, 503}]
    BY <1>1, <1>2 DEF Types
  <2>3. server' \in [Servers -> {"up", "draining", "down"}]
    BY <1>1, <1>2 DEF Types
  <2>. QED
    BY <2>1, <2>2, <2>3, <1>1, <1>2 DEF Types
<1>6. ASSUME NEW r \in Requests PROVE One(r)'
  <2>1. One(r)
    BY DEF IInv
  <2>2. Silent(r) /\ pc[r] = "replying" => Cut(r)
    BY DEF Silent, Cut, AtServer, InHandler
  <2>3. Cut(r) /\ pc[r] = "replying" => Silent(r)
    BY DEF Silent, Cut, AtServer
  <2>4. Decided(r)'
    BY <1>4, <2>1, <2>2, <2>3 DEF One, Decided
  <2>5. Unanswered(r)' /\ Committed(r)'
    BY <1>1, <1>3, <1>4, <2>1 DEF One, Unanswered, Committed, Under, InHandler, NoAnswer, Pending
  <2>6. Durable(r)' /\ Conflict(r)' /\ Doubt(r)'
    BY <1>1, <1>4, <2>1 DEF One, Durable, Conflict, Doubt, Success, NoAnswer
  <2>7. Waited(r)'
    BY <1>4, <2>1 DEF One, Waited
  <2>. QED
    BY <2>4, <2>5, <2>6, <2>7 DEF One
<1>7. Exclusive'
  <2>1. \A r \in Requests : pc'[r] \in InTransaction => pc[r] \in InTransaction
    BY <1>4 DEF InTransaction
  <2>. QED
    BY <2>1, <1>1, <1>2 DEF Exclusive
<1>8. InTurn'
  <2>1. ASSUME NEW r \in Requests
        PROVE  (pc'[r] = "idle" <=> pc[r] = "idle") /\ (answer[r] # Pending => answer'[r] = answer[r])
    BY <1>3, <1>4 DEF Under, InHandler
  <2>. QED
    BY <2>1, TurnIsKept
<1>. QED
  BY <1>5, <1>6, <1>7, <1>8 DEF IInv

LEMMA ServerOK ==
    ASSUME IInv, NEW s \in Servers,
           Term(s) \/ Drained(s) \/ DrainExpires(s) \/ Kill(s) \/ Restart(s)
    PROVE  IInv'
<1>1. Types
  BY DEF IInv
<1>2. CASE Term(s)
  BY <1>1, <1>2, HttpAssumption, IdleServerOK DEF Term, Types
<1>3. CASE Restart(s)
  BY <1>1, <1>3, IdleServerOK DEF Restart, Types
<1>4. CASE Drained(s)
  BY <1>1, <1>4, StopOK DEF Drained, Types
<1>5. CASE DrainExpires(s) \/ Kill(s)
  <2>1. Stop(s) /\ faults < MaxFaults /\ faults' = faults + 1 /\ terms' = terms
    BY <1>5 DEF DrainExpires, Kill
  <2>2. faults' \in 0 .. MaxFaults /\ faults' # 0
    BY <2>1, <1>1, HttpAssumption DEF Types
  <2>. QED
    BY <2>1, <2>2, StopOK
<1>. QED
  BY <1>2, <1>3, <1>4, <1>5

-----------------------------------------------------------------------------
(* The theorems.                                                           *)

LEMMA NextOK == IInv /\ [Next]_vars => IInv'
<1>. SUFFICES ASSUME IInv, [Next]_vars PROVE IInv'
  OBVIOUS
<1>1. CASE UNCHANGED vars
  <2>1. UNCHANGED <<server, pc, reply, answer, tables, terms, faults>>
    BY <1>1 DEF vars
  <2>. QED
    BY <2>1, IdleServerOK DEF IInv, Types
<1>. QED
  BY <1>1, SendOK, ServeOK, DisconnectOK, ServerOK DEF Next

\* The inductive invariant holds of any number of clients, attempts and faults.
THEOREM Invariance == Spec => []IInv
<1>. QED
  BY InitOK, NextOK, PTL DEF Spec

\* The types hold, and no handler replies without a status.
THEOREM TypeCorrect == Spec => []TypeOK
<1>1. IInv => TypeOK
  <2>. SUFFICES ASSUME IInv PROVE TypeOK
    OBVIOUS
  <2>1. Types /\ \A r \in Requests : Decided(r)
    BY DEF IInv, One
  <2>2. bets \subseteq Requests /\ settled \subseteq Requests /\ events \subseteq Requests
    BY <2>1 DEF Types
  <2>. QED
    BY <2>1, <2>2 DEF TypeOK, Types, Decided
<1>. QED
  BY <1>1, Invariance, PTL

\* A success means that the bet or the settlement is there, and its event with it.
THEOREM SuccessMeansDone == Spec => []SuccessIsDurable
<1>1. IInv => SuccessIsDurable
  BY DEF IInv, Types, One, Durable, SuccessIsDurable
<1>. QED
  BY <1>1, Invariance, PTL

\* Settlements of one bet, from any number of operators at once, take effect once.
THEOREM SettledOnce == Spec => []OneSettlement
<1>1. IInv => OneSettlement
  <2>. SUFFICES ASSUME IInv PROVE OneSettlement
    OBVIOUS
  <2>1. \A q, r \in settled : q = r
    BY DEF IInv, Exclusive
  <2>2. Cardinality(settled) <= 1
    <3>1. CASE settled = {}
      BY <3>1, FS_EmptySet
    <3>2. CASE settled # {}
      <4>1. PICK r \in settled : settled = {r}
        BY <3>2, <2>1
      <4>. QED
        BY <4>1, FS_Singleton
    <3>. QED
      BY <3>1, <3>2
  <2>3. \A r \in Requests : answer[r] = 409 => \E q \in settled : q # r
    BY DEF IInv, One, Conflict
  <2>. QED
    BY <2>2, <2>3 DEF OneSettlement
<1>. QED
  BY <1>1, Invariance, PTL

\* However often customers try again, a second bet follows only a first attempt in doubt.
THEOREM OnlyDoubtDuplicates == Spec => []DuplicatesNeedDoubt
<1>1. IInv => DuplicatesNeedDoubt
  <2>. SUFFICES ASSUME IInv, NEW c \in Customers, NEW i \in 1 .. MaxTries, NEW j \in 1 .. MaxTries,
                       i < j, <<c, i>> \in bets, <<c, j>> \in bets
                PROVE  answer[<<c, i>>] \in {500, 502, NoAnswer}
    BY DEF DuplicatesNeedDoubt
  <2>1. <<c, i>> \in Requests /\ <<c, j>> \in Requests /\ c \in Clients
    BY DEF Requests, Clients
  <2>2. pc[<<c, j>>] # "idle"
    BY <2>1 DEF IInv, Types, One, Committed
  <2>3. answer[<<c, i>>] \notin Success \cup {Pending}
    BY <2>1, <2>2 DEF IInv, InTurn
  <2>4. answer[<<c, i>>] \in {NoAnswer, Pending, 201, 500, 502}
    BY <2>1 DEF IInv, One, Doubt
  <2>. QED
    BY <2>3, <2>4 DEF Success
<1>. QED
  BY <1>1, Invariance, PTL

\* SIGTERM to any servers, in any order, loses no answer.
THEOREM ShutdownIsClean == Spec => []ShutdownLosesNothing
<1>1. IInv => ShutdownLosesNothing
  BY DEF IInv, One, Waited, ShutdownLosesNothing
<1>. QED
  BY <1>1, Invariance, PTL
=============================================================================
