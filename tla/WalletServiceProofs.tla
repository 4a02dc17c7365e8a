------------------------- MODULE WalletServiceProofs -------------------------
(***************************************************************************)
(* What holds of WalletService for any number of users, bets, workers,     *)
(* deliveries and crashes.                                                 *)
(*                                                                         *)
(* The argument: InnoDB's row locks and the primary key of                 *)
(* processed_events make at most one open transaction carry the effect of  *)
(* an event (Exclusive); that transaction finds the event unmarked, so the *)
(* effect is not committed yet (Recorded); and the saga hands              *)
(* SettleBalance only bets whose stake was reserved (Sequenced).  The      *)
(* balance of a wallet is a sum over its bets, and a commit changes one    *)
(* summand by what it adds to the balance (LedgerMoves).                   *)
(***************************************************************************)
EXTENDS WalletService, FiniteSums, TLAPS

\* A busy worker holds an event of its own queue.
Holding ==
    \A w \in Workers : pc[w] # "idle" => msg[w] \in Events /\ Consumes(w, msg[w])

\* What a transaction has checked by the time it reached its stage.
Checked ==
    \A w \in Workers :
        /\ pc[w] = "locked" => User(w) \in funded /\ version[User(w)] = seen[w]
        /\ pc[w] = "missing" => msg[w].kind = "placed" /\ User(w) \notin funded
        /\ pc[w] = "reserving" => /\ msg[w].kind = "placed"
                                  /\ User(w) \in funded
                                  /\ msg[w].bet \notin Mismatched
        /\ pc[w] = "rejecting" => /\ msg[w].kind = "placed"
                                  /\ User(w) \notin funded \/ msg[w].bet \in Mismatched
        /\ pc[w] = "discarding" => msg[w].kind = "settled" /\ msg[w].bet \in Lost
        /\ pc[w] = "crediting" => /\ msg[w].kind = "settled"
                                  /\ User(w) \in funded
                                  /\ msg[w].bet \notin Lost
        /\ pc[w] = "locked" /\ msg[w].kind = "settled" => msg[w].bet \notin Lost
        /\ pc[w] = "acking" => msg[w] \in processed

\* Row locks and the primary key of processed_events.
Exclusive ==
    \A v, w \in Workers :
        /\ v # w => \A u \in Users : ~(HoldsWallet(v, u) /\ HoldsWallet(w, u))
        /\ v # w => \A e \in Events : ~(Marks(v, e) /\ Marks(w, e))
        /\ \A e \in Events : Marks(w, e) => e \notin processed

\* processed_events, outbox_events and bets tell one story of each bet.
Recorded ==
    \A b \in Bets :
        /\ reserved[b] \in {0, 1}
        /\ credited[b] \in {0, 1}
        /\ Placed(b) \in processed <=> reserved[b] = 1 \/ status[b] = "REJECTED"
        /\ status[b] = "REJECTED" => reserved[b] = 0
        /\ status[b] \in {"OPEN", "SETTLED"} => reserved[b] = 1
        /\ reserved[b] = 1 => Owner[b] \in funded
        /\ credited[b] = 1 <=> Settled(b) \in processed /\ b \notin Lost

\* Settled events exist only for settled bets.
Sequenced ==
    /\ \A b \in Bets : queue[Settled(b)] > 0 \/ Settled(b) \in processed
                       => status[b] = "SETTLED"
    /\ \A w \in Workers : pc[w] # "idle" /\ msg[w].kind = "settled"
                          => status[msg[w].bet] = "SETTLED"

IInv == TypeOK /\ Holding /\ Checked /\ Exclusive /\ Recorded /\ Sequenced

-----------------------------------------------------------------------------
\* Facts about events and workers the steps below use.
LEMMA EventFacts ==
    /\ \A b \in Bets : Placed(b) \in Events /\ Settled(b) \in Events
    /\ \A b \in Bets : Placed(b).bet = b /\ Settled(b).bet = b
    /\ \A b \in Bets : Placed(b).kind = "placed" /\ Settled(b).kind = "settled"
    /\ \A b, c \in Bets : Placed(b) # Settled(c)
    /\ \A b, c \in Bets : b # c => Placed(b) # Placed(c) /\ Settled(b) # Settled(c)
    /\ \A e \in Events : /\ e.bet \in Bets
                         /\ e.kind \in {"placed", "settled"}
                         /\ e.kind = "placed" => e = Placed(e.bet)
                         /\ e.kind = "settled" => e = Settled(e.bet)
                         /\ Owner[e.bet] \in Users
<1>1. \A b \in Bets : Placed(b) \in Events /\ Settled(b) \in Events
    BY DEF Events, Placed, Settled
<1>2. /\ \A b \in Bets : Placed(b).bet = b /\ Settled(b).bet = b
      /\ \A b \in Bets : Placed(b).kind = "placed" /\ Settled(b).kind = "settled"
    BY DEF Placed, Settled
<1>3. \A e \in Events : /\ e.bet \in Bets
                        /\ e.kind \in {"placed", "settled"}
                        /\ e.kind = "placed" => e = Placed(e.bet)
                        /\ e.kind = "settled" => e = Settled(e.bet)
    BY DEF Events, Placed, Settled
<1>4. \A e \in Events : Owner[e.bet] \in Users
    BY <1>3, BetsAssumption
<1>5. /\ \A b, c \in Bets : Placed(b) # Settled(c)
      /\ \A b, c \in Bets : b # c => Placed(b) # Placed(c) /\ Settled(b) # Settled(c)
    BY <1>2
<1> QED
    BY <1>1, <1>2, <1>3, <1>4, <1>5

(* The types. *)
LEMMA TypeStep ==
    ASSUME TypeOK, Holding, Next PROVE TypeOK'
<1> USE EventFacts, BetsAssumption, AmountsAssumption, BoundsAssumption DEF TypeOK, Stages
<1>1. ASSUME NEW e \in Events, Publish(e) PROVE TypeOK'
    BY <1>1 DEF Publish, db
<1>2. ASSUME NEW b \in Bets, Accept(b) PROVE TypeOK'
    BY <1>2 DEF Accept, WriteStatus, broker
<1>3. ASSUME NEW b \in Bets, Settle(b) PROVE TypeOK'
    BY <1>3 DEF Settle, WriteStatus, broker
<1>4. ASSUME NEW u \in Users, CreateWallet(u) PROVE TypeOK'
    BY <1>4 DEF CreateWallet, broker
<1>5. ASSUME NEW w \in Workers, NEW e \in Events, Begin(w, e) PROVE TypeOK'
    <2>1. pc' \in [Workers -> Stages]
        BY <1>5 DEF Begin, Goto
    <2>2. queue' \in [Events -> Nat] /\ msg' \in [Workers -> Events \cup {NoEvent}]
        BY <1>5 DEF Begin
    <2> QED
        BY <1>5, <2>1, <2>2 DEF Begin, db
<1>6. ASSUME NEW w \in Workers, LockWallet(w) PROVE TypeOK'
    <2>1. User(w) \in Users
        BY <1>6 DEF LockWallet, Holding, User
    <2>2. pc' \in [Workers -> Stages] /\ seen' \in [Workers -> Nat]
        BY <1>6, <2>1 DEF LockWallet, Goto
    <2> QED
        BY <1>6, <2>2 DEF LockWallet, db, broker
<1>7. ASSUME NEW w \in Workers, Reserve(w) PROVE TypeOK'
    BY <1>7 DEF Reserve, Goto, db, broker
<1>8. ASSUME NEW w \in Workers, RejectBet(w) PROVE TypeOK'
    BY <1>8 DEF RejectBet, Goto, db, broker
<1>9. ASSUME NEW w \in Workers, Discard(w) PROVE TypeOK'
    BY <1>9 DEF Discard, Goto, db, broker
<1>10. ASSUME NEW w \in Workers, Credit(w) PROVE TypeOK'
    BY <1>10 DEF Credit, Goto, db, broker
<1>11. ASSUME NEW w \in Workers, CommitReserve(w) PROVE TypeOK'
    BY <1>11 DEF CommitReserve, Committed, MoveBalance, Goto, broker, Holding, User
<1>12. ASSUME NEW w \in Workers, CommitReject(w) PROVE TypeOK'
    BY <1>12 DEF CommitReject, Committed, Goto, broker, Holding, User
<1>13. ASSUME NEW w \in Workers, CommitDiscard(w) PROVE TypeOK'
    BY <1>13 DEF CommitDiscard, Committed, Goto, broker, Holding, User
<1>14. ASSUME NEW w \in Workers, CommitCredit(w) PROVE TypeOK'
    BY <1>14 DEF CommitCredit, Committed, MoveBalance, Goto, broker, Holding, User
<1>15. ASSUME NEW w \in Workers, Abort(w) PROVE TypeOK'
    BY <1>15 DEF Abort, Goto, db, broker
<1>16. ASSUME NEW w \in Workers, Ack(w) PROVE TypeOK'
    BY <1>16 DEF Ack, Release, Goto, db, broker
<1>17. ASSUME NEW w \in Workers, Nack(w) PROVE TypeOK'
    BY <1>17 DEF Nack, Release, Goto, db, Holding, User
<1>18. ASSUME NEW w \in Workers, Crash(w) PROVE TypeOK'
    BY <1>18 DEF Crash, Release, Goto, db, Holding, User
<1> QED
    BY <1>1, <1>2, <1>3, <1>4, <1>5, <1>6, <1>7, <1>8, <1>9, <1>10, <1>11, <1>12, <1>13, <1>14, <1>15, <1>16, <1>17, <1>18 DEF Next, Step, Commit

(* A worker keeps its event to the end of the delivery. *)
LEMMA HoldingStep ==
    ASSUME TypeOK, Holding, Next PROVE Holding'
<1> USE EventFacts DEF TypeOK, Holding, Consumes
<1>1. ASSUME NEW e \in Events, Publish(e) PROVE Holding'
    BY <1>1 DEF Publish, db
<1>2. ASSUME NEW b \in Bets, Accept(b) PROVE Holding'
    BY <1>2 DEF Accept, WriteStatus, broker
<1>3. ASSUME NEW b \in Bets, Settle(b) PROVE Holding'
    BY <1>3 DEF Settle, WriteStatus, broker
<1>4. ASSUME NEW u \in Users, CreateWallet(u) PROVE Holding'
    BY <1>4 DEF CreateWallet, broker
<1>5. ASSUME NEW w \in Workers, NEW e \in Events, Begin(w, e) PROVE Holding'
    BY <1>5 DEF Begin, Goto, db
<1>6. ASSUME NEW w \in Workers, LockWallet(w) PROVE Holding'
    BY <1>6 DEF LockWallet, Goto, db, broker
<1>7. ASSUME NEW w \in Workers, Reserve(w) PROVE Holding'
    BY <1>7 DEF Reserve, Goto, db, broker
<1>8. ASSUME NEW w \in Workers, RejectBet(w) PROVE Holding'
    BY <1>8 DEF RejectBet, Goto, db, broker
<1>9. ASSUME NEW w \in Workers, Discard(w) PROVE Holding'
    BY <1>9 DEF Discard, Goto, db, broker
<1>10. ASSUME NEW w \in Workers, Credit(w) PROVE Holding'
    BY <1>10 DEF Credit, Goto, db, broker
<1>11. ASSUME NEW w \in Workers, CommitReserve(w) PROVE Holding'
    BY <1>11 DEF CommitReserve, Committed, MoveBalance, Goto, broker
<1>12. ASSUME NEW w \in Workers, CommitReject(w) PROVE Holding'
    BY <1>12 DEF CommitReject, Committed, Goto, broker
<1>13. ASSUME NEW w \in Workers, CommitDiscard(w) PROVE Holding'
    BY <1>13 DEF CommitDiscard, Committed, Goto, broker
<1>14. ASSUME NEW w \in Workers, CommitCredit(w) PROVE Holding'
    BY <1>14 DEF CommitCredit, Committed, MoveBalance, Goto, broker
<1>15. ASSUME NEW w \in Workers, Abort(w) PROVE Holding'
    BY <1>15 DEF Abort, Goto, db, broker, InTx
<1>16. ASSUME NEW w \in Workers, Ack(w) PROVE Holding'
    BY <1>16 DEF Ack, Release, Goto, db, broker
<1>17. ASSUME NEW w \in Workers, Nack(w) PROVE Holding'
    BY <1>17 DEF Nack, Release, Goto, db
<1>18. ASSUME NEW w \in Workers, Crash(w) PROVE Holding'
    BY <1>18 DEF Crash, Release, Goto, db
<1> QED
    BY <1>1, <1>2, <1>3, <1>4, <1>5, <1>6, <1>7, <1>8, <1>9, <1>10, <1>11, <1>12, <1>13, <1>14, <1>15, <1>16, <1>17, <1>18 DEF Next, Step, Commit

(* What a transaction checked stays true until it ends: it holds the locks. *)
LEMMA CheckedStep ==
    ASSUME TypeOK, Holding, Checked, Exclusive, Next PROVE Checked'
<1> USE EventFacts DEF TypeOK, Holding, Checked, User
<1>1. ASSUME NEW e \in Events, Publish(e) PROVE Checked'
    BY <1>1 DEF Publish, db
<1>2. ASSUME NEW b \in Bets, Accept(b) PROVE Checked'
    BY <1>2 DEF Accept, WriteStatus, broker
<1>3. ASSUME NEW b \in Bets, Settle(b) PROVE Checked'
    BY <1>3 DEF Settle, WriteStatus, broker
<1>4. ASSUME NEW u \in Users, CreateWallet(u) PROVE Checked'
    BY <1>4 DEF CreateWallet, broker, HoldsGap
<1>5. ASSUME NEW w \in Workers, NEW e \in Events, Begin(w, e) PROVE Checked'
    BY <1>5 DEF Begin, Goto, db
<1>6. ASSUME NEW w \in Workers, LockWallet(w) PROVE Checked'
    BY <1>6 DEF LockWallet, Goto, db, broker, IsLostBet
<1>7. ASSUME NEW w \in Workers, Reserve(w) PROVE Checked'
    BY <1>7 DEF Reserve, Goto, db, broker
<1>8. ASSUME NEW w \in Workers, RejectBet(w) PROVE Checked'
    BY <1>8 DEF RejectBet, Goto, db, broker
<1>9. ASSUME NEW w \in Workers, Discard(w) PROVE Checked'
    BY <1>9 DEF Discard, Goto, db, broker, IsLostBet
<1>10. ASSUME NEW w \in Workers, Credit(w) PROVE Checked'
    BY <1>10 DEF Credit, Goto, db, broker
<1>11. ASSUME NEW w \in Workers, CommitReserve(w) PROVE Checked'
    <2>1. /\ User(w) \in Users
          /\ HoldsWallet(w, User(w))
          /\ version' = [version EXCEPT ![User(w)] = @ + 1]
          /\ pc' = [pc EXCEPT ![w] = "acking"] \/ pc' = [pc EXCEPT ![w] = "failed"]
          /\ processed' = processed \cup {msg[w]}
          /\ UNCHANGED <<funded, msg, seen>>
        BY <1>11 DEF CommitReserve, Committed, MoveBalance, Goto, broker, HoldsWallet
    <2>2. \A v \in Workers : pc[v] = "locked" => User(v) # User(w)
        BY <1>11, <2>1 DEF Exclusive, HoldsWallet, CommitReserve
    <2> QED
        BY <2>1, <2>2
<1>12. ASSUME NEW w \in Workers, CommitReject(w) PROVE Checked'
    BY <1>12 DEF CommitReject, Committed, Goto, broker
<1>13. ASSUME NEW w \in Workers, CommitDiscard(w) PROVE Checked'
    BY <1>13 DEF CommitDiscard, Committed, Goto, broker
<1>14. ASSUME NEW w \in Workers, CommitCredit(w) PROVE Checked'
    <2>1. /\ User(w) \in Users
          /\ HoldsWallet(w, User(w))
          /\ version' = [version EXCEPT ![User(w)] = @ + 1]
          /\ pc' = [pc EXCEPT ![w] = "acking"] \/ pc' = [pc EXCEPT ![w] = "failed"]
          /\ processed' = processed \cup {msg[w]}
          /\ UNCHANGED <<funded, msg, seen>>
        BY <1>14 DEF CommitCredit, Committed, MoveBalance, Goto, broker, HoldsWallet
    <2>2. \A v \in Workers : pc[v] = "locked" => User(v) # User(w)
        BY <1>14, <2>1 DEF Exclusive, HoldsWallet, CommitCredit
    <2> QED
        BY <2>1, <2>2
<1>15. ASSUME NEW w \in Workers, Abort(w) PROVE Checked'
    BY <1>15 DEF Abort, Goto, db, broker
<1>16. ASSUME NEW w \in Workers, Ack(w) PROVE Checked'
    BY <1>16 DEF Ack, Release, Goto, db, broker
<1>17. ASSUME NEW w \in Workers, Nack(w) PROVE Checked'
    BY <1>17 DEF Nack, Release, Goto, db
<1>18. ASSUME NEW w \in Workers, Crash(w) PROVE Checked'
    BY <1>18 DEF Crash, Release, Goto, db
<1> QED
    BY <1>1, <1>2, <1>3, <1>4, <1>5, <1>6, <1>7, <1>8, <1>9, <1>10, <1>11, <1>12, <1>13, <1>14, <1>15, <1>16, <1>17, <1>18 DEF Next, Step, Commit

(* No two transactions hold one wallet or mark one event. *)
LEMMA ExclusiveStep ==
    ASSUME TypeOK, Holding, Checked, Exclusive, Next PROVE Exclusive'
<1> USE EventFacts DEF TypeOK, Holding, Exclusive, HoldsWallet, Marks, User
<1>1. ASSUME NEW e \in Events, Publish(e) PROVE Exclusive'
    BY <1>1 DEF Publish, db
<1>2. ASSUME NEW b \in Bets, Accept(b) PROVE Exclusive'
    BY <1>2 DEF Accept, WriteStatus, broker
<1>3. ASSUME NEW b \in Bets, Settle(b) PROVE Exclusive'
    BY <1>3 DEF Settle, WriteStatus, broker
<1>4. ASSUME NEW u \in Users, CreateWallet(u) PROVE Exclusive'
    BY <1>4 DEF CreateWallet, broker, HoldsGap, Checked
<1>5. ASSUME NEW w \in Workers, NEW e \in Events, Begin(w, e) PROVE Exclusive'
    BY <1>5 DEF Begin, Goto, db
<1>6. ASSUME NEW w \in Workers, LockWallet(w) PROVE Exclusive'
    BY <1>6 DEF LockWallet, Goto, db, broker, LockFree
<1>7. ASSUME NEW w \in Workers, Reserve(w) PROVE Exclusive'
    BY <1>7 DEF Reserve, Goto, db, broker, CanMarkProcessed, Checked
<1>8. ASSUME NEW w \in Workers, RejectBet(w) PROVE Exclusive'
    BY <1>8 DEF RejectBet, Goto, db, broker, CanMarkProcessed, Checked
<1>9. ASSUME NEW w \in Workers, Discard(w) PROVE Exclusive'
    BY <1>9 DEF Discard, Goto, db, broker, CanMarkProcessed, Checked
<1>10. ASSUME NEW w \in Workers, Credit(w) PROVE Exclusive'
    BY <1>10 DEF Credit, Goto, db, broker, CanMarkProcessed, Checked
<1>11. ASSUME NEW w \in Workers, CommitReserve(w) PROVE Exclusive'
    BY <1>11 DEF CommitReserve, Committed, MoveBalance, Goto, broker
<1>12. ASSUME NEW w \in Workers, CommitReject(w) PROVE Exclusive'
    BY <1>12 DEF CommitReject, Committed, Goto, broker
<1>13. ASSUME NEW w \in Workers, CommitDiscard(w) PROVE Exclusive'
    BY <1>13 DEF CommitDiscard, Committed, Goto, broker
<1>14. ASSUME NEW w \in Workers, CommitCredit(w) PROVE Exclusive'
    BY <1>14 DEF CommitCredit, Committed, MoveBalance, Goto, broker
<1>15. ASSUME NEW w \in Workers, Abort(w) PROVE Exclusive'
    BY <1>15 DEF Abort, Goto, db, broker
<1>16. ASSUME NEW w \in Workers, Ack(w) PROVE Exclusive'
    BY <1>16 DEF Ack, Release, Goto, db, broker
<1>17. ASSUME NEW w \in Workers, Nack(w) PROVE Exclusive'
    BY <1>17 DEF Nack, Release, Goto, db
<1>18. ASSUME NEW w \in Workers, Crash(w) PROVE Exclusive'
    BY <1>18 DEF Crash, Release, Goto, db
<1> QED
    BY <1>1, <1>2, <1>3, <1>4, <1>5, <1>6, <1>7, <1>8, <1>9, <1>10, <1>11, <1>12, <1>13, <1>14, <1>15, <1>16, <1>17, <1>18 DEF Next, Step, Commit

(* Each commit writes its effect and its mark together. *)
LEMMA RecordedStep ==
    ASSUME TypeOK, Holding, Checked, Exclusive, Recorded, Sequenced, Next PROVE Recorded'
<1> USE EventFacts DEF TypeOK, Holding, Recorded
<1>1. ASSUME NEW e \in Events, Publish(e) PROVE Recorded'
    BY <1>1 DEF Publish, db
<1>2. ASSUME NEW b \in Bets, Accept(b) PROVE Recorded'
    BY <1>2 DEF Accept, WriteStatus, broker
<1>3. ASSUME NEW b \in Bets, Settle(b) PROVE Recorded'
    BY <1>3 DEF Settle, WriteStatus, broker
<1>4. ASSUME NEW u \in Users, CreateWallet(u) PROVE Recorded'
    BY <1>4 DEF CreateWallet, broker
<1>5. ASSUME NEW w \in Workers, NEW e \in Events, Begin(w, e) PROVE Recorded'
    BY <1>5 DEF Begin, Goto, db
<1>6. ASSUME NEW w \in Workers, LockWallet(w) PROVE Recorded'
    BY <1>6 DEF LockWallet, Goto, db, broker
<1>7. ASSUME NEW w \in Workers, Reserve(w) PROVE Recorded'
    BY <1>7 DEF Reserve, Goto, db, broker
<1>8. ASSUME NEW w \in Workers, RejectBet(w) PROVE Recorded'
    BY <1>8 DEF RejectBet, Goto, db, broker
<1>9. ASSUME NEW w \in Workers, Discard(w) PROVE Recorded'
    BY <1>9 DEF Discard, Goto, db, broker
<1>10. ASSUME NEW w \in Workers, Credit(w) PROVE Recorded'
    BY <1>10 DEF Credit, Goto, db, broker
<1>11. ASSUME NEW w \in Workers, CommitReserve(w) PROVE Recorded'
    <2> DEFINE c == msg[w].bet
    <2>1. /\ c \in Bets
          /\ msg[w] = Placed(c)
          /\ Placed(c) \notin processed
          /\ Owner[c] \in funded
        BY <1>11 DEF CommitReserve, Checked, Exclusive, Marks, User
    <2>2. /\ reserved' = [reserved EXCEPT ![c] = @ + 1]
          /\ UNCHANGED <<status, credited, funded>>
          /\ processed' = processed \cup {Placed(c)}
        BY <1>11, <2>1 DEF CommitReserve, Committed, MoveBalance
    <2> HIDE DEF c
    <2> QED
        BY <2>1, <2>2 DEF Sequenced
<1>12. ASSUME NEW w \in Workers, CommitReject(w) PROVE Recorded'
    <2> DEFINE c == msg[w].bet
    <2>1. /\ c \in Bets
          /\ msg[w] = Placed(c)
          /\ Placed(c) \notin processed
        BY <1>12 DEF CommitReject, Checked, Exclusive, Marks, User
    <2>2. /\ status' = [status EXCEPT ![c] = "REJECTED"]
          /\ UNCHANGED <<reserved, credited, funded>>
          /\ processed' = processed \cup {Placed(c)}
        BY <1>12, <2>1 DEF CommitReject, Committed, MoveBalance
    <2> HIDE DEF c
    <2> QED
        BY <2>1, <2>2 DEF Sequenced
<1>13. ASSUME NEW w \in Workers, CommitDiscard(w) PROVE Recorded'
    <2> DEFINE c == msg[w].bet
    <2>1. /\ c \in Bets
          /\ msg[w] = Settled(c)
          /\ Settled(c) \notin processed
          /\ c \in Lost
        BY <1>13 DEF CommitDiscard, Checked, Exclusive, Marks, User
    <2>2. /\ UNCHANGED <<status, reserved, credited, funded>>
          /\ processed' = processed \cup {Settled(c)}
        BY <1>13, <2>1 DEF CommitDiscard, Committed, MoveBalance
    <2> HIDE DEF c
    <2> QED
        BY <2>1, <2>2 DEF Sequenced
<1>14. ASSUME NEW w \in Workers, CommitCredit(w) PROVE Recorded'
    <2> DEFINE c == msg[w].bet
    <2>1. /\ c \in Bets
          /\ msg[w] = Settled(c)
          /\ Settled(c) \notin processed
          /\ c \notin Lost
        BY <1>14 DEF CommitCredit, Checked, Exclusive, Marks, User
    <2>2. /\ credited' = [credited EXCEPT ![c] = @ + 1]
          /\ UNCHANGED <<status, reserved, funded>>
          /\ processed' = processed \cup {Settled(c)}
        BY <1>14, <2>1 DEF CommitCredit, Committed, MoveBalance
    <2> HIDE DEF c
    <2> QED
        BY <2>1, <2>2 DEF Sequenced
<1>15. ASSUME NEW w \in Workers, Abort(w) PROVE Recorded'
    BY <1>15 DEF Abort, Goto, db, broker
<1>16. ASSUME NEW w \in Workers, Ack(w) PROVE Recorded'
    BY <1>16 DEF Ack, Release, Goto, db, broker
<1>17. ASSUME NEW w \in Workers, Nack(w) PROVE Recorded'
    BY <1>17 DEF Nack, Release, Goto, db
<1>18. ASSUME NEW w \in Workers, Crash(w) PROVE Recorded'
    BY <1>18 DEF Crash, Release, Goto, db
<1> QED
    BY <1>1, <1>2, <1>3, <1>4, <1>5, <1>6, <1>7, <1>8, <1>9, <1>10, <1>11, <1>12, <1>13, <1>14, <1>15, <1>16, <1>17, <1>18 DEF Next, Step, Commit

(* The saga settles a bet before its settled event exists. *)
LEMMA SequencedStep ==
    ASSUME TypeOK, Holding, Checked, Exclusive, Recorded, Sequenced, Next PROVE Sequenced'
<1> USE EventFacts DEF TypeOK, Holding, Sequenced
<1>1. ASSUME NEW e \in Events, Publish(e) PROVE Sequenced'
    BY <1>1 DEF Publish, db
<1>2. ASSUME NEW b \in Bets, Accept(b) PROVE Sequenced'
    BY <1>2 DEF Accept, WriteStatus, broker
<1>3. ASSUME NEW b \in Bets, Settle(b) PROVE Sequenced'
    BY <1>3 DEF Settle, WriteStatus, broker
<1>4. ASSUME NEW u \in Users, CreateWallet(u) PROVE Sequenced'
    BY <1>4 DEF CreateWallet, broker
<1>5. ASSUME NEW w \in Workers, NEW e \in Events, Begin(w, e) PROVE Sequenced'
    BY <1>5 DEF Begin, Goto, db
<1>6. ASSUME NEW w \in Workers, LockWallet(w) PROVE Sequenced'
    BY <1>6 DEF LockWallet, Goto, db, broker
<1>7. ASSUME NEW w \in Workers, Reserve(w) PROVE Sequenced'
    BY <1>7 DEF Reserve, Goto, db, broker
<1>8. ASSUME NEW w \in Workers, RejectBet(w) PROVE Sequenced'
    BY <1>8 DEF RejectBet, Goto, db, broker
<1>9. ASSUME NEW w \in Workers, Discard(w) PROVE Sequenced'
    BY <1>9 DEF Discard, Goto, db, broker
<1>10. ASSUME NEW w \in Workers, Credit(w) PROVE Sequenced'
    BY <1>10 DEF Credit, Goto, db, broker
<1>11. ASSUME NEW w \in Workers, CommitReserve(w) PROVE Sequenced'
    BY <1>11 DEF CommitReserve, Committed, MoveBalance, Goto, broker
<1>12. ASSUME NEW w \in Workers, CommitReject(w) PROVE Sequenced'
    <2> DEFINE c == msg[w].bet
    <2>1. /\ c \in Bets
          /\ status[c] # "SETTLED"
          /\ msg[w] = Placed(c)
        BY <1>12 DEF CommitReject, Checked, Exclusive, Marks, Recorded
    <2>2. /\ status' = [status EXCEPT ![c] = "REJECTED"]
          /\ processed' = processed \cup {Placed(c)}
          /\ UNCHANGED <<queue, msg>>
          /\ \A v \in Workers : pc'[v] # "idle" => pc[v] # "idle"
        BY <1>12, <2>1 DEF CommitReject, Committed, Goto, broker
    <2> HIDE DEF c
    <2> QED
        BY <2>1, <2>2
<1>13. ASSUME NEW w \in Workers, CommitDiscard(w) PROVE Sequenced'
    BY <1>13 DEF CommitDiscard, Committed, Goto, broker
<1>14. ASSUME NEW w \in Workers, CommitCredit(w) PROVE Sequenced'
    BY <1>14 DEF CommitCredit, Committed, MoveBalance, Goto, broker
<1>15. ASSUME NEW w \in Workers, Abort(w) PROVE Sequenced'
    BY <1>15 DEF Abort, Goto, db, broker, InTx
<1>16. ASSUME NEW w \in Workers, Ack(w) PROVE Sequenced'
    BY <1>16 DEF Ack, Release, Goto, db, broker
<1>17. ASSUME NEW w \in Workers, Nack(w) PROVE Sequenced'
    BY <1>17 DEF Nack, Release, Goto, db
<1>18. ASSUME NEW w \in Workers, Crash(w) PROVE Sequenced'
    BY <1>18 DEF Crash, Release, Goto, db
<1> QED
    BY <1>1, <1>2, <1>3, <1>4, <1>5, <1>6, <1>7, <1>8, <1>9, <1>10, <1>11, <1>12, <1>13, <1>14, <1>15, <1>16, <1>17, <1>18 DEF Next, Step, Commit

-----------------------------------------------------------------------------
\* The empty tables satisfy the inductive invariant.
LEMMA InitEstablishes == Init => IInv
    BY EventFacts, AmountsAssumption, BoundsAssumption
    DEF Init, IInv, TypeOK, Stages, Holding, Checked, Exclusive, HoldsWallet, Marks,
        Recorded, Sequenced

\* Every action keeps the inductive invariant.
LEMMA StepPreserves == IInv /\ [Next]_vars => IInv'
<1> SUFFICES ASSUME IInv, [Next]_vars PROVE IInv'
    OBVIOUS
<1>1. CASE Next
    BY <1>1, TypeStep, HoldingStep, CheckedStep, ExclusiveStep, RecordedStep,
       SequencedStep DEF IInv
<1>2. CASE UNCHANGED vars
    BY <1>2 DEF vars, db, broker, IInv, TypeOK, Holding, Checked, Exclusive,
       HoldsWallet, Marks, User, Recorded, Sequenced
<1> QED
    BY <1>1, <1>2

\* The locks, the marks and the saga's order keep the inductive invariant.
THEOREM Invariance == Spec => []IInv
    BY InitEstablishes, StepPreserves, PTL DEF Spec

\* Every variable keeps its type.
THEOREM TypeCorrect == Spec => []TypeOK
<1>1. IInv => TypeOK
    BY DEF IInv
<1> QED
    BY <1>1, Invariance, PTL

\* A stake is reserved at most once and a payout credited at most once, for any number
\* of deliveries of the event to any number of workers.
THEOREM EffectsOnce == Spec => []AtMostOnce
<1>1. IInv => AtMostOnce
    BY DEF IInv, TypeOK, Recorded, AtMostOnce
<1> QED
    BY <1>1, Invariance, PTL

\* A rejected bet is never debited nor paid.
THEOREM RejectionKeepsStake == Spec => []RejectedNeverDebited
<1>1. IInv => RejectedNeverDebited
    BY EventFacts DEF IInv, TypeOK, Recorded, Sequenced, RejectedNeverDebited
<1> QED
    BY <1>1, Invariance, PTL

\* UpdateBalance's version test never fails under FOR UPDATE.
THEOREM VersionTestPasses == Spec => []VersionHeld
<1>1. IInv => VersionHeld
    BY DEF IInv, Checked, VersionHeld
<1> QED
    BY <1>1, Invariance, PTL

\* processed_events tells exactly which effects are committed.
THEOREM MarksAreExact == Spec => []ProcessedMeansDone
<1>1. IInv => ProcessedMeansDone
    BY EventFacts DEF IInv, TypeOK, Checked, Recorded, ProcessedMeansDone
<1> QED
    BY <1>1, Invariance, PTL

\* SettleBalance always finds the wallet.
THEOREM WalletIsThere == Spec => []SettledHasWallet
<1>1. IInv => SettledHasWallet
    BY EventFacts DEF IInv, TypeOK, Stages, Holding, Recorded, Sequenced, SettledHasWallet, User
<1> QED
    BY <1>1, Invariance, PTL

-----------------------------------------------------------------------------
(* Only AcceptBet, the settlement and rejectBet write bets.status; rejectBet's        *)
(* unconditional UPDATE finds the bet pending, because its event is unmarked.         *)
LEMMA StatusStep == IInv /\ [Next]_vars => LegalMove
<1> SUFFICES ASSUME IInv, [Next]_vars PROVE LegalMove
    OBVIOUS
<1> USE EventFacts DEF IInv, TypeOK, LegalMove
<1>1. ASSUME NEW b \in Bets, Accept(b) PROVE LegalMove
    BY <1>1 DEF Accept, WriteStatus
<1>2. ASSUME NEW b \in Bets, Settle(b) PROVE LegalMove
    BY <1>2 DEF Settle, WriteStatus
<1>3. ASSUME NEW w \in Workers, CommitReject(w) PROVE LegalMove
    <2>1. msg[w] \in Events /\ msg[w].kind = "placed" /\ msg[w] \notin processed
        BY <1>3 DEF CommitReject, Holding, Checked, Exclusive, Marks
    <2>2. status[msg[w].bet] = "PENDING_RESERVE"
        BY <2>1 DEF Recorded
    <2> QED
        BY <1>3, <2>1, <2>2 DEF CommitReject
<1>4. ASSUME UNCHANGED status PROVE LegalMove
    BY <1>4
<1> QED
    BY <1>1, <1>2, <1>3, <1>4 DEF vars, db, Next, Step, Commit, Publish, CreateWallet, Begin,
       LockWallet, Reserve, RejectBet, Discard, Credit, CommitReserve, CommitDiscard,
       CommitCredit, Abort, Ack, Nack, Crash, Release

\* A bet moves only along PENDING_RESERVE -> OPEN -> SETTLED or to REJECTED.
THEOREM BetLifecycle == Spec => Lifecycle
    BY Invariance, StatusStep, PTL DEF Spec, Lifecycle

-----------------------------------------------------------------------------
(* Each commit is one step of the ledger, everything else is a stutter.              *)

\* The initial tables are the initial ledger.
LEMMA LedgerInitially == Init => Ledger!LedgerInit
    BY EventFacts DEF Init, Ledger!LedgerInit, StakeFate, PayoutFate

\* A step that leaves money and marks alone leaves the ledger alone.
LEMMA LedgerUnmoved ==
    ASSUME UNCHANGED <<funded, amount, reserved, credited, processed>>,
           \A b \in Bets : status[b] = "REJECTED" <=> status'[b] = "REJECTED"
    PROVE  UNCHANGED Ledger!lvars
    BY DEF Ledger!lvars, StakeFate, PayoutFate

\* Every step of the service is a step of the ledger or a stutter.
LEMMA LedgerStep == IInv /\ [Next]_vars => [Ledger!LedgerNext]_(Ledger!lvars)
<1> SUFFICES ASSUME IInv, [Next]_vars PROVE [Ledger!LedgerNext]_(Ledger!lvars)
    OBVIOUS
<1> USE EventFacts DEF IInv, TypeOK
<1>1. ASSUME NEW u \in Users, CreateWallet(u) PROVE Ledger!LedgerNext
    <2>1. Ledger!OpenAccount(u)
        BY <1>1 DEF CreateWallet, Ledger!OpenAccount, StakeFate, PayoutFate
    <2> QED
        BY <2>1 DEF Ledger!LedgerNext
<1>2. ASSUME NEW b \in Bets, Accept(b) \/ Settle(b) PROVE UNCHANGED Ledger!lvars
    <2>1. \A c \in Bets : status[c] = "REJECTED" <=> status'[c] = "REJECTED"
        BY <1>2 DEF Accept, Settle, WriteStatus
    <2> QED
        BY <1>2, <2>1, LedgerUnmoved DEF Accept, Settle, WriteStatus
<1>3. ASSUME NEW w \in Workers, CommitReserve(w) PROVE Ledger!LedgerNext
    <2> DEFINE c == msg[w].bet
    <2>1. /\ c \in Bets
          /\ Placed(c) \notin processed
          /\ Owner[c] \in funded
          /\ c \notin Mismatched
          /\ msg[w] = Placed(c)
        BY <1>3 DEF CommitReserve, Holding, Checked, Exclusive, Marks, User
    <2>2. /\ amount' = [amount EXCEPT ![Owner[c]] = @ - Stake[c]]
          /\ reserved' = [reserved EXCEPT ![c] = @ + 1]
          /\ processed' = processed \cup {Placed(c)}
          /\ UNCHANGED <<status, credited, funded>>
        BY <1>3, <2>1, AmountsAssumption, BetsAssumption
        DEF CommitReserve, Committed, MoveBalance, User
    <2> HIDE DEF c
    <2>3. reserved[c] = 0 /\ status[c] # "REJECTED"
        BY <2>1 DEF Recorded
    <2>4. StakeFate[c] = "none" /\ StakeFate' = [StakeFate EXCEPT ![c] = "debited"]
        <3>1. StakeFate[c] = "none"
            BY <2>1, <2>3 DEF StakeFate
        <3>2. \A b \in Bets : StakeFate'[b] = IF b = c THEN "debited" ELSE StakeFate[b]
            BY <2>1, <2>2, <2>3 DEF StakeFate
        <3>3. StakeFate = [b \in Bets |-> StakeFate[b]] /\ StakeFate' = [b \in Bets |-> StakeFate'[b]]
            BY DEF StakeFate
        <3> QED
            BY <2>1, <3>1, <3>2, <3>3
    <2>5. PayoutFate' = PayoutFate
        BY <2>1, <2>2 DEF PayoutFate
    <2>6. Ledger!Debit(c)
        BY <2>1, <2>2, <2>4, <2>5 DEF Ledger!Debit
    <2> QED
        BY <2>1, <2>6 DEF Ledger!LedgerNext
<1>4. ASSUME NEW w \in Workers, CommitReject(w) PROVE Ledger!LedgerNext
    <2> DEFINE c == msg[w].bet
    <2>1. /\ c \in Bets
          /\ Placed(c) \notin processed
          /\ Owner[c] \notin funded \/ c \in Mismatched
          /\ msg[w] = Placed(c)
        BY <1>4 DEF CommitReject, Holding, Checked, Exclusive, Marks, User
    <2>2. /\ status' = [status EXCEPT ![c] = "REJECTED"]
          /\ processed' = processed \cup {Placed(c)}
          /\ UNCHANGED <<amount, reserved, credited, funded>>
        BY <1>4, <2>1 DEF CommitReject, Committed
    <2> HIDE DEF c
    <2>3. reserved[c] = 0 /\ status[c] # "REJECTED"
        BY <2>1 DEF Recorded
    <2>4. StakeFate[c] = "none" /\ StakeFate' = [StakeFate EXCEPT ![c] = "rejected"]
        <3>1. StakeFate[c] = "none"
            BY <2>1, <2>3 DEF StakeFate
        <3>2. \A b \in Bets : StakeFate'[b] = IF b = c THEN "rejected" ELSE StakeFate[b]
            BY <2>1, <2>2, <2>3 DEF StakeFate
        <3>3. StakeFate = [b \in Bets |-> StakeFate[b]] /\ StakeFate' = [b \in Bets |-> StakeFate'[b]]
            BY DEF StakeFate
        <3> QED
            BY <2>1, <3>1, <3>2, <3>3
    <2>5. PayoutFate' = PayoutFate
        BY <2>1, <2>2 DEF PayoutFate
    <2>6. Ledger!Reject(c)
        BY <2>1, <2>2, <2>4, <2>5 DEF Ledger!Reject
    <2> QED
        BY <2>1, <2>6 DEF Ledger!LedgerNext
<1>5. ASSUME NEW w \in Workers, CommitDiscard(w) PROVE Ledger!LedgerNext
    <2> DEFINE c == msg[w].bet
    <2>1. /\ c \in Bets
          /\ Settled(c) \notin processed
          /\ c \in Lost
          /\ msg[w] = Settled(c)
          /\ status[c] = "SETTLED"
        BY <1>5 DEF CommitDiscard, Holding, Checked, Exclusive, Marks, Sequenced
    <2>2. /\ processed' = processed \cup {Settled(c)}
          /\ UNCHANGED <<amount, status, reserved, credited, funded>>
        BY <1>5, <2>1 DEF CommitDiscard, Committed
    <2> HIDE DEF c
    <2>3. reserved[c] = 1 /\ credited[c] = 0
        BY <2>1 DEF Recorded
    <2>4. PayoutFate[c] = "none" /\ PayoutFate' = [PayoutFate EXCEPT ![c] = "closed"]
        <3>1. PayoutFate[c] = "none"
            BY <2>1, <2>3 DEF PayoutFate
        <3>2. \A b \in Bets : PayoutFate'[b] = IF b = c THEN "closed" ELSE PayoutFate[b]
            BY <2>1, <2>2, <2>3 DEF PayoutFate
        <3>3. PayoutFate = [b \in Bets |-> PayoutFate[b]] /\ PayoutFate' = [b \in Bets |-> PayoutFate'[b]]
            BY DEF PayoutFate
        <3> QED
            BY <2>1, <3>1, <3>2, <3>3
    <2>5. StakeFate[c] = "debited" /\ StakeFate' = StakeFate
        BY <2>1, <2>2, <2>3 DEF StakeFate
    <2>6. Ledger!Close(c)
        BY <2>1, <2>2, <2>4, <2>5 DEF Ledger!Close
    <2> QED
        BY <2>1, <2>6 DEF Ledger!LedgerNext
<1>6. ASSUME NEW w \in Workers, CommitCredit(w) PROVE Ledger!LedgerNext
    <2> DEFINE c == msg[w].bet
    <2>1. /\ c \in Bets
          /\ Settled(c) \notin processed
          /\ c \notin Lost
          /\ msg[w] = Settled(c)
          /\ status[c] = "SETTLED"
        BY <1>6 DEF CommitCredit, Holding, Checked, Exclusive, Marks, Sequenced
    <2>2. /\ amount' = [amount EXCEPT ![Owner[c]] = @ + Payout[c]]
          /\ credited' = [credited EXCEPT ![c] = @ + 1]
          /\ processed' = processed \cup {Settled(c)}
          /\ UNCHANGED <<status, reserved, funded>>
        BY <1>6, <2>1 DEF CommitCredit, Committed, MoveBalance, User
    <2> HIDE DEF c
    <2>3. reserved[c] = 1 /\ credited[c] = 0
        BY <2>1 DEF Recorded
    <2>4. PayoutFate[c] = "none" /\ PayoutFate' = [PayoutFate EXCEPT ![c] = "paid"]
        <3>1. PayoutFate[c] = "none"
            BY <2>1, <2>3 DEF PayoutFate
        <3>2. \A b \in Bets : PayoutFate'[b] = IF b = c THEN "paid" ELSE PayoutFate[b]
            BY <2>1, <2>2, <2>3 DEF PayoutFate
        <3>3. PayoutFate = [b \in Bets |-> PayoutFate[b]] /\ PayoutFate' = [b \in Bets |-> PayoutFate'[b]]
            BY DEF PayoutFate
        <3> QED
            BY <2>1, <3>1, <3>2, <3>3
    <2>5. StakeFate[c] = "debited" /\ StakeFate' = StakeFate
        BY <2>1, <2>2, <2>3 DEF StakeFate
    <2>6. Ledger!Pay(c)
        BY <2>1, <2>2, <2>4, <2>5 DEF Ledger!Pay
    <2> QED
        BY <2>1, <2>6 DEF Ledger!LedgerNext
<1>7. ASSUME UNCHANGED db PROVE UNCHANGED Ledger!lvars
    BY <1>7, LedgerUnmoved DEF db
<1> QED
    BY <1>1, <1>2, <1>3, <1>4, <1>5, <1>6, <1>7 DEF vars, Next, Step, Commit, Publish, Begin,
       LockWallet, Reserve, RejectBet, Discard, Credit, Abort, Ack, Nack, Crash, Release

\* wallet-service implements the ledger: each bet's stake and payout is decided once,
\* with the balance it implies.
THEOREM Refinement == Spec => ImplementsLedger
    BY LedgerInitially, Invariance, LedgerStep, PTL DEF Spec, ImplementsLedger, Ledger!LedgerSpec

-----------------------------------------------------------------------------
(* The ledger: what the bets of a user add to its balance and its version. *)

\* What each bet of S adds to the balance, and the sums LedgerExact takes.
Effect(cr, rs, S) == [b \in S |-> cr[b] * Payout[b] - rs[b] * Stake[b]]
Moves(cr, rs, S) == [b \in S |-> cr[b] + rs[b]]
EffectSum(cr, rs, S) == MapThenSumSet(LAMBDA b : cr[b] * Payout[b] - rs[b] * Stake[b], S)
MovesSum(cr, rs, S) == MapThenSumSet(LAMBDA b : cr[b] + rs[b], S)

\* Amounts and counts are integers.
LEMMA SummandTypes ==
    ASSUME NEW cr \in [Bets -> Nat], NEW rs \in [Bets -> Nat], NEW S \in SUBSET Bets
    PROVE  Effect(cr, rs, S) \in [S -> Int] /\ Moves(cr, rs, S) \in [S -> Int]
<1>1. ASSUME NEW b \in S PROVE cr[b] * Payout[b] - rs[b] * Stake[b] \in Int
  <2>1. cr[b] \in Int /\ rs[b] \in Int /\ Payout[b] \in Int /\ Stake[b] \in Int
    BY AmountsAssumption
  <2>2. cr[b] * Payout[b] \in Int /\ rs[b] * Stake[b] \in Int
    BY <2>1
  <2>. QED
    BY <2>2
<1>2. ASSUME NEW b \in S PROVE cr[b] + rs[b] \in Int
  <2>1. cr[b] \in Int /\ rs[b] \in Int
    OBVIOUS
  <2>. QED
    BY <2>1
<1>. QED
  BY <1>1, <1>2 DEF Effect, Moves

\* MapThenSumSet is the sum of FiniteSums.
LEMMA EffectSumIs ==
    ASSUME NEW cr \in [Bets -> Nat], NEW rs \in [Bets -> Nat],
           NEW S \in SUBSET Bets, IsFiniteSet(S),
           NEW f, IsSum(f, Effect(cr, rs, S), S)
    PROVE  EffectSum(cr, rs, S) = f[S]
<1>. DEFINE P(k) == k = [T \in SUBSET S |->
         IF T = {} THEN 0
         ELSE LET x == CHOOSE x \in T : TRUE
              IN  cr[x] * Payout[x] - rs[x] * Stake[x] + k[T \ {x}]]
     g == CHOOSE k : P(k)
<1>0. ASSUME NEW T \in SUBSET S, T # {}
      PROVE  Effect(cr, rs, S)[Chosen(T)]
             = cr[Chosen(T)] * Payout[Chosen(T)] - rs[Chosen(T)] * Stake[Chosen(T)]
  BY <1>0, TakeOut DEF Effect
<1>1. P(f)
  BY <1>0 DEF IsSum, Chosen
<1>2. \A k : P(k) => IsSum(k, Effect(cr, rs, S), S)
  BY <1>0 DEF IsSum, Chosen
<1>. HIDE DEF P
<1>3. P(g)
  BY <1>1
<1>4. EffectSum(cr, rs, S) = g[S]
  BY DEF EffectSum, MapThenSumSet, MapThenFoldSet, P
<1>5. g = f
  <2>. HIDE DEF g
  <2>1. IsSum(g, Effect(cr, rs, S), S)
    BY <1>2, <1>3
  <2>. QED
    BY <2>1, SumIsUnique
<1>. QED
  BY <1>4, <1>5

LEMMA MovesSumIs ==
    ASSUME NEW cr \in [Bets -> Nat], NEW rs \in [Bets -> Nat],
           NEW S \in SUBSET Bets, IsFiniteSet(S),
           NEW f, IsSum(f, Moves(cr, rs, S), S)
    PROVE  MovesSum(cr, rs, S) = f[S]
<1>. DEFINE P(k) == k = [T \in SUBSET S |->
         IF T = {} THEN 0
         ELSE LET x == CHOOSE x \in T : TRUE
              IN  cr[x] + rs[x] + k[T \ {x}]]
     g == CHOOSE k : P(k)
<1>0. ASSUME NEW T \in SUBSET S, T # {}
      PROVE  Moves(cr, rs, S)[Chosen(T)] = cr[Chosen(T)] + rs[Chosen(T)]
  BY <1>0, TakeOut DEF Moves
<1>1. P(f)
  BY <1>0 DEF IsSum, Chosen
<1>2. \A k : P(k) => IsSum(k, Moves(cr, rs, S), S)
  BY <1>0 DEF IsSum, Chosen
<1>. HIDE DEF P
<1>3. P(g)
  BY <1>1
<1>4. MovesSum(cr, rs, S) = g[S]
  BY DEF MovesSum, MapThenSumSet, MapThenFoldSet, P
<1>5. g = f
  <2>. HIDE DEF g
  <2>1. IsSum(g, Moves(cr, rs, S), S)
    BY <1>2, <1>3
  <2>. QED
    BY <2>1, SumIsUnique
<1>. QED
  BY <1>4, <1>5

\* The sum is an integer.
LEMMA EffectSumType ==
    ASSUME NEW cr \in [Bets -> Nat], NEW rs \in [Bets -> Nat],
           NEW S \in SUBSET Bets, IsFiniteSet(S)
    PROVE  EffectSum(cr, rs, S) \in Int
<1>1. PICK f \in [SUBSET S -> Int] : IsSum(f, Effect(cr, rs, S), S)
  BY SummandTypes, SumExists
<1>2. EffectSum(cr, rs, S) = f[S]
  BY <1>1, EffectSumIs
<1>. QED
  BY <1>1, <1>2

\* LedgerExact in terms of these sums, in this state and in the next one.
LEMMA LedgerIsSums ==
    /\ LedgerExact <=> \A u \in Users :
           /\ amount[u] = Opening[u] + EffectSum(credited, reserved, BetsOf(u))
           /\ version[u] = MovesSum(credited, reserved, BetsOf(u))
    /\ LedgerExact' <=> \A u \in Users :
           /\ amount'[u] = Opening[u] + EffectSum(credited', reserved', BetsOf(u))
           /\ version'[u] = MovesSum(credited', reserved', BetsOf(u))
<1>1. LedgerExact <=> \A u \in Users :
           /\ amount[u] = Opening[u] + EffectSum(credited, reserved, BetsOf(u))
           /\ version[u] = MovesSum(credited, reserved, BetsOf(u))
  BY DEF LedgerExact, EffectSum, MovesSum, MapThenSumSet, MapThenFoldSet
<1>2. LedgerExact' <=> \A u \in Users :
           /\ amount'[u] = Opening[u] + EffectSum(credited', reserved', BetsOf(u))
           /\ version'[u] = MovesSum(credited', reserved', BetsOf(u))
  BY DEF LedgerExact, EffectSum, MovesSum, MapThenSumSet, MapThenFoldSet, BetsOf
<1>. QED
  BY <1>1, <1>2

\* A user's bets are finitely many.
LEMMA BetsOfFacts == \A u \in Users : BetsOf(u) \in SUBSET Bets /\ IsFiniteSet(BetsOf(u))
BY BetsAssumption, FS_Subset DEF BetsOf

\* Nothing is reserved or credited yet.
LEMMA LedgerStarts == Init => LedgerExact
<1>. SUFFICES ASSUME Init, NEW u \in Users
              PROVE  /\ amount[u] = Opening[u] + EffectSum(credited, reserved, BetsOf(u))
                     /\ version[u] = MovesSum(credited, reserved, BetsOf(u))
  BY LedgerIsSums
<1>. DEFINE S == BetsOf(u)
<1>1. S \in SUBSET Bets /\ IsFiniteSet(S)
  BY BetsOfFacts
<1>2. /\ credited \in [Bets -> Nat] /\ reserved \in [Bets -> Nat]
      /\ \A b \in Bets : credited[b] = 0 /\ reserved[b] = 0
      /\ amount[u] = Opening[u] /\ version[u] = 0
  BY DEF Init
<1>. HIDE DEF S
<1>3. \A b \in S : Effect(credited, reserved, S)[b] = 0 /\ Moves(credited, reserved, S)[b] = 0
  <2>. TAKE b \in S
  <2>1. 0 * Payout[b] - 0 * Stake[b] = 0
    BY <1>1, AmountsAssumption
  <2>. QED
    BY <1>1, <1>2, <2>1 DEF Effect, Moves
<1>4. PICK f : IsSum(f, Effect(credited, reserved, S), S)
  BY <1>1, <1>2, SummandTypes, SumExists
<1>5. f[S] = 0
  BY <1>1, <1>2, <1>3, <1>4, SummandTypes, SumOfZeros
<1>6. PICK g : IsSum(g, Moves(credited, reserved, S), S)
  BY <1>1, <1>2, SummandTypes, SumExists
<1>7. g[S] = 0
  BY <1>1, <1>2, <1>3, <1>6, SummandTypes, SumOfZeros
<1>8. EffectSum(credited, reserved, S) = 0 /\ MovesSum(credited, reserved, S) = 0
  BY <1>1, <1>2, <1>4, <1>5, <1>6, <1>7, EffectSumIs, MovesSumIs
<1>9. Opening[u] \in Int
  BY AmountsAssumption
<1>. QED
  BY <1>2, <1>8, <1>9 DEF S

\* One transaction of bet b: its summand of the balance changes by d, that of the
\* version by one, and no other bet's.
OneMoved(cr, rs, cr2, rs2, b, d) ==
    /\ \A c \in Bets \ {b} : cr2[c] = cr[c] /\ rs2[c] = rs[c]
    /\ cr2[b] + rs2[b] = cr[b] + rs[b] + 1
    /\ cr2[b] * Payout[b] - rs2[b] * Stake[b] = (cr[b] * Payout[b] - rs[b] * Stake[b]) + d

\* Both sums follow.
LEMMA SumsMove ==
    ASSUME NEW cr \in [Bets -> Nat], NEW rs \in [Bets -> Nat],
           NEW cr2 \in [Bets -> Nat], NEW rs2 \in [Bets -> Nat],
           NEW S \in SUBSET Bets, IsFiniteSet(S), NEW b \in S, NEW d \in Int,
           OneMoved(cr, rs, cr2, rs2, b, d)
    PROVE  /\ EffectSum(cr2, rs2, S) = EffectSum(cr, rs, S) + d
           /\ MovesSum(cr2, rs2, S) = MovesSum(cr, rs, S) + 1
<1>1. \A c \in S \ {b} : cr2[c] = cr[c] /\ rs2[c] = rs[c]
  BY DEF OneMoved
<1>2. Effect(cr2, rs2, S)[b] = Effect(cr, rs, S)[b] + d
  BY DEF OneMoved, Effect
<1>3. Moves(cr2, rs2, S)[b] = Moves(cr, rs, S)[b] + 1
  BY DEF OneMoved, Moves
<1>4. /\ Effect(cr, rs, S) \in [S -> Int] /\ Effect(cr2, rs2, S) \in [S -> Int]
      /\ Moves(cr, rs, S) \in [S -> Int] /\ Moves(cr2, rs2, S) \in [S -> Int]
  BY SummandTypes
<1>5. EffectSum(cr2, rs2, S) = EffectSum(cr, rs, S) + d
  <2>1. \A c \in S \ {b} : Effect(cr2, rs2, S)[c] = Effect(cr, rs, S)[c]
    BY <1>1 DEF Effect
  <2>2. PICK f, g : /\ IsSum(f, Effect(cr, rs, S), S) /\ IsSum(g, Effect(cr2, rs2, S), S)
                    /\ g[S] = f[S] + d
    <3>1. Differs(Effect(cr, rs, S), Effect(cr2, rs2, S), S, b, d)
      BY <1>2, <1>4, <2>1 DEF Differs
    <3>. QED
      BY <3>1, SumDiffers
  <2>. QED
    BY <2>2, EffectSumIs
<1>6. MovesSum(cr2, rs2, S) = MovesSum(cr, rs, S) + 1
  <2>1. \A c \in S \ {b} : Moves(cr2, rs2, S)[c] = Moves(cr, rs, S)[c]
    BY <1>1 DEF Moves
  <2>2. PICK f, g : /\ IsSum(f, Moves(cr, rs, S), S) /\ IsSum(g, Moves(cr2, rs2, S), S)
                    /\ g[S] = f[S] + 1
    <3>1. Differs(Moves(cr, rs, S), Moves(cr2, rs2, S), S, b, 1)
      BY <1>3, <1>4, <2>1 DEF Differs
    <3>. QED
      BY <3>1, SumDiffers
  <2>. QED
    BY <2>2, MovesSumIs
<1>. QED
  BY <1>5, <1>6

\* A bet of another user is not in the sum.
LEMMA OthersUntouched ==
    ASSUME NEW cr \in [Bets -> Nat], NEW rs \in [Bets -> Nat],
           NEW cr2 \in [Bets -> Nat], NEW rs2 \in [Bets -> Nat],
           NEW S \in SUBSET Bets, IsFiniteSet(S),
           \A c \in S : cr2[c] = cr[c] /\ rs2[c] = rs[c]
    PROVE  /\ EffectSum(cr2, rs2, S) = EffectSum(cr, rs, S)
           /\ MovesSum(cr2, rs2, S) = MovesSum(cr, rs, S)
<1>1. Effect(cr2, rs2, S) = Effect(cr, rs, S) /\ Moves(cr2, rs2, S) = Moves(cr, rs, S)
  BY DEF Effect, Moves
<1>2. PICK f : IsSum(f, Effect(cr, rs, S), S)
  BY SummandTypes, SumExists
<1>3. PICK g : IsSum(g, Moves(cr, rs, S), S)
  BY SummandTypes, SumExists
<1>. QED
  BY <1>1, <1>2, <1>3, EffectSumIs, MovesSumIs

\* A transaction that moves the balance of a user by what one bet's summand changes,
\* and its version by one, keeps the ledger.
LEMMA LedgerMoves ==
    ASSUME TypeOK, TypeOK', LedgerExact, NEW b \in Bets, NEW d \in Int,
           MoveBalance(Owner[b], d),
           OneMoved(credited, reserved, credited', reserved', b, d)
    PROVE  LedgerExact'
<1>1. /\ credited \in [Bets -> Nat] /\ reserved \in [Bets -> Nat]
      /\ credited' \in [Bets -> Nat] /\ reserved' \in [Bets -> Nat]
  BY DEF TypeOK
<1>2. SUFFICES ASSUME NEW u \in Users
      PROVE  /\ amount'[u] = Opening[u] + EffectSum(credited', reserved', BetsOf(u))
             /\ version'[u] = MovesSum(credited', reserved', BetsOf(u))
  BY LedgerIsSums
<1>. DEFINE S == BetsOf(u)
<1>3. S \in SUBSET Bets /\ IsFiniteSet(S)
  BY BetsOfFacts
<1>4. b \in S <=> Owner[b] = u
  BY DEF BetsOf
<1>5. /\ amount[u] = Opening[u] + EffectSum(credited, reserved, S)
      /\ version[u] = MovesSum(credited, reserved, S)
  BY LedgerIsSums
<1>. HIDE DEF S
<1>6. CASE Owner[b] = u
  <2>1. b \in S
    BY <1>4, <1>6
  <2>2. /\ EffectSum(credited', reserved', S) = EffectSum(credited, reserved, S) + d
        /\ MovesSum(credited', reserved', S) = MovesSum(credited, reserved, S) + 1
    BY <1>1, <1>3, <2>1, SumsMove
  <2>6. amount'[u] = amount[u] + d /\ version'[u] = version[u] + 1
    BY <1>6 DEF MoveBalance, TypeOK
  <2>7. EffectSum(credited, reserved, S) \in Int /\ Opening[u] \in Int
    BY <1>1, <1>3, EffectSumType, AmountsAssumption
  <2>. QED
    BY <1>5, <2>2, <2>6, <2>7 DEF S
<1>7. CASE Owner[b] # u
  <2>1. b \notin S
    BY <1>4, <1>7
  <2>2. /\ EffectSum(credited', reserved', S) = EffectSum(credited, reserved, S)
        /\ MovesSum(credited', reserved', S) = MovesSum(credited, reserved, S)
    BY <1>1, <1>3, <2>1, OthersUntouched DEF OneMoved
  <2>3. amount'[u] = amount[u] /\ version'[u] = version[u]
    BY <1>7 DEF MoveBalance, TypeOK
  <2>. QED
    BY <1>5, <2>2, <2>3 DEF S
<1>. QED
  BY <1>6, <1>7

\* Only the two commits that write an outbox row move a balance.
LEMMA LedgerExactStep ==
    ASSUME IInv, IInv', LedgerExact, [Next]_vars PROVE LedgerExact'
<1>. USE EventFacts DEF IInv
<1>1. CASE UNCHANGED <<amount, version, reserved, credited>>
  BY <1>1, LedgerIsSums
<1>2. ASSUME NEW w \in Workers, CommitReserve(w) PROVE LedgerExact'
  <2>. DEFINE b == msg[w].bet
  <2>0. b \in Bets
    BY <1>2 DEF CommitReserve, Holding
  <2>1. /\ b \in Bets /\ Stake[b] \in Int /\ Payout[b] \in Int
        /\ credited[b] \in Int /\ reserved[b] \in Int
    <3>. HIDE DEF b
    <3>. QED
      BY <2>0, AmountsAssumption DEF TypeOK
  <2>2. /\ MoveBalance(Owner[b], -Stake[b]) /\ credited' = credited
        /\ reserved' = [reserved EXCEPT ![b] = @ + 1]
    BY <1>2 DEF CommitReserve, User
  <2>. HIDE DEF b
  <2>3. reserved'[b] = reserved[b] + 1 /\ credited'[b] = credited[b]
    BY <2>1, <2>2 DEF TypeOK
  <2>4. /\ credited'[b] + reserved'[b] = credited[b] + reserved[b] + 1
        /\ credited'[b] * Payout[b] - reserved'[b] * Stake[b]
             = (credited[b] * Payout[b] - reserved[b] * Stake[b]) + (-Stake[b])
    <3>1. (reserved[b] + 1) * Stake[b] = reserved[b] * Stake[b] + Stake[b]
      BY <2>1
    <3>2. credited[b] * Payout[b] \in Int /\ reserved[b] * Stake[b] \in Int
      BY <2>1
    <3>3. \A x, y, z \in Int : x - (y + z) = (x - y) + (-z)
      OBVIOUS
    <3>4. credited[b] * Payout[b] - (reserved[b] * Stake[b] + Stake[b])
            = (credited[b] * Payout[b] - reserved[b] * Stake[b]) + (-Stake[b])
      BY <2>1, <3>2, <3>3
    <3>5. credited[b] + (reserved[b] + 1) = credited[b] + reserved[b] + 1
      BY <2>1
    <3>. QED
      BY <2>3, <3>1, <3>4, <3>5
  <2>5. \A c \in Bets \ {b} : credited'[c] = credited[c] /\ reserved'[c] = reserved[c]
    BY <2>2 DEF TypeOK
  <2>6. -Stake[b] \in Int
    BY <2>1
  <2>. QED
    BY <2>1, <2>2, <2>4, <2>5, <2>6, LedgerMoves DEF OneMoved
<1>3. ASSUME NEW w \in Workers, CommitCredit(w) PROVE LedgerExact'
  <2>. DEFINE b == msg[w].bet
  <2>0. b \in Bets
    BY <1>3 DEF CommitCredit, Holding
  <2>1. /\ b \in Bets /\ Stake[b] \in Int /\ Payout[b] \in Int
        /\ credited[b] \in Int /\ reserved[b] \in Int
    <3>. HIDE DEF b
    <3>. QED
      BY <2>0, AmountsAssumption DEF TypeOK
  <2>2. /\ MoveBalance(Owner[b], Payout[b]) /\ reserved' = reserved
        /\ credited' = [credited EXCEPT ![b] = @ + 1]
    BY <1>3 DEF CommitCredit, User
  <2>. HIDE DEF b
  <2>3. credited'[b] = credited[b] + 1 /\ reserved'[b] = reserved[b]
    BY <2>1, <2>2 DEF TypeOK
  <2>4. /\ credited'[b] + reserved'[b] = credited[b] + reserved[b] + 1
        /\ credited'[b] * Payout[b] - reserved'[b] * Stake[b]
             = (credited[b] * Payout[b] - reserved[b] * Stake[b]) + Payout[b]
    <3>1. (credited[b] + 1) * Payout[b] = credited[b] * Payout[b] + Payout[b]
      BY <2>1
    <3>2. credited[b] * Payout[b] \in Int /\ reserved[b] * Stake[b] \in Int
      BY <2>1
    <3>. QED
      BY <2>1, <2>3, <3>1, <3>2
  <2>5. \A c \in Bets \ {b} : credited'[c] = credited[c] /\ reserved'[c] = reserved[c]
    BY <2>2 DEF TypeOK
  <2>. QED
    BY <2>1, <2>2, <2>4, <2>5, LedgerMoves DEF OneMoved
<1>. QED
  BY <1>1, <1>2, <1>3 DEF Next, vars, db, Step, Commit, Publish, Accept, Settle, WriteStatus,
     CreateWallet, Begin, LockWallet, Reserve, RejectBet, Discard, Credit, CommitReject,
     CommitDiscard, Abort, Ack, Nack, Crash, Release

\* A wallet is worth its opening balance, less the stakes its outbox announces as
\* reserved, plus the payouts it announces as credited, after any number of
\* deliveries, failures and crashes, for any number of bets.
THEOREM LedgerIsExact == Spec => []LedgerExact
<1>1. IInv /\ LedgerExact /\ [Next]_vars => (IInv /\ LedgerExact)'
  BY StepPreserves, LedgerExactStep
<1>2. Init => IInv /\ LedgerExact
  BY InitEstablishes, LedgerStarts
<1>. QED
  BY <1>1, <1>2, PTL DEF Spec
=============================================================================
