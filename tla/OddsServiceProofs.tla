--------------------------- MODULE OddsServiceProofs ---------------------------
(***************************************************************************)
(* What holds of OddsService for any updates, starts, reads, bets and      *)
(* odds, and any failures of MySQL and Redis.                              *)
(*                                                                         *)
(* The argument: whatever a request carries between two of its calls       *)
(* (the odds a writer saved, a reader's answer, the Redis entry) was in    *)
(* MySQL once (Carried), the check of a bet holds of the answer it keeps   *)
(* (Checked), and without Redis no read gets past its first call (Stuck).  *)
(***************************************************************************)
EXTENDS OddsService, TLAPS

\* What is carried from MySQL to Redis was in MySQL.
Carried ==
    /\ answer \in [Readers -> Odds \cup {NoOdds}]
    /\ cache \in history \cup {NoOdds, NoRedis}
    /\ \A u \in Writers : pc[u] = "saved" => Stored(u) \in history

\* A bet that passed the check passed it on the answer it keeps.
Checked ==
    \A b \in Bets : pc[b] \in {"checked", "placed"} /\ answer[b] # NoOdds => Passes(b)

\* Without Redis a read is not begun, at its first call or refused.
Stuck == cache = NoRedis => \A r \in Readers : pc[r] \in {"new", "get", "refused"}

IInv == TypeOK /\ Carried /\ Checked /\ Stuck

-----------------------------------------------------------------------------

LEMMA StoredAreOdds ==
    /\ \A u \in Writers : Stored(u) \in Odds /\ Stored(u) # NoOdds /\ Stored(u) # NoRedis
    /\ Writers \cap Readers = {} /\ Writers \subseteq Requests /\ Readers \subseteq Requests
    /\ Bets \subseteq Readers
<1>1. Demo \in Odds
  BY DEF Demo, Odds
<1>2. \A u \in Writers : Stored(u) \in Odds
  BY <1>1, OddsAssumption DEF Stored, Writers
<1>. QED
  BY <1>2, OddsAssumption DEF Writers, Readers, Requests

LEMMA InitOK == Init => IInv
<1>. SUFFICES ASSUME Init PROVE IInv
  OBVIOUS
<1>1. /\ db \in {Earlier, NoOdds} /\ cache \in {NoOdds, NoRedis} /\ history = {db} \ {NoOdds}
      /\ \A r \in Requests : pc[r] = "new"
      /\ \A r \in Readers : answer[r] = NoOdds
  BY DEF Init
<1>2. TypeOK
  BY <1>1, StoredAreOdds, OddsAssumption DEF Init, TypeOK
<1>3. Carried
  BY <1>1, StoredAreOdds DEF Init, Carried
<1>4. Checked /\ Stuck
  BY <1>1, StoredAreOdds DEF Checked, Stuck
<1>. QED
  BY <1>2, <1>3, <1>4 DEF IInv

\* A step of one request that leaves the answers alone: MySQL's history only grows, and
\* what the request now holds was in it.
LEMMA WriterStep ==
    ASSUME IInv, NEW u \in Writers, NEW where \in {"seeding", "saved", "done"},
           pc' = [pc EXCEPT ![u] = where], answer' = answer,
           db' \in Odds \cup {NoOdds}, db' # NoOdds => db' \in history',
           history \subseteq history', history' \subseteq Odds,
           cache' \in history' \cup {NoOdds, NoRedis}, cache' = NoRedis <=> cache = NoRedis,
           where = "saved" => Stored(u) \in history'
    PROVE  IInv'
<1>1. TypeOK /\ Carried /\ Checked /\ Stuck
  BY DEF IInv
<1>2. \A r \in Requests : pc'[r] = IF r = u THEN where ELSE pc[r]
  BY <1>1 DEF TypeOK
<1>3. \A r \in Readers : r \in Requests /\ pc'[r] = pc[r]
  BY <1>2, StoredAreOdds
<1>4. TypeOK'
  <2>1. pc' \in [Requests -> {"new", "seeding", "saved", "done", "get", "missed", "read", "answered",
                              "refused", "checked", "placed"}]
    BY <1>1 DEF TypeOK
  <2>. QED
    BY <2>1, <1>1, <1>3 DEF TypeOK
<1>5. Carried'
  BY <1>1, <1>2, StoredAreOdds DEF Carried
<1>6. Checked' /\ Stuck'
  BY <1>1, <1>3, StoredAreOdds DEF Checked, Stuck, Passes
<1>. QED
  BY <1>4, <1>5, <1>6 DEF IInv

\* A step of a reader: MySQL is left alone, the reader may keep what MySQL held.
LEMMA ReaderStep ==
    ASSUME IInv, NEW r \in Readers, NEW a \in history \cup {NoOdds},
           NEW where \in {"get", "missed", "read", "answered", "refused", "checked", "placed"},
           pc' = [pc EXCEPT ![r] = where], answer' = [answer EXCEPT ![r] = a],
           UNCHANGED <<db, history>>,
           cache' \in history \cup {NoOdds, NoRedis}, cache' = NoRedis <=> cache = NoRedis,
           where = "read" => a # NoOdds,
           where \in {"checked", "placed"} /\ a # NoOdds => a = [version |-> Asked[r], status |-> "OPEN"],
           cache = NoRedis => where \in {"get", "refused"}
    PROVE  IInv'
<1>1. TypeOK /\ Carried /\ Checked /\ Stuck
  BY DEF IInv
<1>2. \A q \in Requests : pc'[q] = IF q = r THEN where ELSE pc[q]
  BY <1>1 DEF TypeOK
<1>3. \A q \in Readers : q \in Requests /\ answer'[q] = IF q = r THEN a ELSE answer[q]
  BY <1>1, StoredAreOdds DEF Carried
<1>4. TypeOK'
  <2>1. pc' \in [Requests -> {"new", "seeding", "saved", "done", "get", "missed", "read", "answered",
                              "refused", "checked", "placed"}]
    BY <1>1 DEF TypeOK
  <2>. QED
    BY <2>1, <1>1, <1>2, <1>3 DEF TypeOK
<1>5. Carried'
  <2>1. answer' \in [Readers -> Odds \cup {NoOdds}]
    BY <1>1 DEF TypeOK, Carried
  <2>. QED
    BY <2>1, <1>1, <1>2, StoredAreOdds DEF Carried
<1>6. Checked'
  BY <1>1, <1>2, <1>3, StoredAreOdds DEF Checked, Passes
<1>7. Stuck'
  BY <1>1, <1>2, <1>3 DEF Stuck
<1>. QED
  BY <1>4, <1>5, <1>6, <1>7 DEF IInv

LEMMA NextOK == IInv /\ [Next]_vars => IInv'
<1>. SUFFICES ASSUME IInv, [Next]_vars PROVE IInv'
  OBVIOUS
<1>0. /\ TypeOK /\ Carried /\ Checked /\ Stuck
      /\ \A r \in Readers : answer = [answer EXCEPT ![r] = answer[r]]
  BY DEF IInv, Carried
<1>1. CASE Expire
  <2>1. cache' = NoOdds /\ cache # NoRedis /\ UNCHANGED <<db, pc, answer, history>>
    BY <1>1, OddsAssumption DEF Expire
  <2>2. TypeOK' /\ Carried'
    BY <2>1, <1>0 DEF TypeOK, Carried
  <2>3. Checked' /\ Stuck'
    BY <2>1, <1>0, OddsAssumption DEF Checked, Passes, Stuck
  <2>. QED
    BY <2>2, <2>3 DEF IInv
<1>2. ASSUME NEW u \in Writers, Save(u) PROVE IInv'
  <2>1. history' \subseteq Odds /\ history \subseteq history' /\ Stored(u) \in history' /\ db' = Stored(u)
    BY <1>2, <1>0, StoredAreOdds DEF Save, TypeOK
  <2>. QED
    BY <2>1, <1>0, <1>2, StoredAreOdds, WriterStep DEF Save, Goto, Carried
<1>3. ASSUME NEW u \in Writers,
             SaveFails(u) \/ SeedFindsNothing(u) \/ SeedSkipped(u)
      PROVE  IInv'
  BY <1>0, <1>3, WriterStep DEF SaveFails, SeedFindsNothing, SeedSkipped, Goto, TypeOK, Carried
<1>4. ASSUME NEW u \in Writers, SetCache(u) PROVE IInv'
  <2>1. Stored(u) \in history
    BY <1>0, <1>4 DEF SetCache, Carried
  <2>2. /\ cache' \in history \cup {NoOdds, NoRedis} /\ (cache' = NoRedis <=> cache = NoRedis)
        /\ UNCHANGED <<db, answer, history>> /\ pc' = [pc EXCEPT ![u] = "done"]
    BY <2>1, <1>0, <1>4, StoredAreOdds DEF SetCache, Carried, Goto
  <2>. QED
    BY <2>2, <1>0, WriterStep DEF TypeOK
<1>5. ASSUME NEW r \in Readers, Arrive(r) \/ CacheMiss(r) \/ GetPanics(r) \/ ReadFails(r)
      PROVE  IInv'
  <2>1. answer[r] \in history \cup {NoOdds} /\ pc[r] \in {"new", "get", "missed"}
    BY <1>0, <1>5 DEF TypeOK, Arrive, CacheMiss, GetPanics, ReadFails
  <2>2. /\ UNCHANGED <<db, cache, answer, history>>
        /\ \E where \in {"get", "missed", "refused", "answered"} :
               /\ pc' = [pc EXCEPT ![r] = where]
               /\ cache = NoRedis => where \in {"get", "refused"}
    BY <1>0, <1>5 DEF Arrive, CacheMiss, GetPanics, ReadFails, Goto, Stuck
  <2>. QED
    BY <2>1, <2>2, <1>0, ReaderStep DEF Carried
<1>6. ASSUME NEW r \in Readers, CacheHit(r) PROVE IInv'
  <2>1. cache \in history /\ cache # NoRedis
    BY <1>0, <1>6, OddsAssumption DEF CacheHit, Carried
  <2>. QED
    BY <2>1, <1>6, ReaderStep DEF CacheHit, Goto
<1>7. ASSUME NEW r \in Readers, ReadRow(r) PROVE IInv'
  <2>1. db \in history \cup {NoOdds} /\ cache # NoRedis
    BY <1>0, <1>7 DEF ReadRow, TypeOK, Stuck
  <2>2. /\ UNCHANGED <<db, cache, history>> /\ answer' = [answer EXCEPT ![r] = db]
        /\ pc' = [pc EXCEPT ![r] = IF db = NoOdds THEN "answered" ELSE "read"]
    BY <1>7 DEF ReadRow, Goto
  <2>. QED
    BY <2>1, <2>2, <1>0, ReaderStep DEF Carried
<1>8. ASSUME NEW r \in Readers, Fill(r) PROVE IInv'
  <2>1. answer[r] \in history /\ cache # NoRedis
    BY <1>0, <1>8 DEF Fill, TypeOK, Stuck
  <2>2. answer[r] # NoRedis
    BY <2>1, <1>0, OddsAssumption DEF TypeOK
  <2>3. /\ cache' \in history \cup {NoOdds, NoRedis} /\ cache' # NoRedis
        /\ UNCHANGED <<db, answer, history>> /\ pc' = [pc EXCEPT ![r] = "answered"]
    BY <2>1, <2>2, <1>0, <1>8 DEF Fill, Goto, Carried
  <2>. QED
    BY <2>1, <2>3, <1>0, ReaderStep
<1>9. ASSUME NEW b \in Bets, Check(b) \/ GiveUp(b) \/ Place(b) PROVE IInv'
  <2>0. b \in Readers /\ answer[b] \in history \cup {NoOdds}
    BY <1>0, StoredAreOdds DEF TypeOK
  <2>1. UNCHANGED <<db, cache, answer, history>>
    BY <1>9 DEF Check, GiveUp, Place
  <2>2. \E where \in {"refused", "checked", "placed"} :
            /\ pc' = [pc EXCEPT ![b] = where]
            /\ where \in {"checked", "placed"} /\ answer[b] # NoOdds =>
                   answer[b] = [version |-> Asked[b], status |-> "OPEN"]
            /\ cache = NoRedis => where = "refused"
    BY <1>0, <1>9, <2>0 DEF Check, GiveUp, Place, Goto, Passes, Checked, Stuck
  <2>. QED
    BY <2>0, <2>1, <2>2, <1>0, ReaderStep DEF Carried
<1>10. ASSUME NEW b \in Bets, BrokenAnswer(b) PROVE IInv'
  <2>1. b \in Readers /\ cache # NoRedis
    BY <1>0, <1>10, StoredAreOdds DEF BrokenAnswer, Stuck
  <2>. QED
    BY <2>1, <1>0, <1>10, ReaderStep DEF BrokenAnswer, Goto, Carried
<1>11. CASE UNCHANGED vars
  BY <1>0, <1>11 DEF vars, IInv, TypeOK, Carried, Checked, Passes, Stuck
<1>12. Starts \subseteq Writers
  BY DEF Writers
<1>. QED
  BY <1>1, <1>2, <1>3, <1>4, <1>5, <1>6, <1>7, <1>8, <1>9, <1>10, <1>11, <1>12 DEF Next, Serve

\* The requests keep the inductive invariant.
THEOREM Invariance == Spec => []IInv
BY InitOK, NextOK, PTL DEF Spec

\* The row, the entry and every answer are odds MySQL held at some time, or nothing.
THEOREM TypeCorrect == Spec => []TypeOK
<1>1. IInv => TypeOK
  BY DEF IInv
<1>. QED
  BY <1>1, Invariance, PTL

\* However updates, cache fills, expirations and failures interleave, a bet whose check
\* had an answer is placed only at odds that were on offer in an open market.
THEOREM BetsWereOffered == Spec => []PlacedWasOffered
<1>1. IInv => PlacedWasOffered
  BY StoredAreOdds DEF IInv, TypeOK, Checked, Passes, PlacedWasOffered
<1>. QED
  BY <1>1, Invariance, PTL

\* Without Redis, which main takes to be optional, no bet is ever placed.
THEOREM RedisIsNeeded == Spec => []WithoutRedisNoBets
<1>1. IInv => WithoutRedisNoBets
  BY StoredAreOdds DEF IInv, Stuck, WithoutRedisNoBets
<1>. QED
  BY <1>1, Invariance, PTL
=============================================================================
