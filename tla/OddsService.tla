----------------------------- MODULE OddsService -----------------------------
(***************************************************************************)
(* The odds of one market: odds-service keeps them in MySQL (market_odds)  *)
(* with a Redis copy filled on demand and on update (cache aside,          *)
(* internal/app/odds), and bet-service asks for them before it places a    *)
(* bet (HandlePlaceBet, internal/infra/httpapi/bets.go).  Requests run     *)
(* concurrently, in any number of replicas; each of their calls to Redis   *)
(* or MySQL is a step of its own and may fail.                             *)
(***************************************************************************)
EXTENDS Integers, FiniteSets

CONSTANTS
    Updates,         \* requests POST /v1/markets/{id}/odds
    Starts,          \* starts of odds-service, each of which seeds an empty table
    Gets,            \* requests GET /v1/markets/{id}/odds
    Bets,            \* requests POST /bets, each with a GET inside
    Offer,           \* [Updates -> the odds it stores]
    Asked,           \* [Bets -> the odds_version of the request]
    Earlier,         \* the odds in MySQL from an earlier life, if any
    NoOdds,          \* no row, no cache entry, no answer
    NoRedis          \* in place of the cache: REDIS_ADDR is not set

Demo == [version |-> 99, status |-> "OPEN"]
Odds == [version : Nat, status : {"OPEN", "SUSPENDED"}]

ASSUME OddsAssumption ==
    /\ Updates \cap Gets = {} /\ Updates \cap Bets = {} /\ Gets \cap Bets = {}
    /\ Starts \cap (Updates \cup Gets \cup Bets) = {}
    /\ Offer \in [Updates -> Odds]
    /\ Asked \in [Bets -> Nat]
    /\ NoOdds \notin Odds /\ NoRedis \notin Odds \cup {NoOdds}
    /\ Earlier \in Odds

Readers == Gets \cup Bets
Writers == Updates \cup Starts
Requests == Writers \cup Readers
Stored(u) == IF u \in Starts THEN Demo ELSE Offer[u]

VARIABLES
    db,       \* the row of market_odds
    cache,    \* the Redis entry
    pc,       \* where each request is
    answer,   \* [Readers -> what GetOdds read for it]
    history   \* odds MySQL has held

vars == <<db, cache, pc, answer, history>>

Init ==
    /\ db \in {Earlier, NoOdds}
    /\ cache \in {NoOdds, NoRedis}
    /\ pc = [r \in Requests |-> "new"]
    /\ answer = [r \in Readers |-> NoOdds]
    /\ history = {db} \ {NoOdds}

Goto(r, where) == pc' = [pc EXCEPT ![r] = where]

-----------------------------------------------------------------------------
(* UpdateOdds, called by an operator or by Seed.                           *)

CallsSave(u) == pc[u] = IF u \in Starts THEN "seeding" ELSE "new"

\* MysqlOddsRepository.Save: an upsert that overwrites whatever version is there.
Save(u) ==
    /\ CallsSave(u)
    /\ db' = Stored(u)
    /\ history' = history \cup {Stored(u)}
    /\ Goto(u, "saved")
    /\ UNCHANGED <<cache, answer>>

\* Mutant: the cache is set although Save failed.
SaveFailsUnnoticed(u) ==
    /\ CallsSave(u)
    /\ Goto(u, "saved")
    /\ UNCHANGED <<db, cache, answer, history>>
\* Save fails: 500, and the cache is left alone.
SaveFails(u) ==
    /\ CallsSave(u)
    /\ Goto(u, "done")
    /\ UNCHANGED <<db, cache, answer, history>>

\* Cache.Set after Save: its error is dropped.  Without Redis the call panics (main
\* stores a nil *RedisOddsCache in the interface, which then is not nil): net/http ends
\* the request, Seed ends the process, and what was saved stays.
SetCache(u) ==
    /\ pc[u] = "saved"
    /\ cache' \in IF cache = NoRedis THEN {NoRedis} ELSE {Stored(u), cache}
    /\ Goto(u, "done")
    /\ UNCHANGED <<db, answer, history>>

\* Seed: ListAll finds the table empty, and the demo odds follow, whatever happens to the
\* table in between; odds, or an error, and nothing is seeded.
SeedFindsNothing(u) ==
    /\ pc[u] = "new"
    /\ db = NoOdds
    /\ Goto(u, "seeding")
    /\ UNCHANGED <<db, cache, answer, history>>

SeedSkipped(u) ==
    /\ pc[u] = "new"
    /\ Goto(u, "done")
    /\ UNCHANGED <<db, cache, answer, history>>

-----------------------------------------------------------------------------
(* GetOdds.                                                                *)

\* A POST /bets arrives; the GET it makes arrives at odds-service.
Arrive(r) ==
    /\ pc[r] = "new"
    /\ Goto(r, "get")
    /\ UNCHANGED <<db, cache, answer, history>>

CacheHit(r) ==
    /\ pc[r] = "get"
    /\ cache \in Odds
    /\ answer' = [answer EXCEPT ![r] = cache]
    /\ Goto(r, "answered")
    /\ UNCHANGED <<db, cache, history>>

\* Mutant: the nil check works.
MissWithoutRedis(r) ==
    /\ pc[r] = "get"
    /\ Goto(r, "missed")
    /\ UNCHANGED <<db, cache, answer, history>>
\* No entry, or an error of Redis.
CacheMiss(r) ==
    /\ pc[r] = "get"
    /\ cache # NoRedis
    /\ Goto(r, "missed")
    /\ UNCHANGED <<db, cache, answer, history>>

\* Without Redis Cache.Get panics: the connection closes without an answer, which
\* HandlePlaceBet answers with 503.
GetPanics(r) ==
    /\ pc[r] = "get"
    /\ cache = NoRedis
    /\ Goto(r, "refused")
    /\ UNCHANGED <<db, cache, answer, history>>

\* Repo.GetByID; no row is answered 404, as is any other error.
ReadRow(r) ==
    /\ pc[r] = "missed"
    /\ answer' = [answer EXCEPT ![r] = db]
    /\ Goto(r, IF db = NoOdds THEN "answered" ELSE "read")
    /\ UNCHANGED <<db, cache, history>>

ReadFails(r) ==
    /\ pc[r] = "missed"
    /\ Goto(r, "answered")
    /\ UNCHANGED <<db, cache, answer, history>>

\* Cache.Set of what was read then; its error is dropped.
Fill(r) ==
    /\ pc[r] = "read"
    /\ cache' \in {answer[r], cache}
    /\ Goto(r, "answered")
    /\ UNCHANGED <<db, answer, history>>

\* Mutant: the entry is set without an expiration.
NeverExpires == FALSE /\ UNCHANGED vars
\* The entry's ten minutes are over, or Redis evicts it.
Expire ==
    /\ cache \in Odds
    /\ cache' = NoOdds
    /\ UNCHANGED <<db, pc, answer, history>>

-----------------------------------------------------------------------------
(* HandlePlaceBet.                                                         *)

\* Mutant: only the version is compared.
SameVersion(b) == answer[b] # NoOdds /\ answer[b].version = Asked[b]
\* The market is open, at the version the client saw.
Passes(b) == answer[b] = [version |-> Asked[b], status |-> "OPEN"]

Check(b) ==
    /\ pc[b] = "answered"
    /\ Goto(b, IF Passes(b) THEN "checked" ELSE "refused")
    /\ UNCHANGED <<db, cache, answer, history>>

\* The client or the two seconds' timeout ends the GET (503), or PlaceBet's transaction
\* fails.
GiveUp(b) ==
    /\ pc[b] \in {"get", "missed", "read", "answered", "checked"}
    /\ Goto(b, "refused")
    /\ UNCHANGED <<db, cache, answer, history>>

\* An answer that does not decode, or a status that is neither 200 nor 404: the bet is
\* placed unchecked.
BrokenAnswer(b) ==
    /\ pc[b] = "answered"
    /\ answer' = [answer EXCEPT ![b] = NoOdds]
    /\ Goto(b, "checked")
    /\ UNCHANGED <<db, cache, history>>

\* service.PlaceBet commits the bet (BetSaga goes on from here).
Place(b) ==
    /\ pc[b] = "checked"
    /\ Goto(b, "placed")
    /\ UNCHANGED <<db, cache, answer, history>>

Serve(r) ==
    \/ r \in Starts /\ (SeedFindsNothing(r) \/ SeedSkipped(r))
    \/ r \in Writers /\ (Save(r) \/ SaveFails(r) \/ SetCache(r))
    \/ r \in Readers /\ (\/ Arrive(r) \/ CacheHit(r) \/ CacheMiss(r) \/ GetPanics(r)
                         \/ ReadRow(r) \/ ReadFails(r) \/ Fill(r))
    \/ r \in Bets /\ (Check(r) \/ GiveUp(r) \/ BrokenAnswer(r) \/ Place(r))

Next == Expire \/ \E r \in Requests : Serve(r)

Spec == Init /\ [][Next]_vars

\* A request that has begun is served to its end, and entries expire.
FairSpec ==
    /\ Spec
    /\ \A r \in Requests : WF_vars(pc[r] # "new" /\ Serve(r))
    /\ WF_vars(Expire)

-----------------------------------------------------------------------------
(* Properties.                                                             *)

\* Types; a request that holds odds in a local read them at some time.
TypeOK ==
    /\ db \in Odds \cup {NoOdds} /\ cache \in Odds \cup {NoOdds, NoRedis}
    /\ pc \in [Requests -> {"new", "seeding", "saved", "done", "get", "missed", "read", "answered",
                            "refused", "checked", "placed"}]
    /\ history \subseteq Odds
    /\ db # NoOdds => db \in history
    /\ \A r \in Readers : answer[r] \in history \cup {NoOdds}
    /\ \A r \in Readers : pc[r] = "read" => answer[r] # NoOdds

\* A bet whose check had an answer is never placed on a version that was not on offer in
\* an open market at some time.
PlacedWasOffered ==
    \A b \in Bets :
        pc[b] = "placed" /\ answer[b] # NoOdds
            => [version |-> Asked[b], status |-> "OPEN"] \in history

\* A stale entry does not survive: when the updates are over, Redis ends up with what
\* MySQL has or with nothing.
CacheConverges == <>[](cache \in {db, NoOdds, NoRedis})

\* Redis is optional by main's reading of REDIS_ADDR, and yet without it no bet can be
\* placed: the odds check of every POST /bets ends in a panic of odds-service, and 503.
WithoutRedisNoBets == cache = NoRedis => \A b \in Bets : pc[b] # "placed"
=============================================================================
