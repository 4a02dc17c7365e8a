----------------------------- MODULE StartupProofs -----------------------------
(***************************************************************************)
(* What holds of Startup for any processes, any of the nine programs in    *)
(* any number of copies, and any number of deaths and timeouts.            *)
(*                                                                         *)
(* The argument: the advisory lock lets one process at a time into Apply   *)
(* (Locked), so what a runner found recorded or not is still so when it    *)
(* records its own file; a process has behind it whatever its program      *)
(* lists before the phase it is in (Phased, Position, Served); and only a  *)
(* death can part the statements of a file from its record (TornByDeath).  *)
(***************************************************************************)
EXTENDS Startup, TLAPS

Types ==
    /\ lock \in Procs \cup {Nobody}
    /\ done \in [Files -> Nat] /\ \A f \in Files : done[f] <= Script[f].size
    /\ recorded \subseteq Files
    /\ market \in BOOLEAN /\ ordered \in BOOLEAN
    /\ topology \subseteq Range(Topology)
    /\ pc \in [Procs -> {"down", "up"} \cup Phases \cup InApply]
    /\ phase \in [Procs -> Nat \ {0}]
    /\ file \in [Procs -> 1 .. Len(Script) + 1]
    /\ stmt \in [Procs -> Nat \ {0}]
    /\ faults \in 0 .. MaxFaults
    /\ interrupted \subseteq Files
    /\ unseeded \subseteq Procs

Locked == \A p \in Procs : pc[p] \in InApply <=> lock = p

\* Statements of a file that is not recorded were left by a death, or are being executed.
TornByDeath ==
    \A f \in Files \ recorded :
        Script[f].kind = "ddl" /\ done[f] > 0 =>
            \/ f \in interrupted
            \/ \E p \in Procs : pc[p] = "running" /\ file[p] = f /\ stmt[p] = done[f] + 1

DeadLettersFirst == topology \cap WorkQueues # {} => {"dlx", "dlqs"} \subseteq topology

\* Where a process is in the list of its phases.
Phased(p) ==
    /\ pc[p] = "down" => phase[p] = 1
    /\ pc[p] = "up" => phase[p] = Len(Boot(p)) + 1
    /\ pc[p] \notin {"down", "up"} =>
        /\ phase[p] <= Len(Boot(p))
        /\ Boot(p)[phase[p]] = IF pc[p] \in InApply THEN "migrate" ELSE pc[p]

\* Where it is in its phase, and what it has behind it there.
Position(p) ==
    /\ pc[p] \notin {"running", "declare"} => stmt[p] = 1
    /\ pc[p] \notin InApply => file[p] = 1
    /\ pc[p] \in InApply => 1 .. file[p] - 1 \subseteq recorded
    /\ pc[p] = "running" =>
           file[p] \in Files /\ file[p] \notin recorded /\ stmt[p] <= Script[file[p]].size + 1
    /\ pc[p] = "declare" =>
           stmt[p] <= Len(Topology) /\ \A k \in 1 .. stmt[p] - 1 : Topology[k] \in topology

\* What the phases it has been through, and the orchestrator before them, have left.
Served(p) ==
    /\ Boot(p)[1] = "migrate" /\ pc[p] \in {"declare", "seed", "up"} => recorded = Files
    /\ Boot(p)[Len(Boot(p))] = "declare" /\ pc[p] = "up" => topology = Range(Topology)
    /\ ordered /\ Service[p] \notin {"migrate", "notification-service"} /\ pc[p] # "down"
           => recorded = Files
    /\ ordered /\ Service[p] = "odds-service" /\ pc[p] = "up" => market \/ p \in unseeded

Local(p) == Phased(p) /\ Position(p) /\ Served(p)

IInv == /\ Types /\ Locked /\ RecordedIsComplete /\ TornByDeath /\ DeadLettersFirst
        /\ \A p \in Procs : Local(p)

-----------------------------------------------------------------------------
(* The constants.                                                          *)

LEMMA ScriptIs ==
    /\ Files = 1 .. 5 /\ Len(Script) = 5
    /\ \A f \in Files : Script[f].size \in 1 .. 6
    /\ MarketOdds \in Files /\ Script[MarketOdds].size > 0
<1>1. Files = 1 .. 5 /\ Len(Script) = 5
  BY DEF Files, Script
<1>2. \A f \in 1 .. 5 : Script[f].size \in 1 .. 6
  BY DEF Script, InitSchema, DevSeed, OddsTable, CdcPrivileges, ManualSeed
<1>. QED
  BY <1>1, <1>2 DEF MarketOdds

LEMMA TopologyIs ==
    /\ Len(Topology) = 8 /\ Range(Topology) = {Topology[k] : k \in 1 .. 8}
    /\ Topology[1] = "dlx" /\ Topology[2] = "dlqs"
    /\ \A k \in 1 .. 8 : Topology[k] \in WorkQueues => k > 2
<1>1. Len(Topology) = 8 /\ DOMAIN Topology = 1 .. 8
  BY DEF Topology
<1>2. Topology[1] = "dlx" /\ Topology[2] = "dlqs"
  BY DEF Topology
<1>3. \A k \in 1 .. 8 : Topology[k] \in WorkQueues => k > 2
  BY <1>2 DEF WorkQueues
<1>. QED
  BY <1>1, <1>2, <1>3 DEF Range

\* One program after the other: the first phase, and declarations after it.
LEMMA BootIs ==
    ASSUME NEW p \in Procs
    PROVE  /\ Len(Boot(p)) \in 1 .. 3
           /\ Boot(p)[1] \in Phases
           /\ \A k \in 2 .. Len(Boot(p)) : Boot(p)[k] = "declare"
           /\ "migrate" \in Range(Boot(p)) => Boot(p)[1] = "migrate"
           /\ Boot(p)[1] = "migrate" => Service[p] \notin {"notification-service", "odds-service"}
           /\ Boot(p)[1] = "seed" => Service[p] = "odds-service"
           /\ Service[p] = "odds-service" => Len(Boot(p)) = 1 /\ Boot(p)[1] = "seed"
           /\ Service[p] \notin {"migrate", "settlement-service", "odds-service"}
                  => Boot(p)[Len(Boot(p))] = "declare"
<1>1. Service[p] \in Services
  BY StartupAssumption
<1>2. CASE Service[p] \in {"migrate", "settlement-service"}
  <2>1. Boot(p) = <<"migrate">>
    BY <1>2 DEF Boot, MigrateJob, SettlementService
  <2>. QED
    BY <2>1, <1>2 DEF Range, Phases
<1>3. CASE Service[p] \in {"bet-service", "bet-worker", "risk-service", "outbox-relay"}
  <2>1. Boot(p) = <<"migrate", "declare">>
    BY <1>3 DEF Boot, BetService, BetWorker, RiskService, OutboxRelay
  <2>. QED
    BY <2>1, <1>3 DEF Range, Phases
<1>4. CASE Service[p] = "wallet-service"
  <2>1. Boot(p) = <<"migrate", "declare", "declare">>
    BY <1>4 DEF Boot, WalletService
  <2>. QED
    BY <2>1, <1>4 DEF Range, Phases
<1>5. CASE Service[p] = "notification-service"
  <2>1. Boot(p) = <<"declare">>
    BY <1>5 DEF Boot, NotificationService
  <2>. QED
    BY <2>1, <1>5 DEF Range, Phases
<1>6. CASE Service[p] = "odds-service"
  <2>1. Boot(p) = <<"seed">>
    BY <1>6 DEF Boot, OddsService
  <2>. QED
    BY <2>1, <1>6 DEF Range, Phases
<1>. QED
  BY <1>1, <1>2, <1>3, <1>4, <1>5, <1>6 DEF Services

-----------------------------------------------------------------------------
(* What all steps have in common.                                          *)

\* A process that does not move keeps what it has.
LEMMA LocalIsKept ==
    ASSUME NEW q \in Procs, Local(q),
           pc'[q] = pc[q], phase'[q] = phase[q], file'[q] = file[q], stmt'[q] = stmt[q],
           ordered' = ordered, market => market', q \in unseeded => q \in unseeded',
           recorded \subseteq recorded', recorded' \subseteq Files,
           recorded' = recorded \/ pc[q] # "running",
           topology \subseteq topology', topology' \subseteq Range(Topology)
    PROVE  Local(q)'
<1>1. Phased(q)'
  BY DEF Local, Phased
<1>2. Position(q)'
  BY DEF Local, Position
<1>3. Served(q)'
  BY DEF Local, Served
<1>. QED
  BY <1>1, <1>2, <1>3 DEF Local

\* A step of one process that keeps the lock as it is, and records nothing.
LEMMA QuietStep ==
    ASSUME IInv, NEW p \in Procs, Types',
           lock' = lock, pc'[p] \in InApply <=> pc[p] \in InApply,
           \A q \in Procs \ {p} : /\ pc'[q] = pc[q] /\ phase'[q] = phase[q]
                                  /\ file'[q] = file[q] /\ stmt'[q] = stmt[q],
           ordered' = ordered, market => market', unseeded \subseteq unseeded',
           recorded' = recorded,
           topology \subseteq topology',
           RecordedIsComplete', TornByDeath', DeadLettersFirst', Local(p)'
    PROVE  IInv'
<1>1. Locked'
  BY DEF IInv, Locked
<1>2. ASSUME NEW q \in Procs \ {p} PROVE Local(q)'
  <2>1. recorded' \subseteq Files /\ topology' \subseteq Range(Topology)
    BY DEF Types
  <2>. QED
    BY <2>1, LocalIsKept DEF IInv
<1>. QED
  BY <1>1, <1>2 DEF IInv

\* Runners are alone.
LEMMA OneRunner ==
    ASSUME IInv, NEW p \in Procs, NEW q \in Procs, pc[p] \in InApply, pc[q] \in InApply
    PROVE  p = q
BY DEF IInv, Locked

\* A process that is not in the middle of a file leaves the torn files as they are.
LEMMA TornIsKept ==
    ASSUME IInv, NEW p \in Procs, pc[p] # "running",
           \A q \in Procs \ {p} : pc'[q] = pc[q] /\ file'[q] = file[q] /\ stmt'[q] = stmt[q],
           UNCHANGED <<done, recorded, interrupted>>
    PROVE  TornByDeath'
<1>. SUFFICES ASSUME NEW f \in Files \ recorded, Script[f].kind = "ddl", done[f] > 0,
                     f \notin interrupted
              PROVE  \E q \in Procs : pc'[q] = "running" /\ file'[q] = f
                                      /\ stmt'[q] = done[f] + 1
  BY DEF TornByDeath
<1>1. PICK q \in Procs : pc[q] = "running" /\ file[q] = f /\ stmt[q] = done[f] + 1
  BY DEF IInv, TornByDeath
<1>. QED
  BY <1>1

LEMMA InitOK == Init => IInv
<1>. SUFFICES ASSUME Init PROVE IInv
  OBVIOUS
<1>1. Types
  <2>1. done \in [Files -> Nat] /\ \A f \in Files : done[f] <= Script[f].size
    BY ScriptIs DEF Init
  <2>2. file \in [Procs -> 1 .. Len(Script) + 1] /\ faults \in 0 .. MaxFaults
    BY ScriptIs, StartupAssumption DEF Init
  <2>3. /\ lock \in Procs \cup {Nobody} /\ recorded \subseteq Files /\ market \in BOOLEAN
        /\ ordered \in BOOLEAN /\ topology \subseteq Range(Topology) /\ interrupted \subseteq Files
        /\ unseeded \subseteq Procs
        /\ pc \in [Procs -> {"down", "up"} \cup Phases \cup InApply]
    BY DEF Init
  <2>4. phase \in [Procs -> Nat \ {0}] /\ stmt \in [Procs -> Nat \ {0}]
    BY DEF Init
  <2>. QED
    BY <2>1, <2>2, <2>3, <2>4 DEF Types
<1>2. Locked
  BY StartupAssumption DEF Init, Locked, InApply
<1>3. RecordedIsComplete /\ TornByDeath /\ DeadLettersFirst
  BY DEF Init, RecordedIsComplete, TornByDeath, DeadLettersFirst
<1>4. ASSUME NEW p \in Procs PROVE Local(p)
  <2>1. pc[p] = "down" /\ phase[p] = 1 /\ file[p] = 1 /\ stmt[p] = 1
    BY DEF Init
  <2>. QED
    BY <2>1 DEF Local, Phased, Position, Served, InApply
<1>. QED
  BY <1>1, <1>2, <1>3, <1>4 DEF IInv

-----------------------------------------------------------------------------
(* Starting and ending.                                                    *)

\* A process that has the schema behind it when the job is completed.
LEMMA CompletedIsComplete ==
    ASSUME IInv, NEW m \in Procs, Completed(m)
    PROVE  recorded = Files
<1>1. Boot(m) = <<"migrate">>
  BY DEF Completed, Boot, MigrateJob
<1>. QED
  BY <1>1 DEF IInv, Local, Served, Completed

LEMMA StartOK ==
    ASSUME IInv, NEW p \in Procs, Start(p)
    PROVE  IInv'
<1>1. /\ pc[p] = "down" /\ pc' = [pc EXCEPT ![p] = Boot(p)[1]]
      /\ UNCHANGED <<lock, done, recorded, market, topology, ordered, phase, file, stmt,
                     faults, interrupted, unseeded>>
      /\ Boot(p)[1] \in Phases
  BY BootIs DEF Start, Goto, db
<1>2. Types /\ Local(p) /\ pc'[p] = Boot(p)[1]
  BY <1>1 DEF IInv, Types
<1>3. Types'
  BY <1>1, <1>2 DEF Types
<1>4. RecordedIsComplete' /\ DeadLettersFirst'
  BY <1>1 DEF IInv, RecordedIsComplete, DeadLettersFirst
<1>5. TornByDeath'
  BY <1>1, <1>2 DEF IInv, TornByDeath, Types
<1>6. phase[p] = 1 /\ file[p] = 1 /\ stmt[p] = 1 /\ pc'[p] \notin InApply
  BY <1>1, <1>2 DEF Local, Phased, Position, Phases, InApply
<1>7. Phased(p)'
  BY <1>1, <1>2, <1>6, BootIs DEF Phased, Phases
<1>8. Position(p)'
  BY <1>1, <1>2, <1>6, TopologyIs DEF Position, Phases
<1>9. Served(p)'
  <2>1. ordered /\ Service[p] \notin {"migrate", "notification-service"} => recorded = Files
    BY CompletedIsComplete DEF Start
  <2>2. Boot(p)[1] # "migrate" \/ pc'[p] = "migrate"
    BY <1>2
  <2>. QED
    BY <1>1, <1>2, <2>1, <2>2 DEF Served, Phases
<1>10. pc'[p] \in InApply <=> pc[p] \in InApply
  BY <1>1, <1>6 DEF InApply
<1>11. \A q \in Procs \ {p} : pc'[q] = pc[q]
  BY <1>1, <1>2 DEF Types
<1>. QED
  BY <1>1, <1>3, <1>4, <1>5, <1>7, <1>8, <1>9, <1>10, <1>11, QuietStep DEF Local

\* However a process ends, its statements are accounted for if it was not in the middle
\* of a file, or its file is among the interrupted.
LEMMA ExitOK ==
    ASSUME IInv, NEW p \in Procs, Exit(p), faults' \in 0 .. MaxFaults,
           interrupted \subseteq interrupted', interrupted' \subseteq Files,
           pc[p] = "running" => file[p] \in interrupted' \/ Script[file[p]].kind # "ddl"
    PROVE  IInv'
<1>1. /\ pc' = [pc EXCEPT ![p] = "down"]
      /\ phase' = [phase EXCEPT ![p] = 1]
      /\ file' = [file EXCEPT ![p] = 1]
      /\ stmt' = [stmt EXCEPT ![p] = 1]
      /\ lock' = IF lock = p THEN Nobody ELSE lock
      /\ unseeded' = unseeded \ {p}
      /\ UNCHANGED <<done, recorded, market, topology, ordered>>
  BY DEF Exit, Goto
<1>2. Types /\ Locked /\ TornByDeath
  BY DEF IInv
<1>3. Types'
  BY <1>1, <1>2, ScriptIs DEF Types
<1>4. pc'[p] = "down" /\ phase'[p] = 1 /\ file'[p] = 1 /\ stmt'[p] = 1
  BY <1>1, <1>2 DEF Types
<1>5. \A q \in Procs \ {p} : pc'[q] = pc[q] /\ phase'[q] = phase[q] /\ file'[q] = file[q]
                             /\ stmt'[q] = stmt[q]
  BY <1>1, <1>2 DEF Types
<1>6. Locked'
  <2>. SUFFICES ASSUME NEW q \in Procs PROVE pc'[q] \in InApply <=> lock' = q
    BY DEF Locked
  <2>1. Nobody # q /\ (pc[q] \in InApply <=> lock = q)
    BY <1>2, StartupAssumption DEF Locked
  <2>2. CASE q = p
    BY <2>1, <2>2, <1>1, <1>4 DEF InApply
  <2>3. CASE q # p
    BY <2>1, <2>3, <1>1, <1>5
  <2>. QED
    BY <2>2, <2>3
<1>7. TornByDeath'
  <2>. SUFFICES ASSUME NEW f \in Files \ recorded, Script[f].kind = "ddl", done[f] > 0,
                       f \notin interrupted'
                PROVE  \E q \in Procs : pc'[q] = "running" /\ file'[q] = f
                                        /\ stmt'[q] = done[f] + 1
    BY <1>1 DEF TornByDeath
  <2>1. PICK q \in Procs : pc[q] = "running" /\ file[q] = f /\ stmt[q] = done[f] + 1
    BY <1>2 DEF TornByDeath
  <2>. QED
    BY <2>1, <1>5
<1>8. RecordedIsComplete' /\ DeadLettersFirst'
  BY <1>1 DEF IInv, RecordedIsComplete, DeadLettersFirst
<1>9. ASSUME NEW q \in Procs PROVE Local(q)'
  <2>1. CASE q = p
    BY <2>1, <1>4 DEF Local, Phased, Position, Served, InApply
  <2>2. CASE q # p
    BY <2>2, <1>1, <1>2, <1>5, LocalIsKept DEF IInv, Types
  <2>. QED
    BY <2>1, <2>2
<1>. QED
  BY <1>3, <1>6, <1>7, <1>8, <1>9 DEF IInv

LEMMA FaultOK ==
    ASSUME IInv, NEW p \in Procs, Fault(p) \/ LockTimeout(p)
    PROVE  IInv'
<1>1. Types /\ Local(p) /\ MaxFaults \in Nat
  BY StartupAssumption DEF IInv
<1>2. CASE Fault(p)
  <2>1. /\ Exit(p) /\ faults < MaxFaults /\ faults' = faults + 1
        /\ interrupted' = IF pc[p] = "running" THEN interrupted \cup {file[p]} ELSE interrupted
    BY <1>2 DEF Fault
  <2>2. faults' \in 0 .. MaxFaults
    BY <2>1, <1>1 DEF Types
  <2>3. pc[p] = "running" => file[p] \in Files
    BY <1>1 DEF Local, Position
  <2>4. /\ interrupted \subseteq interrupted' /\ interrupted' \subseteq Files
        /\ pc[p] = "running" => file[p] \in interrupted'
    BY <2>1, <2>3, <1>1 DEF Types
  <2>. QED
    BY <2>1, <2>2, <2>4, ExitOK
<1>3. CASE LockTimeout(p)
  <2>1. faults' \in 0 .. MaxFaults /\ interrupted' = interrupted /\ interrupted \subseteq Files
    BY <1>1, <1>3 DEF LockTimeout, Types
  <2>2. pc[p] # "running" /\ Exit(p)
    BY <1>3 DEF LockTimeout
  <2>. QED
    BY <2>1, <2>2, ExitOK
<1>. QED
  BY <1>2, <1>3

\* CREATE TABLE fails only on what a death has left.
LEMMA RefusedTable ==
    ASSUME IInv, NEW p \in Procs, Remaining(p), Refused(p), Kind(p) = "ddl"
    PROVE  file[p] \in interrupted
<1>1. /\ pc[p] = "running" /\ file[p] \in Files \ recorded /\ stmt[p] <= done[file[p]]
      /\ stmt[p] \in Nat \ {0} /\ done[file[p]] \in Nat /\ Script[file[p]].kind = "ddl"
  BY DEF IInv, Local, Position, Remaining, Refused, Kind, Types
<1>2. done[file[p]] > 0
  BY <1>1
<1>3. ASSUME NEW q \in Procs, pc[q] = "running", stmt[q] = done[file[p]] + 1 PROVE FALSE
  BY <1>1, <1>3, OneRunner DEF InApply
<1>. QED
  BY <1>1, <1>2, <1>3 DEF IInv, TornByDeath

LEMMA ExecuteFailsOK ==
    ASSUME IInv, NEW p \in Procs, ExecuteFails(p)
    PROVE  IInv'
<1>1. Kind(p) = "ddl" => file[p] \in interrupted
  BY RefusedTable DEF ExecuteFails
<1>2. Types
  BY DEF IInv
<1>. QED
  BY <1>1, <1>2, ExitOK DEF ExecuteFails, Kind, Types

-----------------------------------------------------------------------------
(* migrate.Apply.                                                          *)

LEMMA GetLockOK ==
    ASSUME IInv, NEW p \in Procs, GetLock(p)
    PROVE  IInv'
<1>1. /\ pc[p] = "migrate" /\ lock = Nobody /\ lock' = p
      /\ pc' = [pc EXCEPT ![p] = "checking"]
      /\ UNCHANGED <<done, recorded, market, topology, ordered, phase, file, stmt, faults,
                     interrupted, unseeded>>
  BY DEF GetLock, Goto
<1>2. Types /\ Locked /\ TornByDeath /\ Local(p)
  BY DEF IInv
<1>3. Types'
  BY <1>1, <1>2 DEF Types, InApply
<1>4. pc'[p] = "checking" /\ \A q \in Procs \ {p} : pc'[q] = pc[q]
  BY <1>1, <1>2 DEF Types
<1>5. Locked'
  <2>. SUFFICES ASSUME NEW q \in Procs PROVE pc'[q] \in InApply <=> p = q
    BY <1>1 DEF Locked
  <2>. QED
    BY <1>1, <1>2, <1>4, StartupAssumption DEF Locked, InApply
<1>6. TornByDeath'
  BY <1>1, <1>2, <1>4 DEF TornByDeath
<1>7. RecordedIsComplete' /\ DeadLettersFirst'
  BY <1>1 DEF IInv, RecordedIsComplete, DeadLettersFirst
<1>8. Local(p)'
  <2>1. Phased(p)'
    BY <1>1, <1>2, <1>4 DEF Local, Phased, InApply
  <2>2. file[p] = 1 /\ stmt[p] = 1
    BY <1>1, <1>2 DEF Local, Position, InApply
  <2>3. Position(p)'
    BY <1>1, <1>4, <2>2 DEF Position, InApply
  <2>4. Served(p)'
    BY <1>1, <1>2, <1>4 DEF Local, Served
  <2>. QED
    BY <2>1, <2>3, <2>4 DEF Local
<1>9. ASSUME NEW q \in Procs \ {p} PROVE Local(q)'
  BY <1>1, <1>2, <1>4, LocalIsKept DEF IInv, Types
<1>. QED
  BY <1>3, <1>5, <1>6, <1>7, <1>8, <1>9 DEF IInv

LEMMA SkipOK ==
    ASSUME IInv, NEW p \in Procs, Skip(p)
    PROVE  IInv'
<1>1. /\ pc[p] = "checking" /\ file[p] \in recorded
      /\ file' = [file EXCEPT ![p] = @ + 1]
      /\ UNCHANGED <<lock, done, recorded, market, topology, ordered, pc, phase, stmt, faults,
                     interrupted, unseeded>>
  BY DEF Skip, db
<1>2. Types /\ TornByDeath /\ Local(p) /\ file[p] \in 1 .. 5
  BY <1>1, ScriptIs DEF IInv, Types
<1>3. Types'
  BY <1>1, <1>2, ScriptIs DEF Types
<1>4. file'[p] = file[p] + 1 /\ \A q \in Procs \ {p} : file'[q] = file[q]
  BY <1>1, <1>2 DEF Types
<1>5. RecordedIsComplete' /\ DeadLettersFirst'
  BY <1>1 DEF IInv, RecordedIsComplete, DeadLettersFirst
<1>6. TornByDeath'
  BY <1>1, <1>2, <1>4 DEF TornByDeath
<1>7. 1 .. file[p] \subseteq recorded
  BY <1>1, <1>2 DEF Local, Position, InApply
<1>8. Local(p)'
  BY <1>1, <1>2, <1>4, <1>7 DEF Local, Phased, Position, Served, InApply
<1>. QED
  BY <1>1, <1>3, <1>4, <1>5, <1>6, <1>8, QuietStep

LEMMA BeginFileOK ==
    ASSUME IInv, NEW p \in Procs, BeginFile(p)
    PROVE  IInv'
<1>1. /\ pc[p] = "checking" /\ file[p] \in Files /\ file[p] \notin recorded
      /\ pc' = [pc EXCEPT ![p] = "running"]
      /\ UNCHANGED <<lock, done, recorded, market, topology, ordered, phase, file, stmt, faults,
                     interrupted, unseeded>>
  BY DEF BeginFile, Goto, db
<1>2. Types /\ TornByDeath /\ Local(p)
  BY DEF IInv
<1>3. Types'
  BY <1>1, <1>2 DEF Types, InApply
<1>4. pc'[p] = "running" /\ \A q \in Procs \ {p} : pc'[q] = pc[q]
  BY <1>1, <1>2 DEF Types
<1>5. RecordedIsComplete' /\ DeadLettersFirst'
  BY <1>1 DEF IInv, RecordedIsComplete, DeadLettersFirst
<1>6. TornByDeath'
  BY <1>1, <1>2, <1>4 DEF TornByDeath
<1>7. stmt[p] = 1 /\ Script[file[p]].size \in 1 .. 6
  BY <1>1, <1>2, ScriptIs DEF Local, Position
<1>8. Local(p)'
  BY <1>1, <1>2, <1>4, <1>7 DEF Local, Phased, Position, Served, InApply
<1>9. pc'[p] \in InApply <=> pc[p] \in InApply
  BY <1>1, <1>4 DEF InApply
<1>. QED
  BY <1>1, <1>3, <1>4, <1>5, <1>6, <1>8, <1>9, QuietStep

\* What a runner leaves to the process that comes after it.
LEMMA ExecuteOK ==
    ASSUME IInv, NEW p \in Procs, Execute(p)
    PROVE  IInv'
<1>. DEFINE f == file[p]
<1>1. /\ pc[p] = "running" /\ stmt[p] <= Script[f].size
      /\ ~ (Script[f].kind = "ddl" /\ stmt[p] <= done[f])
      /\ stmt' = [stmt EXCEPT ![p] = @ + 1]
      /\ done' \in {done, [done EXCEPT ![f] = stmt[p]]}
      /\ Script[f].kind = "ddl" => done' = [done EXCEPT ![f] = stmt[p]]
      /\ UNCHANGED <<lock, recorded, market, topology, ordered, pc, phase, file, faults,
                     interrupted, unseeded>>
  BY DEF Execute, Remaining, Refused, Kind
<1>2. Types /\ RecordedIsComplete /\ TornByDeath /\ Local(p)
  BY DEF IInv
<1>3. f \in Files /\ f \notin recorded /\ 1 .. f - 1 \subseteq recorded
  BY <1>1, <1>2 DEF Local, Position, InApply
<1>4. stmt[p] \in Nat \ {0} /\ Script[f].size \in 1 .. 6 /\ done[f] \in Nat
  BY <1>2, <1>3, ScriptIs DEF Types
<1>5. /\ stmt'[p] = stmt[p] + 1 /\ \A q \in Procs \ {p} : stmt'[q] = stmt[q]
      /\ \A g \in Files \ {f} : done'[g] = done[g]
      /\ done'[f] \in {done[f], stmt[p]}
      /\ Script[f].kind = "ddl" => done'[f] = stmt[p]
  BY <1>1, <1>2, <1>3 DEF Types
<1>6. Types'
  <2>1. done' \in [Files -> Nat] /\ stmt' \in [Procs -> Nat \ {0}]
    <3>1. [done EXCEPT ![f] = stmt[p]] \in [Files -> Nat]
      BY <1>2, <1>4 DEF Types
    <3>2. [stmt EXCEPT ![p] = @ + 1] \in [Procs -> Nat \ {0}]
      BY <1>2, <1>4 DEF Types
    <3>. QED
      BY <3>1, <3>2, <1>1, <1>2 DEF Types
  <2>2. \A g \in Files : done'[g] <= Script[g].size
    BY <1>1, <1>2, <1>4, <1>5 DEF Types
  <2>. QED
    BY <1>1, <1>2, <2>1, <2>2 DEF Types
<1>7. RecordedIsComplete'
  BY <1>1, <1>2, <1>3, <1>5 DEF RecordedIsComplete
<1>8. DeadLettersFirst'
  BY <1>1 DEF IInv, DeadLettersFirst
<1>9. TornByDeath'
  <2>. SUFFICES ASSUME NEW g \in Files \ recorded, Script[g].kind = "ddl", done'[g] > 0,
                       g \notin interrupted
                PROVE  \E q \in Procs : pc[q] = "running" /\ file[q] = g
                                        /\ stmt'[q] = done'[g] + 1
    BY <1>1 DEF TornByDeath
  <2>1. CASE g = f
    BY <2>1, <1>1, <1>5
  <2>2. CASE g # f
    <3>1. PICK q \in Procs : pc[q] = "running" /\ file[q] = g /\ stmt[q] = done[g] + 1
      BY <2>2, <1>2, <1>5 DEF TornByDeath
    <3>2. q # p
      BY <3>1, <2>2
    <3>. QED
      BY <3>1, <3>2, <2>2, <1>5
  <2>. QED
    BY <2>1, <2>2
<1>10. Local(p)'
  <2>1. Phased(p)' /\ Served(p)'
    BY <1>1, <1>2 DEF Local, Phased, Served
  <2>2. Position(p)'
    BY <1>1, <1>2, <1>4, <1>5 DEF Local, Position, InApply
  <2>. QED
    BY <2>1, <2>2 DEF Local
<1>. QED
  BY <1>1, <1>5, <1>6, <1>7, <1>8, <1>9, <1>10, QuietStep

LEMMA RecordOK ==
    ASSUME IInv, NEW p \in Procs, Record(p)
    PROVE  IInv'
<1>. DEFINE f == file[p]
<1>1. /\ pc[p] = "running" /\ stmt[p] > Script[f].size
      /\ recorded' = recorded \cup {f}
      /\ done' = [done EXCEPT ![f] = Script[f].size]
      /\ file' = [file EXCEPT ![p] = @ + 1]
      /\ stmt' = [stmt EXCEPT ![p] = 1]
      /\ pc' = [pc EXCEPT ![p] = "checking"]
      /\ UNCHANGED <<lock, market, topology, ordered, phase, faults, interrupted, unseeded>>
  BY DEF Record, Goto
<1>2. Types /\ Locked /\ RecordedIsComplete /\ TornByDeath /\ Local(p)
  BY DEF IInv
<1>3. f \in Files /\ f \notin recorded /\ 1 .. f - 1 \subseteq recorded
  BY <1>1, <1>2 DEF Local, Position, InApply
<1>4. f \in 1 .. 5 /\ Script[f].size \in 1 .. 6
  BY <1>3, ScriptIs
<1>5. /\ file'[p] = f + 1 /\ stmt'[p] = 1 /\ pc'[p] = "checking"
      /\ \A q \in Procs \ {p} : /\ pc'[q] = pc[q] /\ file'[q] = file[q]
                                /\ stmt'[q] = stmt[q]
      /\ done'[f] = Script[f].size /\ \A g \in Files \ {f} : done'[g] = done[g]
  BY <1>1, <1>2, <1>3 DEF Types
<1>6. Types'
  <2>1. done' \in [Files -> Nat] /\ \A g \in Files : done'[g] <= Script[g].size
    <3>. DEFINE n == Script[f].size
    <3>0. n \in Nat /\ done \in [Files -> Nat] /\ done' = [done EXCEPT ![f] = n]
      BY <1>1, <1>2, <1>4 DEF Types
    <3>1. done' \in [Files -> Nat]
      <4>. HIDE DEF n
      <4>. QED
        BY <3>0
    <3>. QED
      BY <3>1, <1>2, <1>4, <1>5 DEF Types
  <2>2. file' \in [Procs -> 1 .. Len(Script) + 1]
    BY <1>1, <1>2, <1>4, ScriptIs DEF Types
  <2>3. pc' \in [Procs -> {"down", "up"} \cup Phases \cup InApply] /\ recorded' \subseteq Files
    BY <1>1, <1>2, <1>3 DEF Types, InApply
  <2>. QED
    BY <1>1, <1>2, <2>1, <2>2, <2>3 DEF Types
<1>7. Locked'
  <2>. SUFFICES ASSUME NEW q \in Procs PROVE pc'[q] \in InApply <=> lock = q
    BY <1>1 DEF Locked
  <2>. QED
    BY <1>1, <1>2, <1>5 DEF Locked, InApply
<1>8. RecordedIsComplete'
  <2>. SUFFICES ASSUME NEW g \in Files
                PROVE  /\ g \in recorded' => done'[g] = Script[g].size
                       /\ g \in recorded' \/ done'[g] > 0 => 1 .. g - 1 \subseteq recorded'
    BY DEF RecordedIsComplete
  <2>. QED
    BY <1>1, <1>2, <1>3, <1>5 DEF RecordedIsComplete
<1>9. TornByDeath'
  <2>. SUFFICES ASSUME NEW g \in Files \ recorded', Script[g].kind = "ddl", done'[g] > 0,
                       g \notin interrupted
                PROVE  \E q \in Procs : pc'[q] = "running" /\ file'[q] = g
                                        /\ stmt'[q] = done'[g] + 1
    BY <1>1 DEF TornByDeath
  <2>1. g # f /\ g \in Files \ recorded
    BY <1>1
  <2>2. PICK q \in Procs : pc[q] = "running" /\ file[q] = g /\ stmt[q] = done[g] + 1
    BY <2>1, <1>2, <1>5 DEF TornByDeath
  <2>3. q # p
    BY <2>1, <2>2
  <2>. QED
    BY <2>1, <2>2, <2>3, <1>5
<1>10. DeadLettersFirst'
  BY <1>1 DEF IInv, DeadLettersFirst
<1>11. Local(p)'
  <2>1. 1 .. file'[p] - 1 \subseteq recorded'
    <3>1. ASSUME NEW g \in 1 .. file'[p] - 1 PROVE g \in recorded'
      <4>1. g \in 1 .. f - 1 \/ g = f
        BY <1>4, <1>5
      <4>. QED
        BY <4>1, <1>1, <1>3
    <3>. QED
      BY <3>1
  <2>2. Position(p)'
    BY <1>5, <2>1 DEF Position, InApply
  <2>3. Phased(p)'
    BY <1>1, <1>2, <1>5 DEF Local, Phased, InApply
  <2>4. Served(p)'
    BY <1>1, <1>2, <1>3, <1>5 DEF Local, Served
  <2>. QED
    BY <2>2, <2>3, <2>4 DEF Local
<1>12. ASSUME NEW q \in Procs \ {p} PROVE Local(q)'
  <2>1. pc[q] # "running"
    BY <1>1, OneRunner DEF InApply
  <2>2. recorded \subseteq recorded' /\ recorded' \subseteq Files /\ topology' \subseteq Range(Topology)
    BY <1>1, <1>6 DEF Types
  <2>. QED
    BY <2>1, <2>2, <1>1, <1>5, LocalIsKept DEF IInv
<1>. QED
  BY <1>6, <1>7, <1>8, <1>9, <1>10, <1>11, <1>12 DEF IInv

\* A process that goes on to its next phase keeps the types, and leaves the others alone.
ProceedTypes(p) ==
    /\ pc' \in [Procs -> {"down", "up"} \cup Phases \cup InApply]
    /\ phase' \in [Procs -> Nat \ {0}]
    /\ file' \in [Procs -> 1 .. Len(Script) + 1]
    /\ stmt' \in [Procs -> Nat \ {0}]
    /\ \A q \in Procs \ {p} : /\ pc'[q] = pc[q] /\ phase'[q] = phase[q]
                              /\ file'[q] = file[q] /\ stmt'[q] = stmt[q]

LEMMA ProceedIsTyped ==
    ASSUME IInv, NEW p \in Procs, Proceed(p), pc[p] \in {"checking", "declare", "seed"}
    PROVE  ProceedTypes(p)
<1>1. /\ phase' = [phase EXCEPT ![p] = @ + 1]
      /\ pc' = [pc EXCEPT ![p] = IF phase[p] = Len(Boot(p)) THEN "up" ELSE Boot(p)[phase[p] + 1]]
      /\ stmt' = [stmt EXCEPT ![p] = 1]
      /\ file' = [file EXCEPT ![p] = 1]
  BY DEF Proceed, Goto
<1>2. Types /\ Local(p)
  BY DEF IInv
<1>3. phase[p] # Len(Boot(p)) => Boot(p)[phase[p] + 1] = "declare"
  <2>1. phase[p] \in Nat \ {0} /\ phase[p] <= Len(Boot(p)) /\ Len(Boot(p)) \in 1 .. 3
    BY <1>2, BootIs DEF Local, Phased, Types
  <2>2. phase[p] # Len(Boot(p)) => phase[p] + 1 \in 2 .. Len(Boot(p))
    BY <2>1
  <2>. QED
    BY <2>2, BootIs
<1>4. phase' \in [Procs -> Nat \ {0}] /\ stmt' \in [Procs -> Nat \ {0}]
      /\ file' \in [Procs -> 1 .. Len(Script) + 1]
  BY <1>1, <1>2, ScriptIs DEF Types
<1>5. pc' \in [Procs -> {"down", "up"} \cup Phases \cup InApply]
  BY <1>1, <1>2, <1>3 DEF Types, Phases
<1>6. \A q \in Procs \ {p} : /\ pc'[q] = pc[q] /\ phase'[q] = phase[q]
                            /\ file'[q] = file[q] /\ stmt'[q] = stmt[q]
  BY <1>1, <1>2 DEF Types
<1>. QED
  BY <1>4, <1>5, <1>6 DEF ProceedTypes

\* A process that goes on to its next phase: what it needs to have left behind.
LEMMA ProceedIsLocal ==
    ASSUME IInv, Types', NEW p \in Procs, Proceed(p), pc[p] \in {"checking", "declare", "seed"},
           pc[p] = "checking" => recorded = Files, recorded' = recorded,
           ordered' = ordered, topology \subseteq topology',
           pc[p] = "declare" => topology' = Range(Topology),
           pc[p] = "seed" /\ ordered => market' \/ p \in unseeded'
    PROVE  Local(p)' /\ pc'[p] \in {"declare", "up"}
<1>1. /\ phase' = [phase EXCEPT ![p] = @ + 1]
      /\ pc' = [pc EXCEPT ![p] = IF phase[p] = Len(Boot(p)) THEN "up" ELSE Boot(p)[phase[p] + 1]]
      /\ stmt' = [stmt EXCEPT ![p] = 1]
      /\ file' = [file EXCEPT ![p] = 1]
  BY DEF Proceed, Goto
<1>2. Types /\ Local(p)
  BY DEF IInv
<1>3. /\ phase[p] \in Nat \ {0} /\ phase[p] <= Len(Boot(p))
      /\ Boot(p)[phase[p]] = IF pc[p] \in InApply THEN "migrate" ELSE pc[p]
      /\ Len(Boot(p)) \in 1 .. 3
  BY <1>2, BootIs DEF Local, Phased, Types
<1>4. /\ phase'[p] = phase[p] + 1 /\ stmt'[p] = 1 /\ file'[p] = 1
      /\ pc'[p] = IF phase[p] = Len(Boot(p)) THEN "up" ELSE Boot(p)[phase[p] + 1]
  BY <1>1, <1>2 DEF Types
<1>5. phase[p] # Len(Boot(p)) => Boot(p)[phase[p] + 1] = "declare"
  <2>1. phase[p] # Len(Boot(p)) => phase[p] + 1 \in 2 .. Len(Boot(p))
    BY <1>3
  <2>. QED
    BY <2>1, BootIs
<1>6. pc'[p] \in {"declare", "up"}
  BY <1>4, <1>5
<1>7. Phased(p)'
  BY <1>3, <1>4, <1>5 DEF Phased, InApply
<1>8. Position(p)'
  BY <1>4, <1>6, TopologyIs DEF Position, InApply
<1>9. Served(p)'
  <2>1. Boot(p)[1] = "migrate" => recorded = Files
    BY <1>2 DEF Local, Served
  <2>2. Boot(p)[Len(Boot(p))] = "declare" /\ pc'[p] = "up" => topology' = Range(Topology)
    BY <1>3, <1>4, <1>5
  <2>3. ordered /\ Service[p] \notin {"migrate", "notification-service"} => recorded = Files
    BY <1>2 DEF Local, Served
  <2>4. ordered /\ Service[p] = "odds-service" => market' \/ p \in unseeded'
    <3>1. Service[p] = "odds-service" => pc[p] = "seed"
      BY <1>3, BootIs DEF InApply
    <3>. QED
      BY <3>1
  <2>. QED
    BY <2>1, <2>2, <2>3, <2>4 DEF Served
<1>. QED
  BY <1>6, <1>7, <1>8, <1>9 DEF Local

LEMMA FinishOK ==
    ASSUME IInv, NEW p \in Procs, Finish(p)
    PROVE  IInv'
<1>1. /\ pc[p] = "checking" /\ file[p] \notin Files /\ Proceed(p) /\ lock' = Nobody
      /\ UNCHANGED <<done, recorded, market, topology, ordered, faults, interrupted, unseeded>>
  BY DEF Finish
<1>2. Types /\ Locked /\ TornByDeath /\ Local(p)
  BY DEF IInv
<1>3. recorded = Files
  <2>1. file[p] = 6
    BY <1>1, <1>2, ScriptIs DEF Types
  <2>2. 1 .. 5 \subseteq recorded
    BY <2>1, <1>1, <1>2 DEF Local, Position, InApply
  <2>. QED
    BY <2>2, <1>2, ScriptIs DEF Types
<1>4. ProceedTypes(p)
  BY <1>1, ProceedIsTyped
<1>5. Types'
  BY <1>1, <1>2, <1>4 DEF Types, ProceedTypes
<1>6. Local(p)' /\ pc'[p] \in {"declare", "up"}
  BY <1>1, <1>3, <1>5, ProceedIsLocal
<1>7. Locked'
  <2>. SUFFICES ASSUME NEW q \in Procs PROVE pc'[q] \in InApply <=> Nobody = q
    BY <1>1 DEF Locked
  <2>1. q = p => pc'[q] \notin InApply
    BY <1>6 DEF InApply
  <2>2. q # p => pc'[q] \notin InApply
    BY <1>1, <1>4, OneRunner DEF InApply, ProceedTypes
  <2>. QED
    BY <2>1, <2>2, StartupAssumption
<1>8. RecordedIsComplete' /\ DeadLettersFirst'
  BY <1>1 DEF IInv, RecordedIsComplete, DeadLettersFirst
<1>9. TornByDeath'
  BY <1>1, <1>3 DEF TornByDeath
<1>10. ASSUME NEW q \in Procs \ {p} PROVE Local(q)'
  BY <1>1, <1>2, <1>4, LocalIsKept DEF IInv, Types, ProceedTypes
<1>. QED
  BY <1>5, <1>6, <1>7, <1>8, <1>9, <1>10 DEF IInv

-----------------------------------------------------------------------------
(* The rest of a start.                                                    *)

LEMMA DeclareOK ==
    ASSUME IInv, NEW p \in Procs, Declare(p)
    PROVE  IInv'
<1>1. /\ pc[p] = "declare"
      /\ topology' = topology \cup {Topology[stmt[p]]}
      /\ UNCHANGED <<lock, done, recorded, market, ordered, faults, interrupted, unseeded>>
  BY DEF Declare, db
<1>2. Types /\ TornByDeath /\ DeadLettersFirst /\ Local(p)
  BY DEF IInv
<1>3. stmt[p] \in 1 .. 8 /\ \A k \in 1 .. stmt[p] - 1 : Topology[k] \in topology
  BY <1>1, <1>2, TopologyIs DEF Local, Position, Types
<1>4. topology' \subseteq Range(Topology)
  BY <1>1, <1>2, <1>3, TopologyIs DEF Types
<1>5. DeadLettersFirst'
  <2>1. CASE stmt[p] > 2
    <3>1. 1 \in 1 .. stmt[p] - 1 /\ 2 \in 1 .. stmt[p] - 1
      BY <2>1, <1>3
    <3>. QED
      BY <3>1, <1>1, <1>3, TopologyIs DEF DeadLettersFirst
  <2>2. CASE ~(stmt[p] > 2)
    <3>1. Topology[stmt[p]] \notin WorkQueues
      BY <2>2, <1>3, TopologyIs
    <3>. QED
      BY <3>1, <1>1, <1>2 DEF DeadLettersFirst
  <2>. QED
    BY <2>1, <2>2
<1>6. RecordedIsComplete'
  BY <1>1 DEF IInv, RecordedIsComplete
<1>7. CASE stmt[p] = Len(Topology)
  <2>1. Proceed(p)
    BY <1>7 DEF Declare
  <2>2. ProceedTypes(p)
    BY <1>1, <2>1, ProceedIsTyped
  <2>3. Types'
    BY <1>1, <1>2, <1>4, <2>2 DEF Types, ProceedTypes
  <2>4. topology' = Range(Topology)
    <3>1. \A k \in 1 .. 8 : Topology[k] \in topology'
      <4>. SUFFICES ASSUME NEW k \in 1 .. 8 PROVE Topology[k] \in topology'
        OBVIOUS
      <4>1. k \in 1 .. stmt[p] - 1 \/ k = stmt[p]
        BY <1>3, <1>7, TopologyIs
      <4>. QED
        BY <4>1, <1>1, <1>3
    <3>. QED
      BY <3>1, <1>4, TopologyIs
  <2>5. Local(p)' /\ pc'[p] \in {"declare", "up"}
    BY <1>1, <2>1, <2>3, <2>4, ProceedIsLocal DEF Types
  <2>6. TornByDeath'
    BY <1>1, <2>2, TornIsKept DEF ProceedTypes
  <2>7. pc'[p] \in InApply <=> pc[p] \in InApply
    BY <1>1, <2>5 DEF InApply
  <2>. QED
    BY <1>1, <1>5, <1>6, <2>2, <2>3, <2>5, <2>6, <2>7, QuietStep DEF ProceedTypes
<1>8. CASE stmt[p] # Len(Topology)
  <2>1. stmt' = [stmt EXCEPT ![p] = @ + 1] /\ UNCHANGED <<pc, phase, file>>
    BY <1>8 DEF Declare
  <2>2. stmt'[p] = stmt[p] + 1 /\ \A q \in Procs \ {p} : stmt'[q] = stmt[q]
    BY <2>1, <1>2 DEF Types
  <2>3. Types'
    <3>1. stmt' \in [Procs -> Nat \ {0}]
      BY <2>1, <1>2, <1>3 DEF Types
    <3>. QED
      BY <3>1, <2>1, <1>1, <1>2, <1>4 DEF Types
  <2>4. TornByDeath'
    BY <1>1, <1>2, <2>1, <2>2 DEF TornByDeath
  <2>5. Position(p)'
    <3>1. stmt'[p] <= 8
      BY <2>2, <1>3, <1>8, TopologyIs
    <3>2. ASSUME NEW k \in 1 .. stmt'[p] - 1 PROVE Topology[k] \in topology'
      <4>1. k \in 1 .. stmt[p] - 1 \/ k = stmt[p]
        BY <2>2, <1>3
      <4>. QED
        BY <4>1, <1>1, <1>3
    <3>. QED
      BY <3>1, <3>2, <2>1, <1>1, <1>2, TopologyIs DEF Local, Position, InApply
  <2>6. Phased(p)' /\ Served(p)'
    BY <2>1, <1>1, <1>2 DEF Local, Phased, Served
  <2>. QED
    BY <1>1, <1>5, <1>6, <2>1, <2>2, <2>3, <2>4, <2>5, <2>6, QuietStep DEF Local
<1>. QED
  BY <1>7, <1>8

LEMMA SeedMarketOK ==
    ASSUME IInv, NEW p \in Procs, SeedMarket(p)
    PROVE  IInv'
<1>1. /\ pc[p] = "seed" /\ Proceed(p)
      /\ market' = (market \/ done[MarketOdds] > 0)
      /\ UNCHANGED <<lock, done, recorded, topology, ordered, faults, interrupted, unseeded>>
  BY DEF SeedMarket
<1>2. Types /\ RecordedIsComplete /\ TornByDeath /\ Local(p)
  BY DEF IInv
<1>3. ordered => market'
  <2>1. Boot(p)[1] = "seed"
    <3>1. phase[p] \in 1 .. Len(Boot(p)) /\ Boot(p)[phase[p]] = "seed" /\ Len(Boot(p)) \in 1 .. 3
      BY <1>1, <1>2, BootIs DEF Local, Phased, Types, InApply
    <3>2. phase[p] \in 2 .. Len(Boot(p)) \/ phase[p] = 1
      BY <3>1
    <3>. QED
      BY <3>1, <3>2, BootIs
  <2>2. ordered => recorded = Files
    BY <2>1, <1>1, <1>2, BootIs DEF Local, Served
  <2>3. ordered => done[MarketOdds] = Script[MarketOdds].size
    BY <2>2, <1>2, ScriptIs DEF RecordedIsComplete
  <2>. QED
    BY <2>3, <1>1, ScriptIs
<1>4. ProceedTypes(p)
  BY <1>1, ProceedIsTyped
<1>5. Types'
  <2>1. market' \in BOOLEAN
    BY <1>1
  <2>. QED
    BY <2>1, <1>1, <1>2, <1>4 DEF Types, ProceedTypes
<1>6. Local(p)' /\ pc'[p] \in {"declare", "up"}
  BY <1>1, <1>3, <1>5, ProceedIsLocal
<1>7. RecordedIsComplete' /\ DeadLettersFirst'
  BY <1>1 DEF IInv, RecordedIsComplete, DeadLettersFirst
<1>8. TornByDeath'
  BY <1>1, <1>4, TornIsKept DEF ProceedTypes
<1>9. pc'[p] \in InApply <=> pc[p] \in InApply
  BY <1>1, <1>6 DEF InApply
<1>. QED
  BY <1>1, <1>4, <1>5, <1>6, <1>7, <1>8, <1>9, QuietStep DEF ProceedTypes

LEMMA SeedFailsOK ==
    ASSUME IInv, NEW p \in Procs, SeedFails(p)
    PROVE  IInv'
<1>1. /\ pc[p] = "seed" /\ Proceed(p) /\ faults < MaxFaults /\ faults' = faults + 1
      /\ market' \in {market, market \/ done[MarketOdds] > 0}
      /\ unseeded' = unseeded \cup {p}
      /\ UNCHANGED <<lock, done, recorded, topology, ordered, interrupted>>
  BY DEF SeedFails
<1>2. Types /\ RecordedIsComplete /\ TornByDeath /\ DeadLettersFirst /\ Local(p)
  BY DEF IInv
<1>3. ProceedTypes(p)
  BY <1>1, ProceedIsTyped
<1>4. market' \in BOOLEAN /\ (market => market')
  <2>1. CASE market' = market
    BY <2>1, <1>2 DEF Types
  <2>2. CASE market' = (market \/ done[MarketOdds] > 0)
    BY <2>2
  <2>. QED
    BY <1>1, <2>1, <2>2
<1>5. Types'
  <2>1. faults' \in 0 .. MaxFaults
    BY <1>1, <1>2, StartupAssumption DEF Types
  <2>. QED
    BY <2>1, <1>1, <1>2, <1>3, <1>4 DEF Types, ProceedTypes
<1>6. Local(p)' /\ pc'[p] \in {"declare", "up"}
  BY <1>1, <1>5, ProceedIsLocal
<1>7. RecordedIsComplete' /\ DeadLettersFirst'
  BY <1>1, <1>2 DEF RecordedIsComplete, DeadLettersFirst
<1>8. TornByDeath'
  BY <1>1, <1>3, TornIsKept DEF ProceedTypes
<1>9. pc'[p] \in InApply <=> pc[p] \in InApply
  BY <1>1, <1>6 DEF InApply
<1>. QED
  BY <1>1, <1>3, <1>4, <1>5, <1>6, <1>7, <1>8, <1>9, QuietStep DEF ProceedTypes

-----------------------------------------------------------------------------
(* The theorems.                                                           *)

LEMMA NextOK == IInv /\ [Next]_vars => IInv'
<1>. SUFFICES ASSUME IInv, [Next]_vars PROVE IInv'
  OBVIOUS
<1>1. ASSUME NEW p \in Procs, Start(p) \/ LockTimeout(p) \/ Fault(p) \/ SeedFails(p)
      PROVE  IInv'
  BY <1>1, StartOK, FaultOK, SeedFailsOK
<1>2. ASSUME NEW p \in Procs, Step(p) PROVE IInv'
  BY <1>2, GetLockOK, SkipOK, BeginFileOK, ExecuteOK, ExecuteFailsOK, RecordOK, FinishOK,
     DeclareOK, SeedMarketOK DEF Step
<1>3. CASE UNCHANGED vars
  <2>1. UNCHANGED <<lock, done, recorded, market, topology, ordered, pc, phase, file, stmt,
                    faults, interrupted, unseeded>>
    BY <1>3 DEF vars, db, where
  <2>2. Types' /\ Locked'
    BY <2>1 DEF IInv, Types, Locked
  <2>3. RecordedIsComplete' /\ TornByDeath' /\ DeadLettersFirst'
    BY <2>1 DEF IInv, RecordedIsComplete, TornByDeath, DeadLettersFirst
  <2>4. ASSUME NEW p \in Procs PROVE Local(p)'
    BY <2>1, LocalIsKept DEF IInv, Types
  <2>. QED
    BY <2>2, <2>3, <2>4 DEF IInv
<1>. QED
  BY <1>1, <1>2, <1>3 DEF Next

\* The inductive invariant holds whatever processes start, in whatever order, and die.
THEOREM Invariance == Spec => []IInv
<1>. QED
  BY InitOK, NextOK, PTL DEF Spec

LEMMA InvTypeOK == IInv => TypeOK
<1>. SUFFICES ASSUME IInv PROVE TypeOK
  OBVIOUS
<1>1. Types /\ Locked /\ \A p \in Procs : Local(p)
  BY DEF IInv
<1>2. ASSUME NEW p \in Procs PROVE phase[p] \in 1 .. 4 /\ stmt[p] \in 1 .. 9
  <2>1. phase[p] \in 1 .. 4
    <3>1. PICK n \in 1 .. 3 : n = Len(Boot(p))
      BY BootIs
    <3>2. phase[p] \in {1, n + 1} \/ phase[p] <= n
      BY <1>1, <3>1 DEF Local, Phased
    <3>3. phase[p] \in Nat \ {0}
      BY <1>1 DEF Types
    <3>. QED
      BY <3>2, <3>3
  <2>2. stmt[p] \in Nat \ {0}
    BY <1>1 DEF Types
  <2>3. pc[p] = "running" => stmt[p] <= 7
    <3>1. pc[p] = "running" => Script[file[p]].size \in 1 .. 6 /\ stmt[p] <= Script[file[p]].size + 1
      BY <1>1, ScriptIs DEF Local, Position
    <3>. QED
      BY <3>1, <2>2
  <2>4. pc[p] = "declare" => stmt[p] <= 8
    BY <1>1, TopologyIs DEF Local, Position
  <2>5. pc[p] \notin {"running", "declare"} => stmt[p] = 1
    BY <1>1 DEF Local, Position
  <2>6. stmt[p] \in 1 .. 9
    <3>1. CASE pc[p] = "running"
      BY <3>1, <2>2, <2>3
    <3>2. CASE pc[p] = "declare"
      BY <3>2, <2>2, <2>4
    <3>3. CASE pc[p] \notin {"running", "declare"}
      BY <3>3, <2>5
    <3>. QED
      BY <3>1, <3>2, <3>3
  <2>. QED
    BY <2>1, <2>6
<1>3. phase \in [Procs -> 1 .. 4] /\ stmt \in [Procs -> 1 .. 9]
  BY <1>1, <1>2 DEF Types
<1>. QED
  BY <1>1, <1>3 DEF TypeOK, Types, Locked

\* The types hold, and whoever is inside Apply, and nobody else, owns the advisory lock.
THEOREM TypeCorrect == Spec => []TypeOK
<1>. QED
  BY Invariance, InvTypeOK, PTL

\* schema_migrations never lists a file whose statements are not all durable, wherever the
\* migrators die.
THEOREM RecordsAreTrue == Spec => []RecordedIsComplete
<1>1. IInv => RecordedIsComplete
  BY DEF IInv
<1>. QED
  BY <1>1, Invariance, PTL

LEMMA ServedIsReady == IInv => ReadyMeansReady
<1>. SUFFICES ASSUME IInv PROVE ReadyMeansReady
  OBVIOUS
<1>1. DeadLettersFirst /\ \A p \in Procs : Served(p)
  BY DEF IInv, Local
<1>2. ASSUME NEW p \in Procs, pc[p] = "up"
      PROVE  /\ "migrate" \in Range(Boot(p)) => recorded = Files
             /\ Service[p] \notin {"migrate", "settlement-service", "odds-service"}
                    => topology = Range(Topology)
             /\ ordered /\ Service[p] = "odds-service" => market \/ p \in unseeded
  <2>1. "migrate" \in Range(Boot(p)) => recorded = Files
    BY <1>1, <1>2, BootIs DEF Served
  <2>2. Service[p] \notin {"migrate", "settlement-service", "odds-service"}
            => topology = Range(Topology)
    BY <1>1, <1>2, BootIs DEF Served
  <2>. QED
    BY <1>1, <1>2, <2>1, <2>2 DEF Served
<1>. QED
  BY <1>1, <1>2 DEF ReadyMeansReady, DeadLettersFirst

\* Whatever starts, in any order and with any deaths, is up only on the schema and the
\* topology it needs; of odds-service, which serves whether or not it seeded its table,
\* it is so in Compose's order, unless the database failed its Seed.
THEOREM Readiness == Spec => []ReadyMeansReady
<1>. QED
  BY Invariance, ServedIsReady, PTL

\* The migrate job is the process that may GRANT.
JobMayGrant == \A p \in Procs : Service[p] = "migrate" => p \in Root

LEMMA RefusalsHaveCauses == ASSUME JobMayGrant PROVE IInv => RefusedHasCause
<1>. SUFFICES ASSUME IInv, NEW p \in Procs, Remaining(p), Refused(p)
              PROVE  \/ Kind(p) = "ddl" /\ file[p] \in interrupted
                     \/ Kind(p) = "grant" /\ ~ ordered
  BY DEF RefusedHasCause
<1>1. pc[p] = "running" /\ file[p] \in Files \ recorded /\ Local(p)
  BY DEF IInv, Local, Position, Remaining
<1>2. CASE Kind(p) = "ddl"
  BY <1>2, RefusedTable
<1>3. CASE Kind(p) = "grant" /\ p \notin Root
  <2>1. Service[p] # "migrate"
    BY <1>3 DEF JobMayGrant
  <2>2. Boot(p)[1] = "migrate"
    <3>1. phase[p] \in 1 .. Len(Boot(p)) /\ Boot(p)[phase[p]] = "migrate" /\ Len(Boot(p)) \in 1 .. 3
      BY <1>1, BootIs DEF Local, Phased, IInv, Types, InApply
    <3>2. phase[p] \in 2 .. Len(Boot(p)) \/ phase[p] = 1
      BY <3>1
    <3>. QED
      BY <3>1, <3>2, BootIs
  <2>3. Service[p] # "notification-service"
    BY <2>2, BootIs
  <2>. QED
    BY <1>1, <1>3, <2>1, <2>3 DEF Local, Served
<1>. QED
  BY <1>2, <1>3 DEF Refused

\* If the migrate job may GRANT, migrators never get into one another's way, and only a
\* death or a start out of order makes a statement fail.
THEOREM NobodyInTheWay == ASSUME JobMayGrant PROVE Spec => []RefusedHasCause
<1>1. IInv => RefusedHasCause
  BY RefusalsHaveCauses
<1>. QED
  BY <1>1, Invariance, PTL
=============================================================================
