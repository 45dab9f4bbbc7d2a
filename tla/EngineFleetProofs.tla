------------------------- MODULE EngineFleetProofs -------------------------
(* Proofs about EngineFleet for every number of engines, of nodes per engine, *)
(* of rollouts, of faults and of restarts.                                    *)
EXTENDS EngineFleet, FiniteSetTheorems, TLAPS

\* Every engine has a node-0 slot.
LEMMA Node0InSlot == \A e \in Engine : <<e, 0>> \in Slot
  BY FleetAssumption DEF Engine, Slot

\* The engines __init__ starts: one handle per slot.
LEMMA FleetChoice ==
  ASSUME NEW S, Fleets(S) # {}
  PROVE  (CHOOSE f \in Fleets(S) : TRUE) \in [Slot -> S]
  BY DEF Fleets

-----------------------------------------------------------------------------
(* Types.                                                                     *)

LEMMA TypeInit == Init => TypeOK
  <1> SUFFICES ASSUME Init PROVE TypeOK
    OBVIOUS
  <1> USE FleetAssumption
  <1>1. slot \in [Slot -> Handle]
    BY EnoughHandles, FleetChoice DEF Init
  <1>2. FleetTypeOK
    BY <1>1 DEF Init, FleetTypeOK, Tags
  <1>3. DriverTypeOK
    BY DEF Init, DriverTypeOK
  <1>4. MonitorTypeOK
    <2>1. at = <<0, 0>> /\ at \in (0 .. NumEngines) \X (0 .. NodesPerEngine - 1)
      BY DEF Init
    <2>2. captured \in [Engine -> Handle \cup {None}] /\ victim \in Handle \cup {None}
      BY DEF Init
    <2> QED
      BY <2>1, <2>2 DEF Init, MonitorTypeOK
  <1> QED
    BY <1>2, <1>3, <1>4 DEF Init, TypeOK

\* The engines: the actions that leave them alone, then the others.
LEMMA FleetTypeStep == TypeOK /\ [Next]_vars => FleetTypeOK'
  <1> SUFFICES ASSUME TypeOK, [Next]_vars PROVE FleetTypeOK'
    OBVIOUS
  <1>0. CASE UNCHANGED fleet
    BY <1>0 DEF TypeOK, FleetTypeOK, fleet
  <1> USE DEF TypeOK, FleetTypeOK, Move, Abort, fleet, driver
  <1>1. CASE Crash
    BY <1>1 DEF Crash
  <1>2. CASE RequestOk
    <2>1. \A h \in Handle : mem[h] \cup {"weights"} \subseteq Tags
      BY DEF Tags
    <2>2. \A h \in Handle : mem[h] \cup {"kv"} \subseteq Tags
      BY DEF Tags
    <2>3. InRound => \A h \in Handle : Resident(h) \in SUBSET Tags
      BY <2>1, <2>2 DEF Resident, InRound
    <2>4. PICK p \in pend : mem' = [mem EXCEPT ![p[2]] = Resident(p[2])]
      BY <1>2 DEF RequestOk
    <2>5. p[2] \in Handle
      BY <2>4 DEF DriverTypeOK
    <2>6. mem' \in [Handle -> SUBSET Tags]
      BY <1>2, <2>3, <2>4, <2>5 DEF RequestOk
    <2> QED
      BY <1>2, <2>6 DEF RequestOk
  <1>3. CASE RequestFailed
    BY <1>3 DEF RequestFailed, MarkEngineDead
  <1>4. CASE BeginUpdate
    BY <1>4 DEF BeginUpdate
  <1>5. CASE StartEngine
    <2>1. CASE UNCHANGED fleet
      BY <2>1
    <2>2. CASE ~UNCHANGED fleet
      <3>1. PICK i \in Slot : /\ Boot(Fresh)
                              /\ slot' = [slot EXCEPT ![i] = Fresh]
                              /\ newEngines' = newEngines \cup {Fresh}
                              /\ \E h \in Handle : proc[h] = "absent"
        BY <1>5, <2>2 DEF StartEngine, DriverTypeOK
      <3>2. Fresh \in Handle
        BY <3>1 DEF Fresh
      <3> QED
        BY <3>1, <3>2 DEF Boot
    <2> QED
      BY <2>1, <2>2
  <1>6. CASE ResyncNewEngines
    BY <1>6 DEF ResyncNewEngines, Tags
  <1>7. CASE ClearNumNewEngines
    BY <1>7 DEF ClearNumNewEngines
  <1>8. CASE PushWeights
    BY <1>8 DEF PushWeights, DriverTypeOK
  <1>9. CASE ManagerRestart
    <2> DEFINE absent == {h \in Handle : proc[h] = "absent"}
    <2>1. (CHOOSE f \in Fleets(absent) : TRUE) \in [Slot -> absent]
      BY <1>9, FleetChoice DEF ManagerRestart
    <2> DEFINE f  == CHOOSE g \in Fleets(absent) : TRUE
               up == {f[i] : i \in Slot}
    <2>2. up \subseteq Handle
      BY <2>1
    <2>3. slot' = f /\ newEngines' = up
      BY <1>9 DEF ManagerRestart
    <2>4. /\ proc' = [h \in Handle |-> IF h \in up THEN "alive"
                                      ELSE IF proc[h] = "absent" THEN "absent" ELSE "killed"]
          /\ mem' = [h \in Handle |-> IF h \in up THEN Tags ELSE mem[h]]
          /\ version' = [h \in Handle |-> IF h \in up THEN 0 ELSE version[h]]
      BY <1>9 DEF ManagerRestart
    <2>5. slot' \in [Slot -> Handle \cup {None}]
      BY <2>1, <2>3
    <2> HIDE DEF up, f
    <2> QED
      BY <2>2, <2>3, <2>4, <2>5
  <1>10. CASE KillDone
    BY <1>10 DEF KillDone
  <1> QED
    BY <1>0, <1>1, <1>2, <1>3, <1>4, <1>5, <1>6, <1>7, <1>8, <1>9, <1>10
    DEF Next, Driver, Monitor, Over, vars, Offload, OnloadWeights, OnloadKv, Round,
        RoundDone, EnginesStarted, Snapshot, Connect, StartEval, EndEval,
        StartGenerate, EndGenerate, Train, Dispose, Wake, FirstWait, FirstWaitOver,
        RunHealthChecks, ScanNext, HealthOk, HealthFailed, KillRead, Interval

\* A live engine has a handle in its node-0 slot.
LEMMA LiveSlot == FleetTypeOK => \A e \in Live : e \in Engine /\ slot[<<e, 0>>] \in Handle
  BY Node0InSlot DEF Live, FleetTypeOK

\* The driver: only these actions do more than move dpc.
LEMMA DriverTypeStep == TypeOK /\ [Next]_vars => DriverTypeOK'
  <1> SUFFICES ASSUME TypeOK, [Next]_vars PROVE DriverTypeOK'
    OBVIOUS
  <1> USE DEF TypeOK, DriverTypeOK, driver, loop, work, link
  <1>0. CASE UNCHANGED driver
    BY <1>0
  <1>m. ASSUME NEW there, Move(there),
               there \in {"offload", "onload_weights", "update", "resync", "snapshot",
                          "between", "eval", "evaluated", "train", "done", "failed",
                          "assert_failed"}
        PROVE  DriverTypeOK'
    BY <1>m DEF Move
  <1>1. CASE Offload \/ OnloadWeights \/ OnloadKv
    <2>1. pend' = {<<e, slot[<<e, 0>>]>> : e \in Live}
      BY <1>1 DEF Offload, OnloadWeights, OnloadKv, Round
    <2>2. \A e \in Live : e \in Engine /\ slot[<<e, 0>>] \in Handle
      BY LiveSlot
    <2>3. ASSUME NEW p \in pend' PROVE p \in Engine \X Handle
      <3>1. PICK e \in Live : p = <<e, slot[<<e, 0>>]>>
        BY <2>1
      <3>2. e \in Engine /\ slot[<<e, 0>>] \in Handle
        BY <2>2
      <3> QED
        BY <3>1, <3>2
    <2> QED
      BY <1>1, <2>3 DEF Offload, OnloadWeights, OnloadKv, Round
  <1>2. CASE RequestOk
    BY <1>2 DEF RequestOk
  <1>3. CASE RequestFailed
    BY <1>3 DEF RequestFailed
  <1>4. CASE RoundDone
    <2>1. CASE dpc = "offloading"
      BY <1>4, <2>1, <1>m DEF RoundDone
    <2>2. CASE dpc = "onloading_weights"
      BY <1>4, <2>2, <1>m DEF RoundDone
    <2>3. CASE dpc = "onloading_kv"
      BY <1>4, <2>3, <1>m DEF RoundDone
    <2> QED
      BY <1>4, <2>1, <2>2, <2>3 DEF RoundDone, InRound
  <1>5. CASE BeginUpdate
    BY <1>5 DEF BeginUpdate
  <1>6. CASE StartEngine
    BY <1>6 DEF StartEngine
  <1>7. CASE EnginesStarted
    BY <1>7, <1>m DEF EnginesStarted, Abort
  <1>8. CASE ResyncNewEngines
    <2>1. CASE Move("snapshot") \/ Abort
      BY <2>1, <1>m DEF Abort
    <2>2. CASE dpc' = "snapshot" /\ UNCHANGED <<loop, work, link>>
      BY <2>2
    <2> QED
      BY <1>8, <2>1, <2>2 DEF ResyncNewEngines
  <1>9. CASE Snapshot
    <2>1. snap' \in [Engine -> Handle \cup {None}]
      BY <1>9, Node0InSlot DEF Snapshot, Node0, FleetTypeOK
    <2> QED
      BY <1>9, <2>1 DEF Snapshot
  <1>10. CASE Connect
    <2>1. CASE Abort
      BY <2>1, <1>m DEF Abort
    <2>2. CASE ~Abort
      BY <1>10, <2>2 DEF Connect
    <2> QED
      BY <2>1, <2>2
  <1>11. CASE ClearNumNewEngines
    BY <1>11 DEF ClearNumNewEngines
  <1>12. CASE PushWeights
    <2>1. CASE Abort
      BY <2>1, <1>m DEF Abort
    <2>2. CASE /\ uver' = uver + 1
               /\ dpc' = IF OffloadRollout THEN "onload_kv" ELSE "between"
               /\ UNCHANGED <<loop, work, snap, conn>>
      BY <2>2
    <2> QED
      BY <1>12, <2>1, <2>2 DEF PushWeights
  <1>13. CASE StartEval \/ EndEval \/ EndGenerate \/ Train \/ Dispose
    BY <1>13, <1>m DEF StartEval, EndEval, EndGenerate, Train, Dispose, Abort
  <1>14. CASE StartGenerate
    <2>1. {slot[<<e, 0>>] : e \in Live} \subseteq Handle
      BY LiveSlot
    <2>2. VersionsUp \subseteq Nat
      BY <2>1 DEF VersionsUp, FleetTypeOK
    <2> QED
      BY <1>14, <2>2, FleetAssumption DEF StartGenerate
  <1>15. CASE ManagerRestart
    <2>1. /\ configured' = FALSE
          /\ rolloutId' = rolloutId \/ rolloutId' = 0
          /\ served' = {0} \/ served' = served
          /\ UNCHANGED <<work, link, dpc, round>>
      BY <1>15 DEF ManagerRestart
    <2>2. rolloutId' \in 0 .. NumRollout
      BY <2>1, FleetAssumption
    <2>3. served' \subseteq Nat
      <3>1. {0} \subseteq Nat
        OBVIOUS
      <3> QED
        BY ONLY <2>1, <3>1, DriverTypeOK DEF DriverTypeOK
    <2>4. configured' \in BOOLEAN
      BY <2>1
    <2> QED
      BY <2>1, <2>2, <2>3, <2>4
  <1> QED
    BY <1>0, <1>1, <1>2, <1>3, <1>4, <1>5, <1>6, <1>7, <1>8, <1>9, <1>10, <1>11, <1>12,
       <1>13, <1>14, <1>15
    DEF Next, Driver, Monitor, Over, vars, MonitorOnly, Crash, HealthFailed, KillDone,
        Wake, FirstWait, FirstWaitOver, RunHealthChecks, ScanNext, HealthOk, KillRead,
        Interval

\* The monitor thread: the scan stays inside the engines, the kill inside the
\* slots of one of them.
LEMMA MonitorTypeStep == TypeOK /\ [Next]_vars => MonitorTypeOK'
  <1> SUFFICES ASSUME TypeOK, [Next]_vars PROVE MonitorTypeOK'
    OBVIOUS
  <1> USE DEF TypeOK, MonitorTypeOK, gate, scan, Goto
  <1>k. ASSUME KeepMonitor \/ Pause \/ Resume, UNCHANGED scan PROVE MonitorTypeOK'
    BY <1>k DEF KeepMonitor, Pause, Resume
  <1>0. CASE UNCHANGED <<gate, scan, needFirstWait>>
    BY <1>0
  <1>1. CASE Dispose
    BY <1>1 DEF Dispose
  <1>2. CASE ManagerRestart
    <2>1. CASE KeepMonitor /\ UNCHANGED scan
      BY <2>1, <1>k
    <2>2. CASE /\ mpc' = "top" /\ needFirstWait' = TRUE /\ paused' = FALSE
               /\ captured' = [e \in Engine |-> None] /\ victim' = None
               /\ UNCHANGED <<stop, at>>
      BY <2>2
    <2> QED
      BY <1>2, <2>1, <2>2 DEF ManagerRestart
  <1>3. CASE Wake \/ FirstWait \/ FirstWaitOver \/ Interval \/ HealthFailed
    BY <1>3 DEF Wake, FirstWait, FirstWaitOver, Interval, HealthFailed, MonitorOnly
  <1>4. CASE RunHealthChecks
    <2>1. Node0 \in [Engine -> Handle \cup {None}]
      BY Node0InSlot DEF Node0, FleetTypeOK
    <2>2. <<0, 0>> \in (0 .. NumEngines) \X (0 .. NodesPerEngine - 1)
      BY FleetAssumption
    <2> QED
      BY <1>4, <2>1, <2>2 DEF RunHealthChecks, MonitorOnly
  <1>5. CASE ScanNext \/ HealthOk
    <2>1. at[1] # NumEngines =>
            /\ at \in Slot /\ at[1] \in Engine
            /\ <<at[1] + 1, 0>> \in (0 .. NumEngines) \X (0 .. NodesPerEngine - 1)
      BY FleetAssumption DEF Slot, Engine
    <2>2. at \in Slot => at[1] # NumEngines
      BY FleetAssumption DEF Slot, Engine
    <2>3. CASE ScanNext
      BY <1>5, <2>1, <2>3 DEF ScanNext, Advance, MonitorOnly
    <2>4. CASE HealthOk
      BY <1>5, <2>1, <2>2, <2>4 DEF HealthOk, Advance, MonitorOnly
    <2> QED
      BY <1>5, <2>3, <2>4
  <1>6. CASE KillRead
    BY <1>6 DEF KillRead, MonitorOnly, FleetTypeOK
  <1>7. CASE KillDone
    <2>1. /\ at[1] \in Engine /\ at[2] \in 0 .. NodesPerEngine - 1
          /\ <<at[1] + 1, 0>> \in (0 .. NumEngines) \X (0 .. NodesPerEngine - 1)
      BY <1>7, FleetAssumption DEF KillDone, Slot, Engine
    <2>2. at[2] + 1 < NodesPerEngine =>
            /\ <<at[1], at[2] + 1>> \in Slot
            /\ <<at[1], at[2] + 1>> \in (0 .. NumEngines) \X (0 .. NodesPerEngine - 1)
      BY <2>1, FleetAssumption DEF Slot, Engine
    <2> QED
      BY <1>7, <2>1, <2>2 DEF KillDone, Advance
  <1> QED
    BY <1>k, <1>0, <1>1, <1>2, <1>3, <1>4, <1>5, <1>6, <1>7
    DEF Next, Driver, Monitor, Over, vars, DriverOnly, env, Crash, Offload, OnloadWeights,
        OnloadKv, Round, RequestOk, RequestFailed, RoundDone, BeginUpdate, StartEngine,
        EnginesStarted, ResyncNewEngines, Snapshot, Connect, ClearNumNewEngines,
        PushWeights, StartEval, EndEval, StartGenerate, EndGenerate, Train

\* The two counters of the environment stay within their bounds.
LEMMA BoundsStep ==
  TypeOK /\ [Next]_vars => faults' \in 0 .. MaxFaults /\ restarts' \in 0 .. MaxRestarts
  <1> SUFFICES ASSUME TypeOK, [Next]_vars
               PROVE  faults' \in 0 .. MaxFaults /\ restarts' \in 0 .. MaxRestarts
    OBVIOUS
  <1> USE FleetAssumption DEF TypeOK, env, MayFault
  <1>0. CASE UNCHANGED env
    BY <1>0
  <1>1. CASE Crash \/ RequestFailed \/ HealthFailed \/ KillDone
    BY <1>1 DEF Crash, RequestFailed, HealthFailed, KillDone
  <1>2. CASE ManagerRestart
    BY <1>2 DEF ManagerRestart
  <1> QED
    BY <1>0, <1>1, <1>2
    DEF Next, Driver, Monitor, Over, vars, MonitorOnly, DriverOnly, Offload, OnloadWeights,
        OnloadKv, Round, RequestOk, RoundDone, BeginUpdate, StartEngine, EnginesStarted,
        ResyncNewEngines, Snapshot, Connect, ClearNumNewEngines, PushWeights, StartEval,
        EndEval, StartGenerate, EndGenerate, Train, Dispose, Wake, FirstWait,
        FirstWaitOver, RunHealthChecks, ScanNext, HealthOk, KillRead, Interval

LEMMA TypeStep == TypeOK /\ [Next]_vars => TypeOK'
  <1> SUFFICES ASSUME TypeOK, [Next]_vars PROVE TypeOK'
    OBVIOUS
  <1>1. FleetTypeOK' /\ DriverTypeOK' /\ MonitorTypeOK'
    BY FleetTypeStep, DriverTypeStep, MonitorTypeStep
  <1>2. faults' \in 0 .. MaxFaults /\ restarts' \in 0 .. MaxRestarts
    BY BoundsStep
  <1> QED
    BY <1>1, <1>2 DEF TypeOK

\* Every state the program can reach has the shape TypeOK gives it.
THEOREM TypeCorrect == Spec => []TypeOK
  BY TypeInit, TypeStep, PTL DEF Spec

-----------------------------------------------------------------------------
(* The inductive invariant of the weight updates.  Its parts on the control   *)
(* of the driver come first, those on the engines and their weights after.    *)

LEMMA UpdateInit == Init => UpdateInv
  <1> SUFFICES ASSUME Init PROVE UpdateInv
    OBVIOUS
  <1> USE DEF Init
  <1>1. TypeOK
    BY TypeInit
  <1>2. UpdateNumber /\ ConfigLost /\ NewCounted /\ JoinsFleet
    BY DEF UpdateNumber, ConfigLost, NewCounted, JoinsFleet, BeforePush, AfterPush, Recovering
  <1>3. ReconnectOwed
    <2> SUFFICES ASSUME NEW e \in Engine PROVE newEngines # {}
      BY DEF ReconnectOwed
    <2>1. <<e, 0>> \in Slot
      BY Node0InSlot
    <2>2. newEngines = {slot[i] : i \in Slot}
      OBVIOUS
    <2>3. slot[<<e, 0>>] \in newEngines
      BY ONLY <2>1, <2>2
    <2> QED
      BY <2>3
  <1>4. Current
    BY DEF Current, AfterPush
  <1> QED
    BY <1>1, <1>2, <1>3, <1>4 DEF UpdateInv

\* Where the driver is tells how many updates there were, whether the manager
\* is configured and whether engines may be counted as new.
LEMMA ControlStep ==
  UpdateInv /\ [Next]_vars => UpdateNumber' /\ ConfigLost' /\ NewCounted'
  <1> SUFFICES ASSUME UpdateInv, [Next]_vars
               PROVE  UpdateNumber' /\ ConfigLost' /\ NewCounted'
    OBVIOUS
  <1> USE DEF UpdateInv, UpdateNumber, ConfigLost, NewCounted, BeforePush, AfterPush,
              Recovering, env, fleet, loop, link, work, driver, DriverOnly
  <1>0. CASE UNCHANGED <<driver, newEngines, restarts>>
    BY <1>0
  <1>1. CASE Offload \/ OnloadWeights \/ OnloadKv
    BY <1>1 DEF Offload, OnloadWeights, OnloadKv, Round
  <1>2. CASE RequestOk \/ RequestFailed
    BY <1>2 DEF RequestOk, RequestFailed
  <1>3. CASE RoundDone
    <2>1. CASE dpc = "offloading"
      BY <1>3, <2>1 DEF RoundDone, Move
    <2>2. CASE dpc = "onloading_weights"
      BY <1>3, <2>2 DEF RoundDone, Move
    <2>3. CASE dpc = "onloading_kv"
      BY <1>3, <2>3 DEF RoundDone, Move
    <2> QED
      BY <1>3, <2>1, <2>2, <2>3 DEF RoundDone, InRound
  <1>4. CASE BeginUpdate
    BY <1>4 DEF BeginUpdate
  <1>5. CASE StartEngine
    BY <1>5 DEF StartEngine
  <1>6. CASE EnginesStarted
    <2>1. /\ dpc = "start" /\ dpc' \in {"resync", "failed", "assert_failed"}
          /\ UNCHANGED <<newEngines, loop, uver, restarts>>
      BY <1>6 DEF EnginesStarted, Move, Abort
    <2> QED
      BY <2>1
  <1>7. CASE ResyncNewEngines
    <2>1. /\ dpc = "resync" /\ dpc' \in {"snapshot", "failed"}
          /\ UNCHANGED <<newEngines, loop, uver, restarts>>
      BY <1>7 DEF ResyncNewEngines, Move, Abort
    <2> QED
      BY <2>1
  <1>8. CASE Snapshot
    BY <1>8 DEF Snapshot
  <1>9. CASE Connect
    <2>1. /\ dpc = "connect" /\ dpc' \in {"clear", "failed"}
          /\ UNCHANGED <<newEngines, loop, uver, restarts>>
      BY <1>9 DEF Connect, Move, Abort
    <2> QED
      BY <2>1
  <1>10. CASE ClearNumNewEngines
    BY <1>10 DEF ClearNumNewEngines
  <1>11. CASE PushWeights
    <2>1. CASE Abort
      BY <1>11, <2>1 DEF PushWeights, Abort, Move
    <2>2. CASE /\ uver' = uver + 1
               /\ dpc' = IF OffloadRollout THEN "onload_kv" ELSE "between"
               /\ UNCHANGED <<loop, newEngines>>
      BY <1>11, <2>2 DEF PushWeights
    <2> QED
      BY <1>11, <2>1, <2>2 DEF PushWeights
  <1>12. CASE StartEval \/ EndEval \/ EndGenerate \/ Train \/ Dispose
    BY <1>12 DEF StartEval, EndEval, EndGenerate, Train, Dispose, Move, Abort
  <1>13. CASE StartGenerate
    BY <1>13 DEF StartGenerate, TypeOK, DriverTypeOK
  <1>14. CASE ManagerRestart
    <2>1. /\ configured' = FALSE /\ restarts' = restarts + 1
          /\ UNCHANGED <<dpc, round, uver>>
          /\ dpc \in {"generate", "eval"}
      BY <1>14 DEF ManagerRestart, Serving
    <2> QED
      BY <2>1 DEF TypeOK
  <1> QED
    BY <1>0, <1>1, <1>2, <1>3, <1>4, <1>5, <1>6, <1>7, <1>8, <1>9, <1>10, <1>11, <1>12,
       <1>13, <1>14
    DEF Next, Driver, Monitor, Over, vars, MonitorOnly, Crash, HealthFailed, KillDone,
        Wake, FirstWait, FirstWaitOver, RunHealthChecks, ScanNext, HealthOk, KillRead,
        Interval

\* A restarted manager counts the engines of its new fleet.
LEMMA NewFleetCounted == ManagerRestart => newEngines' # {}
  <1> SUFFICES ASSUME ManagerRestart PROVE newEngines' # {}
    OBVIOUS
  <1> DEFINE f == CHOOSE g \in Fleets({h \in Handle : proc[h] = "absent"}) : TRUE
  <1>1. newEngines' = {f[i] : i \in Slot}
    BY DEF ManagerRestart
  <1>2. <<0, 0>> \in Slot
    BY FleetAssumption DEF Slot, Engine
  <1> HIDE DEF f
  <1>3. f[<<0, 0>>] \in newEngines'
    BY <1>1, <1>2
  <1> QED
    BY <1>3

\* A step that only empties slots, while the driver stays where it is.
LEMMA OnlyShrinks ==
  ASSUME JoinsFleet, ReconnectOwed, Current,
         \A i \in Slot : slot'[i] \in {None, slot[i]},
         UNCHANGED <<newEngines, version, dpc, loop, link>>
  PROVE  JoinsFleet' /\ ReconnectOwed' /\ Current'
  <1> USE DEF loop, link
  <1>1. \A e \in Engine : slot'[<<e, 0>>] \in {None, slot[<<e, 0>>]}
    BY Node0InSlot
  <1>2. JoinsFleet'
    BY <1>1 DEF JoinsFleet
  <1>3. ReconnectOwed'
    BY <1>1 DEF ReconnectOwed
  <1>4. Current'
    BY <1>1 DEF Current, Live
  <1> QED
    BY <1>2, <1>3, <1>4

\* A step that moves the driver and leaves the fleet as it is.
LEMMA OnlyMoves ==
  ASSUME ReconnectOwed, Current,
         UNCHANGED <<fleet, loop, link>>,
         dpc' \notin {"connect", "clear"},
         dpc' \in AfterPush \cup {"generate"} => dpc \in AfterPush \cup {"generate"},
         dpc' \in {"generate", "offload", "offloading", "train"} =>
           dpc \in {"generate", "offload", "offloading", "train"}
  PROVE  JoinsFleet' /\ ReconnectOwed' /\ Current'
  <1> USE DEF fleet, loop, link
  <1>1. JoinsFleet'
    BY DEF JoinsFleet
  <1>2. ReconnectOwed'
    BY DEF ReconnectOwed
  <1>3. Current'
    BY DEF Current, Live, AfterPush
  <1> QED
    BY <1>1, <1>2, <1>3

LEMMA WeightsStep ==
  UpdateInv /\ [Next]_vars => JoinsFleet' /\ ReconnectOwed' /\ Current'
  <1> SUFFICES ASSUME UpdateInv, [Next]_vars
               PROVE  JoinsFleet' /\ ReconnectOwed' /\ Current'
    OBVIOUS
  <1> USE DEF UpdateInv
  <1>t. slot \in [Slot -> Handle \cup {None}]
    BY DEF TypeOK, FleetTypeOK
  <1>0. CASE UNCHANGED <<slot, newEngines, version, dpc, loop, link>>
    BY <1>0, <1>t, OnlyShrinks
  <1>1. CASE RequestFailed
    BY <1>1, <1>t, OnlyShrinks DEF RequestFailed, MarkEngineDead
  <1>2. CASE KillDone
    BY <1>2, <1>t, OnlyShrinks DEF KillDone, driver
  <1>3. CASE Offload \/ OnloadWeights \/ OnloadKv
    BY <1>3, OnlyMoves DEF Offload, OnloadWeights, OnloadKv, Round, AfterPush
  <1>4. CASE RoundDone
    BY <1>4, OnlyMoves DEF RoundDone, InRound, Move, AfterPush
  <1>5. CASE EnginesStarted
    BY <1>5, OnlyMoves DEF EnginesStarted, Move, Abort, AfterPush
  <1>6. CASE StartEval \/ EndEval \/ Dispose
    BY <1>6, OnlyMoves DEF StartEval, EndEval, Dispose, Move, Abort, AfterPush
  <1>7. CASE EndGenerate \/ Train
    BY <1>7, OnlyMoves DEF EndGenerate, Train, Move, Abort, AfterPush
  <1>8. CASE BeginUpdate
    <2>1. CASE ~FaultTolerance \/ rolloutId = 0
      BY <1>8, <2>1, OnlyMoves DEF BeginUpdate, AfterPush, fleet, work
    <2>2. CASE FaultTolerance /\ rolloutId > 0
      <3>1. /\ dpc = "update" /\ dpc' = "start"
            /\ UNCHANGED <<slot, version, loop, link>>
        BY <1>8, <2>2 DEF BeginUpdate
      <3>2. newEngines = {}
        BY <3>1, <2>2 DEF NewCounted, Recovering, ConfigLost, UpdateNumber, TypeOK,
                          DriverTypeOK
      <3>3. ReconnectOwed'
        BY <3>1, <3>2 DEF ReconnectOwed, link
      <3>4. JoinsFleet' /\ Current'
        BY <3>1 DEF JoinsFleet, Current, AfterPush
      <3> QED
        BY <3>3, <3>4
    <2> QED
      BY <1>8, <2>1, <2>2 DEF BeginUpdate
  <1>9. CASE StartEngine
    <2>1. dpc = "start" /\ dpc' = "start" /\ UNCHANGED <<loop, link>>
      BY <1>9 DEF StartEngine
    <2>2. JoinsFleet' /\ Current'
      BY <2>1 DEF JoinsFleet, Current, AfterPush
    <2>3. UNCHANGED fleet \/ newEngines' # {}
      BY <1>9 DEF StartEngine
    <2>4. ReconnectOwed'
      BY <2>1, <2>3 DEF ReconnectOwed, fleet, link
    <2> QED
      BY <2>2, <2>4
  <1>10. CASE ResyncNewEngines
    <2>1. /\ dpc' \in {"snapshot", "failed"}
          /\ UNCHANGED <<slot, newEngines, version, loop, link>>
      BY <1>10 DEF ResyncNewEngines, Move, Abort, fleet
    <2> QED
      BY <2>1 DEF JoinsFleet, ReconnectOwed, Current, AfterPush, loop, link
  <1>11. CASE Snapshot
    <2>1. /\ snap' = Node0 /\ dpc' \in {"connect", "push"}
          /\ UNCHANGED <<fleet, loop, conn, uver>>
      BY <1>11 DEF Snapshot
    <2>2. JoinsFleet'
      BY <2>1 DEF JoinsFleet, Node0, fleet
    <2>3. ReconnectOwed' /\ Current'
      BY <2>1 DEF ReconnectOwed, Current, AfterPush, fleet, loop
    <2> QED
      BY <2>2, <2>3
  <1>12. CASE Connect
    <2>1. CASE Abort
      BY <2>1, OnlyMoves DEF Abort, Move, AfterPush
    <2>2. CASE /\ dpc = "connect" /\ conn' = snap /\ dpc' = "clear"
               /\ UNCHANGED <<fleet, loop, snap, uver>>
      <3>1. ReconnectOwed'
        BY <2>2 DEF ReconnectOwed, NewCounted, fleet
      <3>2. JoinsFleet'
        <4>1. \A e \in Engine : slot[<<e, 0>>] \in {None, snap[e]}
          BY <2>2 DEF JoinsFleet
        <4>2. slot' = slot /\ conn' = snap /\ dpc' = "clear"
          BY <2>2 DEF fleet
        <4> QED
          BY ONLY <4>1, <4>2 DEF JoinsFleet
      <3>3. Current'
        BY <2>2 DEF Current, AfterPush
      <3> QED
        BY <3>1, <3>2, <3>3
    <2> QED
      BY <1>12, <2>1, <2>2 DEF Connect
  <1>13. CASE ClearNumNewEngines
    <2>1. /\ dpc = "clear" /\ dpc' = "push"
          /\ UNCHANGED <<slot, version, loop, link>>
      BY <1>13 DEF ClearNumNewEngines
    <2> QED
      BY <2>1 DEF JoinsFleet, ReconnectOwed, Current, AfterPush, loop, link
  <1>14. CASE PushWeights
    <2>1. CASE Abort
      BY <2>1, OnlyMoves DEF Abort, Move, AfterPush
    <2>2. CASE /\ uver' = uver + 1
               /\ version' = [h \in Handle |-> IF \E e \in Engine : conn[e] = h
                                               THEN uver + 1 ELSE version[h]]
               /\ dpc' = IF OffloadRollout THEN "onload_kv" ELSE "between"
               /\ UNCHANGED <<loop, slot, newEngines, snap, conn>>
      <3>1. newEngines = {}
        BY <1>14 DEF PushWeights, NewCounted, ConfigLost, Recovering
      <3>2. \A e \in Live : conn[e] = slot[<<e, 0>>] /\ e \in Engine /\ slot[<<e, 0>>] \in Handle
        BY <3>1, LiveSlot DEF ReconnectOwed, Live, TypeOK
      <3>3. \A e \in Live : version'[slot[<<e, 0>>]] = uver'
        BY <2>2, <3>2
      <3>4. Live' = Live
        BY <2>2 DEF Live
      <3>5. Current'
        BY <2>2, <3>3, <3>4 DEF Current
      <3> QED
        BY <2>2, <3>5 DEF JoinsFleet, ReconnectOwed
    <2> QED
      BY <1>14, <2>1, <2>2 DEF PushWeights
  <1>15. CASE StartGenerate
    <2>1. /\ dpc \in AfterPush /\ dpc' = "generate" /\ served' = VersionsUp
          /\ UNCHANGED <<fleet, link, configured>>
      BY <1>15 DEF StartGenerate, AfterPush
    <2>2. JoinsFleet' /\ ReconnectOwed'
      BY <2>1 DEF JoinsFleet, ReconnectOwed, fleet, link
    <2>3. configured => VersionsUp \subseteq {uver}
      BY <2>1 DEF VersionsUp, Current
    <2>4. Current'
      BY <2>1, <2>3 DEF Current, Live, fleet, link
    <2> QED
      BY <2>2, <2>4
  <1>16. CASE ManagerRestart
    <2>1. /\ configured' = FALSE /\ dpc' = dpc /\ dpc \in {"generate", "eval"}
          /\ UNCHANGED link
      BY <1>16 DEF ManagerRestart, Serving
    <2>2. newEngines' # {}
      BY <1>16, NewFleetCounted
    <2> QED
      BY <2>1, <2>2 DEF JoinsFleet, ReconnectOwed, Current
  <1> QED
    BY <1>0, <1>1, <1>2, <1>3, <1>4, <1>5, <1>6, <1>7, <1>8, <1>9, <1>10, <1>11, <1>12,
       <1>13, <1>14, <1>15, <1>16
    DEF Next, Driver, Monitor, Over, vars, driver, fleet, loop, link, MonitorOnly, Crash,
        HealthFailed, RequestOk, Wake, FirstWait, FirstWaitOver, RunHealthChecks,
        ScanNext, HealthOk, KillRead, Interval

\* The inductive invariant of the updates holds: the versions, the updater's
\* group and the count of new engines fit at every point of the driver's loop.
THEOREM UpdateInvariance == Spec => []UpdateInv
  <1>1. UpdateInv /\ [Next]_vars => UpdateInv'
    <2> SUFFICES ASSUME UpdateInv, [Next]_vars PROVE UpdateInv'
      OBVIOUS
    <2>1. TypeOK'
      BY TypeStep DEF UpdateInv
    <2> QED
      BY <2>1, ControlStep, WeightsStep DEF UpdateInv
  <1> QED
    BY UpdateInit, <1>1, PTL DEF Spec

\* An engine in a slot but outside the updater's group always has the count of
\* new engines above 0: no update can forget to join it.
THEOREM ReconnectIsOwed == Spec => []ReconnectOwed
  <1>1. UpdateInv => ReconnectOwed
    BY DEF UpdateInv
  <1> QED
    BY UpdateInvariance, <1>1, PTL

\* However crashes, recoveries and the monitor interleave with the updates,
\* rollouts and evaluations are served by the newest weights only.
THEOREM ServedByCurrentWeights == Spec => []ServeCurrent
  <1>1. UpdateInv => ServeCurrent
    BY DEF UpdateInv, ServeCurrent, Serving, Current, UpdateNumber, ConfigLost, AfterPush,
           BeforePush
  <1> QED
    BY UpdateInvariance, <1>1, PTL

\* What reaches the trainer was generated by the weights it is about to
\* update, restarts of the manager included.
THEOREM TrainingIsOnPolicy == Spec => []TrainedOnPolicy
  <1>1. UpdateInv => TrainedOnPolicy
    BY DEF UpdateInv, TrainedOnPolicy, Current, ConfigLost
  <1> QED
    BY UpdateInvariance, <1>1, PTL

-----------------------------------------------------------------------------
(* The fleet implements the promise of OnPolicy.  Two facts the inductive      *)
(* invariant does not need, the mapping does: a rollout is generated in a      *)
(* round of its own, and the fleet of a restarted manager is at the checkpoint.*)

RoundBegun   == dpc = "generate" => round > 0
AtCheckpoint == ~configured => \A e \in Live : version[slot[<<e, 0>>]] = 0
MappingInv   == UpdateInv /\ RoundBegun /\ AtCheckpoint

\* The slots of a fleet that has just been built, and their versions.
LEMMA RestartedFleet ==
  ManagerRestart => \A e \in Live' : version'[slot'[<<e, 0>>]] = 0
  <1> SUFFICES ASSUME ManagerRestart, NEW e \in Live'
               PROVE  version'[slot'[<<e, 0>>]] = 0
    OBVIOUS
  <1> DEFINE absent == {h \in Handle : proc[h] = "absent"}
             f      == CHOOSE g \in Fleets(absent) : TRUE
             up     == {f[i] : i \in Slot}
  <1>1. f \in [Slot -> absent]
    BY FleetChoice DEF ManagerRestart
  <1>2. <<e, 0>> \in Slot
    BY Node0InSlot DEF Live
  <1>3. /\ slot' = f
        /\ version' = [h \in Handle |-> IF h \in up THEN 0 ELSE version[h]]
    BY DEF ManagerRestart
  <1>4. f[<<e, 0>>] \in Handle /\ f[<<e, 0>>] \in up
    BY <1>1, <1>2
  <1> HIDE DEF f, up
  <1> QED
    BY <1>3, <1>4

LEMMA MappingStep == MappingInv /\ [Next]_vars => RoundBegun' /\ AtCheckpoint'
  <1> SUFFICES ASSUME MappingInv, [Next]_vars PROVE RoundBegun' /\ AtCheckpoint'
    OBVIOUS
  <1> USE DEF MappingInv, RoundBegun, AtCheckpoint
  <1>1. CASE StartGenerate
    BY <1>1 DEF StartGenerate, Live, fleet, UpdateInv, TypeOK, DriverTypeOK
  <1>2. CASE ManagerRestart
    BY <1>2, RestartedFleet DEF ManagerRestart
  <1>3. CASE ~ManagerRestart /\ ~StartGenerate
    <2>1. UNCHANGED <<round, configured>> /\ (dpc' = "generate" => dpc = "generate")
      BY <1>3 DEF Next, Driver, Monitor, Over, vars, driver, loop, MonitorOnly, Crash,
         HealthFailed, KillDone, Offload, OnloadWeights, OnloadKv, Round, RequestOk,
         RequestFailed, RoundDone, InRound, Move, Abort, BeginUpdate, StartEngine,
         EnginesStarted, ResyncNewEngines, Snapshot, Connect, ClearNumNewEngines,
         PushWeights, StartEval, EndEval, EndGenerate, Train, Dispose, Wake, FirstWait,
         FirstWaitOver, RunHealthChecks, ScanNext, HealthOk, KillRead, Interval
    <2>2. RoundBegun'
      BY <2>1
    <2>3. AtCheckpoint'
      <3> SUFFICES ASSUME ~configured PROVE AtCheckpoint'
        BY <2>1
      <3>1. dpc \in {"generate", "eval", "evaluated", "done", "failed"}
        BY DEF UpdateInv, ConfigLost
      <3>2. UNCHANGED version /\ \A i \in Slot : slot'[i] \in {None, slot[i]}
        <4>0. slot \in [Slot -> Handle \cup {None}]
          BY DEF UpdateInv, TypeOK, FleetTypeOK
        <4>1. CASE UNCHANGED <<slot, version>>
          BY <4>1
        <4>2. CASE KillDone
          BY <4>0, <4>2 DEF KillDone
        <4> QED
          BY <1>3, <3>1, <4>1, <4>2 DEF Next, Driver, Monitor, Over, vars, fleet, MonitorOnly,
             Crash, HealthFailed, Offload, OnloadWeights, OnloadKv, Round, RequestOk,
             RequestFailed, RoundDone, InRound, Move, Abort, BeginUpdate, StartEngine,
             EnginesStarted, ResyncNewEngines, Snapshot, Connect, ClearNumNewEngines,
             PushWeights, StartEval, EndEval, EndGenerate, Train, Dispose, Wake, FirstWait,
             FirstWaitOver, RunHealthChecks, ScanNext, HealthOk, KillRead, Interval
      <3> QED
        BY <3>2, Node0InSlot DEF Live
    <2> QED
      BY <2>2, <2>3
  <1> QED
    BY <1>1, <1>2, <1>3

LEMMA MappingHolds == Spec => []MappingInv
  <1>1. Init => RoundBegun /\ AtCheckpoint
    BY DEF Init, RoundBegun, AtCheckpoint
  <1>2. (RoundBegun /\ AtCheckpoint) /\ (UpdateInv /\ [Next]_vars)
          => (RoundBegun /\ AtCheckpoint)'
    BY MappingStep DEF MappingInv
  <1> QED
    BY UpdateInvariance, <1>1, <1>2, PTL DEF Spec, MappingInv

\* A step the job does not see.
LEMMA Unseen ==
  ASSUME UNCHANGED <<dpc, configured, round, uver, served>>
  PROVE  UNCHANGED <<JobPhase, uver, served>>
  BY DEF JobPhase

\* A step after which nothing more happens.
LEMMA Stops ==
  ASSUME UNCHANGED <<uver, served>>, dpc' \in {"done", "failed", "assert_failed"}
  PROVE  Promise!Stop
  BY DEF JobPhase, Promise!Stop

\* A step of the driver while the weights are stale, or current: the phase stays.
LEMMA PhaseStays ==
  ASSUME UNCHANGED <<configured, round, uver, served>>, configured,
         LET stale   == {"onload_weights", "onloading_weights", "update", "push"}
                          \cup Recovering
             current == {"onload_kv", "onloading_kv", "between", "eval", "evaluated"}
             batch   == {"offload", "offloading"}
         IN  \E phase \in {stale, current, batch} : dpc \in phase /\ dpc' \in phase
  PROVE  UNCHANGED <<JobPhase, uver, served>>
  BY DEF JobPhase, Recovering

LEMMA StepPromised == MappingInv /\ [Next]_vars => [Promise!Next]_<<JobPhase, uver, served>>
  <1> SUFFICES ASSUME MappingInv, [Next]_vars,
                      ~UNCHANGED <<JobPhase, uver, served>>
               PROVE  Promise!Next
    OBVIOUS
  <1> USE DEF MappingInv, UpdateInv, loop, link, driver
  <1>c. configured \/ dpc \in {"generate", "eval", "evaluated", "done", "failed"}
    BY DEF ConfigLost
  <1>1. CASE Offload \/ OnloadWeights \/ OnloadKv
    BY <1>1, <1>c, PhaseStays DEF Offload, OnloadWeights, OnloadKv, Round
  <1>2. CASE RoundDone
    <2>1. CASE dpc = "offloading" /\ round > 0
      <3>1. dpc' = "train" /\ UNCHANGED <<configured, round, uver, served>>
        BY <1>2, <2>1 DEF RoundDone, Move
      <3> QED
        BY <2>1, <3>1 DEF JobPhase
    <2>2. CASE dpc = "offloading" /\ round = 0
      <3>1. dpc' = "onload_weights" /\ UNCHANGED <<configured, round, uver, served>>
        BY <1>2, <2>2 DEF RoundDone, Move
      <3> QED
        BY <2>2, <3>1, <1>c DEF JobPhase
    <2>3. CASE dpc = "onloading_weights"
      BY <1>2, <2>3, <1>c, PhaseStays DEF RoundDone, Move
    <2>4. CASE dpc = "onloading_kv"
      BY <1>2, <2>4, <1>c, PhaseStays DEF RoundDone, Move
    <2>5. round > 0 \/ round = 0
      BY DEF TypeOK, DriverTypeOK
    <2> QED
      BY <1>2, <2>1, <2>2, <2>3, <2>4, <2>5 DEF RoundDone, InRound
  <1>3. CASE BeginUpdate
    BY <1>3, <1>c, PhaseStays DEF BeginUpdate, Recovering
  <1>4. CASE EnginesStarted
    <2>1. CASE Move("resync")
      BY <1>4, <2>1, <1>c, PhaseStays DEF EnginesStarted, Move, Recovering
    <2>2. CASE ~Move("resync")
      BY <1>4, <2>2, Stops DEF EnginesStarted, Move, Abort, Promise!Next
    <2> QED
      BY <2>1, <2>2
  <1>5. CASE ResyncNewEngines
    <2>1. CASE dpc' = "snapshot"
      BY <1>5, <2>1, <1>c, PhaseStays DEF ResyncNewEngines, Move, Abort, Recovering
    <2>2. CASE dpc' # "snapshot"
      BY <1>5, <2>2, Stops DEF ResyncNewEngines, Move, Abort, Promise!Next
    <2> QED
      BY <2>1, <2>2
  <1>6. CASE Snapshot
    BY <1>6, <1>c, PhaseStays DEF Snapshot, Recovering
  <1>7. CASE Connect
    <2>1. CASE dpc' = "clear"
      BY <1>7, <2>1, <1>c, PhaseStays DEF Connect, Move, Abort, Recovering
    <2>2. CASE dpc' # "clear"
      BY <1>7, <2>2, Stops DEF Connect, Move, Abort, Promise!Next
    <2> QED
      BY <2>1, <2>2
  <1>8. CASE ClearNumNewEngines
    BY <1>8, <1>c, PhaseStays DEF ClearNumNewEngines, Recovering
  <1>9. CASE PushWeights
    <2>1. CASE Abort
      BY <2>1, Stops DEF Abort, Move, Promise!Next
    <2>2. CASE ~Abort
      <3>1. /\ dpc = "push" /\ dpc' \in {"onload_kv", "between"} /\ configured
            /\ uver' = uver + 1 /\ UNCHANGED <<configured, round, served>>
        BY <1>9, <2>2, <1>c DEF PushWeights
      <3>2. JobPhase = "stale" /\ JobPhase' = "current"
        BY <3>1 DEF JobPhase
      <3> QED
        BY <3>1, <3>2 DEF Promise!Next, Promise!Publish
    <2> QED
      BY <2>1, <2>2
  <1>10. CASE StartEval
    <2>1. dpc = "between" /\ dpc' = "eval" /\ UNCHANGED <<configured, round, uver, served>>
      BY <1>10 DEF StartEval, Move
    <2> QED
      BY <2>1, <1>c, PhaseStays
  <1>11. CASE EndEval
    <2>1. CASE Abort
      BY <2>1, Stops DEF Abort, Move, Promise!Next
    <2>2. CASE ~Abort
      <3>1. /\ dpc = "eval" /\ dpc' = "evaluated"
            /\ UNCHANGED <<configured, round, uver, served>>
        BY <1>11, <2>2 DEF EndEval, Move
      <3> QED
        BY <3>1 DEF JobPhase
    <2> QED
      BY <2>1, <2>2
  <1>12. CASE StartGenerate
    <2>1. /\ dpc \in {"between", "evaluated"} /\ dpc' = "generate" /\ served' = VersionsUp
          /\ round < NumRollout /\ round' = round + 1 /\ UNCHANGED <<configured, uver>>
      BY <1>12 DEF StartGenerate
    <2>2. CASE configured
      <3>1. JobPhase = "current" /\ JobPhase' = "rollout"
        BY <2>1, <2>2 DEF JobPhase
      <3>2. uver <= NumRollout
        BY <2>1, FleetAssumption DEF UpdateNumber, AfterPush, TypeOK, DriverTypeOK
      <3>3. VersionsUp \subseteq {uver}
        BY <2>1, <2>2, ZenonT(30) DEF VersionsUp, Current, AfterPush
      <3>4. served' \in {{}, {uver}}
        BY <2>1, <3>3
      <3> QED
        BY <2>1, <3>1, <3>2, <3>4 DEF Promise!Next, Promise!Rollout
    <2>3. CASE ~configured
      <3>1. JobPhase = "lost" /\ JobPhase' = "lost"
        BY <2>1, <2>3 DEF JobPhase
      <3>2. VersionsUp \subseteq {0}
        BY <2>3 DEF VersionsUp, AtCheckpoint
      <3>3. served' \in {{}, {0}}
        BY <2>1, <3>2
      <3> QED
        BY <2>1, <3>1, <3>3 DEF Promise!Next, Promise!Lose
    <2> QED
      BY <2>2, <2>3
  <1>13. CASE EndGenerate
    <2>1. CASE Abort
      BY <2>1, Stops DEF Abort, Move, Promise!Next
    <2>2. CASE ~Abort
      <3>1. /\ dpc = "generate" /\ dpc' \in {"offload", "train"} /\ configured
            /\ UNCHANGED <<configured, round, uver, served>>
        BY <1>13, <2>2 DEF EndGenerate, Move
      <3>2. JobPhase = "rollout" /\ JobPhase' = "batch"
        BY <3>1 DEF JobPhase, RoundBegun
      <3> QED
        BY <3>1, <3>2 DEF Promise!Next, Promise!HandOver
    <2> QED
      BY <2>1, <2>2
  <1>14. CASE Train
    <2>1. /\ dpc = "train" /\ dpc' \in {"onload_weights", "update"}
          /\ UNCHANGED <<configured, round, uver, served>>
      BY <1>14 DEF Train, Move
    <2>2. JobPhase' = "stale" /\ JobPhase \in {"batch", "stale"}
      BY <2>1, <1>c DEF JobPhase
    <2> QED
      BY <2>1, <2>2 DEF Promise!Next, Promise!TrainStep
  <1>15. CASE Dispose
    BY <1>15, Stops DEF Dispose, Move, Promise!Next
  <1>16. CASE ManagerRestart
    <2>1. /\ dpc \in {"generate", "eval"} /\ dpc' = dpc /\ ~configured'
          /\ served' \in {served, {0}} /\ UNCHANGED uver
      BY <1>16 DEF ManagerRestart, Serving
    <2>2. JobPhase \in {"current", "rollout", "lost"} /\ JobPhase' = "lost"
      BY <2>1 DEF JobPhase
    <2> QED
      BY <2>1, <2>2 DEF Promise!Next, Promise!Lose
  <1>17. CASE RequestOk \/ RequestFailed \/ StartEngine
    BY <1>17, Unseen DEF RequestOk, RequestFailed, StartEngine
  <1>18. CASE Monitor \/ Crash \/ Over \/ UNCHANGED vars
    BY <1>18, Unseen DEF Monitor, Crash, Over, vars, MonitorOnly, Wake, FirstWait,
       FirstWaitOver, RunHealthChecks, ScanNext, HealthOk, HealthFailed, KillRead,
       KillDone, Interval
  <1> QED
    BY <1>1, <1>2, <1>3, <1>4, <1>5, <1>6, <1>7, <1>8, <1>9, <1>10, <1>11, <1>12, <1>13,
       <1>14, <1>15, <1>16, <1>17, <1>18
    DEF Next, Driver

\* The whole fleet, with its crashes, recoveries, health checks and restarts,
\* implements the job's promise about weights: published once per training
\* step, rollouts by the newest, no training on what older weights generated.
THEOREM FleetImplementsPromise == Spec => OnPolicyJob
  <1>1. Init => Promise!Init
    BY DEF Init, Promise!Init, JobPhase
  <1>2. MappingInv /\ [Next]_vars => [Promise!Next]_(Promise!vars)
    BY StepPromised DEF Promise!vars
  <1> QED
    BY MappingHolds, <1>1, <1>2, PTL DEF Spec, OnPolicyJob, Promise!Spec

-----------------------------------------------------------------------------
(* Who holds the GPUs.  The invariant follows a round of requests engine by    *)
(* engine, and a recovery slot by slot: the assertion of recover is what lets  *)
(* the new engines be given back their memory through the recorded slots.      *)

\* Slots and the count of new engines name engines that were started.
Started == /\ \A i \in Slot : slot[i] # None => proc[slot[i]] # "absent"
           /\ \A h \in newEngines : proc[h] # "absent"

\* The rounds of requests are for engines that share the trainer's GPUs.
OffloadOnly == dpc \in {"offload", "offloading", "onload_weights", "onloading_weights",
                        "onload_kv", "onloading_kv"} => OffloadRollout

\* What an engine that is still in its slot has on the GPU, by where the driver
\* is and, in a round, by whether the engine has answered.
OnGpu(h, answered) ==
  /\ ~OffloadRollout \/ dpc \in {"between", "eval", "evaluated", "generate"} => mem[h] = Tags
  /\ dpc = "offloading" /\ answered => mem[h] = {}
  /\ OffloadRollout /\ dpc \in {"train", "onload_weights"} => mem[h] = {}
  /\ dpc = "onloading_weights" => mem[h] = {"weights"} \/ (~answered /\ mem[h] = {})
  /\ OffloadRollout /\ dpc \in {"update", "snapshot", "connect", "clear", "push", "onload_kv"}
       => mem[h] = {"weights"}
  /\ OffloadRollout /\ dpc \in {"start", "resync"} /\ h \notin newEngines => mem[h] = {"weights"}
  /\ dpc = "onloading_kv" => mem[h] = Tags \/ (~answered /\ mem[h] = {"weights"})

Residency == \A e \in Live : OnGpu(slot[<<e, 0>>], <<e, slot[<<e, 0>>]>> \notin pend)

\* The slots recover counts or fills: as many as it started engines, at most.
Recovered == (dead \ todo) \cup {i \in Slot : slot[i] \in newEngines}

\* A recovery that passes the assertion of recover has put every new engine
\* into a slot it had recorded dead.
RecoveryCounts ==
  /\ dpc = "start" => /\ IsFiniteSet(newEngines)
                      /\ \A i \in dead \cap todo : slot[i] = None
                      /\ Cardinality(Recovered) <= Cardinality(newEngines)
  /\ dpc = "resync" => \A i \in Slot : slot[i] \in newEngines => i \in dead

HandoverInv == TypeOK /\ Started /\ OffloadOnly /\ Residency /\ RecoveryCounts

\* Fresh is an engine that was never started.
LEMMA FreshAbsent ==
  (\E h \in Handle : proc[h] = "absent") => Fresh \in Handle /\ proc[Fresh] = "absent"
  BY DEF Fresh

\* The fleet a restarted manager builds: what it counts, runs and has loaded.
LEMMA RebuiltFleet ==
  ASSUME ManagerRestart
  PROVE  /\ \A i \in Slot : slot'[i] \in newEngines'
         /\ newEngines' \subseteq Handle
         /\ \A h \in newEngines' : proc'[h] = "alive" /\ mem'[h] = Tags
  <1> DEFINE absent == {h \in Handle : proc[h] = "absent"}
             f      == CHOOSE g \in Fleets(absent) : TRUE
             up     == {f[i] : i \in Slot}
  <1>1. f \in [Slot -> absent]
    BY FleetChoice DEF ManagerRestart
  <1>2. /\ slot' = f /\ newEngines' = up
        /\ proc' = [h \in Handle |-> IF h \in up THEN "alive"
                                     ELSE IF proc[h] = "absent" THEN "absent" ELSE "killed"]
        /\ mem' = [h \in Handle |-> IF h \in up THEN Tags ELSE mem[h]]
    BY DEF ManagerRestart
  <1>3. up \subseteq Handle /\ \A i \in Slot : f[i] \in up
    BY <1>1
  <1> HIDE DEF f, up
  <1> QED
    BY <1>2, <1>3

LEMMA StartedStep == TypeOK /\ Started /\ [Next]_vars => Started'
  <1> SUFFICES ASSUME TypeOK, Started, [Next]_vars PROVE Started'
    OBVIOUS
  <1> USE DEF Started, TypeOK, FleetTypeOK, fleet
  <1>t. None \notin Handle
    BY FleetAssumption
  <1>0. CASE UNCHANGED <<slot, newEngines, proc>>
    BY <1>0
  <1>1. CASE Crash
    BY <1>1, <1>t DEF Crash
  <1>2. CASE RequestFailed
    BY <1>2, <1>t DEF RequestFailed, MarkEngineDead
  <1>3. CASE BeginUpdate
    BY <1>3 DEF BeginUpdate
  <1>4. CASE StartEngine
    <2>1. CASE UNCHANGED fleet
      BY <2>1
    <2>2. CASE ~UNCHANGED fleet
      <3>1. PICK i \in Slot : /\ Boot(Fresh)
                              /\ slot' = [slot EXCEPT ![i] = Fresh]
                              /\ newEngines' = newEngines \cup {Fresh}
                              /\ \E h \in Handle : proc[h] = "absent"
        BY <1>4, <2>2 DEF StartEngine, DriverTypeOK
      <3> QED
        BY <3>1, <1>t, FreshAbsent DEF Boot
    <2> QED
      BY <2>1, <2>2
  <1>5. CASE ClearNumNewEngines
    BY <1>5 DEF ClearNumNewEngines
  <1>6. CASE ManagerRestart
    BY <1>6, RebuiltFleet
  <1>7. CASE KillDone
    BY <1>7, <1>t DEF KillDone
  <1> QED
    BY <1>0, <1>1, <1>2, <1>3, <1>4, <1>5, <1>6, <1>7
    DEF Next, Driver, Monitor, Over, vars, driver, MonitorOnly, Move, Abort, HealthFailed,
        Offload, OnloadWeights, OnloadKv, Round, RequestOk, RoundDone, EnginesStarted,
        ResyncNewEngines, Snapshot, Connect, PushWeights, StartEval, EndEval,
        StartGenerate, EndGenerate, Train, Dispose, Wake, FirstWait, FirstWaitOver,
        RunHealthChecks, ScanNext, HealthOk, KillRead, Interval

\* The driver enters an offloading round only from a configuration that shares
\* the GPUs.
LEMMA OffloadOnlyStep == TypeOK /\ OffloadOnly /\ [Next]_vars => OffloadOnly'
  <1> SUFFICES ASSUME TypeOK, OffloadOnly, [Next]_vars PROVE OffloadOnly'
    OBVIOUS
  <1> USE DEF OffloadOnly, driver
  <1>0. CASE UNCHANGED dpc
    BY <1>0
  <1>1. CASE Offload \/ OnloadWeights \/ OnloadKv
    BY <1>1 DEF Offload, OnloadWeights, OnloadKv, Round
  <1>2. CASE RoundDone
    BY <1>2 DEF RoundDone, InRound
  <1>3. CASE BeginUpdate \/ Snapshot \/ ClearNumNewEngines \/ StartGenerate
    BY <1>3 DEF BeginUpdate, Snapshot, ClearNumNewEngines, StartGenerate
  <1>4. CASE EnginesStarted \/ ResyncNewEngines \/ Connect \/ PushWeights
    BY <1>4 DEF EnginesStarted, ResyncNewEngines, Connect, PushWeights, Move, Abort
  <1>5. CASE StartEval \/ EndEval \/ EndGenerate \/ Train \/ Dispose
    BY <1>5 DEF StartEval, EndEval, EndGenerate, Train, Dispose, Move, Abort
  <1> QED
    BY <1>0, <1>1, <1>2, <1>3, <1>4, <1>5
    DEF Next, Driver, Monitor, Over, vars, MonitorOnly, Crash, HealthFailed, KillDone,
        RequestOk, RequestFailed, StartEngine, ManagerRestart, Wake, FirstWait,
        FirstWaitOver, RunHealthChecks, ScanNext, HealthOk, KillRead, Interval

\* Engines leave, nothing else about the fleet changes, and nobody who stays
\* answers.
LEMMA LeaveOnly ==
  ASSUME Residency, UNCHANGED <<mem, dpc, newEngines>>,
         \A i \in Slot : slot'[i] \in {None, slot[i]},
         \A e \in Live' : <<e, slot[<<e, 0>>]>> \in pend => <<e, slot[<<e, 0>>]>> \in pend'
  PROVE  Residency'
  <1> SUFFICES ASSUME NEW e \in Live'
               PROVE  OnGpu(slot[<<e, 0>>], <<e, slot[<<e, 0>>]>> \notin pend)'
    BY DEF Residency
  <1>1. e \in Live /\ slot'[<<e, 0>>] = slot[<<e, 0>>]
    BY Node0InSlot DEF Live
  <1>2. OnGpu(slot[<<e, 0>>], <<e, slot[<<e, 0>>]>> \notin pend)
    BY <1>1 DEF Residency
  <1> QED
    BY <1>1, <1>2 DEF OnGpu

LEMMA ResidencyStep == HandoverInv /\ [Next]_vars => Residency'
  <1> SUFFICES ASSUME HandoverInv, [Next]_vars PROVE Residency'
    OBVIOUS
  <1> USE DEF HandoverInv
  <1>t. slot \in [Slot -> Handle \cup {None}] /\ mem \in [Handle -> SUBSET Tags]
    BY DEF TypeOK, FleetTypeOK
  <1>l. \A e \in Live : /\ slot[<<e, 0>>] \in Handle
                        /\ OnGpu(slot[<<e, 0>>], <<e, slot[<<e, 0>>]>> \notin pend)
    BY LiveSlot DEF Residency, TypeOK
  <1>m. ASSUME UNCHANGED slot,
               \A e \in Live : OnGpu(slot[<<e, 0>>], <<e, slot[<<e, 0>>]>> \notin pend)'
        PROVE  Residency'
    BY <1>m DEF Residency, Live
  <1>0. CASE UNCHANGED <<slot, mem, dpc, newEngines, pend>>
    BY <1>0, <1>t, LeaveOnly
  <1>1. CASE RequestFailed
    <2>1. PICK p \in pend : MarkEngineDead(p[1]) /\ pend' = pend \ {p}
      BY <1>1 DEF RequestFailed
    <2>2. \A i \in Slot : slot'[i] = IF i[1] = p[1] THEN None ELSE slot[i]
      BY <2>1 DEF MarkEngineDead
    <2>3. \A e \in Live' : e # p[1]
      BY <2>2, Node0InSlot DEF Live
    <2>4. \A e \in Live' : <<e, slot[<<e, 0>>]>> \in pend => <<e, slot[<<e, 0>>]>> \in pend'
      BY <2>1, <2>3
    <2> QED
      BY <1>1, <2>2, <2>4, LeaveOnly DEF RequestFailed
  <1>2. CASE KillDone
    BY <1>2, <1>t, LeaveOnly DEF KillDone, driver, work
  <1>3. CASE Offload \/ OnloadWeights \/ OnloadKv
    <2>1. UNCHANGED <<slot, mem, newEngines>>
      BY <1>3 DEF Offload, OnloadWeights, OnloadKv, Round, fleet
    <2>2. pend' = {<<e, slot[<<e, 0>>]>> : e \in Live}
      BY <1>3 DEF Offload, OnloadWeights, OnloadKv, Round
    <2>3. \A e \in Live : <<e, slot[<<e, 0>>]>> \in pend'
      BY <2>2
    <2>4. \/ dpc = "offload" /\ dpc' = "offloading"
          \/ dpc = "onload_weights" /\ dpc' = "onloading_weights"
          \/ dpc = "onload_kv" /\ dpc' = "onloading_kv"
      BY <1>3 DEF Offload, OnloadWeights, OnloadKv, Round
    <2>5. OffloadRollout
      BY <2>4 DEF OffloadOnly
    <2> QED
      BY <1>m, <1>l, <2>1, <2>3, <2>4, <2>5 DEF OnGpu
  <1>4. CASE RequestOk
    <2>1. PICK p \in pend : /\ mem' = [mem EXCEPT ![p[2]] = Resident(p[2])]
                            /\ pend' = pend \ {p}
      BY <1>4 DEF RequestOk
    <2>2. UNCHANGED <<slot, dpc, newEngines>> /\ InRound /\ OffloadRollout
      BY <1>4 DEF RequestOk, InRound, OffloadOnly
    <2>3. SUFFICES ASSUME NEW e \in Live
                   PROVE  OnGpu(slot[<<e, 0>>], <<e, slot[<<e, 0>>]>> \notin pend)'
      BY <1>m, <2>2
    <2> DEFINE h == slot[<<e, 0>>]
    <2>4. h \in Handle /\ OnGpu(h, <<e, h>> \notin pend)
      BY <1>l
    <2>5. CASE h = p[2]
      <3>1. mem'[h] = Resident(h)
        BY <2>1, <2>4, <2>5, <1>t
      <3>2. CASE dpc = "offloading"
        <4>1. mem'[h] = {}
          BY <3>1, <3>2 DEF Resident
        <4> QED
          BY <2>2, <3>2, <4>1 DEF OnGpu
      <3>3. CASE dpc = "onloading_weights"
        <4>1. mem'[h] = mem[h] \cup {"weights"}
          BY <3>1, <3>3 DEF Resident
        <4>2. mem[h] \in {{}, {"weights"}}
          BY <2>4, <3>3 DEF OnGpu
        <4>3. mem'[h] = {"weights"}
          BY <4>1, <4>2
        <4> QED
          BY <2>2, <3>3, <4>3 DEF OnGpu
      <3>4. CASE dpc = "onloading_kv"
        <4>1. mem'[h] = mem[h] \cup {"kv"}
          BY <3>1, <3>4 DEF Resident
        <4>2. mem[h] \in {Tags, {"weights"}}
          BY <2>4, <3>4 DEF OnGpu
        <4>3. mem'[h] = Tags
          BY <4>1, <4>2 DEF Tags
        <4> QED
          BY <2>2, <3>4, <4>3 DEF OnGpu
      <3> QED
        BY <2>2, <3>2, <3>3, <3>4 DEF InRound
    <2>6. CASE h # p[2]
      <3>1. mem'[h] = mem[h]
        BY <2>1, <2>4, <2>6, <1>t
      <3>2. <<e, h>> \in pend' <=> <<e, h>> \in pend
        BY <2>1, <2>6
      <3> QED
        BY <2>2, <2>4, <3>1, <3>2 DEF OnGpu
    <2> QED
      BY <2>5, <2>6
  <1>5. CASE RoundDone
    <2>1. /\ pend = {} /\ InRound /\ UNCHANGED <<slot, mem, newEngines, pend>>
          /\ dpc = "offloading" => dpc' \in {"onload_weights", "train"}
          /\ dpc = "onloading_weights" => dpc' = "update"
          /\ dpc = "onloading_kv" => dpc' = "between"
      <3>1. pend = {} /\ InRound /\ UNCHANGED <<slot, mem, newEngines, pend>>
        BY <1>5 DEF RoundDone, Move, fleet, work
      <3>2. dpc = "offloading" => dpc' \in {"onload_weights", "train"}
        BY <1>5 DEF RoundDone, Move
      <3>3. dpc = "onloading_weights" => dpc' = "update"
        BY <1>5 DEF RoundDone, Move
      <3>4. dpc = "onloading_kv" => dpc' = "between"
        BY <1>5 DEF RoundDone, Move
      <3> QED
        BY <3>1, <3>2, <3>3, <3>4
    <2>2. OffloadRollout
      BY <2>1 DEF OffloadOnly, InRound
    <2> QED
      BY <1>m, <1>l, <2>1, <2>2 DEF OnGpu, InRound
  <1>6. CASE BeginUpdate
    <2>1. /\ dpc = "update" /\ UNCHANGED <<slot, mem, pend>>
          /\ \/ dpc' = "snapshot" /\ UNCHANGED newEngines
             \/ dpc' = "start" /\ newEngines' = {}
      BY <1>6 DEF BeginUpdate
    <2> QED
      BY <1>m, <1>l, <2>1 DEF OnGpu
  <1>7. CASE StartEngine
    <2>1. CASE UNCHANGED fleet
      BY <1>7, <2>1, <1>t, LeaveOnly DEF StartEngine, fleet
    <2>2. CASE ~UNCHANGED fleet
      <3>1. PICK i \in Slot : /\ Boot(Fresh)
                              /\ slot' = [slot EXCEPT ![i] = Fresh]
                              /\ newEngines' = newEngines \cup {Fresh}
                              /\ \E h \in Handle : proc[h] = "absent"
        BY <1>7, <2>2 DEF StartEngine, TypeOK, DriverTypeOK
      <3>2. Fresh \in Handle /\ proc[Fresh] = "absent"
        BY <3>1, FreshAbsent
      <3>3. dpc = "start" /\ dpc' = "start"
        BY <1>7 DEF StartEngine
      <3>4. mem' = [mem EXCEPT ![Fresh] = Tags]
        BY <3>1 DEF Boot
      <3> SUFFICES ASSUME NEW e \in Live'
                   PROVE  OnGpu(slot[<<e, 0>>], <<e, slot[<<e, 0>>]>> \notin pend)'
        BY DEF Residency
      <3>5. <<e, 0>> \in Slot
        BY Node0InSlot DEF Live
      <3>6. CASE slot'[<<e, 0>>] = Fresh
        BY <3>1, <3>2, <3>3, <3>4, <3>6, <1>t DEF OnGpu
      <3>7. CASE slot'[<<e, 0>>] # Fresh
        <4>1. slot'[<<e, 0>>] = slot[<<e, 0>>] /\ e \in Live
          BY <3>1, <3>5, <3>7, <1>t DEF Live
        <4>2. mem'[slot[<<e, 0>>]] = mem[slot[<<e, 0>>]]
          BY <3>4, <3>7, <4>1, <1>l, <1>t
        <4> QED
          BY <1>l, <3>1, <3>3, <4>1, <4>2 DEF OnGpu
      <3> QED
        BY <3>6, <3>7
    <2> QED
      BY <2>1, <2>2
  <1>8. CASE EnginesStarted
    BY <1>8, <1>m, <1>l DEF EnginesStarted, Move, Abort, OnGpu, fleet, work
  <1>9. CASE ResyncNewEngines
    <2>1. CASE ~OffloadRollout
      BY <1>9, <2>1, <1>m, <1>l DEF ResyncNewEngines, Move, Abort, OnGpu, fleet, work
    <2>2. CASE OffloadRollout /\ dpc' = "snapshot"
      <3>1. /\ dpc = "resync" /\ UNCHANGED slot
            /\ mem' = [h \in Handle |-> IF \E i \in dead : slot[i] = h
                                        THEN {"weights"} ELSE mem[h]]
        BY <1>9, <2>2 DEF ResyncNewEngines, Move, Abort
      <3>2. \A e \in Live : mem'[slot[<<e, 0>>]] = {"weights"}
        <4> SUFFICES ASSUME NEW e \in Live, ~\E i \in dead : slot[i] = slot[<<e, 0>>]
                     PROVE  mem'[slot[<<e, 0>>]] = {"weights"}
          BY <3>1, <1>l
        <4>1. <<e, 0>> \in Slot /\ <<e, 0>> \notin dead
          BY Node0InSlot DEF Live
        <4>2. slot[<<e, 0>>] \notin newEngines
          BY <3>1, <4>1 DEF RecoveryCounts
        <4> QED
          BY <2>2, <3>1, <4>2, <1>l DEF OnGpu
      <3> QED
        BY <1>m, <2>2, <3>1, <3>2 DEF OnGpu
    <2>3. CASE OffloadRollout /\ dpc' = "failed"
      BY <1>9, <2>3, <1>m DEF ResyncNewEngines, Move, Abort, OnGpu, fleet
    <2> QED
      BY <1>9, <2>1, <2>2, <2>3 DEF ResyncNewEngines, Move, Abort
  <1>10. CASE Snapshot
    BY <1>10, <1>m, <1>l DEF Snapshot, OnGpu, fleet, work
  <1>11. CASE Connect
    <2>1. dpc = "connect" /\ dpc' \in {"clear", "failed"} /\ UNCHANGED <<slot, mem, newEngines>>
      BY <1>11 DEF Connect, Move, Abort, fleet
    <2> QED
      BY <2>1, <1>m, <1>l DEF OnGpu
  <1>12. CASE ClearNumNewEngines
    BY <1>12, <1>m, <1>l DEF ClearNumNewEngines, OnGpu
  <1>13. CASE PushWeights
    <2>1. /\ dpc = "push" /\ UNCHANGED <<slot, mem, newEngines>>
          /\ dpc' = "failed" \/ dpc' = IF OffloadRollout THEN "onload_kv" ELSE "between"
      BY <1>13 DEF PushWeights, Move, Abort, fleet
    <2> QED
      BY <2>1, <1>m, <1>l DEF OnGpu
  <1>14. CASE StartEval \/ EndEval \/ StartGenerate \/ EndGenerate \/ Train \/ Dispose
    <2>1. /\ UNCHANGED <<slot, mem, newEngines>>
          /\ \/ /\ dpc \in {"between", "eval", "evaluated"}
                /\ dpc' \in {"eval", "evaluated", "generate", "failed", "done"}
             \/ /\ dpc = "generate"
                /\ dpc' \in {"failed", IF OffloadRollout THEN "offload" ELSE "train"}
             \/ dpc = "train" /\ dpc' = IF OffloadRollout THEN "onload_weights" ELSE "update"
      BY <1>14 DEF StartEval, EndEval, StartGenerate, EndGenerate, Train, Dispose, Move,
         Abort, fleet
    <2> QED
      BY <2>1, <1>m, <1>l DEF OnGpu
  <1>15. CASE ManagerRestart
    <2>1. dpc \in {"generate", "eval"} /\ dpc' = dpc
      BY <1>15 DEF ManagerRestart, Serving
    <2>2. \A e \in Live' : mem'[slot'[<<e, 0>>]] = Tags
      BY <1>15, RebuiltFleet, Node0InSlot DEF Live
    <2> QED
      BY <2>1, <2>2 DEF Residency, OnGpu
  <1> QED
    BY <1>0, <1>1, <1>2, <1>3, <1>4, <1>5, <1>6, <1>7, <1>8, <1>9, <1>10, <1>11, <1>12,
       <1>13, <1>14, <1>15
    DEF Next, Driver, Monitor, Over, vars, driver, fleet, work, MonitorOnly, Crash,
        HealthFailed, Wake, FirstWait, FirstWaitOver, RunHealthChecks, ScanNext, HealthOk,
        KillRead, Interval

\* There are finitely many slots.
LEMMA SlotsFinite == IsFiniteSet(Slot)
  <1>1. IsFiniteSet(0 .. NumEngines - 1) /\ IsFiniteSet(0 .. NodesPerEngine - 1)
    BY FleetAssumption, FS_Interval
  <1> QED
    BY <1>1, FS_Product DEF Slot, Engine

\* Slots are only emptied: what a recovery has counted stays within the count.
LEMMA CountsShrink ==
  ASSUME TypeOK, RecoveryCounts, UNCHANGED <<newEngines, dpc, dead, todo>>,
         None \notin newEngines,
         \A i \in Slot : slot'[i] \in {None, slot[i]}
  PROVE  RecoveryCounts'
  <1>1. dpc = "start" => /\ Recovered' \subseteq Recovered
                         /\ IsFiniteSet(Recovered)
    <2>1. Recovered \subseteq Slot
      BY DEF Recovered, TypeOK, DriverTypeOK
    <2> QED
      BY <2>1, SlotsFinite, FS_Subset DEF Recovered
  <1>2. dpc = "start" => Cardinality(Recovered') <= Cardinality(newEngines)
    <2> SUFFICES ASSUME dpc = "start" PROVE Cardinality(Recovered') <= Cardinality(newEngines)
      OBVIOUS
    <2>1. Cardinality(Recovered') <= Cardinality(Recovered)
      BY <1>1, FS_Subset
    <2>2. /\ Cardinality(Recovered') \in Nat /\ Cardinality(Recovered) \in Nat
          /\ Cardinality(newEngines) \in Nat
      BY <1>1, FS_Subset, FS_CardinalityType DEF RecoveryCounts
    <2> QED
      BY <2>1, <2>2 DEF RecoveryCounts
  <1>3. \A i \in dead \cap todo : i \in Slot
    BY DEF TypeOK, DriverTypeOK
  <1> QED
    BY <1>2, <1>3 DEF RecoveryCounts

LEMMA CountsStep == HandoverInv /\ [Next]_vars => RecoveryCounts'
  <1> SUFFICES ASSUME HandoverInv, [Next]_vars PROVE RecoveryCounts'
    OBVIOUS
  <1> USE DEF HandoverInv
  <1>t. /\ slot \in [Slot -> Handle \cup {None}] /\ None \notin newEngines
        /\ newEngines \subseteq Handle /\ dead \subseteq Slot /\ todo \subseteq Slot
    BY FleetAssumption DEF TypeOK, FleetTypeOK, DriverTypeOK
  <1>0. CASE UNCHANGED <<slot, newEngines, dpc, dead, todo>>
    BY <1>0, <1>t, CountsShrink
  <1>1. CASE RequestFailed
    BY <1>1, <1>t, CountsShrink DEF RequestFailed, MarkEngineDead
  <1>2. CASE KillDone
    BY <1>2, <1>t, CountsShrink DEF KillDone, driver, work
  <1>3. CASE BeginUpdate
    <2>1. CASE dpc' = "snapshot"
      BY <2>1 DEF RecoveryCounts
    <2>2. CASE dpc' # "snapshot"
      <3>1. /\ dpc' = "start" /\ newEngines' = {} /\ todo' = Slot /\ UNCHANGED slot
            /\ dead' = {i \in Slot : slot[i] = None}
        BY <1>3, <2>2 DEF BeginUpdate
      <3>2. Recovered' = {}
        BY <3>1 DEF Recovered
      <3> QED
        BY <3>1, <3>2, FS_EmptySet DEF RecoveryCounts
    <2> QED
      BY <2>1, <2>2
  <1>4. CASE StartEngine
    <2>1. dpc = "start" /\ dpc' = "start" /\ UNCHANGED dead
      BY <1>4 DEF StartEngine
    <2>2. PICK i \in todo :
            /\ todo' = todo \ {i}
            /\ \/ slot[i] # None /\ UNCHANGED fleet
               \/ /\ slot[i] = None
                  /\ \E h \in Handle : proc[h] = "absent"
                  /\ slot' = [slot EXCEPT ![i] = Fresh]
                  /\ newEngines' = newEngines \cup {Fresh}
      BY <1>4 DEF StartEngine
    <2>3. /\ IsFiniteSet(newEngines) /\ \A j \in dead \cap todo : slot[j] = None
          /\ Cardinality(Recovered) <= Cardinality(newEngines)
      BY <2>1 DEF RecoveryCounts
    <2>4. CASE slot[i] # None
      <3>1. UNCHANGED <<slot, newEngines>> /\ i \notin dead
        BY <2>2, <2>3, <2>4 DEF fleet
      <3>2. Recovered' = Recovered
        BY <2>1, <2>2, <3>1 DEF Recovered
      <3> QED
        BY <2>1, <2>2, <2>3, <3>1, <3>2 DEF RecoveryCounts
    <2>5. CASE slot[i] = None
      <3>1. Fresh \in Handle /\ proc[Fresh] = "absent"
        BY <2>2, <2>5, FreshAbsent
      <3>2. /\ slot' = [slot EXCEPT ![i] = Fresh]
            /\ newEngines' = newEngines \cup {Fresh}
        BY <2>2, <2>5
      <3>3. Fresh \notin newEngines /\ \A j \in Slot : slot[j] # Fresh
        BY <3>1, FleetAssumption DEF Started
      <3>4. Recovered' \subseteq Recovered \cup {i}
        BY <2>1, <2>2, <3>2, <3>3, <1>t DEF Recovered
      <3>5. IsFiniteSet(Recovered)
        <4>1. Recovered \subseteq Slot
          BY <1>t DEF Recovered
        <4> QED
          BY <4>1, SlotsFinite, FS_Subset
      <3>6. /\ IsFiniteSet(Recovered \cup {i})
            /\ Cardinality(Recovered \cup {i}) <= Cardinality(Recovered) + 1
        BY <3>5, FS_AddElement, FS_CardinalityType
      <3>7. /\ Cardinality(Recovered') <= Cardinality(Recovered) + 1
            /\ Cardinality(Recovered) \in Nat
        <4>1. /\ IsFiniteSet(Recovered') /\ Cardinality(Recovered') <= Cardinality(Recovered \cup {i})
          BY <3>4, <3>6, FS_Subset
        <4>2. /\ Cardinality(Recovered') \in Nat /\ Cardinality(Recovered) \in Nat
              /\ Cardinality(Recovered \cup {i}) \in Nat
          BY <4>1, <3>5, <3>6, FS_CardinalityType
        <4> QED
          BY <3>6, <4>1, <4>2
      <3>8. /\ IsFiniteSet(newEngines') /\ Cardinality(newEngines') = Cardinality(newEngines) + 1
            /\ Cardinality(newEngines) \in Nat
        BY <2>3, <3>2, <3>3, FS_AddElement, FS_CardinalityType
      <3>9. Cardinality(Recovered') \in Nat
        BY <3>4, <3>6, FS_Subset, FS_CardinalityType
      <3>10. Cardinality(Recovered') <= Cardinality(newEngines')
        BY <2>3, <3>7, <3>8, <3>9
      <3>11. \A j \in (dead \cap todo)' : slot'[j] = None
        BY <2>1, <2>2, <2>3, <3>2, <1>t
      <3> QED
        BY <2>1, <3>8, <3>10, <3>11 DEF RecoveryCounts
    <2> QED
      BY <2>4, <2>5
  <1>5. CASE EnginesStarted
    <2>1. CASE dpc' # "resync"
      BY <1>5, <2>1 DEF EnginesStarted, Move, Abort, RecoveryCounts
    <2>2. CASE dpc' = "resync"
      <3>1. dpc = "start" /\ todo = {} /\ CountsMatch /\ UNCHANGED <<slot, newEngines, dead>>
        BY <1>5, <2>2 DEF EnginesStarted, Move, Abort, fleet, work
      <3>2. dead \subseteq Recovered /\ Recovered \subseteq Slot
        BY <3>1, <1>t DEF Recovered
      <3>3. IsFiniteSet(Recovered) /\ IsFiniteSet(dead)
        BY <3>2, SlotsFinite, FS_Subset
      <3>4. /\ Cardinality(dead) \in Nat /\ Cardinality(Recovered) \in Nat
            /\ Cardinality(dead) <= Cardinality(Recovered)
        BY <3>2, <3>3, FS_Subset, FS_CardinalityType
      <3>5. Cardinality(Recovered) = Cardinality(dead)
        BY <3>1, <3>4 DEF RecoveryCounts, CountsMatch
      <3>6. Recovered = dead
        BY <3>2, <3>3, <3>5, FS_Subset
      <3> QED
        BY <2>2, <3>1, <3>6 DEF RecoveryCounts, Recovered
    <2> QED
      BY <2>1, <2>2
  <1>6. CASE Offload \/ OnloadWeights \/ OnloadKv
    BY <1>6 DEF Offload, OnloadWeights, OnloadKv, Round, RecoveryCounts
  <1>7. CASE RoundDone
    BY <1>7 DEF RoundDone, Move, InRound, RecoveryCounts
  <1>8. CASE ResyncNewEngines \/ Connect \/ PushWeights
    <2>1. dpc' \in {"snapshot", "failed", "clear", "onload_kv", "between"}
      BY <1>8 DEF ResyncNewEngines, Connect, PushWeights, Move, Abort
    <2> QED
      BY <2>1 DEF RecoveryCounts
  <1>9. CASE Snapshot \/ ClearNumNewEngines
    BY <1>9 DEF Snapshot, ClearNumNewEngines, RecoveryCounts
  <1>10. CASE StartEval \/ EndEval \/ StartGenerate \/ EndGenerate \/ Train \/ Dispose
    BY <1>10 DEF StartEval, EndEval, StartGenerate, EndGenerate, Train, Dispose, Move, Abort,
       RecoveryCounts
  <1>11. CASE ManagerRestart
    BY <1>11 DEF ManagerRestart, Serving, RecoveryCounts
  <1> QED
    BY <1>0, <1>1, <1>2, <1>3, <1>4, <1>5, <1>6, <1>7, <1>8, <1>9, <1>10, <1>11
    DEF Next, Driver, Monitor, Over, vars, driver, fleet, work, MonitorOnly, Crash,
        HealthFailed, RequestOk, Wake, FirstWait, FirstWaitOver, RunHealthChecks,
        ScanNext, HealthOk, KillRead, Interval

LEMMA HandoverInit == Init => HandoverInv
  <1> SUFFICES ASSUME Init PROVE HandoverInv
    OBVIOUS
  <1>1. TypeOK
    BY TypeInit
  <1>2. OffloadOnly /\ RecoveryCounts
    BY DEF Init, OffloadOnly, RecoveryCounts
  <1> DEFINE up == {slot[i] : i \in Slot}
  <1>3. /\ proc = [h \in Handle |-> IF h \in up THEN "alive" ELSE "absent"]
        /\ mem = [h \in Handle |-> IF h \in up THEN Tags ELSE {}]
        /\ newEngines = up
        /\ dpc = IF OffloadRollout THEN "offload" ELSE "update"
    BY DEF Init
  <1>4. up \subseteq Handle /\ \A i \in Slot : slot[i] \in up
    BY EnoughHandles, FleetChoice DEF Init
  <1> HIDE DEF up
  <1>5. Started
    BY <1>3, <1>4 DEF Started
  <1>6. \A e \in Live : mem[slot[<<e, 0>>]] = Tags
    BY <1>3, <1>4, Node0InSlot DEF Live
  <1>7. Residency
    BY <1>3, <1>6 DEF Residency, OnGpu
  <1> QED
    BY <1>1, <1>2, <1>5, <1>7 DEF HandoverInv

\* Whatever dies, is started again or is cleared by the monitor in between: a
\* server's memory is back before it serves, is gone while the trainer trains,
\* and no KV cache lies beside the weights that are being sent.
THEOREM GpusChangeHands == Spec => []GpuHandover
  <1>1. HandoverInv /\ [Next]_vars => HandoverInv'
    BY TypeStep, StartedStep, OffloadOnlyStep, ResidencyStep, CountsStep DEF HandoverInv
  <1>2. HandoverInv => GpuHandover
    BY DEF HandoverInv, GpuHandover, Residency, OnGpu, Serving
  <1> QED
    BY HandoverInit, <1>1, <1>2, PTL DEF Spec

=============================================================================
