---------------------------- MODULE EngineFleet ----------------------------
(* The inference engines of one rollout model, and the three parties that    *)
(* touch them: the training driver (train.py) with the RolloutServer methods *)
(* it calls, the thread of the RolloutHealthMonitor, and the weight updater  *)
(* of the training actors.  The driver blocks on every remote call, so it is *)
(* one process whatever actor executes the step; the monitor thread runs     *)
(* against it with nothing but the GIL between them.                         *)
EXTENDS Naturals, FiniteSets

CONSTANTS Handle,          \* Ray actor handles, one per SGLangEngine ever created
          None,            \* the None of all_engines and of a missing handle
          NumEngines,      \* logical engines of the server group
          NodesPerEngine,  \* actors (slots of all_engines) per logical engine
          FaultTolerance,  \* --use-fault-tolerance
          OffloadRollout,  \* --offload-rollout
          NumRollout,      \* --num-rollout
          MaxFaults,       \* bound: crashes, timeouts and refused requests
          MaxRestarts      \* bound: restarts of the RolloutManager actor

ASSUME FleetAssumption ==
  /\ None \notin Handle
  /\ NumEngines \in Nat \ {0} /\ NodesPerEngine \in Nat \ {0}
  /\ FaultTolerance \in BOOLEAN /\ OffloadRollout \in BOOLEAN
  /\ NumRollout \in Nat /\ MaxFaults \in Nat /\ MaxRestarts \in Nat

Engine == 0 .. NumEngines - 1
Slot   == Engine \X (0 .. NodesPerEngine - 1)     \* the index space of all_engines
Tags   == {"weights", "kv"}                       \* what a server keeps on the GPU

\* The ways to fill every slot with an engine of S of its own.
Fleets(S) == {f \in [Slot -> S] : \A i, j \in Slot : f[i] = f[j] => i = j}

ASSUME EnoughHandles == Fleets(Handle) # {}

VARIABLES
  \* --- the server group and the engine processes
  slot,         \* all_engines: slot |-> handle or None
  newEngines,   \* the engines num_new_engines counts
  proc,         \* handle |-> absent | alive | crashed | killed
  mem,          \* handle |-> the tags resident on its GPU
  version,      \* handle |-> weight_version it serves; 0 is the checkpoint
  \* --- the driver and the weight updater
  dpc,          \* where the driver is
  round,        \* train.py: how many rollouts it has asked for
  rolloutId,    \* RolloutManager.rollout_id + 1: 0 before the first generate
  pend,         \* tolerant requests in flight: <<engine, handle>>
  dead,         \* recover: the slots recorded dead
  todo,         \* recover: the slots start_engines has still to look at
  snap,         \* get_updatable_engines_and_lock's answer
  conn,         \* the updater's rollout_engines
  uver,         \* the updater's weight_version
  configured,   \* the manager has its train_parallel_config
  served,       \* weight versions that served the rollout being generated
  \* --- the monitor thread
  mpc,          \* where the thread is
  paused, stop, needFirstWait,
  captured,     \* the list engines the scan iterates over
  at,           \* <<engine, node>> of the scan or of the kill
  victim,       \* the actor _kill_engine is shutting down
  \* --- the environment
  faults, restarts

fleet   == <<slot, newEngines, proc, mem, version>>
loop    == <<round, rolloutId, configured, served>>
work    == <<pend, dead, todo>>
link    == <<snap, conn, uver>>
driver  == <<dpc, loop, work, link>>
gate    == <<paused, stop>>
scan    == <<mpc, captured, at, victim>>
env     == <<faults, restarts>>
vars    == <<fleet, driver, gate, needFirstWait, scan, env>>

Alive(h)  == h # None /\ proc[h] = "alive"
Node0     == [e \in Engine |-> slot[<<e, 0>>]]                 \* ServerGroup.engines
SlotsOf(e) == {i \in Slot : i[1] = e}
Live      == {e \in Engine : slot[<<e, 0>>] # None}
Running   == dpc \notin {"failed", "assert_failed"}
Serving   == dpc \in {"generate", "eval"}

\* A fault the environment may add to a request that a healthy engine gets.
MayFault == faults < MaxFaults /\ faults' = faults + 1

-----------------------------------------------------------------------------
(* Engine processes.                                                         *)

\* The sglang process of an engine dies, or stops answering for good.
Crash ==
  /\ Running
  /\ MayFault
  /\ \E h \in Handle : /\ proc[h] = "alive"
                       /\ proc' = [proc EXCEPT ![h] = "crashed"]
  /\ UNCHANGED <<gate, scan, driver, slot, newEngines, mem, version, needFirstWait, restarts>>

\* A step of the driver that only moves on; one that raises: train.py does
\* not catch it and the job is over.
Move(there) == /\ dpc' = there
               /\ UNCHANGED <<fleet, loop, work, link>>
Abort == Move("failed")

\* health_monitoring_pause / health_monitoring_resume for every monitor.
KeepMonitor == UNCHANGED <<gate, needFirstWait>>
Pause  == \/ /\ FaultTolerance
             /\ paused' = TRUE
             /\ UNCHANGED <<stop, needFirstWait>>
          \/ ~FaultTolerance /\ KeepMonitor
Resume == \/ /\ FaultTolerance
             /\ needFirstWait' = TRUE /\ paused' = FALSE
             /\ UNCHANGED stop
          \/ ~FaultTolerance /\ KeepMonitor

\* Nothing happens but the driver's step.
DriverOnly == KeepMonitor /\ UNCHANGED <<scan, env>>

-----------------------------------------------------------------------------
(* Tolerant requests: offload, onload_weights and onload_kv send one request *)
(* to every node-0 engine, then take the answers in the order they come; an  *)
(* engine that fails is killed and its slots are cleared.                    *)

Round(here, waiting) ==
  /\ dpc = here
  /\ dpc' = waiting
  /\ pend' = {<<e, slot[<<e, 0>>]>> : e \in Live}
  /\ UNCHANGED <<fleet, loop, link, scan, env, dead, todo>>

Offload       == Round("offload", "offloading") /\ Pause
OnloadWeights == Round("onload_weights", "onloading_weights") /\ KeepMonitor
OnloadKv      == Round("onload_kv", "onloading_kv") /\ KeepMonitor

\* What an answered request leaves on the GPU.
Resident(h) == CASE dpc = "offloading"        -> {}
                 [] dpc = "onloading_weights" -> mem[h] \cup {"weights"}
                 [] dpc = "onloading_kv"      -> mem[h] \cup {"kv"}

InRound == dpc \in {"offloading", "onloading_weights", "onloading_kv"}

RequestOk ==
  /\ InRound
  /\ \E p \in pend : /\ proc[p[2]] = "alive"
                     /\ mem' = [mem EXCEPT ![p[2]] = Resident(p[2])]
                     /\ pend' = pend \ {p}
  /\ UNCHANGED <<loop, link, slot, newEngines, proc, version, dpc, dead, todo>>
  /\ DriverOnly

\* _mark_engine_dead: kill whatever the engine's slots hold now.
MarkEngineDead(e) ==
  /\ proc' = [h \in Handle |-> IF \E i \in SlotsOf(e) : slot[i] = h
                               THEN "killed" ELSE proc[h]]
  /\ slot' = [i \in Slot |-> IF i[1] = e THEN None ELSE slot[i]]

\* Mutant: the failed request is not taken off the list of those in flight.
RequestFailedKept ==
  /\ InRound
  /\ \E p \in pend : /\ \/ proc[p[2]] # "alive" /\ UNCHANGED faults
                        \/ proc[p[2]] = "alive" /\ MayFault
                     /\ MarkEngineDead(p[1])
  /\ UNCHANGED <<loop, link, scan, newEngines, mem, version, dpc, work, restarts>>
  /\ KeepMonitor

RequestFailed ==
  /\ InRound
  /\ \E p \in pend : /\ \/ proc[p[2]] # "alive" /\ UNCHANGED faults
                        \/ proc[p[2]] = "alive" /\ MayFault
                     /\ MarkEngineDead(p[1])
                     /\ pend' = pend \ {p}
  /\ UNCHANGED <<loop, link, scan, newEngines, mem, version, dpc, dead, todo, restarts>>
  /\ KeepMonitor

\* Mutant: the driver goes on without waiting for the answers.
RoundNotAwaited ==
  /\ InRound
  /\ Move(CASE dpc = "offloading" -> IF round = 0 THEN "onload_weights" ELSE "train"
            [] dpc = "onloading_weights" -> "update"
            [] dpc = "onloading_kv"      -> "between")
  /\ DriverOnly

RoundDone ==
  /\ InRound /\ pend = {}
  /\ Move(CASE dpc = "offloading" -> IF round = 0 THEN "onload_weights" ELSE "train"
            [] dpc = "onloading_weights" -> "update"
            [] dpc = "onloading_kv"      -> "between")
  /\ DriverOnly

-----------------------------------------------------------------------------
(* MegatronTrainRayActor.update_weights, as rank 0 runs it.                  *)

\* recover_updatable_engines pauses the monitors; before the first generate
\* it recovers nothing.  recover records the dead slots first of all.
BeginUpdate ==
  /\ dpc = "update"
  /\ Pause
  /\ \/ /\ FaultTolerance /\ rolloutId > 0
        /\ dead' = {i \in Slot : slot[i] = None}
        /\ todo' = Slot
        /\ newEngines' = {}
        /\ dpc' = "start"
     \/ /\ ~FaultTolerance \/ rolloutId = 0
        /\ dpc' = "snapshot"
        /\ UNCHANGED <<dead, todo, newEngines>>
  /\ UNCHANGED <<loop, link, scan, env, slot, proc, mem, version, pend>>

\* i comes first of S in the order of all_engines.
IsFirst(i, S) == \A j \in S : i[1] < j[1] \/ (i[1] = j[1] /\ i[2] <= j[2])
Fresh         == CHOOSE h \in Handle : proc[h] = "absent"

Boot(h) == /\ proc'    = [proc EXCEPT ![h] = "alive"]
           /\ mem'     = [mem EXCEPT ![h] = Tags]
           /\ version' = [version EXCEPT ![h] = 0]

\* Mutant: the engines started are not counted.
StartEngineUncounted ==
  /\ dpc = "start"
  /\ \E i \in todo :
       /\ IsFirst(i, todo)
       /\ todo' = todo \ {i}
       /\ \/ slot[i] # None /\ UNCHANGED fleet
          \/ /\ slot[i] = None
             /\ \E h \in Handle : proc[h] = "absent"
             /\ Boot(Fresh)
             /\ slot' = [slot EXCEPT ![i] = Fresh]
             /\ UNCHANGED newEngines
  /\ UNCHANGED <<loop, link, dpc, pend, dead>>
  /\ DriverOnly

\* start_engines looks at the slots one after the other and fills those it
\* finds empty: with the monitor at work, not always those recorded dead.
StartEngine ==
  /\ dpc = "start"
  /\ \E i \in todo :
       /\ IsFirst(i, todo)
       /\ todo' = todo \ {i}
       /\ \/ slot[i] # None /\ UNCHANGED fleet
          \/ /\ slot[i] = None
             /\ \E h \in Handle : proc[h] = "absent"   \* bound: Handle is finite
             /\ Boot(Fresh)
             /\ slot' = [slot EXCEPT ![i] = Fresh]
             /\ newEngines' = newEngines \cup {Fresh}
  /\ UNCHANGED <<loop, link, dpc, pend, dead>>
  /\ DriverOnly

CountsMatch == Cardinality(newEngines) = Cardinality(dead)

\* A new engine comes up when all its nodes are new: the address they meet at
\* is handed out with node 0, and node 0 waits for the others.
Whole(e) == \A i \in SlotsOf(e) : slot[i] \in newEngines <=> slot[<<e, 0>>] \in newEngines
Up       == (\A h \in newEngines : proc[h] = "alive") /\ \A e \in Engine : Whole(e)

\* ray.get on the init handles, then the assertion of recover.
EnginesStarted ==
  /\ dpc = "start" /\ todo = {}
  /\ \/ Up /\ CountsMatch /\ Move("resync")
     \/ Up /\ ~CountsMatch /\ Move("assert_failed")
     \/ ~Up /\ Abort
  /\ DriverOnly

\* Engines that share the trainer's GPUs give their memory back and take only
\* the weights; the list is read from the recorded slots.
ResyncNewEngines ==
  /\ dpc = "resync"
  /\ \/ ~OffloadRollout /\ Move("snapshot")
     \/ /\ OffloadRollout /\ \A i \in dead : Alive(slot[i])
        /\ mem' = [h \in Handle |-> IF \E i \in dead : slot[i] = h
                                    THEN {"weights"} ELSE mem[h]]
        /\ dpc' = "snapshot"
        /\ UNCHANGED <<loop, work, link, slot, newEngines, proc, version>>
     \/ OffloadRollout /\ (\E i \in dead : ~Alive(slot[i])) /\ Abort
  /\ DriverOnly

\* Mutant: the updater connects before its first push only.
SnapshotConnectsOnce ==
  /\ dpc = "snapshot"
  /\ snap' = Node0
  /\ dpc' = IF uver = 0 THEN "connect" ELSE "push"
  /\ UNCHANGED <<fleet, loop, work, conn, uver>>
  /\ DriverOnly

\* get_updatable_engines_and_lock, and the test of num_new_engines.
Snapshot ==
  /\ dpc = "snapshot"
  /\ snap' = Node0
  /\ dpc' = IF newEngines # {} THEN "connect" ELSE "push"
  /\ UNCHANGED <<fleet, loop, work, conn, uver>>
  /\ DriverOnly

\* connect_rollout_engines.  Engines on the trainer's GPUs are only recorded;
\* the others join an update group, which no dead one can do.
Connect ==
  /\ dpc = "connect"
  /\ \/ /\ OffloadRollout \/ \A e \in Engine : Alive(snap[e])
        /\ conn' = snap
        /\ dpc' = "clear"
        /\ UNCHANGED <<fleet, loop, work, snap, uver>>
     \/ ~OffloadRollout /\ (\E e \in Engine : ~Alive(snap[e])) /\ Abort
  /\ DriverOnly

\* Mutant: the count is left as it is.
ClearNothing ==
  /\ dpc = "clear"
  /\ Move("push")
  /\ DriverOnly

ClearNumNewEngines ==
  /\ dpc = "clear"
  /\ newEngines' = {}
  /\ dpc' = "push"
  /\ UNCHANGED <<loop, work, link, slot, proc, mem, version>>
  /\ DriverOnly

\* The updater's update_weights: pause, flush, send the buckets, continue.
\* Any engine that does not answer makes ray.get raise.
PushWeights ==
  /\ dpc = "push"
  /\ \/ /\ \A e \in Engine : Alive(conn[e])
        /\ uver' = uver + 1
        /\ version' = [h \in Handle |-> IF \E e \in Engine : conn[e] = h
                                        THEN uver + 1 ELSE version[h]]
        /\ dpc' = IF OffloadRollout THEN "onload_kv" ELSE "between"
        /\ UNCHANGED <<loop, work, slot, newEngines, proc, mem, snap, conn>>
     \/ (\E e \in Engine : ~Alive(conn[e])) /\ Abort
  /\ DriverOnly

-----------------------------------------------------------------------------
(* train.py's loop.                                                          *)

\* Versions of the engines that answer the rollout about to be generated.
VersionsUp == {version[h] : h \in {slot[<<e, 0>>] : e \in Live}}

StartEval ==
  /\ dpc = "between"
  /\ Move("eval")
  /\ Resume
  /\ UNCHANGED <<scan, env>>

\* Mutant: one rollout too many.
StartGenerateOneMore ==
  /\ dpc \in {"between", "evaluated"}
  /\ round <= NumRollout
  /\ round' = round + 1 /\ rolloutId' = round + 1
  /\ served' = VersionsUp
  /\ dpc' = "generate"
  /\ Resume
  /\ UNCHANGED <<fleet, work, link, scan, env, configured>>

StartGenerate ==
  /\ dpc \in {"between", "evaluated"}
  /\ round < NumRollout
  /\ round' = round + 1 /\ rolloutId' = round + 1
  /\ served' = VersionsUp
  /\ dpc' = "generate"
  /\ Resume
  /\ UNCHANGED <<fleet, work, link, scan, env, configured>>

SomeEngineAnswers == \E e \in Engine : Alive(slot[<<e, 0>>])

EndEval ==
  /\ dpc = "eval"
  /\ \/ SomeEngineAnswers /\ Move("evaluated")
     \/ ~SomeEngineAnswers /\ Abort
  /\ DriverOnly

\* Mutant: a manager that was restarted passes its rollout on.
EndGenerateAnyConfig ==
  /\ dpc = "generate"
  /\ \/ SomeEngineAnswers /\ Move(IF OffloadRollout THEN "offload" ELSE "train")
     \/ ~SomeEngineAnswers /\ Abort
  /\ DriverOnly

\* generate ends in _split_train_data_by_dp, which needs the parallel config.
EndGenerate ==
  /\ dpc = "generate"
  /\ \/ /\ SomeEngineAnswers /\ configured
        /\ Move(IF OffloadRollout THEN "offload" ELSE "train")
     \/ ~(SomeEngineAnswers /\ configured) /\ Abort
  /\ DriverOnly

\* Training, the periodic save and the offload of the trainer.
Train ==
  /\ dpc = "train"
  /\ Move(IF OffloadRollout THEN "onload_weights" ELSE "update")
  /\ DriverOnly

\* dispose: stop every monitor; the join is bounded by a timeout.
Dispose ==
  /\ dpc \in {"between", "evaluated"} /\ round = NumRollout
  /\ Move("done")
  /\ stop' = TRUE /\ paused' = FALSE
  /\ UNCHANGED <<scan, env, needFirstWait>>

\* The RolloutManager actor dies while it serves a rollout and Ray starts it
\* again (max_restarts = -1): __init__ builds a new fleet and new monitors,
\* and Ray retries the call it was executing (max_task_retries).
ManagerRestart ==
  /\ Serving /\ restarts < MaxRestarts
  /\ Fleets({h \in Handle : proc[h] = "absent"}) # {}      \* bound: Handle is finite
  /\ restarts' = restarts + 1
  /\ LET f  == CHOOSE g \in Fleets({h \in Handle : proc[h] = "absent"}) : TRUE
         up == {f[i] : i \in Slot}
     IN /\ slot' = f
        /\ newEngines' = up
        /\ proc' = [h \in Handle |-> IF h \in up THEN "alive"
                                     ELSE IF proc[h] = "absent" THEN "absent" ELSE "killed"]
        /\ mem' = [h \in Handle |-> IF h \in up THEN Tags ELSE mem[h]]
        /\ version' = [h \in Handle |-> IF h \in up THEN 0 ELSE version[h]]
  /\ configured' = FALSE
  /\ rolloutId' = IF dpc = "generate" THEN rolloutId ELSE 0
  /\ served' = IF dpc = "generate" THEN {0} ELSE served
  /\ \/ /\ FaultTolerance                  \* a new monitor, resumed by the retry
        /\ mpc' = "top" /\ needFirstWait' = TRUE /\ paused' = FALSE
        /\ captured' = [e \in Engine |-> None] /\ victim' = None
        /\ UNCHANGED <<stop, at>>
     \/ ~FaultTolerance /\ KeepMonitor /\ UNCHANGED scan
  /\ UNCHANGED <<work, link, dpc, round, faults>>

-----------------------------------------------------------------------------
(* The monitor thread.                                                       *)

MonitorOnly == UNCHANGED <<gate, env, driver>>
Goto(there) == mpc' = there

\* Top of the loop, and the wait while paused.
Wake ==
  /\ mpc = "top" /\ Running
  /\ stop \/ ~paused
  /\ Goto(IF stop THEN "exited" ELSE IF needFirstWait THEN "first_wait" ELSE "check")
  /\ UNCHANGED <<fleet, captured, at, victim, needFirstWait>>
  /\ MonitorOnly

\* The first wait has elapsed, or the stop event cut it short.
FirstWait ==
  /\ mpc = "first_wait" /\ Running
  /\ Goto(IF stop THEN "exited" ELSE IF paused THEN "top" ELSE "waited")
  /\ UNCHANGED <<fleet, captured, at, victim, needFirstWait>>
  /\ MonitorOnly

FirstWaitOver ==
  /\ mpc = "waited" /\ Running
  /\ needFirstWait' = FALSE
  /\ Goto("check")
  /\ UNCHANGED <<fleet, captured, at, victim>>
  /\ MonitorOnly

\* _run_health_checks copies the engines, then goes through the copy.
RunHealthChecks ==
  /\ mpc = "check" /\ Running
  /\ \/ (paused \/ stop) /\ Goto("interval") /\ UNCHANGED <<captured, at>>
     \/ /\ ~paused /\ ~stop
        /\ captured' = Node0
        /\ at' = <<0, 0>>
        /\ Goto("scan")
  /\ UNCHANGED <<fleet, victim, needFirstWait>>
  /\ MonitorOnly

\* Proceed to the next engine of the copy.
Advance ==
  /\ at' = <<at[1] + 1, 0>>
  /\ Goto("scan")

\* The next engine: leave, skip a None, or ask for its health.
ScanNext ==
  /\ mpc = "scan" /\ Running
  /\ \/ (at[1] = NumEngines \/ stop \/ paused) /\ Goto("interval") /\ UNCHANGED at
     \/ /\ at[1] # NumEngines /\ ~stop /\ ~paused
        /\ \/ captured[at[1]] = None /\ Advance
           \/ captured[at[1]] # None /\ Goto("ping") /\ UNCHANGED at
  /\ UNCHANGED <<fleet, captured, victim, needFirstWait>>
  /\ MonitorOnly

HealthOk ==
  /\ mpc = "ping" /\ Running
  /\ proc[captured[at[1]]] = "alive"
  /\ Advance
  /\ UNCHANGED <<fleet, captured, victim, needFirstWait>>
  /\ MonitorOnly

\* Timeout or error: a dead engine, or a healthy one that is too slow.
HealthFailed ==
  /\ mpc = "ping" /\ Running
  /\ \/ proc[captured[at[1]]] # "alive" /\ UNCHANGED faults
     \/ proc[captured[at[1]]] = "alive" /\ MayFault
  /\ Goto("kill")
  /\ UNCHANGED <<fleet, gate, driver, captured, at, victim, needFirstWait, restarts>>

\* _kill_engine reads the slot again and asks whatever it finds to shut down.
KillRead ==
  /\ mpc = "kill" /\ Running
  /\ victim' = slot[at]
  /\ Goto("killing")
  /\ UNCHANGED <<fleet, captured, at, needFirstWait>>
  /\ MonitorOnly

\* shutdown and ray.kill, or the exception that is only logged (the actor then
\* lives on); the slot is cleared either way.
KillDone ==
  /\ mpc = "killing" /\ Running
  /\ \/ /\ proc' = [h \in Handle |-> IF h = victim THEN "killed" ELSE proc[h]]
        /\ UNCHANGED faults
     \/ Alive(victim) /\ MayFault /\ UNCHANGED proc
  /\ slot' = [slot EXCEPT ![at] = None]
  /\ victim' = None
  /\ \/ at[2] + 1 < NodesPerEngine /\ at' = <<at[1], at[2] + 1>> /\ Goto("kill")
     \/ at[2] + 1 = NodesPerEngine /\ Advance
  /\ UNCHANGED <<gate, driver, newEngines, mem, version, captured, needFirstWait, restarts>>

\* The wait between two rounds; the stop event cuts it short.
Interval ==
  /\ mpc = "interval" /\ Running
  /\ Goto(IF stop THEN "exited" ELSE "top")
  /\ UNCHANGED <<fleet, captured, at, victim, needFirstWait>>
  /\ MonitorOnly

-----------------------------------------------------------------------------

\* start_rollout_servers has filled every slot; the monitors start paused.
Init ==
  /\ slot = CHOOSE f \in Fleets(Handle) : TRUE
  /\ LET up == {slot[i] : i \in Slot}
     IN /\ newEngines = up
        /\ proc = [h \in Handle |-> IF h \in up THEN "alive" ELSE "absent"]
        /\ mem = [h \in Handle |-> IF h \in up THEN Tags ELSE {}]
  /\ version = [h \in Handle |-> 0]
  /\ dpc = IF OffloadRollout THEN "offload" ELSE "update"
  /\ round = 0 /\ rolloutId = 0 /\ uver = 0
  /\ pend = {} /\ dead = {} /\ todo = {} /\ served = {}
  /\ snap = [e \in Engine |-> None] /\ conn = snap
  /\ configured = TRUE
  /\ mpc = IF FaultTolerance THEN "top" ELSE "exited"
  /\ paused = TRUE /\ stop = FALSE /\ needFirstWait = TRUE
  /\ captured = snap /\ at = <<0, 0>> /\ victim = None
  /\ faults = 0 /\ restarts = 0

Driver ==
  \/ Offload \/ OnloadWeights \/ OnloadKv
  \/ RequestOk \/ RequestFailed \/ RoundDone
  \/ BeginUpdate \/ StartEngine \/ EnginesStarted \/ ResyncNewEngines
  \/ Snapshot \/ Connect \/ ClearNumNewEngines \/ PushWeights
  \/ StartEval \/ EndEval \/ StartGenerate \/ EndGenerate \/ Train \/ Dispose

Monitor ==
  \/ Wake \/ FirstWait \/ FirstWaitOver \/ RunHealthChecks \/ ScanNext
  \/ HealthOk \/ HealthFailed \/ KillRead \/ KillDone \/ Interval

\* The job has ended, well or badly: nothing is left to do.
Over == /\ dpc \in {"done", "failed", "assert_failed"}
        /\ UNCHANGED vars

Next == Driver \/ Monitor \/ Crash \/ ManagerRestart \/ Over

Spec == Init /\ [][Next]_vars

\* Every remote call is answered (requests and health checks have timeouts,
\* shutdown talks to a local router) and the thread scheduler is fair.
FairSpec == Spec /\ WF_vars(Driver) /\ WF_vars(Monitor)

-----------------------------------------------------------------------------
(* Properties.                                                               *)

FleetTypeOK ==
  /\ slot \in [Slot -> Handle \cup {None}] /\ newEngines \subseteq Handle
  /\ proc \in [Handle -> {"absent", "alive", "crashed", "killed"}]
  /\ mem \in [Handle -> SUBSET Tags] /\ version \in [Handle -> Nat]

DriverTypeOK ==
  /\ dpc \in {"offload", "offloading", "onload_weights", "onloading_weights",
              "onload_kv", "onloading_kv", "update", "start", "resync",
              "snapshot", "connect", "clear", "push", "between", "eval",
              "evaluated", "generate", "train", "done", "failed", "assert_failed"}
  /\ round \in 0 .. NumRollout /\ rolloutId \in 0 .. NumRollout
  /\ configured \in BOOLEAN /\ served \subseteq Nat
  /\ pend \subseteq Engine \X Handle /\ dead \subseteq Slot /\ todo \subseteq Slot
  /\ snap \in [Engine -> Handle \cup {None}] /\ conn \in [Engine -> Handle \cup {None}]
  /\ uver \in Nat

MonitorTypeOK ==
  /\ paused \in BOOLEAN /\ stop \in BOOLEAN /\ needFirstWait \in BOOLEAN
  /\ mpc \in {"top", "first_wait", "waited", "check", "scan", "ping", "kill",
              "killing", "interval", "exited"}
  /\ captured \in [Engine -> Handle \cup {None}]
  /\ at \in (0 .. NumEngines) \X (0 .. NodesPerEngine - 1)
  /\ victim \in Handle \cup {None}
  /\ mpc \in {"ping", "kill", "killing"} => at \in Slot
  /\ mpc = "ping" => captured[at[1]] \in Handle

\* The shape of the state: what rollout.py, health_monitor.py and the weight
\* updater keep, and where the scan of the monitor may point.
TypeOK ==
  /\ FleetTypeOK /\ DriverTypeOK /\ MonitorTypeOK
  /\ faults \in 0 .. MaxFaults /\ restarts \in 0 .. MaxRestarts

\* train.py updates the engines before the first rollout and after every
\* training step: whatever died, was recovered late or was cleared by the
\* monitor meanwhile, an engine that serves a rollout or an evaluation has the
\* weights of the last training step (the manager not having been restarted).
ServeCurrent ==
  Serving /\ restarts = 0 =>
    \A e \in Live : /\ version[slot[<<e, 0>>]] = uver
                    /\ uver = IF dpc = "generate" THEN round ELSE round + 1

\* num_new_engines is how the updater learns that it must reconnect: as long
\* as a slot holds an engine outside its update group, the count is not 0.
ReconnectOwed ==
  \A e \in Engine : slot[<<e, 0>>] \in {None, conn[e]} \/ newEngines # {}

\* With --offload-rollout the engines of the fleet leave the GPUs to the
\* trainer while it trains, and hold no KV cache while it sends the weights; an
\* engine that serves has both back, also one that was recovered in the middle
\* of the offloaded phase.
GpuHandover ==
  \A e \in Live :
    /\ Serving => mem[slot[<<e, 0>>]] = Tags
    /\ OffloadRollout /\ dpc = "train" => mem[slot[<<e, 0>>]] = {}
    /\ OffloadRollout /\ dpc = "push" => mem[slot[<<e, 0>>]] = {"weights"}

\* A rollout that reaches the trainer was generated by the current weights
\* alone, a restart of the RolloutManager in the middle of it included.
TrainedOnPolicy == dpc = "train" => served \subseteq {uver}

\* The driver is never stuck for ever in a round of requests, a recovery or
\* an update: the job completes, or it fails; and when it is done, dispose ends
\* the monitor thread, from whatever point of its loop.
JobEnds == /\ <>(dpc \in {"done", "failed", "assert_failed"})
           /\ dpc = "done" ~> mpc = "exited"

\* How the fleet looks to the job: see OnPolicy.
JobPhase ==
  CASE dpc \in {"done", "failed", "assert_failed"}                     -> "stopped"
    [] dpc \notin {"done", "failed", "assert_failed"} /\ ~configured   -> "lost"
    [] configured /\ dpc \in {"onload_kv", "onloading_kv", "between", "eval", "evaluated"} -> "current"
    [] configured /\ dpc = "generate"                                 -> "rollout"
    [] configured /\ round > 0 /\ dpc \in {"offload", "offloading", "train"} -> "batch"
    [] OTHER                                                          -> "stale"

Promise == INSTANCE OnPolicy WITH phase <- JobPhase, published <- uver, seen <- served

\* The fleet with its faults, recoveries and monitor implements the job's
\* promise: one update of the weights per training step (train.py), rollouts
\* by the newest weights, none trained after a restart of the manager.
OnPolicyJob == Promise!Spec

-----------------------------------------------------------------------------
(* What the repository says and the code does not do.                        *)

\* rollout.py, recover: "num_new_engines does not match dead_indices length".
RecoverCountsMatch == dpc # "assert_failed"

-----------------------------------------------------------------------------
(* The inductive invariant behind ServeCurrent, ReconnectOwed and            *)
(* TrainedOnPolicy: see EngineFleetProofs.                                   *)

Recovering == {"start", "resync", "snapshot", "connect", "clear"}
BeforePush == Recovering \cup
              {"generate", "offload", "offloading", "train", "onload_weights",
               "onloading_weights", "update", "push"}
AfterPush  == {"onload_kv", "onloading_kv", "between", "eval", "evaluated", "done"}

\* One update per rollout, plus the one before the first rollout.
UpdateNumber == /\ dpc \in BeforePush => uver = round
                /\ dpc \in AfterPush => uver = round + 1
                /\ configured => rolloutId = round

\* A restarted manager has no train_parallel_config: the job ends before the
\* next update.
ConfigLost == /\ configured <=> restarts = 0
              /\ configured \/ dpc \in {"generate", "eval", "evaluated", "done", "failed"}

\* Engines are counted as new only while a recovery or the first update is
\* under way, or in the fleet of a restarted manager.
NewCounted ==
  /\ newEngines # {} => \/ dpc \in Recovering \cup {"failed", "assert_failed"}
                        \/ round = 0 /\ dpc \in BeforePush \ {"generate", "push"}
                        \/ ~configured
  /\ dpc \in {"connect", "clear"} => newEngines # {}

\* What the updater joins is what the slots hold, or held until the monitor
\* cleared them.
JoinsFleet ==
  \A e \in Engine : /\ dpc = "connect" => slot[<<e, 0>>] \in {None, snap[e]}
                    /\ dpc = "clear" => slot[<<e, 0>>] \in {None, conn[e]}

\* The push reaches every live engine, and what serves is what it reached.
Current == configured =>
             /\ dpc \in AfterPush \cup {"generate"} =>
                  \A e \in Live : version[slot[<<e, 0>>]] = uver
             /\ dpc \in {"generate", "offload", "offloading", "train"} => served \subseteq {uver}

UpdateInv == /\ TypeOK
             /\ UpdateNumber /\ ConfigLost /\ NewCounted
             /\ JoinsFleet /\ ReconnectOwed /\ Current
=============================================================================
