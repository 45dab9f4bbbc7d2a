------------------------------- MODULE Placement -------------------------------
(***************************************************************************)
(* Where things run.  The options are validated (arguments.py), Ray hands  *)
(* out GPUs (placement_group.py), training ranks and groups of inference   *)
(* engines take slots of them, every engine gets ports on its node         *)
(* (rollout.py), and engines that died are started again.                  *)
(*                                                                         *)
(* Slots, ranks and nodes count from 0, as in the code; a GPU is a node    *)
(* and a number.  The engines of a model start side by side and bind their *)
(* ports some time after these were probed.                                *)
(***************************************************************************)
EXTENDS Integers, FiniteSets, SequencesExt, FiniteSetsExt

CONSTANTS
  Options,     \* command lines, before validation
  NodeCount,   \* nodes of the cluster
  NodeSize,    \* GPUs of a node, and --num-gpus-per-node
  Foreign,     \* Foreign[n]: ports other processes hold on node n
  FirstPort,   \* 15000
  Reserve,     \* ports in a row for dist_init_addr: 30 + --sglang-dp-size
  MaxDeaths    \* bound: logical engines that die
Types == {"regular", "prefill", "decode", "encoder", "placeholder"}
ASSUME PlacementAssumption ==
  /\ {NodeCount, NodeSize, Reserve} \subseteq Nat \ {0} /\ {FirstPort, MaxDeaths} \subseteq Nat
  /\ Foreign \in [0 .. NodeCount - 1 -> SUBSET Nat]
  /\ \A o \in Options :
       /\ {o.colocate, o.offload, o.critic, o.criticOnly} \subseteq BOOLEAN
       /\ o.debug \in {"no", "train", "rollout"} /\ o.config \in {"default", "prefill", "yaml"}
       /\ {o.actor, o.criticGpus, o.rollout, o.perEngine, o.prefills} \subseteq Nat
       /\ \A m \in Range(o.models) : m.updates \in BOOLEAN /\ m.per \in Nat
            /\ \A c \in Range(m.groups) : c.type \in Types /\ {c.gpus, c.per} \subseteq Nat

VARIABLES
  layout,      \* the validated options, the slots and what runs on them
  queue,       \* the groups still to be started, in order
  cursor,      \* the largest of port_cursors
  deaths       \* counts the engines that died
placeVars == <<layout, queue, cursor, deaths>>
NoLayout == [stage |-> "off"]

-----------------------------------------------------------------------------
(* The options.  0 stands for an option that is not given. *)
Trainers(o) == o.actor + (IF o.critic THEN o.criticGpus ELSE 0)

(* --critic-train-only wants PPO and no actor; colocation makes the engines  *)
(* share the GPUs of training, debug_rollout_only gives them all GPUs.       *)
Refused(o) == o.criticOnly /\ (~o.critic \/ o.actor # 0)
Critic(o) == IF o.criticGpus = 0 THEN [o EXCEPT !.criticGpus = o.actor] ELSE o
Debugged(o) ==
  IF o.debug # "rollout" THEN o
  ELSE LET alone == [o EXCEPT !.colocate = FALSE, !.offload = FALSE]
           per == Min({8, o.rollout}) IN
       IF o.colocate /\ o.rollout = 0 THEN [alone EXCEPT !.rollout = o.actor]
       ELSE [alone EXCEPT !.actor = (o.rollout \div per) * per]
Colocated(o) ==
  IF ~o.colocate THEN o
  ELSE [o EXCEPT !.offload = TRUE,
                 !.rollout = IF o.rollout = o.actor THEN o.actor ELSE Trainers(o)]
Validated(o) == Colocated(Debugged(Critic(o)))

(* Slots of the placement group, and the first slot of each role. *)
GpuCount(o) == CASE o.debug = "train" \/ (o.debug = "no" /\ o.colocate) -> Trainers(o)
               [] o.debug = "rollout" -> o.rollout
               [] OTHER -> Trainers(o) + o.rollout
RolloutStart(o) == IF o.debug # "no" \/ o.colocate THEN 0 ELSE Trainers(o)
CriticStart(o) == o.actor

(* The same numbers computed once more, for the decision what to offload. *)
RolloutOffset(o) == CASE o.debug # "no" \/ o.colocate -> 0
                    [] o.criticOnly -> o.criticGpus
                    [] OTHER -> Trainers(o)
MegatronGpus(o) == CASE o.debug = "rollout" -> 0
                   [] o.criticOnly -> o.criticGpus
                   [] OTHER -> Trainers(o)

-----------------------------------------------------------------------------
(* Ray numbers the bundles as it likes: bundles[b] is the GPU of bundle b.     *)
(* Sorting by node and GPU gives the slots.                                  *)
Gpu(i) == [node |-> i \div NodeSize, number |-> i % NodeSize]
Numberings(n) == {[i \in 0 .. n - 1 |-> i], [i \in 0 .. n - 1 |-> n - 1 - i],
                  [i \in 0 .. n - 1 |-> (i + n \div 2) % n]}
(* Mutant: the bundles are used as Ray numbers them. *)
Unsorted(bundles, i) == i
Sorted(bundles, i) ==
  CHOOSE b \in DOMAIN bundles : Cardinality({c \in DOMAIN bundles : bundles[c] < bundles[b]}) = i
Slots(bundles) == [i \in DOMAIN bundles |->
  LET bundle == Sorted(bundles, i) IN [bundle |-> bundle, number |-> Gpu(bundles[bundle]).number]]
NodeOf(slot) == Gpu(layout.bundles[slot.bundle]).node

-----------------------------------------------------------------------------
(* The groups of engines. *)
Configured(o) ==
  LET group(t, n) == [type |-> t, gpus |-> n, per |-> 0]
      model(gs) == [updates |-> TRUE, per |-> 0, groups |-> gs] IN
  CASE o.config = "yaml" -> o.models
    [] o.config = "prefill" -> <<model(<<group("prefill", o.prefills * o.perEngine),
                                 group("decode", o.rollout - o.prefills * o.perEngine)>>)>>
    [] OTHER -> <<model(<<group("regular", o.rollout)>>)>>
ConfigGpus(ms) ==
  LET add(a, c) == a + c.gpus IN FoldLeft(LAMBDA a, m : FoldLeft(add, a, m.groups), 0, ms)
ConfigRefused(o) == \/ o.config = "yaml" /\ ConfigGpus(o.models) # o.rollout
                    \/ o.config = "prefill" /\ o.rollout <= o.prefills * o.perEngine

OnNode(per) == Min({per, NodeSize})                 \* GPUs one actor of an engine has
NodesOf(per) == Max({1, per \div NodeSize})         \* actors of a logical engine
PerNode(per) == Max({1, NodeSize \div per})         \* actors on a node

(* The groups of a model in the order they start: encoders first, and each   *)
(* encoder is up before the next group starts.  A model waits for the last.  *)
Inherited(o, m, c) == CASE c.per # 0 -> c.per [] m.per # 0 -> m.per [] OTHER -> o.perEngine
StartOrder(m) == SelectSeq(m.groups, LAMBDA c : c.type = "encoder")
                 \o SelectSeq(m.groups, LAMBDA c : c.type # "encoder")
PlannedModel(o, ms, k) ==
  LET m == ms[k] gs == StartOrder(m) IN
  [j \in 1 .. Len(gs) |->
     [type |-> gs[j].type, gpus |-> gs[j].gpus, per |-> Inherited(o, m, gs[j]),
      model |-> k, updates |-> m.updates, fresh |-> j = 1,
      waits |-> j = 1 \/ gs[j - 1].type = "encoder"]]
EngineCount(g) == g.gpus \div OnNode(g.per)
Actors(g) == IF g.type = "placeholder" THEN {} ELSE 0 .. EngineCount(g) - 1
NoEngine == [is |-> "none"]

(* _make_group: ranks and GPUs go on where the group before stopped. *)
Planned(o) ==
  LET ms == Configured(o)
      place(done, g) == Append(done,
        LET at == IF done = << >> THEN [rank |-> 0, gpu |-> 0]
                  ELSE [rank |-> Last(done).rank + EngineCount(Last(done)),
                        gpu |-> Last(done).gpu + Last(done).gpus] IN
        g @@ at @@ [offload |-> o.offload /\ RolloutOffset(o) + at.gpu < MegatronGpus(o),
                    engines |-> [i \in Actors(g) |-> NoEngine]])
  IN FoldLeft(place, << >>, FlattenSeq([k \in 1 .. Len(ms) |-> PlannedModel(o, ms, k)]))
-----------------------------------------------------------------------------
(* start_engines: an actor for every empty place of the group.              *)
Missing(g) == {i \in DOMAIN g.engines : g.engines[i] = NoEngine}
GpuIndex(g, i) == g.gpu + i * OnNode(g.per)
SlotOf(g, i) == layout.slots[RolloutStart(layout.options) + GpuIndex(g, i)]

(* Ports.  A probe finds what nobody on the node has bound.                  *)
Engines == UNION {Range(g.engines) : g \in Range(layout.groups)} \ {NoEngine}
Ports(e) == e.own \cup (IF e.nodeRank = 0 THEN e.rendezvous.ports ELSE {})
BoundOn(n) == Foreign[n] \cup UNION {Ports(e) : e \in {e \in Engines : e.is = "up" /\ e.node = n}}
FreePort(n, start, width) ==
  CHOOSE p \in start .. start + 200 :
    /\ (p .. p + width - 1) \cap BoundOn(n) = {}
    /\ \A q \in start .. p - 1 : (q .. q + width - 1) \cap BoundOn(n) # {}

(* What is asked for on a node, from its first new actor to its last place:  *)
(* the ports of each, then the addresses where engines rendezvous.           *)
Asks(g, first) ==
  LET count == PerNode(g.per) - (first % PerNode(g.per))
      own == <<"port", "nccl">> \o (IF g.type = "prefill" THEN <<"bootstrap">> ELSE << >>)
      ask(i, what) == [actor |-> first + i - 1, what |-> what, width |-> 1]
      rendezvous(i) == [actor |-> first + i - 1, what |-> "rendezvous", width |-> Reserve]
  IN FlattenSeq([i \in 1 .. count |-> [k \in DOMAIN own |-> ask(i, own[k])]])
     \o (IF first % NodesOf(g.per) = 0 THEN [i \in 1 .. count |-> rendezvous(i)] ELSE << >>)
Given(g, first, base) ==
  LET node == NodeOf(SlotOf(g, first))
      give(got, q) == LET p == FreePort(node, got.next, q.width) IN
        [next |-> p + q.width, ports |-> Append(got.ports, q @@ [port |-> p])]
  IN FoldLeft(give, [next |-> base, ports |-> << >>], Asks(g, first))

(* One probe of a node serves all its actors of the group; a node is known   *)
(* by its place in the group.                                                *)
Prober(g, i) == Min({j \in Missing(g) : j \div PerNode(g.per) = i \div PerNode(g.per)})
Leader(g, i) == i - (i % NodesOf(g.per))
MaxCursor(g, base) == Max({Given(g, Prober(g, i), base).next : i \in Missing(g)})

Launched(g, base) ==
  LET given(i) == Given(g, Prober(g, i), base).ports
      own(i, w) == UNION
        {q.port .. q.port + q.width - 1 : q \in {q \in Range(given(i)) : q.actor = i /\ q.what \in w}}
      engine(i) ==
        [is |-> "starting", rank |-> g.rank + i, nodeRank |-> (g.rank + i) % NodesOf(g.per),
         node |-> NodeOf(SlotOf(g, i)), base |-> SlotOf(g, i).number,
         host |-> NodeOf(SlotOf(g, Prober(g, i))),
         rendezvous |-> [host |-> NodeOf(SlotOf(g, Prober(g, Leader(g, i)))),
                         ports |-> own(Leader(g, i), {"rendezvous"})],
         own |-> own(i, {"port", "nccl", "bootstrap"})]
  IN [g EXCEPT !.engines = [i \in DOMAIN g.engines |-> IF i \in Missing(g) THEN engine(i) ELSE g.engines[i]]]

-----------------------------------------------------------------------------
Starting == {e \in Engines : e.is = "starting"}
Indices == DOMAIN layout.groups
Work(k, fresh, waits) == [group |-> k, fresh |-> fresh, waits |-> waits]

Validate ==
  /\ layout.stage = "options"
  /\ layout' = IF Refused(layout.options) THEN [layout EXCEPT !.stage = "refused"]
               ELSE [stage |-> "placing", options |-> Validated(layout.options)]
  /\ UNCHANGED <<queue, cursor, deaths>>

CreatePlacementGroups ==
  /\ layout.stage = "placing"
  /\ LET o == layout.options
         planned == IF o.debug = "train" THEN << >> ELSE Planned(o) IN
     IF o.debug # "train" /\ ConfigRefused(o)
     THEN layout' = [layout EXCEPT !.stage = "refused"] /\ UNCHANGED queue
     ELSE /\ \E bundles \in Numberings(GpuCount(o)) :
               layout' = [stage |-> "placed", options |-> o, bundles |-> bundles,
                          slots |-> Slots(bundles), groups |-> planned]
          /\ queue' = [k \in DOMAIN planned |-> Work(k, planned[k].fresh, planned[k].waits)]
  /\ UNCHANGED <<cursor, deaths>>

(* Mutant: each group starts at the first port again. *)
BaseForgets(work) == FirstPort
(* The ports of the group go on where the largest cursor of the group before *)
(* stopped; the first group of a model, or of a recovery, starts afresh.     *)
Base(work) == IF work.fresh THEN FirstPort ELSE cursor
StartEngines ==
  /\ layout.stage = "placed" /\ queue # << >>
  /\ LET work == Head(queue) g == layout.groups[work.group] IN
     /\ work.waits => Starting = {}
     /\ layout' = [layout EXCEPT !.groups[work.group] = Launched(g, Base(work))]
     /\ cursor' = IF Missing(g) = {} THEN Base(work) ELSE MaxCursor(g, Base(work))
  /\ queue' = Tail(queue) /\ UNCHANGED deaths

EngineInit(k, i) ==
  /\ layout.stage = "placed" /\ i \in DOMAIN layout.groups[k].engines
  /\ layout.groups[k].engines[i] \in Starting
  /\ layout' = [layout EXCEPT !.groups[k].engines[i].is = "up"]
  /\ UNCHANGED <<queue, cursor, deaths>>

(* A logical engine is killed with all its actors. *)
MarkDead(k, i) ==
  /\ layout.stage = "placed" /\ queue = << >> /\ Starting = {} /\ deaths < MaxDeaths
  /\ LET g == layout.groups[k] IN
     /\ i \in DOMAIN g.engines \ Missing(g) /\ i = Leader(g, i)
     /\ layout' = [layout EXCEPT !.groups[k].engines =
                     [j \in DOMAIN g.engines |-> IF Leader(g, j) = i THEN NoEngine ELSE g.engines[j]]]
  /\ deaths' = deaths + 1 /\ UNCHANGED <<queue, cursor>>

(* The first model that takes updates is the one that is recovered. *)
Updatable == LET ks == {k \in Indices : layout.groups[k].updates} IN
  {k \in ks : \A j \in ks : layout.groups[k].model <= layout.groups[j].model}
RecoverUpdatable ==
  /\ layout.stage = "placed" /\ queue = << >> /\ Starting = {}
  /\ \E k \in Updatable : Missing(layout.groups[k]) # {}
  /\ queue' = LET ks == SetToSortSeq(Updatable, <) IN [j \in DOMAIN ks |-> Work(ks[j], j = 1, FALSE)]
  /\ UNCHANGED <<layout, cursor, deaths>>

PlaceInit ==
  /\ \E o \in Options : layout = [stage |-> "options", options |-> o]
  /\ queue = << >> /\ cursor = FirstPort /\ deaths = 0
PlaceNext ==
  \/ Validate \/ CreatePlacementGroups \/ StartEngines \/ RecoverUpdatable
  \/ layout.stage = "placed" /\ \E k \in Indices : \E i \in DOMAIN layout.groups[k].engines :
       EngineInit(k, i) \/ MarkDead(k, i)
PlaceSpec == PlaceInit /\ [][PlaceNext]_placeVars

-----------------------------------------------------------------------------
(* Update from memory: engine_gpu_offsets lists the engines that serve, and  *)
(* a leading part of them shares the GPUs of the training ranks.             *)
Served(k) == LET g == layout.groups[k] IN {i \in DOMAIN g.engines : i = Leader(g, i)}
UpdateOffset(k, i) == LET g == layout.groups[k] IN g.gpu + (i \div NodesOf(g.per)) * g.per
SharesGpus(k, i) == UpdateOffset(k, i) + layout.groups[k].per <= layout.options.actor
UpdateRanks(k, i) == UpdateOffset(k, i) .. UpdateOffset(k, i) + layout.groups[k].per - 1
RankGpu(slot) == Gpu(layout.bundles[layout.slots[slot].bundle])

-----------------------------------------------------------------------------
(* Groups the arithmetic is meant for: whole engines that start at a         *)
(* boundary, in a group that starts a node or stays within one.              *)
AbsStart(g) == RolloutStart(layout.options) + g.gpu
Aligned(g) ==
  /\ g.per % NodeSize = 0 \/ NodeSize % g.per = 0
  /\ g.gpus % g.per = 0 /\ AbsStart(g) % OnNode(g.per) = 0
  /\ AbsStart(g) % NodeSize = 0 \/ (AbsStart(g) % NodeSize) + g.gpus <= NodeSize
  /\ g.rank % NodesOf(g.per) = 0
AlignedGroups == {k \in Indices : Aligned(layout.groups[k])}

GpusOf(e, g) == {[node |-> e.node, number |-> e.base + j] : j \in 0 .. OnNode(g.per) - 1}
TrainingRanks(o) == (0 .. o.actor - 1)
  \cup (IF o.critic THEN CriticStart(o) .. CriticStart(o) + o.criticGpus - 1 ELSE {})
TrainingGpus == LET o == layout.options IN
  IF o.debug = "rollout" THEN {} ELSE {RankGpu(slot) : slot \in TrainingRanks(o)}
EngineIsPlaced(k, i) ==
  LET g == layout.groups[k] e == g.engines[i] IN
  /\ \A gpu \in GpusOf(e, g) : gpu.number < NodeSize
  /\ e.host = e.node /\ (e.nodeRank = 0 <=> i = Leader(g, i))
  /\ LET leader == g.engines[Leader(g, i)] IN
     leader # NoEngine /\ e.rendezvous.host = leader.node /\ e.rendezvous.ports \subseteq Ports(leader)
  /\ layout.options.offload =>
       (g.offload <=> GpusOf(e, g) \cap TrainingGpus # {})

(* An engine runs on GPUs of one node that no other engine has, is reached   *)
(* at its own node and meets its other actors at their leader's; it is told  *)
(* to release memory exactly when training shares its GPUs; the training     *)
(* ranks that hand it weights in memory are those on its GPUs.  Slots, ranks *)
(* and offsets are computed five times, in placement_group.py, rollout.py,   *)
(* sglang_engine.py, actor_group.py and update_weight_from_tensor.py.        *)
EnginesPlaced ==
  layout.stage = "placed" =>
    \A k \in AlignedGroups : LET g == layout.groups[k] IN
      \A i \in DOMAIN g.engines \ Missing(g) :
        /\ EngineIsPlaced(k, i)
        /\ \A m \in AlignedGroups : \A j \in DOMAIN layout.groups[m].engines \ Missing(layout.groups[m]) :
             <<k, i>> # <<m, j>> => GpusOf(g.engines[i], g) \cap
                                    GpusOf(layout.groups[m].engines[j], layout.groups[m]) = {}
        /\ layout.options.colocate /\ g.updates /\ i \in Served(k) /\ SharesGpus(k, i) =>
             {RankGpu(r) : r \in UpdateRanks(k, i)} =
             UNION {GpusOf(g.engines[j], g) : j \in {j \in DOMAIN g.engines : Leader(g, j) = i}}

(* Two engines of a node never hold a port together, nor one of another      *)
(* process: not while they start side by side, and not when one is started   *)
(* again next to engines that kept running (the cursors of rollout.py 1098). *)
PortsApart ==
  layout.stage = "placed" =>
    LET apart == UNION {Range(layout.groups[k].engines) : k \in AlignedGroups} \ {NoEngine} IN
    \A e \in apart :
      /\ Ports(e) \cap Foreign[e.node] = {}
      /\ \A f \in apart : e # f /\ e.node = f.node => Ports(e) \cap Ports(f) = {}

PlacementExact == EnginesPlaced /\ PortsApart
=============================================================================
