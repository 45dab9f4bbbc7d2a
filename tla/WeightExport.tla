----------------------------- MODULE WeightExport -----------------------------
(* The weight update of engines that share their GPUs with the trainer         *)
(* (update_weight_from_tensor.py, hf_weight_iterator_direct.py).  No rank has  *)
(* all parameters: a layer is on one pipeline stage, an expert on one          *)
(* expert-parallel rank, a shard on one tensor-parallel rank.  Bucket after    *)
(* bucket is broadcast along the stages, along the experts, gathered along the *)
(* shards, and handed to the engine on the same GPUs.  Each rank works out by  *)
(* itself whom it hears a parameter from; a collective takes place only when   *)
(* the members of its group agree on it.                                       *)
EXTENDS Integers, Sequences, FiniteSets, SequencesExt

CONSTANTS WorldSize,
          Kind,        \* parameter, in the order of the names -> [expert, cut, size];
                       \* cut: "whole", "shard", or "glu" for linear_fc1
          Layouts,     \* [pp, ep, tp, etp: rank -> its group, holds: rank -> parameters,
                       \*  mtp, engines: sequence of [offset, count]]
          ExportLimit, \* update_weight_buffer_size
          ExportRounds \* bound: updates

World == 0 .. WorldSize - 1

VARIABLES
  mesh,
  sources,   \* rank -> parameter -> src_rank, or << >> before the exchange
  buckets,   \* rank -> megatron_local_param_info_buckets
  task,      \* what a rank is at: "infos", "idle", "pause", "flush", "barrier", "stages",
             \* "experts", "shards", "send", "answer", "last barrier", "continue", "end barrier"
  current,   \* rank -> number of the bucket
  tensors,   \* rank -> parameter of the bucket -> its blocks
  requests,  \* engine -> the call that it has not answered, or << >>
  stopped,   \* engine -> pause_generation
  loaded,    \* engine -> its GPU -> parameter -> [blocks, version]
  exports    \* rank -> weight_version

exportVars == <<mesh, sources, buckets, task, current, tensors, requests, stopped, loaded, exports>>

ParamNames == DOMAIN Kind
Members(group) == ToSet(group)
PositionIn(group, r) == CHOOSE i \in DOMAIN group : group[i] = r

-----------------------------------------------------------------------------
(* The parameters of a rank, and what they are assembled to.                   *)

ShardGroup(n, r) == IF Kind[n].expert THEN mesh.etp[r] ELSE mesh.tp[r]

Piece(n, part, shard) == [name |-> n, part |-> part, shard |-> shard]
LocalWeight(n, r) ==
  LET shard == PositionIn(ShardGroup(n, r), r)
  IN  CASE Kind[n].cut = "whole" -> <<Piece(n, "all", 0)>>
        [] Kind[n].cut = "shard" -> <<Piece(n, "all", shard)>>
        [] Kind[n].cut = "glu" -> <<Piece(n, "gate", shard), Piece(n, "up", shard)>>

\* What the engine expects: all gates before all ups.
FullWeight(n, size) ==
  CASE Kind[n].cut = "whole" -> <<Piece(n, "all", 0)>>
    [] Kind[n].cut = "shard" -> [i \in 1 .. size |-> Piece(n, "all", i)]
    [] Kind[n].cut = "glu" -> [i \in 1 .. 2 * size |-> IF i <= size THEN Piece(n, "gate", i)
                                                       ELSE Piece(n, "up", i - size)]

\* all_gather_params_async: the halves of linear_fc1 are put together first.
AllGathered(n, group) ==
  LET shards == [i \in DOMAIN group |-> tensors[group[i]][n]]
  IN  CASE Kind[n].cut = "whole" -> Head(shards)
        [] Kind[n].cut = "shard" -> FlattenSeq(shards)
        [] Kind[n].cut = "glu" -> [i \in DOMAIN shards |-> shards[i][1]] \o [i \in DOMAIN shards |-> shards[i][2]]

-----------------------------------------------------------------------------
(* _get_megatron_local_param_infos.                                            *)

\* Mutant: a rank that has the parameter takes its own.
OwnStage(r) ==
  LET holders(n) == {q \in Members(mesh.pp[r]) : n \in mesh.holds[q]}
  IN  [n \in UNION {mesh.holds[q] : q \in Members(mesh.pp[r])} |->
         IF r \in holders(n) THEN r ELSE Min(holders(n))]
\* A parameter that two stages have (only with MTP layers) is the lower rank's.
OfStages(r) ==
  LET holders(n) == {q \in Members(mesh.pp[r]) : n \in mesh.holds[q]}
  IN  [n \in UNION {mesh.holds[q] : q \in Members(mesh.pp[r])} |-> Min(holders(n))]

\* The others come from the first expert-parallel peer that knows of them.
OfExperts(r) ==
  LET peers == mesh.ep[r]
      known == DOMAIN OfStages(r)
  IN  [n \in UNION {DOMAIN OfStages(q) : q \in Members(peers)} |->
         IF n \in known THEN OfStages(r)[n]
         ELSE peers[Min({i \in DOMAIN peers : n \in DOMAIN OfStages(peers[i])})]]

\* Every rank cuts the sorted parameters into buckets by their full sizes.
Buckets(r) ==
  LET full(n) == Kind[n].size * Len(ShardGroup(n, r))
      Add(acc, n) ==
        IF acc.bytes + full(n) > ExportLimit /\ Last(acc.list) # << >>
        THEN [list |-> Append(acc.list, <<n>>), bytes |-> full(n)]
        ELSE [list |-> Front(acc.list) \o <<Append(Last(acc.list), n)>>, bytes |-> acc.bytes + full(n)]
  IN  FoldLeft(Add, [list |-> <<<< >>>>, bytes |-> 0], SetToSortSeq(ParamNames, <)).list

\* Without MTP layers no parameter is on two stages; all ranks know the same names.
InfosAgree ==
  /\ \A r \in World : DOMAIN OfExperts(r) = ParamNames
  /\ ~mesh.mtp => \A r \in World : \A q \in Members(mesh.pp[r]) \ {r} : mesh.holds[r] \cap mesh.holds[q] = {}

Infos ==
  /\ \A r \in World : task[r] = "infos"
  /\ InfosAgree
  /\ sources' = [r \in World |-> OfExperts(r)] /\ buckets' = [r \in World |-> Buckets(r)]
  /\ task' = [r \in World |-> "idle"]
  /\ UNCHANGED <<mesh, current, tensors, requests, stopped, loaded, exports>>

-----------------------------------------------------------------------------
(* connect_rollout_engines: the engines on the trainer's GPUs come first.      *)

EngineIds == DOMAIN mesh.engines
Gpus(e) == mesh.engines[e].offset .. mesh.engines[e].offset + mesh.engines[e].count - 1
Colocated == {e \in EngineIds : \A f \in 1 .. e : Gpus(f) \subseteq World}
Distributed == EngineIds \ Colocated
IpcSource(e) == mesh.engines[e].offset
EnginesOf(r) == {e \in Colocated : r \in Gpus(e)}

-----------------------------------------------------------------------------
(* update_weights.  Rank 0 stops and starts the colocated engines.             *)

Ask(kind, engines) == [e \in EngineIds |-> IF e \in engines THEN [kind |-> kind, from |-> 0] ELSE requests[e]]
AllAnswered(engines) == \A e \in engines : requests[e] = << >>

StartExport(r) ==
  /\ task[r] = "idle" /\ exports[r] < ExportRounds
  /\ exports' = [exports EXCEPT ![r] = @ + 1]
  /\ task' = [task EXCEPT ![r] = IF r = 0 THEN "pause" ELSE "barrier"]
  /\ requests' = IF r = 0 THEN Ask("pause", Colocated) ELSE requests
  /\ UNCHANGED <<mesh, sources, buckets, current, tensors, stopped, loaded>>

AskedAll ==
  /\ task[0] \in {"pause", "flush", "continue"} /\ AllAnswered(Colocated)
  /\ task' = [task EXCEPT ![0] = CASE @ = "pause" -> "flush" [] @ = "flush" -> "barrier"
                                   [] @ = "continue" -> "end barrier"]
  /\ requests' = IF task[0] = "pause" THEN Ask("flush", Colocated) ELSE requests
  /\ UNCHANGED <<mesh, sources, buckets, current, tensors, stopped, loaded, exports>>

Together(from) == \A r \in World : task[r] = from

\* _get_megatron_full_params begins a bucket: what the rank is the source of
\* comes from its weights, the rest is memory to receive into.
Begun(r, i) ==
  [n \in ToSet(buckets[r][i]) |-> IF sources[r][n] = r THEN LocalWeight(n, r) ELSE << >>]

\* The barriers before and after the buckets, and the last one.
AllReady ==
  /\ Together("barrier")
  /\ task' = [r \in World |-> "stages"] /\ current' = [r \in World |-> 1]
  /\ tensors' = [r \in World |-> Begun(r, 1)]
  /\ UNCHANGED <<mesh, sources, buckets, requests, stopped, loaded, exports>>
AllSent ==
  /\ Together("last barrier")
  /\ task' = [r \in World |-> IF r = 0 THEN "continue" ELSE "end barrier"]
  /\ requests' = Ask("continue", Colocated)
  /\ UNCHANGED <<mesh, sources, buckets, current, tensors, stopped, loaded, exports>>
AllDone ==
  /\ Together("end barrier")
  /\ task' = [r \in World |-> "idle"]
  /\ UNCHANGED <<mesh, sources, buckets, current, tensors, requests, stopped, loaded, exports>>

-----------------------------------------------------------------------------
(* The collectives of a bucket.  Those of one kind are issued together and     *)
(* then waited for; the k-th of one member meets the k-th of the others.       *)

BucketOf(r) == buckets[r][current[r]]

StageCalls(r) ==
  LET wanted == SelectSeq(BucketOf(r), LAMBDA n : sources[r][n] \in Members(mesh.pp[r]))
  IN  [i \in DOMAIN wanted |-> [name |-> wanted[i], src |-> sources[r][wanted[i]]]]
ExpertCalls(r) ==
  LET wanted == SelectSeq(BucketOf(r), LAMBDA n : Kind[n].expert)
      source(n) == IF sources[r][n] \in Members(mesh.ep[r]) THEN sources[r][n] ELSE r
  IN  [i \in DOMAIN wanted |-> [name |-> wanted[i], src |-> source(wanted[i])]]

Received(r, issued) ==
  [n \in DOMAIN tensors[r] |->
     LET mine == {i \in DOMAIN issued : issued[i].name = n}
     IN  IF mine = {} THEN tensors[r][n] ELSE tensors[issued[Min(mine)].src][n]]

AlongStages(group) ==
  /\ \A r \in Members(group) : task[r] = "stages" /\ StageCalls(r) = StageCalls(Head(group))
  /\ tensors' = [r \in World |-> IF r \in Members(group) THEN Received(r, StageCalls(r)) ELSE tensors[r]]
  /\ task' = [r \in World |-> IF r \in Members(group) THEN "experts" ELSE task[r]]
  /\ UNCHANGED <<mesh, sources, buckets, current, requests, stopped, loaded, exports>>

AlongExperts(group) ==
  /\ \A r \in Members(group) : task[r] = "experts" /\ ExpertCalls(r) = ExpertCalls(Head(group))
  /\ tensors' = [r \in World |-> IF r \in Members(group) THEN Received(r, ExpertCalls(r)) ELSE tensors[r]]
  /\ task' = [r \in World |-> IF r \in Members(group) THEN "shards" ELSE task[r]]
  /\ UNCHANGED <<mesh, sources, buckets, current, requests, stopped, loaded, exports>>

\* Along the shards: expert tensors in the group of the expert shards.  A rank
\* goes on when all members of both of its groups are there.
AlongShards(r) ==
  LET together == Members(mesh.tp[r]) \cup Members(mesh.etp[r])
  IN  /\ \A q \in together : task[q] = "shards"
      /\ tensors' = [q \in World |-> IF q \notin together THEN tensors[q]
                       ELSE [n \in DOMAIN tensors[q] |-> AllGathered(n, ShardGroup(n, q))]]
      /\ task' = [q \in World |-> IF q \in together THEN "send" ELSE task[q]]
      /\ UNCHANGED <<mesh, sources, buckets, current, requests, stopped, loaded, exports>>

-----------------------------------------------------------------------------
(* _send_hf_params.                                                            *)

NextBucket(ranks, t) ==
  /\ current' = [r \in World |-> IF r \in ranks THEN current[r] + 1 ELSE current[r]]
  /\ task' = [r \in World |-> IF r \notin ranks THEN t[r]
                              ELSE IF current[r] = Len(buckets[r]) THEN "last barrier" ELSE "stages"]
  /\ tensors' = [r \in World |-> IF r \notin ranks \/ current[r] = Len(buckets[r]) THEN tensors[r]
                                 ELSE Begun(r, current[r] + 1)]

\* Rank 0 also broadcasts to the engines that have GPUs of their own.
Update(from) == [kind |-> "update", from |-> from, payload |-> tensors]
DistributedBy(ranks) == IF 0 \in ranks THEN Distributed ELSE {}

\* gather_object of an engine's ranks; its source makes the call and waits.
SendColocated(e) ==
  /\ e \in Colocated /\ \A r \in Gpus(e) : task[r] = "send"
  /\ requests' = [f \in EngineIds |-> IF f = e \/ f \in DistributedBy({IpcSource(e)})
                                      THEN Update(IpcSource(e)) ELSE requests[f]]
  /\ NextBucket(Gpus(e) \ {IpcSource(e)}, [task EXCEPT ![IpcSource(e)] = "answer"])
  /\ UNCHANGED <<mesh, sources, buckets, stopped, loaded, exports>>

\* A rank without an engine has nothing to gather.
SendPlaceholder(r) ==
  /\ task[r] = "send" /\ EnginesOf(r) = {}
  /\ requests' = [f \in EngineIds |-> IF f \in DistributedBy({r}) THEN Update(r) ELSE requests[f]]
  /\ IF DistributedBy({r}) # {} THEN NextBucket({}, [task EXCEPT ![r] = "answer"])
     ELSE NextBucket({r}, task)
  /\ UNCHANGED <<mesh, sources, buckets, stopped, loaded, exports>>

EngineAnswers(r) ==
  /\ task[r] = "answer"
  /\ \A e \in EngineIds : requests[e] # << >> => requests[e].from # r \/ requests[e].kind # "update"
  /\ NextBucket({r}, task)
  /\ UNCHANGED <<mesh, sources, buckets, requests, stopped, loaded, exports>>

\* An engine executes a call; GPU i of a colocated one loads what rank i gathered.
EngineExecutes(e) ==
  /\ requests[e] # << >>
  /\ stopped' = [stopped EXCEPT ![e] = CASE requests[e].kind = "pause" -> TRUE
                                         [] requests[e].kind = "continue" -> FALSE [] OTHER -> @]
  /\ loaded' = IF requests[e].kind # "update" THEN loaded
               ELSE [loaded EXCEPT ![e] = [g \in DOMAIN @ |->
                      LET given == requests[e].payload[IF e \in Colocated THEN g ELSE requests[e].from]
                      IN  [n \in ParamNames |->
                             IF n \notin DOMAIN given THEN @[g][n]
                             ELSE [blocks |-> given[n], version |-> @[g][n].version + 1]]]]
  /\ requests' = [requests EXCEPT ![e] = << >>]
  /\ UNCHANGED <<mesh, sources, buckets, task, current, tensors, exports>>

ExportInit ==
  /\ mesh \in Layouts
  /\ sources = [r \in World |-> << >>] /\ buckets = [r \in World |-> << >>]
  /\ task = [r \in World |-> "infos"]
  /\ current = [r \in World |-> 1] /\ tensors = [r \in World |-> << >>]
  /\ requests = [e \in EngineIds |-> << >>] /\ stopped = [e \in EngineIds |-> FALSE]
  /\ loaded = [e \in EngineIds |-> [g \in Gpus(e) |-> [n \in ParamNames |-> [blocks |-> << >>, version |-> 0]]]]
  /\ exports = [r \in World |-> 0]

GroupsOf(g) == {g[r] : r \in World}
ExportNext ==
  \/ Infos \/ AskedAll \/ AllReady \/ AllSent \/ AllDone
  \/ \E r \in World : StartExport(r) \/ AlongShards(r) \/ SendPlaceholder(r) \/ EngineAnswers(r)
  \/ \E group \in GroupsOf(mesh.pp) : AlongStages(group)
  \/ \E group \in GroupsOf(mesh.ep) : AlongExperts(group)
  \/ \E e \in EngineIds : SendColocated(e) \/ EngineExecutes(e)

-----------------------------------------------------------------------------
\* The size of the group that n is cut over.
Cuts(n) == Len(ShardGroup(n, 0))

\* An engine on the trainer's GPUs that may generate has, on each of its GPUs,
\* every parameter assembled from all of its shards in their order, each loaded
\* exactly once per update; between updates the same is true of the others.  And
\* no rank waits for ever in a collective: until the last update there is a next
\* step (the source of a parameter is worked out by each rank for itself).
WeightsWhole ==
  /\ \A e \in EngineIds : ~stopped[e] /\ (e \in Colocated \/ Together("idle")) =>
       \E version \in 0 .. ExportRounds :
         /\ exports[0] \in {version, version + 1}
         /\ \A g \in Gpus(e), n \in ParamNames :
              loaded[e][g][n] = [blocks |-> IF version = 0 THEN << >> ELSE FullWeight(n, Cuts(n)),
                                 version |-> version]
  /\ IF Together("infos") THEN InfosAgree
     ELSE (\E r \in World : task[r] # "idle" \/ exports[r] < ExportRounds) => ENABLED ExportNext
=============================================================================
