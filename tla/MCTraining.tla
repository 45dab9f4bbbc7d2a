------------------------------ MODULE MCTraining ------------------------------
(* Seven specifications that share no variable, checked side by side: whose    *)
(* weights a training actor reads, trains and pushes (TrainerActor), how a     *)
(* micro-batch is laid out over the ranks (SequenceParallel), how micro-batches *)
(* add up to a gradient (GradientStep), how weights reach engines with GPUs of *)
(* their own (DistributedUpdate) and engines on the same GPUs (WeightExport), and    *)
(* what the tensors are called and how they lie on the way (HfConversion); and *)
(* the groups that are destroyed and made again between the calls              *)
(* (ProcessGroups).  Every initial state starts one; the others are at rest.   *)
EXTENDS MCTrainer, SequenceParallel, DistributedUpdate, GradientStep, WeightExport, HfConversion,
        ProcessGroups

\* One small model per converter, with the layouts each of them has to undo.
Small == [family |-> "llama", layers |-> <<"full">>, groups |-> 2, perGroup |-> 2, head |-> 2,
          inter |-> 4, experts |-> 0, shared |-> FALSE, vocab |-> 3, padded |-> 4, mtp |-> 0,
          tp |-> 2, etp |-> 1, tied |-> FALSE, bias |-> FALSE, qkNorm |-> FALSE,
          vision |-> FALSE, fp8 |-> FALSE]
Hybrid == [Small EXCEPT !.layers = <<"linear", "full">>, !.qkNorm = TRUE, !.experts = 2,
                        !.shared = TRUE, !.mtp = 1, !.etp = 2, !.fp8 = TRUE]
MCFamilies == {
  Small,
  [Small EXCEPT !.family = "qwen2", !.bias = TRUE, !.tied = TRUE, !.head = 1, !.perGroup = 3],
  [Small EXCEPT !.family = "qwen2", !.qkNorm = TRUE, !.groups = 4, !.tp = 4, !.perGroup = 1],
  [Small EXCEPT !.family = "qwen3vl", !.qkNorm = TRUE, !.vision = TRUE, !.tied = TRUE],
  [Small EXCEPT !.family = "qwen3vl", !.qkNorm = TRUE, !.vision = TRUE, !.vocab = 4],
  [Small EXCEPT !.family = "qwen3moe", !.qkNorm = TRUE, !.experts = 3, !.fp8 = TRUE],
  [Hybrid EXCEPT !.family = "qwen3next"],
  [Hybrid EXCEPT !.family = "qwen3next", !.tp = 1, !.groups = 1, !.perGroup = 4],
  [Hybrid EXCEPT !.family = "qwen3_5", !.perGroup = 3],
  [Hybrid EXCEPT !.family = "qwen3_5", !.experts = 0, !.shared = FALSE, !.tp = 2]}

\* Samples whose last chunk is full, holds one position, or is empty, with all
\* tokens counting, the last one not, or none.
Masks(n) == {[t \in 1 .. n |-> 1], [t \in 1 .. n |-> IF t = n THEN 0 ELSE 1], [t \in 1 .. n |-> 0]}
MCSamples == UNION {{[total |-> s[1], response |-> s[2], mask |-> mask] : mask \in Masks(s[2])} :
                      s \in {<<2, 1>>, <<3, 2>>, <<5, 2>>, <<6, 5>>, <<8, 3>>}}

\* Parameters that fill a bucket, that do not fit beside another one, and one
\* that is larger than a bucket; experts in both stages.
Weight(name, expert, size) == [name |-> name, expert |-> expert, size |-> size]
MCParams ==
  [s \in Stages |->
     IF s = FirstStage
     THEN <<Weight("a", FALSE, 1), Weight("b", TRUE, 1), Weight("c", FALSE, 3), Weight("d", FALSE, 1)>>
     ELSE <<Weight("e", FALSE, 2), Weight("f", TRUE, 1), Weight("g", TRUE, 1)>>]

\* Two optimizer steps of two samples per rank: fixed micro-batches of one or two
\* samples, or as many as fit; one or two virtual stages; the batch size of the
\* command line, of the rollout or of the epoch; per sample or per token.
Option(dynamic, mbs, cap, perToken, cpSize, stages) ==
  [effective |-> IF dynamic THEN 4 ELSE Absent, requested |-> IF perToken THEN 4 ELSE Absent,
   static |-> IF dynamic \/ perToken THEN 8 ELSE 4, dynamic |-> dynamic, mbs |-> mbs, cap |-> cap,
   perToken |-> perToken, cp |-> cpSize, vpp |-> stages, group |-> 2]
MCPasses == <<"ref_", "own">>
MCStepOptions ==
  {Option(x[1], x[2], x[3], y[1], cpSize, y[2]) :
     x \in {<<FALSE, 1, 0>>, <<FALSE, 2, 0>>, <<TRUE, 1, 4>>},
     y \in {<<FALSE, 1>>, <<TRUE, 1>>, <<FALSE, 2>>}, cpSize \in {1, 2}}
StepSample(len, counted, weight) == [len |-> len, counted |-> counted, weight |-> weight]
MCStepRows ==
  {[r \in DpRanks |-> IF r = 1
      THEN <<StepSample(2, 1, 1), StepSample(a, 2, 2), StepSample(8, 0, 1), StepSample(1, 1, 1)>>
      ELSE <<StepSample(3, 2, 1), StepSample(5, 3, 1), StepSample(6, 1, 1), StepSample(2, 2, 2)>>] :
     a \in {2, 4}}

\* An embedding, a layer of each stage with two experts, in four groupings of four
\* ranks: 2 stages x 2 expert ranks; 2 stages x 2 shards, with the embedding on
\* both; 2 shards that hold an expert each, twice; and those in 2 stages.
\* Engines of two and four GPUs, ranks without an engine, an engine elsewhere.
MCKind == [n \in 1 .. 7 |-> [expert |-> n \in {3, 4, 6, 7},
                             cut |-> CASE n \in {1, 6, 7} -> "shard" [] n = 2 -> "whole" [] OTHER -> "glu",
                             size |-> IF n = 5 THEN 3 ELSE 1]]
Alone == [r \in World |-> <<r>>]
Side == [r \in World |-> IF r < 2 THEN <<0, 1>> ELSE <<2, 3>>]
Across == [r \in World |-> <<r % 2, 2 + (r % 2)>>]
Held(r, stages, experts, both) ==
  {n \in 1 .. 7 : /\ stages = 1 \/ (n <= 4) = (r < 2) \/ (both /\ n = 1)
                  /\ n \in {3, 6} /\ experts = 2 => r % 2 = 0
                  /\ n \in {4, 7} /\ experts = 2 => r % 2 = 1}
Layout(pp, ep, tp, etp, both, engines) ==
  [pp |-> pp, ep |-> ep, tp |-> tp, etp |-> etp, mtp |-> both, engines |-> engines,
   holds |-> [r \in World |-> Held(r, Len(pp[0]), Len(ep[0]), both)]]
Engine(offsetOf, count) == [offset |-> offsetOf, count |-> count]
MCLayouts ==
  {Layout(Across, Side, Alone, Alone, FALSE, <<Engine(0, 2), Engine(2, 2)>>),
   Layout(Across, Alone, Side, Side, TRUE, <<Engine(0, 2), Engine(4, 2)>>),
   Layout(Alone, Side, Side, Alone, FALSE, <<Engine(0, 4)>>),
   Layout(Across, Side, Side, Alone, TRUE, <<Engine(0, 2), Engine(2, 2), Engine(4, 1)>>)}

\* The groups of two stages by two shards, and of four stages with the embedding
\* at both ends; some of one rank, some for gloo.  Engines on all ranks or on two.
Nccl(ranks) == [ranks |-> ranks, gloo |-> FALSE]
Gloo(ranks) == [ranks |-> ranks, gloo |-> TRUE]
TwoByTwo == <<Nccl({0, 1}), Nccl({2, 3}), Gloo({0, 1}), Nccl({0}), Nccl({0, 2}), Nccl({1, 3}), Nccl(0 .. 3)>>
FourStages == <<Nccl({1}), Nccl(0 .. 3), Nccl({0, 3}), Gloo(0 .. 3)>>
MCGroupLayouts == {[groups |-> g, engines |-> e] :
                     g \in {TwoByTwo, FourStages}, e \in {<<{0, 1}, {2, 3}>>, <<{0, 1}>>}}

TrainerRests ==
  /\ args = CHOOSE a \in Configurations : TRUE
  /\ pc = "done" /\ rid = 0 /\ epoch = 0 /\ step = 0
  /\ m = [gpu |-> Nothing, main |-> Nothing, tags |-> << >>, active |-> "actor"]
  /\ asleep = FALSE /\ groups = TRUE /\ routes = ClearRoutes /\ logp = NoLogp
  /\ critic = "off" /\ served = Nothing /\ used = Nothing /\ saved = Nothing
  /\ fault = "none" /\ skips = 0
SequenceRests == /\ cp = 1 /\ layout = "thd" /\ batch = << >> /\ discount = << >>
                 /\ logProbs = [r \in CpRanks |-> << >>] /\ returns = [r \in CpRanks |-> << >>]
UpdateRests == UpdatesDone(Rounds)

GradientRests ==
  /\ option = CHOOSE o \in StepOptions : TRUE
  /\ rows = CHOOSE x \in StepRows : TRUE
  /\ plan = [r \in DpRanks |-> << >>]
  /\ offset = [r \in DpRanks |-> << >>] /\ fed = [r \in DpRanks |-> << >>]
  /\ pass = [r \in DpRanks |-> "done"] /\ stepId = [r \in DpRanks |-> 1]
  /\ inputs = [r \in DpRanks |-> << >>] /\ collected = [r \in DpRanks |-> << >>]
  /\ logps = [r \in DpRanks |-> << >>] /\ grad = [r \in DpRanks |-> << >>] /\ updates = << >>

ExportRests ==
  /\ mesh = CHOOSE x \in Layouts : TRUE
  /\ sources = [r \in World |-> << >>] /\ buckets = [r \in World |-> << >>]
  /\ task = [r \in World |-> "idle"]
  /\ current = [r \in World |-> 1] /\ tensors = [r \in World |-> << >>]
  /\ requests = [e \in EngineIds |-> << >>] /\ stopped = [e \in EngineIds |-> TRUE] /\ loaded = << >>
  /\ exports = [r \in World |-> ExportRounds]
\* No model is at hand, and none will be loaded.
ConversionRests == shape = NoShape /\ cutUp = <<0>> /\ todo = {} /\ sent = << >>

GroupsRest ==
  /\ job = CHOOSE x \in GroupLayouts : TRUE
  /\ call = "rest" /\ rollouts = 0 /\ connects = 0
  /\ left = [r \in Peer |-> << >>] /\ made = [r \in Peer |-> 1]
  /\ inner = [r \in Peer |-> << >>]
  /\ ipc = [r \in Peer |-> FALSE] /\ slept = [r \in Peer |-> FALSE]

SixRest == TrainerRests /\ SequenceRests /\ UpdateRests /\ GradientRests /\ ExportRests /\ ConversionRests
sixVars == <<trainerVars, sequenceVars, updateVars, gradientVars, exportVars, convVars>>

OneOfSixInit ==
  \/ TrainerInit /\ SequenceRests /\ UpdateRests /\ GradientRests /\ ExportRests /\ ConversionRests
  \/ TrainerRests /\ SequenceInit /\ UpdateRests /\ GradientRests /\ ExportRests /\ ConversionRests
  \/ TrainerRests /\ SequenceRests /\ UpdateInit /\ GradientRests /\ ExportRests /\ ConversionRests
  \/ TrainerRests /\ SequenceRests /\ UpdateRests /\ GradientInit /\ ExportRests /\ ConversionRests
  \/ TrainerRests /\ SequenceRests /\ UpdateRests /\ GradientRests /\ ExportInit /\ ConversionRests
  \/ TrainerRests /\ SequenceRests /\ UpdateRests /\ GradientRests /\ ExportRests /\ ConvInit
OneOfSixNext ==
  \/ TrainerNext /\ UNCHANGED <<sequenceVars, updateVars, gradientVars, exportVars, convVars>>
  \/ SequenceNext /\ UNCHANGED <<trainerVars, updateVars, gradientVars, exportVars, convVars>>
  \/ UpdateNext /\ UNCHANGED <<trainerVars, sequenceVars, gradientVars, exportVars, convVars>>
  \/ GradientNext /\ UNCHANGED <<trainerVars, sequenceVars, updateVars, exportVars, convVars>>
  \/ ExportNext /\ UNCHANGED <<trainerVars, sequenceVars, updateVars, gradientVars, convVars>>
  \/ ConvNext /\ UNCHANGED <<trainerVars, sequenceVars, updateVars, gradientVars, exportVars>>
Init == (OneOfSixInit /\ GroupsRest) \/ (SixRest /\ GroupsInit)
Next == (OneOfSixNext /\ UNCHANGED groupVars) \/ (GroupsNext /\ UNCHANGED sixVars)
vars == <<sixVars, groupVars>>
Spec == Init /\ [][Next]_vars /\ TrainerFair /\ UpdateFairness

\* What a push leaves: all engines, of either kind, hold all of the parameters in
\* the shards of one version.
PushesWhole == WeightsWhole /\ ServesOneVersion

\* Every job that starts with supported options ends, and so does every push of
\* its weights over the lock that the pipeline stages share.
TrainingEnds == TrainerEnds /\ UpdatesEnd
=============================================================================
