--------------------------- MODULE TrajectoryBatch ----------------------------
(* From the trajectories of a rollout to the samples that each data-parallel   *)
(* rank trains on in each epoch: the dynamic filter, the trim to whole global  *)
(* batches, the normalisation of the rewards, the split, and the selection per *)
(* epoch.  A trajectory is what BrowserEpisode returns: a sequence of samples. *)
EXTENDS Integers, Sequences, FiniteSets, SequencesExt, Functions

CONSTANTS NumGroups,    \* prompts of the rollout
          NumAttempts,  \* n_samples_per_prompt
          Rollouts,     \* what the attempts of all groups may have returned
          Options,      \* [gbs, dynamic, epochs]: global_batch_size and its variants, ppo_epochs
          Dp,           \* data-parallel size
          None          \* the reward of a sample that nobody judged

ASSUME BatchAssumption ==
  /\ {NumGroups, NumAttempts, Dp} \subseteq Nat \ {0}
  /\ \A o \in Options : /\ o.gbs \in Nat \ {0} /\ o.gbs % Dp = 0
                         /\ o.dynamic \in BOOLEAN /\ o.epochs \in Nat \ {0}

\* What BrowserEpisode promises of a trajectory, as far as it matters here: its
\* samples end alike, and what was aborted has no reward.
EndsAlike(trajectory) ==
  /\ trajectory # << >> /\ DOMAIN trajectory = 1 .. Len(trajectory)
  /\ \A i, j \in DOMAIN trajectory :
       /\ trajectory[i].status = trajectory[j].status
       /\ trajectory[i].remove = trajectory[j].remove
       /\ trajectory[i].reward = trajectory[j].reward
  /\ \A i \in DOMAIN trajectory :
       /\ trajectory[i].reward \in Int \cup {None}
       /\ trajectory[i].status = "ABORTED" => trajectory[i].reward = None

ASSUME AttemptsAssumption ==
  \A rollout \in Rollouts : \A g \in 1 .. NumGroups : \A a \in 1 .. NumAttempts :
    Len(rollout[g][a]) \in Nat /\ EndsAlike(rollout[g][a])

VARIABLES
  opt,      \* the options
  runs,     \* group -> attempt -> trajectory
  todo,     \* groups that the filter has not seen
  kept,     \* the trajectories that it has kept, pairs <<group, attempt>>
  stage,    \* "filter", "trim", "convert", "epoch", "done" or "raised"
  data,     \* the batch: a sequence of samples <<group, attempt, turn>>
  gbs,      \* the global batch size in use
  rows,     \* sample -> [norm, mask], the training data
  shards,   \* rank -> its samples
  chosen,   \* rank -> those of this epoch
  epoch     \* epochs begun

batchVars == <<opt, runs, todo, kept, stage, data, gbs, rows, shards, chosen, epoch>>

Groups == 1 .. NumGroups
Attempts == 1 .. NumAttempts
Ranks == 0 .. Dp - 1
SampleOf(id) == runs[id[1]][id[2]][id[3]]
Trajectory(id) == <<id[1], id[2]>>
InBatch == ToSet(data)

-----------------------------------------------------------------------------
(* check_reward_nonempty_nonzero_std: a group goes on with the trajectories    *)
(* that have a reward, if these are not all equal.                             *)

Reward(g, a) == Last(runs[g][a]).reward

Judged(g) == {a \in Attempts : Reward(g, a) # None}

Filter(g) ==
  /\ stage = "filter" /\ g \in todo
  /\ todo' = todo \ {g}
  /\ IF \E a, b \in Judged(g) : Reward(g, a) # Reward(g, b)
     THEN kept' = kept \cup {<<g, a>> : a \in Judged(g)}
     ELSE UNCHANGED kept
  /\ UNCHANGED <<opt, runs, stage, data, gbs, rows, shards, chosen, epoch>>

\* The attempts in order: those of the first group, then of the second.
Attempt(n) == <<1 + (n - 1) \div NumAttempts, 1 + ((n - 1) % NumAttempts)>>
TurnsOf(p) == IF p \in kept THEN [i \in DOMAIN runs[p[1]][p[2]] |-> <<p[1], p[2], i>>] ELSE << >>

\* The rollout goes on until there are enough groups; their samples in order.
Assemble ==
  /\ stage = "filter" /\ todo = {} /\ kept # {}
  /\ data' = FlattenSeq([n \in 1 .. NumGroups * NumAttempts |-> TurnsOf(Attempt(n))])
  /\ stage' = "trim"
  /\ UNCHANGED <<opt, runs, todo, kept, gbs, rows, shards, chosen, epoch>>

-----------------------------------------------------------------------------
(* _get_rollout_data: the batch size, and the samples that are too many.       *)

DynamicBatchSize(n) == IF n \div Dp = 0 THEN Dp ELSE (n \div Dp) * Dp
BatchSize(n) == IF opt.dynamic THEN DynamicBatchSize(n) ELSE opt.gbs
TrimLen(n, size) == (n \div size) * size

\* The number of S that m others precede.
Nth(S, m) == CHOOSE i \in S : Cardinality({j \in S : j < i}) = m

\* The first n samples after a shuffle: any n, dealt to the ranks in any way.
\* Orders that give every rank the same samples are one here.
Shuffled(n) ==
  {[j \in 1 .. n |-> data[Nth({i \in DOMAIN data : deal[i] = (j - 1) % Dp}, (j - 1) \div Dp)]] :
     deal \in {d \in [DOMAIN data -> 0 .. Dp] :
                \A r \in Ranks : Cardinality({i \in DOMAIN data : d[i] = r}) = n \div Dp}}

Trim ==
  LET n == Len(data)
      size == BatchSize(n)
  IN  /\ stage = "trim"
      /\ gbs' = size
      /\ \/ n % size = 0 /\ stage' = "convert" /\ UNCHANGED data
         \/ n % size # 0 /\ n < size /\ stage' = "raised" /\ UNCHANGED data
         \/ n % size # 0 /\ n >= size /\ opt.epochs > 1 /\ stage' = "convert" /\ UNCHANGED data
         \/ /\ n % size # 0 /\ n >= size /\ opt.epochs = 1
            /\ data' \in Shuffled(TrimLen(n, size))
            /\ stage' = "convert"
      /\ UNCHANGED <<opt, runs, todo, kept, rows, shards, chosen, epoch>>

-----------------------------------------------------------------------------
(* _post_process_rewards, _convert_samples_to_train_data, _split_train_data_by_dp *)

\* The trajectories of a group that still have a sample in the batch.
Remaining(g) == {p \in {Trajectory(id) : id \in InBatch} : p[1] = g}
BaseReward(p) == Reward(p[1], p[2])

\* Mutant: the mean over the samples, which counts a trajectory once per turn.
NormOverSamples(p) ==
  LET samples == {id \in InBatch : id[1] = p[1]}
  IN  BaseReward(p) * Cardinality(samples) - SumFunction([id \in samples |-> SampleOf(id).reward])
\* The reward less the mean of the group, times the number of trajectories: the
\* division by the deviation does not change its sign or its order.
Norm(p) ==
  BaseReward(p) * Cardinality(Remaining(p[1])) - SumFunction([q \in Remaining(p[1]) |-> BaseReward(q)])

\* The loss mask of a turn is all ones, or all zeros for a removed sample.
Row(id) == [norm |-> Norm(Trajectory(id)), mask |-> IF SampleOf(id).remove THEN 0 ELSE 1]

Strided(r) == {data[i] : i \in {i \in DOMAIN data : (i - 1) % Dp = r}}

Convert ==
  /\ stage = "convert"
  /\ rows' = [id \in InBatch |-> Row(id)]
  /\ shards' = [r \in Ranks |-> Strided(r)]
  /\ stage' = "epoch"
  /\ UNCHANGED <<opt, runs, todo, kept, data, gbs, chosen, epoch>>

-----------------------------------------------------------------------------
(* The epochs: with more than one, every rank selects as many of its own.      *)

Fewest == Min({Cardinality(shards[r]) : r \in Ranks})
\* Mutant: each rank selects by its own count.
SelectedOfOwn(r) == (Cardinality(shards[r]) \div (gbs \div Dp)) * (gbs \div Dp)
Selected(r) == IF opt.dynamic THEN Fewest ELSE (Fewest \div (gbs \div Dp)) * (gbs \div Dp)

\* get_data_iterator: optimizer steps of a rank in this epoch.
StepSize == (IF opt.dynamic /\ opt.epochs > 1 THEN Fewest * Dp ELSE gbs) \div Dp
Steps(r) == Cardinality(chosen[r]) \div StepSize

Epoch ==
  /\ stage = "epoch" /\ epoch < opt.epochs
  /\ IF opt.epochs = 1 THEN chosen' = shards
     ELSE \E pick \in SUBSET InBatch :
            /\ \A r \in Ranks : Cardinality(pick \cap shards[r]) = Selected(r)
            /\ chosen' = [r \in Ranks |-> pick \cap shards[r]]
  /\ epoch' = epoch + 1
  /\ UNCHANGED <<opt, runs, todo, kept, stage, data, gbs, rows, shards>>

BatchInit ==
  /\ opt \in Options /\ runs \in Rollouts
  /\ todo = Groups /\ kept = {} /\ stage = "filter" /\ data = << >> /\ gbs = 0
  /\ rows = << >> /\ shards = << >> /\ chosen = << >> /\ epoch = 0

BatchNext == (\E g \in Groups : Filter(g)) \/ Assemble \/ Trim \/ Convert \/ Epoch
BatchSpec == BatchInit /\ [][BatchNext]_batchVars

-----------------------------------------------------------------------------
(* Properties.                                                                 *)

\* The batch has nothing of an aborted episode, which would be credited like the
\* others of its group although nobody judged it; a turn contributes to the loss
\* unless its episode is removed, and then none of its turns does.  Also after the
\* trim has cut trajectories and groups the turns of one trajectory share one
\* credit, a better trajectory of the group has more, and the credits of the
\* trajectories that are left cancel out.
CreditWithinGroup ==
  /\ \A id \in DOMAIN rows :
       LET s == SampleOf(id)
       IN  /\ s.status # "ABORTED" /\ s.reward # None
           /\ \A i \in DOMAIN runs[id[1]][id[2]] :
                runs[id[1]][id[2]][i].remove => rows[id].mask = 0
  /\ \A id, other \in DOMAIN rows :
       id[1] = other[1] =>
         /\ (rows[id].norm < rows[other].norm) <=> (BaseReward(Trajectory(id)) < BaseReward(Trajectory(other)))
         /\ LET first(p) == CHOOSE x \in DOMAIN rows : Trajectory(x) = p
            IN  SumFunction([p \in Remaining(id[1]) |-> rows[first(p)].norm]) = 0

\* Every sample is on one rank; in every epoch each rank trains on its own
\* samples, takes as many whole steps as the others, at least one, and together
\* they use as many samples as there are in whole global batches.
SplitExact ==
  chosen # << >> =>
    /\ UNION {shards[r] : r \in Ranks} = InBatch
    /\ \A r, q \in Ranks : r # q => shards[r] \cap shards[q] = {}
    /\ \A r \in Ranks : chosen[r] \subseteq shards[r] /\ Cardinality(chosen[r]) = Steps(r) * StepSize
    /\ \A r, q \in Ranks : Steps(r) = Steps(q) /\ Steps(r) > 0
    /\ SumFunction([r \in Ranks |-> Cardinality(chosen[r])]) = TrimLen(Len(data), gbs)
=============================================================================
