----------------------------- MODULE GradientStep -----------------------------
(* From the samples of the data-parallel ranks to the gradients of an epoch:   *)
(* the schedule of micro-batches (get_data_iterator), the passes that store    *)
(* log-probs (forward_only), and the steps that scale the loss of a            *)
(* micro-batch (loss_function) so that what Megatron accumulates, averages or  *)
(* divides is the mean over the global batch.  With virtual pipeline stages    *)
(* every model chunk of a rank reads the samples through an iterator of its own.*)
EXTENDS MicroBatchCount, Functions

CONSTANTS DpRanks,
          StepOptions,  \* [effective, requested, static, dynamic, mbs, cap, perToken, cp, vpp, group]
          StepRows,     \* rank -> its samples, [len, counted, weight]
          Passes        \* forward_only calls before the training: their store prefixes

Absent == 0   \* of effective_global_batch_size and dynamic_global_batch_size
Dp == Cardinality(DpRanks)

\* "effective or dynamic or args" in the iterator, nested get in the loss.
BatchSizeOf(o) ==
  IF o.effective # Absent THEN o.effective ELSE IF o.requested # Absent THEN o.requested ELSE o.static

\* The ranks have the same number of samples, a multiple of what one of them has
\* in a step (SplitExact), and a step is whole micro-batches, which Megatron
\* demands of --global-batch-size and which holds for micro-batches of one sample.
ASSUME GradientAssumption ==
  /\ IsFiniteSet(DpRanks) /\ DpRanks # {}
  /\ Passes \in Seq(STRING) /\ Passes # << >>
  /\ \A i \in DOMAIN Passes : Passes[i] \notin {"schedule", "train", "done"}
  /\ \A o \in StepOptions :
       /\ {o.effective, o.requested, o.cap} \subseteq Nat /\ {o.dynamic, o.perToken} \subseteq BOOLEAN
       /\ {o.static, o.cp, o.vpp, o.group} \subseteq Nat \ {0}
       /\ BatchSizeOf(o) % Dp = 0
       /\ ~o.dynamic => o.mbs \in Nat \ {0} /\ (BatchSizeOf(o) \div Dp) % o.mbs = 0
       /\ \A x \in StepRows : \A r, q \in DpRanks :
            /\ x[r] \in Seq([len : Nat, counted : Nat, weight : Int])
            /\ Len(x[r]) = Len(x[q]) /\ Len(x[r]) # 0 /\ Len(x[r]) % (BatchSizeOf(o) \div Dp) = 0

VARIABLES
  option, rows,
  plan,      \* rank -> micro_batch_indices
  offset,    \* rank -> chunk -> DataIterator.offset
  pass,      \* rank -> the call under way: a prefix, "train" or "done"
  stepId,    \* rank -> step of that call
  fed,       \* rank -> chunk -> micro-batches of the step
  inputs,    \* rank -> the micro-batches that the first chunk has read in this step
  collected, \* rank -> forward_data_store, as the samples whose values they are
  logps,     \* rank -> prefix -> rollout_data[prefix + "log_probs"]
  grad,      \* rank -> what its micro-batches of this step have added
  updates    \* the gradients of the optimizer steps

gradientVars == <<option, rows, plan, offset, pass, stepId, fed, inputs, collected, logps, grad, updates>>

DpCp == Dp * option.cp
Chunks == 1 .. option.vpp
PassAfter(p) == IF p = Last(Passes) THEN "train" ELSE Passes[1 + CHOOSE i \in DOMAIN Passes : Passes[i] = p]

-----------------------------------------------------------------------------
(* get_data_iterator.                                                          *)

GlobalBatch == BatchSizeOf(option)
LocalBatch == GlobalBatch \div Dp
NumLocal == Len(rows[CHOOSE r \in DpRanks : TRUE])
StepsPerRollout == NumLocal \div LocalBatch
First(i) == (i - 1) * LocalBatch + 1
Window(i) == First(i) .. i * LocalBatch

Wanted(r, i) ==
  FirstFit([j \in 1 .. LocalBatch |-> rows[r][First(i) + j - 1].len], option.cap * option.cp)

NumMicroBatches(i) ==
  LET most == Max({Wanted(r, i) : r \in DpRanks})
  IN  IF ~option.dynamic THEN LocalBatch \div option.mbs
      ELSE IF option.vpp = 1 THEN most
      ELSE Max({(most \div option.group) * option.group, 1})

\* The numbers of S in order.
Listed(S) == [n \in 1 .. Cardinality(S) |-> CHOOSE x \in S : Cardinality({y \in S : y < x}) = n - 1]

\* get_seqlen_balanced_partitions: what SeqlenBalance says of it (BalanceExact)
\* is assumed here, each part a sorted list of indices of the step.
Partitions(i) ==
  {[j \in DOMAIN p |-> Listed(p[j])] :
     p \in {q \in [1 .. NumMicroBatches(i) -> SUBSET Window(i) \ {{}}] :
              /\ UNION {q[j] : j \in DOMAIN q} = Window(i)
              /\ \A j, k \in DOMAIN q : j # k => q[j] \cap q[k] = {}}}

Schedules ==
  IF ~option.dynamic THEN {<< >>}
  ELSE LET steps == 1 .. StepsPerRollout
       IN  {FlattenSeq(ps) : ps \in {q \in [steps -> UNION {Partitions(i) : i \in steps}] :
                                       \A i \in steps : q[i] \in Partitions(i)}}

Schedule ==
  /\ \A r \in DpRanks : pass[r] = "schedule"
  /\ plan' \in [DpRanks -> Schedules]
  /\ pass' = [r \in DpRanks |-> Head(Passes)]
  /\ UNCHANGED <<option, rows, offset, stepId, fed, inputs, collected, logps, grad, updates>>

-----------------------------------------------------------------------------
(* DataIterator, and the micro-batches of a step.                              *)

GetNext(r, v) == IF option.dynamic THEN plan[r][offset[r][v] + 1]
                 ELSE [j \in 1 .. option.mbs |-> offset[r][v] + j]
Advanced(n) == n + (IF option.dynamic THEN 1 ELSE option.mbs)

Reset(r) == [v \in Chunks |-> 0]

\* The values of a micro-batch belong to its samples if all chunks have read the same.
Garbage == 0
ValuesOf(tokens, mine) == [j \in DOMAIN mine |-> IF tokens = mine THEN mine[j] ELSE Garbage]

\* loss_function: the samples of the micro-batch with the scale of their loss.
Divisor(s) == IF option.perToken THEN 1 ELSE Max({s.counted, 1})
LossScale(i) == IF option.perToken THEN <<option.cp, 1>>
                ELSE <<NumMicroBatches(i) * DpCp, GlobalBatch>>
LossOf(r, i, tokens, mine) ==
  [j \in DOMAIN mine |->
     LET s == rows[r][mine[j]]
     IN  [sample |-> ValuesOf(tokens, mine)[j],
          old    |-> logps[r][Last(Passes)][mine[j]],
          num    |-> s.weight * LossScale(i)[1],
          den    |-> Divisor(s) * LossScale(i)[2],
          tokens |-> Max({s.counted, 1})]]

\* Chunk v of rank r takes its next micro-batch; the last one has the logits.
Feed(r, v) ==
  /\ pass[r] \notin {"schedule", "done"}
  /\ fed[r][v] < NumMicroBatches(stepId[r])
  /\ v > 1 => fed[r][v] < fed[r][v - 1]
  /\ LET mine == GetNext(r, v)
         seen == IF v = 1 THEN Append(inputs[r], mine) ELSE inputs[r]
         tokens == seen[fed[r][v] + 1]
         last == v = option.vpp
     IN  /\ inputs' = [inputs EXCEPT ![r] = seen]
         /\ collected' = [collected EXCEPT ![r] =
              IF last /\ pass[r] # "train" THEN @ \o ValuesOf(tokens, mine) ELSE @]
         /\ grad' = [grad EXCEPT ![r] =
              IF last /\ pass[r] = "train" THEN @ \o LossOf(r, stepId[r], tokens, mine) ELSE @]
  /\ offset' = [offset EXCEPT ![r][v] = Advanced(@)]
  /\ fed' = [fed EXCEPT ![r][v] = @ + 1]
  /\ UNCHANGED <<option, rows, plan, pass, stepId, logps, updates>>

StepFed(r) == \A v \in Chunks : fed[r][v] = NumMicroBatches(stepId[r])
NoneFed == [v \in Chunks |-> 0]

ForwardStep(r) ==
  /\ pass[r] \notin {"schedule", "train", "done"}
  /\ StepFed(r) /\ stepId[r] < StepsPerRollout
  /\ stepId' = [stepId EXCEPT ![r] = @ + 1]
  /\ fed' = [fed EXCEPT ![r] = NoneFed] /\ inputs' = [inputs EXCEPT ![r] = << >>]
  /\ UNCHANGED <<option, rows, plan, offset, pass, collected, logps, grad, updates>>

\* Mutant: the values stay in the order of the micro-batches.
AsCollected(r) == collected[r]
\* The values go back to the order of the samples.
Original(r) ==
  IF ~option.dynamic THEN collected[r]
  ELSE LET order == FlattenSeq(plan[r])
       IN  [i \in 1 .. NumLocal |->
              LET at == {k \in DOMAIN order : order[k] = i}
              IN  IF at = {} THEN Garbage ELSE collected[r][Max(at)]]

\* The end of forward_only, and the reset with which the next call begins.
Store(r) ==
  /\ pass[r] \notin {"schedule", "train", "done"}
  /\ StepFed(r) /\ stepId[r] = StepsPerRollout
  /\ logps' = [logps EXCEPT ![r] = [p \in DOMAIN @ \cup {pass[r]} |->
                                      IF p = pass[r] THEN Original(r) ELSE @[p]]]
  /\ pass' = [pass EXCEPT ![r] = PassAfter(@)]
  /\ offset' = [offset EXCEPT ![r] = Reset(r)]
  /\ stepId' = [stepId EXCEPT ![r] = 1]
  /\ fed' = [fed EXCEPT ![r] = NoneFed] /\ inputs' = [inputs EXCEPT ![r] = << >>]
  /\ collected' = [collected EXCEPT ![r] = << >>]
  /\ UNCHANGED <<option, rows, plan, grad, updates>>

-----------------------------------------------------------------------------
(* The optimizer step.  Megatron divides the loss by the micro-batches and     *)
(* averages over all ranks, or divides the sum by the tokens of all ranks; a   *)
(* token of a sample has its gradient on one context-parallel rank.            *)

AllTokens == option.cp * SumFunction([r \in DpRanks |-> SumFunction([j \in DOMAIN grad[r] |-> grad[r][j].tokens])])
MegatronDivisor(i) == IF option.perToken THEN AllTokens ELSE NumMicroBatches(i) * DpCp

\* The reported metric: num_samples or num_tokens of all ranks, values * cp.
ReportedOver == IF option.perToken THEN AllTokens
                ELSE option.cp * SumFunction([r \in DpRanks |-> Len(grad[r])])
Reported(r, g) ==
  [num |-> option.cp * rows[r][g.sample].weight, den |-> Divisor(rows[r][g.sample]) * ReportedOver]

OptimizerStep ==
  /\ \A r \in DpRanks : pass[r] = "train" /\ StepFed(r)
  /\ LET i == stepId[CHOOSE r \in DpRanks : TRUE]
     IN  /\ updates' = Append(updates, [r \in DpRanks |-> [j \in DOMAIN grad[r] |->
                [sample |-> grad[r][j].sample, old |-> grad[r][j].old,
                 num |-> grad[r][j].num, den |-> grad[r][j].den * MegatronDivisor(i),
                 report |-> IF grad[r][j].sample = Garbage THEN [num |-> 0, den |-> 1]
                            ELSE Reported(r, grad[r][j])]]])
         /\ pass' = [r \in DpRanks |-> IF i = StepsPerRollout THEN "done" ELSE "train"]
         /\ stepId' = [r \in DpRanks |-> i + 1]
  /\ grad' = [r \in DpRanks |-> << >>]
  /\ fed' = [r \in DpRanks |-> NoneFed] /\ inputs' = [r \in DpRanks |-> << >>]
  /\ UNCHANGED <<option, rows, plan, offset, collected, logps>>

GradientInit ==
  /\ option \in StepOptions /\ rows \in StepRows
  /\ plan = [r \in DpRanks |-> << >>]
  /\ offset = [r \in DpRanks |-> NoneFed] /\ fed = [r \in DpRanks |-> NoneFed]
  /\ pass = [r \in DpRanks |-> "schedule"] /\ stepId = [r \in DpRanks |-> 1]
  /\ inputs = [r \in DpRanks |-> << >>] /\ collected = [r \in DpRanks |-> << >>]
  /\ logps = [r \in DpRanks |-> << >>] /\ grad = [r \in DpRanks |-> << >>] /\ updates = << >>

RankStep(r) == (\E v \in Chunks : Feed(r, v)) \/ ForwardStep(r) \/ Store(r)
GradientNext == Schedule \/ OptimizerStep \/ \E r \in DpRanks : RankStep(r)
GradientSpec == GradientInit /\ [][GradientNext]_gradientVars

-----------------------------------------------------------------------------
\* What a token of the sample should weigh: the mean over the samples of the
\* global batch of the means over their tokens, or the mean over all tokens.  A
\* sample whose mask is empty counts as one token, see README.md.
MeanOver(i) ==
  IF option.perToken
  THEN SumFunction([r \in DpRanks |-> SumFunction([j \in 1 .. LocalBatch |->
                                         Max({rows[r][First(i) + j - 1].counted, 1})])])
  ELSE GlobalBatch

\* Every optimizer step takes, on every rank, the samples of its window and no
\* others, each once and against the log-probs of that same sample, and both the
\* gradient and the reported metrics are the mean over the global batch: however
\* the samples are cut into micro-batches and spread over the ranks, and after
\* any number of passes over the same iterators.
GradientIsMean ==
  \A i \in DOMAIN updates : \A r \in DpRanks :
    LET us == updates[i][r]
    IN  /\ Len(us) = LocalBatch /\ {us[j].sample : j \in DOMAIN us} = Window(i)
        /\ \A j \in DOMAIN us :
             LET s == rows[r][us[j].sample]
             IN  /\ us[j].old = us[j].sample
                 /\ us[j].num * Divisor(s) * MeanOver(i) = s.weight * us[j].den
                 /\ us[j].report.num * Divisor(s) * MeanOver(i) = s.weight * us[j].report.den
=============================================================================
