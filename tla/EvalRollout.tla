----------------------------- MODULE EvalRollout -----------------------------
(* The evaluation between rollouts: which settings a dataset gets              *)
(* (eval_config.py), the samples of all datasets generated side by side        *)
(* (eval_rollout), and what is counted of them (_log_eval_rollout_data).       *)
EXTENDS Integers, Sequences, SequencesExt, FiniteSetsExt

CONSTANTS
  Setups,    \* [datasets, default, requested, keyed, passRate]: the datasets as written, each
             \* [name, prompts, own], the default of the file, --n-samples-per-eval-prompt,
             \* which reward keys are given ("none", "both", "eval"), and --log-passrate
  Returns,   \* what a generation may return: sequences of [turn, status, reward]
  TurnRoom   \* the shift of turn-level indices, above all indices of parents

Unwritten == -1    \* the key is not written
Null == -2       \* it is written without a value
Unrewarded == -3

VARIABLES
  setup, evalAt,   \* "start", "generate", "done" or "failed"
  inFlight,  \* per dataset: the tasks that run, pairs <<prompt, attempt>>
  generated,    \* per dataset and task: what it returned
  arrived,     \* per dataset: the samples in the order of completion
  logged       \* per name: what is logged
evalRolloutVars == <<setup, evalAt, inFlight, generated, arrived, logged>>

-----------------------------------------------------------------------------
(* Settings, and the tasks of a dataset.                                       *)

\* Mutant: the default of the file comes before the dataset's own value.
SamplesPerDefault(s, d) ==
  IF s.default # Unwritten THEN s.default
  ELSE IF d.own # Unwritten THEN d.own ELSE s.requested
\* The dataset's own value, also without one, then the default of the file, then
\* the command line.
SamplesPer(s, d) ==
  IF d.own # Unwritten THEN d.own
  ELSE IF s.default # Unwritten THEN s.default ELSE s.requested

DatasetIds == DOMAIN setup.datasets
Attempts(d) == SamplesPer(setup, setup.datasets[d])
TasksOf(d) == (1 .. setup.datasets[d].prompts) \X (1 .. Attempts(d))
Before(d, t) == (t[1] - 1) * Attempts(d) + t[2] - 1     \* sample_index

EvalRolloutInit ==
  /\ setup \in Setups /\ evalAt = "start" /\ logged = << >>
  /\ inFlight = << >> /\ generated = << >> /\ arrived = << >>

StartEval ==
  /\ evalAt = "start"
  /\ IF \E d \in DatasetIds : Attempts(d) = Null      \* range(None)
     THEN evalAt' = "failed" /\ UNCHANGED <<inFlight, generated, arrived>>
     ELSE /\ evalAt' = "generate"
          /\ inFlight' = [d \in DatasetIds |-> TasksOf(d)]
          /\ generated' = [d \in DatasetIds |-> [t \in TasksOf(d) |-> << >>]]
          /\ arrived' = [d \in DatasetIds |-> << >>]
  /\ UNCHANGED <<setup, logged>>

\* A task ends, with one sample or with one per turn.
Indexed(d, t, samples) ==
  [i \in DOMAIN samples |->
     [of |-> <<d, t>>, status |-> samples[i].status, reward |-> samples[i].reward,
      index |-> IF samples[i].turn THEN TurnRoom * Before(d, t) + i - 1 ELSE Before(d, t)]]
TaskEnds(d, t) ==
  /\ evalAt = "generate" /\ t \in inFlight[d]
  /\ \E samples \in Returns :
       /\ generated' = [generated EXCEPT ![d][t] = samples]
       /\ arrived' = [arrived EXCEPT ![d] = @ \o Indexed(d, t, samples)]
  /\ inFlight' = [inFlight EXCEPT ![d] = @ \ {t}]
  /\ UNCHANGED <<setup, evalAt, logged>>

-----------------------------------------------------------------------------
(* What is returned and logged.                                                *)

\* Mutant: the samples stay in the order of completion.
AsArrived(samples) == samples
\* data.sort(key=index), which is stable.
ByIndex(samples) ==
  LET order == SortSeq([i \in DOMAIN samples |-> i],
                       LAMBDA i, k : \/ samples[i].index < samples[k].index
                                     \/ samples[i].index = samples[k].index /\ i < k)
  IN  [i \in DOMAIN order |-> samples[order[i]]]

\* results.update: of datasets with one name the last one is left.
Names == {setup.datasets[d].name : d \in DatasetIds}
Winner(name) == Max({d \in DatasetIds : setup.datasets[d].name = name})

\* sample.reward[reward_key] of a sample without a reward.
KeyRaises == setup.keyed # "none" /\ \E d \in DatasetIds : \E i \in DOMAIN arrived[d] : arrived[d][i].reward = Unrewarded

Rewards(samples) ==
  SelectSeq([i \in DOMAIN samples |-> samples[i].reward], LAMBDA r : r # Unrewarded)
\* get_reward_value knows --reward-key and not --eval-reward-key: the reward it
\* compares with 1 is a dictionary then.
Succeeded(samples) ==
  {i \in DOMAIN samples : samples[i].status # "aborted" /\ samples[i].reward = 1 /\ setup.keyed # "eval"}

\* compute_pass_rate: correct answers per group of --n-samples-per-eval-prompt.
PassRated == setup.passRate /\ setup.requested # 1
PassRateRaises(samples) == PassRated /\ Len(Rewards(samples)) % setup.requested # 0
Correct(samples) ==
  LET n == setup.requested
  IN  [g \in 1 .. Len(Rewards(samples)) \div n |->
         Cardinality({i \in (g - 1) * n + 1 .. g * n : Rewards(samples)[i] = 1})]

Logged(samples) ==
  [data |-> samples, successes |-> Cardinality(Succeeded(samples)),
   aborted |-> Cardinality({i \in DOMAIN samples : samples[i].status = "aborted"}),
   correct |-> IF PassRated THEN Correct(samples) ELSE << >>]

EndEval ==
  /\ evalAt = "generate" /\ \A d \in DatasetIds : inFlight[d] = {}
  /\ LET result == [name \in Names |-> ByIndex(arrived[Winner(name)])]
     IN  IF KeyRaises \/ \E name \in Names : PassRateRaises(result[name])
         THEN evalAt' = "failed" /\ UNCHANGED logged
         ELSE evalAt' = "done" /\ logged' = [name \in Names |-> Logged(result[name])]
  /\ UNCHANGED <<setup, inFlight, generated, arrived>>

EvalRolloutNext == \/ StartEval \/ EndEval
                   \/ \E d \in DOMAIN inFlight : \E t \in inFlight[d] : TaskEnds(d, t)

-----------------------------------------------------------------------------
Whole(d) == \A t \in TasksOf(d) : Len(generated[d][t]) = 1 /\ ~generated[d][t][1].turn
Rewarded(d) == \A t \in TasksOf(d) : \A i \in DOMAIN generated[d][t] : generated[d][t][i].reward # Unrewarded
\* The groups of compute_pass_rate are the attempts at a prompt.
LinedUp(d) == Whole(d) /\ Rewarded(d) /\ setup.datasets[d].own \in {Unwritten, setup.requested}
                       /\ setup.default \in {Unwritten, setup.requested}
Unique(d) == \A e \in DatasetIds : setup.datasets[e].name = setup.datasets[d].name => e = d
\* A value that is written wins, and one of the command line never hides it.
Meant(d) == LET written == setup.datasets[d].own
            IN  written # Unwritten => \A p \in 1 .. setup.datasets[d].prompts :
                  Cardinality({t \in DOMAIN generated[d] : t[1] = p}) = written

\* Whatever order the samples of several datasets end in: each dataset logs the
\* samples of its own tasks, each once, with the turns of a task in order, as many
\* attempts as were written for it; with one sample per attempt they are in the
\* order of the prompts, and successes, aborted ones and the groups behind pass@k
\* are counted over the right attempts (eval_rollout_single_dataset,
\* _log_eval_rollout_data).  What can fail the evaluation is a key of a missing
\* reward, an empty number of attempts, and groups that do not line up.
EvalRolloutExact ==
  /\ evalAt = "done" => \A d \in DatasetIds : Unique(d) =>
       LET l == logged[setup.datasets[d].name]
           order == [i \in DOMAIN l.data |-> Before(d, l.data[i].of[2])]
       IN  /\ Meant(d)
           /\ \A i \in DOMAIN l.data : l.data[i].of[1] = d
           /\ \A t \in TasksOf(d) :
                SelectSeq(l.data, LAMBDA x : x.of[2] = t) = Indexed(d, t, generated[d][t])
           /\ Whole(d) =>
                /\ \A i, k \in DOMAIN order : i < k => order[i] < order[k]
                /\ l.aborted = Cardinality({t \in TasksOf(d) : generated[d][t][1].status = "aborted"})
                /\ setup.keyed # "eval" =>
                     l.successes = Cardinality({t \in TasksOf(d) : generated[d][t][1].reward = 1
                                                  /\ generated[d][t][1].status # "aborted"})
           /\ LinedUp(d) /\ PassRated =>
                l.correct = [p \in 1 .. setup.datasets[d].prompts |->
                               Cardinality({j \in 1 .. Attempts(d) : generated[d][<<p, j>>][1].reward = 1})]
  /\ evalAt = "failed" =>
       \/ \E d \in DatasetIds : Attempts(d) = Null
       \/ \E d \in DatasetIds : setup.keyed # "none" /\ ~Rewarded(d)
       \/ \E d \in DatasetIds : PassRated /\ ~LinedUp(d)
=============================================================================
