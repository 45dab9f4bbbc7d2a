------------------------------ MODULE Evaluation ------------------------------
(***************************************************************************)
(* The evaluation of a checkpoint (run_evaluate.py): tasks run side by     *)
(* side under a semaphore and a time limit each, a judge scores what they  *)
(* leave (reward_browser.py, eval/reward_*.py), and the summary counts     *)
(* successes.  The judge is an API whose calls time out and fail.          *)
(*                                                                         *)
(* A text of the model is a sequence of blocks: "think", "action" and      *)
(* "coded" (an action that looks like a function call), "call", "done" and *)
(* "cut" (tool calls, the last one no valid JSON), "prose".  A reply of    *)
(* the judge is the sequence of the verdicts its text mentions.            *)
(***************************************************************************)
EXTENDS Integers, FiniteSets, SequencesExt

CONSTANTS
  EvalTask,
  Protocols,      \* --eval-protocol; "browser" with one of two response formats
  Episodes,       \* how a generation may end, see below
  Replies,        \* what the judge may write: sequences of "yes" and "no"
  Parallel,       \* --n-parallel
  JudgeSlots,     \* _REWARD_CONCURRENCY
  MaxFailures,    \* bound: judge calls that fail or time out, of one task
  MaxTimeouts     \* bound: tasks that run out of their time
ASSUME EvaluationAssumption ==
  /\ IsFiniteSet(EvalTask)
  /\ Protocols \subseteq {"slime", "browser_env", "webvoyager", "online_mind2web", "deepshop"}
  /\ \A e \in Episodes :
       /\ e.status \in {"completed", "failed", "aborted", "pending"}
       /\ e.reason \in {"done", "format_error_failed"}
       /\ e.marked \in BOOLEAN     \* a turn has is_last_turn
       /\ e.perTurn \in BOOLEAN    \* a sample for each turn, or one for all
       /\ e.texts \in Seq(Seq({"think", "action", "coded", "call", "done", "cut", "prose"}))
  /\ Replies \subseteq Seq({"yes", "no"})
  /\ Parallel \in Nat \ {0} /\ JudgeSlots \in Nat \ {0} /\ MaxFailures \in Nat /\ MaxTimeouts \in Nat

VARIABLES
  protocol,
  phase,        \* of evaluate_all: "rest", "running", "over", "interrupted"
  taskAt,       \* where each task is
  episode,      \* what its generation left
  calls,        \* the outcomes of its judge calls, in order
  result,       \* what its coroutine returned
  files,        \* results_task_<id>.jsonl or abnormal_task_<id>.jsonl
  completedResults, abnormalResults,    \* tasks whose end was awaited, in order
  timeouts
collected == <<completedResults, abnormalResults>>
evalVars == <<protocol, phase, taskAt, episode, calls, result, files, collected, timeouts>>

NoResult == [is |-> "none", reward |-> 0, why |-> "none"]
Completed(reward) == [is |-> "completed", reward |-> reward, why |-> "none"]
Abnormal(why) == [is |-> "abnormal", reward |-> 0, why |-> why]
Unknown == 2    \* the reward None

In(stages) == {t \in EvalTask : taskAt[t] \in stages}
Moves(t, s) == taskAt' = [taskAt EXCEPT ![t] = s]

Training == protocol \in {"slime", "browser_env"}    \* the reward the model is trained with
Mentions(words, w) == w \in Range(words)

---------------------------------------------------------------------------
(* The texts: ToolParser and the format reward *)
\* _parse_regex: the tool calls in order, or none if one is no JSON.
Parsed(text) ==
  LET tagged == SelectSeq(text, LAMBDA b : b \in {"call", "done", "cut"})
  IN IF Mentions(tagged, "cut") THEN << >> ELSE tagged

\* _compute_turn_format_reward_slime: thinking, an action in words and a tool
\* call, in that order, where other blocks may stand between the first thinking
\* and the last, and between the first action and the last.
FormedSlime(text) ==
  LET acts == {i \in DOMAIN text : text[i] \in {"action", "coded"}}
  IN /\ Parsed(text) # << >> /\ acts # {} /\ text[Min(acts)] = "action"
     /\ Head(text) = "think" /\ Last(text) \in {"call", "done", "cut"}
     /\ \E i \in DOMAIN text, j \in acts, k \in DOMAIN text :
          /\ i < j /\ j < k /\ text[i] = "think" /\ i + 1 \in acts
          /\ j + 1 = k /\ text[k] \in {"call", "done", "cut"}
\* _compute_turn_format_reward_browser_env.
FormedBrowserEnv(text) == Mentions(text, "think") /\ Parsed(text) # << >>
Formed(text) == IF protocol = "slime" THEN FormedSlime(text) ELSE FormedBrowserEnv(text)

\* compute_format_reward: the last turn of turn-level samples, every turn that
\* is not empty of a trajectory.
FormatKept(e) ==
  IF e.perTurn THEN Formed(Last(e.texts))
  ELSE LET said == {n \in DOMAIN e.texts : e.texts[n] # << >>}
       IN said # {} /\ \A n \in said : Formed(e.texts[n])

\* _extract_final_answer: the text that is judged, of one turn or of all, has a
\* done call; the format "slime" falls back on its last lines.
ScoredText(e) == IF e.perTurn THEN Last(e.texts) ELSE FlattenSeq(e.texts)
HasAnswer(e) ==
  IF protocol = "slime" THEN ScoredText(e) # << >>
  ELSE LET called == Parsed(ScoredText(e)) IN called # << >> /\ Last(called) = "done"

---------------------------------------------------------------------------
(* The judge *)
\* Mutant: "SUCCESS" is looked for first, and "NOT SUCCESS" contains it.
TrainingVerdictAny(words) == IF words = << >> THEN 0 ELSE 1
\* What the text of an answered call is worth: for training, ...
TrainingVerdict(words) == IF Mentions(words, "yes") /\ ~Mentions(words, "no") THEN 1 ELSE 0
\* ... for WebVoyager, which tells a text without a verdict from a failure, ...
VoyagerVerdict(words) ==
  IF Mentions(words, "no") THEN 0 ELSE IF Mentions(words, "yes") THEN 1 ELSE Unknown
\* ... for Online-Mind2Web, where all that follows "status:" is read, ...
Mind2WebVerdict(words) ==
  IF words = << >> THEN Unknown ELSE IF Mentions(words, "yes") THEN 1 ELSE 0
\* ... and for DeepShop, whose answer is one verdict or a refusal.
DeepShopVerdict(words) == IF words = << >> THEN Unknown ELSE IF words = <<"yes">> THEN 1 ELSE 0
Verdict(words) ==
  CASE protocol = "webvoyager" -> VoyagerVerdict(words)
    [] protocol = "online_mind2web" -> Mind2WebVerdict(words)
    [] protocol = "deepshop" -> DeepShopVerdict(words)
    [] Training -> TrainingVerdict(words)

\* Which episodes a judge is asked about at all; Online-Mind2Web reads the
\* actions instead of the answer.
JudgedForTraining(e) ==
  e.reason # "format_error_failed" /\ e.status = "completed" /\ HasAnswer(e)
JudgedForBenchmark(e) ==
  e.status = "completed" /\ (protocol = "online_mind2web" \/ HasAnswer(e))
Judged(e) == IF Training THEN JudgedForTraining(e) ELSE JudgedForBenchmark(e)

\* How the verdict and the format make the reward.
TrainingReward(e, verdict) ==
  IF e.reason = "format_error_failed" THEN -1
  ELSE IF FormatKept(e) /\ verdict = 1 THEN 1 ELSE 0
Reward(e, verdict) == IF Training THEN TrainingReward(e, verdict) ELSE verdict

\* max_retries, and the verdict when no call was answered.
Attempts == IF Training THEN 3 ELSE 4
Exhausted == IF Training THEN 0 ELSE Unknown

---------------------------------------------------------------------------
(* One task: run_with_sem and evaluate_single_task *)
Write(t, r) ==
  /\ result' = [result EXCEPT ![t] = r]
  /\ files' = [files EXCEPT ![t] = r.is]
  /\ Moves(t, "done")

\* _is_summary_eligible: a pending episode is abnormal.
Return(t, reward) ==
  Write(t, IF episode[t].status = "pending" THEN Abnormal("pending_result") ELSE Completed(reward))

\* The semaphore lets a task in.
StartTask(t) ==
  /\ phase = "running" /\ taskAt[t] = "waiting"
  /\ Cardinality(In({"generating", "scoring", "asking", "pausing", "closing"})) < Parallel
  /\ Moves(t, "generating")
  /\ UNCHANGED <<protocol, phase, episode, calls, result, files, collected, timeouts>>

\* generate_turn_sample or generate_trajectory_sample returns.
Sampled(t, e) ==
  /\ phase = "running" /\ taskAt[t] = "generating"
  /\ episode' = [episode EXCEPT ![t] = e]
  /\ Moves(t, "scoring")
  /\ UNCHANGED <<protocol, phase, calls, result, files, collected, timeouts>>

\* reward_func: no turn is marked as the last one, and it raises.
NoLastTurn(t) ==
  /\ phase = "running" /\ taskAt[t] = "scoring" /\ ~episode[t].marked
  /\ Write(t, Abnormal("exception"))
  /\ UNCHANGED <<protocol, phase, episode, calls, collected, timeouts>>

\* _score_single_sample, once _reward_semaphore lets it in: the judge is not
\* asked about an episode that did not complete or has no answer ...
ScoreUnasked(t) ==
  /\ phase = "running" /\ taskAt[t] = "scoring" /\ episode[t].marked
  /\ Cardinality(In({"asking", "pausing"})) < JudgeSlots
  /\ ~Judged(episode[t])
  /\ Return(t, Reward(episode[t], 0))
  /\ UNCHANGED <<protocol, phase, episode, calls, collected, timeouts>>
\* ... and otherwise its first call is made.
Ask(t) ==
  /\ phase = "running" /\ taskAt[t] = "scoring" /\ episode[t].marked
  /\ Cardinality(In({"asking", "pausing"})) < JudgeSlots
  /\ Judged(episode[t])
  /\ Moves(t, "asking")
  /\ UNCHANGED <<protocol, phase, episode, calls, result, files, collected, timeouts>>

\* An answer ends the judging.
Answer(t, words) ==
  /\ phase = "running" /\ taskAt[t] = "asking"
  /\ protocol = "deepshop" => Len(words) <= 1
  /\ calls' = [calls EXCEPT ![t] = Append(@, [answered |-> TRUE, words |-> words])]
  /\ Return(t, Reward(episode[t], Verdict(words)))
  /\ UNCHANGED <<protocol, phase, episode, collected, timeouts>>

\* A call times out or fails: a pause and the next attempt, or none is left.
CallFails(t) ==
  /\ phase = "running" /\ taskAt[t] = "asking"
  /\ Len(calls[t]) < MaxFailures
  /\ calls' = [calls EXCEPT ![t] = Append(@, [answered |-> FALSE, words |-> << >>])]
  /\ IF Len(calls[t]) + 1 < Attempts
     THEN Moves(t, "pausing") /\ UNCHANGED <<result, files>>
     ELSE Return(t, Reward(episode[t], Exhausted))
  /\ UNCHANGED <<protocol, phase, episode, collected, timeouts>>
AskAgain(t) ==
  /\ phase = "running" /\ taskAt[t] = "pausing"
  /\ Moves(t, "asking")
  /\ UNCHANGED <<protocol, phase, episode, calls, result, files, collected, timeouts>>

\* asyncio.wait_for cancels a task that is over its time: whatever it does then
\* is cut, and its environment is closed before the time-out is raised.
TaskTimeout(t) ==
  /\ phase = "running" /\ timeouts < MaxTimeouts
  /\ taskAt[t] \in {"generating", "scoring", "asking", "pausing"}
  /\ timeouts' = timeouts + 1
  /\ Moves(t, "closing")
  /\ UNCHANGED <<protocol, phase, episode, calls, result, files, collected>>
TimedOut(t) ==
  /\ phase = "running" /\ taskAt[t] = "closing"
  /\ Write(t, Abnormal("task_timeout"))
  /\ UNCHANGED <<protocol, phase, episode, calls, collected, timeouts>>

---------------------------------------------------------------------------
(* evaluate_all and get_summary *)
Collected == Range(completedResults) \cup Range(abnormalResults)

\* as_completed yields what has ended; each is appended to its list.
Collect(t) ==
  /\ phase = "running" /\ taskAt[t] = "done" /\ t \notin Collected
  /\ \/ /\ result[t].is = "completed"
        /\ completedResults' = Append(completedResults, t) /\ UNCHANGED abnormalResults
     \/ /\ result[t].is = "abnormal"
        /\ abnormalResults' = Append(abnormalResults, t) /\ UNCHANGED completedResults
  /\ phase' = IF Len(completedResults) + Len(abnormalResults) + 1 = Cardinality(EvalTask)
              THEN "over" ELSE phase
  /\ UNCHANGED <<protocol, taskAt, episode, calls, result, files, timeouts>>

\* The run is interrupted: a task that has its slot writes that it was
\* cancelled, one that waits for it writes nothing, and there is no summary.
Interrupt ==
  /\ phase = "running"
  /\ phase' = "interrupted"
  /\ LET cut == In({"generating", "scoring", "asking", "pausing", "closing"})
     IN /\ result' = [t \in EvalTask |-> IF t \in cut THEN Abnormal("cancelled") ELSE result[t]]
        /\ files' = [t \in EvalTask |-> IF t \in cut THEN "abnormal" ELSE files[t]]
  /\ taskAt' = [t \in EvalTask |-> "done"]
  /\ UNCHANGED <<protocol, episode, calls, collected, timeouts>>

\* get_summary.
Succeeded == {t \in Range(completedResults) : result[t].reward = 1}
Summary == [total |-> Len(completedResults), succeeded |-> Cardinality(Succeeded),
            abnormal |-> Len(abnormalResults)]

EvalBegin ==
  /\ phase = "running"
  /\ taskAt = [t \in EvalTask |-> "waiting"]
  /\ episode = [t \in EvalTask |-> CHOOSE e \in Episodes : TRUE]
  /\ calls = [t \in EvalTask |-> << >>]
  /\ result = [t \in EvalTask |-> NoResult]
  /\ files = [t \in EvalTask |-> "none"]
  /\ completedResults = << >> /\ abnormalResults = << >> /\ timeouts = 0
EvalInit == protocol \in Protocols /\ EvalBegin

EvalNext ==
  \/ \E t \in EvalTask :
       \/ StartTask(t) \/ NoLastTurn(t) \/ ScoreUnasked(t) \/ Ask(t) \/ CallFails(t) \/ AskAgain(t)
       \/ TaskTimeout(t) \/ TimedOut(t) \/ Collect(t)
       \/ \E e \in Episodes : Sampled(t, e)
       \/ \E words \in Replies : Answer(t, words)
  \/ Interrupt

EvalSpec == EvalInit /\ [][EvalNext]_evalVars

---------------------------------------------------------------------------
\* What the summary says is what happened: every task is counted once; a
\* success is an episode that completed, kept the format where that counts, and
\* whose last call of the judge was answered with a "yes" that no "no"
\* contradicts (Online-Mind2Web: with a "yes"); no such episode is missed,
\* unless it ran out of time; no reward is made up for an episode whose judge
\* did not answer or said nothing; and the file of a task tells what its entry
\* tells, also when the run was interrupted.
SaidYes(t) ==
  /\ calls[t] # << >> /\ Last(calls[t]).answered
  /\ Mentions(Last(calls[t]).words, "yes")
  /\ protocol # "online_mind2web" => ~Mentions(Last(calls[t]).words, "no")
Deserved(t) ==
  /\ episode[t].status = "completed" /\ SaidYes(t)
  /\ Training => FormatKept(episode[t])
SilentJudge(t) == calls[t] # << >> /\ Last(calls[t]).words = << >>
EvalExact ==
  /\ phase = "over" =>
       /\ IsInjective(completedResults) /\ IsInjective(abnormalResults)
       /\ Collected = EvalTask /\ Range(completedResults) \cap Range(abnormalResults) = {}
       /\ Summary.total + Summary.abnormal = Cardinality(EvalTask)
       /\ Succeeded = {t \in EvalTask : Deserved(t) /\ result[t].why # "task_timeout"}
  /\ \A t \in EvalTask :
       /\ files[t] = result[t].is
       /\ result[t].is = "completed" =>
            /\ episode[t].status # "pending"
            /\ SilentJudge(t) /\ ~Training => result[t].reward = Unknown
            /\ result[t].reward = Unknown => SilentJudge(t)
=============================================================================
