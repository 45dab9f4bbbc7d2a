--------------------------- MODULE JudgingProofs ---------------------------
(* Proofs about the two ways tasks are judged outside of training: the        *)
(* evaluation of a checkpoint (Evaluation) and the offline judges             *)
(* (JudgeBench), for any number of tasks, records, protocols, failures, kills *)
(* and resumed runs.                                                          *)
EXTENDS Judging, FiniteSetTheorems, TLAPS

-----------------------------------------------------------------------------
(* Sequences without repetition.                                              *)

\* One that has no element twice is as long as it has elements.
LEMMA DistinctSeq ==
  ASSUME NEW S, NEW s \in Seq(S), IsInjective(s)
  PROVE  IsFiniteSet(Range(s)) /\ Cardinality(Range(s)) = Len(s) /\ Range(s) \subseteq S
  <1> DEFINE D == 1 .. Len(s)
  <1>1. Len(s) \in Nat /\ DOMAIN s = D /\ s \in [D -> S]
    OBVIOUS
  <1>2. IsFiniteSet(D) /\ Cardinality(D) = Len(s)
    BY <1>1, FS_Interval
  <1>3. s \in Bijection(D, Range(s))
    <2>1. s \in [D -> Range(s)]
      BY <1>1 DEF Range
    <2>2. \A a, b \in D : s[a] = s[b] => a = b
      BY <1>1 DEF IsInjective
    <2>3. \A t \in Range(s) : \E a \in D : s[a] = t
      BY <1>1 DEF Range
    <2> QED
      BY <2>1, <2>2, <2>3 DEF Bijection, Injection, Surjection
  <1>4. IsFiniteSet(Range(s)) /\ Cardinality(Range(s)) = Cardinality(D)
    BY <1>2, <1>3, FS_Bijection DEF ExistsBijection
  <1>5. Range(s) \subseteq S
    BY <1>1 DEF Range
  <1> QED
    BY <1>2, <1>4, <1>5

\* It stays one when an element that it does not have is appended.
LEMMA AppendNew ==
  ASSUME NEW S, NEW s \in Seq(S), IsInjective(s), NEW x \in S, x \notin Range(s)
  PROVE  /\ Append(s, x) \in Seq(S) /\ IsInjective(Append(s, x))
         /\ Range(Append(s, x)) = Range(s) \cup {x} /\ Len(Append(s, x)) = Len(s) + 1
  <1>1. /\ Append(s, x) \in Seq(S) /\ Len(Append(s, x)) = Len(s) + 1
        /\ \A i \in 1 .. Len(s) : Append(s, x)[i] = s[i]
        /\ Append(s, x)[Len(s) + 1] = x
    OBVIOUS
  <1>2. DOMAIN s = 1 .. Len(s) /\ DOMAIN Append(s, x) = 1 .. (Len(s) + 1) /\ Len(s) \in Nat
    BY <1>1
  <1>3. \A i \in 1 .. Len(s) : s[i] # x
    BY <1>2 DEF Range
  <1>4. IsInjective(Append(s, x))
    BY <1>1, <1>2, <1>3 DEF IsInjective
  <1>5. Range(Append(s, x)) = Range(s) \cup {x}
    <2>1. 1 .. (Len(s) + 1) = 1 .. Len(s) \cup {Len(s) + 1}
      BY <1>2
    <2> HIDE DEF Range
    <2>2. ASSUME NEW y PROVE y \in Range(Append(s, x)) <=> y \in Range(s) \cup {x}
      BY <1>1, <1>2, <2>1 DEF Range
    <2> QED
      BY <2>2
  <1> QED
    BY <1>1, <1>4, <1>5

\* A sequence that is not empty has a last element.
LEMMA NotEmpty ==
  ASSUME NEW S, NEW s \in Seq(S), s # << >>
  PROVE  Len(s) \in Nat \ {0} /\ Last(s) \in S
  <1>1. Len(s) \in Nat /\ s \in [1 .. Len(s) -> S]
    OBVIOUS
  <1>2. Len(s) # 0
    <2>1. << >> \in [1 .. 0 -> S]
      OBVIOUS
    <2>2. ASSUME NEW r \in [1 .. 0 -> S], NEW q \in [1 .. 0 -> S] PROVE r = q
      <3>1. 1 .. 0 = {}
        OBVIOUS
      <3> QED
        BY <3>1
    <2> QED
      BY <1>1, <2>1, <2>2
  <1>3. Len(s) \in 1 .. Len(s)
    BY <1>1, <1>2
  <1> QED
    BY <1>1, <1>2, <1>3 DEF Last

-----------------------------------------------------------------------------
(* Evaluation.                                                                *)

Stages  == {"waiting", "generating", "scoring", "asking", "pausing", "closing", "done"}
Calls   == Seq([answered : BOOLEAN, words : Seq({"yes", "no"})])
Results == [is : {"none", "completed", "abnormal"}, reward : -1 .. 2,
            why : {"none", "pending_result", "exception", "task_timeout", "cancelled"}]

EvalTypeOK ==
  /\ protocol \in Protocols /\ phase \in {"running", "over", "interrupted"}
  /\ taskAt \in [EvalTask -> Stages]
  /\ DOMAIN episode = EvalTask /\ episode = [t \in EvalTask |-> episode[t]]
  /\ calls \in [EvalTask -> Calls] /\ result \in [EvalTask -> Results]
  /\ files \in [EvalTask -> {"none", "completed", "abnormal"}]
  /\ completedResults \in Seq(EvalTask) /\ abnormalResults \in Seq(EvalTask)

\* What the calls c of the judge make of an episode e.
Worth(e, c) ==
  IF c = << >> THEN Reward(e, 0)
  ELSE IF Last(c).answered THEN Reward(e, Verdict(Last(c).words)) ELSE Reward(e, Exhausted)

\* What a task at stage s with the episode e and the calls c may have as its
\* result r.  An unanswered call has no words; a task with a reward has the one
\* it is worth; one without ended early, was not judged, or had no time.
Fits(s, e, c, r) ==
  /\ c # << >> => /\ ~Last(c).answered => Last(c).words = << >>
                  /\ protocol = "deepshop" => Len(Last(c).words) <= 1
  /\ s # "done" => r = NoResult
  /\ s \in {"waiting", "generating", "scoring"} => c = << >>
  /\ s \in {"asking", "pausing"} => Judged(e)
  /\ r.is = "completed" => /\ e.status # "pending" /\ (c # << >> => Judged(e))
                           /\ r.reward = Worth(e, c) /\ r.why = "none"
  /\ r.is = "abnormal" => \/ r.why \in {"task_timeout", "cancelled"}
                          \/ e.status = "pending" \/ c = << >>
TaskFits(t) ==
  \A s \in {taskAt[t]}, e \in {episode[t]}, c \in {calls[t]}, r \in {result[t]} : Fits(s, e, c, r)

\* The two lists have no task twice, and no task of the other.
ListsOK ==
  /\ IsInjective(completedResults) /\ IsInjective(abnormalResults)
  /\ \A t \in Range(completedResults) : result[t].is = "completed"
  /\ \A t \in Range(abnormalResults) : result[t].is = "abnormal"
  /\ phase = "over" => Len(completedResults) + Len(abnormalResults) = Cardinality(EvalTask)

\* What a task leaves behind when it ends.
Filed(t) ==
  /\ files[t] = result[t].is
  /\ phase # "interrupted" => /\ taskAt[t] = "done" => result[t].is # "none"
                              /\ result[t].why # "cancelled"

EvalInv == /\ EvalTypeOK /\ ListsOK
           /\ \A t \in EvalTask : TaskFits(t) /\ Filed(t)

\* What an episode is worth depends on the protocol only, and that is fixed.
LEMMA ProtocolFixed ==
  ASSUME protocol' = protocol, NEW s, NEW e, NEW c, NEW r
  PROVE  Fits(s, e, c, r)' <=> Fits(s, e, c, r)
  <1>1. Training' = Training
    BY DEF Training
  <1>2. Judged(e)' = Judged(e)
    BY <1>1 DEF Judged, JudgedForTraining, JudgedForBenchmark, HasAnswer, ScoredText
  <1>3. FormatKept(e)' = FormatKept(e)
    BY DEF FormatKept, Formed
  <1>4. \A v : Reward(e, v)' = Reward(e, v)
    BY <1>1, <1>3 DEF Reward, TrainingReward
  <1>5. \A w : Verdict(w)' = Verdict(w)
    BY <1>1 DEF Verdict
  <1>6. Exhausted' = Exhausted
    BY <1>1 DEF Exhausted
  <1>7. Worth(e, c)' = Worth(e, c)
    BY <1>4, <1>5, <1>6 DEF Worth
  <1> QED
    BY <1>2, <1>7 DEF Fits

\* Every verdict is a number or unknown, and so is every reward.
LEMMA VerdictRange ==
  ASSUME EvaluationAssumption, protocol \in Protocols, NEW words
  PROVE  Verdict(words) \in {0, 1, Unknown} /\ Exhausted \in {0, Unknown}
  BY DEF EvaluationAssumption, Verdict, Training, VoyagerVerdict, Mind2WebVerdict, DeepShopVerdict,
     TrainingVerdict, Exhausted, Unknown
LEMMA RewardRange ==
  ASSUME NEW e, NEW v \in {0, 1, Unknown}
  PROVE  Reward(e, v) \in -1 .. 2 /\ Unknown \in -1 .. 2
  BY DEF Reward, TrainingReward, Unknown

\* How a task ends with an entry: Return, after the calls c.
LEMMA ReturnGives ==
  ASSUME EvalTypeOK, NEW t \in EvalTask, NEW v, v \in -1 .. 2, Return(t, v)
  PROVE  \E r \in Results :
           /\ r = IF episode[t].status = "pending" THEN Abnormal("pending_result") ELSE Completed(v)
           /\ result' = [result EXCEPT ![t] = r] /\ files' = [files EXCEPT ![t] = r.is]
           /\ taskAt' = [taskAt EXCEPT ![t] = "done"]
           /\ r.is # "none" /\ r.why # "cancelled"
  <1> DEFINE r == IF episode[t].status = "pending" THEN Abnormal("pending_result") ELSE Completed(v)
  <1>1. r \in Results /\ r.is # "none" /\ r.why # "cancelled"
    BY DEF Results, Abnormal, Completed
  <1> QED
    BY <1>1 DEF Return, Write, Moves

\* Types.
LEMMA EvalTypeStep == EvaluationAssumption /\ EvalInv /\ [EvalNext]_evalVars => EvalTypeOK'
  <1> SUFFICES ASSUME EvaluationAssumption, EvalInv, [EvalNext]_evalVars PROVE EvalTypeOK'
    OBVIOUS
  <1>a. EvalTypeOK /\ ListsOK
    BY DEF EvalInv
  <1>0. CASE UNCHANGED evalVars
    BY <1>0, <1>a DEF evalVars, collected, EvalTypeOK
  <1>1. ASSUME NEW t \in EvalTask, NEW v \in -1 .. 2, Return(t, v),
               protocol' = protocol, phase' = phase, episode' = episode, collected' = collected,
               calls' \in [EvalTask -> Calls]
        PROVE  EvalTypeOK'
    <2>1. PICK r \in Results :
            /\ result' = [result EXCEPT ![t] = r] /\ files' = [files EXCEPT ![t] = r.is]
            /\ taskAt' = [taskAt EXCEPT ![t] = "done"] /\ r.is # "none"
      BY <1>1, <1>a, ReturnGives
    <2>2. r.is \in {"none", "completed", "abnormal"}
      BY DEF Results
    <2> QED
      BY <1>a, <1>1, <2>1, <2>2 DEF EvalTypeOK, collected, Stages
  <1>2. ASSUME NEW t \in EvalTask, NEW w, w \in {"exception", "task_timeout"}, Write(t, Abnormal(w)),
               UNCHANGED <<protocol, phase, episode, calls, collected>>
        PROVE  EvalTypeOK'
    <2>1. Abnormal(w) \in Results /\ Abnormal(w).is = "abnormal"
      BY <1>2 DEF Abnormal, Results
    <2> QED
      BY <1>a, <1>2, <2>1 DEF Write, Moves, EvalTypeOK, collected, Stages
  <1>3. ASSUME NEW t \in EvalTask, StartTask(t) \/ Ask(t) \/ AskAgain(t) \/ TaskTimeout(t)
        PROVE  EvalTypeOK'
    BY <1>3, <1>a DEF StartTask, Ask, AskAgain, TaskTimeout, Moves, EvalTypeOK, collected, Stages
  <1>4. ASSUME NEW t \in EvalTask, NEW e \in Episodes, Sampled(t, e) PROVE EvalTypeOK'
    BY <1>4, <1>a, ZenonT(30) DEF Sampled, Moves, EvalTypeOK, collected, Stages
  <1>5. ASSUME NEW t \in EvalTask, NoLastTurn(t) \/ TimedOut(t) PROVE EvalTypeOK'
    BY <1>2, <1>5 DEF NoLastTurn, TimedOut
  <1>6. ASSUME NEW t \in EvalTask, ScoreUnasked(t) PROVE EvalTypeOK'
    <2>1. Reward(episode[t], 0) \in -1 .. 2
      BY RewardRange
    <2> QED
      BY <1>1, <1>6, <1>a, <2>1 DEF ScoreUnasked, EvalTypeOK
  <1>7. ASSUME NEW t \in EvalTask, NEW words \in Replies, Answer(t, words) PROVE EvalTypeOK'
    <2>1. Reward(episode[t], Verdict(words)) \in -1 .. 2
      BY <1>a, RewardRange, VerdictRange DEF EvalTypeOK
    <2>2. words \in Seq({"yes", "no"})
      BY DEF EvaluationAssumption
    <2>3. calls' \in [EvalTask -> Calls]
      <3>1. Append(calls[t], [answered |-> TRUE, words |-> words]) \in Calls
        BY <1>a, <2>2 DEF EvalTypeOK, Calls
      <3> QED
        BY <1>7, <1>a, <3>1 DEF Answer, EvalTypeOK
    <2> QED
      BY <1>1, <1>7, <2>1, <2>3 DEF Answer
  <1>8. ASSUME NEW t \in EvalTask, CallFails(t) PROVE EvalTypeOK'
    <2>1. Reward(episode[t], Exhausted) \in -1 .. 2
      BY <1>a, RewardRange, VerdictRange DEF EvalTypeOK
    <2>2. calls' \in [EvalTask -> Calls]
      <3>1. << >> \in Seq({"yes", "no"})
        OBVIOUS
      <3>2. Append(calls[t], [answered |-> FALSE, words |-> << >>]) \in Calls
        BY <1>a, <3>1 DEF EvalTypeOK, Calls
      <3> QED
        BY <1>8, <1>a, <3>2 DEF CallFails, EvalTypeOK
    <2>3. CASE Len(calls[t]) + 1 < Attempts
      BY <1>8, <1>a, <2>2, <2>3, SMTT(30) DEF CallFails, Moves, EvalTypeOK, collected, Stages
    <2>4. CASE ~(Len(calls[t]) + 1 < Attempts)
      BY <1>1, <1>8, <2>1, <2>2, <2>4 DEF CallFails
    <2> QED
      BY <2>3, <2>4
  <1>9. ASSUME NEW t \in EvalTask, Collect(t) PROVE EvalTypeOK'
    <2>1. UNCHANGED <<protocol, taskAt, episode, calls, result, files>>
      BY <1>9 DEF Collect
    <2>2. phase' \in {"running", "over"}
      BY <1>9 DEF Collect
    <2>3. completedResults' \in Seq(EvalTask) /\ abnormalResults' \in Seq(EvalTask)
      <3>1. /\ Append(completedResults, t) \in Seq(EvalTask)
            /\ Append(abnormalResults, t) \in Seq(EvalTask)
        BY <1>a DEF EvalTypeOK
      <3>2. /\ completedResults' \in {completedResults, Append(completedResults, t)}
            /\ abnormalResults' \in {abnormalResults, Append(abnormalResults, t)}
        BY <1>9 DEF Collect
      <3> QED
        BY <1>a, <3>1, <3>2 DEF EvalTypeOK
    <2> QED
      BY <1>a, <2>1, <2>2, <2>3 DEF EvalTypeOK
  <1>10. CASE Interrupt
    <2>1. Abnormal("cancelled") \in Results
      BY DEF Abnormal, Results
    <2> QED
      BY <1>10, <1>a, <2>1 DEF Interrupt, EvalTypeOK, collected, Stages
  <1> QED
    BY <1>0, <1>3, <1>4, <1>5, <1>6, <1>7, <1>8, <1>9, <1>10 DEF EvalNext

\* A task that ends with its reward has the one that its calls are worth.
LEMMA RewardFits ==
  ASSUME NEW s, NEW e, NEW c, NEW d, NEW r, Fits(s, e, c, NoResult),
         s \in {"scoring", "asking"},
         s = "scoring" => d = << >>,
         s = "asking" => d # << >> /\ Judged(e),
         d # << >> => /\ ~Last(d).answered => Last(d).words = << >>
                      /\ protocol = "deepshop" => Len(Last(d).words) <= 1,
         r = IF e.status = "pending" THEN Abnormal("pending_result") ELSE Completed(Worth(e, d))
  PROVE  Fits("done", e, d, r)
  BY DEF Fits, Abnormal, Completed

\* The tasks that nobody worked on are as they were.
LEMMA OthersFit ==
  ASSUME EvalInv, protocol' = protocol, NEW u \in EvalTask,
         taskAt'[u] = taskAt[u], episode'[u] = episode[u], calls'[u] = calls[u],
         result'[u] = result[u]
  PROVE  TaskFits(u)'
  <1> SUFFICES ASSUME NEW s \in {taskAt'[u]}, NEW e \in {episode'[u]}, NEW c \in {calls'[u]},
                      NEW r \in {result'[u]}
               PROVE  Fits(s, e, c, r)'
    BY DEF TaskFits
  <1>1. Fits(s, e, c, r)
    BY DEF EvalInv, TaskFits
  <1> QED
    BY <1>1, ProtocolFixed

\* What the results of the tasks say.
LEMMA FitsStep ==
  EvaluationAssumption /\ EvalInv /\ [EvalNext]_evalVars => \A u \in EvalTask : TaskFits(u)'
  <1> SUFFICES ASSUME EvaluationAssumption, EvalInv, [EvalNext]_evalVars, NEW u \in EvalTask
               PROVE  TaskFits(u)'
    OBVIOUS
  <1>a. EvalTypeOK
    BY DEF EvalInv
  <1>p. protocol' = protocol
    BY DEF EvalNext, evalVars, StartTask, NoLastTurn, ScoreUnasked, Ask, CallFails, AskAgain,
       TaskTimeout, TimedOut, Collect, Sampled, Answer, Interrupt
  <1>f. ASSUME NEW s, NEW e, NEW c, NEW r, Fits(s, e, c, r),
               taskAt'[u] = s, episode'[u] = e, calls'[u] = c, result'[u] = r
        PROVE  TaskFits(u)'
    BY <1>f, <1>p, ProtocolFixed DEF TaskFits
  <1>g. PICK s, e, c, r : /\ s = taskAt[u] /\ e = episode[u] /\ c = calls[u] /\ r = result[u]
                          /\ Fits(s, e, c, r)
    BY DEF EvalInv, TaskFits
  <1>0. CASE UNCHANGED <<taskAt, episode, calls, result>>
    BY <1>0, <1>p, OthersFit
  <1>1. ASSUME NEW t \in EvalTask, NEW d, NEW v \in -1 .. 2, Return(t, v), taskAt[t] \in {"scoring", "asking"},
               episode' = episode, calls' = [calls EXCEPT ![t] = d], v = Worth(episode[t], d),
               taskAt[t] = "scoring" => d = << >>,
               taskAt[t] = "asking" => d # << >>,
               d # << >> => /\ ~Last(d).answered => Last(d).words = << >>
                            /\ protocol = "deepshop" => Len(Last(d).words) <= 1
        PROVE  TaskFits(u)'
    <2>1. PICK q \in Results :
            /\ q = IF episode[t].status = "pending" THEN Abnormal("pending_result") ELSE Completed(v)
            /\ result' = [result EXCEPT ![t] = q] /\ taskAt' = [taskAt EXCEPT ![t] = "done"]
      BY <1>1, <1>a, ReturnGives
    <2>2. CASE u = t
      <3>1. r = NoResult
        BY <1>1, <1>g, <2>2 DEF Fits
      <3>2. s = "asking" => Judged(e)
        BY <1>g DEF Fits
      <3>3. q = IF e.status = "pending" THEN Abnormal("pending_result") ELSE Completed(Worth(e, d))
        BY <1>1, <1>g, <2>1, <2>2
      <3>4. Fits("done", e, d, q)
        BY <1>1, <1>g, <2>2, <3>1, <3>2, <3>3, RewardFits
      <3> QED
        BY <1>1, <1>a, <1>f, <1>g, <2>1, <2>2, <3>4 DEF EvalTypeOK
    <2>3. CASE u # t
      BY <1>1, <1>a, <1>p, <2>1, <2>3, OthersFit DEF EvalTypeOK
    <2> QED
      BY <2>2, <2>3
  <1>2. ASSUME NEW t \in EvalTask, NEW w, w \in {"exception", "task_timeout"},
               Write(t, Abnormal(w)), w = "exception" => taskAt[t] = "scoring",
               UNCHANGED <<episode, calls>>
        PROVE  TaskFits(u)'
    <2>1. CASE u = t
      <3>1. Fits("done", e, c, Abnormal(w))
        BY <1>2, <1>g, <2>1 DEF Fits, Abnormal
      <3> QED
        BY <1>2, <1>a, <1>f, <1>g, <2>1, <3>1 DEF Write, Moves, EvalTypeOK
    <2>2. CASE u # t
      BY <1>2, <1>a, <1>p, <2>2, OthersFit DEF Write, Moves, EvalTypeOK
    <2> QED
      BY <2>1, <2>2
  <1>3. ASSUME NEW t \in EvalTask, NEW q, q \in Stages \ {"done"}, taskAt[t] # "done",
               taskAt' = [taskAt EXCEPT ![t] = q], calls' = calls, result' = result,
               \A x \in EvalTask : x # t => episode'[x] = episode[x],
               q \in {"generating", "scoring"} => taskAt[t] \in {"waiting", "generating"},
               q \in {"asking", "pausing"} => Judged(episode[t]) /\ episode' = episode,
               q # "waiting"
        PROVE  TaskFits(u)'
    <2>1. CASE u = t
      <3>1. PICK f : f = episode'[u]
        OBVIOUS
      <3>2. Fits(q, f, c, r)
        BY <1>3, <1>g, <2>1, <3>1 DEF Fits, NoResult, Stages
      <3> QED
        BY <1>3, <1>a, <1>f, <1>g, <2>1, <3>1, <3>2 DEF EvalTypeOK
    <2>2. CASE u # t
      BY <1>3, <1>a, <1>p, <2>2, OthersFit DEF EvalTypeOK
    <2> QED
      BY <2>1, <2>2
  <1>4. ASSUME NEW t \in EvalTask, StartTask(t) PROVE TaskFits(u)'
    BY <1>3, <1>4 DEF StartTask, Moves, Stages
  <1>5. ASSUME NEW t \in EvalTask, NEW x \in Episodes, Sampled(t, x) PROVE TaskFits(u)'
    BY <1>3, <1>5, <1>a DEF Sampled, Moves, Stages, EvalTypeOK
  <1>6. ASSUME NEW t \in EvalTask, NoLastTurn(t) PROVE TaskFits(u)'
    BY <1>2, <1>6 DEF NoLastTurn
  <1>7. ASSUME NEW t \in EvalTask, TimedOut(t) PROVE TaskFits(u)'
    BY <1>2, <1>7 DEF TimedOut
  <1>8. ASSUME NEW t \in EvalTask, Ask(t) PROVE TaskFits(u)'
    BY <1>3, <1>8 DEF Ask, Moves, Stages
  <1>9. ASSUME NEW t \in EvalTask, AskAgain(t) PROVE TaskFits(u)'
    <2>1. Judged(episode[t])
      BY <1>9 DEF AskAgain, EvalInv, TaskFits, Fits
    <2> QED
      BY <1>3, <1>9, <2>1 DEF AskAgain, Moves, Stages
  <1>10. ASSUME NEW t \in EvalTask, TaskTimeout(t) PROVE TaskFits(u)'
    BY <1>3, <1>10 DEF TaskTimeout, Moves, Stages
  <1>11. ASSUME NEW t \in EvalTask, ScoreUnasked(t) PROVE TaskFits(u)'
    <2>1. calls[t] = << >> /\ calls' = [calls EXCEPT ![t] = << >>]
      BY <1>11, <1>a DEF ScoreUnasked, EvalInv, TaskFits, Fits, EvalTypeOK
    <2>2. PICK v : v = Reward(episode[t], 0)
      OBVIOUS
    <2>3. v \in -1 .. 2 /\ v = Worth(episode[t], << >>)
      BY <2>2, RewardRange DEF Worth
    <2>4. Return(t, v) /\ taskAt[t] = "scoring" /\ episode' = episode
      BY <1>11, <2>2 DEF ScoreUnasked
    <2> QED
      BY <1>1, <2>1, <2>3, <2>4
  <1>12. ASSUME NEW t \in EvalTask, NEW words \in Replies, Answer(t, words) PROVE TaskFits(u)'
    <2>d. PICK d : d = Append(calls[t], [answered |-> TRUE, words |-> words])
      OBVIOUS
    <2>1. d # << >> /\ Last(d) = [answered |-> TRUE, words |-> words]
      <3>1. calls[t] \in Calls
        BY <1>a DEF EvalTypeOK
      <3>2. words \in Seq({"yes", "no"})
        BY DEF EvaluationAssumption
      <3> QED
        BY <2>d, <3>1, <3>2 DEF Calls, Last
    <2>v. PICK v : v = Reward(episode[t], Verdict(words))
      OBVIOUS
    <2>2. v \in -1 .. 2
      BY <1>a, <2>v, RewardRange, VerdictRange DEF EvalTypeOK
    <2>3. v = Worth(episode[t], d)
      BY <2>v, <2>1 DEF Worth
    <2>4. calls' = [calls EXCEPT ![t] = d]
      BY <1>12, <2>d DEF Answer
    <2>5. /\ Return(t, v) /\ taskAt[t] = "asking"
          /\ episode' = episode /\ (protocol = "deepshop" => Len(words) <= 1)
      BY <1>12, <2>v DEF Answer
    <2>6. /\ ~Last(d).answered => Last(d).words = << >>
          /\ protocol = "deepshop" => Len(Last(d).words) <= 1
      BY <2>1, <2>5
    <2> QED
      BY <1>1, <2>1, <2>2, <2>3, <2>4, <2>5, <2>6
  <1>13. ASSUME NEW t \in EvalTask, CallFails(t) PROVE TaskFits(u)'
    <2>d. PICK d : d = Append(calls[t], [answered |-> FALSE, words |-> << >>])
      OBVIOUS
    <2>1. d # << >> /\ Last(d) = [answered |-> FALSE, words |-> << >>]
      <3>1. calls[t] \in Calls
        BY <1>a DEF EvalTypeOK
      <3>2. << >> \in Seq({"yes", "no"})
        OBVIOUS
      <3> QED
        BY <2>d, <3>1, <3>2 DEF Calls, Last
    <2>v. PICK v : v = Reward(episode[t], Exhausted)
      OBVIOUS
    <2>2. v \in -1 .. 2
      BY <1>a, <2>v, RewardRange, VerdictRange DEF EvalTypeOK
    <2>3. v = Worth(episode[t], d)
      BY <2>v, <2>1 DEF Worth
    <2>4. /\ calls' = [calls EXCEPT ![t] = d] /\ taskAt[t] = "asking" /\ episode' = episode
          /\ \/ Moves(t, "pausing") /\ result' = result
             \/ Return(t, v)
      BY <1>13, <2>d, <2>v DEF CallFails
    <2>5. CASE Return(t, v)
      <3>1. /\ ~Last(d).answered => Last(d).words = << >>
            /\ protocol = "deepshop" => Len(Last(d).words) <= 1
        BY <2>1
      <3> QED
        BY <1>1, <2>1, <2>2, <2>3, <2>4, <2>5, <3>1
    <2>6. CASE Moves(t, "pausing") /\ result' = result
      <3>1. CASE u = t
        <4>1. Fits("pausing", e, d, r)
          BY <1>g, <2>1, <2>4, <3>1 DEF Fits, NoResult
        <4> QED
          BY <1>a, <1>f, <1>g, <2>4, <2>6, <3>1, <4>1 DEF Moves, EvalTypeOK
      <3>2. CASE u # t
        BY <1>a, <1>p, <2>4, <2>6, <3>2, OthersFit DEF Moves, EvalTypeOK
      <3> QED
        BY <3>1, <3>2
    <2> QED
      BY <2>4, <2>5, <2>6
  <1>14. CASE Interrupt
    <2>1. taskAt'[u] = "done" /\ episode'[u] = e /\ calls'[u] = c
      BY <1>14, <1>g DEF Interrupt
    <2>2. result'[u] = r \/ result'[u] = Abnormal("cancelled")
      BY <1>14, <1>g DEF Interrupt
    <2>3. Fits("done", e, c, r)
      BY <1>g DEF Fits
    <2>4. Fits("done", e, c, Abnormal("cancelled"))
      BY <1>g DEF Fits, Abnormal
    <2> QED
      BY <1>f, <2>1, <2>2, <2>3, <2>4
  <1>15. ASSUME NEW t \in EvalTask, Collect(t) PROVE TaskFits(u)'
    BY <1>0, <1>15 DEF Collect
  <1>16. CASE UNCHANGED evalVars
    BY <1>0, <1>16 DEF evalVars
  <1> QED
    BY <1>4, <1>5, <1>6, <1>7, <1>8, <1>9, <1>10, <1>11, <1>12, <1>13, <1>14, <1>15, <1>16 DEF EvalNext

\* What the tasks have filed.
LEMMA FiledStep ==
  EvaluationAssumption /\ EvalInv /\ [EvalNext]_evalVars => \A u \in EvalTask : Filed(u)'
  <1> SUFFICES ASSUME EvaluationAssumption, EvalInv, [EvalNext]_evalVars, NEW u \in EvalTask
               PROVE  Filed(u)'
    OBVIOUS
  <1>a. EvalTypeOK /\ Filed(u) /\ TaskFits(u)
    BY DEF EvalInv
  <1>0. CASE UNCHANGED <<taskAt, result, files>> /\ (phase' # "interrupted" => phase # "interrupted")
    BY <1>0, <1>a DEF Filed
  <1>1. ASSUME NEW t \in EvalTask, NEW v \in -1 .. 2, Return(t, v), phase' = phase PROVE Filed(u)'
    <2>1. PICK r \in Results :
            /\ result' = [result EXCEPT ![t] = r] /\ files' = [files EXCEPT ![t] = r.is]
            /\ taskAt' = [taskAt EXCEPT ![t] = "done"] /\ r.is # "none" /\ r.why # "cancelled"
      BY <1>1, <1>a, ReturnGives
    <2> QED
      BY <1>a, <1>1, <2>1 DEF Filed, EvalTypeOK
  <1>2. ASSUME NEW t \in EvalTask, NEW w, w \in {"exception", "task_timeout"}, Write(t, Abnormal(w)),
               phase' = phase
        PROVE  Filed(u)'
    BY <1>2, <1>a DEF Write, Moves, Abnormal, Filed, EvalTypeOK
  <1>3. ASSUME NEW t \in EvalTask, NEW q, q # "done", taskAt' = [taskAt EXCEPT ![t] = q],
               UNCHANGED <<phase, result, files>>
        PROVE  Filed(u)'
    BY <1>3, <1>a DEF Filed, EvalTypeOK
  <1>4. ASSUME NEW t \in EvalTask, StartTask(t) \/ Ask(t) \/ AskAgain(t) \/ TaskTimeout(t)
        PROVE  Filed(u)'
    BY <1>3, <1>4 DEF StartTask, Ask, AskAgain, TaskTimeout, Moves
  <1>5. ASSUME NEW t \in EvalTask, NEW x \in Episodes, Sampled(t, x) PROVE Filed(u)'
    BY <1>3, <1>5 DEF Sampled, Moves
  <1>6. ASSUME NEW t \in EvalTask, NoLastTurn(t) \/ TimedOut(t) PROVE Filed(u)'
    BY <1>2, <1>6 DEF NoLastTurn, TimedOut
  <1>7. ASSUME NEW t \in EvalTask, ScoreUnasked(t) PROVE Filed(u)'
    <2>1. PICK v : v = Reward(episode[t], 0)
      OBVIOUS
    <2>2. v \in -1 .. 2
      BY <2>1, RewardRange
    <2> QED
      BY <1>1, <1>7, <2>1, <2>2 DEF ScoreUnasked
  <1>8. ASSUME NEW t \in EvalTask, NEW words \in Replies, Answer(t, words) PROVE Filed(u)'
    <2>1. PICK v : v = Reward(episode[t], Verdict(words))
      OBVIOUS
    <2>2. v \in -1 .. 2
      BY <1>a, <2>1, RewardRange, VerdictRange DEF EvalTypeOK
    <2> QED
      BY <1>1, <1>8, <2>1, <2>2 DEF Answer
  <1>9. ASSUME NEW t \in EvalTask, CallFails(t) PROVE Filed(u)'
    <2>1. PICK v : v = Reward(episode[t], Exhausted)
      OBVIOUS
    <2>2. v \in -1 .. 2
      BY <1>a, <2>1, RewardRange, VerdictRange DEF EvalTypeOK
    <2>3. phase' = phase /\ (\/ Moves(t, "pausing") /\ UNCHANGED <<result, files>>
                             \/ Return(t, v))
      BY <1>9, <2>1 DEF CallFails
    <2> QED
      BY <1>1, <1>3, <2>2, <2>3 DEF Moves
  <1>10. CASE Interrupt
    <2>1. phase' = "interrupted"
      BY <1>10 DEF Interrupt
    <2>2. \/ result'[u] = Abnormal("cancelled") /\ files'[u] = "abnormal"
          \/ result'[u] = result[u] /\ files'[u] = files[u]
      BY <1>10 DEF Interrupt
    <2>3. Abnormal("cancelled").is = "abnormal"
      BY DEF Abnormal
    <2> QED
      BY <1>a, <2>1, <2>2, <2>3 DEF Filed
  <1>11. ASSUME NEW t \in EvalTask, Collect(t) PROVE Filed(u)'
    BY <1>0, <1>11 DEF Collect
  <1>12. CASE UNCHANGED evalVars
    BY <1>0, <1>12 DEF evalVars
  <1> QED
    BY <1>4, <1>5, <1>6, <1>7, <1>8, <1>9, <1>10, <1>11, <1>12 DEF EvalNext

\* The two lists.
LEMMA ListsStep == EvaluationAssumption /\ EvalInv /\ [EvalNext]_evalVars => ListsOK'
  <1> SUFFICES ASSUME EvaluationAssumption, EvalInv, [EvalNext]_evalVars PROVE ListsOK'
    OBVIOUS
  <1>a. EvalTypeOK /\ ListsOK
    BY DEF EvalInv
  <1>b. /\ completedResults \in Seq(EvalTask) /\ abnormalResults \in Seq(EvalTask)
        /\ Range(completedResults) \subseteq EvalTask /\ Range(abnormalResults) \subseteq EvalTask
    BY <1>a, DistinctSeq DEF EvalTypeOK, ListsOK
  <1>1. ASSUME UNCHANGED collected, phase' = "over" => phase = "over",
               \A u \in EvalTask : result[u].is # "none" => result'[u] = result[u]
        PROVE  ListsOK'
    <2>1. completedResults' = completedResults /\ abnormalResults' = abnormalResults
      BY <1>1 DEF collected
    <2>2. \A u \in Range(completedResults) : result'[u] = result[u]
      BY <1>1, <1>a, <1>b DEF ListsOK
    <2>3. \A u \in Range(abnormalResults) : result'[u] = result[u]
      BY <1>1, <1>a, <1>b DEF ListsOK
    <2> QED
      BY <1>1, <1>a, <2>1, <2>2, <2>3 DEF ListsOK
  <1>n. \A u \in EvalTask : taskAt[u] # "done" => result[u].is = "none"
    BY DEF EvalInv, TaskFits, Fits, NoResult
  <1>2. ASSUME NEW t \in EvalTask, taskAt[t] # "done", UNCHANGED <<phase, collected>>,
               \A u \in EvalTask : u # t => result'[u] = result[u]
        PROVE  ListsOK'
    BY <1>1, <1>2, <1>n
  <1>3. ASSUME NEW t \in EvalTask, NEW v, Return(t, v), UNCHANGED <<phase, collected>>,
               taskAt[t] # "done"
        PROVE  ListsOK'
    BY <1>2, <1>3, <1>a DEF Return, Write, EvalTypeOK
  <1>4. ASSUME NEW t \in EvalTask,
               StartTask(t) \/ Ask(t) \/ AskAgain(t) \/ TaskTimeout(t)
               \/ \E x \in Episodes : Sampled(t, x)
        PROVE  ListsOK'
    BY <1>1, <1>4 DEF StartTask, Ask, AskAgain, TaskTimeout, Sampled
  <1>5. ASSUME NEW t \in EvalTask, NoLastTurn(t) \/ TimedOut(t) PROVE ListsOK'
    BY <1>2, <1>5, <1>a DEF NoLastTurn, TimedOut, Write, EvalTypeOK
  <1>6. ASSUME NEW t \in EvalTask,
               \/ ScoreUnasked(t) \/ CallFails(t) \/ \E words \in Replies : Answer(t, words)
        PROVE  ListsOK'
    <2>1. UNCHANGED <<phase, collected>> /\ taskAt[t] # "done"
      BY <1>6 DEF ScoreUnasked, CallFails, Answer
    <2>2. \/ result' = result
          \/ \E v : Return(t, v)
      BY <1>6 DEF ScoreUnasked, CallFails, Answer
    <2> QED
      BY <1>1, <1>3, <2>1, <2>2
  <1>7. CASE Interrupt
    <2>1. UNCHANGED collected /\ phase' = "interrupted"
      BY <1>7 DEF Interrupt
    <2>2. \A u \in EvalTask : result[u].is # "none" => result'[u] = result[u]
      BY <1>7, <1>n DEF Interrupt, In
    <2> QED
      BY <1>1, <2>1, <2>2
  <1>8. ASSUME NEW t \in EvalTask, Collect(t) PROVE ListsOK'
    <2>1. /\ t \notin Range(completedResults) /\ t \notin Range(abnormalResults)
          /\ result' = result
      BY <1>8 DEF Collect, Collected
    <2>2. CASE result[t].is = "completed" /\ completedResults' = Append(completedResults, t)
               /\ abnormalResults' = abnormalResults
      <3>1. /\ IsInjective(completedResults') /\ Len(completedResults') = Len(completedResults) + 1
            /\ Range(completedResults') = Range(completedResults) \cup {t}
        BY <1>a, <1>b, <2>1, <2>2, AppendNew DEF ListsOK
      <3>2. phase' = "over" => Len(completedResults) + Len(abnormalResults) + 1 = Cardinality(EvalTask)
        BY <1>8 DEF Collect
      <3>3. Len(completedResults) \in Nat /\ Len(abnormalResults) \in Nat
        BY <1>b
      <3> QED
        BY <1>a, <2>1, <2>2, <3>1, <3>2, <3>3 DEF ListsOK
    <2>3. CASE result[t].is = "abnormal" /\ abnormalResults' = Append(abnormalResults, t)
               /\ completedResults' = completedResults
      <3>1. /\ IsInjective(abnormalResults') /\ Len(abnormalResults') = Len(abnormalResults) + 1
            /\ Range(abnormalResults') = Range(abnormalResults) \cup {t}
        BY <1>a, <1>b, <2>1, <2>3, AppendNew DEF ListsOK
      <3>2. phase' = "over" => Len(completedResults) + Len(abnormalResults) + 1 = Cardinality(EvalTask)
        BY <1>8 DEF Collect
      <3>3. Len(completedResults) \in Nat /\ Len(abnormalResults) \in Nat
        BY <1>b
      <3> QED
        BY <1>a, <2>1, <2>3, <3>1, <3>2, <3>3 DEF ListsOK
    <2> QED
      BY <1>8, <2>2, <2>3 DEF Collect
  <1>9. CASE UNCHANGED evalVars
    BY <1>1, <1>9 DEF evalVars
  <1> QED
    BY <1>4, <1>5, <1>6, <1>7, <1>8, <1>9 DEF EvalNext

LEMMA EvalInvariance == EvalSpec => []EvalInv
  <1>1. EvalInit => EvalInv
    <2> SUFFICES ASSUME EvalInit PROVE EvalInv
      OBVIOUS
    <2>1. EvalTypeOK
      <3>1. NoResult \in Results /\ << >> \in Calls /\ << >> \in Seq(EvalTask)
        BY DEF NoResult, Results, Calls
      <3> QED
        BY <3>1 DEF EvalInit, EvalBegin, EvalTypeOK, Stages
    <2>2. ListsOK
      BY DEF EvalInit, EvalBegin, ListsOK, IsInjective, Range
    <2>3. ASSUME NEW t \in EvalTask PROVE TaskFits(t) /\ Filed(t)
      <3>1. \A e : Fits("waiting", e, << >>, NoResult)
        BY DEF Fits, NoResult
      <3> QED
        BY <3>1 DEF EvalInit, EvalBegin, TaskFits, Filed, NoResult
    <2> QED
      BY <2>1, <2>2, <2>3 DEF EvalInv
  <1>2. EvalInv /\ [EvalNext]_evalVars => EvalInv'
    BY EvaluationAssumption, EvalTypeStep, FitsStep, FiledStep, ListsStep DEF EvalInv
  <1> QED
    BY <1>1, <1>2, PTL DEF EvalSpec

\* What a reward tells: of an episode that the judge was asked about, that the
\* last call was answered with a "yes" that counts, or that it said nothing.
LEMMA WorthTells ==
  ASSUME EvaluationAssumption, protocol \in Protocols, NEW e, NEW c \in Calls,
         c # << >> => /\ ~Last(c).answered => Last(c).words = << >>
                      /\ protocol = "deepshop" => Len(Last(c).words) <= 1
                      /\ Judged(e)
  PROVE  /\ Worth(e, c) = 1 <=> /\ e.status = "completed"
                                /\ c # << >> /\ Last(c).answered /\ Mentions(Last(c).words, "yes")
                                /\ protocol # "online_mind2web" => ~Mentions(Last(c).words, "no")
                                /\ Training => FormatKept(e)
         /\ c # << >> /\ Last(c).words = << >> /\ ~Training => Worth(e, c) = Unknown
         /\ Worth(e, c) = Unknown => c # << >> /\ Last(c).words = << >>
  <1>0. protocol \in {"slime", "browser_env", "webvoyager", "online_mind2web", "deepshop"}
    BY DEF EvaluationAssumption
  <1>1. CASE c = << >>
    <2>1. Worth(e, c) = Reward(e, 0)
      BY <1>1 DEF Worth
    <2>2. Reward(e, 0) # 1 /\ Reward(e, 0) # Unknown
      BY DEF Reward, TrainingReward, Unknown
    <2> QED
      BY <1>1, <2>1, <2>2
  <1>2. CASE c # << >>
    <2>1. Last(c) \in [answered : BOOLEAN, words : Seq({"yes", "no"})]
      BY <1>2, NotEmpty DEF Calls
    <2>2. PICK w : w = Last(c).words
      OBVIOUS
    <2>3. w \in Seq({"yes", "no"})
      BY <2>1, <2>2
    <2>4. w = << >> <=> ~Mentions(w, "yes") /\ ~Mentions(w, "no")
      BY <2>3 DEF Mentions, Range
    <2>5. e.status = "completed" /\ (Training => e.reason # "format_error_failed")
      BY <1>2 DEF Judged, JudgedForTraining, JudgedForBenchmark
    <2>6. CASE ~Last(c).answered
      <3>1. w = << >> /\ Worth(e, c) = Reward(e, Exhausted)
        BY <1>2, <2>2, <2>6 DEF Worth
      <3> QED
        BY <1>2, <2>2, <2>5, <2>6, <3>1 DEF Reward, TrainingReward, Exhausted, Unknown
    <2>7. CASE Last(c).answered
      <3>1. Worth(e, c) = Reward(e, Verdict(w))
        BY <1>2, <2>2, <2>7 DEF Worth
      <3>2. CASE Training
        <4>1. Verdict(w) = TrainingVerdict(w) /\ protocol # "online_mind2web"
          BY <3>2 DEF Training, Verdict
        <4> QED
          BY <1>2, <2>2, <2>5, <2>7, <3>1, <3>2, <4>1 DEF Reward, TrainingReward, TrainingVerdict, Unknown
      <3>3. CASE protocol = "webvoyager"
        <4>1. Worth(e, c) = VoyagerVerdict(w) /\ ~Training
          BY <3>1, <3>3 DEF Training, Verdict, Reward
        <4> QED
          BY <1>2, <2>2, <2>4, <2>5, <2>7, <3>3, <4>1 DEF VoyagerVerdict, Unknown
      <3>4. CASE protocol = "online_mind2web"
        <4>1. Worth(e, c) = Mind2WebVerdict(w) /\ ~Training
          BY <3>1, <3>4 DEF Training, Verdict, Reward
        <4> QED
          BY <1>2, <2>2, <2>4, <2>5, <2>7, <3>4, <4>1 DEF Mind2WebVerdict, Unknown
      <3>5. CASE protocol = "deepshop"
        <4>1. Worth(e, c) = DeepShopVerdict(w) /\ ~Training
          BY <3>1, <3>5 DEF Training, Verdict, Reward
        <4>2. Len(w) <= 1
          BY <1>2, <2>2, <3>5
        <4>3. w # << >> => Len(w) = 1 /\ (w = <<"yes">> <=> w[1] = "yes")
          <5>1. w # << >> => Len(w) = 1
            <6>1. \A X : w \in Seq(X) /\ w # << >> => Len(w) \in Nat \ {0}
              BY NotEmpty
            <6>2. w # << >> => Len(w) \in Nat \ {0}
              BY <2>3, <6>1
            <6>3. \A n \in Nat \ {0} : n <= 1 => n = 1
              OBVIOUS
            <6> QED
              BY <4>2, <6>2, <6>3, Zenon
          <5>2. Len(w) = 1 /\ w[1] = "yes" => w = <<"yes">>
            <6>1. <<"yes">> \in Seq({"yes", "no"}) /\ Len(<<"yes">>) = 1 /\ <<"yes">>[1] = "yes"
              OBVIOUS
            <6>2. ASSUME NEW s \in Seq({"yes", "no"}), Len(s) = 1, s[1] = "yes",
                         NEW r \in Seq({"yes", "no"}), Len(r) = 1, r[1] = "yes"
                  PROVE  s = r
              <7>1. s \in [1 .. 1 -> {"yes", "no"}] /\ r \in [1 .. 1 -> {"yes", "no"}]
                BY <6>2
              <7>2. \A n \in 1 .. 1 : s[n] = r[n]
                BY <6>2
              <7> QED
                BY <7>1, <7>2
            <6> QED
              BY <2>3, <6>1, <6>2
          <5> QED
            BY <5>1, <5>2
        <4>4. w # << >> => (Mentions(w, "yes") <=> w[1] = "yes") /\ (Mentions(w, "no") <=> w[1] = "no")
          <5>1. w # << >> => DOMAIN w = {1}
            BY <2>3, <4>3
          <5> QED
            BY <5>1 DEF Mentions, Range
        <4> QED
          BY <1>2, <2>2, <2>4, <2>5, <2>7, <3>5, <4>1, <4>3, <4>4 DEF DeepShopVerdict, Unknown
      <3> QED
        BY <1>0, <3>2, <3>3, <3>4, <3>5 DEF Training
    <2> QED
      BY <2>6, <2>7
  <1> QED
    BY <1>1, <1>2

\* The invariant says that the summary and the files are right.
LEMMA EvalInvTells == EvaluationAssumption /\ EvalInv => EvalExact
  <1> SUFFICES ASSUME EvaluationAssumption, EvalInv PROVE EvalExact
    OBVIOUS
  <1>a. EvalTypeOK /\ ListsOK
    BY DEF EvalInv
  <1>t. ASSUME NEW t \in EvalTask
        PROVE  \E e, c, r, s :
                 /\ e = episode[t] /\ c = calls[t] /\ r = result[t] /\ s = taskAt[t]
                 /\ c \in Calls /\ r \in Results /\ Fits(s, e, c, r)
                 /\ files[t] = r.is
    BY <1>a DEF EvalInv, TaskFits, Filed, EvalTypeOK
  <1>1. ASSUME NEW t \in EvalTask, result[t].is = "completed"
        PROVE  /\ result[t].reward = 1 <=> Deserved(t)
               /\ episode[t].status # "pending" /\ result[t].why = "none"
               /\ SilentJudge(t) /\ ~Training => result[t].reward = Unknown
               /\ result[t].reward = Unknown => SilentJudge(t)
    <2>1. PICK e, c, r, s : /\ e = episode[t] /\ c = calls[t] /\ r = result[t] /\ s = taskAt[t]
                            /\ c \in Calls /\ r \in Results /\ Fits(s, e, c, r)
      BY <1>t
    <2>2. /\ e.status # "pending" /\ r.reward = Worth(e, c) /\ r.why = "none"
          /\ c # << >> => /\ ~Last(c).answered => Last(c).words = << >>
                          /\ protocol = "deepshop" => Len(Last(c).words) <= 1
                          /\ Judged(e)
      BY <1>1, <2>1 DEF Fits
    <2>3. protocol \in Protocols
      BY <1>a DEF EvalTypeOK
    <2>4. /\ Worth(e, c) = 1 <=> /\ e.status = "completed"
                                 /\ c # << >> /\ Last(c).answered /\ Mentions(Last(c).words, "yes")
                                 /\ protocol # "online_mind2web" => ~Mentions(Last(c).words, "no")
                                 /\ Training => FormatKept(e)
          /\ c # << >> /\ Last(c).words = << >> /\ ~Training => Worth(e, c) = Unknown
          /\ Worth(e, c) = Unknown => c # << >> /\ Last(c).words = << >>
      BY <2>1, <2>2, <2>3, WorthTells
    <2> QED
      BY <2>1, <2>2, <2>4 DEF Deserved, SaidYes, SilentJudge
  <1>2. ASSUME NEW t \in EvalTask, result[t].is = "abnormal", phase = "over",
               result[t].why # "task_timeout"
        PROVE  ~Deserved(t)
    <2>1. PICK e, c, r, s : /\ e = episode[t] /\ c = calls[t] /\ r = result[t] /\ s = taskAt[t]
                            /\ Fits(s, e, c, r)
      BY <1>t
    <2>2. r.why # "cancelled"
      BY <1>2, <2>1 DEF EvalInv, Filed
    <2>3. e.status = "pending" \/ c = << >>
      BY <1>2, <2>1, <2>2 DEF Fits
    <2> QED
      BY <2>1, <2>3 DEF Deserved, SaidYes
  <1>3. ASSUME phase = "over"
        PROVE  /\ IsInjective(completedResults) /\ IsInjective(abnormalResults)
               /\ Collected = EvalTask /\ Range(completedResults) \cap Range(abnormalResults) = {}
               /\ Summary.total + Summary.abnormal = Cardinality(EvalTask)
               /\ Succeeded = {t \in EvalTask : Deserved(t) /\ result[t].why # "task_timeout"}
    <2> DEFINE C == Range(completedResults)
               A == Range(abnormalResults)
    <2>0. /\ IsInjective(completedResults) /\ IsInjective(abnormalResults)
          /\ completedResults \in Seq(EvalTask) /\ abnormalResults \in Seq(EvalTask)
          /\ Len(completedResults) + Len(abnormalResults) = Cardinality(EvalTask)
      BY <1>3, <1>a DEF ListsOK, EvalTypeOK
    <2>1. /\ IsFiniteSet(C) /\ Cardinality(C) = Len(completedResults) /\ C \subseteq EvalTask
          /\ IsFiniteSet(A) /\ Cardinality(A) = Len(abnormalResults) /\ A \subseteq EvalTask
      BY <2>0, DistinctSeq
    <2>2. (\A t \in C : result[t].is = "completed") /\ (\A t \in A : result[t].is = "abnormal")
      BY <1>a DEF ListsOK
    <2> HIDE DEF C, A
    <2>3. C \cap A = {}
      BY <2>2
    <2>4. C \cup A = EvalTask
      <3>1. /\ IsFiniteSet(C \cup A)
            /\ Cardinality(C \cup A) = Cardinality(C) + Cardinality(A) - Cardinality(C \cap A)
        BY <2>1, FS_Union
      <3>2. Cardinality(C \cap A) = 0
        BY <2>3, FS_EmptySet
      <3>3. Cardinality(C) \in Nat /\ Cardinality(A) \in Nat
        BY <2>1, FS_CardinalityType
      <3>4. Cardinality(C \cup A) = Cardinality(EvalTask)
        BY <2>0, <2>1, <3>1, <3>2, <3>3
      <3>5. IsFiniteSet(EvalTask) /\ C \cup A \subseteq EvalTask
        BY <2>1 DEF EvaluationAssumption
      <3> QED
        BY <3>4, <3>5, FS_Subset
    <2>5. Succeeded = {t \in EvalTask : Deserved(t) /\ result[t].why # "task_timeout"}
      <3>1. ASSUME NEW t
            PROVE  t \in C /\ result[t].reward = 1 <=>
                     t \in EvalTask /\ Deserved(t) /\ result[t].why # "task_timeout"
        BY <1>1, <1>2, <1>3, <2>1, <2>2, <2>4
      <3>2. Succeeded = {t \in C : result[t].reward = 1}
        BY DEF Succeeded, C
      <3> QED
        BY <3>1, <3>2
    <2>6. Summary.total + Summary.abnormal = Cardinality(EvalTask)
      BY <2>0 DEF Summary
    <2> QED
      BY <2>0, <2>3, <2>4, <2>5, <2>6 DEF C, A, Collected
  <1>4. \A t \in EvalTask : files[t] = result[t].is
    BY DEF EvalInv, Filed
  <1> QED
    BY <1>1, <1>3, <1>4 DEF EvalExact

-----------------------------------------------------------------------------
(* The offline judges.                                                        *)

\* The shards part the records.
LEMMA ShardsPart ==
  /\ \A s, r \in 0 .. Shards - 1 : s # r => ShardOf(s) \cap ShardOf(r) = {}
  /\ UNION {ShardOf(s) : s \in 0 .. Shards - 1} = Record
  <1>1. \A i \in Record : i % Shards \in 0 .. Shards - 1
    BY JudgeBenchAssumption DEF JudgeBenchAssumption, Record
  <1> QED
    BY <1>1 DEF ShardOf

\* The elements of a sequence to which one is appended.
LEMMA AppendRange ==
  ASSUME NEW S, NEW s \in Seq(S), NEW x \in S
  PROVE  /\ Append(s, x) \in Seq(S) /\ Len(Append(s, x)) = Len(s) + 1 /\ Len(s) \in Nat
         /\ DOMAIN s = 1 .. Len(s) /\ DOMAIN Append(s, x) = 1 .. (Len(s) + 1)
         /\ \A i \in 1 .. Len(s) : Append(s, x)[i] = s[i]
         /\ Append(s, x)[Len(s) + 1] = x
         /\ Range(Append(s, x)) = Range(s) \cup {x}
  <1>1. /\ Append(s, x) \in Seq(S) /\ Len(Append(s, x)) = Len(s) + 1
        /\ \A i \in 1 .. Len(s) : Append(s, x)[i] = s[i]
        /\ Append(s, x)[Len(s) + 1] = x
    OBVIOUS
  <1>2. DOMAIN s = 1 .. Len(s) /\ DOMAIN Append(s, x) = 1 .. (Len(s) + 1) /\ Len(s) \in Nat
    BY <1>1
  <1>3. 1 .. (Len(s) + 1) = 1 .. Len(s) \cup {Len(s) + 1}
    BY <1>2
  <1>4. ASSUME NEW y PROVE y \in Range(Append(s, x)) <=> y \in Range(s) \cup {x}
    BY <1>1, <1>2, <1>3 DEF Range
  <1> HIDE DEF Range
  <1>5. Range(Append(s, x)) = Range(s) \cup {x}
    BY <1>4
  <1> QED
    BY <1>1, <1>2, <1>5

\* A set of places of a sequence has a greatest one (without induction: it is the
\* number of the places that have one of the set at or after them).
LEMMA MaxExists ==
  ASSUME NEW L \in Nat, NEW S, S \subseteq 1 .. L, S # {}
  PROVE  Max(S) \in S /\ \A n \in S : Max(S) >= n
  <1> DEFINE D == {m \in 1 .. L : \E n \in S : n >= m}
             c == Cardinality(D)
  <1>1. IsFiniteSet(1 .. L) /\ Cardinality(1 .. L) = L /\ D \subseteq 1 .. L
    BY FS_Interval
  <1>2. IsFiniteSet(D) /\ c \in Nat /\ c <= L
    BY <1>1, FS_Subset, FS_CardinalityType
  <1>3. \A k \in Nat : IsFiniteSet(1 .. k) /\ Cardinality(1 .. k) = k
    BY FS_Interval
  <1>4. ASSUME NEW n \in S PROVE n <= c
    <2>1. n \in Nat /\ 1 .. n \subseteq D
      OBVIOUS
    <2>2. Cardinality(1 .. n) = n
      BY <1>3, <2>1
    <2> HIDE DEF D
    <2>3. Cardinality(1 .. n) <= Cardinality(D)
      BY <1>2, <2>1, FS_Subset
    <2> QED
      BY <2>2, <2>3
  <1>5. c \in S
    <2>1. SUFFICES ASSUME c \notin S PROVE FALSE
      OBVIOUS
    <2>2. c # 0
      <3>1. PICK n \in S : TRUE
        OBVIOUS
      <3>2. n \in Nat /\ n >= 1 /\ n <= c
        BY <1>4, <3>1
      <3> HIDE DEF c
      <3> QED
        BY <3>2
    <2>3. \A n \in S : n <= c - 1
      BY <1>2, <1>4, <2>1
    <2>4. D \subseteq 1 .. (c - 1) /\ c - 1 \in Nat
      BY <1>2, <2>2, <2>3
    <2>5. IsFiniteSet(1 .. (c - 1)) /\ Cardinality(1 .. (c - 1)) = c - 1
      BY <1>3, <2>4
    <2>6. Cardinality(D) <= Cardinality(1 .. (c - 1))
      BY <2>4, <2>5, FS_Subset
    <2> HIDE DEF D
    <2> QED
      BY <1>2, <2>5, <2>6
  <1> HIDE DEF D, c
  <1>6. \E x \in S : \A y \in S : x >= y
    BY <1>2, <1>4, <1>5
  <1> QED
    BY <1>6 DEF Max

\* The sequence of a finite set has its elements, each once.
LEMMA SetToSeqHas ==
  ASSUME NEW S, IsFiniteSet(S)
  PROVE  SetToSeq(S) \in [1 .. Cardinality(S) -> S] /\ IsInjective(SetToSeq(S))
         /\ Range(SetToSeq(S)) = S /\ Len(SetToSeq(S)) = Cardinality(S)
         /\ SetToSeq(S) \in Seq(S) /\ Cardinality(S) \in Nat
  <1>1. Cardinality(S) \in Nat /\ ExistsBijection(1 .. Cardinality(S), S)
    BY FS_CardinalityType
  <1>2. PICK f \in [1 .. Cardinality(S) -> S] : IsInjective(f)
    <2>1. PICK f \in Bijection(1 .. Cardinality(S), S) : TRUE
      BY <1>1 DEF ExistsBijection
    <2>2. f \in [1 .. Cardinality(S) -> S] /\ \A a, b \in 1 .. Cardinality(S) : f[a] = f[b] => a = b
      <3>1. ASSUME NEW A, NEW g \in Bijection(A, S)
            PROVE  g \in [A -> S] /\ \A a, b \in A : g[a] = g[b] => a = b
        BY DEF Bijection, Injection, IsInjective
      <3> QED
        BY <2>1, <3>1
    <2> QED
      BY <2>2 DEF IsInjective
  <1>3. SetToSeq(S) \in [1 .. Cardinality(S) -> S] /\ IsInjective(SetToSeq(S))
    BY <1>2 DEF SetToSeq
  <1>4. SetToSeq(S) \in Seq(S) /\ Len(SetToSeq(S)) = Cardinality(S)
    <2>1. \A n \in Nat : \A q \in [1 .. n -> S] : q \in Seq(S) /\ Len(q) = n
      OBVIOUS
    <2> QED
      BY <1>1, <1>3, <2>1
  <1>5. /\ IsFiniteSet(Range(SetToSeq(S))) /\ Cardinality(Range(SetToSeq(S))) = Cardinality(S)
        /\ Range(SetToSeq(S)) \subseteq S
    BY <1>3, <1>4, DistinctSeq
  <1>6. Range(SetToSeq(S)) = S
    BY <1>5, FS_Subset
  <1> QED
    BY <1>1, <1>3, <1>4, <1>6

LEMMA MinExists ==
  ASSUME NEW L \in Nat, NEW S, S \subseteq 0 .. L - 1, S # {}
  PROVE  Min(S) \in S
  <1> DEFINE T == {L - i : i \in S}
  <1>1. T \subseteq 1 .. L /\ T # {}
    OBVIOUS
  <1>2. PICK m \in T : \A n \in T : m >= n
    BY <1>1, MaxExists
  <1>3. PICK x \in S : m = L - x
    BY <1>2
  <1>4. \A y \in S : x <= y
    <2>1. ASSUME NEW y \in S PROVE x <= y
      <3>1. m >= L - y
        BY <1>2
      <3> QED
        BY <1>3, <3>1
    <2> QED
      BY <2>1
  <1> QED
    BY <1>3, <1>4 DEF Min

Verdicts == {"yes", "no", NoVerdict}
RowSet   == [rec : Record, verdict : Verdicts]
AskSet   == [at : {"none", "queued", "asking", "done"}, tries : Nat,
             token : {"max_completion_tokens", "max_tokens", "no"}, temperature : BOOLEAN]

BenchTypeOK ==
  /\ shard \in 0 .. Shards - 1 /\ judge \in Judges
  /\ bench \in {"idle", "running", "failed", "over"}
  /\ output \in Seq(RowSet) /\ rows \in Seq(RowSet)
  /\ ask \in [Record -> AskSet] /\ judged \in [Record -> SUBSET Texts]

\* A row is of this shard, and its verdict, if it has one, is the judge's.
Genuine(r) == r.rec \in Mine /\ (r.verdict # NoVerdict => Said(r.rec, r.verdict))
RowsOK  == (\A r \in Range(output) : Genuine(r)) /\ (\A r \in Range(rows) : Genuine(r))
\* What was read from the file are verdicts the judge gave before.
KnownOK == \A i \in DOMAIN known : \A v \in {known[i]} :
             i \in Mine /\ v # NoVerdict /\ Said(i, v)
\* A run works on the records of the shard that it does not know, ...
AskOK   == bench = "running" => \A i \in Record : ask[i].at = "none" <=> i \notin Mine \ DOMAIN known
\* ... and has one row of each that is done.
DoneOK  == /\ \A m, n \in DOMAIN rows : rows[m].rec = rows[n].rec => m = n
           /\ {rows[n].rec : n \in DOMAIN rows} = {i \in Record : ask[i].at = "done"}
\* What the summary of a run that ended says.
SummaryOK ==
  bench = "over" =>
    /\ Len(summary) = Cardinality(Mine) /\ {summary[n].rec : n \in DOMAIN summary} = Mine
    /\ \A n \in DOMAIN summary :
         IF summary[n].verdict = NoVerdict THEN \E m \in DOMAIN rows : rows[m] = summary[n]
         ELSE Said(summary[n].rec, summary[n].verdict)

BenchInv == BenchTypeOK /\ RowsOK /\ KnownOK /\ AskOK /\ DoneOK /\ SummaryOK

LEMMA MineIs == Mine \subseteq Record /\ IsFiniteSet(Mine) /\ IsFiniteSet(Record)
  <1>1. IsFiniteSet(Record)
    BY JudgeBenchAssumption, FS_Interval DEF JudgeBenchAssumption, Record
  <1> QED
    BY <1>1, FS_Subset DEF Mine, ShardOf

\* What the judge said once, it has said.
LEMMA SaidStays ==
  ASSUME judge' = judge, shard' = shard, \A j \in Record : judged[j] \subseteq judged'[j]
  PROVE  /\ \A i \in Record : \A v : Said(i, v) => Said(i, v)'
         /\ Mine' = Mine
         /\ \A r \in RowSet : Genuine(r) => Genuine(r)'
  <1>1. \A text : Extract(text)' = Extract(text)
    BY DEF Extract
  <1>2. ASSUME NEW i \in Record, NEW v, Said(i, v) PROVE Said(i, v)'
    BY <1>1, <1>2 DEF Said
  <1>3. Mine' = Mine
    BY DEF Mine
  <1>4. ASSUME NEW r \in RowSet, Genuine(r) PROVE Genuine(r)'
    <2>1. r.rec \in Record
      BY DEF RowSet
    <2> QED
      BY <1>2, <1>3, <1>4, <2>1 DEF Genuine
  <1> QED
    BY <1>2, <1>3, <1>4

LEMMA ExtractType ==
  ASSUME NEW text \in Texts
  PROVE  Extract(text) \in Verdicts
  <1>1. text \in Seq({"yes", "no"})
    BY JudgeBenchAssumption DEF JudgeBenchAssumption
  <1>2. text # << >> => Last(text) \in {"yes", "no"} /\ Head(text) \in {"yes", "no"}
    <2>1. ASSUME text # << >> PROVE Last(text) \in {"yes", "no"} /\ Len(text) \in Nat \ {0}
      BY <1>1, <2>1, NotEmpty
    <2> QED
      BY <1>1, <2>1
  <1> QED
    BY <1>2 DEF Extract, Verdicts

\* The next three say of the steps what each kind does.  Steps that move
\* records, or end a run without a summary, and leave the rows ...
LEMMA MoveKeeps ==
  ASSUME BenchInv, UNCHANGED inputs, bench' \in {"idle", "running", "failed"},
         bench' = "running" => bench = "running",
         UNCHANGED <<output, known, rows, judged>>, ask' \in [Record -> AskSet],
         \A j \in Record : /\ ask'[j].at = "none" <=> ask[j].at = "none"
                           /\ ask'[j].at = "done" <=> ask[j].at = "done"
  PROVE  BenchInv'
  <1> USE DEF BenchInv, inputs
  <1>1. BenchTypeOK'
    BY DEF BenchTypeOK
  <1>2. /\ \A i \in Record : \A v : Said(i, v) => Said(i, v)'
        /\ Mine' = Mine /\ \A r \in RowSet : Genuine(r) => Genuine(r)'
    BY SaidStays
  <1>3. RowsOK'
    <2>1. Range(output) \subseteq RowSet /\ Range(rows) \subseteq RowSet
      BY DEF BenchTypeOK, Range
    <2> QED
      BY <1>2, <2>1 DEF RowsOK
  <1>4. KnownOK'
    BY <1>2, MineIs DEF KnownOK
  <1>5. AskOK'
    BY <1>2 DEF AskOK
  <1>6. DoneOK'
    BY DEF DoneOK
  <1>7. SummaryOK'
    BY DEF SummaryOK
  <1> QED
    BY <1>1, <1>3, <1>4, <1>5, <1>6, <1>7

\* ... and those that emit the row of a record.
LEMMA EmitKeeps ==
  ASSUME BenchInv, UNCHANGED inputs, bench = "running", bench' = "running", UNCHANGED known,
         NEW i \in Record, ask[i].at = "asking", ask' = [ask EXCEPT ![i].at = "done"],
         NEW v \in Verdicts, Emit(i, v), judged' \in [Record -> SUBSET Texts],
         \A j \in Record : judged[j] \subseteq judged'[j],
         v # NoVerdict => Said(i, v)'
  PROVE  BenchInv'
  <1> USE DEF BenchInv, inputs
  <1> DEFINE row == Row(i, v)
  <1>0. row \in RowSet /\ row.rec = i /\ row.verdict = v
    BY DEF RowSet, Row
  <1>o. output' = Append(output, row) /\ rows' = Append(rows, row)
    BY DEF Emit
  <1> HIDE DEF row
  <1>r. /\ output' \in Seq(RowSet) /\ rows' \in Seq(RowSet)
        /\ Range(output') = Range(output) \cup {row} /\ Range(rows') = Range(rows) \cup {row}
        /\ DOMAIN rows = 1 .. Len(rows) /\ DOMAIN rows' = 1 .. (Len(rows) + 1) /\ Len(rows) \in Nat
        /\ \A n \in 1 .. Len(rows) : rows'[n] = rows[n]
        /\ rows'[Len(rows) + 1] = row
    BY <1>0, <1>o, AppendRange DEF BenchTypeOK
  <1>a. /\ ask' \in [Record -> AskSet] /\ ask'[i].at = "done"
        /\ \A j \in Record : j # i => ask'[j] = ask[j]
    BY DEF BenchTypeOK, AskSet
  <1>1. BenchTypeOK'
    BY <1>r, <1>a DEF BenchTypeOK
  <1>2. /\ \A j \in Record : \A w : Said(j, w) => Said(j, w)'
        /\ Mine' = Mine /\ \A r \in RowSet : Genuine(r) => Genuine(r)'
    BY SaidStays
  <1>m. i \in Mine
    BY DEF AskOK
  <1>g. Genuine(row)'
    BY <1>0, <1>2, <1>m DEF Genuine
  <1>3. RowsOK'
    <2>1. Range(output) \subseteq RowSet /\ Range(rows) \subseteq RowSet
      BY DEF BenchTypeOK, Range
    <2> QED
      BY <1>2, <1>g, <1>r, <2>1 DEF RowsOK
  <1>4. KnownOK'
    BY <1>2, MineIs DEF KnownOK
  <1>5. AskOK'
    BY <1>2, <1>a DEF AskOK
  <1>6. DoneOK'
    <2>1. \A n \in 1 .. Len(rows) : rows[n].rec # i
      BY <1>r DEF DoneOK
    <2>2. \A m, n \in DOMAIN rows' : rows'[m].rec = rows'[n].rec => m = n
      BY <1>0, <1>r, <2>1 DEF DoneOK
    <2>3. ASSUME NEW x
          PROVE  x \in {rows'[n].rec : n \in DOMAIN rows'} <=> x \in {j \in Record : ask'[j].at = "done"}
      <3>1. x \in {rows'[n].rec : n \in DOMAIN rows'} <=>
              x \in {rows[n].rec : n \in DOMAIN rows} \/ x = i
        BY <1>0, <1>r
      <3> QED
        BY <1>a, <3>1 DEF DoneOK
    <2> QED
      BY <2>2, <2>3 DEF DoneOK
  <1>7. SummaryOK'
    BY DEF SummaryOK
  <1> QED
    BY <1>1, <1>3, <1>4, <1>5, <1>6, <1>7

\* existing_rows_by_key: each verdict that is read is one of a row of that record.
LEMMA ExistingIs ==
  ASSUME BenchTypeOK
  PROVE  \A i \in DOMAIN Existing : \E r \in Range(output) :
           r.rec = i /\ r.verdict # NoVerdict /\ Existing[i] = r.verdict
  <1> DEFINE good == {n \in DOMAIN output : output[n].verdict # NoVerdict}
  <1>1. output \in Seq(RowSet) /\ DOMAIN output = 1 .. Len(output) /\ Len(output) \in Nat
    BY DEF BenchTypeOK
  <1>2. Existing = [i \in {output[n].rec : n \in good} |->
                      output[Max({n \in good : output[n].rec = i})].verdict]
    BY DEF Existing
  <1>3. ASSUME NEW i \in {output[n].rec : n \in good}
        PROVE  \E m \in good : /\ m = Max({n \in good : output[n].rec = i})
                               /\ output[m].rec = i
    <2> DEFINE S == {n \in good : output[n].rec = i}
    <2>1. S \subseteq 1 .. Len(output) /\ S # {}
      BY <1>1
    <2> HIDE DEF S
    <2>2. Max(S) \in S
      BY <1>1, <2>1, MaxExists
    <2> USE DEF S
    <2> QED
      BY <2>2
  <1>4. ASSUME NEW i \in DOMAIN Existing
        PROVE  \E r \in Range(output) : r.rec = i /\ r.verdict # NoVerdict /\ Existing[i] = r.verdict
    <2>1. i \in {output[n].rec : n \in good}
      BY <1>2
    <2>2. PICK m \in good : m = Max({n \in good : output[n].rec = i}) /\ output[m].rec = i
      BY <1>3, <2>1
    <2>3. Existing[i] = output[m].verdict
      BY <1>2, <2>1, <2>2
    <2>4. output[m] \in Range(output)
      BY <2>2 DEF Range
    <2> QED
      BY <2>2, <2>3, <2>4
  <1> QED
    BY <1>4

LEMMA OpenStep ==
  ASSUME BenchInv, NEW resume \in BOOLEAN, Open(resume) PROVE BenchInv'
  <1> USE DEF BenchInv
  <1>u. /\ judge' = judge /\ shard' = shard /\ judged' = judged /\ rows' = << >>
        /\ output' \in {output, << >>} /\ known' \in {Existing, << >>}
        /\ ask' = [i \in Record |-> IF i \in Mine \ DOMAIN known'
                                    THEN [NoAsk EXCEPT !.at = "queued"] ELSE NoAsk]
        /\ bench' \in {"failed", "running"}
    BY DEF Open, inputs
  <1>2. /\ \A i \in Record : \A v : Said(i, v) => Said(i, v)'
        /\ Mine' = Mine /\ \A r \in RowSet : Genuine(r) => Genuine(r)'
    BY <1>u, SaidStays
  <1>a. /\ ask' \in [Record -> AskSet]
        /\ \A i \in Record : ask'[i].at = (IF i \in Mine \ DOMAIN known' THEN "queued" ELSE "none")
    BY <1>u DEF NoAsk, AskSet
  <1>1. BenchTypeOK'
    <2>1. << >> \in Seq(RowSet)
      OBVIOUS
    <2> QED
      BY <1>u, <1>a, <2>1 DEF BenchTypeOK
  <1>3. RowsOK'
    <2>1. Range(output) \subseteq RowSet
      BY DEF BenchTypeOK, Range
    <2>2. Range(<< >>) = {}
      BY DEF Range
    <2> QED
      BY <1>2, <1>u, <2>1, <2>2 DEF RowsOK
  <1>4. KnownOK'
    <2>1. CASE known' = << >>
      BY <2>1 DEF KnownOK
    <2>2. CASE known' = Existing
      <3>1. ASSUME NEW i, i \in DOMAIN known', NEW v, v = known'[i]
            PROVE  i \in Mine' /\ v # NoVerdict /\ Said(i, v)'
        <4>1. PICK r \in Range(output) : r.rec = i /\ r.verdict # NoVerdict /\ v = r.verdict
          BY <2>2, <3>1, ExistingIs
        <4>2. i \in Mine /\ Said(i, v)
          BY <4>1 DEF RowsOK, Genuine
        <4> QED
          BY <1>2, <4>1, <4>2, MineIs
      <3> QED
        BY <3>1 DEF KnownOK
    <2> QED
      BY <1>u, <2>1, <2>2
  <1>5. AskOK'
    BY <1>2, <1>a DEF AskOK
  <1>6. DoneOK'
    <2>1. DOMAIN rows' = {}
      BY <1>u
    <2>2. \A i \in Record : ask'[i].at # "done"
      BY <1>a
    <2> QED
      BY <2>1, <2>2 DEF DoneOK
  <1>7. SummaryOK'
    BY <1>u DEF SummaryOK
  <1> QED
    BY <1>1, <1>3, <1>4, <1>5, <1>6, <1>7

\* The end of a run: the rows that were read, then those of this run.
LEMMA GatherStep == ASSUME BenchInv, Gather PROVE BenchInv'
  <1> USE DEF BenchInv
  <1> DEFINE K == {Row(i, known[i]) : i \in DOMAIN known}
             q == SetToSeq(K)
  <1>u. /\ UNCHANGED <<judge, shard, judged, rows, output, known, ask>>
        /\ bench = "running" /\ bench' = "over" /\ summary' = q \o rows
        /\ \A i \in Record : ask[i].at \in {"none", "done"}
    BY DEF Gather, inputs
  <1>2. /\ \A i \in Record : \A v : Said(i, v) => Said(i, v)'
        /\ Mine' = Mine /\ \A r \in RowSet : Genuine(r) => Genuine(r)'
    BY <1>u, SaidStays
  <1>1. BenchTypeOK'
    BY <1>u DEF BenchTypeOK
  <1>3. RowsOK'
    <2>1. Range(output) \subseteq RowSet /\ Range(rows) \subseteq RowSet
      BY DEF BenchTypeOK, Range
    <2> QED
      BY <1>2, <1>u, <2>1 DEF RowsOK
  <1>4. KnownOK'
    BY <1>2, <1>u, MineIs DEF KnownOK
  <1>5. AskOK' /\ DoneOK'
    BY <1>u DEF AskOK, DoneOK
  <1>d. /\ DOMAIN known \subseteq Mine
        /\ \A i \in DOMAIN known : known[i] # NoVerdict /\ Said(i, known[i])
    BY DEF KnownOK
  <1>f. IsFiniteSet(DOMAIN known)
    BY <1>d, MineIs, FS_Subset
  <1>k. /\ IsFiniteSet(K) /\ Cardinality(K) = Cardinality(DOMAIN known)
        /\ {r.rec : r \in K} = DOMAIN known
        /\ \A r \in K : r.verdict # NoVerdict /\ Said(r.rec, r.verdict)
    <2>1. [i \in DOMAIN known |-> Row(i, known[i])] \in Bijection(DOMAIN known, K)
      <3> DEFINE f == [i \in DOMAIN known |-> Row(i, known[i])]
      <3>1. f \in [DOMAIN known -> K] /\ \A t \in K : \E i \in DOMAIN known : f[i] = t
        OBVIOUS
      <3>2. \A a, b \in DOMAIN known : f[a] = f[b] => a = b
        BY DEF Row
      <3> HIDE DEF f, K
      <3>3. f \in Bijection(DOMAIN known, K)
        BY <3>1, <3>2 DEF Bijection, Injection, Surjection, IsInjective
      <3> QED
        BY <3>3 DEF f
    <2>2. ExistsBijection(DOMAIN known, K)
      BY <2>1 DEF ExistsBijection
    <2>3. IsFiniteSet(K) /\ Cardinality(K) = Cardinality(DOMAIN known)
      BY <1>f, <2>2, FS_Bijection
    <2>4. {r.rec : r \in K} = DOMAIN known
      <3>1. \A i \in DOMAIN known : Row(i, known[i]).rec = i
        BY DEF Row
      <3>2. {r.rec : r \in K} \subseteq DOMAIN known
        BY <3>1
      <3>3. DOMAIN known \subseteq {r.rec : r \in K}
        BY <3>1
      <3> QED
        BY <3>2, <3>3
    <2>5. \A r \in K : r.verdict # NoVerdict /\ Said(r.rec, r.verdict)
      BY <1>d DEF Row
    <2> QED
      BY <2>3, <2>4, <2>5
  <1> HIDE DEF K
  <1>q. /\ q \in Seq(K) /\ Len(q) = Cardinality(DOMAIN known) /\ Range(q) = K
        /\ DOMAIN q = 1 .. Len(q) /\ Len(q) \in Nat
    BY <1>k, SetToSeqHas
  <1> HIDE DEF q
  <1>m. /\ {rows[n].rec : n \in DOMAIN rows} = Mine \ DOMAIN known
        /\ DOMAIN rows = 1 .. Len(rows) /\ Len(rows) \in Nat
        /\ Len(rows) = Cardinality(Mine \ DOMAIN known)
    <2> DEFINE R == {rows[n].rec : n \in DOMAIN rows}
               g == [n \in DOMAIN rows |-> rows[n].rec]
    <2>1. {i \in Record : ask[i].at = "done"} = Mine \ DOMAIN known
      BY <1>u, MineIs DEF AskOK
    <2>2. R = Mine \ DOMAIN known
      BY <2>1 DEF DoneOK
    <2>3. DOMAIN rows = 1 .. Len(rows) /\ Len(rows) \in Nat
      BY DEF BenchTypeOK
    <2>4. g \in [DOMAIN rows -> R] /\ \A t \in R : \E n \in DOMAIN rows : g[n] = t
      OBVIOUS
    <2>5. \A a, b \in DOMAIN rows : g[a] = g[b] => a = b
      BY DEF DoneOK
    <2> HIDE DEF g, R
    <2>6. ExistsBijection(DOMAIN rows, R)
      BY <2>4, <2>5 DEF Bijection, Injection, Surjection, IsInjective, ExistsBijection
    <2>7. IsFiniteSet(DOMAIN rows) /\ Cardinality(DOMAIN rows) = Len(rows)
      <3>1. \A k \in Nat : IsFiniteSet(1 .. k) /\ Cardinality(1 .. k) = k
        BY FS_Interval
      <3> QED
        BY <2>3, <3>1
    <2>8. Cardinality(R) = Len(rows)
      BY <2>6, <2>7, FS_Bijection
    <2> QED
      BY <2>2, <2>3, <2>8 DEF R
  <1>7. SummaryOK'
    <2>1. /\ Len(summary') = Len(q) + Len(rows) /\ DOMAIN summary' = 1 .. (Len(q) + Len(rows))
          /\ \A n \in 1 .. Len(q) : summary'[n] = q[n]
          /\ \A n \in 1 .. Len(rows) : summary'[Len(q) + n] = rows[n]
      <3>1. q \in Seq(K \cup RowSet) /\ rows \in Seq(K \cup RowSet)
        BY <1>q DEF BenchTypeOK
      <3> QED
        BY <1>u, <3>1
    <2>2. Len(summary') = Cardinality(Mine)
      <3>1. Cardinality(Mine \ DOMAIN known) = Cardinality(Mine) - Cardinality(Mine \cap DOMAIN known)
        BY MineIs, FS_Difference
      <3>2. Mine \cap DOMAIN known = DOMAIN known
        BY <1>d
      <3>3. Cardinality(Mine) \in Nat /\ Cardinality(DOMAIN known) \in Nat
        BY <1>f, MineIs, FS_CardinalityType
      <3> QED
        BY <1>m, <1>q, <2>1, <3>1, <3>2, <3>3
    <2>3. ASSUME NEW n \in DOMAIN summary'
          PROVE  \/ n \in 1 .. Len(q) /\ summary'[n] = q[n]
                 \/ \E m \in 1 .. Len(rows) : n = Len(q) + m /\ summary'[n] = rows[m]
      <3>1. CASE n <= Len(q)
        BY <1>q, <2>1, <3>1
      <3>2. CASE n > Len(q)
        <4>1. n - Len(q) \in 1 .. Len(rows) /\ n = Len(q) + (n - Len(q))
          BY <1>m, <1>q, <2>1, <3>2
        <4> QED
          BY <2>1, <4>1
      <3> QED
        BY <1>q, <2>1, <3>1, <3>2
    <2>4. {summary'[n].rec : n \in DOMAIN summary'} = Mine
      <3>1. ASSUME NEW n \in DOMAIN summary' PROVE summary'[n].rec \in Mine
        <4>1. \A m \in DOMAIN rows : rows[m].rec \in Mine
          BY <1>m
        <4>2. \A r \in K : r.rec \in Mine
          BY <1>d, <1>k
        <4>3. \A m \in 1 .. Len(q) : q[m] \in K
          BY <1>q
        <4> QED
          BY <1>m, <2>3, <4>1, <4>2, <4>3
      <3>2. ASSUME NEW i \in Mine PROVE \E n \in DOMAIN summary' : summary'[n].rec = i
        <4>1. CASE i \in DOMAIN known
          <5>1. PICK r \in Range(q) : r.rec = i
            BY <1>k, <1>q, <4>1
          <5>2. PICK n \in 1 .. Len(q) : q[n] = r
            BY <1>q DEF Range
          <5>3. n \in DOMAIN summary'
            BY <1>m, <1>q, <2>1
          <5> QED
            BY <2>1, <5>1, <5>2, <5>3
        <4>2. CASE i \notin DOMAIN known
          <5>1. PICK n \in 1 .. Len(rows) : rows[n].rec = i
            BY <1>m, <4>2
          <5>2. Len(q) + n \in DOMAIN summary'
            BY <1>m, <1>q, <2>1
          <5> QED
            BY <2>1, <5>1, <5>2
        <4> QED
          BY <4>1, <4>2
      <3> QED
        BY <3>1, <3>2
    <2>5. ASSUME NEW n \in DOMAIN summary'
          PROVE  IF summary'[n].verdict = NoVerdict THEN \E m \in DOMAIN rows' : rows'[m] = summary'[n]
                 ELSE \A r \in {summary'[n]} : Said(r.rec, r.verdict)'
      <3>1. PICK r : r = summary'[n]
        OBVIOUS
      <3>2. \/ r \in K
            \/ \E m \in DOMAIN rows : r = rows[m]
        BY <1>m, <1>q, <2>3, <3>1 DEF Range
      <3>3. r \in K => r.verdict # NoVerdict /\ r.rec \in Record /\ Said(r.rec, r.verdict)
        BY <1>d, <1>k, MineIs
      <3>4. r \in Range(rows) => r \in RowSet /\ Genuine(r)
        BY DEF RowsOK, BenchTypeOK, Range
      <3>5. r \in Range(rows) => r.verdict = NoVerdict \/ (r.rec \in Record /\ Said(r.rec, r.verdict))
        BY <3>4 DEF Genuine, RowSet
      <3>6. r.verdict # NoVerdict => Said(r.rec, r.verdict)'
        BY <1>2, <3>2, <3>3, <3>5 DEF Range
      <3>7. r.verdict = NoVerdict => \E m \in DOMAIN rows' : rows'[m] = r
        BY <1>u, <3>2, <3>3
      <3> QED
        BY <3>1, <3>6, <3>7
    <2>6. ASSUME NEW n \in DOMAIN summary', summary'[n].verdict # NoVerdict
          PROVE  Said(summary[n].rec, summary[n].verdict)'
      <3>1. PICK r : r = summary'[n]
        OBVIOUS
      <3>2. Said(r.rec, r.verdict)'
        BY <2>5, <2>6, <3>1
      <3> QED
        BY <3>1, <3>2 DEF Said
    <2> QED
      BY <1>2, <2>2, <2>4, <2>5, <2>6 DEF SummaryOK
  <1> QED
    BY <1>1, <1>3, <1>4, <1>5, <1>7

\* A call that failed: back into the queue, or a row without a verdict.
LEMMA FailedKeeps ==
  ASSUME BenchInv, UNCHANGED inputs, bench = "running", bench' = "running",
         UNCHANGED <<known, judged>>,
         NEW i \in Record, ask[i].at = "asking", NEW next \in AskSet, Failed(i, next)
  PROVE  BenchInv'
  <1> USE DEF BenchInv
  <1>1. CASE ask[i].tries + 1 < MaxRetries
    <2>1. /\ ask' = [ask EXCEPT ![i] = [next EXCEPT !.at = "queued", !.tries = @ + 1]]
          /\ UNCHANGED <<output, rows>>
      BY <1>1 DEF Failed
    <2>2. [next EXCEPT !.at = "queued", !.tries = @ + 1] \in AskSet
      <3>1. next.tries + 1 \in Nat
        BY DEF AskSet
      <3>2. PICK n \in Nat : n = next.tries + 1
        BY <3>1
      <3>3. [next EXCEPT !.at = "queued", !.tries = n] \in AskSet
        BY DEF AskSet
      <3> QED
        BY <3>2, <3>3
    <2>3. [next EXCEPT !.at = "queued", !.tries = @ + 1].at = "queued"
      BY DEF AskSet
    <2>4. ask' \in [Record -> AskSet] /\ ask'[i].at = "queued" /\ \A j \in Record : j # i => ask'[j] = ask[j]
      BY <2>1, <2>2, <2>3 DEF BenchTypeOK
    <2> QED
      BY <2>1, <2>4, MoveKeeps
  <1>2. CASE ~(ask[i].tries + 1 < MaxRetries)
    <2>1. ask' = [ask EXCEPT ![i].at = "done"] /\ Emit(i, NoVerdict)
      BY <1>2 DEF Failed, GiveUp
    <2>2. NoVerdict \in Verdicts
      BY DEF Verdicts
    <2>3. judged' \in [Record -> SUBSET Texts] /\ \A j \in Record : judged[j] \subseteq judged'[j]
      BY DEF BenchTypeOK
    <2> QED
      BY <2>1, <2>2, <2>3, EmitKeeps
  <1> QED
    BY <1>1, <1>2

LEMMA BenchInvariance == BenchSpec => []BenchInv
  <1>1. BenchInit => BenchInv
    <2> SUFFICES ASSUME BenchInit PROVE BenchInv
      OBVIOUS
    <2> USE DEF BenchInit, BenchBegin
    <2>1. NoAsk \in AskSet /\ NoAsk.at = "none" /\ << >> \in Seq(RowSet)
      BY DEF NoAsk, AskSet
    <2>2. BenchTypeOK
      <3>1. /\ shard \in 0 .. Shards - 1 /\ judge \in Judges /\ bench = "idle"
            /\ output \in Seq(RowSet) /\ rows \in Seq(RowSet)
        BY <2>1
      <3>2. ask \in [Record -> AskSet] /\ judged \in [Record -> SUBSET Texts]
        BY <2>1
      <3> QED
        BY <3>1, <3>2 DEF BenchTypeOK
    <2>3. RowsOK /\ KnownOK /\ AskOK /\ SummaryOK
      BY DEF RowsOK, KnownOK, AskOK, SummaryOK, Range
    <2>4. DoneOK
      BY <2>1 DEF DoneOK
    <2> QED
      BY <2>2, <2>3, <2>4 DEF BenchInv
  <1>2. BenchInv /\ [BenchNext]_benchVars => BenchInv'
    <2> SUFFICES ASSUME BenchInv, [BenchNext]_benchVars PROVE BenchInv'
      OBVIOUS
    <2>t. BenchTypeOK
      BY DEF BenchInv
    <2>1. ASSUME NEW resume \in BOOLEAN, Open(resume) PROVE BenchInv'
      BY <2>1, OpenStep
    <2>2. ASSUME NEW i \in Record, Call(i) PROVE BenchInv'
      <3>1. /\ ask' \in [Record -> AskSet] /\ ask'[i].at = "asking" /\ ask[i].at = "queued"
            /\ \A j \in Record : j # i => ask'[j] = ask[j]
        BY <2>2, <2>t DEF Call, BenchTypeOK, AskSet
      <3> QED
        BY <2>2, <3>1, MoveKeeps DEF Call
    <2>3. ASSUME NEW i \in Record, Refused(i) PROVE BenchInv'
      <3>1. /\ UNCHANGED inputs /\ bench = "running" /\ bench' = "running" /\ UNCHANGED <<known, judged>>
            /\ ask[i].at = "asking"
        BY <2>3 DEF Refused, InFlight
      <3>2. PICK next \in AskSet : Failed(i, next)
        <4>1. ask[i] \in AskSet
          BY <2>t DEF BenchTypeOK
        <4>2. [ask[i] EXCEPT !.temperature = FALSE] \in AskSet
          BY <4>1 DEF AskSet
        <4>3. [ask[i] EXCEPT !.token = IF @ = "max_completion_tokens" THEN "max_tokens" ELSE "no"] \in AskSet
          BY <4>1 DEF AskSet
        <4> QED
          BY <2>3, <4>2, <4>3 DEF Refused
      <3> QED
        BY <3>1, <3>2, FailedKeeps
    <2>4. ASSUME NEW i \in Record, CallFailed(i) PROVE BenchInv'
      <3>1. /\ UNCHANGED inputs /\ bench = "running" /\ bench' = "running" /\ UNCHANGED <<known, judged>>
            /\ ask[i].at = "asking" /\ Failed(i, ask[i])
        BY <2>4 DEF CallFailed, InFlight
      <3>2. ask[i] \in AskSet
        BY <2>t DEF BenchTypeOK
      <3>3. PICK next \in AskSet : next = ask[i]
        BY <3>2
      <3> QED
        BY <3>1, <3>3, FailedKeeps
    <2>5. ASSUME NEW i \in Record, NEW text \in Texts, ApiAnswers(i, text) PROVE BenchInv'
      <3>1. /\ UNCHANGED inputs /\ bench = "running" /\ bench' = "running" /\ UNCHANGED known
            /\ ask[i].at = "asking" /\ ask' = [ask EXCEPT ![i].at = "done"]
            /\ judged' = [judged EXCEPT ![i] = @ \cup {text}] /\ Emit(i, Extract(text))
        BY <2>5 DEF ApiAnswers, InFlight
      <3>2. /\ judged' \in [Record -> SUBSET Texts] /\ text \in judged'[i]
            /\ \A j \in Record : judged[j] \subseteq judged'[j]
        BY <2>t, <3>1 DEF BenchTypeOK
      <3>3. PICK v \in Verdicts : v = Extract(text)
        BY ExtractType
      <3>4. Extract(text)' = v
        BY <3>1, <3>3 DEF Extract, inputs
      <3>5. Said(i, v)'
        BY <3>2, <3>4 DEF Said
      <3>6. Emit(i, v)
        BY <3>1, <3>3
      <3> QED
        BY <3>1, <3>2, <3>5, <3>6, EmitKeeps
    <2>6. CASE Generate
      <3>1. /\ ask' \in [Record -> AskSet]
            /\ \A j \in Record : /\ ask'[j].at = "none" <=> ask[j].at = "none"
                                 /\ ask'[j].at = "done" <=> ask[j].at = "done"
        <4>1. ask' = [i \in Record |-> IF i \in Batch THEN [ask[i] EXCEPT !.at = "asking"] ELSE ask[i]]
          BY <2>6 DEF Generate
        <4>2. \A i \in Batch : ask[i].at = "queued"
          BY DEF Batch
        <4>3. \A i \in Record : /\ [ask[i] EXCEPT !.at = "asking"] \in AskSet
                                /\ [ask[i] EXCEPT !.at = "asking"].at = "asking"
                                /\ ask[i] \in AskSet
          BY <2>t DEF BenchTypeOK, AskSet
        <4> QED
          BY <4>1, <4>2, <4>3
      <3> QED
        BY <2>6, <3>1, MoveKeeps DEF Generate
    <2>7. ASSUME NEW text \in Texts, NEW again \in Texts, WriteRow(text, again) PROVE BenchInv'
      <3>1. PICK i : i = Min(InFlight)
        OBVIOUS
      <3>2. i \in Record /\ ask[i].at = "asking"
        <4>1. InFlight \subseteq 0 .. NumRecords - 1 /\ InFlight # {}
          BY <2>7 DEF WriteRow, InFlight, Record
        <4>2. NumRecords \in Nat
          BY JudgeBenchAssumption DEF JudgeBenchAssumption
        <4>3. i \in InFlight
          BY <3>1, <4>1, <4>2, MinExists
        <4> QED
          BY <4>3 DEF InFlight
      <3>3. PICK x \in Texts : x = (IF text = << >> THEN again ELSE text)
        OBVIOUS
      <3>4. PICK v \in Verdicts : v = Extract(x)
        BY ExtractType
      <3>5. /\ UNCHANGED inputs /\ bench = "running" /\ bench' = "running" /\ UNCHANGED known
            /\ ask' = [ask EXCEPT ![i].at = "done"]
            /\ judged' = [judged EXCEPT ![i] = @ \cup {text, again}] /\ Emit(i, v)
        BY <2>7, <3>1, <3>3, <3>4 DEF WriteRow
      <3>6. /\ judged' \in [Record -> SUBSET Texts] /\ x \in judged'[i]
            /\ \A j \in Record : judged[j] \subseteq judged'[j]
        BY <2>t, <3>2, <3>3, <3>5 DEF BenchTypeOK
      <3>7. Extract(x)' = v
        BY <3>4, <3>5 DEF Extract, inputs
      <3>8. Said(i, v)'
        BY <3>6, <3>7 DEF Said
      <3> QED
        BY <3>2, <3>5, <3>6, <3>8, EmitKeeps
    <2>8. CASE Gather
      BY <2>8, GatherStep
    <2>9. CASE Again
      BY <2>9, <2>t, MoveKeeps DEF Again, BenchTypeOK
    <2>10. ASSUME NEW cut \in BOOLEAN, Kill(cut) PROVE BenchInv'
      BY <2>10, <2>t, MoveKeeps DEF Kill, BenchTypeOK
    <2>11. CASE UNCHANGED benchVars
      BY <2>11 DEF benchVars, BenchInv, BenchTypeOK, RowsOK, Genuine, KnownOK, AskOK, DoneOK, SummaryOK,
         Said, Extract, Mine
    <2> QED
      BY <2>1, <2>2, <2>3, <2>4, <2>5, <2>6, <2>7, <2>8, <2>9, <2>10, <2>11 DEF BenchNext
  <1> QED
    BY <1>1, <1>2, PTL DEF BenchSpec

-----------------------------------------------------------------------------
(* What is proved.                                                            *)

\* Both judges count every task once, with a verdict that was given for it:
\* when the evaluation of a checkpoint is over, its two lists are all tasks,
\* each once, its successes are the episodes that earned one and the files
\* tell what the results tell; and the summary of an offline run has one row of
\* every record of its shard, whatever was killed and resumed before.
THEOREM VerdictsAreExact == JudgingSpec => []VerdictsExact
  <1>1. EvalInv => EvalExact
    BY EvaluationAssumption, EvalInvTells
  <1>2. BenchInv => BenchExact
    BY ShardsPart DEF BenchInv, SummaryOK, BenchExact
  <1>3. EvalExact /\ BenchExact => VerdictsExact
    BY DEF VerdictsExact
  <1> QED
    BY <1>1, <1>2, <1>3, EvalInvariance, BenchInvariance, PTL DEF JudgingSpec
=============================================================================
