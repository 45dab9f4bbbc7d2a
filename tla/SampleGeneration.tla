--------------------------- MODULE SampleGeneration ---------------------------
(* The samples of one group on their way through generate_and_rm_group,        *)
(* generate_and_rm and generate (sglang_rollout.py), over several rollouts     *)
(* with --partial-rollout: what abort() interrupts goes back to the buffer,    *)
(* and a later rollout, with newer weights, goes on from the tokens it has.    *)
(*                                                                             *)
(* A token is the rollout that generated it and the number of response tokens  *)
(* the engine had in front of it.  The prompt is left out of the tokens.       *)
EXTENDS Naturals, Sequences

CONSTANTS Members,        \* the samples of the group
          MaxResponseLen, \* --rollout-max-response-len
          MaxRollouts     \* bound: rollouts the group may take part in

ASSUME SampleAssumption == MaxResponseLen \in Nat /\ MaxRollouts \in Nat

NoMask == << >>            \* loss_mask is None; a mask that is set is not empty
Unjudged == MaxResponseLen + 1

VARIABLES
  maskOffPolicy, \* --mask-offpolicy-in-partial-rollout
  rolloutId, aborting,  \* the current rollout; GenerateState.aborted
  group,     \* where the group is: "buffer", "running", "gone", "trained", "failed"
  member,    \* per sample: where generate_and_rm is
  asked,     \* per sample: the request at the engine
  sample,    \* the Sample objects
  wordless   \* history: samples that were interrupted with tokens but no text
sampleVars == <<maskOffPolicy, rolloutId, aborting, group, member, asked, sample, wordless>>

NewSample == [tokens |-> << >>, length |-> 0, texts |-> 0, logProbs |-> << >>, mask |-> NoMask,
              status |-> "pending", judged |-> Unjudged]
NoRequest == [after |-> 0, budget |-> 0]

SampleInit ==
  /\ maskOffPolicy \in BOOLEAN
  /\ rolloutId = 0 /\ aborting = FALSE /\ group = "buffer"
  /\ member = [m \in Members |-> "rest"] /\ asked = [m \in Members |-> NoRequest]
  /\ sample = [m \in Members |-> NewSample] /\ wordless = {}

\* A new task for the group; it ends at once when abort() has begun.
SubmitGroup ==
  /\ group = "buffer" /\ ~aborting /\ group' = "running"
  /\ \/ member' = [m \in Members |-> "start"] /\ UNCHANGED aborting
     \/ member' = [m \in Members |-> "done"] /\ aborting' = TRUE
  /\ UNCHANGED <<maskOffPolicy, rolloutId, asked, sample, wordless>>

\* The head of generate_and_rm: what earlier rollouts generated is masked, and a
\* sample that is complete is left as it is.
\* Mutant: a sample that was interrupted keeps the mask it has.
StartSampleUnmasked(m) ==
  /\ group = "running" /\ member[m] = "start"
  /\ member' = [member EXCEPT ![m] =
                  IF sample[m].status \in {"completed", "truncated"} THEN "done" ELSE "queued"]
  /\ UNCHANGED <<maskOffPolicy, rolloutId, aborting, group, asked, sample, wordless>>
StartSample(m) ==
  /\ group = "running" /\ member[m] = "start"
  /\ sample' = [sample EXCEPT ![m].mask =
                  IF maskOffPolicy /\ sample[m].length > 0 THEN [i \in 1 .. sample[m].length |-> 0] ELSE @]
  /\ member' = [member EXCEPT ![m] =
                  IF sample[m].status \in {"completed", "truncated"} THEN "done" ELSE "queued"]
  /\ UNCHANGED <<maskOffPolicy, rolloutId, aborting, group, asked, wordless>>

\* With the permit, and abort() has begun meanwhile.
PermitAborted(m) ==
  /\ group = "running" /\ member[m] = "queued" /\ aborting
  /\ sample' = [sample EXCEPT ![m].status = "aborted"]
  /\ member' = [member EXCEPT ![m] = "done"]
  /\ UNCHANGED <<maskOffPolicy, rolloutId, aborting, group, asked, wordless>>

\* A response is continued when it has a text; otherwise the prompt is sent.
Request(s) == IF s.texts > 0 THEN [after |-> Len(s.tokens), used |-> Len(s.tokens)]
                             ELSE [after |-> 0, used |-> 0]
\* Mutant: every request has the whole budget.
PermitWhole(m) ==
  /\ group = "running" /\ member[m] = "queued" /\ ~aborting
  /\ asked' = [asked EXCEPT ![m] = [after |-> Request(sample[m]).after, budget |-> MaxResponseLen]]
  /\ member' = [member EXCEPT ![m] = "engine"]
  /\ UNCHANGED <<maskOffPolicy, rolloutId, aborting, group, sample, wordless>>
Permit(m) ==
  LET r == Request(sample[m])
  IN  /\ group = "running" /\ member[m] = "queued" /\ ~aborting
      /\ \/ /\ r.used < MaxResponseLen
            /\ asked' = [asked EXCEPT ![m] = [after |-> r.after, budget |-> MaxResponseLen - r.used]]
            /\ member' = [member EXCEPT ![m] = "engine"]
            /\ UNCHANGED <<sample, group>>
         \/ /\ r.used = MaxResponseLen
            /\ sample' = [sample EXCEPT ![m].status = "truncated"]
            /\ member' = [member EXCEPT ![m] = "judge"]
            /\ UNCHANGED <<asked, group>>
         \/ /\ r.used > MaxResponseLen     \* "max_new_tokens should not be less than 0"
            /\ group' = "failed" /\ UNCHANGED <<asked, sample, member>>
      /\ UNCHANGED <<maskOffPolicy, rolloutId, aborting, wordless>>

\* The engine answers: it stopped, its budget is used up, or it was told to
\* abort.  An answer that is repeated because it was lost is the same answer.
Generated(m, n) == [i \in 1 .. n |-> [of |-> rolloutId, after |-> asked[m].after + i - 1]]
Answered(m, n, text, status) ==
  LET s == sample[m]
  IN  [s EXCEPT !.tokens = @ \o Generated(m, n), !.length = @ + n, !.texts = @ + text,
                !.logProbs = @ \o Generated(m, n),
                !.mask = IF @ = NoMask THEN @ ELSE @ \o [i \in 1 .. n |-> 1],
                !.status = status]
EngineAnswers(m) ==
  /\ group = "running" /\ member[m] = "engine"
  /\ \E n \in 0 .. asked[m].budget :
       \/ /\ n = asked[m].budget
          /\ sample' = [sample EXCEPT ![m] = Answered(m, n, 1, "truncated")]
          /\ member' = [member EXCEPT ![m] = "judge"] /\ UNCHANGED wordless
       \/ /\ n > 0
          /\ sample' = [sample EXCEPT ![m] = Answered(m, n, 1, "completed")]
          /\ member' = [member EXCEPT ![m] = "judge"] /\ UNCHANGED wordless
       \/ /\ aborting
          /\ \E text \in {0, 1} :   \* half of a character has no text yet
               /\ n = 0 => text = 0
               /\ sample' = [sample EXCEPT ![m] = Answered(m, n, text, "aborted")]
               /\ wordless' = IF n > 0 /\ text = 0 /\ sample[m].texts = 0
                              THEN wordless \cup {m} ELSE wordless
          /\ member' = [member EXCEPT ![m] = "done"]
  /\ asked' = [asked EXCEPT ![m] = NoRequest]
  /\ UNCHANGED <<maskOffPolicy, rolloutId, aborting, group>>

\* async_rm, unless the sample has a reward.
JudgeSample(m) ==
  /\ group = "running" /\ member[m] = "judge"
  /\ sample' = [sample EXCEPT ![m].judged = IF @ = Unjudged THEN sample[m].length ELSE @]
  /\ member' = [member EXCEPT ![m] = "done"]
  /\ UNCHANGED <<maskOffPolicy, rolloutId, aborting, group, asked, wordless>>

\* abort(): the task is cancelled, and its group lost, unless it has ended or the
\* cancellation fails (_safe_cancel_pending_task).
AbortRollout ==
  /\ ~aborting /\ group \in {"running", "buffer"} /\ aborting' = TRUE
  /\ \/ UNCHANGED group
     \/ group = "running" /\ (\E m \in Members : member[m] # "done") /\ group' = "gone"
  /\ UNCHANGED <<maskOffPolicy, rolloutId, member, asked, sample, wordless>>

\* The gather has all samples: the group is trained, or goes back to the buffer.
SamplesGathered ==
  /\ group = "running" /\ \A m \in Members : member[m] = "done"
  /\ group' = IF aborting THEN "buffer" ELSE "trained"
  /\ member' = [m \in Members |-> "rest"]
  /\ UNCHANGED <<maskOffPolicy, rolloutId, aborting, asked, sample, wordless>>

NextWeights ==
  /\ aborting /\ group = "buffer" /\ rolloutId + 1 < MaxRollouts
  /\ rolloutId' = rolloutId + 1 /\ aborting' = FALSE
  /\ UNCHANGED <<maskOffPolicy, group, member, asked, sample, wordless>>

SampleNext ==
  \/ SubmitGroup \/ AbortRollout \/ SamplesGathered \/ NextWeights
  \/ \E m \in Members : StartSample(m) \/ PermitAborted(m) \/ Permit(m) \/ EngineAnswers(m) \/ JudgeSample(m)
SampleSpec == SampleInit /\ [][SampleNext]_sampleVars

-----------------------------------------------------------------------------
\* However often a sample was interrupted: each of its tokens has its log-prob
\* and its entry in the mask, was generated with exactly the tokens before it in
\* front of it, and all of them are within the limit (generate), except where
\* an earlier part had tokens and no text yet.  Only such a sample can exceed it.
ContinuesItself ==
  /\ group = "failed" => wordless # {}
  /\ \A m \in Members :
       LET s == sample[m]
       IN  /\ s.logProbs = s.tokens /\ s.length = Len(s.tokens)
           /\ s.mask # NoMask => Len(s.mask) = s.length
           /\ m \notin wordless =>
                s.length <= MaxResponseLen /\ \A i \in 1 .. s.length : s.tokens[i].after = i - 1

\* What is trained was judged as a whole, and with the option the loss counts the
\* tokens of the current weights and no others, also in a group some of whose
\* samples were complete when it was interrupted.
TrainsWhole ==
  group = "trained" =>
    \A m \in Members :
      LET s == sample[m]
      IN  /\ s.status \in {"completed", "truncated"} /\ s.judged = s.length
          /\ maskOffPolicy =>
               \A i \in 1 .. s.length :
                 (s.mask = NoMask \/ s.mask[i] = 1) <=> s.tokens[i].of = rolloutId

SampleExact == ContinuesItself /\ TrainsWhole
=============================================================================
