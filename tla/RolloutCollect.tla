---------------------------- MODULE RolloutCollect ----------------------------
(* One training rollout after the other as sglang_rollout.py collects them,    *)
(* with the buffer of the data source.  A group is the samples of one prompt;  *)
(* it is generated by one asyncio task that gathers a child per sample, and    *)
(* all children share one semaphore.  The collecting coroutine and the tasks   *)
(* run on one event loop: they interleave at awaits only, and a task that is   *)
(* not waited for any more goes on while the next phase of the job runs.       *)
EXTENDS Integers, FiniteSets

CONSTANTS GroupSize,       \* n_samples_per_prompt
          Target,          \* rollout_batch_size, in groups
          OverSampling,    \* over_sampling_batch_size
          Concurrency,     \* value of the semaphore
          PartialRollout,  \* --partial-rollout
          NumRollout,      \* rollouts of the job
          MaxGroups,       \* bound: groups ever drawn from the dataset
          MaxFiltered,     \* bound: groups the dynamic filter drops
          MaxErrors,       \* bound: samples whose generation raises
          MaxEscapes       \* bound: calls of task.cancel() that raise

ASSUME CollectAssumption ==
  /\ GroupSize \in Nat \ {0} /\ Target \in Nat \ {0} /\ Concurrency \in Nat \ {0}
  /\ OverSampling \in Nat /\ OverSampling >= Target        \* arguments.py:1935
  /\ PartialRollout \in BOOLEAN
  /\ NumRollout \in Nat /\ MaxGroups \in Nat
  /\ MaxFiltered \in Nat /\ MaxErrors \in Nat /\ MaxEscapes \in Nat

Group == 1 .. MaxGroups

VARIABLES
  pc,          \* the collecting coroutine: idle | fill | wait | cancel | abort | failed
  round,       \* rollouts begun
  \* --- GenerateState
  remaining,   \* remaining_batch_size
  pendings,    \* the groups whose tasks it waits for
  aborted,
  sem,         \* permits left
  \* --- the rollout and the data source
  data,        \* groups accepted
  recycled,    \* aborted_samples: groups abort() keeps for later
  trained,     \* groups returned by earlier rollouts
  buffer,      \* RolloutDataSourceWithBuffer.buffer
  next,        \* sample_group_index: groups drawn from the dataset
  \* --- the tasks
  task,        \* none | running | ended | raised | cancelling | cancelled
  left,        \* samples of the group that are not complete
  waiting,     \* children that wait for a permit
  gen,         \* children that generate, with a permit
  closing,     \* cancelled children that still clean up, with a permit
  \* --- history and environment
  unfinished,  \* groups whose tasks had not ended when abort() began
  gaveUp,      \* the wait of the last abort() timed out
  filtered, errors, escapes

state   == <<remaining, pendings, aborted>>
source  == <<recycled, trained, buffer, next>>
child   == <<left, waiting, gen, closing, sem>>
history == <<unfinished, gaveUp>>
env     == <<filtered, errors, escapes>>
vars    == <<pc, round, state, data, source, task, child, history, env>>

Ended     == {"ended", "raised", "cancelled"}             \* Task.done()
Completed == {g \in pendings : task[g] \in Ended}
Suspended == pc \in {"wait", "abort", "idle"}             \* the loop runs the others
Busy(g)   == waiting[g] + gen[g] + closing[g] > 0
Least(a, b) == IF a <= b THEN a ELSE b

-----------------------------------------------------------------------------
(* generate_rollout_async.                                                    *)

Begin ==
  /\ pc = "idle" /\ round < NumRollout
  /\ pc' = "fill" /\ round' = round + 1
  /\ data' = {} /\ recycled' = {}
  /\ UNCHANGED <<state, trained, buffer, next, task, child, history, env>>

\* get_samples: from the buffer first, the rest from the dataset.  Which ones
\* of the buffer come first is left open (pop_first, or --buffer-filter-path).
Drawn(B) == B \cup (next + 1 .. next + OverSampling - Cardinality(B))

\* One task per group, a child for every sample that is not complete.
Submit(S) ==
  /\ pendings' = pendings \cup S
  /\ remaining' = remaining + OverSampling
  /\ task' = [g \in Group |-> IF g \in S THEN "running" ELSE task[g]]
  /\ waiting' = [g \in Group |-> IF g \in S THEN left[g] ELSE waiting[g]]

\* Mutant: a recycled group is submitted again, and stays in the buffer.
FillPeeks ==
  /\ pc = "fill" /\ remaining < Target
  /\ \E B \in SUBSET buffer :
       /\ Cardinality(B) = Least(Cardinality(buffer), OverSampling)
       /\ next + OverSampling - Cardinality(B) <= MaxGroups
       /\ Submit(Drawn(B))
       /\ next' = next + OverSampling - Cardinality(B)
  /\ UNCHANGED <<pc, round, aborted, buffer, data, recycled, trained, left, gen, closing, sem, history, env>>

Fill ==
  /\ pc = "fill" /\ remaining < Target
  /\ \E B \in SUBSET buffer :
       /\ Cardinality(B) = Least(Cardinality(buffer), OverSampling)
       /\ next + OverSampling - Cardinality(B) <= MaxGroups         \* bound
       /\ Submit(Drawn(B))
       /\ buffer' = buffer \ B
       /\ next' = next + OverSampling - Cardinality(B)
  /\ UNCHANGED <<pc, round, aborted, data, recycled, trained, left, gen, closing, sem, history, env>>

\* asyncio.wait(pendings, FIRST_COMPLETED).
Wait ==
  /\ pc = "fill" /\ remaining >= Target
  /\ pc' = "wait"
  /\ UNCHANGED <<round, state, data, source, task, child, history, env>>

\* The dynamic filter keeps the groups of kept; data takes no more of them
\* than it needs.
Keep(kept) ==
  /\ filtered' = filtered + Cardinality(Completed \ kept)
  /\ filtered' <= MaxFiltered                                        \* bound
  /\ remaining' = remaining - Cardinality(Completed \ kept)
  /\ \E new \in SUBSET kept :
       /\ Cardinality(new) = Least(Cardinality(kept), Target - Cardinality(data))
       /\ data' = data \cup new
  /\ pc' = IF Cardinality(data') < Target THEN "fill" ELSE "cancel"

\* Mutant: a group the filter drops still counts as one that will be accepted.
CollectForgets ==
  /\ pc = "wait" /\ Completed # {}
  /\ pendings' = pendings \ Completed
  /\ \A g \in Completed : task[g] = "ended"
  /\ \E kept \in SUBSET Completed :
       /\ filtered + Cardinality(Completed \ kept) <= MaxFiltered
       /\ filtered' = filtered + Cardinality(Completed \ kept)
       /\ \E new \in SUBSET kept :
            /\ Cardinality(new) = Least(Cardinality(kept), Target - Cardinality(data))
            /\ data' = data \cup new
       /\ pc' = IF Cardinality(data') < Target THEN "fill" ELSE "cancel"
  /\ UNCHANGED <<round, remaining, aborted, source, task, child, history, errors, escapes>>

\* The results that are there; task.result() raises what the task has raised,
\* which ends the rollout and the job.
Collect ==
  /\ pc = "wait" /\ Completed # {}
  /\ pendings' = pendings \ Completed
  /\ \/ /\ \A g \in Completed : task[g] = "ended"
        /\ \E kept \in SUBSET Completed : Keep(kept)
     \/ /\ \E g \in Completed : task[g] # "ended"
        /\ pc' = "failed"
        /\ UNCHANGED <<remaining, data, filtered>>
  /\ UNCHANGED <<round, aborted, source, task, child, history, errors, escapes>>

-----------------------------------------------------------------------------
(* abort().                                                                   *)

\* Cancel every pending task that has not ended, except those of E, whose
\* cancel() raises.  Children that wait for a permit end at once, and with
\* the first child that ends cancelled asyncio.gather, and so the task, ends
\* too; the others clean up.
Cancel(E) ==
  LET C == (pendings \ Completed) \ E
  IN /\ task' = [g \in Group |->
                   IF g \notin C \/ task[g] # "running" THEN task[g]
                   ELSE IF waiting[g] > 0 \/ gen[g] = 0 THEN "cancelled" ELSE "cancelling"]
     /\ waiting' = [g \in Group |-> IF g \in C THEN 0 ELSE waiting[g]]
     /\ gen' = [g \in Group |-> IF g \in C THEN 0 ELSE gen[g]]
     /\ closing' = [g \in Group |-> IF g \in C THEN closing[g] + gen[g] ELSE closing[g]]
     /\ escapes' = escapes + Cardinality(E)
     /\ escapes' <= MaxEscapes                                       \* bound

\* "assert not state.aborted": were it set, the job would stop here.
Abort ==
  /\ pc = "cancel" /\ ~aborted
  /\ aborted' = TRUE
  /\ \E E \in SUBSET (pendings \ Completed) : Cancel(E)
  /\ unfinished' = pendings \ Completed
  /\ gaveUp' = FALSE
  /\ pc' = "abort"
  /\ UNCHANGED <<round, remaining, pendings, data, source, left, sem, filtered, errors>>

\* Mutant: the groups of cancelled tasks are kept as well.
AbortCollectCancelled ==
  /\ pc = "abort" /\ Completed # {}
  /\ pendings' = pendings \ Completed
  /\ recycled' = IF PartialRollout THEN recycled \cup Completed ELSE recycled
  /\ UNCHANGED <<pc, round, remaining, aborted, data, trained, buffer, next, task, child, history, env>>

\* Tasks that have ended; what they return is kept with --partial-rollout.
AbortCollect ==
  /\ pc = "abort" /\ Completed # {}
  /\ pendings' = pendings \ Completed
  /\ recycled' = IF PartialRollout
                 THEN recycled \cup {g \in Completed : task[g] = "ended"} ELSE recycled
  /\ UNCHANGED <<pc, round, remaining, aborted, data, trained, buffer, next, task, child, history, env>>

\* Mutant: the wait starts again instead of giving up.
AbortTimeoutWaits ==
  /\ pc = "abort" /\ Completed = {} /\ pendings # {}
  /\ gaveUp' = TRUE
  /\ UNCHANGED <<pc, round, state, data, source, task, child, unfinished, env>>

\* Nothing ended within rollout_abort_wait_timeout_secs: cancel again, drop.
AbortTimeout ==
  /\ pc = "abort" /\ Completed = {} /\ pendings # {}
  /\ \E E \in SUBSET pendings : Cancel(E)
  /\ pendings' = {}
  /\ gaveUp' = TRUE
  /\ UNCHANGED <<pc, round, remaining, aborted, data, source, left, sem, unfinished, filtered, errors>>

\* Mutant: aborted stays set.
EndRolloutNoReset ==
  /\ pc = "abort" /\ pendings = {}
  /\ trained' = trained \cup data
  /\ buffer' = buffer \cup recycled
  /\ data' = {} /\ recycled' = {}
  /\ remaining' = 0
  /\ pc' = "idle"
  /\ UNCHANGED <<round, pendings, aborted, next, task, child, history, env>>

\* The batch goes to the trainer, the state is reset, and generate_rollout
\* gives the recycled groups to the data source.
EndRollout ==
  /\ pc = "abort" /\ pendings = {}
  /\ trained' = trained \cup data
  /\ buffer' = buffer \cup recycled
  /\ data' = {} /\ recycled' = {}
  /\ remaining' = 0 /\ aborted' = FALSE
  /\ pc' = "idle"
  /\ UNCHANGED <<round, pendings, next, task, child, history, env>>

-----------------------------------------------------------------------------
(* generate_and_rm_group and generate_and_rm.                                 *)

TaskOnly == UNCHANGED <<pc, round, state, data, source, history>>
Release(f, g) == /\ f[g] > 0
                 /\ sem' = sem + 1

\* Mutant: the semaphore is not looked at.
AcquireAnyway(g) ==
  /\ task[g] \in {"running", "raised"} /\ waiting[g] > 0
  /\ waiting' = [waiting EXCEPT ![g] = @ - 1]
  /\ gen' = [gen EXCEPT ![g] = @ + 1]
  /\ sem' = sem - 1
  /\ UNCHANGED <<task, left, closing, env>>

\* A permit: the child generates, or returns at once when aborted is set.
Acquire(g) ==
  /\ task[g] \in {"running", "raised"} /\ waiting[g] > 0 /\ sem > 0
  /\ waiting' = [waiting EXCEPT ![g] = @ - 1]
  /\ \/ aborted /\ UNCHANGED <<gen, sem>>
     \/ /\ ~aborted
        /\ gen' = [gen EXCEPT ![g] = @ + 1]
        /\ sem' = sem - 1
  /\ UNCHANGED <<task, left, closing, env>>

\* The generation has run to its end, or was given up for good (browser
\* rollouts catch their errors); or abort() had the server cut it short.
SampleEnds(g) ==
  /\ Release(gen, g)
  /\ gen' = [gen EXCEPT ![g] = @ - 1]
  /\ \/ left' = [left EXCEPT ![g] = @ - 1]
     \/ aborted /\ UNCHANGED left
  /\ UNCHANGED <<task, waiting, closing, env>>

\* gather raises with the first child that does; the others go on.
SampleRaises(g) ==
  /\ errors < MaxErrors                                              \* bound
  /\ Release(gen, g)
  /\ gen' = [gen EXCEPT ![g] = @ - 1]
  /\ task' = [task EXCEPT ![g] = "raised"]
  /\ errors' = errors + 1
  /\ UNCHANGED <<left, waiting, closing, filtered, escapes>>

GroupEnds(g) ==
  /\ task[g] = "running" /\ ~Busy(g)
  /\ task' = [task EXCEPT ![g] = "ended"]
  /\ UNCHANGED <<child, env>>

\* The clean-up of a cancelled child is over: it ends cancelled, or
\* _safe_exit_env has swallowed the cancellation and it returns.
CleanedUp(g) ==
  /\ Release(closing, g)
  /\ closing' = [closing EXCEPT ![g] = @ - 1]
  /\ \/ task' = [task EXCEPT ![g] = "cancelled"]
     \/ closing[g] > 1 /\ UNCHANGED task
  /\ UNCHANGED <<left, waiting, gen, env>>

-----------------------------------------------------------------------------

Init ==
  /\ pc = "idle" /\ round = 0
  /\ remaining = 0 /\ pendings = {} /\ aborted = FALSE
  /\ sem = Concurrency
  /\ data = {} /\ recycled = {} /\ trained = {} /\ buffer = {} /\ next = 0
  /\ task = [g \in Group |-> "none"]
  /\ left = [g \in Group |-> GroupSize]
  /\ waiting = [g \in Group |-> 0]
  /\ gen = [g \in Group |-> 0] /\ closing = [g \in Group |-> 0]
  /\ unfinished = {} /\ gaveUp = FALSE
  /\ filtered = 0 /\ errors = 0 /\ escapes = 0

Loop == \/ Begin \/ Fill \/ Wait \/ Collect
        \/ Abort \/ AbortCollect \/ AbortTimeout \/ EndRollout
Tasks == /\ Suspended
         /\ \E g \in Group : \/ Acquire(g) \/ SampleEnds(g) \/ SampleRaises(g) \/ GroupEnds(g)
         /\ TaskOnly
CleanUps == /\ Suspended
            /\ \E g \in Group : CleanedUp(g)
            /\ TaskOnly

\* The job is over, by an error or because all rollouts are collected.
Over == /\ pc = "failed" \/ (pc = "idle" /\ round = NumRollout)
        /\ UNCHANGED vars

Next == Loop \/ Tasks \/ CleanUps \/ Over
Spec == Init /\ [][Next]_vars

\* The event loop runs what is ready, generations and waits have timeouts.
\* Nothing is assumed of clean-ups: "Browser rollouts can be stuck in env
\* cleanup", abort() says.
FairSpec == Spec /\ WF_vars(Loop) /\ WF_vars(Tasks)

-----------------------------------------------------------------------------
(* Properties.                                                                *)

\* asyncio.wait raises when it is given no task: whatever the filter drops
\* and the buffer returns, the collecting coroutine waits for at least one,
\* and for as many as the batch still needs.
NeverWaitsForNothing == pc = "wait" => Cardinality(pendings) >= Target - Cardinality(data)

\* A group reaches the trainer once at most: what was trained, or is accepted,
\* is neither waited for nor kept for a later rollout.
TrainedOnce == /\ data \cap trained = {}
               /\ (data \cup trained) \cap (pendings \cup recycled \cup buffer) = {}

\* The samples of a group that was accepted, or is kept for later, are not
\* written any more: its task has returned and none of its children runs.
OneWriter ==
  \A g \in data \cup trained \cup recycled \cup buffer : task[g] = "ended" /\ ~Busy(g)

\* "Got {len(data)} samples, expected {rollout_batch_size}": the batch is full
\* when the rollout ends, and no sample in it was cut short, by the abort of
\* this rollout or by that of an earlier one.
BatchWhole ==
  pc \in {"cancel", "abort"} => Cardinality(data) = Target /\ \A g \in data : left[g] = 0

\* "do not wait forever": abort() returns, also when clean-ups never end.
AbortEnds == pc = "abort" ~> pc = "idle"

-----------------------------------------------------------------------------
(* What the repository says and the code does not do.                         *)

\* abort(): "make sure all the pending tasks are finished": unless the wait
\* timed out, no generation of this rollout runs on when it is over.
AbortFinishes == pc = "idle" /\ ~gaveUp => \A g \in unfinished : ~Busy(g)

-----------------------------------------------------------------------------
(* The inductive invariant behind the safety properties: see                  *)
(* RolloutCollectProofs.                                                      *)

\* Type invariant.
TypeOK ==
  /\ pc \in {"idle", "fill", "wait", "cancel", "abort", "failed"} /\ round \in 0 .. NumRollout
  /\ remaining \in Int /\ aborted \in BOOLEAN /\ sem \in Nat /\ next \in 0 .. MaxGroups
  /\ task \in [Group -> {"none", "running", "ended", "raised", "cancelling", "cancelled"}]
  /\ left \in [Group -> Nat] /\ waiting \in [Group -> Nat]
  /\ gen \in [Group -> Nat] /\ closing \in [Group -> Nat]
  /\ pendings \cup unfinished \subseteq 1 .. next
  /\ data \cup recycled \cup trained \cup buffer \subseteq 1 .. next
  /\ gaveUp \in BOOLEAN
  /\ filtered \in 0 .. MaxFiltered /\ errors \in 0 .. MaxErrors /\ escapes \in 0 .. MaxEscapes

\* A child works on a sample that is not complete, and on a group only when
\* that was drawn and its task has not returned.
Children ==
  \A g \in Group : /\ waiting[g] + gen[g] + closing[g] <= left[g] /\ left[g] <= GroupSize
                   /\ task[g] \in {"none", "ended"} => ~Busy(g)
                   /\ g > next => task[g] = "none"

\* remaining_batch_size is what is accepted plus what is pending, until the
\* batch is full.
Account ==
  /\ pc \in {"fill", "wait"} => /\ Cardinality(data) < Target
                                /\ remaining = Cardinality(pendings) + Cardinality(data)
  /\ pc = "wait" => remaining >= Target
  /\ pc \in {"cancel", "abort"} => Cardinality(data) = Target
  /\ pc = "idle" => remaining = 0 /\ pendings = {}

\* A group is in one place, and its task has returned where no task belongs.
Places ==
  /\ data \cap trained = {} /\ recycled \cap buffer = {}
  /\ (data \cup trained) \cap (pendings \cup recycled \cup buffer) = {}
  /\ pendings \cap (recycled \cup buffer) = {}
  /\ \A g \in data \cup trained \cup recycled \cup buffer : task[g] = "ended"

\* As long as abort() has not begun, every sample of a pending group is
\* complete or has a child that works on it.
Samples ==
  /\ aborted => pc = "abort"
  /\ \A g \in data : left[g] = 0
  /\ pc \in {"fill", "wait"} =>
       \A g \in pendings : /\ task[g] = "running" => left[g] = waiting[g] + gen[g]
                           /\ task[g] = "ended" => left[g] = 0

CollectInv == TypeOK /\ Children /\ Account /\ Places /\ Samples
=============================================================================
