# Verification of OpenWebRL

TLA+ models of OpenWebRL (`src/` of the repository): the system that trains a
web agent by reinforcement learning, the browsers it acts in, and the tools that
judge it. TLC checks the models on small instances; TLAPS checks proofs about
nineteen of them, in eight modules of proofs. All paths below are relative to the
repository's `src/`.

| modules | what they model |
|---|---|
| `EngineFleet`, `OnPolicy` | inference engines, health monitor, weight updater, driver; what a job promises about weights |
| `RouterCache` | request router and its radix-tree cache of trajectories |
| `RolloutDataSource` | dataset cursor, query selection, buffer, save and resume |
| `RolloutCollect` | the loop that collects a rollout, and its abort |
| `SampleGeneration` | the samples of one group through several partial rollouts |
| `EvalRollout` | the evaluation between rollouts: settings, order, counts |
| `Placement` | options, GPUs, nodes, hosts and ports of trainers and engines |
| `BrowserEpisode` | one browser task: submission gate, sandbox, turns, judge, clean-up |
| `Transcript` | what the model is shown, trained on and judged by |
| `TrajectoryBatch`, `MicroBatchCount`, `SeqlenBalance` | from trajectories to samples per rank, step and micro-batch |
| `TrainerActor` | which weights a training rank reads, trains, saves and pushes |
| `ProcessGroups` | NCCL groups that are destroyed and made again between a trainer's calls |
| `SequenceParallel`, `GradientStep` | layout of a micro-batch over the ranks; how micro-batches add up to a gradient |
| `DistributedUpdate`, `WeightExport`, `HfConversion` | how weights reach the engines, over NCCL and IPC, and what they are called there |
| `LocalProcessEnv`, `CloudSessions`, `CaptchaWait` | browsers in local processes; sessions at remote providers; the pause for a challenge |
| `WebTabs`, `PageSettle` | tabs, focus and screenshots of a browser; what an action waits for |
| `Evaluation`, `JudgeBench`, `Judging` | evaluation of a checkpoint; offline judges; both |
| `EngineFleetProofs` | proofs about `EngineFleet` and its refinement of `OnPolicy` |
| `ServingProofs` | proofs about `RouterCache` and `RolloutDataSource` |
| `RolloutCollectProofs` | proofs about `RolloutCollect` and `SampleGeneration` |
| `EpisodeProofs` | proofs about `BrowserEpisode`, `TrajectoryBatch`, `SeqlenBalance` |
| `BrowserProofs` | proofs about `LocalProcessEnv`, `WebTabs`, `PageSettle`, `CloudSessions`, `CaptchaWait` |
| `TrainingProofs` | proofs about `TrainerActor`, `ProcessGroups` and `GradientStep` |
| `JudgingProofs` | proofs about `Evaluation` and `JudgeBench` |
| `DataTheorems` | induction, recursion and folds, sums, division, sequences that are joined: what the proofs about data need |
| `MC*` and `*.cfg` | instances for TLC |
| `PROJECT.json` | components, runs, the source lines of every definition, hazards, findings, mutants, theorems |

To parse, run and prove: `tlasany M.tla`, `tlc -workers 2 -config X.cfg Root.tla`
with the root of the run (`PROJECT.json`), `tlapm MProofs.tla`.

## 1. Inventory

One *driver* process (`train.py`) alternates between generating a batch of
trajectories and training on it. What it commands are Ray actors: the trainer's
ranks, and a RolloutManager that owns the inference engines and the data source.

    train.py --ray--> RolloutManager --ray--> SGLangEngine (slots) <--ray, NCCL, IPC-- trainer ranks
                        |      \                    ^      ^
                        |       monitor thread -----+      +---- router (+ cache) <-- http --+
                        v                                                                    |
              generate_rollout --asyncio--> group tasks --> children (one per sample) -------+
                  |    ^                                     |
             data source, buffer                   gate, slot, browser, judge

For each part: its state; its operations; what makes it hard; when it is correct.

**Training driver** (`train.py`, `slime/ray/placement_group.py`). The rollout
number. Creates the actors, pushes the first weights, then per rollout:
evaluate, generate, offload, train, save, update the weights, bring the engines
back. Blocks on every remote call; a call on a manager that died is retried.
*Correct when* what is trained was generated by the current weights, a
checkpoint's halves belong together, and the job ends.

**Engine fleet** (`slime/ray/rollout.py`, `sglang_engine.py`,
`slime/utils/health_monitor.py`). `all_engines`, a slot per engine and node;
`num_new_engines`; the processes, their GPU memory and `weight_version`.
`start_engines`, `recover`, `offload`, `onload_*`, the monitor's probe and kill.
*Hard:* engines die at any moment, the monitor runs beside the manager's methods
without a lock, recovery happens inside the weight update. *Correct when* every
engine that serves has its weights and its cache.

**Placement** (`arguments.py`, `placement_group.py`, `rollout.py`). Computed five
times by five files: slots of GPUs, ranks, nodes, hosts, offsets, ports.
*Correct when* they agree for every command line, also after a recovery.

**Router and cache** (`slime/router/`). Active requests, failures and a dead set
per worker; a trie of texts. *Correct when* a sample's text gets back the tokens
the engine made for it, and a count is given back once.

**Data source** (`slime/rollout/data_source.py`). Epoch, offset, counters,
statistics and blacklist of adaptive selection, buffer. *Hard:* wrap-around, what
survives a restart. *Correct when* an epoch draws each prompt once and no id
twice.

**Rollout collection** (`slime/rollout/sglang_rollout.py`). `GenerateState`, a
process-wide singleton. *Hard:* over-sampling, cancelled tasks in the middle of
a clean-up, tasks that outlive their rollout, samples that are continued in a
later rollout by newer weights. *Correct when* a batch is whole, no group is
trained twice, nobody writes to a group that is trained, and every token keeps
its log-probability, its mask and what was in front of it.

**Evaluation between rollouts** (`sglang_rollout.py`, `slime/utils/eval_config.py`,
`rollout.py`). Settings resolved in four places; the samples of all datasets in
any order. *Correct when* each dataset logs its own samples, in the order of its
prompts, with the attempts that were asked for.

**Browser task** (`openwebrl/generate_browser.py`, `env/sandbox_env.py`). Gate,
sandbox slots, markers of earlier runs, retries per turn, a time limit and a
cancellation at any await. *Correct when* what was taken is given back and the
result says what happened.

**Browsers** (`openwebrl/env/`). Local processes (slot, port lease with a lock
file, server); sandboxes; sessions at Browserbase and Browser-Use; tabs and
navigations of a page. *Correct when* a task talks to its own browser, nothing
is left that costs, and the screenshot shows the page the action led to.

**Transcript** (`generate_browser.py`, `adapters/`, `response_format.py`). Prompts
of each turn, tokens, masks, log-probabilities, images. *Correct when* the policy
is trained on what it was shown and said.

**Batch** (`rollout.py`, filters, `data.py`, `seqlen_balancing.py`). *Correct when*
credit stays within a group and every rank runs the same steps.

**Trainer** (`megatron_utils/actor.py`, `loss.py`, `cp_utils.py`, `model.py`).
Several models in one GPU buffer, identified by a tag; layouts over the ranks.
*Correct when* each phase works on the model it is meant for, and the gradient is
the mean over the batch.

**Process groups** (`slime/utils/reloadable_process_group.py`). Per rank a list of
wrappers and torch's own count of groups. *Hard:* every rank makes and destroys
groups for itself. *Correct when* members of a group always meet under one name.

**Weight update** (`megatron_utils/update_weight/`, `megatron_to_hf/`,
`slime_plugins/mbridge/`). *Correct when* every engine ends with all tensors of
one version, under the right names, in the right layout, and nobody waits for
ever.

**Evaluation and judges** (`openwebrl/eval/`, `reward_browser.py`, `judge/`).
*Correct when* a success is not made up, missed or counted twice, also over
killed and resumed runs.

The other parts (launchers, fine-tuning scripts, metrics, patches, …) are listed
in `PROJECT.json` with the reason they are left out.

## 2. The modules

### Conventions

State that is read before an await, an RPC or a callback and used after it is
read in one action and used in another. A remote call is one step unless
something else can happen to what it reads. Bounds are CONSTANTS `Max…`; the
guards that use one say so. History variables (for properties only) are named
below and in the modules. Weights are version numbers, texts are sequences of
pieces, a tensor is the sequence of its labelled slices.

TLC runs are few and large: several specifications that share **no variable** are
checked side by side in one root module. Every initial state starts one of
them and leaves the others at rest, in a state that they cannot leave or that a
guard of the root recognises, so a run's states are the sum and not the product
of theirs. Roots: `MCServing` (EngineFleet, RouterCache, RolloutDataSource),
`MCBrowser` (LocalProcessEnv with one worker, WebTabs, PageSettle, Transcript,
Evaluation, JudgeBench), `MCRemote` (LocalProcessEnv with two workers,
CloudSessions, CaptchaWait), `MCCollect` (RolloutCollect, Placement,
SampleGeneration, EvalRollout), `MCTraining` (TrainerActor, SequenceParallel,
DistributedUpdate, GradientStep, WeightExport, HfConversion, ProcessGroups), `MCTrajectories` (BrowserEpisode, TrajectoryBatch,
SeqlenBalance). Where one specification's output is another's input the root
states it: `ResultsAsPromised` says that BrowserEpisode returns only results of the
form from which TrajectoryBatch starts, and `RolloutsAssumption` that the rollouts
TrajectoryBatch is given are of that form; what TrajectoryBatch itself assumes
(`AttemptsAssumption`) is proved of BrowserEpisode's results. GradientStep takes the
micro-batches `MicroStepsExact` describes.

### EngineFleet and OnPolicy

One server group, the monitor thread, the updater and the driver. The driver
blocks on every remote call, so driver, manager methods and updater are one
sequential process (`dpc`); the monitor (`mpc`) is the other; engine crashes and
restarts of the manager come from the environment.

| state | code |
|---|---|
| `slot` | `ServerGroup.all_engines`; index = engine, node |
| `newEngines` | the engines `num_new_engines` counts; the code keeps the number only |
| `proc`, `mem`, `version` | the sglang process behind a handle, what it holds on the GPU, `get_weight_version` |
| `pend` | the requests in flight in `_run_engine_requests_tolerant` |
| `dead`, `todo` | `dead_indices` of `recover`, the slots `start_engines` has still to visit |
| `snap`, `conn`, `uver` | answer of `get_updatable_engines_and_lock`, `rollout_engines` and `weight_version` of the updater |
| `paused`, `stop`, `needFirstWait` | the monitor's events |
| `captured`, `at`, `victim` | the scan of `_run_health_checks` and the actor `_kill_engine` is killing |
| `served` | history: weight versions that served the rollout |

Actions follow the code: `Offload`, `OnloadWeights`, `OnloadKv` open a tolerant
round, `RequestOk`/`RequestFailed` take the answers in any order, `RoundDone`
ends it; `BeginUpdate` … `PushWeights` is `update_weights`, with `StartEngine`
once per slot because the monitor can clear slots in between; `KillRead` and
`KillDone` are separate because the remote shutdown lies between them.

Abstractions. The training ranks are one updater. Generation succeeds as long as
one engine answers. `dispose`'s bounded join is left out: that the job ends is
said of the driver. When not all nodes of a multi-node engine are new, port
allocation asserts and the job fails (`Up`).

`OnPolicy` is the abstract specification: weights are published, a rollout is
generated by the weights published last, a batch is trained before anything
newer is published; after a restart of the manager nothing is trained any more.
`EngineFleet!OnPolicyJob` is that specification under a refinement mapping (what
is published is what the live engines serve), checked by `serving` on every step.

### RouterCache

Clients are the requests of samples. `Ask`, `Insert` and `Read` are the middleware
on `RadixTree` (look-up, insertion after the answer, the sample's final read),
`Route` is `_use_url`, `Answer` what comes back (whole, cut or aborted, from a
set), `Fail` and `Lose` a request that raises inside and outside the try block,
`AddWorker`, `CheckAll`, `Checked` the router's API and background loop, `Stop`
and `Recover` an engine. A node of the trie is the sequence of keys that lead to
it. `FinishedSpelled` is about answers that ended by themselves; `router_text`
shows the case of those that were cut. `LoadTrue` counts what a lost request took.
Left out: eviction, the garbage collection (see limits).

### RolloutDataSource

`Draw` is `get_samples` (`Unfiltered`, `Filtered` with its visits and the
blacklist, `Candidates` of the adaptive choice), `Drop` a group that goes back to
the buffer, `TrainRollout` a batch; `SaveModel` and `SaveData` are two steps with a
crash between; `JobCrashes` and `ResumeJob` come back from a checkpoint,
`ManagerRestarts` with a fresh data source. `MCConfigurations` has every kind of
sampling and of checkpoint. `line` is history: how often each row was drawn for
the model of this line of checkpoints, and which ids it was trained with.
`DrawsExact` is `EvenDraws` (the cursor) and `OneGroupPerId` (ids and buffer); the
comment there names the two limits. The visits of `Filtered` are those up to the
first point where the rows it wants are found or it gives up (`Stops`), what it
yields is read off by rank (`Yield`). A draw that would leave the epochs whose
shuffles are given (`Perm`) is not taken.

### RolloutCollect

One training rollout after the other. A group (the samples of one prompt) is one
asyncio task that gathers a child per sample.

| state | code |
|---|---|
| `remaining`, `pendings`, `aborted`, `sem` | `GenerateState` |
| `data`, `recycled` | accepted groups, `aborted_samples` |
| `trained`, `buffer`, `next` | batches returned, the data source's buffer, `sample_group_index` |
| `task` | the group's task: `cancelling` when it was cancelled and waits for a child |
| `left`, `waiting`, `gen`, `closing` | per group: samples not complete, children that wait for a permit, generate, clean up |
| `unfinished`, `gaveUp` | history: what was pending when `abort` began, and whether its wait timed out |

The collecting coroutine and the tasks share one event loop: tasks move only
where the coroutine is suspended (`Suspended`), and between rollouts. `Cancel`
is `task.cancel()` as asyncio does it: the gather cancels its children, those
that wait for a permit end at once, those that generate clean up their browser
with the permit still held, and the gather ends cancelled with the first child
that does. `CleanedUp` covers the child that swallows the cancellation in
`_safe_exit_env`. `E` in `Cancel` are the tasks whose `cancel()` raises
`RuntimeError` (`_safe_cancel_pending_task`): they run on, see `aborted`, and are
the ones that return partial groups.

Abstractions. What the dynamic filter keeps is any subset of what has ended; the
buffer's order is left open. `group_rm` is left out; for evaluation see
`EvalRollout`. Remote abort
requests only speed up what `SampleEnds` may do anyway. A failed task ends the
job. Browser generation refuses `--partial-rollout` (`generate_browser.py:1446`),
so with it the clean-ups are those of another generation function.

### SampleGeneration

One group through `generate_and_rm_group`, `generate_and_rm` and `generate`, in up
to three rollouts with partial rollout. `member` is the place of each child (before
the semaphore, at the engine, at the judge), `sample` the `Sample`, `asked` the
request. A token is a record of the rollout that made it and of the number of
tokens the engine had in front of it, so that a wrong resumption shows.
`StartSample` is the head of `generate_and_rm` (mask, or nothing to do), `Permit` the
semaphore with the budget, `EngineAnswers` the answer with any number of tokens,
ended, cut or aborted, `JudgeSample` the reward. `SampleExact` is
`ContinuesItself` (tokens, log-probs, mask and length agree, each token follows
the ones before it, within the limit) and `TrainsWhole` (what is trained was judged
as it is, and with masking counts only tokens of the current weights). `wordless`
is history: the samples that were interrupted with tokens but no text, see limits.

### EvalRollout

`SamplesPer` resolves the number of attempts as `_apply_dataset_field_overrides`
does, including a key written without a value; `StartEval` makes the tasks of
all datasets, `TaskEnds` is `as_completed`, `EndEval` sorts, merges by name and
logs. A task returns one sample, or one per turn with the index of
`_make_turn_sample_index`; `TurnRoom` stands for its shift by 16 bits. `EvalRolloutExact`
says what is logged and why an evaluation may fail; its parts are conditional on
what the code can count (`Whole`, `LinedUp`, `Unique`), the rest is under limits.
`MCCollect` checks both properties together, as `SamplesExact`.

### Placement

A command line is a record of `Options`; `Validate` is the part of
`slime_validate_args` that decides GPUs and engines, `CreatePlacementGroups` the
slots in the order Ray hands them out (sorted by node and GPU), `Numberings` the
numberings Ray may give nodes. Engines of a model are queued, probe ports and
bind them later (`StartEngines`, `EngineInit`); `MarkDead` and `RecoverUpdatable`
kill and replace logical engines. The
precondition `Aligned` names the command lines the code's own arithmetic
supports (a multi-node engine starts at a node boundary). Ports are counted from
`FirstPort` with a small `Reserve`.

### BrowserEpisode

`generate_turn_sample` with a sandbox. A task's `pc` names the await where it is;
`Interrupt` delivers a timeout of `wait_for` or a cancellation of `abort()` at any
of them, and what the code does with it depends on where. `gate` and `free` are the
two semaphores, `alive`, `markers` and `lost` what exists at the provider, `swept`
the first task's sweep. Model calls, the environment's answers, parse failures
and the judge end in each of their ways. `ResultsAsPromised` is what a task may
return. Browser interaction within a turn is one step here (see WebTabs).

### Transcript

`Modes` are 19 combinations of sample kind (one per turn, or one stream),
context window, screenshots kept, thinking kept or hidden, action format. A turn
builds its prompt from the messages, generates, and appends; `ContextExact` says
what the prompt of each turn contains, `StreamExact` that text, images, tokens,
mask and log-probabilities of a sample correspond, and both together are
`TranscriptExact`. `seen` and `said` are history.

### TrajectoryBatch, MicroBatchCount, SeqlenBalance

`TrajectoryBatch`: filter, trim, normalisation, split, selection per epoch, each
one action, over every rollout of two groups built from seven kinds of
trajectory. `SeqlenBalance`: the largest differencing method, one merge of the
heap per step; rows and their order are read off by rank. `SplitExact` (equal steps on every rank) and `BalanceExact` (every
sample in exactly one partition, none empty, equal sizes where asked for, and no
two further apart than the longest sample) are `MicroStepsExact`.

### TrainerActor

One actor rank, its critic peer and the driver. `m.gpu` is what the model buffer
holds, `m.main` the optimizer's master copy, `m.tags` the backups on the host,
`m.active` the tag the code believes in. Actions are the phases of `train_actor`
(log-probs of reference, teacher and actor, exchange with the critic, steps) and
the driver's other calls; GPU memory and process groups come and go with `asleep`
and `groups` (one flag; see `ProcessGroups`). Without `--enable-weights-backuper` a
backup is a checksum: there is no tag but `actor`, and reading or restoring it asserts
that the GPU weights still have it (`Intact`; the job dies otherwise). `Supported`
names the combinations of options the code can serve: the runs have all of these
(`MCServed`) and four that the job dies of (`MCDying`). `routes` are the recorded expert
choices with their cursor. `critic` meets the actor in the broadcasts of
`sync_actor_critic_data`. `logp` and `used`, `saved`, `served` are what was read,
trained, saved and pushed. `TrainsTheActor` includes `ReplaysThisRollout`.

### ProcessGroups

Every rank executes the calls the driver gives to all (`InitCall`, `TrainCall`,
`SaveCall`, `SleepCall`, `UpdateCall`) as a list of steps, in its own time; the
driver waits for all. `made` is torch's group count, from which a group gets its
name, `inner` what a wrapper holds. What a rank does in a call is listed in the order of the groups it
made itself (`Own`, `Nth`, `Uses`). A collective is enabled when all ranks it waits
for are at it under one name; through a wrapper that holds `None` it would wait for
the ranks of the whole job. `GroupsMeet`: members of a group never meet under
different names or without one, somebody can always go on, and no rank gives up its
GPU memory with a group alive. `CountsApart` names the exception, see limits.

### SequenceParallel and GradientStep

`SequenceParallel`: positions of a micro-batch over one to three ranks in three
layouts; `LayoutExact` is: tokens, logits and masks meet at the same position
(`TokensAligned`), returns gathered and sliced are those of the whole sample
(`ReturnsExact`), and linear attention sees the tokens in order
(`AttendsInOrder`). Real estimators are replaced by integer sums with the same
recursion.

`GradientStep`: the schedule (fixed or by length), the passes that collect
log-probabilities, the steps that scale the loss. Megatron's own divisor is
external. `GradientIsMean`: the step applied is the mean over the global batch
(of samples, or of tokens), and each log-probability is that of its own sample.
A sample with an empty mask counts as one token with per-token loss, as in the
code. `GradientAssumption`: the ranks have the same number of samples and a number of
whole steps (that is `SplitExact` of TrajectoryBatch), and a fixed micro-batch size
divides a rank's share of a step. Megatron asserts the latter of `--global-batch-size`
only; with another batch size it holds for micro-batches of one sample, and otherwise
the last samples of a step would be left out.

### DistributedUpdate, WeightExport, HfConversion

`DistributedUpdate`: pipeline stages push bucket after bucket under the lock;
engines execute their calls one by one; a broadcast ends when all take part.
`ServesOneVersion`: an engine that answers has all parameters of one version; with
`WeightsWhole` (next paragraph) it is `PushesWhole`.

`WeightExport`: colocated engines. Every rank computes its own sources and
buckets; a collective is enabled only when the members of its group agree, so a
disagreement is a deadlock or a tensor that was never filled (`WeightsWhole`,
which includes that no rank is stuck). Engines elsewhere are required whole
between updates only.

`HfConversion`: load table, cut, gather, unpad, names, quantisation. Ten small
models, one or two per converter. Load tables of the hybrid families are those
of `slime_plugins/mbridge`; those mbridge inherits and Megatron's cutting are
external. Padding and scales go by Megatron's name as it is, so the text model of a
vision-language one (`Nested`) keeps the padding of its vocabulary (`KeepsPadding`, see
limits). `ConversionExact` is `RoundTrip` (every tensor of the checkpoint comes
back once, slice by slice) and `ScalesAlike` (a projection is quantised in every
layer or in none).

### LocalProcessEnv

A task is one generation from `create_local_process_env` to the end of
`exit()`. A worker is one Python process; `loop[w]` is the task that runs there
without having reached an await, so tasks of one worker interleave at awaits
only, and tasks of different workers between any two system calls. Lock files
have inodes: `file` is what a path names, `fd` what a task has open, `flock` who
has the lock; that is what an unlink by another worker is about.

`SlotTaken`/`SlotTimeout`/`GiveSlotBack` are `LocalProcessSlotPool`;
`OpenLockFile`, `LockPort`, `PortLocked`, `PortInUse`, `RangeExhausted` are the
loop of `_acquire_port`; `SpawnServer` … `HealthFails` the rest of
`create_local_process_env`; `ResetOk`, `ResetFails`, `StepFails` the use of the
environment; `Finish`, `ExitPosted`, `Terminate`, `TermTimeout`, `KillTimeout`, `Reaped`,
`CleanupCancelled`, `Unlock`, `Unlink` its exit. `Bind`, `Die` and `Crash` are
the server process, external code modelled from how it is used.

The wait after SIGKILL has a time limit too, which is suppressed (`KillTimeout`):
`exit()` then gives back lease and slot although the child is still there. `overdue`
is the history of that. `LeaseOutlivesServer` and `Quota` say that this is the only way
a running server is left without its lease or without a slot, and `FreshServer`,
`AllReturned` hold in spite of it. A child that has been sent SIGKILL binds no port any
more, but one it has bound stays bound until it is gone. A failed creation waits
without a limit.

Abstractions. A poll of `/health` is one step, answered by whoever has the port.
A spawn is one step. A cancellation while the agent uses the environment is
`Finish`, since `step` catches `Exception` and lets `CancelledError` pass to
`_safe_exit_env`, which shields the exit. Workers do not crash. No `/step` is in
flight when `/exit` is sent. Asyncio is that of Python 3.12 (`build_conda.sh`).

### CloudSessions and CaptchaWait

`CloudSessions`: a request is executed by the provider in one step and answered
in a later one; a cancellation or a kill may come between. `SessionsTraced` is:
a session the program was told of has a marker until the provider was asked to
stop it (`Traced`), a sweep asks for no session of its own run (`SweepSparesOwn`),
and once the flag is set nothing of an earlier run is left to ask for
(`SweptClean`).
`CaptchaWait` counts time in polls; `Respected`: the environment acts during a
challenge only if the announcement has not come, or it has waited for the whole
time, or the challenge began while the page landed.

### WebTabs and PageSettle

`WebTabs` is a `WebEnv` with `_FAST_STEP`. The site opens and closes tabs at any
time; the callback of a new page takes the focus at once; the dialog handler goes
to whatever has the focus when it has loaded. A dialog may come at any time;
`Intercepted` says what becomes of it. `at` names the await of the action.
`TabsInHand` is: the agent is on a tab that is open unless the site closed it
(`FocusOpen`), a dialog is dismissed unseen only while its page loads with the focus, or
on a tab in `crossed` (`DialogsSeen`), and a screenshot shows the tab with the focus unless that is in
`mistaken` (`ShowsCurrentPage`). `crossed` and `mistaken` are history: the tabs to
which one of the races named under limits happened. So the properties say that
nothing else can go wrong, and the limits say what can.

`PageSettle` is `_settle_until_ready` and `_track_navigations`. Times are
modelled by their comparison with that of the action. `ViewSettled`: the
screenshot after an action that settles is not taken in the middle of a
navigation, unless that had begun before the action (`earlier`), or after the
grace (`late`), or on a page without listeners (`untracked`: they are registered
after its first action); or a commit of another page was taken for it
(`another`); or the focus moved; or the time was up (`deadline`); or the check was
cut short each time (`replaced`). Again the excuses are the list of what can
happen.

### Evaluation and JudgeBench

`Evaluation`: `run_evaluate.py` with five protocols; episodes end in six ways, a
judge's reply is the sequence of verdicts it mentions, calls fail or time out.
`EvalExact`: every task is collected once, the successes counted are those the
judge's last answer stands for, and a task's file tells what its entry tells, also
in an interrupted run. With `BenchExact` it is `VerdictsExact`. `JudgeBench`: an API judge with retries, parameters it
refuses, an output file, kills and resumes, shards; a local judge in batches.
`BenchExact`: whatever was killed and resumed, a summary counts each record of
its shard once, with a verdict the judge gave of that record, or with none when it
was asked in vain.

## 3. Runs

| run | instance | shows |
|---|---|---|
| `fleet_safety` | 2 engines, 6 handles, shared GPUs, 2 rollouts, 2 faults, 1 manager restart, fair | weights, memory, GPU hand-over, the job ends |
| `serving` | 1 engine on 2 nodes with GPUs of its own, 2 faults, 1 restart; 2 requests over 2 engines; 3 rollouts of 3 rows with every sampling and checkpoint, 1 crash, 1 restart | the invariant of updates, refinement of `OnPolicy`; tokens spell the text; load; even draws; a job that resumes ends |
| `browser` | 3 tasks in one worker, 2 slots, 2 ports, 2 cancellations, 1 fault; 2–3 tabs, 2 actions, one tab closed by the site; 2 pages, 3 navigations, 2 actions; 3 turns in 19 modes; 2 tasks in 5 protocols, 4 judge failures; 3 records, 3 judges, 3 runs | own server and lease; tabs and screenshots; transcripts; results and summaries |
| `local_two_workers` | 3 tasks in 2 workers, 1 slot each, 1 port, 1 cancellation, 1 fault, fair; 2 tasks, 4 sessions, 1 kill, 1 cancellation, 1 failed request; 3 challenges | inductive invariant of leases, everything returned; sessions traced; challenges respected |
| `collect_safety` | 2 rollouts of 2 groups of 2 samples, 3 permits, 2 groups dropped, 1 error, 1 failed cancel, fair; 16 command lines on 3 nodes of 4 GPUs, 2 dead engines; 2 samples of 2 tokens in 3 rollouts; 24 evaluations of up to 2 datasets | the batch, the account, one writer per group, abort ends; placement; samples continued; what an evaluation logs |
| `trajectories` | 2 tasks on one slot, 2 turns, 2 cuts; all rollouts of 2 groups from 7 kinds of trajectory; up to 4 samples | sandboxes accounted for, results as promised, credit, equal steps and micro-batches, episodes end |
| `trainer` | 3 rollouts of 2 steps under every supported combination of options and four that are not, 2 NaN events; micro-batches of 2 samples over 1–3 ranks; 2 stages, 2 updates, 2 engines; 4 rows on 2 ranks, 3 passes; 4 ranks in 4 layouts; 10 models; 4 ranks, 2 sets of groups with engines on all ranks or on two, 2 rollouts | whose weights; layout; gradient; the three ways weights travel; process groups; the job ends |
| `fleet_counts` | violation | `recover`'s assertion on the number of new engines fails |
| `local_lease` | violation | two workers hold one lease |
| `collect_abort` | violation | abort returns while clean-ups of the rollout hold permits |
| `trainer_epochs` | violation | a second epoch begins with the weights of before the first |
| `router_text` | violation | an answer after a cut one loses tokens |

Why these bounds are enough. Fleet: two engines, so that one can fail while the
other serves, and two rollouts, so that what went wrong in one update shows in
the next; two faults, because every known race needs a failure and a second one
during its recovery; a scan over two engines goes through every position. Local:
three tasks are what the lease race takes (one releases, one has the old inode,
one opens the new); with two ports and two slots, both "locked" and "in use" and
a queue for a slot occur. Collect: two samples per group, so that one child can
end while its sibling cleans up; three permits for four children, so that some
wait; two rollouts, so that late tasks and recycled groups meet the next one.
Data: three rows, so that a draw of two ends in, at and beyond the end of an
epoch. Episodes: two tasks on one slot, so that one waits while the other cleans
up; two cuts, because the second one lands in the clean-up of the first. Trainer:
three rollouts, so that a queue of old actors has turned over once; two steps, so
that one is lost or taken twice visibly. Layout: lengths around the edges of
chunks for each rank count, with a chunk that is full, holds one position, or is
empty. Samples: an interruption before and after the first token and at the limit,
and a third rollout, so that a mask of a continued sample is set twice. Evaluation:
two attempts at two prompts can end in any order; `TurnRoom` lies above every
parent's index, as 2^16 does in use. Groups: overlapping ones, one of gloo, one of a
single rank, ranks in and outside of engines; two rollouts, so that groups are made
a second time after each kind of call. Export: the layouts put every kind of parameter on a rank that has no peer,
one peer and two. Tabs: one page behind the focus, one in it, one that opens
meanwhile. Settle: one navigation before the action, one of it, one of another
page. Sessions: two of an earlier life and two of this one. Judges: more
failures than attempts, more runs than kills.

Fairness. `EngineFleet`: weak fairness of the driver and of the monitor, because
every remote call in them has a timeout or is answered (requests, health checks,
`ray.get` on actors that end) and threads are scheduled; none of the environment.
`LocalProcessEnv`: weak fairness of each task (event loop, timeouts on every
wait), of `Bind` (a server comes up or gives up) and of death after SIGKILL, sooner or later
(`exit()` does not count on it, a failed creation waits for it); not of death after
SIGTERM. `RolloutCollect`: weak fairness of the collecting
coroutine and of the generations; nothing is assumed of clean-ups, since
`abort` says itself that they can be stuck. `RolloutDataSource`: weak fairness of
the job's own steps, none of crashes. `BrowserEpisode`: weak fairness of each task
and each release (every await has a time limit), none of cancellations.
`TrainerActor`: weak fairness of driver, actor and critic. `DistributedUpdate`:
weak fairness of each source and each engine; the spinning acquisition of the lock
(`time.sleep(0.1)`) needs no strong fairness, because a stage that has the lock
releases it and has only finitely many buckets. The other modules are about
safety only.

Deadlock is checked, except where the system may stop: `trainer`,
`trajectories` and the two small violation runs whose specification ends. In
`collect_safety` and `browser` that is a statement too: the only states without
another step are the named ends.

### What the violation runs say

* `fleet_counts`: `recover` lists dead slots, then `start_engines` fills the slots
  *it* finds empty; a kill under way clears one in between and the assertion
  `num_new_engines does not match dead_indices length` ends the job.
* `local_lease`: `release` unlocks, closes and then unlinks; another worker that
  opened the path before the unlink locks an orphaned inode. (Within one worker
  the lease is exclusive, which is why `FreshServer` is checked there.)
* `collect_abort`: `asyncio.gather` without `return_exceptions` ends with the
  first cancelled child.
* `trainer_epochs`: `_switch_model("actor")` at the start of an epoch restores the
  backup, which is refreshed after the last epoch only; `--ppo-epochs 2`, which the
  browser scripts use, takes the first gradient of the second epoch at the weights
  from before the rollout.
* `router_text`: a token that crosses the end of a cached answer that was cut is
  skipped with the tokens before it.

## 4. Proofs

Every theorem holds for all values of the constants under the named `ASSUME`s of its
modules, and is proved from an inductive invariant. TLC checks the assumptions on
every run, the properties the theorems state, and of the inductive invariants
`UpdateInv`, `LocalInv` and `CollectInv`; the others were put to TLC while they were
found.

The assumptions are types and bounds of the constants and what follows:
`EnoughHandles` (a first fleet can be started), finite sets of tasks and clients, a
URL of a worker that is not a word for another place (`RouterAssumption`), a
`Perm` that shuffles in every epoch and an over-sampling not below the batch, which
the code checks (`DataAssumption`), the shapes of texts and episodes the judges
are given, and a form of the trajectories in a rollout (`AttemptsAssumption`), which
`ResultsFitTheBatch` proves of what the browser tasks return. One theorem has a
hypothesis of its own, `TextsApart`, which TLC evaluates for the instance of `serving`.

**DataTheorems.** The library's induction theorems take an operator as a parameter, which
the provers cannot instantiate. Here induction is stated about sets: a set that has 0 and
with every number the next has all numbers (`SetInduction`, from the well-foundedness of
`<` by a least counterexample), a family of subsets that grows by one element reaches the
whole finite set (`SubsetInduction`). With a set `{n \in Nat : ...}` in the place of the
predicate they are first-order facts. From them: a recursive definition has a solution and
one only, where it takes elements off a set (`SubsetRecursion`, `SubsetsAgree`) or goes
along a sequence (`StridesExist`, `ConcatenationExists`); so a recursive function, which
is a CHOOSE, may be unfolded, and the folds behind sums and `FlattenSeq` too (`SumLaws`,
`FlattenIsConcatenation`, `FlattenTogether`). Further: division (`DivUnique`,
`NestedDiv`), counting with a stride, the largest of a set of numbers, ranks, prefixes, a sum that is
taken in another order (`SumRenamed`), and where in a concatenation an element of a
part is (`FlattenPlaces`).

**EngineFleet and OnPolicy** (`EngineFleetProofs`). `TypeCorrect` is inductive by
itself once it says where the monitor's scan may point.

* `UpdateInvariance`: `UpdateInv` is behind the rest. `ServeCurrent` alone is not
  inductive, because the weights are right only if the push reached every live engine,
  which depends on `conn` covering the slots (`JoinsFleet`), which depends on the
  connect not having been skipped (`ReconnectOwed`), which depends on who is counted
  as new when (`NewCounted`), on the update being the right one (`UpdateNumber`), and
  on a restarted manager never getting as far as another update (`ConfigLost`). From it
  follow `ReconnectIsOwed`, `ServedByCurrentWeights` and `TrainingIsOnPolicy`.
* `FleetImplementsPromise`: the refinement, `Spec => OnPolicyJob`. Two facts are needed
  beside `UpdateInv` (`MappingInv`): a rollout is generated in a round of its own, and
  the fleet of a manager that was restarted has the weights of the checkpoint. Each
  action is then a step of `OnPolicy` or a stutter (`StepPromised`).
* `GpusChangeHands`: `HandoverInv` says what an engine holds on the GPU by where the
  driver is and whether the engine has answered in the round (`Residency`). The hard
  part is a recovery: the new engines get their memory back through the slots recorded
  dead, and that those are all of them follows from the assertion of `recover` by
  counting (`RecoveryCounts`).

**RouterCache** (`ServingProofs`). `LoadIsTrue`: for each worker the count equals the
clients whose request is there plus what was lost. Each action moves at most one client
(`RequestMoves`), which changes the cardinality by at most one (`AskingChanges`).

`FinishedTextsAreSpelled`: `FinishedSpelled`, under `TextsApart`: no prompt begins another
prompt or another's prompt and answer, and no answer that came to its end begins a longer
one, as it ends with the model's end of turn. Without it the property is false for the
reason `router_text` shows. `SpellInv`, as long as nothing was cut: every node of the trie
is a prompt with the tokenizer's tokens or, below a prompt, an answer with tokens an engine
made that spell it (`TrieFits`); the nodes a request counts on are there (`RequestSpells`).
Then a walk meets at most one key at each node (`KeysAre`, `KeyLeads`), its recursion has a
solution and ends where the text ends (`WalkIs`), and look-up and insertion do what they
should (`FoundIs`, `InsertedIs`). That tokens spell a text is additive (`TextsOfTokens`),
and the tokenizer of the model spells every text (`TokenizeSpells`).

**RolloutDataSource** (`ServingProofs`). `DrawsAreExact`. `DataInv`: types, that the draws
counted for this line of checkpoints are those the cursor stands for (`LineFits`), the
same for each checkpoint on the disk (`CheckpointsFit`), and that ids are numbered and
the buffer's groups were not trained (`GroupsFit`). The draws of a cursor are the
passage of a walk over the shuffled epochs. The lemmas, in their order: each whole epoch
meets each row once and a part of it at most once (`MetOnce`, `SlicesCount`); counts of
consecutive parts add up (`CountsAdd`), so an unfiltered draw is a step of the walk
(`UnfilteredWalks`); a filtered one visits row after row (`AheadSteps`, `AheadPasses`)
and stops (`WalksStop`, `StopsInTime`), not in vain while less than half of the rows are
blacklisted, by the pigeonhole principle over two epochs (`NeverInVain`); what it yields
are the allowed rows it visited, in their order, by rank (`RowsYielded`). Induction over
the walk is done by taking a least counterexample (`LeastExists`).

**RolloutCollect** (`RolloutCollectProofs`). `CollectInv`: the account
`remaining = pending + accepted` until the batch is full; every group in one
place and its task returned wherever no task belongs; as long as no abort has
begun, every incomplete sample of a pending group has a child. Cardinalities of
sets of groups are handled by four small lemmas (`FiniteGroups`, `TakenOut`,
`PutTogether`, `DrawnGroups`), the steps of all tasks by one frame lemma
(`TaskFrame`). Theorems: `CollectInvariance`, `NeverWaits`, `GroupsTrainedOnce`,
`GroupsHaveOneWriter`, `BatchesAreWhole`.

**SampleGeneration** (`RolloutCollectProofs`). `SamplesContinue`: `SampleExact`, the half
of `SamplesExact` about training. `SampleInv` says of every sample, by where its child
is (`SampleFits`): what belongs to a token is there for each (`Tracked`); a request in
flight continues exactly the tokens there are and leaves the rest of the budget
(`Asks`); it is judged when it is complete and not before (`Judges`); before it starts
in a rollout all of its tokens are older, afterwards the mask separates the old from
the new (`Older`, `Counted`), unless the rollout is being aborted, when the group goes
back. `Follows` holds of samples that had a text whenever they were interrupted.

**BrowserEpisode** (`EpisodeProofs`). `SandboxesAreAccounted` and `PromisesAreKept`.
`EpisodeInv` says of every task what has become of its sandbox and what it would return
at each place (`BoxFits`, `OutFits`), that a sweep is only after sandboxes of earlier
runs (`SweepsOld`), and that free, held and lost slots add up. Every step changes one
task, so the sums change by one (`CountOne`); `BecomeKeeps`, `MoveKeeps` and `ReturnKeeps` are
the frames of the steps. A task interrupted at any await is the long case.
`ResultsFitTheBatch`: what a task returns is what TrajectoryBatch assumes of a
trajectory: its turns have one status and one reward, and without a reward where it was
aborted (`Given`).

**TrajectoryBatch** (`EpisodeProofs`). `BatchInv` says what is there at each stage: the data
are the samples of the groups the filter kept, in the order of the attempts (`KeptFits`,
`DataFits`), as many as the trim leaves (`SizeFits`), and what a rank has chosen are
samples of its own rows, and how many (`ChosenFits`). `CreditStaysWithinGroup`
(`CreditWithinGroup`) follows because normalisation subtracts the sum of the group's
rewards from a multiple of each (`CreditsCancel`, `OrderKept`). For `SplitExact` the rows
of a rank, every `R`-th one, are counted (`StridedFacts`), and the smallest count, of which
the steps are a part, is the last rank's (`FewestIs`).

**SeqlenBalance** (`EpisodeProofs`). `HeapInv`: the states on the heap share no sample and
leave none out, each is sorted by its sums (`Falling`), and no two of its parts differ by
more than the longest sample (`Loose`). A merge adds the sums of two states in opposite order, and sorts:
that a difference does not grow is where both orders are needed (`MergedFits`,
`ReorderedFits`, `MergeKeeps`). Sizes are equal where asked for, as the rows that begin
are equal (`RowsFit`, by ranks in the order of lengths), and the number of micro-batches
from first fit is positive and no more than there are samples (`FirstFitIsPositive`), so
that none is empty. With the split this is `MicroStepsAreExact`.

**Browsers** (`BrowserProofs`). `SessionsAreTraced`: `CloudInv` adds to `SessionsTraced` that
an answer brings a session that is new, that a marker of another run is old, and what
has been asked for by each place of a task. `ChallengesRespected`: the last announcement
tells whether the solver works, wherever the wait is (`AnnouncedLast`). `TabsAreInHand`:
`WebInv` adds that the target of an action is a known tab, that every loaded tab but those in
`crossed` has a handler, and that the CDP session kept for a tab is its own unless it is in
`mistaken`. `ViewsSettle`: `SettleInv`, what is known of the page in front at each place
of the wait, as long as no excuse has occurred.

**LocalProcessEnv** (`BrowserProofs`). `LocalInv`: what a task holds at each
place of the code, and semaphore plus slots taken equal to the quota per worker.
The sum is why `Quota` needs the invariant: a process that is not overdue implies a
lease, a lease a slot. `LeaseIsKept` needs that nobody else can take the lock of an inode that is
held open. Theorems: `LocalInvariance`, `QuotaHolds`, `LeaseIsKept`. Under
`SingleWorker` (all tasks in one worker) `ServersAreFresh` and `LeasesAreExclusive`:
`FreshInv` says that the search for a port and the unlock with the unlink each run
without an await, so the path always names the inode of the lease that is held, and
`ServersApart` that no server, not even an overdue one, has the port of another task's
lease: as long as it has a port, that is not probed free. With
two workers both are false: that is `local_lease`.

**TrainerActor** (`TrainingProofs`). `PushesTheTrained` and `StepsTrainTheActor`. `TrainerInv`:
which weights are in the GPU buffer, in each backup and in the optimizer at each place
of the driver (`WeightsFit`), whose log-probs were taken (`LogpsFit`), where the
cursor of the recorded routes is (`RoutesFit`). `WeightsFit` is about one epoch, as
the properties are; `trainer_epochs` shows why. What the operations on models do is
stated once (`SwitchDoes`, `BackupDoes`, `CopyDoes`, `LoadOtherDoes`, `QueueDoes`).

**ProcessGroups** (`TrainingProofs`). `GroupsAlwaysMeet`, for every layout. `GroupsInv`: of
each rank, what it has still to do in the call and what its wrappers hold (`RankFits`);
and of each pair, as long as no rank counts apart, that their counts differ exactly by
what one has made and the other has still to make (`PairFits`), so that the wrappers of
one group hold one name once both are there. That somebody can always go on is an
argument about order: all ranks use their groups in the order of creation, so the members
of the least group at the head of any list all stand at it.

**GradientStep** (`TrainingProofs`). `GradientsAreMeans`. `GradientInv`: on each rank all
model chunks are in the same step, at the offset that the step says, and none is ahead of
the one before it (`ChunksAgree`); what the first chunk has read are the first
micro-batches of the step, and what has come out of the last one belongs to it in that
order (`OutputsFit`); the log-probs of a call that has ended are in the order of the
samples; and the updates made are those of the steps that are over (`UpdatesFit`). The
argument has three parts. A schedule cuts a step so that each of its samples is in one
place (`PlanFits`, from `PartitionCuts`, `PlannedFits` and `FixedFits`), and a step begins
where the one before ends (`BaseIs`). So the values that were collected in the order of
the micro-batches go back to the order of the samples (`OrderRestored`). And a sum over
micro-batches in any order is the sum over the samples (`TokensTogether`, by
`SumRenamed`); with it the factors of the loss and Megatron's divisor cancel
(`TakenIsMean`).

**Evaluation and JudgeBench** (`JudgingProofs`). `VerdictsAreExact`. `EvalInv`: of each task
what its entry, its reward and its file say at each place, and that the lists name each
task once. `BenchInv`: the rows of the output file, of this and of killed runs, are
verdicts the judge gave or calls it refused; what is known at a resumption is what they
say; what is asked is the rest of the shard, and a summary counts each record once.

Model-checked only:

* Liveness (`JobEnds`, `AllReturned`, `AbortEnds`, `JobFinishes`, `EpisodesEnd`,
  `TrainingEnds`), which needs fairness and ENABLED; `PushesWhole` contains an ENABLED too.
* `FreshServer` with more than one worker is not proved because it is false.
* What is about long computations on data that are compared with a reference
  definition: `TranscriptExact`, `LayoutExact`, `ConversionExact`,
  `PlacementExact`, `EvalRolloutExact` (the other half of `SamplesExact`).

## 5. Not modelled, and known limits

Left out on purpose: tensor arithmetic, prompts' wording, launchers, metrics,
fine-tuning scripts, vendored patches: data without control, or pure input and
output. `env/remote_env.py` has no importer. Options other than those of
`Placement`'s `Validate` and `TrainerActor`'s `Supported` are taken as given.

The following was met while modelling. It is either outside a model's scope,
named by an excuse in a property, or excluded by a precondition.

**Fleet.** The monitor kills what the slot holds *now*, which may be the
replacement of what it probed (`health_monitor.py:166`); `resume()` racing the end
of the first wait (`:127`); a failed shutdown leaves the GPU occupied (`:174`).
Every training rank asks for the engines by itself (`actor.py:1076`). One dead node
of a multi-node engine fails the port assertion of the recovery (`rollout.py:1101`).
A restarted manager serves checkpoint weights to an evaluation
(`placement_group.py:185`). `sglang_engine.shutdown` posts `/remove_worker`, which
the slime router proxies to an engine: it raises before the process is killed and
the worker stays registered.

**Weight updates.** A failed engine request inside a bucket leaves the lock held;
engine health during an update is not modelled; a first parameter larger than the
bucket sends an empty bucket; with mixed colocation the distributed engines are
neither paused nor flushed. `WeightExport` requires engines elsewhere to be whole
between updates only. `HfConversion`: gated attention with a qkv bias would raise in
`torch.split`; two MTP layers collide; the llama, qwen2 and qwen3vl converters raise
on names they do not know; the cached `q_a`/`kv_a` pairs are never used; grouped
names of fused experts are not emitted; int4 is left out. For a vision-language model
`remove_padding` compares the whole name (`padding_remover.py:10`) before the converter
takes `language_model.` off it (`qwen3_vl.py:6`), so embedding and output are sent with
the padding of the vocabulary wherever there is one.

**Placement.** An engine that starts in the middle of a node and spans two gets a
host and rank that disagree (`Aligned` excludes it). Addresses of external engines
are indexed by a rank that counts placeholders. Deaths during start-up.

**Router and cache.** Engines report `weight_version` as a string, so
`gc_by_weight_version` raises, the middleware swallows it, and the cache is never
collected. The same text generated again gets the old tokens and log-probs. With
an empty answer `loss_mask[-0:]` keeps the whole mask. `add_worker` of a known URL
does not revive a dead one. `input_tokens` are not forwarded to the engine. Sharing
by text assumes that no prompt is a prefix of another sample's prompt and answer.
A body awaited outside the try block loses its count (modelled as `Lose`).

**Collection and data.** With partial rollout, cancelled groups are not recycled
(`sglang_rollout.py:436`); an abort request that timed out may be executed later
(`:388`); nested results in abort (`:446`); `task.result()` raising (`:545`);
`update_from_rollout` is never called, since the loop is handed a bound method
(`:606`). Visits are counted across the end of an epoch (`data_source.py:207`);
`save()` does not write the buffer (`:637`).

**Samples and evaluation.** A sample that is interrupted with tokens but without text
(half of a character) is continued from the bare prompt, since `generate` asks
whether there is text (`sglang_rollout.py:161`, `:185`), while the old tokens are
kept in front; it can exceed the limit, and a later continuation then fails the
assertion on `max_new_tokens`. Evaluation: datasets of one name overwrite each
other; pass@k groups by `--n-samples-per-eval-prompt` and not by the dataset's own
number, and fails or shifts with missing rewards or several samples per attempt; a
missing reward with a reward key raises; `--eval-reward-key` alone compares a
dictionary with 1 and counts no success; indices of turns and of whole samples are
not comparable, so that mixed results are not in the order of prompts; a number of
attempts that is written as `null` raises.

**Process groups.** Only a rank that belongs to a colocated engine remembers that it
made the groups to gather over (`update_weight_from_tensor.py:122`, "only on first
call"): a rank outside of all of them makes them again at every reconnection, its
count runs ahead, and the NCCL groups that are made again later have other names
there (`CountsApart`). A wrapper that holds `None` is passed on to `torch.distributed`
as the group of all ranks; only the wrapper's own methods raise.

**Browser tasks and sandboxes.** A slot is lost when the clean-up of a cancelled
provisioning is itself cancelled (`sandbox_env.py:1056`) or `create_sandbox` is
(`:977`); a sweep deletes the markers of another live process (`:831`); a `/step`
that timed out is repeated (`:600`); the gate's count of waiters can leak (for the
log only). A judge's timeout still counts in the baseline. `rollout_log_probs` is
decided by the first sample (`rollout.py:930`).

**Local environments.** A child that outlives the wait after SIGKILL (at least a
second, `local_process_env.py:519`) loses its lease and its slot while it still runs, so
that a worker may have more processes than `max_processes` for as long as it takes. A
cancelled clean-up leaves process, lease and slot
behind (`local_process_env.py:450`); a killed worker leaves its children
(`:634`); `/step` tests `_env` before it takes the lock (`docker/env_server.py:192`).
No worker crash is modelled.

**Remote sessions.** A session whose creation was never answered has no marker; a
failed release drops the marker, although the docstring of `browserbase_env.py`
says it stays; programs share the marker directory, so that a sweep, or
`--cleanup`, stops another program's live session; a failed set-up leaks the
Playwright driver. Announcements of a challenge during the landing of a redirect
are forgotten.

**Tabs and settling.** A page that opens while a CDP session is being made keeps
the other tab's session for good (`web_env.py:495`: the key is read after the
await), so its screenshots show that tab; `mistaken` excuses this in
`ShowsCurrentPage`. A dialog raised before its page has loaded is dismissed unseen: the
focus goes there at once, the handler after `domcontentloaded` (`:749`–`:751`). Of two
pages that open at once the first
gets no dialog handler; neither do initial pages other than the first; `new_tab`
registers two handlers, so that a dialog is accepted twice. A page that opens while
another is being closed loses the focus. A page the site closes leaves `self.page`
closed. "close old ones" in a docstring is not done. `[done, other]` ends with
`terminated` false. The readiness check passes on an old document.

**Transcript.** `context_num_screenshots = 0` keeps all of them (`[-0:]`), as does
the judge's cap of attached images. An end tag or newline that is appended is
trained with mask 1 and log-prob 0. An empty output raises and aborts the episode. In
trajectory mode a context overflow leaves text and images without tokens. Thinking
that is never closed is not hidden. `action_only` with `reasoning_max_turns` shows
older turns fuller than recent ones. `total_steps` is one too many on a context
overflow in turn mode. White space at the end of a cut answer is stripped from the
text and kept in the tokens.

**Batch, layout and gradient.** Karmarkar–Karp may exceed the token cap ({8,7,6,5,4}
into two gives 16 > 15); the assertion of `balance_data`; a fixed
`micro_batch_size` > 1 with dynamic batches (the scripts use 1). PPO with context
parallelism adds the reward on one rank only, and not at all to a sample shorter than about
4·cp² tokens; `all_gather_with_cp` uses packed offsets, so `bshd` with cp > 1 fails
its assertion; whitening is reduced over a group without context parallelism and
skipped by ranks without tokens; REINFORCE++ asserts a non-empty mask although
removed samples have none; an odd padding multiple or `allgather_cp` breaks linear
attention. (The scripts use GRPO and cp 1.) The scheduler steps by
`global_batch_size` also with dynamic batches. With virtual stages the number of
micro-batches is rounded, so that one may exceed the cap.

**Trainer.** The first push serves the reference or the teacher where `init` leaves
it on the GPU (`actor.py:444`); the queue of `keep_old_actor` is one rollout late
(`:1112`); without the weights backuper, the second of two epochs that take log-probs
dies of the checksum the first one changed (`:785`, `tensor_backper.py:101`), since the
backup comes after the last epoch (`:862`); `slime_validate_args` refuses none of the combinations `Supported`
excludes.

**Evaluation and judges.** "None" is called uninformative, yet `get_summary` counts it
in the denominator. A failure to write a trace asks the judge again, or loses a
verdict on the last attempt. The API judge takes the first verdict of a text, the
local one the last. A refused parameter uses up an attempt. A cut last line makes
`--resume` raise for ever; rows of other shards in the same file are counted; the
result files of ids `a/b` and `a_b` collide; the answer pattern stops at the first
quote; only the last turn's format is scored for turn-level samples. WebJudge's lax
fall-back is left out. Clean-ups that are detached may exceed `n_parallel`.

## 6. Plan

1. Proofs: the other half of `SamplesExact` (an evaluation's counts and order, which
   need a sort and a filter over what arrived); `ServesOneVersion`, the part of
   `PushesWhole` without ENABLED; `PlacementExact`.
2. The validation of options as a whole: derived values, overrides from YAML.
3. The composition of evaluation and training rollouts over the same semaphore;
   custom generation and `--group-rm` in `SampleGeneration`.
