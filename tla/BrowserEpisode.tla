---------------------------- MODULE BrowserEpisode ----------------------------
(* generate_turn_sample in sandbox mode: tasks of one process that each pass   *)
(* the submission gate, sweep what an earlier run left, take a sandbox slot,   *)
(* provision a sandbox, talk to the model and the browser turn by turn, and    *)
(* clean up, under the timeout of wait_for and the cancellation of abort().    *)
(* Every await is a step, so that a cancellation can arrive at each of them.   *)
EXTENDS Integers, Sequences, FiniteSets

CONSTANTS Tasks,         \* the attempts at a prompt; a task also names its sandbox
          Leftovers,     \* sandboxes that an earlier run has left, with their markers
          GateLimit,     \* SLIME_BROWSER_ROLLOUT_CONCURRENCY
          MaxSandboxes,  \* slots
          MaxSteps,      \* max_steps
          ParseLimit,    \* max_consecutive_parse_failures
          MaxCuts        \* bound: timeouts of tasks and cancellations

ASSUME EpisodeAssumption ==
  /\ {GateLimit, MaxSandboxes, MaxSteps, ParseLimit} \subseteq Nat \ {0} /\ MaxCuts \in Nat
  /\ IsFiniteSet(Tasks) /\ IsFiniteSet(Leftovers) /\ Tasks \cap Leftovers = {}

VARIABLES
  ep,       \* per task: [pc, box, cut, raised, why, fails, out, todo], see Fresh
  gate,     \* free places of the submission gate
  free,     \* free slots of SandboxSlotPool
  swept,    \* _SANDBOX_CLEANUP_DONE
  markers,  \* the marker files
  alive,    \* the sandboxes that nobody has deleted
  lost      \* tasks whose slot will never come back

episodeVars == <<ep, gate, free, swept, markers, alive, lost>>

-----------------------------------------------------------------------------
(* Samples.  A sample without a reward has NoReward, Python's None.            *)

NoReward == -9
Status == {"PENDING", "COMPLETED", "TRUNCATED", "ABORTED", "FAILED"}

Sample(kind, status, reason, last, remove, reward) ==
  [kind |-> kind, status |-> status, reason |-> reason, last |-> last, remove |-> remove, reward |-> reward]

\* _should_remove_browser_sample: the causes whose text has one of its markers.
ShouldRemove(status, reason) ==
  \/ reason \in {"rollout_task_timeout", "inference_timeout", "not_healthy"}
  \/ status = "ABORTED" /\ reason \in {"env_step_error", "reset_error"}

NewTurn == Sample("turn", "PENDING", "none", FALSE, FALSE, NoReward)

\* The end of the loop: every turn gets the status and the reason, the last one
\* is marked.
Ended(turns, status, reason) ==
  [i \in DOMAIN turns |->
     Sample("turn", status, reason, i = Len(turns), ShouldRemove(status, reason), NoReward)]

\* Without a turn it is the sample of the dataset that is returned.
Parent(status, reason) == << Sample("parent", status, reason, TRUE, ShouldRemove(status, reason), NoReward) >>
Outcome(turns, status, reason) ==
  IF turns = << >> THEN Parent(status, reason) ELSE Ended(turns, status, reason)

-----------------------------------------------------------------------------
Fresh == [pc |-> "new", box |-> "none", cut |-> {}, raised |-> FALSE, why |-> "none",
          fails |-> 0, out |-> << >>, todo |-> {}]

\* A task that goes from one point to the next, and what it changes on the way.
At(t, pc) == ep[t].pc = pc
Become(t, e) == ep' = [ep EXCEPT ![t] = e]
Goto(t, pc) == Become(t, [ep[t] EXCEPT !.pc = pc])

Cuts == Cardinality({c \in Tasks \X {"cancelled", "expired"} : c[2] \in ep[c[1]].cut})

\* The wrapper: what a task returns once the body has ended.  wait_for makes a
\* TimeoutError of its own cancellation, unless abort() has cancelled too.
Returned(e) ==
  LET out == IF ~e.raised THEN e.out
             ELSE IF "cancelled" \in e.cut THEN << >> ELSE Parent("ABORTED", "rollout_task_timeout")
      scored == out # << >> /\ \A i \in DOMAIN out : out[i].status # "ABORTED"
  IN  [e EXCEPT !.out = out, !.todo = {}, !.fails = 0, !.why = "none", !.raised = FALSE,
                !.pc = IF scored THEN "judge" ELSE "done"]

Return(t, e) == Become(t, Returned(e)) /\ gate' = gate + 1

-----------------------------------------------------------------------------
(* Entering, and the sweep of _create_env.                                     *)

Enter(t) ==
  /\ At(t, "new") /\ gate > 0
  /\ gate' = gate - 1
  /\ Become(t, IF swept THEN [ep[t] EXCEPT !.pc = "slot"]
               ELSE [ep[t] EXCEPT !.pc = "sweep", !.todo = markers])
  /\ UNCHANGED <<free, swept, markers, alive, lost>>

\* The list was made before the first await; a delete that fails leaves the marker.
SweepOne(t) ==
  /\ At(t, "sweep")
  /\ \E s \in ep[t].todo :
       /\ Become(t, [ep[t] EXCEPT !.todo = @ \ {s}])
       /\ \/ markers' = markers \ {s} /\ alive' = alive \ {s}
          \/ UNCHANGED <<markers, alive>>
  /\ UNCHANGED <<gate, free, swept, lost>>

SweepEnd(t) ==
  /\ At(t, "sweep") /\ ep[t].todo = {}
  /\ swept' = TRUE /\ Goto(t, "slot")
  /\ UNCHANGED <<gate, free, markers, alive, lost>>

-----------------------------------------------------------------------------
(* _provision_sandbox and initialize.                                          *)

Acquire(t) ==
  /\ At(t, "slot") /\ free > 0
  /\ free' = free - 1 /\ Goto(t, "create")
  /\ UNCHANGED <<gate, swept, markers, alive, lost>>

AcquireTimeout(t) ==
  /\ At(t, "slot") /\ free = 0
  /\ Return(t, [ep[t] EXCEPT !.out = Parent("ABORTED", "slot_timeout")])
  /\ UNCHANGED <<free, swept, markers, alive, lost>>

Create(t) ==
  /\ At(t, "create")
  /\ Become(t, [ep[t] EXCEPT !.pc = "boot", !.box = "up"])
  /\ alive' = alive \cup {t} /\ markers' = markers \cup {t}
  /\ UNCHANGED <<gate, free, swept, lost>>

\* A request for a sandbox that fails, or a server that is not healthy in time.
ProvisionFails(t) ==
  /\ \/ /\ At(t, "create")
        /\ Become(t, [ep[t] EXCEPT !.pc = "failed", !.why = "create_error"])
     \/ /\ At(t, "boot")
        /\ Become(t, [ep[t] EXCEPT !.pc = "failed", !.why = "not_healthy", !.box = "destroying"])
  /\ UNCHANGED <<gate, free, swept, markers, alive, lost>>

Boot(t) ==
  /\ At(t, "boot") /\ Goto(t, "reset")
  /\ UNCHANGED <<gate, free, swept, markers, alive, lost>>

\* The shielded clean-up of a failed provisioning, which does not hold the slot.
Destroy(t) ==
  /\ ep[t].box = "destroying"
  /\ Become(t, [ep[t] EXCEPT !.box = "gone"])
  /\ \/ markers' = markers \ {t} /\ alive' = alive \ {t}
     \/ UNCHANGED <<markers, alive>>
  /\ UNCHANGED <<gate, free, swept, lost>>

\* After it, the task itself gives the slot back, and raises.
ProvisionFailed(t) ==
  /\ At(t, "failed") /\ ep[t].box # "destroying"
  /\ free' = free + 1
  /\ Return(t, [ep[t] EXCEPT !.out = Parent("ABORTED", ep[t].why)])
  /\ UNCHANGED <<swept, markers, alive, lost>>

Reset(t) ==
  /\ At(t, "reset") /\ Goto(t, "infer")
  /\ UNCHANGED <<gate, free, swept, markers, alive, lost>>

ResetFails(t) ==
  /\ At(t, "reset")
  /\ Become(t, [ep[t] EXCEPT !.pc = "quit", !.box = "leaving", !.out = Parent("ABORTED", "reset_error")])
  /\ UNCHANGED <<gate, free, swept, markers, alive, lost>>

-----------------------------------------------------------------------------
(* The turn loop.                                                              *)

\* Out of the loop with this outcome: _safe_exit_env starts env.exit().
Leave(t, turns, status, reason) ==
  Become(t, [ep[t] EXCEPT !.pc = "exit", !.box = "leaving", !.out = Outcome(turns, status, reason)])

\* The next step, if there is one.
NextStep(t, turns, fails) ==
  IF Len(turns) = MaxSteps THEN Leave(t, turns, "FAILED", "max_steps_exhausted")
  ELSE Become(t, [ep[t] EXCEPT !.pc = "infer", !.out = turns, !.fails = fails])

ContextFull(t) ==
  /\ At(t, "infer")
  /\ Leave(t, ep[t].out, "TRUNCATED", "generation_length_limit")
  /\ UNCHANGED <<gate, free, swept, markers, alive, lost>>

InferenceFails(t) ==
  /\ At(t, "infer")
  /\ \E reason \in {"inference_timeout", "inference_error"} : Leave(t, ep[t].out, "ABORTED", reason)
  /\ UNCHANGED <<gate, free, swept, markers, alive, lost>>

\* The engine stops at a token limit, or because of abort_request.
CutShort(t) ==
  /\ At(t, "infer")
  /\ LET turns == Append(ep[t].out, NewTurn)
     IN  \/ Leave(t, turns, "TRUNCATED", "generation_length_limit")
         \/ Leave(t, turns, "ABORTED", "generation_abort")
  /\ UNCHANGED <<gate, free, swept, markers, alive, lost>>

Respond(t) ==
  /\ At(t, "infer")
  /\ Become(t, [ep[t] EXCEPT !.pc = "act", !.out = Append(@, NewTurn)])
  /\ UNCHANGED <<gate, free, swept, markers, alive, lost>>

RespondUnparsable(t) ==
  /\ At(t, "infer")
  /\ LET turns == Append(ep[t].out, NewTurn)
         fails == ep[t].fails + 1
     IN  IF fails >= ParseLimit THEN Leave(t, turns, "FAILED", "format_error_failed")
         ELSE NextStep(t, turns, fails)
  /\ UNCHANGED <<gate, free, swept, markers, alive, lost>>

Step(t) ==
  /\ At(t, "act")
  /\ \/ NextStep(t, ep[t].out, 0)
     \/ Leave(t, ep[t].out, "COMPLETED", "task_completed")
  /\ UNCHANGED <<gate, free, swept, markers, alive, lost>>

\* env.step closes the environment before it raises.
StepFails(t) ==
  /\ At(t, "act")
  /\ Become(t, [ep[t] EXCEPT !.pc = "quit", !.box = "leaving",
                             !.out = Outcome(ep[t].out, "ABORTED", "env_step_error")])
  /\ UNCHANGED <<gate, free, swept, markers, alive, lost>>

-----------------------------------------------------------------------------
(* SandboxWebEnv.exit: /exit, answered or given up after 15 seconds, then the  *)
(* lease is released, which deletes the sandbox and frees the slot.            *)

ExitCall(t) ==
  /\ ep[t].box = "leaving"
  /\ Become(t, [ep[t] EXCEPT !.box = "deleting"])
  /\ UNCHANGED <<gate, free, swept, markers, alive, lost>>

\* Mutant: no slot for a sandbox that could not be deleted.
DeleteOrKeepSlot(t) ==
  /\ ep[t].box \in {"deleting", "exposed"}
  /\ Become(t, [ep[t] EXCEPT !.box = "gone"])
  /\ \/ markers' = markers \ {t} /\ alive' = alive \ {t} /\ free' = free + 1
     \/ UNCHANGED <<markers, alive, free>>
  /\ UNCHANGED <<gate, swept, lost>>
Delete(t) ==
  /\ ep[t].box \in {"deleting", "exposed"}
  /\ Become(t, [ep[t] EXCEPT !.box = "gone"])
  /\ \/ markers' = markers \ {t} /\ alive' = alive \ {t}
     \/ UNCHANGED <<markers, alive>>
  /\ free' = free + 1
  /\ UNCHANGED <<gate, swept, lost>>

\* Mutant: the task waits until the sandbox is really gone.
LeftWhenDeleted(t) ==
  /\ ep[t].pc \in {"quit", "exit", "exit again"} /\ t \notin alive
  /\ Return(t, ep[t])
  /\ UNCHANGED <<free, swept, markers, alive, lost>>
\* initialize and step wait for the exit, however long it takes; _safe_exit_env
\* detaches from it after its timeout.
Left(t) ==
  /\ \/ At(t, "quit") /\ ep[t].box = "gone"
     \/ ep[t].pc \in {"exit", "exit again"}
  /\ Return(t, ep[t])
  /\ UNCHANGED <<free, swept, markers, alive, lost>>

-----------------------------------------------------------------------------
(* reward_func: the last turn is judged, if the episode was completed, and its *)
(* reward and remove_sample go to all turns.                                   *)

Scores(last) ==
  IF last.reason = "format_error_failed" THEN {[reward |-> -1, timeout |-> FALSE]}
  ELSE IF last.status # "COMPLETED" THEN {[reward |-> 0, timeout |-> FALSE]}
  ELSE {[reward |-> r, timeout |-> FALSE] : r \in 0 .. 1} \cup {[reward |-> 0, timeout |-> TRUE]}

\* Mutant: only the turn that was judged is removed when the judge times out.
ScoredLastOnly(out, score) ==
  [i \in DOMAIN out |-> [out[i] EXCEPT !.reward = score.reward,
                                       !.remove = @ \/ (score.timeout /\ out[i].last)]]
Scored(out, score) ==
  [i \in DOMAIN out |-> [out[i] EXCEPT !.reward = score.reward, !.remove = @ \/ score.timeout]]

Judge(t) ==
  /\ At(t, "judge")
  /\ LET out == ep[t].out
     IN  \E score \in Scores(CHOOSE s \in {out[i] : i \in DOMAIN out} : s.last) :
           Become(t, [ep[t] EXCEPT !.pc = "done", !.out = Scored(out, score)])
  /\ UNCHANGED <<gate, free, swept, markers, alive, lost>>

-----------------------------------------------------------------------------
(* A cancellation: wait_for's timer, or the task.cancel() of abort().          *)

\* Which cancellations can still reach the task.
Kinds(e) ==
  (IF e.pc \in {"done"} THEN {} ELSE {"cancelled"})
  \cup (IF e.pc \in {"new", "judge", "done"} THEN {} ELSE {"expired"})

Interrupt(t) ==
  /\ Cuts < MaxCuts
  /\ \E kind \in Kinds(ep[t]) \ ep[t].cut :
       LET e == [ep[t] EXCEPT !.cut = @ \cup {kind}]
           r == [e EXCEPT !.raised = TRUE, !.out = << >>]
       IN  \* waiting for the gate, or for the judge: the task ends
           \/ /\ e.pc \in {"new", "judge"}
              /\ Become(t, [r EXCEPT !.pc = "done", !.raised = FALSE])
              /\ UNCHANGED <<gate, lost>>
           \* nothing is held yet
           \/ e.pc \in {"sweep", "slot"} /\ Return(t, r) /\ UNCHANGED lost
           \* the provisioning cleans up
           \/ /\ e.pc \in {"create", "boot"}
              /\ Become(t, [e EXCEPT !.raised = TRUE, !.pc = "failed",
                                     !.box = IF e.pc = "boot" THEN "destroying" ELSE @])
              /\ UNCHANGED <<gate, lost>>
           \* ... and is itself cancelled: the release of the slot is skipped
           \/ /\ e.pc = "failed"
              /\ Return(t, r) /\ lost' = lost \cup {t}
           \* the environment is closed on the way out
           \/ /\ e.pc = "reset"
              /\ Become(t, [r EXCEPT !.pc = "quit", !.box = "leaving"]) /\ UNCHANGED <<gate, lost>>
           \/ /\ e.pc \in {"infer", "act"}
              /\ Become(t, [r EXCEPT !.pc = "exit", !.box = "leaving"]) /\ UNCHANGED <<gate, lost>>
           \* in exit(): /exit is given up; the release is shielded once, see CancelRelease
           \/ /\ e.pc = "quit" /\ e.box \in {"leaving", "deleting"}
              /\ Become(t, [r EXCEPT !.box = IF e.box = "leaving" THEN "deleting" ELSE "exposed"])
              /\ UNCHANGED <<gate, lost>>
           \* _safe_exit_env swallows the first and waits again, and raises the second
           \/ /\ e.pc = "exit" /\ Become(t, [e EXCEPT !.pc = "exit again"]) /\ UNCHANGED <<gate, lost>>
           \/ e.pc = "exit again" /\ Return(t, r) /\ UNCHANGED lost
  /\ UNCHANGED <<free, swept, markers, alive>>

\* The second cancellation of a release: its finally still frees the slot.
CancelRelease(t) ==
  /\ Cuts < MaxCuts
  /\ At(t, "quit") /\ ep[t].box = "exposed"
  /\ \E kind \in Kinds(ep[t]) \ ep[t].cut :
       Return(t, [ep[t] EXCEPT !.cut = @ \cup {kind}, !.raised = TRUE, !.box = "gone"])
  /\ free' = free + 1
  /\ UNCHANGED <<swept, markers, alive, lost>>
-----------------------------------------------------------------------------
EpisodeInit ==
  /\ ep = [t \in Tasks |-> Fresh]
  /\ gate = GateLimit /\ free = MaxSandboxes /\ swept = FALSE
  /\ markers = Leftovers /\ alive = Leftovers /\ lost = {}

Turn(t) == \/ ContextFull(t) \/ InferenceFails(t) \/ CutShort(t) \/ Respond(t)
           \/ RespondUnparsable(t) \/ Step(t) \/ StepFails(t)

Provision(t) == \/ Acquire(t) \/ AcquireTimeout(t) \/ Create(t) \/ ProvisionFails(t) \/ Boot(t)
                \/ ProvisionFailed(t) \/ Reset(t) \/ ResetFails(t)

\* What a task does, and what runs in tasks of its own that nobody cancels.
Proceed(t) == \/ Enter(t) \/ SweepOne(t) \/ SweepEnd(t) \/ Provision(t) \/ Turn(t) \/ Left(t) \/ Judge(t)
CleanUp(t) == Destroy(t) \/ ExitCall(t) \/ Delete(t)

EpisodeNext == \E t \in Tasks : Proceed(t) \/ CleanUp(t) \/ Interrupt(t) \/ CancelRelease(t)

\* The event loop runs every task that is ready, and each call has a timeout.
EpisodeFairness == \A t \in Tasks : WF_episodeVars(Proceed(t)) /\ WF_episodeVars(CleanUp(t))

EpisodeSpec == EpisodeInit /\ [][EpisodeNext]_episodeVars /\ EpisodeFairness

-----------------------------------------------------------------------------
(* Properties.                                                                 *)

InBody(t) == ep[t].pc \notin {"new", "judge", "done"}
HoldsSlot(t) == ep[t].pc \in {"create", "boot", "failed"} \/ ep[t].box \in {"up", "leaving", "deleting", "exposed"}

\* Whatever fails, is cut short or is cancelled, a slot is free, held by one task
\* or accounted as lost, and so is a place at the gate: neither is given back
\* twice (more sandboxes than slots) or forgotten (the pool dries up).  And the
\* sweep of one task never deletes the sandbox of another, while one that is
\* still there can be found by the sweep of the next process.
SandboxesAccounted ==
  /\ free + Cardinality({t \in Tasks : HoldsSlot(t)}) + Cardinality(lost) = MaxSandboxes
  /\ gate + Cardinality({t \in Tasks : InBody(t)}) = GateLimit
  /\ \A t \in Tasks : ep[t].box \in {"up", "leaving"} => t \in alive
  /\ alive \subseteq markers

\* Every task returns, also when its clean-up was detached, and in the end every
\* slot is back but those that a cancelled clean-up has lost.
EpisodesEnd ==
  <>[](/\ \A t \in Tasks : ep[t].pc = "done"
       /\ free = MaxSandboxes - Cardinality(lost) /\ gate = GateLimit)

\* What the batch is built from (TrajectoryBatch): one end, status, reward and
\* removal for all samples of a trajectory, the last one marked; a reward unless
\* the episode was aborted; more than nothing only for what was completed, less
\* only for what could not be parsed.
Promised(out) ==
  LET samples == {out[i] : i \in DOMAIN out}
  IN  /\ \A s, o \in samples : [s EXCEPT !.last = o.last] = o
      /\ \A i \in DOMAIN out : out[i].last <=> i = Len(out)
      /\ \A s \in samples :
           /\ s.status # "PENDING" /\ (s.kind = "parent" => Len(out) = 1)
           /\ s.status = "ABORTED" <=> s.reward = NoReward
           /\ s.reward = 1 => s.status = "COMPLETED" /\ ~s.remove
           /\ s.reward = -1 => s.reason = "format_error_failed"

\* Every task that is done has kept this promise, or was cancelled.
ResultsAsPromised == \A t \in Tasks : ep[t].pc = "done" => Promised(ep[t].out)
=============================================================================
