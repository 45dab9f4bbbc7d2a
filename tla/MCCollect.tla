------------------------------- MODULE MCCollect -------------------------------
(* Specifications that share no variable, side by side: the collection of     *)
(* rollouts, the placement of engines, the samples of a group over several     *)
(* rollouts, and the evaluation between rollouts.  An initial state starts one  *)
(* of them; the others rest.                                                  *)
EXTENDS RolloutCollect, Placement, SampleGeneration, EvalRollout

\* Command lines for a cluster of three nodes of four GPUs.
Line == [colocate |-> FALSE, offload |-> FALSE, critic |-> FALSE, criticOnly |-> FALSE,
         debug |-> "no", config |-> "default", actor |-> 4, criticGpus |-> 0,
         rollout |-> 8, perEngine |-> 2, prefills |-> 0, models |-> << >>]
G(t, n, per) == [type |-> t, gpus |-> n, per |-> per]
M(updates, per, groups) == [updates |-> updates, per |-> per, groups |-> groups]
Disaggregated == <<M(TRUE, 2, <<G("prefill", 2, 1), G("decode", 2, 0)>>),
                   M(FALSE, 0, <<G("regular", 4, 4)>>)>>
Encoded == <<M(TRUE, 0, <<G("prefill", 2, 0), G("placeholder", 2, 0), G("encoder", 2, 1), G("decode", 2, 0)>>)>>
Wide == <<M(FALSE, 0, <<G("regular", 4, 4)>>), M(TRUE, 0, <<G("regular", 8, 8)>>)>>

MCOptions == {
  Line,
  [Line EXCEPT !.perEngine = 8],
  [Line EXCEPT !.colocate = TRUE, !.actor = 8, !.rollout = 0, !.perEngine = 4],
  [Line EXCEPT !.colocate = TRUE, !.critic = TRUE, !.rollout = 0],
  [Line EXCEPT !.critic = TRUE, !.offload = TRUE, !.criticGpus = 4, !.rollout = 4],
  [Line EXCEPT !.critic = TRUE, !.criticOnly = TRUE, !.actor = 0, !.criticGpus = 4, !.offload = TRUE],
  [Line EXCEPT !.criticOnly = TRUE],
  [Line EXCEPT !.config = "prefill", !.prefills = 2],
  [Line EXCEPT !.config = "prefill", !.prefills = 4],
  [Line EXCEPT !.config = "yaml", !.models = Disaggregated],
  [Line EXCEPT !.config = "yaml", !.models = Encoded],
  [Line EXCEPT !.config = "yaml", !.rollout = 12, !.actor = 0, !.models = Wide],
  [Line EXCEPT !.config = "yaml", !.rollout = 4, !.models = Encoded],
  [Line EXCEPT !.debug = "train"],
  [Line EXCEPT !.debug = "rollout", !.colocate = TRUE, !.rollout = 0],
  [Line EXCEPT !.debug = "rollout"]}
MCForeign == [n \in 0 .. 2 |-> IF n = 1 THEN {1, 3} ELSE {}]

CollectRests ==
  /\ pc = "failed" /\ round = NumRollout
  /\ remaining = 0 /\ pendings = {} /\ aborted = FALSE
  /\ sem = Concurrency
  /\ data = {} /\ recycled = {} /\ trained = {} /\ buffer = {} /\ next = 0
  /\ task = [g \in Group |-> "none"]
  /\ left = [g \in Group |-> GroupSize]
  /\ waiting = [g \in Group |-> 0]
  /\ gen = [g \in Group |-> 0] /\ closing = [g \in Group |-> 0]
  /\ unfinished = {} /\ gaveUp = FALSE
  /\ filtered = 0 /\ errors = 0 /\ escapes = 0
PlaceRests == layout = NoLayout /\ queue = << >> /\ cursor = FirstPort /\ deaths = 0
SamplesRest ==
  /\ group = "rest" /\ maskOffPolicy = FALSE /\ rolloutId = 0 /\ aborting = FALSE
  /\ member = [m \in Members |-> "rest"] /\ asked = [m \in Members |-> NoRequest]
  /\ sample = [m \in Members |-> NewSample] /\ wordless = {}
SamplesOver ==
  /\ \/ group \in {"gone", "trained", "failed"}
     \/ group = "buffer" /\ aborting /\ rolloutId + 1 = MaxRollouts
  /\ UNCHANGED sampleVars

\* Two attempts at two prompts; two datasets with numbers of their own; two with one
\* name; and a number that is written without a value.
Return(turn, status, reward) == [turn |-> turn, status |-> status, reward |-> reward]
MCReturns == {<<Return(FALSE, "completed", 1)>>, <<Return(FALSE, "truncated", 0)>>,
              <<Return(FALSE, "aborted", Unrewarded)>>,
              <<Return(TRUE, "completed", 1), Return(TRUE, "completed", 1)>>}
EvalSet(name, prompts, own) == [name |-> name, prompts |-> prompts, own |-> own]
MCSetups ==
  {[datasets |-> d, default |-> default, requested |-> 2, keyed |-> k[1], passRate |-> k[2]] :
     d \in {<<EvalSet("a", 2, Unwritten)>>, <<EvalSet("a", 1, 2), EvalSet("b", 1, Unwritten)>>,
            <<EvalSet("a", 1, 1), EvalSet("a", 1, Unwritten)>>, <<EvalSet("a", 1, Null)>>},
     default \in {Unwritten, 1}, k \in {<<"none", TRUE>>, <<"both", FALSE>>, <<"eval", FALSE>>}}
EvalRests == /\ setup = CHOOSE s \in Setups : TRUE
             /\ evalAt = "rest" /\ inFlight = << >> /\ generated = << >>
             /\ arrived = << >> /\ logged = << >>
EvalOver == evalAt \in {"done", "failed"} /\ UNCHANGED evalRolloutVars

CollectSideInit == \/ Init /\ PlaceRests /\ SamplesRest /\ EvalRests
                   \/ CollectRests /\ PlaceInit /\ SamplesRest /\ EvalRests
                   \/ CollectRests /\ PlaceRests /\ SampleInit /\ EvalRests
                   \/ CollectRests /\ PlaceRests /\ SamplesRest /\ EvalRolloutInit
CollectSideNext ==
  \/ Next /\ UNCHANGED <<placeVars, sampleVars, evalRolloutVars>>
  \/ PlaceNext /\ UNCHANGED <<vars, sampleVars, evalRolloutVars>>
  \/ (SampleNext \/ SamplesOver) /\ UNCHANGED <<vars, placeVars, evalRolloutVars>>
  \/ (EvalRolloutNext \/ EvalOver) /\ UNCHANGED <<vars, placeVars, sampleVars>>
CollectSideSpec == /\ CollectSideInit
                   /\ [][CollectSideNext]_<<vars, placeVars, sampleVars, evalRolloutVars>>
                   /\ WF_vars(Loop) /\ WF_vars(Tasks)

\* What generate_and_rm makes of a sample is whole, however often it is interrupted
\* (training) and in whatever order the samples of several datasets end
\* (evaluation): tokens, masks and rewards in the one, attempts, order and counts
\* in the other.
SamplesExact == SampleExact /\ EvalRolloutExact
=============================================================================
