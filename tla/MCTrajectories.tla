---------------------------- MODULE MCTrajectories ----------------------------
(* Three specifications that share no variable, checked side by side: what a   *)
(* browser task does (BrowserEpisode), what becomes of the trajectories that   *)
(* tasks may return (TrajectoryBatch), and how the samples of a step are       *)
(* divided (SeqlenBalance).  Every initial state starts one of them; the other *)
(* two are at rest.                                                            *)
EXTENDS BrowserEpisode, SeqlenBalance

MCNone == NoReward

\* Trajectories of one or two turns.
Turns(n, status, reason, remove, reward) ==
  [i \in 1 .. n |-> Sample("turn", status, reason, i = n, remove, reward)]
Solved(n) == Turns(n, "COMPLETED", "task_completed", FALSE, 1)
Wrong(n) == Turns(n, "COMPLETED", "task_completed", FALSE, 0)
NotJudged(n) == Turns(n, "COMPLETED", "task_completed", TRUE, 0)
Unparsable(n) == Turns(n, "FAILED", "format_error_failed", FALSE, -1)
Aborted(n) == Turns(n, "ABORTED", "generation_abort", FALSE, NoReward)
TimedOut == <<Sample("parent", "ABORTED", "rollout_task_timeout", TRUE, TRUE, NoReward)>>
TooLong == <<Sample("parent", "TRUNCATED", "generation_length_limit", TRUE, FALSE, 0)>>

\* Three attempts in the first group, in any combination; a few in the second.
MCTrajectories == <<Solved(2), Wrong(1), NotJudged(2), Unparsable(1), Aborted(1), TimedOut, TooLong>>
MCFirst == {[a \in 1 .. 3 |-> MCTrajectories[i[a]]] :
              i \in {f \in [1 .. 3 -> DOMAIN MCTrajectories] : f[1] <= f[2] /\ f[2] <= f[3]}}
MCSecond == { <<Solved(1), Wrong(2), Aborted(2)>>, <<Solved(1), TooLong, Unparsable(1)>>,
              <<TimedOut, Aborted(1), Solved(2)>> }
MCRollouts == {<<first, second>> : first \in MCFirst, second \in MCSecond}

\* The guarantee of the first specification (ResultsAsPromised) is what the second
\* one assumes of its inputs.
ASSUME RolloutsAssumption ==
  \A rollout \in Rollouts : \A g \in DOMAIN rollout : \A a \in DOMAIN rollout[g] : Promised(rollout[g][a])

MCOptions == {[gbs |-> 2, dynamic |-> FALSE, epochs |-> e] : e \in 1 .. 2}
             \cup {[gbs |-> 4, dynamic |-> FALSE, epochs |-> e] : e \in 1 .. 2}
             \cup {[gbs |-> 2, dynamic |-> TRUE, epochs |-> e] : e \in 1 .. 2}

EpisodesRest == /\ ep = [t \in Tasks |-> [Fresh EXCEPT !.pc = "done"]]
                /\ gate = GateLimit /\ free = MaxSandboxes /\ swept = FALSE
                /\ markers = {} /\ alive = {} /\ lost = {}
BatchRests == /\ opt = CHOOSE o \in Options : TRUE
              /\ runs = << >> /\ todo = {} /\ kept = {} /\ stage = "done" /\ data = << >> /\ gbs = 0
              /\ rows = << >> /\ shards = << >> /\ chosen = << >> /\ epoch = 0
BalanceRests == lens = <<1>> /\ k = 1 /\ equal = FALSE /\ heap = Singles(1, 1)

Init == \/ EpisodeInit /\ BatchRests /\ BalanceRests
        \/ EpisodesRest /\ BatchInit /\ BalanceRests
        \/ EpisodesRest /\ BatchRests /\ BalanceInit
Next == \/ EpisodeNext /\ UNCHANGED <<batchVars, balanceVars>>
        \/ BatchNext /\ UNCHANGED <<episodeVars, balanceVars>>
        \/ Merge /\ UNCHANGED <<episodeVars, batchVars>>
vars == <<episodeVars, batchVars, balanceVars>>
Spec == Init /\ [][Next]_vars /\ EpisodeFairness
=============================================================================
