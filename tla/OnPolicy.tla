------------------------------ MODULE OnPolicy ------------------------------
(* What the training job promises about weights, without engines, requests,  *)
(* monitors or recoveries: weights are published once before the first       *)
(* rollout and once per training step, a rollout is generated by the weights *)
(* published last, and a batch is trained before anything newer is           *)
(* published.  Once the RolloutManager has been restarted (its engines are   *)
(* back at the checkpoint) nothing that is generated is trained any more.    *)
EXTENDS Naturals

CONSTANT NumRollout      \* rollouts the job asks for

VARIABLES phase,         \* stale | current | rollout | batch | lost | stopped
          published,     \* how many times weights were published
          seen           \* the versions that generated the rollout

vars == <<phase, published, seen>>

Init == phase = "stale" /\ published = 0 /\ seen = {}

Publish == /\ phase = "stale"
           /\ phase' = "current" /\ published' = published + 1
           /\ UNCHANGED seen

\* The whole fleet may be dead when the rollout starts: nobody answers then.
Rollout == /\ phase = "current" /\ published <= NumRollout
           /\ phase' = "rollout" /\ seen' \in {{}, {published}}
           /\ UNCHANGED published

HandOver == /\ phase = "rollout"
            /\ phase' = "batch"
            /\ UNCHANGED <<published, seen>>

TrainStep == /\ phase = "batch"
             /\ phase' = "stale"
             /\ UNCHANGED <<published, seen>>

\* The engines restart from the checkpoint, version 0.
Lose == /\ phase \in {"current", "rollout", "lost"}
        /\ phase' = "lost" /\ seen' \in {seen, {}, {0}}
        /\ UNCHANGED published

Stop == /\ phase' = "stopped"
        /\ UNCHANGED <<published, seen>>

Next == Publish \/ Rollout \/ HandOver \/ TrainStep \/ Lose \/ Stop

Spec == Init /\ [][Next]_vars
=============================================================================
