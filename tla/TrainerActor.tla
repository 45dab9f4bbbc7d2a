----------------------------- MODULE TrainerActor -----------------------------
(* MegatronTrainRayActor: one actor rank, its critic peer and the driver that  *)
(* calls them.  All models of a job share the memory of the training GPUs: the *)
(* reference, the teacher and the old actor are copies on the host, swapped in *)
(* by tag, and with offloading the GPU memory and the NCCL groups come and go  *)
(* between the calls.  Which weights a step reads, trains, saves or pushes is  *)
(* what could go wrong; the tensors themselves are <<model, optimizer steps>>. *)
EXTENDS Integers, Sequences

CONSTANTS Configurations,  \* the command lines that are explored
          NumRollout,
          NumSteps,        \* optimizer steps per rollout and epoch
          MaxSkips         \* bound: rollouts or steps dropped for NaN

Tag == {"actor", "ref", "teacher", "old_actor", "rollout_actor"}

ASSUME TrainerAssumption ==
  /\ NumRollout \in Nat \ {0} /\ NumSteps \in Nat \ {0} /\ MaxSkips \in Nat
  /\ \A a \in Configurations :
       /\ {a.offload, a.colocate, a.backuper, a.ref, a.teacher, a.keepOld, a.interval1, a.critic,
           a.rolloutLogprobs, a.advantages} \subseteq BOOLEAN
       /\ a.replay \in {"off", "record", "rollout"}
       /\ a.epochs \in Nat \ {0} /\ a.criticOnly \in Nat /\ a.refInterval \in Nat

VARIABLES
  args,    \* the command line
  pc,      \* the driver, or the phase of the actor's train()
  rid,     \* rollout_id
  epoch,   \* ppo_epoch_id
  step,    \* step_id of train()
  m,       \* [gpu, main, tags, active]: the weights on the GPU, the main parameters of
           \* the optimizer, the backups, _active_model_tag
  asleep,  \* torch_memory_saver has paused the actor's GPU memory
  groups,  \* the NCCL groups of the actor exist
  routes,  \* RoutingReplay: [list, forward, backward], of one layer
  logp,    \* which weights gave ref_log_probs, teacher_log_probs, log_probs
  critic,  \* the critic: off | asleep | awake | values | synced | trained
  served,  \* the weights of the engines
  used,    \* the weights that generated this rollout
  saved,   \* the weights of the last checkpoint
  fault,   \* why the job died, or "none"
  skips

trainerVars == <<args, pc, rid, epoch, step, m, asleep, groups, routes, logp, critic,
                 served, used, saved, fault, skips>>

Nothing == <<"nothing", 0>>

-----------------------------------------------------------------------------
(* TensorBackuper.  Without --enable-weights-backuper there is one tag, the    *)
(* backup is a checksum of the GPU weights, and restore checks it.             *)

Backup(x, tag) == [x EXCEPT !.tags = [t \in DOMAIN @ \cup {tag} |-> IF t = tag THEN x.gpu ELSE @[t]]]
Copy(x, src, dst) == [x EXCEPT !.tags[dst] = x.tags[src]]

\* Without the backuper, restore and get assert that the GPU model has the
\* checksum of the backup; weights that differ are taken to differ in it.
Intact(x, tag) == args.backuper \/ x.gpu = x.tags[tag]

\* Mutant: the tag changes and the weights stay.
SwitchTagOnly(x, tag) == [x EXCEPT !.active = tag]
\* _switch_model, for a tag that is there and, without the backuper, intact:
\* then nothing is copied, and x.tags[tag] is what the GPU model holds already.
Switch(x, tag) == [x EXCEPT !.gpu = x.tags[tag], !.active = tag]

\* load_other_checkpoint: into the GPU model, and from there to the backup.
LoadOther(x, tag, weights) ==
  [Backup([x EXCEPT !.gpu = weights], tag) EXCEPT !.active = tag]

-----------------------------------------------------------------------------
(* init.                                                                       *)

Actor0 == <<"actor", 0>>

Models ==
  LET own     == Backup([gpu |-> Actor0, main |-> Actor0, tags |-> << >>, active |-> "actor"], "actor")
      ref     == IF args.ref THEN LoadOther(own, "ref", <<"ref", 0>>) ELSE own
      teacher == IF args.teacher THEN LoadOther(ref, "teacher", <<"teacher", 0>>) ELSE ref
      old     == IF args.keepOld THEN LoadOther(teacher, "old_actor", Actor0) ELSE teacher
      queue   == IF args.keepOld /\ args.interval1 THEN Backup(old, "rollout_actor") ELSE old
  IN  IF args.offload THEN Switch(queue, "actor") ELSE queue

Initialise ==
  /\ pc = "init"
  /\ IF args.backuper \/ ~(args.ref \/ args.teacher \/ args.keepOld)
     THEN m' = Models /\ pc' = "update" /\ fault' = fault
     ELSE m' = m /\ pc' = "died" /\ fault' = "backup of an unknown tag"
  /\ asleep' = args.offload /\ groups' = ~args.offload
  /\ critic' = IF ~args.critic THEN "off" ELSE IF args.offload THEN "asleep" ELSE "awake"
  /\ UNCHANGED <<args, rid, epoch, step, routes, logp, served, used, saved, skips>>

-----------------------------------------------------------------------------
(* update_weights.  Colocated engines are fed from the backup of the actor,    *)
(* others from the GPU model (UpdateWeightFromTensor, ...FromDistributed).     *)

ReadsGpu == ~args.colocate \/ args.keepOld

Queue(x) ==
  IF ~args.keepOld THEN x
  ELSE IF args.interval1 THEN Backup(Copy(x, "rollout_actor", "old_actor"), "rollout_actor")
  ELSE Backup(x, "old_actor")

UpdateWeights ==
  /\ pc = "update"
  /\ IF asleep /\ ReadsGpu
     THEN pc' = "died" /\ fault' = "read of GPU memory that is paused" /\ UNCHANGED <<served, m>>
     ELSE IF args.colocate /\ ~Intact(m, "actor")
     THEN pc' = "died" /\ fault' = "not the checksum of the backup" /\ UNCHANGED <<served, m>>
     ELSE /\ served' = IF args.colocate THEN m.tags["actor"] ELSE m.gpu
          /\ m' = Queue(m)
          /\ pc' = IF rid = NumRollout THEN "done" ELSE "generate"
          /\ UNCHANGED fault
  /\ groups' = ~args.offload
  /\ UNCHANGED <<args, rid, epoch, step, asleep, routes, logp, critic, used, saved, skips>>

-----------------------------------------------------------------------------
(* One rollout and its training step, as train.py calls them.                  *)

TrainsActor == ~args.critic \/ rid >= args.criticOnly

NoLogp == [ref |-> Nothing, teacher |-> Nothing, own |-> Nothing]

Generate ==
  /\ pc = "generate"
  /\ used' = served /\ logp' = NoLogp
  /\ pc' = IF TrainsActor THEN "train" ELSE "critic"
  /\ epoch' = 0 /\ step' = 0
  /\ UNCHANGED <<args, rid, m, asleep, groups, routes, critic, served, saved, fault, skips>>

CriticWakes ==
  /\ pc \notin {"init", "update", "generate", "saving", "offload"}
  /\ critic \in {"asleep", "awake"}
  /\ critic' = "values"
  /\ UNCHANGED <<args, pc, rid, epoch, step, m, asleep, groups, routes, logp, served, used, saved, fault, skips>>

\* Mutant: the critic waits for the actor in every rollout.
CriticTrainsSynced ==
  /\ critic = "synced"
  /\ critic' = "trained"
  /\ UNCHANGED <<args, pc, rid, epoch, step, m, asleep, groups, routes, logp, served, used, saved, fault, skips>>
\* The critic waits for the actor in sync_actor_critic_data only when the
\* actor trains in this rollout.
CriticTrains ==
  /\ critic = (IF TrainsActor THEN "synced" ELSE "values")
  /\ critic' = "trained"
  /\ UNCHANGED <<args, pc, rid, epoch, step, m, asleep, groups, routes, logp, served, used, saved, fault, skips>>

\* train(): wake up, take the data; for a mixture of experts with the routes
\* of the engines, fill_routing_replay records them before any forward pass.
Routes == [i \in 1 .. NumSteps |-> rid]

StartTrain ==
  /\ pc = "train" /\ epoch = 0
  /\ asleep' = FALSE /\ groups' = TRUE
  /\ IF args.epochs > 1 /\ (~args.rolloutLogprobs \/ args.replay # "off" \/ args.critic)
     THEN pc' = "died" /\ fault' = "refused: ppo_epochs > 1" /\ UNCHANGED routes
     ELSE /\ routes' = IF args.replay = "rollout" THEN [routes EXCEPT !.list = @ \o Routes] ELSE routes
          /\ pc' = IF args.advantages THEN "ref" ELSE "step"
          /\ UNCHANGED fault
  /\ UNCHANGED <<args, rid, epoch, step, m, logp, critic, served, used, saved, skips>>

Forward(tag, field, next) ==
  /\ IF tag \in DOMAIN m.tags
     THEN m' = Switch(m, tag) /\ logp' = [logp EXCEPT ![field] = Switch(m, tag).gpu]
     ELSE UNCHANGED <<m, logp>>
  /\ pc' = next
  /\ UNCHANGED <<args, rid, epoch, step, asleep, groups, routes, critic, served, used, saved, fault, skips>>

RefLogProbs     == pc = "ref" /\ Forward("ref", "ref", "teacher")
TeacherLogProbs == pc = "teacher" /\ Forward("teacher", "teacher", "own")

\* The own log-probs, unless those of the engines are used; in the record stage
\* the pass leaves its routes, with those of the engines it replays them.  The
\* switch back to the actor that comes first is made in every epoch.
OwnTag == IF args.keepOld /\ args.epochs = 1 THEN "old_actor" ELSE "actor"
OwnLogProbs ==
  /\ pc = "own"
  /\ IF ~Intact(m, OwnTag)
     THEN pc' = "died" /\ fault' = "not the checksum of the backup" /\ UNCHANGED <<m, logp, routes>>
     ELSE LET x == Switch(m, OwnTag)
              forward == ~args.rolloutLogprobs
          IN  /\ m' = x
              /\ logp' = IF forward THEN [logp EXCEPT !.own = x.gpu] ELSE logp
              /\ routes' = IF forward /\ args.replay = "record"
                           THEN [routes EXCEPT !.list = @ \o Routes] ELSE routes
              /\ pc' = IF args.critic THEN "sync" ELSE "advantages"
              /\ UNCHANGED fault
  /\ UNCHANGED <<args, rid, epoch, step, asleep, groups, critic, served, used, saved, skips>>

\* sync_actor_critic_data is a collective of the actor and its critic.
Sync ==
  /\ pc = "sync" /\ critic = "values"
  /\ critic' = "synced" /\ pc' = "advantages"
  /\ UNCHANGED <<args, rid, epoch, step, m, asleep, groups, routes, logp, served, used, saved, fault, skips>>

ClearRoutes == [list |-> << >>, forward |-> 0, backward |-> 0]

\* A rollout with a NaN on any rank is dropped by all (all_reduce of a flag).
SkipRollout ==
  /\ pc = "advantages" /\ skips < MaxSkips
  /\ LET x == IF m.active = "actor" THEN m ELSE Switch(m, "actor")
     IN  m' = Backup(x, "actor")
  /\ routes' = IF args.replay = "off" THEN routes ELSE ClearRoutes
  /\ skips' = skips + 1 /\ pc' = "critic"
  /\ UNCHANGED <<args, rid, epoch, step, asleep, groups, logp, critic, served, used, saved, fault>>

Advantages ==
  /\ pc = "advantages"
  /\ m' = IF m.active = "actor" THEN m ELSE Switch(m, "actor")
  /\ pc' = "step"
  /\ UNCHANGED <<args, rid, epoch, step, asleep, groups, routes, logp, critic, served, used, saved, fault, skips>>

\* train_one_step: every forward pass takes the next routes, every recomputed
\* one of the backward pass too.  The gradients of the GPU model move the main
\* parameters, which are copied to it; those that are not finite change nothing.
TakesRoutes ==
  IF args.replay = "off" THEN routes
  ELSE [routes EXCEPT !.forward = @ + 1, !.backward = @ + 1]

TrainStep ==
  /\ pc = "step" /\ step < NumSteps
  /\ IF args.replay # "off" /\ routes.forward >= Len(routes.list)
     THEN pc' = "died" /\ fault' = "no routes to replay" /\ UNCHANGED <<m, skips, routes>>
     ELSE /\ routes' = TakesRoutes
          /\ \/ LET new == <<"actor", m.main[2] + 1>>
                IN  m' = [m EXCEPT !.main = new, !.gpu = new] /\ UNCHANGED skips
             \/ skips < MaxSkips /\ skips' = skips + 1 /\ UNCHANGED m
          /\ UNCHANGED <<pc, fault>>
  /\ step' = step + 1
  /\ UNCHANGED <<args, rid, epoch, asleep, groups, logp, critic, served, used, saved>>

\* Mutant: the backup of the actor is left as it was.
EndTrainNoBackup ==
  /\ pc = "step" /\ step = NumSteps /\ epoch + 1 = args.epochs
  /\ pc' = "critic" /\ epoch' = epoch /\ step' = step
  /\ routes' = IF args.replay = "off" THEN routes ELSE ClearRoutes
  /\ UNCHANGED <<args, rid, m, asleep, groups, logp, critic, served, used, saved, fault, skips>>
\* After the last step: another epoch over the same samples, or the new weights
\* to the backup, and to that of the reference model when its interval is up.
EndTrain ==
  /\ pc = "step" /\ step = NumSteps
  /\ IF epoch + 1 < args.epochs
     THEN /\ epoch' = epoch + 1 /\ step' = 0
          /\ pc' = IF args.advantages THEN "ref" ELSE "step"
          /\ UNCHANGED <<m, routes>>
     ELSE /\ LET x == Backup(m, "actor")
             IN  m' = IF args.refInterval > 0 /\ "ref" \in DOMAIN m.tags
                         /\ (rid + 1) % args.refInterval = 0 THEN Backup(x, "ref") ELSE x
          /\ routes' = IF args.replay = "off" THEN routes ELSE ClearRoutes
          /\ pc' = "critic" /\ UNCHANGED <<epoch, step>>
  /\ UNCHANGED <<args, rid, asleep, groups, logp, critic, served, used, saved, fault, skips>>

\* The driver waits for the critic, saves, and offloads what was awake.
AwaitCritic ==
  /\ pc = "critic" /\ critic \in {"off", "trained"}
  /\ pc' = "saving"
  /\ UNCHANGED <<args, rid, epoch, step, m, asleep, groups, routes, logp, critic, served, used, saved, fault, skips>>

\* save_model: the groups are made again for it, and destroyed after it.
SaveModel ==
  /\ pc = "saving"
  /\ IF ~TrainsActor THEN pc' = "offload" /\ UNCHANGED <<saved, groups, fault>>
     ELSE IF asleep THEN pc' = "died" /\ fault' = "save of GPU memory that is paused" /\ UNCHANGED <<saved, groups>>
     ELSE saved' = m.gpu /\ groups' = ~args.offload /\ pc' = "offload" /\ UNCHANGED fault
  /\ UNCHANGED <<args, rid, epoch, step, m, asleep, routes, logp, critic, served, used, skips>>

Offload ==
  /\ pc = "offload"
  /\ asleep' = (args.offload /\ (TrainsActor \/ asleep))
  /\ groups' = (groups /\ ~(args.offload /\ TrainsActor))
  /\ critic' = IF critic = "off" THEN "off" ELSE IF args.offload THEN "asleep" ELSE "awake"
  /\ rid' = rid + 1 /\ pc' = "update"
  /\ UNCHANGED <<args, epoch, step, m, routes, logp, served, used, saved, fault, skips>>

-----------------------------------------------------------------------------
TrainerInit ==
  /\ args \in Configurations
  /\ pc = "init" /\ rid = 0 /\ epoch = 0 /\ step = 0
  /\ m = [gpu |-> Nothing, main |-> Nothing, tags |-> << >>, active |-> "actor"]
  /\ asleep = FALSE /\ groups = TRUE
  /\ routes = [list |-> << >>, forward |-> 0, backward |-> 0] /\ logp = NoLogp
  /\ critic = "off" /\ served = Nothing /\ used = Nothing /\ saved = Nothing
  /\ fault = "none" /\ skips = 0

TrainActor == StartTrain \/ RefLogProbs \/ TeacherLogProbs \/ OwnLogProbs \/ Sync
              \/ SkipRollout \/ Advantages \/ TrainStep \/ EndTrain
TrainCritic == CriticWakes \/ CriticTrains
Driver == Initialise \/ UpdateWeights \/ Generate \/ AwaitCritic \/ SaveModel \/ Offload
TrainerNext == Driver \/ TrainActor \/ TrainCritic

\* Every action is a step of a process that nothing but the rendezvous blocks.
TrainerFair == WF_trainerVars(Driver) /\ WF_trainerVars(TrainActor) /\ WF_trainerVars(TrainCritic)
TrainerSpec == TrainerInit /\ [][TrainerNext]_trainerVars /\ TrainerFair

-----------------------------------------------------------------------------
(* The command lines that the code can serve.  slime_validate_args refuses     *)
(* none of the others; what happens with them is in README.md.                 *)
Supported(a) ==
  /\ a.offload => a.colocate          \* UpdateWeightFromDistributed reads the GPU model
  /\ a.keepOld => ~a.offload          \* and so does backup() after a push
  /\ (a.ref \/ a.teacher \/ a.keepOld) => a.backuper
  /\ a.critic => a.advantages /\ a.epochs = 1
  /\ a.epochs > 1 => a.rolloutLogprobs /\ a.replay = "off"
  /\ a.epochs > 1 /\ a.advantages => a.backuper   \* restore asserts a checksum in every epoch
  /\ a.replay = "record" => a.advantages /\ ~a.rolloutLogprobs
  /\ ~a.advantages => a.offload \/ ~(a.ref \/ a.teacher)
  /\ (a.ref \/ a.teacher) => a.colocate \/ a.keepOld  \* else init leaves that model on the GPU,
                                                      \* and the first push serves it

\* _switch_model at the start of a second epoch copies the backup of before the
\* first one over the GPU model: see EpochsContinue.
OneEpoch == args.epochs = 1 \/ skips = 0

\* train.py pushes so that the engines generate with the weights of the last
\* optimizer step, dropped or not, whatever model the step left on the GPU, and
\* the checkpoint holds that actor, whatever was swapped in for log-probs.
ServesTrained ==
  Supported(args) /\ OneEpoch =>
    /\ pc = "generate" => served = m.main
    /\ pc = "offload" /\ TrainsActor => saved = m.main

\* A step replays the routes of its own rollout, one entry per step that is left.
ReplaysThisRollout ==
  pc = "step" /\ args.replay # "off" /\ Supported(args) =>
    SubSeq(routes.list, routes.forward + 1, Len(routes.list)) = [i \in 1 .. NumSteps - step |-> rid]

\* A step computes its gradients at the weights of the step before it and no
\* other, with the log-probs of the weights that generated its samples and of the
\* reference that was loaded.  The queue of --update-weights-interval 1 gives an
\* older actor: in train.py it is one rollout late.  And it replays the routes of
\* its own rollout.
TrainsTheActor ==
  ReplaysThisRollout /\
  (pc = "step" /\ epoch = 0 /\ Supported(args) /\ OneEpoch =>
    /\ m.gpu = m.main
    /\ args.advantages /\ args.ref /\ args.refInterval = 0 => logp.ref = <<"ref", 0>>
    /\ args.advantages /\ ~args.rolloutLogprobs /\ ~(args.keepOld /\ args.interval1)
         => logp.own = used)

\* Driver, actor and critic never wait for each other for ever, and no call
\* reads memory that is paused or a tag or a route that is not there.
TrainerEnds == Supported(args) => <>(pc = "done")

\* "Number of PPO optimization epochs over the same rollout data"
\* (arguments.py:877): the gradients of an epoch are taken at the weights that
\* the epoch before it has left.
EpochsContinue == pc = "step" => m.gpu = m.main
=============================================================================
