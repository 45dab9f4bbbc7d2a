---------------------------- MODULE TrainingProofs ----------------------------
(* Proofs about the training of a rollout, for any command line, number of     *)
(* rollouts, of steps and of dropped ones: whose weights are read and trained; *)
(* about the groups of its ranks, for any layout and number of rollouts; and   *)
(* about the gradient of a step, for any schedule of its micro-batches.        *)
EXTENDS TrainerActor, ProcessGroups, GradientStep, DataTheorems

-----------------------------------------------------------------------------
(* The models of an actor.                                                     *)

\* The backups that a command line asks for.
Kept ==
  {t \in Tag : /\ t = "ref" => args.ref
               /\ t = "teacher" => args.teacher
               /\ t \in {"old_actor", "rollout_actor"} => args.keepOld
               /\ t = "rollout_actor" => args.interval1}

\* A record of m, with backups for the tags T.
ModelFields == {"gpu", "main", "tags", "active"}
Holds(x, T) ==
  /\ DOMAIN x = ModelFields /\ x = [f \in ModelFields |-> x[f]]
  /\ DOMAIN x.tags = T /\ x.tags = [t \in T |-> x.tags[t]]

Outside == {"update", "generate", "train", "critic", "saving", "offload"}
Before == {"ref", "teacher", "own", "sync", "advantages"}   \* the steps of a train()

TrainerTypeOK ==
  /\ args \in Configurations /\ pc \in Outside \cup Before \cup {"init", "step", "done", "died"}
  /\ epoch \in Nat /\ epoch < args.epochs /\ step \in 0 .. NumSteps /\ skips \in Nat
  /\ pc \in Before \cup {"train"} => step = 0
  /\ pc = "train" => epoch = 0
  /\ pc \notin {"init", "died"} => Holds(m, Kept)
  /\ routes = [list |-> routes.list, forward |-> routes.forward, backward |-> routes.backward]
  /\ logp = [ref |-> logp.ref, teacher |-> logp.teacher, own |-> logp.own]

\* Outside of train() the backup of the actor is the trained model, and so is the
\* GPU wherever it is read: by a push, a save, a step without log-probs or a backup
\* of the old actor.  Within it, whatever was swapped in, the actor comes back.
WeightsFit ==
  /\ pc \in Outside =>
       /\ m.tags["actor"] = m.main
       /\ (\/ pc \in {"critic", "saving", "offload"} /\ TrainsActor
           \/ ~args.colocate \/ ~args.advantages \/ args.keepOld)
          => m.gpu = m.main
  /\ pc = "generate" => served = m.main
  /\ pc = "offload" /\ TrainsActor => saved = m.main
  /\ pc \in Before /\ epoch = 0 => m.tags["actor"] = m.main
  /\ pc \in {"sync", "advantages"} /\ epoch = 0 /\ m.active = "actor" => m.gpu = m.main
  /\ pc = "step" /\ (epoch = 0 \/ step > 0) => m.gpu = m.main

\* Until its own log-probs are taken, the weights that generated the samples are
\* those of the actor and, without a queue, of the old actor.
LogpsFit ==
  /\ args.ref /\ args.refInterval = 0 =>
       /\ pc \notin {"init", "died"} => m.tags["ref"] = <<"ref", 0>>
       /\ args.advantages /\ pc \in (Before \ {"ref"}) \cup {"step"} => logp.ref = <<"ref", 0>>
  /\ pc \in {"train", "ref", "teacher", "own"} /\ epoch = 0 => used = m.main
  /\ args.keepOld /\ ~args.interval1 /\ (pc = "generate" \/ (pc \in {"train", "ref", "teacher", "own"} /\ epoch = 0))
       => m.tags["old_actor"] = m.main
  /\ args.advantages /\ ~args.rolloutLogprobs /\ ~(args.keepOld /\ args.interval1)
     /\ pc \in {"sync", "advantages", "step"} /\ epoch = 0
       => logp.own = used

\* The routes of a rollout are there from the pass that leaves them to the last step.
RoutesFit ==
  /\ pc \in Outside \cup {"init"} => routes.list = << >> /\ routes.forward = 0
  /\ pc \in {"ref", "teacher", "own"} =>
       routes.forward = 0 /\ routes.list = (IF args.replay = "rollout" THEN Routes ELSE << >>)
  /\ pc \in {"sync", "advantages"} => routes.forward = 0 /\ routes.list = Routes
  /\ pc = "step" => routes.forward = step /\ routes.list = Routes

TrainerInv ==
  /\ TrainerTypeOK
  /\ Supported(args) /\ OneEpoch => WeightsFit /\ LogpsFit
  /\ Supported(args) /\ args.replay # "off" => RoutesFit

-----------------------------------------------------------------------------
(* What the operations on the models do.                                       *)

LEMMA SwitchDoes ==
  ASSUME NEW T, NEW x, Holds(x, T), NEW tag \in T
  PROVE  /\ Holds(Switch(x, tag), T)
         /\ Switch(x, tag).gpu = x.tags[tag] /\ Switch(x, tag).main = x.main
         /\ Switch(x, tag).tags = x.tags /\ Switch(x, tag).active = tag
  BY DEF Holds, Switch, ModelFields

LEMMA BackupHolds ==
  ASSUME NEW T, NEW x, Holds(x, T), NEW tag
  PROVE  Holds(Backup(x, tag), T \cup {tag})
  BY DEF Holds, Backup, ModelFields

LEMMA BackupDoes ==
  ASSUME NEW T, NEW x, Holds(x, T), NEW tag
  PROVE  /\ Backup(x, tag).gpu = x.gpu /\ Backup(x, tag).main = x.main /\ Backup(x, tag).active = x.active
         /\ Backup(x, tag).tags[tag] = x.gpu
         /\ \A t \in T \ {tag} : Backup(x, tag).tags[t] = x.tags[t]
  BY DEF Holds, Backup, ModelFields

LEMMA CopyDoes ==
  ASSUME NEW T, NEW x, Holds(x, T), NEW src \in T, NEW dst \in T
  PROVE  /\ Holds(Copy(x, src, dst), T)
         /\ Copy(x, src, dst).gpu = x.gpu /\ Copy(x, src, dst).main = x.main
         /\ Copy(x, src, dst).active = x.active
         /\ Copy(x, src, dst).tags[dst] = x.tags[src]
         /\ \A t \in T \ {dst} : Copy(x, src, dst).tags[t] = x.tags[t]
  BY DEF Holds, Copy, ModelFields

LEMMA LoadOtherHolds ==
  ASSUME NEW T, NEW x, Holds(x, T), NEW tag, NEW w
  PROVE  Holds(LoadOther(x, tag, w), T \cup {tag})
  <1> DEFINE y == [x EXCEPT !.gpu = w]
             z == Backup(y, tag)
  <1>1. Holds(y, T)
    BY DEF Holds, ModelFields
  <1>2. LoadOther(x, tag, w) = [z EXCEPT !.active = tag]
    BY DEF LoadOther
  <1> HIDE DEF y
  <1>3. Holds(z, T \cup {tag})
    BY <1>1, BackupHolds
  <1> HIDE DEF z
  <1> QED
    BY <1>2, <1>3 DEF Holds, ModelFields

LEMMA LoadOtherDoes ==
  ASSUME NEW T, NEW x, Holds(x, T), NEW tag, NEW w
  PROVE  /\ LoadOther(x, tag, w).gpu = w /\ LoadOther(x, tag, w).main = x.main
         /\ LoadOther(x, tag, w).tags[tag] = w
         /\ \A t \in T \ {tag} : LoadOther(x, tag, w).tags[t] = x.tags[t]
  <1> DEFINE y == [x EXCEPT !.gpu = w]
             z == Backup(y, tag)
  <1>1. Holds(y, T) /\ y.gpu = w /\ y.main = x.main /\ y.tags = x.tags
    BY DEF Holds, ModelFields
  <1>2. LoadOther(x, tag, w) = [z EXCEPT !.active = tag]
    BY DEF LoadOther
  <1> HIDE DEF y
  <1>3. Holds(z, T \cup {tag})
    BY <1>1, BackupHolds
  <1>4. /\ z.gpu = w /\ z.main = x.main /\ z.tags[tag] = w
        /\ \A t \in T \ {tag} : z.tags[t] = x.tags[t]
    BY <1>1, BackupDoes
  <1> HIDE DEF z
  <1> QED
    BY <1>2, <1>3, <1>4 DEF Holds, ModelFields

\* The models an actor begins with.
LEMMA ModelsAre ==
  ASSUME args \in Configurations
  PROVE  /\ Holds(Models, Kept)
         /\ Models.main = Actor0 /\ Models.tags["actor"] = Actor0
         /\ args.ref => Models.tags["ref"] = <<"ref", 0>>
         /\ args.keepOld => Models.tags["old_actor"] = Actor0
         /\ args.offload \/ args.keepOld \/ ~(args.ref \/ args.teacher) => Models.gpu = Actor0
  <1> DEFINE first   == [gpu |-> Actor0, main |-> Actor0, tags |-> << >>, active |-> "actor"]
             own     == Backup(first, "actor")
             ref     == IF args.ref THEN LoadOther(own, "ref", <<"ref", 0>>) ELSE own
             teacher == IF args.teacher THEN LoadOther(ref, "teacher", <<"teacher", 0>>) ELSE ref
             old     == IF args.keepOld THEN LoadOther(teacher, "old_actor", Actor0) ELSE teacher
             queue   == IF args.keepOld /\ args.interval1 THEN Backup(old, "rollout_actor") ELSE old
             RefTag  == IF args.ref THEN {"ref"} ELSE {}
             TeacherTag == IF args.teacher THEN {"teacher"} ELSE {}
             OldTag  == IF args.keepOld THEN {"old_actor"} ELSE {}
             QueueTag == IF args.keepOld /\ args.interval1 THEN {"rollout_actor"} ELSE {}
  <1>0. Models = IF args.offload THEN Switch(queue, "actor") ELSE queue
    BY DEF Models
  <1>1. Holds(first, {}) /\ first.gpu = Actor0 /\ first.main = Actor0
    <2>1. DOMAIN first.tags = {} /\ first.tags = [t \in {} |-> first.tags[t]]
      OBVIOUS
    <2> QED
      BY <2>1 DEF Holds, ModelFields
  <1> HIDE DEF first
  <1>2. /\ Holds(own, {"actor"}) /\ own.gpu = Actor0 /\ own.main = Actor0
        /\ own.tags["actor"] = Actor0
    <2>1. {} \cup {"actor"} = {"actor"}
      OBVIOUS
    <2> QED
      BY <1>1, <2>1, BackupHolds, BackupDoes
  <1> HIDE DEF own
  <1>3. /\ Holds(ref, {"actor"} \cup RefTag) /\ ref.main = Actor0 /\ ref.tags["actor"] = Actor0
        /\ args.ref => ref.tags["ref"] = <<"ref", 0>>
        /\ ~args.ref => ref.gpu = Actor0
    <2>1. CASE args.ref
      <3>1. ref = LoadOther(own, "ref", <<"ref", 0>>) /\ RefTag = {"ref"}
        BY <2>1
      <3>2. Holds(LoadOther(own, "ref", <<"ref", 0>>), {"actor"} \cup {"ref"})
        BY <1>2, LoadOtherHolds
      <3>3. /\ LoadOther(own, "ref", <<"ref", 0>>).gpu = <<"ref", 0>>
            /\ LoadOther(own, "ref", <<"ref", 0>>).main = own.main /\ LoadOther(own, "ref", <<"ref", 0>>).tags["ref"] = <<"ref", 0>>
            /\ \A t \in {"actor"} \ {"ref"} : LoadOther(own, "ref", <<"ref", 0>>).tags[t] = own.tags[t]
        BY <1>2, LoadOtherDoes
      <3> QED
        BY <2>1, <1>2, <3>1, <3>2, <3>3
    <2>2. CASE ~args.ref
      BY <1>2, <2>2
    <2> QED
      BY <2>1, <2>2
  <1> DEFINE T3 == {"actor"} \cup RefTag
  <1>4. "actor" \in T3 /\ (args.ref => "ref" \in T3) /\ Holds(ref, T3) /\ T3 \subseteq {"actor", "ref"}
    BY <1>3
  <1> HIDE DEF ref, T3
  <1>5. /\ Holds(teacher, T3 \cup TeacherTag) /\ teacher.main = Actor0 /\ teacher.tags["actor"] = Actor0
        /\ args.ref => teacher.tags["ref"] = <<"ref", 0>>
        /\ ~args.ref /\ ~args.teacher => teacher.gpu = Actor0
    <2>1. CASE args.teacher
      <3>1. teacher = LoadOther(ref, "teacher", <<"teacher", 0>>) /\ TeacherTag = {"teacher"}
        BY <2>1
      <3>2. Holds(LoadOther(ref, "teacher", <<"teacher", 0>>), T3 \cup {"teacher"})
        BY <1>3, <1>4, LoadOtherHolds
      <3>3. /\ LoadOther(ref, "teacher", <<"teacher", 0>>).gpu = <<"teacher", 0>>
            /\ LoadOther(ref, "teacher", <<"teacher", 0>>).main = ref.main /\ LoadOther(ref, "teacher", <<"teacher", 0>>).tags["teacher"] = <<"teacher", 0>>
            /\ \A t \in T3 \ {"teacher"} : LoadOther(ref, "teacher", <<"teacher", 0>>).tags[t] = ref.tags[t]
        BY <1>3, <1>4, LoadOtherDoes
      <3> QED
        BY <2>1, <1>3, <1>4, <3>1, <3>2, <3>3
    <2>2. CASE ~args.teacher
      BY <1>3, <1>4, <2>2
    <2> QED
      BY <2>1, <2>2
  <1> DEFINE T5 == T3 \cup TeacherTag
  <1>6. /\ "actor" \in T5 /\ (args.ref => "ref" \in T5) /\ Holds(teacher, T5)
        /\ "old_actor" \notin T5 /\ "rollout_actor" \notin T5
    BY <1>4, <1>5
  <1> HIDE DEF teacher, T5
  <1>7. /\ Holds(old, T5 \cup OldTag) /\ old.main = Actor0 /\ old.tags["actor"] = Actor0
        /\ args.ref => old.tags["ref"] = <<"ref", 0>>
        /\ args.keepOld => old.gpu = Actor0 /\ old.tags["old_actor"] = Actor0
        /\ ~args.ref /\ ~args.teacher => old.gpu = Actor0
    <2>1. CASE args.keepOld
      <3>1. old = LoadOther(teacher, "old_actor", Actor0) /\ OldTag = {"old_actor"}
        BY <2>1
      <3>2. Holds(LoadOther(teacher, "old_actor", Actor0), T5 \cup {"old_actor"})
        BY <1>5, <1>6, LoadOtherHolds
      <3>3. /\ LoadOther(teacher, "old_actor", Actor0).gpu = Actor0
            /\ LoadOther(teacher, "old_actor", Actor0).main = teacher.main /\ LoadOther(teacher, "old_actor", Actor0).tags["old_actor"] = Actor0
            /\ \A t \in T5 \ {"old_actor"} : LoadOther(teacher, "old_actor", Actor0).tags[t] = teacher.tags[t]
        BY <1>5, <1>6, LoadOtherDoes
      <3> QED
        BY <2>1, <1>5, <1>6, <3>1, <3>2, <3>3
    <2>2. CASE ~args.keepOld
      BY <1>5, <1>6, <2>2
    <2> QED
      BY <2>1, <2>2
  <1> DEFINE T7 == T5 \cup OldTag
  <1>8. /\ "actor" \in T7 /\ (args.ref => "ref" \in T7) /\ (args.keepOld => "old_actor" \in T7)
        /\ Holds(old, T7) /\ "rollout_actor" \notin T7
    BY <1>6, <1>7
  <1> HIDE DEF old, T7
  <1>9. /\ Holds(queue, T7 \cup QueueTag) /\ queue.main = Actor0 /\ queue.tags["actor"] = Actor0
        /\ args.ref => queue.tags["ref"] = <<"ref", 0>>
        /\ args.keepOld => queue.gpu = Actor0 /\ queue.tags["old_actor"] = Actor0
        /\ ~args.ref /\ ~args.teacher => queue.gpu = Actor0
    <2>1. CASE args.keepOld /\ args.interval1
      <3>1. queue = Backup(old, "rollout_actor") /\ QueueTag = {"rollout_actor"}
        BY <2>1
      <3>2. Holds(Backup(old, "rollout_actor"), T7 \cup {"rollout_actor"})
        BY <1>8, BackupHolds
      <3>3. /\ Backup(old, "rollout_actor").gpu = old.gpu /\ Backup(old, "rollout_actor").main = old.main
            /\ \A t \in T7 \ {"rollout_actor"} : Backup(old, "rollout_actor").tags[t] = old.tags[t]
        BY <1>8, BackupDoes
      <3> QED
        BY <1>7, <1>8, <2>1, <3>1, <3>2, <3>3
    <2>2. CASE ~(args.keepOld /\ args.interval1)
      BY <1>7, <1>8, <2>2
    <2> QED
      BY <2>1, <2>2
  <1>10. T7 \cup QueueTag = Kept
    BY TrainerAssumption DEF T7, T5, T3, Kept, Tag
  <1> HIDE DEF queue
  <1>11. Holds(queue, Kept) /\ "actor" \in Kept
    BY <1>9, <1>10 DEF Kept, Tag
  <1>12. CASE args.offload
    <2>1. Models = Switch(queue, "actor")
      BY <1>0, <1>12
    <2> QED
      BY <1>9, <1>11, <2>1, SwitchDoes
  <1>13. CASE ~args.offload
    <2>1. Models = queue
      BY <1>0, <1>13
    <2> QED
      BY <1>9, <1>11, <1>13, <2>1
  <1> QED
    BY <1>12, <1>13

\* A backup for a tag that is there.
LEMMA BackupKeeps ==
  ASSUME NEW T, NEW x, Holds(x, T), NEW tag \in T
  PROVE  Holds(Backup(x, tag), T)
  <1>1. T \cup {tag} = T
    OBVIOUS
  <1> QED
    BY <1>1, BackupHolds

\* After a push the old actor is what was pushed, or one behind.
LEMMA QueueDoes ==
  ASSUME args \in Configurations, Holds(m, Kept)
  PROVE  /\ Holds(Queue(m), Kept) /\ Queue(m).gpu = m.gpu /\ Queue(m).main = m.main
         /\ Queue(m).tags["actor"] = m.tags["actor"]
         /\ args.ref => Queue(m).tags["ref"] = m.tags["ref"]
         /\ args.keepOld /\ ~args.interval1 => Queue(m).tags["old_actor"] = m.gpu
  <1>0. "actor" \in Kept /\ (args.ref => "ref" \in Kept)
    BY DEF Kept, Tag
  <1>1. CASE ~args.keepOld
    BY <1>1 DEF Queue
  <1>2. CASE args.keepOld /\ args.interval1
    <2> DEFINE x == Copy(m, "rollout_actor", "old_actor")
    <2>1. Queue(m) = Backup(x, "rollout_actor")
      BY <1>2 DEF Queue
    <2>2. "rollout_actor" \in Kept /\ "old_actor" \in Kept
      BY <1>2 DEF Kept, Tag
    <2>3. /\ Holds(x, Kept) /\ x.gpu = m.gpu /\ x.main = m.main
          /\ \A t \in Kept \ {"old_actor"} : x.tags[t] = m.tags[t]
      BY <2>2, CopyDoes
    <2> HIDE DEF x
    <2>4. Holds(Backup(x, "rollout_actor"), Kept)
      BY <2>2, <2>3, BackupKeeps
    <2>5. /\ Backup(x, "rollout_actor").gpu = x.gpu /\ Backup(x, "rollout_actor").main = x.main
          /\ \A t \in Kept \ {"rollout_actor"} : Backup(x, "rollout_actor").tags[t] = x.tags[t]
      BY <2>3, BackupDoes
    <2> QED
      BY <1>0, <1>2, <2>1, <2>3, <2>4, <2>5
  <1>3. CASE args.keepOld /\ ~args.interval1
    <2>1. Queue(m) = Backup(m, "old_actor")
      BY <1>3 DEF Queue
    <2>2. "old_actor" \in Kept
      BY <1>3 DEF Kept, Tag
    <2>3. Holds(Backup(m, "old_actor"), Kept)
      BY <2>2, BackupKeeps
    <2>4. /\ Backup(m, "old_actor").gpu = m.gpu /\ Backup(m, "old_actor").main = m.main
          /\ Backup(m, "old_actor").tags["old_actor"] = m.gpu
          /\ \A t \in Kept \ {"old_actor"} : Backup(m, "old_actor").tags[t] = m.tags[t]
      BY BackupDoes
    <2> QED
      BY <1>0, <2>1, <2>3, <2>4
  <1> QED
    BY <1>1, <1>2, <1>3

-----------------------------------------------------------------------------
(* The steps.                                                                  *)

LEMMA TrainerStarts ==
  TrainerInit => TrainerInv
  <1> SUFFICES ASSUME TrainerInit PROVE TrainerInv
    OBVIOUS
  <1>1. TrainerTypeOK
    <2>1. 0 < args.epochs
      BY TrainerAssumption DEF TrainerInit
    <2>2. 0 \in 0 .. NumSteps
      BY TrainerAssumption
    <2> QED
      BY <2>1, <2>2, TrainerAssumption DEF TrainerInit, TrainerTypeOK, Before, Outside, NoLogp
  <1>2. WeightsFit /\ LogpsFit /\ RoutesFit
    BY DEF TrainerInit, WeightsFit, LogpsFit, RoutesFit, Before, Outside
  <1> QED
    BY <1>1, <1>2 DEF TrainerInv

\* Dropped rollouts and steps are only counted up: what is known with none
\* dropped, or one epoch, was known before.
LEMMA Conclude ==
  ASSUME TrainerInv, TrainerTypeOK', args' = args, skips' >= skips,
         Supported(args) /\ OneEpoch /\ OneEpoch' /\ WeightsFit /\ LogpsFit => WeightsFit' /\ LogpsFit',
         Supported(args) /\ args.replay # "off" /\ RoutesFit => RoutesFit'
  PROVE  TrainerInv'
  <1>1. Supported(args') = Supported(args)
    OBVIOUS
  <1>2. OneEpoch' => OneEpoch
    BY DEF OneEpoch, TrainerInv, TrainerTypeOK
  <1> QED
    BY <1>1, <1>2 DEF TrainerInv

LEMMA KeptAre ==
  ASSUME args \in Configurations
  PROVE  /\ "actor" \in Kept /\ (args.ref => "ref" \in Kept) /\ (args.keepOld => "old_actor" \in Kept)
         /\ Kept \subseteq Tag /\ ("ref" \in Kept => args.ref)
         /\ args.epochs \in Nat \ {0}
  BY TrainerAssumption DEF Kept, Tag

LEMMA InitialiseKeeps ==
  TrainerInv /\ Initialise => TrainerInv'
  <1> SUFFICES ASSUME TrainerInv, Initialise PROVE TrainerInv'
    OBVIOUS
  <1>0. /\ TrainerTypeOK /\ args \in Configurations
        /\ UNCHANGED <<args, rid, epoch, step, routes, logp, served, used, saved, skips>>
        /\ pc = "init" /\ skips \in Nat
    BY DEF TrainerInv, TrainerTypeOK, Initialise
  <1>1. Kept' = Kept
    BY <1>0 DEF Kept
  <1>2. CASE args.backuper \/ ~(args.ref \/ args.teacher \/ args.keepOld)
    <2>1. m' = Models /\ pc' = "update"
      BY <1>2 DEF Initialise
    <2>2. /\ Holds(m', Kept) /\ m'.main = Actor0 /\ m'.tags["actor"] = Actor0
          /\ args.ref => m'.tags["ref"] = <<"ref", 0>>
          /\ args.offload \/ args.keepOld \/ ~(args.ref \/ args.teacher) => m'.gpu = Actor0
      BY <1>0, <2>1, ModelsAre
    <2>3. TrainerTypeOK'
      BY <1>0, <1>1, <2>1, <2>2 DEF TrainerTypeOK, Outside, Before
    <2>4. Supported(args) => WeightsFit' /\ LogpsFit'
      BY <1>0, <2>1, <2>2 DEF Supported, WeightsFit, LogpsFit, Outside, Before
    <2>5. RoutesFit => RoutesFit'
      BY <1>0, <2>1 DEF RoutesFit, Outside
    <2> QED
      BY <1>0, <2>3, <2>4, <2>5, Conclude
  <1>3. CASE ~(args.backuper \/ ~(args.ref \/ args.teacher \/ args.keepOld))
    <2>1. pc' = "died"
      BY <1>3 DEF Initialise
    <2>2. TrainerTypeOK' /\ WeightsFit' /\ LogpsFit' /\ RoutesFit'
      BY <1>0, <2>1 DEF TrainerTypeOK, WeightsFit, LogpsFit, RoutesFit, Outside, Before
    <2> QED
      BY <1>0, <2>2, Conclude
  <1> QED
    BY <1>2, <1>3

LEMMA UpdateWeightsKeeps ==
  TrainerInv /\ UpdateWeights => TrainerInv'
  <1> SUFFICES ASSUME TrainerInv, UpdateWeights PROVE TrainerInv'
    OBVIOUS
  <1>0. /\ TrainerTypeOK /\ args \in Configurations /\ skips \in Nat /\ args' = args
        /\ args.epochs \in Nat \ {0}
    BY KeptAre DEF TrainerInv, TrainerTypeOK, UpdateWeights
  <1>1. Kept' = Kept
    BY <1>0 DEF Kept
  <1>2. CASE asleep /\ ReadsGpu
    <2>1. pc' = "died" /\ UNCHANGED <<rid, epoch, step, m, routes, logp, used, saved, skips>>
      BY <1>2 DEF UpdateWeights
    <2>2. TrainerTypeOK' /\ WeightsFit' /\ LogpsFit' /\ RoutesFit'
      BY <1>0, <2>1 DEF TrainerTypeOK, WeightsFit, LogpsFit, RoutesFit, Outside, Before
    <2> QED
      BY <1>0, <2>1, <2>2, Conclude
  <1>4. CASE ~(asleep /\ ReadsGpu) /\ args.colocate /\ ~Intact(m, "actor")
    <2>1. pc' = "died" /\ UNCHANGED <<rid, epoch, step, m, routes, logp, used, saved, skips>>
      BY <1>4 DEF UpdateWeights
    <2>2. TrainerTypeOK' /\ WeightsFit' /\ LogpsFit' /\ RoutesFit'
      BY <1>0, <2>1 DEF TrainerTypeOK, WeightsFit, LogpsFit, RoutesFit, Outside, Before
    <2> QED
      BY <1>0, <2>1, <2>2, Conclude
  <1>3. CASE ~(asleep /\ ReadsGpu) /\ ~(args.colocate /\ ~Intact(m, "actor"))
    <2>1. /\ pc = "update" /\ pc' \in {"done", "generate"} /\ m' = Queue(m)
          /\ served' = (IF args.colocate THEN m.tags["actor"] ELSE m.gpu)
          /\ UNCHANGED <<rid, epoch, step, routes, logp, used, saved, skips>>
      BY <1>3 DEF UpdateWeights
    <2>2. Holds(m, Kept)
      BY <1>0, <2>1 DEF TrainerTypeOK
    <2>3. /\ Holds(m', Kept) /\ m'.gpu = m.gpu /\ m'.main = m.main
          /\ m'.tags["actor"] = m.tags["actor"]
          /\ args.ref => m'.tags["ref"] = m.tags["ref"]
          /\ args.keepOld /\ ~args.interval1 => m'.tags["old_actor"] = m.gpu
      BY <1>0, <2>1, <2>2, QueueDoes
    <2>4. TrainerTypeOK'
      BY <1>0, <1>1, <2>1, <2>3 DEF TrainerTypeOK, Outside, Before
    <2>5. WeightsFit => WeightsFit'
      BY <1>0, <2>1, <2>3 DEF WeightsFit, Outside, Before
    <2>6. WeightsFit /\ LogpsFit => LogpsFit'
      BY <1>0, <2>1, <2>3 DEF WeightsFit, LogpsFit, Outside, Before
    <2>7. RoutesFit => RoutesFit'
      BY <1>0, <2>1 DEF RoutesFit, Outside
    <2> QED
      BY <1>0, <2>1, <2>4, <2>5, <2>6, <2>7, Conclude
  <1> QED
    BY <1>2, <1>3, <1>4

LEMMA GenerateKeeps ==
  TrainerInv /\ Generate => TrainerInv'
  <1> SUFFICES ASSUME TrainerInv, Generate PROVE TrainerInv'
    OBVIOUS
  <1>0. /\ TrainerTypeOK /\ args \in Configurations /\ skips \in Nat /\ args' = args
        /\ args.epochs \in Nat \ {0}
    BY KeptAre DEF TrainerInv, TrainerTypeOK, Generate
  <1>1. Kept' = Kept
    BY <1>0 DEF Kept
  <1>2. /\ pc = "generate" /\ pc' = (IF TrainsActor THEN "train" ELSE "critic")
        /\ used' = served /\ logp' = NoLogp /\ epoch' = 0 /\ step' = 0
        /\ UNCHANGED <<rid, m, routes, served, saved, skips>>
    BY DEF Generate
  <1>3. TrainsActor' = TrainsActor
    BY <1>0, <1>2 DEF TrainsActor
  <1>4. TrainerTypeOK'
    <2>1. 0 \in 0 .. NumSteps
      BY TrainerAssumption
    <2> QED
      BY <1>0, <1>1, <1>2, <2>1 DEF TrainerTypeOK, Outside, Before, NoLogp
  <1>5. WeightsFit => WeightsFit'
    BY <1>0, <1>2, <1>3 DEF WeightsFit, Outside, Before
  <1>6. WeightsFit /\ LogpsFit => LogpsFit'
    BY <1>0, <1>2 DEF WeightsFit, LogpsFit, Outside, Before
  <1>7. RoutesFit => RoutesFit'
    BY <1>0, <1>2 DEF RoutesFit, Outside
  <1> QED
    BY <1>0, <1>2, <1>4, <1>5, <1>6, <1>7, Conclude

LEMMA StartTrainKeeps ==
  TrainerInv /\ StartTrain => TrainerInv'
  <1> SUFFICES ASSUME TrainerInv, StartTrain PROVE TrainerInv'
    OBVIOUS
  <1>0. /\ TrainerTypeOK /\ args \in Configurations /\ skips \in Nat /\ args' = args
        /\ args.epochs \in Nat \ {0}
    BY KeptAre DEF TrainerInv, TrainerTypeOK, StartTrain
  <1>1. Kept' = Kept
    BY <1>0 DEF Kept
  <1>2. /\ pc = "train" /\ epoch = 0
        /\ UNCHANGED <<rid, epoch, step, m, logp, served, used, saved, skips>>
    BY DEF StartTrain
  <1>3. CASE args.epochs > 1 /\ (~args.rolloutLogprobs \/ args.replay # "off" \/ args.critic)
    <2>1. pc' = "died" /\ routes' = routes
      BY <1>3 DEF StartTrain
    <2>2. TrainerTypeOK' /\ WeightsFit' /\ LogpsFit' /\ RoutesFit'
      BY <1>0, <1>2, <2>1 DEF TrainerTypeOK, WeightsFit, LogpsFit, RoutesFit, Outside, Before
    <2> QED
      BY <1>0, <1>2, <2>2, Conclude
  <1>4. CASE ~(args.epochs > 1 /\ (~args.rolloutLogprobs \/ args.replay # "off" \/ args.critic))
    <2>1. /\ routes' = (IF args.replay = "rollout" THEN [routes EXCEPT !.list = @ \o Routes] ELSE routes)
          /\ pc' = (IF args.advantages THEN "ref" ELSE "step")
      BY <1>4 DEF StartTrain
    <2>2. routes'.forward = routes.forward /\ routes'.list = (IF args.replay = "rollout" THEN routes.list \o Routes ELSE routes.list)
          /\ routes' = [list |-> routes'.list, forward |-> routes'.forward, backward |-> routes'.backward]
      BY <1>0, <2>1 DEF TrainerTypeOK
    <2>3. TrainerTypeOK'
      BY <1>0, <1>1, <1>2, <2>1, <2>2 DEF TrainerTypeOK, Outside, Before
    <2>4. Supported(args) /\ WeightsFit => WeightsFit'
      BY <1>0, <1>2, <2>1 DEF WeightsFit, Outside, Before
    <2>5. LogpsFit => LogpsFit'
      BY <1>0, <1>2, <2>1 DEF LogpsFit, Outside, Before
    <2>6. Supported(args) /\ args.replay # "off" /\ RoutesFit => RoutesFit'
      <3>1. Routes \in Seq({rid}) /\ Routes' = Routes /\ << >> \o Routes = Routes
        BY <1>2, TrainerAssumption DEF Routes
      <3> QED
        BY <1>0, <1>2, <2>1, <2>2, <3>1, TrainerAssumption DEF RoutesFit, Outside, Before, Supported, TrainerTypeOK
    <2> QED
      BY <1>0, <1>2, <2>3, <2>4, <2>5, <2>6, Conclude
  <1> QED
    BY <1>3, <1>4

\* A pass of the reference or of the teacher, if there is one.
LEMMA ForwardDoes ==
  ASSUME Holds(m, Kept), NEW tag, NEW field \in {"ref", "teacher", "own"}, NEW next, Forward(tag, field, next),
         logp = [ref |-> logp.ref, teacher |-> logp.teacher, own |-> logp.own]
  PROVE  /\ Holds(m', Kept) /\ m'.main = m.main /\ m'.tags = m.tags /\ pc' = next
         /\ tag \in Kept => logp'[field] = m.tags[tag]
         /\ \A f \in {"ref", "teacher", "own"} \ {field} : logp'[f] = logp[f]
         /\ logp' = [ref |-> logp'.ref, teacher |-> logp'.teacher, own |-> logp'.own]
         /\ UNCHANGED <<args, rid, epoch, step, routes, served, used, saved, skips>>
  <1>1. DOMAIN m.tags = Kept
    BY DEF Holds
  <1>2. CASE tag \in Kept
    <2>1. m' = Switch(m, tag) /\ logp' = [logp EXCEPT ![field] = Switch(m, tag).gpu]
      BY <1>1, <1>2 DEF Forward
    <2>2. /\ Holds(Switch(m, tag), Kept) /\ Switch(m, tag).gpu = m.tags[tag]
          /\ Switch(m, tag).main = m.main /\ Switch(m, tag).tags = m.tags
      BY <1>2, SwitchDoes
    <2> QED
      BY <2>1, <2>2 DEF Forward
  <1>3. CASE tag \notin Kept
    BY <1>1, <1>3 DEF Forward
  <1> QED
    BY <1>2, <1>3

LEMMA RefLogProbsKeeps ==
  TrainerInv /\ RefLogProbs => TrainerInv'
  <1> SUFFICES ASSUME TrainerInv, RefLogProbs PROVE TrainerInv'
    OBVIOUS
  <1>0. /\ TrainerTypeOK /\ args \in Configurations /\ skips \in Nat /\ args' = args
        /\ args.epochs \in Nat \ {0}
    BY KeptAre DEF TrainerInv, TrainerTypeOK, RefLogProbs, Forward
  <1>1. Kept' = Kept
    BY <1>0 DEF Kept
  <1>2. /\ pc = "ref" /\ Holds(m, Kept)
        /\ logp = [ref |-> logp.ref, teacher |-> logp.teacher, own |-> logp.own]
    BY <1>0 DEF RefLogProbs, TrainerTypeOK
  <1>3. /\ Holds(m', Kept) /\ m'.main = m.main /\ m'.tags = m.tags /\ pc' = "teacher"
        /\ "ref" \in Kept => logp'.ref = m.tags["ref"]
        /\ logp' = [ref |-> logp'.ref, teacher |-> logp'.teacher, own |-> logp'.own]
        /\ UNCHANGED <<args, rid, epoch, step, routes, served, used, saved, skips>>
    BY <1>2, ForwardDoes DEF RefLogProbs
  <1>4. TrainerTypeOK'
    BY <1>0, <1>1, <1>2, <1>3 DEF TrainerTypeOK, Outside, Before
  <1>5. WeightsFit => WeightsFit'
    BY <1>0, <1>2, <1>3 DEF WeightsFit, Outside, Before
  <1>6. LogpsFit => LogpsFit'
    BY <1>0, <1>2, <1>3, KeptAre DEF LogpsFit, Outside, Before
  <1>7. RoutesFit => RoutesFit'
    BY <1>0, <1>2, <1>3 DEF RoutesFit, Outside, Routes
  <1> QED
    BY <1>0, <1>3, <1>4, <1>5, <1>6, <1>7, Conclude

LEMMA TeacherLogProbsKeeps ==
  TrainerInv /\ TeacherLogProbs => TrainerInv'
  <1> SUFFICES ASSUME TrainerInv, TeacherLogProbs PROVE TrainerInv'
    OBVIOUS
  <1>0. /\ TrainerTypeOK /\ args \in Configurations /\ skips \in Nat /\ args' = args
        /\ args.epochs \in Nat \ {0}
    BY KeptAre DEF TrainerInv, TrainerTypeOK, TeacherLogProbs, Forward
  <1>1. Kept' = Kept
    BY <1>0 DEF Kept
  <1>2. /\ pc = "teacher" /\ Holds(m, Kept)
        /\ logp = [ref |-> logp.ref, teacher |-> logp.teacher, own |-> logp.own]
    BY <1>0 DEF TeacherLogProbs, TrainerTypeOK
  <1>3. /\ Holds(m', Kept) /\ m'.main = m.main /\ m'.tags = m.tags /\ pc' = "own"
        /\ logp'.ref = logp.ref
        /\ logp' = [ref |-> logp'.ref, teacher |-> logp'.teacher, own |-> logp'.own]
        /\ UNCHANGED <<args, rid, epoch, step, routes, served, used, saved, skips>>
    BY <1>2, ForwardDoes DEF TeacherLogProbs
  <1>4. TrainerTypeOK'
    BY <1>0, <1>1, <1>2, <1>3 DEF TrainerTypeOK, Outside, Before
  <1>5. WeightsFit => WeightsFit'
    BY <1>0, <1>2, <1>3 DEF WeightsFit, Outside, Before
  <1>6. LogpsFit => LogpsFit'
    BY <1>0, <1>2, <1>3, KeptAre DEF LogpsFit, Outside, Before
  <1>7. RoutesFit => RoutesFit'
    BY <1>0, <1>2, <1>3 DEF RoutesFit, Outside, Routes
  <1> QED
    BY <1>0, <1>3, <1>4, <1>5, <1>6, <1>7, Conclude

LEMMA OwnLogProbsKeeps ==
  TrainerInv /\ OwnLogProbs => TrainerInv'
  <1> SUFFICES ASSUME TrainerInv, OwnLogProbs PROVE TrainerInv'
    OBVIOUS
  <1>0. /\ TrainerTypeOK /\ args \in Configurations /\ skips \in Nat /\ args' = args
        /\ args.epochs \in Nat \ {0}
    BY KeptAre DEF TrainerInv, TrainerTypeOK, OwnLogProbs
  <1>1. Kept' = Kept
    BY <1>0 DEF Kept
  <1> DEFINE tag == OwnTag
             x == Switch(m, tag)
  <1>a. CASE ~Intact(m, tag)
    <2>1. pc' = "died" /\ UNCHANGED <<rid, epoch, step, m, routes, logp, served, used, saved, skips>>
      BY <1>a DEF OwnLogProbs
    <2>2. TrainerTypeOK' /\ WeightsFit' /\ LogpsFit' /\ RoutesFit'
      BY <1>0, <2>1 DEF TrainerTypeOK, WeightsFit, LogpsFit, RoutesFit, Outside, Before
    <2> QED
      BY <1>0, <2>1, <2>2, Conclude
  <1>b. SUFFICES ASSUME Intact(m, tag) PROVE TrainerInv'
    BY <1>a
  <1>2. /\ pc = "own" /\ Holds(m, Kept) /\ m' = x
        /\ logp' = (IF ~args.rolloutLogprobs THEN [logp EXCEPT !.own = x.gpu] ELSE logp)
        /\ routes' = (IF ~args.rolloutLogprobs /\ args.replay = "record"
                      THEN [routes EXCEPT !.list = @ \o Routes] ELSE routes)
        /\ pc' = (IF args.critic THEN "sync" ELSE "advantages")
        /\ UNCHANGED <<args, rid, epoch, step, served, used, saved, skips>>
    BY <1>0, <1>b DEF OwnLogProbs, TrainerTypeOK
  <1>3. tag \in Kept
    BY <1>0, KeptAre DEF OwnTag
  <1>4. /\ Holds(x, Kept) /\ x.gpu = m.tags[tag] /\ x.main = m.main /\ x.tags = m.tags /\ x.active = tag
    BY <1>2, <1>3, SwitchDoes
  <1> HIDE DEF x
  <1>5. /\ logp' = [ref |-> logp'.ref, teacher |-> logp'.teacher, own |-> logp'.own]
        /\ logp'.ref = logp.ref /\ (~args.rolloutLogprobs => logp'.own = x.gpu)
    BY <1>0, <1>2 DEF TrainerTypeOK
  <1>6. /\ routes' = [list |-> routes'.list, forward |-> routes'.forward, backward |-> routes'.backward]
        /\ routes'.forward = routes.forward
        /\ routes'.list = (IF ~args.rolloutLogprobs /\ args.replay = "record" THEN routes.list \o Routes ELSE routes.list)
    BY <1>0, <1>2 DEF TrainerTypeOK
  <1>7. TrainerTypeOK'
    BY <1>0, <1>1, <1>2, <1>4, <1>5, <1>6 DEF TrainerTypeOK, Outside, Before
  <1>8. WeightsFit => WeightsFit'
    BY <1>0, <1>2, <1>4 DEF WeightsFit, Outside, Before
  <1>9. Supported(args) /\ LogpsFit /\ WeightsFit => LogpsFit'
    BY <1>0, <1>2, <1>4, <1>5, KeptAre DEF LogpsFit, WeightsFit, Outside, Before, Supported, OwnTag
  <1>10. Supported(args) /\ args.replay # "off" /\ RoutesFit => RoutesFit'
    <2>1. Routes \in Seq({rid}) /\ Routes' = Routes /\ << >> \o Routes = Routes
      BY <1>2, TrainerAssumption DEF Routes
    <2> QED
      BY <1>0, <1>2, <1>6, <2>1, TrainerAssumption DEF RoutesFit, Outside, Before, Supported
  <1> QED
    BY <1>0, <1>2, <1>7, <1>8, <1>9, <1>10, Conclude

LEMMA SyncKeeps ==
  TrainerInv /\ Sync => TrainerInv'
  <1> SUFFICES ASSUME TrainerInv, Sync PROVE TrainerInv'
    OBVIOUS
  <1>0. /\ TrainerTypeOK /\ args \in Configurations /\ skips \in Nat /\ args' = args
        /\ args.epochs \in Nat \ {0}
    BY KeptAre DEF TrainerInv, TrainerTypeOK, Sync
  <1>1. Kept' = Kept
    BY <1>0 DEF Kept
  <1>2. /\ pc = "sync" /\ pc' = "advantages"
        /\ UNCHANGED <<args, rid, epoch, step, m, routes, logp, served, used, saved, skips>>
    BY DEF Sync
  <1>3. TrainerTypeOK'
    BY <1>0, <1>1, <1>2 DEF TrainerTypeOK, Outside, Before
  <1>4. /\ WeightsFit => WeightsFit'
        /\ LogpsFit => LogpsFit'
        /\ RoutesFit => RoutesFit'
    BY <1>0, <1>2 DEF WeightsFit, LogpsFit, RoutesFit, Routes, Outside, Before
  <1> QED
    BY <1>0, <1>2, <1>3, <1>4, Conclude

LEMMA SkipRolloutKeeps ==
  TrainerInv /\ SkipRollout => TrainerInv'
  <1> SUFFICES ASSUME TrainerInv, SkipRollout PROVE TrainerInv'
    OBVIOUS
  <1>0. /\ TrainerTypeOK /\ args \in Configurations /\ skips \in Nat /\ args' = args
        /\ args.epochs \in Nat \ {0}
    BY KeptAre DEF TrainerInv, TrainerTypeOK, SkipRollout
  <1>1. Kept' = Kept
    BY <1>0 DEF Kept
  <1> DEFINE x == IF m.active = "actor" THEN m ELSE Switch(m, "actor")
  <1>2. /\ pc = "advantages" /\ Holds(m, Kept) /\ m' = Backup(x, "actor") /\ skips' = skips + 1 /\ pc' = "critic"
        /\ routes' = (IF args.replay = "off" THEN routes ELSE ClearRoutes)
        /\ UNCHANGED <<args, rid, epoch, step, logp, served, used, saved>>
    BY <1>0 DEF SkipRollout, TrainerTypeOK
  <1>3. "actor" \in Kept /\ (args.ref => "ref" \in Kept)
    BY <1>0, KeptAre
  <1>4. /\ Holds(x, Kept) /\ x.main = m.main /\ x.tags = m.tags
        /\ x.gpu = (IF m.active = "actor" THEN m.gpu ELSE m.tags["actor"])
    BY <1>2, <1>3, SwitchDoes
  <1> HIDE DEF x
  <1>5. /\ Holds(m', Kept) /\ m'.gpu = x.gpu /\ m'.main = m.main /\ m'.tags["actor"] = x.gpu
        /\ \A t \in Kept \ {"actor"} : m'.tags[t] = m.tags[t]
    BY <1>2, <1>3, <1>4, BackupKeeps, BackupDoes
  <1>6. TrainerTypeOK'
    BY <1>0, <1>1, <1>2, <1>5 DEF TrainerTypeOK, Outside, Before, ClearRoutes
  <1>7. ASSUME OneEpoch' PROVE epoch = 0
    BY <1>0, <1>2, <1>7 DEF OneEpoch, TrainerTypeOK
  <1>8. OneEpoch' /\ WeightsFit => WeightsFit'
    BY <1>0, <1>2, <1>4, <1>5, <1>7 DEF WeightsFit, Outside, Before
  <1>9. LogpsFit => LogpsFit'
    BY <1>0, <1>2, <1>3, <1>5 DEF LogpsFit, Outside, Before
  <1>10. args.replay # "off" /\ RoutesFit => RoutesFit'
    BY <1>0, <1>2 DEF RoutesFit, Outside, Before, ClearRoutes
  <1> QED
    BY <1>0, <1>2, <1>6, <1>8, <1>9, <1>10, Conclude

LEMMA AdvantagesKeeps ==
  TrainerInv /\ Advantages => TrainerInv'
  <1> SUFFICES ASSUME TrainerInv, Advantages PROVE TrainerInv'
    OBVIOUS
  <1>0. /\ TrainerTypeOK /\ args \in Configurations /\ skips \in Nat /\ args' = args
        /\ args.epochs \in Nat \ {0}
    BY KeptAre DEF TrainerInv, TrainerTypeOK, Advantages
  <1>1. Kept' = Kept
    BY <1>0 DEF Kept
  <1>2. /\ pc = "advantages" /\ pc' = "step" /\ Holds(m, Kept)
        /\ m' = (IF m.active = "actor" THEN m ELSE Switch(m, "actor"))
        /\ UNCHANGED <<args, rid, epoch, step, routes, logp, served, used, saved, skips>>
    BY <1>0 DEF Advantages, TrainerTypeOK
  <1>3. "actor" \in Kept /\ (args.ref => "ref" \in Kept)
    BY <1>0, KeptAre
  <1>4. /\ Holds(m', Kept) /\ m'.main = m.main /\ m'.tags = m.tags
        /\ m'.gpu = (IF m.active = "actor" THEN m.gpu ELSE m.tags["actor"])
    BY <1>2, <1>3, SwitchDoes
  <1>5. TrainerTypeOK'
    BY <1>0, <1>1, <1>2, <1>4 DEF TrainerTypeOK, Outside, Before
  <1>6. WeightsFit => WeightsFit'
    BY <1>0, <1>2, <1>4 DEF WeightsFit, TrainerTypeOK, Outside, Before
  <1>7. LogpsFit => LogpsFit'
    BY <1>0, <1>2, <1>3, <1>4 DEF LogpsFit, Outside, Before
  <1>8. RoutesFit => RoutesFit'
    BY <1>0, <1>2 DEF RoutesFit, TrainerTypeOK, Outside, Before, Routes
  <1> QED
    BY <1>0, <1>2, <1>5, <1>6, <1>7, <1>8, Conclude

LEMMA TrainStepKeeps ==
  TrainerInv /\ TrainStep => TrainerInv'
  <1> SUFFICES ASSUME TrainerInv, TrainStep PROVE TrainerInv'
    OBVIOUS
  <1>0. /\ TrainerTypeOK /\ args \in Configurations /\ skips \in Nat /\ args' = args
        /\ args.epochs \in Nat \ {0}
    BY KeptAre DEF TrainerInv, TrainerTypeOK, TrainStep
  <1>1. Kept' = Kept
    BY <1>0 DEF Kept
  <1>2. /\ pc = "step" /\ step < NumSteps /\ step' = step + 1 /\ Holds(m, Kept)
        /\ step \in 0 .. NumSteps /\ NumSteps \in Nat
        /\ UNCHANGED <<args, rid, epoch, logp, served, used, saved>>
    BY <1>0, TrainerAssumption DEF TrainStep, TrainerTypeOK
  <1>2a. step' \in 0 .. NumSteps /\ step' > 0 /\ step' = step + 1
    BY <1>2
  <1>3. CASE args.replay # "off" /\ routes.forward >= Len(routes.list)
    <2>1. pc' = "died" /\ UNCHANGED <<m, skips, routes>>
      BY <1>3 DEF TrainStep
    <2>2. TrainerTypeOK' /\ WeightsFit' /\ LogpsFit' /\ RoutesFit'
      BY <1>0, <1>2, <1>2a, <2>1 DEF TrainerTypeOK, WeightsFit, LogpsFit, RoutesFit, Outside, Before
    <2> QED
      BY <1>0, <1>2, <2>1, <2>2, Conclude
  <1>4. CASE ~(args.replay # "off" /\ routes.forward >= Len(routes.list))
    <2>1. /\ pc' = pc /\ routes' = TakesRoutes
          /\ \/ m' = [m EXCEPT !.main = <<"actor", m.main[2] + 1>>, !.gpu = <<"actor", m.main[2] + 1>>] /\ skips' = skips
             \/ skips' = skips + 1 /\ m' = m
      BY <1>4 DEF TrainStep
    <2>2. /\ routes' = [list |-> routes'.list, forward |-> routes'.forward, backward |-> routes'.backward]
          /\ routes'.list = routes.list
          /\ args.replay # "off" => routes'.forward = routes.forward + 1
      BY <1>0, <2>1 DEF TakesRoutes, TrainerTypeOK
    <2>3. /\ Holds(m', Kept) /\ m'.tags = m.tags
          /\ skips' = skips => m'.gpu = m'.main
          /\ skips' # skips => m' = m
      <3> DEFINE new == <<"actor", m.main[2] + 1>>
                 y == [m EXCEPT !.main = new, !.gpu = new]
      <3>1. Holds(y, Kept) /\ y.tags = m.tags /\ y.gpu = y.main
        BY <1>2 DEF Holds, ModelFields
      <3> HIDE DEF y
      <3>2. (m' = y /\ skips' = skips) \/ (skips' = skips + 1 /\ m' = m)
        BY <2>1 DEF y, new
      <3> QED
        BY <1>0, <1>2, <3>1, <3>2
    <2>4. skips' \in Nat /\ skips' >= skips
      BY <1>0, <2>1
    <2>5. TrainerTypeOK'
      BY <1>0, <1>1, <1>2, <1>2a, <2>1, <2>2, <2>3, <2>4 DEF TrainerTypeOK, Outside, Before
    <2>6. ASSUME OneEpoch', WeightsFit PROVE WeightsFit'
      <3>1. CASE skips' = skips
        BY <1>2, <1>2a, <2>1, <2>3, <2>6, <3>1 DEF WeightsFit, Outside, Before
      <3>2. CASE skips' # skips
        <4>1. epoch = 0
          BY <1>0, <1>2, <2>1, <2>6, <3>2 DEF OneEpoch, TrainerTypeOK
        <4> QED
          BY <1>2, <1>2a, <2>1, <2>3, <2>6, <3>2, <4>1 DEF WeightsFit, Outside, Before
      <3> QED
        BY <3>1, <3>2
    <2>7. LogpsFit => LogpsFit'
      BY <1>0, <1>2, <2>1, <2>3 DEF LogpsFit, Outside, Before
    <2>8. args.replay # "off" /\ RoutesFit => RoutesFit'
      BY <1>0, <1>2, <1>2a, <2>1, <2>2 DEF RoutesFit, Outside, Routes
    <2> QED
      BY <1>0, <1>2, <2>4, <2>5, <2>6, <2>7, <2>8, Conclude
  <1> QED
    BY <1>3, <1>4

LEMMA EndTrainKeeps ==
  TrainerInv /\ EndTrain => TrainerInv'
  <1> SUFFICES ASSUME TrainerInv, EndTrain PROVE TrainerInv'
    OBVIOUS
  <1>0. /\ TrainerTypeOK /\ args \in Configurations /\ skips \in Nat /\ args' = args
        /\ args.epochs \in Nat \ {0}
    BY KeptAre DEF TrainerInv, TrainerTypeOK, EndTrain
  <1>1. Kept' = Kept
    BY <1>0 DEF Kept
  <1>2. /\ pc = "step" /\ step = NumSteps /\ step > 0 /\ Holds(m, Kept)
        /\ UNCHANGED <<args, rid, logp, served, used, saved, skips>>
    BY <1>0, TrainerAssumption DEF EndTrain, TrainerTypeOK
  <1>3. CASE epoch + 1 < args.epochs
    <2>1. /\ epoch' = epoch + 1 /\ step' = 0 /\ pc' = (IF args.advantages THEN "ref" ELSE "step")
          /\ UNCHANGED <<m, routes>>
      BY <1>3 DEF EndTrain
    <2>2. 0 \in 0 .. NumSteps /\ epoch' \in Nat /\ epoch' # 0 /\ args.epochs > 1
      BY <1>0, <1>3, <2>1, TrainerAssumption DEF TrainerTypeOK
    <2>3. TrainerTypeOK'
      BY <1>0, <1>1, <1>2, <1>3, <2>1, <2>2 DEF TrainerTypeOK, Outside, Before
    <2>4. /\ WeightsFit => WeightsFit'
          /\ LogpsFit => LogpsFit'
      BY <1>0, <1>2, <2>1, <2>2 DEF WeightsFit, LogpsFit, Outside, Before
    <2>5. ~(Supported(args) /\ args.replay # "off")
      BY <2>2 DEF Supported
    <2> QED
      BY <1>0, <1>2, <2>3, <2>4, <2>5, Conclude
  <1>4. CASE ~(epoch + 1 < args.epochs)
    <2> DEFINE x == Backup(m, "actor")
               again == args.refInterval > 0 /\ "ref" \in DOMAIN m.tags /\ (rid + 1) % args.refInterval = 0
    <2>1. /\ m' = (IF again THEN Backup(x, "ref") ELSE x)
          /\ routes' = (IF args.replay = "off" THEN routes ELSE ClearRoutes)
          /\ pc' = "critic" /\ UNCHANGED <<epoch, step>>
      BY <1>4 DEF EndTrain
    <2>2. "actor" \in Kept /\ (args.ref => "ref" \in Kept)
      BY <1>0, KeptAre
    <2>3. /\ Holds(x, Kept) /\ x.gpu = m.gpu /\ x.main = m.main /\ x.tags["actor"] = m.gpu
          /\ \A t \in Kept \ {"actor"} : x.tags[t] = m.tags[t]
      BY <1>2, <2>2, BackupKeeps, BackupDoes
    <2>4. again => args.refInterval # 0 /\ "ref" \in Kept
      BY <1>0, <1>2, TrainerAssumption DEF Holds
    <2> HIDE DEF x, again
    <2>5. /\ Holds(m', Kept) /\ m'.gpu = m.gpu /\ m'.main = m.main /\ m'.tags["actor"] = m.gpu
          /\ args.ref /\ args.refInterval = 0 => m'.tags["ref"] = m.tags["ref"]
      <3>1. CASE again
        <4>1. m' = Backup(x, "ref")
          BY <2>1, <3>1
        <4>2. Holds(Backup(x, "ref"), Kept)
          BY <2>3, <2>4, <3>1, BackupKeeps
        <4>3. /\ Backup(x, "ref").gpu = x.gpu /\ Backup(x, "ref").main = x.main
              /\ \A t \in Kept \ {"ref"} : Backup(x, "ref").tags[t] = x.tags[t]
          BY <2>3, BackupDoes
        <4> QED
          BY <2>2, <2>3, <2>4, <3>1, <4>1, <4>2, <4>3
      <3>2. CASE ~again
        BY <2>1, <2>2, <2>3, <3>2
      <3> QED
        BY <3>1, <3>2
    <2>6. TrainerTypeOK'
      BY <1>0, <1>1, <1>2, <2>1, <2>5 DEF TrainerTypeOK, Outside, Before, ClearRoutes
    <2>7. WeightsFit => WeightsFit'
      BY <1>0, <1>2, <2>1, <2>5 DEF WeightsFit, Outside, Before
    <2>8. LogpsFit => LogpsFit'
      BY <1>0, <1>2, <2>1, <2>5 DEF LogpsFit, Outside, Before
    <2>9. args.replay # "off" /\ RoutesFit => RoutesFit'
      BY <1>0, <2>1 DEF RoutesFit, Outside, Before, ClearRoutes
    <2> QED
      BY <1>0, <1>2, <2>6, <2>7, <2>8, <2>9, Conclude
  <1> QED
    BY <1>3, <1>4

LEMMA CriticWakesKeeps ==
  TrainerInv /\ CriticWakes => TrainerInv'
  <1> SUFFICES ASSUME TrainerInv, CriticWakes PROVE TrainerInv'
    OBVIOUS
  <1>0. /\ TrainerTypeOK /\ args \in Configurations /\ skips \in Nat /\ args' = args
        /\ args.epochs \in Nat \ {0}
    BY KeptAre DEF TrainerInv, TrainerTypeOK, CriticWakes
  <1>1. Kept' = Kept
    BY <1>0 DEF Kept
  <1>2. UNCHANGED <<args, pc, rid, epoch, step, m, routes, logp, served, used, saved, skips>>
    BY DEF CriticWakes
  <1>3. TrainerTypeOK'
    BY <1>0, <1>1, <1>2 DEF TrainerTypeOK
  <1>4. /\ WeightsFit => WeightsFit'
        /\ LogpsFit => LogpsFit'
        /\ RoutesFit => RoutesFit'
    BY <1>0, <1>2 DEF WeightsFit, LogpsFit, RoutesFit, Routes, TrainsActor
  <1> QED
    BY <1>0, <1>2, <1>3, <1>4, Conclude

LEMMA CriticTrainsKeeps ==
  TrainerInv /\ CriticTrains => TrainerInv'
  <1> SUFFICES ASSUME TrainerInv, CriticTrains PROVE TrainerInv'
    OBVIOUS
  <1>0. /\ TrainerTypeOK /\ args \in Configurations /\ skips \in Nat /\ args' = args
        /\ args.epochs \in Nat \ {0}
    BY KeptAre DEF TrainerInv, TrainerTypeOK, CriticTrains
  <1>1. Kept' = Kept
    BY <1>0 DEF Kept
  <1>2. UNCHANGED <<args, pc, rid, epoch, step, m, routes, logp, served, used, saved, skips>>
    BY DEF CriticTrains
  <1>3. TrainerTypeOK'
    BY <1>0, <1>1, <1>2 DEF TrainerTypeOK
  <1>4. /\ WeightsFit => WeightsFit'
        /\ LogpsFit => LogpsFit'
        /\ RoutesFit => RoutesFit'
    BY <1>0, <1>2 DEF WeightsFit, LogpsFit, RoutesFit, Routes, TrainsActor
  <1> QED
    BY <1>0, <1>2, <1>3, <1>4, Conclude

LEMMA AwaitCriticKeeps ==
  TrainerInv /\ AwaitCritic => TrainerInv'
  <1> SUFFICES ASSUME TrainerInv, AwaitCritic PROVE TrainerInv'
    OBVIOUS
  <1>0. /\ TrainerTypeOK /\ args \in Configurations /\ skips \in Nat /\ args' = args
        /\ args.epochs \in Nat \ {0}
    BY KeptAre DEF TrainerInv, TrainerTypeOK, AwaitCritic
  <1>1. Kept' = Kept
    BY <1>0 DEF Kept
  <1>2. /\ pc = "critic" /\ pc' = "saving"
        /\ UNCHANGED <<args, rid, epoch, step, m, routes, logp, served, used, saved, skips>>
    BY DEF AwaitCritic
  <1>3. TrainerTypeOK'
    BY <1>0, <1>1, <1>2 DEF TrainerTypeOK, Outside, Before
  <1>4. /\ WeightsFit => WeightsFit'
        /\ LogpsFit => LogpsFit'
        /\ RoutesFit => RoutesFit'
    BY <1>0, <1>2 DEF WeightsFit, LogpsFit, RoutesFit, Outside, Before, TrainsActor
  <1> QED
    BY <1>0, <1>2, <1>3, <1>4, Conclude

LEMMA SaveModelKeeps ==
  TrainerInv /\ SaveModel => TrainerInv'
  <1> SUFFICES ASSUME TrainerInv, SaveModel PROVE TrainerInv'
    OBVIOUS
  <1>0. /\ TrainerTypeOK /\ args \in Configurations /\ skips \in Nat /\ args' = args
        /\ args.epochs \in Nat \ {0}
    BY KeptAre DEF TrainerInv, TrainerTypeOK, SaveModel
  <1>1. Kept' = Kept
    BY <1>0 DEF Kept
  <1>2. /\ pc = "saving"
        /\ UNCHANGED <<args, rid, epoch, step, m, routes, logp, served, used, skips>>
        /\ \/ pc' = "died" /\ saved' = saved
           \/ pc' = "offload" /\ saved' = saved /\ ~TrainsActor
           \/ pc' = "offload" /\ saved' = m.gpu /\ TrainsActor
    BY DEF SaveModel
  <1>3. TrainerTypeOK'
    BY <1>0, <1>1, <1>2 DEF TrainerTypeOK, Outside, Before
  <1>4. /\ WeightsFit => WeightsFit'
        /\ LogpsFit => LogpsFit'
        /\ RoutesFit => RoutesFit'
    BY <1>0, <1>2 DEF WeightsFit, LogpsFit, RoutesFit, Outside, Before, TrainsActor
  <1> QED
    BY <1>0, <1>2, <1>3, <1>4, Conclude

LEMMA OffloadKeeps ==
  TrainerInv /\ Offload => TrainerInv'
  <1> SUFFICES ASSUME TrainerInv, Offload PROVE TrainerInv'
    OBVIOUS
  <1>0. /\ TrainerTypeOK /\ args \in Configurations /\ skips \in Nat /\ args' = args
        /\ args.epochs \in Nat \ {0}
    BY KeptAre DEF TrainerInv, TrainerTypeOK, Offload
  <1>1. Kept' = Kept
    BY <1>0 DEF Kept
  <1>2. /\ pc = "offload" /\ pc' = "update"
        /\ UNCHANGED <<args, epoch, step, m, routes, logp, served, used, saved, skips>>
    BY DEF Offload
  <1>3. TrainerTypeOK'
    BY <1>0, <1>1, <1>2 DEF TrainerTypeOK, Outside, Before
  <1>4. /\ WeightsFit => WeightsFit'
        /\ LogpsFit => LogpsFit'
        /\ RoutesFit => RoutesFit'
    BY <1>0, <1>2 DEF WeightsFit, LogpsFit, RoutesFit, Outside, Before
  <1> QED
    BY <1>0, <1>2, <1>3, <1>4, Conclude

LEMMA TrainerStutters ==
  TrainerInv /\ UNCHANGED trainerVars => TrainerInv'
  <1> SUFFICES ASSUME TrainerInv, UNCHANGED trainerVars PROVE TrainerInv'
    OBVIOUS
  <1> USE DEF trainerVars
  <1>1. TrainerTypeOK' = TrainerTypeOK
    BY DEF TrainerTypeOK, Kept
  <1>2. WeightsFit' = WeightsFit /\ LogpsFit' = LogpsFit /\ RoutesFit' = RoutesFit
    BY DEF WeightsFit, LogpsFit, RoutesFit, Routes, TrainsActor
  <1>3. OneEpoch' = OneEpoch
    BY DEF OneEpoch
  <1> QED
    BY <1>1, <1>2, <1>3 DEF TrainerInv

LEMMA TrainerStepsKeep ==
  TrainerInv /\ [TrainerNext]_trainerVars => TrainerInv'
  BY TrainerStutters, InitialiseKeeps, UpdateWeightsKeeps, GenerateKeeps, AwaitCriticKeeps, SaveModelKeeps,
     OffloadKeeps, StartTrainKeeps, RefLogProbsKeeps, TeacherLogProbsKeeps, OwnLogProbsKeeps, SyncKeeps,
     SkipRolloutKeeps, AdvantagesKeeps, TrainStepKeeps, EndTrainKeeps, CriticWakesKeeps, CriticTrainsKeeps
  DEF TrainerNext, Driver, TrainActor, TrainCritic

LEMMA TrainerInvariant ==
  TrainerSpec => []TrainerInv
  BY TrainerStarts, TrainerStepsKeep, PTL DEF TrainerSpec

\* For every command line that is supported, any number of rollouts, steps and
\* rollouts dropped for NaN: a push gives the engines the weights of the last
\* optimizer step, and a checkpoint holds that actor, whichever models were
\* swapped in on the GPU between (update_weights, save_model, _switch_model).
THEOREM PushesTheTrained ==
  TrainerSpec => []ServesTrained
  <1>1. TrainerInv => ServesTrained
    BY DEF TrainerInv, ServesTrained, WeightsFit, Outside
  <1> QED
    BY <1>1, TrainerInvariant, PTL

\* Likewise a step computes its gradients at the weights of the step before it,
\* with the log-probs of the weights that generated its samples and of the
\* reference that was loaded, and replays the routes of its own rollout (train
\* and compute_log_prob of the actor, RoutingReplay).
THEOREM StepsTrainTheActor ==
  TrainerSpec => []TrainsTheActor
  <1>1. TrainerInv => ReplaysThisRollout
    <2> SUFFICES ASSUME TrainerInv, pc = "step", args.replay # "off", Supported(args)
                 PROVE  SubSeq(routes.list, routes.forward + 1, Len(routes.list)) = [i \in 1 .. NumSteps - step |-> rid]
      BY DEF ReplaysThisRollout
    <2>1. routes.forward = step /\ routes.list = Routes /\ step \in 0 .. NumSteps /\ NumSteps \in Nat
      BY TrainerAssumption DEF TrainerInv, TrainerTypeOK, RoutesFit
    <2>2. Routes \in Seq({rid}) /\ Len(Routes) = NumSteps /\ \A i \in 1 .. NumSteps : Routes[i] = rid
      BY <2>1 DEF Routes
    <2> QED
      BY <2>1, <2>2
  <1>2. TrainerInv => TrainsTheActor
    BY <1>1 DEF TrainerInv, TrainsTheActor, WeightsFit, LogpsFit
  <1> QED
    BY <1>2, TrainerInvariant, PTL

-----------------------------------------------------------------------------
(* The groups of processes: what a rank still has to do.                       *)

Things  == {"resume", "create", "reload", "connect", "use", "destroy", "pause"}
StepSet == {s \in [do : Things, group : Nat] : s.do # "use" => s.group = 0}

\* Every call does its steps in one order.
Turn(x) == CASE x = "resume" -> 0 [] x = "create" -> 1 [] x = "reload" -> 2 [] x = "connect" -> 3
             [] x = "use" -> 4 [] x = "destroy" -> 5 [] x = "pause" -> 6
Precedes(a, b) == Turn(a.do) < Turn(b.do) \/ (a.do = "use" /\ b.do = "use" /\ a.group < b.group)
InOrder(s) == \A h, n \in DOMAIN s : h < n => Precedes(s[h], s[n])

\* The kinds of steps in s, and the groups it uses.
Kinds(s)   == {s[n].do : n \in DOMAIN s}
UsesOf(s)  == {s[n].group : n \in {k \in DOMAIN s : s[k].do = "use"}}

\* The kinds of steps of a call.
Steps(c) ==
  CASE c = "init" -> {"create", "use", "destroy", "pause"}
    [] c = "update" -> {"reload", "connect", "use", "destroy"}
    [] c = "train" -> {"resume", "reload", "use"}
    [] c = "save" -> {"reload", "use", "destroy"}
    [] c = "offload" -> {"destroy", "pause"}
CallNames == {"init", "update", "train", "save", "offload"}

\* With the kinds K of steps left of the call c, a rank will yet make the groups,
\* has destroyed them, ...
Makes(c, K) == "create" \in K \/ ("reload" \in K /\ c \in {"update", "train"})
Ended(c, K) == c # "train" /\ "destroy" \notin K
\* ... and the names n are of groups that are there, or not.
Alive(n) == \A i \in Wrapped : n[i] # NoGroup
Dead(n)  == \A i \in Ids : n[i] = NoGroup
InEngine(r) == \E e \in DOMAIN job.engines : r \in job.engines[e]

\* What belongs together on a rank r: the call c, k connections, the steps s that
\* are left, the names n, an own gather group p, paused memory z.
RankFits(r, c, k, s, n, p, z) ==
  /\ s \in Seq(StepSet) /\ InOrder(s) /\ Kinds(s) \subseteq Steps(c) /\ UsesOf(s) \subseteq Own(r)
  /\ c \in {"init", "update", "save"} /\ Kinds(s) \cap {"create", "reload", "use"} # {} =>
       "destroy" \in Kinds(s)
  /\ "resume" \in Kinds(s) => "reload" \in Kinds(s)
  /\ Makes(c, Kinds(s)) \/ Ended(c, Kinds(s)) => Dead(n)
  /\ ~Makes(c, Kinds(s)) /\ ~Ended(c, Kinds(s)) /\ c # "offload" => Alive(n)
  /\ \A i, j \in Wrapped : n[i] = n[j] /\ n[i] # NoGroup => i = j
  /\ z => /\ c = "init" => Kinds(s) = {}
          /\ c = "train" => "resume" \in Kinds(s)
          /\ c # "save"
  /\ "connect" \in Kinds(s) => k >= 1
  /\ k = 0 => ~p
  /\ k = 1 /\ "connect" \in Kinds(s) => ~p
  /\ (k >= 1 /\ "connect" \notin Kinds(s)) \/ k >= 2 => (p <=> InEngine(r))

Base(c) == IF c = "init" THEN Ids ELSE Wrapped
Upto(c, i) == Cardinality({j \in Base(c) : j <= i})
\* The groups a rank will yet make in this call.
Pending(c, K, p) ==
  (IF Makes(c, K) THEN Cardinality(Base(c)) ELSE 0) +
  (IF "connect" \in K /\ ~p THEN Len(job.engines) ELSE 0)

\* What belongs together on two ranks: they make as many groups, and under the
\* same names; a group that one will use is one that the other will.
PairFits(r, q, c, s, t, n, o, h, l, p, v) ==
  /\ \A i \in Own(r) \cap Own(q) : i \in UsesOf(s) <=> i \in UsesOf(t)
  /\ h + Pending(c, Kinds(s), p) = l + Pending(c, Kinds(t), v)
  /\ Makes(c, Kinds(s)) /\ Makes(c, Kinds(t)) => h = l
  /\ Makes(c, Kinds(t)) /\ Alive(n) => \A i \in Wrapped : n[i] = l + Upto(c, i)
  /\ Alive(n) /\ Alive(o) => \A i \in Wrapped : n[i] = o[i]

RankOK(r) ==
  \A c \in {call}, k \in {connects}, s \in {left[r]}, n \in {inner[r]}, p \in {ipc[r]}, z \in {slept[r]} :
    RankFits(r, c, k, s, n, p, z)
PairOK(r, q) ==
  \A c \in {call}, s \in {left[r]}, t \in {left[q]}, n \in {inner[r]}, o \in {inner[q]},
     h \in {made[r]}, l \in {made[q]}, p \in {ipc[r]}, v \in {ipc[q]} :
    PairFits(r, q, c, s, t, n, o, h, l, p, v)

GroupsTypeOK ==
  /\ job \in GroupLayouts /\ call \in CallNames /\ connects \in Nat
  /\ left \in [Peer -> Seq(StepSet)] /\ made \in [Peer -> Nat] /\ inner \in [Peer -> [Ids -> Nat]]
  /\ ipc \in [Peer -> BOOLEAN] /\ slept \in [Peer -> BOOLEAN]
GroupsInv == /\ GroupsTypeOK
             /\ \A r \in Peer : RankOK(r)
             /\ ~CountsApart => \A r, q \in Peer : PairOK(r, q)

\* The first of the steps that are left is done.
LEMMA OneStepLess ==
  ASSUME NEW s \in Seq(StepSet), InOrder(s), s # << >>
  PROVE  /\ Head(s) \in StepSet /\ Tail(s) \in Seq(StepSet) /\ InOrder(Tail(s))
         /\ Kinds(s) = Kinds(Tail(s)) \cup {Head(s).do}
         /\ \A x \in Kinds(s) : Turn(Head(s).do) <= Turn(x)
         /\ Head(s).do # "use" => /\ Kinds(Tail(s)) = Kinds(s) \ {Head(s).do}
                                  /\ UsesOf(Tail(s)) = UsesOf(s)
         /\ Head(s).do = "use" => /\ UsesOf(Tail(s)) = UsesOf(s) \ {Head(s).group}
                                  /\ Head(s).group \in UsesOf(s)
                                  /\ \A g \in UsesOf(s) : Head(s).group <= g
  <1> DEFINE L == Len(s)
             T == Tail(s)
  <1>1. /\ L \in Nat \ {0} /\ DOMAIN s = 1 .. L /\ Head(s) = s[1] /\ \A n \in 1 .. L : s[n] \in StepSet
    <2>1. L \in Nat /\ L # 0
      BY EmptySeq
    <2> QED
      BY <2>1
  <1>2. /\ T \in Seq(StepSet) /\ DOMAIN T = 1 .. (L - 1) /\ \A n \in 1 .. (L - 1) : T[n] = s[n + 1]
    BY <1>1
  <1>3. \A n \in 1 .. L : Turn(s[n].do) \in Int
    BY <1>1 DEF StepSet, Things, Turn
  <1>4. InOrder(T)
    <2>1. ASSUME NEW h \in 1 .. (L - 1), NEW n \in 1 .. (L - 1), h < n PROVE Precedes(T[h], T[n])
      <3>1. h + 1 \in DOMAIN s /\ n + 1 \in DOMAIN s /\ h + 1 < n + 1
        BY <1>1, <2>1
      <3> QED
        BY <1>2, <3>1 DEF InOrder
    <2> QED
      BY <1>2, <2>1 DEF InOrder
  <1>5. \A n \in 2 .. L : Precedes(s[1], s[n])
    BY <1>1 DEF InOrder
  <1>6. \A n \in 1 .. L : n = 1 \/ (n - 1 \in 1 .. (L - 1) /\ s[n] = T[n - 1] /\ n \in 2 .. L)
    BY <1>1, <1>2
  <1>7. \A n \in 1 .. (L - 1) : n + 1 \in 2 .. L /\ n + 1 \in 1 .. L /\ T[n] = s[n + 1]
    BY <1>1, <1>2
  <1>8. 1 \in 1 .. L
    BY <1>1
  <1>9. ASSUME NEW a \in StepSet, NEW b \in StepSet, Precedes(a, b)
        PROVE  /\ Turn(a.do) <= Turn(b.do) /\ (a.do # "use" => b.do # a.do)
               /\ (a.do = "use" /\ b.do = "use" => a.group < b.group)
    BY <1>9 DEF Precedes, StepSet, Things, Turn
  <1>10. \A n \in 2 .. L : /\ Turn(s[1].do) <= Turn(s[n].do) /\ (s[1].do # "use" => s[n].do # s[1].do)
                           /\ (s[1].do = "use" /\ s[n].do = "use" => s[1].group < s[n].group)
    BY <1>1, <1>5, <1>9
  <1> HIDE DEF T, L
  <1>11. Kinds(s) = Kinds(T) \cup {s[1].do}
    <2>1. ASSUME NEW n \in 1 .. L PROVE s[n].do \in Kinds(T) \cup {s[1].do}
      BY <1>2, <1>6 DEF Kinds
    <2>2. ASSUME NEW n \in 1 .. (L - 1) PROVE T[n].do \in Kinds(s)
      BY <1>1, <1>7 DEF Kinds
    <2>3. Kinds(s) \subseteq Kinds(T) \cup {s[1].do}
      BY <1>1, <2>1 DEF Kinds
    <2>4. Kinds(T) \subseteq Kinds(s)
      BY <1>2, <2>2 DEF Kinds
    <2>5. s[1].do \in Kinds(s)
      BY <1>1, <1>8 DEF Kinds
    <2> QED
      BY <2>3, <2>4, <2>5
  <1>12. \A x \in Kinds(s) : Turn(s[1].do) <= Turn(x)
    BY <1>1, <1>3, <1>6, <1>8, <1>10 DEF Kinds
  <1>13. s[1].do # "use" => s[1].do \notin Kinds(T)
    BY <1>1, <1>2, <1>7, <1>10 DEF Kinds
  <1>u. /\ UsesOf(T) \subseteq UsesOf(s)
        /\ \A g \in UsesOf(s) : g \in UsesOf(T) \/ (s[1].do = "use" /\ g = s[1].group)
    <2>1. ASSUME NEW n \in 1 .. (L - 1), T[n].do = "use" PROVE T[n].group \in UsesOf(s)
      BY <1>1, <1>7, <2>1 DEF UsesOf
    <2>2. ASSUME NEW n \in 1 .. L, s[n].do = "use", n # 1 PROVE s[n].group \in UsesOf(T)
      BY <1>2, <1>6, <2>2 DEF UsesOf
    <2>3. UsesOf(T) \subseteq UsesOf(s)
      BY <1>2, <2>1 DEF UsesOf
    <2>4. ASSUME NEW g \in UsesOf(s) PROVE g \in UsesOf(T) \/ (s[1].do = "use" /\ g = s[1].group)
      <3>1. PICK n \in 1 .. L : s[n].do = "use" /\ g = s[n].group
        BY <1>1 DEF UsesOf
      <3> QED
        BY <2>2, <3>1
    <2> QED
      BY <2>3, <2>4
  <1>14. s[1].do # "use" => UsesOf(T) = UsesOf(s)
    BY <1>u
  <1>15. ASSUME s[1].do = "use"
         PROVE  /\ UsesOf(T) = UsesOf(s) \ {s[1].group} /\ s[1].group \in UsesOf(s)
                /\ \A g \in UsesOf(s) : s[1].group <= g
    <2>0. \A n \in 1 .. L : s[n].group \in Nat
      BY <1>1 DEF StepSet
    <2>1. s[1].group \in UsesOf(s)
      BY <1>1, <1>8, <1>15 DEF UsesOf
    <2>2. \A g \in UsesOf(s) : s[1].group <= g
      BY <1>1, <1>6, <1>8, <1>10, <1>15, <2>0 DEF UsesOf
    <2>3. s[1].group \notin UsesOf(T)
      BY <1>1, <1>2, <1>7, <1>8, <1>10, <1>15, <2>0 DEF UsesOf
    <2> QED
      BY <1>u, <2>1, <2>2, <2>3
  <1>16. Head(s) \in StepSet
    BY <1>1, <1>8
  <1> QED
    BY <1>1, <1>2, <1>4, <1>11, <1>12, <1>13, <1>14, <1>15, <1>16 DEF T

\* Two parts of a call, one after the other.
LEMMA TwoParts ==
  ASSUME NEW s \in Seq(StepSet), NEW t \in Seq(StepSet), InOrder(s), InOrder(t),
         \A x \in Kinds(s), y \in Kinds(t) : Turn(x) < Turn(y)
  PROVE  /\ s \o t \in Seq(StepSet) /\ InOrder(s \o t)
         /\ Kinds(s \o t) = Kinds(s) \cup Kinds(t) /\ UsesOf(s \o t) = UsesOf(s) \cup UsesOf(t)
  <1> DEFINE c == s \o t
             L == Len(s)
             M == Len(t)
  <1>1. /\ L \in Nat /\ M \in Nat /\ DOMAIN s = 1 .. L /\ DOMAIN t = 1 .. M
        /\ c \in Seq(StepSet) /\ DOMAIN c = 1 .. (L + M)
        /\ \A n \in 1 .. L : c[n] = s[n]
        /\ \A n \in 1 .. M : c[L + n] = t[n]
    OBVIOUS
  <1>2. \A n \in 1 .. (L + M) : n \in 1 .. L \/ (n - L \in 1 .. M /\ c[n] = t[n - L])
    <2>1. ASSUME NEW n \in 1 .. (L + M), n \notin 1 .. L PROVE n - L \in 1 .. M /\ c[n] = t[n - L]
      <3>1. n - L \in 1 .. M /\ L + (n - L) = n
        BY <1>1, <2>1
      <3> QED
        BY <1>1, <3>1
    <2> QED
      BY <2>1
  <1>3. (\A n \in 1 .. L : n \in 1 .. (L + M)) /\ (\A n \in 1 .. M : L + n \in 1 .. (L + M))
    BY <1>1
  <1> HIDE DEF c, L, M
  <1>4. \A h \in 1 .. L, n \in 1 .. M : Precedes(s[h], t[n])
    BY <1>1 DEF Precedes, Kinds
  <1>5. InOrder(c)
    <2>1. ASSUME NEW h \in 1 .. (L + M), NEW n \in 1 .. (L + M), h < n PROVE Precedes(c[h], c[n])
      <3>1. CASE h \in 1 .. L /\ n \in 1 .. L
        BY <1>1, <2>1, <3>1 DEF InOrder
      <3>2. CASE h \in 1 .. L /\ n \notin 1 .. L
        BY <1>1, <1>2, <1>4, <3>2
      <3>3. CASE h \notin 1 .. L
        <4>1. n \notin 1 .. L
          BY <1>1, <2>1, <3>3
        <4>2. h - L \in DOMAIN t /\ n - L \in DOMAIN t /\ h - L < n - L
          BY <1>1, <1>2, <2>1, <3>3, <4>1
        <4>3. c[h] = t[h - L] /\ c[n] = t[n - L]
          BY <1>2, <3>3, <4>1
        <4> QED
          BY <4>2, <4>3 DEF InOrder
      <3> QED
        BY <3>1, <3>2, <3>3
    <2> QED
      BY <1>1, <2>1 DEF InOrder
  <1>6. Kinds(c) = Kinds(s) \cup Kinds(t)
    <2>1. ASSUME NEW n \in 1 .. (L + M) PROVE c[n].do \in Kinds(s) \cup Kinds(t)
      BY <1>1, <1>2 DEF Kinds
    <2>2. ASSUME NEW n \in 1 .. L PROVE s[n].do \in Kinds(c)
      BY <1>1, <1>3 DEF Kinds
    <2>3. ASSUME NEW n \in 1 .. M PROVE t[n].do \in Kinds(c)
      BY <1>1, <1>3 DEF Kinds
    <2>4. Kinds(c) \subseteq Kinds(s) \cup Kinds(t)
      BY <1>1, <2>1 DEF Kinds
    <2>5. Kinds(s) \subseteq Kinds(c) /\ Kinds(t) \subseteq Kinds(c)
      BY <1>1, <2>2, <2>3 DEF Kinds
    <2> QED
      BY <2>4, <2>5
  <1>7. UsesOf(c) = UsesOf(s) \cup UsesOf(t)
    <2>1. ASSUME NEW n \in 1 .. (L + M), c[n].do = "use" PROVE c[n].group \in UsesOf(s) \cup UsesOf(t)
      BY <1>1, <1>2, <2>1 DEF UsesOf
    <2>2. ASSUME NEW n \in 1 .. L, s[n].do = "use" PROVE s[n].group \in UsesOf(c)
      BY <1>1, <1>3, <2>2 DEF UsesOf
    <2>3. ASSUME NEW n \in 1 .. M, t[n].do = "use" PROVE t[n].group \in UsesOf(c)
      BY <1>1, <1>3, <2>3 DEF UsesOf
    <2>4. UsesOf(c) \subseteq UsesOf(s) \cup UsesOf(t)
      BY <1>1, <2>1, SMTT(30) DEF UsesOf
    <2>5. UsesOf(s) \subseteq UsesOf(c) /\ UsesOf(t) \subseteq UsesOf(c)
      BY <1>1, <2>2, <2>3 DEF UsesOf
    <2> QED
      BY <2>4, <2>5
  <1> QED
    BY <1>1, <1>5, <1>6, <1>7 DEF c

LEMMA OnePart ==
  ASSUME NEW x \in Things \ {"use"}
  PROVE  /\ <<Do(x)>> \in Seq(StepSet) /\ InOrder(<<Do(x)>>)
         /\ Kinds(<<Do(x)>>) = {x} /\ UsesOf(<<Do(x)>>) = {}
  <1>1. Do(x) \in StepSet /\ Do(x).do = x
    BY DEF Do, StepSet
  <1>2. /\ <<Do(x)>> \in Seq(StepSet) /\ DOMAIN <<Do(x)>> = {1} /\ <<Do(x)>>[1] = Do(x)
    BY <1>1
  <1> QED
    BY <1>1, <1>2 DEF InOrder, Kinds, UsesOf
LEMMA NoPart ==
  /\ << >> \in Seq(StepSet) /\ InOrder(<< >>) /\ Kinds(<< >>) = {} /\ UsesOf(<< >>) = {}
  BY DEF InOrder, Kinds, UsesOf

\* How many of I come up to i.
Rank(I, i) == Cardinality({j \in I : j <= i})

\* The ranks of a finite set of numbers are those from 1 to its size, each once.
LEMMA RanksCount ==
  ASSUME NEW I \in SUBSET Nat, IsFiniteSet(I)
  PROVE  /\ Cardinality(I) \in Nat
         /\ \A i \in I : Rank(I, i) \in 1 .. Cardinality(I)
         /\ \A i, j \in I : i < j => Rank(I, i) < Rank(I, j)
         /\ \A i, j \in I : Rank(I, i) = Rank(I, j) => i = j
         /\ \A k \in 1 .. Cardinality(I) : \E i \in I : Rank(I, i) = k
  <1> DEFINE N == Cardinality(I)
             U(i) == {j \in I : j <= i}
  <1>1. N \in Nat
    BY FS_CardinalityType
  <1>2. ASSUME NEW i \in I PROVE IsFiniteSet(U(i)) /\ Rank(I, i) \in 1 .. N
    <2>1. U(i) \in SUBSET I
      OBVIOUS
    <2>2. IsFiniteSet(U(i)) /\ Cardinality(U(i)) <= N
      BY <2>1, FS_Subset
    <2>3. U(i) # {}
      OBVIOUS
    <2> HIDE DEF U, N
    <2>4. Cardinality(U(i)) \in Nat /\ Cardinality(U(i)) # 0
      BY <2>2, <2>3, FS_CardinalityType, FS_EmptySet
    <2>5. Rank(I, i) = Cardinality(U(i))
      BY DEF Rank, U
    <2> QED
      BY <1>1, <2>2, <2>4, <2>5
  <1>3. ASSUME NEW i \in I, NEW j \in I, i < j PROVE Rank(I, i) < Rank(I, j)
    <2>0. i \in Nat /\ j \in Nat /\ \A n \in I : n \in Nat
      OBVIOUS
    <2>1. U(i) \in SUBSET U(j)
      <3>1. ASSUME NEW n \in I, n <= i PROVE n <= j
        BY <1>3, <2>0, <3>1
      <3> QED
        BY <3>1
    <2>2. j \in U(j) /\ j \notin U(i)
      BY <1>3
    <2>3. IsFiniteSet(U(j)) /\ Rank(I, i) \in Nat /\ Rank(I, j) \in Nat
      <3>1. Rank(I, i) \in 1 .. N /\ Rank(I, j) \in 1 .. N /\ IsFiniteSet(U(j))
        BY <1>2
      <3> HIDE DEF N, U
      <3> QED
        BY <1>1, <3>1
    <2>4. Rank(I, i) = Cardinality(U(i)) /\ Rank(I, j) = Cardinality(U(j))
      BY DEF Rank
    <2> HIDE DEF U
    <2>5. /\ Cardinality(U(i)) <= Cardinality(U(j))
          /\ Cardinality(U(j)) = Cardinality(U(i)) => U(j) = U(i)
      BY <2>1, <2>3, FS_Subset
    <2> QED
      BY <2>2, <2>3, <2>4, <2>5
  <1>4. ASSUME NEW i \in I, NEW j \in I, Rank(I, i) = Rank(I, j) PROVE i = j
    <2>1. Rank(I, i) \in Int
      <3>1. Rank(I, i) \in 1 .. N
        BY <1>2
      <3> HIDE DEF N
      <3> QED
        BY <1>1, <3>1
    <2>2. ~(i < j) /\ ~(j < i)
      BY <1>3, <1>4, <2>1
    <2> QED
      BY <2>2
  <1>5. ASSUME NEW k \in 1 .. N PROVE \E i \in I : Rank(I, i) = k
    <2> DEFINE f == [i \in I |-> Rank(I, i)]
    <2>1. f \in Injection(I, 1 .. N)
      <3>1. f \in [I -> 1 .. N]
        BY <1>2
      <3>2. \A i, j \in I : f[i] = f[j] => i = j
        BY <1>4
      <3> QED
        BY <3>1, <3>2 DEF Injection, IsInjective
    <2>2. IsFiniteSet(1 .. N) /\ Cardinality(1 .. N) = N
      <3>1. \A n \in Nat : 1 \in Int /\ n \in Int
        OBVIOUS
      <3>2. \A n \in Nat : IsFiniteSet(1 .. n) /\ Cardinality(1 .. n) = IF 1 > n THEN 0 ELSE n - 1 + 1
        BY <3>1, FS_Interval
      <3>3. \A n \in Nat : IsFiniteSet(1 .. n) /\ Cardinality(1 .. n) = n
        BY <3>2
      <3> QED
        BY <1>1, <3>3
    <2> HIDE DEF f
    <2>3. f \in Surjection(I, 1 .. N)
      BY <2>1, <2>2, FS_Injection
    <2> QED
      BY <2>3 DEF Surjection, f
  <1> QED
    BY <1>1, <1>2, <1>3, <1>4, <1>5

\* A finite set of numbers has a least one.
LEMMA LeastExists ==
  ASSUME NEW I \in SUBSET Nat, IsFiniteSet(I), I # {}
  PROVE  \E i \in I : \A j \in I : i <= j
  <1>1. Cardinality(I) \in Nat /\ Cardinality(I) # 0
    BY RanksCount, FS_EmptySet
  <1>2. PICK i \in I : Rank(I, i) = 1
    <2>1. 1 \in 1 .. Cardinality(I)
      BY <1>1
    <2> QED
      BY <2>1, RanksCount
  <1>3. \A j \in I : Rank(I, j) \in 1 .. Cardinality(I) /\ (j < i => Rank(I, j) < Rank(I, i))
    BY RanksCount
  <1>4. \A j \in I : ~(j < i)
    BY <1>1, <1>2, <1>3
  <1> QED
    BY <1>4

\* The collectives on the groups of I, in the order of the groups.
LEMMA UsesScript ==
  ASSUME NEW I \in SUBSET Nat, IsFiniteSet(I),
         NEW u, u = [k \in 1 .. Cardinality(I) |-> [do |-> "use", group |-> Nth(I, k)]]
  PROVE  u \in Seq(StepSet) /\ InOrder(u) /\ Kinds(u) \subseteq {"use"} /\ UsesOf(u) = I
  <1> DEFINE N == Cardinality(I)
  <1>1. /\ N \in Nat /\ \A i \in I : Rank(I, i) \in 1 .. N
        /\ \A i, j \in I : i < j => Rank(I, i) < Rank(I, j)
        /\ \A i, j \in I : Rank(I, i) = Rank(I, j) => i = j
    BY RanksCount
  <1>2. \A k \in 1 .. N : Nth(I, k) \in I /\ Rank(I, Nth(I, k)) = k
    <2>1. ASSUME NEW k \in 1 .. N PROVE Nth(I, k) \in I /\ Rank(I, Nth(I, k)) = k
      <3>1. \E i \in I : Rank(I, i) = k
        BY RanksCount
      <3> QED
        BY <3>1 DEF Nth, Rank
    <2> QED
      BY <2>1
  <1> HIDE DEF N
  <1>3. DOMAIN u = 1 .. N /\ \A k \in 1 .. N : u[k] = [do |-> "use", group |-> Nth(I, k)]
    BY DEF N
  <1>4. \A k \in 1 .. N : u[k] \in StepSet /\ u[k].do = "use" /\ u[k].group = Nth(I, k)
    BY <1>2, <1>3 DEF StepSet, Things
  <1>5. u \in Seq(StepSet)
    <2>1. u \in [1 .. N -> StepSet]
      BY <1>3, <1>4 DEF N
    <2>2. \A S : \A n \in Nat : \A f \in [1 .. n -> S] : f \in Seq(S)
      BY SeqDef
    <2> QED
      BY <1>1, <2>1, <2>2
  <1>6. ASSUME NEW h \in 1 .. N, NEW n \in 1 .. N, h < n PROVE Precedes(u[h], u[n])
    <2>1. Nth(I, h) \in Nat /\ Nth(I, n) \in Nat /\ Nth(I, h) \in I /\ Nth(I, n) \in I
      BY <1>2
    <2>2. Rank(I, Nth(I, h)) < Rank(I, Nth(I, n)) /\ Rank(I, Nth(I, h)) \in Int /\ Rank(I, Nth(I, n)) \in Int
      BY <1>1, <1>2, <1>6
    <2>3. ~(Nth(I, n) < Nth(I, h)) /\ Nth(I, n) # Nth(I, h)
      BY <1>1, <2>1, <2>2
    <2>4. Nth(I, h) < Nth(I, n)
      BY <2>1, <2>3
    <2> QED
      BY <1>4, <2>4 DEF Precedes
  <1>7. InOrder(u)
    BY <1>3, <1>6 DEF InOrder
  <1>8. Kinds(u) \subseteq {"use"}
    BY <1>3, <1>4 DEF Kinds
  <1>9. UsesOf(u) \subseteq I
    BY <1>2, <1>3, <1>4 DEF UsesOf
  <1>10. ASSUME NEW i \in I PROVE i \in UsesOf(u)
    <2>1. Rank(I, i) \in 1 .. N /\ Nth(I, Rank(I, i)) = i
      BY <1>1, <1>2
    <2> QED
      BY <1>3, <1>4, <2>1 DEF UsesOf
  <1> QED
    BY <1>5, <1>7, <1>8, <1>9, <1>10

\* The groups of a layout are numbered from 1.
LEMMA LayoutFacts ==
  ASSUME job \in GroupLayouts
  PROVE  /\ Ids \in SUBSET Nat /\ 0 \notin Ids /\ IsFiniteSet(Ids) /\ Cardinality(Ids) = Len(job.groups)
         /\ Wrapped \in SUBSET Ids /\ IsFiniteSet(Wrapped) /\ Wrapped \in SUBSET Nat
         /\ \A i \in Ids : job.groups[i].ranks \in SUBSET Peer
         /\ \A r : Own(r) \in SUBSET Wrapped /\ Own(r) \in SUBSET Nat /\ IsFiniteSet(Own(r))
         /\ Len(job.engines) \in Nat
  <1>1. job.groups \in Seq([ranks : SUBSET Peer, gloo : BOOLEAN]) /\ job.engines \in Seq(SUBSET Peer)
    BY GroupsAssumption
  <1>2. Ids = 1 .. Len(job.groups) /\ Len(job.groups) \in Nat
    BY <1>1 DEF Ids
  <1>3. \A n \in Nat : IsFiniteSet(1 .. n) /\ Cardinality(1 .. n) = n
    <2>1. \A n \in Nat : 1 \in Int /\ n \in Int
      OBVIOUS
    <2>2. \A n \in Nat : IsFiniteSet(1 .. n) /\ Cardinality(1 .. n) = IF 1 > n THEN 0 ELSE n - 1 + 1
      BY <2>1, FS_Interval
    <2> QED
      BY <2>2
  <1>4. Ids \in SUBSET Nat /\ 0 \notin Ids
    BY <1>2
  <1>5. IsFiniteSet(Ids) /\ Cardinality(Ids) = Len(job.groups)
    BY <1>2, <1>3
  <1>6. Wrapped \in SUBSET Ids /\ \A r : Own(r) \in SUBSET Wrapped
    BY DEF Wrapped, Own
  <1>7. IsFiniteSet(Wrapped)
    BY <1>5, <1>6, FS_Subset
  <1>8. \A r : IsFiniteSet(Own(r))
    <2>1. ASSUME NEW r PROVE IsFiniteSet(Own(r))
      <3>1. Own(r) \in SUBSET Wrapped
        BY <1>6
      <3> QED
        BY <3>1, <1>7, FS_Subset
    <2> QED
      BY <2>1
  <1>9. \A i \in Ids : job.groups[i].ranks \in SUBSET Peer
    <2>1. \A T : \A q \in Seq(T) : \A i \in DOMAIN q : q[i] \in T
      BY SeqDef
    <2>2. \A i \in Ids : job.groups[i] \in [ranks : SUBSET Peer, gloo : BOOLEAN]
      BY <1>1, <2>1 DEF Ids
    <2> QED
      BY <2>2
  <1>10. Len(job.engines) \in Nat
    BY <1>1
  <1>11. Wrapped \in SUBSET Nat /\ \A r : Own(r) \in SUBSET Nat
    BY <1>4, <1>6
  <1> QED
    BY <1>4, <1>5, <1>6, <1>7, <1>8, <1>9, <1>10, <1>11

\* The names that a call makes groups under: different ones, and never none.
LEMMA UptoNames ==
  ASSUME job \in GroupLayouts, NEW c
  PROVE  /\ Cardinality(Base(c)) \in Nat /\ Wrapped \subseteq Base(c)
         /\ \A i \in Wrapped : Upto(c, i) \in Nat /\ Upto(c, i) # 0
         /\ \A i, j \in Wrapped : Upto(c, i) = Upto(c, j) => i = j
  <1>1. Base(c) \in SUBSET Nat /\ IsFiniteSet(Base(c)) /\ Wrapped \subseteq Base(c)
    BY LayoutFacts DEF Base
  <1>2. \A i : Upto(c, i) = Rank(Base(c), i)
    BY DEF Upto, Rank
  <1> DEFINE B == Base(c)
  <1>3. B \in SUBSET Nat /\ IsFiniteSet(B)
    BY <1>1
  <1> HIDE DEF B
  <1>4. /\ Cardinality(B) \in Nat
        /\ \A i \in B : Rank(B, i) \in 1 .. Cardinality(B)
        /\ \A i, j \in B : Rank(B, i) = Rank(B, j) => i = j
    BY <1>3, RanksCount
  <1>5. \A i \in B : Rank(B, i) \in Nat /\ Rank(B, i) # 0
    BY <1>4
  <1> QED
    BY <1>1, <1>2, <1>4, <1>5 DEF B

LEMMA OwnUses ==
  ASSUME job \in GroupLayouts, NEW r
  PROVE  /\ Uses(r) \in Seq(StepSet) /\ InOrder(Uses(r))
         /\ Kinds(Uses(r)) \subseteq {"use"} /\ UsesOf(Uses(r)) = Own(r)
  <1>1. Own(r) \in SUBSET Nat /\ IsFiniteSet(Own(r))
    BY LayoutFacts
  <1> QED
    BY <1>1, UsesScript DEF Uses

\* What the call c makes the rank r do.
ScriptOf(c, r, new) ==
  CASE c = "init" -> InitCall(r) [] c = "update" -> UpdateCall(r, new) [] c = "train" -> TrainCall(r)
    [] c = "save" -> SaveCall(r) [] c = "offload" -> SleepCall

\* Every call is a sequence of steps in that order.
LEMMA CallScripts ==
  ASSUME job \in GroupLayouts, NEW r, NEW new \in BOOLEAN,
         NEW c \in CallNames, NEW s,
         s = ScriptOf(c, r, new)
  PROVE  /\ s \in Seq(StepSet) /\ InOrder(s)
         /\ Kinds(s) \subseteq Steps(c)
         /\ Steps(c) \ {"use", "connect"} \subseteq Kinds(s)
         /\ "connect" \in Kinds(s) <=> c = "update" /\ new
         /\ UsesOf(s) = IF c = "offload" THEN {} ELSE Own(r)
  <1> DEFINE U == Uses(r)
             A(x) == <<Do(x)>>
  <1>u. U \in Seq(StepSet) /\ InOrder(U) /\ Kinds(U) \subseteq {"use"} /\ UsesOf(U) = Own(r)
    BY OwnUses
  <1>a. \A x \in Things \ {"use"} : A(x) \in Seq(StepSet) /\ InOrder(A(x)) /\ Kinds(A(x)) = {x} /\ UsesOf(A(x)) = {}
    BY OnePart
  <1>n. << >> \in Seq(StepSet) /\ InOrder(<< >>) /\ Kinds(<< >>) = {} /\ UsesOf(<< >>) = {}
    BY NoPart
  <1>t. /\ {"resume", "create", "reload", "connect", "destroy", "pause"} = Things \ {"use"}
        /\ Turn("resume") = 0 /\ Turn("create") = 1 /\ Turn("reload") = 2 /\ Turn("connect") = 3
        /\ Turn("use") = 4 /\ Turn("destroy") = 5 /\ Turn("pause") = 6
    BY DEF Things, Turn
  <1> DEFINE P(p, K, O) == p \in Seq(StepSet) /\ InOrder(p) /\ Kinds(p) = K /\ UsesOf(p) = O
  <1>m. ASSUME NEW p, NEW K, NEW O, P(p, K, O), NEW q, NEW M, NEW Q, P(q, M, Q),
               \A x \in K, y \in M : Turn(x) < Turn(y)
        PROVE  P(p \o q, K \cup M, O \cup Q)
    BY <1>m, TwoParts
  <1>p. P(U, Kinds(U), Own(r)) /\ P(<< >>, {}, {}) /\ \A x \in Things \ {"use"} : P(A(x), {x}, {})
    BY <1>u, <1>a, <1>n
  <1>k. \A x \in Kinds(U) : Turn(x) = 4
    BY <1>u, <1>t
  <1>s. P(SleepCall, {"destroy", "pause"}, {})
    <2>1. P(A("destroy") \o A("pause"), {"destroy"} \cup {"pause"}, {} \cup {})
      <3>1. P(A("destroy"), {"destroy"}, {}) /\ P(A("pause"), {"pause"}, {})
        BY <1>p, <1>t
      <3>2. \A x \in {"destroy"}, y \in {"pause"} : Turn(x) < Turn(y)
        BY <1>t
      <3> HIDE DEF P, A
      <3> QED
        BY <3>1, <3>2, <1>m
    <2>2. SleepCall = A("destroy") \o A("pause")
      BY DEF SleepCall
    <2> HIDE DEF P, A
    <2> QED
      BY <2>1, <2>2
  <1> HIDE DEF P, A, U
  <1>i. P((A("create") \o U) \o SleepCall, ({"create"} \cup Kinds(U)) \cup {"destroy", "pause"}, Own(r))
    <2>1. P(A("create") \o U, {"create"} \cup Kinds(U), {} \cup Own(r))
      <3>1. P(A("create"), {"create"}, {})
        BY <1>p, <1>t
      <3>2. \A x \in {"create"}, y \in Kinds(U) : Turn(x) < Turn(y)
        BY <1>t, <1>k
      <3> QED
        BY <3>1, <3>2, <1>p, <1>m
    <2>2. \A x \in {"create"} \cup Kinds(U), y \in {"destroy", "pause"} : Turn(x) < Turn(y)
      BY <1>t, <1>k
    <2>3. P((A("create") \o U) \o SleepCall, ({"create"} \cup Kinds(U)) \cup {"destroy", "pause"},
            ({} \cup Own(r)) \cup {})
      BY <2>1, <2>2, <1>s, <1>m
    <2>4. ({} \cup Own(r)) \cup {} = Own(r)
      OBVIOUS
    <2> QED
      BY <2>3, <2>4
  <1>r. P(A("resume") \o A("reload"), {"resume", "reload"}, {})
    <2>1. P(A("resume"), {"resume"}, {}) /\ P(A("reload"), {"reload"}, {})
      BY <1>p, <1>t
    <2>2. \A x \in {"resume"}, y \in {"reload"} : Turn(x) < Turn(y)
      BY <1>t
    <2>3. P(A("resume") \o A("reload"), {"resume"} \cup {"reload"}, {} \cup {})
      BY <2>1, <2>2, <1>m
    <2>4. {"resume"} \cup {"reload"} = {"resume", "reload"} /\ {} \cup {} = {}
      OBVIOUS
    <2> QED
      BY <2>3, <2>4
  <1>l. P((A("resume") \o A("reload")) \o U, {"resume", "reload"} \cup Kinds(U), Own(r))
    <2>1. \A x \in {"resume", "reload"}, y \in Kinds(U) : Turn(x) < Turn(y)
      BY <1>t, <1>k
    <2>2. P((A("resume") \o A("reload")) \o U, {"resume", "reload"} \cup Kinds(U), {} \cup Own(r))
      BY <2>1, <1>r, <1>p, <1>m
    <2>3. {} \cup Own(r) = Own(r)
      OBVIOUS
    <2> QED
      BY <2>2, <2>3
  <1>e. ASSUME NEW q, NEW M, M \subseteq {"reload", "connect"}, P(q, M, {})
        PROVE  P((q \o U) \o A("destroy"), (M \cup Kinds(U)) \cup {"destroy"}, Own(r))
    <2>1. \A x \in M, y \in Kinds(U) : Turn(x) < Turn(y)
      BY <1>e, <1>t, <1>k
    <2>2. P(q \o U, M \cup Kinds(U), {} \cup Own(r))
      BY <2>1, <1>e, <1>p, <1>m
    <2>3. \A x \in M \cup Kinds(U), y \in {"destroy"} : Turn(x) < Turn(y)
      BY <1>e, <1>t, <1>k
    <2>4. P(A("destroy"), {"destroy"}, {})
      BY <1>p, <1>t
    <2>5. P((q \o U) \o A("destroy"), (M \cup Kinds(U)) \cup {"destroy"}, ({} \cup Own(r)) \cup {})
      BY <2>2, <2>3, <2>4, <1>m
    <2>6. ({} \cup Own(r)) \cup {} = Own(r)
      OBVIOUS
    <2> QED
      BY <2>5, <2>6
  <1>c. P(A("reload") \o A("connect"), {"reload", "connect"}, {})
    <2>1. P(A("connect"), {"connect"}, {}) /\ P(A("reload"), {"reload"}, {})
      BY <1>p, <1>t
    <2>2. \A x \in {"reload"}, y \in {"connect"} : Turn(x) < Turn(y)
      BY <1>t
    <2>3. P(A("reload") \o A("connect"), {"reload"} \cup {"connect"}, {} \cup {})
      BY <2>1, <2>2, <1>m
    <2>4. {"reload"} \cup {"connect"} = {"reload", "connect"} /\ {} \cup {} = {}
      OBVIOUS
    <2> QED
      BY <2>3, <2>4
  <1>d. P(A("reload"), {"reload"}, {}) /\ P(A("reload") \o << >>, {"reload"}, {})
    <2>1. P(A("reload"), {"reload"}, {})
      BY <1>p, <1>t
    <2>2. P(A("reload") \o << >>, {"reload"} \cup {}, {} \cup {})
      BY <2>1, <1>p, <1>m
    <2>3. {"reload"} \cup {} = {"reload"} /\ {} \cup {} = {}
      OBVIOUS
    <2> QED
      BY <2>1, <2>2, <2>3
  <1>z. \A K \in {Kinds(s)} : K = Kinds(s)
    OBVIOUS
  <1>1. CASE c = "init"
    <2>1. s = (A("create") \o U) \o SleepCall
      BY <1>1 DEF ScriptOf, InitCall, A, U
    <2>2. P(s, ({"create"} \cup Kinds(U)) \cup {"destroy", "pause"}, Own(r))
      BY <2>1, <1>i
    <2> QED
      BY <1>1, <2>2, <1>u DEF P, Steps
  <1>2. CASE c = "update" /\ new
    <2>1. s = ((A("reload") \o A("connect")) \o U) \o A("destroy")
      BY <1>2 DEF ScriptOf, UpdateCall, A, U
    <2>2. P(s, ({"reload", "connect"} \cup Kinds(U)) \cup {"destroy"}, Own(r))
      BY <2>1, <1>c, <1>e
    <2> QED
      BY <1>2, <2>2, <1>u DEF P, Steps
  <1>3. CASE c = "update" /\ ~new
    <2>1. s = ((A("reload") \o << >>) \o U) \o A("destroy")
      BY <1>3 DEF ScriptOf, UpdateCall, A, U
    <2>2. P(s, ({"reload"} \cup Kinds(U)) \cup {"destroy"}, Own(r))
      BY <2>1, <1>d, <1>e
    <2> QED
      BY <1>3, <2>2, <1>u DEF P, Steps
  <1>4. CASE c = "train"
    <2>1. s = (<<Do("resume"), Do("reload")>>) \o U
      BY <1>4 DEF ScriptOf, TrainCall, U
    <2>2. <<Do("resume"), Do("reload")>> = A("resume") \o A("reload")
      BY DEF A
    <2>3. P(s, {"resume", "reload"} \cup Kinds(U), Own(r))
      BY <2>1, <2>2, <1>l
    <2> QED
      BY <1>4, <2>3, <1>u DEF P, Steps
  <1>5. CASE c = "save"
    <2>1. s = (A("reload") \o U) \o A("destroy")
      BY <1>5 DEF ScriptOf, SaveCall, A, U
    <2>2. P(s, ({"reload"} \cup Kinds(U)) \cup {"destroy"}, Own(r))
      BY <2>1, <1>d, <1>e
    <2> QED
      BY <1>5, <2>2, <1>u DEF P, Steps
  <1>6. CASE c = "offload"
    <2>1. s = SleepCall
      BY <1>6 DEF ScriptOf
    <2>2. P(s, {"destroy", "pause"}, {})
      BY <2>1, <1>s
    <2> QED
      BY <1>6, <2>2 DEF P, Steps
  <1> QED
    BY <1>1, <1>2, <1>3, <1>4, <1>5, <1>6 DEF CallNames

\* The layout of a job stays, and what fits together with it.
LEMMA LayoutFixed ==
  ASSUME job' = job
  PROVE  /\ Ids' = Ids /\ Wrapped' = Wrapped
         /\ \A r, c, k, s, n, p, z : RankFits(r, c, k, s, n, p, z)' <=> RankFits(r, c, k, s, n, p, z)
         /\ \A r, q, c, s, t, n, o, h, l, p, v :
              PairFits(r, q, c, s, t, n, o, h, l, p, v)' <=> PairFits(r, q, c, s, t, n, o, h, l, p, v)
  BY DEF Ids, Wrapped, RankFits, PairFits, Own, Alive, Dead, InEngine, Pending, Base, Upto, Makes, Ended

\* What every step does to the whole, from what it does to a rank and to two.
LEMMA GroupsKept ==
  ASSUME GroupsInv, job' = job, GroupsTypeOK',
         NEW Moved \in SUBSET Peer,
         \A q \in Peer \ Moved : /\ left'[q] = left[q] /\ inner'[q] = inner[q] /\ made'[q] = made[q]
                                 /\ ipc'[q] = ipc[q] /\ slept'[q] = slept[q],
         call' = call /\ connects' = connects,
         \A r \in Moved : RankFits(r, call, connects, left'[r], inner'[r], ipc'[r], slept'[r]),
         ~CountsApart => \A r \in Moved, q \in Peer :
           /\ PairFits(r, q, call, left'[r], left'[q], inner'[r], inner'[q], made'[r], made'[q], ipc'[r], ipc'[q])
           /\ PairFits(q, r, call, left'[q], left'[r], inner'[q], inner'[r], made'[q], made'[r], ipc'[q], ipc'[r])
  PROVE  GroupsInv'
  <1>1. CountsApart' <=> CountsApart
    BY DEF CountsApart
  <1>2. ASSUME NEW r \in Peer PROVE RankOK(r)'
    <2>1. RankFits(r, call, connects, left'[r], inner'[r], ipc'[r], slept'[r])
      <3>1. CASE r \in Moved
        BY <3>1
      <3>2. CASE r \notin Moved
        <4>1. RankFits(r, call, connects, left[r], inner[r], ipc[r], slept[r])
          BY DEF GroupsInv, RankOK
        <4> QED
          BY <3>2, <4>1
      <3> QED
        BY <3>1, <3>2
    <2>2. \A c \in {call'}, k \in {connects'}, s \in {left'[r]}, n \in {inner'[r]}, p \in {ipc'[r]},
             z \in {slept'[r]} : RankFits(r, c, k, s, n, p, z)
      BY <2>1
    <2>3. \A c \in {call'}, k \in {connects'}, s \in {left'[r]}, n \in {inner'[r]}, p \in {ipc'[r]},
             z \in {slept'[r]} : RankFits(r, c, k, s, n, p, z)'
      BY <2>2, LayoutFixed
    <2> QED
      BY <2>3 DEF RankOK
  <1>3. ASSUME ~CountsApart, NEW r \in Peer, NEW q \in Peer PROVE PairOK(r, q)'
    <2>1. PairFits(r, q, call, left'[r], left'[q], inner'[r], inner'[q], made'[r], made'[q], ipc'[r], ipc'[q])
      <3>1. CASE r \in Moved \/ q \in Moved
        BY <1>3, <3>1
      <3>2. CASE r \notin Moved /\ q \notin Moved
        <4>1. PairFits(r, q, call, left[r], left[q], inner[r], inner[q], made[r], made[q], ipc[r], ipc[q])
          BY <1>3 DEF GroupsInv, PairOK
        <4> QED
          BY <3>2, <4>1
      <3> QED
        BY <3>1, <3>2
    <2>2. \A c \in {call'}, s \in {left'[r]}, t \in {left'[q]}, n \in {inner'[r]}, o \in {inner'[q]},
             h \in {made'[r]}, l \in {made'[q]}, p \in {ipc'[r]}, v \in {ipc'[q]} :
            PairFits(r, q, c, s, t, n, o, h, l, p, v)
      BY <2>1
    <2>3. \A c \in {call'}, s \in {left'[r]}, t \in {left'[q]}, n \in {inner'[r]}, o \in {inner'[q]},
             h \in {made'[r]}, l \in {made'[q]}, p \in {ipc'[r]}, v \in {ipc'[q]} :
            PairFits(r, q, c, s, t, n, o, h, l, p, v)'
      BY <2>2, LayoutFixed
    <2> QED
      BY <2>3 DEF PairOK
  <1> QED
    BY <1>1, <1>2, <1>3 DEF GroupsInv

\* The steps of a call, by the first that is left.
LEMMA FirstStep ==
  ASSUME NEW s \in Seq(StepSet), InOrder(s), s # << >>, NEW c \in CallNames, Kinds(s) \subseteq Steps(c)
  PROVE  LET K == Kinds(s)
             h == Head(s).do
         IN  /\ h \in K /\ h \in Things
             /\ h = "create" => c = "init" /\ "reload" \notin K /\ "resume" \notin K
             /\ h = "reload" => "create" \notin K /\ "resume" \notin K
             /\ h = "connect" => c = "update" /\ K \cap {"create", "reload", "resume"} = {}
             /\ h = "use" => c # "offload" /\ K \cap {"create", "reload", "resume", "connect"} = {}
             /\ h = "destroy" => c # "train" /\ K \cap {"create", "reload", "resume", "connect", "use"} = {}
             /\ h = "pause" => c \in {"init", "offload"} /\ K = {"pause"}
             /\ h = "resume" => c = "train"
  <1> DEFINE h == Head(s).do
  <1>1. /\ Head(s) \in StepSet /\ h \in Kinds(s) /\ \A x \in Kinds(s) : Turn(h) <= Turn(x)
    BY OneStepLess
  <1>2. h \in Things
    BY <1>1 DEF StepSet
  <1>3. Kinds(s) \subseteq Things
    <2>1. Steps(c) \subseteq Things
      BY DEF Steps, CallNames, Things
    <2> QED
      BY <2>1
  <1>4. /\ Turn("resume") = 0 /\ Turn("create") = 1 /\ Turn("reload") = 2 /\ Turn("connect") = 3
        /\ Turn("use") = 4 /\ Turn("destroy") = 5 /\ Turn("pause") = 6
    BY DEF Turn
  <1>5. h \in Steps(c)
    BY <1>1
  <1>6. /\ h = "create" => c = "init"
        /\ h = "connect" => c = "update"
        /\ h = "use" => c # "offload"
        /\ h = "destroy" => c # "train"
        /\ h = "pause" => c \in {"init", "offload"}
        /\ h = "resume" => c = "train"
    BY <1>5 DEF Steps, CallNames
  <1> HIDE DEF h
  <1>7. /\ h = "create" => "resume" \notin Kinds(s)
        /\ h = "reload" => "create" \notin Kinds(s) /\ "resume" \notin Kinds(s)
        /\ h = "connect" => Kinds(s) \cap {"create", "reload", "resume"} = {}
        /\ h = "use" => Kinds(s) \cap {"create", "reload", "resume", "connect"} = {}
        /\ h = "destroy" => Kinds(s) \cap {"create", "reload", "resume", "connect", "use"} = {}
        /\ h = "pause" => Kinds(s) \cap {"create", "reload", "resume", "connect", "use", "destroy"} = {}
    BY <1>1, <1>4
  <1>8. h = "pause" => Kinds(s) = {"pause"}
    BY <1>1, <1>3, <1>7 DEF Things
  <1>9. c = "init" => "reload" \notin Kinds(s)
    BY DEF Steps
  <1> QED
    BY <1>1, <1>2, <1>6, <1>7, <1>8, <1>9 DEF h

\* What fits a rank fits it twice.
LEMMA PairSelf ==
  ASSUME job \in GroupLayouts, NEW r, NEW c, NEW k, NEW s, NEW n, NEW h, NEW p, NEW z,
         RankFits(r, c, k, s, n, p, z)
  PROVE  PairFits(r, r, c, s, s, n, n, h, h, p, p)
  <1>1. Makes(c, Kinds(s)) => Dead(n)
    BY DEF RankFits
  <1>2. Dead(n) /\ Alive(n) => Wrapped = {}
    BY LayoutFacts DEF Dead, Alive
  <1> QED
    BY <1>1, <1>2 DEF PairFits

\* A step of the rank r from the names n, h groups made, p and z to d, g, w and y:
\* what fits the rank fits after the step, and so with any other rank.
Fits(r, c, k, s, n, h, p, z, d, g, w, y) ==
  /\ RankFits(r, c, k, Tail(s), d, w, y)
  /\ \A q, t, o, v : \A l \in Nat :
       PairFits(r, q, c, s, t, n, o, h, l, p, v) /\ PairFits(q, r, c, t, s, o, n, l, h, v, p) =>
         /\ PairFits(r, q, c, Tail(s), t, d, o, g, l, w, v)
         /\ PairFits(q, r, c, t, Tail(s), o, d, l, g, v, w)

\* The steps that make no group, one by one: what fits a rank, and two, fits
\* after the step.
LEMMA DestroyFits ==
  ASSUME job \in GroupLayouts, NEW r, NEW c \in CallNames, NEW k, NEW s \in Seq(StepSet), s # << >>,
         NEW n, NEW p, NEW z, RankFits(r, c, k, s, n, p, z), Head(s).do = "destroy",
         NEW h, NEW d, d = [i \in Ids |-> NoGroup]
  PROVE  Fits(r, c, k, s, n, h, p, z, d, h, p, z)
  <1> DEFINE K == Kinds(s)
             H == Kinds(Tail(s))
  <1>1. /\ InOrder(s) /\ K \subseteq Steps(c) /\ UsesOf(s) \subseteq Own(r)
    BY DEF RankFits
  <1>2. /\ Tail(s) \in Seq(StepSet) /\ InOrder(Tail(s)) /\ H = K \ {"destroy"} /\ UsesOf(Tail(s)) = UsesOf(s)
    BY <1>1, OneStepLess
  <1>3. /\ "destroy" \in K /\ c # "train" /\ K \cap {"create", "reload", "resume", "connect", "use"} = {}
    BY <1>1, FirstStep
  <1>4. Dead(d) /\ (Alive(d) => Wrapped = {}) /\ \A i \in Wrapped : d[i] = NoGroup
    BY LayoutFacts DEF Dead, Alive
  <1>5. ~Makes(c, K) /\ ~Makes(c, H) /\ Ended(c, H) /\ ("connect" \in K <=> "connect" \in H)
    BY <1>2, <1>3 DEF Makes, Ended
  <1>6. \A w : Pending(c, K, w) = Pending(c, H, w)
    BY <1>5 DEF Pending
  <1>7. RankFits(r, c, k, Tail(s), d, p, z)
    <2>1. /\ z => /\ c = "init" => H = {}
                  /\ c = "train" => "resume" \in H
                  /\ c # "save"
      BY <1>2, <1>3 DEF RankFits
    <2>2. /\ "connect" \in H => k >= 1
          /\ k = 0 => ~p
          /\ k = 1 /\ "connect" \in H => ~p
          /\ (k >= 1 /\ "connect" \notin H) \/ k >= 2 => (p <=> InEngine(r))
      BY <1>5 DEF RankFits
    <2>3. H \cap {"create", "reload", "use"} = {} /\ "resume" \notin H /\ H \subseteq Steps(c)
      BY <1>1, <1>2, <1>3
    <2> HIDE DEF K, H
    <2> QED
      BY <1>1, <1>2, <1>4, <1>5, <2>1, <2>2, <2>3 DEF RankFits, H
  <1>8. ASSUME NEW q, NEW t, NEW o, NEW l, NEW v
        PROVE  /\ PairFits(r, q, c, s, t, n, o, h, l, p, v) => PairFits(r, q, c, Tail(s), t, d, o, h, l, p, v)
               /\ PairFits(q, r, c, t, s, o, n, l, h, v, p) => PairFits(q, r, c, t, Tail(s), o, d, l, h, v, p)
    BY <1>2, <1>4, <1>5, <1>6 DEF PairFits
  <1> QED
    BY <1>7, <1>8 DEF Fits

LEMMA SleepFits ==
  ASSUME job \in GroupLayouts, NEW r, NEW c \in CallNames, NEW k, NEW s \in Seq(StepSet), s # << >>,
         NEW n, NEW p, NEW z, RankFits(r, c, k, s, n, p, z), Head(s).do = "pause"
,
         NEW h
  PROVE  Fits(r, c, k, s, n, h, p, z, n, h, p, TRUE)
  <1> DEFINE K == Kinds(s)
             H == Kinds(Tail(s))
  <1>1. /\ InOrder(s) /\ K \subseteq Steps(c) /\ UsesOf(s) \subseteq Own(r)
    BY DEF RankFits
  <1>2. /\ Tail(s) \in Seq(StepSet) /\ InOrder(Tail(s)) /\ H = K \ {"pause"} /\ UsesOf(Tail(s)) = UsesOf(s)
    BY <1>1, OneStepLess
  <1>3. c \in {"init", "offload"} /\ K = {"pause"}
    BY <1>1, FirstStep
  <1>4. H = {} /\ ~Makes(c, K) /\ ~Makes(c, H) /\ Ended(c, H) /\ Ended(c, K)
    BY <1>2, <1>3 DEF Makes, Ended
  <1>5. \A w : Pending(c, K, w) = Pending(c, H, w)
    BY <1>3, <1>4 DEF Pending
  <1>6. RankFits(r, c, k, Tail(s), n, p, TRUE)
    <2>1. /\ k = 0 => ~p
          /\ (k >= 1 /\ "connect" \notin H) \/ k >= 2 => (p <=> InEngine(r))
      BY <1>3, <1>4 DEF RankFits
    <2>2. Dead(n) /\ \A i, j \in Wrapped : n[i] = n[j] /\ n[i] # NoGroup => i = j
      BY <1>4 DEF RankFits
    <2> QED
      BY <1>1, <1>2, <1>3, <1>4, <2>1, <2>2 DEF RankFits
  <1>7. ASSUME NEW q, NEW t, NEW o, NEW l, NEW v
        PROVE  /\ PairFits(r, q, c, s, t, n, o, h, l, p, v) => PairFits(r, q, c, Tail(s), t, n, o, h, l, p, v)
               /\ PairFits(q, r, c, t, s, o, n, l, h, v, p) => PairFits(q, r, c, t, Tail(s), o, n, l, h, v, p)
    BY <1>2, <1>4, <1>5 DEF PairFits
  <1> QED
    BY <1>6, <1>7 DEF Fits

LEMMA WakeFits ==
  ASSUME job \in GroupLayouts, NEW r, NEW c \in CallNames, NEW k, NEW s \in Seq(StepSet), s # << >>,
         NEW n, NEW p, NEW z, RankFits(r, c, k, s, n, p, z), Head(s).do = "resume"
,
         NEW h
  PROVE  Fits(r, c, k, s, n, h, p, z, n, h, p, FALSE)
  <1> DEFINE K == Kinds(s)
             H == Kinds(Tail(s))
  <1>1. /\ InOrder(s) /\ K \subseteq Steps(c) /\ UsesOf(s) \subseteq Own(r)
    BY DEF RankFits
  <1>2. /\ Tail(s) \in Seq(StepSet) /\ InOrder(Tail(s)) /\ H = K \ {"resume"} /\ UsesOf(Tail(s)) = UsesOf(s)
    BY <1>1, OneStepLess
  <1>3. c = "train"
    BY <1>1, FirstStep
  <1>4. /\ Makes(c, K) <=> Makes(c, H)
        /\ Ended(c, H) <=> Ended(c, K)
        /\ "connect" \in K <=> "connect" \in H
        /\ "resume" \notin H /\ H \subseteq Steps(c)
    BY <1>1, <1>2, <1>3 DEF Makes, Ended
  <1>5. \A w : Pending(c, K, w) = Pending(c, H, w)
    BY <1>4 DEF Pending
  <1>6. RankFits(r, c, k, Tail(s), n, p, FALSE)
    <2>1. /\ "connect" \in H => k >= 1
          /\ k = 0 => ~p
          /\ k = 1 /\ "connect" \in H => ~p
          /\ (k >= 1 /\ "connect" \notin H) \/ k >= 2 => (p <=> InEngine(r))
      BY <1>4 DEF RankFits
    <2>2. /\ Makes(c, H) \/ Ended(c, H) => Dead(n)
          /\ ~Makes(c, H) /\ ~Ended(c, H) /\ c # "offload" => Alive(n)
          /\ \A i, j \in Wrapped : n[i] = n[j] /\ n[i] # NoGroup => i = j
      BY <1>4 DEF RankFits
    <2> HIDE DEF K, H
    <2> QED
      BY <1>1, <1>2, <1>3, <1>4, <2>1, <2>2 DEF RankFits, H
  <1>7. ASSUME NEW q, NEW t, NEW o, NEW l, NEW v
        PROVE  /\ PairFits(r, q, c, s, t, n, o, h, l, p, v) => PairFits(r, q, c, Tail(s), t, n, o, h, l, p, v)
               /\ PairFits(q, r, c, t, s, o, n, l, h, v, p) => PairFits(q, r, c, t, Tail(s), o, n, l, h, v, p)
    BY <1>2, <1>4, <1>5 DEF PairFits
  <1> QED
    BY <1>6, <1>7, ZenonT(40) DEF Fits

\* Groups to gather for an engine are made once, by all, and again only by the
\* ranks outside of the engines.
LEMMA ConnectFits ==
  ASSUME job \in GroupLayouts, NEW r, NEW c \in CallNames, NEW k, NEW s \in Seq(StepSet), s # << >>,
         NEW n, NEW p, NEW z, RankFits(r, c, k, s, n, p, z), Head(s).do = "connect",
         k \in Nat, p \in BOOLEAN, NEW h \in Nat,
         NEW g, g = IF p THEN h ELSE h + Len(job.engines), NEW w \in BOOLEAN, w = (p \/ InEngine(r))
  PROVE  Fits(r, c, k, s, n, h, p, z, n, g, w, z)
  <1> DEFINE K == Kinds(s)
             H == Kinds(Tail(s))
  <1>1. /\ InOrder(s) /\ K \subseteq Steps(c) /\ UsesOf(s) \subseteq Own(r)
    BY DEF RankFits
  <1>2. /\ Tail(s) \in Seq(StepSet) /\ InOrder(Tail(s)) /\ H = K \ {"connect"} /\ UsesOf(Tail(s)) = UsesOf(s)
    BY <1>1, OneStepLess
  <1>3. c = "update" /\ "connect" \in K /\ K \cap {"create", "reload", "resume"} = {}
    BY <1>1, FirstStep
  <1>4. /\ ~Makes(c, K) /\ ~Makes(c, H) /\ (Ended(c, H) <=> Ended(c, K))
        /\ "connect" \notin H /\ "resume" \notin H /\ H \subseteq Steps(c)
        /\ H \cap {"create", "reload", "use"} = K \cap {"create", "reload", "use"}
        /\ "destroy" \in H <=> "destroy" \in K
    BY <1>1, <1>2, <1>3 DEF Makes, Ended
  <1>5. Len(job.engines) \in Nat
    BY LayoutFacts
  <1>6. g \in Nat /\ Pending(c, H, w) = 0 /\ Pending(c, K, p) \in Nat /\ g + Pending(c, H, w) = h + Pending(c, K, p)
    <2>1. Pending(c, K, p) = IF ~p THEN Len(job.engines) ELSE 0
      BY <1>3, <1>4, <1>5 DEF Pending
    <2>2. Pending(c, H, w) = 0
      BY <1>4 DEF Pending
    <2> QED
      BY <1>5, <2>1, <2>2
  <1>7. RankFits(r, c, k, Tail(s), n, w, z)
    <2>1. w <=> InEngine(r)
      <3>1. k >= 1 /\ (k = 1 => ~p) /\ (k >= 2 => (p <=> InEngine(r)))
        BY <1>3 DEF RankFits
      <3>2. k = 1 \/ k >= 2
        BY <3>1
      <3> QED
        BY <3>1, <3>2
    <2>2. k # 0
      BY <1>3 DEF RankFits
    <2>3. /\ Makes(c, H) \/ Ended(c, H) => Dead(n)
          /\ ~Makes(c, H) /\ ~Ended(c, H) /\ c # "offload" => Alive(n)
          /\ \A i, j \in Wrapped : n[i] = n[j] /\ n[i] # NoGroup => i = j
      BY <1>4 DEF RankFits
    <2>4. c \in {"init", "update", "save"} /\ H \cap {"create", "reload", "use"} # {} => "destroy" \in H
      BY <1>4 DEF RankFits
    <2> HIDE DEF K, H
    <2> QED
      BY <1>1, <1>2, <1>3, <1>4, <2>1, <2>2, <2>3, <2>4 DEF RankFits, H
  <1>8. ASSUME NEW q, NEW t, NEW o, NEW v, NEW l \in Nat
        PROVE  /\ PairFits(r, q, c, s, t, n, o, h, l, p, v) => PairFits(r, q, c, Tail(s), t, n, o, g, l, w, v)
               /\ PairFits(q, r, c, t, s, o, n, l, h, v, p) => PairFits(q, r, c, t, Tail(s), o, n, l, g, v, w)
    BY <1>2, <1>4, <1>6 DEF PairFits
  <1> QED
    BY <1>7, <1>8 DEF Fits

\* Groups are made, of all the ranks' and under the names that the others take.
LEMMA MakeFits ==
  ASSUME job \in GroupLayouts, NEW r, NEW c \in CallNames, NEW k, NEW s \in Seq(StepSet), s # << >>,
         NEW n, NEW p, NEW z, RankFits(r, c, k, s, n, p, z),
         Head(s).do = "create" \/ (Head(s).do = "reload" /\ c \in {"update", "train"}),
         k \in Nat, p \in BOOLEAN, NEW h \in Nat,
         NEW g, g = h + Cardinality(Base(c)),
         NEW d, \A i \in Wrapped : d[i] = h + Upto(c, i)
  PROVE  Fits(r, c, k, s, n, h, p, z, d, g, p, z)
  <1> DEFINE K == Kinds(s)
             H == Kinds(Tail(s))
             x == Head(s).do
  <1>1. /\ InOrder(s) /\ K \subseteq Steps(c) /\ UsesOf(s) \subseteq Own(r)
    BY DEF RankFits
  <1>2. /\ Tail(s) \in Seq(StepSet) /\ InOrder(Tail(s)) /\ H = K \ {x} /\ UsesOf(Tail(s)) = UsesOf(s)
    BY <1>1, OneStepLess
  <1>3. /\ x \in {"create", "reload"} /\ x \in K /\ H \cap {"create", "reload", "resume"} = {}
        /\ c = "init" \/ c = "update" \/ c = "train"
    <2>1. /\ x \in K
          /\ x = "create" => c = "init" /\ "reload" \notin K /\ "resume" \notin K
          /\ x = "reload" => "create" \notin K /\ "resume" \notin K
      BY <1>1, FirstStep
    <2> QED
      BY <1>2, <2>1
  <1>4. Makes(c, K) /\ ~Makes(c, H) /\ ("connect" \in K <=> "connect" \in H) /\ H \subseteq Steps(c)
    BY <1>1, <1>2, <1>3 DEF Makes
  <1>5. ~Ended(c, H) /\ (c \in {"init", "update", "save"} => "destroy" \in H)
    <2>1. c \in {"init", "update", "save"} => "destroy" \in K
      BY <1>3 DEF RankFits
    <2> QED
      BY <1>2, <1>3, <2>1 DEF Ended
  <1>u. /\ Cardinality(Base(c)) \in Nat /\ Len(job.engines) \in Nat
        /\ \A i \in Wrapped : Upto(c, i) \in Nat /\ Upto(c, i) # 0
        /\ \A i, j \in Wrapped : Upto(c, i) = Upto(c, j) => i = j
    BY UptoNames, LayoutFacts
  <1>6. Alive(d) /\ \A i, j \in Wrapped : d[i] = d[j] => i = j
    <2>1. ASSUME NEW i \in Wrapped PROVE d[i] # NoGroup
      BY <1>u, <2>1 DEF NoGroup
    <2>2. ASSUME NEW i \in Wrapped, NEW j \in Wrapped, d[i] = d[j] PROVE i = j
      <3>1. h + Upto(c, i) = h + Upto(c, j)
        BY <2>2
      <3>2. Upto(c, i) = Upto(c, j)
        BY <1>u, <3>1
      <3> QED
        BY <1>u, <3>2
    <2> QED
      BY <2>1, <2>2 DEF Alive
  <1>7. /\ g \in Nat /\ Pending(c, H, p) \in Nat /\ Pending(c, K, p) \in Nat
        /\ g + Pending(c, H, p) = h + Pending(c, K, p)
    <2>1. PICK b \in Nat : b = Cardinality(Base(c))
      BY <1>u
    <2>2. PICK e \in Nat : e = IF "connect" \in H /\ ~p THEN Len(job.engines) ELSE 0
      BY <1>u
    <2>3. Pending(c, H, p) = 0 + e /\ Pending(c, K, p) = b + e
      BY <1>4, <2>1, <2>2 DEF Pending
    <2>4. g = h + b
      BY <2>1
    <2> HIDE DEF H, K
    <2> QED
      BY <2>3, <2>4
  <1>8. RankFits(r, c, k, Tail(s), d, p, z)
    <2>1. /\ "connect" \in H => k >= 1
          /\ k = 0 => ~p
          /\ k = 1 /\ "connect" \in H => ~p
          /\ (k >= 1 /\ "connect" \notin H) \/ k >= 2 => (p <=> InEngine(r))
      BY <1>4 DEF RankFits
    <2>2. /\ z => /\ c = "init" => H = {}
                  /\ c = "train" => "resume" \in H
                  /\ c # "save"
      <3>1. K # {} /\ "resume" \notin K
        BY <1>2, <1>3
      <3> QED
        BY <1>3, <3>1 DEF RankFits
    <2> HIDE DEF K, H, x
    <2> QED
      BY <1>1, <1>2, <1>3, <1>4, <1>5, <1>6, <2>1, <2>2 DEF RankFits, H
  <1>9. ASSUME NEW q, NEW t, NEW o, NEW v, NEW l \in Nat,
               PairFits(r, q, c, s, t, n, o, h, l, p, v), PairFits(q, r, c, t, s, o, n, l, h, v, p)
        PROVE  /\ PairFits(r, q, c, Tail(s), t, d, o, g, l, p, v)
               /\ PairFits(q, r, c, t, Tail(s), o, d, l, g, v, p)
    <2>1. \A i \in Own(r) \cap Own(q) : i \in UsesOf(Tail(s)) <=> i \in UsesOf(t)
      BY <1>2, <1>9 DEF PairFits
    <2>2. g + Pending(c, H, p) = l + Pending(c, Kinds(t), v)
      BY <1>7, <1>9 DEF PairFits
    <2>3. Makes(c, Kinds(t)) => h = l
      BY <1>4, <1>9 DEF PairFits
    <2>4. Alive(o) => \A i \in Wrapped : o[i] = h + Upto(c, i)
      BY <1>4, <1>9 DEF PairFits
    <2>5. Makes(c, Kinds(t)) => \A i \in Wrapped : d[i] = l + Upto(c, i)
      BY <2>3
    <2>6. Alive(o) => \A i \in Wrapped : d[i] = o[i]
      BY <2>4
    <2>7. \A i \in Own(q) \cap Own(r) : i \in UsesOf(t) <=> i \in UsesOf(Tail(s))
      BY <2>1
    <2> QED
      BY <1>4, <2>1, <2>2, <2>5, <2>6, <2>7 DEF PairFits
  <1> QED
    BY <1>8, <1>9 DEF Fits

\* Saving finds all groups there.
LEMMA FoundFits ==
  ASSUME job \in GroupLayouts, NEW r, NEW c \in CallNames, NEW k, NEW s \in Seq(StepSet), s # << >>,
         NEW n, NEW p, NEW z, RankFits(r, c, k, s, n, p, z), Head(s).do = "reload",
         c = "save", NEW h
  PROVE  Alive(n) /\ Fits(r, c, k, s, n, h, p, z, n, h, p, z)
  <1> DEFINE K == Kinds(s)
             H == Kinds(Tail(s))
  <1>1. /\ InOrder(s) /\ K \subseteq Steps(c) /\ UsesOf(s) \subseteq Own(r)
    BY DEF RankFits
  <1>2. /\ Tail(s) \in Seq(StepSet) /\ InOrder(Tail(s)) /\ H = K \ {"reload"} /\ UsesOf(Tail(s)) = UsesOf(s)
    BY <1>1, OneStepLess
  <1>3. "reload" \in K /\ "create" \notin K /\ "resume" \notin K
    BY <1>1, FirstStep
  <1>4. "destroy" \in K
    BY <1>3 DEF RankFits
  <1>5. /\ ~Makes(c, K) /\ ~Makes(c, H) /\ ~Ended(c, H) /\ ~Ended(c, K)
        /\ ("connect" \in K <=> "connect" \in H) /\ H \subseteq Steps(c)
    BY <1>1, <1>2, <1>3, <1>4 DEF Makes, Ended
  <1>6. \A w : Pending(c, K, w) = Pending(c, H, w)
    BY <1>5 DEF Pending
  <1>7. Alive(n)
    BY <1>5 DEF RankFits
  <1>8. RankFits(r, c, k, Tail(s), n, p, z)
    <2>1. /\ "connect" \in H => k >= 1
          /\ k = 0 => ~p
          /\ k = 1 /\ "connect" \in H => ~p
          /\ (k >= 1 /\ "connect" \notin H) \/ k >= 2 => (p <=> InEngine(r))
      BY <1>5 DEF RankFits
    <2>2. ~z /\ \A i, j \in Wrapped : n[i] = n[j] /\ n[i] # NoGroup => i = j
      BY DEF RankFits
    <2>3. "destroy" \in H /\ "resume" \notin H
      BY <1>2, <1>3, <1>4
    <2> HIDE DEF K, H
    <2> QED
      BY <1>1, <1>2, <1>5, <1>7, <2>1, <2>2, <2>3 DEF RankFits, H
  <1>9. ASSUME NEW q, NEW t, NEW o, NEW l, NEW v
        PROVE  /\ PairFits(r, q, c, s, t, n, o, h, l, p, v) => PairFits(r, q, c, Tail(s), t, n, o, h, l, p, v)
               /\ PairFits(q, r, c, t, s, o, n, l, h, v, p) => PairFits(q, r, c, t, Tail(s), o, n, l, h, v, p)
    BY <1>2, <1>5, <1>6 DEF PairFits
  <1> QED
    BY <1>7, <1>8, <1>9 DEF Fits

\* A rank at a collective has its groups.
LEMMA UseFits ==
  ASSUME job \in GroupLayouts, NEW r, NEW c \in CallNames, NEW k, NEW s \in Seq(StepSet), s # << >>,
         NEW n, NEW p, NEW z, RankFits(r, c, k, s, n, p, z), Head(s).do = "use"
  PROVE  /\ Alive(n) /\ Head(s).group \in Own(r) /\ RankFits(r, c, k, Tail(s), n, p, z)
         /\ UsesOf(Tail(s)) = UsesOf(s) \ {Head(s).group}
         /\ Head(s).group \in UsesOf(s) /\ \A i \in UsesOf(s) : Head(s).group <= i
         /\ ~Makes(c, Kinds(s)) /\ ~Makes(c, Kinds(Tail(s)))
         /\ \A w : Pending(c, Kinds(s), w) = Pending(c, Kinds(Tail(s)), w)
         /\ c # "update" => z # TRUE
  <1> DEFINE K == Kinds(s)
             H == Kinds(Tail(s))
  <1>1. /\ InOrder(s) /\ K \subseteq Steps(c) /\ UsesOf(s) \subseteq Own(r)
    BY DEF RankFits
  <1>2. /\ Tail(s) \in Seq(StepSet) /\ InOrder(Tail(s)) /\ K = H \cup {"use"}
        /\ UsesOf(Tail(s)) = UsesOf(s) \ {Head(s).group} /\ Head(s).group \in UsesOf(s)
        /\ \A i \in UsesOf(s) : Head(s).group <= i
    BY <1>1, OneStepLess
  <1>3. "use" \in K /\ c # "offload" /\ K \cap {"create", "reload", "resume", "connect"} = {}
    BY <1>1, FirstStep
  <1>4. ~Makes(c, K) /\ ~Makes(c, H) /\ "connect" \notin H /\ "connect" \notin K /\ H \subseteq Steps(c)
    BY <1>1, <1>2, <1>3 DEF Makes
  <1>5. \A w : Pending(c, K, w) = Pending(c, H, w)
    BY <1>4 DEF Pending
  <1>6. c \in {"init", "update", "save"} => "destroy" \in K /\ "destroy" \in H
    <2>1. c \in {"init", "update", "save"} => "destroy" \in K
      BY <1>3 DEF RankFits
    <2> QED
      BY <1>2, <2>1
  <1>7. c = "train" \/ c \in {"init", "update", "save"}
    BY <1>3 DEF CallNames
  <1>8. ~Ended(c, K) /\ ~Ended(c, H)
    BY <1>6, <1>7 DEF Ended
  <1>9. Alive(n)
    BY <1>3, <1>4, <1>8 DEF RankFits
  <1>10. z => c = "update"
    <2>1. z => /\ c = "init" => K = {}
               /\ c = "train" => "resume" \in K
               /\ c # "save"
      BY DEF RankFits
    <2> QED
      BY <1>3, <1>7, <2>1
  <1>11. RankFits(r, c, k, Tail(s), n, p, z)
    <2>1. /\ k = 0 => ~p
          /\ k >= 1 \/ k >= 2 => (p <=> InEngine(r))
      BY <1>4 DEF RankFits
    <2>2. \A i, j \in Wrapped : n[i] = n[j] /\ n[i] # NoGroup => i = j
      BY DEF RankFits
    <2>3. UsesOf(Tail(s)) \subseteq Own(r) /\ "resume" \notin H
      BY <1>1, <1>2, <1>3
    <2> HIDE DEF K, H
    <2> QED
      BY <1>2, <1>4, <1>6, <1>8, <1>9, <1>10, <2>1, <2>2, <2>3 DEF RankFits, H
  <1> QED
    BY <1>1, <1>2, <1>4, <1>5, <1>9, <1>10, <1>11

\* Both ranks are in the collective, or only the first is, which the second has
\* no part in.
LEMMA MeetFits ==
  ASSUME NEW r, NEW q, NEW c, NEW s, NEW t, NEW n, NEW o, NEW h, NEW l, NEW p, NEW v, NEW g,
         UsesOf(Tail(s)) = UsesOf(s) \ {g}, ~Makes(c, Kinds(s)), ~Makes(c, Kinds(Tail(s))),
         \A w : Pending(c, Kinds(s), w) = Pending(c, Kinds(Tail(s)), w),
         PairFits(r, q, c, s, t, n, o, h, l, p, v), PairFits(q, r, c, t, s, o, n, l, h, v, p)
  PROVE  /\ g \notin Own(q) => /\ PairFits(r, q, c, Tail(s), t, n, o, h, l, p, v)
                               /\ PairFits(q, r, c, t, Tail(s), o, n, l, h, v, p)
         /\ /\ UsesOf(Tail(t)) = UsesOf(t) \ {g} /\ ~Makes(c, Kinds(t)) /\ ~Makes(c, Kinds(Tail(t)))
            /\ \A w : Pending(c, Kinds(t), w) = Pending(c, Kinds(Tail(t)), w)
            => PairFits(r, q, c, Tail(s), Tail(t), n, o, h, l, p, v)
  <1>1. ASSUME g \notin Own(q)
        PROVE  /\ PairFits(r, q, c, Tail(s), t, n, o, h, l, p, v)
               /\ PairFits(q, r, c, t, Tail(s), o, n, l, h, v, p)
    <2>1. \A i \in Own(r) \cap Own(q) : i \in UsesOf(Tail(s)) <=> i \in UsesOf(t)
      BY <1>1 DEF PairFits
    <2> QED
      BY <2>1 DEF PairFits
  <1>2. ASSUME UsesOf(Tail(t)) = UsesOf(t) \ {g}, ~Makes(c, Kinds(t)), ~Makes(c, Kinds(Tail(t))),
               \A w : Pending(c, Kinds(t), w) = Pending(c, Kinds(Tail(t)), w)
        PROVE  PairFits(r, q, c, Tail(s), Tail(t), n, o, h, l, p, v)
    <2>1. \A i \in Own(r) \cap Own(q) : i \in UsesOf(Tail(s)) <=> i \in UsesOf(Tail(t))
      BY <1>2 DEF PairFits
    <2> QED
      BY <1>2, <2>1 DEF PairFits
  <1> QED
    BY <1>1, <1>2

\* The connections after the call c has begun, after j.
Connected(c, j, new) == IF c = "update" /\ new THEN j + 1 ELSE j

\* The call c may come after the call b.
Follows(b, c, j, new) ==
  \/ c = "update" /\ b \in {"init", "offload"} /\ (j = 0 => new)
  \/ c = "train" /\ b = "update"
  \/ c = "save" /\ b = "train"
  \/ c = "offload" /\ b \in {"train", "save"}

\* What a rank is in at the beginning of the call c.
Begun(r, c, j, new, s, n, p, z) ==
  /\ RankFits(r, c, Connected(c, j, new), s, n, p, z)
  /\ c \in {"update", "train"} => Dead(n)
  /\ UsesOf(s) = IF c = "offload" THEN {} ELSE Own(r)
  /\ Makes(c, Kinds(s)) <=> c \in {"update", "train"}
  /\ "connect" \in Kinds(s) <=> c = "update" /\ new
  /\ j = 0 => ~p
  /\ j >= 1 => (p <=> InEngine(r))

\* A call begins, on a rank that has done with the one before.
LEMMA CallFits ==
  ASSUME job \in GroupLayouts, NEW r, NEW b \in CallNames, NEW c \in CallNames, NEW j \in Nat,
         NEW n, NEW p \in BOOLEAN, NEW z, RankFits(r, b, j, << >>, n, p, z), NEW new \in BOOLEAN, NEW s,
         s = ScriptOf(c, r, new),
         Follows(b, c, j, new)
  PROVE  Begun(r, c, j, new, s, n, p, z)
  <1> USE DEF Follows, Begun
  <1> DEFINE K == Kinds(s)
             k == Connected(c, j, new)
  <1>1. /\ s \in Seq(StepSet) /\ InOrder(s) /\ K \subseteq Steps(c)
        /\ Steps(c) \ {"use", "connect"} \subseteq K
        /\ "connect" \in K <=> c = "update" /\ new
        /\ UsesOf(s) = IF c = "offload" THEN {} ELSE Own(r)
    BY CallScripts
  <1>2. Kinds(<< >>) = {}
    BY NoPart
  <1>3. ~Makes(b, {}) /\ (Ended(b, {}) <=> b # "train")
    BY DEF Makes, Ended
  <1>4. /\ b # "train" => Dead(n)
        /\ b = "train" => Alive(n) /\ ~z
        /\ b = "save" => ~z
        /\ \A x, y \in Wrapped : n[x] = n[y] /\ n[x] # NoGroup => x = y
        /\ j = 0 => ~p
        /\ j >= 1 => (p <=> InEngine(r))
    <2> DEFINE E == Kinds(<< >>)
    <2>1. /\ Makes(b, E) \/ Ended(b, E) => Dead(n)
          /\ ~Makes(b, E) /\ ~Ended(b, E) /\ b # "offload" => Alive(n)
          /\ \A x, y \in Wrapped : n[x] = n[y] /\ n[x] # NoGroup => x = y
          /\ z => /\ b = "init" => E = {}
                  /\ b = "train" => "resume" \in E
                  /\ b # "save"
          /\ j = 0 => ~p
          /\ (j >= 1 /\ "connect" \notin E) \/ j >= 2 => (p <=> InEngine(r))
      BY DEF RankFits
    <2> HIDE DEF E
    <2>2. E = {}
      BY <1>2 DEF E
    <2> QED
      BY <1>3, <2>1, <2>2
  <1>5. /\ Makes(c, K) <=> c \in {"update", "train"}
        /\ ~Ended(c, K)
        /\ c \in {"update", "save"} => "destroy" \in K
        /\ "resume" \in K => "reload" \in K
        /\ c = "train" => "resume" \in K
    <2>1. CASE c = "update"
      BY <1>1, <2>1 DEF Steps, Makes, Ended
    <2>2. CASE c = "train"
      BY <1>1, <2>2 DEF Steps, Makes, Ended
    <2>3. CASE c = "save"
      BY <1>1, <2>3 DEF Steps, Makes, Ended
    <2>4. CASE c = "offload"
      BY <1>1, <2>4 DEF Steps, Makes, Ended
    <2> QED
      BY <2>1, <2>2, <2>3, <2>4
  <1>6. /\ "connect" \in K => k >= 1
        /\ k = 0 => ~p
        /\ k = 1 /\ "connect" \in K => ~p
        /\ (k >= 1 /\ "connect" \notin K) \/ k >= 2 => (p <=> InEngine(r))
    <2>1. CASE c = "update" /\ new
      <3>1. k = j + 1 /\ "connect" \in K
        BY <1>1, <2>1 DEF Connected
      <3>2. k >= 1 /\ k # 0 /\ (k = 1 => j = 0) /\ (k >= 2 => j >= 1)
        BY <3>1
      <3> HIDE DEF K, k
      <3> QED
        BY <1>4, <3>1, <3>2
    <2>2. CASE ~(c = "update" /\ new)
      <3>1. k = j /\ "connect" \notin K
        BY <1>1, <2>2 DEF Connected
      <3>2. (k = 0 => j = 0) /\ (k >= 1 \/ k >= 2 => j >= 1)
        BY <3>1
      <3> HIDE DEF K, k
      <3> QED
        BY <1>4, <3>1, <3>2
    <2> QED
      BY <2>1, <2>2
  <1>7. /\ c \in {"update", "train"} => Dead(n)
        /\ c = "save" => Alive(n) /\ ~z
        /\ c # "init"
    BY <1>4
  <1>8. UsesOf(s) \subseteq Own(r)
    BY <1>1
  <1>9. RankFits(r, c, k, s, n, p, z)
    <2> HIDE DEF K, k
    <2>1. /\ c \in {"init", "update", "save"} /\ K \cap {"create", "reload", "use"} # {} => "destroy" \in K
          /\ Makes(c, K) \/ Ended(c, K) => Dead(n)
          /\ ~Makes(c, K) /\ ~Ended(c, K) /\ c # "offload" => Alive(n)
      BY <1>5, <1>7 DEF CallNames
    <2>2. z => /\ c = "init" => K = {}
               /\ c = "train" => "resume" \in K
               /\ c # "save"
      BY <1>5, <1>7
    <2> QED
      BY <1>1, <1>4, <1>5, <1>6, <1>8, <2>1, <2>2 DEF RankFits, K
  <1> QED
    BY <1>1, <1>4, <1>5, <1>7, <1>9

LEMMA CallPairs ==
  ASSUME job \in GroupLayouts, NEW r, NEW q, NEW b \in CallNames, NEW c \in CallNames, NEW s, NEW t, NEW n, NEW o,
         NEW h \in Nat, NEW l \in Nat, NEW p, NEW v, PairFits(r, q, b, << >>, << >>, n, o, h, l, p, v),
         UsesOf(s) = IF c = "offload" THEN {} ELSE Own(r),
         UsesOf(t) = IF c = "offload" THEN {} ELSE Own(q),
         Makes(c, Kinds(s)) <=> c \in {"update", "train"}, Makes(c, Kinds(t)) <=> c \in {"update", "train"},
         c \in {"update", "train"} => Dead(n),
         "connect" \in Kinds(s) <=> "connect" \in Kinds(t), "connect" \in Kinds(s) => (p <=> v)
  PROVE  PairFits(r, q, c, s, t, n, o, h, l, p, v)
  <1>1. Kinds(<< >>) = {} /\ ~Makes(b, {}) /\ \A w : Pending(b, Kinds(<< >>), w) = 0
    <2>1. Kinds(<< >>) = {} /\ ~Makes(b, {})
      BY NoPart DEF Makes
    <2>2. ASSUME NEW w PROVE Pending(b, Kinds(<< >>), w) = 0
      <3>1. "connect" \notin Kinds(<< >>) /\ ~Makes(b, Kinds(<< >>))
        BY <2>1
      <3> QED
        BY <3>1 DEF Pending
    <2> QED
      BY <2>1, <2>2
  <1>2. h = l
    <2>1. h + Pending(b, Kinds(<< >>), p) = l + Pending(b, Kinds(<< >>), v)
      BY DEF PairFits
    <2>2. h + 0 = l + 0
      BY <1>1, <2>1
    <2> QED
      BY <2>2
  <1>3. Pending(c, Kinds(s), p) = Pending(c, Kinds(t), v)
    BY DEF Pending
  <1>4. \A i \in Own(r) \cap Own(q) : i \in UsesOf(s) <=> i \in UsesOf(t)
    BY Zenon
  <1>5. Dead(n) /\ Alive(n) => Wrapped = {}
    BY LayoutFacts DEF Dead, Alive
  <1>6. Alive(n) /\ Alive(o) => \A i \in Wrapped : n[i] = o[i]
    BY DEF PairFits
  <1> QED
    BY <1>2, <1>3, <1>4, <1>5, <1>6 DEF PairFits

LEMMA CallStarts ==
  ASSUME GroupsInv, NEW c \in CallNames, NEW new \in BOOLEAN,
         \A r \in Peer : left[r] = << >>, call' = c, left' = [r \in Peer |-> ScriptOf(c, r, new)],
         UNCHANGED <<job, made, inner, ipc, slept>>,
         \/ c = "update" /\ call \in {"init", "offload"} /\ connects' = (IF new THEN connects + 1 ELSE connects)
            /\ (connects = 0 => new)
         \/ c = "train" /\ call = "update" /\ connects' = connects
         \/ c = "save" /\ call = "train" /\ connects' = connects
         \/ c = "offload" /\ call \in {"train", "save"} /\ connects' = connects
  PROVE  GroupsInv'
  <1>t. /\ job \in GroupLayouts /\ call \in CallNames /\ connects \in Nat
        /\ \A r \in Peer : made[r] \in Nat /\ ipc[r] \in BOOLEAN
    BY DEF GroupsInv, GroupsTypeOK
  <1>k. connects' \in Nat /\ (connects' = connects \/ (c = "update" /\ new /\ connects' = connects + 1))
    BY <1>t
  <1>1. ASSUME NEW r \in Peer
        PROVE  /\ RankFits(r, c, connects', left'[r], inner[r], ipc[r], slept[r])
               /\ c \in {"update", "train"} => Dead(inner[r])
               /\ UsesOf(left'[r]) = IF c = "offload" THEN {} ELSE Own(r)
               /\ Makes(c, Kinds(left'[r])) <=> c \in {"update", "train"}
               /\ "connect" \in Kinds(left'[r]) <=> c = "update" /\ new
               /\ connects = 0 => ~ipc[r]
               /\ connects >= 1 => (ipc[r] <=> InEngine(r))
    <2>1. RankFits(r, call, connects, left[r], inner[r], ipc[r], slept[r])
      BY DEF GroupsInv, RankOK
    <2>2. RankFits(r, call, connects, << >>, inner[r], ipc[r], slept[r])
      BY <2>1
    <2>3. left'[r] = ScriptOf(c, r, new)
      OBVIOUS
    <2>4. PICK b \in CallNames : b = call
      BY <1>t
    <2>5. PICK j \in Nat : j = connects
      BY <1>t
    <2>6. PICK n : n = inner[r]
      OBVIOUS
    <2>7. PICK p \in BOOLEAN : p = ipc[r]
      BY <1>t
    <2>8. PICK z : z = slept[r]
      OBVIOUS
    <2>9. PICK s : s = left'[r]
      OBVIOUS
    <2>10. RankFits(r, b, j, << >>, n, p, z) /\ s = ScriptOf(c, r, new)
      BY <2>2, <2>3, <2>4, <2>5, <2>6, <2>7, <2>8, <2>9, Zenon
    <2>11. Follows(b, c, j, new)
      BY <2>4, <2>5, Zenon DEF Follows
    <2>12. connects' = Connected(c, j, new)
      BY <2>5 DEF Connected
    <2>13. job \in GroupLayouts
      BY <1>t
    <2>14. Begun(r, c, j, new, s, n, p, z)
      BY ONLY <2>13, <2>10, <2>11, CallFits, c \in CallNames, new \in BOOLEAN, b \in CallNames,
              j \in Nat, p \in BOOLEAN
    <2> QED
      BY <2>5, <2>6, <2>7, <2>8, <2>9, <2>12, <2>14, Zenon DEF Begun
  <1>2. GroupsTypeOK'
    <2>1. Ids' = Ids
      BY LayoutFixed
    <2>2. \A r \in Peer : left'[r] \in Seq(StepSet)
      BY <1>1 DEF RankFits
    <2>3. left' \in [Peer -> Seq(StepSet)]
      BY <2>2
    <2> QED
      BY <1>k, <2>1, <2>3 DEF GroupsInv, GroupsTypeOK
  <1>3. ASSUME NEW r \in Peer PROVE RankOK(r)'
    <2>1. \A d \in {call'}, k \in {connects'}, s \in {left'[r]}, n \in {inner'[r]}, p \in {ipc'[r]},
             z \in {slept'[r]} : RankFits(r, d, k, s, n, p, z)
      BY <1>1
    <2>2. \A d \in {call'}, k \in {connects'}, s \in {left'[r]}, n \in {inner'[r]}, p \in {ipc'[r]},
             z \in {slept'[r]} : RankFits(r, d, k, s, n, p, z)'
      BY <2>1, LayoutFixed
    <2> QED
      BY <2>2 DEF RankOK
  <1>4. ASSUME ~CountsApart', NEW r \in Peer, NEW q \in Peer PROVE PairOK(r, q)'
    <2>1. ~CountsApart
      <3>1. connects > 1 => connects' > 1
        BY <1>t, <1>k
      <3> QED
        BY <1>4, <3>1 DEF CountsApart
    <2>2. PairFits(r, q, call, << >>, << >>, inner[r], inner[q], made[r], made[q], ipc[r], ipc[q])
      <3>1. PairFits(r, q, call, left[r], left[q], inner[r], inner[q], made[r], made[q], ipc[r], ipc[q])
        BY <2>1 DEF GroupsInv, PairOK
      <3> QED
        BY <3>1
    <2>3. c = "update" /\ new => (ipc[r] <=> ipc[q])
      <3>1. CASE connects = 0
        BY <1>1, <3>1
      <3>2. CASE connects # 0 /\ c = "update" /\ new
        <4>1. connects >= 1 /\ connects' > 1
          BY <1>t, <3>2
        <4>2. InEngine(r) <=> InEngine(q)
          BY <1>4, <4>1 DEF CountsApart, InEngine
        <4> QED
          BY <1>1, <4>1, <4>2
      <3> QED
        BY <3>1, <3>2
    <2>4. PairFits(r, q, c, left'[r], left'[q], inner[r], inner[q], made[r], made[q], ipc[r], ipc[q])
      <3>1. /\ UsesOf(left'[r]) = IF c = "offload" THEN {} ELSE Own(r)
            /\ UsesOf(left'[q]) = IF c = "offload" THEN {} ELSE Own(q)
            /\ Makes(c, Kinds(left'[r])) <=> c \in {"update", "train"}
            /\ Makes(c, Kinds(left'[q])) <=> c \in {"update", "train"}
            /\ c \in {"update", "train"} => Dead(inner[r])
            /\ "connect" \in Kinds(left'[r]) <=> c = "update" /\ new
            /\ "connect" \in Kinds(left'[q]) <=> c = "update" /\ new
        BY <1>1
      <3>2. /\ "connect" \in Kinds(left'[r]) <=> "connect" \in Kinds(left'[q])
            /\ "connect" \in Kinds(left'[r]) => (ipc[r] <=> ipc[q])
        BY <2>3, <3>1
      <3> DEFINE s == left'[r]
                 t == left'[q]
                 n == inner[r]
                 o == inner[q]
                 h == made[r]
                 l == made[q]
                 p == ipc[r]
                 v == ipc[q]
      <3>3. h \in Nat /\ l \in Nat
        BY <1>t
      <3>4. /\ PairFits(r, q, call, << >>, << >>, n, o, h, l, p, v)
            /\ UsesOf(s) = IF c = "offload" THEN {} ELSE Own(r)
            /\ UsesOf(t) = IF c = "offload" THEN {} ELSE Own(q)
            /\ Makes(c, Kinds(s)) <=> c \in {"update", "train"}
            /\ Makes(c, Kinds(t)) <=> c \in {"update", "train"}
            /\ c \in {"update", "train"} => Dead(n)
            /\ "connect" \in Kinds(s) <=> "connect" \in Kinds(t)
            /\ "connect" \in Kinds(s) => (p <=> v)
        BY <2>2, <3>1, <3>2
      <3> HIDE DEF s, t, n, o, h, l, p, v
      <3>5. PairFits(r, q, c, s, t, n, o, h, l, p, v)
        BY <1>t, <3>3, <3>4, CallPairs
      <3> QED
        BY <3>5 DEF s, t, n, o, h, l, p, v
    <2>5. \A d \in {call'}, s \in {left'[r]}, t \in {left'[q]}, n \in {inner'[r]}, o \in {inner'[q]},
             h \in {made'[r]}, l \in {made'[q]}, p \in {ipc'[r]}, v \in {ipc'[q]} :
            PairFits(r, q, d, s, t, n, o, h, l, p, v)
      BY <2>4
    <2>6. \A d \in {call'}, s \in {left'[r]}, t \in {left'[q]}, n \in {inner'[r]}, o \in {inner'[q]},
             h \in {made'[r]}, l \in {made'[q]}, p \in {ipc'[r]}, v \in {ipc'[q]} :
            PairFits(r, q, d, s, t, n, o, h, l, p, v)'
      BY <2>5, LayoutFixed
    <2> QED
      BY <2>6 DEF PairOK
  <1> QED
    BY <1>2, <1>3, <1>4 DEF GroupsInv

\* A step of one rank.
Moves(r) ==
  /\ left[r] # << >> /\ job' = job /\ call' = call /\ connects' = connects
  /\ left' \in [Peer -> Seq(StepSet)] /\ left'[r] = Tail(left[r])
  /\ made' \in [Peer -> Nat] /\ inner' \in [Peer -> [Ids -> Nat]]
  /\ ipc' \in [Peer -> BOOLEAN] /\ slept' \in [Peer -> BOOLEAN]
  /\ \A q \in Peer \ {r} : /\ left'[q] = left[q] /\ inner'[q] = inner[q] /\ made'[q] = made[q]
                           /\ ipc'[q] = ipc[q] /\ slept'[q] = slept[q]

LEMMA OneMoves ==
  ASSUME GroupsInv, NEW r \in Peer, Moves(r),
         Fits(r, call, connects, left[r], inner[r], made[r], ipc[r], slept[r],
              inner'[r], made'[r], ipc'[r], slept'[r])
  PROVE  GroupsInv'
  <1> USE DEF Moves
  <1> DEFINE n == inner'[r]
             h == made'[r]
             p == ipc'[r]
             z == slept'[r]
  <1>1. /\ left'[r] = Tail(left[r]) /\ inner'[r] = n /\ made'[r] = h /\ ipc'[r] = p /\ slept'[r] = z
        /\ \A q \in Peer \ {r} : /\ left'[q] = left[q] /\ inner'[q] = inner[q] /\ made'[q] = made[q]
                                 /\ ipc'[q] = ipc[q] /\ slept'[q] = slept[q]
    OBVIOUS
  <1>2. job \in GroupLayouts /\ connects \in Nat /\ \A q \in Peer : made[q] \in Nat
    BY DEF GroupsInv, GroupsTypeOK
  <1>3. GroupsTypeOK'
    <2>1. Ids' = Ids
      BY LayoutFixed
    <2> QED
      BY <2>1 DEF GroupsInv, GroupsTypeOK
  <1>4. ASSUME ~CountsApart, NEW q \in Peer
        PROVE  /\ PairFits(r, q, call, Tail(left[r]), left'[q], n, inner'[q], h, made'[q], p, ipc'[q])
               /\ PairFits(q, r, call, left'[q], Tail(left[r]), inner'[q], n, made'[q], h, ipc'[q], p)
    <2>1. CASE q = r
      <3>1. RankFits(r, call, connects, Tail(left[r]), n, p, z)
        BY DEF Fits
      <3> DEFINE s == Tail(left[r])
      <3> HIDE DEF n, h, p, z, s, Moves
      <3>2. RankFits(r, call, connects, s, n, p, z)
        BY <3>1 DEF s
      <3>3. PairFits(r, r, call, s, s, n, n, h, h, p, p)
        BY <1>2, <3>2, PairSelf
      <3> QED
        BY <1>1, <2>1, <3>3 DEF s
    <2>2. CASE q # r
      <3>1. /\ PairFits(r, q, call, left[r], left[q], inner[r], inner[q], made[r], made[q], ipc[r], ipc[q])
            /\ PairFits(q, r, call, left[q], left[r], inner[q], inner[r], made[q], made[r], ipc[q], ipc[r])
        BY <1>4 DEF GroupsInv, PairOK
      <3>2. /\ PairFits(r, q, call, Tail(left[r]), left[q], n, inner[q], h, made[q], p, ipc[q])
            /\ PairFits(q, r, call, left[q], Tail(left[r]), inner[q], n, made[q], h, ipc[q], p)
        BY <1>2, <3>1 DEF Fits
      <3> QED
        BY <1>1, <2>2, <3>2
    <2> QED
      BY <2>1, <2>2
  <1> DEFINE Moved == {r}
  <1>5. /\ Moved \in SUBSET Peer
        /\ \A q \in Peer \ Moved : /\ left'[q] = left[q] /\ inner'[q] = inner[q] /\ made'[q] = made[q]
                                   /\ ipc'[q] = ipc[q] /\ slept'[q] = slept[q]
        /\ \A x \in Moved : RankFits(x, call, connects, left'[x], inner'[x], ipc'[x], slept'[x])
        /\ ~CountsApart => \A x \in Moved, q \in Peer :
           /\ PairFits(x, q, call, left'[x], left'[q], inner'[x], inner'[q], made'[x], made'[q], ipc'[x], ipc'[q])
           /\ PairFits(q, x, call, left'[q], left'[x], inner'[q], inner'[x], made'[q], made'[x], ipc'[q], ipc'[x])
    <2>1. RankFits(r, call, connects, left'[r], inner'[r], ipc'[r], slept'[r])
      BY DEF Fits
    <2> QED
      BY <1>1, <1>4, <2>1
  <1> HIDE DEF Moved
  <1> QED
    BY <1>2, <1>3, <1>5, GroupsKept

\* What a rank has at the beginning of a step.
LEMMA AtStep ==
  ASSUME GroupsInv, NEW r \in Peer
  PROVE  /\ job \in GroupLayouts /\ call \in CallNames /\ connects \in Nat
         /\ left[r] \in Seq(StepSet) /\ inner[r] \in [Ids -> Nat] /\ made[r] \in Nat
         /\ ipc[r] \in BOOLEAN /\ slept[r] \in BOOLEAN
         /\ RankFits(r, call, connects, left[r], inner[r], ipc[r], slept[r])
  BY DEF GroupsInv, GroupsTypeOK, RankOK

\* The other ranks stay as they are.
LEMMA StepMoves ==
  ASSUME GroupsInv, NEW r \in Peer, NEW x, Step(r, x),
         NEW n \in [Ids -> Nat], inner' = [inner EXCEPT ![r] = n] \/ (inner' = inner /\ n = inner[r]),
         NEW h \in Nat, made' = [made EXCEPT ![r] = h] \/ (made' = made /\ h = made[r]),
         NEW p \in BOOLEAN, ipc' = [ipc EXCEPT ![r] = p] \/ (ipc' = ipc /\ p = ipc[r]),
         NEW z \in BOOLEAN, slept' = [slept EXCEPT ![r] = z] \/ (slept' = slept /\ z = slept[r])
  PROVE  /\ Moves(r) /\ left[r] # << >> /\ Head(left[r]).do = x
         /\ inner'[r] = n /\ made'[r] = h /\ ipc'[r] = p /\ slept'[r] = z
  <1>1. /\ left[r] # << >> /\ Head(left[r]).do = x /\ left' = [left EXCEPT ![r] = Tail(left[r])]
        /\ job' = job /\ call' = call /\ connects' = connects
    BY DEF Step
  <1>2. /\ left \in [Peer -> Seq(StepSet)] /\ made \in [Peer -> Nat] /\ inner \in [Peer -> [Ids -> Nat]]
        /\ ipc \in [Peer -> BOOLEAN] /\ slept \in [Peer -> BOOLEAN]
    BY DEF GroupsInv, GroupsTypeOK
  <1>3. /\ inner' \in [Peer -> [Ids -> Nat]] /\ inner'[r] = n /\ \A q \in Peer \ {r} : inner'[q] = inner[q]
    BY <1>2
  <1>4. /\ made' \in [Peer -> Nat] /\ made'[r] = h /\ \A q \in Peer \ {r} : made'[q] = made[q]
    BY <1>2
  <1>5. /\ ipc' \in [Peer -> BOOLEAN] /\ ipc'[r] = p /\ \A q \in Peer \ {r} : ipc'[q] = ipc[q]
    BY <1>2
  <1>6. /\ slept' \in [Peer -> BOOLEAN] /\ slept'[r] = z /\ \A q \in Peer \ {r} : slept'[q] = slept[q]
    BY <1>2
  <1>7. /\ left' \in [Peer -> Seq(StepSet)] /\ left'[r] = Tail(left[r])
        /\ \A q \in Peer \ {r} : left'[q] = left[q]
    <2>1. Tail(left[r]) \in Seq(StepSet)
      BY <1>1, <1>2
    <2> QED
      BY <1>1, <1>2, <2>1
  <1> QED
    BY <1>1, <1>3, <1>4, <1>5, <1>6, <1>7 DEF Moves

LEMMA DestroyKeeps ==
  ASSUME GroupsInv, NEW r \in Peer, Destroy(r)
  PROVE  GroupsInv'
  <1>1. PICK d : d = [i \in Ids |-> NoGroup]
    OBVIOUS
  <1>2. d \in [Ids -> Nat] /\ inner' = [inner EXCEPT ![r] = d]
    BY <1>1 DEF Destroy, NoGroup
  <1>3. /\ Moves(r) /\ left[r] # << >> /\ Head(left[r]).do = "destroy"
        /\ inner'[r] = d /\ made'[r] = made[r] /\ ipc'[r] = ipc[r] /\ slept'[r] = slept[r]
    BY <1>2, AtStep, StepMoves, ZenonT(30) DEF Destroy
  <1>4. Fits(r, call, connects, left[r], inner[r], made[r], ipc[r], slept[r], d, made[r], ipc[r], slept[r])
    BY <1>1, <1>3, AtStep, DestroyFits
  <1> QED
    BY <1>3, <1>4, OneMoves

LEMMA SleepKeeps ==
  ASSUME GroupsInv, NEW r \in Peer, Pause(r) \/ Resume(r)
  PROVE  GroupsInv'
  <1>1. CASE Pause(r)
    <2>1. /\ Moves(r) /\ left[r] # << >> /\ Head(left[r]).do = "pause"
          /\ inner'[r] = inner[r] /\ made'[r] = made[r] /\ ipc'[r] = ipc[r] /\ slept'[r] = TRUE
      BY <1>1, AtStep, StepMoves, ZenonT(30) DEF Pause
    <2>2. Fits(r, call, connects, left[r], inner[r], made[r], ipc[r], slept[r], inner[r], made[r], ipc[r], TRUE)
      BY <2>1, AtStep, SleepFits
    <2> QED
      BY <2>1, <2>2, OneMoves
  <1>2. CASE Resume(r)
    <2>1. /\ Moves(r) /\ left[r] # << >> /\ Head(left[r]).do = "resume"
          /\ inner'[r] = inner[r] /\ made'[r] = made[r] /\ ipc'[r] = ipc[r] /\ slept'[r] = FALSE
      BY <1>2, AtStep, StepMoves, ZenonT(30) DEF Resume
    <2>2. Fits(r, call, connects, left[r], inner[r], made[r], ipc[r], slept[r], inner[r], made[r], ipc[r], FALSE)
      BY <2>1, AtStep, WakeFits
    <2> QED
      BY <2>1, <2>2, OneMoves
  <1> QED
    BY <1>1, <1>2

LEMMA ConnectKeeps ==
  ASSUME GroupsInv, NEW r \in Peer, Connect(r)
  PROVE  GroupsInv'
  <1>1. /\ job \in GroupLayouts /\ call \in CallNames /\ connects \in Nat /\ left[r] \in Seq(StepSet)
        /\ inner[r] \in [Ids -> Nat] /\ made[r] \in Nat /\ ipc[r] \in BOOLEAN /\ slept[r] \in BOOLEAN
        /\ RankFits(r, call, connects, left[r], inner[r], ipc[r], slept[r])
    BY AtStep
  <1>2. PICK g \in Nat : g = IF ipc[r] THEN made[r] ELSE made[r] + Len(job.engines)
    BY <1>1, LayoutFacts
  <1>3. PICK w \in BOOLEAN : w = (ipc[r] \/ InEngine(r))
    BY <1>1 DEF InEngine
  <1>4. made' = [made EXCEPT ![r] = g]
    BY <1>2 DEF Connect
  <1>5. ipc' = [ipc EXCEPT ![r] = w]
    BY <1>3 DEF Connect, InEngine
  <1>6. Step(r, "connect") /\ inner' = inner /\ slept' = slept
    BY DEF Connect
  <1>7. /\ Moves(r) /\ left[r] # << >> /\ Head(left[r]).do = "connect"
        /\ inner'[r] = inner[r] /\ made'[r] = g /\ ipc'[r] = w /\ slept'[r] = slept[r]
    BY <1>1, <1>4, <1>5, <1>6, StepMoves, ZenonT(30)
  <1>8. Fits(r, call, connects, left[r], inner[r], made[r], ipc[r], slept[r], inner[r], g, w, slept[r])
    <2> DEFINE s == left[r]
               n == inner[r]
               h == made[r]
               p == ipc[r]
               z == slept[r]
               b == call
               k == connects
    <2>1. /\ job \in GroupLayouts /\ b \in CallNames /\ k \in Nat /\ s \in Seq(StepSet) /\ s # << >>
          /\ h \in Nat /\ p \in BOOLEAN /\ RankFits(r, b, k, s, n, p, z) /\ Head(s).do = "connect"
          /\ g = (IF p THEN h ELSE h + Len(job.engines)) /\ w = (p \/ InEngine(r))
      BY <1>1, <1>2, <1>3, <1>7
    <2> HIDE DEF s, n, h, p, z, b, k
    <2>2. Fits(r, b, k, s, n, h, p, z, n, g, w, z)
      BY ONLY <2>1, ConnectFits, w \in BOOLEAN
    <2> QED
      BY <2>2 DEF s, n, h, p, z, b, k
  <1> QED
    BY <1>7, <1>8, OneMoves

LEMMA CreateKeeps ==
  ASSUME GroupsInv, NEW r \in Peer, Create(r)
  PROVE  GroupsInv'
  <1>1. /\ job \in GroupLayouts /\ call \in CallNames /\ connects \in Nat /\ left[r] \in Seq(StepSet)
        /\ inner[r] \in [Ids -> Nat] /\ made[r] \in Nat /\ ipc[r] \in BOOLEAN /\ slept[r] \in BOOLEAN
        /\ RankFits(r, call, connects, left[r], inner[r], ipc[r], slept[r])
    BY AtStep
  <1>2. left[r] # << >> /\ Head(left[r]).do = "create" /\ Step(r, "create") /\ ipc' = ipc /\ slept' = slept
    BY DEF Create, Step
  <1>3. call = "init" /\ Base(call) = Ids
    <2>1. InOrder(left[r]) /\ Kinds(left[r]) \subseteq Steps(call)
      BY <1>1 DEF RankFits
    <2>2. call = "init"
      BY <1>1, <1>2, <2>1, FirstStep
    <2> QED
      BY <2>2 DEF Base
  <1>4. PICK d : d = [i \in Ids |-> IF i \in Wrapped THEN Made(r, Ids)[i] ELSE NoGroup]
    OBVIOUS
  <1>5. /\ Cardinality(Base(call)) \in Nat
        /\ \A i \in Wrapped : Upto(call, i) \in Nat
        /\ Cardinality(Ids) = Len(job.groups) /\ Wrapped \subseteq Ids
    BY <1>1, UptoNames, LayoutFacts
  <1>6. \A i \in Ids : Made(r, Ids)[i] = made[r] + Cardinality({j \in Ids : j <= i})
    BY DEF Made
  <1>7. \A i \in Wrapped : d[i] = made[r] + Upto(call, i)
    BY <1>3, <1>4, <1>5, <1>6 DEF Upto
  <1>8. d \in [Ids -> Nat]
    <2>1. ASSUME NEW i \in Ids PROVE (IF i \in Wrapped THEN Made(r, Ids)[i] ELSE NoGroup) \in Nat
      <3>1. CASE i \in Wrapped
        <4>1. made[r] + Upto(call, i) \in Nat
          BY <1>1, <1>5, <3>1
        <4> QED
          BY <1>4, <1>7, <3>1, <4>1
      <3>2. CASE i \notin Wrapped
        BY <3>2 DEF NoGroup
      <3> QED
        BY <3>1, <3>2
    <2> QED
      BY <1>4, <2>1
  <1>9. PICK g \in Nat : g = made[r] + Cardinality(Base(call))
    BY <1>1, <1>5
  <1>10. made' = [made EXCEPT ![r] = g]
    BY <1>3, <1>5, <1>9 DEF Create
  <1>11. inner' = [inner EXCEPT ![r] = d]
    BY <1>4 DEF Create
  <1>12. /\ Moves(r) /\ inner'[r] = d /\ made'[r] = g /\ ipc'[r] = ipc[r] /\ slept'[r] = slept[r]
    BY <1>1, <1>2, <1>8, <1>10, <1>11, StepMoves, ZenonT(30)
  <1>13. Fits(r, call, connects, left[r], inner[r], made[r], ipc[r], slept[r], d, g, ipc[r], slept[r])
    <2> DEFINE s == left[r]
               n == inner[r]
               h == made[r]
               p == ipc[r]
               z == slept[r]
               b == call
               k == connects
    <2>1. /\ job \in GroupLayouts /\ b \in CallNames /\ k \in Nat /\ s \in Seq(StepSet) /\ s # << >>
          /\ h \in Nat /\ p \in BOOLEAN /\ RankFits(r, b, k, s, n, p, z) /\ Head(s).do = "create"
          /\ g = h + Cardinality(Base(b)) /\ \A i \in Wrapped : d[i] = h + Upto(b, i)
      BY <1>1, <1>2, <1>7, <1>9
    <2> HIDE DEF s, n, h, p, z, b, k
    <2>2. Fits(r, b, k, s, n, h, p, z, d, g, p, z)
      BY ONLY <2>1, MakeFits
    <2> QED
      BY <2>2 DEF s, n, h, p, z, b, k
  <1> QED
    BY <1>12, <1>13, OneMoves

LEMMA ReloadKeeps ==
  ASSUME GroupsInv, NEW r \in Peer, Reload(r)
  PROVE  GroupsInv'
  <1>1. /\ job \in GroupLayouts /\ call \in CallNames /\ connects \in Nat /\ left[r] \in Seq(StepSet)
        /\ inner[r] \in [Ids -> Nat] /\ made[r] \in Nat /\ ipc[r] \in BOOLEAN /\ slept[r] \in BOOLEAN
        /\ RankFits(r, call, connects, left[r], inner[r], ipc[r], slept[r])
    BY AtStep
  <1>2. left[r] # << >> /\ Head(left[r]).do = "reload" /\ Step(r, "reload") /\ ipc' = ipc /\ slept' = slept
    BY DEF Reload, Step
  <1>3. InOrder(left[r]) /\ Kinds(left[r]) \subseteq Steps(call)
    BY <1>1 DEF RankFits
  <1>4. "reload" \in Kinds(left[r])
    BY <1>1, <1>2, <1>3, FirstStep
  <1>5. call \in {"update", "train", "save"}
    BY <1>1, <1>3, <1>4 DEF Steps, CallNames
  <1>6. \A i \in Ids : Made(r, Gone(r))[i] =
          IF i \in Gone(r) THEN made[r] + Cardinality({j \in Gone(r) : j <= i}) ELSE inner[r][i]
    BY DEF Made
  <1>7. CASE call = "save"
    <2>1. Alive(inner[r]) /\ Fits(r, call, connects, left[r], inner[r], made[r], ipc[r], slept[r],
                                  inner[r], made[r], ipc[r], slept[r])
      BY <1>1, <1>2, <1>7, FoundFits
    <2>2. Gone(r) = {}
      BY <2>1 DEF Gone, Alive
    <2>3. Made(r, Gone(r)) = inner[r]
      <3>1. Made(r, Gone(r)) = [i \in Ids |-> inner[r][i]]
        BY <2>2 DEF Made
      <3> QED
        BY <1>1, <3>1
    <2>4. made[r] + Cardinality(Gone(r)) = made[r]
      BY <1>1, <2>2, FS_EmptySet
    <2>5. PICK d \in [Ids -> Nat] : d = inner[r]
      BY <1>1
    <2>6. PICK g \in Nat : g = made[r]
      BY <1>1
    <2>7. inner' = [inner EXCEPT ![r] = d]
      BY <2>3, <2>5 DEF Reload
    <2>8. made' = [made EXCEPT ![r] = g]
      BY <2>4, <2>6 DEF Reload
    <2>9. /\ Moves(r) /\ inner'[r] = d /\ made'[r] = g /\ ipc'[r] = ipc[r] /\ slept'[r] = slept[r]
      BY <1>1, <1>2, <2>7, <2>8, StepMoves, ZenonT(30)
    <2>10. Fits(r, call, connects, left[r], inner[r], made[r], ipc[r], slept[r],
                inner'[r], made'[r], ipc'[r], slept'[r])
      BY <2>1, <2>5, <2>6, <2>9, Zenon
    <2> QED
      BY <2>9, <2>10, OneMoves
  <1>8. CASE call \in {"update", "train"}
    <2>1. Base(call) = Wrapped
      BY <1>8 DEF Base
    <2>2. Gone(r) = Wrapped
      <3>1. Makes(call, Kinds(left[r]))
        BY <1>4, <1>8 DEF Makes
      <3>2. Dead(inner[r])
        <4>1. \A n, s : RankFits(r, call, connects, s, n, ipc[r], slept[r]) /\ Makes(call, Kinds(s)) => Dead(n)
          BY DEF RankFits
        <4> QED
          BY <1>1, <3>1, <4>1
      <3> QED
        BY <1>1, <3>2, LayoutFacts DEF Gone, Dead
    <2>3. /\ Cardinality(Base(call)) \in Nat /\ \A i \in Wrapped : Upto(call, i) \in Nat
          /\ Wrapped \subseteq Ids
      BY <1>1, UptoNames, LayoutFacts
    <2>4. PICK d : d = Made(r, Gone(r))
      OBVIOUS
    <2>5. \A i \in Wrapped : d[i] = made[r] + Upto(call, i)
      BY <1>6, <2>1, <2>2, <2>3, <2>4 DEF Upto
    <2>6. d \in [Ids -> Nat]
      <3>1. ASSUME NEW i \in Ids PROVE d[i] \in Nat
        <4>1. CASE i \in Wrapped
          <5>1. made[r] + Upto(call, i) \in Nat
            BY <1>1, <2>3, <4>1
          <5> QED
            BY <2>5, <4>1, <5>1
        <4>2. CASE i \notin Wrapped
          BY <1>1, <1>6, <2>2, <2>4, <4>2
        <4> QED
          BY <4>1, <4>2
      <3>2. d = [i \in Ids |-> d[i]]
        BY <2>4 DEF Made
      <3> QED
        BY <3>1, <3>2
    <2>7. PICK g \in Nat : g = made[r] + Cardinality(Base(call))
      BY <1>1, <2>3
    <2>8. made' = [made EXCEPT ![r] = g]
      BY <2>1, <2>2, <2>7 DEF Reload
    <2>9. inner' = [inner EXCEPT ![r] = d]
      BY <2>4 DEF Reload
    <2>10. /\ Moves(r) /\ inner'[r] = d /\ made'[r] = g /\ ipc'[r] = ipc[r] /\ slept'[r] = slept[r]
      BY <1>1, <1>2, <2>6, <2>8, <2>9, StepMoves, ZenonT(30)
    <2>11. Fits(r, call, connects, left[r], inner[r], made[r], ipc[r], slept[r], d, g, ipc[r], slept[r])
      <3> DEFINE s == left[r]
                 n == inner[r]
                 h == made[r]
                 p == ipc[r]
                 z == slept[r]
                 b == call
                 k == connects
      <3>1. /\ job \in GroupLayouts /\ b \in CallNames /\ k \in Nat /\ s \in Seq(StepSet) /\ s # << >>
            /\ h \in Nat /\ p \in BOOLEAN /\ RankFits(r, b, k, s, n, p, z)
            /\ Head(s).do = "reload" /\ b \in {"update", "train"}
            /\ g = h + Cardinality(Base(b)) /\ \A i \in Wrapped : d[i] = h + Upto(b, i)
        BY <1>1, <1>2, <1>8, <2>5, <2>7
      <3> HIDE DEF s, n, h, p, z, b, k
      <3>2. Fits(r, b, k, s, n, h, p, z, d, g, p, z)
        BY ONLY <3>1, MakeFits
      <3> QED
        BY <3>2 DEF s, n, h, p, z, b, k
    <2> QED
      BY <2>10, <2>11, OneMoves
  <1> QED
    BY <1>5, <1>7, <1>8

\* A rank at a collective waits for the members of its group.
LEMMA AtGroup ==
  ASSUME GroupsInv, NEW r \in Peer, AtUse(r)
  PROVE  /\ GroupOf(r) \in Own(r) /\ GroupOf(r) \in Wrapped /\ Alive(inner[r]) /\ NameAt(r) # NoGroup
         /\ Party(r) = job.groups[GroupOf(r)].ranks /\ r \in Party(r) /\ Party(r) \in SUBSET Peer
         /\ \A q : q \in Party(r) <=> GroupOf(r) \in Own(q)
         /\ GroupOf(r) \in UsesOf(left[r]) /\ \A i \in UsesOf(left[r]) : GroupOf(r) <= i
         /\ slept[r] => call = "update"
         /\ RankFits(r, call, connects, Tail(left[r]), inner[r], ipc[r], slept[r])
         /\ UsesOf(Tail(left[r])) = UsesOf(left[r]) \ {GroupOf(r)}
         /\ ~Makes(call, Kinds(left[r])) /\ ~Makes(call, Kinds(Tail(left[r])))
         /\ \A w : Pending(call, Kinds(left[r]), w) = Pending(call, Kinds(Tail(left[r])), w)
  <1> DEFINE s == left[r]
             n == inner[r]
             p == ipc[r]
             z == slept[r]
             b == call
             k == connects
  <1>1. /\ job \in GroupLayouts /\ b \in CallNames /\ s \in Seq(StepSet) /\ s # << >> /\ Head(s).do = "use"
        /\ RankFits(r, b, k, s, n, p, z)
    BY AtStep DEF AtUse
  <1>b. z \in BOOLEAN
    BY AtStep
  <1> HIDE DEF s, n, p, z, b, k
  <1>2. /\ Alive(n) /\ Head(s).group \in Own(r) /\ RankFits(r, b, k, Tail(s), n, p, z)
        /\ UsesOf(Tail(s)) = UsesOf(s) \ {Head(s).group}
        /\ Head(s).group \in UsesOf(s) /\ \A i \in UsesOf(s) : Head(s).group <= i
        /\ ~Makes(b, Kinds(s)) /\ ~Makes(b, Kinds(Tail(s)))
        /\ \A w : Pending(b, Kinds(s), w) = Pending(b, Kinds(Tail(s)), w)
        /\ b # "update" => z # TRUE
    BY ONLY <1>1, UseFits
  <1>3. GroupOf(r) = Head(s).group
    BY DEF GroupOf, s
  <1>4. GroupOf(r) \in Wrapped /\ Wrapped \subseteq Ids /\ r \in job.groups[GroupOf(r)].ranks
    BY <1>1, <1>2, <1>3, LayoutFacts DEF Own
  <1>5. NameAt(r) # NoGroup
    BY <1>2, <1>4 DEF Alive, NameAt, n
  <1>6. Party(r) = job.groups[GroupOf(r)].ranks
    BY <1>5 DEF Party
  <1>7. Party(r) \in SUBSET Peer /\ \A q : q \in Party(r) <=> GroupOf(r) \in Own(q)
    BY <1>1, <1>4, <1>6, LayoutFacts DEF Own
  <1> QED
    BY <1>b, <1>2, <1>3, <1>4, <1>5, <1>6, <1>7 DEF s, n, p, z, b, k

\* Two ranks know a group by the same name, and no other group.
LEMMA SameNames ==
  ASSUME GroupsInv, ~CountsApart, NEW r \in Peer, AtUse(r), NEW q \in Peer, AtUse(q)
  PROVE  NameAt(r) = NameAt(q) <=> GroupOf(r) = GroupOf(q)
  <1>1. /\ GroupOf(r) \in Wrapped /\ GroupOf(q) \in Wrapped /\ Alive(inner[r]) /\ Alive(inner[q])
        /\ NameAt(r) # NoGroup /\ NameAt(q) # NoGroup
    BY AtGroup
  <1>2. \A i \in Wrapped : inner[r][i] = inner[q][i]
    <2>1. PairFits(r, q, call, left[r], left[q], inner[r], inner[q], made[r], made[q], ipc[r], ipc[q])
      BY DEF GroupsInv, PairOK
    <2> QED
      BY <1>1, <2>1 DEF PairFits
  <1>3. \A i, j \in Wrapped : inner[q][i] = inner[q][j] /\ inner[q][i] # NoGroup => i = j
    <2>1. \A n : \A s : RankFits(q, call, connects, s, n, ipc[q], slept[q]) =>
            \A i, j \in Wrapped : n[i] = n[j] /\ n[i] # NoGroup => i = j
      BY DEF RankFits
    <2> QED
      BY <2>1, AtStep
  <1> DEFINE n == inner[r]
             o == inner[q]
             g == GroupOf(r)
             h == GroupOf(q)
  <1>4. /\ g \in Wrapped /\ h \in Wrapped /\ o[h] # NoGroup /\ \A i \in Wrapped : n[i] = o[i]
        /\ \A i, j \in Wrapped : o[i] = o[j] /\ o[i] # NoGroup => i = j
    BY <1>1, <1>2, <1>3 DEF NameAt
  <1> HIDE DEF n, o, g, h
  <1>5. n[g] = o[h] <=> g = h
    BY <1>4
  <1> QED
    BY <1>5 DEF NameAt, n, o, g, h

LEMMA CollectiveKeeps ==
  ASSUME GroupsInv, NEW r \in Peer, Collective(r)
  PROVE  GroupsInv'
  <1> DEFINE g == GroupOf(r)
             Moved == Party(r)
  <1>1. /\ AtUse(r) /\ \A q \in Moved : AtUse(q) /\ NameAt(q) = NameAt(r)
        /\ left' = [q \in Peer |-> IF q \in Moved THEN Tail(left[q]) ELSE left[q]]
        /\ job' = job /\ call' = call /\ connects' = connects /\ made' = made /\ inner' = inner
        /\ ipc' = ipc /\ slept' = slept
    BY DEF Collective, Meets
  <1>2. Moved \in SUBSET Peer /\ \A q : q \in Moved <=> g \in Own(q)
    BY <1>1, AtGroup
  <1>3. ASSUME NEW q \in Moved
        PROVE  /\ left'[q] = Tail(left[q])
               /\ RankFits(q, call, connects, Tail(left[q]), inner[q], ipc[q], slept[q])
               /\ UsesOf(Tail(left[q])) = UsesOf(left[q]) \ {GroupOf(q)}
               /\ ~Makes(call, Kinds(left[q])) /\ ~Makes(call, Kinds(Tail(left[q])))
               /\ \A w : Pending(call, Kinds(left[q]), w) = Pending(call, Kinds(Tail(left[q])), w)
               /\ ~CountsApart => GroupOf(q) = g
    <2>1. q \in Peer /\ AtUse(q)
      BY <1>1, <1>2
    <2>2. ~CountsApart => GroupOf(q) = g
      BY <1>1, <2>1, SameNames
    <2>3. left'[q] = Tail(left[q])
      BY <1>1, <2>1
    <2> QED
      BY <2>1, <2>2, <2>3, AtGroup
  <1>4. \A q \in Peer \ Moved : left'[q] = left[q]
    BY <1>1
  <1>5. GroupsTypeOK'
    <2>1. Ids' = Ids
      BY <1>1, LayoutFixed
    <2>2. ASSUME NEW q \in Peer PROVE left'[q] \in Seq(StepSet)
      <3>1. CASE q \in Moved
        BY <1>3, <3>1 DEF RankFits
      <3>2. CASE q \notin Moved
        BY <1>4, <3>2 DEF GroupsInv, GroupsTypeOK
      <3> QED
        BY <3>1, <3>2
    <2>3. left' \in [Peer -> Seq(StepSet)]
      <3>1. left' = [q \in Peer |-> left'[q]]
        BY <1>1
      <3> QED
        BY <2>2, <3>1
    <2> QED
      BY <1>1, <2>1, <2>3 DEF GroupsInv, GroupsTypeOK
  <1> HIDE DEF Moved, g
  <1>6. ASSUME ~CountsApart, NEW x \in Moved, NEW q \in Peer
        PROVE  /\ PairFits(x, q, call, left'[x], left'[q], inner[x], inner[q], made[x], made[q], ipc[x], ipc[q])
               /\ PairFits(q, x, call, left'[q], left'[x], inner[q], inner[x], made[q], made[x], ipc[q], ipc[x])
    <2> DEFINE s == left[x]
               t == left[q]
               n == inner[x]
               o == inner[q]
               h == made[x]
               l == made[q]
               p == ipc[x]
               v == ipc[q]
    <2>1. /\ PairFits(x, q, call, s, t, n, o, h, l, p, v) /\ PairFits(q, x, call, t, s, o, n, l, h, v, p)
      BY <1>2, <1>6 DEF GroupsInv, PairOK
    <2>2. /\ UsesOf(Tail(s)) = UsesOf(s) \ {g} /\ ~Makes(call, Kinds(s)) /\ ~Makes(call, Kinds(Tail(s)))
          /\ \A w : Pending(call, Kinds(s), w) = Pending(call, Kinds(Tail(s)), w)
          /\ left'[x] = Tail(s)
      BY <1>3, <1>6
    <2>3. CASE q \in Moved
      <3>1. /\ UsesOf(Tail(t)) = UsesOf(t) \ {g} /\ ~Makes(call, Kinds(t)) /\ ~Makes(call, Kinds(Tail(t)))
            /\ \A w : Pending(call, Kinds(t), w) = Pending(call, Kinds(Tail(t)), w)
            /\ left'[q] = Tail(t)
        BY <1>3, <1>6, <2>3
      <3> HIDE DEF s, t, n, o, h, l, p, v
      <3>2. PairFits(x, q, call, Tail(s), Tail(t), n, o, h, l, p, v)
        BY <2>1, <2>2, <3>1, MeetFits
      <3>3. PairFits(q, x, call, Tail(t), Tail(s), o, n, l, h, v, p)
        BY <2>1, <2>2, <3>1, MeetFits
      <3> QED
        BY <2>2, <3>1, <3>2, <3>3 DEF s, t, n, o, h, l, p, v
    <2>4. CASE q \notin Moved
      <3>1. left'[q] = t /\ g \notin Own(q)
        BY <1>2, <1>4, <2>4
      <3> HIDE DEF s, t, n, o, h, l, p, v
      <3>2. PairFits(x, q, call, Tail(s), t, n, o, h, l, p, v) /\ PairFits(q, x, call, t, Tail(s), o, n, l, h, v, p)
        BY <2>1, <2>2, <3>1, MeetFits
      <3> QED
        BY <2>2, <3>1, <3>2 DEF s, t, n, o, h, l, p, v
    <2> QED
      BY <2>3, <2>4
  <1>7. \A q \in Peer \ Moved : /\ left'[q] = left[q] /\ inner'[q] = inner[q] /\ made'[q] = made[q]
                                /\ ipc'[q] = ipc[q] /\ slept'[q] = slept[q]
    BY <1>1, <1>4
  <1>8. \A q \in Moved : RankFits(q, call, connects, left'[q], inner'[q], ipc'[q], slept'[q])
    BY <1>1, <1>3
  <1>9. ~CountsApart => \A x \in Moved, q \in Peer :
          /\ PairFits(x, q, call, left'[x], left'[q], inner'[x], inner'[q], made'[x], made'[q], ipc'[x], ipc'[q])
          /\ PairFits(q, x, call, left'[q], left'[x], inner'[q], inner'[x], made'[q], made'[x], ipc'[q], ipc'[x])
    BY <1>1, <1>6
  <1> QED
    BY <1>1, <1>2, <1>5, <1>7, <1>8, <1>9, GroupsKept

LEMMA GroupsStart ==
  ASSUME GroupsInit
  PROVE  GroupsInv
  <1>1. job \in GroupLayouts /\ call = "init" /\ connects = 0
    BY DEF GroupsInit
  <1>2. ASSUME NEW r \in Peer
        PROVE  /\ left[r] \in Seq(StepSet) /\ InOrder(left[r]) /\ Kinds(left[r]) \subseteq Steps("init")
               /\ {"create", "destroy", "pause"} \subseteq Kinds(left[r]) /\ "connect" \notin Kinds(left[r])
               /\ UsesOf(left[r]) = Own(r)
    <2>1. left[r] = ScriptOf("init", r, FALSE)
      BY DEF GroupsInit, ScriptOf
    <2>2. "init" \in CallNames /\ FALSE \in BOOLEAN
      BY DEF CallNames
    <2>3. PICK s : s = ScriptOf("init", r, FALSE)
      OBVIOUS
    <2>4. /\ s \in Seq(StepSet) /\ InOrder(s) /\ Kinds(s) \subseteq Steps("init")
          /\ Steps("init") \ {"use", "connect"} \subseteq Kinds(s)
          /\ "connect" \in Kinds(s) <=> "init" = "update" /\ FALSE
          /\ UsesOf(s) = IF "init" = "offload" THEN {} ELSE Own(r)
      BY ONLY <1>1, <2>2, <2>3, CallScripts
    <2>5. {"create", "destroy", "pause"} \subseteq Steps("init") \ {"use", "connect"}
      BY DEF Steps
    <2> QED
      BY <2>1, <2>3, <2>4, <2>5
  <1>3. ASSUME NEW r \in Peer
        PROVE  /\ inner[r] = [i \in Ids |-> NoGroup] /\ ipc[r] = FALSE /\ slept[r] = FALSE /\ made[r] = 1
               /\ Dead(inner[r])
    BY DEF GroupsInit, Dead
  <1>4. GroupsTypeOK
    <2>1. left \in [Peer -> Seq(StepSet)]
      <3>1. left = [r \in Peer |-> left[r]]
        BY DEF GroupsInit
      <3> QED
        BY <1>2, <3>1
    <2>2. inner \in [Peer -> [Ids -> Nat]]
      BY DEF GroupsInit, NoGroup
    <2> QED
      BY <1>1, <2>1, <2>2 DEF GroupsTypeOK, GroupsInit, CallNames
  <1>5. ASSUME NEW r \in Peer PROVE RankFits(r, "init", 0, left[r], inner[r], FALSE, FALSE)
    <2> DEFINE s == left[r]
               n == inner[r]
               K == Kinds(s)
    <2>1. /\ s \in Seq(StepSet) /\ InOrder(s) /\ K \subseteq Steps("init") /\ UsesOf(s) \subseteq Own(r)
          /\ "destroy" \in K /\ "create" \in K /\ "connect" \notin K
      BY <1>2
    <2>2. Makes("init", K) /\ ~Ended("init", K) /\ "resume" \notin K
      BY <2>1 DEF Makes, Ended, Steps
    <2>3. Dead(n) /\ \A i \in Wrapped : n[i] = NoGroup
      BY <1>1, <1>3, LayoutFacts DEF Dead
    <2> HIDE DEF n, s, K
    <2> QED
      BY <2>1, <2>2, <2>3 DEF RankFits, n, s, K
  <1>6. ASSUME NEW r \in Peer, NEW q \in Peer
        PROVE  PairFits(r, q, "init", left[r], left[q], inner[r], inner[q], 1, 1, FALSE, FALSE)
    <2> DEFINE s == left[r]
               t == left[q]
    <2>1. /\ UsesOf(s) = Own(r) /\ UsesOf(t) = Own(q) /\ "create" \in Kinds(s) /\ "create" \in Kinds(t)
          /\ "connect" \notin Kinds(s) /\ "connect" \notin Kinds(t)
      BY <1>2
    <2>2. Makes("init", Kinds(s)) /\ Makes("init", Kinds(t))
      BY <2>1 DEF Makes
    <2>3. Pending("init", Kinds(s), FALSE) = Pending("init", Kinds(t), FALSE)
      BY <2>1, <2>2 DEF Pending
    <2>4. Alive(inner[r]) => Wrapped = {}
      BY <1>1, <1>3, LayoutFacts DEF Alive, Dead
    <2> HIDE DEF s, t
    <2> QED
      BY <2>1, <2>2, <2>3, <2>4 DEF PairFits, s, t
  <1>7. ASSUME NEW r \in Peer PROVE RankOK(r)
    BY <1>1, <1>3, <1>5 DEF RankOK
  <1>8. ASSUME NEW r \in Peer, NEW q \in Peer PROVE PairOK(r, q)
    BY <1>1, <1>3, <1>6 DEF PairOK
  <1> QED
    BY <1>4, <1>7, <1>8 DEF GroupsInv

LEMMA GroupsInvariance ==
  ASSUME GroupsInv, [GroupsNext]_groupVars
  PROVE  GroupsInv'
  <1>t. connects \in Nat
    BY DEF GroupsInv, GroupsTypeOK
  <1>1. CASE BeginUpdate
    <2>1. PICK new \in BOOLEAN : /\ connects = 0 => new
                                 /\ CallAll("update", [r \in Peer |-> UpdateCall(r, new)])
                                 /\ connects' = IF new THEN connects + 1 ELSE connects
      BY <1>1 DEF BeginUpdate
    <2>2. left' = [r \in Peer |-> ScriptOf("update", r, new)] /\ "update" \in CallNames
      BY <2>1 DEF CallAll, ScriptOf, CallNames
    <2> QED
      BY <1>1, <2>1, <2>2, CallStarts DEF BeginUpdate, CallAll
  <1>2. CASE BeginTrain
    <2>1. left' = [r \in Peer |-> ScriptOf("train", r, FALSE)] /\ "train" \in CallNames
      BY <1>2 DEF BeginTrain, CallAll, ScriptOf, CallNames
    <2> QED
      BY <1>2, <2>1, CallStarts DEF BeginTrain, CallAll
  <1>3. CASE BeginSave
    <2>1. left' = [r \in Peer |-> ScriptOf("save", r, FALSE)] /\ "save" \in CallNames
      BY <1>3 DEF BeginSave, CallAll, ScriptOf, CallNames
    <2> QED
      BY <1>3, <2>1, CallStarts DEF BeginSave, CallAll
  <1>4. CASE BeginOffload
    <2>1. left' = [r \in Peer |-> ScriptOf("offload", r, FALSE)] /\ "offload" \in CallNames
      BY <1>4 DEF BeginOffload, CallAll, ScriptOf, CallNames
    <2> QED
      BY <1>4, <2>1, CallStarts DEF BeginOffload, CallAll
  <1>5. ASSUME NEW r \in Peer, Create(r) \/ Reload(r) \/ Destroy(r) \/ Pause(r) \/ Resume(r) \/ Connect(r) \/ Collective(r)
        PROVE  GroupsInv'
    BY <1>5, CreateKeeps, ReloadKeeps, DestroyKeeps, SleepKeeps, ConnectKeeps, CollectiveKeeps
  <1>6. CASE UNCHANGED groupVars
    <2>1. /\ job' = job /\ call' = call /\ connects' = connects /\ left' = left /\ made' = made /\ inner' = inner
          /\ ipc' = ipc /\ slept' = slept
      BY <1>6 DEF groupVars
    <2> DEFINE Moved == {}
    <2>2. GroupsTypeOK'
      <3>1. Ids' = Ids
        BY <2>1, LayoutFixed
      <3> QED
        BY <2>1, <3>1 DEF GroupsInv, GroupsTypeOK
    <2>3. Moved \in SUBSET Peer /\ \A q \in Moved : FALSE
      OBVIOUS
    <2> HIDE DEF Moved
    <2> QED
      BY <2>1, <2>2, <2>3, GroupsKept
  <1> QED
    BY <1>1, <1>2, <1>3, <1>4, <1>5, <1>6 DEF GroupsNext

LEMMA GroupsInvMeets ==
  ASSUME GroupsInv
  PROVE  GroupsMeet
  <1> SUFFICES ASSUME ~CountsApart PROVE
        /\ \A r, s \in Peer : AtUse(r) /\ AtUse(s) /\ GroupOf(r) = GroupOf(s) =>
             NameAt(r) = NameAt(s) /\ NameAt(r) # NoGroup
        /\ (\E r \in Peer : left[r] # << >>) => \E r \in Peer : left[r] # << >> /\ (~AtUse(r) \/ Meets(r))
        /\ \A r \in Peer : left[r] # << >> /\ Head(left[r]).do = "pause" => \A i \in Ids : inner[r][i] = NoGroup
        /\ \A r \in Peer : AtUse(r) /\ slept[r] => call = "update"
    BY DEF GroupsMeet
  <1>1. \A r, s \in Peer : AtUse(r) /\ AtUse(s) /\ GroupOf(r) = GroupOf(s) =>
          NameAt(r) = NameAt(s) /\ NameAt(r) # NoGroup
    BY AtGroup, SameNames
  <1>2. ASSUME \E r \in Peer : left[r] # << >>, \A r \in Peer : left[r] # << >> => AtUse(r)
        PROVE  \E r \in Peer : AtUse(r) /\ Meets(r)
    <2> DEFINE I == {GroupOf(r) : r \in {q \in Peer : AtUse(q)}}
    <2>1. job \in GroupLayouts
      BY DEF GroupsInv, GroupsTypeOK
    <2>2. \A r \in Peer : AtUse(r) => GroupOf(r) \in Wrapped
      BY AtGroup
    <2>3. I \in SUBSET Wrapped /\ I # {}
      BY <1>2, <2>2
    <2>4. I \in SUBSET Nat /\ IsFiniteSet(I)
      <3> HIDE DEF I
      <3>1. Wrapped \in SUBSET Nat /\ IsFiniteSet(Wrapped)
        BY <2>1, LayoutFacts
      <3> QED
        BY <2>3, <3>1, FS_Subset
    <2>5. PICK g \in I : \A j \in I : g <= j
      <3> HIDE DEF I
      <3> QED
        BY <2>3, <2>4, LeastExists
    <2>6. PICK r \in Peer : AtUse(r) /\ GroupOf(r) = g
      OBVIOUS
    <2>7. \A q \in Peer : AtUse(q) => g <= GroupOf(q) /\ GroupOf(q) \in Nat
      BY <2>4, <2>5
    <2> HIDE DEF I
    <2>8. ASSUME NEW q \in Party(r) PROVE AtUse(q) /\ GroupOf(q) = g
      <3>1. q \in Peer /\ g \in Own(q) /\ g \in Own(r) /\ g \in UsesOf(left[r])
        BY <2>6, AtGroup
      <3>2. g \in UsesOf(left[q])
        <4>1. PairFits(r, q, call, left[r], left[q], inner[r], inner[q], made[r], made[q], ipc[r], ipc[q])
          BY <3>1 DEF GroupsInv, PairOK
        <4> QED
          BY <3>1, <4>1 DEF PairFits
      <3>3. left[q] # << >>
        <4>1. UsesOf(<< >>) = {}
          BY NoPart
        <4> QED
          BY <3>2, <4>1
      <3>4. AtUse(q)
        BY <1>2, <3>1, <3>3
      <3>5. GroupOf(q) <= g
        BY <3>1, <3>2, <3>4, AtGroup
      <3>6. g <= GroupOf(q) /\ GroupOf(q) \in Nat
        BY <2>7, <3>1, <3>4
      <3>7. g \in Nat
        BY <2>4
      <3> QED
        BY <3>4, <3>5, <3>6, <3>7
    <2>9. ASSUME NEW q \in Party(r) PROVE AtUse(q) /\ NameAt(q) = NameAt(r) /\ Party(q) = Party(r)
      <3>1. q \in Peer /\ AtUse(q) /\ GroupOf(q) = GroupOf(r)
        BY <2>6, <2>8, AtGroup
      <3>2. Party(q) = job.groups[GroupOf(q)].ranks /\ Party(r) = job.groups[GroupOf(r)].ranks
        BY <2>6, <3>1, AtGroup
      <3> QED
        BY <2>6, <3>1, <3>2, SameNames
    <2> QED
      BY <2>6, <2>9 DEF Meets
  <1>3. ASSUME NEW r \in Peer, left[r] # << >>, Head(left[r]).do = "pause"
        PROVE  \A i \in Ids : inner[r][i] = NoGroup
    <2>1. /\ call \in CallNames /\ left[r] \in Seq(StepSet)
          /\ RankFits(r, call, connects, left[r], inner[r], ipc[r], slept[r])
      BY AtStep
    <2>2. InOrder(left[r]) /\ Kinds(left[r]) \subseteq Steps(call)
      BY <2>1 DEF RankFits
    <2>3. call \in {"init", "offload"} /\ Kinds(left[r]) = {"pause"}
      BY <1>3, <2>1, <2>2, FirstStep
    <2>4. Ended(call, Kinds(left[r]))
      BY <2>3 DEF Ended
    <2>5. \A n, s : RankFits(r, call, connects, s, n, ipc[r], slept[r]) /\ Ended(call, Kinds(s)) => Dead(n)
      BY DEF RankFits
    <2>6. Dead(inner[r])
      BY <2>1, <2>4, <2>5
    <2> QED
      BY <2>6 DEF Dead
  <1>4. \A r \in Peer : AtUse(r) /\ slept[r] => call = "update"
    <2>1. ASSUME NEW r \in Peer, AtUse(r), slept[r] PROVE call = "update"
      BY <2>1, AtGroup
    <2> QED
      BY <2>1, Zenon
  <1>5. (\E r \in Peer : left[r] # << >>) => \E r \in Peer : left[r] # << >> /\ (~AtUse(r) \/ Meets(r))
    <2>1. \A r \in Peer : AtUse(r) => left[r] # << >>
      BY DEF AtUse
    <2>2. CASE \A r \in Peer : left[r] # << >> => AtUse(r)
      BY <1>2, <2>1, <2>2, Zenon
    <2>3. CASE \E r \in Peer : left[r] # << >> /\ ~AtUse(r)
      BY <2>3, Zenon
    <2> QED
      BY <2>2, <2>3, Zenon
  <1> QED
    BY <1>1, <1>3, <1>4, <1>5

\* The ranks of a training job meet in every collective under one name of the
\* group, and never in the group of all ranks instead; nobody waits for ever;
\* and no rank gives up its GPU memory with a group alive: however often, and at
\* whatever different speeds, the ranks destroy their groups and make them again
\* (reload_process_groups, destroy_process_groups, connect_rollout_engines),
\* until engines are connected anew that leave a rank out.
THEOREM GroupsAlwaysMeet == GroupsSpec => []GroupsMeet
  <1>1. GroupsInit => GroupsInv
    BY GroupsStart
  <1>2. GroupsInv /\ [GroupsNext]_groupVars => GroupsInv'
    BY GroupsInvariance
  <1>3. GroupsInv => GroupsMeet
    BY GroupsInvMeets
  <1> QED
    BY <1>1, <1>2, <1>3, PTL DEF GroupsSpec

-----------------------------------------------------------------------------
(* The samples of a step and its micro-batches.                                *)

\* Where step i begins, and how far n of its micro-batches reach, as a
\* DataIterator counts: in micro-batches, or in samples.
StepBase(i) == IF option.dynamic
           THEN SumFunctionOnSet([k \in 1 .. StepsPerRollout |-> NumMicroBatches(k)], 1 .. i - 1)
           ELSE (i - 1) * LocalBatch
OffsetAt(i, n) == StepBase(i) + (IF option.dynamic THEN n ELSE n * option.mbs)

\* The micro-batches of step i on a rank with plan p.
Batch(p, i, k) == IF option.dynamic THEN p[StepBase(i) + k]
                  ELSE [j \in 1 .. option.mbs |-> OffsetAt(i, k - 1) + j]
StepOf(p, i) == [k \in 1 .. NumMicroBatches(i) |-> Batch(p, i, k)]

\* Each sample of step i is in exactly one place of q.
Cuts(q, i) ==
  /\ q \in Seq(Seq(Nat)) /\ AllDistinct(q)
  /\ \A j \in 1 .. Len(q) : \A p \in 1 .. Len(q[j]) : q[j][p] \in Window(i)
  /\ \A n \in Window(i) : \E j \in 1 .. Len(q) : \E p \in 1 .. Len(q[j]) : q[j][p] = n
PlanFits(p) ==
  /\ \A i \in 1 .. StepsPerRollout : Cuts(StepOf(p, i), i)
  /\ option.dynamic => p \in Seq(Seq(Nat)) /\ Len(p) = StepBase(StepsPerRollout + 1)

\* What the loss has of sample n of rank r.
LossRecord(r, i, n) ==
  [sample |-> n, old |-> n, num |-> rows[r][n].weight * LossScale(i)[1],
   den |-> Divisor(rows[r][n]) * LossScale(i)[2], tokens |-> Max({rows[r][n].counted, 1})]
FedOf(p, i, n) == FlattenSeq([k \in 1 .. n |-> Batch(p, i, k)])
Losses(r, i, s) == [j \in DOMAIN s |-> LossRecord(r, i, s[j])]

\* The samples up to the offset of an iterator.
SamplesUpto(p, n) == IF option.dynamic THEN FlattenSeq(SubSeq(p, 1, n)) ELSE [j \in 1 .. n |-> j]

-----------------------------------------------------------------------------
(* The invariant.                                                              *)

ForwardPasses == Range(Passes)

StepRecord == [sample : Int, old : Int, num : Int, den : Int, report : [num : Int, den : Int]]
GradientTypeOK ==
  /\ option \in StepOptions /\ rows \in StepRows
  /\ offset \in [DpRanks -> [Chunks -> Nat]] /\ fed \in [DpRanks -> [Chunks -> Nat]]
  /\ pass \in [DpRanks -> ForwardPasses \cup {"schedule", "train", "done"}] /\ stepId \in [DpRanks -> Nat]
  /\ DOMAIN plan = DpRanks /\ DOMAIN inputs = DpRanks /\ DOMAIN collected = DpRanks
  /\ DOMAIN logps = DpRanks /\ DOMAIN grad = DpRanks
  /\ updates \in Seq([DpRanks -> Seq(StepRecord)])

\* All chunks of a rank are in the same step, and none is ahead of one before it:
\* what they have read are the first micro-batches of that step.  Call q, plan p,
\* step i, micro-batches f, offsets o and inputs x.
ChunksAgree(q, p, i, f, o, x) ==
  q \in ForwardPasses \cup {"train"} =>
    /\ PlanFits(p) /\ i \in 1 .. StepsPerRollout
    /\ \A v \in Chunks : f[v] <= NumMicroBatches(i) /\ o[v] = OffsetAt(i, f[v])
    /\ \A v, w \in Chunks : v <= w => f[w] <= f[v]
    /\ x = [k \in 1 .. f[1] |-> Batch(p, i, k)]

\* Nothing has happened on a rank without a schedule.
Untouched(q, i, f, o, x, c) ==
  q = "schedule" => i = 1 /\ f = NoneFed /\ o = NoneFed /\ x = << >> /\ c = << >>

\* What came out of the last chunk, values c or losses g, belongs to what was
\* read, in that order, and so do the log-probs l of the last call.
OutputsFit(r, q, p, i, f, o, c, l, g) ==
  /\ q \in ForwardPasses => c = SamplesUpto(p, o[option.vpp])
  /\ q # "train" => g = << >>
  /\ q = "train" => g = Losses(r, i, FedOf(p, i, f[option.vpp]))
  /\ q \in {"train", "done"} => \A n \in 1 .. NumLocal : l[Last(Passes)][n] = n

RankHolds(r, q, p, i, f, o, x, c, l, g) ==
  /\ ChunksAgree(q, p, i, f, o, x) /\ Untouched(q, i, f, o, x, c)
  /\ OutputsFit(r, q, p, i, f, o, c, l, g)
RankInv(r) ==
  \A q \in {pass[r]}, p \in {plan[r]}, i \in {stepId[r]}, f \in {fed[r]}, o \in {offset[r]}, x \in {inputs[r]},
     c \in {collected[r]}, l \in {logps[r]}, g \in {grad[r]} : RankHolds(r, q, p, i, f, o, x, c, l, g)

\* The optimizer has taken the steps before the one that is under way.
UpdatesFit ==
  /\ \A r \in DpRanks : pass[r] = "train" => stepId[r] = Len(updates) + 1
  /\ updates # << >> => \A r \in DpRanks : pass[r] \in {"train", "done"}

GradientInv ==
  GradientTypeOK /\ (\A r \in DpRanks : RankInv(r)) /\ UpdatesFit /\ GradientIsMean

-----------------------------------------------------------------------------
(* Sizes.                                                                      *)

\* The batch is the same number of samples on every rank, and a rollout whole steps.
LEMMA SizesAre ==
  ASSUME option \in StepOptions, rows \in StepRows
  PROVE  /\ Dp \in Nat \ {0} /\ GlobalBatch \in Nat \ {0} /\ LocalBatch \in Nat \ {0}
         /\ GlobalBatch = Dp * LocalBatch
         /\ option.cp \in Nat \ {0} /\ option.vpp \in Nat \ {0} /\ option.group \in Nat \ {0}
         /\ option.cap \in Nat /\ option.dynamic \in BOOLEAN /\ option.perToken \in BOOLEAN
         /\ ~option.dynamic => /\ option.mbs \in Nat \ {0} /\ LocalBatch \div option.mbs \in Nat
                               /\ LocalBatch = option.mbs * (LocalBatch \div option.mbs)
         /\ StepsPerRollout \in Nat \ {0} /\ NumLocal \in Nat /\ NumLocal = LocalBatch * StepsPerRollout
         /\ \A r \in DpRanks : /\ rows[r] \in Seq([len : Nat, counted : Nat, weight : Int])
                               /\ Len(rows[r]) = NumLocal
  <1> DEFINE D == Dp
             B == BatchSizeOf(option)
             L == B \div D
             M == option.mbs
             n == NumLocal
  <1>1. D \in Nat \ {0}
    <2>1. IsFiniteSet(DpRanks) /\ DpRanks # {}
      BY GradientAssumption
    <2>2. Cardinality(DpRanks) \in Nat /\ Cardinality(DpRanks) # 0
      BY <2>1, FS_CardinalityType, FS_EmptySet
    <2> QED
      BY <2>2 DEF Dp
  <1>2. /\ {option.effective, option.requested, option.cap} \subseteq Nat
        /\ {option.dynamic, option.perToken} \subseteq BOOLEAN
        /\ {option.static, option.cp, option.vpp, option.group} \subseteq Nat \ {0} /\ B % D = 0
        /\ ~option.dynamic => M \in Nat \ {0} /\ L % M = 0
        /\ \A r, q \in DpRanks :
             /\ rows[r] \in Seq([len : Nat, counted : Nat, weight : Int])
             /\ Len(rows[r]) = Len(rows[q]) /\ Len(rows[r]) # 0 /\ Len(rows[r]) % L = 0
    BY GradientAssumption
  <1>3. B \in Nat \ {0}
    BY <1>2 DEF BatchSizeOf, Absent
  <1>4. L \in Nat \ {0} /\ B = D * L
    <2> HIDE DEF B, D
    <2> QED
      BY <1>1, <1>2, <1>3, ExactDivision
  <1>5. GlobalBatch = B /\ LocalBatch = L
    BY DEF GlobalBatch, LocalBatch
  <1>6. n \in Nat /\ n # 0 /\ n % L = 0 /\ \A r \in DpRanks : Len(rows[r]) = n
    <2>1. (CHOOSE r \in DpRanks : TRUE) \in DpRanks
      BY GradientAssumption
    <2>2. Len(rows[CHOOSE r \in DpRanks : TRUE]) \in Nat
      BY <1>2, <2>1
    <2> QED
      BY <1>2, <2>1, <2>2 DEF NumLocal
  <1>7. ~option.dynamic => M \in Nat \ {0} /\ L \div M \in Nat /\ L = M * (L \div M)
    <2> HIDE DEF L, M
    <2> QED
      BY <1>2, <1>4, ExactDivision
  <1>8. n \div L \in Nat \ {0} /\ n = L * (n \div L)
    <2> HIDE DEF L, n
    <2> QED
      BY <1>4, <1>6, ExactDivision
  <1>9. StepsPerRollout = n \div L
    BY <1>5 DEF StepsPerRollout
  <1> HIDE DEF D, B, L, M, n
  <1>10. /\ option.cp \in Nat \ {0} /\ option.vpp \in Nat \ {0} /\ option.group \in Nat \ {0}
         /\ option.cap \in Nat /\ option.dynamic \in BOOLEAN /\ option.perToken \in BOOLEAN
    BY <1>2
  <1>11. ~option.dynamic => /\ option.mbs \in Nat \ {0} /\ LocalBatch \div option.mbs \in Nat
                            /\ LocalBatch = option.mbs * (LocalBatch \div option.mbs)
    BY <1>5, <1>7 DEF M
  <1>12. StepsPerRollout \in Nat \ {0} /\ NumLocal \in Nat /\ NumLocal = LocalBatch * StepsPerRollout
    BY <1>5, <1>6, <1>8, <1>9 DEF n
  <1>13. Dp \in Nat \ {0} /\ GlobalBatch \in Nat \ {0} /\ LocalBatch \in Nat \ {0} /\ GlobalBatch = Dp * LocalBatch
    BY <1>1, <1>3, <1>4, <1>5 DEF D
  <1>14. \A r \in DpRanks : /\ rows[r] \in Seq([len : Nat, counted : Nat, weight : Int])
                            /\ Len(rows[r]) = NumLocal
    BY <1>2, <1>6 DEF n
  <1> QED
    BY <1>10, <1>11, <1>12, <1>13, <1>14

\* The samples of a step.
LEMMA WindowIs ==
  ASSUME option \in StepOptions, rows \in StepRows, NEW i \in 1 .. StepsPerRollout
  PROVE  /\ First(i) \in Nat /\ 1 <= First(i) /\ Window(i) = First(i) .. First(i) + LocalBatch - 1
         /\ Window(i) \subseteq 1 .. NumLocal /\ IsFiniteSet(Window(i)) /\ Cardinality(Window(i)) = LocalBatch
  <1> DEFINE L == LocalBatch
             S == StepsPerRollout
             a == (i - 1) * L
  <1>1. L \in Nat \ {0} /\ S \in Nat \ {0} /\ NumLocal = L * S
    BY SizesAre
  <1>2. i \in Nat /\ 1 <= i /\ i <= S
    BY <1>1
  <1> HIDE DEF L, S
  <1>3. a \in Nat /\ i * L = a + L /\ i * L <= L * S
    <2>1. a \in Nat /\ i * L = a + L
      BY <1>1, <1>2
    <2>2. CASE i = S
      BY <1>1, <1>2, <2>2
    <2>3. CASE i < S
      <3>1. L * i + L <= L * S
        BY <1>1, <1>2, <2>3, MultBound
      <3>2. L * i = i * L /\ L * i \in Int /\ L * S \in Int
        BY <1>1, <1>2
      <3> QED
        BY <1>1, <2>1, <3>1, <3>2
    <2> QED
      BY <1>1, <1>2, <2>1, <2>2, <2>3
  <1> HIDE DEF a
  <1>4. First(i) = a + 1 /\ Window(i) = a + 1 .. a + L
    BY <1>3 DEF First, Window, L, a
  <1>5. L * S \in Nat /\ a + 1 \in Int /\ a + L \in Int
    BY <1>1, <1>3
  <1>6. IsFiniteSet(a + 1 .. a + L) /\ Cardinality(a + 1 .. a + L) = IF a + 1 > a + L THEN 0 ELSE (a + L) - (a + 1) + 1
    BY <1>5, FS_Interval
  <1>7. Window(i) \subseteq 1 .. NumLocal
    BY <1>1, <1>3, <1>4, <1>5
  <1>8. a + 1 \in Nat /\ 1 <= a + 1 /\ (a + 1) + L - 1 = a + L /\ ~ (a + 1 > a + L) /\ (a + L) - (a + 1) + 1 = L
    BY <1>1, <1>3
  <1>9. First(i) \in Nat /\ 1 <= First(i) /\ Window(i) = First(i) .. First(i) + L - 1
    BY <1>4, <1>8
  <1>10. IsFiniteSet(Window(i)) /\ Cardinality(Window(i)) = L
    BY <1>4, <1>6, <1>8
  <1> QED
    BY <1>7, <1>9, <1>10 DEF L

\* The number of micro-batches is one.
LEMMA CountIs ==
  ASSUME option \in StepOptions, rows \in StepRows, NEW i \in 1 .. StepsPerRollout
  PROVE  /\ NumMicroBatches(i) \in Nat
         /\ ~option.dynamic => LocalBatch = option.mbs * NumMicroBatches(i)
  <1>1. /\ LocalBatch \in Nat \ {0} /\ option.cp \in Nat \ {0} /\ option.cap \in Nat /\ option.dynamic \in BOOLEAN
        /\ option.group \in Nat \ {0}
        /\ ~option.dynamic => /\ option.mbs \in Nat \ {0} /\ LocalBatch \div option.mbs \in Nat
                              /\ LocalBatch = option.mbs * (LocalBatch \div option.mbs)
        /\ \A r \in DpRanks : /\ rows[r] \in Seq([len : Nat, counted : Nat, weight : Int])
                              /\ Len(rows[r]) = NumLocal
    BY SizesAre
  <1>2. First(i) \in Nat /\ Window(i) = First(i) .. First(i) + LocalBatch - 1 /\ Window(i) \subseteq 1 .. NumLocal
    BY WindowIs
  <1>3. CASE ~option.dynamic
    BY <1>1, <1>3 DEF NumMicroBatches
  <1>4. CASE option.dynamic
    <2> DEFINE W == {Wanted(r, i) : r \in DpRanks}
               most == Max(W)
    <2>1. ASSUME NEW r \in DpRanks PROVE Wanted(r, i) \in Nat
      <3> DEFINE lengths == [j \in 1 .. LocalBatch |-> rows[r][First(i) + j - 1].len]
                 room == option.cap * option.cp
      <3>1. \A j \in 1 .. LocalBatch : First(i) + j - 1 \in Window(i)
        BY <1>1, <1>2
      <3>2. \A j \in 1 .. LocalBatch : rows[r][First(i) + j - 1] \in [len : Nat, counted : Nat, weight : Int]
        <4> DEFINE T == [len : Nat, counted : Nat, weight : Int]
                   s == rows[r]
        <4>1. s \in Seq(T) /\ Len(s) = NumLocal
          BY <1>1
        <4>2. \A x \in 1 .. NumLocal : s[x] \in T
          <5> HIDE DEF s, T
          <5> QED
            BY <4>1, ElementOfSeq
        <4> QED
          BY <1>2, <3>1, <4>2
      <3>3. lengths \in [1 .. LocalBatch -> Nat]
        BY <3>2
      <3>4. room \in Nat
        BY <1>1
      <3> HIDE DEF lengths, room
      <3>5. FirstFit(lengths, room) \in Nat
        BY <1>1, <3>3, <3>4, FirstFitIsPositive
      <3> QED
        BY <3>5 DEF Wanted, lengths, room
    <2>2. IsFiniteSet(W) /\ W # {} /\ W \subseteq Nat
      <3>1. IsFiniteSet(DpRanks) /\ DpRanks # {}
        BY GradientAssumption
      <3> DEFINE f == [r \in DpRanks |-> Wanted(r, i)]
      <3>2. f \in Surjection(DpRanks, W)
        BY DEF Surjection
      <3>3. IsFiniteSet(W)
        <4> HIDE DEF f, W
        <4> QED
          BY <3>1, <3>2, FS_Surjection
      <3> QED
        BY <2>1, <3>1, <3>3
    <2> HIDE DEF W
    <2>3. most \in Nat
      BY <2>2, LargestExists
    <2> HIDE DEF most
    <2>4. CASE option.vpp = 1
      BY <1>4, <2>3, <2>4 DEF NumMicroBatches, W, most
    <2>5. CASE option.vpp # 1
      <3> DEFINE q == most \div option.group
                 x == q * option.group
      <3>1. q \in Nat
        BY <1>1, <2>3, WholePart
      <3> HIDE DEF q
      <3>2. x \in Nat
        BY <1>1, <3>1
      <3> HIDE DEF x
      <3>3. Max({x, 1}) \in {x, 1}
        BY <3>2 DEF Max
      <3>4. NumMicroBatches(i) = Max({x, 1})
        BY <1>4, <2>5 DEF NumMicroBatches, W, most, q, x
      <3> QED
        BY <1>4, <3>2, <3>3, <3>4
    <2> QED
      BY <1>4, <2>4, <2>5
  <1> QED
    BY <1>1, <1>3, <1>4

\* A step begins where the one before it ends.
LEMMA BaseIs ==
  ASSUME option \in StepOptions, rows \in StepRows
  PROVE  /\ StepBase(1) = 0 /\ \A i \in 1 .. StepsPerRollout + 1 : StepBase(i) \in Nat
         /\ \A i \in 1 .. StepsPerRollout : StepBase(i + 1) = OffsetAt(i, NumMicroBatches(i))
         /\ \A i \in 1 .. StepsPerRollout + 1 :
              /\ OffsetAt(i, 0) = StepBase(i)
              /\ \A n \in Nat : OffsetAt(i, n) \in Nat /\ OffsetAt(i, n + 1) = Advanced(OffsetAt(i, n))
  <1> DEFINE S == StepsPerRollout
             size == [k \in 1 .. S |-> NumMicroBatches(k)]
             L == LocalBatch
  <1>1. /\ S \in Nat /\ L \in Nat /\ option.dynamic \in BOOLEAN
        /\ ~option.dynamic => option.mbs \in Nat \ {0}
    BY SizesAre
  <1>2. \A i \in 1 .. S : NumMicroBatches(i) \in Nat /\ (~option.dynamic => L = option.mbs * NumMicroBatches(i))
    BY CountIs
  <1>3. \A i \in 1 .. S : size[i] = NumMicroBatches(i) /\ size[i] \in Nat
    BY <1>2
  <1> HIDE DEF S, L, size
  <1>4. /\ SumFunctionOnSet(size, 1 .. 0) = 0
        /\ \A i \in 0 .. S : SumFunctionOnSet(size, 1 .. i) \in Nat
        /\ \A i \in 1 .. S : SumFunctionOnSet(size, 1 .. i) = SumFunctionOnSet(size, 1 .. i - 1) + size[i]
    BY <1>1, <1>3, SumUpTo
  <1>5. CASE option.dynamic
    <2>1. \A i : StepBase(i) = SumFunctionOnSet(size, 1 .. i - 1)
      BY <1>5 DEF StepBase, size, S
    <2>2. \A i \in 1 .. S + 1 : i - 1 \in 0 .. S
      BY <1>1
    <2>3. 1 - 1 = 0 /\ \A i \in 1 .. S : (i + 1) - 1 = i
      BY <1>1
    <2>4. StepBase(1) = 0
      BY <1>4, <2>1, <2>3
    <2>5. \A i \in 1 .. S + 1 : StepBase(i) \in Nat
      BY <1>4, <2>1, <2>2
    <2>6. \A i, n : OffsetAt(i, n) = StepBase(i) + n /\ Advanced(n) = n + 1
      BY <1>5 DEF OffsetAt, Advanced
    <2>7. ASSUME NEW i \in 1 .. S PROVE StepBase(i + 1) = OffsetAt(i, NumMicroBatches(i))
      <3>1. StepBase(i + 1) = SumFunctionOnSet(size, 1 .. i)
        BY <2>1, <2>3
      <3>2. SumFunctionOnSet(size, 1 .. i) = StepBase(i) + NumMicroBatches(i)
        BY <1>3, <1>4, <2>1
      <3> QED
        BY <2>6, <3>1, <3>2
    <2> QED
      BY <2>4, <2>5, <2>6, <2>7 DEF S
  <1>6. CASE ~option.dynamic
    <2> DEFINE M == option.mbs
    <2>1. M \in Nat \ {0} /\ \A i \in 1 .. S : L = M * NumMicroBatches(i) /\ NumMicroBatches(i) \in Nat
      BY <1>1, <1>2, <1>6
    <2>2. \A i, n : StepBase(i) = (i - 1) * L /\ OffsetAt(i, n) = StepBase(i) + n * M /\ Advanced(n) = n + M
      BY <1>6 DEF StepBase, OffsetAt, Advanced, L
    <2> HIDE DEF M
    <2>3. StepBase(1) = 0
      BY <1>1, <2>2
    <2>4. ASSUME NEW i \in 1 .. S + 1 PROVE StepBase(i) \in Nat
      BY <1>1, <2>2
    <2>5. ASSUME NEW i \in 1 .. S PROVE StepBase(i + 1) = OffsetAt(i, NumMicroBatches(i))
      <3>1. i \in Nat /\ (i + 1) - 1 = i /\ i * L = (i - 1) * L + L
        BY <1>1
      <3>2. L = NumMicroBatches(i) * M
        BY <2>1
      <3> QED
        BY <2>2, <3>1, <3>2
    <2>6. ASSUME NEW i \in 1 .. S + 1, NEW n \in Nat
          PROVE  OffsetAt(i, 0) = StepBase(i) /\ OffsetAt(i, n) \in Nat /\ OffsetAt(i, n + 1) = Advanced(OffsetAt(i, n))
      <3>1. StepBase(i) \in Nat /\ n * M \in Nat /\ 0 * M = 0 /\ (n + 1) * M = n * M + M
        BY <2>1, <2>4
      <3>2. OffsetAt(i, 0) = StepBase(i)
        BY <2>2, <3>1
      <3>3. OffsetAt(i, n) = StepBase(i) + n * M /\ OffsetAt(i, n + 1) = StepBase(i) + (n * M + M)
            /\ Advanced(OffsetAt(i, n)) = OffsetAt(i, n) + M
        BY <2>2, <3>1
      <3> QED
        BY <2>1, <3>1, <3>2, <3>3
    <2> QED
      BY <2>3, <2>4, <2>5, <2>6, <1>1 DEF S
  <1> QED
    BY <1>1, <1>5, <1>6

-----------------------------------------------------------------------------
(* Micro-batches.                                                              *)

\* The list of a set has each of its numbers once.
LEMMA ListedIs ==
  ASSUME NEW S \in SUBSET Nat, IsFiniteSet(S)
  PROVE  /\ Listed(S) \in Seq(S) /\ Len(Listed(S)) = Cardinality(S) /\ OneToOne(Listed(S))
         /\ \A x \in S : \E n \in 1 .. Len(Listed(S)) : Listed(S)[n] = x
  <1> DEFINE order == {p \in S \X S : p[1] < p[2]}
             c == Cardinality(S)
             rank(x) == Cardinality({y \in S : y < x})
             s == Listed(S)
  <1>1. c \in Nat
    BY FS_CardinalityType
  <1>2. IsTotalOrder(S, order)
    BY DEF IsTotalOrder
  <1>3. \A x \in S : Earlier(S, order, x) = {y \in S : y < x}
    BY DEF Earlier
  <1>4. \A e \in 0 .. c - 1 : \E x \in S : rank(x) = e
    <2> HIDE DEF order
    <2>1. \A e \in 0 .. c - 1 : \E x \in S : Cardinality(Earlier(S, order, x)) = e
      BY <1>2, RanksExist
    <2> QED
      BY <1>3, <2>1
  <1>5. ASSUME NEW x \in S, NEW y \in S, x < y PROVE rank(x) < rank(y)
    <2>1. <<x, y>> \in order
      BY <1>5
    <2> HIDE DEF order
    <2>2. Cardinality(Earlier(S, order, x)) < Cardinality(Earlier(S, order, y))
      BY <1>2, <2>1, RanksDiffer
    <2> QED
      BY <1>3, <2>2
  <1>6. \A x \in S : rank(x) \in 0 .. c - 1
    <2> SUFFICES ASSUME NEW x \in S PROVE rank(x) \in 0 .. c - 1
      OBVIOUS
    <2> DEFINE T == {y \in S : y < x}
    <2>1. T \in SUBSET S /\ x \notin T
      OBVIOUS
    <2> HIDE DEF T
    <2>2. Cardinality(T) < c
      BY <2>1, ProperSubset
    <2>3. Cardinality(T) \in Nat
      BY <2>1, FS_Subset, FS_CardinalityType
    <2> QED
      BY <1>1, <2>2, <2>3 DEF T
  <1>7. \A x, y \in S : rank(x) = rank(y) => x = y
    <2> SUFFICES ASSUME NEW x \in S, NEW y \in S, rank(x) = rank(y), x # y PROVE FALSE
      OBVIOUS
    <2>1. x < y \/ y < x
      OBVIOUS
    <2>2. rank(x) \in Int /\ rank(y) \in Int
      BY <1>6
    <2> QED
      BY <1>5, <2>1, <2>2
  <1>8. s = [n \in 1 .. c |-> CHOOSE x \in S : rank(x) = n - 1]
    BY DEF Listed
  <1> HIDE DEF rank, s, c
  <1>9. \A n \in 1 .. c : s[n] \in S /\ rank(s[n]) = n - 1
    <2> SUFFICES ASSUME NEW n \in 1 .. c PROVE s[n] \in S /\ rank(s[n]) = n - 1
      OBVIOUS
    <2>1. n - 1 \in 0 .. c - 1
      BY <1>1
    <2>2. \E x \in S : rank(x) = n - 1
      BY <1>4, <2>1
    <2> QED
      BY <1>8, <2>2
  <1>10. s \in [1 .. c -> S]
    BY <1>8, <1>9
  <1>11. s \in Seq(S) /\ Len(s) = c
    BY <1>1, <1>10
  <1>12. OneToOne(s)
    <2>1. \A n \in 1 .. c : n \in Int
      BY <1>1
    <2> QED
      BY <1>9, <1>11, <2>1 DEF OneToOne
  <1>13. \A x \in S : \E n \in 1 .. c : s[n] = x
    <2> SUFFICES ASSUME NEW x \in S PROVE \E n \in 1 .. c : s[n] = x
      OBVIOUS
    <2> DEFINE n == rank(x) + 1
    <2>1. n \in 1 .. c /\ n - 1 = rank(x)
      BY <1>1, <1>6
    <2>2. s[n] \in S /\ rank(s[n]) = rank(x)
      <3> HIDE DEF n
      <3> QED
        BY <1>9, <2>1
    <2> HIDE DEF n
    <2> QED
      BY <1>7, <2>1, <2>2
  <1> QED
    BY <1>11, <1>12, <1>13 DEF s, c

\* A partition of the samples of a step cuts it into micro-batches.
LEMMA PartitionCuts ==
  ASSUME option \in StepOptions, rows \in StepRows, NEW i \in 1 .. StepsPerRollout, NEW q \in Partitions(i)
  PROVE  Cuts(q, i) /\ Len(q) = NumMicroBatches(i)
  <1> DEFINE n == NumMicroBatches(i)
             W == Window(i)
  <1>1. n \in Nat /\ IsFiniteSet(W) /\ W \subseteq Nat
    <2>1. Window(i) \subseteq 1 .. NumLocal /\ IsFiniteSet(Window(i)) /\ NumLocal \in Nat
      BY WindowIs, SizesAre
    <2> QED
      BY <2>1, CountIs
  <1>2. PICK p \in [1 .. n -> SUBSET W \ {{}}] :
          /\ q = [j \in DOMAIN p |-> Listed(p[j])]
          /\ UNION {p[j] : j \in DOMAIN p} = W
          /\ \A j, k \in DOMAIN p : j # k => p[j] \cap p[k] = {}
    BY DEF Partitions
  <1> HIDE DEF n, W
  <1>3. /\ DOMAIN p = 1 .. n /\ DOMAIN q = 1 .. n /\ \A j \in 1 .. n : q[j] = Listed(p[j]) /\ p[j] \in SUBSET W
    BY <1>2
  <1>4. \A j \in 1 .. n : IsFiniteSet(p[j]) /\ p[j] \in SUBSET Nat
    BY <1>1, <1>3, FS_Subset
  <1>5. \A j \in 1 .. n :
          /\ q[j] \in Seq(p[j]) /\ OneToOne(q[j])
          /\ \A x \in p[j] : \E e \in 1 .. Len(q[j]) : q[j][e] = x
    BY <1>3, <1>4, ListedIs, SMTT(30)
  <1>6. \A j \in 1 .. n : q[j] \in Seq(Nat) /\ \A e \in 1 .. Len(q[j]) : q[j][e] \in p[j] /\ q[j][e] \in W
    <2> SUFFICES ASSUME NEW j \in 1 .. n
                 PROVE  q[j] \in Seq(Nat) /\ \A e \in 1 .. Len(q[j]) : q[j][e] \in p[j] /\ q[j][e] \in W
      OBVIOUS
    <2> DEFINE S == p[j]
               t == q[j]
    <2>1. S \in SUBSET Nat /\ S \in SUBSET W /\ t \in Seq(S)
      BY <1>3, <1>4, <1>5
    <2> HIDE DEF S, t
    <2>2. t \in Seq(Nat)
      BY <2>1, SeqMonotonic
    <2>3. \A e \in 1 .. Len(t) : t[e] \in S
      BY <2>1, ElementOfSeq
    <2> QED
      BY <2>1, <2>2, <2>3 DEF S, t
  <1>7. q \in Seq(Seq(Nat)) /\ Len(q) = n
    <2> DEFINE V == Seq(Nat)
    <2>1. q \in [1 .. n -> V]
      BY <1>2, <1>3, <1>6
    <2> HIDE DEF V
    <2>2. q \in Seq(V) /\ Len(q) = n
      BY <1>1, <2>1
    <2> QED
      BY <2>2 DEF V
  <1>8. AllDistinct(q)
    <2> SUFFICES ASSUME NEW j \in 1 .. n, NEW k \in 1 .. n, NEW a \in 1 .. Len(q[j]), NEW b \in 1 .. Len(q[k]),
                        q[j][a] = q[k][b]
                 PROVE  j = k /\ a = b
      BY <1>7 DEF AllDistinct
    <2>1. q[j][a] \in p[j] /\ q[k][b] \in p[k]
      BY <1>6
    <2>2. j = k
      BY <1>2, <1>3, <2>1
    <2> QED
      BY <1>5, <2>2 DEF OneToOne
  <1>9. \A x \in W : \E j \in 1 .. n : \E e \in 1 .. Len(q[j]) : q[j][e] = x
    <2> SUFFICES ASSUME NEW x \in W PROVE \E j \in 1 .. n : \E e \in 1 .. Len(q[j]) : q[j][e] = x
      OBVIOUS
    <2>1. PICK j \in 1 .. n : x \in p[j]
      BY <1>2, <1>3
    <2> QED
      BY <1>5, <2>1
  <1> QED
    BY <1>6, <1>7, <1>8, <1>9 DEF Cuts, n, W

\* A plan of Schedules has such a cut of every step.
LEMMA PlannedFits ==
  ASSUME option \in StepOptions, rows \in StepRows, option.dynamic, NEW p \in Schedules
  PROVE  PlanFits(p)
  <1> DEFINE n == StepsPerRollout
             size == [k \in 1 .. n |-> NumMicroBatches(k)]
             B == Seq(Nat)
             S == Seq(B)
  <1>1. PICK ps \in [1 .. n -> UNION {Partitions(i) : i \in 1 .. n}] :
          p = FlattenSeq(ps) /\ \A i \in 1 .. n : ps[i] \in Partitions(i)
    BY DEF Schedules
  <1>2. n \in Nat
    BY SizesAre
  <1>3. \A i \in 1 .. n : Cuts(ps[i], i) /\ Len(ps[i]) = NumMicroBatches(i)
    BY <1>1, PartitionCuts
  <1>4. \A i \in 1 .. n : ps[i] \in S
    BY <1>3 DEF Cuts
  <1>5. \A i \in 1 .. n : size[i] = Len(ps[i])
    BY <1>3
  <1>6. \A i : StepBase(i) = SumFunctionOnSet(size, 1 .. i - 1)
    BY DEF StepBase
  <1> HIDE DEF n, size, B
  <1>7. ps \in Seq(S) /\ Len(ps) = n
    <2> HIDE DEF S
    <2> QED
      BY <1>1, <1>2, <1>4
  <1>8. ps \in Seq(Seq(B))
    BY <1>7
  <1>9. /\ Len(p) = SumFunctionOnSet(size, 1 .. n)
        /\ \A i \in 1 .. n : \A k \in 1 .. Len(ps[i]) : p[SumFunctionOnSet(size, 1 .. i - 1) + k] = ps[i][k]
    <2>1. \A i \in 1 .. Len(ps) : size[i] = Len(ps[i])
      BY <1>5, <1>7
    <2> DEFINE t == ps
    <2>2. t \in Seq(Seq(B)) /\ \A i \in 1 .. Len(t) : size[i] = Len(t[i])
      BY <1>8, <2>1
    <2> HIDE DEF S, t
    <2>3. /\ Len(FlattenSeq(t)) = SumFunctionOnSet(size, 1 .. Len(t))
          /\ \A i \in 1 .. Len(t) :
               /\ SumFunctionOnSet(size, 1 .. i) <= Len(FlattenSeq(t))
               /\ \A e \in 1 .. Len(t[i]) :
                    FlattenSeq(t)[SumFunctionOnSet(size, 1 .. i - 1) + e] = t[i][e]
      BY <2>2, FlattenPlaces
    <2> QED
      BY <1>1, <1>7, <2>3 DEF t
  <1>10. FlattenSeq(ps) \in Seq(B)
    <2> HIDE DEF S
    <2> QED
      BY <1>8, FlattenElements
  <1>11. p \in Seq(Seq(Nat)) /\ Len(p) = StepBase(n + 1)
    <2>1. (n + 1) - 1 = n
      BY <1>2
    <2> QED
      BY <1>1, <1>6, <1>9, <1>10, <2>1 DEF B
  <1>12. ASSUME NEW i \in 1 .. n PROVE StepOf(p, i) = ps[i]
    <2> DEFINE q == ps[i]
    <2>1. q \in S /\ Len(q) = NumMicroBatches(i)
      BY <1>3, <1>4
    <2>2. \A k \in 1 .. Len(q) : Batch(p, i, k) = q[k]
      BY <1>6, <1>9 DEF Batch
    <2> HIDE DEF q
    <2>3. q = [k \in 1 .. Len(q) |-> q[k]]
      BY <2>1
    <2> QED
      BY <2>1, <2>2, <2>3 DEF StepOf, q
  <1> QED
    BY <1>3, <1>11, <1>12 DEF PlanFits, n

\* So do the micro-batches of a fixed size.
LEMMA FixedFits ==
  ASSUME option \in StepOptions, rows \in StepRows, ~option.dynamic, NEW p
  PROVE  PlanFits(p)
  <1> SUFFICES ASSUME NEW i \in 1 .. StepsPerRollout PROVE Cuts(StepOf(p, i), i)
    BY DEF PlanFits
  <1> DEFINE q == StepOf(p, i)
             n == NumMicroBatches(i)
             M == option.mbs
             a == StepBase(i)
             L == LocalBatch
             W == Window(i)
  <1>1. M \in Nat \ {0} /\ n \in Nat /\ a \in Nat /\ L = M * n /\ L \in Nat \ {0}
    <2>1. option.mbs \in Nat \ {0} /\ LocalBatch \in Nat \ {0} /\ StepsPerRollout \in Nat
      BY SizesAre
    <2>2. NumMicroBatches(i) \in Nat /\ LocalBatch = option.mbs * NumMicroBatches(i)
      BY CountIs
    <2>3. i \in 1 .. StepsPerRollout + 1
      BY <2>1
    <2> QED
      BY <2>1, <2>2, <2>3, BaseIs
  <1>2. W = a + 1 .. a + L
    <2>1. First(i) = a + 1
      BY DEF First, StepBase
    <2>2. Window(i) = First(i) .. First(i) + LocalBatch - 1
      BY WindowIs
    <2>3. (a + 1) + L - 1 = a + L
      BY <1>1
    <2> QED
      BY <2>1, <2>2, <2>3
  <1>3. q = [k \in 1 .. n |-> [j \in 1 .. M |-> (a + (k - 1) * M) + j]]
    BY DEF StepOf, Batch, OffsetAt
  <1> HIDE DEF q, n, M, a, L, W
  <1>4. Len(q) = n /\ \A k \in 1 .. n : Len(q[k]) = M /\ \A j \in 1 .. M : q[k][j] = (a + (k - 1) * M) + j
    BY <1>1, <1>3
  <1>5. ASSUME NEW k \in 1 .. n, NEW j \in 1 .. M
        PROVE  (a + (k - 1) * M) + j \in W
    <2>1. k \in Nat /\ j \in Nat /\ (k - 1) * M \in Nat /\ k * M = (k - 1) * M + M
      BY <1>1
    <2>2. k * M <= L
      <3>1. CASE k = n
        BY <1>1, <3>1
      <3>2. CASE k < n
        <4>1. M * k + M <= M * n
          BY <1>1, <3>2, <2>1, MultBound
        <4>2. M * k = k * M
          BY <1>1, <2>1
        <4> QED
          BY <1>1, <2>1, <4>1, <4>2
      <3> QED
        BY <1>1, <2>1, <3>1, <3>2
    <2> DEFINE z == (k - 1) * M
    <2>3. z \in Nat /\ z + M <= L
      BY <2>1, <2>2
    <2> HIDE DEF z
    <2>4. (a + z) + j \in a + 1 .. a + L
      BY <1>1, <2>1, <2>3
    <2> QED
      BY <1>2, <2>4 DEF z
  <1>6. ASSUME NEW k \in 1 .. n PROVE q[k] \in Seq(Nat)
    <2>1. (k - 1) * M \in Nat /\ q[k] = [j \in 1 .. M |-> (a + (k - 1) * M) + j]
      BY <1>1, <1>3
    <2> DEFINE z == a + (k - 1) * M
    <2>2. z \in Nat /\ q[k] = [j \in 1 .. M |-> z + j]
      BY <1>1, <2>1, SMTT(30)
    <2> HIDE DEF z
    <2> QED
      BY <1>1, <2>2
  <1>7. q \in Seq(Seq(Nat))
    <2> DEFINE V == Seq(Nat)
    <2>1. \A k \in 1 .. n : q[k] \in V
      BY <1>6
    <2>2. DOMAIN q = 1 .. n /\ q = [k \in 1 .. n |-> q[k]]
      BY <1>3
    <2> HIDE DEF V
    <2>3. q \in Seq(V)
      BY <1>1, <2>1, <2>2
    <2> QED
      BY <2>3 DEF V
  <1>8. AllDistinct(q)
    <2> SUFFICES ASSUME NEW k \in 1 .. n, NEW u \in 1 .. n, NEW j \in 1 .. M, NEW v \in 1 .. M,
                        (a + (k - 1) * M) + j = (a + (u - 1) * M) + v
                 PROVE  k = u /\ j = v
      BY <1>4 DEF AllDistinct
    <2> DEFINE x == k - 1
               y == u - 1
               b == j - 1
               c == v - 1
    <2>1. x \in Int /\ y \in Int /\ b \in 0 .. M - 1 /\ c \in 0 .. M - 1 /\ k = x + 1 /\ u = y + 1 /\ j = b + 1 /\ v = c + 1
      BY <1>1
    <2>2. (a + x * M) + j = (a + y * M) + v
      OBVIOUS
    <2> HIDE DEF x, y, b, c
    <2>3. M * x + b = M * y + c
      <3>1. x * M \in Int /\ y * M \in Int /\ x * M = M * x /\ y * M = M * y
        BY <1>1, <2>1
      <3> QED
        BY <1>1, <2>1, <2>2, <3>1
    <2> DEFINE d == M * x + b
    <2>4. d \in Int /\ d = M * x + b /\ d = M * y + c
      BY <1>1, <2>1, <2>3
    <2> HIDE DEF d
    <2>5. d \div M = x /\ d % M = b
      BY <1>1, <2>1, <2>4, DivUnique
    <2>6. d \div M = y /\ d % M = c
      BY <1>1, <2>1, <2>4, DivUnique
    <2> QED
      BY <2>1, <2>5, <2>6
  <1>9. ASSUME NEW x \in W PROVE \E k \in 1 .. n : \E j \in 1 .. M : (a + (k - 1) * M) + j = x
    <2> DEFINE d == x - a - 1
               y == d \div M
               b == d % M
    <2>1. d \in Nat /\ d < L /\ x = a + d + 1
      BY <1>1, <1>2
    <2> HIDE DEF d
    <2>2. y \in Nat /\ b \in 0 .. M - 1 /\ d = M * y + b
      <3>1. d \div M \in Nat
        BY <1>1, <2>1, WholePart
      <3>2. d \in Int
        BY <2>1
      <3>3. d % M \in 0 .. M - 1 /\ d = M * (d \div M) + (d % M)
        BY <1>1, <3>2, DivMod
      <3> QED
        BY <3>1, <3>3
    <2> HIDE DEF y, b
    <2>3. y < n
      <3> SUFFICES ASSUME n <= y PROVE FALSE
        BY <1>1, <2>2
      <3>1. CASE n = y
        BY <1>1, <2>1, <2>2, <3>1
      <3>2. CASE n < y
        <4>1. M * n + M <= M * y
          BY <1>1, <2>2, <3>2, MultBound
        <4>2. M * n \in Int /\ M * y \in Int
          BY <1>1, <2>2
        <4> QED
          BY <1>1, <2>1, <2>2, <4>1, <4>2
      <3> QED
        BY <1>1, <2>2, <3>1, <3>2
    <2>4. y + 1 \in 1 .. n /\ b + 1 \in 1 .. M /\ (y + 1) - 1 = y
      BY <1>1, <2>2, <2>3
    <2>5. (a + y * M) + (b + 1) = x
      <3>1. y * M = M * y /\ M * y \in Int
        BY <1>1, <2>2
      <3> QED
        BY <1>1, <2>1, <2>2, <3>1
    <2> QED
      BY <2>4, <2>5
  <1>10. \A k \in 1 .. Len(q) : \A j \in 1 .. Len(q[k]) : q[k][j] \in W
    BY <1>4, <1>5
  <1>11. \A x \in W : \E k \in 1 .. Len(q) : \E j \in 1 .. Len(q[k]) : q[k][j] = x
    BY <1>4, <1>9
  <1> QED
    BY <1>7, <1>8, <1>10, <1>11 DEF Cuts, q, W

-----------------------------------------------------------------------------
(* What the iterators read.                                                    *)

\* A micro-batch has samples of its step.
LEMMA BatchIs ==
  ASSUME option \in StepOptions, rows \in StepRows, NEW i \in 1 .. StepsPerRollout, NEW p, PlanFits(p)
  PROVE  /\ StepOf(p, i) \in Seq(Seq(Nat)) /\ Len(StepOf(p, i)) = NumMicroBatches(i)
         /\ \A k \in 1 .. NumMicroBatches(i) :
              /\ Batch(p, i, k) \in Seq(Nat)
              /\ \A j \in 1 .. Len(Batch(p, i, k)) : Batch(p, i, k)[j] \in Window(i)
  <1> DEFINE q == StepOf(p, i)
             n == NumMicroBatches(i)
             B == Seq(Nat)
             W == Window(i)
  <1>1. q \in Seq(B) /\ \A k \in 1 .. Len(q) : \A j \in 1 .. Len(q[k]) : q[k][j] \in W
    BY DEF PlanFits, Cuts
  <1>2. n \in Nat
    BY CountIs
  <1>3. q = [k \in 1 .. n |-> Batch(p, i, k)]
    BY DEF StepOf
  <1> HIDE DEF q, n, B, W
  <1>4. Len(q) = n
    BY <1>2, <1>3
  <1>5. \A k \in 1 .. n : q[k] \in B
    BY <1>1, <1>4, ElementOfSeq
  <1>6. \A k \in 1 .. n : q[k] = Batch(p, i, k)
    BY <1>3
  <1>7. \A k \in 1 .. n : \A j \in 1 .. Len(q[k]) : q[k][j] \in W
    BY <1>1, <1>4
  <1>8. \A k \in 1 .. n : Batch(p, i, k) \in B
    BY <1>5, <1>6
  <1>9. \A k \in 1 .. n : \A j \in 1 .. Len(Batch(p, i, k)) : Batch(p, i, k)[j] \in W
    BY <1>6, <1>7
  <1> QED
    BY <1>1, <1>4, <1>8, <1>9 DEF q, n, B, W

\* One micro-batch more.
LEMMA FedGrows ==
  ASSUME option \in StepOptions, rows \in StepRows, NEW i \in 1 .. StepsPerRollout, NEW p, PlanFits(p)
  PROVE  /\ FedOf(p, i, 0) = << >>
         /\ \A n \in 0 .. NumMicroBatches(i) : FedOf(p, i, n) \in Seq(Nat)
         /\ \A n \in 0 .. NumMicroBatches(i) - 1 : FedOf(p, i, n + 1) = FedOf(p, i, n) \o Batch(p, i, n + 1)
  <1> DEFINE K == NumMicroBatches(i)
             B == Seq(Nat)
             b(k) == Batch(p, i, k)
             s(n) == [k \in 1 .. n |-> b(k)]
  <1>1. K \in Nat
    BY CountIs
  <1>2. \A k \in 1 .. K : b(k) \in B
    BY BatchIs
  <1>3. \A n : FedOf(p, i, n) = FlattenSeq(s(n))
    BY DEF FedOf
  <1> HIDE DEF K, B, b
  <1>4. \A n \in 0 .. K : s(n) \in Seq(B) /\ Len(s(n)) = n
    <2> SUFFICES ASSUME NEW n \in 0 .. K PROVE s(n) \in Seq(B) /\ Len(s(n)) = n
      OBVIOUS
    <2>1. n \in Nat /\ \A k \in 1 .. n : k \in 1 .. K
      BY <1>1
    <2>2. s(n) \in [1 .. n -> B]
      BY <1>2, <2>1
    <2> QED
      BY <2>1, <2>2
  <1>5. FedOf(p, i, 0) = << >>
    <2>1. s(0) = << >>
      OBVIOUS
    <2> QED
      BY <1>3, <2>1, FlattenNothing
  <1>6. \A n \in 0 .. K : FlattenSeq(s(n)) \in Seq(Nat)
    <2> SUFFICES ASSUME NEW n \in 0 .. K PROVE FlattenSeq(s(n)) \in Seq(Nat)
      OBVIOUS
    <2> DEFINE t == s(n)
    <2>1. t \in Seq(Seq(Nat))
      BY <1>4 DEF B
    <2> HIDE DEF t
    <2>2. FlattenSeq(t) \in Seq(Nat)
      BY <2>1, FlattenElements
    <2> QED
      BY <2>2 DEF t
  <1>7. \A n \in 0 .. K - 1 : FlattenSeq(s(n + 1)) = FlattenSeq(s(n)) \o b(n + 1)
    <2> SUFFICES ASSUME NEW n \in 0 .. K - 1 PROVE FlattenSeq(s(n + 1)) = FlattenSeq(s(n)) \o b(n + 1)
      OBVIOUS
    <2> DEFINE t == s(n)
               u == s(n + 1)
               x == b(n + 1)
    <2>1. n \in 0 .. K /\ n + 1 \in 0 .. K /\ n + 1 \in 1 .. K /\ n \in Nat
      BY <1>1
    <2>2. t \in Seq(B) /\ Len(t) = n /\ u \in Seq(B) /\ Len(u) = n + 1 /\ x \in B
      BY <1>2, <1>4, <2>1
    <2>3. \A k \in 1 .. n : u[k] = t[k]
      BY <2>1
    <2>4. u[n + 1] = x
      BY <2>1
    <2> HIDE DEF t, u, x
    <2>5. u = Append(t, x)
      <3>1. Append(t, x) \in Seq(B) /\ Len(Append(t, x)) = n + 1 /\ Append(t, x)[n + 1] = x
            /\ \A k \in 1 .. n : Append(t, x)[k] = t[k]
        BY <2>2, AppendGives
      <3>2. \A k \in 1 .. n + 1 : u[k] = Append(t, x)[k]
        BY <2>1, <2>3, <2>4, <3>1
      <3> QED
        BY <2>2, <3>1, <3>2, SeqEqual
    <2>6. t \in Seq(Seq(Nat)) /\ x \in Seq(Nat)
      BY <2>2 DEF B
    <2>7. FlattenSeq(Append(t, x)) = FlattenSeq(t) \o x
      BY <2>6, FlattenAppend
    <2> QED
      BY <2>5, <2>7 DEF t, u, x
  <1> QED
    BY <1>3, <1>5, <1>6, <1>7 DEF K, b

\* The losses of more samples.
LEMMA LossesGrow ==
  ASSUME NEW r, NEW i, NEW s \in Seq(Nat), NEW t \in Seq(Nat)
  PROVE  Losses(r, i, s \o t) = Losses(r, i, s) \o Losses(r, i, t) /\ Losses(r, i, << >>) = << >>
  <1> DEFINE f == [n \in Nat |-> LossRecord(r, i, n)]
  <1>1. \A n \in Nat : f[n] = LossRecord(r, i, n)
    OBVIOUS
  <1>2. \A u \in Seq(Nat) : Losses(r, i, u) = Through(f, u)
    <2> SUFFICES ASSUME NEW u \in Seq(Nat) PROVE Losses(r, i, u) = Through(f, u)
      OBVIOUS
    <2>1. \A j \in DOMAIN u : u[j] \in Nat
      OBVIOUS
    <2> QED
      BY <1>1, <2>1 DEF Losses, Through
  <1> HIDE DEF f
  <1>3. s \o t \in Seq(Nat) /\ Through(f, s \o t) = Through(f, s) \o Through(f, t)
    BY MappedTogether
  <1>4. Losses(r, i, << >>) = << >>
    BY DEF Losses
  <1> QED
    BY <1>2, <1>3, <1>4

\* The last step ends where the rollout does, and no step after it.
LEMMA StepsAscend ==
  ASSUME option \in StepOptions, rows \in StepRows, NEW i \in 1 .. StepsPerRollout, option.dynamic
  PROVE  StepBase(i) + NumMicroBatches(i) <= StepBase(StepsPerRollout + 1)
  <1> DEFINE S == StepsPerRollout
             T == {n \in Nat : i + 1 + n <= S + 1 => StepBase(i + 1) <= StepBase(i + 1 + n)}
  <1>1. S \in Nat \ {0}
    BY SizesAre
  <1>2. /\ \A k \in 1 .. S + 1 : StepBase(k) \in Nat
        /\ \A k \in 1 .. S : NumMicroBatches(k) \in Nat /\ StepBase(k + 1) = StepBase(k) + NumMicroBatches(k)
    <2>1. /\ \A k \in 1 .. S + 1 : StepBase(k) \in Nat
          /\ \A k \in 1 .. S : StepBase(k + 1) = OffsetAt(k, NumMicroBatches(k))
      BY BaseIs
    <2>2. \A k, n : OffsetAt(k, n) = StepBase(k) + n
      BY DEF OffsetAt
    <2> QED
      BY <2>1, <2>2, CountIs
  <1> HIDE DEF S
  <1>3. 0 \in T
    <2>1. i + 1 \in 1 .. S + 1 /\ i + 1 + 0 = i + 1
      BY <1>1 DEF S
    <2>2. StepBase(i + 1) \in Nat
      BY <1>2, <2>1
    <2> QED
      BY <2>1, <2>2
  <1>4. ASSUME NEW n \in Nat, n \in T, i + 1 + (n + 1) <= S + 1 PROVE StepBase(i + 1) <= StepBase(i + 1 + (n + 1))
    <2> DEFINE k == i + 1 + n
    <2>1. k \in 1 .. S /\ k + 1 = i + 1 + (n + 1) /\ k <= S + 1 /\ i + 1 \in 1 .. S + 1
      BY <1>1, <1>4 DEF S
    <2>2. StepBase(i + 1) <= StepBase(k)
      BY <1>4, <2>1
    <2>3. StepBase(k + 1) = StepBase(k) + NumMicroBatches(k) /\ NumMicroBatches(k) \in Nat
      BY <1>2, <2>1
    <2>4. StepBase(k) \in Nat /\ StepBase(i + 1) \in Nat
      <3>1. k \in 1 .. S + 1
        BY <1>1, <2>1
      <3> QED
        BY <1>2, <2>1, <3>1
    <2> HIDE DEF k
    <2>5. StepBase(i + 1) <= StepBase(k + 1)
      BY <2>2, <2>3, <2>4
    <2> QED
      BY <2>1, <2>5
  <1>5. \A n \in Nat : n \in T => n + 1 \in T
    BY <1>4
  <1>6. S - i \in T
    <2>1. \A n \in Nat : n \in T
      <3> HIDE DEF T
      <3> QED
        BY <1>3, <1>5, SetInduction
    <2>2. S - i \in Nat
      BY <1>1 DEF S
    <2> QED
      BY <2>1, <2>2
  <1>7. i + 1 + (S - i) = S + 1
    BY <1>1 DEF S
  <1>8. StepBase(i + 1) <= StepBase(S + 1)
    BY <1>1, <1>6, <1>7
  <1>9. StepBase(i + 1) = StepBase(i) + NumMicroBatches(i)
    BY <1>2 DEF S
  <1> QED
    BY <1>8, <1>9 DEF S

\* The samples that an iterator has gone through.
LEMMA UptoGrows ==
  ASSUME option \in StepOptions, rows \in StepRows, NEW i \in 1 .. StepsPerRollout, NEW p, PlanFits(p)
  PROVE  /\ SamplesUpto(p, 0) = << >>
         /\ \A n \in 0 .. NumMicroBatches(i) - 1 :
              SamplesUpto(p, OffsetAt(i, n + 1)) = SamplesUpto(p, OffsetAt(i, n)) \o Batch(p, i, n + 1)
  <1> DEFINE K == NumMicroBatches(i)
             S == StepsPerRollout
  <1>1. /\ K \in Nat /\ S \in Nat \ {0} /\ option.dynamic \in BOOLEAN
        /\ ~option.dynamic => option.mbs \in Nat \ {0}
    BY CountIs, SizesAre
  <1>2. /\ \A k \in 1 .. S + 1 : StepBase(k) \in Nat
        /\ \A k \in 1 .. S : StepBase(k + 1) = OffsetAt(k, NumMicroBatches(k))
        /\ \A n \in Nat : OffsetAt(i, n) \in Nat /\ OffsetAt(i, n + 1) = Advanced(OffsetAt(i, n))
    <2>1. i \in 1 .. S + 1
      BY <1>1
    <2> QED
      BY <2>1, BaseIs
  <1>3. SamplesUpto(p, 0) = << >>
    <2>1. CASE option.dynamic
      <3>1. SubSeq(p, 1, 0) = << >>
        BY SubSeqEmpty
      <3> QED
        BY <2>1, <3>1, FlattenNothing DEF SamplesUpto
    <2>2. CASE ~option.dynamic
      BY <2>2 DEF SamplesUpto
    <2> QED
      BY <2>1, <2>2
  <1> SUFFICES ASSUME NEW n \in 0 .. K - 1
               PROVE  SamplesUpto(p, OffsetAt(i, n + 1)) = SamplesUpto(p, OffsetAt(i, n)) \o Batch(p, i, n + 1)
    BY <1>3
  <1> HIDE DEF K, S
  <1> DEFINE o == OffsetAt(i, n)
             b == Batch(p, i, n + 1)
  <1>4. n \in Nat /\ n + 1 \in 1 .. K
    BY <1>1
  <1>5. o \in Nat /\ OffsetAt(i, n + 1) = Advanced(o)
    BY <1>2, <1>4
  <1>6. b \in Seq(Nat)
    BY <1>4, BatchIs DEF K
  <1>7. CASE option.dynamic
    <2>1. p \in Seq(Seq(Nat)) /\ Len(p) = StepBase(S + 1)
      BY <1>7 DEF PlanFits, S
    <2>2. \A k, e : OffsetAt(k, e) = StepBase(k) + e
      BY <1>7 DEF OffsetAt
    <2>3. Advanced(o) = o + 1 /\ b = p[o + 1]
      <3>1. (StepBase(i) + n) + 1 = StepBase(i) + (n + 1)
        <4>1. StepBase(i) \in Nat
          BY <1>1, <1>2 DEF S
        <4> QED
          BY <1>4, <4>1
      <3>2. b = p[StepBase(i) + (n + 1)]
        BY <1>7 DEF Batch
      <3> QED
        BY <1>7, <2>2, <3>1, <3>2 DEF Advanced
    <2>4. o + 1 <= Len(p)
      <3>1. StepBase(i) + K <= StepBase(S + 1)
        BY <1>7, StepsAscend DEF K, S
      <3>2. StepBase(i) \in Nat /\ StepBase(S + 1) \in Nat
        BY <1>1, <1>2 DEF S
      <3> QED
        BY <1>1, <1>4, <2>1, <2>2, <3>1, <3>2
    <2> DEFINE B == Seq(Nat)
               t == SubSeq(p, 1, o)
    <2>5. p \in Seq(B)
      BY <2>1
    <2> HIDE DEF B, o, b, t
    <2>6. t \in Seq(B) /\ SubSeq(p, 1, o + 1) = Append(t, p[o + 1])
      BY <1>5, <2>4, <2>5, SubSeqGrows DEF t
    <2>7. t \in Seq(Seq(Nat))
      BY <2>6 DEF B
    <2>8. FlattenSeq(Append(t, b)) = FlattenSeq(t) \o b
      BY <1>6, <2>7, FlattenAppend
    <2>9. SamplesUpto(p, Advanced(o)) = FlattenSeq(SubSeq(p, 1, o + 1)) /\ SamplesUpto(p, o) = FlattenSeq(t)
      BY <1>7, <2>3 DEF SamplesUpto, t
    <2> QED
      BY <1>5, <2>3, <2>6, <2>8, <2>9 DEF o, b
  <1>8. CASE ~option.dynamic
    <2> DEFINE M == option.mbs
               s == [j \in 1 .. o |-> j]
               u == [j \in 1 .. o + M |-> j]
               c == [j \in 1 .. M |-> o + j]
    <2>1. M \in Nat
      BY <1>1, <1>8
    <2>2. b = c
      <3>1. (n + 1) - 1 = n
        BY <1>4
      <3> QED
        BY <1>8, <3>1 DEF Batch
    <2>3. SamplesUpto(p, o) = s /\ SamplesUpto(p, Advanced(o)) = u
      BY <1>8 DEF SamplesUpto, Advanced
    <2> HIDE DEF o, b, M
    <2>4. s \in Seq(Nat) /\ u \in Seq(Nat) /\ c \in Seq(Nat) /\ Len(s) = o /\ Len(u) = o + M /\ Len(c) = M
      BY <1>5, <2>1
    <2>5. (\A j \in 1 .. o : u[j] = s[j]) /\ \A j \in 1 .. M : u[o + j] = c[j]
      BY <1>5, <2>1
    <2> HIDE DEF s, u, c
    <2>6. u = s \o c
      <3>1. s \in Seq(Nat) /\ u \in Seq(Nat) /\ c \in Seq(Nat) /\ Len(u) = Len(s) + Len(c)
        BY <2>4
      <3>2. (\A j \in 1 .. Len(s) : u[j] = s[j]) /\ \A j \in 1 .. Len(c) : u[Len(s) + j] = c[j]
        BY <2>4, <2>5
      <3> QED
        BY <3>1, <3>2, JoinedIs
    <2> QED
      BY <1>5, <2>2, <2>3, <2>6 DEF o, b
  <1> QED
    BY <1>1, <1>7, <1>8

-----------------------------------------------------------------------------
(* The command line and the samples stay, and what is computed from them.      *)

\* Sizes.
LEMMA SizesFixed ==
  ASSUME option' = option, rows' = rows
  PROVE  /\ Chunks' = Chunks /\ NoneFed' = NoneFed /\ GlobalBatch' = GlobalBatch /\ LocalBatch' = LocalBatch
         /\ NumLocal' = NumLocal /\ StepsPerRollout' = StepsPerRollout /\ DpCp' = DpCp
         /\ \A i : First(i)' = First(i) /\ Window(i)' = Window(i) /\ NumMicroBatches(i)' = NumMicroBatches(i)
  <1>1. /\ Chunks' = Chunks /\ NoneFed' = NoneFed /\ GlobalBatch' = GlobalBatch /\ LocalBatch' = LocalBatch
        /\ NumLocal' = NumLocal /\ StepsPerRollout' = StepsPerRollout /\ DpCp' = DpCp
    BY DEF Chunks, NoneFed, GlobalBatch, LocalBatch, NumLocal, StepsPerRollout, DpCp
  <1>2. \A i : First(i)' = First(i) /\ Window(i)' = Window(i)
    BY <1>1 DEF First, Window
  <1>3. ASSUME NEW i PROVE NumMicroBatches(i)' = NumMicroBatches(i)
    <2>1. ASSUME NEW r PROVE Wanted(r, i)' = Wanted(r, i)
      BY <1>1, <1>2 DEF Wanted
    <2>2. {Wanted(r, i)' : r \in DpRanks} = {Wanted(r, i) : r \in DpRanks}
      BY <2>1
    <2> QED
      BY <1>1, <2>2 DEF NumMicroBatches
  <1> QED
    BY <1>1, <1>2, <1>3

\* Steps and micro-batches.
LEMMA PlansFixed ==
  ASSUME option' = option, rows' = rows
  PROVE  /\ \A i : StepBase(i)' = StepBase(i)
         /\ \A i, n : OffsetAt(i, n)' = OffsetAt(i, n)
         /\ \A p, i, k : Batch(p, i, k)' = Batch(p, i, k)
         /\ \A p, i, n : FedOf(p, i, n)' = FedOf(p, i, n)
         /\ \A p, n : SamplesUpto(p, n)' = SamplesUpto(p, n)
         /\ \A r, i, s : Losses(r, i, s)' = Losses(r, i, s)
         /\ \A p : PlanFits(p)' <=> PlanFits(p)
  <1>1. /\ Chunks' = Chunks /\ NoneFed' = NoneFed /\ GlobalBatch' = GlobalBatch /\ LocalBatch' = LocalBatch
        /\ NumLocal' = NumLocal /\ StepsPerRollout' = StepsPerRollout /\ DpCp' = DpCp
        /\ \A i : First(i)' = First(i) /\ Window(i)' = Window(i) /\ NumMicroBatches(i)' = NumMicroBatches(i)
    BY SizesFixed
  <1>2. \A i : StepBase(i)' = StepBase(i)
    <2> DEFINE s == [k \in 1 .. StepsPerRollout |-> NumMicroBatches(k)]
    <2>1. s' = s
      BY <1>1
    <2> HIDE DEF s
    <2>2. ASSUME NEW i PROVE SumFunctionOnSet(s, 1 .. i - 1)' = SumFunctionOnSet(s, 1 .. i - 1)
      BY <2>1
    <2> QED
      BY <1>1, <2>2 DEF StepBase, s
  <1>3. \A i, n : OffsetAt(i, n)' = OffsetAt(i, n)
    BY <1>2 DEF OffsetAt
  <1>4. \A p, i, k : Batch(p, i, k)' = Batch(p, i, k)
    BY <1>2, <1>3 DEF Batch
  <1>5. ASSUME NEW p, NEW i, NEW n PROVE FedOf(p, i, n)' = FedOf(p, i, n)
    <2>1. [k \in 1 .. n |-> Batch(p, i, k)'] = [k \in 1 .. n |-> Batch(p, i, k)]
      BY <1>4
    <2> QED
      BY <2>1 DEF FedOf
  <1>6. \A p, n : SamplesUpto(p, n)' = SamplesUpto(p, n)
    BY DEF SamplesUpto
  <1>7. \A r, i, n : LossRecord(r, i, n)' = LossRecord(r, i, n)
    <2>1. \A i : LossScale(i)' = LossScale(i)
      BY <1>1 DEF LossScale
    <2>2. \A x : Divisor(x)' = Divisor(x)
      BY DEF Divisor
    <2> QED
      BY <2>1, <2>2 DEF LossRecord
  <1>8. ASSUME NEW r, NEW i, NEW s PROVE Losses(r, i, s)' = Losses(r, i, s)
    BY <1>7 DEF Losses
  <1>9. \A p, i : StepOf(p, i)' = StepOf(p, i)
    BY <1>1, <1>4 DEF StepOf
  <1>10. \A q, i : Cuts(q, i)' <=> Cuts(q, i)
    BY <1>1 DEF Cuts
  <1>11. ASSUME NEW p PROVE PlanFits(p)' <=> PlanFits(p)
    <2>1. \A i : Cuts(StepOf(p, i), i)' <=> Cuts(StepOf(p, i), i)
      BY <1>1, <1>9 DEF Cuts
    <2> QED
      BY <1>1, <1>2, <2>1 DEF PlanFits
  <1> QED
    BY <1>2, <1>3, <1>4, <1>5, <1>6, <1>8, <1>11

\* What holds on a rank.
LEMMA RankFixed ==
  ASSUME option' = option, rows' = rows
  PROVE  \A r, q, p, i, f, o, x, c, l, g :
           RankHolds(r, q, p, i, f, o, x, c, l, g)' <=> RankHolds(r, q, p, i, f, o, x, c, l, g)
  <1>1. /\ Chunks' = Chunks /\ NoneFed' = NoneFed /\ NumLocal' = NumLocal /\ StepsPerRollout' = StepsPerRollout
        /\ \A i : NumMicroBatches(i)' = NumMicroBatches(i)
    BY SizesFixed
  <1>2. /\ \A i, n : OffsetAt(i, n)' = OffsetAt(i, n)
        /\ \A p, i, k : Batch(p, i, k)' = Batch(p, i, k)
        /\ \A p, i, n : FedOf(p, i, n)' = FedOf(p, i, n)
        /\ \A p, n : SamplesUpto(p, n)' = SamplesUpto(p, n)
        /\ \A r, i, s : Losses(r, i, s)' = Losses(r, i, s)
        /\ \A p : PlanFits(p)' <=> PlanFits(p)
    BY PlansFixed
  <1> SUFFICES ASSUME NEW r, NEW q, NEW p, NEW i, NEW f, NEW o, NEW x, NEW c, NEW l, NEW g
               PROVE  RankHolds(r, q, p, i, f, o, x, c, l, g)' <=> RankHolds(r, q, p, i, f, o, x, c, l, g)
    OBVIOUS
  <1>3. ChunksAgree(q, p, i, f, o, x)' <=> ChunksAgree(q, p, i, f, o, x)
    BY <1>1, <1>2 DEF ChunksAgree
  <1>4. Untouched(q, i, f, o, x, c)' <=> Untouched(q, i, f, o, x, c)
    BY <1>1 DEF Untouched
  <1>5. OutputsFit(r, q, p, i, f, o, c, l, g)' <=> OutputsFit(r, q, p, i, f, o, c, l, g)
    BY <1>1, <1>2 DEF OutputsFit
  <1> QED
    BY <1>3, <1>4, <1>5 DEF RankHolds

-----------------------------------------------------------------------------
(* A micro-batch goes through a chunk.                                         *)

\* A rank in a call.
LEMMA RankInCall ==
  ASSUME GradientInv, NEW r \in DpRanks
  PROVE  /\ option \in StepOptions /\ rows \in StepRows /\ 1 \in Chunks /\ option.vpp \in Chunks /\ Chunks \subseteq Nat
         /\ fed[r] \in [Chunks -> Nat] /\ offset[r] \in [Chunks -> Nat]
         /\ RankHolds(r, pass[r], plan[r], stepId[r], fed[r], offset[r], inputs[r], collected[r], logps[r], grad[r])
         /\ pass[r] \notin {"schedule", "done"} =>
              /\ pass[r] \in ForwardPasses \cup {"train"}
              /\ PlanFits(plan[r]) /\ stepId[r] \in 1 .. StepsPerRollout
              /\ \A v \in Chunks : /\ fed[r][v] <= NumMicroBatches(stepId[r])
                                   /\ offset[r][v] = OffsetAt(stepId[r], fed[r][v])
              /\ \A v, w \in Chunks : v <= w => fed[r][w] <= fed[r][v]
              /\ inputs[r] = [k \in 1 .. fed[r][1] |-> Batch(plan[r], stepId[r], k)]
  <1>1. GradientTypeOK /\ RankInv(r)
    BY DEF GradientInv
  <1>2. option \in StepOptions /\ rows \in StepRows /\ fed[r] \in [Chunks -> Nat] /\ offset[r] \in [Chunks -> Nat]
        /\ pass[r] \in ForwardPasses \cup {"schedule", "train", "done"}
    BY <1>1 DEF GradientTypeOK
  <1>3. 1 \in Chunks /\ option.vpp \in Chunks /\ Chunks \subseteq Nat
    <2>1. option.vpp \in Nat \ {0}
      BY <1>2, SizesAre
    <2> QED
      BY <2>1 DEF Chunks
  <1>4. RankHolds(r, pass[r], plan[r], stepId[r], fed[r], offset[r], inputs[r], collected[r], logps[r], grad[r])
    BY <1>1 DEF RankInv
  <1>5. ASSUME pass[r] \notin {"schedule", "done"}
        PROVE  /\ pass[r] \in ForwardPasses \cup {"train"}
               /\ ChunksAgree(pass[r], plan[r], stepId[r], fed[r], offset[r], inputs[r])
    BY <1>2, <1>4, <1>5 DEF RankHolds
  <1> QED
    BY <1>2, <1>3, <1>4, <1>5 DEF ChunksAgree

\* What a chunk reads.
LEMMA NextIs ==
  ASSUME option \in StepOptions, rows \in StepRows, NEW r, NEW v, NEW i \in 1 .. StepsPerRollout, NEW n \in Nat,
         offset[r][v] = OffsetAt(i, n)
  PROVE  GetNext(r, v) = Batch(plan[r], i, n + 1)
  <1>1. i \in 1 .. StepsPerRollout + 1
    <2>1. StepsPerRollout \in Nat
      BY SizesAre
    <2> QED
      BY <2>1
  <1>2. StepBase(i) \in Nat
    BY <1>1, BaseIs
  <1>3. CASE option.dynamic
    <2>1. offset[r][v] = StepBase(i) + n
      BY <1>3 DEF OffsetAt
    <2>2. (StepBase(i) + n) + 1 = StepBase(i) + (n + 1)
      BY <1>2
    <2> QED
      BY <1>3, <2>1, <2>2 DEF GetNext, Batch
  <1>4. CASE ~option.dynamic
    <2>1. (n + 1) - 1 = n
      OBVIOUS
    <2>2. OffsetAt(i, (n + 1) - 1) = offset[r][v]
      BY <2>1
    <2> QED
      BY <1>4, <2>2 DEF GetNext, Batch
  <1> QED
    BY <1>3, <1>4

\* The values of a micro-batch that all chunks have read are those of its samples.
LEMMA ValuesBelong ==
  ASSUME option \in StepOptions, rows \in StepRows, NEW r, NEW i, NEW b \in Seq(Nat),
         \A j \in 1 .. Len(b) : b[j] \in 1 .. NumLocal
  PROVE  /\ ValuesOf(b, b) = b
         /\ (\A n \in 1 .. NumLocal : logps[r][Last(Passes)][n] = n) => LossOf(r, i, b, b) = Losses(r, i, b)
  <1>1. DOMAIN b = 1 .. Len(b) /\ b = [j \in DOMAIN b |-> b[j]]
    OBVIOUS
  <1>2. ValuesOf(b, b) = b
    BY <1>1 DEF ValuesOf
  <1>3. ASSUME \A n \in 1 .. NumLocal : logps[r][Last(Passes)][n] = n
        PROVE  LossOf(r, i, b, b) = Losses(r, i, b)
    <2>1. \A j \in DOMAIN b : logps[r][Last(Passes)][b[j]] = b[j]
      BY <1>1, <1>3
    <2> QED
      BY <1>2, <2>1 DEF LossOf, Losses, LossRecord
  <1> QED
    BY <1>2, <1>3

LEMMA FeedHolds ==
  ASSUME GradientInv, NEW r \in DpRanks, NEW v \in Chunks, Feed(r, v)
  PROVE  RankHolds(r, pass'[r], plan'[r], stepId'[r], fed'[r], offset'[r], inputs'[r], collected'[r], logps'[r], grad'[r])
  <1> DEFINE q == pass[r]
             i == stepId[r]
             p == plan[r]
             f == fed[r]
             o == offset[r]
             K == NumMicroBatches(i)
             S == StepsPerRollout
             n == f[v]
             b == Batch(p, i, n + 1)
             f2 == [f EXCEPT ![v] = @ + 1]
             o2 == [o EXCEPT ![v] = Advanced(@)]
             seen == IF v = 1 THEN Append(inputs[r], b) ELSE inputs[r]
  <1>1. /\ option \in StepOptions /\ rows \in StepRows /\ 1 \in Chunks /\ option.vpp \in Chunks /\ Chunks \subseteq Nat
        /\ f \in [Chunks -> Nat] /\ o \in [Chunks -> Nat]
        /\ RankHolds(r, q, p, i, f, o, inputs[r], collected[r], logps[r], grad[r])
    BY RankInCall
  <1>2. q \notin {"schedule", "done"} /\ n < K /\ (v > 1 => n < f[v - 1])
    BY DEF Feed
  <1>3. /\ q \in ForwardPasses \cup {"train"} /\ PlanFits(p) /\ i \in 1 .. S
        /\ \A w \in Chunks : f[w] <= K /\ o[w] = OffsetAt(i, f[w])
        /\ \A u, w \in Chunks : u <= w => f[w] <= f[u]
        /\ inputs[r] = [k \in 1 .. f[1] |-> Batch(p, i, k)]
    BY <1>2, RankInCall
  <1>4. K \in Nat /\ n \in Nat /\ n \in 0 .. K - 1 /\ n + 1 \in 1 .. K
    <2>1. K \in Nat
      BY <1>1, <1>3, CountIs
    <2> QED
      BY <1>1, <1>2, <2>1
  <1>5. GetNext(r, v) = b
    BY <1>1, <1>3, <1>4, NextIs
  <1>6. b \in Seq(Nat) /\ \A j \in 1 .. Len(b) : b[j] \in 1 .. NumLocal
    <2>1. b \in Seq(Nat) /\ \A j \in 1 .. Len(b) : b[j] \in Window(i)
      BY <1>1, <1>3, <1>4, BatchIs
    <2>2. Window(i) \subseteq 1 .. NumLocal
      BY <1>1, <1>3, WindowIs
    <2> QED
      BY <2>1, <2>2
  <1>7. f2 \in [Chunks -> Nat] /\ f2[v] = n + 1 /\ \A w \in Chunks : w # v => f2[w] = f[w]
    BY <1>1, <1>4
  <1>8. seen = [k \in 1 .. f2[1] |-> Batch(p, i, k)] /\ seen[n + 1] = b
    <2> DEFINE s == inputs[r]
               B == Seq(Nat)
               t == [k \in 1 .. n + 1 |-> Batch(p, i, k)]
    <2>1. CASE v = 1
      <3>1. s = [k \in 1 .. n |-> Batch(p, i, k)]
        BY <1>3, <2>1
      <3>2. \A k \in 1 .. n + 1 : Batch(p, i, k) \in B
        <4>1. \A k \in 1 .. K : Batch(p, i, k) \in B
          BY <1>1, <1>3, BatchIs
        <4> QED
          BY <1>4, <4>1
      <3> HIDE DEF B
      <3>3. s \in Seq(B) /\ Len(s) = n /\ \A k \in 1 .. n : s[k] = Batch(p, i, k)
        <4>1. s \in [1 .. n -> B]
          BY <1>4, <3>1, <3>2
        <4> QED
          BY <1>4, <3>1, <4>1
      <3>4. t \in Seq(B) /\ Len(t) = n + 1 /\ \A k \in 1 .. n + 1 : t[k] = Batch(p, i, k)
        <4>1. t \in [1 .. n + 1 -> B]
          BY <3>2
        <4> QED
          BY <1>4, <4>1
      <3>5. b \in B
        BY <1>4, <3>2
      <3> HIDE DEF s, t
      <3>6. Append(s, b) \in Seq(B) /\ Len(Append(s, b)) = n + 1
            /\ (\A k \in 1 .. n : Append(s, b)[k] = s[k]) /\ Append(s, b)[n + 1] = b
        BY <3>3, <3>5, AppendGives
      <3>7. \A k \in 1 .. n + 1 : t[k] = Append(s, b)[k]
        BY <1>4, <3>3, <3>4, <3>6
      <3>8. Append(s, b) = t
        BY <3>4, <3>6, <3>7, SeqEqual
      <3> QED
        BY <1>7, <2>1, <3>6, <3>8 DEF s, t
    <2>2. CASE v # 1
      <3>1. v - 1 \in Chunks /\ 1 <= v - 1 /\ v > 1
        BY <1>1, <2>2 DEF Chunks
      <3>2. n < f[1] /\ f2[1] = f[1]
        <4>1. f[v - 1] <= f[1] /\ f[v - 1] \in Nat /\ f[1] \in Nat
          BY <1>1, <1>3, <3>1
        <4> QED
          BY <1>1, <1>2, <1>4, <1>7, <2>2, <3>1, <4>1
      <3>3. n + 1 \in 1 .. f[1]
        <4>1. f[1] \in Nat
          BY <1>1
        <4> QED
          BY <1>4, <3>2, <4>1
      <3> QED
        BY <1>3, <2>2, <3>2, <3>3
    <2> QED
      BY <2>1, <2>2
  <1>9. ValuesOf(b, b) = b
    BY <1>1, <1>6, ValuesBelong
  <1>10. /\ pass'[r] = q /\ plan'[r] = p /\ stepId'[r] = i /\ fed'[r] = f2 /\ offset'[r] = o2 /\ inputs'[r] = seen
         /\ logps'[r] = logps[r]
         /\ collected'[r] = IF v = option.vpp /\ q # "train" THEN collected[r] \o b ELSE collected[r]
         /\ grad'[r] = IF v = option.vpp /\ q = "train" THEN grad[r] \o LossOf(r, i, b, b) ELSE grad[r]
    <2>1. GradientTypeOK
      BY DEF GradientInv
    <2>2. seen[f[v] + 1] = b
      BY <1>8
    <2>3. /\ inputs' = [inputs EXCEPT ![r] = seen]
          /\ collected' = [collected EXCEPT ![r] =
               IF v = option.vpp /\ q # "train" THEN @ \o ValuesOf(b, b) ELSE @]
          /\ grad' = [grad EXCEPT ![r] = IF v = option.vpp /\ q = "train" THEN @ \o LossOf(r, i, b, b) ELSE @]
      BY <1>5, <2>2 DEF Feed
    <2>4. /\ offset' = [offset EXCEPT ![r][v] = Advanced(@)] /\ fed' = [fed EXCEPT ![r][v] = @ + 1]
          /\ pass' = pass /\ plan' = plan /\ stepId' = stepId /\ logps' = logps
      BY DEF Feed
    <2> QED
      BY <1>9, <2>1, <2>3, <2>4 DEF GradientTypeOK
  <1>11. o2[v] = OffsetAt(i, n + 1) /\ \A w \in Chunks : w # v => o2[w] = o[w]
    <2>1. OffsetAt(i, n + 1) = Advanced(OffsetAt(i, n))
      <3>1. i \in 1 .. S + 1
        <4>1. S \in Nat
          BY <1>1, SizesAre
        <4> QED
          BY <1>3, <4>1
      <3> QED
        BY <1>1, <1>4, <3>1, BaseIs
    <2> QED
      BY <1>1, <1>3, <2>1
  <1>12. ChunksAgree(q, p, i, f2, o2, seen)
    <2>1. \A w \in Chunks : f2[w] <= K /\ o2[w] = OffsetAt(i, f2[w])
      <3> SUFFICES ASSUME NEW w \in Chunks PROVE f2[w] <= K /\ o2[w] = OffsetAt(i, f2[w])
        OBVIOUS
      <3>1. CASE w = v
        BY <1>4, <1>7, <1>11, <3>1
      <3>2. CASE w # v
        BY <1>3, <1>7, <1>11, <3>2
      <3> QED
        BY <3>1, <3>2
    <2>2. \A u, w \in Chunks : u <= w => f2[w] <= f2[u]
      <3> SUFFICES ASSUME NEW u \in Chunks, NEW w \in Chunks, u <= w PROVE f2[w] <= f2[u]
        OBVIOUS
      <3>1. f[w] <= f[u] /\ f[w] \in Nat /\ f[u] \in Nat /\ u \in Nat /\ w \in Nat
        BY <1>1, <1>3
      <3>2. CASE w # v
        <4>1. f2[w] = f[w]
          BY <1>7, <3>2
        <4>2. f2[u] = f[u] \/ f2[u] = f[u] + 1
          BY <1>7
        <4> QED
          BY <3>1, <4>1, <4>2
      <3>3. CASE w = v /\ u = v
        BY <1>4, <1>7, <3>3
      <3>4. CASE w = v /\ u # v
        <4>1. v > 1 /\ v - 1 \in Chunks /\ u <= v - 1
          BY <1>1, <3>1, <3>4 DEF Chunks
        <4>2. f[v - 1] <= f[u] /\ f[v - 1] \in Nat
          BY <1>1, <1>3, <4>1
        <4>3. n < f[v - 1]
          BY <1>2, <4>1
        <4>4. f2[w] = n + 1 /\ f2[u] = f[u]
          BY <1>7, <3>4
        <4> QED
          BY <1>4, <3>1, <4>2, <4>3, <4>4
      <3> QED
        BY <3>2, <3>3, <3>4
    <2> HIDE DEF f2, o2, seen, p, i, K
    <2> QED
      BY <1>3, <1>8, <2>1, <2>2 DEF ChunksAgree, K
  <1>13. Untouched(q, i, f2, o2, seen, collected'[r])
    BY <1>2 DEF Untouched
  <1>14. OutputsFit(r, q, p, i, f2, o2, collected'[r], logps[r], grad'[r])
    <2> DEFINE z == option.vpp
    <2>1. OutputsFit(r, q, p, i, f, o, collected[r], logps[r], grad[r])
      BY <1>1 DEF RankHolds
    <2>2. q \notin {"schedule", "done"} /\ "train" \notin ForwardPasses
      <3>1. "train" \notin ForwardPasses
        BY GradientAssumption DEF ForwardPasses, Range
      <3> QED
        BY <1>2, <3>1
    <2>3. CASE q = "train"
      <3>1. grad[r] = Losses(r, i, FedOf(p, i, f[z])) /\ \A e \in 1 .. NumLocal : logps[r][Last(Passes)][e] = e
        BY <2>1, <2>3 DEF OutputsFit
      <3>2. grad'[r] = Losses(r, i, FedOf(p, i, f2[z]))
        <4>1. CASE v = z
          <5>1. LossOf(r, i, b, b) = Losses(r, i, b)
            BY <1>1, <1>6, <3>1, ValuesBelong
          <5>2. FedOf(p, i, n) \in Seq(Nat) /\ FedOf(p, i, n + 1) = FedOf(p, i, n) \o b
            <6>1. n \in 0 .. K
              BY <1>4
            <6> QED
              BY <1>1, <1>3, <1>4, <6>1, FedGrows
          <5>3. Losses(r, i, FedOf(p, i, n) \o b) = Losses(r, i, FedOf(p, i, n)) \o Losses(r, i, b)
            BY <1>6, <5>2, LossesGrow
          <5>4. grad'[r] = grad[r] \o Losses(r, i, b)
            BY <1>10, <2>3, <4>1, <5>1
          <5> QED
            BY <1>7, <3>1, <4>1, <5>2, <5>3, <5>4
        <4>2. CASE v # z
          BY <1>1, <1>7, <1>10, <3>1, <4>2
        <4> QED
          BY <4>1, <4>2
      <3> QED
        BY <2>2, <2>3, <3>1, <3>2 DEF OutputsFit
    <2>4. CASE q # "train"
      <3>1. q \in ForwardPasses
        BY <1>3, <2>4
      <3>2. collected[r] = SamplesUpto(p, o[z]) /\ grad[r] = << >>
        BY <2>1, <2>4, <3>1 DEF OutputsFit
      <3>3. collected'[r] = SamplesUpto(p, o2[z])
        <4>1. CASE v = z
          <5>1. SamplesUpto(p, OffsetAt(i, n + 1)) = SamplesUpto(p, OffsetAt(i, n)) \o b
            BY <1>1, <1>3, <1>4, UptoGrows
          <5>2. o[z] = OffsetAt(i, n) /\ o2[z] = OffsetAt(i, n + 1)
            BY <1>3, <1>11, <4>1
          <5>3. collected'[r] = collected[r] \o b
            BY <1>10, <2>4, <4>1
          <5> QED
            BY <3>2, <5>1, <5>2, <5>3
        <4>2. CASE v # z
          BY <1>1, <1>10, <1>11, <3>2, <4>2
        <4> QED
          BY <4>1, <4>2
      <3>4. grad'[r] = << >>
        BY <1>10, <2>4, <3>2
      <3> QED
        BY <2>2, <2>4, <3>3, <3>4 DEF OutputsFit
    <2> QED
      BY <2>3, <2>4
  <1> HIDE DEF q, i, p, f2, o2, seen
  <1> QED
    BY <1>10, <1>12, <1>13, <1>14 DEF RankHolds

\* Every sample is in a step.
LEMMA StepOfSample ==
  ASSUME option \in StepOptions, rows \in StepRows, NEW n \in 1 .. NumLocal
  PROVE  \E i \in 1 .. StepsPerRollout : n \in Window(i)
  <1> DEFINE S == StepsPerRollout
             L == LocalBatch
             d == n - 1
             y == d \div L
  <1>1. S \in Nat \ {0} /\ L \in Nat \ {0} /\ NumLocal = L * S
    BY SizesAre
  <1> HIDE DEF S, L
  <1>2. d \in Nat /\ d < L * S /\ n = d + 1
    <2>1. L * S \in Nat
      BY <1>1
    <2> QED
      BY <1>1, <2>1
  <1> HIDE DEF d
  <1>3. y \in Nat /\ L * y <= d /\ d < L * y + L /\ L * y \in Nat
    BY <1>1, <1>2, WholePart
  <1> HIDE DEF y
  <1>4. y < S
    <2> SUFFICES ASSUME S <= y PROVE FALSE
      BY <1>1, <1>3
    <2>1. CASE S = y
      BY <1>1, <1>2, <1>3, <2>1
    <2>2. CASE S < y
      <3>1. L * S + L <= L * y
        BY <1>1, <1>3, <2>2, MultBound
      <3>2. L * S \in Int
        BY <1>1
      <3> QED
        BY <1>1, <1>2, <1>3, <3>1, <3>2
    <2> QED
      BY <1>1, <1>3, <2>1, <2>2
  <1> DEFINE i == y + 1
  <1>5. i \in 1 .. S /\ i - 1 = y
    BY <1>1, <1>3, <1>4
  <1> HIDE DEF i
  <1>6. First(i) = L * y + 1
    <2>1. (i - 1) * L = L * y
      BY <1>1, <1>3, <1>5
    <2> QED
      BY <2>1 DEF First, L
  <1>7. Window(i) = First(i) .. First(i) + L - 1
    BY <1>5, WindowIs DEF L, S
  <1>8. n \in (L * y + 1) .. (L * y + 1) + L - 1
    BY <1>1, <1>2, <1>3
  <1> QED
    BY <1>5, <1>6, <1>7, <1>8 DEF S

\* A step of a forward_only ends, and the next begins where it ended.
LEMMA ForwardStepHolds ==
  ASSUME GradientInv, NEW r \in DpRanks, ForwardStep(r)
  PROVE  RankHolds(r, pass'[r], plan'[r], stepId'[r], fed'[r], offset'[r], inputs'[r], collected'[r], logps'[r], grad'[r])
  <1> DEFINE q == pass[r]
             i == stepId[r]
             p == plan[r]
             f == fed[r]
             o == offset[r]
             S == StepsPerRollout
  <1>1. /\ option \in StepOptions /\ rows \in StepRows /\ 1 \in Chunks /\ option.vpp \in Chunks /\ Chunks \subseteq Nat
        /\ f \in [Chunks -> Nat] /\ o \in [Chunks -> Nat]
        /\ RankHolds(r, q, p, i, f, o, inputs[r], collected[r], logps[r], grad[r])
    BY RankInCall
  <1>2. q \notin {"schedule", "train", "done"} /\ i < S /\ \A v \in Chunks : f[v] = NumMicroBatches(i)
    BY DEF ForwardStep, StepFed
  <1>3. /\ q \in ForwardPasses \cup {"train"} /\ PlanFits(p) /\ i \in 1 .. S
        /\ \A w \in Chunks : o[w] = OffsetAt(i, f[w])
    BY <1>2, RankInCall
  <1>4. S \in Nat \ {0} /\ i + 1 \in 1 .. S
    <2>1. S \in Nat \ {0}
      BY <1>1, SizesAre
    <2> QED
      BY <1>2, <1>3, <2>1
  <1>5. /\ pass'[r] = q /\ plan'[r] = p /\ stepId'[r] = i + 1 /\ fed'[r] = NoneFed /\ offset'[r] = o /\ inputs'[r] = << >>
        /\ logps'[r] = logps[r] /\ collected'[r] = collected[r] /\ grad'[r] = grad[r]
    <2>1. GradientTypeOK
      BY DEF GradientInv
    <2> QED
      BY <2>1 DEF ForwardStep, GradientTypeOK
  <1>6. \A w \in Chunks : NoneFed[w] = 0
    BY DEF NoneFed
  <1>7. \A w \in Chunks : o[w] = OffsetAt(i + 1, 0)
    <2>1. i + 1 \in 1 .. S + 1
      BY <1>4
    <2>2. OffsetAt(i + 1, 0) = StepBase(i + 1)
      BY <1>1, <2>1, BaseIs
    <2>3. StepBase(i + 1) = OffsetAt(i, NumMicroBatches(i))
      BY <1>1, <1>3, BaseIs
    <2> QED
      BY <1>2, <1>3, <2>2, <2>3
  <1>8. NumMicroBatches(i + 1) \in Nat
    BY <1>1, <1>4, CountIs
  <1>9. << >> = [k \in 1 .. NoneFed[1] |-> Batch(p, i + 1, k)]
    BY <1>1, <1>6
  <1>10. ChunksAgree(q, p, i + 1, NoneFed, o, << >>)
    <2> HIDE DEF p, o, i, q, S
    <2>1. \A w \in Chunks : NoneFed[w] <= NumMicroBatches(i + 1) /\ o[w] = OffsetAt(i + 1, NoneFed[w])
      BY <1>6, <1>7, <1>8
    <2>2. \A u, w \in Chunks : u <= w => NoneFed[w] <= NoneFed[u]
      BY <1>6
    <2> QED
      BY <1>3, <1>4, <1>9, <2>1, <2>2 DEF ChunksAgree, S
  <1>11. OutputsFit(r, q, p, i + 1, NoneFed, o, collected[r], logps[r], grad[r])
    <2>1. OutputsFit(r, q, p, i, f, o, collected[r], logps[r], grad[r])
      BY <1>1 DEF RankHolds
    <2> QED
      BY <1>2, <2>1 DEF OutputsFit
  <1>12. Untouched(q, i + 1, NoneFed, o, << >>, collected[r])
    BY <1>2 DEF Untouched
  <1> HIDE DEF q, i, p, f, o
  <1> QED
    BY <1>5, <1>10, <1>11, <1>12 DEF RankHolds

\* The call after a forward_only is another one or the training.
LEMMA PassAfterIs ==
  ASSUME NEW q \in ForwardPasses
  PROVE  /\ PassAfter(q) \in ForwardPasses \cup {"train"}
         /\ PassAfter(q) = "train" => q = Last(Passes)
         /\ {"schedule", "train", "done"} \cap ForwardPasses = {} /\ Head(Passes) \in ForwardPasses
  <1>1. Passes \in Seq(STRING) /\ Passes # << >> /\ \A i \in DOMAIN Passes : Passes[i] \notin {"schedule", "train", "done"}
    BY GradientAssumption
  <1>2. Len(Passes) \in Nat \ {0} /\ DOMAIN Passes = 1 .. Len(Passes)
    BY <1>1
  <1>3. ForwardPasses = {Passes[i] : i \in DOMAIN Passes}
    BY DEF ForwardPasses, Range
  <1>4. {"schedule", "train", "done"} \cap ForwardPasses = {}
    BY <1>1, <1>3
  <1>5. Head(Passes) \in ForwardPasses
    <2>1. Head(Passes) = Passes[1] /\ 1 \in DOMAIN Passes
      BY <1>1, <1>2
    <2> QED
      BY <1>3, <2>1
  <1>6. CASE q = Last(Passes)
    BY <1>4, <1>5, <1>6 DEF PassAfter
  <1>7. CASE q # Last(Passes)
    <2> DEFINE n == CHOOSE i \in DOMAIN Passes : Passes[i] = q
    <2>1. n \in DOMAIN Passes /\ Passes[n] = q
      BY <1>3
    <2>2. Last(Passes) = Passes[Len(Passes)]
      BY DEF Last
    <2>3. PassAfter(q) = Passes[1 + n]
      BY <1>7 DEF PassAfter
    <2> HIDE DEF n
    <2>4. 1 + n \in DOMAIN Passes
      <3>1. n # Len(Passes)
        BY <1>7, <2>1, <2>2
      <3> QED
        BY <1>2, <2>1, <3>1
    <2>5. PassAfter(q) \in ForwardPasses
      BY <1>3, <2>3, <2>4
    <2> QED
      BY <1>4, <1>5, <2>5
  <1> QED
    BY <1>6, <1>7

\* At the end of a forward_only the iterators have gone through all the samples.
LEMMA UptoAll ==
  ASSUME option \in StepOptions, rows \in StepRows, NEW p, PlanFits(p)
  PROVE  LET s == SamplesUpto(p, StepBase(StepsPerRollout + 1))
         IN  /\ option.dynamic => s = FlattenSeq(p) /\ s \in Seq(Nat) /\ \A n \in 1 .. NumLocal : \E k \in 1 .. Len(s) : s[k] = n
             /\ ~option.dynamic => s = [j \in 1 .. NumLocal |-> j]
  <1> DEFINE S == StepsPerRollout
             L == LocalBatch
             s == SamplesUpto(p, StepBase(S + 1))
  <1>1. S \in Nat \ {0} /\ L \in Nat \ {0} /\ NumLocal = L * S
    BY SizesAre
  <1>2. ASSUME ~option.dynamic PROVE s = [j \in 1 .. NumLocal |-> j]
    <2>1. StepBase(S + 1) = ((S + 1) - 1) * L
      BY <1>2 DEF StepBase
    <2>2. ((S + 1) - 1) * L = NumLocal
      <3>1. (S + 1) - 1 = S /\ S * L = L * S
        BY <1>1
      <3> QED
        BY <1>1, <3>1
    <2> QED
      BY <1>2, <2>1, <2>2 DEF SamplesUpto
  <1>3. ASSUME option.dynamic
        PROVE  s = FlattenSeq(p) /\ s \in Seq(Nat) /\ \A n \in 1 .. NumLocal : \E k \in 1 .. Len(s) : s[k] = n
    <2> DEFINE B == Seq(Nat)
               u == FlattenSeq(p)
    <2>1. p \in Seq(B) /\ Len(p) = StepBase(S + 1)
      BY <1>3 DEF PlanFits
    <2>2. SubSeq(p, 1, Len(p)) = p
      <3> HIDE DEF B
      <3> QED
        BY <2>1, PrefixFacts
    <2>3. s = u
      BY <1>3, <2>1, <2>2 DEF SamplesUpto
    <2>4. u \in Seq(Nat)
      BY <2>1, FlattenElements
    <2>5. ASSUME NEW j \in 1 .. Len(p), NEW e \in 1 .. Len(p[j]) PROVE \E k \in 1 .. Len(u) : u[k] = p[j][e]
      <3>1. Covers(u, p, Len(p))
        BY <2>1, FlattenCovers
      <3> HIDE DEF u
      <3> QED
        BY <3>1 DEF Covers
    <2>6. ASSUME NEW n \in 1 .. NumLocal PROVE \E k \in 1 .. Len(u) : u[k] = n
      <3>1. PICK i \in 1 .. S : n \in Window(i)
        BY StepOfSample
      <3>2. PICK j \in 1 .. Len(StepOf(p, i)) : \E e \in 1 .. Len(StepOf(p, i)[j]) : StepOf(p, i)[j][e] = n
        BY <3>1 DEF PlanFits, Cuts
      <3>3. j \in 1 .. NumMicroBatches(i) /\ StepOf(p, i)[j] = p[StepBase(i) + j]
        <4>1. Len(StepOf(p, i)) = NumMicroBatches(i)
          BY <3>1, BatchIs
        <4> QED
          BY <1>3, <4>1 DEF StepOf, Batch
      <3> DEFINE d == StepBase(i) + j
      <3>4. d \in 1 .. Len(p)
        <4>1. StepBase(i) \in Nat /\ StepBase(S + 1) \in Nat /\ NumMicroBatches(i) \in Nat
          <5>1. i \in 1 .. S + 1 /\ S + 1 \in 1 .. S + 1
            BY <1>1
          <5> QED
            BY <5>1, BaseIs, CountIs
        <4>2. StepBase(i) + NumMicroBatches(i) <= StepBase(S + 1)
          BY <1>3, StepsAscend
        <4> QED
          BY <2>1, <3>3, <4>1, <4>2, SMTT(30)
      <3>5. PICK e \in 1 .. Len(p[d]) : p[d][e] = n
        BY <3>2, <3>3
      <3> HIDE DEF d, u
      <3> QED
        BY <2>5, <3>4, <3>5
    <2> HIDE DEF u, s
    <2> QED
      BY <2>3, <2>4, <2>6 DEF u
  <1> QED
    BY <1>2, <1>3

\* The values go back to the order of the samples.
LEMMA OrderRestored ==
  ASSUME option \in StepOptions, rows \in StepRows, NEW r, PlanFits(plan[r]),
         collected[r] = SamplesUpto(plan[r], StepBase(StepsPerRollout + 1)),
         NEW n \in 1 .. NumLocal
  PROVE  Original(r)[n] = n
  <1> DEFINE p == plan[r]
             c == collected[r]
             s == FlattenSeq(p)
             at == {k \in DOMAIN s : s[k] = n}
  <1>1. CASE ~option.dynamic
    <2>1. c = [j \in 1 .. NumLocal |-> j]
      BY <1>1, UptoAll
    <2> QED
      BY <1>1, <2>1 DEF Original
  <1>2. CASE option.dynamic
    <2>1. c = s /\ s \in Seq(Nat) /\ \E k \in 1 .. Len(s) : s[k] = n
      <3> HIDE DEF p
      <3>1. c = SamplesUpto(p, StepBase(StepsPerRollout + 1)) /\ PlanFits(p)
        BY DEF p
      <3> QED
        BY <1>2, <3>1, UptoAll
    <2>2. Original(r)[n] = IF at = {} THEN Garbage ELSE c[Max(at)]
      BY <1>2 DEF Original
    <2> HIDE DEF c, s, p
    <2>3. DOMAIN s = 1 .. Len(s) /\ Len(s) \in Nat
      BY <2>1
    <2>4. at # {} /\ at \subseteq 1 .. Len(s)
      BY <2>1, <2>3
    <2>5. IsFiniteSet(at) /\ at \subseteq Nat
      <3>1. IsFiniteSet(1 .. Len(s))
        BY <2>3, FS_Interval
      <3> QED
        BY <2>3, <2>4, <3>1, FS_Subset
    <2>6. Max(at) \in at
      <3> HIDE DEF at
      <3> QED
        BY <2>4, <2>5, LargestExists
    <2> QED
      BY <2>1, <2>2, <2>4, <2>6
  <1> QED
    BY <1>1, <1>2

\* A forward_only ends: the iterators begin anew, and its values are stored.
LEMMA StoreHolds ==
  ASSUME GradientInv, NEW r \in DpRanks, Store(r)
  PROVE  RankHolds(r, pass'[r], plan'[r], stepId'[r], fed'[r], offset'[r], inputs'[r], collected'[r], logps'[r], grad'[r])
  <1> DEFINE q == pass[r]
             p == plan[r]
             o == offset[r]
             S == StepsPerRollout
             z == PassAfter(q)
             l == [t \in DOMAIN logps[r] \cup {q} |-> IF t = q THEN Original(r) ELSE logps[r][t]]
  <1>1. /\ option \in StepOptions /\ rows \in StepRows /\ 1 \in Chunks /\ option.vpp \in Chunks /\ Chunks \subseteq Nat
        /\ RankHolds(r, q, p, stepId[r], fed[r], o, inputs[r], collected[r], logps[r], grad[r])
    BY RankInCall
  <1>2. /\ q \notin {"schedule", "train", "done"} /\ stepId[r] = S
        /\ \A v \in Chunks : fed[r][v] = NumMicroBatches(S)
    BY DEF Store, StepFed
  <1>3. /\ q \in ForwardPasses /\ PlanFits(p)
        /\ \A w \in Chunks : o[w] = OffsetAt(S, NumMicroBatches(S))
    BY <1>2, RankInCall
  <1>4. S \in Nat \ {0} /\ 1 \in 1 .. S /\ S \in 1 .. S /\ 1 \in 1 .. S + 1
    <2>1. S \in Nat \ {0}
      BY <1>1, SizesAre
    <2> QED
      BY <2>1
  <1>5. /\ z \in ForwardPasses \cup {"train"} /\ (z = "train" => q = Last(Passes))
        /\ {"schedule", "train", "done"} \cap ForwardPasses = {}
    BY <1>3, PassAfterIs
  <1>6. /\ pass'[r] = z /\ plan'[r] = p /\ stepId'[r] = 1 /\ fed'[r] = NoneFed /\ offset'[r] = Reset(r)
        /\ inputs'[r] = << >> /\ logps'[r] = l /\ collected'[r] = << >> /\ grad'[r] = grad[r]
    <2>1. GradientTypeOK
      BY DEF GradientInv
    <2> QED
      BY <2>1 DEF Store, GradientTypeOK
  <1>7. \A w \in Chunks : NoneFed[w] = 0 /\ Reset(r)[w] = 0
    BY DEF NoneFed, Reset
  <1>8. OffsetAt(1, 0) = 0
    BY <1>1, <1>4, BaseIs
  <1>9. NumMicroBatches(1) \in Nat
    BY <1>1, <1>4, CountIs
  <1>10. << >> = [k \in 1 .. NoneFed[1] |-> Batch(p, 1, k)]
    BY <1>1, <1>7
  <1>11. SamplesUpto(p, 0) = << >> /\ FedOf(p, 1, 0) = << >>
    BY <1>1, <1>3, <1>4, UptoGrows, FedGrows
  <1>12. Losses(r, 1, << >>) = << >>
    BY DEF Losses
  <1>13. grad[r] = << >> /\ collected[r] = SamplesUpto(p, o[option.vpp])
    BY <1>1, <1>2, <1>3 DEF RankHolds, OutputsFit
  <1>14. collected[r] = SamplesUpto(p, StepBase(S + 1))
    <2>1. StepBase(S + 1) = OffsetAt(S, NumMicroBatches(S))
      BY <1>1, <1>4, BaseIs
    <2> QED
      BY <1>1, <1>3, <1>13, <2>1
  <1>15. \A n \in 1 .. NumLocal : Original(r)[n] = n
    BY <1>1, <1>3, <1>14, OrderRestored
  <1>16. z = "train" => \A n \in 1 .. NumLocal : l[Last(Passes)][n] = n
    <2>1. l[q] = Original(r)
      OBVIOUS
    <2> QED
      BY <1>5, <1>15, <2>1
  <1> HIDE DEF q, p, o, S, z, l
  <1>17. ChunksAgree(z, p, 1, NoneFed, Reset(r), << >>)
    <2>1. \A w \in Chunks : NoneFed[w] <= NumMicroBatches(1) /\ Reset(r)[w] = OffsetAt(1, NoneFed[w])
      BY <1>7, <1>8, <1>9
    <2>2. \A u, w \in Chunks : u <= w => NoneFed[w] <= NoneFed[u]
      BY <1>7
    <2> QED
      BY <1>3, <1>4, <1>10, <2>1, <2>2 DEF ChunksAgree, S
  <1>18. Untouched(z, 1, NoneFed, Reset(r), << >>, << >>)
    BY <1>5 DEF Untouched
  <1>19. OutputsFit(r, z, p, 1, NoneFed, Reset(r), << >>, l, grad[r])
    BY <1>1, <1>5, <1>7, <1>11, <1>12, <1>13, <1>16 DEF OutputsFit
  <1> QED
    BY <1>6, <1>17, <1>18, <1>19 DEF RankHolds

\* A rank that gets its schedule.
LEMMA ScheduleHolds ==
  ASSUME GradientInv, NEW r \in DpRanks, Schedule
  PROVE  RankHolds(r, pass'[r], plan'[r], stepId'[r], fed'[r], offset'[r], inputs'[r], collected'[r], logps'[r], grad'[r])
  <1> DEFINE p == plan'[r]
             q == Head(Passes)
  <1>1. /\ option \in StepOptions /\ rows \in StepRows /\ 1 \in Chunks /\ option.vpp \in Chunks
        /\ RankHolds(r, pass[r], plan[r], stepId[r], fed[r], offset[r], inputs[r], collected[r], logps[r], grad[r])
    BY RankInCall
  <1>2. /\ pass[r] = "schedule" /\ pass'[r] = q /\ p \in Schedules
        /\ offset'[r] = offset[r] /\ stepId'[r] = stepId[r] /\ fed'[r] = fed[r] /\ inputs'[r] = inputs[r]
        /\ collected'[r] = collected[r] /\ logps'[r] = logps[r] /\ grad'[r] = grad[r]
    BY DEF Schedule
  <1>3. /\ stepId[r] = 1 /\ fed[r] = NoneFed /\ offset[r] = NoneFed /\ inputs[r] = << >> /\ collected[r] = << >>
        /\ grad[r] = << >>
    BY <1>1, <1>2 DEF RankHolds, Untouched, OutputsFit
  <1>4. q \in ForwardPasses /\ {"schedule", "train", "done"} \cap ForwardPasses = {}
    <2>1. Passes \in Seq(STRING) /\ Passes # << >>
      BY GradientAssumption
    <2>2. Passes[1] \in ForwardPasses
      BY <2>1 DEF ForwardPasses, Range
    <2> QED
      BY <2>2, PassAfterIs
  <1>5. PlanFits(p)
    <2>1. CASE option.dynamic
      BY <1>1, <1>2, <2>1, PlannedFits
    <2>2. CASE ~option.dynamic
      BY <1>1, <2>2, FixedFits
    <2> QED
      BY <2>1, <2>2
  <1>6. StepsPerRollout \in Nat \ {0} /\ 1 \in 1 .. StepsPerRollout /\ 1 \in 1 .. StepsPerRollout + 1
    <2>1. StepsPerRollout \in Nat \ {0}
      BY <1>1, SizesAre
    <2> QED
      BY <2>1
  <1>7. \A w \in Chunks : NoneFed[w] = 0
    BY DEF NoneFed
  <1>8. OffsetAt(1, 0) = 0 /\ NumMicroBatches(1) \in Nat
    BY <1>1, <1>6, BaseIs, CountIs
  <1>9. << >> = [k \in 1 .. NoneFed[1] |-> Batch(p, 1, k)]
    BY <1>1, <1>7
  <1>10. SamplesUpto(p, 0) = << >>
    BY <1>1, <1>5, <1>6, UptoGrows
  <1> HIDE DEF p, q
  <1>11. ChunksAgree(q, p, 1, NoneFed, NoneFed, << >>)
    <2>1. \A w \in Chunks : NoneFed[w] <= NumMicroBatches(1) /\ NoneFed[w] = OffsetAt(1, NoneFed[w])
      BY <1>7, <1>8
    <2>2. \A u, w \in Chunks : u <= w => NoneFed[w] <= NoneFed[u]
      BY <1>7
    <2> QED
      BY <1>5, <1>6, <1>9, <2>1, <2>2 DEF ChunksAgree
  <1>12. Untouched(q, 1, NoneFed, NoneFed, << >>, << >>)
    BY DEF Untouched
  <1>13. OutputsFit(r, q, p, 1, NoneFed, NoneFed, << >>, logps[r], << >>)
    BY <1>1, <1>4, <1>7, <1>10 DEF OutputsFit
  <1> QED
    BY <1>2, <1>3, <1>11, <1>12, <1>13 DEF RankHolds, p

-----------------------------------------------------------------------------
(* What an optimizer step takes.                                               *)

\* The micro-batches of a step, one after the other, have each of its samples once.
LEMMA StepTogether ==
  ASSUME option \in StepOptions, rows \in StepRows, NEW i \in 1 .. StepsPerRollout, NEW p, PlanFits(p)
  PROVE  LET s == FedOf(p, i, NumMicroBatches(i))
         IN  /\ s \in Seq(Nat) /\ Len(s) = LocalBatch /\ OneToOne(s)
             /\ \A j \in 1 .. LocalBatch : s[j] \in Window(i)
             /\ \A n \in Window(i) : \E j \in 1 .. LocalBatch : s[j] = n
  <1> DEFINE q == StepOf(p, i)
             s == FedOf(p, i, NumMicroBatches(i))
             W == Window(i)
             L == LocalBatch
  <1>1. s = FlattenSeq(q)
    BY DEF FedOf, StepOf
  <1>2. /\ q \in Seq(Seq(Nat)) /\ AllDistinct(q)
        /\ \A j \in 1 .. Len(q) : \A e \in 1 .. Len(q[j]) : q[j][e] \in W
        /\ \A n \in W : \E j \in 1 .. Len(q) : \E e \in 1 .. Len(q[j]) : q[j][e] = n
    BY DEF PlanFits, Cuts
  <1>3. IsFiniteSet(W) /\ Cardinality(W) = L
    BY WindowIs
  <1> HIDE DEF q, s, W, L
  <1>4. s \in Seq(Nat) /\ Among(s, q, Len(q)) /\ OneToOne(s) /\ Covers(s, q, Len(q))
    BY <1>1, <1>2, FlattenElements, FlattenCovers
  <1>5. \A k \in 1 .. Len(s) : s[k] \in W
    BY <1>2, <1>4 DEF Among
  <1>6. ASSUME NEW n \in W PROVE \E k \in 1 .. Len(s) : s[k] = n
    <2>1. PICK j \in 1 .. Len(q) : \E e \in 1 .. Len(q[j]) : q[j][e] = n
      BY <1>2
    <2>2. PICK e \in 1 .. Len(q[j]) : q[j][e] = n
      BY <2>1
    <2> QED
      BY <1>4, <2>2 DEF Covers
  <1>7. Len(s) = L
    <2>1. DOMAIN s = 1 .. Len(s) /\ Len(s) \in Nat
      BY <1>4
    <2>2. {s[k] : k \in 1 .. Len(s)} = W
      BY <1>5, <1>6
    <2>3. Cardinality({s[k] : k \in 1 .. Len(s)}) = Cardinality(1 .. Len(s))
      <3> DEFINE I == 1 .. Len(s)
      <3>1. I \in SUBSET (DOMAIN s)
        BY <2>1
      <3> HIDE DEF I
      <3>2. Cardinality({s[k] : k \in I}) = Cardinality(I)
        BY <1>4, <3>1, PlacesAndValues, ZenonT(30)
      <3> QED
        BY <3>2 DEF I
    <2>4. Cardinality(1 .. Len(s)) = Len(s)
      <3> DEFINE n == Len(s)
      <3>1. n \in Nat
        BY <2>1
      <3> HIDE DEF n
      <3>2. Cardinality(1 .. n) = IF 1 > n THEN 0 ELSE n - 1 + 1
        BY <3>1, FS_Interval
      <3> QED
        BY <3>1, <3>2 DEF n
    <2> QED
      BY <1>3, <2>2, <2>3, <2>4
  <1> QED
    BY <1>4, <1>5, <1>6, <1>7 DEF s, W, L

\* A sample.
LEMMA SampleIs ==
  ASSUME option \in StepOptions, rows \in StepRows, NEW r \in DpRanks, NEW n \in 1 .. NumLocal
  PROVE  /\ rows[r][n].counted \in Nat /\ rows[r][n].weight \in Int
         /\ Max({rows[r][n].counted, 1}) \in Nat /\ Divisor(rows[r][n]) \in Nat
  <1> DEFINE T == [len : Nat, counted : Nat, weight : Int]
             x == rows[r]
  <1>1. x \in Seq(T) /\ Len(x) = NumLocal
    BY SizesAre
  <1>2. x[n] \in T
    <2> HIDE DEF x, T
    <2> QED
      BY <1>1, ElementOfSeq
  <1> DEFINE c == rows[r][n].counted
  <1>3. c \in Nat /\ rows[r][n].weight \in Int
    BY <1>2
  <1> HIDE DEF c
  <1>4. Max({c, 1}) \in {c, 1}
    BY <1>3 DEF Max
  <1>5. Max({c, 1}) \in Nat
    BY <1>3, <1>4
  <1>6. Divisor(rows[r][n]) \in Nat
    BY <1>5 DEF Divisor, c
  <1> QED
    BY <1>3, <1>5, <1>6 DEF c

\* The tokens of the samples of a step, in any order.
TokensOf(r, s) == [j \in 1 .. LocalBatch |-> Max({rows[r][s[j]].counted, 1})]
InOrderOf(i) == [j \in 1 .. LocalBatch |-> First(i) + j - 1]
LEMMA TokensTogether ==
  ASSUME option \in StepOptions, rows \in StepRows, NEW i \in 1 .. StepsPerRollout, NEW p, PlanFits(p),
         NEW r \in DpRanks
  PROVE  LET s == FedOf(p, i, NumMicroBatches(i))
         IN  /\ SumFunction(TokensOf(r, s)) = SumFunction(TokensOf(r, InOrderOf(i)))
             /\ SumFunction(TokensOf(r, s)) \in Int
  <1> DEFINE s == FedOf(p, i, NumMicroBatches(i))
             L == LocalBatch
             I == 1 .. L
             f == TokensOf(r, InOrderOf(i))
             h == TokensOf(r, s)
             a == First(i)
             name == [t \in I |-> s[t] - a + 1]
  <1>1. /\ s \in Seq(Nat) /\ OneToOne(s) /\ Len(s) = L
        /\ \A j \in I : s[j] \in Window(i)
        /\ \A n \in Window(i) : \E j \in I : s[j] = n
    BY StepTogether
  <1>2. L \in Nat /\ a \in Nat /\ Window(i) = a .. a + L - 1 /\ Window(i) \subseteq 1 .. NumLocal
    BY WindowIs, SizesAre
  <1>3. \A n \in Window(i) : Max({rows[r][n].counted, 1}) \in Nat
    BY <1>2, SampleIs
  <1>4. DOMAIN f = I /\ DOMAIN h = I
        /\ (\A j \in I : f[j] = Max({rows[r][a + j - 1].counted, 1})) /\ \A j \in I : h[j] = Max({rows[r][s[j]].counted, 1})
    BY DEF TokensOf, InOrderOf
  <1> HIDE DEF s, L, f, h, a
  <1>5. \A j \in I : a + j - 1 \in Window(i) /\ s[j] \in a .. a + L - 1
    BY <1>1, <1>2
  <1>6. ASSUME NEW j \in I PROVE f[j] \in Int
    <2>1. Max({rows[r][a + j - 1].counted, 1}) \in Nat
      BY <1>3, <1>5
    <2>2. f[j] = Max({rows[r][a + j - 1].counted, 1})
      BY <1>4
    <2> QED
      BY <2>1, <2>2
  <1>7. name \in [I -> I] /\ \A t \in I : name[t] = s[t] - a + 1
    BY <1>2, <1>5
  <1>8. \A t, u \in I : name[t] = name[u] => t = u
    <2> SUFFICES ASSUME NEW t \in I, NEW u \in I, name[t] = name[u] PROVE t = u
      OBVIOUS
    <2>1. s[t] = s[u]
      BY <1>2, <1>5, <1>7
    <2> QED
      BY <1>1, <2>1 DEF OneToOne
  <1>9. \A x \in I : \E t \in I : name[t] = x
    <2> SUFFICES ASSUME NEW x \in I PROVE \E t \in I : name[t] = x
      OBVIOUS
    <2>1. PICK t \in I : s[t] = a + x - 1
      BY <1>1, <1>5
    <2>2. s[t] - a + 1 = x
      BY <1>2, <2>1
    <2> QED
      BY <1>7, <2>2
  <1>10. \A t \in I : h[t] = f[name[t]]
    <2> SUFFICES ASSUME NEW t \in I PROVE h[t] = f[name[t]]
      OBVIOUS
    <2>1. name[t] \in I /\ a + name[t] - 1 = s[t]
      BY <1>2, <1>5, <1>7
    <2> QED
      BY <1>4, <2>1
  <1>11. IsFiniteSet(I)
    BY <1>2, FS_Interval
  <1> HIDE DEF I, name
  <1>12. SumFunctionOnSet(h, I) = SumFunctionOnSet(f, I)
    BY <1>6, <1>7, <1>8, <1>9, <1>10, <1>11, SumRenamed
  <1>13. SumFunctionOnSet(f, I) \in Int
    BY <1>6, <1>11, SumLaws
  <1>14. SumFunction(h) = SumFunctionOnSet(h, I) /\ SumFunction(f) = SumFunctionOnSet(f, I)
    BY <1>4 DEF SumFunction
  <1> QED
    BY <1>12, <1>13, <1>14 DEF f, h, s

\* What is summed up before a step, of all ranks.
LEMMA WeightsAre ==
  ASSUME GradientInv, NEW i \in 1 .. StepsPerRollout,
         \A r \in DpRanks : pass[r] = "train" /\ StepFed(r) /\ stepId[r] = i
  PROVE  /\ \A r \in DpRanks : PlanFits(plan[r]) /\ grad[r] = Losses(r, i, FedOf(plan[r], i, NumMicroBatches(i)))
         /\ MeanOver(i) \in Int /\ ReportedOver = option.cp * MeanOver(i)
         /\ option.perToken => AllTokens = option.cp * MeanOver(i)
  <1> DEFINE K == NumMicroBatches(i)
             s(r) == FedOf(plan[r], i, K)
             L == LocalBatch
             D == DpRanks
  <1>1. /\ option \in StepOptions /\ rows \in StepRows /\ IsFiniteSet(D)
    BY GradientAssumption DEF GradientInv, GradientTypeOK
  <1>2. /\ Dp \in Nat \ {0} /\ GlobalBatch \in Nat \ {0} /\ L \in Nat \ {0} /\ GlobalBatch = Dp * L
        /\ option.cp \in Nat \ {0} /\ option.perToken \in BOOLEAN
    BY <1>1, SizesAre
  <1>3. ASSUME NEW r \in D PROVE PlanFits(plan[r]) /\ grad[r] = Losses(r, i, s(r))
    <2>1. /\ RankHolds(r, pass[r], plan[r], stepId[r], fed[r], offset[r], inputs[r], collected[r], logps[r], grad[r])
          /\ PlanFits(plan[r]) /\ option.vpp \in Chunks
      BY RankInCall
    <2>2. fed[r][option.vpp] = K
      BY <2>1 DEF StepFed
    <2> QED
      BY <2>1, <2>2 DEF RankHolds, OutputsFit
  <1>4. ASSUME NEW r \in D
        PROVE  /\ DOMAIN grad[r] = 1 .. L /\ Len(grad[r]) = L
               /\ [j \in DOMAIN grad[r] |-> grad[r][j].tokens] = TokensOf(r, s(r))
    <2> DEFINE t == s(r)
    <2>1. t \in Seq(Nat) /\ Len(t) = L
      BY <1>1, <1>3, StepTogether
    <2>2. grad[r] = Losses(r, i, t)
      BY <1>3
    <2> HIDE DEF t
    <2>3. DOMAIN t = 1 .. L
      BY <2>1
    <2>4. grad[r] = [j \in 1 .. L |-> LossRecord(r, i, t[j])]
      BY <2>2, <2>3 DEF Losses
    <2> HIDE DEF L
    <2>5. DOMAIN grad[r] = 1 .. L /\ Len(grad[r]) = L
      BY <1>2, <2>4
    <2>6. \A j \in 1 .. L : grad[r][j].tokens = Max({rows[r][t[j]].counted, 1})
      BY <2>4 DEF LossRecord
    <2> QED
      BY <2>5, <2>6 DEF TokensOf, t, L
  <1>5. ASSUME NEW r \in D
        PROVE  /\ SumFunction(TokensOf(r, s(r))) = SumFunction(TokensOf(r, InOrderOf(i)))
               /\ SumFunction(TokensOf(r, s(r))) \in Int
    BY <1>1, <1>3, TokensTogether
  <1> DEFINE own == [r \in D |-> SumFunction(TokensOf(r, InOrderOf(i)))]
  <1>6. SumFunction(own) \in Int
    <2>1. \A r \in D : own[r] \in Int
      BY <1>5
    <2>2. DOMAIN own = D
      OBVIOUS
    <2> HIDE DEF own, D
    <2>3. SumFunctionOnSet(own, D) \in Int
      BY <1>1, <2>1, SumLaws
    <2> QED
      BY <2>2, <2>3 DEF SumFunction
  <1>7. AllTokens = option.cp * SumFunction(own)
    <2>1. [r \in D |-> SumFunction([j \in DOMAIN grad[r] |-> grad[r][j].tokens])] = own
      BY <1>4, <1>5
    <2> QED
      BY <2>1 DEF AllTokens
  <1>8. ASSUME option.perToken PROVE MeanOver(i) = SumFunction(own)
    <2>1. \A r : [j \in 1 .. L |-> Max({rows[r][First(i) + j - 1].counted, 1})] = TokensOf(r, InOrderOf(i))
      BY DEF TokensOf, InOrderOf
    <2>2. [r \in D |-> SumFunction([j \in 1 .. L |-> Max({rows[r][First(i) + j - 1].counted, 1})])] = own
      BY <2>1
    <2> QED
      BY <1>8, <2>2 DEF MeanOver
  <1>9. ASSUME ~option.perToken PROVE MeanOver(i) = GlobalBatch /\ ReportedOver = option.cp * GlobalBatch
    <2> DEFINE lens == [r \in D |-> Len(grad[r])]
    <2>1. \A r \in D : lens[r] = L
      BY <1>4
    <2>2. DOMAIN lens = D /\ L \in Int
      BY <1>2
    <2> HIDE DEF lens, L
    <2>3. SumFunctionOnSet(lens, D) = L * Cardinality(D)
      BY <1>1, <2>1, <2>2, SumConstant
    <2>4. SumFunction(lens) = L * Dp
      BY <2>2, <2>3 DEF SumFunction, Dp
    <2>5. L * Dp = GlobalBatch
      BY <1>2
    <2> QED
      BY <1>9, <2>4, <2>5 DEF MeanOver, ReportedOver, lens
  <1> HIDE DEF own
  <1>10. CASE option.perToken
    <2>1. MeanOver(i) \in Int /\ AllTokens = option.cp * MeanOver(i)
      BY <1>6, <1>7, <1>8, <1>10
    <2>2. ReportedOver = AllTokens
      BY <1>10 DEF ReportedOver
    <2> QED
      BY <1>3, <2>1, <2>2
  <1>11. CASE ~option.perToken
    <2>1. MeanOver(i) \in Int /\ ReportedOver = option.cp * MeanOver(i)
      BY <1>2, <1>9, <1>11
    <2> QED
      BY <1>3, <1>11, <2>1
  <1> QED
    BY <1>10, <1>11

\* What an optimizer step makes of the losses of a rank, and what it should be.
Taken(r, i) ==
  [j \in DOMAIN grad[r] |->
     [sample |-> grad[r][j].sample, old |-> grad[r][j].old,
      num |-> grad[r][j].num, den |-> grad[r][j].den * MegatronDivisor(i),
      report |-> IF grad[r][j].sample = Garbage THEN [num |-> 0, den |-> 1] ELSE Reported(r, grad[r][j])]]
MeanFor(r, i, us) ==
  /\ Len(us) = LocalBatch /\ {us[j].sample : j \in DOMAIN us} = Window(i)
  /\ \A j \in DOMAIN us :
       LET s == rows[r][us[j].sample]
       IN  /\ us[j].old = us[j].sample
           /\ us[j].num * Divisor(s) * MeanOver(i) = s.weight * us[j].den
           /\ us[j].report.num * Divisor(s) * MeanOver(i) = s.weight * us[j].report.den

LEMMA ProductsAgree ==
  ASSUME NEW w \in Int, NEW d \in Int, NEW k \in Int, NEW g \in Int
  PROVE  /\ (w * k) * d * g = w * ((d * g) * k) /\ (k * w) * d * g = w * (d * (k * g))
         /\ (w * k) * 1 * g = w * ((1 * 1) * (k * g)) /\ (k * w) * 1 * g = w * (1 * (k * g))
  OBVIOUS

LEMMA TakenIsMean ==
  ASSUME GradientInv, NEW i \in 1 .. StepsPerRollout,
         \A r \in DpRanks : pass[r] = "train" /\ StepFed(r) /\ stepId[r] = i,
         NEW r \in DpRanks
  PROVE  Taken(r, i) \in Seq(StepRecord) /\ MeanFor(r, i, Taken(r, i))
  <1> DEFINE K == NumMicroBatches(i)
             s == FedOf(plan[r], i, K)
             L == LocalBatch
             us == Taken(r, i)
             cp == option.cp
             T == MeanOver(i)
             a == LossScale(i)[1]
             b == LossScale(i)[2]
             MD == MegatronDivisor(i)
             w(n) == rows[r][n].weight
             d(n) == Divisor(rows[r][n])
  <1>1. option \in StepOptions /\ rows \in StepRows
    BY DEF GradientInv, GradientTypeOK
  <1>2. /\ Dp \in Nat /\ GlobalBatch \in Nat /\ L \in Nat /\ cp \in Nat /\ option.perToken \in BOOLEAN
    BY <1>1, SizesAre
  <1>3. K \in Nat
    BY <1>1, CountIs
  <1>4. /\ PlanFits(plan[r]) /\ grad[r] = Losses(r, i, s)
        /\ T \in Int /\ ReportedOver = cp * T
        /\ option.perToken => AllTokens = cp * T
    BY WeightsAre
  <1>5. /\ s \in Seq(Nat) /\ Len(s) = L
        /\ \A j \in 1 .. L : s[j] \in Window(i)
        /\ \A n \in Window(i) : \E j \in 1 .. L : s[j] = n
    BY <1>1, <1>4, StepTogether
  <1>6. \A n \in Window(i) : n \in 1 .. NumLocal /\ n # Garbage /\ n \in Int
    BY <1>1, WindowIs DEF Garbage
  <1>7. \A n \in Window(i) : w(n) \in Int /\ d(n) \in Nat
    BY <1>1, <1>6, SampleIs
  <1>8. /\ a \in Int /\ b \in Int /\ MD \in Int
        /\ \A n \in Window(i) : /\ (w(n) * a) * d(n) * T = w(n) * ((d(n) * b) * MD)
                                /\ (cp * w(n)) * d(n) * T = w(n) * (d(n) * (cp * T))
    <2>1. CASE option.perToken
      <3>1. a = cp /\ b = 1 /\ MD = cp * T /\ \A n \in Window(i) : d(n) = 1
        BY <1>4, <2>1 DEF LossScale, MegatronDivisor, Divisor
      <3> HIDE DEF a, b, MD, T, w, d, cp
      <3>2. \A n \in Window(i) : (w(n) * cp) * 1 * T = w(n) * ((1 * 1) * (cp * T)) /\ (cp * w(n)) * 1 * T = w(n) * (1 * (cp * T))
        BY <1>2, <1>4, <1>7, ProductsAgree
      <3> QED
        BY <1>2, <1>4, <3>1, <3>2
    <2>2. CASE ~option.perToken
      <3> DEFINE k == K * DpCp
      <3>1. a = k /\ b = GlobalBatch /\ MD = k /\ T = GlobalBatch
        BY <2>2 DEF LossScale, MegatronDivisor, MeanOver
      <3>2. k \in Int
        BY <1>2, <1>3 DEF DpCp
      <3> HIDE DEF a, b, MD, T, w, d, k, cp
      <3>3. \A n \in Window(i) : (w(n) * k) * d(n) * T = w(n) * ((d(n) * T) * k) /\ (cp * w(n)) * d(n) * T = w(n) * (d(n) * (cp * T))
        BY <1>2, <1>4, <1>7, <3>2, ProductsAgree
      <3> QED
        BY <1>2, <1>4, <3>1, <3>2, <3>3
    <2> QED
      BY <2>1, <2>2
  <1>9. grad[r] = [j \in 1 .. L |-> LossRecord(r, i, s[j])]
    <2>1. DOMAIN s = 1 .. L
      BY <1>5
    <2> QED
      BY <1>4, <2>1 DEF Losses
  <1>10. DOMAIN us = 1 .. L /\ \A j \in 1 .. L :
           us[j] = [sample |-> s[j], old |-> s[j], num |-> w(s[j]) * a, den |-> (d(s[j]) * b) * MD,
                    report |-> [num |-> cp * w(s[j]), den |-> d(s[j]) * (cp * T)]]
    <2>1. DOMAIN grad[r] = 1 .. L
      BY <1>9
    <2>2. DOMAIN us = 1 .. L
      BY <2>1 DEF Taken
    <2> SUFFICES ASSUME NEW j \in 1 .. L
                 PROVE  us[j] = [sample |-> s[j], old |-> s[j], num |-> w(s[j]) * a, den |-> (d(s[j]) * b) * MD,
                                 report |-> [num |-> cp * w(s[j]), den |-> d(s[j]) * (cp * T)]]
      BY <2>2
    <2> DEFINE g == grad[r][j]
    <2>3. g = LossRecord(r, i, s[j])
      BY <1>9
    <2>4. us[j] = [sample |-> g.sample, old |-> g.old, num |-> g.num, den |-> g.den * MD,
                   report |-> IF g.sample = Garbage THEN [num |-> 0, den |-> 1] ELSE Reported(r, g)]
      BY <2>1 DEF Taken
    <2> HIDE DEF g, us, s, L
    <2>5. g.sample = s[j] /\ g.old = s[j] /\ g.num = w(s[j]) * a /\ g.den = d(s[j]) * b
      BY <2>3 DEF LossRecord
    <2>6. g.sample # Garbage
      BY <1>5, <1>6, <2>5
    <2>7. Reported(r, g) = [num |-> cp * w(s[j]), den |-> d(s[j]) * (cp * T)]
      BY <1>4, <2>5 DEF Reported
    <2> QED
      BY <2>4, <2>5, <2>6, <2>7
  <1> HIDE DEF us, s, L, w, d, a, b, MD, T, cp, K
  <1>11. us \in Seq(StepRecord) /\ Len(us) = L
    <2>1. us = [j \in 1 .. L |-> us[j]]
      BY <1>10 DEF us, Taken
    <2>2. \A j \in 1 .. L : us[j] \in StepRecord
      <3> SUFFICES ASSUME NEW j \in 1 .. L PROVE us[j] \in StepRecord
        OBVIOUS
      <3> DEFINE n == s[j]
      <3>1. n \in Window(i) /\ n \in Int
        BY <1>5, <1>6
      <3>2. w(n) \in Int /\ d(n) \in Int
        BY <1>7, <3>1
      <3>3. w(n) * a \in Int /\ (d(n) * b) * MD \in Int /\ cp * w(n) \in Int /\ d(n) * (cp * T) \in Int
        BY <1>2, <1>4, <1>8, <3>2
      <3>4. us[j] = [sample |-> n, old |-> n, num |-> w(n) * a, den |-> (d(n) * b) * MD,
                     report |-> [num |-> cp * w(n), den |-> d(n) * (cp * T)]]
        BY <1>10
      <3> HIDE DEF n
      <3> QED
        BY <3>1, <3>3, <3>4 DEF StepRecord
    <2>3. us \in [1 .. L -> StepRecord]
      BY <2>1, <2>2
    <2> QED
      BY <1>2, <2>3
  <1>12. {us[j].sample : j \in DOMAIN us} = Window(i)
    <2>1. \A j \in 1 .. L : us[j].sample = s[j]
      BY <1>10
    <2> QED
      BY <1>5, <1>10, <2>1
  <1>13. ASSUME NEW j \in DOMAIN us
         PROVE  LET t == rows[r][us[j].sample]
                IN  /\ us[j].old = us[j].sample
                    /\ us[j].num * Divisor(t) * T = t.weight * us[j].den
                    /\ us[j].report.num * Divisor(t) * T = t.weight * us[j].report.den
    <2> DEFINE n == s[j]
    <2>1. j \in 1 .. L /\ n \in Window(i)
      BY <1>5, <1>10
    <2>2. us[j] = [sample |-> n, old |-> n, num |-> w(n) * a, den |-> (d(n) * b) * MD,
                   report |-> [num |-> cp * w(n), den |-> d(n) * (cp * T)]]
      BY <1>10, <2>1
    <2> HIDE DEF n
    <2>3. us[j].sample = n /\ us[j].old = n /\ us[j].num = w(n) * a /\ us[j].den = (d(n) * b) * MD
          /\ us[j].report.num = cp * w(n) /\ us[j].report.den = d(n) * (cp * T)
      BY <2>2
    <2>4. (w(n) * a) * d(n) * T = w(n) * ((d(n) * b) * MD) /\ (cp * w(n)) * d(n) * T = w(n) * (d(n) * (cp * T))
      BY <1>8, <2>1
    <2> QED
      BY <2>3, <2>4 DEF w, d
  <1> QED
    BY <1>11, <1>12, <1>13 DEF MeanFor, us, L, T

-----------------------------------------------------------------------------
(* Every step keeps the invariant.                                             *)

\* What an earlier step took stays what it should be.
LEMMA MeanFixed ==
  ASSUME option' = option, rows' = rows
  PROVE  \A r, i, us : MeanFor(r, i, us)' <=> MeanFor(r, i, us)
  <1>1. /\ GlobalBatch' = GlobalBatch /\ LocalBatch' = LocalBatch
        /\ \A i : First(i)' = First(i) /\ Window(i)' = Window(i)
    BY SizesFixed
  <1>2. \A i : MeanOver(i)' = MeanOver(i)
    BY <1>1 DEF MeanOver
  <1>3. \A x : Divisor(x)' = Divisor(x)
    BY DEF Divisor
  <1> QED
    BY <1>1, <1>2, <1>3 DEF MeanFor

\* A step of one rank, or of all of them, that takes no optimizer step.
LEMMA RanksKept ==
  ASSUME GradientInv, option' = option, rows' = rows, NEW Moved \in SUBSET DpRanks,
         \A q \in DpRanks \ Moved :
           /\ pass'[q] = pass[q] /\ plan'[q] = plan[q] /\ stepId'[q] = stepId[q] /\ fed'[q] = fed[q]
           /\ offset'[q] = offset[q] /\ inputs'[q] = inputs[q] /\ collected'[q] = collected[q]
           /\ logps'[q] = logps[q] /\ grad'[q] = grad[q],
         \A r \in Moved :
           RankHolds(r, pass'[r], plan'[r], stepId'[r], fed'[r], offset'[r], inputs'[r], collected'[r], logps'[r], grad'[r])
  PROVE  \A r \in DpRanks : RankInv(r)'
  <1> SUFFICES ASSUME NEW r \in DpRanks PROVE RankInv(r)'
    OBVIOUS
  <1>1. RankHolds(r, pass'[r], plan'[r], stepId'[r], fed'[r], offset'[r], inputs'[r], collected'[r], logps'[r], grad'[r])
    <2>1. CASE r \in Moved
      BY <2>1
    <2>2. CASE r \notin Moved
      <3>1. RankHolds(r, pass[r], plan[r], stepId[r], fed[r], offset[r], inputs[r], collected[r], logps[r], grad[r])
        BY RankInCall
      <3> QED
        BY <2>2, <3>1
    <2> QED
      BY <2>1, <2>2
  <1>2. \A q \in {pass'[r]}, p \in {plan'[r]}, i \in {stepId'[r]}, f \in {fed'[r]}, o \in {offset'[r]},
           x \in {inputs'[r]}, c \in {collected'[r]}, l \in {logps'[r]}, g \in {grad'[r]} :
          RankHolds(r, q, p, i, f, o, x, c, l, g)
    BY <1>1
  <1>3. \A q \in {pass'[r]}, p \in {plan'[r]}, i \in {stepId'[r]}, f \in {fed'[r]}, o \in {offset'[r]},
           x \in {inputs'[r]}, c \in {collected'[r]}, l \in {logps'[r]}, g \in {grad'[r]} :
          RankHolds(r, q, p, i, f, o, x, c, l, g)'
    BY <1>2, RankFixed
  <1> QED
    BY <1>3 DEF RankInv

LEMMA MeansKept ==
  ASSUME GradientInv, option' = option, rows' = rows, updates' = updates
  PROVE  GradientIsMean'
  <1>1. \A i \in DOMAIN updates : \A r \in DpRanks : \A us \in {updates[i][r]} : MeanFor(r, i, us)
    BY DEF GradientInv, GradientIsMean, MeanFor
  <1>2. \A i \in DOMAIN updates : \A r \in DpRanks : \A us \in {updates'[i][r]} : MeanFor(r, i, us)'
    BY <1>1, MeanFixed
  <1> QED
    BY <1>2 DEF GradientIsMean, MeanFor

\* A rank moves on its own.
LEMMA OneRankKeeps ==
  ASSUME GradientInv, NEW r \in DpRanks, RankStep(r)
  PROVE  GradientInv'
  <1>1. /\ option' = option /\ rows' = rows /\ plan' = plan /\ updates' = updates
        /\ \A q \in DpRanks \ {r} :
             /\ pass'[q] = pass[q] /\ plan'[q] = plan[q] /\ stepId'[q] = stepId[q] /\ fed'[q] = fed[q]
             /\ offset'[q] = offset[q] /\ inputs'[q] = inputs[q] /\ collected'[q] = collected[q]
             /\ logps'[q] = logps[q] /\ grad'[q] = grad[q]
    <2>1. GradientTypeOK
      BY DEF GradientInv
    <2>2. ASSUME NEW v \in Chunks, Feed(r, v)
          PROVE  /\ option' = option /\ rows' = rows /\ plan' = plan /\ updates' = updates
                 /\ \A q \in DpRanks \ {r} :
                      /\ pass'[q] = pass[q] /\ plan'[q] = plan[q] /\ stepId'[q] = stepId[q] /\ fed'[q] = fed[q]
                      /\ offset'[q] = offset[q] /\ inputs'[q] = inputs[q] /\ collected'[q] = collected[q]
                      /\ logps'[q] = logps[q] /\ grad'[q] = grad[q]
      BY <2>1, <2>2 DEF Feed, GradientTypeOK
    <2>3. CASE ForwardStep(r)
      BY <2>1, <2>3 DEF ForwardStep, GradientTypeOK
    <2>4. CASE Store(r)
      BY <2>1, <2>4 DEF Store, GradientTypeOK
    <2> QED
      BY <2>2, <2>3, <2>4 DEF RankStep
  <1>2. RankHolds(r, pass'[r], plan'[r], stepId'[r], fed'[r], offset'[r], inputs'[r], collected'[r], logps'[r], grad'[r])
    BY FeedHolds, ForwardStepHolds, StoreHolds DEF RankStep
  <1>3. \A q \in DpRanks : RankInv(q)'
    <2> DEFINE Moved == {r}
    <2>1. Moved \in SUBSET DpRanks
      OBVIOUS
    <2>2. \A q \in DpRanks \ Moved :
            /\ pass'[q] = pass[q] /\ plan'[q] = plan[q] /\ stepId'[q] = stepId[q] /\ fed'[q] = fed[q]
            /\ offset'[q] = offset[q] /\ inputs'[q] = inputs[q] /\ collected'[q] = collected[q]
            /\ logps'[q] = logps[q] /\ grad'[q] = grad[q]
      BY <1>1
    <2>3. \A e \in Moved :
            RankHolds(e, pass'[e], plan'[e], stepId'[e], fed'[e], offset'[e], inputs'[e], collected'[e], logps'[e], grad'[e])
      BY <1>2
    <2> HIDE DEF Moved
    <2> QED
      BY <1>1, <2>1, <2>2, <2>3, RanksKept
  <1>4. GradientIsMean'
    BY <1>1, MeansKept
  <1>5. Chunks' = Chunks /\ NoneFed' = NoneFed
    BY <1>1, SizesFixed
  <1>6. GradientTypeOK'
    <2>1. GradientTypeOK
      BY DEF GradientInv
    <2>2. NoneFed \in [Chunks -> Nat] /\ Reset(r) \in [Chunks -> Nat]
      BY DEF NoneFed, Reset
    <2>3. /\ offset' \in [DpRanks -> [Chunks -> Nat]] /\ fed' \in [DpRanks -> [Chunks -> Nat]]
          /\ pass' \in [DpRanks -> ForwardPasses \cup {"schedule", "train", "done"}] /\ stepId' \in [DpRanks -> Nat]
          /\ DOMAIN inputs' = DpRanks /\ DOMAIN collected' = DpRanks /\ DOMAIN logps' = DpRanks /\ DOMAIN grad' = DpRanks
      <3>1. ASSUME NEW v \in Chunks, Feed(r, v)
              PROVE  /\ offset' \in [DpRanks -> [Chunks -> Nat]] /\ fed' \in [DpRanks -> [Chunks -> Nat]]
                     /\ pass' \in [DpRanks -> ForwardPasses \cup {"schedule", "train", "done"}] /\ stepId' \in [DpRanks -> Nat]
                     /\ DOMAIN inputs' = DpRanks /\ DOMAIN collected' = DpRanks /\ DOMAIN logps' = DpRanks /\ DOMAIN grad' = DpRanks
        <4>1. Advanced(offset[r][v]) \in Nat
          <5>1. option \in StepOptions /\ rows \in StepRows
            BY <2>1 DEF GradientTypeOK
          <5>2. option.dynamic \in BOOLEAN /\ (~option.dynamic => option.mbs \in Nat)
            BY <5>1, SizesAre
          <5>3. offset[r][v] \in Nat
            BY <2>1 DEF GradientTypeOK
          <5> QED
            BY <5>2, <5>3 DEF Advanced
        <4> QED
          BY <2>1, <3>1, <4>1, SMTT(30) DEF Feed, GradientTypeOK
      <3>2. CASE ForwardStep(r)
        BY <2>1, <2>2, <3>2 DEF ForwardStep, GradientTypeOK
      <3>3. CASE Store(r)
        <4>1. pass[r] \in ForwardPasses
          BY <2>1, <3>3 DEF Store, GradientTypeOK
        <4>2. PassAfter(pass[r]) \in ForwardPasses \cup {"train"}
          BY <4>1, PassAfterIs
        <4> QED
          BY <2>1, <2>2, <3>3, <4>2 DEF Store, GradientTypeOK
      <3> QED
        BY <3>1, <3>2, <3>3 DEF RankStep
    <2> QED
      BY <1>1, <1>5, <2>1, <2>3 DEF GradientTypeOK
  <1>7. UpdatesFit'
    <2>1. UpdatesFit
      BY DEF GradientInv
    <2>2. ASSUME pass[r] \notin {"train", "done"} PROVE updates = << >> /\ Len(updates) + 1 = 1
      BY <2>1, <2>2 DEF UpdatesFit
    <2>3. ASSUME NEW v \in Chunks, Feed(r, v) PROVE UpdatesFit'
      BY <1>1, <2>1, <2>3 DEF UpdatesFit, Feed
    <2>4. CASE ForwardStep(r)
      <3>1. pass[r] \notin {"train", "done"} /\ pass' = pass
        BY <2>4 DEF ForwardStep
      <3>2. \A q \in DpRanks \ {r} : stepId'[q] = stepId[q]
        BY <1>1
      <3> QED
        BY <1>1, <2>1, <2>2, <3>1, <3>2 DEF UpdatesFit
    <2>5. CASE Store(r)
      <3>1. pass[r] \notin {"train", "done"} /\ stepId'[r] = 1
        <4>1. GradientTypeOK
          BY DEF GradientInv
        <4> QED
          BY <2>5, <4>1 DEF Store, GradientTypeOK
      <3>2. updates' = << >> /\ Len(updates') + 1 = 1 /\ Len(updates) + 1 = 1
        BY <1>1, <2>2, <3>1
      <3>3. \A q \in DpRanks : pass'[q] = "train" => stepId'[q] = Len(updates') + 1
        BY <1>1, <2>1, <3>1, <3>2 DEF UpdatesFit
      <3> QED
        BY <3>2, <3>3 DEF UpdatesFit
    <2> QED
      BY <2>3, <2>4, <2>5 DEF RankStep
  <1> QED
    BY <1>3, <1>4, <1>6, <1>7 DEF GradientInv

\* All ranks get their schedules.
LEMMA ScheduleKeeps ==
  ASSUME GradientInv, Schedule
  PROVE  GradientInv'
  <1>1. /\ option' = option /\ rows' = rows /\ updates' = updates /\ offset' = offset /\ fed' = fed /\ stepId' = stepId
        /\ inputs' = inputs /\ collected' = collected /\ logps' = logps /\ grad' = grad
        /\ DOMAIN plan' = DpRanks /\ pass' = [r \in DpRanks |-> Head(Passes)] /\ \A r \in DpRanks : pass[r] = "schedule"
    BY DEF Schedule
  <1>2. \A r \in DpRanks : RankInv(r)'
    <2>1. \A r \in DpRanks :
            RankHolds(r, pass'[r], plan'[r], stepId'[r], fed'[r], offset'[r], inputs'[r], collected'[r], logps'[r], grad'[r])
      BY ScheduleHolds
    <2> QED
      BY <1>1, <2>1, RanksKept
  <1>3. GradientIsMean'
    BY <1>1, MeansKept
  <1>4. DpRanks # {} /\ Head(Passes) \in ForwardPasses /\ {"schedule", "train", "done"} \cap ForwardPasses = {}
    <2>1. Passes \in Seq(STRING) /\ Passes # << >> /\ DpRanks # {}
      BY GradientAssumption
    <2>2. Passes[1] \in ForwardPasses
      BY <2>1 DEF ForwardPasses, Range
    <2> QED
      BY <2>1, <2>2, PassAfterIs
  <1>5. Chunks' = Chunks
    BY <1>1, SizesFixed
  <1>6. GradientTypeOK'
    BY <1>1, <1>4, <1>5 DEF GradientInv, GradientTypeOK
  <1>7. UpdatesFit'
    BY <1>1, <1>4 DEF GradientInv, UpdatesFit
  <1> QED
    BY <1>2, <1>3, <1>6, <1>7 DEF GradientInv

\* All ranks take an optimizer step.
LEMMA OptimizerKeeps ==
  ASSUME GradientInv, OptimizerStep
  PROVE  GradientInv'
  <1> DEFINE i == Len(updates) + 1
             S == StepsPerRollout
             X == [r \in DpRanks |-> Taken(r, i)]
  <1>1. GradientTypeOK /\ UpdatesFit /\ GradientIsMean
    BY DEF GradientInv
  <1>2. \A r \in DpRanks : pass[r] = "train" /\ StepFed(r) /\ stepId[r] = i
    BY <1>1 DEF OptimizerStep, UpdatesFit
  <1>3. DpRanks # {} /\ (CHOOSE r \in DpRanks : TRUE) \in DpRanks /\ "train" \notin ForwardPasses /\ "done" \notin ForwardPasses
    BY GradientAssumption DEF ForwardPasses, Range
  <1>4. i \in 1 .. S /\ \A r \in DpRanks : PlanFits(plan[r])
    BY <1>2, <1>3, RankInCall
  <1>5. stepId[CHOOSE r \in DpRanks : TRUE] = i
    BY <1>2, <1>3
  <1>6. /\ updates' = Append(updates, X)
        /\ pass' = [r \in DpRanks |-> IF i = S THEN "done" ELSE "train"] /\ stepId' = [r \in DpRanks |-> i + 1]
        /\ grad' = [r \in DpRanks |-> << >>] /\ fed' = [r \in DpRanks |-> NoneFed]
        /\ inputs' = [r \in DpRanks |-> << >>]
        /\ option' = option /\ rows' = rows /\ plan' = plan /\ offset' = offset
        /\ collected' = collected /\ logps' = logps
    BY <1>5 DEF OptimizerStep, Taken
  <1>7. option \in StepOptions /\ rows \in StepRows /\ S \in Nat \ {0} /\ i \in Nat
    <2>1. option \in StepOptions /\ rows \in StepRows
      BY <1>1 DEF GradientTypeOK
    <2>2. S \in Nat \ {0}
      BY <2>1, SizesAre
    <2> QED
      BY <1>4, <2>1, <2>2
  <1>8. \A r \in DpRanks : Taken(r, i) \in Seq(StepRecord) /\ MeanFor(r, i, Taken(r, i))
    BY <1>2, <1>4, TakenIsMean
  <1> DEFINE U == [DpRanks -> Seq(StepRecord)]
  <1>9. updates \in Seq(U) /\ X \in U
    BY <1>1, <1>8 DEF GradientTypeOK
  <1> HIDE DEF X, U
  <1>10. /\ updates' \in Seq(U) /\ Len(updates') = i /\ updates'[i] = X
         /\ \A k \in 1 .. Len(updates) : updates'[k] = updates[k]
    BY <1>6, <1>9, AppendGives
  <1> HIDE DEF i, S
  <1>11. Chunks' = Chunks /\ NoneFed' = NoneFed /\ NoneFed \in [Chunks -> Nat] /\ \A w \in Chunks : NoneFed[w] = 0
    BY <1>6, SizesFixed DEF NoneFed
  <1>12. GradientTypeOK'
    BY <1>1, <1>6, <1>7, <1>10, <1>11 DEF GradientTypeOK, U
  <1>13. UpdatesFit'
    BY <1>6, <1>10 DEF UpdatesFit
  <1>14. GradientIsMean'
    <2>1. \A k \in DOMAIN updates : \A r \in DpRanks : \A us \in {updates[k][r]} : MeanFor(r, k, us)
      BY <1>1 DEF GradientIsMean, MeanFor
    <2>2. DOMAIN updates = 1 .. Len(updates) /\ DOMAIN updates' = 1 .. i /\ Len(updates) \in Nat /\ i = Len(updates) + 1
      BY <1>9, <1>10 DEF i
    <2>3. \A k \in DOMAIN updates' : \A r \in DpRanks : \A us \in {updates'[k][r]} : MeanFor(r, k, us)
      <3> SUFFICES ASSUME NEW k \in DOMAIN updates', NEW r \in DpRanks PROVE MeanFor(r, k, updates'[k][r])
        OBVIOUS
      <3>1. CASE k = i
        BY <1>8, <1>10, <3>1 DEF X
      <3>2. CASE k # i
        <4>1. k \in 1 .. Len(updates)
          BY <2>2, <3>2
        <4> QED
          BY <1>10, <2>1, <2>2, <4>1
      <3> QED
        BY <3>1, <3>2
    <2>4. \A k \in DOMAIN updates' : \A r \in DpRanks : \A us \in {updates'[k][r]} : MeanFor(r, k, us)'
      BY <1>6, <2>3, MeanFixed
    <2> QED
      BY <2>4 DEF GradientIsMean, MeanFor
  <1>15. ASSUME NEW r \in DpRanks
         PROVE  RankHolds(r, pass'[r], plan'[r], stepId'[r], fed'[r], offset'[r], inputs'[r], collected'[r], logps'[r], grad'[r])
    <2> DEFINE p == plan[r]
               o == offset[r]
               q == pass'[r]
    <2>1. /\ RankHolds(r, pass[r], p, stepId[r], fed[r], o, inputs[r], collected[r], logps[r], grad[r])
          /\ option.vpp \in Chunks /\ 1 \in Chunks /\ Chunks \subseteq Nat
          /\ \A v \in Chunks : o[v] = OffsetAt(i, fed[r][v])
      BY <1>2, RankInCall
    <2>2. /\ plan'[r] = p /\ stepId'[r] = i + 1 /\ fed'[r] = NoneFed /\ offset'[r] = o /\ inputs'[r] = << >>
          /\ collected'[r] = collected[r] /\ logps'[r] = logps[r] /\ grad'[r] = << >>
          /\ q = IF i = S THEN "done" ELSE "train"
      BY <1>6
    <2>3. \A v \in Chunks : o[v] = OffsetAt(i, NumMicroBatches(i))
      BY <1>2, <2>1 DEF StepFed
    <2>4. \A n \in 1 .. NumLocal : logps[r][Last(Passes)][n] = n
      BY <1>2, <2>1 DEF RankHolds, OutputsFit
    <2>5. PlanFits(p)
      BY <1>4
    <2> HIDE DEF p, o, q
    <2>6. q \in {"done", "train"} /\ (q = "train" => i # S)
      BY <2>2
    <2>7. ASSUME q = "train"
          PROVE  /\ i + 1 \in 1 .. S /\ NumMicroBatches(i + 1) \in Nat
                 /\ \A w \in Chunks : o[w] = OffsetAt(i + 1, NoneFed[w])
                 /\ << >> = [k \in 1 .. NoneFed[1] |-> Batch(p, i + 1, k)]
                 /\ Losses(r, i + 1, FedOf(p, i + 1, NoneFed[option.vpp])) = << >>
      <3>1. i + 1 \in 1 .. S /\ i + 1 \in 1 .. S + 1
        BY <1>4, <1>7, <2>6, <2>7
      <3>2. OffsetAt(i + 1, 0) = StepBase(i + 1) /\ StepBase(i + 1) = OffsetAt(i, NumMicroBatches(i))
        BY <1>4, <1>7, <3>1, BaseIs DEF S
      <3>3. NumMicroBatches(i + 1) \in Nat
        BY <1>7, <3>1, CountIs DEF S
      <3>4. FedOf(p, i + 1, 0) = << >>
        BY <1>7, <2>5, <3>1, FedGrows DEF S
      <3>5. Losses(r, i + 1, << >>) = << >>
        BY DEF Losses
      <3>6. \A w \in Chunks : o[w] = OffsetAt(i + 1, NoneFed[w])
        BY <1>11, <2>3, <3>2
      <3>7. << >> = [k \in 1 .. NoneFed[1] |-> Batch(p, i + 1, k)]
        BY <1>11, <2>1
      <3>8. Losses(r, i + 1, FedOf(p, i + 1, NoneFed[option.vpp])) = << >>
        BY <1>11, <2>1, <3>4, <3>5
      <3> QED
        BY <3>1, <3>3, <3>6, <3>7, <3>8
    <2>8. ChunksAgree(q, p, i + 1, NoneFed, o, << >>)
      <3>1. \A u, w \in Chunks : u <= w => NoneFed[w] <= NoneFed[u]
        BY <1>11
      <3> QED
        BY <1>3, <1>11, <2>5, <2>6, <2>7, <3>1 DEF ChunksAgree, S
    <2>9. Untouched(q, i + 1, NoneFed, o, << >>, collected[r])
      BY <2>6 DEF Untouched
    <2>10. OutputsFit(r, q, p, i + 1, NoneFed, o, collected[r], logps[r], << >>)
      BY <1>3, <2>4, <2>6, <2>7 DEF OutputsFit
    <2> QED
      BY <2>2, <2>8, <2>9, <2>10 DEF RankHolds, q
  <1>16. \A r \in DpRanks : RankInv(r)'
    BY <1>6, <1>15, RanksKept
  <1> QED
    BY <1>12, <1>13, <1>14, <1>16 DEF GradientInv

-----------------------------------------------------------------------------
(* The theorem.                                                                *)

LEMMA GradientStarts == GradientInit => GradientInv
  <1> SUFFICES ASSUME GradientInit PROVE GradientInv
    OBVIOUS
  <1>1. /\ option \in StepOptions /\ rows \in StepRows /\ DOMAIN plan = DpRanks
        /\ offset = [r \in DpRanks |-> NoneFed] /\ fed = [r \in DpRanks |-> NoneFed]
        /\ pass = [r \in DpRanks |-> "schedule"] /\ stepId = [r \in DpRanks |-> 1]
        /\ inputs = [r \in DpRanks |-> << >>] /\ collected = [r \in DpRanks |-> << >>]
        /\ logps = [r \in DpRanks |-> << >>] /\ grad = [r \in DpRanks |-> << >>] /\ updates = << >>
    BY DEF GradientInit
  <1>2. "schedule" \notin ForwardPasses /\ NoneFed \in [Chunks -> Nat]
    BY GradientAssumption DEF ForwardPasses, Range, NoneFed
  <1>3. GradientTypeOK
    <2> DEFINE U == [DpRanks -> Seq(StepRecord)]
    <2> HIDE DEF U
    <2>1. updates \in Seq(U)
      BY <1>1
    <2> QED
      BY <1>1, <1>2, <2>1 DEF GradientTypeOK, U
  <1>4. ASSUME NEW r \in DpRanks PROVE RankInv(r)
    <2>1. ChunksAgree(pass[r], plan[r], stepId[r], fed[r], offset[r], inputs[r])
      BY <1>1, <1>2 DEF ChunksAgree
    <2>2. Untouched(pass[r], stepId[r], fed[r], offset[r], inputs[r], collected[r])
      BY <1>1 DEF Untouched
    <2>3. OutputsFit(r, pass[r], plan[r], stepId[r], fed[r], offset[r], collected[r], logps[r], grad[r])
      BY <1>1, <1>2 DEF OutputsFit
    <2> QED
      BY <2>1, <2>2, <2>3 DEF RankInv, RankHolds
  <1>5. UpdatesFit /\ GradientIsMean
    BY <1>1 DEF UpdatesFit, GradientIsMean
  <1> QED
    BY <1>3, <1>4, <1>5 DEF GradientInv

LEMMA GradientKeeps == GradientInv /\ [GradientNext]_gradientVars => GradientInv'
  <1> SUFFICES ASSUME GradientInv, [GradientNext]_gradientVars PROVE GradientInv'
    OBVIOUS
  <1>1. CASE Schedule
    BY <1>1, ScheduleKeeps
  <1>2. CASE OptimizerStep
    BY <1>2, OptimizerKeeps
  <1>3. CASE \E r \in DpRanks : RankStep(r)
    BY <1>3, OneRankKeeps
  <1>4. CASE UNCHANGED gradientVars
    <2>1. option' = option /\ rows' = rows /\ updates' = updates
      BY <1>4 DEF gradientVars
    <2>2. \A r \in DpRanks : RankInv(r)'
      <3> DEFINE Moved == {}
      <3>1. \A q \in DpRanks \ Moved :
              /\ pass'[q] = pass[q] /\ plan'[q] = plan[q] /\ stepId'[q] = stepId[q] /\ fed'[q] = fed[q]
              /\ offset'[q] = offset[q] /\ inputs'[q] = inputs[q] /\ collected'[q] = collected[q]
              /\ logps'[q] = logps[q] /\ grad'[q] = grad[q]
        BY <1>4 DEF gradientVars
      <3>2. Moved \in SUBSET DpRanks /\ \A e \in Moved : FALSE
        OBVIOUS
      <3> HIDE DEF Moved
      <3> QED
        BY <2>1, <3>1, <3>2, RanksKept
    <2>3. GradientIsMean'
      BY <2>1, MeansKept
    <2>4. Chunks' = Chunks
      BY <2>1, SizesFixed
    <2>5. GradientTypeOK' /\ UpdatesFit'
      BY <1>4, <2>4 DEF gradientVars, GradientInv, GradientTypeOK, UpdatesFit
    <2> QED
      BY <2>2, <2>3, <2>5 DEF GradientInv
  <1> QED
    BY <1>1, <1>2, <1>3, <1>4 DEF GradientNext

\* Whatever the batch size, the micro-batches, the ranks, the model chunks, the
\* context parallelism and the number of passes: every optimizer step takes each
\* sample of its window once, against its own log-probs, and its gradient and the
\* reported metrics are the mean over the global batch.
THEOREM GradientsAreMeans == GradientSpec => []GradientIsMean
  <1>1. GradientInv => GradientIsMean
    BY DEF GradientInv
  <1> QED
    BY <1>1, GradientStarts, GradientKeeps, PTL DEF GradientSpec
=============================================================================
