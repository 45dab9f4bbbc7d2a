--------------------------- MODULE RolloutDataSource ---------------------------
(* The prompts of a training job: RolloutDataSourceWithBuffer (the cursor over *)
(* the shuffled dataset, the blacklist, the adaptive choice, the buffer), and  *)
(* the part of the job that persists it.  A save has two halves, the Megatron  *)
(* checkpoint and the data file of the same rollout; a job that crashed comes  *)
(* back from a checkpoint; a manager that died comes back, by Ray, with a new  *)
(* data source and repeats the call.                                           *)
EXTENDS Integers, Sequences, FiniteSets

CONSTANTS N,             \* rows of the dataset
          Perm,          \* Perm[e]: the shuffle of epoch e, seeded with rollout_seed + e
          Configurations, \* the values of args
          GroupSize,     \* n_samples_per_prompt
          Target,        \* rollout_batch_size
          SaveInterval, NumRollouts,
          MaxEpoch,      \* bound: epochs of the dataset
          MaxDropped,    \* bound: groups the dynamic filter drops
          MaxJobCrashes,    \* bound: crashes of the job
          MaxManagerRestarts    \* bound: restarts of the manager

Row   == 1 .. N
Epoch == 0 .. MaxEpoch
Iter  == 0 .. NumRollouts - 1

ASSUME DataAssumption ==
  /\ N \in Nat \ {0} /\ GroupSize \in Nat \ {0} /\ Target \in Nat \ {0}
  /\ Configurations \subseteq
       [shuffle : BOOLEAN, adaptive : BOOLEAN, partial : BOOLEAN, async : BOOLEAN,
        blacklist : SUBSET Row,                  \* the rows whose host is on the list
        over : {k \in Nat : k >= Target}]        \* over_sampling_batch_size, arguments.py:1935
  /\ SaveInterval \in Nat \ {0} /\ NumRollouts \in Nat \ {0}
  /\ MaxEpoch \in Nat /\ MaxDropped \in Nat /\ MaxJobCrashes \in Nat /\ MaxManagerRestarts \in Nat
  /\ Perm \in [Epoch -> [Row -> Row]]
  /\ \A e \in Epoch : \A r, s \in Row : r # s => Perm[e][r] # Perm[e][s]

VARIABLES
  args,     \* what the command line fixes, the same after a restart
  pc,       \* the driver: load | generate | train | model | data | crashed | done
  rid,      \* rollout_id
  source,   \* the data source but its buffer
  buffer,   \* the groups to be generated first; which of them, a filter decides
  held,     \* groups drawn in this rollout and not dropped
  disk,     \* the data files, by rollout
  paired,   \* history: the file was written right after the checkpoint
  iters,    \* the rollouts with a Megatron checkpoint that is complete
  saving,   \* the rollout whose asynchronous save is not finalised, or -1
  line,     \* history of what the model was trained with, see Line0
  ckpt,     \* history: line when the checkpoint of a rollout was written
  dropped, jobCrashes, managerRestarts

dataVars == <<args, pc, rid, source, buffer, held, disk, paired, iters, saving, line,
          ckpt, dropped, jobCrashes, managerRestarts>>

Smaller(a, b) == IF a <= b THEN a ELSE b
Count(rows, r) == Cardinality({i \in DOMAIN rows : rows[i] = r})

-----------------------------------------------------------------------------
(* Dataset.shuffle, RolloutDataSource.__init__.                                *)

\* A draw beyond the bound of epochs is not taken, whatever its rows.
Order(e) == IF args.shuffle THEN Perm[Smaller(e, MaxEpoch)] ELSE [r \in Row |-> r]

FreshSource == [offset |-> 0, epoch |-> 0, group |-> 0, index |-> 0, order |-> Order(0),
          step |-> 0, selected |-> [r \in Row |-> 0]]

\* The rows drawn, the ids trained, and whether a data source that had
\* forgotten its position ever drew for this line of training.
Line0 == [drawn |-> [r \in Row |-> 0], trained |-> {}, torn |-> FALSE]

-----------------------------------------------------------------------------
(* get_samples.  A walk is the source and the rows it has given.               *)

NextEpoch(s) == [s EXCEPT !.epoch = @ + 1, !.order = Order(s.epoch + 1), !.offset = 0]

Slice(s, k) == SubSeq(s.order, s.offset + 1, Smaller(s.offset + k, N))

\* Mutant: no wrap at the end of the dataset.
UnfilteredNoWrap(s, k) ==
  [source |-> [s EXCEPT !.offset = Smaller(@ + k, N)], rows |-> Slice(s, k)]

\* The rest of this epoch and the beginning of the next: `samples[:remaining]`
\* is short when more than a whole epoch remains, and the offset is then
\* beyond the end of the dataset.
Unfiltered(s, k) ==
  IF s.offset + k <= N
  THEN [source |-> [s EXCEPT !.offset = @ + k], rows |-> Slice(s, k)]
  ELSE LET rest == Slice(s, k)
           e == NextEpoch(s)
           more == k - Len(rest)
       IN  [source |-> [e EXCEPT !.offset = more], rows |-> rest \o Slice(e, more)]

Allowed == Row \ args.blacklist

\* The source after m more visits, one row each, and the row of the last one.
Ahead(s, m) ==
  LET e == (s.offset + m - 1) \div N
  IN  IF e = 0 THEN [s EXCEPT !.offset = @ + m]
      ELSE [s EXCEPT !.epoch = @ + e, !.order = Order(s.epoch + e), !.offset = @ + m - e * N]
At(s, m) == LET a == Ahead(s, m) IN a.order[a.offset]

\* With a blacklist: visit until k rows were not on it, or until N visits in a
\* row were, which also happens across the end of an epoch that is shuffled.
Yields(s, m) == {j \in 1 .. m : At(s, j) \in Allowed}

Stops(s, k, m) == \/ Cardinality(Yields(s, m)) = k
                  \/ m >= N /\ \A j \in m - N + 1 .. m : At(s, j) \notin Allowed

\* The i-th of the m visits whose row was not on it.
Yield(s, m, i) == CHOOSE j \in Yields(s, m) : Cardinality(Yields(s, j)) = i

Filtered(s, k) ==
  LET from == IF s.offset >= N THEN NextEpoch(s) ELSE s
      stop == CHOOSE m \in 1 .. k * N : Stops(from, k, m) /\ \A l \in 1 .. m - 1 : ~Stops(from, k, l)
      rows == [i \in 1 .. Cardinality(Yields(from, stop)) |-> At(from, Yield(from, stop, i))]
      more == Unfiltered(Ahead(from, stop), k - Len(rows))
  IN  IF Len(rows) = k THEN [source |-> Ahead(from, stop), rows |-> rows]
      ELSE [source |-> more.source, rows |-> rows \o more.rows]

\* _sample_adaptive_index: every weight is positive, so any candidate may be
\* the one; the candidates are all rows when the blacklist leaves none.
Candidates == IF Allowed = {} THEN Row ELSE Allowed

Selected(s, rows) ==
  [s EXCEPT !.step = @ + Len(rows),
            !.selected = [r \in Row |-> @[r] + Count(rows, r)]]

Walks(s, k) ==
  IF args.adaptive
  THEN {[source |-> Selected(s, rows), rows |-> rows] : rows \in [1 .. k -> Candidates]}
  ELSE {IF args.blacklist = {} THEN Unfiltered(s, k) ELSE Filtered(s, k)}

\* RolloutDataSource.get_samples: the ids of the groups are consecutive.
Groups(w) == {[id |-> w.source.group + i, row |-> w.rows[i]] : i \in DOMAIN w.rows}

Numbered(w) == [w.source EXCEPT !.group = @ + Len(w.rows),
                                !.index = @ + GroupSize * Len(w.rows)]

-----------------------------------------------------------------------------
(* The rollout: the collecting loop draws over_sampling_batch_size groups      *)
(* whenever it has fewer than a batch (RolloutCollect has its detail).         *)

Draw ==
  /\ pc = "generate" /\ Cardinality(held) < Target
  /\ \E B \in SUBSET buffer :
       /\ Cardinality(B) = Smaller(Cardinality(buffer), args.over)
       /\ buffer' = buffer \ B
       /\ \E w \in IF Cardinality(B) = args.over THEN {[source |-> source, rows |-> <<>>]}
                   ELSE Walks(source, args.over - Cardinality(B)) :
            /\ w.source.epoch <= MaxEpoch
            /\ held' = held \cup B \cup Groups(w)
            /\ source' = Numbered(w)
            /\ line' = [line EXCEPT !.drawn = [r \in Row |-> @[r] + Count(w.rows, r)]]
  /\ UNCHANGED <<args, pc, rid, disk, paired, iters, saving, ckpt, dropped, jobCrashes, managerRestarts>>

Drop ==
  /\ pc = "generate" /\ dropped < MaxDropped
  /\ \E g \in held : held' = held \ {g}
  /\ dropped' = dropped + 1
  /\ UNCHANGED <<args, pc, rid, source, buffer, disk, paired, iters, saving, line, ckpt, jobCrashes, managerRestarts>>

\* The batch is full: the groups that are still generated are aborted, and
\* with partial rollout those that ended in time go back to the buffer.
TrainRollout ==
  /\ pc = "generate" /\ Cardinality(held) >= Target
  /\ \E B \in SUBSET held :
       /\ Cardinality(B) = Target
       /\ line' = [line EXCEPT !.trained = @ \cup {g.id : g \in B}]
       /\ \E R \in IF args.partial THEN SUBSET (held \ B) ELSE {{}} :
            buffer' = buffer \cup R
  /\ held' = {}
  /\ pc' = "train"
  /\ UNCHANGED <<args, rid, source, disk, paired, iters, saving, ckpt, dropped, jobCrashes, managerRestarts>>

-----------------------------------------------------------------------------
(* train.py: save() when should_run_periodic_action says so.                   *)

Periodic == rid = NumRollouts - 1 \/ (rid + 1) % SaveInterval = 0

NextRollout == pc' = IF rid + 1 = NumRollouts THEN "done" ELSE "generate"

Trained ==
  /\ pc = "train"
  /\ IF Periodic THEN pc' = "model" /\ rid' = rid ELSE NextRollout /\ rid' = rid + 1
  /\ UNCHANGED <<args, source, buffer, held, disk, paired, iters, saving, line, ckpt, dropped, jobCrashes, managerRestarts>>

\* save_model: with async_save the checkpoint before is finalised first, and
\* this one only by the next save, or at once after the last rollout.
SaveModel ==
  /\ pc = "model" /\ pc' = "data"
  /\ ckpt' = [ckpt EXCEPT ![rid] = line]
  /\ paired' = [paired EXCEPT ![rid] = FALSE]
  /\ LET finalised == iters \cup ({saving} \ {-1})
     IN  IF args.async /\ rid # NumRollouts - 1
         THEN iters' = finalised \ {rid} /\ saving' = rid
         ELSE iters' = finalised \cup {rid} /\ saving' = -1
  /\ UNCHANGED <<args, rid, source, buffer, held, disk, line, dropped, jobCrashes, managerRestarts>>

\* RolloutDataSource.save: everything but the order, which load makes again,
\* and the buffer.
SaveData ==
  /\ pc = "data"
  /\ LET file == [offset |-> source.offset, epoch |-> source.epoch, group |-> source.group,
                   index |-> source.index, step |-> source.step, selected |-> source.selected]
     IN  disk' = [i \in DOMAIN disk \cup {rid} |-> IF i = rid THEN file ELSE disk[i]]
  /\ paired' = [paired EXCEPT ![rid] = ~line.torn]
  /\ NextRollout /\ rid' = rid + 1
  /\ UNCHANGED <<args, source, buffer, held, iters, saving, line, ckpt, dropped, jobCrashes, managerRestarts>>

\* Mutants: load forgets to shuffle, the ids, the clock of the adaptive sampler.
LoadedNoShuffle(i) ==
  IF i \notin DOMAIN disk THEN FreshSource
  ELSE [FreshSource EXCEPT !.offset = disk[i].offset, !.epoch = disk[i].epoch,
                     !.group = disk[i].group, !.index = disk[i].index]
LoadedNoIds(i) ==
  IF i \notin DOMAIN disk THEN FreshSource
  ELSE [FreshSource EXCEPT !.offset = disk[i].offset, !.epoch = disk[i].epoch,
                     !.order = Order(disk[i].epoch)]

\* RolloutDataSource.load(i): without the file the source stays as it is.
Loaded(i) ==
  IF i \notin DOMAIN disk THEN FreshSource
  ELSE [FreshSource EXCEPT !.offset = disk[i].offset, !.epoch = disk[i].epoch,
                     !.group = disk[i].group, !.index = disk[i].index,
                     !.order = Order(disk[i].epoch),
                     !.step = disk[i].step, !.selected = disk[i].selected]

\* validate_args and create_training_models: the latest checkpoint, or the one
\* of --ckpt-step; without any the job begins with the reference model.
ResumeJob ==
  /\ pc = "load"
  /\ \E i \in IF iters = {} THEN {-1} ELSE iters :
       /\ source' = Loaded(i)
       /\ line' = IF i = -1 THEN Line0 ELSE [ckpt[i] EXCEPT !.torn = @ \/ ~paired[i]]
       /\ rid' = i + 1
       /\ pc' = IF i + 1 = NumRollouts THEN "done" ELSE "generate"
  /\ buffer' = {} /\ held' = {}
  /\ UNCHANGED <<args, disk, paired, iters, saving, ckpt, dropped, jobCrashes, managerRestarts>>

Working == {"generate", "train", "model", "data"}

JobCrashes ==
  /\ pc \in Working /\ jobCrashes < MaxJobCrashes
  /\ jobCrashes' = jobCrashes + 1
  /\ pc' = "load" /\ saving' = -1
  /\ UNCHANGED <<args, rid, source, buffer, held, disk, paired, iters, line, ckpt, dropped, managerRestarts>>

\* max_restarts = -1, max_task_retries = 3: __init__ runs again, load does not,
\* and the call that was running is made again.
ManagerRestarts ==
  /\ pc \in Working /\ managerRestarts < MaxManagerRestarts
  /\ managerRestarts' = managerRestarts + 1
  /\ source' = FreshSource /\ buffer' = {} /\ held' = {}
  /\ line' = [line EXCEPT !.torn = TRUE]
  /\ UNCHANGED <<args, pc, rid, disk, paired, iters, saving, ckpt, dropped, jobCrashes>>

DataInit ==
  /\ args \in Configurations
  /\ pc = "load" /\ rid = 0
  /\ source = FreshSource /\ buffer = {} /\ held = {}
  /\ disk = << >> /\ paired = [i \in Iter |-> FALSE]
  /\ iters = {} /\ saving = -1
  /\ line = Line0 /\ ckpt = [i \in Iter |-> Line0]
  /\ dropped = 0 /\ jobCrashes = 0 /\ managerRestarts = 0

Generate == Draw \/ Drop \/ TrainRollout
Save     == Trained \/ SaveModel \/ SaveData
DataNext     == Generate \/ Save \/ ResumeJob \/ JobCrashes \/ ManagerRestarts

DataSpec == DataInit /\ [][DataNext]_dataVars

\* The driver goes on: every call it makes returns, and it waits for nothing else.
DataSteps == Draw \/ TrainRollout \/ Save \/ ResumeJob
DataFairSpec == DataSpec /\ WF_dataVars(DataSteps)

-----------------------------------------------------------------------------
\* The cursor is never out of step with the order it walks: whatever was
\* wrapped, filtered by the blacklist, saved, loaded and shuffled again, the
\* rows the model of this line was trained with were drawn evenly, none twice
\* before every other once, and none that is blacklisted (get_samples, save and
\* load of data_source.py, shuffle of data.py).  Two limits: a checkpoint
\* without its data file, or a manager that restarted, tears the line, and the
\* dataset begins again from its first row; and when half of the rows are
\* blacklisted, N visits in vain across the end of an epoch are taken for a
\* dataset that has no other rows, and the blacklist is ignored.
EvenDraws ==
  ~args.adaptive /\ ~line.torn /\ 2 * Cardinality(args.blacklist) < N =>
    /\ \A r, s \in Allowed : line.drawn[r] <= line.drawn[s] + 1
    /\ \A r \in args.blacklist : line.drawn[r] = 0

\* A group id stands for one group of the line of training, however often the
\* job came back from a checkpoint: what is held or buffered was not trained,
\* and is in one place (sample_group_index, saved and loaded).
OneGroupPerId ==
  ~line.torn =>
    /\ \A g \in held \cup buffer : g.id \notin line.trained /\ g.id <= source.group
    /\ \A g, h \in held \cup buffer : g.id = h.id => g = h
    /\ held \cap buffer = {}

\* Every group is drawn as often as the others and trained at most once.
DrawsExact == EvenDraws /\ OneGroupPerId

\* The job comes to its end: a batch is filled also from a dataset smaller
\* than one draw, and a resume never goes back for ever.
JobFinishes == <>(pc = "done")
=============================================================================
