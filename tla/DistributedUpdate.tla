------------------------- MODULE DistributedUpdate -------------------------
(* The weight update of engines that have their own GPUs                       *)
(* (update_weight_from_distributed.py).  Every pipeline stage has its own      *)
(* NCCL group with all engines; its source rank gathers the parameters from    *)
(* the tensor-parallel, and the experts from the expert-parallel, peers into   *)
(* buckets and broadcasts bucket after bucket.  The stages run side by side.   *)
(* The calls of an engine (a Ray actor) are executed one after the other, and  *)
(* a broadcast ends only when the source and every engine take part in it.     *)
EXTENDS Integers, FiniteSets, Sequences, SequencesExt, Functions

CONSTANTS Stages, Engines,
          FirstStage,   \* whose source is rank 0
          Params,       \* of a stage: its parameters, [name, expert, size]
          BufferSize,   \* update_weight_buffer_size
          Rounds        \* bound: updates of the run

Roles == {"source", "peer"}        \* a stage has two ranks: both TP and both EP
Ranks == Stages \X Roles
RankZero == <<FirstStage, "source">>
EpSize == 2

VARIABLES doing, phase,  \* of a rank; phases: 1 before the first barrier, 2 non-experts, 3 experts, 4 after
          at,         \* the next parameter of the walk
          buffer,     \* converted_named_tensors, named_tensors
          held,       \* the parameter that did not fit and follows the bucket
          bucket,     \* of a stage: what its source broadcasts
          locked,     \* Lock._locked
          calls,      \* of an engine: the calls that wait for it, the first being executed
          paused,
          installed,  \* of an engine: how often each tensor was loaded
          round

rankVars == <<doing, phase, at, buffer, held>>
engineVars == <<calls, paused, installed>>
updateVars == <<rankVars, bucket, locked, engineVars, round>>

\* The tensors of the model: an expert parameter is another tensor on every EP rank.
TensorOf(p, role) == IF p.expert THEN <<p.name, role>> ELSE <<p.name, "all">>
NamesOf(ps, role) == [i \in DOMAIN ps |-> TensorOf(ps[i], role)]
Tensors == UNION {{TensorOf(p, role) : p \in ToSet(Params[s]), role \in Roles} : s \in Stages}

\* After n updates, with nothing under way.
UpdatesDone(n) ==
  /\ doing = [r \in Ranks |-> "idle"] /\ phase = [r \in Ranks |-> 1] /\ at = [r \in Ranks |-> 1]
  /\ buffer = [r \in Ranks |-> << >>] /\ held = [r \in Ranks |-> << >>]
  /\ bucket = [s \in Stages |-> << >>] /\ locked = FALSE
  /\ calls = [e \in Engines |-> << >>] /\ paused = [e \in Engines |-> FALSE]
  /\ installed = [e \in Engines |-> [t \in Tensors |-> n]]
  /\ round = [r \in Ranks |-> n]
UpdateInit == UpdatesDone(0)

Call(kind) == [kind |-> kind, stage |-> FirstStage, received |-> TRUE]
ToAll(call) == [e \in Engines |-> Append(calls[e], call)]
Answered(kind, s) == \A e \in Engines : \A i \in DOMAIN calls[e] :
                       ~(calls[e][i].kind = kind /\ calls[e][i].stage = s)

\* Rank 0 pauses the engines; the others go on to the barrier.
Begin(r) ==
  /\ doing[r] = "idle" /\ round[r] < Rounds
  /\ doing' = [doing EXCEPT ![r] = IF r = RankZero THEN "pause" ELSE "barrier"]
  /\ calls' = IF r = RankZero THEN ToAll(Call("pause")) ELSE calls
  /\ UNCHANGED <<phase, at, buffer, held, bucket, locked, paused, installed, round>>

\* Rank 0 waits for all engines, then makes the next call, or goes to the barrier.
Flush ==
  /\ doing[RankZero] = "pause" /\ Answered("pause", FirstStage)
  /\ doing' = [doing EXCEPT ![RankZero] = "flush"] /\ calls' = ToAll(Call("flush"))
  /\ UNCHANGED <<phase, at, buffer, held, bucket, locked, paused, installed, round>>
Ready ==
  /\ \E kind \in {"flush", "continue"} :
       doing[RankZero] = kind /\ Answered(kind, FirstStage)
  /\ doing' = [doing EXCEPT ![RankZero] = "barrier"]
  /\ UNCHANGED <<phase, at, buffer, held, bucket, locked, engineVars, round>>

\* dist.barrier, four times; before the last one rank 0 lets the engines go on.
Barrier ==
  /\ \A r \in Ranks : doing[r] = "barrier"
  /\ LET now == phase[RankZero] IN
     /\ phase' = [r \in Ranks |-> IF now = 4 THEN 1 ELSE now + 1]
     /\ doing' = [r \in Ranks |-> CASE now \in {1, 2} -> "walk"
                                 [] now = 3 -> IF r = RankZero THEN "continue" ELSE "barrier"
                                 [] now = 4 -> "idle"]
     /\ calls' = IF now = 3 THEN ToAll(Call("continue")) ELSE calls
     /\ round' = [r \in Ranks |-> IF now = 4 THEN round[r] + 1 ELSE round[r]]
  /\ at' = [r \in Ranks |-> 1]
  /\ UNCHANGED <<buffer, held, bucket, locked, paused, installed>>
-----------------------------------------------------------------------------
Walk(r) == SelectSeq(Params[r[1]], LAMBDA p : p.expert = (phase[r] = 3))
Walking(r) == doing[r] = "walk" /\ at[r] <= Len(Walk(r))
Bytes(ps) == FoldFunction(+, 0, [i \in DOMAIN ps |-> ps[i].size])

\* The peers of a stage gather a parameter together; the source keeps it, and
\* sends the bucket first if the parameter does not fit into it.
Gather(s) ==
  LET source == <<s, "source">>
      peer == <<s, "peer">>
      p == Walk(source)[at[source]]
      fits == Bytes(buffer[source]) + p.size <= BufferSize
  IN  /\ Walking(source) /\ Walking(peer) /\ phase[source] = 2 /\ at[source] = at[peer]
      /\ at' = [at EXCEPT ![source] = @ + 1, ![peer] = @ + 1]
      /\ buffer' = [buffer EXCEPT ![source] = IF fits THEN Append(@, p) ELSE << >>]
      /\ held' = [held EXCEPT ![source] = IF fits THEN << >> ELSE <<p>>]
      /\ bucket' = IF fits THEN bucket
                   ELSE [bucket EXCEPT ![s] = NamesOf(buffer[source], "source")]
      /\ doing' = [doing EXCEPT ![source] = IF fits THEN "walk" ELSE "lock"]
      /\ UNCHANGED <<phase, locked, engineVars, round>>

\* Every rank keeps its own experts; the limit is for the experts of all of them.
Expert(r) ==
  /\ Walking(r) /\ phase[r] = 3
  /\ LET p == Walk(r)[at[r]]
         fits == (Bytes(buffer[r]) + p.size) * EpSize <= BufferSize
     IN  /\ at' = [at EXCEPT ![r] = @ + 1]
         /\ buffer' = [buffer EXCEPT ![r] = IF fits THEN Append(@, p) ELSE @]
         /\ held' = [held EXCEPT ![r] = IF fits THEN << >> ELSE <<p>>]
         /\ doing' = [doing EXCEPT ![r] = IF fits THEN "walk" ELSE "ep_gather"]
  /\ UNCHANGED <<phase, bucket, locked, engineVars, round>>

RestForgotten(r) ==
  /\ doing[r] = "walk" /\ at[r] > Len(Walk(r))
  /\ doing' = [doing EXCEPT ![r] = "barrier"] /\ buffer' = [buffer EXCEPT ![r] = << >>]
  /\ UNCHANGED <<phase, at, held, bucket, locked, engineVars, round>>
\* What is left in the buffer after the walk is sent too.
Rest(r) ==
  /\ doing[r] = "walk" /\ at[r] > Len(Walk(r))
  /\ LET s == r[1] IN
     IF buffer[r] = << >> THEN
       /\ doing' = [doing EXCEPT ![r] = "barrier"]
       /\ UNCHANGED <<buffer, bucket>>
     ELSE IF phase[r] = 2 THEN
       /\ doing' = [doing EXCEPT ![r] = "lock"]
       /\ bucket' = [bucket EXCEPT ![s] = NamesOf(buffer[r], "source")]
       /\ buffer' = [buffer EXCEPT ![r] = << >>]
     ELSE /\ doing' = [doing EXCEPT ![r] = "ep_gather"]
          /\ UNCHANGED <<buffer, bucket>>
  /\ UNCHANGED <<phase, at, held, locked, engineVars, round>>

\* The experts of all ranks of the stage become one bucket of the source.
GatherExperts(s) ==
  LET source == <<s, "source">>
      peer == <<s, "peer">>
      Of(role) == NamesOf(buffer[<<s, role>>], role)
  IN  /\ doing[source] = "ep_gather" /\ doing[peer] = "ep_gather"
      /\ bucket' = [bucket EXCEPT ![s] = Of("source") \o Of("peer")]
      /\ doing' = [doing EXCEPT ![source] = "lock", ![peer] = "walk"]
      /\ buffer' = [buffer EXCEPT ![source] = << >>, ![peer] = held[peer]]
      /\ held' = [held EXCEPT ![peer] = << >>]
      /\ UNCHANGED <<phase, at, locked, engineVars, round>>
-----------------------------------------------------------------------------
\* The spin on Lock.acquire, and the moment it returns True.
Acquire(s) ==
  /\ doing[<<s, "source">>] = "lock" /\ ~locked /\ locked' = TRUE
  /\ doing' = [doing EXCEPT ![<<s, "source">>] = "send"]
  /\ UNCHANGED <<phase, at, buffer, held, bucket, engineVars, round>>

\* The names go to one engine after the other, in any order.
Send(s, e) ==
  /\ doing[<<s, "source">>] = "send"
  /\ \A i \in DOMAIN calls[e] : ~(calls[e][i].kind = "update" /\ calls[e][i].stage = s)
  /\ calls' = [calls EXCEPT ![e] = Append(@, [kind |-> "update", stage |-> s, received |-> FALSE])]
  /\ doing' = IF \A f \in Engines \ {e} : \E i \in DOMAIN calls[f] :
                calls[f][i].kind = "update" /\ calls[f][i].stage = s
           THEN [doing EXCEPT ![<<s, "source">>] = "broadcast"] ELSE doing
  /\ UNCHANGED <<phase, at, buffer, held, bucket, locked, paused, installed, round>>

\* dist.broadcast: every engine must have come to this call.
Broadcast(s) ==
  /\ doing[<<s, "source">>] = "broadcast"
  /\ \A e \in Engines : calls[e] # << >> /\ Head(calls[e]).kind = "update" /\ Head(calls[e]).stage = s
  /\ doing' = [doing EXCEPT ![<<s, "source">>] = "answers"]
  /\ calls' = [e \in Engines |-> [calls[e] EXCEPT ![1].received = TRUE]]
  /\ UNCHANGED <<phase, at, buffer, held, bucket, locked, paused, installed, round>>

\* Every engine has answered: the lock is released and the walk goes on.
Release(s) ==
  LET r == <<s, "source">> IN
  /\ doing[r] = "answers" /\ Answered("update", s)
  /\ locked' = FALSE
  /\ bucket' = [bucket EXCEPT ![s] = << >>]
  /\ buffer' = [buffer EXCEPT ![r] = held[r]] /\ held' = [held EXCEPT ![r] = << >>]
  /\ doing' = [doing EXCEPT ![r] = "walk"]
  /\ UNCHANGED <<phase, at, engineVars, round>>

\* An engine executes its first call and answers; an update needs its broadcast.
Execute(e) ==
  /\ calls[e] # << >> /\ Head(calls[e]).received
  /\ LET call == Head(calls[e]) IN
     /\ paused' = [paused EXCEPT ![e] = CASE call.kind = "pause" -> TRUE
                                          [] call.kind = "continue" -> FALSE
                                          [] OTHER -> @]
     /\ installed' = IF call.kind # "update" THEN installed
                     ELSE [installed EXCEPT ![e] = [t \in Tensors |->
                            @[t] + Cardinality({i \in DOMAIN bucket[call.stage] : bucket[call.stage][i] = t})]]
  /\ calls' = [calls EXCEPT ![e] = Tail(@)]
  /\ UNCHANGED <<rankVars, bucket, locked, round>>

Stage(s) == Gather(s) \/ GatherExperts(s) \/ Acquire(s) \/ (\E e \in Engines : Send(s, e))
            \/ Broadcast(s) \/ Release(s)
Rank(r) == Begin(r) \/ Expert(r) \/ Rest(r)
UpdateNext == \/ \E s \in Stages : Stage(s)
              \/ \E r \in Ranks : Rank(r)
              \/ Flush \/ Ready \/ Barrier
              \/ \E e \in Engines : Execute(e)

\* Ranks and engines are processes of their own.  Weak fairness is enough for the
\* spin on the lock: the other stages run out of buckets.
UpdateFairness ==
  /\ \A s \in Stages : WF_updateVars(Gather(s) \/ GatherExperts(s) \/ Broadcast(s) \/ Release(s))
                       /\ WF_updateVars(Acquire(s)) /\ \A e \in Engines : WF_updateVars(Send(s, e))
  /\ \A r \in Ranks : WF_updateVars(Rank(r))
  /\ WF_updateVars(Flush \/ Ready \/ Barrier)
  /\ \A e \in Engines : WF_updateVars(Execute(e))

UpdateSpec == UpdateInit /\ [][UpdateNext]_updateVars /\ UpdateFairness
-----------------------------------------------------------------------------
\* An engine that may generate has every tensor of the model from the same
\* update, and each update loaded every tensor exactly once: a bucket that is
\* forgotten at the end of a walk, sent twice, or overtaken by continue shows
\* here (the walks, the buffers and the barriers of update_weights).
ServesOneVersion ==
  \A e \in Engines : ~paused[e] => \A t \in Tensors :
    installed[e][t] \in {round[RankZero], round[RankZero] + 1}
    /\ \A u \in Tensors : installed[e][t] = installed[e][u]

\* All updates end: no two broadcasts meet on the engines in different orders,
\* and no rank waits in a gather that another does not come to.
UpdatesEnd == <>[](\A r \in Ranks : doing[r] = "idle" /\ round[r] = Rounds)
=============================================================================
