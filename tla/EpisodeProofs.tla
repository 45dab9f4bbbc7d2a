---------------------------- MODULE EpisodeProofs ----------------------------
(* Proofs about a rollout, from its tasks to its micro-batches: a browser task *)
(* gives back what it takes and returns a trajectory with one end; the batch   *)
(* credits it within its group; and all ranks take the same steps on samples   *)
(* of their own, divided evenly, for any number of tasks, turns, groups,       *)
(* attempts, ranks and samples.                                                *)
EXTENDS BrowserEpisode, SeqlenBalance, DataTheorems

-----------------------------------------------------------------------------
(* The invariant of one task, of its record e.                                 *)

\* The points of a task, by what it has done to get there.
Early == {"new", "sweep", "slot", "create"}
Ends  == {"judge", "done"}
Exits == {"quit", "exit", "exit again"}

\* What is known of the sandbox at each point.  Only initialize() and step() can
\* see their release exposed to a second cancellation.
BoxFits(e) ==
  \/ e.pc \in Early /\ e.box = "none"
  \/ e.pc \in {"boot", "reset", "infer", "act"} /\ e.box = "up"
  \/ e.pc = "failed" /\ e.box \in {"none", "destroying", "gone"}
  \/ e.pc = "quit" /\ e.box \in {"leaving", "deleting", "exposed", "gone"}
  \/ e.pc \in {"exit", "exit again"} /\ e.box \in {"leaving", "deleting", "gone"}
  \/ e.pc \in Ends /\ e.box \in {"none", "destroying", "leaving", "deleting", "gone"}

\* A trajectory that has ended: the same in all its samples but for the mark of
\* the last one.
Same(n, kind, status, reason, remove, reward) ==
  [i \in 1 .. n |-> Sample(kind, status, reason, i = n, remove, reward)]
Alike(out) ==
  /\ Len(out) \in Nat \ {0}
  /\ out = Same(Len(out), out[1].kind, out[1].status, out[1].reason, out[1].remove, out[1].reward)
  /\ out[1].kind = "parent" => Len(out) = 1
  /\ out[1].status \in Status \ {"PENDING"}

\* Before reward_func: no reward, and what was completed is not removed.
Unscored(out) ==
  /\ Alike(out) /\ out[1].reward = NoReward
  /\ out[1].status = "COMPLETED" => out[1].remove = FALSE

\* What a task returns: nothing, or a trajectory with one end and a reward.
Given(out) ==
  /\ Promised(out)
  /\ out # << >> => Alike(out) /\ out[1].reward \in {NoReward, -1, 0, 1}

\* A task that left by itself has its result, one that was cancelled has none.
OutFits(e) ==
  /\ e.pc \in Early \cup {"boot", "failed", "reset"} => e.out = << >>
  /\ e.pc \in {"infer", "act"} => e.out \in Seq({NewTurn})
  /\ e.pc = "act" => e.out # << >>
  /\ e.pc \in Exits => e.raised \/ Unscored(e.out)
  /\ e.pc = "judge" => Unscored(e.out) /\ e.out[1].status # "ABORTED"
  /\ e.pc = "done" => Given(e.out)
  /\ e.pc \notin Exits \cup {"failed"} => ~e.raised

Places == Early \cup Ends \cup Exits \cup {"boot", "failed", "reset", "infer", "act"}

\* The fields of a record of ep.
Fields == {"pc", "box", "cut", "raised", "why", "fails", "out", "todo"}
Entry(e) == DOMAIN e = Fields /\ e = [f \in Fields |-> e[f]]

TaskFits(e) ==
  /\ Entry(e) /\ e.pc \in Places /\ e.raised \in BOOLEAN /\ e.todo \subseteq Leftovers
  /\ e.cut \subseteq {"cancelled", "expired"}
  /\ BoxFits(e) /\ OutFits(e)

-----------------------------------------------------------------------------
(* The invariant of all of them.                                               *)

EpisodeTypeOK ==
  /\ gate \in Int /\ free \in Int /\ swept \in BOOLEAN /\ lost \subseteq Tasks
  /\ DOMAIN ep = Tasks /\ ep = [t \in Tasks |-> ep[t]]
  /\ \A t \in Tasks : TaskFits(ep[t])

\* Nobody has a sandbox before the first sweep is over, so that the lists of
\* those who are sweeping name only what an earlier run left.
SweepsOld ==
  ~swept => /\ markers \subseteq Leftovers
            /\ \A t \in Tasks : ep[t].pc \in {"new", "sweep"} \cup Ends /\ ep[t].box = "none"

\* A slot is lost by a task that has ended, once.
LostEnded == \A t \in lost : ep[t].pc \in Ends

EpisodeInv == EpisodeTypeOK /\ SweepsOld /\ LostEnded /\ SandboxesAccounted

-----------------------------------------------------------------------------
(* Counting.                                                                   *)

Bit(b) == IF b THEN 1 ELSE 0
SlotOf(e) == e.pc \in {"create", "boot", "failed"} \/ e.box \in {"up", "leaving", "deleting", "exposed"}
BodyOf(e) == e.pc \notin {"new", "judge", "done"}

\* Two sets of tasks that differ in t at most.
LEMMA CountOne ==
  ASSUME NEW S, IsFiniteSet(S), NEW t \in S, NEW A \in SUBSET S, NEW B \in SUBSET S,
         \A u \in S \ {t} : u \in A <=> u \in B
  PROVE  /\ Cardinality(A) \in Nat /\ Cardinality(B) \in Nat
         /\ Cardinality(B) + Bit(t \in A) = Cardinality(A) + Bit(t \in B)
  <1>1. IsFiniteSet(A) /\ IsFiniteSet(B)
    BY FS_Subset
  <1>2. Cardinality(A) \in Nat /\ Cardinality(B) \in Nat
    BY <1>1, FS_CardinalityType
  <1>3. CASE (t \in A) <=> (t \in B)
    <2>1. A = B
      BY <1>3
    <2> QED
      BY <1>2, <1>3, <2>1 DEF Bit
  <1>4. CASE t \in A /\ t \notin B
    <2>1. B = A \ {t}
      BY <1>4
    <2> QED
      BY <1>1, <1>2, <1>4, <2>1, FS_RemoveElement DEF Bit
  <1>5. CASE t \notin A /\ t \in B
    <2>1. B = A \cup {t}
      BY <1>5
    <2> QED
      BY <1>1, <1>2, <1>5, <2>1, FS_AddElement DEF Bit
  <1> QED
    BY <1>3, <1>4, <1>5

\* A task that becomes e: the account holds if the change of the free slots and
\* of the free places matches what the task holds before and after, and if its
\* sandbox and the marker files do.
LEMMA BecomeKeeps ==
  ASSUME EpisodeInv, NEW t \in Tasks, NEW e, TaskFits(e), Become(t, e),
         free' \in Int, gate' \in Int, swept' \in BOOLEAN,
         gate' + Bit(BodyOf(e)) = gate + Bit(BodyOf(ep[t])),
         \/ lost' = lost /\ free' + Bit(SlotOf(e)) = free + Bit(SlotOf(ep[t]))
         \/ /\ lost' = lost \cup {t} /\ ep[t].pc \notin Ends /\ e.pc \in Ends
            /\ free' = free /\ SlotOf(ep[t]) /\ ~SlotOf(e),
         ep[t].pc \in Ends => e.pc \in Ends,
         \A u \in Tasks \ {t} : u \in alive => u \in alive',
         e.box \in {"up", "leaving"} => t \in alive',
         alive' \subseteq markers',
         ~swept' => /\ ~swept /\ markers' \subseteq Leftovers
                    /\ e.pc \in {"new", "sweep"} \cup Ends /\ e.box = "none"
  PROVE  EpisodeInv'
  <1> USE DEF EpisodeInv, Become
  <1>1. /\ ep'[t] = e /\ \A u \in Tasks \ {t} : ep'[u] = ep[u]
        /\ DOMAIN ep' = Tasks /\ ep' = [u \in Tasks |-> ep'[u]]
    BY DEF EpisodeTypeOK
  <1>2. EpisodeTypeOK'
    <2>1. lost' \subseteq Tasks
      BY DEF EpisodeTypeOK
    <2>2. \A u \in Tasks : TaskFits(ep'[u])
      BY <1>1 DEF EpisodeTypeOK
    <2> QED
      BY <1>1, <2>1, <2>2 DEF EpisodeTypeOK
  <1>3. SweepsOld'
    BY <1>1 DEF SweepsOld
  <1>4. LostEnded'
    BY <1>1 DEF LostEnded, EpisodeTypeOK
  <1>5. SandboxesAccounted'
    <2> DEFINE Holders == {u \in Tasks : SlotOf(ep[u])}
               Bodies  == {u \in Tasks : BodyOf(ep[u])}
               NextHolders == {u \in Tasks : SlotOf(ep'[u])}
               NextBodies  == {u \in Tasks : BodyOf(ep'[u])}
    <2>0. IsFiniteSet(Tasks) /\ IsFiniteSet(lost) /\ free \in Int /\ gate \in Int
      BY EpisodeAssumption, FS_Subset DEF EpisodeTypeOK
    <2>1. /\ {u \in Tasks : HoldsSlot(u)} = Holders /\ {u \in Tasks : InBody(u)} = Bodies
          /\ {u \in Tasks : HoldsSlot(u)'} = NextHolders /\ {u \in Tasks : InBody(u)'} = NextBodies
      BY DEF HoldsSlot, InBody, SlotOf, BodyOf
    <2>2. /\ Cardinality(Bodies) \in Nat /\ Cardinality(NextBodies) \in Nat
          /\ Cardinality(NextBodies) + Bit(BodyOf(ep[t])) = Cardinality(Bodies) + Bit(BodyOf(e))
      <3>1. /\ Bodies \in SUBSET Tasks /\ NextBodies \in SUBSET Tasks
            /\ \A u \in Tasks \ {t} : u \in Bodies <=> u \in NextBodies
            /\ (t \in Bodies) = BodyOf(ep[t]) /\ (t \in NextBodies) = BodyOf(e)
        BY <1>1 DEF BodyOf
      <3> HIDE DEF Bodies, NextBodies
      <3> QED
        BY <2>0, <3>1, CountOne
    <2>3. /\ Cardinality(Holders) \in Nat /\ Cardinality(NextHolders) \in Nat
          /\ Cardinality(NextHolders) + Bit(SlotOf(ep[t])) = Cardinality(Holders) + Bit(SlotOf(e))
      <3>1. /\ Holders \in SUBSET Tasks /\ NextHolders \in SUBSET Tasks
            /\ \A u \in Tasks \ {t} : u \in Holders <=> u \in NextHolders
            /\ (t \in Holders) = SlotOf(ep[t]) /\ (t \in NextHolders) = SlotOf(e)
        BY <1>1 DEF SlotOf
      <3> HIDE DEF Holders, NextHolders
      <3> QED
        BY <2>0, <3>1, CountOne
    <2> HIDE DEF Holders, Bodies, NextHolders, NextBodies
    <2>4. /\ free + Cardinality(Holders) + Cardinality(lost) = MaxSandboxes
          /\ gate + Cardinality(Bodies) = GateLimit
          /\ \A u \in Tasks : ep[u].box \in {"up", "leaving"} => u \in alive
      BY <2>1 DEF SandboxesAccounted
    <2>5. gate' + Cardinality(NextBodies) = GateLimit
      <3>1. Bit(BodyOf(e)) \in Int /\ Bit(BodyOf(ep[t])) \in Int
        BY DEF Bit
      <3>2. gate' \in Int /\ gate' + Bit(BodyOf(e)) = gate + Bit(BodyOf(ep[t]))
        OBVIOUS
      <3>3. gate + Cardinality(Bodies) = GateLimit
        BY <2>4
      <3> HIDE DEF EpisodeInv, Become
      <3>4. Cardinality(Bodies) \in Int /\ Cardinality(NextBodies) \in Int /\ gate \in Int /\ gate' \in Int
        BY <2>0, <2>2, <3>2
      <3>5. \A x, y, c, d, g, h \in Int : h + x = g + y /\ d + y = c + x => h + d = g + c
        OBVIOUS
      <3>6. PICK x \in Int : x = Bit(BodyOf(e))
        BY <3>1
      <3>7. PICK y \in Int : y = Bit(BodyOf(ep[t]))
        BY <3>1
      <3>8. PICK c \in Int : c = Cardinality(Bodies)
        BY <3>4
      <3>9. PICK d \in Int : d = Cardinality(NextBodies)
        BY <3>4
      <3>10. PICK g \in Int : g = gate
        BY <3>4
      <3>11. PICK h \in Int : h = gate'
        BY <3>4
      <3>12. h + x = g + y /\ d + y = c + x
        BY ONLY <2>2, <3>2, <3>6, <3>7, <3>8, <3>9, <3>10, <3>11, Zenon
      <3>13. h + d = g + c
        BY <3>5, <3>12
      <3> QED
        BY ONLY <3>3, <3>8, <3>9, <3>10, <3>11, <3>13, Zenon
    <2>6. free' + Cardinality(NextHolders) + Cardinality(lost') = MaxSandboxes
      <3>1. Cardinality(lost) \in Nat
        BY <2>0, FS_CardinalityType
      <3>2. CASE lost' = lost /\ free' + Bit(SlotOf(e)) = free + Bit(SlotOf(ep[t]))
        <4>1. Bit(SlotOf(e)) \in Int /\ Bit(SlotOf(ep[t])) \in Int
          BY DEF Bit
        <4> QED
          BY <2>0, <2>3, <2>4, <3>1, <3>2, <4>1
      <3>3. CASE /\ lost' = lost \cup {t} /\ ep[t].pc \notin Ends
                 /\ free' = free /\ SlotOf(ep[t]) /\ ~SlotOf(e)
        <4>1. Cardinality(lost') = Cardinality(lost) + 1
          BY <2>0, <3>3, FS_AddElement DEF LostEnded
        <4> QED
          BY <2>0, <2>3, <2>4, <3>1, <3>3, <4>1 DEF Bit
      <3> QED
        BY <3>2, <3>3
    <2>7. \A u \in Tasks : ep'[u].box \in {"up", "leaving"} => u \in alive'
      BY <1>1, <2>4
    <2> QED
      BY <2>1, <2>5, <2>6, <2>7 DEF SandboxesAccounted
  <1> QED
    BY <1>2, <1>3, <1>4, <1>5

-----------------------------------------------------------------------------
(* Trajectories.                                                               *)

LEMMA SampleIs ==
  ASSUME NEW kind, NEW status, NEW reason, NEW last, NEW remove, NEW reward, NEW s,
         s = Sample(kind, status, reason, last, remove, reward)
  PROVE  /\ s.kind = kind /\ s.status = status /\ s.reason = reason
         /\ s.last = last /\ s.remove = remove /\ s.reward = reward
  BY DEF Sample

LEMMA ScoredOne ==
  ASSUME NEW kind, NEW status, NEW reason, NEW last, NEW remove, NEW reward, NEW score,
         NEW out, NEW i \in DOMAIN out,
         out[i] = Sample(kind, status, reason, last, remove, reward)
  PROVE  Scored(out, score)[i]
           = Sample(kind, status, reason, last, remove \/ score.timeout, score.reward)
  <1> DEFINE u == Scored(out, score)[i]
             v == [out[i] EXCEPT !.reward = score.reward]
             newRemove == remove \/ score.timeout
  <1>1. v = [kind |-> kind, status |-> status, reason |-> reason, last |-> last,
             remove |-> remove, reward |-> score.reward]
    BY DEF Sample
  <1>2. u = [out[i] EXCEPT !.reward = score.reward, !.remove = @ \/ score.timeout]
    BY DEF Scored
  <1>3. out[i].remove = remove
    BY DEF Sample
  <1>4. u = [out[i] EXCEPT !.reward = score.reward, !.remove = newRemove]
    BY <1>2, <1>3
  <1>5. u = [v EXCEPT !.remove = newRemove]
    BY <1>4, Zenon
  <1> HIDE DEF u, v, newRemove
  <1>6. u = Sample(kind, status, reason, last, newRemove, score.reward)
    BY <1>1, <1>5 DEF Sample
  <1> QED
    BY <1>6 DEF u, newRemove

LEMMA SameIs ==
  ASSUME NEW n \in Nat \ {0}, NEW kind, NEW status, NEW reason, NEW remove, NEW reward, NEW out,
         out = Same(n, kind, status, reason, remove, reward)
  PROVE  /\ Len(out) = n /\ DOMAIN out = 1 .. n
         /\ \A i \in 1 .. n : out[i] = Sample(kind, status, reason, i = n, remove, reward)
         /\ \A i \in 1 .. n : /\ out[i].kind = kind /\ out[i].status = status /\ out[i].reason = reason
                              /\ out[i].last = (i = n) /\ out[i].remove = remove /\ out[i].reward = reward
  <1>1. /\ Len(out) = n /\ DOMAIN out = 1 .. n
        /\ \A i \in 1 .. n : out[i] = Sample(kind, status, reason, i = n, remove, reward)
    BY DEF Same
  <1>2. ASSUME NEW i \in 1 .. n
        PROVE  /\ out[i].kind = kind /\ out[i].status = status /\ out[i].reason = reason
               /\ out[i].last = (i = n) /\ out[i].remove = remove /\ out[i].reward = reward
    <2> DEFINE last == i = n
    <2>1. out[i] = Sample(kind, status, reason, last, remove, reward)
      BY <1>1
    <2> HIDE DEF last
    <2>2. /\ out[i].kind = kind /\ out[i].status = status /\ out[i].reason = reason
          /\ out[i].last = last /\ out[i].remove = remove /\ out[i].reward = reward
      BY <2>1, SampleIs
    <2> QED
      BY <2>2 DEF last
  <1> QED
    BY <1>1, <1>2

LEMMA AlikeIs ==
  ASSUME NEW n \in Nat \ {0}, NEW kind, NEW status \in Status \ {"PENDING"}, NEW reason,
         NEW remove, NEW reward, NEW out, kind = "parent" => n = 1,
         out = Same(n, kind, status, reason, remove, reward)
  PROVE  /\ Alike(out) /\ Len(out) = n /\ out[1].status = status /\ out[1].reason = reason
         /\ out[1].remove = remove /\ out[1].reward = reward
  <1>1. Len(out) = n /\ 1 \in 1 .. n
    BY SameIs
  <1>2. /\ out[1].kind = kind /\ out[1].status = status /\ out[1].reason = reason
        /\ out[1].remove = remove /\ out[1].reward = reward
    BY <1>1, SameIs
  <1>3. out = Same(Len(out), out[1].kind, out[1].status, out[1].reason, out[1].remove, out[1].reward)
    BY <1>1, <1>2, Zenon
  <1> QED
    BY <1>1, <1>2, <1>3 DEF Alike

LEMMA SameIsAll ==
  ASSUME NEW n \in Nat, NEW kind, NEW status, NEW reason, NEW remove, NEW reward, NEW out,
         out = [i \in 1 .. n |-> out[i]],
         \A i \in 1 .. n : out[i] = Sample(kind, status, reason, i = n, remove, reward)
  PROVE  out = Same(n, kind, status, reason, remove, reward)
  BY Zenon DEF Same

\* What leaves the loop is alike and has no reward yet.
LEMMA ParentUnscored ==
  ASSUME NEW status \in Status \ {"PENDING"}, NEW reason,
         status = "COMPLETED" => ShouldRemove(status, reason) = FALSE
  PROVE  /\ Unscored(Parent(status, reason))
         /\ Parent(status, reason)[1].status = status
  <1> DEFINE out == Parent(status, reason)
             remove == ShouldRemove(status, reason)
  <1>1. out = Same(1, "parent", status, reason, remove, NoReward)
    <2>1. out = [i \in 1 .. 1 |-> out[i]]
      BY DEF Parent
    <2>2. ASSUME NEW i \in 1 .. 1
          PROVE  out[i] = Sample("parent", status, reason, i = 1, remove, NoReward)
      <3>1. i = 1 /\ (i = 1) = TRUE
        OBVIOUS
      <3>2. out[1] = Sample("parent", status, reason, TRUE, remove, NoReward)
        BY DEF Parent
      <3> QED
        BY <3>1, <3>2, Zenon
    <2>3. 1 \in Nat
      OBVIOUS
    <2> HIDE DEF out, remove
    <2> QED
      BY <2>1, <2>2 DEF Same
  <1> HIDE DEF out, remove
  <1>2. Alike(out) /\ out[1].status = status /\ out[1].remove = remove /\ out[1].reward = NoReward
    BY <1>1, AlikeIs
  <1>3. status = "COMPLETED" => remove = FALSE
    BY DEF remove
  <1>4. Unscored(out)
    BY <1>2, <1>3 DEF Unscored
  <1> QED
    BY <1>2, <1>4 DEF out

LEMMA OutcomeUnscored ==
  ASSUME NEW turns \in Seq({NewTurn}), NEW status \in Status \ {"PENDING"}, NEW reason,
         status = "COMPLETED" => ShouldRemove(status, reason) = FALSE
  PROVE  /\ Unscored(Outcome(turns, status, reason))
         /\ Outcome(turns, status, reason)[1].status = status
  <1>1. CASE turns = << >>
    BY <1>1, ParentUnscored DEF Outcome
  <1>2. CASE turns # << >>
    <2> DEFINE out == Outcome(turns, status, reason)
               remove == ShouldRemove(status, reason)
               n == Len(turns)
    <2>1. n \in Nat \ {0} /\ DOMAIN turns = 1 .. n
      BY <1>2
    <2>2. out = [i \in DOMAIN turns |-> Sample("turn", status, reason, i = Len(turns), remove, NoReward)]
      BY <1>2 DEF Outcome, Ended
    <2>3. out = Same(n, "turn", status, reason, remove, NoReward)
      BY <2>1, <2>2, Zenon DEF Same
    <2> HIDE DEF out, remove, n
    <2>4. Alike(out) /\ out[1].status = status /\ out[1].remove = remove /\ out[1].reward = NoReward
      BY <2>1, <2>3, AlikeIs
    <2>5. status = "COMPLETED" => remove = FALSE
      BY DEF remove
    <2>6. Unscored(out)
      BY <2>4, <2>5 DEF Unscored
    <2> QED
      BY <2>4, <2>6 DEF out
  <1> QED
    BY <1>1, <1>2

\* What makes a promise of it.
LEMMA AlikePromised ==
  ASSUME NEW out, Alike(out),
         out[1].status = "ABORTED" <=> out[1].reward = NoReward,
         out[1].reward = 1 => out[1].status = "COMPLETED" /\ out[1].remove = FALSE,
         out[1].reward = -1 => out[1].reason = "format_error_failed"
  PROVE  Promised(out)
  <1> DEFINE n == Len(out)
             kd == out[1].kind
             st == out[1].status
             re == out[1].reason
             rm == out[1].remove
             rw == out[1].reward
  <1>1. n \in Nat \ {0} /\ out = Same(n, kd, st, re, rm, rw)
    BY DEF Alike
  <1>2. st # "PENDING" /\ (kd = "parent" => n = 1)
    BY DEF Alike
  <1>3. /\ DOMAIN out = 1 .. n
        /\ \A i \in 1 .. n : out[i] = Sample(kd, st, re, i = n, rm, rw)
        /\ \A i \in 1 .. n : /\ out[i].kind = kd /\ out[i].status = st /\ out[i].reason = re
                             /\ out[i].last = (i = n) /\ out[i].remove = rm /\ out[i].reward = rw
    <2> HIDE DEF n, kd, st, re, rm, rw
    <2> QED
      BY <1>1, SameIs
  <1>4. ASSUME NEW i \in 1 .. n, NEW j \in 1 .. n
        PROVE  [out[i] EXCEPT !.last = out[j].last] = out[j]
    <2> DEFINE li == i = n
               lj == j = n
    <2>1. out[i] = Sample(kd, st, re, li, rm, rw) /\ out[j] = Sample(kd, st, re, lj, rm, rw)
      BY <1>3
    <2> HIDE DEF kd, st, re, rm, rw, li, lj
    <2> QED
      BY <2>1 DEF Sample
  <1>5. \A i \in DOMAIN out : out[i].last <=> i = Len(out)
    BY <1>3, Zenon DEF n
  <1>6. rw = 1 => st = "COMPLETED" /\ ~rm
    OBVIOUS
  <1> DEFINE samples == {out[i] : i \in DOMAIN out}
  <1>7. \A s, o \in samples : [s EXCEPT !.last = o.last] = o
    BY <1>3, <1>4
  <1>8. ASSUME NEW s \in samples
        PROVE  /\ s.status # "PENDING" /\ (s.kind = "parent" => Len(out) = 1)
               /\ s.status = "ABORTED" <=> s.reward = NoReward
               /\ s.reward = 1 => s.status = "COMPLETED" /\ ~s.remove
               /\ s.reward = -1 => s.reason = "format_error_failed"
    <2>0. PICK i \in 1 .. n : s = out[i]
      BY <1>3
    <2>1. s.kind = kd /\ s.status = st /\ s.reason = re /\ s.remove = rm /\ s.reward = rw
      BY <1>3, <2>0, Zenon
    <2> QED
      BY <1>2, <1>6, <2>1
  <1> QED
    BY <1>5, <1>7, <1>8, Zenon DEF Promised

LEMMA NothingGiven == Given(<< >>)
  BY DEF Given, Promised

\* reward_func gives all turns of a trajectory that was not aborted its reward.
LEMMA ScoredGiven ==
  ASSUME NEW out, Unscored(out), out[1].status # "ABORTED",
         NEW score \in Scores(CHOOSE s \in {out[i] : i \in DOMAIN out} : s.last)
  PROVE  Given(Scored(out, score))
  <1> DEFINE n == Len(out)
             kd == out[1].kind
             st == out[1].status
             re == out[1].reason
             rm == out[1].remove
             rw == out[1].reward
             final == CHOOSE s \in {out[i] : i \in DOMAIN out} : s.last
             new == Scored(out, score)
             remove == rm \/ score.timeout
  <1>1. n \in Nat \ {0} /\ out = Same(n, kd, st, re, rm, rw)
    BY DEF Unscored, Alike
  <1>2. /\ DOMAIN out = 1 .. n
        /\ \A i \in 1 .. n : out[i] = Sample(kd, st, re, i = n, rm, rw)
        /\ \A i \in 1 .. n : /\ out[i].kind = kd /\ out[i].status = st /\ out[i].reason = re
                             /\ out[i].last = (i = n) /\ out[i].remove = rm /\ out[i].reward = rw
    <2> HIDE DEF n, kd, st, re, rm, rw
    <2> QED
      BY <1>1, SameIs
  <1>3. final.status = st /\ final.reason = re
    <2>1. n \in 1 .. n
      BY <1>1
    <2>2. out[n].last
      BY <1>2, <2>1, Zenon
    <2>3. final \in {out[i] : i \in DOMAIN out}
      BY <1>2, <2>1, <2>2
    <2> HIDE DEF final
    <2>4. PICK i \in 1 .. n : final = out[i]
      BY <1>2, <2>3
    <2> QED
      BY <1>2, <2>4, Zenon
  <1>4. /\ score.reward \in {-1, 0, 1} /\ score.timeout \in BOOLEAN
        /\ score.reward = -1 => re = "format_error_failed"
        /\ score.reward = 1 => st = "COMPLETED" /\ score.timeout = FALSE
    <2>1. score \in Scores(final)
      OBVIOUS
    <2> HIDE DEF final
    <2>2. CASE re = "format_error_failed"
      <3>1. score = [reward |-> -1, timeout |-> FALSE]
        BY <1>3, <2>1, <2>2 DEF Scores
      <3> QED
        BY <2>2, <3>1
    <2>3. CASE re # "format_error_failed" /\ st # "COMPLETED"
      <3>1. score = [reward |-> 0, timeout |-> FALSE]
        BY <1>3, <2>1, <2>3 DEF Scores
      <3> QED
        BY <3>1
    <2>4. CASE re # "format_error_failed" /\ st = "COMPLETED"
      <3>1. \/ \E r \in 0 .. 1 : score = [reward |-> r, timeout |-> FALSE]
            \/ score = [reward |-> 0, timeout |-> TRUE]
        BY <1>3, <2>1, <2>4 DEF Scores
      <3>2. CASE score = [reward |-> 0, timeout |-> TRUE]
        BY <2>4, <3>2
      <3>3. CASE \E r \in 0 .. 1 : score = [reward |-> r, timeout |-> FALSE]
        <4>1. PICK r \in 0 .. 1 : score = [reward |-> r, timeout |-> FALSE]
          BY <3>3
        <4> QED
          BY <2>4, <4>1
      <3> QED
        BY <3>1, <3>2, <3>3
    <2> QED
      BY <2>2, <2>3, <2>4
  <1>5. new = Same(n, kd, st, re, remove, score.reward)
    <2>1. new = [i \in 1 .. n |-> new[i]]
      BY <1>2 DEF Scored
    <2>2. ASSUME NEW i \in 1 .. n
          PROVE  new[i] = Sample(kd, st, re, i = n, remove, score.reward)
      <3> DEFINE li == i = n
      <3>1. out[i] = Sample(kd, st, re, li, rm, rw) /\ i \in DOMAIN out
        BY <1>2
      <3> HIDE DEF kd, st, re, rm, rw, li
      <3>2. new[i] = Sample(kd, st, re, li, remove, score.reward)
        BY <3>1, ScoredOne
      <3> QED
        BY <3>2 DEF li
    <2> HIDE DEF n, kd, st, re, rm, rw, new, remove
    <2> QED
      BY <1>1, <2>1, <2>2, SameIsAll
  <1>6. st \in Status \ {"PENDING"} /\ (kd = "parent" => n = 1)
    BY DEF Unscored, Alike
  <1>7. score.reward = 1 => remove = FALSE
    BY <1>4 DEF Unscored
  <1>8. score.reward # NoReward /\ st # "ABORTED"
    BY <1>4 DEF NoReward
  <1> HIDE DEF new, remove, n, kd, st, re
  <1>9. /\ Alike(new) /\ new[1].status = st /\ new[1].reason = re
        /\ new[1].remove = remove /\ new[1].reward = score.reward
    BY <1>1, <1>5, <1>6, AlikeIs
  <1>10. Promised(new)
    BY <1>4, <1>7, <1>8, <1>9, AlikePromised
  <1>11. Given(new)
    BY <1>4, <1>9, <1>10 DEF Given
  <1> QED
    BY <1>11 DEF new

LEMMA AbortedGiven ==
  ASSUME NEW out, Unscored(out), out[1].status = "ABORTED"
  PROVE  Given(out)
  <1>1. Alike(out) /\ out[1].reward = NoReward
    BY DEF Unscored
  <1>2. out[1].reward # 1 /\ out[1].reward # -1
    BY <1>1 DEF NoReward
  <1> QED
    BY <1>1, <1>2, AlikePromised DEF Given

LEMMA UnscoredStatus ==
  ASSUME NEW out, Unscored(out)
  PROVE  1 \in DOMAIN out /\ \A i \in DOMAIN out : out[i].status = out[1].status
  <1>1. /\ Len(out) \in Nat \ {0}
        /\ out = Same(Len(out), out[1].kind, out[1].status, out[1].reason, out[1].remove, out[1].reward)
    BY DEF Unscored, Alike
  <1>2. DOMAIN out = 1 .. Len(out) /\ \A i \in 1 .. Len(out) : out[i].status = out[1].status
    <2> DEFINE n == Len(out)
               kd == out[1].kind
               st == out[1].status
               re == out[1].reason
               rm == out[1].remove
               rw == out[1].reward
    <2>1. n \in Nat \ {0} /\ out = Same(n, kd, st, re, rm, rw)
      BY <1>1
    <2> HIDE DEF n, kd, st, re, rm, rw
    <2>2. DOMAIN out = 1 .. n /\ \A i \in 1 .. n : out[i].status = st
      BY <2>1, SameIs
    <2> QED
      BY <2>2 DEF n, st
  <1> QED
    BY <1>1, <1>2

-----------------------------------------------------------------------------
(* The wrapper.                                                                *)

\* Whatever the body ended with, the task returns something it may.
LEMMA ReturnedFits ==
  ASSUME NEW e, Entry(e), e.raised \in BOOLEAN, e.cut \subseteq {"cancelled", "expired"},
         e.box \in {"none", "destroying", "leaving", "deleting", "gone"},
         e.raised \/ Unscored(e.out)
  PROVE  TaskFits(Returned(e)) /\ Returned(e).box = e.box /\ Returned(e).pc \in Ends
  <1> DEFINE out == IF ~e.raised THEN e.out
                    ELSE IF "cancelled" \in e.cut THEN << >> ELSE Parent("ABORTED", "rollout_task_timeout")
             scored == out # << >> /\ \A i \in DOMAIN out : out[i].status # "ABORTED"
             place == IF scored THEN "judge" ELSE "done"
             r == Returned(e)
  <1>1. r = [e EXCEPT !.out = out, !.todo = {}, !.fails = 0, !.why = "none", !.raised = FALSE, !.pc = place]
    BY DEF Returned
  <1>2. \/ scored /\ Unscored(out) /\ out[1].status # "ABORTED"
        \/ ~scored /\ Given(out)
    <2>1. CASE Unscored(out)
      <3>1. 1 \in DOMAIN out /\ \A i \in DOMAIN out : out[i].status = out[1].status
        BY <2>1, UnscoredStatus
      <3>2. out # << >>
        BY <3>1
      <3> HIDE DEF out
      <3>3. CASE out[1].status = "ABORTED"
        BY <2>1, <3>1, <3>3, AbortedGiven
      <3>4. CASE out[1].status # "ABORTED"
        BY <2>1, <3>1, <3>2, <3>4
      <3> QED
        BY <3>3, <3>4
    <2>2. CASE out = << >>
      BY <2>2, NothingGiven
    <2>3. Unscored(out) \/ out = << >>
      BY ParentUnscored DEF Status
    <2> QED
      BY <2>1, <2>2, <2>3
  <1> HIDE DEF out
  <1>3. place \in Ends /\ (place = "judge" <=> scored)
    BY DEF Ends
  <1> HIDE DEF scored, place, r
  <1>4. /\ Entry(r) /\ r.pc = place /\ r.out = out /\ r.todo = {} /\ r.raised = FALSE
        /\ r.box = e.box /\ r.cut = e.cut
    BY <1>1 DEF Entry, Fields
  <1>5. BoxFits(r)
    BY <1>3, <1>4 DEF BoxFits
  <1>6. OutFits(r)
    BY <1>2, <1>3, <1>4 DEF OutFits, Early, Exits, Ends
  <1>7. TaskFits(r)
    BY <1>3, <1>4, <1>5, <1>6 DEF TaskFits, Places
  <1> QED
    BY <1>3, <1>4, <1>7 DEF r

-----------------------------------------------------------------------------
(* Steps of a task.                                                            *)

\* A task that goes on, and neither takes nor gives back anything.
LEMMA MoveKeeps ==
  ASSUME EpisodeInv, NEW t \in Tasks, NEW e, TaskFits(e), Become(t, e),
         UNCHANGED <<gate, free, swept, markers, alive, lost>>,
         SlotOf(e) <=> SlotOf(ep[t]), BodyOf(e) <=> BodyOf(ep[t]),
         ep[t].pc \in Ends => e.pc \in Ends,
         e.box \in {"up", "leaving"} => ep[t].box \in {"up", "leaving"},
         swept \/ (e.pc \in {"new", "sweep"} \cup Ends /\ e.box = "none")
  PROVE  EpisodeInv'
  <1>1. /\ gate \in Int /\ free \in Int /\ swept \in BOOLEAN
        /\ alive \subseteq markers /\ (ep[t].box \in {"up", "leaving"} => t \in alive)
        /\ ~swept => markers \subseteq Leftovers
    BY DEF EpisodeInv, EpisodeTypeOK, SweepsOld, SandboxesAccounted
  <1>2. Bit(SlotOf(e)) = Bit(SlotOf(ep[t])) /\ Bit(BodyOf(e)) = Bit(BodyOf(ep[t]))
    BY DEF Bit
  <1>3. /\ gate' = gate /\ free' = free /\ lost' = lost /\ swept' = swept
        /\ markers' = markers /\ alive' = alive
    OBVIOUS
  <1>4. /\ gate' + Bit(BodyOf(e)) = gate + Bit(BodyOf(ep[t]))
        /\ lost' = lost /\ free' + Bit(SlotOf(e)) = free + Bit(SlotOf(ep[t]))
    BY <1>2, <1>3
  <1>5. ~swept' => /\ ~swept /\ markers' \subseteq Leftovers
                   /\ e.pc \in {"new", "sweep"} \cup Ends /\ e.box = "none"
    BY <1>1, <1>3
  <1>6. /\ free' \in Int /\ gate' \in Int /\ swept' \in BOOLEAN /\ alive' \subseteq markers'
        /\ \A u \in Tasks \ {t} : u \in alive => u \in alive'
        /\ e.box \in {"up", "leaving"} => t \in alive'
    BY <1>1, <1>3
  <1> QED
    BY <1>4, <1>5, <1>6, BecomeKeeps

\* A task that returns with the sandbox of e, which may still be cleaned up.
LEMMA ReturnKeeps ==
  ASSUME EpisodeInv, NEW t \in Tasks, NEW e, Return(t, e), UNCHANGED <<swept, markers, alive>>,
         Entry(e), e.raised \in BOOLEAN, e.cut \subseteq {"cancelled", "expired"},
         e.box \in {"none", "destroying", "leaving", "deleting", "gone"},
         e.raised \/ Unscored(e.out),
         e.box = "leaving" => ep[t].box = "leaving", swept \/ e.box = "none",
         BodyOf(ep[t]), free' \in Int,
         \/ lost' = lost /\ free' + Bit(e.box \in {"leaving", "deleting"}) = free + Bit(SlotOf(ep[t]))
         \/ /\ lost' = lost \cup {t} /\ free' = free
            /\ SlotOf(ep[t]) /\ e.box \notin {"leaving", "deleting"}
  PROVE  EpisodeInv'
  <1> DEFINE r == Returned(e)
  <1>1. TaskFits(r) /\ r.box = e.box /\ r.pc \in Ends
    BY ReturnedFits
  <1>2. Become(t, r) /\ gate' = gate + 1
    BY DEF Return
  <1> HIDE DEF r
  <1>3. /\ gate \in Int /\ swept \in BOOLEAN
        /\ alive \subseteq markers /\ (ep[t].box \in {"up", "leaving"} => t \in alive)
        /\ ~swept => markers \subseteq Leftovers
    BY DEF EpisodeInv, EpisodeTypeOK, SweepsOld, SandboxesAccounted
  <1>4. ~BodyOf(r) /\ (SlotOf(r) <=> e.box \in {"leaving", "deleting"}) /\ ep[t].pc \notin Ends
    BY <1>1 DEF BodyOf, SlotOf, Ends
  <1>5. gate' + Bit(BodyOf(r)) = gate + Bit(BodyOf(ep[t]))
    BY <1>2, <1>3, <1>4 DEF Bit
  <1>6. \/ lost' = lost /\ free' + Bit(SlotOf(r)) = free + Bit(SlotOf(ep[t]))
        \/ /\ lost' = lost \cup {t} /\ ep[t].pc \notin Ends /\ r.pc \in Ends
           /\ free' = free /\ SlotOf(ep[t]) /\ ~SlotOf(r)
    <2>1. Bit(SlotOf(r)) = Bit(e.box \in {"leaving", "deleting"})
      BY <1>4 DEF Bit
    <2> QED
      BY <1>1, <1>4, <2>1
  <1>7. /\ swept' = swept /\ markers' = markers /\ alive' = alive
    OBVIOUS
  <1>8. /\ gate' \in Int /\ swept' \in BOOLEAN /\ alive' \subseteq markers'
        /\ \A u \in Tasks \ {t} : u \in alive => u \in alive'
        /\ r.box \in {"up", "leaving"} => t \in alive'
        /\ ~swept' => /\ ~swept /\ markers' \subseteq Leftovers
                      /\ r.pc \in {"new", "sweep"} \cup Ends /\ r.box = "none"
    BY <1>1, <1>2, <1>3, <1>7
  <1>9. ep[t].pc \in Ends => r.pc \in Ends
    BY <1>1
  <1> QED
    BY <1>1, <1>2, <1>5, <1>6, <1>8, <1>9, BecomeKeeps

\* What is known of a task wherever it is.
LEMMA TaskIs ==
  ASSUME EpisodeInv, NEW t \in Tasks
  PROVE  /\ TaskFits(ep[t]) /\ gate \in Int /\ free \in Int /\ swept \in BOOLEAN
         /\ alive \subseteq markers /\ (ep[t].box \in {"up", "leaving"} => t \in alive)
         /\ ep[t].pc \notin {"new", "sweep"} \cup Ends => swept
         /\ ep[t].box # "none" => swept
         /\ ~swept => markers \subseteq Leftovers
  BY DEF EpisodeInv, EpisodeTypeOK, SweepsOld, SandboxesAccounted

LEMMA EnterKeeps ==
  ASSUME EpisodeInv, NEW t \in Tasks, Enter(t)
  PROVE  EpisodeInv'
  <1> DEFINE e == IF swept THEN [ep[t] EXCEPT !.pc = "slot"]
                  ELSE [ep[t] EXCEPT !.pc = "sweep", !.todo = markers]
  <1>1. /\ ep[t].pc = "new" /\ gate' = gate - 1 /\ Become(t, e)
        /\ free' = free /\ swept' = swept /\ markers' = markers /\ alive' = alive /\ lost' = lost
    BY DEF Enter, At
  <1>2. /\ TaskFits(ep[t]) /\ gate \in Int /\ free \in Int /\ swept \in BOOLEAN
        /\ alive \subseteq markers /\ (~swept => markers \subseteq Leftovers)
    BY TaskIs
  <1>3. /\ Entry(e) /\ e.pc = (IF swept THEN "slot" ELSE "sweep") /\ e.out = ep[t].out
        /\ e.todo \subseteq Leftovers /\ e.raised = ep[t].raised
        /\ e.box = ep[t].box /\ e.cut = ep[t].cut
    BY <1>2 DEF TaskFits, Entry, Fields
  <1> HIDE DEF e
  <1>4. e.box = "none"
    BY <1>1, <1>2, <1>3 DEF TaskFits, BoxFits, Ends, Early
  <1>5. TaskFits(e)
    BY <1>1, <1>2, <1>3, <1>4 DEF TaskFits, Places, BoxFits, OutFits, Early, Exits, Ends
  <1>6. Bit(BodyOf(e)) = 1 /\ Bit(BodyOf(ep[t])) = 0 /\ Bit(SlotOf(e)) = Bit(SlotOf(ep[t]))
    BY <1>1, <1>2, <1>3, <1>4 DEF Bit, BodyOf, SlotOf, TaskFits, BoxFits
  <1>7. /\ gate' + Bit(BodyOf(e)) = gate + Bit(BodyOf(ep[t]))
        /\ lost' = lost /\ free' + Bit(SlotOf(e)) = free + Bit(SlotOf(ep[t]))
    BY <1>1, <1>2, <1>6
  <1>8. ~swept' => /\ ~swept /\ markers' \subseteq Leftovers
                   /\ e.pc \in {"new", "sweep"} \cup Ends /\ e.box = "none"
    BY <1>1, <1>2, <1>3, <1>4
  <1>9. /\ free' \in Int /\ gate' \in Int /\ swept' \in BOOLEAN /\ alive' \subseteq markers'
        /\ \A u \in Tasks \ {t} : u \in alive => u \in alive'
        /\ e.box \in {"up", "leaving"} => t \in alive'
        /\ ep[t].pc \in Ends => e.pc \in Ends
    BY <1>1, <1>2, <1>4 DEF Ends
  <1> QED
    BY <1>1, <1>5, <1>7, <1>8, <1>9, BecomeKeeps

LEMMA SweepOneKeeps ==
  ASSUME EpisodeInv, NEW t \in Tasks, SweepOne(t)
  PROVE  EpisodeInv'
  <1>1. PICK s \in ep[t].todo :
          /\ Become(t, [ep[t] EXCEPT !.todo = @ \ {s}])
          /\ \/ markers' = markers \ {s} /\ alive' = alive \ {s}
             \/ UNCHANGED <<markers, alive>>
    BY DEF SweepOne
  <1> DEFINE e == [ep[t] EXCEPT !.todo = @ \ {s}]
  <1>2. /\ ep[t].pc = "sweep" /\ gate' = gate /\ Become(t, e)
        /\ free' = free /\ swept' = swept /\ lost' = lost
    BY <1>1 DEF SweepOne, At
  <1>3. /\ TaskFits(ep[t]) /\ gate \in Int /\ free \in Int /\ swept \in BOOLEAN
        /\ alive \subseteq markers /\ (~swept => markers \subseteq Leftovers)
    BY TaskIs
  <1>4. /\ Entry(e) /\ e.pc = ep[t].pc /\ e.out = ep[t].out
        /\ e.todo \subseteq Leftovers /\ e.raised = ep[t].raised
        /\ e.box = ep[t].box /\ e.cut = ep[t].cut
    BY <1>3 DEF TaskFits, Entry, Fields
  <1> HIDE DEF e
  <1>5. e.box = "none" /\ ep[t].pc \notin Ends
    BY <1>2, <1>3, <1>4 DEF TaskFits, BoxFits, Ends, Early
  <1>6. TaskFits(e)
    BY <1>2, <1>3, <1>4, <1>5 DEF TaskFits, Places, BoxFits, OutFits, Early, Exits, Ends
  <1>7. Bit(BodyOf(e)) = Bit(BodyOf(ep[t])) /\ Bit(SlotOf(e)) = Bit(SlotOf(ep[t]))
    BY <1>4 DEF Bit, BodyOf, SlotOf
  <1>8. /\ gate' + Bit(BodyOf(e)) = gate + Bit(BodyOf(ep[t]))
        /\ lost' = lost /\ free' + Bit(SlotOf(e)) = free + Bit(SlotOf(ep[t]))
    BY <1>2, <1>7
  <1>9. \A u \in Tasks : u \in alive => u \in alive'
    <2>1. s \notin Tasks
      BY <1>3, EpisodeAssumption DEF TaskFits
    <2> QED
      BY <1>1, <2>1
  <1>10. alive' \subseteq markers' /\ markers' \subseteq markers
    BY <1>1, <1>3
  <1>11. /\ free' \in Int /\ gate' \in Int /\ swept' \in BOOLEAN
         /\ e.box \in {"up", "leaving"} => t \in alive'
         /\ ~swept' => /\ ~swept /\ markers' \subseteq Leftovers
                       /\ e.pc \in {"new", "sweep"} \cup Ends /\ e.box = "none"
    BY <1>2, <1>3, <1>4, <1>5, <1>10
  <1> QED
    BY <1>2, <1>5, <1>6, <1>8, <1>9, <1>10, <1>11, BecomeKeeps

LEMMA SweepEndKeeps ==
  ASSUME EpisodeInv, NEW t \in Tasks, SweepEnd(t)
  PROVE  EpisodeInv'
  <1> DEFINE e == [ep[t] EXCEPT !.pc = "slot"]
  <1>1. /\ ep[t].pc = "sweep" /\ swept' = TRUE /\ Become(t, e)
        /\ gate' = gate /\ free' = free /\ markers' = markers /\ alive' = alive /\ lost' = lost
    BY DEF SweepEnd, At, Goto
  <1>2. /\ TaskFits(ep[t]) /\ gate \in Int /\ free \in Int /\ alive \subseteq markers
    BY TaskIs
  <1>3. /\ Entry(e) /\ e.pc = "slot" /\ e.out = ep[t].out
        /\ e.todo = ep[t].todo /\ e.raised = ep[t].raised
        /\ e.box = ep[t].box /\ e.cut = ep[t].cut
    BY <1>2 DEF TaskFits, Entry, Fields
  <1> HIDE DEF e
  <1>4. e.box = "none" /\ ep[t].pc \notin Ends
    BY <1>1, <1>2, <1>3 DEF TaskFits, BoxFits, Ends, Early
  <1>5. TaskFits(e)
    BY <1>1, <1>2, <1>3, <1>4 DEF TaskFits, Places, BoxFits, OutFits, Early, Exits, Ends
  <1>6. Bit(BodyOf(e)) = Bit(BodyOf(ep[t])) /\ Bit(SlotOf(e)) = Bit(SlotOf(ep[t]))
    BY <1>1, <1>3 DEF Bit, BodyOf, SlotOf
  <1>7. /\ gate' + Bit(BodyOf(e)) = gate + Bit(BodyOf(ep[t]))
        /\ lost' = lost /\ free' + Bit(SlotOf(e)) = free + Bit(SlotOf(ep[t]))
    BY <1>1, <1>6
  <1>8. /\ free' \in Int /\ gate' \in Int /\ swept' \in BOOLEAN /\ swept' /\ alive' \subseteq markers'
        /\ \A u \in Tasks \ {t} : u \in alive => u \in alive'
        /\ e.box \in {"up", "leaving"} => t \in alive'
    BY <1>1, <1>2, <1>4
  <1> QED
    BY <1>1, <1>4, <1>5, <1>7, <1>8, BecomeKeeps

LEMMA AcquireKeeps ==
  ASSUME EpisodeInv, NEW t \in Tasks, Acquire(t)
  PROVE  EpisodeInv'
  <1> DEFINE e == [ep[t] EXCEPT !.pc = "create"]
  <1>1. /\ ep[t].pc = "slot" /\ free' = free - 1 /\ Become(t, e)
        /\ gate' = gate /\ swept' = swept /\ markers' = markers /\ alive' = alive /\ lost' = lost
    BY DEF Acquire, At, Goto
  <1>2. /\ TaskFits(ep[t]) /\ gate \in Int /\ free \in Int /\ alive \subseteq markers /\ swept \in BOOLEAN
        /\ ep[t].pc \notin {"new", "sweep"} \cup Ends => swept
    BY TaskIs
  <1>3. /\ Entry(e) /\ e.pc = "create" /\ e.out = ep[t].out
        /\ e.todo = ep[t].todo /\ e.raised = ep[t].raised
        /\ e.box = ep[t].box /\ e.cut = ep[t].cut
    BY <1>2 DEF TaskFits, Entry, Fields
  <1> HIDE DEF e
  <1>4. e.box = "none" /\ ep[t].pc \notin Ends /\ swept
    BY <1>1, <1>2, <1>3 DEF TaskFits, BoxFits, Ends, Early
  <1>5. TaskFits(e)
    BY <1>1, <1>2, <1>3, <1>4 DEF TaskFits, Places, BoxFits, OutFits, Early, Exits, Ends
  <1>6. Bit(BodyOf(e)) = Bit(BodyOf(ep[t])) /\ Bit(SlotOf(e)) = 1 /\ Bit(SlotOf(ep[t])) = 0
    BY <1>1, <1>3, <1>4 DEF Bit, BodyOf, SlotOf
  <1>7. /\ gate' + Bit(BodyOf(e)) = gate + Bit(BodyOf(ep[t]))
        /\ lost' = lost /\ free' + Bit(SlotOf(e)) = free + Bit(SlotOf(ep[t]))
    BY <1>1, <1>2, <1>6
  <1>8. /\ free' \in Int /\ gate' \in Int /\ swept' \in BOOLEAN /\ swept' /\ alive' \subseteq markers'
        /\ \A u \in Tasks \ {t} : u \in alive => u \in alive'
        /\ e.box \in {"up", "leaving"} => t \in alive'
    BY <1>1, <1>2, <1>4
  <1> QED
    BY <1>1, <1>4, <1>5, <1>7, <1>8, BecomeKeeps

LEMMA AcquireTimeoutKeeps ==
  ASSUME EpisodeInv, NEW t \in Tasks, AcquireTimeout(t)
  PROVE  EpisodeInv'
  <1> DEFINE out == Parent("ABORTED", "slot_timeout")
             e == [ep[t] EXCEPT !.out = out]
  <1>1. /\ ep[t].pc = "slot" /\ Return(t, e)
        /\ free' = free /\ swept' = swept /\ markers' = markers /\ alive' = alive /\ lost' = lost
    BY DEF AcquireTimeout, At
  <1>2. TaskFits(ep[t]) /\ free \in Int
    BY TaskIs
  <1>3. Unscored(out)
    BY ParentUnscored DEF Status
  <1> HIDE DEF out
  <1>4. Entry(e) /\ e.out = out /\ e.raised = ep[t].raised /\ e.box = ep[t].box /\ e.cut = ep[t].cut
    BY <1>2 DEF TaskFits, Entry, Fields
  <1> HIDE DEF e
  <1>5. e.box = "none" /\ e.raised \in BOOLEAN /\ e.cut \subseteq {"cancelled", "expired"}
    BY <1>1, <1>2, <1>4 DEF TaskFits, BoxFits, Ends, Early
  <1>6. BodyOf(ep[t]) /\ Bit(e.box \in {"leaving", "deleting"}) = Bit(SlotOf(ep[t]))
    BY <1>1, <1>4, <1>5 DEF Bit, BodyOf, SlotOf
  <1>7. free' \in Int /\ lost' = lost /\ free' + Bit(e.box \in {"leaving", "deleting"}) = free + Bit(SlotOf(ep[t]))
    BY <1>1, <1>2, <1>6
  <1> QED
    BY <1>1, <1>3, <1>4, <1>5, <1>6, <1>7, ReturnKeeps

LEMMA CreateKeeps ==
  ASSUME EpisodeInv, NEW t \in Tasks, Create(t)
  PROVE  EpisodeInv'
  <1> DEFINE e == [ep[t] EXCEPT !.pc = "boot", !.box = "up"]
  <1>1. /\ ep[t].pc = "create" /\ Become(t, e)
        /\ alive' = alive \cup {t} /\ markers' = markers \cup {t}
        /\ gate' = gate /\ free' = free /\ swept' = swept /\ lost' = lost
    BY DEF Create, At
  <1>2. /\ TaskFits(ep[t]) /\ gate \in Int /\ free \in Int /\ alive \subseteq markers /\ swept \in BOOLEAN
        /\ ep[t].pc \notin {"new", "sweep"} \cup Ends => swept
    BY TaskIs
  <1>3. /\ Entry(e) /\ e.pc = "boot" /\ e.out = ep[t].out /\ e.box = "up"
        /\ e.todo = ep[t].todo /\ e.raised = ep[t].raised /\ e.cut = ep[t].cut
    BY <1>2 DEF TaskFits, Entry, Fields
  <1> HIDE DEF e
  <1>4. ep[t].pc \notin Ends /\ swept
    BY <1>1, <1>2 DEF Ends
  <1>5. TaskFits(e)
    BY <1>1, <1>2, <1>3 DEF TaskFits, Places, BoxFits, OutFits, Early, Exits, Ends
  <1>6. Bit(BodyOf(e)) = Bit(BodyOf(ep[t])) /\ Bit(SlotOf(e)) = Bit(SlotOf(ep[t]))
    BY <1>1, <1>3 DEF Bit, BodyOf, SlotOf
  <1>7. /\ gate' + Bit(BodyOf(e)) = gate + Bit(BodyOf(ep[t]))
        /\ lost' = lost /\ free' + Bit(SlotOf(e)) = free + Bit(SlotOf(ep[t]))
    BY <1>1, <1>2, <1>6
  <1>8. /\ free' \in Int /\ gate' \in Int /\ swept' \in BOOLEAN /\ swept' /\ alive' \subseteq markers'
        /\ \A u \in Tasks \ {t} : u \in alive => u \in alive'
        /\ e.box \in {"up", "leaving"} => t \in alive'
    BY <1>1, <1>2, <1>4
  <1> QED
    BY <1>1, <1>4, <1>5, <1>7, <1>8, BecomeKeeps

LEMMA ProvisionFailsKeeps ==
  ASSUME EpisodeInv, NEW t \in Tasks, ProvisionFails(t)
  PROVE  EpisodeInv'
  <1>1. UNCHANGED <<gate, free, swept, markers, alive, lost>>
    BY DEF ProvisionFails
  <1>2. TaskFits(ep[t]) /\ (ep[t].pc \notin {"new", "sweep"} \cup Ends => swept)
    BY TaskIs
  <1>3. CASE /\ At(t, "create")
             /\ Become(t, [ep[t] EXCEPT !.pc = "failed", !.why = "create_error"])
    <2> DEFINE e == [ep[t] EXCEPT !.pc = "failed", !.why = "create_error"]
    <2>1. ep[t].pc = "create" /\ Become(t, e)
      BY <1>3 DEF At
    <2>2. /\ Entry(e) /\ e.pc = "failed" /\ e.out = ep[t].out /\ e.box = ep[t].box
          /\ e.todo = ep[t].todo /\ e.raised = ep[t].raised /\ e.cut = ep[t].cut
      BY <1>2 DEF TaskFits, Entry, Fields
    <2> HIDE DEF e
    <2>3. TaskFits(e) /\ e.box = "none"
      BY <1>2, <2>1, <2>2 DEF TaskFits, Places, BoxFits, OutFits, Early, Exits, Ends
    <2>4. (SlotOf(e) <=> SlotOf(ep[t])) /\ (BodyOf(e) <=> BodyOf(ep[t])) /\ ep[t].pc \notin Ends /\ swept
      BY <1>2, <2>1, <2>2 DEF BodyOf, SlotOf, Ends
    <2> QED
      BY <1>1, <2>1, <2>3, <2>4, MoveKeeps
  <1>4. CASE /\ At(t, "boot")
             /\ Become(t, [ep[t] EXCEPT !.pc = "failed", !.why = "not_healthy", !.box = "destroying"])
    <2> DEFINE e == [ep[t] EXCEPT !.pc = "failed", !.why = "not_healthy", !.box = "destroying"]
    <2>1. ep[t].pc = "boot" /\ Become(t, e)
      BY <1>4 DEF At
    <2>2. /\ Entry(e) /\ e.pc = "failed" /\ e.out = ep[t].out /\ e.box = "destroying"
          /\ e.todo = ep[t].todo /\ e.raised = ep[t].raised /\ e.cut = ep[t].cut
      BY <1>2 DEF TaskFits, Entry, Fields
    <2> HIDE DEF e
    <2>3. TaskFits(e)
      BY <1>2, <2>1, <2>2 DEF TaskFits, Places, BoxFits, OutFits, Early, Exits, Ends
    <2>4. (SlotOf(e) <=> SlotOf(ep[t])) /\ (BodyOf(e) <=> BodyOf(ep[t])) /\ ep[t].pc \notin Ends /\ swept
      BY <1>2, <2>1, <2>2 DEF BodyOf, SlotOf, Ends
    <2> QED
      BY <1>1, <2>1, <2>2, <2>3, <2>4, MoveKeeps
  <1> QED
    BY <1>3, <1>4 DEF ProvisionFails

LEMMA BootKeeps ==
  ASSUME EpisodeInv, NEW t \in Tasks, Boot(t)
  PROVE  EpisodeInv'
  <1> DEFINE e == [ep[t] EXCEPT !.pc = "reset"]
  <1>1. ep[t].pc = "boot" /\ Become(t, e) /\ UNCHANGED <<gate, free, swept, markers, alive, lost>>
    BY DEF Boot, At, Goto
  <1>2. TaskFits(ep[t]) /\ (ep[t].pc \notin {"new", "sweep"} \cup Ends => swept)
    BY TaskIs
  <1>3. /\ Entry(e) /\ e.pc = "reset" /\ e.out = ep[t].out /\ e.box = ep[t].box
        /\ e.todo = ep[t].todo /\ e.raised = ep[t].raised /\ e.cut = ep[t].cut
    BY <1>2 DEF TaskFits, Entry, Fields
  <1> HIDE DEF e
  <1>4. TaskFits(e) /\ (e.box \in {"up", "leaving"} => ep[t].box \in {"up", "leaving"})
    BY <1>1, <1>2, <1>3 DEF TaskFits, Places, BoxFits, OutFits, Early, Exits, Ends
  <1>5. (SlotOf(e) <=> SlotOf(ep[t])) /\ (BodyOf(e) <=> BodyOf(ep[t])) /\ ep[t].pc \notin Ends /\ swept
    BY <1>1, <1>2, <1>3 DEF BodyOf, SlotOf, TaskFits, BoxFits, Early, Ends
  <1> QED
    BY <1>1, <1>4, <1>5, MoveKeeps

LEMMA ResetKeeps ==
  ASSUME EpisodeInv, NEW t \in Tasks, Reset(t)
  PROVE  EpisodeInv'
  <1> DEFINE e == [ep[t] EXCEPT !.pc = "infer"]
  <1>1. ep[t].pc = "reset" /\ Become(t, e) /\ UNCHANGED <<gate, free, swept, markers, alive, lost>>
    BY DEF Reset, At, Goto
  <1>2. TaskFits(ep[t]) /\ (ep[t].pc \notin {"new", "sweep"} \cup Ends => swept)
    BY TaskIs
  <1>3. /\ Entry(e) /\ e.pc = "infer" /\ e.out = ep[t].out /\ e.box = ep[t].box
        /\ e.todo = ep[t].todo /\ e.raised = ep[t].raised /\ e.cut = ep[t].cut
    BY <1>2 DEF TaskFits, Entry, Fields
  <1> HIDE DEF e
  <1>4. TaskFits(e) /\ (e.box \in {"up", "leaving"} => ep[t].box \in {"up", "leaving"})
    <2>1. << >> \in Seq({NewTurn})
      OBVIOUS
    <2> QED
      BY <1>1, <1>2, <1>3, <2>1 DEF TaskFits, Places, BoxFits, OutFits, Early, Exits, Ends
  <1>5. (SlotOf(e) <=> SlotOf(ep[t])) /\ (BodyOf(e) <=> BodyOf(ep[t])) /\ ep[t].pc \notin Ends /\ swept
    BY <1>1, <1>2, <1>3 DEF BodyOf, SlotOf, TaskFits, BoxFits, Early, Ends
  <1> QED
    BY <1>1, <1>4, <1>5, MoveKeeps

LEMMA DestroyKeeps ==
  ASSUME EpisodeInv, NEW t \in Tasks, Destroy(t)
  PROVE  EpisodeInv'
  <1> DEFINE e == [ep[t] EXCEPT !.box = "gone"]
  <1>1. /\ ep[t].box = "destroying" /\ Become(t, e)
        /\ gate' = gate /\ free' = free /\ swept' = swept /\ lost' = lost
        /\ \/ markers' = markers \ {t} /\ alive' = alive \ {t}
           \/ markers' = markers /\ alive' = alive
    BY DEF Destroy
  <1>2. /\ TaskFits(ep[t]) /\ gate \in Int /\ free \in Int /\ alive \subseteq markers /\ swept \in BOOLEAN
        /\ ep[t].box # "none" => swept
    BY TaskIs
  <1>3. /\ Entry(e) /\ e.pc = ep[t].pc /\ e.out = ep[t].out /\ e.box = "gone"
        /\ e.todo = ep[t].todo /\ e.raised = ep[t].raised /\ e.cut = ep[t].cut
    BY <1>2 DEF TaskFits, Entry, Fields
  <1> HIDE DEF e
  <1>4. ep[t].pc \in {"failed"} \cup Ends
    BY <1>1, <1>2 DEF TaskFits, BoxFits, Ends, Early
  <1>5. TaskFits(e)
    BY <1>2, <1>3, <1>4 DEF TaskFits, Places, BoxFits, OutFits, Early, Exits, Ends
  <1>6. Bit(BodyOf(e)) = Bit(BodyOf(ep[t])) /\ Bit(SlotOf(e)) = Bit(SlotOf(ep[t]))
    BY <1>1, <1>3 DEF Bit, BodyOf, SlotOf
  <1>7. /\ gate' + Bit(BodyOf(e)) = gate + Bit(BodyOf(ep[t]))
        /\ lost' = lost /\ free' + Bit(SlotOf(e)) = free + Bit(SlotOf(ep[t]))
    BY <1>1, <1>2, <1>6
  <1>8. /\ free' \in Int /\ gate' \in Int /\ swept' \in BOOLEAN /\ swept' /\ alive' \subseteq markers'
        /\ \A u \in Tasks \ {t} : u \in alive => u \in alive'
        /\ e.box \in {"up", "leaving"} => t \in alive'
        /\ ep[t].pc \in Ends => e.pc \in Ends
    BY <1>1, <1>2, <1>3
  <1> QED
    BY <1>1, <1>5, <1>7, <1>8, BecomeKeeps

LEMMA ProvisionFailedKeeps ==
  ASSUME EpisodeInv, NEW t \in Tasks, ProvisionFailed(t)
  PROVE  EpisodeInv'
  <1> DEFINE out == Parent("ABORTED", ep[t].why)
             e == [ep[t] EXCEPT !.out = out]
  <1>1. /\ ep[t].pc = "failed" /\ ep[t].box # "destroying" /\ Return(t, e) /\ free' = free + 1
        /\ swept' = swept /\ markers' = markers /\ alive' = alive /\ lost' = lost
    BY DEF ProvisionFailed, At
  <1>2. TaskFits(ep[t]) /\ free \in Int /\ (ep[t].pc \notin {"new", "sweep"} \cup Ends => swept)
    BY TaskIs
  <1>3. Unscored(out)
    BY ParentUnscored DEF Status
  <1> HIDE DEF out
  <1>4. Entry(e) /\ e.out = out /\ e.raised = ep[t].raised /\ e.box = ep[t].box /\ e.cut = ep[t].cut
    BY <1>2 DEF TaskFits, Entry, Fields
  <1> HIDE DEF e
  <1>5. /\ e.box \in {"none", "gone"} /\ e.raised \in BOOLEAN /\ e.cut \subseteq {"cancelled", "expired"}
        /\ swept
    BY <1>1, <1>2, <1>4 DEF TaskFits, BoxFits, Ends, Early
  <1>6. BodyOf(ep[t]) /\ Bit(e.box \in {"leaving", "deleting"}) = 0 /\ Bit(SlotOf(ep[t])) = 1
    BY <1>1, <1>4, <1>5 DEF Bit, BodyOf, SlotOf
  <1>7. free' \in Int /\ lost' = lost /\ free' + Bit(e.box \in {"leaving", "deleting"}) = free + Bit(SlotOf(ep[t]))
    BY <1>1, <1>2, <1>6
  <1> QED
    BY <1>1, <1>3, <1>4, <1>5, <1>6, <1>7, ReturnKeeps

\* A task that leaves the loop, or whose environment has closed itself, with the
\* outcome out.
LEMMA ExitKeeps ==
  ASSUME EpisodeInv, NEW t \in Tasks, ep[t].pc \in {"reset", "infer", "act"},
         NEW pc \in {"quit", "exit"}, NEW out, Unscored(out),
         Become(t, [ep[t] EXCEPT !.pc = pc, !.box = "leaving", !.out = out]),
         UNCHANGED <<gate, free, swept, markers, alive, lost>>
  PROVE  EpisodeInv'
  <1> DEFINE e == [ep[t] EXCEPT !.pc = pc, !.box = "leaving", !.out = out]
  <1>1. TaskFits(ep[t]) /\ (ep[t].pc \notin {"new", "sweep"} \cup Ends => swept)
    BY TaskIs
  <1>2. /\ Entry(e) /\ e.pc = pc /\ e.out = out /\ e.box = "leaving"
        /\ e.todo = ep[t].todo /\ e.raised = ep[t].raised /\ e.cut = ep[t].cut
    BY <1>1 DEF TaskFits, Entry, Fields
  <1>3. Become(t, e)
    OBVIOUS
  <1> HIDE DEF e
  <1>4. ep[t].box = "up" /\ TaskFits(e)
    BY <1>1, <1>2 DEF TaskFits, Places, BoxFits, OutFits, Early, Exits, Ends
  <1>5. (SlotOf(e) <=> SlotOf(ep[t])) /\ (BodyOf(e) <=> BodyOf(ep[t])) /\ ep[t].pc \notin Ends /\ swept
    BY <1>1, <1>2, <1>4 DEF BodyOf, SlotOf, Ends
  <1> QED
    BY <1>3, <1>4, <1>5, MoveKeeps

LEMMA ResetFailsKeeps ==
  ASSUME EpisodeInv, NEW t \in Tasks, ResetFails(t)
  PROVE  EpisodeInv'
  <1> DEFINE out == Parent("ABORTED", "reset_error")
  <1>1. Unscored(out)
    BY ParentUnscored DEF Status
  <1>2. /\ ep[t].pc = "reset" /\ Become(t, [ep[t] EXCEPT !.pc = "quit", !.box = "leaving", !.out = out])
        /\ UNCHANGED <<gate, free, swept, markers, alive, lost>>
    BY DEF ResetFails, At
  <1> HIDE DEF out
  <1> QED
    BY <1>1, <1>2, ExitKeeps

\* The ways out of the loop.
LEMMA LeaveKeeps ==
  ASSUME EpisodeInv, NEW t \in Tasks, ep[t].pc \in {"infer", "act"}, NEW turns \in Seq({NewTurn}),
         NEW status \in Status \ {"PENDING"}, NEW reason,
         status = "COMPLETED" => ShouldRemove(status, reason) = FALSE,
         Leave(t, turns, status, reason), UNCHANGED <<gate, free, swept, markers, alive, lost>>
  PROVE  EpisodeInv'
  <1> DEFINE out == Outcome(turns, status, reason)
  <1>1. Unscored(out)
    BY OutcomeUnscored
  <1>2. Become(t, [ep[t] EXCEPT !.pc = "exit", !.box = "leaving", !.out = out])
    BY DEF Leave
  <1> HIDE DEF out
  <1> QED
    BY <1>1, <1>2, ExitKeeps

\* A task that goes on with the turns it has.
LEMMA GoOnKeeps ==
  ASSUME EpisodeInv, NEW t \in Tasks, ep[t].pc \in {"infer", "act"}, NEW turns \in Seq({NewTurn}),
         NEW pc \in {"infer", "act"}, pc = "act" => turns # << >>, NEW e, Entry(e), Become(t, e),
         e.pc = pc, e.out = turns, e.box = ep[t].box, e.todo = ep[t].todo,
         e.raised = ep[t].raised, e.cut = ep[t].cut,
         UNCHANGED <<gate, free, swept, markers, alive, lost>>
  PROVE  EpisodeInv'
  <1>1. TaskFits(ep[t]) /\ (ep[t].pc \notin {"new", "sweep"} \cup Ends => swept)
    BY TaskIs
  <1>2. ep[t].box = "up" /\ TaskFits(e)
    BY <1>1 DEF TaskFits, Places, BoxFits, OutFits, Early, Exits, Ends
  <1>3. (SlotOf(e) <=> SlotOf(ep[t])) /\ (BodyOf(e) <=> BodyOf(ep[t])) /\ ep[t].pc \notin Ends /\ swept
    BY <1>1, <1>2 DEF BodyOf, SlotOf, Ends
  <1> QED
    BY <1>2, <1>3, MoveKeeps

LEMMA NextStepKeeps ==
  ASSUME EpisodeInv, NEW t \in Tasks, ep[t].pc \in {"infer", "act"}, NEW turns \in Seq({NewTurn}), NEW fails,
         NextStep(t, turns, fails), UNCHANGED <<gate, free, swept, markers, alive, lost>>
  PROVE  EpisodeInv'
  <1>1. CASE Len(turns) = MaxSteps
    <2>1. Leave(t, turns, "FAILED", "max_steps_exhausted")
      BY <1>1 DEF NextStep
    <2> QED
      BY <2>1, LeaveKeeps DEF Status
  <1>2. CASE Len(turns) # MaxSteps
    <2> DEFINE e == [ep[t] EXCEPT !.pc = "infer", !.out = turns, !.fails = fails]
    <2>1. Become(t, e)
      BY <1>2 DEF NextStep
    <2>2. TaskFits(ep[t])
      BY TaskIs
    <2>3. /\ Entry(e) /\ e.pc = "infer" /\ e.out = turns /\ e.box = ep[t].box
          /\ e.todo = ep[t].todo /\ e.raised = ep[t].raised /\ e.cut = ep[t].cut
      BY <2>2 DEF TaskFits, Entry, Fields
    <2> HIDE DEF e
    <2> QED
      BY <2>1, <2>3, GoOnKeeps
  <1> QED
    BY <1>1, <1>2

LEMMA TurnsAre ==
  ASSUME EpisodeInv, NEW t \in Tasks, ep[t].pc \in {"infer", "act"}
  PROVE  /\ ep[t].out \in Seq({NewTurn}) /\ Append(ep[t].out, NewTurn) \in Seq({NewTurn})
         /\ Append(ep[t].out, NewTurn) # << >> /\ (ep[t].pc = "act" => ep[t].out # << >>)
  <1>1. ep[t].out \in Seq({NewTurn}) /\ (ep[t].pc = "act" => ep[t].out # << >>)
    BY TaskIs DEF TaskFits, OutFits
  <1> QED
    BY <1>1

\* The turn loop.
LEMMA TurnKeeps ==
  ASSUME EpisodeInv, NEW t \in Tasks, Turn(t)
  PROVE  EpisodeInv'
  <1> DEFINE turns == ep[t].out
             more == Append(ep[t].out, NewTurn)
             rest == UNCHANGED <<gate, free, swept, markers, alive, lost>>
  <1>1. ASSUME ep[t].pc \in {"infer", "act"}
        PROVE  /\ turns \in Seq({NewTurn}) /\ more \in Seq({NewTurn}) /\ more # << >>
               /\ (ep[t].pc = "act" => turns # << >>)
    BY <1>1, TurnsAre
  <1>2. TaskFits(ep[t])
    BY TaskIs
  <1>3. /\ {"TRUNCATED", "ABORTED", "FAILED", "COMPLETED"} \subseteq Status \ {"PENDING"}
        /\ ShouldRemove("COMPLETED", "task_completed") = FALSE
    BY DEF Status, ShouldRemove
  <1>4. CASE ContextFull(t)
    <2>1. ep[t].pc = "infer" /\ Leave(t, turns, "TRUNCATED", "generation_length_limit") /\ rest
      BY <1>4 DEF ContextFull, At
    <2> HIDE DEF turns, more
    <2> QED
      BY <1>1, <1>3, <2>1, LeaveKeeps
  <1>5. CASE InferenceFails(t)
    <2>1. PICK reason \in {"inference_timeout", "inference_error"} : Leave(t, turns, "ABORTED", reason)
      BY <1>5 DEF InferenceFails
    <2>2. ep[t].pc = "infer" /\ rest
      BY <1>5 DEF InferenceFails, At
    <2> HIDE DEF turns, more
    <2> QED
      BY <1>1, <1>3, <2>1, <2>2, LeaveKeeps
  <1>6. CASE CutShort(t)
    <2>1. /\ ep[t].pc = "infer" /\ rest
          /\ \/ Leave(t, more, "TRUNCATED", "generation_length_limit")
             \/ Leave(t, more, "ABORTED", "generation_abort")
      BY <1>6 DEF CutShort, At
    <2> HIDE DEF turns, more
    <2>2. CASE Leave(t, more, "TRUNCATED", "generation_length_limit")
      BY <1>1, <1>3, <2>1, <2>2, LeaveKeeps
    <2>3. CASE Leave(t, more, "ABORTED", "generation_abort")
      BY <1>1, <1>3, <2>1, <2>3, LeaveKeeps
    <2> QED
      BY <2>1, <2>2, <2>3
  <1>7. CASE Respond(t)
    <2> DEFINE e == [ep[t] EXCEPT !.pc = "act", !.out = Append(@, NewTurn)]
    <2>1. ep[t].pc = "infer" /\ Become(t, e) /\ rest
      BY <1>7 DEF Respond, At
    <2>2. /\ Entry(e) /\ e.pc = "act" /\ e.out = more /\ e.box = ep[t].box
          /\ e.todo = ep[t].todo /\ e.raised = ep[t].raised /\ e.cut = ep[t].cut
      BY <1>2 DEF TaskFits, Entry, Fields
    <2> HIDE DEF turns, more, e
    <2> QED
      BY <1>1, <2>1, <2>2, GoOnKeeps
  <1>8. CASE RespondUnparsable(t)
    <2>1. /\ ep[t].pc = "infer" /\ rest
          /\ \/ Leave(t, more, "FAILED", "format_error_failed")
             \/ NextStep(t, more, ep[t].fails + 1)
      BY <1>8 DEF RespondUnparsable, At
    <2> HIDE DEF turns, more
    <2>2. CASE Leave(t, more, "FAILED", "format_error_failed")
      BY <1>1, <1>3, <2>1, <2>2, LeaveKeeps
    <2>3. CASE NextStep(t, more, ep[t].fails + 1)
      BY <1>1, <2>1, <2>3, NextStepKeeps
    <2> QED
      BY <2>1, <2>2, <2>3
  <1>9. CASE Step(t)
    <2>1. /\ ep[t].pc = "act" /\ rest
          /\ \/ NextStep(t, turns, 0)
             \/ Leave(t, turns, "COMPLETED", "task_completed")
      BY <1>9 DEF Step, At
    <2> HIDE DEF turns, more
    <2>2. CASE Leave(t, turns, "COMPLETED", "task_completed")
      BY <1>1, <1>3, <2>1, <2>2, LeaveKeeps
    <2>3. CASE NextStep(t, turns, 0)
      BY <1>1, <2>1, <2>3, NextStepKeeps
    <2> QED
      BY <2>1, <2>2, <2>3
  <1>10. CASE StepFails(t)
    <2> DEFINE out == Outcome(turns, "ABORTED", "env_step_error")
    <2>1. /\ ep[t].pc = "act" /\ rest
          /\ Become(t, [ep[t] EXCEPT !.pc = "quit", !.box = "leaving", !.out = out])
      BY <1>10 DEF StepFails, At
    <2>2. turns \in Seq({NewTurn})
      BY <1>1, <2>1
    <2> HIDE DEF turns, more
    <2>3. Unscored(out)
      BY <1>3, <2>2, OutcomeUnscored
    <2> HIDE DEF out
    <2> QED
      BY <2>1, <2>3, ExitKeeps
  <1> QED
    BY <1>4, <1>5, <1>6, <1>7, <1>8, <1>9, <1>10 DEF Turn

LEMMA ExitCallKeeps ==
  ASSUME EpisodeInv, NEW t \in Tasks, ExitCall(t)
  PROVE  EpisodeInv'
  <1> DEFINE e == [ep[t] EXCEPT !.box = "deleting"]
  <1>1. ep[t].box = "leaving" /\ Become(t, e) /\ UNCHANGED <<gate, free, swept, markers, alive, lost>>
    BY DEF ExitCall
  <1>2. TaskFits(ep[t]) /\ (ep[t].box # "none" => swept)
    BY TaskIs
  <1>3. /\ Entry(e) /\ e.pc = ep[t].pc /\ e.out = ep[t].out /\ e.box = "deleting"
        /\ e.todo = ep[t].todo /\ e.raised = ep[t].raised /\ e.cut = ep[t].cut
    BY <1>2 DEF TaskFits, Entry, Fields
  <1> HIDE DEF e
  <1>4. ep[t].pc \in Exits \cup Ends
    BY <1>1, <1>2 DEF TaskFits, BoxFits, Ends, Early, Exits
  <1>5. TaskFits(e)
    BY <1>2, <1>3, <1>4 DEF TaskFits, Places, BoxFits, OutFits, Early, Exits, Ends
  <1>6. (SlotOf(e) <=> SlotOf(ep[t])) /\ (BodyOf(e) <=> BodyOf(ep[t])) /\ swept
    BY <1>1, <1>2, <1>3 DEF BodyOf, SlotOf
  <1> QED
    BY <1>1, <1>3, <1>5, <1>6, MoveKeeps

LEMMA DeleteKeeps ==
  ASSUME EpisodeInv, NEW t \in Tasks, Delete(t)
  PROVE  EpisodeInv'
  <1> DEFINE e == [ep[t] EXCEPT !.box = "gone"]
  <1>1. /\ ep[t].box \in {"deleting", "exposed"} /\ Become(t, e)
        /\ gate' = gate /\ free' = free + 1 /\ swept' = swept /\ lost' = lost
        /\ \/ markers' = markers \ {t} /\ alive' = alive \ {t}
           \/ markers' = markers /\ alive' = alive
    BY DEF Delete
  <1>2. /\ TaskFits(ep[t]) /\ gate \in Int /\ free \in Int /\ alive \subseteq markers /\ swept \in BOOLEAN
        /\ ep[t].box # "none" => swept
    BY TaskIs
  <1>3. /\ Entry(e) /\ e.pc = ep[t].pc /\ e.out = ep[t].out /\ e.box = "gone"
        /\ e.todo = ep[t].todo /\ e.raised = ep[t].raised /\ e.cut = ep[t].cut
    BY <1>2 DEF TaskFits, Entry, Fields
  <1> HIDE DEF e
  <1>4. ep[t].pc \in Exits \cup Ends
    BY <1>1, <1>2 DEF TaskFits, BoxFits, Ends, Early, Exits
  <1>5. TaskFits(e)
    BY <1>2, <1>3, <1>4 DEF TaskFits, Places, BoxFits, OutFits, Early, Exits, Ends
  <1>6. Bit(BodyOf(e)) = Bit(BodyOf(ep[t])) /\ Bit(SlotOf(e)) = 0 /\ Bit(SlotOf(ep[t])) = 1
    BY <1>1, <1>3, <1>4 DEF Bit, BodyOf, SlotOf, Exits, Ends
  <1>7. /\ gate' + Bit(BodyOf(e)) = gate + Bit(BodyOf(ep[t]))
        /\ lost' = lost /\ free' + Bit(SlotOf(e)) = free + Bit(SlotOf(ep[t]))
    BY <1>1, <1>2, <1>6
  <1>8. /\ free' \in Int /\ gate' \in Int /\ swept' \in BOOLEAN /\ swept' /\ alive' \subseteq markers'
        /\ \A u \in Tasks \ {t} : u \in alive => u \in alive'
        /\ e.box \in {"up", "leaving"} => t \in alive'
        /\ ep[t].pc \in Ends => e.pc \in Ends
    BY <1>1, <1>2, <1>3
  <1> QED
    BY <1>1, <1>5, <1>7, <1>8, BecomeKeeps

\* A task that returns from the exit: e is its record, or that with a cancellation.
LEMMA LeftKeeps ==
  ASSUME EpisodeInv, NEW t \in Tasks, Left(t)
  PROVE  EpisodeInv'
  <1>1. /\ Return(t, ep[t]) /\ free' = free /\ UNCHANGED <<swept, markers, alive>> /\ lost' = lost
        /\ \/ ep[t].pc = "quit" /\ ep[t].box = "gone"
           \/ ep[t].pc \in {"exit", "exit again"}
    BY DEF Left, At
  <1>2. TaskFits(ep[t]) /\ free \in Int /\ (ep[t].box # "none" => swept)
    BY TaskIs
  <1> DEFINE e == ep[t]
  <1>3. /\ Entry(e) /\ e.raised \in BOOLEAN /\ e.cut \subseteq {"cancelled", "expired"}
        /\ e.box \in {"leaving", "deleting", "gone"} /\ (e.raised \/ Unscored(e.out)) /\ e.pc \in Exits
    BY <1>1, <1>2 DEF TaskFits, BoxFits, OutFits, Early, Exits, Ends
  <1>4. BodyOf(ep[t]) /\ Bit(e.box \in {"leaving", "deleting"}) = Bit(SlotOf(ep[t]))
    BY <1>3 DEF Bit, BodyOf, SlotOf, Exits
  <1>5. free' \in Int /\ lost' = lost /\ free' + Bit(e.box \in {"leaving", "deleting"}) = free + Bit(SlotOf(ep[t]))
    BY <1>1, <1>2, <1>4
  <1> QED
    BY <1>1, <1>2, <1>3, <1>4, <1>5, ReturnKeeps

LEMMA JudgeKeeps ==
  ASSUME EpisodeInv, NEW t \in Tasks, Judge(t)
  PROVE  EpisodeInv'
  <1>1. PICK score \in Scores(CHOOSE s \in {ep[t].out[i] : i \in DOMAIN ep[t].out} : s.last) :
          Become(t, [ep[t] EXCEPT !.pc = "done", !.out = Scored(ep[t].out, score)])
    BY DEF Judge
  <1> DEFINE out == Scored(ep[t].out, score)
             e == [ep[t] EXCEPT !.pc = "done", !.out = out]
  <1>2. ep[t].pc = "judge" /\ Become(t, e) /\ UNCHANGED <<gate, free, swept, markers, alive, lost>>
    BY <1>1 DEF Judge, At
  <1>3. TaskFits(ep[t]) /\ (ep[t].box # "none" => swept)
    BY TaskIs
  <1>4. Given(out)
    <2>1. Unscored(ep[t].out) /\ ep[t].out[1].status # "ABORTED"
      BY <1>2, <1>3 DEF TaskFits, OutFits
    <2> QED
      BY <2>1, ScoredGiven
  <1> HIDE DEF out
  <1>5. /\ Entry(e) /\ e.pc = "done" /\ e.out = out /\ e.box = ep[t].box
        /\ e.todo = ep[t].todo /\ e.raised = ep[t].raised /\ e.cut = ep[t].cut
    BY <1>3 DEF TaskFits, Entry, Fields
  <1> HIDE DEF e
  <1>6. TaskFits(e)
    BY <1>2, <1>3, <1>4, <1>5 DEF TaskFits, Places, BoxFits, OutFits, Early, Exits, Ends
  <1>7. /\ SlotOf(e) <=> SlotOf(ep[t])
        /\ BodyOf(e) <=> BodyOf(ep[t])
        /\ e.pc \in Ends /\ (swept \/ e.box = "none")
    BY <1>2, <1>3, <1>5 DEF BodyOf, SlotOf, Ends
  <1> QED
    BY <1>2, <1>5, <1>6, <1>7, MoveKeeps

\* A cancellation, wherever it arrives.
LEMMA InterruptKeeps ==
  ASSUME EpisodeInv, NEW t \in Tasks, Interrupt(t)
  PROVE  EpisodeInv'
  <1>1. PICK kind \in Kinds(ep[t]) \ ep[t].cut :
          LET e == [ep[t] EXCEPT !.cut = @ \cup {kind}]
              r == [e EXCEPT !.raised = TRUE, !.out = << >>]
          IN  \/ /\ e.pc \in {"new", "judge"}
                 /\ Become(t, [r EXCEPT !.pc = "done", !.raised = FALSE])
                 /\ UNCHANGED <<gate, lost>>
              \/ e.pc \in {"sweep", "slot"} /\ Return(t, r) /\ UNCHANGED lost
              \/ /\ e.pc \in {"create", "boot"}
                 /\ Become(t, [e EXCEPT !.raised = TRUE, !.pc = "failed",
                                        !.box = IF e.pc = "boot" THEN "destroying" ELSE @])
                 /\ UNCHANGED <<gate, lost>>
              \/ /\ e.pc = "failed"
                 /\ Return(t, r) /\ lost' = lost \cup {t}
              \/ /\ e.pc = "reset"
                 /\ Become(t, [r EXCEPT !.pc = "quit", !.box = "leaving"]) /\ UNCHANGED <<gate, lost>>
              \/ /\ e.pc \in {"infer", "act"}
                 /\ Become(t, [r EXCEPT !.pc = "exit", !.box = "leaving"]) /\ UNCHANGED <<gate, lost>>
              \/ /\ e.pc = "quit" /\ e.box \in {"leaving", "deleting"}
                 /\ Become(t, [r EXCEPT !.box = IF e.box = "leaving" THEN "deleting" ELSE "exposed"])
                 /\ UNCHANGED <<gate, lost>>
              \/ /\ e.pc = "exit" /\ Become(t, [e EXCEPT !.pc = "exit again"]) /\ UNCHANGED <<gate, lost>>
              \/ e.pc = "exit again" /\ Return(t, r) /\ UNCHANGED lost
    BY DEF Interrupt
  <1> DEFINE e == [ep[t] EXCEPT !.cut = @ \cup {kind}]
             r == [e EXCEPT !.raised = TRUE, !.out = << >>]
  <1>2. UNCHANGED <<free, swept, markers, alive>>
    BY DEF Interrupt
  <1>3. /\ TaskFits(ep[t]) /\ free \in Int /\ (ep[t].box # "none" => swept)
        /\ (ep[t].pc \notin {"new", "sweep"} \cup Ends => swept)
    BY TaskIs
  <1>4. kind \in {"cancelled", "expired"}
    BY DEF Kinds
  <1>5. /\ Entry(e) /\ e.pc = ep[t].pc /\ e.box = ep[t].box /\ e.out = ep[t].out
        /\ e.todo = ep[t].todo /\ e.raised = ep[t].raised /\ e.cut \subseteq {"cancelled", "expired"}
    BY <1>3, <1>4 DEF TaskFits, Entry, Fields
  <1>6. /\ Entry(r) /\ r.pc = e.pc /\ r.box = e.box /\ r.out = << >> /\ r.raised = TRUE
        /\ r.todo = e.todo /\ r.cut = e.cut
    <2> HIDE DEF e
    <2> QED
      BY <1>5 DEF Entry, Fields
  <1> HIDE DEF e, r
  <1>7. CASE /\ e.pc \in {"new", "judge"}
             /\ Become(t, [r EXCEPT !.pc = "done", !.raised = FALSE])
             /\ UNCHANGED <<gate, lost>>
    <2> DEFINE x == [r EXCEPT !.pc = "done", !.raised = FALSE]
    <2>1. /\ Entry(x) /\ x.pc = "done" /\ x.box = r.box /\ x.out = << >> /\ x.raised = FALSE
          /\ x.todo = r.todo /\ x.cut = r.cut
      BY <1>6 DEF Entry, Fields
    <2>2. Become(t, x) /\ UNCHANGED <<gate, free, swept, markers, alive, lost>>
      BY <1>2, <1>7
    <2> HIDE DEF x
    <2>3. TaskFits(x)
      BY <1>3, <1>5, <1>6, <1>7, <2>1, NothingGiven, ZenonT(30)
         DEF TaskFits, Places, BoxFits, OutFits, Early, Exits, Ends
    <2>4. /\ SlotOf(x) <=> SlotOf(ep[t])
          /\ BodyOf(x) <=> BodyOf(ep[t])
          /\ x.pc \in Ends /\ (swept \/ x.box = "none") /\ x.box = ep[t].box
      BY <1>3, <1>5, <1>6, <1>7, <2>1 DEF BodyOf, SlotOf, Ends
    <2> QED
      BY <2>2, <2>3, <2>4, MoveKeeps
  <1>8. CASE e.pc \in {"sweep", "slot"} /\ Return(t, r) /\ UNCHANGED lost
    <2>1. r.box = "none"
      BY <1>3, <1>5, <1>6, <1>8 DEF TaskFits, BoxFits, Early, Ends
    <2>2. BodyOf(ep[t]) /\ Bit(r.box \in {"leaving", "deleting"}) = Bit(SlotOf(ep[t]))
      BY <1>5, <1>6, <1>8, <2>1 DEF Bit, BodyOf, SlotOf
    <2>3. free' \in Int /\ lost' = lost /\ free' + Bit(r.box \in {"leaving", "deleting"}) = free + Bit(SlotOf(ep[t]))
      BY <1>2, <1>3, <1>8, <2>2
    <2> QED
      BY <1>2, <1>5, <1>6, <1>8, <2>1, <2>2, <2>3, ReturnKeeps
  <1>9. CASE /\ e.pc \in {"create", "boot"}
             /\ Become(t, [e EXCEPT !.raised = TRUE, !.pc = "failed",
                                    !.box = IF e.pc = "boot" THEN "destroying" ELSE @])
             /\ UNCHANGED <<gate, lost>>
    <2> DEFINE x == [e EXCEPT !.raised = TRUE, !.pc = "failed",
                              !.box = IF e.pc = "boot" THEN "destroying" ELSE @]
    <2>1. /\ Entry(x) /\ x.pc = "failed" /\ x.out = e.out /\ x.raised = TRUE
          /\ x.box = (IF e.pc = "boot" THEN "destroying" ELSE e.box)
          /\ x.todo = e.todo /\ x.cut = e.cut
      BY <1>5 DEF Entry, Fields
    <2>2. Become(t, x) /\ UNCHANGED <<gate, free, swept, markers, alive, lost>>
      BY <1>2, <1>9
    <2> HIDE DEF x
    <2>3. TaskFits(x) /\ x.box \in {"none", "destroying"}
      BY <1>3, <1>5, <1>9, <2>1 DEF TaskFits, Places, BoxFits, OutFits, Early, Exits, Ends
    <2>4. /\ SlotOf(x) <=> SlotOf(ep[t])
          /\ BodyOf(x) <=> BodyOf(ep[t])
          /\ ep[t].pc \notin Ends /\ swept
      BY <1>3, <1>5, <1>9, <2>1 DEF BodyOf, SlotOf, Ends
    <2> QED
      BY <2>2, <2>3, <2>4, MoveKeeps
  <1>10. CASE e.pc = "failed" /\ Return(t, r) /\ lost' = lost \cup {t}
    <2>1. r.box \in {"none", "destroying", "gone"} /\ swept
      BY <1>3, <1>5, <1>6, <1>10 DEF TaskFits, BoxFits, Early, Ends
    <2>2. BodyOf(ep[t]) /\ SlotOf(ep[t])
      BY <1>5, <1>10 DEF BodyOf, SlotOf
    <2>3. free' \in Int /\ free' = free /\ r.box \notin {"leaving", "deleting"} /\ r.box # "leaving"
      BY <1>2, <1>3, <2>1
    <2> QED
      BY <1>2, <1>5, <1>6, <1>10, <2>1, <2>2, <2>3, ReturnKeeps
  <1>11. ASSUME NEW pc \in {"quit", "exit"}, e.pc \in {"reset", "infer", "act"},
                Become(t, [r EXCEPT !.pc = pc, !.box = "leaving"]), UNCHANGED <<gate, lost>>
         PROVE  EpisodeInv'
    <2> DEFINE x == [r EXCEPT !.pc = pc, !.box = "leaving"]
    <2>1. /\ Entry(x) /\ x.pc = pc /\ x.box = "leaving" /\ x.out = << >> /\ x.raised = TRUE
          /\ x.todo = r.todo /\ x.cut = r.cut
      BY <1>6 DEF Entry, Fields
    <2>2. Become(t, x) /\ UNCHANGED <<gate, free, swept, markers, alive, lost>>
      BY <1>2, <1>11
    <2> HIDE DEF x
    <2>3. TaskFits(x) /\ ep[t].box = "up"
      BY <1>3, <1>5, <1>6, <1>11, <2>1 DEF TaskFits, Places, BoxFits, OutFits, Early, Exits, Ends
    <2>4. /\ SlotOf(x) <=> SlotOf(ep[t])
          /\ BodyOf(x) <=> BodyOf(ep[t])
          /\ ep[t].pc \notin Ends /\ swept
      BY <1>3, <1>5, <1>11, <2>1, <2>3 DEF BodyOf, SlotOf, Ends
    <2> QED
      BY <2>2, <2>3, <2>4, MoveKeeps
  <1>12. CASE /\ e.pc = "quit" /\ e.box \in {"leaving", "deleting"}
              /\ Become(t, [r EXCEPT !.box = IF e.box = "leaving" THEN "deleting" ELSE "exposed"])
              /\ UNCHANGED <<gate, lost>>
    <2> DEFINE box == IF e.box = "leaving" THEN "deleting" ELSE "exposed"
               x == [r EXCEPT !.box = box]
    <2>1. /\ Entry(x) /\ x.pc = "quit" /\ x.box \in {"deleting", "exposed"} /\ x.out = << >>
          /\ x.raised = TRUE /\ x.todo = r.todo /\ x.cut = r.cut
      BY <1>6, <1>12 DEF Entry, Fields
    <2>2. Become(t, x) /\ UNCHANGED <<gate, free, swept, markers, alive, lost>>
      BY <1>2, <1>12
    <2> HIDE DEF x
    <2>3. TaskFits(x)
      BY <1>3, <1>5, <1>6, <1>12, <2>1 DEF TaskFits, Places, BoxFits, OutFits, Early, Exits, Ends
    <2>4. /\ SlotOf(x) <=> SlotOf(ep[t])
          /\ BodyOf(x) <=> BodyOf(ep[t])
          /\ ep[t].pc \notin Ends /\ swept
      BY <1>3, <1>5, <1>12, <2>1 DEF BodyOf, SlotOf, Ends
    <2> QED
      BY <2>1, <2>2, <2>3, <2>4, MoveKeeps
  <1>13. CASE e.pc = "exit" /\ Become(t, [e EXCEPT !.pc = "exit again"]) /\ UNCHANGED <<gate, lost>>
    <2> DEFINE x == [e EXCEPT !.pc = "exit again"]
    <2>1. /\ Entry(x) /\ x.pc = "exit again" /\ x.box = e.box /\ x.out = e.out
          /\ x.raised = e.raised /\ x.todo = e.todo /\ x.cut = e.cut
      BY <1>5 DEF Entry, Fields
    <2>2. Become(t, x) /\ UNCHANGED <<gate, free, swept, markers, alive, lost>>
      BY <1>2, <1>13
    <2> HIDE DEF x
    <2>3. TaskFits(x)
      BY <1>3, <1>5, <1>13, <2>1 DEF TaskFits, Places, BoxFits, OutFits, Early, Exits, Ends
    <2>4. /\ SlotOf(x) <=> SlotOf(ep[t])
          /\ BodyOf(x) <=> BodyOf(ep[t])
          /\ ep[t].pc \notin Ends /\ swept /\ x.box = ep[t].box
      BY <1>3, <1>5, <1>13, <2>1 DEF BodyOf, SlotOf, Ends
    <2> QED
      BY <2>2, <2>3, <2>4, MoveKeeps
  <1>14. CASE e.pc = "exit again" /\ Return(t, r) /\ UNCHANGED lost
    <2>1. r.box \in {"leaving", "deleting", "gone"} /\ swept /\ r.box = ep[t].box
      BY <1>3, <1>5, <1>6, <1>14 DEF TaskFits, BoxFits, Early, Ends
    <2>2. BodyOf(ep[t]) /\ Bit(r.box \in {"leaving", "deleting"}) = Bit(SlotOf(ep[t]))
      BY <1>5, <1>6, <1>14, <2>1 DEF Bit, BodyOf, SlotOf
    <2>3. free' \in Int /\ lost' = lost /\ free' + Bit(r.box \in {"leaving", "deleting"}) = free + Bit(SlotOf(ep[t]))
      BY <1>2, <1>3, <1>14, <2>2
    <2> QED
      BY <1>2, <1>5, <1>6, <1>14, <2>1, <2>2, <2>3, ReturnKeeps
  <1> QED
    BY <1>1, <1>7, <1>8, <1>9, <1>10, <1>11, <1>12, <1>13, <1>14 DEF e, r

LEMMA CancelReleaseKeeps ==
  ASSUME EpisodeInv, NEW t \in Tasks, CancelRelease(t)
  PROVE  EpisodeInv'
  <1>1. PICK kind \in Kinds(ep[t]) \ ep[t].cut :
          Return(t, [ep[t] EXCEPT !.cut = @ \cup {kind}, !.raised = TRUE, !.box = "gone"])
    BY DEF CancelRelease
  <1> DEFINE e == [ep[t] EXCEPT !.cut = @ \cup {kind}, !.raised = TRUE, !.box = "gone"]
  <1>2. /\ ep[t].pc = "quit" /\ ep[t].box = "exposed" /\ Return(t, e) /\ free' = free + 1
        /\ UNCHANGED <<swept, markers, alive>> /\ lost' = lost
    BY <1>1 DEF CancelRelease, At
  <1>3. TaskFits(ep[t]) /\ free \in Int /\ (ep[t].box # "none" => swept)
    BY TaskIs
  <1>4. kind \in {"cancelled", "expired"}
    BY DEF Kinds
  <1>5. Entry(e) /\ e.box = "gone" /\ e.raised = TRUE /\ e.cut \subseteq {"cancelled", "expired"}
    BY <1>3, <1>4 DEF TaskFits, Entry, Fields
  <1> HIDE DEF e
  <1>6. BodyOf(ep[t]) /\ Bit(e.box \in {"leaving", "deleting"}) = 0 /\ Bit(SlotOf(ep[t])) = 1
    BY <1>2, <1>5 DEF Bit, BodyOf, SlotOf
  <1>7. free' \in Int /\ lost' = lost /\ free' + Bit(e.box \in {"leaving", "deleting"}) = free + Bit(SlotOf(ep[t]))
    BY <1>2, <1>3, <1>6
  <1> QED
    BY <1>2, <1>3, <1>5, <1>6, <1>7, ReturnKeeps

-----------------------------------------------------------------------------

LEMMA EpisodeInitInv == EpisodeInit => EpisodeInv
  <1> SUFFICES ASSUME EpisodeInit PROVE EpisodeInv
    OBVIOUS
  <1> USE DEF EpisodeInit
  <1>1. Entry(Fresh) /\ TaskFits(Fresh)
    BY DEF Fresh, Entry, Fields, TaskFits, Places, BoxFits, OutFits, Early, Exits, Ends
  <1>2. EpisodeTypeOK
    <2>1. gate \in Int /\ free \in Int /\ lost \subseteq Tasks
      BY EpisodeAssumption
    <2>2. swept \in BOOLEAN
      BY Zenon
    <2> QED
      BY <1>1, <2>1, <2>2 DEF EpisodeTypeOK
  <1>3. SweepsOld /\ LostEnded
    BY DEF SweepsOld, LostEnded, Fresh
  <1>4. SandboxesAccounted
    <2>1. {t \in Tasks : HoldsSlot(t)} = {} /\ {t \in Tasks : InBody(t)} = {} /\ lost = {}
      BY DEF HoldsSlot, InBody, Fresh
    <2>2. \A t \in Tasks : ep[t].box \notin {"up", "leaving"}
      BY DEF Fresh
    <2>3. Cardinality({}) = 0
      BY FS_EmptySet
    <2>4. MaxSandboxes \in Nat /\ GateLimit \in Nat
      BY EpisodeAssumption
    <2> QED
      BY <2>1, <2>2, <2>3, <2>4 DEF SandboxesAccounted
  <1> QED
    BY <1>2, <1>3, <1>4 DEF EpisodeInv

LEMMA EpisodeStepInv == EpisodeInv /\ [EpisodeNext]_episodeVars => EpisodeInv'
  <1> SUFFICES ASSUME EpisodeInv, [EpisodeNext]_episodeVars PROVE EpisodeInv'
    OBVIOUS
  <1>1. CASE UNCHANGED episodeVars
    BY <1>1 DEF episodeVars, EpisodeInv, EpisodeTypeOK, SweepsOld, LostEnded, SandboxesAccounted,
                HoldsSlot, InBody
  <1>2. ASSUME NEW t \in Tasks, Proceed(t)
        PROVE  EpisodeInv'
    <2>1. CASE Provision(t)
      BY <2>1, AcquireKeeps, AcquireTimeoutKeeps, CreateKeeps, ProvisionFailsKeeps, BootKeeps,
         ProvisionFailedKeeps, ResetKeeps, ResetFailsKeeps DEF Provision
    <2> QED
      BY <1>2, <2>1, EnterKeeps, SweepOneKeeps, SweepEndKeeps, TurnKeeps, LeftKeeps, JudgeKeeps
         DEF Proceed
  <1>3. ASSUME NEW t \in Tasks, CleanUp(t)
        PROVE  EpisodeInv'
    BY <1>3, DestroyKeeps, ExitCallKeeps, DeleteKeeps DEF CleanUp
  <1>4. ASSUME NEW t \in Tasks, Interrupt(t) \/ CancelRelease(t)
        PROVE  EpisodeInv'
    BY <1>4, InterruptKeeps, CancelReleaseKeeps
  <1> QED
    BY <1>1, <1>2, <1>3, <1>4 DEF EpisodeNext

\* Whatever fails, times out or is cancelled, and whenever: free slots, slots
\* held and slots lost add up to the pool, places at the gate to its limit; no
\* sweep deletes the sandbox of a running task, and what is still there has a
\* marker for the next process.
THEOREM SandboxesAreAccounted == EpisodeSpec => []SandboxesAccounted
  <1>1. EpisodeInv => SandboxesAccounted
    BY DEF EpisodeInv
  <1> QED
    BY <1>1, EpisodeInitInv, EpisodeStepInv, PTL DEF EpisodeSpec

\* Whatever a task goes through, what it returns is one trajectory with one end,
\* rewarded unless it was aborted, with more than nothing only for what was
\* completed, or nothing at all.
THEOREM PromisesAreKept == EpisodeSpec => []ResultsAsPromised
  <1>1. EpisodeInv => ResultsAsPromised
    BY DEF EpisodeInv, EpisodeTypeOK, TaskFits, OutFits, Given, ResultsAsPromised
  <1> QED
    BY <1>1, EpisodeInitInv, EpisodeStepInv, PTL DEF EpisodeSpec

-----------------------------------------------------------------------------
(* From one specification to the next.                                         *)

\* What the tasks that are done have returned, but for the cancelled ones.
ResultsEndAlike ==
  \A t \in Tasks : ep[t].pc = "done" /\ ep[t].out # << >> => EndsAlike(ep[t].out)

LEMMA GivenEndsAlike ==
  ASSUME None = NoReward, NEW out, Given(out), out # << >>
  PROVE  EndsAlike(out)
  <1> DEFINE n == Len(out)
             kd == out[1].kind
             st == out[1].status
             re == out[1].reason
             rm == out[1].remove
             rw == out[1].reward
  <1>1. n \in Nat \ {0} /\ out = Same(n, kd, st, re, rm, rw) /\ rw \in {NoReward, -1, 0, 1}
    BY DEF Given, Alike
  <1>2. out[1] \in {out[i] : i \in DOMAIN out} /\ (st = "ABORTED" => rw = NoReward)
    <2>1. DOMAIN out = 1 .. n
      <3> HIDE DEF n, kd, st, re, rm, rw
      <3> QED
        BY <1>1, SameIs
    <2>2. 1 \in DOMAIN out
      BY <1>1, <2>1
    <2> QED
      BY <2>2 DEF Given, Promised
  <1> HIDE DEF n, kd, st, re, rm, rw
  <1>3. /\ DOMAIN out = 1 .. n
        /\ \A i \in 1 .. n : out[i].status = st /\ out[i].remove = rm /\ out[i].reward = rw
    BY <1>1, SameIs
  <1>4. rw \in Int \cup {None}
    BY <1>1 DEF NoReward
  <1>5. \A i, j \in DOMAIN out : /\ out[i].status = out[j].status /\ out[i].remove = out[j].remove
                                 /\ out[i].reward = out[j].reward
    BY <1>3
  <1>6. \A i \in DOMAIN out : /\ out[i].reward \in Int \cup {None}
                              /\ out[i].status = "ABORTED" => out[i].reward = None
    BY <1>2, <1>3, <1>4
  <1> QED
    BY <1>3, <1>5, <1>6 DEF EndsAlike, n

\* What the batch assumes of a trajectory (AttemptsAssumption) is what a browser
\* task returns, whatever it went through, unless it was cancelled.
THEOREM ResultsFitTheBatch ==
  ASSUME None = NoReward
  PROVE  EpisodeSpec => []ResultsEndAlike
  <1>1. EpisodeInv => ResultsEndAlike
    BY GivenEndsAlike DEF EpisodeInv, EpisodeTypeOK, TaskFits, OutFits, ResultsEndAlike
  <1> QED
    BY <1>1, EpisodeInitInv, EpisodeStepInv, PTL DEF EpisodeSpec

-----------------------------------------------------------------------------
(* From trajectories to a batch: the invariant.                                *)

\* The samples that the batch may have: those of a trajectory that was kept.
IsSampleOfKept(id) ==
  /\ id = <<id[1], id[2], id[3]>> /\ Trajectory(id) \in kept /\ id[3] \in DOMAIN runs[id[1]][id[2]]
SampleIds == Groups \X Attempts \X Nat

KeptFits == \A p \in kept : /\ p \in Groups \X Attempts /\ Reward(p[1], p[2]) # None
DataFits ==
  /\ data \in Seq(SampleIds) /\ OneToOne(data)
  /\ \A id \in InBatch : IsSampleOfKept(id)
\* The size that Trim has settled for.
SizeFits ==
  /\ gbs \in Nat \ {0} /\ gbs % Dp = 0 /\ Len(data) >= gbs
  /\ opt.epochs = 1 => Len(data) % gbs = 0
  /\ opt.epochs # 1 /\ opt.dynamic => gbs = DynamicBatchSize(Len(data))
\* Each rank has chosen samples of its own, and how many.
ChosenFits ==
  chosen # << >> =>
    \A r \in Ranks :
      /\ chosen[r] \subseteq shards[r]
      /\ Cardinality(chosen[r]) = IF opt.epochs = 1 THEN Cardinality(shards[r]) ELSE Selected(r)

\* The invariant of the batch, stage by stage.
BatchInv ==
  /\ opt \in Options /\ runs \in Rollouts /\ todo \subseteq Groups
  /\ stage \in {"filter", "trim", "convert", "epoch", "raised"}
  /\ KeptFits /\ DataFits
  /\ stage = "filter" => data = << >>
  /\ stage = "trim" => data # << >>
  /\ stage \in {"convert", "epoch"} => SizeFits
  /\ stage # "epoch" => rows = << >> /\ shards = << >> /\ chosen = << >>
  /\ stage = "epoch" => /\ rows = [id \in InBatch |-> Row(id)]
                        /\ shards = [r \in Ranks |-> Strided(r)]
                        /\ ChosenFits

-----------------------------------------------------------------------------
(* The order of the attempts and their samples.                                *)

\* The numbers of the attempts: each is one, all differ, none is left out.
LEMMA AttemptType ==
  ASSUME NEW n \in 1 .. NumGroups * NumAttempts
  PROVE  Attempt(n) \in Groups \X Attempts
  <1>1. NumGroups \in Nat \ {0} /\ NumAttempts \in Nat \ {0} /\ n - 1 \in Int
    BY BatchAssumption
  <1> DEFINE q == (n - 1) \div NumAttempts
             r == (n - 1) % NumAttempts
  <1>2. q \in Int /\ r \in 0 .. NumAttempts - 1 /\ n - 1 = NumAttempts * q + r
    BY <1>1, DivMod
  <1>3. Attempt(n) = <<1 + q, 1 + r>>
    BY DEF Attempt
  <1> HIDE DEF q, r
  <1>4. q >= 0
    <2> SUFFICES ASSUME q < 0 PROVE FALSE
      BY <1>2
    <2>1. NumAttempts * q + NumAttempts <= NumAttempts * 0
      BY <1>1, <1>2, MultBound
    <2>2. NumAttempts * q \in Int /\ NumAttempts * 0 = 0
      BY <1>1, <1>2
    <2> QED
      BY <1>1, <1>2, <2>1, <2>2
  <1>5. q < NumGroups
    <2> SUFFICES ASSUME NumGroups < q + 1 PROVE FALSE
      BY <1>1, <1>2
    <2>1. NumAttempts * NumGroups + NumAttempts <= NumAttempts * (q + 1)
      BY <1>1, <1>2, MultBound
    <2>2. NumAttempts * (q + 1) = NumAttempts * q + NumAttempts
      BY <1>1, <1>2
    <2>3. NumAttempts * q \in Int /\ NumAttempts * NumGroups \in Int
          /\ NumGroups * NumAttempts = NumAttempts * NumGroups
      BY <1>1, <1>2
    <2> QED
      BY <1>1, <1>2, <2>1, <2>2, <2>3
  <1> QED
    BY <1>1, <1>2, <1>3, <1>4, <1>5 DEF Groups, Attempts

LEMMA AttemptsDiffer ==
  ASSUME NEW m \in 1 .. NumGroups * NumAttempts, NEW n \in 1 .. NumGroups * NumAttempts,
         Attempt(m) = Attempt(n)
  PROVE  m = n
  <1>1. NumAttempts \in Nat \ {0} /\ m - 1 \in Int /\ n - 1 \in Int
    BY BatchAssumption
  <1>2. /\ (m - 1) \div NumAttempts \in Int
        /\ (m - 1) % NumAttempts \in 0 .. NumAttempts - 1
        /\ m - 1 = NumAttempts * ((m - 1) \div NumAttempts) + ((m - 1) % NumAttempts)
    BY <1>1, DivMod
  <1>3. /\ (n - 1) \div NumAttempts \in Int
        /\ (n - 1) % NumAttempts \in 0 .. NumAttempts - 1
        /\ n - 1 = NumAttempts * ((n - 1) \div NumAttempts) + ((n - 1) % NumAttempts)
    BY <1>1, DivMod
  <1> DEFINE qm == (m - 1) \div NumAttempts
             qn == (n - 1) \div NumAttempts
             rm == (m - 1) % NumAttempts
             rn == (n - 1) % NumAttempts
  <1>4. 1 + qm = 1 + qn /\ 1 + rm = 1 + rn
    BY DEF Attempt
  <1>5. /\ qm \in Int /\ rm \in Int /\ m - 1 = NumAttempts * qm + rm
        /\ qn \in Int /\ rn \in Int /\ n - 1 = NumAttempts * qn + rn
    BY <1>1, <1>2, <1>3
  <1> HIDE DEF qm, qn, rm, rn
  <1>6. qm = qn /\ rm = rn
    BY <1>4, <1>5
  <1> QED
    BY <1>1, <1>5, <1>6

LEMMA AttemptsAll ==
  ASSUME NEW g \in Groups, NEW a \in Attempts
  PROVE  \E n \in 1 .. NumGroups * NumAttempts : Attempt(n) = <<g, a>>
  <1>1. NumGroups \in Nat \ {0} /\ NumAttempts \in Nat \ {0} /\ g \in 1 .. NumGroups /\ a \in 1 .. NumAttempts
    BY BatchAssumption DEF Groups, Attempts
  <1> DEFINE n == NumAttempts * (g - 1) + a
  <1>2. NumAttempts * (g - 1) \in Nat
    BY <1>1
  <1>3. NumAttempts * (g - 1) + NumAttempts <= NumAttempts * NumGroups
    BY <1>1, MultBound
  <1>4. NumAttempts * NumGroups = NumGroups * NumAttempts /\ NumGroups * NumAttempts \in Int
    BY <1>1
  <1>5. n \in 1 .. NumGroups * NumAttempts
    BY <1>1, <1>2, <1>3, <1>4
  <1>6. n - 1 = NumAttempts * (g - 1) + (a - 1)
    BY <1>1, <1>2
  <1>7. (n - 1) \div NumAttempts = g - 1 /\ (n - 1) % NumAttempts = a - 1
    <2>1. n - 1 \in Int /\ g - 1 \in Int /\ a - 1 \in 0 .. NumAttempts - 1
      BY <1>1, <1>2
    <2> HIDE DEF n
    <2> QED
      BY <1>1, <1>6, <2>1, DivUnique
  <1>8. Attempt(n) = <<g, a>>
    <2> HIDE DEF n
    <2> QED
      BY <1>1, <1>7 DEF Attempt
  <1> QED
    BY <1>5, <1>8

LEMMA RolloutFacts ==
  ASSUME NEW g \in Groups, NEW a \in Attempts, runs \in Rollouts
  PROVE  /\ Len(runs[g][a]) \in Nat /\ EndsAlike(runs[g][a])
         /\ DOMAIN runs[g][a] = 1 .. Len(runs[g][a]) /\ runs[g][a] # << >>
  BY AttemptsAssumption DEF Groups, Attempts, EndsAlike

\* The batch has the samples of the trajectories kept, each once.
LEMMA AssembledFits ==
  ASSUME BatchInv, kept # {},
         NEW d, d = FlattenSeq([n \in 1 .. NumGroups * NumAttempts |-> TurnsOf(Attempt(n))])
  PROVE  /\ d \in Seq(SampleIds) /\ OneToOne(d) /\ d # << >>
         /\ \A id \in ToSet(d) : IsSampleOfKept(id)
  <1> DEFINE N == NumGroups * NumAttempts
             seqs == [n \in 1 .. N |-> TurnsOf(Attempt(n))]
  <1>0. N \in Nat
    BY BatchAssumption
  <1>1. ASSUME NEW n \in 1 .. N
        PROVE  /\ TurnsOf(Attempt(n)) \in Seq(SampleIds)
               /\ \A i \in 1 .. Len(TurnsOf(Attempt(n))) :
                    LET id == TurnsOf(Attempt(n))[i]
                    IN  IsSampleOfKept(id) /\ Trajectory(id) = Attempt(n) /\ id[3] = i
               /\ Attempt(n) \in kept => Len(TurnsOf(Attempt(n))) # 0
    <2> DEFINE p == Attempt(n)
    <2>1. PICK g \in Groups, a \in Attempts : p = <<g, a>>
      BY AttemptType
    <2> HIDE DEF p
    <2>2. CASE p \in kept
      <3> DEFINE L == Len(runs[g][a])
      <3>1. DOMAIN runs[g][a] = 1 .. L /\ L \in Nat /\ runs[g][a] # << >> /\ L # 0
        <4>1. DOMAIN runs[g][a] = 1 .. L /\ L \in Nat /\ runs[g][a] # << >>
          BY RolloutFacts DEF BatchInv
        <4>2. L # 0
          BY AttemptsAssumption, <4>1 DEF BatchInv, EndsAlike, Groups, Attempts
        <4> QED
          BY <4>1, <4>2
      <3>2. TurnsOf(p) = [i \in 1 .. L |-> <<g, a, i>>]
        BY <2>1, <2>2, <3>1 DEF TurnsOf
      <3> HIDE DEF L
      <3>3. TurnsOf(p) \in Seq(SampleIds) /\ Len(TurnsOf(p)) = L
        BY <3>1, <3>2 DEF SampleIds
      <3>4. ASSUME NEW i \in 1 .. Len(TurnsOf(p))
            PROVE  /\ IsSampleOfKept(TurnsOf(p)[i]) /\ Trajectory(TurnsOf(p)[i]) = p
                   /\ TurnsOf(p)[i][3] = i
        <4>1. TurnsOf(p)[i] = <<g, a, i>> /\ i \in DOMAIN runs[g][a]
          BY <3>1, <3>2, <3>3
        <4> QED
          BY <2>1, <2>2, <4>1 DEF IsSampleOfKept, Trajectory
      <3> QED
        BY <3>1, <3>3, <3>4 DEF p
    <2>3. CASE p \notin kept
      <3>1. TurnsOf(p) = << >>
        BY <2>3 DEF TurnsOf
      <3> QED
        BY <2>3, <3>1 DEF p
    <2> QED
      BY <2>2, <2>3
  <1>2. seqs \in Seq(Seq(SampleIds)) /\ Len(seqs) = N /\ \A n \in 1 .. N : seqs[n] = TurnsOf(Attempt(n))
    BY <1>0, <1>1
  <1>3. d = FlattenSeq(seqs)
    OBVIOUS
  <1> HIDE DEF seqs, N
  <1>4. /\ d \in Seq(SampleIds) /\ Among(d, seqs, N)
        /\ AllDistinct(seqs) => OneToOne(d)
    BY <1>2, <1>3, FlattenElements
  <1>5. Covers(d, seqs, N)
    BY <1>2, <1>3, FlattenCovers
  <1>6. AllDistinct(seqs)
    <2> SUFFICES ASSUME NEW i \in 1 .. N, NEW j \in 1 .. N,
                        NEW p \in 1 .. Len(seqs[i]), NEW q \in 1 .. Len(seqs[j]), seqs[i][p] = seqs[j][q]
                 PROVE  i = j /\ p = q
      BY <1>2 DEF AllDistinct
    <2>1. Trajectory(seqs[i][p]) = Attempt(i) /\ seqs[i][p][3] = p
      BY <1>1, <1>2
    <2>2. Trajectory(seqs[j][q]) = Attempt(j) /\ seqs[j][q][3] = q
      BY <1>1, <1>2
    <2>3. Attempt(i) = Attempt(j) /\ p = q
      BY <2>1, <2>2
    <2> QED
      BY <2>3, AttemptsDiffer DEF N
  <1>7. \A id \in ToSet(d) : IsSampleOfKept(id)
    <2> SUFFICES ASSUME NEW j \in 1 .. Len(d) PROVE IsSampleOfKept(d[j])
      BY <1>4 DEF ToSet
    <2>1. PICK i \in 1 .. N : \E p \in 1 .. Len(seqs[i]) : d[j] = seqs[i][p]
      BY <1>4 DEF Among
    <2>2. PICK p \in 1 .. Len(seqs[i]) : d[j] = seqs[i][p]
      BY <2>1
    <2>3. IsSampleOfKept(TurnsOf(Attempt(i))[p])
      BY <1>1, <1>2
    <2> QED
      BY <1>2, <2>2, <2>3
  <1>8. d # << >>
    <2>1. PICK p \in kept : p \in Groups \X Attempts
      BY DEF BatchInv, KeptFits
    <2>2. PICK n \in 1 .. N : Attempt(n) = p
      BY <2>1, AttemptsAll DEF N
    <2>3. seqs[n] \in Seq(SampleIds) /\ Len(seqs[n]) # 0
      BY <1>1, <1>2, <2>1, <2>2
    <2>4. 1 \in 1 .. Len(seqs[n])
      BY <2>3
    <2>5. \E j \in 1 .. Len(d) : d[j] = seqs[n][1]
      BY <1>5, <2>4 DEF Covers
    <2> QED
      BY <2>5
  <1> QED
    BY <1>4, <1>6, <1>7, <1>8

-----------------------------------------------------------------------------
(* The sizes.                                                                  *)

\* A batch size is a multiple of the ranks, and not 0.
LEMMA BatchSizeFits ==
  ASSUME opt \in Options, NEW n \in Nat
  PROVE  BatchSize(n) \in Nat \ {0} /\ BatchSize(n) % Dp = 0
  <1>1. Dp \in Nat \ {0} /\ opt.gbs \in Nat \ {0} /\ opt.gbs % Dp = 0
    BY BatchAssumption
  <1>2. n \div Dp \in Nat
    BY <1>1, WholePart
  <1> DEFINE q == n \div Dp
  <1>3. CASE opt.dynamic /\ q = 0
    <2>1. Dp * 1 = Dp
      BY <1>1
    <2>2. (Dp * 1) % Dp = 0
      BY <1>1, Multiple
    <2> QED
      BY <1>1, <1>3, <2>1, <2>2 DEF BatchSize, DynamicBatchSize
  <1>4. CASE opt.dynamic /\ q # 0
    <2>1. BatchSize(n) = q * Dp
      BY <1>4 DEF BatchSize, DynamicBatchSize
    <2> HIDE DEF q
    <2>2. q * Dp = Dp * q /\ q * Dp \in Nat \ {0} /\ q \in Int
      BY <1>1, <1>2, <1>4 DEF q
    <2>3. (Dp * q) % Dp = 0
      BY <1>1, <2>2, Multiple
    <2> QED
      BY <2>1, <2>2, <2>3
  <1>5. CASE ~ opt.dynamic
    BY <1>1, <1>5 DEF BatchSize
  <1> QED
    BY <1>3, <1>4, <1>5

-----------------------------------------------------------------------------
(* The shuffle.                                                                *)

\* A finite set of numbers has an element that m others precede.
LEMMA NthExists ==
  ASSUME NEW S \in SUBSET Nat, IsFiniteSet(S), NEW m \in 0 .. Cardinality(S) - 1
  PROVE  Nth(S, m) \in S /\ Cardinality({j \in S : j < Nth(S, m)}) = m
  <1> DEFINE order == {p \in Nat \X Nat : p[1] < p[2]}
  <1>1. IsTotalOrder(S, order)
    BY DEF IsTotalOrder
  <1>2. \A x \in S : Earlier(S, order, x) = {j \in S : j < x}
    BY DEF Earlier
  <1> HIDE DEF order
  <1>3. \E x \in S : Cardinality(Earlier(S, order, x)) = m
    BY <1>1, RanksExist
  <1>4. \E x \in S : Cardinality({j \in S : j < x}) = m
    BY <1>2, <1>3
  <1> QED
    BY <1>4 DEF Nth

\* A shuffle has samples of the batch, each once.
LEMMA ShuffledFits ==
  ASSUME BatchInv, NEW n \in Nat, n % Dp = 0, NEW d \in Shuffled(n)
  PROVE  d \in Seq(SampleIds) /\ OneToOne(d) /\ Len(d) = n /\ ToSet(d) \subseteq InBatch
  <1>0. Dp \in Nat \ {0} /\ data \in Seq(SampleIds) /\ OneToOne(data)
    BY BatchAssumption DEF BatchInv, DataFits
  <1>1. PICK deal \in [DOMAIN data -> 0 .. Dp] :
          /\ \A r \in Ranks : Cardinality({i \in DOMAIN data : deal[i] = r}) = n \div Dp
          /\ d = [j \in 1 .. n |-> data[Nth({i \in DOMAIN data : deal[i] = (j - 1) % Dp}, (j - 1) \div Dp)]]
    BY DEF Shuffled
  <1> DEFINE S(r) == {i \in DOMAIN data : deal[i] = r}
             x(j) == Nth(S((j - 1) % Dp), (j - 1) \div Dp)
  <1>2. n \div Dp \in Nat /\ n = Dp * (n \div Dp)
    BY <1>0, ExactDivision
  <1>3. ASSUME NEW j \in 1 .. n
        PROVE  /\ (j - 1) % Dp \in Ranks /\ (j - 1) \div Dp \in 0 .. (n \div Dp) - 1
               /\ j - 1 = Dp * ((j - 1) \div Dp) + ((j - 1) % Dp)
    <2>1. j - 1 \in Nat /\ j - 1 < n
      OBVIOUS
    <2>2. /\ (j - 1) \div Dp \in Int /\ (j - 1) % Dp \in 0 .. Dp - 1
          /\ j - 1 = Dp * ((j - 1) \div Dp) + ((j - 1) % Dp)
      BY <1>0, <2>1, DivMod
    <2>3. (j - 1) \div Dp \in Nat
      BY <1>0, <2>1, WholePart
    <2> DEFINE q == (j - 1) \div Dp
               r == (j - 1) % Dp
               e == n \div Dp
    <2>4. q \in Nat /\ r \in 0 .. Dp - 1 /\ j - 1 = Dp * q + r /\ e \in Nat /\ n = Dp * e
      BY <1>2, <2>2, <2>3
    <2> HIDE DEF q, r, e
    <2>5. q < e
      <3> SUFFICES ASSUME e <= q PROVE FALSE
        BY <2>4
      <3>1. Dp * e <= Dp * q
        <4>1. e < q => Dp * e + Dp <= Dp * q
          BY <1>0, <2>4, MultBound
        <4>2. Dp * e \in Int /\ Dp * q \in Int
          BY <1>0, <2>4
        <4> QED
          BY <1>0, <2>4, <4>1, <4>2
      <3>2. Dp * e \in Int /\ Dp * q \in Int
        BY <1>0, <2>4
      <3> QED
        BY <2>1, <2>4, <3>1, <3>2
    <2> QED
      BY <2>2, <2>4, <2>5 DEF Ranks, q, r, e
  <1>4. ASSUME NEW j \in 1 .. n
        PROVE  /\ x(j) \in DOMAIN data /\ deal[x(j)] = (j - 1) % Dp
               /\ Cardinality({i \in S((j - 1) % Dp) : i < x(j)}) = (j - 1) \div Dp
    <2> DEFINE r == (j - 1) % Dp
               m == (j - 1) \div Dp
    <2>1. S(r) \in SUBSET Nat /\ IsFiniteSet(S(r))
      <3>1. IsFiniteSet(DOMAIN data) /\ DOMAIN data \subseteq Nat
        <4>1. DOMAIN data = 1 .. Len(data) /\ Len(data) \in Nat
          BY <1>0
        <4> QED
          BY <4>1, FS_Interval
      <3>2. S(r) \in SUBSET (DOMAIN data)
        OBVIOUS
      <3> QED
        BY <3>1, <3>2, FS_Subset
    <2>2. Cardinality(S(r)) = n \div Dp /\ m \in 0 .. (n \div Dp) - 1
      BY <1>1, <1>3
    <2>3. Nth(S(r), m) \in S(r) /\ Cardinality({i \in S(r) : i < Nth(S(r), m)}) = m
      <3> DEFINE T == S(r)
      <3>1. T \in SUBSET Nat /\ IsFiniteSet(T) /\ m \in 0 .. Cardinality(T) - 1
        BY <2>1, <2>2
      <3> HIDE DEF T, m
      <3>2. Nth(T, m) \in T /\ Cardinality({i \in T : i < Nth(T, m)}) = m
        BY <3>1, NthExists
      <3> QED
        BY <3>2 DEF T
    <2> QED
      BY <2>3
  <1>5. \A j \in 1 .. n : d[j] = data[x(j)] /\ d[j] \in SampleIds /\ d[j] \in InBatch
    <2> SUFFICES ASSUME NEW j \in 1 .. n PROVE d[j] = data[x(j)] /\ d[j] \in SampleIds /\ d[j] \in InBatch
      OBVIOUS
    <2>1. d[j] = data[x(j)]
      BY <1>1
    <2>2. x(j) \in DOMAIN data
      BY <1>4
    <2> HIDE DEF x
    <2> QED
      BY <1>0, <2>1, <2>2 DEF InBatch, ToSet
  <1>6. d \in Seq(SampleIds) /\ Len(d) = n /\ DOMAIN d = 1 .. n
    <2>1. d = [j \in 1 .. n |-> d[j]]
      BY <1>1
    <2> HIDE DEF x, S
    <2>2. \A j \in 1 .. n : d[j] \in SampleIds
      BY <1>5
    <2>3. d \in [1 .. n -> SampleIds]
      BY <2>1, <2>2
    <2> QED
      BY <2>3
  <1>7. ASSUME NEW j \in 1 .. n, NEW l \in 1 .. n, d[j] = d[l] PROVE j = l
    <2>1. data[x(j)] = data[x(l)]
      BY <1>5, <1>7
    <2>2. x(j) = x(l)
      <3>0. DOMAIN data = 1 .. Len(data)
        BY <1>0
      <3>1. x(j) \in 1 .. Len(data) /\ x(l) \in 1 .. Len(data)
        <4>1. x(j) \in DOMAIN data /\ x(l) \in DOMAIN data
          BY <1>4
        <4> HIDE DEF x, S
        <4> QED
          BY <3>0, <4>1
      <3> HIDE DEF x
      <3> QED
        BY <1>0, <2>1, <3>1 DEF OneToOne
    <2>3. (j - 1) % Dp = (l - 1) % Dp
      BY <1>4, <2>2
    <2>4. (j - 1) \div Dp = (l - 1) \div Dp
      <3>1. S((j - 1) % Dp) = S((l - 1) % Dp)
        BY <2>3
      <3>2. {i \in S((j - 1) % Dp) : i < x(j)} = {i \in S((l - 1) % Dp) : i < x(l)}
        BY <2>2, <3>1
      <3>3. /\ Cardinality({i \in S((j - 1) % Dp) : i < x(j)}) = (j - 1) \div Dp
            /\ Cardinality({i \in S((l - 1) % Dp) : i < x(l)}) = (l - 1) \div Dp
        BY <1>4
      <3> HIDE DEF S, x
      <3> QED
        BY <3>2, <3>3
    <2>5. /\ j - 1 = Dp * ((j - 1) \div Dp) + ((j - 1) % Dp)
          /\ l - 1 = Dp * ((l - 1) \div Dp) + ((l - 1) % Dp)
      BY <1>3
    <2>6. j - 1 = l - 1
      BY <2>3, <2>4, <2>5
    <2> QED
      BY <2>6
  <1>8. OneToOne(d)
    BY <1>6, <1>7 DEF OneToOne
  <1>9. ToSet(d) \subseteq InBatch
    <2> HIDE DEF x, S
    <2> QED
      BY <1>5, <1>6 DEF ToSet
  <1> QED
    BY <1>6, <1>8, <1>9

-----------------------------------------------------------------------------
(* The invariant holds initially and every step keeps it.                      *)

\* The invariant of the batch holds at first, and each step keeps it.
LEMMA BatchStarts == BatchInit => BatchInv
  <1> SUFFICES ASSUME BatchInit PROVE BatchInv
    OBVIOUS
  <1>1. /\ opt \in Options /\ runs \in Rollouts /\ todo = Groups /\ kept = {} /\ stage = "filter"
        /\ data = << >> /\ rows = << >> /\ shards = << >> /\ chosen = << >>
    BY DEF BatchInit
  <1>2. KeptFits
    BY <1>1 DEF KeptFits
  <1>3. DataFits
    <2>1. InBatch = {} /\ data \in Seq(SampleIds) /\ OneToOne(data)
      BY <1>1 DEF InBatch, ToSet, OneToOne
    <2> QED
      BY <2>1 DEF DataFits
  <1> QED
    BY <1>1, <1>2, <1>3 DEF BatchInv

LEMMA FilterKeeps ==
  ASSUME BatchInv, NEW g \in Groups, Filter(g)
  PROVE  BatchInv'
  <1>1. /\ stage = "filter" /\ todo' = todo \ {g}
        /\ \/ kept' = kept \cup {<<g, a>> : a \in Judged(g)}
           \/ kept' = kept
        /\ opt' = opt /\ runs' = runs /\ stage' = stage /\ data' = data
        /\ rows' = rows /\ shards' = shards /\ chosen' = chosen
    BY DEF Filter
  <1>2. KeptFits'
    <2>1. \A p \in kept : p \in Groups \X Attempts /\ Reward(p[1], p[2]) # None
      BY DEF BatchInv, KeptFits
    <2>2. \A a \in Judged(g) : <<g, a>> \in Groups \X Attempts /\ Reward(g, a) # None
      BY DEF Judged
    <2>3. \A p \in kept' : p \in Groups \X Attempts /\ Reward(p[1], p[2]) # None
      BY <1>1, <2>1, <2>2
    <2> QED
      BY <1>1, <2>3 DEF KeptFits, Reward
  <1>3. DataFits'
    <2>1. data' = << >>
      BY <1>1 DEF BatchInv
    <2>2. InBatch' = {} /\ data' \in Seq(SampleIds) /\ OneToOne(data')
      BY <2>1 DEF InBatch, ToSet, OneToOne
    <2> QED
      BY <2>2 DEF DataFits
  <1> QED
    BY <1>1, <1>2, <1>3 DEF BatchInv

LEMMA AssembleKeeps ==
  ASSUME BatchInv, Assemble
  PROVE  BatchInv'
  <1>1. /\ stage = "filter" /\ kept # {} /\ stage' = "trim"
        /\ data' = FlattenSeq([n \in 1 .. NumGroups * NumAttempts |-> TurnsOf(Attempt(n))])
        /\ opt' = opt /\ runs' = runs /\ todo' = todo /\ kept' = kept
        /\ rows' = rows /\ shards' = shards /\ chosen' = chosen
    BY DEF Assemble
  <1>2. KeptFits'
    BY <1>1 DEF BatchInv, KeptFits, Reward
  <1>3. /\ data' \in Seq(SampleIds) /\ OneToOne(data') /\ data' # << >>
        /\ \A id \in ToSet(data') : IsSampleOfKept(id)
    BY <1>1, AssembledFits
  <1>4. DataFits'
    <2>1. \A id \in ToSet(data') : IsSampleOfKept(id)'
      BY <1>1, <1>3 DEF IsSampleOfKept
    <2> QED
      BY <1>3, <2>1 DEF DataFits, InBatch
  <1> QED
    BY <1>1, <1>2, <1>3, <1>4 DEF BatchInv

LEMMA TrimKeeps ==
  ASSUME BatchInv, Trim
  PROVE  BatchInv'
  <1> DEFINE n == Len(data)
             size == BatchSize(n)
  <1>1. /\ stage = "trim" /\ gbs' = size
        /\ \/ n % size = 0 /\ stage' = "convert" /\ data' = data
           \/ stage' = "raised" /\ data' = data
           \/ n >= size /\ opt.epochs > 1 /\ stage' = "convert" /\ data' = data
           \/ n >= size /\ opt.epochs = 1 /\ data' \in Shuffled(TrimLen(n, size)) /\ stage' = "convert"
        /\ opt' = opt /\ runs' = runs /\ todo' = todo /\ kept' = kept
        /\ rows' = rows /\ shards' = shards /\ chosen' = chosen
    BY DEF Trim
  <1>2. /\ data \in Seq(SampleIds) /\ data # << >> /\ opt \in Options
        /\ rows = << >> /\ shards = << >> /\ chosen = << >>
    BY <1>1 DEF BatchInv, DataFits
  <1>3. n \in Nat /\ n # 0
    BY <1>2
  <1>4. size \in Nat \ {0} /\ size % Dp = 0
    BY <1>2, <1>3, BatchSizeFits
  <1>5. Dp \in Nat \ {0} /\ opt.epochs \in Nat \ {0}
    BY <1>2, BatchAssumption
  <1>6. opt.dynamic => size = DynamicBatchSize(n)
    BY DEF BatchSize
  <1> HIDE DEF n, size
  <1> DEFINE cut == TrimLen(n, size)
  <1>7. /\ cut \in Nat /\ cut % Dp = 0 /\ cut % size = 0
        /\ n >= size => cut >= size
    <2>1. n \div size \in Nat /\ (n >= size => n \div size # 0)
      BY <1>3, <1>4, WholePart
    <2>2. cut = (n \div size) * size
      BY DEF TrimLen
    <2> DEFINE q == n \div size
    <2>3. q \in Nat
      BY <2>1
    <2> HIDE DEF q
    <2>4. (q * size) % Dp = 0 /\ (q * size) % size = 0 /\ q * size \in Nat
      BY <1>4, <1>5, <2>3, MultipleOfBoth
    <2>5. q # 0 => q * size >= size
      <3> SUFFICES ASSUME q # 0 PROVE q * size >= size
        OBVIOUS
      <3>1. size * 0 + size <= size * q
        BY <1>4, <2>3, MultBound
      <3>2. size * 0 = 0 /\ size * q = q * size
        BY <1>4, <2>3
      <3> QED
        BY <1>4, <2>4, <3>1, <3>2
    <2> QED
      BY <2>1, <2>2, <2>4, <2>5 DEF q
  <1> HIDE DEF cut
  <1>8. data' = data \/ (/\ data' \in Seq(SampleIds) /\ OneToOne(data') /\ Len(data') = cut
                         /\ ToSet(data') \subseteq InBatch)
    <2>1. data' = data \/ data' \in Shuffled(cut)
      BY <1>1 DEF cut
    <2>2. \A d \in Shuffled(cut) : d \in Seq(SampleIds) /\ OneToOne(d) /\ Len(d) = cut /\ ToSet(d) \subseteq InBatch
      BY <1>7, ShuffledFits
    <2> QED
      BY <2>1, <2>2
  <1>9. KeptFits'
    BY <1>1 DEF BatchInv, KeptFits, Reward
  <1>10. DataFits'
    <2>1. data' \in Seq(SampleIds) /\ OneToOne(data') /\ ToSet(data') \subseteq InBatch
      BY <1>8 DEF BatchInv, DataFits, InBatch
    <2>2. \A id \in InBatch : IsSampleOfKept(id)
      BY DEF BatchInv, DataFits
    <2>3. \A id \in ToSet(data') : IsSampleOfKept(id)'
      BY <1>1, <2>1, <2>2 DEF IsSampleOfKept
    <2> QED
      BY <2>1, <2>3 DEF DataFits, InBatch
  <1>11. stage' = "convert" => SizeFits'
    <2> SUFFICES ASSUME stage' = "convert" PROVE SizeFits'
      OBVIOUS
    <2>1. CASE n % size = 0 /\ data' = data
      <3>1. n >= size
        BY <1>3, <1>4, <2>1, ExactDivision
      <3> QED
        BY <1>1, <1>4, <1>6, <2>1, <3>1 DEF SizeFits, DynamicBatchSize, n
    <2>2. CASE n >= size /\ opt.epochs > 1 /\ data' = data
      BY <1>1, <1>4, <1>5, <1>6, <2>2 DEF SizeFits, DynamicBatchSize, n
    <2>3. CASE n >= size /\ opt.epochs = 1 /\ data' \in Shuffled(cut)
      <3>1. Len(data') = cut
        BY <1>7, <2>3, ShuffledFits
      <3> QED
        BY <1>1, <1>4, <1>7, <2>3, <3>1 DEF SizeFits
    <2> QED
      BY <1>1, <2>1, <2>2, <2>3 DEF cut
  <1> QED
    BY <1>1, <1>2, <1>9, <1>10, <1>11 DEF BatchInv

LEMMA ConvertKeeps ==
  ASSUME BatchInv, Convert
  PROVE  BatchInv'
  <1>1. /\ stage = "convert" /\ stage' = "epoch"
        /\ rows' = [id \in InBatch |-> Row(id)] /\ shards' = [r \in Ranks |-> Strided(r)]
        /\ opt' = opt /\ runs' = runs /\ todo' = todo /\ kept' = kept /\ data' = data /\ gbs' = gbs
        /\ chosen' = chosen
    BY DEF Convert
  <1>2. KeptFits' /\ DataFits' /\ SizeFits'
    BY <1>1 DEF BatchInv, KeptFits, Reward, DataFits, InBatch, IsSampleOfKept, SizeFits, DynamicBatchSize
  <1>3. InBatch' = InBatch /\ (\A id : Row(id)' = Row(id)) /\ (\A r : Strided(r)' = Strided(r))
    BY <1>1 DEF InBatch, Row, Norm, BaseReward, Reward, Remaining, SampleOf, Strided
  <1>4. rows' = [id \in InBatch |-> Row(id)]' /\ shards' = [r \in Ranks |-> Strided(r)]'
    BY <1>1, <1>3
  <1>5. ChosenFits'
    BY <1>1 DEF BatchInv, ChosenFits
  <1> QED
    BY <1>1, <1>2, <1>4, <1>5 DEF BatchInv

LEMMA EpochKeeps ==
  ASSUME BatchInv, Epoch
  PROVE  BatchInv'
  <1>1. /\ stage = "epoch" /\ stage' = stage
        /\ \/ opt.epochs = 1 /\ chosen' = shards
           \/ /\ opt.epochs # 1
              /\ \E pick \in SUBSET InBatch :
                   /\ \A r \in Ranks : Cardinality(pick \cap shards[r]) = Selected(r)
                   /\ chosen' = [r \in Ranks |-> pick \cap shards[r]]
        /\ opt' = opt /\ runs' = runs /\ todo' = todo /\ kept' = kept /\ data' = data /\ gbs' = gbs
        /\ rows' = rows /\ shards' = shards
    BY DEF Epoch
  <1>2. KeptFits' /\ DataFits' /\ SizeFits'
    BY <1>1 DEF BatchInv, KeptFits, Reward, DataFits, InBatch, IsSampleOfKept, SizeFits, DynamicBatchSize
  <1>3. InBatch' = InBatch /\ (\A id : Row(id)' = Row(id)) /\ (\A r : Strided(r)' = Strided(r))
    BY <1>1 DEF InBatch, Row, Norm, BaseReward, Reward, Remaining, SampleOf, Strided
  <1>4. rows = [id \in InBatch |-> Row(id)] /\ shards = [r \in Ranks |-> Strided(r)]
    BY <1>1 DEF BatchInv
  <1>5. rows' = [id \in InBatch |-> Row(id)]' /\ shards' = [r \in Ranks |-> Strided(r)]'
    BY <1>1, <1>3, <1>4
  <1>6. \A r \in Ranks : /\ chosen'[r] \subseteq shards[r]
                         /\ Cardinality(chosen'[r]) =
                              IF opt.epochs = 1 THEN Cardinality(shards[r]) ELSE Selected(r)
    <2>1. CASE opt.epochs = 1 /\ chosen' = shards
      BY <2>1
    <2>2. CASE opt.epochs # 1
      <3>1. PICK pick \in SUBSET InBatch :
              /\ \A r \in Ranks : Cardinality(pick \cap shards[r]) = Selected(r)
              /\ chosen' = [r \in Ranks |-> pick \cap shards[r]]
        BY <1>1, <2>2
      <3> QED
        BY <2>2, <3>1
    <2> QED
      BY <1>1, <2>1, <2>2
  <1>7. \A r \in Ranks : Selected(r)' = Selected(r)
    BY <1>1 DEF Selected, Fewest
  <1>8. ChosenFits'
    BY <1>1, <1>6, <1>7 DEF ChosenFits
  <1> QED
    BY <1>1, <1>2, <1>5, <1>8 DEF BatchInv

\* BatchInv is an invariant of the batch.
THEOREM BatchInvariance == BatchSpec => []BatchInv
  <1>1. BatchInv /\ [BatchNext]_batchVars => BatchInv'
    <2> SUFFICES ASSUME BatchInv, [BatchNext]_batchVars PROVE BatchInv'
      OBVIOUS
    <2>1. CASE UNCHANGED batchVars
      <3>1. InBatch' = InBatch /\ (\A id : Row(id)' = Row(id)) /\ (\A r : Strided(r)' = Strided(r))
        BY <2>1 DEF batchVars, InBatch, Row, Norm, BaseReward, Reward, Remaining, SampleOf, Strided
      <3>2. KeptFits' = KeptFits /\ DataFits' = DataFits /\ SizeFits' = SizeFits /\ ChosenFits' = ChosenFits
        BY <2>1, <3>1 DEF batchVars, KeptFits, Reward, DataFits, InBatch, IsSampleOfKept, SizeFits,
             DynamicBatchSize, ChosenFits, Selected, Fewest
      <3> QED
        BY <2>1, <3>1, <3>2 DEF BatchInv, batchVars
    <2>2. CASE BatchNext
      BY <2>2, FilterKeeps, AssembleKeeps, TrimKeeps, ConvertKeeps, EpochKeeps DEF BatchNext
    <2> QED
      BY <2>1, <2>2
  <1> QED
    BY <1>1, BatchStarts, PTL DEF BatchSpec

-----------------------------------------------------------------------------
(* The credits.                                                                *)

\* The trajectories of a group that are left, and their credits.
LEMMA RemainingFacts ==
  ASSUME BatchInv, NEW g
  PROVE  /\ IsFiniteSet(Remaining(g))
         /\ \A p \in Remaining(g) : p = <<p[1], p[2]>> /\ p \in kept /\ p[1] = g /\ BaseReward(p) \in Int
  <1>1. /\ data \in Seq(SampleIds) /\ (\A id \in InBatch : IsSampleOfKept(id))
        /\ \A p \in kept : p \in Groups \X Attempts /\ Reward(p[1], p[2]) # None
    BY DEF BatchInv, DataFits, KeptFits
  <1>2. ASSUME NEW p \in Remaining(g)
        PROVE  p = <<p[1], p[2]>> /\ p \in kept /\ p[1] = g /\ BaseReward(p) \in Int
    <2>1. p[1] = g /\ \E id \in InBatch : p = Trajectory(id)
      BY DEF Remaining
    <2>2. p \in kept
      BY <1>1, <2>1 DEF IsSampleOfKept
    <2>3. p[1] \in Groups /\ p[2] \in Attempts /\ p = <<p[1], p[2]>> /\ Reward(p[1], p[2]) # None
      BY <1>1, <2>2
    <2> DEFINE t == runs[p[1]][p[2]]
    <2>4. EndsAlike(t) /\ Len(t) \in Nat /\ DOMAIN t = 1 .. Len(t) /\ t # << >>
      BY <2>3, RolloutFacts DEF BatchInv
    <2>5. Len(t) \in DOMAIN t
      <3>1. Len(t) # 0
        BY AttemptsAssumption, <2>3, <2>4, SMTT(30) DEF BatchInv, EndsAlike, Groups, Attempts
      <3> QED
        BY <2>4, <3>1
    <2>6. t[Len(t)].reward \in Int \cup {None}
      BY <2>4, <2>5 DEF EndsAlike
    <2>7. Reward(p[1], p[2]) = t[Len(t)].reward
      BY DEF Reward, Last
    <2> QED
      BY <2>1, <2>2, <2>3, <2>6, <2>7 DEF BaseReward
  <1>3. IsFiniteSet(kept)
    <2>1. IsFiniteSet(Groups) /\ IsFiniteSet(Attempts)
      BY BatchAssumption, FS_Interval DEF Groups, Attempts
    <2>2. IsFiniteSet(Groups \X Attempts)
      BY <2>1, FS_Product
    <2>3. kept \in SUBSET (Groups \X Attempts)
      BY <1>1
    <2> QED
      BY <2>2, <2>3, FS_Subset
  <1>4. Remaining(g) \in SUBSET kept
    BY <1>2
  <1> QED
    BY <1>2, <1>3, <1>4, FS_Subset

\* The credits of the trajectories that are left in a group add up to nothing.
LEMMA CreditsCancel ==
  ASSUME BatchInv, NEW g, NEW credit, \A p \in Remaining(g) : credit[p] = Norm(p)
  PROVE  SumFunctionOnSet(credit, Remaining(g)) = 0
  <1> DEFINE R == Remaining(g)
             m == Cardinality(R)
             f == [q \in R |-> BaseReward(q)]
             c == SumFunctionOnSet(f, R)
  <1>1. /\ IsFiniteSet(R) /\ m \in Nat
        /\ \A p \in R : p[1] = g /\ f[p] = BaseReward(p) /\ f[p] \in Int
    BY RemainingFacts, FS_CardinalityType
  <1>2. c \in Int
    <2> HIDE DEF f, R
    <2> QED
      BY <1>1, SumLaws
  <1>3. \A p \in R : f[p] \in Int /\ credit[p] = f[p] * m - c
    <2> SUFFICES ASSUME NEW p \in R PROVE f[p] \in Int /\ credit[p] = f[p] * m - c
      OBVIOUS
    <2>1. credit[p] = Norm(p) /\ p[1] = g /\ f[p] = BaseReward(p) /\ f[p] \in Int
      BY <1>1
    <2>2. SumFunction(f) = c
      BY DEF SumFunction
    <2>3. Norm(p) = BaseReward(p) * m - c
      BY <2>1, <2>2 DEF Norm
    <2> HIDE DEF f, R, c, m
    <2> QED
      BY <2>1, <2>3
  <1> HIDE DEF f, R, m
  <1>4. SumFunctionOnSet(credit, R) = SumFunctionOnSet(f, R) * m - c * Cardinality(R)
    <2> HIDE DEF c
    <2> QED
      BY <1>1, <1>2, <1>3, SumScaled
  <1>5. SumFunctionOnSet(credit, R) = c * m - c * m
    BY <1>4 DEF m, c
  <1>6. SumFunctionOnSet(credit, R) = 0
    <2> HIDE DEF c
    <2>1. c * m \in Int
      BY <1>1, <1>2
    <2> QED
      BY <1>5, <2>1
  <1> QED
    BY <1>6 DEF R

LEMMA OrderKept ==
  ASSUME NEW x \in Int, NEW y \in Int, NEW m \in Nat \ {0}, NEW c \in Int
  PROVE  (x * m - c < y * m - c) <=> (x < y)
  <1>1. x * m = m * x /\ y * m = m * y /\ m * x \in Int /\ m * y \in Int
    OBVIOUS
  <1>2. x < y => m * x + m <= m * y
    BY MultBound
  <1>3. y < x => m * y + m <= m * x
    BY MultBound
  <1> QED
    BY <1>1, <1>2, <1>3

\* The invariant implies the property of the credits,
LEMMA CreditFollows == BatchInv => CreditWithinGroup
  <1> SUFFICES ASSUME BatchInv PROVE CreditWithinGroup
    OBVIOUS
  <1>1. CASE stage # "epoch"
    <2>1. DOMAIN rows = {}
      BY <1>1 DEF BatchInv
    <2> QED
      BY <2>1 DEF CreditWithinGroup
  <1>2. CASE stage = "epoch"
    <2>1. rows = [id \in InBatch |-> Row(id)] /\ DOMAIN rows = InBatch
      BY <1>2 DEF BatchInv
    <2>2. \A id \in InBatch : rows[id].norm = Norm(Trajectory(id))
                             /\ rows[id].mask = IF SampleOf(id).remove THEN 0 ELSE 1
      BY <2>1 DEF Row
    <2>3. ASSUME NEW id \in InBatch
          PROVE  /\ Trajectory(id) = <<id[1], id[2]>> /\ Trajectory(id) \in Remaining(id[1])
                 /\ id[1] \in Groups /\ id[2] \in Attempts /\ id[3] \in DOMAIN runs[id[1]][id[2]]
                 /\ Reward(id[1], id[2]) # None
      <3>1. IsSampleOfKept(id)
        BY DEF BatchInv, DataFits
      <3>2. Trajectory(id) = <<id[1], id[2]>> /\ Trajectory(id)[1] = id[1] /\ Trajectory(id)[2] = id[2]
        BY DEF Trajectory
      <3>3. Trajectory(id) \in Groups \X Attempts /\ Reward(id[1], id[2]) # None
        BY <3>1, <3>2 DEF BatchInv, KeptFits, IsSampleOfKept
      <3> QED
        BY <3>1, <3>2, <3>3 DEF IsSampleOfKept, Remaining
    <2>4. ASSUME NEW id \in InBatch
          PROVE  LET s == SampleOf(id)
                 IN  /\ s.status # "ABORTED" /\ s.reward # None
                     /\ \A i \in DOMAIN runs[id[1]][id[2]] :
                          runs[id[1]][id[2]][i].remove => rows[id].mask = 0
      <3> DEFINE t == runs[id[1]][id[2]]
      <3>1. EndsAlike(t) /\ Len(t) \in Nat /\ DOMAIN t = 1 .. Len(t) /\ id[3] \in DOMAIN t
        BY <2>3, RolloutFacts DEF BatchInv
      <3>2. Len(t) \in DOMAIN t /\ Reward(id[1], id[2]) = t[Len(t)].reward
        <4>1. Reward(id[1], id[2]) = t[Len(t)].reward
          BY DEF Reward, Last
        <4> HIDE DEF t
        <4> QED
          BY <3>1, <4>1
      <3>3. SampleOf(id) = t[id[3]]
        BY DEF SampleOf
      <3>4. t[id[3]].reward # None
        <4> HIDE DEF t
        <4> QED
          BY <2>3, <3>1, <3>2 DEF EndsAlike
      <3>5. t[id[3]].status # "ABORTED"
        <4> HIDE DEF t
        <4> QED
          BY <3>1, <3>4 DEF EndsAlike
      <3>6. \A i \in DOMAIN t : t[i].remove => rows[id].mask = 0
        <4> HIDE DEF t
        <4>1. \A i \in DOMAIN t : t[i].remove = t[id[3]].remove
          BY <3>1 DEF EndsAlike
        <4> QED
          BY <2>2, <3>3, <4>1
      <3> QED
        BY <3>3, <3>4, <3>5, <3>6
    <2>5. ASSUME NEW id \in InBatch, NEW other \in InBatch, id[1] = other[1]
          PROVE  /\ (rows[id].norm < rows[other].norm) <=>
                      (BaseReward(Trajectory(id)) < BaseReward(Trajectory(other)))
                 /\ LET first(p) == CHOOSE x \in DOMAIN rows : Trajectory(x) = p
                    IN  SumFunction([p \in Remaining(id[1]) |-> rows[first(p)].norm]) = 0
      <3> DEFINE R == Remaining(id[1])
                 m == Cardinality(R)
                 c == SumFunctionOnSet([q \in R |-> BaseReward(q)], R)
                 x == BaseReward(Trajectory(id))
                 y == BaseReward(Trajectory(other))
                 credit == [p \in R |-> rows[CHOOSE z \in DOMAIN rows : Trajectory(z) = p].norm]
      <3>1. Trajectory(id) \in R /\ Trajectory(other) \in R
        BY <2>3, <2>5
      <3>2. IsFiniteSet(R) /\ \A p \in R : p \in kept /\ p[1] = id[1] /\ BaseReward(p) \in Int
        BY RemainingFacts
      <3>3. x \in Int /\ y \in Int
        BY <3>1, <3>2
      <3>4. m \in Nat \ {0}
        <4> HIDE DEF R
        <4> QED
          BY <3>1, <3>2, FS_CardinalityType, FS_EmptySet
      <3>5. c \in Int
        <4> DEFINE f == [q \in R |-> BaseReward(q)]
        <4>1. \A q \in R : f[q] \in Int
          BY <3>2
        <4> HIDE DEF f, R
        <4>2. SumFunctionOnSet(f, R) \in Int
          BY <3>2, <4>1, SumLaws
        <4> QED
          BY <4>2 DEF f
      <3>6. Norm(Trajectory(id)) = x * m - c /\ Norm(Trajectory(other)) = y * m - c
        <4>1. Trajectory(id)[1] = id[1] /\ Trajectory(other)[1] = id[1]
          BY <3>1, <3>2
        <4> QED
          BY <4>1 DEF Norm, SumFunction
      <3>7. rows[id].norm = Norm(Trajectory(id)) /\ rows[other].norm = Norm(Trajectory(other))
        BY <2>2
      <3>8. (rows[id].norm < rows[other].norm) <=> (x < y)
        <4> HIDE DEF x, y, m, c
        <4> QED
          BY <3>3, <3>4, <3>5, <3>6, <3>7, OrderKept
      <3>9. \A p \in R : credit[p] = Norm(p)
        <4> SUFFICES ASSUME NEW p \in R PROVE credit[p] = Norm(p)
          OBVIOUS
        <4>1. \E z \in DOMAIN rows : Trajectory(z) = p
          BY <2>1 DEF Remaining
        <4> DEFINE w == CHOOSE z \in DOMAIN rows : Trajectory(z) = p
        <4>2. w \in DOMAIN rows /\ Trajectory(w) = p
          BY <4>1
        <4>3. credit[p] = rows[w].norm
          OBVIOUS
        <4> HIDE DEF w
        <4> QED
          BY <2>1, <2>2, <4>2, <4>3
      <3>10. SumFunctionOnSet(credit, R) = 0
        <4> HIDE DEF credit
        <4> QED
          BY <3>9, CreditsCancel
      <3>11. SumFunction(credit) = 0
        BY <3>10 DEF SumFunction
      <3> QED
        BY <3>8, <3>11
    <2> QED
      BY <2>1, <2>4, <2>5 DEF CreditWithinGroup
  <1> QED
    BY <1>1, <1>2

\* Whatever is aborted, not judged, cut by the trim or dealt by the shuffle, for
\* any number of groups, attempts, turns and ranks: a trained turn belongs to an
\* attempt that ended and was judged, the turns of an attempt share its credit, a
\* better attempt has more, and the credits left in a group cancel out.
THEOREM CreditStaysWithinGroup == BatchSpec => []CreditWithinGroup
  BY BatchInvariance, CreditFollows, PTL

-----------------------------------------------------------------------------
(* The split.                                                                  *)

\* The strided split: disjoint, exhaustive, and its sizes.
LEMMA StridedFacts ==
  ASSUME BatchInv
  PROVE  /\ UNION {Strided(r) : r \in Ranks} = InBatch
         /\ \A r, q \in Ranks : r # q => Strided(r) \cap Strided(q) = {}
         /\ \A r \in Ranks : /\ IsFiniteSet(Strided(r))
                             /\ Cardinality(Strided(r)) = (Len(data) + Dp - 1 - r) \div Dp
  <1>1. Dp \in Nat \ {0} /\ data \in Seq(SampleIds) /\ OneToOne(data)
    BY BatchAssumption DEF BatchInv, DataFits
  <1>2. DOMAIN data = 1 .. Len(data) /\ Len(data) \in Nat
    BY <1>1
  <1>3. UNION {Strided(r) : r \in Ranks} = InBatch
    <2>1. ASSUME NEW i \in DOMAIN data PROVE (i - 1) % Dp \in Ranks
      <3> DEFINE j == i - 1
      <3>1. j \in Int
        BY <1>2
      <3> HIDE DEF j
      <3>2. j % Dp \in 0 .. Dp - 1
        BY <1>1, <3>1, DivMod
      <3> QED
        BY <3>2 DEF Ranks, j
    <2> QED
      BY <2>1 DEF InBatch, ToSet, Strided
  <1>4. \A r, q \in Ranks : r # q => Strided(r) \cap Strided(q) = {}
    BY <1>1, <1>2 DEF Strided, OneToOne
  <1>5. ASSUME NEW r \in Ranks
        PROVE  /\ IsFiniteSet(Strided(r))
               /\ Cardinality(Strided(r)) = (Len(data) + Dp - 1 - r) \div Dp
    <2> DEFINE I == {i \in DOMAIN data : (i - 1) % Dp = r}
               n == Len(data)
    <2>1. I = {i \in 1 .. n : (i - 1) % Dp = r} /\ Strided(r) = {data[i] : i \in I} /\ n \in Nat
      BY <1>2 DEF Strided
    <2>2. r \in 0 .. Dp - 1
      BY DEF Ranks
    <2>3. Cardinality(I) = (n + Dp - 1 - r) \div Dp
      <3> HIDE DEF n
      <3> QED
        BY <1>1, <2>1, <2>2, StrideCount
    <2>4. I \in SUBSET (DOMAIN data)
      OBVIOUS
    <2>5. /\ IsFiniteSet({data[i] : i \in I})
          /\ Cardinality({data[i] : i \in I}) = Cardinality(I)
      <3> HIDE DEF I
      <3> QED
        BY <1>1, <2>4, PlacesAndValues
    <2> QED
      BY <2>1, <2>3, <2>5
  <1> QED
    BY <1>3, <1>4, <1>5

\* The fewest samples that a rank has.
LEMMA FewestIs ==
  ASSUME BatchInv, stage = "epoch"
  PROVE  Fewest = Len(data) \div Dp
  <1> DEFINE n == Len(data)
             C == {Cardinality(shards[r]) : r \in Ranks}
  <1>1. Dp \in Nat \ {0} /\ n \in Nat /\ shards = [r \in Ranks |-> Strided(r)]
    BY BatchAssumption DEF BatchInv, DataFits
  <1>2. \A r \in Ranks : Cardinality(shards[r]) = (n + Dp - 1 - r) \div Dp
    BY <1>1, StridedFacts
  <1>3. Dp - 1 \in Ranks /\ \A r \in Ranks : r \in Int /\ r <= Dp - 1
    BY <1>1 DEF Ranks
  <1> HIDE DEF n
  <1>4. n \div Dp \in C
    <2>1. n + Dp - 1 - (Dp - 1) = n
      BY <1>1
    <2> QED
      BY <1>2, <1>3, <2>1
  <1>5. \A x \in C : n \div Dp <= x
    <2> SUFFICES ASSUME NEW r \in Ranks PROVE n \div Dp <= (n + Dp - 1 - r) \div Dp
      BY <1>2
    <2> DEFINE y == n + Dp - 1 - r
    <2>1. n \in Int /\ y \in Int /\ n <= y
      BY <1>1, <1>3
    <2> HIDE DEF y
    <2>2. n \div Dp <= y \div Dp
      BY <1>1, <2>1, DivMonotone
    <2> QED
      BY <2>2 DEF y
  <1>6. \A x \in C : x \in Int
    <2> SUFFICES ASSUME NEW r \in Ranks PROVE (n + Dp - 1 - r) \div Dp \in Int
      BY <1>2
    <2> DEFINE y == n + Dp - 1 - r
    <2>1. y \in Int
      BY <1>1, <1>3
    <2> HIDE DEF y
    <2> QED
      BY <1>1, <2>1, DivMod DEF y
  <1> HIDE DEF C
  <1>7. Min(C) = n \div Dp
    <2>1. Min(C) \in C /\ \A x \in C : Min(C) <= x
      BY <1>4, <1>5 DEF Min
    <2> QED
      BY <1>4, <1>5, <1>6, <2>1
  <1> QED
    BY <1>7 DEF Fewest, C, n

\* and that of the split.
LEMMA SplitFollows == BatchInv => SplitExact
  <1> SUFFICES ASSUME BatchInv, chosen # << >>
               PROVE  /\ UNION {shards[r] : r \in Ranks} = InBatch
                      /\ \A r, q \in Ranks : r # q => shards[r] \cap shards[q] = {}
                      /\ \A r \in Ranks : chosen[r] \subseteq shards[r] /\ Cardinality(chosen[r]) = Steps(r) * StepSize
                      /\ \A r, q \in Ranks : Steps(r) = Steps(q) /\ Steps(r) > 0
                      /\ SumFunction([r \in Ranks |-> Cardinality(chosen[r])]) = TrimLen(Len(data), gbs)
    BY DEF SplitExact
  <1> DEFINE n == Len(data)
             e == gbs \div Dp
             f == n \div Dp
  <1>1. /\ stage = "epoch" /\ shards = [r \in Ranks |-> Strided(r)] /\ SizeFits /\ ChosenFits
        /\ data \in Seq(SampleIds) /\ opt \in Options
    BY DEF BatchInv, DataFits
  <1>2. /\ Dp \in Nat \ {0} /\ n \in Nat /\ gbs \in Nat \ {0} /\ gbs % Dp = 0 /\ n >= gbs
        /\ opt.epochs \in Nat \ {0} /\ opt.dynamic \in BOOLEAN
    BY <1>1, BatchAssumption DEF SizeFits
  <1>3. gbs = Dp * e /\ e \in Nat \ {0}
    BY <1>2, ExactDivision
  <1>4. /\ UNION {shards[r] : r \in Ranks} = InBatch
        /\ \A r, q \in Ranks : r # q => shards[r] \cap shards[q] = {}
        /\ \A r \in Ranks : chosen[r] \subseteq shards[r]
    BY <1>1, StridedFacts DEF ChosenFits
  <1>5. Fewest = f
    BY <1>1, FewestIs
  <1>6. f \in Nat \ {0} /\ Dp * f <= n /\ n < Dp * f + Dp
    <2>1. gbs >= Dp
      BY <1>2, ExactDivision
    <2>2. n >= Dp
      BY <1>2, <2>1
    <2> HIDE DEF n
    <2> QED
      BY <1>2, <2>2, WholePart
  <1> HIDE DEF e, f
  \* Every rank trains on this many.
  <1> DEFINE size == IF opt.dynamic /\ opt.epochs > 1 THEN f ELSE e
             steps == IF opt.dynamic /\ opt.epochs > 1 THEN 1 ELSE n \div gbs
  <1>7. StepSize = size
    <2>1. (f * Dp) \div Dp = f
      <3>1. f * Dp = Dp * f
        BY <1>2, <1>6
      <3> QED
        BY <1>2, <1>6, <3>1, Multiple
    <2> QED
      BY <1>5, <2>1 DEF StepSize, e
  <1>8. size \in Nat \ {0} /\ steps \in Nat \ {0}
    <2>1. n \div gbs \in Nat \ {0}
      <3> HIDE DEF n
      <3> QED
        BY <1>2, WholePart
    <2> QED
      BY <1>3, <1>6, <2>1
  <1>9. f \div e = n \div gbs
    <2> HIDE DEF n
    <2>1. (n \div Dp) \div e = n \div (Dp * e)
      <3>1. n \in Int
        BY <1>2
      <3>2. Dp \in Nat \ {0} /\ e \in Nat \ {0}
        BY <1>2, <1>3
      <3> HIDE DEF size, steps
      <3> QED
        BY <3>1, <3>2, NestedDiv, Zenon
    <2> QED
      BY <1>3, <2>1 DEF f
  <1>10. ASSUME NEW r \in Ranks PROVE Cardinality(chosen[r]) = size * steps
    <2>1. Cardinality(chosen[r]) = IF opt.epochs = 1 THEN Cardinality(shards[r]) ELSE Selected(r)
      BY <1>1 DEF ChosenFits
    <2>2. CASE opt.epochs = 1
      <3>1. n % gbs = 0
        BY <1>1, <2>2 DEF SizeFits
      <3> DEFINE p == n \div gbs
      <3>2. n = gbs * p /\ p \in Nat
        <4> HIDE DEF n
        <4> QED
          BY <1>2, <3>1, ExactDivision
      <3>3. Cardinality(shards[r]) = (n + Dp - 1 - r) \div Dp
        BY <1>1, StridedFacts
      <3>4. size = e /\ steps = p
        BY <2>2
      <3> HIDE DEF p, n, size, steps
      <3>5. n = Dp * (e * p) /\ e * p \in Int
        BY <1>2, <1>3, <3>2
      <3> DEFINE rest == Dp - 1 - r
                 y == n + Dp - 1 - r
      <3>6. rest \in 0 .. Dp - 1 /\ y = n + rest /\ y \in Int
        BY <1>2 DEF Ranks
      <3>7. y \div Dp = e * p
        <4> HIDE DEF y, rest
        <4>1. y = Dp * (e * p) + rest
          BY <3>5, <3>6
        <4> DEFINE whole == e * p
        <4>2. whole \in Int /\ y = Dp * whole + rest
          BY <3>5, <4>1
        <4> HIDE DEF whole
        <4>3. y \div Dp = whole
          BY <1>2, <3>6, <4>2, DivUnique
        <4> QED
          BY <4>3 DEF whole
      <3> QED
        BY <2>1, <2>2, <3>3, <3>4, <3>7
    <2>3. CASE opt.epochs # 1 /\ opt.dynamic
      <3>1. opt.epochs > 1
        BY <1>2, <2>3
      <3>2. Cardinality(chosen[r]) = f
        BY <1>5, <2>1, <2>3 DEF Selected
      <3>3. size = f /\ steps = 1
        BY <2>3, <3>1
      <3> HIDE DEF size, steps
      <3> QED
        BY <1>6, <3>2, <3>3
    <2>4. CASE opt.epochs # 1 /\ ~ opt.dynamic
      <3>1. Cardinality(chosen[r]) = (f \div e) * e
        BY <1>5, <2>1, <2>4 DEF Selected, e
      <3>2. size = e /\ steps = n \div gbs
        BY <2>4
      <3> HIDE DEF size, steps
      <3>3. steps * e = e * steps
        BY <1>3, <1>8
      <3> QED
        BY <1>9, <3>1, <3>2, <3>3
    <2> QED
      BY <1>2, <2>2, <2>3, <2>4
  <1>11. \A r \in Ranks : Steps(r) = steps /\ Cardinality(chosen[r]) = Steps(r) * StepSize
    <2> HIDE DEF size, steps
    <2>1. (size * steps) \div size = steps
      BY <1>8, Multiple
    <2>2. size * steps = steps * size
      BY <1>8
    <2> QED
      BY <1>7, <1>10, <2>1, <2>2 DEF Steps
  <1>12. SumFunction([r \in Ranks |-> Cardinality(chosen[r])]) = TrimLen(n, gbs)
    <2> DEFINE g == [r \in Ranks |-> Cardinality(chosen[r])]
               c == size * steps
    <2>1. c \in Int
      <3> HIDE DEF size, steps
      <3> QED
        BY <1>8
    <2>2. \A r \in Ranks : g[r] = c
      BY <1>10
    <2>3. IsFiniteSet(Ranks) /\ Cardinality(Ranks) = Dp
      <3>1. 0 \in Int /\ Dp - 1 \in Int /\ ~ (0 > Dp - 1) /\ (Dp - 1) - 0 + 1 = Dp
        BY <1>2
      <3> QED
        BY <3>1, FS_Interval DEF Ranks
    <2>4. SumFunctionOnSet(g, Ranks) = c * Dp
      <3> HIDE DEF g, c
      <3>1. SumFunctionOnSet(g, Ranks) = c * Cardinality(Ranks)
        BY <2>1, <2>2, <2>3, SumConstant
      <3> QED
        BY <2>3, <3>1
    <2>5. SumFunction(g) = c * Dp
      BY <2>4 DEF SumFunction
    <2>6. c * Dp = TrimLen(n, gbs)
      <3>1. TrimLen(n, gbs) = (n \div gbs) * gbs
        BY DEF TrimLen
      <3>2. CASE opt.dynamic /\ opt.epochs > 1
        <4>1. gbs = f * Dp
          <5>1. gbs = DynamicBatchSize(n)
            BY <1>1, <3>2 DEF SizeFits
          <5> QED
            BY <1>6, <5>1 DEF DynamicBatchSize, f
        <4>2. c * Dp = f * Dp
          <5>1. c = f * 1
            BY <3>2
          <5> HIDE DEF c
          <5> QED
            BY <1>6, <5>1
        <4>3. n \div gbs = 1
          <5> HIDE DEF n
          <5>1. f * Dp = Dp * f /\ Dp * f \in Int
            BY <1>2, <1>6
          <5>2. Dp * f >= Dp
            <6>1. Dp * 0 + Dp <= Dp * f
              BY <1>2, <1>6, MultBound
            <6> QED
              BY <1>2, <5>1, <6>1
          <5>3. n - gbs \in 0 .. gbs - 1 /\ n = gbs * 1 + (n - gbs)
            BY <1>2, <1>6, <4>1, <5>1, <5>2
          <5> DEFINE r == n - gbs
          <5>4. r \in 0 .. gbs - 1 /\ n = gbs * 1 + r
            BY <5>3
          <5> HIDE DEF r
          <5> QED
            BY <1>2, <5>4, DivUnique
        <4>4. 1 * gbs = gbs
          BY <1>2
        <4> QED
          BY <3>1, <4>1, <4>2, <4>3, <4>4
      <3>3. CASE ~ (opt.dynamic /\ opt.epochs > 1)
        <4> DEFINE p == n \div gbs
        <4>1. c = e * p /\ p \in Nat
          BY <1>8, <3>3
        <4> HIDE DEF p, c
        <4>2. (e * p) * Dp = p * (Dp * e)
          <5>1. (e * p) * Dp = (p * e) * Dp
            BY <1>3, <4>1
          <5>2. (p * e) * Dp = p * (e * Dp)
            BY <1>2, <1>3, <4>1
          <5>3. e * Dp = Dp * e
            BY <1>2, <1>3
          <5> QED
            BY <5>1, <5>2, <5>3
        <4> QED
          BY <1>3, <3>1, <4>1, <4>2 DEF p
      <3> QED
        BY <3>2, <3>3
    <2> QED
      BY <2>5, <2>6
  <1>13. \A r, q \in Ranks : Steps(r) = Steps(q) /\ Steps(r) > 0
    <2> HIDE DEF size, steps
    <2> QED
      BY <1>8, <1>11
  <1> QED
    BY <1>4, <1>11, <1>12, <1>13

-----------------------------------------------------------------------------
(* The division into micro-batches: the invariant of the heap.                 *)

Samples == DOMAIN lens
Parts == 1 .. k
Inputs ==
  /\ Len(lens) \in Nat \ {0} /\ lens \in [1 .. Len(lens) -> Nat \ {0}]
  /\ k \in 1 .. Len(lens) /\ equal \in BOOLEAN

\* A state of the heap but for the order of its parts.
Loose(s) ==
  /\ s \in [Parts -> SUBSET Samples]
  /\ \A i, j \in Parts : i # j => s[i] \cap s[j] = {}
  /\ \E longest \in Samples : \A i, j \in Parts : Tokens(s[i]) - Tokens(s[j]) <= lens[longest]
  /\ (\A j \in Parts : s[j] # {}) \/ (\A j \in Parts : \A x, y \in s[j] : x = y)
  /\ equal => \A i, j \in Parts : Cardinality(s[i]) = Cardinality(s[j])
Falling(s) == \A i, j \in Parts : i <= j => Tokens(s[i]) >= Tokens(s[j])
\* Two states have no sample in common.
Apart(s, o) == \A i, j \in Parts : s[i] \cap o[j] = {}

\* The invariant of the heap: its states share no sample and leave none out.
HeapInv ==
  /\ Inputs /\ IsFiniteSet(heap)
  /\ \A s \in heap : Loose(s) /\ Falling(s)
  /\ \A s, o \in heap : s # o => Apart(s, o)
  /\ \A i \in Samples : \E s \in heap : \E j \in Parts : i \in s[j]

-----------------------------------------------------------------------------
(* Token counts.                                                               *)

LEMMA SamplesFinite ==
  ASSUME Inputs
  PROVE  /\ Samples = 1 .. Len(lens) /\ IsFiniteSet(Samples) /\ Cardinality(Samples) = Len(lens)
         /\ \A i \in Samples : lens[i] \in Nat \ {0} /\ lens[i] \in Int
         /\ k \in Nat \ {0} /\ Parts = 1 .. k /\ IsFiniteSet(Parts) /\ Cardinality(Parts) = k
  <1>1. /\ Len(lens) \in Nat \ {0} /\ lens \in [1 .. Len(lens) -> Nat \ {0}] /\ k \in 1 .. Len(lens)
    BY DEF Inputs
  <1>2. Samples = 1 .. Len(lens) /\ Parts = 1 .. k /\ k \in Nat \ {0}
    BY <1>1 DEF Samples, Parts
  <1>3. \A m \in Nat \ {0} : IsFiniteSet(1 .. m) /\ Cardinality(1 .. m) = m
    <2> SUFFICES ASSUME NEW m \in Nat \ {0} PROVE IsFiniteSet(1 .. m) /\ Cardinality(1 .. m) = m
      OBVIOUS
    <2>1. 1 \in Int /\ m \in Int /\ ~ (1 > m) /\ m - 1 + 1 = m
      OBVIOUS
    <2> QED
      BY <2>1, FS_Interval
  <1> QED
    BY <1>1, <1>2, <1>3

\* Tokens of a part: none of the empty part, additive, and never 0 for a sample.
LEMMA TokensLaws ==
  ASSUME Inputs
  PROVE  /\ Tokens({}) = 0
         /\ \A i \in Samples : Tokens({i}) = lens[i]
         /\ \A T \in SUBSET Samples : Tokens(T) \in Nat /\ (T # {} => Tokens(T) # 0)
         /\ \A T, U \in SUBSET Samples : T \cap U = {} => Tokens(T \cup U) = Tokens(T) + Tokens(U)
  <1>1. IsFiniteSet(Samples) /\ \A i \in Samples : lens[i] \in Nat \ {0} /\ lens[i] \in Int
    BY SamplesFinite
  <1>2. /\ \A T \in SUBSET Samples : SumFunctionOnSet(lens, T) \in Int
        /\ SumFunctionOnSet(lens, {}) = 0
        /\ \A T \in SUBSET Samples : \A x \in Samples \ T :
             SumFunctionOnSet(lens, T \cup {x}) = SumFunctionOnSet(lens, T) + lens[x]
    BY <1>1, SumLaws
  <1>3. ASSUME NEW i \in Samples PROVE Tokens({i}) = lens[i]
    <2>1. {} \cup {i} = {i} /\ {} \in SUBSET Samples /\ i \in Samples \ {}
      OBVIOUS
    <2>2. SumFunctionOnSet(lens, {} \cup {i}) = SumFunctionOnSet(lens, {}) + lens[i]
      BY <1>2, <2>1
    <2>3. 0 + lens[i] = lens[i]
      BY <1>1
    <2> QED
      BY <1>2, <2>1, <2>2, <2>3 DEF Tokens
  <1>4. \A T \in SUBSET Samples : Tokens(T) \in Nat /\ (T # {} => Tokens(T) # 0)
    <2> DEFINE G == {T \in SUBSET Samples : Tokens(T) \in Nat /\ (T # {} => Tokens(T) # 0)}
    <2>1. {} \in G
      BY <1>2 DEF Tokens
    <2>2. ASSUME NEW T \in SUBSET Samples, T \in G, NEW x \in Samples \ T PROVE T \cup {x} \in G
      <3>1. Tokens(T \cup {x}) = Tokens(T) + lens[x]
        BY <1>2 DEF Tokens
      <3>2. Tokens(T) \in Nat /\ lens[x] \in Nat \ {0}
        BY <1>1, <2>2
      <3> QED
        BY <3>1, <3>2
    <2>3. \A T \in SUBSET Samples : T \in G
      <3> HIDE DEF G
      <3> QED
        BY <1>1, <2>1, <2>2, SubsetInduction
    <2> QED
      BY <2>3
  <1>5. ASSUME NEW T \in SUBSET Samples, NEW U \in SUBSET Samples, T \cap U = {}
        PROVE  Tokens(T \cup U) = Tokens(T) + Tokens(U)
    <2>1. \A i \in Samples : lens[i] \in Int
      BY <1>1
    <2> QED
      BY <1>1, <1>5, <2>1, SumDisjoint DEF Tokens
  <1> QED
    BY <1>2, <1>3, <1>4, <1>5 DEF Tokens

-----------------------------------------------------------------------------
(* A merge.                                                                    *)

\* Two states merged, the largest part of one with the smallest of the other.
LEMMA MergedFits ==
  ASSUME Inputs, NEW s, NEW o, Loose(s), Falling(s), Loose(o), Falling(o), Apart(s, o)
  PROVE  Loose(Merged(s, o))
  <1> DEFINE u == Merged(s, o)
  <1>0. k \in Nat \ {0} /\ Parts = 1 .. k /\ IsFiniteSet(Samples)
    BY SamplesFinite
  <1>1. \A j \in Parts : k + 1 - j \in Parts
    BY <1>0
  <1>2. s \in [Parts -> SUBSET Samples] /\ o \in [Parts -> SUBSET Samples]
    BY DEF Loose
  <1>3. u \in [Parts -> SUBSET Samples] /\ \A j \in Parts : u[j] = s[j] \cup o[k + 1 - j]
    BY <1>0, <1>1, <1>2 DEF Merged
  <1>4. \A i, j \in Parts : i # j => k + 1 - i # k + 1 - j
    BY <1>0
  <1> HIDE DEF u
  <1>5. ASSUME NEW i \in Parts, NEW j \in Parts, i # j PROVE u[i] \cap u[j] = {}
    <2>1. s[i] \cap s[j] = {} /\ o[k + 1 - i] \cap o[k + 1 - j] = {}
      BY <1>1, <1>4, <1>5 DEF Loose
    <2>2. s[i] \cap o[k + 1 - j] = {} /\ s[j] \cap o[k + 1 - i] = {}
      BY <1>1 DEF Apart
    <2> QED
      BY <1>3, <2>1, <2>2
  <1>6. \A j \in Parts : /\ Tokens(s[j]) \in Int /\ Tokens(o[j]) \in Int
                         /\ Tokens(u[j]) = Tokens(s[j]) + Tokens(o[k + 1 - j])
    <2> SUFFICES ASSUME NEW j \in Parts
                 PROVE  /\ Tokens(s[j]) \in Int /\ Tokens(o[j]) \in Int
                        /\ Tokens(u[j]) = Tokens(s[j]) + Tokens(o[k + 1 - j])
      OBVIOUS
    <2>1. s[j] \in SUBSET Samples /\ o[k + 1 - j] \in SUBSET Samples /\ o[j] \in SUBSET Samples
      BY <1>1, <1>2
    <2>2. s[j] \cap o[k + 1 - j] = {}
      BY <1>1 DEF Apart
    <2>3. Tokens(s[j] \cup o[k + 1 - j]) = Tokens(s[j]) + Tokens(o[k + 1 - j])
      BY <2>1, <2>2, TokensLaws
    <2> QED
      BY <1>3, <2>1, <2>3, TokensLaws
  <1>7. \E longest \in Samples : \A i, j \in Parts : Tokens(u[i]) - Tokens(u[j]) <= lens[longest]
    <2>1. PICK x \in Samples : \A i, j \in Parts : Tokens(s[i]) - Tokens(s[j]) <= lens[x]
      BY DEF Loose
    <2>2. PICK y \in Samples : \A i, j \in Parts : Tokens(o[i]) - Tokens(o[j]) <= lens[y]
      BY DEF Loose
    <2>3. lens[x] \in Int /\ lens[y] \in Int
      BY SamplesFinite
    <2>4. PICK z \in Samples : lens[z] \in Int /\ lens[x] <= lens[z] /\ lens[y] <= lens[z]
      BY <2>3
    <2>5. ASSUME NEW i \in Parts, NEW j \in Parts PROVE Tokens(u[i]) - Tokens(u[j]) <= lens[z]
      <3> DEFINE a == k + 1 - i
                 b == k + 1 - j
      <3>1. /\ a \in Parts /\ b \in Parts /\ i \in Int /\ j \in Int
            /\ (i <= j => b <= a) /\ (j <= i => a <= b)
        BY <1>0, <1>1
      <3>2. /\ Tokens(u[i]) = Tokens(s[i]) + Tokens(o[a]) /\ Tokens(u[j]) = Tokens(s[j]) + Tokens(o[b])
            /\ Tokens(s[i]) \in Int /\ Tokens(o[a]) \in Int /\ Tokens(s[j]) \in Int /\ Tokens(o[b]) \in Int
        BY <1>6, <3>1
      <3> HIDE DEF a, b
      <3>3. Tokens(s[i]) - Tokens(s[j]) <= lens[x] /\ Tokens(o[a]) - Tokens(o[b]) <= lens[y]
        BY <2>1, <2>2, <3>1
      <3>4. CASE i <= j
        <4>1. Tokens(o[b]) >= Tokens(o[a])
          BY <3>1, <3>4 DEF Falling
        <4> QED
          BY <2>3, <2>4, <3>2, <3>3, <4>1
      <3>5. CASE j <= i
        <4>1. Tokens(s[j]) >= Tokens(s[i])
          BY <3>1, <3>5 DEF Falling
        <4> QED
          BY <2>3, <2>4, <3>2, <3>3, <4>1
      <3> QED
        BY <3>1, <3>4, <3>5
    <2> QED
      BY <2>5
  <1>8. \/ \A j \in Parts : u[j] # {}
        \/ \A j \in Parts : \A x, y \in u[j] : x = y
    <2> SUFFICES ASSUME NEW j \in Parts, u[j] = {}
                 PROVE  \A i \in Parts : \A x, y \in u[i] : x = y
      OBVIOUS
    <2>1. s[j] = {} /\ o[k + 1 - j] = {}
      BY <1>3
    <2>2. /\ \A i \in Parts : \A x, y \in s[i] : x = y
          /\ \A i \in Parts : \A x, y \in o[i] : x = y
      BY <1>1, <2>1 DEF Loose
    <2>3. \A i \in Parts : j <= i => s[i] = {}
      <3> SUFFICES ASSUME NEW i \in Parts, j <= i PROVE s[i] = {}
        OBVIOUS
      <3>1. Tokens(s[j]) >= Tokens(s[i])
        BY DEF Falling
      <3>2. Tokens(s[j]) = 0 /\ Tokens(s[i]) \in Nat /\ (s[i] # {} => Tokens(s[i]) # 0)
        BY <1>2, <2>1, TokensLaws
      <3> QED
        BY <3>1, <3>2
    <2>4. \A i \in Parts : k + 1 - j <= i => o[i] = {}
      <3> SUFFICES ASSUME NEW i \in Parts, k + 1 - j <= i PROVE o[i] = {}
        OBVIOUS
      <3>1. Tokens(o[k + 1 - j]) >= Tokens(o[i])
        BY <1>1 DEF Falling
      <3>2. Tokens(o[k + 1 - j]) = 0 /\ Tokens(o[i]) \in Nat /\ (o[i] # {} => Tokens(o[i]) # 0)
        BY <1>2, <2>1, TokensLaws
      <3> QED
        BY <3>1, <3>2
    <2>5. ASSUME NEW i \in Parts PROVE u[i] = s[i] \/ u[i] = o[k + 1 - i]
      <3>1. CASE j <= i
        BY <1>3, <2>3, <3>1
      <3>2. CASE i <= j
        <4>1. k + 1 - i \in Parts /\ k + 1 - j <= k + 1 - i
          BY <1>0, <1>1, <3>2
        <4>2. o[k + 1 - i] = {}
          BY <2>4, <4>1
        <4> QED
          BY <1>3, <4>2
      <3> QED
        BY <1>0, <3>1, <3>2
    <2> QED
      BY <1>1, <2>2, <2>5
  <1>9. equal => \A i, j \in Parts : Cardinality(u[i]) = Cardinality(u[j])
    <2> SUFFICES ASSUME equal, NEW i \in Parts, NEW j \in Parts PROVE Cardinality(u[i]) = Cardinality(u[j])
      OBVIOUS
    <2>1. \A l \in Parts : Cardinality(u[l]) = Cardinality(s[l]) + Cardinality(o[k + 1 - l])
      <3> SUFFICES ASSUME NEW l \in Parts
                   PROVE  Cardinality(u[l]) = Cardinality(s[l]) + Cardinality(o[k + 1 - l])
        OBVIOUS
      <3> DEFINE A == s[l]
                 B == o[k + 1 - l]
      <3>1. A \in SUBSET Samples /\ B \in SUBSET Samples /\ A \cap B = {} /\ u[l] = A \cup B
        BY <1>1, <1>2, <1>3 DEF Apart
      <3> HIDE DEF A, B
      <3>2. IsFiniteSet(A) /\ IsFiniteSet(B)
        BY <1>0, <3>1, FS_Subset
      <3>3. Cardinality(A \cup B) = Cardinality(A) + Cardinality(B) - Cardinality(A \cap B)
        BY <3>2, FS_Union
      <3>4. Cardinality(A \cap B) = 0 /\ Cardinality(A) \in Nat /\ Cardinality(B) \in Nat
        BY <3>1, <3>2, FS_EmptySet, FS_CardinalityType
      <3> QED
        BY <3>1, <3>3, <3>4 DEF A, B
    <2>2. Cardinality(s[i]) = Cardinality(s[j]) /\ Cardinality(o[k + 1 - i]) = Cardinality(o[k + 1 - j])
      BY <1>1 DEF Loose
    <2> QED
      BY <2>1, <2>2
  <1> QED
    BY <1>3, <1>5, <1>7, <1>8, <1>9 DEF Loose, u

\* The same parts in another order.
Reordered(t, u, p) ==
  /\ p \in [Parts -> Parts] /\ (\A i, j \in Parts : p[i] = p[j] => i = j)
  /\ t = [j \in Parts |-> u[p[j]]]

\* The parts in another order.
LEMMA ReorderedFits ==
  ASSUME Inputs, NEW u, Loose(u), NEW p, NEW t, Reordered(t, u, p)
  PROVE  Loose(t) /\ \A j \in Parts : \E i \in Parts : u[j] = t[i]
  <1>1. IsFiniteSet(Parts)
    BY SamplesFinite
  <1>2. /\ p \in [Parts -> Parts] /\ (\A i, j \in Parts : p[i] = p[j] => i = j)
        /\ \A j \in Parts : t[j] = u[p[j]] /\ p[j] \in Parts
        /\ DOMAIN t = Parts /\ t = [j \in Parts |-> u[p[j]]]
    BY DEF Reordered
  <1>3. /\ u \in [Parts -> SUBSET Samples]
        /\ \A i, j \in Parts : i # j => u[i] \cap u[j] = {}
        /\ \E longest \in Samples : \A i, j \in Parts : Tokens(u[i]) - Tokens(u[j]) <= lens[longest]
        /\ (\A j \in Parts : u[j] # {}) \/ (\A j \in Parts : \A x, y \in u[j] : x = y)
        /\ equal => \A i, j \in Parts : Cardinality(u[i]) = Cardinality(u[j])
    BY DEF Loose
  <1>4. t \in [Parts -> SUBSET Samples]
    BY <1>2, <1>3
  <1>5. \A i, j \in Parts : i # j => t[i] \cap t[j] = {}
    BY <1>2, <1>3
  <1>6. \E longest \in Samples : \A i, j \in Parts : Tokens(t[i]) - Tokens(t[j]) <= lens[longest]
    <2>1. PICK longest \in Samples : \A i, j \in Parts : Tokens(u[i]) - Tokens(u[j]) <= lens[longest]
      BY <1>3
    <2>2. \A i, j \in Parts : Tokens(t[i]) - Tokens(t[j]) <= lens[longest]
      BY <1>2, <2>1
    <2> QED
      BY <2>2
  <1>7. (\A j \in Parts : t[j] # {}) \/ (\A j \in Parts : \A x, y \in t[j] : x = y)
    BY <1>2, <1>3
  <1>8. equal => \A i, j \in Parts : Cardinality(t[i]) = Cardinality(t[j])
    BY <1>2, <1>3
  <1>9. ASSUME NEW j \in Parts PROVE \E i \in Parts : u[j] = t[i]
    <2>1. \E i \in Parts : p[i] = j
      BY <1>1, <1>2, InjectionTakesAll
    <2> QED
      BY <1>2, <2>1
  <1> QED
    BY <1>4, <1>5, <1>6, <1>7, <1>8, <1>9 DEF Loose

\* Parts that fall from one to the next fall altogether.
LEMMA FallingSteps ==
  ASSUME Inputs, NEW t, \A j \in Parts : Tokens(t[j]) \in Int,
         \A j \in 1 .. k - 1 : Tokens(t[j]) >= Tokens(t[j + 1])
  PROVE  Falling(t)
  <1>0. k \in Nat \ {0} /\ Parts = 1 .. k
    BY SamplesFinite
  <1> DEFINE K == {m \in Nat : \A i \in Parts : i + m \in Parts => Tokens(t[i]) >= Tokens(t[i + m])}
  <1>1. 0 \in K
    BY <1>0
  <1>2. ASSUME NEW m \in Nat, m \in K PROVE m + 1 \in K
    <2> SUFFICES ASSUME NEW i \in Parts, i + (m + 1) \in Parts
                 PROVE  Tokens(t[i]) >= Tokens(t[i + (m + 1)])
      OBVIOUS
    <2> DEFINE a == i + m
    <2>1. a \in Parts /\ a \in 1 .. k - 1 /\ a + 1 \in Parts /\ i + (m + 1) = a + 1
      BY <1>0
    <2>2. Tokens(t[i]) >= Tokens(t[a])
      BY <1>2, <2>1
    <2> HIDE DEF a
    <2>3. Tokens(t[a]) >= Tokens(t[a + 1])
      BY <2>1
    <2> QED
      BY <2>1, <2>2, <2>3
  <1>3. \A m \in Nat : m \in K
    <2> HIDE DEF K
    <2> QED
      BY <1>1, <1>2, SetInduction
  <1>4. ASSUME NEW i \in Parts, NEW j \in Parts, i <= j PROVE Tokens(t[i]) >= Tokens(t[j])
    <2>1. j - i \in Nat /\ i + (j - i) = j
      BY <1>0, <1>4
    <2>2. j - i \in K
      BY <1>3, <2>1
    <2> QED
      BY <2>1, <2>2
  <1> QED
    BY <1>4 DEF Falling

\* A merge keeps the invariant of the heap.
LEMMA MergeKeeps ==
  ASSUME HeapInv, Merge
  PROVE  HeapInv'
  <1>0. /\ Inputs /\ IsFiniteSet(heap)
        /\ \A s \in heap : Loose(s) /\ Falling(s)
        /\ \A s, o \in heap : s # o => Apart(s, o)
        /\ \A i \in Samples : \E s \in heap : \E j \in Parts : i \in s[j]
    BY DEF HeapInv
  <1>1. PICK s \in Widest(heap) : \E other \in Widest(heap \ {s}) : \E state \in Sorted(Merged(s, other)) :
               heap' = (heap \ {s, other}) \cup {state}
    BY DEF Merge
  <1>2. PICK o \in Widest(heap \ {s}) : \E state \in Sorted(Merged(s, o)) :
               heap' = (heap \ {s, o}) \cup {state}
    BY <1>1
  <1>3. PICK t \in Sorted(Merged(s, o)) : heap' = (heap \ {s, o}) \cup {t}
    BY <1>2
  <1>4. lens' = lens /\ k' = k /\ equal' = equal
    BY DEF Merge
  <1>5. s \in heap /\ o \in heap /\ s # o
    BY <1>1, <1>2 DEF Widest
  <1> DEFINE u == Merged(s, o)
  <1>6. Loose(u)
    BY <1>0, <1>5, MergedFits
  <1>7. k \in Nat \ {0} /\ Parts = 1 .. k
    BY <1>0, SamplesFinite
  <1>8. \A j \in Parts : u[j] = s[j] \cup o[k + 1 - j] /\ k + 1 - j \in Parts
    BY <1>7 DEF Merged
  <1>9. PICK p \in [1 .. k -> 1 .. k] :
          /\ \A i, j \in 1 .. k : p[i] = p[j] => i = j
          /\ \A j \in 1 .. k - 1 : Tokens(u[p[j]]) >= Tokens(u[p[j + 1]])
          /\ t = [j \in 1 .. k |-> u[p[j]]]
    BY <1>3 DEF Sorted
  <1> HIDE DEF u
  <1>10. Reordered(t, u, p)
    BY <1>7, <1>9 DEF Reordered
  <1>11. Loose(t) /\ \A j \in Parts : \E i \in Parts : u[j] = t[i]
    BY <1>0, <1>6, <1>10, ReorderedFits
  <1>12. \A j \in Parts : p[j] \in Parts /\ t[j] = u[p[j]] /\ t[j] \in SUBSET Samples /\ Tokens(t[j]) \in Int
    <2>1. \A j \in Parts : p[j] \in Parts /\ t[j] = u[p[j]] /\ t[j] \in SUBSET Samples
      BY <1>7, <1>9, <1>11 DEF Loose
    <2> QED
      BY <1>0, <2>1, TokensLaws
  <1>13. Falling(t)
    <2>1. \A j \in 1 .. k - 1 : Tokens(t[j]) >= Tokens(t[j + 1])
      <3> SUFFICES ASSUME NEW j \in 1 .. k - 1 PROVE Tokens(t[j]) >= Tokens(t[j + 1])
        OBVIOUS
      <3>1. j \in Parts /\ j + 1 \in Parts
        BY <1>7
      <3> QED
        BY <1>9, <1>12, <3>1
    <2> QED
      BY <1>0, <1>12, <2>1, FallingSteps
  <1>14. ASSUME NEW other \in heap \ {s, o} PROVE Apart(t, other) /\ Apart(other, t)
    <2>1. Apart(s, other) /\ Apart(o, other)
      BY <1>0, <1>5, <1>14
    <2>2. \A i, j \in Parts : u[i] \cap other[j] = {}
      BY <1>8, <2>1 DEF Apart
    <2>3. \A i, j \in Parts : t[i] \cap other[j] = {}
      BY <1>12, <2>2
    <2>4. \A i, j \in Parts : other[i] \cap t[j] = {}
      BY <2>3
    <2> QED
      BY <2>3, <2>4 DEF Apart
  <1>15. ASSUME NEW i \in Samples PROVE \E x \in heap' : \E j \in Parts : i \in x[j]
    <2>1. PICK x \in heap : \E j \in Parts : i \in x[j]
      BY <1>0
    <2>2. CASE x \notin {s, o}
      BY <1>3, <2>1, <2>2
    <2>3. CASE x \in {s, o}
      <3>1. PICK j \in Parts : i \in x[j]
        BY <2>1
      <3>2. \E l \in Parts : i \in u[l]
        <4>1. CASE x = s
          BY <1>8, <3>1, <4>1
        <4>2. CASE x = o
          <5>1. k + 1 - j \in Parts /\ k + 1 - (k + 1 - j) = j
            BY <1>7
          <5>2. i \in u[k + 1 - j]
            BY <1>8, <3>1, <4>2, <5>1
          <5> QED
            BY <5>1, <5>2
        <4> QED
          BY <2>3, <4>1, <4>2
      <3>3. \E l \in Parts : i \in t[l]
        BY <1>11, <3>2
      <3> QED
        BY <1>3, <3>3
    <2> QED
      BY <2>2, <2>3
  <1>16. /\ Samples' = Samples /\ Parts' = Parts /\ Inputs'
         /\ \A x : (Loose(x)' = Loose(x)) /\ (Falling(x)' = Falling(x))
         /\ \A x, y : Apart(x, y)' = Apart(x, y)
    <2>1. Samples' = Samples /\ Parts' = Parts /\ Inputs' = Inputs /\ \A T : Tokens(T)' = Tokens(T)
      BY <1>4 DEF Samples, Parts, Inputs, Tokens
    <2> QED
      BY <1>0, <1>4, <2>1 DEF Loose, Falling, Apart
  <1>17. IsFiniteSet(heap')
    <2>1. heap \ {s, o} \in SUBSET heap
      OBVIOUS
    <2>2. IsFiniteSet(heap \ {s, o})
      BY <1>0, <2>1, FS_Subset
    <2> QED
      BY <1>3, <2>2, FS_AddElement
  <1>18. \A x \in heap' : Loose(x) /\ Falling(x)
    BY <1>0, <1>3, <1>11, <1>13
  <1>19. \A x, y \in heap' : x # y => Apart(x, y)
    BY <1>0, <1>3, <1>14
  <1> QED
    BY <1>15, <1>16, <1>17, <1>18, <1>19 DEF HeapInv

-----------------------------------------------------------------------------
(* The end.                                                                    *)

\* As many samples as the parts have together, if all parts have as many.
LEMMA EqualParts ==
  ASSUME Inputs, NEW s, s \in [Parts -> SUBSET Samples], \A i, j \in Parts : i # j => s[i] \cap s[j] = {},
         NEW c \in Nat, \A j \in Parts : Cardinality(s[j]) = c
  PROVE  Cardinality(UNION {s[j] : j \in Parts}) = c * k
  <1> DEFINE All(T) == UNION {s[j] : j \in T}
             G == {T \in SUBSET Parts : Cardinality(All(T)) = c * Cardinality(T)}
  <1>0. IsFiniteSet(Samples) /\ IsFiniteSet(Parts) /\ Cardinality(Parts) = k
    BY SamplesFinite
  <1>1. {} \in G
    <2>1. All({}) = {}
      OBVIOUS
    <2>2. c * 0 = 0
      OBVIOUS
    <2> QED
      BY <2>1, <2>2, FS_EmptySet
  <1>2. ASSUME NEW T \in SUBSET Parts, T \in G, NEW x \in Parts \ T PROVE T \cup {x} \in G
    <2> DEFINE A == All(T)
               B == s[x]
    <2>1. All(T \cup {x}) = A \cup B
      OBVIOUS
    <2>2. A \in SUBSET Samples /\ B \in SUBSET Samples /\ A \cap B = {}
      OBVIOUS
    <2>3. Cardinality(A) = c * Cardinality(T) /\ Cardinality(B) = c
      BY <1>2
    <2> HIDE DEF A, B, All
    <2>4. IsFiniteSet(A) /\ IsFiniteSet(B)
      BY <1>0, <2>2, FS_Subset
    <2>5. Cardinality(A \cup B) = Cardinality(A) + Cardinality(B) - Cardinality(A \cap B)
      BY <2>4, FS_Union
    <2>6. Cardinality(A \cap B) = 0 /\ Cardinality(A) \in Nat
      BY <2>2, <2>4, FS_EmptySet, FS_CardinalityType
    <2>7. IsFiniteSet(T)
      BY <1>0, FS_Subset
    <2>8. Cardinality(T \cup {x}) = Cardinality(T) + 1 /\ Cardinality(T) \in Nat
      BY <2>7, FS_AddElement, FS_CardinalityType
    <2>9. c * (Cardinality(T) + 1) = c * Cardinality(T) + c
      BY <2>8
    <2>10. Cardinality(A \cup B) = c * Cardinality(T \cup {x})
      <3>1. Cardinality(A \cup B) = Cardinality(A) + Cardinality(B)
        BY <2>3, <2>5, <2>6
      <3>2. c * Cardinality(T \cup {x}) = c * (Cardinality(T) + 1)
        BY <2>8
      <3> QED
        BY <2>3, <2>9, <3>1, <3>2
    <2>11. Cardinality(All(T \cup {x})) = c * Cardinality(T \cup {x})
      BY <2>1, <2>10
    <2> QED
      BY <2>11
  <1>3. \A T \in SUBSET Parts : T \in G
    <2> HIDE DEF G
    <2> QED
      BY <1>0, <1>1, <1>2, SubsetInduction
  <1>4. Parts \in G
    BY <1>3
  <1> QED
    BY <1>0, <1>4

\* When one state is left it is the exact division.
LEMMA BalanceFollows == HeapInv => BalanceExact
  <1> SUFFICES ASSUME HeapInv, Cardinality(heap) = 1, NEW s \in heap
               PROVE  /\ UNION {s[j] : j \in 1 .. k} = DOMAIN lens
                      /\ \A i, j \in 1 .. k : i # j => s[i] \cap s[j] = {}
                      /\ \A j \in 1 .. k : s[j] # {} /\ (equal => Cardinality(s[j]) * k = Len(lens))
                      /\ \A i, j \in 1 .. k : \E longest \in DOMAIN lens : Tokens(s[i]) - Tokens(s[j]) <= lens[longest]
    BY DEF BalanceExact
  <1>1. /\ Inputs /\ IsFiniteSet(heap) /\ Loose(s)
        /\ \A i \in Samples : \E o \in heap : \E j \in Parts : i \in o[j]
    BY DEF HeapInv
  <1>2. heap = {s}
    BY <1>1, FS_Singleton
  <1>3. /\ Parts = 1 .. k /\ k \in Nat \ {0} /\ k \in 1 .. Len(lens) /\ Samples = DOMAIN lens
        /\ IsFiniteSet(Samples) /\ Cardinality(Samples) = Len(lens)
        /\ IsFiniteSet(Parts) /\ Cardinality(Parts) = k
    BY <1>1, SamplesFinite DEF Inputs, Samples
  <1>4. /\ s \in [Parts -> SUBSET Samples]
        /\ \A i, j \in Parts : i # j => s[i] \cap s[j] = {}
        /\ \E longest \in Samples : \A i, j \in Parts : Tokens(s[i]) - Tokens(s[j]) <= lens[longest]
        /\ (\A j \in Parts : s[j] # {}) \/ (\A j \in Parts : \A x, y \in s[j] : x = y)
        /\ equal => \A i, j \in Parts : Cardinality(s[i]) = Cardinality(s[j])
    BY <1>1 DEF Loose
  <1>5. UNION {s[j] : j \in Parts} = Samples
    BY <1>1, <1>2, <1>4
  <1>6. ASSUME NEW j \in Parts PROVE s[j] # {}
    <2> SUFFICES ASSUME s[j] = {} PROVE FALSE
      OBVIOUS
    <2> DEFINE f == [i \in Samples |-> CHOOSE l \in Parts : i \in s[l]]
    <2>1. \A i \in Samples : \E l \in Parts : i \in s[l]
      BY <1>5
    <2>2. \A i \in Samples : f[i] \in Parts /\ i \in s[f[i]]
      BY <2>1
    <2>3. f \in [Samples -> Parts \ {j}]
      BY <2>2
    <2> HIDE DEF f
    <2>4. IsFiniteSet(Parts \ {j}) /\ Cardinality(Parts \ {j}) = k - 1
      BY <1>3, FS_RemoveElement, ZenonT(30)
    <2>5. Cardinality(Parts \ {j}) < Cardinality(Samples)
      BY <1>3, <2>4
    <2>6. PICK x, y \in Samples : x # y /\ f[x] = f[y]
      BY <1>3, <2>3, <2>4, <2>5, FS_PigeonHole
    <2>7. \A l \in Parts : \A a, b \in s[l] : a = b
      BY <1>4
    <2> QED
      BY <2>2, <2>6, <2>7
  <1>7. ASSUME NEW j \in Parts, equal PROVE Cardinality(s[j]) * k = Len(lens)
    <2> DEFINE c == Cardinality(s[j])
    <2>1. \A i \in Parts : Cardinality(s[i]) = c
      BY <1>4, <1>7
    <2>2. c \in Nat
      <3>1. s[j] \in SUBSET Samples
        BY <1>4
      <3>2. IsFiniteSet(s[j])
        BY <1>3, <3>1, FS_Subset
      <3> QED
        BY <3>2, FS_CardinalityType
    <2> HIDE DEF c
    <2>3. Cardinality(UNION {s[i] : i \in Parts}) = c * k
      BY <1>1, <1>4, <2>1, <2>2, EqualParts
    <2> QED
      BY <1>3, <1>5, <2>3 DEF c
  <1> QED
    BY <1>3, <1>4, <1>5, <1>6, <1>7

-----------------------------------------------------------------------------
(* The start.                                                                  *)

\* The first states of the heap, in both modes, fit.
LEMMA SinglesFit ==
  ASSUME Inputs, ~ equal, heap = Singles(Len(lens), k)
  PROVE  HeapInv
  <1> DEFINE single(i) == [j \in Parts |-> IF j = 1 THEN {i} ELSE {}]
  <1>1. /\ Samples = 1 .. Len(lens) /\ IsFiniteSet(Samples) /\ Parts = 1 .. k /\ k \in Nat \ {0}
        /\ \A i \in Samples : lens[i] \in Nat \ {0}
    BY SamplesFinite
  <1>2. heap = {single(i) : i \in Samples}
    BY <1>1 DEF Singles
  <1>3. ASSUME NEW i \in Samples PROVE Loose(single(i)) /\ Falling(single(i)) /\ i \in single(i)[1]
    <2> DEFINE s == single(i)
    <2>1. s \in [Parts -> SUBSET Samples] /\ 1 \in Parts
      BY <1>1
    <2>2. \A j \in Parts : s[j] = IF j = 1 THEN {i} ELSE {}
      OBVIOUS
    <2>3. \A j \in Parts : /\ Tokens(s[j]) = IF j = 1 THEN lens[i] ELSE 0
                           /\ lens[i] \in Nat \ {0}
      BY <1>1, <2>2, TokensLaws
    <2>4. \A j, l \in Parts : Tokens(s[j]) - Tokens(s[l]) <= lens[i]
      <3> HIDE DEF s
      <3> QED
        BY <2>3
    <2>5. Falling(s)
      <3> HIDE DEF s
      <3> QED
        BY <1>1, <2>3 DEF Falling
    <2>6. \A j, l \in Parts : j # l => s[j] \cap s[l] = {}
      BY <2>2
    <2>7. \A j \in Parts : \A x, y \in s[j] : x = y
      BY <2>2
    <2>8. Loose(s)
      <3> HIDE DEF s
      <3> QED
        BY <2>1, <2>4, <2>6, <2>7 DEF Loose
    <2> QED
      BY <2>1, <2>2, <2>5, <2>8
  <1>4. ASSUME NEW i \in Samples, NEW l \in Samples, single(i) # single(l)
        PROVE  Apart(single(i), single(l))
    <2>1. i # l
      BY <1>4
    <2> QED
      BY <2>1 DEF Apart
  <1>5. IsFiniteSet(heap)
    <2> DEFINE f == [i \in Samples |-> single(i)]
    <2>1. f \in Surjection(Samples, heap)
      BY <1>2 DEF Surjection
    <2> HIDE DEF f
    <2> QED
      BY <1>1, <2>1, FS_Surjection
  <1> HIDE DEF single
  <1>6. \A i \in Samples : \E s \in heap : \E j \in Parts : i \in s[j]
    <2>1. 1 \in Parts
      BY <1>1
    <2> QED
      BY <1>2, <1>3, <2>1
  <1> QED
    BY <1>2, <1>3, <1>4, <1>5, <1>6 DEF HeapInv

-----------------------------------------------------------------------------
(* The rows of samples that follow one another in the order of lengths.        *)

\* The sample that m shorter ones precede.
NthShortest(m) == CHOOSE i \in DOMAIN lens : Cardinality(Shorter(lens, i)) = m - 1

\* The order of lengths takes every sample once.
LEMMA NthShortestFacts ==
  ASSUME Inputs
  PROVE  /\ \A m \in Samples : NthShortest(m) \in Samples
         /\ \A m, l \in Samples : m <= l => lens[NthShortest(m)] <= lens[NthShortest(l)]
         /\ \A m, l \in Samples : NthShortest(m) = NthShortest(l) => m = l
         /\ \A i \in Samples : \E m \in Samples : NthShortest(m) = i
  <1> DEFINE order == {p \in Samples \X Samples : \/ lens[p[1]] < lens[p[2]]
                                                  \/ lens[p[1]] = lens[p[2]] /\ p[1] < p[2]}
             n == Len(lens)
  <1>1. /\ Samples = 1 .. n /\ n \in Nat /\ IsFiniteSet(Samples) /\ Cardinality(Samples) = n
        /\ \A i \in Samples : lens[i] \in Nat
    BY SamplesFinite DEF Inputs
  <1>2. IsTotalOrder(Samples, order)
    BY <1>1 DEF IsTotalOrder
  <1>3. \A i \in Samples : Earlier(Samples, order, i) = Shorter(lens, i)
    BY DEF Earlier, Shorter, Samples
  <1> HIDE DEF n
  <1>4. \A m \in Samples : NthShortest(m) \in Samples /\ Cardinality(Shorter(lens, NthShortest(m))) = m - 1
    <2> SUFFICES ASSUME NEW m \in Samples
                 PROVE  NthShortest(m) \in Samples /\ Cardinality(Shorter(lens, NthShortest(m))) = m - 1
      OBVIOUS
    <2>1. m - 1 \in 0 .. Cardinality(Samples) - 1
      BY <1>1
    <2> DEFINE l == m - 1
    <2>2. \E i \in Samples : Cardinality(Earlier(Samples, order, i)) = l
      <3> HIDE DEF l, order
      <3> QED
        BY <1>1, <1>2, <2>1, RanksExist DEF l
    <2>3. \E i \in Samples : Cardinality(Shorter(lens, i)) = m - 1
      <3> HIDE DEF order
      <3> QED
        BY <1>3, <2>2
    <2>4. \E i \in DOMAIN lens : Cardinality(Shorter(lens, i)) = m - 1
      BY <2>3 DEF Samples
    <2> QED
      BY <2>4 DEF NthShortest, Samples
  <1>5. ASSUME NEW m \in Samples, NEW l \in Samples, m <= l
        PROVE  lens[NthShortest(m)] <= lens[NthShortest(l)]
    <2> DEFINE x == NthShortest(m)
               y == NthShortest(l)
    <2>1. /\ x \in Samples /\ y \in Samples /\ lens[x] \in Nat /\ lens[y] \in Nat
          /\ Cardinality(Shorter(lens, x)) = m - 1 /\ Cardinality(Shorter(lens, y)) = l - 1
      BY <1>1, <1>4
    <2> HIDE DEF x, y
    <2>2. SUFFICES ASSUME lens[y] < lens[x] PROVE FALSE
      BY <2>1 DEF x, y
    <2>3. <<y, x>> \in order
      BY <2>1, <2>2
    <2>4. Cardinality(Earlier(Samples, order, y)) < Cardinality(Earlier(Samples, order, x))
      <3> HIDE DEF order
      <3> QED
        BY <1>1, <1>2, <2>1, <2>3, RanksDiffer
    <2>5. Cardinality(Shorter(lens, y)) < Cardinality(Shorter(lens, x))
      <3> HIDE DEF order
      <3> QED
        BY <1>3, <2>1, <2>4
    <2> QED
      BY <1>1, <1>5, <2>1, <2>5
  <1>6. \A m, l \in Samples : NthShortest(m) = NthShortest(l) => m = l
    <2> SUFFICES ASSUME NEW m \in Samples, NEW l \in Samples, NthShortest(m) = NthShortest(l) PROVE m = l
      OBVIOUS
    <2>1. m - 1 = l - 1
      BY <1>4
    <2> QED
      BY <1>1, <2>1
  <1>7. ASSUME NEW i \in Samples PROVE \E m \in Samples : NthShortest(m) = i
    <2> DEFINE f == [m \in Samples |-> NthShortest(m)]
    <2>1. f \in [Samples -> Samples] /\ \A m, l \in Samples : f[m] = f[l] => m = l
      BY <1>4, <1>6
    <2>2. \E m \in Samples : f[m] = i
      <3> HIDE DEF f, order
      <3>1. /\ IsFiniteSet(Samples) /\ Cardinality(Samples) = Cardinality(Samples) /\ i \in Samples
            /\ f \in [Samples -> Samples] /\ \A x, y \in Samples : f[x] = f[y] => x = y
        BY <1>1, <2>1, Zenon
      <3>2. \A S, T : \A g \in [S -> T] : \A t \in T :
              IsFiniteSet(S) /\ IsFiniteSet(T) /\ Cardinality(T) = Cardinality(S)
                /\ (\A x, y \in S : g[x] = g[y] => x = y) => \E x \in S : g[x] = t
        BY InjectionTakesAll
      <3> QED
        BY <3>1, <3>2
    <2> QED
      BY <2>2
  <1> QED
    BY <1>4, <1>5, <1>6, <1>7

LEMMA RowsFit ==
  ASSUME Inputs, equal, Len(lens) % k = 0, heap = Rows(lens, k)
  PROVE  HeapInv
  <1> DEFINE n == Len(lens)
             q == n \div k
             at(row, j) == row * k + k + 1 - j
             part(row) == [j \in Parts |-> {NthShortest(at(row, j))}]
             Index == 0 .. q - 1
  <1>1. /\ Samples = 1 .. n /\ IsFiniteSet(Samples) /\ Parts = 1 .. k /\ k \in Nat \ {0} /\ n \in Nat
        /\ \A i \in Samples : lens[i] \in Nat \ {0}
    BY SamplesFinite DEF Inputs
  <1>2. q \in Nat /\ n = k * q
    <2> HIDE DEF n
    <2>1. n % k = 0
      BY DEF n
    <2> QED
      BY <1>1, <2>1, ExactDivision
  <1> HIDE DEF n, q
  <1>3. ASSUME NEW row \in Index, NEW j \in Parts PROVE at(row, j) \in Samples
    <2>1. row \in Nat /\ row < q /\ j \in 1 .. k
      BY <1>1, <1>2
    <2>2. k * row + k <= k * q
      BY <1>1, <1>2, <2>1, MultBound
    <2>3. row * k = k * row /\ k * row \in Nat
      BY <1>1, <2>1
    <2> QED
      BY <1>1, <1>2, <2>1, <2>2, <2>3
  <1>4. ASSUME NEW row \in Index, NEW j \in Parts, NEW other \in Index, NEW l \in Parts, at(row, j) = at(other, l)
        PROVE  row = other /\ j = l
    <2>1. /\ k * row \in Int /\ k * other \in Int /\ row \in Int /\ other \in Int
          /\ row * k = k * row /\ other * k = k * other
          /\ k - j \in 0 .. k - 1 /\ k - l \in 0 .. k - 1 /\ j \in Int /\ l \in Int
      BY <1>1, <1>2
    <2> DEFINE a == k - j
               b == k - l
               m == at(row, j) - 1
    <2>2. m = k * row + a /\ m = k * other + b /\ m \in Int /\ a \in 0 .. k - 1 /\ b \in 0 .. k - 1
      BY <1>1, <1>4, <2>1
    <2> HIDE DEF a, b, m
    <2>3. m \div k = row /\ m % k = a
      <3>1. m \in Int /\ k \in Nat \ {0} /\ row \in Int /\ a \in 0 .. k - 1 /\ m = k * row + a
        BY <1>1, <2>1, <2>2, Zenon
      <3> QED
        BY <3>1, DivUnique, Zenon
    <2>4. m \div k = other /\ m % k = b
      <3>1. m \in Int /\ k \in Nat \ {0} /\ other \in Int /\ b \in 0 .. k - 1 /\ m = k * other + b
        BY <1>1, <2>1, <2>2, Zenon
      <3> QED
        BY <3>1, DivUnique, Zenon
    <2>5. row = other /\ a = b
      BY <2>3, <2>4
    <2> QED
      BY <1>1, <2>1, <2>5 DEF a, b
  <1>5. ASSUME NEW m \in Samples PROVE \E row \in Index : \E j \in Parts : at(row, j) = m
    <2> DEFINE x == m - 1
               row == x \div k
               r == x % k
    <2>1. x \in Nat /\ x < n
      BY <1>1
    <2> HIDE DEF x
    <2>2. row \in Int /\ r \in 0 .. k - 1 /\ x = k * row + r
      <3>1. x \in Int /\ k \in Nat \ {0}
        BY <1>1, <2>1
      <3> QED
        BY <3>1, DivMod, Zenon
    <2> HIDE DEF row, r
    <2>3. row >= 0
      <3> SUFFICES ASSUME row < 0 PROVE FALSE
        BY <2>2
      <3>1. k * row + k <= k * 0
        BY <1>1, <2>2, MultBound
      <3>2. k * row \in Int
        BY <1>1, <2>2
      <3> QED
        BY <1>1, <2>1, <2>2, <3>1, <3>2
    <2>4. row < q
      <3> SUFFICES ASSUME q < row + 1 PROVE FALSE
        BY <1>2, <2>2
      <3>1. k * q + k <= k * (row + 1)
        BY <1>1, <1>2, <2>2, MultBound
      <3>2. k * (row + 1) = k * row + k /\ k * row \in Int /\ k * q \in Int
        BY <1>1, <1>2, <2>2
      <3> QED
        BY <1>1, <1>2, <2>1, <2>2, <3>1, <3>2
    <2>5. k - r \in Parts /\ row \in Index
      BY <1>1, <1>2, <2>2, <2>3, <2>4
    <2>6. at(row, k - r) = m
      <3>1. row * k = k * row /\ k * row \in Int
        BY <1>1, <2>2
      <3> QED
        BY <1>1, <2>1, <2>2, <3>1 DEF x
    <2> QED
      BY <2>5, <2>6
  <1>6. heap = {part(row) : row \in Index}
    <2>1. \A row \in Index : \A j \in 1 .. k : at(row, j) \in DOMAIN lens
      BY <1>1, <1>3 DEF Samples
    <2> DEFINE sorted == [m \in DOMAIN lens |-> NthShortest(m)]
    <2>2. \A row \in Index : \A j \in 1 .. k : sorted[at(row, j)] = NthShortest(at(row, j))
      BY <2>1
    <2>3. Rows(lens, k) = {[j \in 1 .. k |-> {sorted[at(row, j)]}] : row \in Index}
      BY DEF Rows, NthShortest, q, n
    <2> HIDE DEF sorted, at, Index
    <2>4. \A row \in Index : [j \in 1 .. k |-> {sorted[at(row, j)]}] = part(row)
      BY <1>1, <2>2
    <2> DEFINE other(row) == [j \in 1 .. k |-> {sorted[at(row, j)]}]
    <2>5. heap = {other(row) : row \in Index} /\ \A row \in Index : other(row) = part(row)
      BY <2>3, <2>4
    <2> HIDE DEF part, other
    <2>6. \A x : x \in heap <=> x \in {part(row) : row \in Index}
      BY <2>5
    <2> QED
      BY <2>6
  <1> HIDE DEF at
  <1>7. /\ \A m \in Samples : NthShortest(m) \in Samples
        /\ \A m, l \in Samples : m <= l => lens[NthShortest(m)] <= lens[NthShortest(l)]
        /\ \A m, l \in Samples : NthShortest(m) = NthShortest(l) => m = l
        /\ \A i \in Samples : \E m \in Samples : NthShortest(m) = i
    BY NthShortestFacts
  <1>8. ASSUME NEW row \in Index PROVE Loose(part(row)) /\ Falling(part(row))
    <2> DEFINE s == part(row)
               x(j) == NthShortest(at(row, j))
    <2>1. \A j \in Parts : s[j] = {x(j)} /\ x(j) \in Samples /\ lens[x(j)] \in Nat \ {0}
      BY <1>1, <1>3, <1>7
    <2>2. s \in [Parts -> SUBSET Samples]
      BY <2>1
    <2>3. \A j, l \in Parts : j # l => x(j) # x(l)
      <3> SUFFICES ASSUME NEW j \in Parts, NEW l \in Parts, x(j) = x(l) PROVE j = l
        OBVIOUS
      <3>1. at(row, j) = at(row, l)
        BY <1>3, <1>7
      <3> QED
        BY <1>4, <3>1
    <2> HIDE DEF s, x
    <2>4. \A j \in Parts : Tokens(s[j]) = lens[x(j)] /\ Cardinality(s[j]) = 1
      BY <2>1, TokensLaws, FS_Singleton
    <2>5. \A j, l \in Parts : j # l => s[j] \cap s[l] = {}
      BY <2>1, <2>3
    <2>6. Falling(s)
      <3> SUFFICES ASSUME NEW j \in Parts, NEW l \in Parts, j <= l PROVE lens[x(j)] >= lens[x(l)]
        BY <2>4 DEF Falling
      <3>1. at(row, l) <= at(row, j)
        <4>1. row * k \in Int
          BY <1>1, <1>2
        <4> DEFINE base == row * k
        <4>2. base \in Int /\ at(row, l) = base + k + 1 - l /\ at(row, j) = base + k + 1 - j
          BY <4>1 DEF at
        <4> HIDE DEF base
        <4> QED
          BY <1>1, <4>2
      <3>2. lens[NthShortest(at(row, l))] <= lens[NthShortest(at(row, j))]
        BY <1>3, <1>7, <3>1
      <3>3. lens[x(l)] <= lens[x(j)]
        BY <3>2 DEF x
      <3> QED
        BY <2>1, <3>3
    <2>7. \E longest \in Samples : \A j, l \in Parts : Tokens(s[j]) - Tokens(s[l]) <= lens[longest]
      <3>1. 1 \in Parts
        BY <1>1
      <3>2. \A j \in Parts : Tokens(s[1]) >= Tokens(s[j])
        BY <1>1, <2>6, <3>1 DEF Falling
      <3>3. \A j, l \in Parts : Tokens(s[j]) - Tokens(s[l]) <= lens[x(1)]
        BY <2>1, <2>4, <3>1, <3>2
      <3> QED
        BY <2>1, <3>1, <3>3
    <2>8. \A j \in Parts : s[j] # {}
      BY <2>1
    <2>9. \A i, j \in Parts : Cardinality(s[i]) = Cardinality(s[j])
      BY <2>4
    <2>10. Loose(s)
      BY <2>2, <2>5, <2>7, <2>8, <2>9 DEF Loose
    <2> QED
      BY <2>6, <2>10 DEF s
  <1>9. ASSUME NEW row \in Index, NEW other \in Index, part(row) # part(other)
        PROVE  Apart(part(row), part(other))
    <2>1. row # other
      BY <1>9
    <2>2. ASSUME NEW j \in Parts, NEW l \in Parts PROVE NthShortest(at(row, j)) # NthShortest(at(other, l))
      <3>1. at(row, j) # at(other, l)
        BY <1>4, <2>1
      <3> QED
        BY <1>3, <1>7, <3>1
    <2> QED
      BY <2>2 DEF Apart
  <1>10. IsFiniteSet(heap)
    <2>1. IsFiniteSet(Index)
      BY <1>2, FS_Interval
    <2> DEFINE f == [row \in Index |-> part(row)]
    <2> HIDE DEF part, Index
    <2>2. f \in Surjection(Index, heap)
      BY <1>6 DEF Surjection
    <2> HIDE DEF f
    <2> QED
      BY <2>1, <2>2, FS_Surjection
  <1>11. \A i \in Samples : \E s \in heap : \E j \in Parts : i \in s[j]
    <2> SUFFICES ASSUME NEW i \in Samples PROVE \E s \in heap : \E j \in Parts : i \in s[j]
      OBVIOUS
    <2>1. PICK m \in Samples : NthShortest(m) = i
      BY <1>7
    <2>2. PICK row \in Index : \E j \in Parts : at(row, j) = m
      BY <1>5
    <2>3. PICK j \in Parts : at(row, j) = m
      BY <2>2
    <2>4. i \in part(row)[j] /\ part(row) \in heap
      <3>1. part(row) \in heap
        <4> HIDE DEF part
        <4> QED
          BY <1>6
      <3>2. i \in part(row)[j]
        BY <2>1, <2>3
      <3> QED
        BY <3>1, <3>2
    <2> HIDE DEF part
    <2> QED
      BY <2>4
  <1> HIDE DEF part, Index
  <1>12. \A s \in heap : Loose(s) /\ Falling(s)
    BY <1>6, <1>8
  <1>13. \A s, o \in heap : s # o => Apart(s, o)
    BY <1>6, <1>9
  <1> QED
    BY <1>10, <1>11, <1>12, <1>13 DEF HeapInv

\* The balancing starts in the invariant.
LEMMA BalanceStarts == BalanceInit => HeapInv
  <1> SUFFICES ASSUME BalanceInit PROVE HeapInv
    OBVIOUS
  <1>1. PICK n \in 1 .. MaxSamples : lens \in [1 .. n -> Lengths]
    BY DEF BalanceInit
  <1>2. n \in Nat \ {0} /\ lens \in [1 .. n -> Nat \ {0}] /\ Len(lens) = n /\ DOMAIN lens = 1 .. n
    <2>1. n \in Nat \ {0} /\ lens \in [1 .. n -> Nat \ {0}]
      <3>1. MaxSamples \in Nat /\ Lengths \subseteq Nat \ {0}
        BY BalanceAssumption
      <3>2. n \in Nat \ {0}
        BY <1>1, <3>1
      <3>3. DOMAIN lens = 1 .. n /\ lens = [i \in 1 .. n |-> lens[i]] /\ \A i \in 1 .. n : lens[i] \in Nat \ {0}
        BY <1>1, <3>1
      <3> QED
        BY <3>2, <3>3
    <2> QED
      BY <2>1
  <1>3. CASE equal
    <2>1. k \in DOMAIN lens /\ Len(lens) % k = 0 /\ heap = Rows(lens, k)
      BY <1>3 DEF BalanceInit
    <2>2. Inputs
      BY <1>2, <1>3, <2>1 DEF Inputs
    <2> QED
      BY <1>3, <2>1, <2>2, RowsFit
  <1>4. CASE ~ equal
    <2>1. k \in MicroBatches(lens) /\ heap = Singles(Len(lens), k) /\ equal \in BOOLEAN
      BY <1>4 DEF BalanceInit
    <2>2. PICK cap \in Caps : k \in FirstFit(lens, cap) .. Len(lens)
      BY <2>1 DEF MicroBatches
    <2>3. FirstFit(lens, cap) \in Nat \ {0}
      <3>1. cap \in Nat /\ lens \in [1 .. n -> Nat]
        BY <1>2, BalanceAssumption
      <3> QED
        BY <1>2, <3>1, FirstFitIsPositive
    <2>4. Inputs
      BY <1>2, <2>1, <2>2, <2>3 DEF Inputs
    <2> QED
      BY <1>4, <2>1, <2>4, SinglesFit
  <1> QED
    BY <1>3, <1>4

\* HeapInv is an invariant of the balancing.
THEOREM BalanceInvariance == BalanceSpec => []HeapInv
  <1>1. HeapInv /\ [Merge]_balanceVars => HeapInv'
    <2> SUFFICES ASSUME HeapInv, UNCHANGED balanceVars PROVE HeapInv'
      BY MergeKeeps
    <2>1. lens' = lens /\ k' = k /\ equal' = equal /\ heap' = heap
      BY DEF balanceVars
    <2>2. Samples' = Samples /\ Parts' = Parts /\ Inputs' = Inputs /\ \A T : Tokens(T)' = Tokens(T)
      BY <2>1 DEF Samples, Parts, Inputs, Tokens
    <2>3. /\ \A x : (Loose(x)' = Loose(x)) /\ (Falling(x)' = Falling(x))
          /\ \A x, y : Apart(x, y)' = Apart(x, y)
      BY <2>1, <2>2 DEF Loose, Falling, Apart
    <2> QED
      BY <2>1, <2>2, <2>3 DEF HeapInv
  <1> QED
    BY <1>1, BalanceStarts, PTL DEF BalanceSpec


\* Whatever a rollout has returned that keeps the promises of its tasks, whatever
\* the options and however a shuffle deals it: all ranks train the same number of
\* steps on samples of their own; and whatever the lengths of the samples of a
\* step, none of its micro-batches is empty, no sample is in two or in none, and
\* no two differ by more than the longest sample.
THEOREM MicroStepsAreExact == BatchSpec /\ BalanceSpec => []MicroStepsExact
  <1>1. BatchInv /\ HeapInv => MicroStepsExact
    BY SplitFollows, BalanceFollows DEF MicroStepsExact
  <1> QED
    BY <1>1, BatchInvariance, BalanceInvariance, PTL
=============================================================================
