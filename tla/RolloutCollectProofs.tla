------------------------- MODULE RolloutCollectProofs -------------------------
(* Theorems about RolloutCollect, for every batch size, number of samples,     *)
(* permits and rollouts; and about the samples that are interrupted and        *)
(* continued (SampleGeneration), for any group, budget and number of rollouts. *)
EXTENDS RolloutCollect, SampleGeneration, FiniteSetTheorems, TLAPS

\* The sets of groups the loop counts are finite.
LEMMA FiniteGroups ==
  ASSUME TypeOK, NEW S, S \subseteq 1 .. next
  PROVE  IsFiniteSet(S) /\ Cardinality(S) \in Nat /\ S \subseteq Group
  <1>1. next \in Nat /\ next <= MaxGroups
    BY CollectAssumption DEF TypeOK
  <1>2. IsFiniteSet(1 .. next)
    BY <1>1, FS_Interval
  <1>3. IsFiniteSet(S)
    BY <1>2, FS_Subset
  <1> QED
    BY <1>1, <1>3, FS_CardinalityType, CollectAssumption DEF Group

\* Least is the smaller of two numbers.
LEMMA LeastIs ==
  ASSUME NEW a \in Int, NEW b \in Int
  PROVE  /\ Least(a, b) \in {a, b}
         /\ Least(a, b) <= a /\ Least(a, b) <= b
  BY DEF Least

\* Accepting a part of what has ended: how many groups are left to wait for.
LEMMA TakenOut ==
  ASSUME NEW S, IsFiniteSet(S), NEW T \in SUBSET S
  PROVE  /\ IsFiniteSet(S \ T) /\ IsFiniteSet(T)
         /\ Cardinality(S \ T) \in Nat /\ Cardinality(T) \in Nat
         /\ Cardinality(S \ T) = Cardinality(S) - Cardinality(T)
  <1>1. S \cap T = T /\ T \subseteq S /\ S \ T \subseteq S
    OBVIOUS
  <1>2. IsFiniteSet(S \ T) /\ IsFiniteSet(T)
    BY <1>1, FS_Subset
  <1>3. Cardinality(S \ T) \in Nat /\ Cardinality(T) \in Nat
    BY <1>2, FS_CardinalityType
  <1>4. Cardinality(S \ T) = Cardinality(S) - Cardinality(S \cap T)
    BY <1>2, FS_Difference
  <1> QED
    BY <1>1, <1>2, <1>3, <1>4

\* Sets without a common element.
LEMMA PutTogether ==
  ASSUME NEW S, IsFiniteSet(S), NEW T, IsFiniteSet(T), S \cap T = {}
  PROVE  /\ IsFiniteSet(S \cup T)
         /\ Cardinality(S \cup T) = Cardinality(S) + Cardinality(T)
  BY FS_Union, FS_EmptySet, FS_CardinalityType

\* What get_samples returns: over_sampling_batch_size groups, none of which is
\* pending, accepted or trained.
LEMMA DrawnGroups ==
  ASSUME TypeOK, Places, NEW B \in SUBSET buffer,
         Cardinality(B) <= OverSampling,
         next + OverSampling - Cardinality(B) <= MaxGroups
  PROVE  /\ next + OverSampling - Cardinality(B) \in next .. MaxGroups
         /\ Drawn(B) \subseteq 1 .. next + OverSampling - Cardinality(B)
         /\ Drawn(B) \subseteq Group
         /\ IsFiniteSet(Drawn(B)) /\ Cardinality(Drawn(B)) = OverSampling
         /\ Drawn(B) \cap (pendings \cup data \cup trained \cup recycled \cup (buffer \ B)) = {}
  <1> DEFINE last  == next + OverSampling - Cardinality(B)
             fresh == next + 1 .. last
  <1>1. B \subseteq 1 .. next /\ IsFiniteSet(B) /\ Cardinality(B) \in Nat
    <2>1. B \subseteq 1 .. next
      BY DEF TypeOK
    <2> QED
      BY <2>1, FiniteGroups
  <1>2. /\ next \in Nat /\ MaxGroups \in Nat /\ OverSampling \in Nat
        /\ pendings \cup data \cup trained \cup recycled \cup buffer \subseteq 1 .. next
    BY CollectAssumption DEF TypeOK
  <1>0. last \in next .. MaxGroups /\ last - next = OverSampling - Cardinality(B)
    BY <1>1, <1>2
  <1>9. Drawn(B) = B \cup fresh
    BY DEF Drawn
  <1> HIDE DEF last
  <1>3. B \cap fresh = {} /\ fresh \cap (1 .. next) = {}
    BY <1>0, <1>1, <1>2
  <1>4. IsFiniteSet(fresh) /\ Cardinality(fresh) = OverSampling - Cardinality(B)
    <2>1. last \in Int /\ next + 1 \in Int
      BY <1>0, <1>2
    <2>2. IsFiniteSet(fresh) /\ Cardinality(fresh) = IF next + 1 > last THEN 0 ELSE last - (next + 1) + 1
      BY <2>1, FS_Interval
    <2> QED
      BY <2>1, <2>2, <1>0, <1>1, <1>2
  <1>5. IsFiniteSet(Drawn(B)) /\ Cardinality(Drawn(B)) = OverSampling
    <2> HIDE DEF fresh
    <2>1. IsFiniteSet(B \cup fresh) /\ Cardinality(B \cup fresh) = Cardinality(B) + Cardinality(fresh)
      BY <1>1, <1>3, <1>4, PutTogether
    <2> QED
      BY <2>1, <1>1, <1>2, <1>4, <1>9
  <1>6. B \cap (pendings \cup data \cup trained \cup recycled \cup (buffer \ B)) = {}
    BY DEF Places
  <1>7. fresh \cap (pendings \cup data \cup trained \cup recycled \cup (buffer \ B)) = {}
    BY <1>2, <1>3
  <1>8. Drawn(B) \subseteq 1 .. last /\ 1 .. last \subseteq Group
    BY <1>0, <1>1, <1>2, <1>9 DEF Group
  <1>10. Drawn(B) \cap (pendings \cup data \cup trained \cup recycled \cup (buffer \ B)) = {}
    BY <1>6, <1>7, <1>9
  <1> QED
    BY <1>0, <1>5, <1>8, <1>10 DEF last

-----------------------------------------------------------------------------
(* The collecting coroutine.                                                  *)

LEMMA BeginStep == CollectInv /\ Begin => CollectInv'
  <1> SUFFICES ASSUME CollectInv, Begin PROVE CollectInv'
    OBVIOUS
  <1> USE DEF CollectInv, Begin, state, child, history, env
  <1>1. TypeOK'
    BY CollectAssumption DEF TypeOK
  <1>2. Children'
    BY DEF Children, Busy
  <1>3. Account'
    BY CollectAssumption, FS_EmptySet DEF Account
  <1>4. Places'
    BY DEF Places
  <1>5. Samples'
    BY DEF Samples, Account
  <1> QED
    BY <1>1, <1>2, <1>3, <1>4, <1>5

LEMMA FillStep == CollectInv /\ Fill => CollectInv'
  <1> SUFFICES ASSUME CollectInv, Fill PROVE CollectInv'
    OBVIOUS
  <1>1. PICK B \in SUBSET buffer :
          /\ Cardinality(B) = Least(Cardinality(buffer), OverSampling)
          /\ next + OverSampling - Cardinality(B) <= MaxGroups
          /\ Submit(Drawn(B))
          /\ buffer' = buffer \ B
          /\ next' = next + OverSampling - Cardinality(B)
    BY DEF Fill
  <1>2. UNCHANGED <<pc, round, aborted, data, recycled, trained, left, gen, closing, sem,
                    unfinished, gaveUp, filtered, errors, escapes>>
    BY DEF Fill, history, env
  <1>3. TypeOK /\ Children /\ Account /\ Places /\ Samples /\ pc = "fill" /\ remaining < Target
    BY DEF CollectInv, Fill
  <1>4. Cardinality(B) <= OverSampling
    <2>1. Cardinality(buffer) \in Nat
      BY <1>3, FiniteGroups DEF TypeOK
    <2> QED
      BY <1>1, <2>1, LeastIs, CollectAssumption
  <1> DEFINE S == Drawn(B)
  <1>5. /\ next' \in next .. MaxGroups /\ S \subseteq 1 .. next' /\ S \subseteq Group
        /\ IsFiniteSet(S) /\ Cardinality(S) = OverSampling
        /\ S \cap (pendings \cup data \cup trained \cup recycled \cup (buffer \ B)) = {}
    BY <1>1, <1>3, <1>4, DrawnGroups
  <1>6. /\ pendings' = pendings \cup S
        /\ remaining' = remaining + OverSampling
        /\ task' = [g \in Group |-> IF g \in S THEN "running" ELSE task[g]]
        /\ waiting' = [g \in Group |-> IF g \in S THEN left[g] ELSE waiting[g]]
    BY <1>1 DEF Submit
  <1>7. \A g \in S : /\ g \in Group
                     /\ gen[g] = 0 /\ closing[g] = 0 /\ waiting[g] = 0
    <2> SUFFICES ASSUME NEW g \in S
                 PROVE  g \in Group /\ gen[g] = 0 /\ closing[g] = 0 /\ waiting[g] = 0
      OBVIOUS
    <2>1. g \in Group
      BY <1>5
    <2>2. task[g] \in {"none", "ended"}
      <3>1. CASE g \in B
        BY <3>1, <1>3 DEF Places
      <3>2. CASE g > next
        BY <3>2, <2>1, <1>3 DEF Children
      <3>3. g \in B \/ g > next
        BY <1>3 DEF Drawn, TypeOK
      <3> QED
        BY <3>1, <3>2, <3>3
    <2>3. ~Busy(g)
      BY <1>3, <2>1, <2>2 DEF Children
    <2> QED
      BY <1>3, <2>1, <2>3 DEF Busy, TypeOK
  <1>8. TypeOK'
    BY <1>1, <1>2, <1>3, <1>5, <1>6, CollectAssumption DEF TypeOK
  <1>9. Children'
    <2> SUFFICES ASSUME NEW g \in Group
                 PROVE  /\ waiting'[g] + gen'[g] + closing'[g] <= left'[g] /\ left'[g] <= GroupSize
                        /\ task'[g] \in {"none", "ended"} => ~Busy(g)'
                        /\ g > next' => task'[g] = "none"
      BY DEF Children
    <2>1. CASE g \in S
      BY <2>1, <1>2, <1>3, <1>5, <1>6, <1>7 DEF Children, TypeOK
    <2>2. CASE g \notin S
      <3>1. g > next' => g > next
        BY <1>3, <1>5 DEF TypeOK, Group
      <3> QED
        BY <2>2, <3>1, <1>2, <1>3, <1>6 DEF Children, Busy
    <2> QED
      BY <2>1, <2>2
  <1>10. Account'
    <2>1. IsFiniteSet(pendings) /\ Cardinality(pendings) \in Nat /\ Cardinality(data) \in Nat
      BY <1>3, FiniteGroups DEF TypeOK
    <2>2. Cardinality(pendings') = Cardinality(pendings) + OverSampling
      BY <2>1, <1>5, <1>6, PutTogether
    <2> QED
      BY <2>1, <2>2, <1>2, <1>3, <1>6, CollectAssumption DEF Account
  <1>11. Places'
    <2>1. \A g \in data \cup trained \cup recycled \cup (buffer \ B) : task'[g] = "ended"
      <3> SUFFICES ASSUME NEW g \in data \cup trained \cup recycled \cup (buffer \ B)
                   PROVE  task'[g] = "ended"
        OBVIOUS
      <3>1. g \in 1 .. next /\ g \notin S
        BY <1>3, <1>5 DEF TypeOK
      <3>2. g \in Group /\ task[g] = "ended"
        BY <3>1, <1>3, FiniteGroups DEF Places
      <3> QED
        BY <3>1, <3>2, <1>6
    <2> QED
      BY <2>1, <1>1, <1>2, <1>3, <1>5, <1>6 DEF Places
  <1>12. Samples'
    <2>1. \A g \in pendings' : /\ task'[g] = "running" => left[g] = waiting'[g] + gen[g]
                               /\ task'[g] = "ended" => left[g] = 0
      <3> SUFFICES ASSUME NEW g \in pendings'
                   PROVE  /\ task'[g] = "running" => left[g] = waiting'[g] + gen[g]
                          /\ task'[g] = "ended" => left[g] = 0
        OBVIOUS
      <3>1. g \in Group
        <4>1. pendings \subseteq 1 .. next
          BY <1>3 DEF TypeOK
        <4> QED
          BY <4>1, <1>3, <1>5, <1>6, FiniteGroups
      <3>2. CASE g \in S
        BY <3>1, <3>2, <1>3, <1>6, <1>7 DEF TypeOK
      <3>3. CASE g \notin S
        BY <3>1, <3>3, <1>3, <1>6 DEF Samples
      <3> QED
        BY <3>2, <3>3
    <2> QED
      BY <2>1, <1>2, <1>3 DEF Samples
  <1> QED
    BY <1>8, <1>9, <1>10, <1>11, <1>12 DEF CollectInv

LEMMA WaitStep == CollectInv /\ Wait => CollectInv'
  <1> SUFFICES ASSUME CollectInv, Wait PROVE CollectInv'
    OBVIOUS
  <1> USE DEF CollectInv, Wait, state, source, child, history, env
  <1>1. TypeOK'
    BY DEF TypeOK
  <1>2. Children'
    BY DEF Children, Busy
  <1>3. Account' /\ Places' /\ Samples'
    BY CollectAssumption DEF Account, Places, Samples, TypeOK
  <1> QED
    BY <1>1, <1>2, <1>3

\* The results that have come are taken out of the pending ones; the kept ones
\* among them go to the batch, as far as it has room.
LEMMA CollectStep == CollectInv /\ Collect => CollectInv'
  <1> SUFFICES ASSUME CollectInv, Collect PROVE CollectInv'
    OBVIOUS
  <1>1. /\ TypeOK /\ Children /\ Account /\ Places /\ Samples
        /\ pc = "wait" /\ pendings' = pendings \ Completed
        /\ UNCHANGED <<round, aborted, sem, next, task, left, waiting, gen, closing, recycled,
                       trained, buffer, unfinished, gaveUp, errors, escapes>>
    BY DEF CollectInv, Collect, source, child, history
  <1>2. Children'
    BY <1>1 DEF Children, Busy
  <1>3. /\ Completed \subseteq pendings /\ pendings \subseteq 1 .. next /\ data \subseteq 1 .. next
    BY <1>1 DEF Completed, TypeOK
  <1>4. CASE pc' = "failed" /\ UNCHANGED <<remaining, data, filtered>>
    <2>1. TypeOK'
      BY <1>1, <1>4 DEF TypeOK
    <2>2. Account' /\ Places' /\ Samples'
      BY <1>1, <1>4 DEF Account, Places, Samples
    <2> QED
      BY <1>2, <2>1, <2>2 DEF CollectInv
  <1>5. ASSUME NEW kept \in SUBSET Completed, Keep(kept), \A g \in Completed : task[g] = "ended"
        PROVE  CollectInv'
    <2> DEFINE gone == Cardinality(Completed \ kept)
    <2>1. PICK new \in SUBSET kept :
            /\ Cardinality(new) = Least(Cardinality(kept), Target - Cardinality(data))
            /\ data' = data \cup new
      BY <1>5 DEF Keep
    <2>2. /\ filtered' = filtered + gone /\ filtered' <= MaxFiltered
          /\ remaining' = remaining - gone
          /\ pc' = IF Cardinality(data') < Target THEN "fill" ELSE "cancel"
      BY <1>5 DEF Keep
    <2>3. IsFiniteSet(pendings) /\ IsFiniteSet(Completed) /\ IsFiniteSet(data) /\ IsFiniteSet(new)
      BY <1>1, <1>3, FiniteGroups, FS_Subset
    <2>4. /\ gone = Cardinality(Completed) - Cardinality(kept)
          /\ gone \in Nat /\ Cardinality(kept) \in Nat
      BY <2>3, TakenOut
    <2>5. Cardinality(pendings') = Cardinality(pendings) - Cardinality(Completed)
      BY <1>1, <1>3, <2>3, TakenOut
    <2>6. Cardinality(data') = Cardinality(data) + Cardinality(new)
      <3>1. data \cap new = {}
        BY <1>1, <1>3 DEF Places
      <3> QED
        BY <2>1, <2>3, <3>1, PutTogether
    <2>7. /\ Cardinality(data) \in Nat /\ Cardinality(pendings) \in Nat
          /\ Cardinality(Completed) \in Nat /\ Cardinality(new) \in Nat
      BY <2>3, FS_CardinalityType
    <2>8. /\ Cardinality(new) <= Target - Cardinality(data)
          /\ Cardinality(new) \in {Cardinality(kept), Target - Cardinality(data)}
      BY <2>1, <2>4, <2>7, LeastIs, CollectAssumption
    <2>9. TypeOK'
      <3>1. filtered' \in 0 .. MaxFiltered /\ remaining' \in Int
        <4> HIDE DEF gone
        <4> QED
          BY <1>1, <2>2, <2>4, CollectAssumption DEF TypeOK
      <3>2. data' \cup recycled' \cup trained' \cup buffer' \subseteq 1 .. next
        BY <1>1, <1>3, <2>1 DEF TypeOK
      <3>3. pendings' \cup unfinished' \subseteq 1 .. next
        BY <1>1, <1>3 DEF TypeOK
      <3>4. pc' \in {"fill", "cancel"}
        BY <2>2
      <3> QED
        BY <1>1, <3>1, <3>2, <3>3, <3>4 DEF TypeOK
    <2>10. Account'
      <3> HIDE DEF gone
      <3>1. CASE Cardinality(data') < Target
        BY <3>1, <1>1, <2>2, <2>4, <2>5, <2>6, <2>7, <2>8, CollectAssumption DEF Account
      <3>2. CASE ~(Cardinality(data') < Target)
        BY <3>2, <2>2, <2>6, <2>7, <2>8, CollectAssumption DEF Account
      <3> QED
        BY <3>1, <3>2
    <2>11. Places'
      BY <1>1, <1>3, <1>5, <2>1 DEF Places
    <2>12. Samples'
      BY <1>1, <1>3, <1>5, <2>1, <2>2 DEF Samples
    <2> QED
      BY <1>2, <2>9, <2>10, <2>11, <2>12 DEF CollectInv
  <1> QED
    BY <1>4, <1>5 DEF Collect

-----------------------------------------------------------------------------
(* abort().                                                                   *)

\* A cancellation moves the children of a group; it starts no work and does
\* not touch a task that has returned.
LEMMA CancelMoves ==
  ASSUME TypeOK, Children, NEW E \in SUBSET pendings, Cancel(E), UNCHANGED <<left, next>>
  PROVE  /\ task' \in [Group -> {"none", "running", "ended", "raised", "cancelling", "cancelled"}]
         /\ waiting' \in [Group -> Nat] /\ gen' \in [Group -> Nat] /\ closing' \in [Group -> Nat]
         /\ escapes' \in 0 .. MaxEscapes
         /\ Children'
         /\ \A g \in Group : task[g] = "ended" => task'[g] = "ended"
  <1> DEFINE C == (pendings \ Completed) \ E
  <1>1. /\ task' = [g \in Group |->
                     IF g \notin C \/ task[g] # "running" THEN task[g]
                     ELSE IF waiting[g] > 0 \/ gen[g] = 0 THEN "cancelled" ELSE "cancelling"]
        /\ waiting' = [g \in Group |-> IF g \in C THEN 0 ELSE waiting[g]]
        /\ gen' = [g \in Group |-> IF g \in C THEN 0 ELSE gen[g]]
        /\ closing' = [g \in Group |-> IF g \in C THEN closing[g] + gen[g] ELSE closing[g]]
        /\ escapes' = escapes + Cardinality(E) /\ escapes' <= MaxEscapes
    BY DEF Cancel
  <1> HIDE DEF C
  <1>2. /\ task' \in [Group -> {"none", "running", "ended", "raised", "cancelling", "cancelled"}]
        /\ waiting' \in [Group -> Nat] /\ gen' \in [Group -> Nat] /\ closing' \in [Group -> Nat]
    BY <1>1 DEF TypeOK
  <1>3. escapes' \in 0 .. MaxEscapes
    <2>1. pendings \subseteq 1 .. next
      BY DEF TypeOK
    <2>2. E \subseteq 1 .. next
      BY <2>1
    <2>3. Cardinality(E) \in Nat
      BY <2>2, FiniteGroups
    <2> QED
      BY <1>1, <2>3, CollectAssumption DEF TypeOK
  <1>4. Children'
    <2> SUFFICES ASSUME NEW g \in Group
                 PROVE  /\ waiting'[g] + gen'[g] + closing'[g] <= left[g] /\ left[g] <= GroupSize
                        /\ task'[g] \in {"none", "ended"} =>
                             ~(waiting'[g] + gen'[g] + closing'[g] > 0)
                        /\ g > next => task'[g] = "none"
      BY DEF Children, Busy
    <2>1. /\ waiting[g] \in Nat /\ gen[g] \in Nat /\ closing[g] \in Nat /\ left[g] \in Nat
          /\ waiting[g] + gen[g] + closing[g] <= left[g] /\ left[g] <= GroupSize
          /\ task[g] \in {"none", "ended"} => ~(waiting[g] + gen[g] + closing[g] > 0)
          /\ g > next => task[g] = "none"
      BY DEF TypeOK, Children, Busy
    <2>2. CASE g \in C
      BY <2>1, <2>2, <1>1
    <2>3. CASE g \notin C
      BY <2>1, <2>3, <1>1
    <2> QED
      BY <2>2, <2>3
  <1>5. \A g \in Group : task[g] = "ended" => task'[g] = "ended"
    BY <1>1
  <1> QED
    BY <1>2, <1>3, <1>4, <1>5

\* What abort() does to a batch that is full: nothing.
LEMMA AbortStep == CollectInv /\ (Abort \/ AbortTimeout) => CollectInv'
  <1> SUFFICES ASSUME CollectInv, Abort \/ AbortTimeout PROVE CollectInv'
    OBVIOUS
  <1>1. /\ TypeOK /\ Children /\ Account /\ Places /\ Samples
        /\ UNCHANGED <<round, remaining, data, recycled, trained, buffer, next, left, sem, filtered, errors>>
        /\ pc \in {"cancel", "abort"} /\ pc' = "abort"
        /\ pendings' \subseteq pendings /\ unfinished' \subseteq pendings \cup unfinished
        /\ aborted' \in BOOLEAN /\ gaveUp' \in BOOLEAN
    BY DEF CollectInv, Abort, AbortTimeout, source, TypeOK
  <1>2. PICK E \in SUBSET pendings : Cancel(E)
    BY DEF Abort, AbortTimeout
  <1>3. /\ task' \in [Group -> {"none", "running", "ended", "raised", "cancelling", "cancelled"}]
        /\ waiting' \in [Group -> Nat] /\ gen' \in [Group -> Nat] /\ closing' \in [Group -> Nat]
        /\ escapes' \in 0 .. MaxEscapes
        /\ Children'
        /\ \A g \in Group : task[g] = "ended" => task'[g] = "ended"
    BY <1>1, <1>2, CancelMoves
  <1>4. TypeOK'
    BY <1>1, <1>3 DEF TypeOK
  <1>5. Account'
    BY <1>1 DEF Account
  <1>6. Places'
    <2>1. data \cup trained \cup recycled \cup buffer \subseteq Group
      <3>1. data \cup trained \cup recycled \cup buffer \subseteq 1 .. next
        BY <1>1 DEF TypeOK
      <3> QED
        BY <3>1, <1>1, FiniteGroups
    <2> QED
      BY <2>1, <1>1, <1>3 DEF Places
  <1>7. Samples'
    BY <1>1 DEF Samples
  <1> QED
    BY <1>3, <1>4, <1>5, <1>6, <1>7 DEF CollectInv

LEMMA AbortCollectStep == CollectInv /\ AbortCollect => CollectInv'
  <1> SUFFICES ASSUME CollectInv, AbortCollect PROVE CollectInv'
    OBVIOUS
  <1>1. /\ TypeOK /\ Children /\ Account /\ Places /\ Samples /\ pc = "abort"
        /\ pendings' = pendings \ Completed
        /\ recycled' = IF PartialRollout
                       THEN recycled \cup {g \in Completed : task[g] = "ended"} ELSE recycled
        /\ UNCHANGED <<pc, round, remaining, aborted, data, trained, buffer, next, task, left, waiting,
                       gen, closing, sem, unfinished, gaveUp, filtered, errors, escapes>>
    BY DEF CollectInv, AbortCollect, child, history, env
  <1>2. TypeOK'
    BY <1>1 DEF TypeOK, Completed
  <1>3. Children'
    BY <1>1 DEF Children, Busy
  <1>4. Account' /\ Samples'
    BY <1>1 DEF Account, Samples
  <1>5. Places'
    BY <1>1 DEF Places, Completed
  <1> QED
    BY <1>2, <1>3, <1>4, <1>5 DEF CollectInv

LEMMA EndRolloutStep == CollectInv /\ EndRollout => CollectInv'
  <1> SUFFICES ASSUME CollectInv, EndRollout PROVE CollectInv'
    OBVIOUS
  <1>1. /\ TypeOK /\ Children /\ Account /\ Places /\ Samples /\ pendings = {}
        /\ trained' = trained \cup data /\ buffer' = buffer \cup recycled
        /\ data' = {} /\ recycled' = {} /\ remaining' = 0 /\ aborted' = FALSE /\ pc' = "idle"
        /\ UNCHANGED <<round, pendings, next, task, left, waiting, gen, closing, sem,
                       unfinished, gaveUp, filtered, errors, escapes>>
    BY DEF CollectInv, EndRollout, child, history, env
  <1>2. TypeOK'
    <2>1. data \cup recycled \cup trained \cup buffer \subseteq 1 .. next
      BY <1>1 DEF TypeOK
    <2>2. data' \cup recycled' \cup trained' \cup buffer' = data \cup recycled \cup trained \cup buffer
      BY <1>1
    <2>3. data' \cup recycled' \cup trained' \cup buffer' \subseteq 1 .. next'
      BY <2>1, <2>2, <1>1
    <2>4. pendings' \cup unfinished' \subseteq 1 .. next'
      BY <1>1 DEF TypeOK
    <2>5. /\ round' \in 0 .. NumRollout /\ sem' \in Nat /\ next' \in 0 .. MaxGroups
          /\ gaveUp' \in BOOLEAN
          /\ filtered' \in 0 .. MaxFiltered /\ errors' \in 0 .. MaxErrors /\ escapes' \in 0 .. MaxEscapes
      BY <1>1 DEF TypeOK
    <2>7. pc' \in {"idle", "fill", "wait", "cancel", "abort", "failed"} /\ remaining' \in Int
      BY <1>1
    <2>8. aborted' \in BOOLEAN
      BY <1>1, Zenon
    <2>6. /\ task' \in [Group -> {"none", "running", "ended", "raised", "cancelling", "cancelled"}]
          /\ left' \in [Group -> Nat] /\ waiting' \in [Group -> Nat]
          /\ gen' \in [Group -> Nat] /\ closing' \in [Group -> Nat]
      BY <1>1 DEF TypeOK
    <2> QED
      BY <2>3, <2>4, <2>5, <2>6, <2>7, <2>8 DEF TypeOK
  <1>3. Children'
    BY <1>1 DEF Children, Busy
  <1>4. Account' /\ Samples'
    BY <1>1 DEF Account, Samples
  <1>5. Places'
    BY <1>1 DEF Places
  <1> QED
    BY <1>2, <1>3, <1>4, <1>5 DEF CollectInv

-----------------------------------------------------------------------------
(* The tasks.                                                                 *)

\* What a step of a child or of a group's task has to leave true: it is one of
\* a group whose task has not returned, so no group that was accepted or kept
\* is touched.
LEMMA TaskFrame ==
  ASSUME CollectInv, Suspended, TaskOnly, NEW g \in Group,
         task[g] \notin {"none", "ended"},
         sem' \in Nat,
         task' \in [Group -> {"none", "running", "ended", "raised", "cancelling", "cancelled"}],
         left' \in [Group -> Nat], waiting' \in [Group -> Nat],
         gen' \in [Group -> Nat], closing' \in [Group -> Nat],
         filtered' = filtered, errors' \in 0 .. MaxErrors, escapes' = escapes,
         \A h \in Group \ {g} : /\ task'[h] = task[h] /\ left'[h] = left[h]
                                /\ waiting'[h] = waiting[h] /\ gen'[h] = gen[h]
                                /\ closing'[h] = closing[h],
         waiting'[g] + gen'[g] + closing'[g] <= left'[g], left'[g] <= GroupSize,
         task'[g] # "none", task'[g] = "ended" => waiting'[g] + gen'[g] + closing'[g] = 0,
         pc = "wait" /\ g \in pendings =>
           /\ task'[g] = "running" => left'[g] = waiting'[g] + gen'[g]
           /\ task'[g] = "ended" => left'[g] = 0
  PROVE  CollectInv'
  <1>1. /\ TypeOK /\ Children /\ Account /\ Places /\ Samples
        /\ UNCHANGED <<pc, round, remaining, pendings, aborted, data, recycled, trained, buffer, next,
                       unfinished, gaveUp>>
    BY DEF CollectInv, TaskOnly, state, source, history
  <1>2. TypeOK'
    BY <1>1 DEF TypeOK
  <1>3. Children'
    <2> SUFFICES ASSUME NEW h \in Group
                 PROVE  /\ waiting'[h] + gen'[h] + closing'[h] <= left'[h] /\ left'[h] <= GroupSize
                        /\ task'[h] \in {"none", "ended"} =>
                             ~(waiting'[h] + gen'[h] + closing'[h] > 0)
                        /\ h > next => task'[h] = "none"
      BY <1>1 DEF Children, Busy
    <2>1. CASE h # g
      BY <2>1, <1>1 DEF Children, Busy
    <2>2. CASE h = g
      BY <2>2, <1>1 DEF Children
    <2> QED
      BY <2>1, <2>2
  <1>4. Account'
    BY <1>1 DEF Account
  <1>5. data \cup trained \cup recycled \cup buffer \subseteq Group \ {g}
    <2>1. data \cup trained \cup recycled \cup buffer \subseteq 1 .. next
      BY <1>1 DEF TypeOK
    <2> QED
      BY <2>1, <1>1, FiniteGroups DEF Places
  <1>6. Places'
    BY <1>1, <1>5 DEF Places
  <1>7. Samples'
    <2>1. pendings \subseteq Group
      <3>1. pendings \subseteq 1 .. next
        BY <1>1 DEF TypeOK
      <3> QED
        BY <3>1, <1>1, FiniteGroups
    <2>2. ASSUME pc = "wait", NEW h \in pendings
          PROVE  /\ task'[h] = "running" => left'[h] = waiting'[h] + gen'[h]
                 /\ task'[h] = "ended" => left'[h] = 0
      <3>1. CASE h # g
        BY <2>1, <2>2, <3>1, <1>1 DEF Samples
      <3>2. CASE h = g
        BY <2>2, <3>2
      <3> QED
        BY <3>1, <3>2
    <2>3. pc # "fill"
      BY DEF Suspended
    <2> QED
      BY <1>1, <1>5, <2>2, <2>3 DEF Samples
  <1> QED
    BY <1>2, <1>3, <1>4, <1>6, <1>7 DEF CollectInv

\* The counts of one group, and what they say of its task.
LEMMA GroupFacts ==
  ASSUME CollectInv, NEW g \in Group
  PROVE  /\ sem \in Nat /\ left[g] \in Nat /\ waiting[g] \in Nat /\ gen[g] \in Nat /\ closing[g] \in Nat
         /\ task \in [Group -> {"none", "running", "ended", "raised", "cancelling", "cancelled"}]
         /\ left \in [Group -> Nat] /\ waiting \in [Group -> Nat]
         /\ gen \in [Group -> Nat] /\ closing \in [Group -> Nat]
         /\ errors \in 0 .. MaxErrors
         /\ waiting[g] + gen[g] + closing[g] <= left[g] /\ left[g] <= GroupSize
         /\ task[g] \in {"none", "ended"} => waiting[g] = 0 /\ gen[g] = 0 /\ closing[g] = 0
         /\ pc = "wait" => ~aborted
         /\ pc = "wait" /\ g \in pendings =>
              /\ task[g] = "running" => left[g] = waiting[g] + gen[g]
              /\ task[g] = "ended" => left[g] = 0
  <1>1. TypeOK /\ Children /\ Samples
    BY DEF CollectInv
  <1>2. /\ sem \in Nat /\ errors \in 0 .. MaxErrors
        /\ task \in [Group -> {"none", "running", "ended", "raised", "cancelling", "cancelled"}]
        /\ left \in [Group -> Nat] /\ waiting \in [Group -> Nat]
        /\ gen \in [Group -> Nat] /\ closing \in [Group -> Nat]
    BY <1>1 DEF TypeOK
  <1>3. left[g] \in Nat /\ waiting[g] \in Nat /\ gen[g] \in Nat /\ closing[g] \in Nat
    BY <1>2
  <1>4. /\ waiting[g] + gen[g] + closing[g] <= left[g] /\ left[g] <= GroupSize
        /\ task[g] \in {"none", "ended"} => waiting[g] = 0 /\ gen[g] = 0 /\ closing[g] = 0
    BY <1>1, <1>3 DEF Children, Busy
  <1>5. /\ pc = "wait" => ~aborted
        /\ pc = "wait" /\ g \in pendings =>
             /\ task[g] = "running" => left[g] = waiting[g] + gen[g]
             /\ task[g] = "ended" => left[g] = 0
    BY <1>1 DEF Samples
  <1> QED
    BY <1>2, <1>3, <1>4, <1>5

LEMMA TaskStep == CollectInv /\ (Tasks \/ CleanUps) => CollectInv'
  <1> SUFFICES ASSUME CollectInv, Suspended, TaskOnly, NEW g \in Group,
                      \/ Acquire(g) \/ SampleEnds(g) \/ SampleRaises(g)
                      \/ GroupEnds(g) \/ CleanedUp(g)
               PROVE  CollectInv'
    BY DEF Tasks, CleanUps
  <1> DEFINE Types ==
        /\ sem' \in Nat
        /\ task' \in [Group -> {"none", "running", "ended", "raised", "cancelling", "cancelled"}]
        /\ left' \in [Group -> Nat] /\ waiting' \in [Group -> Nat]
        /\ gen' \in [Group -> Nat] /\ closing' \in [Group -> Nat]
        /\ filtered' = filtered /\ errors' \in 0 .. MaxErrors /\ escapes' = escapes
      Others ==
        \A h \in Group \ {g} : /\ task'[h] = task[h] /\ left'[h] = left[h]
                               /\ waiting'[h] = waiting[h] /\ gen'[h] = gen[h]
                               /\ closing'[h] = closing[h]
      This ==
        /\ task[g] \notin {"none", "ended"}
        /\ waiting'[g] + gen'[g] + closing'[g] <= left'[g] /\ left'[g] <= GroupSize
        /\ task'[g] # "none"
        /\ task'[g] = "ended" => waiting'[g] + gen'[g] + closing'[g] = 0
        /\ pc = "wait" /\ g \in pendings =>
             /\ task'[g] = "running" => left'[g] = waiting'[g] + gen'[g]
             /\ task'[g] = "ended" => left'[g] = 0
  <1>1. CASE Acquire(g)
    <2>1. Types
      BY <1>1, GroupFacts DEF Acquire, env
    <2>2. Others
      BY <1>1, GroupFacts DEF Acquire, env
    <2>3. This
      BY <1>1, GroupFacts DEF Acquire, env
    <2> QED
      BY <2>1, <2>2, <2>3, TaskFrame
  <1>2. CASE SampleEnds(g)
    <2>0. /\ sem \in Nat /\ left[g] \in Nat /\ waiting[g] \in Nat /\ gen[g] \in Nat /\ closing[g] \in Nat
          /\ task \in [Group -> {"none", "running", "ended", "raised", "cancelling", "cancelled"}]
          /\ left \in [Group -> Nat] /\ waiting \in [Group -> Nat]
          /\ gen \in [Group -> Nat] /\ closing \in [Group -> Nat]
          /\ errors \in 0 .. MaxErrors
          /\ waiting[g] + gen[g] + closing[g] <= left[g] /\ left[g] <= GroupSize
          /\ task[g] \in {"none", "ended"} => waiting[g] = 0 /\ gen[g] = 0 /\ closing[g] = 0
          /\ pc = "wait" => ~aborted
          /\ pc = "wait" /\ g \in pendings =>
               /\ task[g] = "running" => left[g] = waiting[g] + gen[g]
               /\ task[g] = "ended" => left[g] = 0
      BY GroupFacts
    <2>4. /\ gen[g] > 0 /\ sem' = sem + 1
          /\ gen' = [gen EXCEPT ![g] = @ - 1]
          /\ UNCHANGED <<task, waiting, closing, filtered, errors, escapes>>
          /\ left' = [left EXCEPT ![g] = @ - 1] \/ (aborted /\ left' = left)
      BY <1>2 DEF SampleEnds, Release, env
    <2>5. left[g] - 1 \in Nat /\ gen[g] - 1 \in Nat
      BY <2>0, <2>4
    <2>6. /\ gen'[g] = gen[g] - 1 /\ left'[g] \in {left[g], left[g] - 1}
          /\ pc = "wait" => left'[g] = left[g] - 1
      BY <2>0, <2>4
    <2>1. Types
      BY <2>0, <2>4, <2>5
    <2>2. Others
      BY <2>0, <2>4
    <2>7. waiting'[g] + gen'[g] + closing'[g] <= left'[g] /\ left'[g] <= GroupSize
      BY <2>0, <2>4, <2>5, <2>6, CollectAssumption
    <2>3. This
      BY <2>0, <2>4, <2>5, <2>6, <2>7
    <2> QED
      BY <2>1, <2>2, <2>3, TaskFrame
  <1>3. CASE SampleRaises(g)
    <2>1. Types
      BY <1>3, GroupFacts, CollectAssumption DEF SampleRaises, Release
    <2>2. Others
      BY <1>3, GroupFacts DEF SampleRaises, Release
    <2>3. This
      BY <1>3, GroupFacts DEF SampleRaises, Release
    <2> QED
      BY <2>1, <2>2, <2>3, TaskFrame
  <1>4. CASE GroupEnds(g)
    <2>1. Types
      BY <1>4, GroupFacts DEF GroupEnds, Busy, child, env
    <2>2. Others
      BY <1>4, GroupFacts DEF GroupEnds, Busy, child, env
    <2>0. /\ sem \in Nat /\ left[g] \in Nat /\ waiting[g] \in Nat /\ gen[g] \in Nat /\ closing[g] \in Nat
          /\ task \in [Group -> {"none", "running", "ended", "raised", "cancelling", "cancelled"}]
          /\ left \in [Group -> Nat] /\ waiting \in [Group -> Nat]
          /\ gen \in [Group -> Nat] /\ closing \in [Group -> Nat]
          /\ errors \in 0 .. MaxErrors
          /\ waiting[g] + gen[g] + closing[g] <= left[g] /\ left[g] <= GroupSize
          /\ task[g] \in {"none", "ended"} => waiting[g] = 0 /\ gen[g] = 0 /\ closing[g] = 0
          /\ pc = "wait" => ~aborted
          /\ pc = "wait" /\ g \in pendings =>
               /\ task[g] = "running" => left[g] = waiting[g] + gen[g]
               /\ task[g] = "ended" => left[g] = 0
      BY GroupFacts
    <2>4. task[g] = "running" /\ task'[g] = "ended" /\ UNCHANGED <<left, waiting, gen, closing>>
      BY <1>4, <2>0 DEF GroupEnds, child
    <2>5. waiting[g] = 0 /\ gen[g] = 0 /\ closing[g] = 0
      BY <1>4, <2>0 DEF GroupEnds, Busy
    <2>3. This
      BY <2>0, <2>4, <2>5
    <2> QED
      BY <2>1, <2>2, <2>3, TaskFrame
  <1>5. CASE CleanedUp(g)
    <2>1. Types
      BY <1>5, GroupFacts DEF CleanedUp, Release, env
    <2>2. Others
      BY <1>5, GroupFacts DEF CleanedUp, Release, env
    <2>3. This
      BY <1>5, GroupFacts DEF CleanedUp, Release, env
    <2> QED
      BY <2>1, <2>2, <2>3, TaskFrame
  <1> QED
    BY <1>1, <1>2, <1>3, <1>4, <1>5

-----------------------------------------------------------------------------

LEMMA InitInv == Init => CollectInv
  <1> SUFFICES ASSUME Init PROVE CollectInv
    OBVIOUS
  <1> USE DEF Init
  <1>1. TypeOK
    <2>1. sem \in Nat /\ GroupSize \in Nat
      BY CollectAssumption
    <2>2. /\ left \in [Group -> Nat] /\ waiting \in [Group -> Nat]
          /\ gen \in [Group -> Nat] /\ closing \in [Group -> Nat]
          /\ task \in [Group -> {"none", "running", "ended", "raised", "cancelling", "cancelled"}]
      BY <2>1
    <2>3. round \in 0 .. NumRollout /\ next \in 0 .. MaxGroups
      BY CollectAssumption
    <2>4. filtered \in 0 .. MaxFiltered /\ errors \in 0 .. MaxErrors /\ escapes \in 0 .. MaxEscapes
      BY CollectAssumption
    <2>5. /\ pendings \cup unfinished \subseteq 1 .. next
          /\ data \cup recycled \cup trained \cup buffer \subseteq 1 .. next
      OBVIOUS
    <2>6. pc \in {"idle", "fill", "wait", "cancel", "abort", "failed"} /\ remaining \in Int
      OBVIOUS
    <2>7. aborted \in BOOLEAN /\ gaveUp \in BOOLEAN
      BY Zenon
    <2> HIDE DEF Init
    <2> QED
      BY <2>1, <2>2, <2>3, <2>4, <2>5, <2>6, <2>7 DEF TypeOK
  <1>2. Children
    BY CollectAssumption DEF Children, Busy
  <1>3. Account /\ Places /\ Samples
    BY CollectAssumption DEF Account, Places, Samples
  <1> QED
    BY <1>1, <1>2, <1>3 DEF CollectInv

LEMMA NextInv == CollectInv /\ [Next]_vars => CollectInv'
  <1>1. ASSUME CollectInv, UNCHANGED vars PROVE CollectInv'
    <2> USE <1>1 DEF CollectInv, vars, state, source, child, history, env
    <2>1. TypeOK'
      BY DEF TypeOK
    <2>2. Children'
      BY DEF Children, Busy
    <2>3. Account' /\ Places' /\ Samples'
      BY DEF Account, Places, Samples
    <2> QED
      BY <2>1, <2>2, <2>3
  <1>2. CollectInv /\ Loop => CollectInv'
    BY BeginStep, FillStep, WaitStep, CollectStep, AbortStep, AbortCollectStep, EndRolloutStep DEF Loop
  <1> QED
    BY <1>1, <1>2, TaskStep DEF Next, Over

\* The inductive invariant of the collecting coroutine and its tasks.
THEOREM CollectInvariance == Spec => []CollectInv
  BY InitInv, NextInv, PTL DEF Spec

\* asyncio.wait is never called without a task, for any batch size,
\* over-sampling, filter and buffer.
THEOREM NeverWaits == Spec => []NeverWaitsForNothing
  <1>1. CollectInv => NeverWaitsForNothing
    <2> SUFFICES ASSUME CollectInv, pc = "wait"
                 PROVE  Cardinality(pendings) >= Target - Cardinality(data)
      BY DEF NeverWaitsForNothing
    <2>1. TypeOK /\ Account
      BY DEF CollectInv
    <2>2. pendings \subseteq 1 .. next /\ data \subseteq 1 .. next
      BY <2>1 DEF TypeOK
    <2>3. Cardinality(pendings) \in Nat /\ Cardinality(data) \in Nat
      BY <2>1, <2>2, FiniteGroups
    <2> QED
      BY <2>1, <2>3, CollectAssumption DEF Account
  <1> QED
    BY <1>1, CollectInvariance, PTL

\* No group is trained twice, with oversampling, aborts and recycling.
THEOREM GroupsTrainedOnce == Spec => []TrainedOnce
  <1>1. CollectInv => TrainedOnce
    BY DEF CollectInv, Places, TrainedOnce
  <1> QED
    BY <1>1, CollectInvariance, PTL

\* Nothing writes to a group that was accepted, trained or kept, however late
\* a cancelled generation ends.
THEOREM GroupsHaveOneWriter == Spec => []OneWriter
  <1>1. CollectInv => OneWriter
    <2> SUFFICES ASSUME CollectInv, NEW g \in data \cup trained \cup recycled \cup buffer
                 PROVE  task[g] = "ended" /\ ~Busy(g)
      BY DEF OneWriter
    <2>1. g \in 1 .. next /\ TypeOK /\ Children /\ Places
      BY DEF CollectInv, TypeOK
    <2>2. g \in Group /\ task[g] = "ended"
      BY <2>1, FiniteGroups DEF Places
    <2> QED
      BY <2>1, <2>2 DEF Children
  <1> QED
    BY <1>1, CollectInvariance, PTL

\* A batch that leaves the loop has rollout_batch_size groups, all complete.
THEOREM BatchesAreWhole == Spec => []BatchWhole
  <1>1. CollectInv => BatchWhole
    BY DEF CollectInv, Account, Samples, BatchWhole
  <1> QED
    BY <1>1, CollectInvariance, PTL

-----------------------------------------------------------------------------
(* The samples of a group.                                                    *)

Token == [of : Nat, after : Nat]
Bit == {0, 1}
Final == {"completed", "truncated"}      \* complete, for good
SampleRecord ==
  [tokens : Seq(Token), length : Nat, texts : Nat, logProbs : Seq(Token), mask : Seq(Bit),
   status : {"pending", "aborted"} \cup Final, judged : Nat]
RequestRecord == [after : Nat, budget : Nat]
MemberPlace == {"rest", "start", "queued", "engine", "judge", "done"}

\* What belongs to a token is there for each.
Tracked(s) ==
  /\ s \in SampleRecord
  /\ s.logProbs = s.tokens /\ s.length = Len(s.tokens)
  /\ s.mask # NoMask => Len(s.mask) = s.length
\* A sample that always had a text when it was interrupted.
Follows(s) ==
  /\ s.texts = 0 => s.length = 0
  /\ s.length <= MaxResponseLen
  /\ \A i \in 1 .. s.length : s.tokens[i].after = i - 1
\* A sample is judged when it is complete, and not before.
Judges(s, p) ==
  /\ p \in {"queued", "engine"} => s.status \notin Final
  /\ p = "judge" => s.status \in Final
  /\ IF s.status \in Final /\ p # "judge" THEN s.judged = s.length ELSE s.judged = Unjudged
\* What the engine was asked to go on from.
Asks(s, q) ==
  /\ q \in RequestRecord
  /\ Request(s).used + q.budget = MaxResponseLen /\ q.after = Request(s).after
\* What earlier weights generated, and what the loss is to count.
Older(s, r) == \A i \in 1 .. s.length : s.tokens[i].of < r
Since(s, r) == \A i \in 1 .. s.length : s.tokens[i].of <= r
Counted(s, r) ==
  \A i \in 1 .. s.length : (s.mask = NoMask \/ s.mask[i] = 1) <=> s.tokens[i].of = r

\* A sample s of a group at g, in a rollout r that is aborted or not (a), whose
\* child is at p with the request q; with the option (o).
SampleFits(s, p, q, g, r, a, o) ==
  /\ p \in MemberPlace
  /\ Tracked(s) /\ Judges(s, p) /\ Since(s, r)
  /\ p = "engine" => Asks(s, q)
  /\ ~a /\ g \in {"buffer", "running"} /\ p \in {"rest", "start"} => Older(s, r)
  /\ ~a /\ g = "running" /\ o /\ p \notin {"rest", "start"} => Counted(s, r)
  /\ ~a /\ g = "running" /\ p = "done" => s.status \in Final
  /\ g = "buffer" => p = "rest"
  /\ g = "running" => p # "rest"
  /\ g = "trained" => /\ s.status \in Final /\ s.judged = s.length
                      /\ o => Counted(s, r)

SamplesTypeOK ==
  /\ maskOffPolicy \in BOOLEAN /\ aborting \in BOOLEAN /\ rolloutId \in Nat
  /\ group \in {"buffer", "running", "gone", "trained", "failed"}
  /\ member \in [Members -> MemberPlace] /\ asked \in [Members -> RequestRecord]
  /\ sample \in [Members -> SampleRecord]
  /\ wordless \subseteq Members
SampleInv ==
  /\ SamplesTypeOK
  /\ \A m \in Members :
       SampleFits(sample[m], member[m], asked[m], group, rolloutId, aborting, maskOffPolicy)
  /\ \A m \in Members \ wordless : Follows(sample[m])
  /\ group = "failed" => wordless # {}

\* A step of one child, in a group that runs.
LEMMA OneChildKeeps ==
  ASSUME SampleInv, NEW m \in Members, NEW s, NEW p, NEW q \in RequestRecord,
         group = "running", UNCHANGED <<maskOffPolicy, rolloutId, aborting, group>>,
         sample' = [sample EXCEPT ![m] = s], member' = [member EXCEPT ![m] = p],
         asked' = [asked EXCEPT ![m] = q],
         wordless' \subseteq Members, wordless \subseteq wordless',
         SampleFits(s, p, q, group, rolloutId, aborting, maskOffPolicy),
         m \notin wordless' => Follows(s)
  PROVE  SampleInv'
  <1>1. p \in MemberPlace /\ s \in SampleRecord
    BY DEF SampleFits, Tracked
  <1>2. SamplesTypeOK'
    BY <1>1 DEF SampleInv, SamplesTypeOK
  <1>3. \A n \in Members : /\ sample'[n] = (IF n = m THEN s ELSE sample[n])
                           /\ member'[n] = (IF n = m THEN p ELSE member[n])
                           /\ asked'[n] = (IF n = m THEN q ELSE asked[n])
    BY DEF SampleInv, SamplesTypeOK
  <1>4. ASSUME NEW n \in Members
        PROVE  SampleFits(sample'[n], member'[n], asked'[n], group', rolloutId', aborting', maskOffPolicy')
    <2>1. CASE n = m
      BY <1>3, <2>1
    <2>2. CASE n # m
      BY <1>3, <2>2 DEF SampleInv
    <2> QED
      BY <2>1, <2>2
  <1>5. ASSUME NEW n \in Members \ wordless' PROVE Follows(sample'[n])
    <2>1. CASE n = m
      BY <1>3, <2>1
    <2>2. CASE n # m
      BY <1>3, <2>2 DEF SampleInv
    <2> QED
      BY <2>1, <2>2
  <1> QED
    BY <1>2, <1>4, <1>5 DEF SampleInv

\* A sample of the group, and what the invariant says of it.
LEMMA SampleKnown ==
  ASSUME SampleInv, NEW m \in Members
  PROVE  /\ sample[m] \in SampleRecord /\ asked[m] \in RequestRecord /\ member[m] \in MemberPlace
         /\ sample = [sample EXCEPT ![m] = sample[m]] /\ member = [member EXCEPT ![m] = member[m]]
         /\ asked = [asked EXCEPT ![m] = asked[m]]
         /\ SampleFits(sample[m], member[m], asked[m], group, rolloutId, aborting, maskOffPolicy)
         /\ m \notin wordless => Follows(sample[m])
         /\ rolloutId \in Nat /\ wordless \subseteq Members
         /\ maskOffPolicy \in BOOLEAN /\ aborting \in BOOLEAN
  BY DEF SampleInv, SamplesTypeOK

LEMMA JoinedSequences ==
  ASSUME NEW S, NEW a \in Seq(S), NEW b \in Seq(S)
  PROVE  /\ a \o b \in Seq(S) /\ Len(a \o b) = Len(a) + Len(b)
         /\ \A i \in 1 .. Len(a) : (a \o b)[i] = a[i]
         /\ \A i \in 1 .. Len(b) : (a \o b)[Len(a) + i] = b[i]
  OBVIOUS

LEMMA TokenIs ==
  ASSUME NEW s, Tracked(s), NEW i \in 1 .. s.length
  PROVE  s.tokens[i] \in Token /\ s.tokens[i].of \in Nat
  <1>1. s.tokens \in Seq(Token) /\ s.length = Len(s.tokens)
    BY DEF Tracked, SampleRecord
  <1>2. s.tokens[i] \in Token
    BY <1>1
  <1> QED
    BY <1>2 DEF Token

LEMMA StartSampleKeeps ==
  ASSUME SampleInv, NEW m \in Members, StartSample(m)
  PROVE  SampleInv'
  <1> DEFINE old == sample[m]
             masked == [i \in 1 .. old.length |-> 0]
             new == [old EXCEPT !.mask = IF maskOffPolicy /\ old.length > 0 THEN masked ELSE @]
             p == IF old.status \in Final THEN "done" ELSE "queued"
  <1>1. /\ old \in SampleRecord /\ asked[m] \in RequestRecord /\ rolloutId \in Nat
        /\ SampleFits(old, "start", asked[m], "running", rolloutId, aborting, maskOffPolicy)
        /\ m \notin wordless => Follows(old)
        /\ group = "running"
    BY SampleKnown DEF StartSample
  <1>2. /\ masked \in Seq(Bit) /\ Len(masked) = old.length
        /\ \A i \in 1 .. old.length : masked[i] = 0
        /\ old.length > 0 => masked # << >>
    BY <1>1 DEF SampleRecord, Bit
  <1>3. /\ new \in SampleRecord
        /\ new.tokens = old.tokens /\ new.length = old.length /\ new.texts = old.texts
        /\ new.logProbs = old.logProbs /\ new.status = old.status /\ new.judged = old.judged
        /\ new.mask = (IF maskOffPolicy /\ old.length > 0 THEN masked ELSE old.mask)
    BY <1>1, <1>2 DEF SampleRecord
  <1> HIDE DEF new, masked
  <1>4. Tracked(new)
    BY <1>1, <1>2, <1>3 DEF SampleFits, Tracked, NoMask
  <1>5. Judges(new, p)
    BY <1>1, <1>3 DEF SampleFits, Judges, Final
  <1>6. Since(new, rolloutId)
    <2>1. Since(old, rolloutId)
      BY <1>1 DEF SampleFits
    <2> QED
      BY <1>3, <2>1 DEF Since
  <1>7. ASSUME ~aborting, maskOffPolicy PROVE Counted(new, rolloutId)
    <2>1. \A i \in 1 .. old.length : old.tokens[i].of < rolloutId /\ old.tokens[i].of \in Nat
      <3>1. Older(old, rolloutId) /\ Tracked(old)
        BY <1>1, <1>7 DEF SampleFits
      <3> QED
        BY <3>1, TokenIs DEF Older
    <2>2. SUFFICES ASSUME NEW i \in 1 .. old.length
                   PROVE  (new.mask = NoMask \/ new.mask[i] = 1) <=> new.tokens[i].of = rolloutId
      BY <1>3 DEF Counted
    <2>3. new.mask # NoMask /\ new.mask[i] = 0
      BY <1>1, <1>2, <1>3, <1>7 DEF NoMask, SampleRecord
    <2>4. new.tokens[i].of # rolloutId
      BY <1>1, <1>3, <2>1
    <2> QED
      BY <2>3, <2>4
  <1>8. SampleFits(new, p, asked[m], "running", rolloutId, aborting, maskOffPolicy)
    <2>1. p \in {"done", "queued"} /\ (p = "done" => new.status \in Final)
      BY <1>3
    <2> HIDE DEF p
    <2> QED
      BY <1>4, <1>5, <1>6, <1>7, <2>1 DEF SampleFits, MemberPlace
  <1>9. m \notin wordless => Follows(new)
    BY <1>1, <1>3 DEF Follows
  <1>10. sample' = [sample EXCEPT ![m] = new] /\ member' = [member EXCEPT ![m] = p]
    BY DEF StartSample, new, masked, Final
  <1>11. asked' = [asked EXCEPT ![m] = asked[m]] /\ UNCHANGED <<maskOffPolicy, rolloutId, aborting, group>>
         /\ wordless' = wordless /\ wordless' \subseteq Members
    BY SampleKnown DEF StartSample
  <1> HIDE DEF p
  <1> QED
    BY <1>1, <1>8, <1>9, <1>10, <1>11, OneChildKeeps

LEMMA PermitAbortedKeeps ==
  ASSUME SampleInv, NEW m \in Members, PermitAborted(m)
  PROVE  SampleInv'
  <1> DEFINE old == sample[m]
             new == [old EXCEPT !.status = "aborted"]
  <1>1. /\ old \in SampleRecord /\ asked[m] \in RequestRecord /\ rolloutId \in Nat
        /\ SampleFits(old, "queued", asked[m], "running", rolloutId, aborting, maskOffPolicy)
        /\ m \notin wordless => Follows(old)
        /\ group = "running" /\ aborting
    BY SampleKnown DEF PermitAborted
  <1>2. /\ new \in SampleRecord /\ new.status = "aborted"
        /\ new.tokens = old.tokens /\ new.length = old.length /\ new.texts = old.texts
        /\ new.logProbs = old.logProbs /\ new.mask = old.mask /\ new.judged = old.judged
    BY <1>1 DEF SampleRecord
  <1> HIDE DEF new
  <1>3. SampleFits(new, "done", asked[m], "running", rolloutId, aborting, maskOffPolicy)
    BY <1>1, <1>2 DEF SampleFits, Tracked, Judges, Since, MemberPlace, Final
  <1>4. m \notin wordless => Follows(new)
    BY <1>1, <1>2 DEF Follows
  <1>5. /\ sample' = [sample EXCEPT ![m] = new] /\ member' = [member EXCEPT ![m] = "done"]
        /\ asked' = [asked EXCEPT ![m] = asked[m]] /\ UNCHANGED <<maskOffPolicy, rolloutId, aborting, group>>
        /\ wordless' = wordless /\ wordless' \subseteq Members
    BY SampleKnown DEF PermitAborted, new
  <1> QED
    BY <1>1, <1>3, <1>4, <1>5, OneChildKeeps

LEMMA PermitKeeps ==
  ASSUME SampleInv, NEW m \in Members, Permit(m)
  PROVE  SampleInv'
  <1> DEFINE old == sample[m]
             r == Request(old)
  <1>1. /\ old \in SampleRecord /\ asked[m] \in RequestRecord /\ rolloutId \in Nat
        /\ SampleFits(old, "queued", asked[m], "running", rolloutId, aborting, maskOffPolicy)
        /\ m \notin wordless => Follows(old)
        /\ group = "running" /\ ~aborting
    BY SampleKnown DEF Permit
  <1>2. r.after \in Nat /\ r.used \in Nat /\ r.used <= Len(old.tokens) /\ MaxResponseLen \in Nat
    BY <1>1, SampleAssumption DEF Request, SampleRecord
  <1> HIDE DEF r
  <1>3. CASE r.used < MaxResponseLen /\ group' = group /\ sample' = sample
             /\ asked' = [asked EXCEPT ![m] = [after |-> r.after, budget |-> MaxResponseLen - r.used]]
             /\ member' = [member EXCEPT ![m] = "engine"]
    <2> DEFINE q == [after |-> r.after, budget |-> MaxResponseLen - r.used]
    <2>1. Asks(old, q) /\ q \in RequestRecord
      BY <1>2, <1>3 DEF Asks, RequestRecord, r
    <2>2. SampleFits(old, "engine", q, "running", rolloutId, aborting, maskOffPolicy)
      BY <1>1, <2>1 DEF SampleFits, MemberPlace, Judges
    <2> HIDE DEF q
    <2>3. sample' = [sample EXCEPT ![m] = old] /\ member' = [member EXCEPT ![m] = "engine"]
      BY <1>3, SampleKnown
    <2>4. asked' = [asked EXCEPT ![m] = q] /\ UNCHANGED <<maskOffPolicy, rolloutId, aborting, group>>
          /\ wordless' = wordless /\ wordless' \subseteq Members
      BY <1>3, SampleKnown DEF Permit, q
    <2> QED
      BY <1>1, <2>1, <2>2, <2>3, <2>4, OneChildKeeps
  <1>4. CASE r.used = MaxResponseLen /\ group' = group /\ asked' = asked
             /\ sample' = [sample EXCEPT ![m].status = "truncated"]
             /\ member' = [member EXCEPT ![m] = "judge"]
    <2> DEFINE new == [old EXCEPT !.status = "truncated"]
    <2>1. /\ new \in SampleRecord /\ new.status = "truncated"
          /\ new.tokens = old.tokens /\ new.length = old.length /\ new.texts = old.texts
          /\ new.logProbs = old.logProbs /\ new.mask = old.mask /\ new.judged = old.judged
      BY <1>1 DEF SampleRecord, Final
    <2> HIDE DEF new
    <2>2. SampleFits(new, "judge", asked[m], "running", rolloutId, aborting, maskOffPolicy)
      BY <1>1, <2>1 DEF SampleFits, Tracked, Judges, Since, MemberPlace, Final, Counted
    <2>3. m \notin wordless => Follows(new)
      BY <1>1, <2>1 DEF Follows
    <2>4. /\ sample' = [sample EXCEPT ![m] = new] /\ member' = [member EXCEPT ![m] = "judge"]
          /\ asked' = [asked EXCEPT ![m] = asked[m]] /\ UNCHANGED <<maskOffPolicy, rolloutId, aborting, group>>
          /\ wordless' = wordless /\ wordless' \subseteq Members
      BY <1>4, SampleKnown DEF Permit, new
    <2> QED
      BY <1>1, <2>2, <2>3, <2>4, OneChildKeeps
  <1>5. CASE r.used > MaxResponseLen /\ group' = "failed" /\ UNCHANGED <<asked, sample, member>>
    <2>1. m \in wordless
      BY <1>1, <1>2, <1>5 DEF Follows, SampleFits, Tracked
    <2>2. UNCHANGED <<maskOffPolicy, rolloutId, aborting, wordless, asked, sample, member>>
      BY <1>5 DEF Permit
    <2>3. SamplesTypeOK'
      BY <1>5, <2>2 DEF SampleInv, SamplesTypeOK
    <2>4. ASSUME NEW n \in Members
          PROVE  SampleFits(sample'[n], member'[n], asked'[n], group', rolloutId', aborting', maskOffPolicy')
      BY <1>1, <1>5, <2>2 DEF SampleInv, SampleFits
    <2> QED
      BY <2>1, <2>2, <2>3, <2>4 DEF SampleInv
  <1> QED
    BY <1>3, <1>4, <1>5 DEF Permit, r

LEMMA JudgeSampleKeeps ==
  ASSUME SampleInv, NEW m \in Members, JudgeSample(m)
  PROVE  SampleInv'
  <1> DEFINE old == sample[m]
             new == [old EXCEPT !.judged = IF @ = Unjudged THEN old.length ELSE @]
  <1>1. /\ old \in SampleRecord /\ asked[m] \in RequestRecord /\ rolloutId \in Nat
        /\ SampleFits(old, "judge", asked[m], "running", rolloutId, aborting, maskOffPolicy)
        /\ m \notin wordless => Follows(old)
        /\ group = "running"
    BY SampleKnown DEF JudgeSample
  <1>2. old.judged = Unjudged /\ old.status \in Final
    BY <1>1 DEF SampleFits, Judges
  <1>3. /\ new \in SampleRecord /\ new.judged = old.length /\ new.status = old.status
        /\ new.tokens = old.tokens /\ new.length = old.length /\ new.texts = old.texts
        /\ new.logProbs = old.logProbs /\ new.mask = old.mask
    BY <1>1, <1>2 DEF SampleRecord
  <1>4. sample' = [sample EXCEPT ![m] = new]
    BY SampleKnown DEF JudgeSample
  <1> HIDE DEF new
  <1>5. SampleFits(new, "done", asked[m], "running", rolloutId, aborting, maskOffPolicy)
    BY <1>1, <1>2, <1>3 DEF SampleFits, Tracked, Judges, Since, MemberPlace, Counted
  <1>6. m \notin wordless => Follows(new)
    BY <1>1, <1>3 DEF Follows
  <1>7. /\ member' = [member EXCEPT ![m] = "done"]
        /\ asked' = [asked EXCEPT ![m] = asked[m]] /\ UNCHANGED <<maskOffPolicy, rolloutId, aborting, group>>
        /\ wordless' = wordless /\ wordless' \subseteq Members
    BY SampleKnown DEF JudgeSample
  <1> QED
    BY <1>1, <1>4, <1>5, <1>6, <1>7, OneChildKeeps

\* n tokens that follow what the engine was given.
LEMMA AnswerIs ==
  ASSUME SampleInv, NEW m \in Members, group = "running", member[m] = "engine",
         NEW n \in 0 .. asked[m].budget, NEW text \in {0, 1}, NEW status \in {"aborted"} \cup Final
  PROVE  LET s == sample[m]
             t == Answered(m, n, text, status)
         IN  /\ t \in SampleRecord /\ Tracked(t) /\ n \in Nat
             /\ t.length = s.length + n /\ t.texts = s.texts + text /\ t.status = status
             /\ t.judged = s.judged
             /\ \A i \in 1 .. s.length : t.tokens[i] = s.tokens[i]
             /\ \A i \in 1 .. n : t.tokens[s.length + i] = [of |-> rolloutId, after |-> asked[m].after + i - 1]
             /\ (s.mask = NoMask) <=> (t.mask = NoMask)
             /\ s.mask # NoMask => /\ \A i \in 1 .. s.length : t.mask[i] = s.mask[i]
                                   /\ \A i \in 1 .. n : t.mask[s.length + i] = 1
  <1> DEFINE s == sample[m]
             t == Answered(m, n, text, status)
             g == Generated(m, n)
             ones == [i \in 1 .. n |-> 1]
  <1>1. /\ s \in SampleRecord /\ asked[m] \in RequestRecord /\ rolloutId \in Nat /\ Tracked(s)
        /\ asked[m].after \in Nat /\ n \in Nat
    BY SampleKnown DEF SampleFits, RequestRecord
  <1>2. /\ s.tokens \in Seq(Token) /\ s.logProbs = s.tokens /\ s.length = Len(s.tokens) /\ s.length \in Nat
        /\ s.mask \in Seq(Bit) /\ s.texts \in Nat /\ s.judged \in Nat
        /\ s.mask # << >> => Len(s.mask) = s.length
    BY <1>1 DEF Tracked, SampleRecord, NoMask
  <1>3. /\ g \in Seq(Token) /\ Len(g) = n
        /\ \A i \in 1 .. n : g[i] = [of |-> rolloutId, after |-> asked[m].after + i - 1]
    <2>1. \A i \in 1 .. n : [of |-> rolloutId, after |-> asked[m].after + i - 1] \in Token
      BY <1>1 DEF Token
    <2> QED
      BY <1>1, <2>1 DEF Generated
  <1>4. /\ ones \in Seq(Bit) /\ Len(ones) = n /\ \A i \in 1 .. n : ones[i] = 1
    BY <1>1 DEF Bit
  <1> HIDE DEF g, ones
  <1> DEFINE mask == IF s.mask = NoMask THEN s.mask ELSE s.mask \o ones
  <1>5. t = [s EXCEPT !.tokens = s.tokens \o g, !.length = s.length + n, !.texts = s.texts + text,
                      !.logProbs = s.logProbs \o g, !.mask = mask, !.status = status]
    BY <1>1 DEF Answered, g, ones, SampleRecord
  <1>6. /\ s.tokens \o g \in Seq(Token) /\ Len(s.tokens \o g) = s.length + n
        /\ \A i \in 1 .. s.length : (s.tokens \o g)[i] = s.tokens[i]
        /\ \A i \in 1 .. n : (s.tokens \o g)[s.length + i] = g[i]
    <2>1. /\ s.tokens \o g \in Seq(Token) /\ Len(s.tokens \o g) = Len(s.tokens) + Len(g)
          /\ \A i \in 1 .. Len(s.tokens) : (s.tokens \o g)[i] = s.tokens[i]
          /\ \A i \in 1 .. Len(g) : (s.tokens \o g)[Len(s.tokens) + i] = g[i]
      <3>1. s.tokens \in Seq(Token) /\ g \in Seq(Token)
        BY <1>2, <1>3
      <3> HIDE DEF s
      <3> QED
        BY <3>1, JoinedSequences
    <2>2. Len(s.tokens) = s.length /\ Len(g) = n
      BY <1>2, <1>3
    <2> QED
      BY <2>1, <2>2
  <1>7. /\ mask \in Seq(Bit)
        /\ mask # << >> => Len(mask) = s.length + n
        /\ s.mask = << >> => mask = << >>
        /\ s.mask # << >> => /\ \A i \in 1 .. s.length : mask[i] = s.mask[i]
                             /\ \A i \in 1 .. n : mask[s.length + i] = 1
                             /\ mask # << >>
    <2>1. CASE s.mask = << >>
      BY <1>2, <2>1 DEF NoMask
    <2>2. CASE s.mask # << >>
      <3>1. mask = s.mask \o ones /\ Len(s.mask) = s.length
        BY <1>2, <2>2 DEF NoMask
      <3>2. /\ s.mask \o ones \in Seq(Bit) /\ Len(s.mask \o ones) = s.length + n
            /\ \A i \in 1 .. s.length : (s.mask \o ones)[i] = s.mask[i]
            /\ \A i \in 1 .. n : (s.mask \o ones)[s.length + i] = ones[i]
        <4>1. /\ s.mask \o ones \in Seq(Bit) /\ Len(s.mask \o ones) = Len(s.mask) + Len(ones)
              /\ \A i \in 1 .. Len(s.mask) : (s.mask \o ones)[i] = s.mask[i]
              /\ \A i \in 1 .. Len(ones) : (s.mask \o ones)[Len(s.mask) + i] = ones[i]
          <5>1. s.mask \in Seq(Bit) /\ ones \in Seq(Bit)
            BY <1>2, <1>4
          <5> HIDE DEF s
          <5> QED
            BY <5>1, JoinedSequences
        <4> QED
          BY <1>4, <3>1, <4>1
      <3>3. s.length # 0
        BY <1>2, <2>2, <3>1
      <3>4. s.mask \o ones # << >>
        BY <1>1, <1>2, <3>2, <3>3
      <3> QED
        BY <1>4, <2>2, <3>1, <3>2, <3>4
    <2> QED
      BY <2>1, <2>2
  <1>8. text \in Nat
    OBVIOUS
  <1> HIDE DEF mask, t, s
  <1>9. /\ t \in SampleRecord /\ Tracked(t) /\ t.tokens = s.tokens \o g /\ t.length = s.length + n
        /\ t.texts = s.texts + text /\ t.mask = mask /\ t.status = status /\ t.judged = s.judged
    <2> DEFINE tokens == s.tokens \o g
    <2>1. s.logProbs \o g = tokens /\ tokens \in Seq(Token) /\ Len(tokens) = s.length + n
      BY <1>2, <1>6
    <2>2. /\ s.length + n \in Nat /\ s.texts + text \in Nat
          /\ mask # NoMask => Len(mask) = s.length + n
      BY <1>1, <1>2, <1>7, <1>8 DEF NoMask
    <2> HIDE DEF tokens
    <2>3. t = [s EXCEPT !.tokens = tokens, !.length = s.length + n, !.texts = s.texts + text,
                      !.logProbs = tokens, !.mask = mask, !.status = status]
      BY <1>5, <2>1 DEF tokens
    <2>4. /\ t \in SampleRecord /\ Tracked(t) /\ t.tokens = tokens /\ t.length = s.length + n
          /\ t.texts = s.texts + text /\ t.mask = mask /\ t.status = status /\ t.judged = s.judged
      <3>1. /\ s \in SampleRecord /\ tokens \in Seq(Token) /\ mask \in Seq(Bit)
            /\ s.length + n \in Nat /\ s.texts + text \in Nat
            /\ s.length + n = Len(tokens) /\ (mask # NoMask => Len(mask) = s.length + n)
        BY <1>1, <1>7, <2>1, <2>2
      <3> DEFINE len == s.length + n
                 texts == s.texts + text
      <3>2. /\ len \in Nat /\ texts \in Nat /\ len = Len(tokens) /\ (mask # NoMask => Len(mask) = len)
            /\ t = [s EXCEPT !.tokens = tokens, !.length = len, !.texts = texts,
                             !.logProbs = tokens, !.mask = mask, !.status = status]
        BY <2>3, <3>1
      <3> HIDE DEF len, texts
      <3>3. /\ t \in SampleRecord /\ Tracked(t) /\ t.tokens = tokens /\ t.length = len
            /\ t.texts = texts /\ t.mask = mask /\ t.status = status /\ t.judged = s.judged
        BY <3>1, <3>2 DEF SampleRecord, Tracked
      <3> QED
        BY <3>3 DEF len, texts
    <2> QED
      BY <2>4 DEF tokens
  <1>10. \A i \in 1 .. s.length : t.tokens[i] = s.tokens[i]
    BY <1>6, <1>9
  <1>11. \A i \in 1 .. n : t.tokens[s.length + i] = [of |-> rolloutId, after |-> asked[m].after + i - 1]
    BY <1>3, <1>6, <1>9
  <1> QED
    BY <1>1, <1>7, <1>9, <1>10, <1>11 DEF NoMask, t, s

\* The same, in the terms of the invariant.
LEMMA AnswerFits ==
  ASSUME SampleInv, NEW m \in Members, group = "running", member[m] = "engine",
         NEW n \in 0 .. asked[m].budget, NEW text \in {0, 1}, NEW status \in {"aborted"} \cup Final
  PROVE  LET t == Answered(m, n, text, status)
             p == IF status = "aborted" THEN "done" ELSE "judge"
         IN  /\ (status = "aborted" => aborting)
                  => SampleFits(t, p, NoRequest, group, rolloutId, aborting, maskOffPolicy)
             /\ m \notin wordless /\ (text = 1 \/ n = 0 \/ sample[m].texts > 0) => Follows(t)
  <1> DEFINE s == sample[m]
             t == Answered(m, n, text, status)
             a == asked[m].after
             p == IF status = "aborted" THEN "done" ELSE "judge"
  <1>1. /\ s \in SampleRecord /\ asked[m] \in RequestRecord /\ rolloutId \in Nat
        /\ SampleFits(s, "engine", asked[m], "running", rolloutId, aborting, maskOffPolicy)
        /\ m \notin wordless => Follows(s)
        /\ maskOffPolicy \in BOOLEAN /\ aborting \in BOOLEAN
    BY SampleKnown
  <1>2. /\ Tracked(s) /\ Judges(s, "engine") /\ Since(s, rolloutId) /\ Asks(s, asked[m])
        /\ ~aborting /\ maskOffPolicy => Counted(s, rolloutId)
    BY <1>1 DEF SampleFits
  <1>3. /\ s.length \in Nat /\ s.length = Len(s.tokens) /\ s.texts \in Nat /\ s.judged \in Nat
        /\ a \in Nat /\ asked[m].budget \in Nat /\ text \in Nat
    BY <1>1, <1>2 DEF Tracked, SampleRecord, RequestRecord
  <1>4. /\ t \in SampleRecord /\ Tracked(t) /\ n \in Nat
        /\ t.length = s.length + n /\ t.texts = s.texts + text /\ t.status = status
        /\ t.judged = s.judged
        /\ \A i \in 1 .. s.length : t.tokens[i] = s.tokens[i]
        /\ \A i \in 1 .. n : t.tokens[s.length + i] = [of |-> rolloutId, after |-> a + i - 1]
        /\ (s.mask = NoMask) <=> (t.mask = NoMask)
        /\ s.mask # NoMask => /\ \A i \in 1 .. s.length : t.mask[i] = s.mask[i]
                              /\ \A i \in 1 .. n : t.mask[s.length + i] = 1
    BY AnswerIs
  <1> HIDE DEF t, s, a
  <1>11. ASSUME NEW k \in 1 .. n
         PROVE  /\ t.tokens[s.length + k].of = rolloutId /\ t.tokens[s.length + k].after = a + k - 1
                /\ t.mask # NoMask => t.mask[s.length + k] = 1
    <2>1. t.tokens[s.length + k] = [of |-> rolloutId, after |-> a + k - 1]
      BY <1>4
    <2>2. t.mask # NoMask => t.mask[s.length + k] = 1
      BY <1>4
    <2> QED
      BY <2>1, <2>2
  <1>5. \A i \in 1 .. t.length : \/ i \in 1 .. s.length /\ t.tokens[i] = s.tokens[i]
                                 \/ \E k \in 1 .. n : i = s.length + k
    <2>1. SUFFICES ASSUME NEW i \in 1 .. t.length, i \notin 1 .. s.length
                   PROVE  \E k \in 1 .. n : i = s.length + k
      BY <1>4
    <2>2. i - s.length \in 1 .. n /\ i = s.length + (i - s.length)
      BY <1>3, <1>4, <2>1
    <2> QED
      BY <2>2
  <1>6. Since(t, rolloutId)
    <2>1. SUFFICES ASSUME NEW i \in 1 .. t.length PROVE t.tokens[i].of <= rolloutId
      BY DEF Since
    <2>2. CASE i \in 1 .. s.length /\ t.tokens[i] = s.tokens[i]
      BY <1>2, <2>2 DEF Since
    <2>3. ASSUME NEW k \in 1 .. n, i = s.length + k PROVE t.tokens[i].of <= rolloutId
      <3>1. t.tokens[i].of = rolloutId
        BY <1>11, <2>3
      <3> QED
        BY <1>1, <3>1
    <2> QED
      BY <1>5, <2>2, <2>3
  <1>7. Judges(t, p)
    BY <1>2, <1>4 DEF Judges, Final
  <1>8. ASSUME ~aborting, maskOffPolicy PROVE Counted(t, rolloutId)
    <2>1. SUFFICES ASSUME NEW i \in 1 .. t.length
                   PROVE  (t.mask = NoMask \/ t.mask[i] = 1) <=> t.tokens[i].of = rolloutId
      BY DEF Counted
    <2>2. Counted(s, rolloutId)
      BY <1>2, <1>8
    <2>3. CASE i \in 1 .. s.length /\ t.tokens[i] = s.tokens[i]
      BY <1>4, <2>2, <2>3 DEF Counted
    <2>4. ASSUME NEW k \in 1 .. n, i = s.length + k
          PROVE  (t.mask = NoMask \/ t.mask[i] = 1) <=> t.tokens[i].of = rolloutId
      <3>1. t.tokens[i].of = rolloutId
        BY <1>11, <2>4
      <3>2. t.mask = NoMask \/ t.mask[i] = 1
        BY <1>11, <2>4
      <3> QED
        BY <3>1, <3>2
    <2> QED
      BY <1>5, <2>3, <2>4
  <1>9. ASSUME status = "aborted" => aborting
        PROVE  SampleFits(t, p, NoRequest, "running", rolloutId, aborting, maskOffPolicy)
    <2>1. p \in {"done", "judge"} /\ (~aborting => p = "judge")
      BY <1>9
    <2> HIDE DEF p
    <2> QED
      BY <1>4, <1>6, <1>7, <1>8, <2>1 DEF SampleFits, MemberPlace
  <1>10. ASSUME m \notin wordless, text = 1 \/ n = 0 \/ s.texts > 0 PROVE Follows(t)
    <2>1. Follows(s) /\ MaxResponseLen \in Nat
      BY <1>1, <1>10, SampleAssumption
    <2>2. a = s.length /\ s.length + asked[m].budget = MaxResponseLen
      BY <1>2, <1>3, <2>1 DEF Asks, Request, Follows, a
    <2>3. t.length <= MaxResponseLen
      BY <1>3, <1>4, <2>2
    <2>4. t.texts = 0 => t.length = 0
      BY <1>3, <1>4, <1>10, <2>1 DEF Follows
    <2>5. ASSUME NEW i \in 1 .. t.length PROVE t.tokens[i].after = i - 1
      <3>1. CASE i \in 1 .. s.length /\ t.tokens[i] = s.tokens[i]
        BY <2>1, <3>1 DEF Follows
      <3>2. ASSUME NEW k \in 1 .. n, i = s.length + k PROVE t.tokens[i].after = i - 1
        <4>1. t.tokens[i].after = a + k - 1
          BY <1>11, <3>2
        <4> QED
          BY <1>3, <1>4, <2>2, <3>2, <4>1
      <3> QED
        BY <1>5, <3>1, <3>2
    <2> QED
      BY <2>3, <2>4, <2>5 DEF Follows
  <1> QED
    BY <1>9, <1>10 DEF t, s

LEMMA EngineAnswersKeeps ==
  ASSUME SampleInv, NEW m \in Members, EngineAnswers(m)
  PROVE  SampleInv'
  <1>1. /\ group = "running" /\ member[m] = "engine" /\ NoRequest \in RequestRecord
        /\ wordless \subseteq Members /\ asked' = [asked EXCEPT ![m] = NoRequest]
        /\ UNCHANGED <<maskOffPolicy, rolloutId, aborting, group>>
    BY SampleKnown DEF EngineAnswers, NoRequest, RequestRecord
  <1>2. ASSUME NEW n \in 0 .. asked[m].budget, NEW text \in {0, 1}, NEW status \in {"aborted"} \cup Final,
               NEW p, p = (IF status = "aborted" THEN "done" ELSE "judge"),
               status = "aborted" => aborting,
               sample' = [sample EXCEPT ![m] = Answered(m, n, text, status)],
               member' = [member EXCEPT ![m] = p],
               wordless' = (IF n > 0 /\ text = 0 /\ sample[m].texts = 0 THEN wordless \cup {m} ELSE wordless)
        PROVE  SampleInv'
    <2> DEFINE t == Answered(m, n, text, status)
    <2>1. SampleFits(t, p, NoRequest, group, rolloutId, aborting, maskOffPolicy)
      BY <1>1, <1>2, AnswerFits
    <2>2. m \notin wordless /\ (text = 1 \/ n = 0 \/ sample[m].texts > 0) => Follows(t)
      BY <1>1, AnswerFits
    <2>3. n \in Nat /\ sample[m].texts \in Nat
      BY SampleKnown DEF SampleRecord, RequestRecord
    <2> HIDE DEF t
    <2>4. m \notin wordless' => Follows(t)
      BY <1>2, <2>2, <2>3
    <2>5. wordless' \subseteq Members /\ wordless \subseteq wordless'
      BY <1>1, <1>2
    <2>6. sample' = [sample EXCEPT ![m] = t] /\ member' = [member EXCEPT ![m] = p]
      BY <1>2 DEF t
    <2> QED
      BY <1>1, <2>1, <2>4, <2>5, <2>6, OneChildKeeps
  <1>3. PICK n \in 0 .. asked[m].budget :
          \/ /\ n = asked[m].budget
             /\ sample' = [sample EXCEPT ![m] = Answered(m, n, 1, "truncated")]
             /\ member' = [member EXCEPT ![m] = "judge"] /\ UNCHANGED wordless
          \/ /\ n > 0
             /\ sample' = [sample EXCEPT ![m] = Answered(m, n, 1, "completed")]
             /\ member' = [member EXCEPT ![m] = "judge"] /\ UNCHANGED wordless
          \/ /\ aborting
             /\ \E text \in {0, 1} :
                  /\ n = 0 => text = 0
                  /\ sample' = [sample EXCEPT ![m] = Answered(m, n, text, "aborted")]
                  /\ wordless' = IF n > 0 /\ text = 0 /\ sample[m].texts = 0
                                 THEN wordless \cup {m} ELSE wordless
             /\ member' = [member EXCEPT ![m] = "done"]
    BY DEF EngineAnswers
  <1>4. ASSUME NEW status \in Final, sample' = [sample EXCEPT ![m] = Answered(m, n, 1, status)],
               member' = [member EXCEPT ![m] = "judge"], UNCHANGED wordless
        PROVE  SampleInv'
    <2>1. status \in {"aborted"} \cup Final /\ status # "aborted" /\ 1 \in {0, 1}
          /\ wordless' = (IF n > 0 /\ 1 = 0 /\ sample[m].texts = 0 THEN wordless \cup {m} ELSE wordless)
          /\ "judge" = (IF status = "aborted" THEN "done" ELSE "judge")
      BY <1>4 DEF Final
    <2> QED
      BY <1>2, <1>4, <2>1
  <1>5. ASSUME aborting, NEW text \in {0, 1}, sample' = [sample EXCEPT ![m] = Answered(m, n, text, "aborted")],
               member' = [member EXCEPT ![m] = "done"],
               wordless' = (IF n > 0 /\ text = 0 /\ sample[m].texts = 0 THEN wordless \cup {m} ELSE wordless)
        PROVE  SampleInv'
    <2>1. "aborted" \in {"aborted"} \cup Final /\ "done" = (IF "aborted" = "aborted" THEN "done" ELSE "judge")
      OBVIOUS
    <2> QED
      BY <1>2, <1>5, <2>1
  <1>6. "truncated" \in Final /\ "completed" \in Final
    BY DEF Final
  <1> QED
    BY <1>3, <1>4, <1>5, <1>6

LEMMA GroupMovesKeep ==
  ASSUME SampleInv, SubmitGroup \/ AbortRollout \/ SamplesGathered \/ NextWeights
  PROVE  SampleInv'
  <1>1. UNCHANGED <<sample, asked, wordless, maskOffPolicy>>
    BY DEF SubmitGroup, AbortRollout, SamplesGathered, NextWeights
  <1>2. SamplesTypeOK'
    <2>0. SamplesTypeOK
      BY DEF SampleInv
    <2> USE DEF SamplesTypeOK
    <2>1. CASE SubmitGroup
      BY <1>1, <2>0, <2>1 DEF SubmitGroup, MemberPlace
    <2>2. CASE AbortRollout
      <3>1. group' \in {group, "gone"} /\ UNCHANGED <<member, rolloutId>> /\ aborting' \in BOOLEAN
        BY <2>2 DEF AbortRollout
      <3> QED
        <4>1. group' \in {"buffer", "running", "gone", "trained", "failed"}
          BY <2>0, <3>1
        <4> QED
          BY <1>1, <2>0, <3>1, <4>1
    <2>3. CASE SamplesGathered
      <3>1. group' \in {"buffer", "trained"} /\ UNCHANGED <<aborting, rolloutId>>
        BY <2>3 DEF SamplesGathered
      <3>2. member' \in [Members -> MemberPlace]
        BY <2>3 DEF SamplesGathered, MemberPlace
      <3> QED
        BY <1>1, <2>0, <3>1, <3>2
    <2>4. CASE NextWeights
      <3>1. rolloutId' = rolloutId + 1 /\ aborting' \in BOOLEAN /\ UNCHANGED <<group, member>>
        BY <2>4 DEF NextWeights
      <3> QED
        BY <1>1, <2>0, <3>1
    <2> QED
      BY <2>1, <2>2, <2>3, <2>4
  <1>3. group' # "failed" \/ group' = group
    BY DEF SubmitGroup, AbortRollout, SamplesGathered, NextWeights
  <1>4. ASSUME NEW m \in Members
        PROVE  SampleFits(sample[m], member'[m], asked[m], group', rolloutId', aborting', maskOffPolicy)
    <2>1. /\ SampleFits(sample[m], member[m], asked[m], group, rolloutId, aborting, maskOffPolicy)
          /\ sample[m] \in SampleRecord /\ rolloutId \in Nat /\ member[m] \in MemberPlace
      BY SampleKnown
    <2>2. Tracked(sample[m]) /\ Judges(sample[m], member[m]) /\ Since(sample[m], rolloutId)
      BY <2>1 DEF SampleFits
    <2>3. CASE SubmitGroup
      <3>1. member[m] = "rest" /\ group' = "running" /\ member'[m] \in {"start", "done"} /\ rolloutId' = rolloutId
            /\ (member'[m] = "done" => aborting') /\ (member'[m] = "start" => aborting' = aborting) /\ ~aborting
        BY <2>1, <2>3 DEF SubmitGroup, SampleFits
      <3>2. Older(sample[m], rolloutId) /\ Judges(sample[m], member'[m])
        BY <2>1, <2>2, <2>3, <3>1 DEF SampleFits, Judges, SubmitGroup
      <3> QED
        BY <2>2, <3>1, <3>2 DEF SampleFits, MemberPlace
    <2>4. CASE AbortRollout
      <3>1. aborting' /\ group' \in {group, "gone"} /\ UNCHANGED <<member, rolloutId>> /\ group \in {"running", "buffer"}
        BY <2>4 DEF AbortRollout
      <3> QED
        BY <2>1, <3>1 DEF SampleFits
    <2>5. CASE SamplesGathered
      <3>1. /\ group = "running" /\ member[m] = "done" /\ member'[m] = "rest"
            /\ group' = (IF aborting THEN "buffer" ELSE "trained") /\ UNCHANGED <<aborting, rolloutId>>
        BY <2>5 DEF SamplesGathered
      <3>2. Judges(sample[m], "rest")
        BY <2>2, <3>1 DEF Judges
      <3>3. CASE aborting
        BY <2>2, <3>1, <3>2, <3>3 DEF SampleFits, MemberPlace
      <3>4. CASE ~aborting
        <4>1. sample[m].status \in Final /\ sample[m].judged = sample[m].length
              /\ (maskOffPolicy => Counted(sample[m], rolloutId))
          BY <2>1, <2>2, <3>1, <3>4 DEF SampleFits, Judges
        <4> QED
          BY <2>2, <3>1, <3>2, <3>4, <4>1 DEF SampleFits, MemberPlace
      <3> QED
        BY <3>3, <3>4
    <2>6. CASE NextWeights
      <3>1. group = "buffer" /\ member[m] = "rest" /\ rolloutId' = rolloutId + 1 /\ ~aborting' /\ UNCHANGED <<group, member>>
        BY <2>1, <2>6 DEF NextWeights, SampleFits
      <3>2. \A i \in 1 .. sample[m].length : sample[m].tokens[i].of \in Nat /\ sample[m].tokens[i].of <= rolloutId
        BY <2>2, TokenIs DEF Since
      <3>3. Since(sample[m], rolloutId + 1) /\ Older(sample[m], rolloutId + 1)
        BY <2>1, <3>2 DEF Since, Older
      <3> QED
        BY <2>2, <3>1, <3>3 DEF SampleFits, MemberPlace
    <2> QED
      BY <2>3, <2>4, <2>5, <2>6
  <1> QED
    BY <1>1, <1>2, <1>3, <1>4 DEF SampleInv

LEMMA SamplesStart == SampleInit => SampleInv
  <1> SUFFICES ASSUME SampleInit PROVE SampleInv
    OBVIOUS
  <1>1. MaxResponseLen \in Nat
    BY SampleAssumption
  <1>2. << >> \in Seq(Token) /\ << >> \in Seq(Bit) /\ Len(<< >>) = 0
    OBVIOUS
  <1>3. NewSample \in SampleRecord /\ NewSample.tokens = << >> /\ NewSample.logProbs = << >> /\ NewSample.length = 0
        /\ NewSample.mask = NoMask /\ NewSample.texts = 0 /\ NewSample.status = "pending" /\ NewSample.judged = Unjudged
    BY <1>1, <1>2 DEF NewSample, SampleRecord, NoMask, Unjudged
  <1>4. NoRequest \in RequestRecord
    BY DEF NoRequest, RequestRecord
  <1>5. SamplesTypeOK
    BY <1>3, <1>4 DEF SampleInit, SamplesTypeOK, MemberPlace
  <1>6. SampleFits(NewSample, "rest", NoRequest, "buffer", 0, FALSE, maskOffPolicy)
    BY <1>2, <1>3 DEF SampleFits, Tracked, Judges, Since, Older, MemberPlace, Final
  <1>7. Follows(NewSample)
    BY <1>1, <1>3 DEF Follows
  <1> QED
    BY <1>5, <1>6, <1>7 DEF SampleInv, SampleInit

\* The invariant: every token of a sample is accounted for at each place of its
\* child, and what is masked, judged and left to the engine fits.
LEMMA SamplesInvariance == SampleSpec => []SampleInv
  <1>1. SampleInv /\ [SampleNext]_sampleVars => SampleInv'
    <2> SUFFICES ASSUME SampleInv, [SampleNext]_sampleVars PROVE SampleInv'
      OBVIOUS
    <2>1. CASE UNCHANGED sampleVars
      BY <2>1 DEF SampleInv, SamplesTypeOK, sampleVars
    <2>2. CASE SampleNext
      BY <2>2, StartSampleKeeps, PermitAbortedKeeps, PermitKeeps, EngineAnswersKeeps, JudgeSampleKeeps,
         GroupMovesKeep DEF SampleNext
    <2> QED
      BY <2>1, <2>2
  <1> QED
    BY <1>1, SamplesStart, PTL DEF SampleSpec

\* However often a group is interrupted and continued by newer weights, a token of
\* each of its samples keeps its log-prob and its place in the mask, and follows the
\* tokens before it; and what is trained was judged whole and counts the tokens of
\* the current weights: for any group, budget and number of rollouts (generate_and_rm,
\* generate, abort).
THEOREM SamplesContinue == SampleSpec => []SampleExact
  <1>1. SampleInv => SampleExact
    <2> SUFFICES ASSUME SampleInv PROVE SampleExact
      OBVIOUS
    <2>1. ASSUME NEW m \in Members
          PROVE  /\ sample[m].logProbs = sample[m].tokens /\ sample[m].length = Len(sample[m].tokens)
                 /\ sample[m].mask # NoMask => Len(sample[m].mask) = sample[m].length
      BY SampleKnown DEF SampleFits, Tracked
    <2>2. ASSUME NEW m \in Members, m \notin wordless
          PROVE  /\ sample[m].length <= MaxResponseLen
                 /\ \A i \in 1 .. sample[m].length : sample[m].tokens[i].after = i - 1
      BY <2>2, SampleKnown DEF Follows
    <2>3. ContinuesItself
      BY <2>1, <2>2 DEF ContinuesItself, SampleInv
    <2>4. TrainsWhole
      BY SampleKnown DEF TrainsWhole, SampleFits, Counted, Final
    <2> QED
      BY <2>3, <2>4 DEF SampleExact
  <1> QED
    BY <1>1, SamplesInvariance, PTL
=============================================================================
