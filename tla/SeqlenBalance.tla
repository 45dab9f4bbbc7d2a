---------------------------- MODULE SeqlenBalance -----------------------------
(* get_seqlen_balanced_partitions: the samples of one step on one rank are     *)
(* divided into micro-batches (or those of a rollout among the ranks) by the   *)
(* largest differencing method.  The heap is merged one pair per step.         *)
(* The samples of a step are those that TrajectoryBatch gives a rank.          *)
EXTENDS TrajectoryBatch, MicroBatchCount

CONSTANTS Lengths,     \* token counts of a sample
          MaxSamples,  \* bound: samples of one step
          Caps         \* max_tokens_per_gpu

ASSUME BalanceAssumption == Lengths \subseteq Nat \ {0} /\ Caps \subseteq Nat /\ MaxSamples \in Nat

VARIABLES lens,   \* the samples
          k,      \* the parts wanted
          equal,  \* equal_size
          heap    \* partial partitions: functions from 1 .. k to sets of samples

balanceVars == <<lens, k, equal, heap>>

Tokens(part) == SumFunctionOnSet(lens, part)
Spread(state) == Tokens(state[1]) - Tokens(state[k])

\* The ranks take the largest of their numbers, which is at most that of the
\* samples of a step.
MicroBatches(lengths) == UNION {FirstFit(lengths, cap) .. Len(lengths) : cap \in Caps}

\* The first states of the heap: one sample each, or with equal_size k samples
\* that follow one another in the order of lengths, the longest first.
Singles(n, parts) == {[j \in 1 .. parts |-> IF j = 1 THEN {i} ELSE {}] : i \in 1 .. n}
Shorter(lengths, i) ==
  {j \in DOMAIN lengths : \/ lengths[j] < lengths[i]
                          \/ lengths[j] = lengths[i] /\ j < i}
Rows(lengths, parts) ==
  LET sorted == [m \in DOMAIN lengths |-> CHOOSE i \in DOMAIN lengths : Cardinality(Shorter(lengths, i)) = m - 1]
  IN  {[j \in 1 .. parts |-> {sorted[row * parts + parts + 1 - j]}] : row \in 0 .. (Len(lengths) \div parts) - 1}

\* Mutant: the largest part is merged with the largest.
MergedAlike(s, other) == [j \in 1 .. k |-> s[j] \cup other[j]]
Merged(s, other) == [j \in 1 .. k |-> s[j] \cup other[k + 1 - j]]

\* The parts in decreasing order; the code breaks a tie by the items, here any way.
Sorted(state) ==
  {[j \in 1 .. k |-> state[p[j]]] :
     p \in {q \in [1 .. k -> 1 .. k] :
              /\ \A i, j \in 1 .. k : q[i] = q[j] => i = j
              /\ \A j \in 1 .. k - 1 : Tokens(state[q[j]]) >= Tokens(state[q[j + 1]])}}

\* The states that the heap may pop: the largest spread is first.
Widest(states) == {s \in states : \A other \in states : Spread(s) >= Spread(other)}

BalanceInit ==
  /\ lens \in UNION {[1 .. n -> Lengths] : n \in 1 .. MaxSamples}
  /\ equal \in BOOLEAN
  /\ k \in IF equal THEN {p \in DOMAIN lens : Len(lens) % p = 0} ELSE MicroBatches(lens)
  /\ heap = IF equal THEN Rows(lens, k) ELSE Singles(Len(lens), k)

Merge ==
  /\ Cardinality(heap) > 1
  /\ \E s \in Widest(heap) : \E other \in Widest(heap \ {s}) : \E state \in Sorted(Merged(s, other)) :
       heap' = (heap \ {s, other}) \cup {state}
  /\ UNCHANGED <<lens, k, equal>>

BalanceSpec == BalanceInit /\ [][Merge]_balanceVars

\* Every sample is in exactly one micro-batch and none is empty, so that no rank
\* is without work while the others communicate; parts of equal size really are;
\* and the parts differ by no more than the longest sample.
BalanceExact ==
  Cardinality(heap) = 1 =>
    \A state \in heap :
      /\ UNION {state[j] : j \in 1 .. k} = DOMAIN lens
      /\ \A i, j \in 1 .. k : i # j => state[i] \cap state[j] = {}
      /\ \A j \in 1 .. k : state[j] # {} /\ (equal => Cardinality(state[j]) * k = Len(lens))
      /\ \A i, j \in 1 .. k : \E longest \in DOMAIN lens : Tokens(state[i]) - Tokens(state[j]) <= lens[longest]

\* All ranks get the same number of steps, and every step the same number of
\* micro-batches, none empty and none of them with a sample twice.
MicroStepsExact == SplitExact /\ BalanceExact
=============================================================================
