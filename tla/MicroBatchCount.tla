--------------------------- MODULE MicroBatchCount ----------------------------
(* get_minimum_num_micro_batch_size, which both the balancing of micro-batches *)
(* and the schedule of a training step need.                                   *)
EXTENDS Integers, Sequences, FiniteSets, SequencesExt

\* The number of micro-batches: each sample goes to the first that has room.
FirstFit(lengths, cap) ==
  LET Put(batches, n) ==
        LET room == {b \in DOMAIN batches : batches[b] + n <= cap}
        IN  IF room = {} THEN Append(batches, n) ELSE [batches EXCEPT ![Min(room)] = @ + n]
  IN  Len(FoldLeft(Put, << >>, lengths))
=============================================================================
