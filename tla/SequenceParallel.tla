-------------------------- MODULE SequenceParallel --------------------------
(* How the tokens of a micro-batch are laid out over the ranks of a context-   *)
(* parallel group, and what each rank reads from its share: the logits and     *)
(* tokens of the responses, the masks, and the returns of the estimators,      *)
(* which gather a response from all ranks and slice it again (get_batch,       *)
(* cp_utils.py, get_responses, ppo_utils.py).                                  *)
(*                                                                             *)
(* Positions count from 0, as in the code; token p of sample i is <<i, p>>,    *)
(* and the logits at a place of a stream are named after the token there.      *)
(* Log-probabilities, KL and values are integers that tell the tokens apart.   *)
EXTENDS Integers, FiniteSets, Sequences, SequencesExt, FiniteSetsExt, Functions

CONSTANTS Samples,     \* the samples a micro-batch is made of: [total, response, mask]
          BatchSizes,
          CpSizes,
          PadSize,     \* pad_size: tensor-parallel size * data_pad_size_multiplier
          Block,       \* chunk_size of the scan in chunked_gae
          Gammas, Lambdas

VARIABLES batch, layout, cp,
          logProbs,    \* per rank and sample, after the forward pass
          returns,     \* per rank and sample, after the estimator
          discount     \* gamma and lambda of PPO, gamma of REINFORCE++

sequenceVars == <<batch, layout, cp, logProbs, returns, discount>>

CpRanks == 0 .. cp - 1
Items == 1 .. Len(batch)
Prompt(i) == batch[i].total - batch[i].response
Total(f(_), n) == FoldFunction(+, 0, [j \in 1 .. n |-> f(j)])
CeilDiv(a, b) == (a + b - 1) \div b
RoundUp(a, b) == CeilDiv(a, b) * b
Least(a, b) == IF a < b THEN a ELSE b
Most(a, b) == IF a > b THEN a ELSE b
\* s[a : b], and s padded at its end to length n.
Slice(s, a, b) == SubSeq(s, a + 1, b)
Mapped(s, Op(_)) == [j \in DOMAIN s |-> Op(s[j])]
Padded(s, n, pad) == s \o [j \in 1 .. n - Len(s) |-> pad]

\* The longest sample of the rollout, rounded up; the micro-batch need not hold it.
MaxSeqLen == RoundUp(Max({s.total : s \in Samples}), PadSize)

Chunk(i) == CeilDiv(IF layout = "bshd" THEN MaxSeqLen ELSE batch[i].total, 2 * cp)

\* The two chunks of rank r: the r-th from the front and the r-th from the back.
ChunkStarts(r, chunk) == <<r * chunk, (2 * cp - r - 1) * chunk>>

\* The positions in those chunks whose logits predict a token of the response.
LogitsOffset(r, i, chunk) ==
  [k \in 1 .. 2 |-> LET start == ChunkStarts(r, chunk)[k]
                        first == Most(start, Prompt(i) - 1)
                        end == Least(start + chunk, batch[i].total - 1)
                    IN  IF first < end THEN <<first, end>> ELSE <<0, 0>>]

SliceWithCp(r, s, chunk, pad) ==
  LET whole == Padded(s, 2 * cp * chunk, pad)
      at == ChunkStarts(r, chunk)
  IN  Slice(whole, at[1], at[1] + chunk) \o Slice(whole, at[2], at[2] + chunk)

SliceLogProb(r, s, i) ==
  IF cp = 1 THEN s
  ELSE LET at == LogitsOffset(r, i, Chunk(i))
           Part(k) == Slice(s, at[k][1] - (Prompt(i) - 1), at[k][2] - (Prompt(i) - 1))
       IN  Part(1) \o Part(2)

\* What rank r gets of one sequence per sample, one long stream.
Stream(r, seqs, pad) ==
  LET Part(i) == IF cp = 1 THEN IF layout = "bshd" THEN Padded(seqs[i], MaxSeqLen, pad) ELSE seqs[i]
                 ELSE SliceWithCp(r, seqs[i], Chunk(i), pad)
      parts == FlattenSeq([i \in Items |-> Part(i)])
      whole == FlattenSeq(seqs)
      share == RoundUp(Len(whole), cp * PadSize) \div cp
  IN  CASE layout = "bshd" -> parts
        [] layout = "thd" -> Padded(parts, RoundUp(Len(parts), PadSize), pad)
        [] layout = "allgather" -> Slice(Padded(whole, cp * share, pad), r * share, (r + 1) * share)

Tokens(i) == [p \in 1 .. batch[i].total |-> <<i, p - 1>>]
Logits(r) == Stream(r, [i \in Items |-> Tokens(i)], <<0, 0>>)

\* The mask as it lies beside the logits: one place before the token it is about.
MaskRow(i) == [p \in 1 .. Prompt(i) - 1 |-> 0] \o batch[i].mask \o <<0>>
FullLossMasks(r) == Stream(r, [i \in Items |-> MaskRow(i)], 0)

\* get_responses: the logits of sample i on rank r, and the tokens they are scored against.
Responses(r, i) ==
  LET n == batch[i].response
      before == Total(LAMBDA j : batch[j].total, i - 1)
      end == IF layout = "bshd" THEN MaxSeqLen * (i - 1) + batch[i].total ELSE before + batch[i].total
      share == Len(Logits(r))
      s == Most(before + Prompt(i) - 1, r * share)
      e == Least(before + batch[i].total - 1, (r + 1) * share)
      chunk == Chunk(i)
      base == Total(LAMBDA j : 2 * Chunk(j), i - 1)
      at == LogitsOffset(r, i, chunk)
      Own(k) == Slice(Slice(Logits(r), base + (k - 1) * chunk, base + k * chunk),
                      at[k][1] - ChunkStarts(r, chunk)[k], at[k][2] - ChunkStarts(r, chunk)[k])
      Scored(k) == IF at[k] = <<0, 0>> THEN << >> ELSE Slice(Tokens(i), at[k][1] + 1, at[k][2] + 1)
  IN  IF cp = 1
      THEN [logits |-> Slice(Logits(r), end - n - 1, end - 1),
            tokens |-> Slice(Tokens(i), batch[i].total - n, batch[i].total)]
      ELSE IF layout = "allgather"
      THEN IF e <= s THEN [logits |-> << >>, tokens |-> << >>]
           ELSE [logits |-> Slice(Logits(r), s - r * share, e - r * share),
                 tokens |-> Slice(Tokens(i), s + 1 - before, e + 1 - before)]
      ELSE [logits |-> Own(1) \o Own(2), tokens |-> Scored(1) \o Scored(2)]

\* The log-probability of a token of the response, told apart by its place, if
\* it is read off the logits of its predecessor; else the wrong number.
TokenValue(i, p) == 100 * i + p
Scores(pairs) ==
  [j \in DOMAIN pairs.tokens |->
     LET t == pairs.tokens[j] IN
     IF pairs.logits[j] = <<t[1], t[2] - 1>> THEN TokenValue(t[1], t[2]) ELSE -1]

\* dist.all_reduce of one sequence per rank.
AllReduce(shares, n) == [j \in 1 .. n |-> FoldFunction(+, 0, [q \in CpRanks |-> shares[q][j]])]

\* _allgather_cp_redistribute: from contiguous shares to the two chunks of a rank.
Redistributed(r, i) ==
  LET n == batch[i].response
      share == Len(Logits(r))
      start == Total(LAMBDA j : batch[j].total, i - 1) + Prompt(i) - 1
      Full(q) == LET s == Most(start, q * share)
                     e == Least(start + n, (q + 1) * share)
                 IN  IF e <= s THEN [j \in 1 .. n |-> 0]
                     ELSE Padded([j \in 1 .. s - start |-> 0] \o Scores(Responses(q, i)), n, 0)
  IN  SliceLogProb(r, AllReduce([q \in CpRanks |-> Full(q)], n), i)

\* all_gather_with_cp: what rank q holds, put at its places, summed over the ranks.
\* Its offsets are those of the packed layout whatever the layout is.
AllGather(local, i) ==
  LET n == batch[i].response
      At(q) == LogitsOffset(q, i, CeilDiv(batch[i].total, 2 * cp))
      Width(q, k) == At(q)[k][2] - At(q)[k][1]
      Full(q) == [j \in 1 .. n |->
        LET p == Prompt(i) - 1 + j - 1
            In(k) == At(q)[k][1] <= p /\ p < At(q)[k][2]
        IN  IF In(1) THEN local[q][p - At(q)[1][1] + 1]
            ELSE IF In(2) THEN local[q][Width(q, 1) + p - At(q)[2][1] + 1] ELSE 0]
  IN  IF cp = 1 THEN local[0] ELSE AllReduce([q \in CpRanks |-> Full(q)], n)

MaskChunkOfLogits(r, i) ==
  LET at == LogitsOffset(r, i, Chunk(i))
      Part(k) == IF at[k] = <<0, 0>> THEN << >>
                 ELSE Slice(batch[i].mask, Most(0, at[k][1] - Prompt(i)), at[k][2] - Prompt(i))
  IN  IF cp = 1 THEN batch[i].mask ELSE Part(1) \o Part(2)
\* The masks that the loss, and the whitening of the advantages, lay beside a chunk.
MaskChunk(r, i) ==
  IF cp = 1 THEN batch[i].mask
  ELSE LET at == LogitsOffset(r, i, Chunk(i))
           Part(k) == IF at[k] = <<0, 0>> THEN << >>
                      ELSE Slice(batch[i].mask, at[k][1] + 1 - Prompt(i), at[k][2] + 1 - Prompt(i))
       IN  Part(1) \o Part(2)

\* HuggingfaceAttention.forward: the linear attention runs over the whole sample,
\* put together from the halves the ranks hold and cut up again afterwards.
Gathered(i) ==
  LET at == Total(LAMBDA j : 2 * Chunk(j), i - 1)
      Half(k) == [q \in 1 .. cp |-> Slice(Logits(q - 1), at + (k - 1) * Chunk(i), at + k * Chunk(i))]
  IN  FlattenSeq(Half(1)) \o FlattenSeq(Reverse(Half(2)))
Scattered(r, i, whole) ==
  LET Part(k) == Slice(whole, k * Chunk(i), (k + 1) * Chunk(i))
  IN  Part(r) \o Part(2 * cp - 1 - r)
-----------------------------------------------------------------------------
Gae(rewards, values, gamma, lambda) ==
  LET n == Len(rewards)
      adv[t \in 1 .. n + 1] ==
        IF t > n THEN 0
        ELSE rewards[t] + gamma * (IF t < n THEN values[t + 1] ELSE 0) - values[t]
             + gamma * lambda * adv[t + 1]
  IN  [t \in 1 .. n |-> adv[t]]

Power(w, m) == IF m = 0 THEN 1 ELSE w ^ m
\* The weight of the state before a block at the t-th place of the block.
PowVec(w, t) == Power(w, t)

\* chunked_gae: a scan of the reversed deltas within blocks, and a state from block to block.
ChunkedGae(rewards, values, gamma, lambda) ==
  LET n == Len(rewards)
      w == gamma * lambda
      deltas == Reverse([t \in 1 .. n |->
                  rewards[t] + gamma * (IF t < n THEN values[t + 1] ELSE 0) - values[t]])
      blocks == RoundUp(n, Block) \div Block
      delta == Padded(deltas, blocks * Block, 0)
      length(b) == IF b = blocks THEN n - (blocks - 1) * Block ELSE Block
      LocalSum(b, t) == FoldFunction(+, 0, [k \in 1 .. t |-> Power(w, t - k) * delta[(b - 1) * Block + k]])
      state[b \in 0 .. blocks] ==
        IF b = 0 THEN 0 ELSE LocalSum(b, length(b)) + PowVec(w, length(b)) * state[b - 1]
      scan == [m \in 1 .. n |-> LET b == ((m - 1) \div Block) + 1
                                    t == ((m - 1) % Block) + 1
                                IN  LocalSum(b, t) + PowVec(w, t) * state[b - 1]]
  IN  Reverse(scan)


\* What training adds up per token: a KL and a value, here numbers made of the
\* log-probability, and the reward of the sample.
Kl(logProb) == logProb % 7
Value(logProb) == logProb % 5
Reward(i) == 50 * i

\* get_reinforce_plus_plus_returns: the reward counts at the last unmasked token.
Discounted(i, kl, gamma) ==
  LET n == batch[i].response
      last == Max({t \in 1 .. n : batch[i].mask[t] = 1})
      rewards == [t \in 1 .. n |-> (IF t = last THEN Reward(i) ELSE 0) - kl[t] * batch[i].mask[t]]
      sum[t \in 1 .. n + 1] == IF t > n THEN 0 ELSE rewards[t] + gamma * sum[t + 1]
  IN  [t \in 1 .. n |-> sum[t]]

\* The token rewards of PPO: rank 0 adds the reward of the sample at the end of its share.
TokenRewards(r, i) ==
  LET kl == logProbs[r][i]
  IN  [j \in DOMAIN kl |-> (IF r = 0 /\ j = Len(kl) THEN Reward(i) ELSE 0) - Kl(kl[j])]

\* All samples are padded to the longest response, and the scan runs over all of it.
PpoReturns(r, i, gamma, lambda) ==
  LET n == batch[i].response
      width == Max({batch[j].response : j \in Items})
      rewards == Padded(AllGather([q \in CpRanks |-> TokenRewards(q, i)], i), width, 0)
      values == Padded(AllGather([q \in CpRanks |-> Mapped(logProbs[q][i], Value)], i), width, 0)
      adv == ChunkedGae(rewards, values, gamma, lambda)
  IN  SliceLogProb(r, [t \in 1 .. n |-> adv[t] + values[t]], i)

ReinforceReturns(r, i, gamma) ==
  LET kl == AllGather([q \in CpRanks |-> Mapped(logProbs[q][i], Kl)], i)
  IN  SliceLogProb(r, Discounted(i, kl, gamma), i)
-----------------------------------------------------------------------------
SequenceInit ==
  /\ cp \in CpSizes /\ layout \in {"thd", "bshd", "allgather"}
  /\ \E n \in BatchSizes : batch \in [1 .. n -> Samples]
  /\ logProbs = << >> /\ returns = << >> /\ discount = << >>

\* A forward pass: every rank has the log-probabilities of its share.
ForwardPass ==
  /\ logProbs = << >>
  /\ logProbs' = [r \in CpRanks |-> [i \in Items |->
       IF layout = "allgather" THEN Redistributed(r, i) ELSE Scores(Responses(r, i))]]
  /\ UNCHANGED <<batch, layout, cp, returns, discount>>

\* all_gather_with_cp asserts that a share is as long as in the packed layout,
\* so that the estimators that gather are for that layout (or a single rank).
Gathers == cp = 1 \/ layout # "bshd"

\* PPO looks for the end of the response in the last chunk, where it is unless
\* the sample is shorter than about 4 * cp * cp tokens.
EndsInLastChunk(i) == cp = 1 \/ LogitsOffset(0, i, Chunk(i))[2] # <<0, 0>>

Ppo(gamma, lambda) ==
  /\ logProbs # << >> /\ returns = << >> /\ Gathers /\ \A i \in Items : EndsInLastChunk(i)
  /\ returns' = [r \in CpRanks |-> [i \in Items |-> PpoReturns(r, i, gamma, lambda)]]
  /\ discount' = <<gamma, lambda>>
  /\ UNCHANGED <<batch, layout, cp, logProbs>>

\* Asserts that every sample has an unmasked token.
Reinforce(gamma) ==
  /\ logProbs # << >> /\ returns = << >> /\ Gathers /\ \A i \in Items : 1 \in ToSet(batch[i].mask)
  /\ returns' = [r \in CpRanks |-> [i \in Items |-> ReinforceReturns(r, i, gamma)]]
  /\ discount' = <<gamma>>
  /\ UNCHANGED <<batch, layout, cp, logProbs>>

SequenceNext ==
  \/ ForwardPass
  \/ \E gamma \in Gammas : Reinforce(gamma) \/ \E lambda \in Lambdas : Ppo(gamma, lambda)
-----------------------------------------------------------------------------
Answer(i) == Prompt(i) .. batch[i].total - 1
Whole(i) == [t \in 1 .. batch[i].response |-> TokenValue(i, Prompt(i) + t - 1)]

\* Whatever the layout, every token of a response is scored on exactly one rank,
\* against the logits of the token before it, and the mask, the engine's
\* log-probability and the loss mask beside it are those of that token; no rank
\* holds anything else (the zigzag halves of get_responses, get_batch and
\* slice_log_prob_with_cp are computed independently of one another).
TokensAligned ==
  logProbs # << >> =>
    /\ \A i \in Items : \A r \in CpRanks :
         /\ logProbs[r][i] = SliceLogProb(r, Whole(i), i)
         /\ MaskChunk(r, i) = SliceLogProb(r, batch[i].mask, i)
    /\ \A i \in Items : \A p \in Answer(i) :
         Cardinality({<<r, j>> \in CpRanks \X (1 .. batch[i].response) :
                        j <= Len(logProbs[r][i]) /\ logProbs[r][i][j] = TokenValue(i, p)}) = 1
    /\ \A r \in CpRanks :
         /\ Len(FullLossMasks(r)) = Len(Logits(r))
         /\ \A j \in DOMAIN Logits(r) : FullLossMasks(r)[j] =
              LET at == Logits(r)[j]
                  i == at[1]
                  t == at[2] + 2 - Prompt(i)
              IN  IF i = 0 \/ t \notin 1 .. batch[i].response THEN 0 ELSE batch[i].mask[t]

\* Gathering a response from the ranks, padding it to the longest, scanning it
\* in blocks and slicing it again gives what the recursive definition gives for
\* the whole response: PPO's returns by generalised advantage estimation,
\* REINFORCE++'s by discounting.
ReturnsExact ==
  returns # << >> =>
    \A i \in Items : \A r \in CpRanks :
      LET n == batch[i].response
          last == Max({t \in 1 .. n : batch[i].mask[t] = 1} \cup {0})
          values == Mapped(Whole(i), Value)
          kl == Mapped(Whole(i), Kl)
          ppo == Gae([t \in 1 .. n |-> (IF t = n THEN Reward(i) ELSE 0) - kl[t]], values,
                     discount[1], discount[2])
          Weight(t, u) == IF u = t THEN 1 ELSE discount[1] ^ (u - t)
          plain == [t \in 1 .. n |-> Total(LAMBDA u :
                      IF u < t THEN 0 ELSE Weight(t, u) *
                        ((IF u = last THEN Reward(i) ELSE 0) - kl[u] * batch[i].mask[u]), n)]
      IN  returns[r][i] = SliceLogProb(r,
            IF Len(discount) = 1 THEN plain ELSE [t \in 1 .. n |-> ppo[t] + values[t]], i)

\* The linear attention, which needs a sample as a whole, sees its tokens in their
\* order and gives every rank back the places it came with.
AttendsInOrder ==
  layout = "thd" /\ cp > 1 /\ logProbs = << >> =>
    \A i \in Items :
      /\ Gathered(i) = Padded(Tokens(i), 2 * cp * Chunk(i), <<0, 0>>)
      /\ \A r \in CpRanks :
           LET at == Total(LAMBDA j : 2 * Chunk(j), i - 1)
           IN  Scattered(r, i, Gathered(i)) = Slice(Logits(r), at, at + 2 * Chunk(i))

\* All together: nothing a layout does to a sequence changes what is learnt from it.
LayoutExact == TokensAligned /\ ReturnsExact /\ AttendsInOrder
=============================================================================
