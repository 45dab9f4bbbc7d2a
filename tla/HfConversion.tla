----------------------------- MODULE HfConversion -----------------------------
(* The round trip of the weights: a Hugging Face checkpoint is loaded into    *)
(* the parameters of Megatron (slime_plugins/mbridge), which are cut over the *)
(* tensor parallel ranks; an update gathers every parameter again, removes    *)
(* the padding of the vocabulary, converts it to the names and the layout of  *)
(* the checkpoint (megatron_to_hf) and may quantise it.  A tensor is the      *)
(* sequence of its slices along the axis that is cut or rearranged, and a     *)
(* slice is a label: which one it was in the checkpoint.                      *)
EXTENDS Integers, Sequences, FiniteSets, SequencesExt, Functions

CONSTANT Families     \* the shapes that are checked

VARIABLES shape,    \* the model at hand
          cutUp,     \* parameter of Megatron -> the shards the ranks hold
          todo,     \* parameters still to be sent
          sent      \* the tensors sent so far: name, slices, whether scaled
convVars == <<shape, cutUp, todo, sent>>

NoShape == [family |-> "none"]
NoExpert == -1
Named(at, part, expert) == [at |-> at, part |-> part, expert |-> expert]

Gated(m) == m.family \in {"qwen3next", "qwen3_5"}
Moe(m) == m.experts > 0
Fused(m) == m.family = "qwen3_5"

-----------------------------------------------------------------------------
(* The parameters of a model (external: Megatron and the layer specs).        *)
LinearAttn(m) == {"A_log", "conv1d", "dt_bias", "linear_norm", "out_proj"} \cup
                 IF Fused(m) THEN {"in_proj_a", "in_proj_b", "in_proj_qkv", "in_proj_z"}
                             ELSE {"in_proj_ba", "in_proj_qkvz"}
Attention(m, kind) ==
  IF kind = "linear" THEN {"input_norm"} \cup LinearAttn(m)
  ELSE {"qkv", "qkv_norm", "proj"} \cup (IF m.bias THEN {"qkv_bias"} ELSE {})
       \cup (IF m.qkNorm THEN {"q_layernorm", "k_layernorm"} ELSE {})
LayerParams(m, at, kind) ==
  {Named(at, part, NoExpert) : part \in Attention(m, kind) \cup
      IF Moe(m) THEN {"pre_mlp_norm", "router"} \cup
                     (IF m.shared THEN {"shared_fc1", "shared_fc2", "shared_gate"} ELSE {})
                ELSE {"fc1_norm", "fc1", "fc2"}}
  \cup {Named(at, part, e) : part \in {"expert_fc1", "expert_fc2"}, e \in 0 .. m.experts - 1}
Parameters(m) ==
  {Named(<<"top">>, part, NoExpert) : part \in {"embedding", "final_norm"} \cup
                                               IF m.tied THEN {} ELSE {"output"}}
  \cup UNION {LayerParams(m, <<"layer", i>>, m.layers[i]) : i \in DOMAIN m.layers}
  \cup UNION {LayerParams(m, <<"mtp", i>>, "full")
              \cup {Named(<<"mtp", i>>, part, NoExpert) :
                    part \in {"eh_proj", "enorm", "hnorm", "mtp_norm"}} : i \in 1 .. m.mtp}
  \cup (IF m.vision THEN {Named(<<"vision">>, "block", NoExpert)} ELSE {})

-----------------------------------------------------------------------------
(* Loading: the names of the checkpoint a parameter is made of.               *)
AttentionNames == [qkv |-> <<"q", "k", "v">>, qkv_bias |-> <<"q_bias", "k_bias", "v_bias">>,
                   qkv_norm |-> <<"input_norm">>, proj |-> <<"o">>,
                   q_layernorm |-> <<"q_norm">>, k_layernorm |-> <<"k_norm">>]
MlpNames == [fc1 |-> <<"gate", "up">>, fc1_norm |-> <<"post_norm">>, fc2 |-> <<"down">>,
             pre_mlp_norm |-> <<"post_norm">>, router |-> <<"router">>,
             shared_fc1 |-> <<"shared_gate_proj", "shared_up">>, shared_fc2 |-> <<"shared_down">>,
             shared_gate |-> <<"shared_expert_gate">>,
             expert_fc1 |-> <<"gate", "up">>, expert_fc2 |-> <<"down">>]
FusedNames == [expert_fc1 |-> <<"gate_up_proj">>, expert_fc2 |-> <<"down_proj">>]
WrapperNames == [eh_proj |-> "fc", enorm |-> "pre_fc_norm_embedding",
                 hnorm |-> "pre_fc_norm_hidden", mtp_norm |-> "norm"]
TopNames == [embedding |-> "embed_tokens", output |-> "lm_head", final_norm |-> "norm"]

\* One tensor for all experts of a decoder layer; the MTP layer keeps one per expert.
LoadNames(m, p) ==
  LET In(parts, expert) == [i \in DOMAIN parts |-> Named(p.at, parts[i], expert)]
  IN CASE p.part \in DOMAIN WrapperNames ->
            <<Named(<<"mtp">>, WrapperNames[p.part], NoExpert)>>
       [] p.part \in DOMAIN TopNames -> In(<<TopNames[p.part]>>, NoExpert)
       [] p.part \in DOMAIN FusedNames /\ Fused(m) /\ p.at[1] = "layer" ->
            In(FusedNames[p.part], NoExpert)
       [] p.part \in DOMAIN MlpNames -> In(MlpNames[p.part], p.expert)
       [] p.part \in DOMAIN AttentionNames -> In(AttentionNames[p.part], NoExpert)
       [] OTHER -> In(<<p.part>>, NoExpert)       \* the names of linear attention, of vision

CheckpointNames(m) == UNION {Range(LoadNames(m, p)) : p \in Parameters(m)}

\* How many slices a tensor of the checkpoint has (external: the shapes of the model).
Count(m, part) ==
  CASE part \in {"q", "q_bias"} -> m.groups * m.perGroup * m.head * (IF Gated(m) THEN 2 ELSE 1)
    [] part \in {"k", "v", "k_bias", "v_bias"} -> m.groups * m.head
    [] part \in {"gate", "up", "down", "shared_gate_proj", "shared_up", "shared_down", "o"} -> m.inter
    [] part = "gate_up_proj" -> 2 * m.inter
    [] part = "down_proj" -> m.inter
    [] part \in {"embed_tokens", "lm_head"} -> m.vocab
    [] part = "fc" -> 2
    [] OTHER -> 1
Slices(m, h) == [i \in 1 .. Count(m, h.part) |-> <<h, i>>]
\* What the checkpoint stores; a fused tensor has one such sequence per expert.
Stored(m, h) ==
  IF h.part \in {"gate_up_proj", "down_proj"}
  THEN [e \in 1 .. m.experts |-> [i \in 1 .. Count(m, h.part) |-> <<[h EXCEPT !.expert = e - 1], i>>]]
  ELSE Slices(m, h)

-----------------------------------------------------------------------------
(* Views.                                                                     *)
Rows(s, n, i) == SubSeq(s, (i - 1) * n + 1, i * n)
Cut(s, n) == [i \in 1 .. Len(s) \div n |-> Rows(s, n, i)]          \* view(-1, n)
Halves(s) == Cut(s, Len(s) \div 2)                                   \* chunk(2)
\* view(a, b).transpose(0, 1), flattened.
Transposed(s, a, b) == [i \in 1 .. a * b |-> s[((i - 1) % a) * b + ((i - 1) \div a) + 1]]
PerGroup(m, s) == Cut(s, Len(s) \div m.groups)

\* The heads of a group lie together: its queries (all values of the query
\* heads, then all gates), its key, its value.
MergeQkv(m, q, k, v) ==
  LET Queries(g) == LET heads == Cut(PerGroup(m, q)[g], m.head)
                    IN IF Gated(m) THEN FlattenSeq(Transposed(heads, m.perGroup, 2))
                                   ELSE FlattenSeq(heads)
  IN FlattenSeq([g \in 1 .. m.groups |->
                   Queries(g) \o PerGroup(m, k)[g] \o PerGroup(m, v)[g]])

ToMcore(m, p) ==
  LET ws == [i \in DOMAIN LoadNames(m, p) |-> Stored(m, LoadNames(m, p)[i])]
  IN CASE p.part \in {"qkv", "qkv_bias"} -> MergeQkv(m, ws[1], ws[2], ws[3])
       [] p.part \in DOMAIN FusedNames /\ Fused(m) /\ p.at[1] = "layer" -> ws[1][p.expert + 1]
       [] p.part = "eh_proj" /\ m.family = "qwen3next" -> Halves(ws[1])[2] \o Halves(ws[1])[1]
       [] p.part \in {"embedding", "output"} -> ws[1] \o [i \in 1 .. m.padded - m.vocab |-> <<"pad", i>>]
       [] OTHER -> FlattenSeq(ws)

Glu == {"fc1", "shared_fc1", "expert_fc1"}
RowParallel == {"proj", "fc2", "shared_fc2", "expert_fc2"}
Sharded == Glu \cup RowParallel \cup {"qkv", "qkv_bias", "embedding", "output"}
\* The ranks a parameter is cut over; Megatron cuts the two halves of a gated
\* linear unit apart (external).
CutOver(m, p) == IF p.part \notin Sharded THEN 1
               ELSE IF p.part \in {"expert_fc1", "expert_fc2"} THEN m.etp ELSE m.tp
Shards(m, p) ==
  LET w == ToMcore(m, p)
      Part(s, r) == Rows(s, Len(s) \div CutOver(m, p), r)
  IN [r \in 1 .. CutOver(m, p) |->
        IF p.part \in Glu THEN Part(Halves(w)[1], r) \o Part(Halves(w)[2], r) ELSE Part(w, r)]

-----------------------------------------------------------------------------
(* The update: gather, remove the padding, convert, quantise.                 *)

\* The axis Megatron reports for a parameter: wrong for the second matrix of grouped experts.
PartitionDim(p) == IF p.part \in RowParallel \ {"expert_fc2"} THEN 1 ELSE 0
CatAxis(p) == IF p.part \in RowParallel \ {"proj"} /\ PartitionDim(p) = 0 THEN 1 ELSE PartitionDim(p)
GatherParam(p, shards) ==
  LET halves == [r \in DOMAIN shards |-> Halves(shards[r])]
      parts == IF p.part \in Glu THEN [r \in DOMAIN halves |-> halves[r][1]] \o
                                      [r \in DOMAIN halves |-> halves[r][2]]
                                 ELSE shards
      axis == IF p.part \in RowParallel THEN 1 ELSE 0
  IN IF Len(shards) = 1 \/ axis = CatAxis(p) THEN FlattenSeq(parts) ELSE <<"stacked">>

\* A vision-language model keeps its text model under language_model.
Nested(m) == m.vision
\* The padding and the scales are looked up by Megatron's name as it is, before
\* the converter takes language_model. off it.
RemovePadding(m, p, w) ==
  IF p.part \in {"embedding", "output"} /\ ~Nested(m) THEN SubSeq(w, 1, m.vocab) ELSE w

\* Mutant: the queries and the gates of a group stay apart.
SplitQkvApart(m, w) ==
  LET per == Len(PerGroup(m, w)[1]) \div m.head
      Take(from, to) == FlattenSeq(FlattenSeq([g \in 1 .. m.groups |->
                          SubSeq(Cut(PerGroup(m, w)[g], m.head), from, to)]))
  IN <<Take(1, per - 2), Take(per - 1, per - 1), Take(per, per)>>
SplitQkv(m, w) ==
  LET queries == IF Gated(m) THEN 2 * m.perGroup ELSE m.perGroup
      group(g) == Cut(PerGroup(m, w)[g], m.head)
      Q(g) == LET heads == SubSeq(group(g), 1, queries)
              IN IF Gated(m) THEN Transposed(heads, 2, m.perGroup) ELSE heads
      All(F(_)) == FlattenSeq(FlattenSeq([g \in 1 .. m.groups |-> F(g)]))
      K(g) == <<group(g)[queries + 1]>>
      V(g) == <<group(g)[queries + 2]>>
  IN <<All(Q), All(K), All(V)>>
(* The parameters each converter knows; any other name is an error.           *)
LlamaNames == {"embedding", "output", "final_norm", "proj", "qkv", "fc1", "fc2",
               "qkv_norm", "fc1_norm", "pre_mlp_norm"}
Qwen2Names == (LlamaNames \ {"pre_mlp_norm"}) \cup {"qkv_bias", "q_layernorm", "k_layernorm"}
Qwen3VlNames == Qwen2Names \cup {"block"}
Qwen3MoeNames == Qwen2Names \cup {"pre_mlp_norm", "router", "expert_fc1", "expert_fc2",
                                  "shared_fc1", "shared_fc2", "shared_gate"}
Qwen3NextNames == Qwen3MoeNames \cup {"input_norm", "A_log", "conv1d", "dt_bias", "linear_norm",
                                      "out_proj", "in_proj_ba", "in_proj_qkvz"}
Qwen35Names == (Qwen3NextNames \ {"in_proj_ba", "in_proj_qkvz"}) \cup
               {"in_proj_a", "in_proj_b", "in_proj_qkv", "in_proj_z"}
\* The converter the model's name selects.
Known(m, p) ==
  \/ p.part \in CASE m.family = "qwen3moe" -> Qwen3MoeNames
                  [] m.family = "qwen3next" -> Qwen3NextNames
                  [] m.family = "qwen3_5" -> Qwen35Names
                  [] m.family = "qwen3vl" -> Qwen3VlNames
                  [] m.family = "qwen2" -> Qwen2Names
                  [] m.family = "llama" -> LlamaNames
  \/ Gated(m) /\ p.part \in {"enorm", "hnorm", "mtp_norm", "eh_proj"}

SendNames == [
  embedding |-> <<"embed_tokens">>, output |-> <<"lm_head">>, final_norm |-> <<"norm">>,
  proj |-> <<"o">>, qkv |-> <<"q", "k", "v">>, qkv_bias |-> <<"q_bias", "k_bias", "v_bias">>,
  qkv_norm |-> <<"input_norm">>, q_layernorm |-> <<"q_norm">>, k_layernorm |-> <<"k_norm">>,
  fc1 |-> <<"gate", "up">>, fc2 |-> <<"down">>, fc1_norm |-> <<"post_norm">>,
  pre_mlp_norm |-> <<"post_norm">>, router |-> <<"router">>,
  expert_fc1 |-> <<"gate", "up">>, expert_fc2 |-> <<"down">>,
  shared_fc1 |-> <<"shared_gate_proj", "shared_up">>, shared_fc2 |-> <<"shared_down">>,
  shared_gate |-> <<"shared_expert_gate">>]
Wrappers == [enorm |-> "pre_fc_norm_embedding", hnorm |-> "pre_fc_norm_hidden",
             mtp_norm |-> "norm", eh_proj |-> "fc"]

ToHf(m, p, w) ==
  LET names == IF p.part \in DOMAIN SendNames THEN SendNames[p.part] ELSE <<p.part>>
      tensors == CASE p.part \in {"qkv", "qkv_bias"} -> SplitQkv(m, w)
                   [] p.part \in Glu -> Halves(w)
                   [] OTHER -> <<w>>
  IN IF p.part \in DOMAIN Wrappers
     THEN << <<Named(<<"mtp">>, Wrappers[p.part], NoExpert),
               IF p.part = "eh_proj" /\ m.family = "qwen3next" THEN Halves(w)[2] \o Halves(w)[1] ELSE w>> >>
     ELSE [i \in DOMAIN names |-> <<Named(p.at, names[i], p.expert), tensors[i]>>]

\* Which parameters the fp8 quantiser splits into values and scales; the MTP
\* layer is recognised by its own pattern.
Quantised(m, p) ==
  /\ m.fp8 /\ ~Nested(m)
  /\ p.at[1] \in {"layer", "mtp"}
  /\ p.part \in {"expert_fc1", "expert_fc2", "shared_fc1", "shared_fc2", "proj", "qkv", "fc1", "fc2",
                 "in_proj_qkv", "in_proj_z", "out_proj"}
-----------------------------------------------------------------------------
ConvInit == shape = NoShape /\ cutUp = << >> /\ todo = {} /\ sent = << >>

LoadCheckpoint(m) ==
  /\ shape = NoShape /\ cutUp = << >>
  /\ shape' = m
  /\ cutUp' = [p \in Parameters(m) |-> Shards(m, p)]
  /\ todo' = Parameters(m)
  /\ UNCHANGED sent

\* convert_to_hf; the order of the parameters does not matter to what is checked.
SendParameter ==
  /\ todo /= {}
  /\ LET p == CHOOSE q \in todo : TRUE
         w == RemovePadding(shape, p, GatherParam(p, cutUp[p]))
         out == ToHf(shape, p, w)
     IN /\ sent' = sent \o IF Known(shape, p)
                           THEN [i \in DOMAIN out |-> [name |-> out[i][1], slices |-> out[i][2],
                                                       scaled |-> Quantised(shape, p)]]
                           ELSE << [name |-> Named(p.at, "unknown", NoExpert), slices |-> << >>,
                                    scaled |-> FALSE] >>
        /\ todo' = todo \ {p}
  /\ UNCHANGED <<shape, cutUp>>

ConvNext == SendParameter \/ \E m \in Families : LoadCheckpoint(m)
ConvSpec == ConvInit /\ [][ConvNext]_convVars

-----------------------------------------------------------------------------
\* The tensors the engine has: those of the checkpoint, a fused one expert by expert.
EngineNames(m) ==
  UNION {IF h.part \in {"gate_up_proj", "down_proj"}
         THEN {Named(h.at, part, e) : part \in IF h.part = "down_proj" THEN {"down"} ELSE {"gate", "up"},
                                      e \in 0 .. m.experts - 1}
         ELSE {h} : h \in CheckpointNames(m)}
Meant(m, h) ==
  IF Fused(m) /\ h.at[1] = "layer" /\ h.expert /= NoExpert
  THEN LET Of(part, first) == [i \in 1 .. m.inter |-> <<Named(h.at, part, h.expert), first + i>>]
       IN CASE h.part = "gate" -> Of("gate_up_proj", 0)
            [] h.part = "up" -> Of("gate_up_proj", m.inter)
            [] h.part = "down" -> Of("down_proj", 0)
  ELSE Slices(m, h)

\* Excuse: the padding of a nested model is not removed, so its engines are sent
\* rows after those of the checkpoint.
KeepsPadding(m, h) == Nested(m) /\ m.padded > m.vocab /\ h.part \in {"embed_tokens", "lm_head"}

\* What the engines get is the checkpoint: every tensor sent is one they have,
\* none is sent twice, each has the slices of the checkpoint in their order
\* whatever the layout in between (heads interleaved by group, gates, gated
\* linear units cut over ranks, fused experts, padding), and when the update is
\* over none is missing.
RoundTrip ==
  /\ \A i \in DOMAIN sent : /\ sent[i].name \in EngineNames(shape)
                            /\ LET meant == Meant(shape, sent[i].name)
                               IN IF KeepsPadding(shape, sent[i].name)
                                  THEN IsPrefix(meant, sent[i].slices)
                                  ELSE sent[i].slices = meant
                            /\ \A j \in 1 .. i - 1 : sent[j].name /= sent[i].name
  /\ shape /= NoShape /\ todo = {} => {s.name : s \in Range(sent)} = EngineNames(shape)

\* The same projection is quantised in every layer, the MTP layer included:
\* the engine builds them all from one class.
ScalesAlike ==
  \A s, t \in Range(sent) :
     s.name.part = t.name.part /\ {s.name.at[1], t.name.at[1]} \subseteq {"layer", "mtp"}
     /\ Len(s.name.at) = 2 /\ Len(t.name.at) = 2 => s.scaled = t.scaled
ConversionExact == RoundTrip /\ ScalesAlike
=============================================================================
