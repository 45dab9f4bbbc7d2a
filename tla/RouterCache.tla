----------------------------- MODULE RouterCache -----------------------------
(***************************************************************************)
(* The request router of slime with its radix-tree middleware              *)
(* (src/slime/router): a request for a text is given to the engine with the *)
(* fewest requests, what the engine generated is kept in a trie of texts,  *)
(* and a sample gets its tokens back from the trie, by its text.           *)
(*                                                                         *)
(* A text is a sequence of characters, a token the text it stands for and  *)
(* whether an engine made it (loss mask 1, log-prob its own).  A node of   *)
(* the trie is the sequence of the keys that lead to it.                   *)
(***************************************************************************)
EXTENDS Integers, FiniteSets, SequencesExt

CONSTANTS
  Workers,          \* URLs of the engines
  Clients,          \* samples that are generated
  Prompts,          \* their texts
  Answers,          \* what an engine may generate to the end: sequences of texts
  Merges,           \* pairs of characters the tokenizer knows as one token
  Tries,            \* how often an aborted answer is asked for again (5)
  FailureThreshold, \* --slime-router-health-check-failure-threshold
  MaxCrashes        \* bound on the crashes of engines

\* Where a request is when no engine has it.
Place == {"idle", "route", "insert", "read", "done"}

ASSUME RouterAssumption ==
  /\ Tries \in Nat \ {0} /\ FailureThreshold \in Nat \ {0}
  /\ IsFiniteSet(Clients)
  /\ Workers \cap Place = {}      \* a URL is none of the words above

VARIABLES
  trie,         \* radix_tree: node -> token_ids with loss mask
  request,      \* per client: where its request is
  counts,       \* worker_request_counts
  failures,     \* worker_failure_counts
  quarantined,  \* dead_workers
  health,       \* the workers asked in this round of the health check
  up,           \* the engines that answer
  lost,         \* requests given up between _use_url and the try block, by worker
  cut,          \* whether an answer that did not come to its end was cached
  crashes
cacheVars == <<trie, cut>>
loadVars == <<counts, lost>>
healthVars == <<failures, quarantined, health>>
engineVars == <<up, crashes>>
routerVars == <<cacheVars, loadVars, healthVars, engineVars, request>>

Text(tokens) == FlattenSeq([i \in 1 .. Len(tokens) |-> tokens[i].text])
\* The text that the loss mask leaves.
MadeText(tokens) == FlattenSeq([i \in 1 .. Len(tokens) |-> IF tokens[i].made THEN tokens[i].text ELSE << >>])

\* The tokenizer of the model, on any text.
Tokenize(text) ==
  LET T[i \in 1 .. Len(text) + 2] ==
        IF i > Len(text) THEN << >>
        ELSE LET n == IF i < Len(text) /\ SubSeq(text, i, i + 1) \in Merges THEN 2 ELSE 1
             IN <<[text |-> SubSeq(text, i, i + n - 1), made |-> FALSE]>> \o T[i + n]
  IN T[1]

---------------------------------------------------------------------------
(* The trie *)
\* What a text goes on with after a node, and the keys below the node that this
\* starts with.
Rest(node, text) == SubSeq(text, Len(FlattenSeq(node)) + 1, Len(text))
Keys(node, text) ==
  {m[Len(m)] : m \in {n \in DOMAIN trie : /\ Len(n) = Len(node) + 1 /\ IsPrefix(node, n)
                                         /\ IsPrefix(n[Len(n)], Rest(node, text))}}

\* The node the walk along a text ends at: at each node the child with the
\* longest of these keys.
Walk(text) ==
  LET To[node \in DOMAIN trie \cup {<< >>}] ==
        LET keys == Keys(node, text)
        IN  IF keys = {} THEN node
            ELSE To[Append(node, CHOOSE k \in keys : \A j \in keys : Len(j) <= Len(k))]
  IN To[<< >>]

\* The tokens on the way to a node; a node without tokens adds none.
Held(node) == FlattenSeq([i \in 1 .. Len(node) |-> trie[SubSeq(node, 1, i)]])

With(node, tokens) == [n \in DOMAIN trie \cup {node} |-> IF n = node THEN tokens ELSE trie[n]]

\* Mutant: the node gets all tokens, those of the nodes above it again.
InsertedWhole(text, tokens) ==
  LET node == Walk(text)
      rest == Rest(node, text)
  IN IF rest # << >> THEN With(Append(node, rest), tokens) ELSE trie
\* _insert: tokens are skipped as many as the nodes passed have.
Inserted(text, tokens) ==
  LET node == Walk(text)
      rest == Rest(node, text)
      left == SubSeq(tokens, Len(Held(node)) + 1, Len(tokens))
  IN IF text = << >> \/ tokens = << >> THEN trie
     ELSE IF rest # << >> THEN With(Append(node, rest), left)
     ELSE IF trie[node] = << >> THEN With(node, left)
     ELSE trie

\* retrieve_from_text: what is cached and the rest from the tokenizer, which is
\* not inserted; or all of it from the tokenizer, which is.
Found(text) ==
  LET node == Walk(text)
  IN IF Held(node) # << >>
     THEN [tokens |-> Held(node) \o Tokenize(Rest(node, text)), trie |-> trie]
     ELSE [tokens |-> Tokenize(text), trie |-> Inserted(text, Tokenize(text))]

---------------------------------------------------------------------------
(* The router *)
Known == DOMAIN counts
Healthy == Known \ quarantined
Least == {w \in Healthy : \A v \in Healthy : counts[w] <= counts[v]}

RouterIdle == [at |-> "idle", prompt |-> << >>, input |-> << >>, answer |-> << >>, sample |-> << >>, tries |-> 0]
Made(texts) == [i \in 1 .. Len(texts) |-> [text |-> texts[i], made |-> TRUE]]

\* dispatch until call_next: the text is looked up, what is missing tokenized.
Ask(c) ==
  /\ request[c].at = "idle"
  /\ \E p \in Prompts :
       /\ request' = [request EXCEPT ![c] = [@ EXCEPT !.at = "route", !.prompt = p,
                                               !.input = Found(p).tokens, !.tries = 1]]
       /\ trie' = Found(p).trie
  /\ UNCHANGED <<cut, loadVars, healthVars, engineVars>>

\* proxy, _use_url: without a worker that is not dead it raises, and the
\* client posts again (http_utils.post).
Route(c) ==
  /\ request[c].at = "route"
  /\ IF Healthy = {}
     THEN /\ request' = [request EXCEPT ![c] = RouterIdle]
          /\ UNCHANGED counts
     ELSE \E w \in Least :
            /\ counts' = [counts EXCEPT ![w] = @ + 1]
            /\ request' = [request EXCEPT ![c] = [@ EXCEPT !.at = w]]
  /\ UNCHANGED <<lost, cacheVars, healthVars, engineVars>>

\* A request of another path, which the middleware lets through unread, whose
\* client goes away while the body is read: the count is not taken back.
Lose ==
  /\ \E w \in Least : /\ counts' = [counts EXCEPT ![w] = @ + 1]
                      /\ lost' = [lost EXCEPT ![w] = @ + 1]
  /\ \A w \in Known : lost[w] = 0
  /\ UNCHANGED <<cacheVars, healthVars, engineVars, request>>

Finished(w) == [counts EXCEPT ![w] = @ - 1]

\* The engine answers, to the end or cut (finish_reason length or abort): an
\* abort is asked for again, and counts when the tries are used up.
Answer(c) ==
  /\ request[c].at \in up
  /\ counts' = Finished(request[c].at)
  /\ \E a \in Answers, reason \in {"stop", "length", "abort"} : \E n \in 0 .. Len(a) :
       /\ (n = Len(a)) <=> (reason = "stop")
       /\ reason = "length" => n > 0
       /\ request' = [request EXCEPT ![c] =
            IF reason = "abort" /\ @.tries < Tries
            THEN [@ EXCEPT !.at = "route", !.tries = request[c].tries + 1]
            ELSE [@ EXCEPT !.at = "insert", !.answer = Made(SubSeq(a, 1, n))]]
       /\ cut' = (cut \/ (reason # "stop" /\ (reason = "abort" => request[c].tries = Tries)))
  /\ UNCHANGED <<lost, trie, healthVars, engineVars>>

FailUncounted(c) ==
  /\ request[c].at \in Known \ up
  /\ request' = [request EXCEPT ![c] = RouterIdle]
  /\ UNCHANGED <<counts, lost, cacheVars, healthVars, engineVars>>
\* The engine is gone: the exception passes the finally block, and the client
\* posts again.
Fail(c) ==
  /\ request[c].at \in Known \ up
  /\ counts' = Finished(request[c].at)
  /\ request' = [request EXCEPT ![c] = RouterIdle]
  /\ UNCHANGED <<lost, cacheVars, healthVars, engineVars>>

\* dispatch after call_next: the trajectory is cached.  The collection of old
\* nodes that insert starts when the cache is too large raises at once, since
\* the engine's weight_version is a string, and is logged.
Insert(c) ==
  /\ request[c].at = "insert"
  /\ LET r == request[c]
     IN trie' = Inserted(r.prompt \o Text(r.answer), r.input \o r.answer)
  /\ request' = [request EXCEPT ![c].at = "read"]
  /\ UNCHANGED <<cut, loadVars, healthVars, engineVars>>

\* postprocess_sample_with_radix_tree: the tokens of the sample, by its text.
Read(c) ==
  /\ request[c].at = "read"
  /\ LET f == Found(request[c].prompt \o Text(request[c].answer))
     IN /\ request' = [request EXCEPT ![c] = [@ EXCEPT !.at = "done", !.sample = f.tokens]]
        /\ trie' = f.trie
  /\ UNCHANGED <<cut, loadVars, healthVars, engineVars>>

---------------------------------------------------------------------------
(* Registration and health *)
\* add_worker: a known URL stays as it is, dead ones too.
AddWorker(w) ==
  /\ w \in up \ Known
  /\ LET Zero(of) == [v \in Known \cup {w} |-> IF v = w THEN 0 ELSE of[v]]
     IN counts' = Zero(counts) /\ lost' = Zero(lost) /\ failures' = Zero(failures)
  /\ UNCHANGED <<quarantined, health, cacheVars, engineVars, request>>

\* _health_check_loop: the workers of the round, then their answers, applied
\* together when the last one is in; a worker that is up may answer too late.
CheckAll ==
  /\ health = {}
  /\ health' = Healthy
  /\ UNCHANGED <<failures, quarantined, cacheVars, loadVars, engineVars, request>>
Checked ==
  /\ health # {}
  /\ \E ill \in SUBSET health :
       /\ health \ up \subseteq ill
       /\ failures' = [w \in Known |-> IF w \in ill THEN failures[w] + 1
                                       ELSE IF w \in health THEN 0 ELSE failures[w]]
       /\ quarantined' = quarantined \cup {w \in ill : failures'[w] >= FailureThreshold}
  /\ health' = {}
  /\ UNCHANGED <<cacheVars, loadVars, engineVars, request>>

\* An engine dies, or is recovered on the port it had.
Stop(w) ==
  /\ w \in up /\ crashes < MaxCrashes
  /\ up' = up \ {w} /\ crashes' = crashes + 1
  /\ UNCHANGED <<cacheVars, loadVars, healthVars, request>>
Recover(w) ==
  /\ w \notin up
  /\ up' = up \cup {w} /\ UNCHANGED crashes
  /\ UNCHANGED <<cacheVars, loadVars, healthVars, request>>

---------------------------------------------------------------------------
RouterInit ==
  /\ trie = << >> /\ request = [c \in Clients |-> RouterIdle]
  /\ counts = << >> /\ failures = << >> /\ quarantined = {} /\ health = {}
  /\ up = Workers /\ lost = << >> /\ cut = FALSE /\ crashes = 0

RouterNext ==
  \/ \E c \in Clients : Ask(c) \/ Route(c) \/ Answer(c) \/ Fail(c) \/ Insert(c) \/ Read(c)
  \/ \E w \in Workers : AddWorker(w) \/ Stop(w) \/ Recover(w)
  \/ CheckAll \/ Checked \/ Lose
RouterSpec == RouterInit /\ [][RouterNext]_routerVars

---------------------------------------------------------------------------
Faithful(r) ==
  /\ Text(r.sample) = r.prompt \o Text(r.answer)
  /\ MadeText(r.sample) = Text(r.answer)

\* "List of token IDs corresponding to the input text" (retrieve_from_text):
\* the tokens a sample is trained with spell its prompt and its answer, and the
\* loss mask marks the answer.
TokensSpellText == \A c \in Clients : request[c].at = "done" => Faithful(request[c])

\* What the tokens of a text need to be found by it again: no text is the beginning
\* of another prompt's, and an answer that came to its end (it ends with the
\* model's end of turn) is not the beginning of another one.
TextsApart(chars) ==
  /\ Prompts \subseteq Seq(chars) \ {<< >>} /\ Answers \subseteq Seq(Seq(chars))
  /\ \A p, q \in Prompts : \A x \in {<< >>} \cup {FlattenSeq(a) : a \in Answers} :
       IsPrefix(q, p \o x) => q = p
  /\ \A a, b \in Answers : IsPrefix(FlattenSeq(a), FlattenSeq(b)) => FlattenSeq(a) = FlattenSeq(b)

\* The same as long as every cached answer came to its end, also when two
\* engines have spelled one answer with different tokens.
FinishedSpelled == ~cut => TokensSpellText

\* The load a worker is chosen by is the requests it has, whatever fails, is
\* quarantined or registers again, and those lost before the try block.
LoadTrue ==
  \A w \in Known : counts[w] = lost[w] + Cardinality({c \in Clients : request[c].at = w})
=============================================================================
