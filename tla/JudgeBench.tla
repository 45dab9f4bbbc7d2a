------------------------------ MODULE JudgeBench ------------------------------
(***************************************************************************)
(* The offline judges: records of finished tasks are judged again, by an   *)
(* API with many calls in flight and an output file a later run resumes    *)
(* from (single_file_openai_judge_inference.py), or by a local model in    *)
(* batches (single_file_judge_inference.py).                               *)
(*                                                                         *)
(* The API may refuse optional parameters of a request, and the process    *)
(* may be killed between any two steps.  A text is the sequence of the     *)
(* verdicts it mentions.                                                   *)
(***************************************************************************)
EXTENDS Integers, FiniteSets, SequencesExt

CONSTANTS
  NumRecords,    \* records of the input, in order
  Shards,        \* num_shards
  Judges,        \* "api"; the local model with the template "native" or "webjudge"
  BatchSize,     \* --batch-size of the local model
  Concurrency,   \* --concurrency of the API calls
  Texts,         \* what the judge may write
  Refusable,     \* sets of optional parameters an API may refuse
  MaxRetries,    \* --max-retries
  MaxRuns        \* bound: runs over one output file
ASSUME JudgeBenchAssumption ==
  /\ NumRecords \in Nat \ {0} /\ Shards \in Nat \ {0} /\ Judges \subseteq {"api", "native", "webjudge"}
  /\ BatchSize \in Nat \ {0} /\ Concurrency \in Nat \ {0}
  /\ Texts \subseteq Seq({"yes", "no"})
  /\ Refusable \subseteq SUBSET {"max_completion_tokens", "max_tokens", "temperature"}
  /\ MaxRetries \in Nat \ {0} /\ MaxRuns \in Nat \ {0}

Record == 0 .. NumRecords - 1

VARIABLES
  shard, judge, refused,
  runs,      \* runs started over the output file
  bench,     \* of the process: "rest", "idle", "running", "failed", "over"
  output,    \* the lines of the output file: records with their verdicts
  torn,      \* its last line is cut
  known,     \* rows_by_key of this run: verdicts read from the file
  ask,       \* of each record: where call_one is
  rows,      \* new_rows of this run
  summary,   \* rows of the summary of the run that ended
  judged     \* for each record, the texts the judge gave for it, in all runs
benchVars == <<shard, judge, refused, runs, bench, output, torn, known, ask, rows, summary, judged>>
inputs == <<shard, judge, refused>>

\* A call_one that has not begun or is not needed.
NoAsk == [at |-> "none", tries |-> 0, token |-> "max_completion_tokens", temperature |-> TRUE]

---------------------------------------------------------------------------
(* Records and verdicts *)
\* apply_shard.
ShardOf(s) == {i \in Record : i % Shards = s}
Mine == ShardOf(shard)

\* extract_verdict: the first mention in an API's text and the first status line
\* of WebJudge, the last mention in another text of the local model.  Without
\* one the row has no verdict.
NoVerdict == "none"
local == judge # "api"
Extract(text) == IF text = << >> THEN NoVerdict ELSE IF judge = "native" THEN Last(text) ELSE Head(text)

Row(i, verdict) == [rec |-> i, verdict |-> verdict]

\* Mutant: rows without a verdict are taken over, too.
ExistingAll == [i \in {output[n].rec : n \in DOMAIN output} |->
                  output[CHOOSE n \in DOMAIN output :
                    output[n].rec = i /\ \A m \in DOMAIN output : output[m].rec = i => m <= n].verdict]
\* existing_rows_by_key: the last row of a record that has a verdict.
Existing ==
  LET good == {n \in DOMAIN output : output[n].verdict # NoVerdict}
  IN [i \in {output[n].rec : n \in good} |->
        output[Max({n \in good : output[n].rec = i})].verdict]

---------------------------------------------------------------------------
(* A run *)
\* --resume reads what is there and appends, where the line a crash has cut
\* makes json.loads raise; without it the file is emptied.  The local judge
\* cannot resume.
Open(resume) ==
  /\ bench = "idle" /\ runs < MaxRuns
  /\ resume => ~local
  /\ runs' = runs + 1
  /\ known' = IF resume /\ ~torn THEN Existing ELSE << >>
  /\ bench' = IF resume /\ torn THEN "failed" ELSE "running"
  /\ output' = IF resume THEN output ELSE << >>
  /\ torn' = (resume /\ torn)
  /\ ask' = [i \in Record |-> IF i \in Mine \ DOMAIN known' THEN [NoAsk EXCEPT !.at = "queued"] ELSE NoAsk]
  /\ rows' = << >>
  /\ UNCHANGED <<inputs, summary, judged>>

\* A row is appended and flushed, and returned.
Emit(i, verdict) ==
  /\ output' = Append(output, Row(i, verdict))
  /\ rows' = Append(rows, Row(i, verdict))

InFlight == {i \in Record : ask[i].at = "asking"}
\* The semaphore lets a call be made.
Call(i) ==
  /\ bench = "running" /\ ~local /\ ask[i].at = "queued"
  /\ Cardinality(InFlight) < Concurrency
  /\ ask' = [ask EXCEPT ![i].at = "asking"]
  /\ UNCHANGED <<inputs, runs, bench, output, torn, known, rows, summary, judged>>

Refuses(i) == ask[i].token \in refused \/ (ask[i].temperature /\ "temperature" \in refused)

\* The API answers.
ApiAnswers(i, text) ==
  /\ bench = "running" /\ i \in InFlight /\ ~Refuses(i)
  /\ judged' = [judged EXCEPT ![i] = @ \cup {text}]
  /\ Emit(i, Extract(text))
  /\ ask' = [ask EXCEPT ![i].at = "done"]
  /\ UNCHANGED <<inputs, runs, bench, torn, known, summary>>

\* No attempt is left: a row without a verdict.
GiveUp(i) == Emit(i, NoVerdict)
\* A call that failed: one attempt less, and a row without a verdict after the last.
Failed(i, next) ==
  IF ask[i].tries + 1 < MaxRetries
  THEN /\ ask' = [ask EXCEPT ![i] = [next EXCEPT !.at = "queued", !.tries = @ + 1]]
       /\ UNCHANGED <<output, rows>>
  ELSE /\ ask' = [ask EXCEPT ![i].at = "done"]
       /\ GiveUp(i)

\* An unsupported parameter: the next request goes without it.  The API names
\* one of those it refuses.
Refused(i) ==
  /\ bench = "running" /\ i \in InFlight
  /\ \/ /\ ask[i].token \in refused
        /\ Failed(i, [ask[i] EXCEPT !.token = IF @ = "max_completion_tokens" THEN "max_tokens" ELSE "no"])
     \/ /\ ask[i].temperature /\ "temperature" \in refused
        /\ Failed(i, [ask[i] EXCEPT !.temperature = FALSE])
  /\ UNCHANGED <<inputs, runs, bench, torn, known, summary, judged>>

\* A time-out or another error.
CallFailed(i) ==
  /\ bench = "running" /\ i \in InFlight
  /\ Failed(i, ask[i])
  /\ UNCHANGED <<inputs, runs, bench, torn, known, summary, judged>>

\* The local model: a batch is generated as a whole and its rows are written
\* one after the other; a WebJudge text without a status is asked for it again.
Batch == LET left == {i \in Record : ask[i].at = "queued"}
         IN {i \in left : Cardinality({j \in left : j < i}) < BatchSize}
Generate ==
  /\ bench = "running" /\ local /\ InFlight = {} /\ Batch # {}
  /\ ask' = [i \in Record |-> IF i \in Batch THEN [ask[i] EXCEPT !.at = "asking"] ELSE ask[i]]
  /\ UNCHANGED <<inputs, runs, bench, output, torn, known, rows, summary, judged>>
WriteRow(text, again) ==
  /\ bench = "running" /\ local /\ InFlight # {}
  /\ text # << >> \/ judge = "native" => again = << >>
  /\ LET i == Min(InFlight)
     IN /\ ask' = [ask EXCEPT ![i].at = "done"]
        /\ judged' = [judged EXCEPT ![i] = @ \cup {text, again}]
        /\ Emit(i, Extract(IF text = << >> THEN again ELSE text))
  /\ UNCHANGED <<inputs, runs, bench, torn, known, summary>>

\* gather has all rows: those read from the file come first.
Gather ==
  /\ bench = "running" /\ \A i \in Record : ask[i].at \in {"none", "done"}
  /\ summary' = SetToSeq({Row(i, known[i]) : i \in DOMAIN known}) \o rows
  /\ bench' = "over"
  /\ UNCHANGED <<inputs, runs, output, torn, known, ask, rows, judged>>

\* The process is killed: what was flushed stays, a line that was being written
\* may be cut.
Kill(cut) ==
  /\ bench = "running"
  /\ torn' = (torn \/ (cut /\ (\E i \in Record : ask[i].at = "asking")))
  /\ bench' = "idle"
  /\ UNCHANGED <<inputs, runs, output, known, ask, rows, summary, judged>>
\* The user starts over after a run that failed or ended.
Again ==
  /\ bench \in {"failed", "over"} /\ runs < MaxRuns
  /\ bench' = "idle"
  /\ UNCHANGED <<inputs, runs, output, torn, known, ask, rows, summary, judged>>

BenchBegin ==
  /\ runs = 0 /\ bench = "idle" /\ output = << >> /\ torn = FALSE /\ known = << >>
  /\ ask = [i \in Record |-> NoAsk]
  /\ rows = << >> /\ summary = << >> /\ judged = [i \in Record |-> {}]
BenchInit == shard \in 0 .. Shards - 1 /\ judge \in Judges /\ refused \in Refusable /\ BenchBegin
BenchNext ==
  \/ \E resume \in BOOLEAN : Open(resume)
  \/ \E i \in Record : Call(i) \/ Refused(i) \/ CallFailed(i) \/ \E text \in Texts : ApiAnswers(i, text)
  \/ Generate
  \/ \E text, again \in Texts : WriteRow(text, again)
  \/ Gather \/ Again
  \/ \E cut \in BOOLEAN : Kill(cut)

BenchSpec == BenchInit /\ [][BenchNext]_benchVars

---------------------------------------------------------------------------
\* A summary counts every record of the shard once and no other, whatever was
\* killed and resumed before, with a verdict the judge gave of that very record
\* or, when it was asked for in this run without success, with none.
Said(i, verdict) == \E text \in judged[i] : Extract(text) = verdict
BenchExact ==
  /\ \A s, r \in 0 .. Shards - 1 : s # r => ShardOf(s) \cap ShardOf(r) = {}
  /\ UNION {ShardOf(s) : s \in 0 .. Shards - 1} = Record
  /\ bench = "over" =>
       /\ Len(summary) = Cardinality(Mine)
       /\ {summary[n].rec : n \in DOMAIN summary} = Mine
       /\ \A n \in DOMAIN summary :
            IF summary[n].verdict = NoVerdict THEN \E m \in DOMAIN rows : rows[m] = summary[n]
            ELSE Said(summary[n].rec, summary[n].verdict)
=============================================================================
