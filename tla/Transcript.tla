------------------------------ MODULE Transcript ------------------------------
(***************************************************************************)
(* What the model is shown, what it is trained on and what the judge sees  *)
(* of one browser task (generate_browser.py, adapters/browser_adapter.py,  *)
(* response_format.py): one sample per turn, each with a prompt of its own *)
(* rebuilt from the messages, or one sample with all turns in one stream.  *)
(*                                                                         *)
(* A text is a sequence of pieces: a kind, and the turn or the observation *)
(* it belongs to.  An image has one token.                                 *)
(***************************************************************************)
EXTENDS Integers, FiniteSets, SequencesExt

CONSTANTS
  Modes,            \* how the rollout is configured, see below
  Answers,          \* what the model may generate: sequences of kinds of pieces
  MaxSteps,         \* max_steps
  MaxParseFailures, \* max_consecutive_parse_failures
  JudgeImages       \* judge_max_attached_imgs, or context_num_screenshots
ASSUME TranscriptAssumption ==
  /\ \A m \in Modes :
       /\ m.perTurn \in BOOLEAN         \* generate_turn_sample or generate_trajectory_sample
       /\ m.screens \in Nat \ {0}       \* context_num_screenshots
       /\ m.history \in {"full", "hide_thinking", "action_only"}
       /\ m.reasoning \in Nat           \* browser_history_reasoning_max_turns, 0 for all
       /\ m.prefill \in BOOLEAN         \* append_visible_thinking_prefill
       /\ m.limit \in Nat               \* rollout_max_context_len - max_new_tokens
  /\ MaxSteps \in Nat \ {0} /\ MaxParseFailures \in Nat \ {0} /\ JudgeImages \in Nat \ {0}

VARIABLES
  mode, stage,
  page,         \* what the browser shows, counted by the actions taken
  observation,  \* of the latest reset or step
  failures,     \* consecutive_parse_failures
  messages,     \* mm_messages
  pending,      \* pending_user_msg
  request,      \* the text and the images the engine is asked with
  stream,       \* of the trajectory sample: tokens, image data of its prompt
  turns,        \* turn_samples
  seen, said    \* what was on the page at each prompt, and the answers
transcriptVars ==
  <<mode, stage, page, observation, failures, messages, pending, request, stream, turns, seen, said>>

Piece(is, of) == [is |-> is, of |-> of]
Is(text, kind) == {i \in DOMAIN text : text[i].is = kind}
Turn == Len(seen)

---------------------------------------------------------------------------
(* Messages and prompts *)
\* _build_observation_message: the placeholder is in the text, the image apart.
ObservationMessage(kind, obs) ==
  [role |-> "user", images |-> <<obs>>, text |-> <<Piece(kind, Turn), Piece("shot", 0)>>]

\* The messages without the screenshots before the last ones.
Filtered(msgs) ==
  LET with == {i \in DOMAIN msgs : msgs[i].images # << >>}
      Kept(i) == Cardinality({j \in with : j > i}) < mode.screens
  IN [i \in DOMAIN msgs |->
        IF i \in with /\ ~Kept(i)
        THEN [msgs[i] EXCEPT !.images = << >>, !.text = SelectSeq(@, LAMBDA p : p.is # "shot")]
        ELSE msgs[i]]

\* hide_thinking: each block from an opening tag to the next closing tag.
HideThinking(text) ==
  LET closes == Is(text, "close")
      hidden == UNION {i .. Min({j \in closes : j > i}) :
                         i \in {n \in Is(text, "open") : \E j \in closes : j > n}}
  IN FlattenSeq([k \in DOMAIN text |-> IF k \in hidden THEN << >> ELSE <<text[k]>>])

\* _compress_assistant_history_text.
Compressed(text, how) ==
  CASE how = "full" -> text
    [] how = "hide_thinking" -> HideThinking(text)
    [] how = "action_only" -> SelectSeq(text, LAMBDA p : p.is = "call")

\* _compress_turn_history_messages: older answers than the last ones hide
\* their thinking, whatever the mode.
History(msgs) ==
  LET Later(i) == {j \in DOMAIN msgs : j > i /\ msgs[j].role = "assistant"}
      How(i) == IF mode.reasoning = 0 \/ Cardinality(Later(i)) < mode.reasoning
                THEN mode.history ELSE "hide_thinking"
  IN [i \in DOMAIN msgs |-> IF msgs[i].role = "assistant"
                            THEN [msgs[i] EXCEPT !.text = Compressed(@, How(i))] ELSE msgs[i]]

\* The chat template may drop the thinking of earlier answers ...
Templated(msgs) ==
  [i \in DOMAIN msgs |-> IF msgs[i].role = "assistant"
                         THEN [msgs[i] EXCEPT !.text = HideThinking(@)] ELSE msgs[i]]
\* ... and _restore_assistant_history_blocks_in_prompt puts back what the
\* messages have, block by block.
Restored(blocks, msgs) ==
  LET Contents == SelectSeq(msgs, LAMBDA m : m.role = "assistant")
      Nth(i) == Cardinality({j \in 1 .. i : blocks[j].role = "assistant"})
  IN [i \in DOMAIN blocks |-> IF blocks[i].role = "assistant"
                              THEN [blocks[i] EXCEPT !.text = Contents[Nth(i)].text] ELSE blocks[i]]

Block(m) == <<Piece(m.role, 0)>> \o m.text \o <<Piece("end", 0), Piece("newline", 0)>>
Written(blocks) == FlattenSeq([i \in DOMAIN blocks |-> Block(blocks[i])])

\* The generation prompt, and ensure_prompt_ends_with_visible_thinking_tag.
Asking(text) == text \o <<Piece("assistant", 0)>> \o
                (IF mode.prefill THEN <<Piece("open", 0)>> ELSE << >>)

\* _process_multimodal_messages and the processor: the images in the order of
\* the messages, one for each placeholder.
ImagesOf(msgs) == FlattenSeq([i \in DOMAIN msgs |-> msgs[i].images])
Encoded(text, images) ==
  LET Nth(i) == Cardinality({j \in Is(text, "shot") : j <= i})
  IN [i \in DOMAIN text |->
        [piece |-> IF text[i].is = "shot" THEN Piece("image", images[Nth(i)]) ELSE text[i],
         mask |-> 0, own |-> FALSE]]
TooLong(n) == mode.limit > 0 /\ n > mode.limit

\* The prompt of a turn, and the next part of a trajectory.
TurnRequest(msgs) ==
  LET shown == History(Filtered(msgs))
  IN [text |-> Asking(Written(Restored(Templated(shown), shown))), images |-> ImagesOf(shown)]
NextRequest(msg) ==
  [text |-> request.text \o Asking(Block(msg)), images |-> request.images \o msg.images]

---------------------------------------------------------------------------
(* Answers *)
\* Mutant: the newline is only in the text.
GeneratedNoNewline(raw) ==
  LET ended == raw # << >> /\ Last(raw).is = "end"
  IN [i \in DOMAIN raw |-> [piece |-> raw[i], mask |-> 1, own |-> TRUE]] \o
     (IF ended THEN << >> ELSE <<[piece |-> Piece("end", 0), mask |-> 1, own |-> FALSE]>>)
\* _run_inference_step, _ensure_im_end_w_new_line: the tokens end with the end
\* token and a newline, whatever was generated; of an empty answer they raise.
Generated(raw) ==
  LET ended == raw # << >> /\ Last(raw).is = "end"
  IN [i \in DOMAIN raw |-> [piece |-> raw[i], mask |-> 1, own |-> TRUE]] \o
     (IF ended THEN << >> ELSE <<[piece |-> Piece("end", 0), mask |-> 1, own |-> FALSE]>>) \o
     <<[piece |-> Piece("newline", 0), mask |-> 1, own |-> FALSE]>>
\* The text: stripped, ended, and a newline.
Answered(raw) ==
  LET ended == raw # << >> /\ Last(raw).is = "end"
      bare == IF raw # << >> /\ Last(raw).is = "space" THEN Front(raw) ELSE raw
  IN (IF ended THEN raw ELSE Append(bare, Piece("end", 0))) \o <<Piece("newline", 0)>>

\* Mutant: an answer is remembered as it was generated.
RememberedBare(text, prompt) == SelectSeq(text, LAMBDA p : p.is \notin {"end", "newline"})
\* preprocess_response: without the end; then
\* _restore_prefilled_thinking_tag_for_history: a tag that only the prompt had
\* is written in front of the answer.
Remembered(text, prompt) ==
  LET bare == SelectSeq(text, LAMBDA p : p.is \notin {"end", "newline"})
  IN IF Last(prompt).is = "open" /\ ~(bare # << >> /\ Head(bare).is = "open")
     THEN <<Piece("open", 0)>> \o bare ELSE bare

\* _all_images_from_messages, on the messages that were not filtered.
FullImages(msgs) == ImagesOf(msgs)

---------------------------------------------------------------------------
Stop == stage' = "done"

\* The next user message goes in front of the model, if it fits.
Prompt ==
  /\ stage = "prompt"
  /\ messages' = Append(messages, pending)
  /\ seen' = Append(seen, page)
  /\ LET r == IF mode.perTurn THEN TurnRequest(messages') ELSE NextRequest(pending)
         delta == Encoded(Asking(Block(pending)), pending.images)
         tokens == IF mode.perTurn THEN Encoded(r.text, r.images) ELSE stream \o delta
     IN IF TooLong(Len(tokens))
        THEN /\ Stop
             /\ IF mode.perTurn THEN UNCHANGED request ELSE request' = r
             /\ UNCHANGED stream
        ELSE /\ stage' = "infer"
             /\ request' = r
             /\ stream' = tokens
  /\ UNCHANGED <<mode, page, observation, failures, pending, turns, said>>

\* The engine answers, to the end, or cut by the token limit or by an abort,
\* which end the task; no token at all is an exception.
Infer ==
  /\ stage = "infer"
  /\ \E a \in Answers, finish \in {"stop", "length", "abort"} : \E n \in 0 .. Len(a) :
       LET raw == [i \in 1 .. n |-> Piece(a[i], Turn)] \o
                  (IF finish = "stop" THEN <<Piece("end", 0)>> ELSE << >>)
           text == Answered(raw)
       IN /\ finish = "stop" => n = Len(a)
          /\ IF raw = << >> THEN Stop /\ UNCHANGED <<messages, request, stream, turns, said>>
             ELSE /\ stage' = IF finish = "stop" THEN "act" ELSE "done"
                  /\ messages' = Append(messages, [role |-> "assistant", images |-> << >>,
                                                   text |-> Remembered(text, request.text)])
                  /\ said' = Append(said, raw)
                  /\ stream' = stream \o Generated(raw)
                  /\ request' = IF mode.perTurn THEN request
                                ELSE [request EXCEPT !.text = @ \o text]
                  /\ turns' = IF mode.perTurn
                              THEN Append(turns, [prompt |-> request, tokens |-> stream',
                                                  full |-> FullImages(messages')])
                              ELSE turns
  /\ UNCHANGED <<mode, page, observation, failures, pending, seen>>

\* The answer is parsed and its actions are taken; the next user message has
\* the observation after them, or the last one and what was wrong.
Act ==
  /\ stage = "act"
  /\ IF \E i \in DOMAIN Last(said) : Last(said)[i].is = "call"
     THEN \/ Stop /\ UNCHANGED <<page, observation, failures, pending>>    \* env.step raises
          \/ /\ page' = page + 1 /\ observation' = page' /\ failures' = 0
             /\ \/ Stop /\ UNCHANGED pending                               \* terminated
                \/ /\ pending' = ObservationMessage("result", observation')
                   /\ stage' = IF Turn < MaxSteps THEN "prompt" ELSE "done"
     ELSE /\ failures' = failures + 1
          /\ IF failures' >= MaxParseFailures THEN Stop /\ UNCHANGED pending
             ELSE /\ pending' = ObservationMessage("error", observation)
                  /\ stage' = IF Turn < MaxSteps THEN "prompt" ELSE "done"
          /\ UNCHANGED <<page, observation>>
  /\ UNCHANGED <<mode, messages, request, stream, turns, seen, said>>

\* Reset: the policy, the tools and the first observation.
System == [role |-> "system", images |-> << >>, text |-> <<Piece("policy", 0)>>]
TranscriptInit ==
  /\ mode \in Modes /\ stage = "prompt"
  /\ page = 1 /\ observation = 1 /\ failures = 0
  /\ messages = <<System>> /\ seen = << >> /\ said = << >>
  /\ pending = ObservationMessage("request", 1)
  /\ request = [text |-> Block(System), images |-> << >>]
  /\ stream = Encoded(Block(System), << >>)
  /\ turns = << >>
TranscriptNext == Prompt \/ Infer \/ Act
TranscriptSpec == TranscriptInit /\ [][TranscriptNext]_transcriptVars

---------------------------------------------------------------------------
Pieces(tokens) == [i \in DOMAIN tokens |-> tokens[i].piece]
Own(tokens) == Pieces(SelectSeq(tokens, LAMBDA k : k.own))
LastOf(n, s) == SubSeq(s, Len(s) - (IF n < Len(s) THEN n ELSE Len(s)) + 1, Len(s))

\* What a prompt is meant to be: the policy, and of every earlier turn its user
\* message, with the screenshot if it is one of the last, and its answer.
UserMeant(j, t) ==
  LET kind == IF j = 1 THEN "request"
              ELSE IF \E i \in DOMAIN said[j - 1] : said[j - 1][i].is = "call" THEN "result" ELSE "error"
  IN <<Piece("user", 0), Piece(kind, j - 1)>> \o
     (IF j > t - mode.screens THEN <<Piece("image", seen[j])>> ELSE << >>)
AnswerMeant(j, t) ==
  LET a == SelectSeq(said[j], LAMBDA p : p.is # "end")
      whole == IF mode.prefill /\ ~(a # << >> /\ Head(a).is = "open")
               THEN <<Piece("open", 0)>> \o a ELSE a
      recent == mode.reasoning = 0 \/ t - j <= mode.reasoning
      closed == Is(whole, "open") # {} /\ Is(whole, "close") # {}
  IN <<Piece("assistant", 0)>> \o
     CASE recent /\ mode.history = "full" -> whole
       [] recent /\ mode.history = "action_only" -> SelectSeq(whole, LAMBDA p : p.is = "call")
       [] OTHER -> IF closed THEN SelectSeq(whole, LAMBDA p : p.is \notin {"open", "thought", "close"})
                   ELSE whole
PromptMeant(t) ==
  LET Ended(text) == text \o <<Piece("end", 0), Piece("newline", 0)>>
  IN Asking(Block(System) \o
       FlattenSeq([i \in 1 .. 2 * t - 1 |-> IF i % 2 = 1 THEN Ended(UserMeant((i + 1) \div 2, t))
                                            ELSE Ended(AnswerMeant(i \div 2, t))]))

\* The images of the reward's judge, and the steps they are labelled with
\* (_collect_recent_trajectory_images, _infer_recent_image_step_indices).
JudgedImages == LastOf(JudgeImages, IF mode.perTurn
                                    THEN [t \in DOMAIN turns |-> Last(turns[t].prompt.images)]
                                    ELSE request.images)
JudgedSteps == LET n == Len(JudgedImages)
                   last == IF mode.perTurn THEN Len(turns) ELSE Turn
               IN [i \in 1 .. n |-> last - n + i]

\* "full context up to that turn" (generate_turn_sample): each sample has the
\* prompt it is meant to have, with the screenshots of the turns they were
\* taken in; the judges of an evaluation read all of them on the last sample,
\* the reward's judge gets the latest, each with the step it is of.
ContextExact ==
  /\ turns # << >> => LET t == Len(turns) IN
       /\ Pieces(SelectSeq(turns[t].tokens, LAMBDA k : k.mask = 0)) = PromptMeant(t)
       /\ turns[t].prompt.images = LastOf(mode.screens, SubSeq(seen, 1, t))
       /\ turns[t].full = SubSeq(seen, 1, t)
  /\ stage = "done" /\ said # << >> =>
       \A i \in DOMAIN JudgedImages : JudgedImages[i] = seen[JudgedSteps[i]]

\* What is trained is what was generated, and the end of a turn: in the stream
\* of a trajectory all answers, each after the text the engine was asked with.
StreamExact ==
  IF mode.perTurn
  THEN turns # << >> => Own(Last(turns).tokens) = Last(said)
  ELSE /\ Own(stream) = FlattenSeq(said)
       /\ \A i \in DOMAIN stream : (stream[i].mask = 1 /\ ~stream[i].own) =>
                                      stream[i].piece.is \in {"end", "newline"}
       /\ stage \in {"infer", "act"} =>
            Pieces(Encoded(request.text, request.images)) = Pieces(stream)

\* Both of what a sample stands for: the context it was asked in, and the
\* answer it trains (_generate_turn_sample_impl, _generate_trajectory_sample_impl).
TranscriptExact == ContextExact /\ StreamExact
=============================================================================
