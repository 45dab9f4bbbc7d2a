------------------------------ MODULE MCBrowser ------------------------------
(* Specifications of what surrounds a browser task, side by side, sharing no  *)
(* variable: the processes it runs in, the tabs of its browser and the wait   *)
(* after an action, the transcript it leaves, and the two ways tasks are      *)
(* judged outside of training.  An initial state starts one of them; the      *)
(* others rest.                                                               *)
EXTENDS MCLocalProcessEnv, Transcript, WebTabs, PageSettle, Judging

\* With and without prefill; answers that open their own thinking, end in white
\* space, have no call, or never close.
Mode(perTurn, screens, history, reasoning, prefill, limit) ==
  [perTurn |-> perTurn, screens |-> screens, history |-> history, reasoning |-> reasoning,
   prefill |-> prefill, limit |-> limit]
MCModes ==
  {Mode(TRUE, s, h[1], h[2], p, 0) : s \in {1, 2}, p \in BOOLEAN,
     h \in {<<"full", 0>>, <<"full", 1>>, <<"hide_thinking", 0>>, <<"action_only", 1>>}}
  \cup {Mode(TRUE, 2, "full", 0, TRUE, 26), Mode(FALSE, 1, "full", 0, TRUE, 0),
        Mode(FALSE, 1, "full", 0, FALSE, 26)}
MCGenerated == { <<"thought", "close", "call">>, <<"open", "thought", "close", "call", "space">>,
                 <<"thought", "close", "say">>, <<"thought">> }

\* All tasks have ended.
LocalRests ==
  /\ pc = [t \in Task |-> "gone"]
  /\ loop = [w \in Worker |-> None]
  /\ file = [p \in Port |-> 0] /\ fd = [t \in Task |-> 0] /\ flock = [i \in Inode |-> None]
  /\ port = [t \in Task |-> 0] /\ lease = [t \in Task |-> FALSE]
  /\ sem = [w \in Worker |-> MaxProcesses] /\ slot = [t \in Task |-> FALSE]
  /\ server = [t \in Task |-> "none"] /\ signal = [t \in Task |-> "no"]
  /\ peer = [t \in Task |-> None] /\ hosts = peer /\ shield = [t \in Task |-> FALSE] /\ overdue = shield
  /\ cancels = 0 /\ faults = 0

TranscriptRests ==
  /\ mode = CHOOSE m \in Modes : TRUE
  /\ stage = "rest" /\ page = 0 /\ observation = 0 /\ failures = 0
  /\ messages = << >> /\ pending = << >> /\ request = << >> /\ stream = << >> /\ turns = << >>
  /\ seen = << >> /\ said = << >>
TranscriptOff == stage = "rest"
TranscriptOver == stage = "done" /\ UNCHANGED transcriptVars

\* How a task may end: with all turns in order, one of them not, a done call
\* that is not the last one, a cut tool call, an episode that never ran, and one
\* without a last turn.
Episode(status, reason, marked, perTurn, texts) ==
  [status |-> status, reason |-> reason, marked |-> marked, perTurn |-> perTurn, texts |-> texts]
MCEpisodes ==
  LET good == <<"think", "action", "call">>
      done == <<"think", "action", "done">>
  IN {Episode("completed", "done", TRUE, FALSE, <<good, done>>),
      Episode("completed", "done", TRUE, FALSE, <<<<"think", "call">>, done>>),
      Episode("completed", "done", TRUE, TRUE, <<<<"think", "coded", "done", "call">>>>),
      Episode("failed", "format_error_failed", TRUE, TRUE, <<<<"think", "action", "cut">>>>),
      Episode("pending", "done", TRUE, FALSE, << >>),
      Episode("aborted", "done", FALSE, TRUE, <<good>>)}
MCReplies == {<< >>, <<"yes">>, <<"no">>, <<"yes", "no">>}
EvalRests == /\ protocol = "slime" /\ phase = "rest"
             /\ taskAt = [t \in EvalTask |-> "done"]
             /\ episode = [t \in EvalTask |-> CHOOSE e \in Episodes : TRUE]
             /\ calls = [t \in EvalTask |-> << >>]
             /\ result = [t \in EvalTask |-> NoResult] /\ files = [t \in EvalTask |-> "none"]
             /\ completedResults = << >> /\ abnormalResults = << >> /\ timeouts = 0
EvalOff == phase = "rest"
EvalOver == phase \in {"over", "interrupted"} /\ UNCHANGED evalVars

MCTexts == {<< >>, <<"yes">>, <<"no", "yes">>}
MCRefusable == {{}, {"max_completion_tokens", "temperature"}}
BenchRests == /\ shard = 0 /\ judge = "api" /\ refused = {}
              /\ runs = 0 /\ bench = "rest" /\ output = << >> /\ torn = FALSE /\ known = << >>
              /\ ask = [i \in Record |-> NoAsk] /\ rows = << >> /\ summary = << >>
              /\ judged = [i \in Record |-> {}]
BenchOff == bench = "rest"
BenchOver == bench \in {"idle", "failed", "over"} /\ runs = MaxRuns /\ UNCHANGED benchVars

TabsRest == /\ tabs = << >> /\ active = NoTab /\ loading = {} /\ handler = {} /\ crossed = {}
            /\ mistaken = {} /\ at = "rest" /\ target = NoTab /\ actions = 0
            /\ session = << >> /\ shot = [of |-> NoTab, asked |-> NoTab]
            /\ opened = 0 /\ closed = {}
TabsOff == at = "rest"

SettleRests == /\ front = FirstPage /\ doc = << >> /\ tracked = {}
               /\ started = FALSE /\ committed = FALSE
               /\ place = "rest" /\ act = "none" /\ tries = 0 /\ navs = 0 /\ settles = 0
               /\ replaced = FALSE /\ excuse = {}
SettleOff == place = "rest"
\* All actions of the bound were done.
SettleOver == place = "idle" /\ settles = MaxSettles /\ UNCHANGED settleVars

PagesRest == TabsRest /\ SettleRests
PagesOff  == TabsOff /\ SettleOff
pageVars  == <<webVars, settleVars>>

BrowserInit == \/ Init /\ TranscriptRests /\ EvalRests /\ BenchRests /\ PagesRest
               \/ LocalRests /\ TranscriptInit /\ EvalRests /\ BenchRests /\ PagesRest
               \/ LocalRests /\ TranscriptRests /\ EvalInit /\ BenchRests /\ PagesRest
               \/ LocalRests /\ TranscriptRests /\ EvalRests /\ BenchInit /\ PagesRest
               \/ /\ LocalRests /\ TranscriptRests /\ EvalRests /\ BenchRests
                  /\ \/ WebInit /\ SettleRests
                     \/ TabsRest /\ SettleInit
BrowserNext ==
  \/ /\ TranscriptOff /\ EvalOff /\ BenchOff /\ PagesOff
     /\ Next /\ UNCHANGED <<transcriptVars, evalVars, benchVars, pageVars>>
  \/ /\ ~TranscriptOff /\ (TranscriptNext \/ TranscriptOver)
     /\ UNCHANGED <<vars, evalVars, benchVars, pageVars>>
  \/ /\ ~EvalOff /\ (EvalNext \/ EvalOver)
     /\ UNCHANGED <<vars, transcriptVars, benchVars, pageVars>>
  \/ /\ ~BenchOff /\ (BenchNext \/ BenchOver)
     /\ UNCHANGED <<vars, transcriptVars, evalVars, pageVars>>
  \/ /\ ~TabsOff /\ WebNext
     /\ UNCHANGED <<vars, transcriptVars, evalVars, benchVars, settleVars>>
  \/ /\ ~SettleOff /\ (SettleNext \/ SettleOver)
     /\ UNCHANGED <<vars, transcriptVars, evalVars, benchVars, webVars>>
browserVars == <<vars, transcriptVars, evalVars, benchVars, pageVars>>
BrowserSpec == BrowserInit /\ [][BrowserNext]_browserVars
=============================================================================
