---------------------------- MODULE CaptchaWait ----------------------------
(* The pause after every action of a Browserbase environment                  *)
(* (BrowserbaseWebEnv._wait_for_captcha_if_needed, execute_single_action):    *)
(* pages announce on the console that a challenge is being solved and that it *)
(* is solved; the environment polls, and goes on once announcements have      *)
(* stopped with a solved one, or gives up waiting.  Time is counted in polls. *)
EXTENDS Naturals, Sequences

CONSTANTS
  GracePolls,     \* _CAPTCHA_GRACE_POLLS
  SettlePolls,    \* _CAPTCHA_SETTLE_SECS, in polls
  TimeoutPolls,   \* _CAPTCHA_TIMEOUT_SECS, in polls
  MaxChallenges   \* bound: challenges

VARIABLES
  fast,      \* _FAST_STEP
  solver,    \* whether the provider is solving a challenge
  console,   \* announcements the environment has not received
  events,    \* _captcha_events
  wait,      \* where the environment is: "act", "grace", "watch" or "land"
  clock,     \* polls in the grace or since the watch began
  quiet,     \* polls since the last announcement came
  challenges,
  excused    \* history: whether the present challenge was given up on or forgotten
captchaVars == <<fast, solver, console, events, wait, clock, quiet, challenges, excused>>

CaptchaInit ==
  /\ fast \in BOOLEAN /\ solver = "idle" /\ console = << >> /\ events = << >>
  /\ wait = "act" /\ clock = 0 /\ quiet = 0 /\ challenges = 0 /\ excused = FALSE

\* The page starts a challenge, or the provider has solved it.
Challenge ==
  /\ \/ /\ solver = "idle" /\ challenges < MaxChallenges /\ challenges' = challenges + 1
        /\ solver' = "solving" /\ console' = Append(console, "started") /\ excused' = FALSE
     \/ /\ solver = "solving"
        /\ solver' = "idle" /\ console' = Append(console, "finished")
        /\ UNCHANGED <<challenges, excused>>
  /\ UNCHANGED <<fast, events, wait, clock, quiet>>

\* A pump lets the announcements through that wait.
Pump == events' = events \o console /\ console' = << >>

\* An action is done.  Nothing announced: go on at once, or poll a few times.
Look ==
  /\ wait = "act" /\ Pump
  /\ wait' = IF events' # << >> THEN "watch" ELSE IF fast THEN "act" ELSE "grace"
  /\ clock' = 0 /\ quiet' = 0
  /\ UNCHANGED <<fast, solver, challenges, excused>>

Grace ==
  /\ wait = "grace" /\ Pump
  /\ \/ events' # << >> /\ wait' = "watch" /\ clock' = 0
     \/ events' = << >> /\ clock + 1 < GracePolls /\ clock' = clock + 1 /\ UNCHANGED wait
     \/ events' = << >> /\ clock + 1 = GracePolls /\ clock' = 0 /\ wait' = "act"
  /\ quiet' = 0
  /\ UNCHANGED <<fast, solver, challenges, excused>>

\* An announcement restarts the wait for silence; silence ends the watch if the
\* last announcement was of a solved challenge; so does the time.
Settled == quiet + 1 >= SettlePolls /\ events[Len(events)] = "finished"
\* Mutant: silence ends the watch whatever was announced last.
WatchSilence ==
  /\ wait = "watch" /\ Pump
  /\ clock' = clock + 1
  /\ quiet' = IF console # << >> THEN 0 ELSE quiet + 1
  /\ wait' = IF quiet' >= SettlePolls \/ clock' = TimeoutPolls THEN "land" ELSE wait
  /\ excused' = (excused \/ clock' = TimeoutPolls)
  /\ UNCHANGED <<fast, solver, challenges>>

Watch ==
  /\ wait = "watch" /\ Pump
  /\ clock' = clock + 1
  /\ quiet' = IF console # << >> THEN 0 ELSE quiet + 1
  /\ \/ console = << >> /\ Settled /\ wait' = "land" /\ UNCHANGED excused
     \/ /\ ~(console = << >> /\ Settled) /\ clock + 1 < TimeoutPolls
        /\ UNCHANGED <<wait, excused>>
     \/ /\ ~(console = << >> /\ Settled) /\ clock + 1 = TimeoutPolls
        /\ wait' = "land" /\ excused' = TRUE
  /\ UNCHANGED <<fast, solver, challenges>>

\* The redirect lands; what is announced meanwhile is forgotten with the rest.
Land ==
  /\ wait = "land" /\ wait' = "act"
  /\ events' = << >> /\ console' = << >>
  /\ clock' = 0 /\ quiet' = 0
  /\ excused' = (excused \/ solver = "solving")
  /\ UNCHANGED <<fast, solver, challenges>>

CaptchaNext == Challenge \/ Look \/ Grace \/ Watch \/ Land
CaptchaSpec == CaptchaInit /\ [][CaptchaNext]_captchaVars

\* The environment sends actions, or takes its next look at the page, during a
\* challenge only if the announcement has not come yet, or it has waited for the
\* whole time, or the challenge began while the page landed.
Respected == wait \in {"act", "land"} /\ solver = "solving" =>
               console # << >> \/ excused
=============================================================================
