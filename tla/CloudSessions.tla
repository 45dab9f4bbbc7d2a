--------------------------- MODULE CloudSessions ---------------------------
(* Sessions of the remote browser providers, billed by the minute, and the    *)
(* marker files that let a later run stop what an aborted one left behind     *)
(* (env/browserbase_env.py, env/browser_use_env.py and the branch of each in  *)
(* generate_browser._initialize_resources).  Every task opens a session; the  *)
(* first tasks of a run sweep the markers they find.  A request is executed   *)
(* by the provider in one step and answered in a later one, so a task can be  *)
(* cancelled, or the process killed, between the two.                         *)
EXTENDS Naturals, FiniteSets

CONSTANTS
  CloudTask,      \* concurrent tasks of one run
  MaxSessions,    \* bound: sessions opened over all runs
  MaxLives,       \* bound: runs of the program, the next begins when one is killed
  MaxRefusals,    \* bound: requests to the provider that fail
  MaxCuts,        \* bound: cancellations
  MaxPolls        \* polls for the address of a browser before giving up

Session  == 1..MaxSessions
NoSession == 0

VARIABLES
  provider,  \* "browserbase" or "browser-use"
  life,      \* number of the present run
  swept,     \* _BROWSERBASE_CLEANUP_DONE / _BROWSER_USE_CLEANUP_DONE of that run
  marks,     \* sessions with a marker file
  remote,    \* what the provider knows of a session: "none", "live", "released"
  born,      \* the run in which the program learnt of a session, 0: it never has
  step,      \* where a task is
  held,      \* the session a task waits for an answer about
  todo,      \* sessions of a task's sweep that it has not asked for yet
  polls,     \* polls done by a task
  refused,   \* history: sessions whose release was refused or not answered
  cuts, refusals

taskVars  == <<step, held, todo, polls>>
cloudVars == <<provider, life, swept, marks, remote, born, taskVars, refused, cuts, refusals>>

CloudInit ==
  /\ provider \in {"browserbase", "browser-use"}
  /\ life = 1 /\ swept = FALSE /\ marks = {} /\ refused = {} /\ cuts = 0 /\ refusals = 0
  /\ remote = [s \in Session |-> "none"] /\ born = [s \in Session |-> 0]
  /\ step = [t \in CloudTask |-> "idle"] /\ held = [t \in CloudTask |-> NoSession]
  /\ todo = [t \in CloudTask |-> {}] /\ polls = [t \in CloudTask |-> 0]

GoTo(t, where) == step' = [step EXCEPT ![t] = where]

----------------------------------------------------------------------------
(* The sweep.                                                                 *)

\* The task leaves the sweep, which sets the flag, and asks for a session.
AfterSweep(t) == swept' = TRUE /\ GoTo(t, "create") /\ held' = [held EXCEPT ![t] = NoSession]

\* The first request of a sweep, or the next one, is for s of the listing.
AskNext(t, listing) ==
  \E s \in listing : /\ held' = [held EXCEPT ![t] = s]
                     /\ todo' = [todo EXCEPT ![t] = listing \ {s}]

\* Mutant: every task sweeps, whether or not the run has done so.
BeginAgain(t) ==
  /\ step[t] = "idle"
  /\ \/ marks = {} /\ AfterSweep(t) /\ UNCHANGED todo
     \/ AskNext(t, marks) /\ GoTo(t, "sweep") /\ UNCHANGED swept
  /\ UNCHANGED <<provider, life, marks, remote, born, polls, refused, cuts, refusals>>

\* The flag is tested and the markers are listed in one step of the event loop.
Begin(t) ==
  /\ step[t] = "idle"
  /\ \/ swept /\ GoTo(t, "create") /\ UNCHANGED <<swept, held, todo>>
     \/ ~swept /\ marks = {} /\ AfterSweep(t) /\ UNCHANGED todo
     \/ ~swept /\ AskNext(t, marks) /\ GoTo(t, "sweep") /\ UNCHANGED swept
  /\ UNCHANGED <<provider, life, marks, remote, born, polls, refused, cuts, refusals>>

\* The provider executes a request to stop the session a task asks about.
Stops == {"sweep", "unwind", "exit"}
ProviderStops(t) ==
  /\ step[t] \in Stops /\ remote[held[t]] = "live"
  /\ remote' = [remote EXCEPT ![held[t]] = "released"]
  /\ UNCHANGED <<provider, life, swept, marks, born, taskVars, refused, cuts, refusals>>

\* How a request to stop s ends: it was executed, or it fails, and the failure
\* is logged and goes no further.
Stopped(s) == \/ remote[s] = "released" /\ UNCHANGED <<refused, refusals>>
              \/ /\ refusals < MaxRefusals /\ refusals' = refusals + 1
                 /\ refused' = refused \union {s}

SweepAnswer(t) ==
  /\ step[t] = "sweep" /\ Stopped(held[t])
  /\ marks' = marks \ {held[t]}
  /\ \/ todo[t] = {} /\ AfterSweep(t) /\ UNCHANGED todo
     \/ AskNext(t, todo[t]) /\ UNCHANGED <<step, swept>>
  /\ UNCHANGED <<provider, life, remote, born, polls, cuts>>

----------------------------------------------------------------------------
(* Opening a session.                                                         *)

\* The provider opens the session; the answer is under way.
ProviderCreates(t) ==
  /\ step[t] = "create"
  /\ \E s \in Session :
       /\ remote[s] = "none" /\ \A r \in Session : r < s => remote[r] # "none"
       /\ remote' = [remote EXCEPT ![s] = "live"] /\ held' = [held EXCEPT ![t] = s]
  /\ GoTo(t, "answer")
  /\ UNCHANGED <<provider, life, swept, marks, born, todo, polls, refused, cuts, refusals>>

\* The request fails: there is no session to stop.
CreateFails(t) ==
  /\ step[t] = "create" /\ refusals < MaxRefusals /\ refusals' = refusals + 1
  /\ GoTo(t, "failed")
  /\ UNCHANGED <<provider, life, swept, marks, remote, born, held, todo, polls, refused, cuts>>

\* Mutant: the marker is written once the browser's address is known.
CreatedLate(t) ==
  /\ step[t] = "answer"
  /\ born' = [born EXCEPT ![held[t]] = life]
  /\ \/ provider = "browserbase" /\ GoTo(t, "debug") /\ marks' = marks \union {held[t]}
     \/ provider = "browser-use" /\ GoTo(t, "setup") /\ marks' = marks \union {held[t]}
     \/ provider = "browser-use" /\ GoTo(t, "poll") /\ UNCHANGED marks
  /\ UNCHANGED <<provider, life, swept, remote, held, todo, polls, refused, cuts, refusals>>

\* The answer: the marker is written before anything that can fail.  browserbase
\* asks for a debug address next, browser-use may have to poll for the browser's.
Created(t) ==
  /\ step[t] = "answer"
  /\ marks' = marks \union {held[t]} /\ born' = [born EXCEPT ![held[t]] = life]
  /\ \/ provider = "browserbase" /\ GoTo(t, "debug")
     \/ provider = "browser-use" /\ \E next \in {"poll", "setup"} : GoTo(t, next)
  /\ UNCHANGED <<provider, life, swept, remote, held, todo, polls, refused, cuts, refusals>>

\* The debug address is only printed; no failure of the request counts.
Debug(t) == /\ step[t] = "debug" /\ GoTo(t, "setup")
            /\ UNCHANGED <<provider, life, swept, marks, remote, born, held, todo, polls,
                           refused, cuts, refusals>>

\* A poll finds the address, or not yet, or not in time, or fails.
Poll(t) ==
  /\ step[t] = "poll"
  /\ polls' = [polls EXCEPT ![t] = @ + 1]
  /\ \/ GoTo(t, "setup") /\ UNCHANGED refusals
     \/ GoTo(t, IF polls[t] + 1 < MaxPolls THEN "poll" ELSE "unwind") /\ UNCHANGED refusals
     \/ refusals < MaxRefusals /\ refusals' = refusals + 1 /\ GoTo(t, "unwind")
  /\ UNCHANGED <<provider, life, swept, marks, remote, born, held, todo, refused, cuts>>

\* Connecting and opening the start pages.
Setup(t) ==
  /\ step[t] = "setup"
  /\ \/ GoTo(t, "use") /\ UNCHANGED refusals
     \/ refusals < MaxRefusals /\ refusals' = refusals + 1 /\ GoTo(t, "unwind")
  /\ UNCHANGED <<provider, life, swept, marks, remote, born, held, todo, polls, refused, cuts>>

----------------------------------------------------------------------------
(* The end of a session.                                                      *)

\* Opening failed or was cancelled: the session is stopped, the marker removed,
\* the exception goes on.
Unwind(t) ==
  /\ step[t] = "unwind" /\ Stopped(held[t])
  /\ marks' = marks \ {held[t]} /\ GoTo(t, "failed")
  /\ UNCHANGED <<provider, life, swept, remote, born, held, todo, polls, cuts>>

\* The episode is over, or cancelled: exit() runs shielded from cancellation.
CloudExit(t) == /\ step[t] = "use" /\ GoTo(t, "exit")
           /\ UNCHANGED <<provider, life, swept, marks, remote, born, held, todo, polls,
                          refused, cuts, refusals>>
ExitAnswer(t) ==
  /\ step[t] = "exit" /\ Stopped(held[t])
  /\ \/ provider = "browserbase" /\ marks' = marks \ {held[t]} /\ GoTo(t, "over")
     \/ provider = "browser-use" /\ GoTo(t, "cost") /\ UNCHANGED marks
  /\ UNCHANGED <<provider, life, swept, remote, born, held, todo, polls, cuts>>

\* browser-use asks for the bill before it removes the marker.
Cost(t) == /\ step[t] = "cost" /\ marks' = marks \ {held[t]} /\ GoTo(t, "over")
           /\ UNCHANGED <<provider, life, swept, remote, born, held, todo, polls,
                          refused, cuts, refusals>>

\* A task is cancelled while it waits.  An answer under way is never read.
Cancel(t) ==
  /\ cuts < MaxCuts /\ cuts' = cuts + 1
  /\ \/ step[t] \in {"sweep", "create", "answer", "unwind"} /\ GoTo(t, "failed")
     \/ step[t] \in {"debug", "poll", "setup"} /\ GoTo(t, "unwind")
  /\ UNCHANGED <<provider, life, swept, marks, remote, born, held, todo, polls,
                 refused, refusals>>

\* The run is killed and the next one starts: files and sessions stay.
Killed ==
  /\ life < MaxLives /\ life' = life + 1 /\ swept' = FALSE
  /\ step' = [t \in CloudTask |-> "idle"] /\ held' = [t \in CloudTask |-> NoSession]
  /\ todo' = [t \in CloudTask |-> {}] /\ polls' = [t \in CloudTask |-> 0]
  /\ UNCHANGED <<provider, marks, remote, born, refused, cuts, refusals>>

CloudStep(t) == \/ Begin(t) \/ SweepAnswer(t) \/ ProviderStops(t)
                \/ ProviderCreates(t) \/ CreateFails(t) \/ Created(t)
                \/ Debug(t) \/ Poll(t) \/ Setup(t) \/ Unwind(t)
                \/ CloudExit(t) \/ ExitAnswer(t) \/ Cost(t) \/ Cancel(t)
CloudNext == Killed \/ \E t \in CloudTask : CloudStep(t)
CloudSpec == CloudInit /\ [][CloudNext]_cloudVars

----------------------------------------------------------------------------
\* A session the program was told of has a marker until the provider was asked
\* to stop it, so a run that is killed anywhere leaves a trace of what it left
\* open: what the order of marker, request and removal is for.
Traced == \A s \in Session : born[s] # 0 =>
            s \in marks \/ remote[s] = "released" \/ s \in refused

\* No sweep asks for a session of its own run, however the sweeps of several
\* tasks and the first sessions of the others interleave.
SweepSparesOwn == \A t \in CloudTask : step[t] = "sweep" =>
                    \A s \in todo[t] \union {held[t]} : born[s] \in 1..life-1

\* Once the flag is set, even by a task whose own listing was short because
\* another one was sweeping, nothing of an earlier run is left to ask for.
SweptClean == swept => \A s \in Session : born[s] \in 1..life-1 =>
                         s \notin marks /\ (remote[s] = "released" \/ s \in refused)

SessionsTraced == Traced /\ SweepSparesOwn /\ SweptClean
=============================================================================
