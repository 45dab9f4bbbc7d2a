----------------------------- MODULE PageSettle -----------------------------
(* What an action of a WebEnv waits for before the screenshot (_FAST_STEP of  *)
(* env/web_env.py: _settle_until_ready, _track_navigations).  A navigation is *)
(* first asked for, then committed, which replaces the document, then shown.  *)
(* The times of the last request and of the last commit are kept for all      *)
(* pages together; they are compared with the time of the action only, and    *)
(* are modelled by that comparison.                                           *)
EXTENDS Naturals, FiniteSets

CONSTANTS
  Page,         \* tabs
  FirstPage,    \* the one with the focus at first
  MaxNavs,      \* bound: navigations
  MaxSettles,   \* bound: actions
  Checks        \* attempts at the readiness check

ASSUME SettleAssumption == FirstPage \in Page

VARIABLES
  front,       \* self.page
  doc,        \* of a page: "shown", "asked" for another document, "partial" while it comes in
  tracked,    \* _nav_tracked_pages
  started,    \* _nav_started_at >= _action_t0
  committed,  \* _nav_committed_at >= _action_t0
  place,         \* where the action is
  act,        \* the action
  tries,      \* readiness checks that were cut short
  navs, settles,
  replaced,   \* history: whether a document was replaced during the action
  excuse      \* history: why the screenshot may fall into a navigation
settleVars == <<front, doc, tracked, started, committed, place, act, tries, navs, settles, replaced, excuse>>

\* Handlers that settle with a grace: click, write, press_keys, and go_back, which
\* has waited for its navigation already; scroll and goto_url, which has as well,
\* settle without.
Graced   == {"click", "back"}
Settling == Graced \cup {"goto", "scroll"}

SettleInit ==
  /\ front = FirstPage /\ doc = [p \in Page |-> "shown"]
  /\ tracked = {} /\ started = FALSE /\ committed = FALSE
  /\ place = "idle" /\ act = "none" /\ tries = 0 /\ navs = 0 /\ settles = 0
  /\ replaced = FALSE /\ excuse = {}

----------------------------------------------------------------------------
(* What the site does.                                                        *)

\* on_request of a navigation; nothing is noted on a page without the listener.
Navigates ==
  /\ navs < MaxNavs /\ navs' = navs + 1
  /\ \E p \in Page :
       /\ doc[p] = "shown" /\ doc' = [doc EXCEPT ![p] = "asked"]
       /\ started' = (started \/ p \in tracked)
       /\ excuse' = excuse \cup (IF place \notin {"do", "grace"} THEN {"late"} ELSE {})
                           \cup (IF p \notin tracked THEN {"untracked"} ELSE {})
                           \cup (IF replaced THEN {"another"} ELSE {})
  /\ UNCHANGED <<front, tracked, committed, place, act, tries, settles, replaced>>

\* on_framenavigated.  A check that runs in the old document fails.
Commits ==
  \E p \in Page :
    /\ doc[p] = "asked" /\ doc' = [doc EXCEPT ![p] = "partial"]
    /\ committed' = (committed \/ p \in tracked) /\ replaced' = TRUE
    /\ excuse' = IF p # front THEN excuse \cup {"another"} ELSE excuse
    /\ \/ place = "ready" /\ p = front /\ tries < Checks /\ tries' = tries + 1
       \/ UNCHANGED tries
    /\ UNCHANGED <<front, tracked, started, place, act, navs, settles>>

\* The new document is there, or the navigation comes to nothing (a download).
Shown ==
  /\ \E p \in Page : doc[p] # "shown" /\ doc' = [doc EXCEPT ![p] = "shown"]
  /\ UNCHANGED <<front, tracked, started, committed, place, act, tries, navs, settles, replaced, excuse>>

\* The focus moves: a new tab comes up.
Refocuses ==
  /\ front' \in Page \ {front} /\ excuse' = excuse \cup {"focus"}
  /\ UNCHANGED <<doc, tracked, started, committed, place, act, tries, navs, settles, replaced>>

----------------------------------------------------------------------------
(* execute_single_action.                                                     *)

\* Mutant: what the pages did before the action counts for it.
BeginUnstamped(a) ==
  /\ place \in {"idle", "between"} /\ settles < MaxSettles /\ settles' = settles + 1
  /\ place' = "do" /\ act' = a /\ tries' = 0
  /\ excuse' = IF \A p \in Page : doc[p] = "shown" THEN {} ELSE {"earlier"}
  /\ replaced' = FALSE
  /\ UNCHANGED <<front, doc, tracked, started, committed, navs>>
BeginAction(a) ==
  /\ place \in {"idle", "between"} /\ settles < MaxSettles /\ settles' = settles + 1
  /\ place' = "do" /\ act' = a /\ tries' = 0
  /\ started' = FALSE /\ committed' = FALSE
  /\ excuse' = IF \A p \in Page : doc[p] = "shown" THEN {} ELSE {"earlier"}
  /\ replaced' = FALSE
  /\ UNCHANGED <<front, doc, tracked, navs>>

Ends == place' = "between"

\* An action that fails is over: it was refused, or a call of it raised.
Fails ==
  /\ place \in {"do", "ready"} /\ Ends /\ act' = "failed"
  /\ UNCHANGED <<front, doc, tracked, started, committed, tries, navs, settles, replaced, excuse>>

\* wait, hover, drag, done and the actions on tabs do not settle.
Pause ==
  /\ place = "do" /\ act = "pause" /\ Ends
  /\ UNCHANGED <<front, doc, tracked, started, committed, act, tries, navs, settles, replaced, excuse>>

\* goto_url and go_back return when the new document is there.  The listeners
\* are registered after the action.
Settle ==
  /\ place = "do" /\ act \in Settling
  /\ act \in {"back", "goto"} => doc[front] = "shown"
  /\ tracked' = tracked \cup {front}
  /\ place' = IF act \in Graced THEN "grace" ELSE IF started THEN "commit" ELSE "ready"
  /\ UNCHANGED <<front, doc, started, committed, act, tries, navs, settles, replaced, excuse>>

\* A navigation has started, or the time is up.
GraceOver ==
  /\ place = "grace" /\ place' = IF started THEN "commit" ELSE "ready"
  /\ UNCHANGED <<front, doc, tracked, started, committed, act, tries, navs, settles, replaced, excuse>>

\* The navigation has committed, or the time is up.
Committed ==
  /\ place = "commit" /\ place' = "ready"
  /\ excuse' = IF committed THEN excuse ELSE excuse \cup {"deadline"}
  /\ UNCHANGED <<front, doc, tracked, started, committed, act, tries, navs, settles, replaced>>

\* The load event, and the check in the page: an old document passes both.
Ready ==
  /\ place = "ready" /\ Ends
  /\ excuse' = IF tries = Checks THEN excuse \cup {"replaced"}
               ELSE IF doc[front] = "partial" THEN excuse \cup {"deadline"} ELSE excuse
  /\ UNCHANGED <<front, doc, tracked, started, committed, act, tries, navs, settles, replaced>>

\* The screenshot is taken.
Observed ==
  /\ place = "between" /\ place' = "idle"
  /\ UNCHANGED <<front, doc, tracked, started, committed, act, tries, navs, settles, replaced, excuse>>

----------------------------------------------------------------------------
SettleNext == \/ Navigates \/ Commits \/ Shown \/ Refocuses
              \/ \E a \in Settling \cup {"pause"} : BeginAction(a)
              \/ Fails \/ Pause \/ Settle \/ GraceOver \/ Committed \/ Ready \/ Observed
SettleSpec == SettleInit /\ [][SettleNext]_settleVars

----------------------------------------------------------------------------
\* The screenshot after a click, a text, keys, a scroll or a navigation is not
\* taken in the middle of one, unless that had begun before the action, or after
\* the grace, or on a page without the listener; or another one was taken for it;
\* or the focus moved, or the time was up, or the check was cut short each time.
ViewSettled == place = "between" /\ act \in Settling => doc[front] = "shown" \/ excuse # {}
=============================================================================
