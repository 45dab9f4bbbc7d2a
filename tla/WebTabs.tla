------------------------------ MODULE WebTabs ------------------------------
(* The tabs of a WebEnv, which of them has the focus (self.page), and which   *)
(* one a screenshot shows (env/web_env.py, with _FAST_STEP).  The site opens  *)
(* and closes tabs whenever it likes; the callback of a new page takes the    *)
(* focus at once and gives it a dialog handler when it has loaded.  A step    *)
(* carries out actions and takes a screenshot; what it waits for in between   *)
(* is in PageSettle.                                                          *)
EXTENDS Naturals, Sequences, FiniteSets, SequencesExt

CONSTANTS
  StartTabs,    \* bound: tabs open when the listeners are registered
  MaxTabs,      \* bound: tabs ever opened
  MaxActions,   \* bound: actions on tabs
  MaxClosed     \* bound: tabs the site closes

ASSUME WebAssumption == StartTabs \in Nat /\ MaxTabs \in Nat /\ StartTabs <= MaxTabs

Tab   == 1..MaxTabs
NoTab == 0

VARIABLES
  tabs,       \* context.pages
  active,       \* self.page
  loading,    \* new pages whose callback waits for them to load
  handler,    \* tabs with a dialog handler
  at,         \* where the step is
  target,     \* the tab or index an action concerns, or whose session a screenshot uses
  session,    \* _cdp_sessions: the tab that the session kept for a tab belongs to
  shot,       \* the last screenshot: the tab it shows, and the one it was asked of
  opened, actions,
  closed,     \* tabs the site closed
  crossed,    \* history: tabs that had no callback, or lost the focus while they loaded
  mistaken    \* history: tabs that came up while the session of another was made

tabVars  == <<tabs, active, loading, handler, crossed, mistaken>>
stepVars == <<at, target, actions>>
viewVars == <<session, shot>>
siteVars == <<opened, closed>>
webVars  == <<tabVars, stepVars, viewVars, siteVars>>

\* The first page of several gets the focus and the only handler.
WebInit ==
  /\ \E n \in 1..StartTabs : tabs = [i \in 1..n |-> i] /\ opened = n
  /\ active = 1 /\ handler = {1} /\ loading = {} /\ crossed = Range(tabs) \ {1}
  /\ at = "idle" /\ target = NoTab /\ actions = 0
  /\ session = [t \in Tab |-> NoTab] /\ shot = [of |-> NoTab, asked |-> NoTab]
  /\ closed = {} /\ mistaken = {}

\* The focus goes to a tab; pages that load meanwhile are handled in its place.
Focus(t) ==
  /\ active' = t /\ crossed' = crossed \cup (loading' \ {t})
  /\ mistaken' = IF at = "attach" THEN mistaken \cup {t} ELSE mistaken

----------------------------------------------------------------------------
(* The callback of a new page, and what the site does.                        *)

\* context.pages grows and the callback runs up to its first await.
Opens(t) ==
  /\ opened' = t /\ tabs' = Append(tabs, t)
  /\ loading' = loading \cup {t} /\ Focus(t)

SiteOpens ==
  /\ opened < MaxTabs /\ Opens(opened + 1)
  /\ UNCHANGED <<handler, stepVars, viewVars, closed>>

\* Mutant: the handler goes to the page that had the focus before.
LoadedBehind ==
  \E t \in loading :
    /\ loading' = loading \ {t}
    /\ handler' = handler \cup {u \in Range(tabs) : u + 1 = t}
    /\ UNCHANGED <<tabs, active, crossed, mistaken, stepVars, viewVars, siteVars>>
\* The callback goes on, with the page that has the focus by now, or ends since
\* the page did not load.
Loaded ==
  \E t \in loading :
    /\ loading' = loading \ {t}
    /\ \/ t \in Range(tabs) /\ handler' = handler \cup {active} /\ UNCHANGED crossed
       \/ UNCHANGED handler /\ crossed' = crossed \cup {t}
    /\ UNCHANGED <<tabs, active, mistaken, stepVars, viewVars, siteVars>>

SiteCloses ==
  /\ \E i \in DOMAIN tabs :
       /\ Cardinality(closed) < MaxClosed
       /\ tabs' = RemoveAt(tabs, i) /\ closed' = closed \cup {tabs[i]}
  /\ UNCHANGED <<active, loading, handler, crossed, mistaken, stepVars, viewVars, opened>>

\* What becomes of a native dialog, which may come at any time: the handler accepts
\* it and shows a copy in the page; without one Playwright dismisses it unseen.
Intercepted(t) == t \in handler

----------------------------------------------------------------------------
(* execute_single_action.  An action that leaves the tabs alone, or fails,    *)
(* changes nothing here.                                                      *)

ActOn(a) ==
  /\ at \in {"idle", "between"}
  /\ IF a = "other" THEN UNCHANGED actions ELSE actions < MaxActions /\ actions' = actions + 1
  /\ at' = a /\ target' = NoTab
  /\ UNCHANGED <<tabVars, viewVars, siteVars>>

Over == at' = "between" /\ UNCHANGED <<target, actions>>

Other ==
  /\ at \in {"other", "new_tab", "switch_tab", "close_tab"} /\ target = NoTab /\ Over
  /\ UNCHANGED <<tabVars, viewVars, siteVars>>

\* The page opens, with its callback, before the call that asked for it returns.
NewTab ==
  /\ at = "new_tab" /\ target = NoTab
  /\ opened < MaxTabs /\ Opens(opened + 1) /\ target' = opened + 1
  /\ UNCHANGED <<handler, at, actions, viewVars, closed>>
NewTabOpened ==
  /\ at = "new_tab" /\ target # NoTab /\ Over
  /\ handler' = handler \cup {target} /\ UNCHANGED <<tabs, loading>> /\ Focus(target)
  /\ UNCHANGED <<viewVars, siteVars>>

SwitchTab ==
  /\ at = "switch_tab" /\ Over
  /\ UNCHANGED <<tabs, loading>> /\ \E t \in Range(tabs) : Focus(t)
  /\ UNCHANGED <<handler, viewVars, siteVars>>

\* Not the last tab.  Its index is kept.
CloseTab ==
  /\ at = "close_tab" /\ Len(tabs) > 1
  /\ \E i \in DOMAIN tabs : tabs[i] = active /\ target' = i /\ tabs' = RemoveAt(tabs, i)
  /\ at' = "closing"
  /\ UNCHANGED <<active, loading, handler, crossed, mistaken, actions, viewVars, siteVars>>
\* Mutant: the index is used as it is, which is one too many if it was the last.
ClosedTabUnbounded ==
  /\ at = "closing" /\ Over
  /\ UNCHANGED <<tabs, loading>>
  /\ IF target \notin DOMAIN tabs THEN UNCHANGED <<active, crossed, mistaken>> ELSE Focus(tabs[target])
  /\ UNCHANGED <<handler, viewVars, siteVars>>
ClosedTab ==
  /\ at = "closing" /\ Over
  /\ UNCHANGED <<tabs, loading>>
  /\ IF tabs = << >> THEN UNCHANGED <<active, crossed, mistaken>>
     ELSE Focus(tabs[IF target > Len(tabs) THEN Len(tabs) ELSE target])
  /\ UNCHANGED <<handler, viewVars, siteVars>>

----------------------------------------------------------------------------
(* The screenshot.                                                            *)

\* All actions done: with the session kept for the page, or a new one.
Shoot ==
  /\ at = "between"
  /\ at' = IF session[active] = NoTab THEN "attach" ELSE "capture"
  /\ target' = IF session[active] = NoTab THEN active ELSE session[active]
  /\ shot' = [of |-> NoTab, asked |-> active]
  /\ UNCHANGED <<tabVars, actions, session, siteVars>>

\* cdp = sess[self.page] = await new_cdp_session(self.page): the key is read
\* after the await.
Attach ==
  /\ at = "attach" /\ target \in Range(tabs)
  /\ session' = [session EXCEPT ![active] = target] /\ at' = "capture"
  /\ UNCHANGED <<tabVars, target, actions, shot, siteVars>>

\* A session of a tab that is gone is given up, and the page asked itself.
Capture ==
  /\ at = "capture" /\ at' = "idle"
  /\ IF target \in Range(tabs)
     THEN shot' = [shot EXCEPT !.of = target] /\ UNCHANGED session
     ELSE /\ session' = [session EXCEPT ![active] = NoTab]
          /\ shot' = [shot EXCEPT !.of = IF active \in Range(tabs) THEN active ELSE NoTab]
  /\ UNCHANGED <<tabVars, target, actions, siteVars>>

\* The page went away: the step reports an error and no observation.
Blind ==
  /\ at = "attach" /\ target \notin Range(tabs) /\ at' = "idle"
  /\ UNCHANGED <<tabVars, target, actions, viewVars, siteVars>>

----------------------------------------------------------------------------
WebNext == \/ SiteOpens \/ SiteCloses \/ Loaded
           \/ \E a \in {"other", "new_tab", "switch_tab", "close_tab"} : ActOn(a)
           \/ Other \/ NewTab \/ NewTabOpened \/ SwitchTab \/ CloseTab \/ ClosedTab
           \/ Shoot \/ Attach \/ Capture \/ Blind
WebSpec == WebInit /\ [][WebNext]_webVars

----------------------------------------------------------------------------
\* The agent always acts on an open tab, whatever it and the site opened and
\* closed, unless the site closed that one or all others.
FocusOpen == at # "closing" /\ tabs # << >> => active \in Range(tabs) \cup closed

\* A dialog, whenever it comes, is dismissed unseen only while its page loads with
\* the focus, and has no handler yet; or on a tab that was there before the
\* listeners, or lost the focus while it loaded, or never loaded.
DialogsSeen == \A t \in Range(tabs) : Intercepted(t) \/ t \in crossed \/ (t \in loading /\ t = active)

\* "Take a screenshot of the current page" (get_screenshot): the one that has the
\* focus when it is asked for, and none that another session was kept for since it
\* came up at the wrong moment.
ShowsCurrentPage == at = "idle" /\ shot.of # NoTab /\ shot.asked = active
                      => shot.of = active \/ active \in mistaken

\* What the agent acts on, answers once it has loaded, and sees is the tab it is
\* on, but for the exceptions named above.
TabsInHand == FocusOpen /\ DialogsSeen /\ ShowsCurrentPage
============================================================================
