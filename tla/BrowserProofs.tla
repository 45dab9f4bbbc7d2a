---------------------------- MODULE BrowserProofs ----------------------------
(* Proofs about the browser of a task: the local processes and port leases it  *)
(* runs in (LocalProcessEnv), the tabs and the focus of a WebEnv (WebTabs),    *)
(* the wait before its screenshot (PageSettle), the sessions at a remote       *)
(* provider (CloudSessions) and the pause for a challenge (CaptchaWait), for   *)
(* any number of tasks, ports, tabs, actions, navigations, sessions, runs,     *)
(* failures and challenges.                                                    *)
EXTENDS LocalProcessEnv, FunctionTheorems, FiniteSetTheorems, WebTabs, PageSettle, CloudSessions, CaptchaWait, TLAPS

-----------------------------------------------------------------------------
(* Sequences of tabs.                                                         *)

LEMMA AppendTab ==
  ASSUME NEW S, NEW s \in Seq(S), NEW t \in S
  PROVE  /\ Append(s, t) \in Seq(S) /\ Append(s, t) # << >>
         /\ Range(Append(s, t)) = Range(s) \cup {t}
  <1>1. /\ Append(s, t) \in Seq(S) /\ Len(Append(s, t)) = Len(s) + 1
        /\ \A i \in 1..Len(s) : Append(s, t)[i] = s[i]
        /\ Append(s, t)[Len(s) + 1] = t
    OBVIOUS
  <1>2. DOMAIN s = 1..Len(s) /\ DOMAIN Append(s, t) = 1..(Len(s) + 1) /\ Len(s) \in Nat
    BY <1>1
  <1> HIDE DEF Range
  <1>3. ASSUME NEW x \in Range(Append(s, t)) PROVE x \in Range(s) \cup {t}
    <2>1. PICK i \in 1..(Len(s) + 1) : x = Append(s, t)[i]
      BY <1>2, <1>3 DEF Range
    <2>2. CASE i = Len(s) + 1
      BY <1>1, <2>1, <2>2
    <2>3. CASE i # Len(s) + 1
      BY <1>1, <1>2, <2>1, <2>3 DEF Range
    <2> QED
      BY <2>2, <2>3
  <1>4. ASSUME NEW x \in Range(s) PROVE x \in Range(Append(s, t))
    <2>1. PICK i \in 1..Len(s) : x = s[i]
      BY <1>2, <1>4 DEF Range
    <2>2. i \in DOMAIN Append(s, t) /\ Append(s, t)[i] = x
      BY <1>1, <1>2, <2>1
    <2> QED
      BY <2>2 DEF Range
  <1>5. t \in Range(Append(s, t))
    <2>1. Len(s) + 1 \in DOMAIN Append(s, t)
      BY <1>2
    <2> QED
      BY <1>1, <2>1 DEF Range
  <1>6. Append(s, t) # << >>
    BY <1>1
  <1> QED
    BY <1>1, <1>3, <1>4, <1>5, <1>6

LEMMA Joined ==
  ASSUME NEW S, NEW a \in Seq(S), NEW b \in Seq(S)
  PROVE  /\ a \o b \in Seq(S) /\ Len(a \o b) = Len(a) + Len(b)
         /\ \A j \in 1..(Len(a) + Len(b)) :
              (a \o b)[j] = IF j <= Len(a) THEN a[j] ELSE b[j - Len(a)]
  OBVIOUS

LEMMA RemoveTab ==
  ASSUME NEW S, NEW s \in Seq(S), NEW i \in DOMAIN s
  PROVE  /\ RemoveAt(s, i) \in Seq(S)
         /\ Range(RemoveAt(s, i)) \subseteq Range(s)
         /\ Range(s) \subseteq Range(RemoveAt(s, i)) \cup {s[i]}
  <1> DEFINE a == SubSeq(s, 1, i - 1)
             b == SubSeq(s, i + 1, Len(s))
             r == a \o b
  <1>1. DOMAIN s = 1..Len(s) /\ Len(s) \in Nat /\ i \in 1..Len(s)
    OBVIOUS
  <1>2. a \in Seq(S) /\ Len(a) = i - 1 /\ \A j \in 1..(i - 1) : a[j] = s[j]
    BY <1>1
  <1>3. b \in Seq(S) /\ Len(b) = Len(s) - i /\ \A j \in 1..(Len(s) - i) : b[j] = s[i + j]
    BY <1>1
  <1> HIDE DEF a, b
  <1>4. /\ r \in Seq(S) /\ Len(r) = Len(s) - 1
        /\ \A j \in 1..(Len(s) - 1) : r[j] = IF j < i THEN s[j] ELSE s[j + 1]
    <2>0. r \in Seq(S) /\ Len(r) = Len(a) + Len(b)
      BY <1>2, <1>3, Joined
    <2>1. r \in Seq(S) /\ Len(r) = Len(s) - 1
      BY <1>1, <1>2, <1>3, <2>0
    <2>2. ASSUME NEW j \in 1..(Len(s) - 1) PROVE r[j] = IF j < i THEN s[j] ELSE s[j + 1]
      <3>0. j \in 1..(Len(a) + Len(b))
        BY <1>1, <1>2, <1>3
      <3>1. r[j] = IF j <= Len(a) THEN a[j] ELSE b[j - Len(a)]
        BY <1>2, <1>3, <3>0, Joined
      <3> HIDE DEF r
      <3>2. CASE j < i
        BY <1>1, <1>2, <3>1, <3>2
      <3>3. CASE j >= i
        <4>1. j - Len(a) \in 1..(Len(s) - i) /\ ~(j <= Len(a)) /\ i + (j - Len(a)) = j + 1
          BY <1>1, <1>2, <3>3
        <4> QED
          BY <1>1, <1>3, <3>1, <3>3, <4>1
      <3>4. j < i \/ j >= i
        BY <1>1
      <3> QED
        BY <3>2, <3>3, <3>4
    <2> QED
      BY <2>1, <2>2
  <1>5. RemoveAt(s, i) = r
    BY DEF RemoveAt, a, b
  <1> HIDE DEF r
  <1>6. DOMAIN r = 1..(Len(s) - 1)
    BY <1>4
  <1>7. ASSUME NEW x \in Range(r) PROVE x \in Range(s)
    <2>1. PICK j \in 1..(Len(s) - 1) : x = r[j]
      BY <1>6, <1>7 DEF Range
    <2>2. \E k \in 1..Len(s) : x = s[k]
      BY <1>1, <1>4, <2>1
    <2> QED
      BY <1>1, <2>2 DEF Range
  <1>8. ASSUME NEW x \in Range(s), x # s[i] PROVE x \in Range(r)
    <2>1. PICK k \in 1..Len(s) : x = s[k]
      BY <1>1, <1>8 DEF Range
    <2>2. CASE k < i
      BY <1>1, <1>4, <1>6, <2>1, <2>2 DEF Range
    <2>3. CASE k > i
      <3>1. k - 1 \in 1..(Len(s) - 1) /\ r[k - 1] = x
        BY <1>1, <1>4, <2>1, <2>3
      <3> QED
        BY <1>6, <3>1 DEF Range
    <2> QED
      BY <1>1, <1>8, <2>1, <2>2, <2>3
  <1> QED
    BY <1>4, <1>5, <1>7, <1>8

-----------------------------------------------------------------------------
(* WebTabs.                                                                   *)

WebTypeOK ==
  /\ opened \in 1..MaxTabs /\ tabs \in Seq(1..opened) /\ active \in 1..opened
  /\ at \in {"idle", "between", "other", "new_tab", "switch_tab", "close_tab", "closing",
             "attach", "capture"}
  /\ target \in Nat
  /\ session \in [Tab -> Tab \cup {NoTab}]
  /\ shot.asked \in 0..opened
  /\ DOMAIN shot = {"of", "asked"}

\* What an action was asked about is a tab, open or closed by the site, or the
\* place of the tab it closes.
TargetKnown ==
  /\ at = "new_tab" /\ target # NoTab => target \in 1..opened /\ target \in Range(tabs) \cup closed
  /\ at = "closing" => target >= 1
  /\ at = "attach" => target \in 1..opened

\* A tab waits for its callback, or has a handler, or missed it.
Handled == /\ \A t \in Range(tabs) : t \in loading \cup handler \cup crossed
           /\ \A t \in loading : t = active \/ t \in crossed

\* The session kept for a tab is its own, or the tab came up at the wrong moment.
SessionsKept ==
  /\ \A t \in Tab : session[t] \in {NoTab, t} \/ t \in mistaken
  /\ at = "attach" => /\ target = active \/ active \in mistaken
                      /\ shot.asked = target /\ shot.of = NoTab
  /\ at = "capture" => /\ shot.asked = target \/ shot.asked \in mistaken
                       /\ shot.of = NoTab

WebInv == /\ WebTypeOK /\ TargetKnown /\ Handled /\ SessionsKept
          /\ FocusOpen /\ ShowsCurrentPage

LEMMA WebInitInv == WebInit => WebInv
  <1> SUFFICES ASSUME WebInit PROVE WebInv
    OBVIOUS
  <1> USE WebAssumption DEF WebInit
  <1>1. PICK n \in 1..StartTabs : tabs = [i \in 1..n |-> i] /\ opened = n
    OBVIOUS
  <1>2. tabs \in Seq(1..n) /\ n \in 1..MaxTabs /\ 1 \in 1..n
    BY <1>1
  <1>3. 1 \in Range(tabs)
    BY <1>1, <1>2 DEF Range
  <1>4. WebTypeOK
    BY <1>1, <1>2 DEF WebTypeOK, NoTab, Tab
  <1>5. TargetKnown /\ Handled /\ SessionsKept
    BY DEF TargetKnown, Handled, SessionsKept
  <1>6. FocusOpen /\ ShowsCurrentPage
    BY <1>3 DEF FocusOpen, ShowsCurrentPage
  <1> QED
    BY <1>4, <1>5, <1>6 DEF WebInv

\* A step that moves on within the actions, and leaves tabs and views alone.
LEMMA ActionOnly ==
  ASSUME WebInv,
         UNCHANGED <<tabVars, viewVars, siteVars>>,
         at' \in {"between", "other", "new_tab", "switch_tab", "close_tab"},
         at \notin {"closing"},
         target' \in Nat, at' = "new_tab" => target' = NoTab
  PROVE  WebInv'
  <1> USE DEF WebInv, tabVars, viewVars, siteVars
  <1>1. WebTypeOK' /\ TargetKnown'
    BY DEF WebTypeOK, TargetKnown
  <1>2. Handled' /\ SessionsKept'
    BY DEF Handled, SessionsKept
  <1>3. FocusOpen' /\ ShowsCurrentPage'
    BY DEF FocusOpen, ShowsCurrentPage
  <1> QED
    BY <1>1, <1>2, <1>3

\* A new page comes up with the focus, whatever the step is doing.
LEMMA OpensKeeps ==
  ASSUME WebInv, opened < MaxTabs, Opens(opened + 1),
         UNCHANGED <<handler, at, viewVars, closed>>,
         target' = target \/ (at = "new_tab" /\ target' = opened + 1)
  PROVE  WebInv'
  <1> DEFINE t == opened + 1
  <1> USE DEF WebInv, viewVars
  <1>1. /\ opened' = t /\ tabs' = Append(tabs, t) /\ loading' = loading \cup {t}
        /\ active' = t /\ crossed' = crossed \cup (loading' \ {t})
        /\ mistaken' = IF at = "attach" THEN mistaken \cup {t} ELSE mistaken
    BY DEF Opens, Focus
  <1>2. /\ opened \in Nat /\ t \in 1..MaxTabs /\ 1..opened \subseteq 1..t /\ t \in 1..t
        /\ t \notin 1..opened
    BY WebAssumption DEF WebTypeOK
  <1>3. tabs \in Seq(1..t)
    BY <1>2 DEF WebTypeOK
  <1>4. tabs' \in Seq(1..t) /\ Range(tabs') = Range(tabs) \cup {t}
    BY <1>1, <1>2, <1>3, AppendTab
  <1> HIDE DEF t
  <1>5. WebTypeOK'
    <2>1. target' \in Nat
      BY <1>2 DEF WebTypeOK, t
    <2>2. shot'.asked \in 0..opened'
      BY <1>1, <1>2 DEF WebTypeOK
    <2> QED
      BY <1>1, <1>2, <1>4, <2>1, <2>2 DEF WebTypeOK
  <1>6. TargetKnown'
    <2>1. t >= 1 /\ 1..opened \subseteq 1..opened' /\ t \in 1..opened'
      BY <1>1, <1>2
    <2>2. target' = target \/ (at = "new_tab" /\ target' = t)
      BY DEF t
    <2> QED
      BY <1>1, <1>4, <2>1, <2>2 DEF TargetKnown
  <1>7. Handled'
    BY <1>1, <1>4 DEF Handled
  <1>8. SessionsKept'
    <2>1. target' = target \/ at = "new_tab"
      OBVIOUS
    <2> QED
      BY <1>1, <2>1 DEF SessionsKept
  <1>9. FocusOpen'
    BY <1>1, <1>4 DEF FocusOpen
  <1>10. ShowsCurrentPage'
    <2>1. shot.asked # t
      BY <1>2 DEF WebTypeOK, t
    <2> QED
      BY <1>1, <2>1 DEF ShowsCurrentPage
  <1> QED
    BY <1>5, <1>6, <1>7, <1>8, <1>9, <1>10

\* The site closes a tab, the one with the focus perhaps.
LEMMA SiteClosesKeeps == WebInv /\ SiteCloses => WebInv'
  <1> SUFFICES ASSUME WebInv, SiteCloses PROVE WebInv'
    OBVIOUS
  <1> USE DEF WebInv
  <1>1. PICK i \in DOMAIN tabs : tabs' = RemoveAt(tabs, i) /\ closed' = closed \cup {tabs[i]}
    BY DEF SiteCloses
  <1>2. UNCHANGED <<active, loading, handler, crossed, mistaken, stepVars, viewVars, opened>>
    BY DEF SiteCloses
  <1>3. /\ tabs' \in Seq(1..opened) /\ Range(tabs') \subseteq Range(tabs)
        /\ Range(tabs) \subseteq Range(tabs') \cup {tabs[i]}
    BY <1>1, RemoveTab DEF WebTypeOK
  <1> USE DEF stepVars, viewVars
  <1>4. WebTypeOK'
    BY <1>2, <1>3 DEF WebTypeOK
  <1>5. TargetKnown'
    BY <1>1, <1>2, <1>3 DEF TargetKnown
  <1>6. Handled' /\ SessionsKept'
    BY <1>2, <1>3 DEF Handled, SessionsKept
  <1>7. FocusOpen'
    <2>1. tabs' # << >> => tabs # << >>
      BY <1>1
    <2> QED
      BY <1>1, <1>2, <1>3, <2>1 DEF FocusOpen
  <1>8. ShowsCurrentPage'
    BY <1>2 DEF ShowsCurrentPage
  <1> QED
    BY <1>4, <1>5, <1>6, <1>7, <1>8

\* The callback of a new page ends.
LEMMA CallbackKeeps == WebInv /\ Loaded => WebInv'
  <1> SUFFICES ASSUME WebInv, Loaded PROVE WebInv'
    OBVIOUS
  <1> USE DEF WebInv, tabVars, stepVars, viewVars, siteVars
  <1>1. PICK t \in loading :
          /\ loading' = loading \ {t}
          /\ \/ handler' = handler \cup {active} /\ UNCHANGED crossed
             \/ UNCHANGED handler /\ crossed' = crossed \cup {t}
    BY DEF Loaded
  <1>2. UNCHANGED <<tabs, active, mistaken, stepVars, viewVars, siteVars>>
    BY DEF Loaded
  <1>3. WebTypeOK' /\ TargetKnown' /\ SessionsKept'
    BY <1>2 DEF WebTypeOK, TargetKnown, SessionsKept
  <1>4. Handled'
    BY <1>1, <1>2 DEF Handled
  <1>5. FocusOpen' /\ ShowsCurrentPage'
    BY <1>2 DEF FocusOpen, ShowsCurrentPage
  <1> QED
    BY <1>3, <1>4, <1>5

\* An action that ends with the focus on tab t.
LEMMA FocusKeeps ==
  ASSUME WebInv, NEW t \in 1..opened, Focus(t), t \in Range(tabs) \cup closed,
         at \in {"new_tab", "switch_tab", "closing"}, at' = "between",
         UNCHANGED <<tabs, loading, target, viewVars, siteVars>>,
         handler \subseteq handler'
  PROVE  WebInv'
  <1> USE DEF WebInv, viewVars, siteVars
  <1>1. active' = t /\ crossed' = crossed \cup (loading \ {t}) /\ UNCHANGED mistaken
    BY DEF Focus
  <1>2. WebTypeOK' /\ TargetKnown'
    BY <1>1 DEF WebTypeOK, TargetKnown
  <1>3. Handled' /\ SessionsKept'
    BY <1>1 DEF Handled, SessionsKept
  <1>4. FocusOpen' /\ ShowsCurrentPage'
    BY <1>1 DEF FocusOpen, ShowsCurrentPage
  <1> QED
    BY <1>2, <1>3, <1>4

\* The tabs are tabs that were opened.
LEMMA TabOpened == WebTypeOK => Range(tabs) \subseteq 1..opened
  BY DEF WebTypeOK, Range

\* Closing a tab: the tab with the focus goes, and the focus to a neighbour.
LEMMA CloseKeeps == WebInv /\ (CloseTab \/ ClosedTab) => WebInv'
  <1> SUFFICES ASSUME WebInv, CloseTab \/ ClosedTab PROVE WebInv'
    OBVIOUS
  <1> USE DEF WebInv
  <1>1. CASE CloseTab
    <2>1. PICK i \in DOMAIN tabs : target' = i /\ tabs' = RemoveAt(tabs, i)
      BY <1>1 DEF CloseTab
    <2>2. /\ at' = "closing"
          /\ UNCHANGED <<active, loading, handler, crossed, mistaken, viewVars, siteVars>>
      BY <1>1 DEF CloseTab
    <2>3. tabs' \in Seq(1..opened) /\ Range(tabs') \subseteq Range(tabs)
      BY <2>1, RemoveTab DEF WebTypeOK
    <2>4. target' \in Nat /\ target' >= 1
      BY <2>1 DEF WebTypeOK
    <2> USE DEF viewVars, siteVars
    <2>5. WebTypeOK' /\ TargetKnown'
      BY <2>2, <2>3, <2>4 DEF WebTypeOK, TargetKnown
    <2>6. Handled' /\ SessionsKept'
      BY <2>2, <2>3 DEF Handled, SessionsKept
    <2>7. FocusOpen' /\ ShowsCurrentPage'
      BY <2>2 DEF FocusOpen, ShowsCurrentPage
    <2> QED
      BY <2>5, <2>6, <2>7
  <1>2. CASE ClosedTab
    <2>1. /\ at = "closing" /\ at' = "between"
          /\ UNCHANGED <<target, tabs, loading, handler, viewVars, siteVars>>
      BY <1>2 DEF ClosedTab, Over
    <2>2. CASE tabs = << >> /\ UNCHANGED <<active, crossed, mistaken>>
      <3> USE DEF viewVars, siteVars
      <3>1. WebTypeOK' /\ TargetKnown'
        BY <2>1, <2>2 DEF WebTypeOK, TargetKnown
      <3>2. Handled' /\ SessionsKept'
        BY <2>1, <2>2 DEF Handled, SessionsKept
      <3>3. FocusOpen' /\ ShowsCurrentPage'
        BY <2>1, <2>2 DEF FocusOpen, ShowsCurrentPage
      <3> QED
        BY <3>1, <3>2, <3>3
    <2>3. CASE tabs # << >>
      <3> DEFINE i == IF target > Len(tabs) THEN Len(tabs) ELSE target
      <3>1. i \in DOMAIN tabs
        BY <2>1, <2>3 DEF WebTypeOK, TargetKnown
      <3>2. Focus(tabs[i])
        BY <1>2, <2>3 DEF ClosedTab
      <3> HIDE DEF i
      <3>3. tabs[i] \in Range(tabs) /\ tabs[i] \in 1..opened
        BY <3>1, TabOpened DEF Range
      <3> QED
        BY <2>1, <3>2, <3>3, FocusKeeps
    <2> QED
      BY <1>2, <2>2, <2>3 DEF ClosedTab
  <1> QED
    BY <1>1, <1>2

\* The screenshot: a session is looked up or made, and shows what it belongs to.
LEMMA ShotKeeps == WebInv /\ (Shoot \/ Attach \/ Capture \/ Blind) => WebInv'
  <1> SUFFICES ASSUME WebInv, Shoot \/ Attach \/ Capture \/ Blind PROVE WebInv'
    OBVIOUS
  <1> USE DEF WebInv, tabVars, siteVars, viewVars
  <1>0. UNCHANGED <<tabVars, siteVars>> /\ at # "closing" /\ at' \notin {"closing", "new_tab"}
    BY DEF Shoot, Attach, Capture, Blind
  <1>1. Handled' /\ FocusOpen'
    BY <1>0 DEF Handled, FocusOpen
  <1>2. /\ active \in Tab /\ 1..opened \subseteq Tab /\ NoTab \notin Tab /\ NoTab \in Nat
        /\ Tab \subseteq Nat /\ 1..opened \subseteq 0..opened /\ NoTab \in 0..opened
    BY WebAssumption DEF WebTypeOK, Tab, NoTab
  <1>3. CASE Shoot
    <2>1. /\ shot' = [of |-> NoTab, asked |-> active] /\ UNCHANGED session
          /\ \/ at' = "attach" /\ target' = active
             \/ at' = "capture" /\ target' = session[active] /\ session[active] # NoTab
      BY <1>3 DEF Shoot
    <2>2. WebTypeOK' /\ TargetKnown'
      BY <1>0, <1>2, <2>1 DEF WebTypeOK, TargetKnown
    <2>3. SessionsKept' /\ ShowsCurrentPage'
      BY <1>0, <1>2, <2>1 DEF SessionsKept, ShowsCurrentPage
    <2> QED
      BY <1>1, <2>2, <2>3
  <1>4. CASE Attach
    <2>1. /\ at = "attach" /\ session' = [session EXCEPT ![active] = target] /\ at' = "capture"
          /\ UNCHANGED <<target, shot>>
      BY <1>4 DEF Attach
    <2>2. WebTypeOK' /\ TargetKnown'
      BY <1>0, <1>2, <2>1 DEF WebTypeOK, TargetKnown
    <2>3. SessionsKept' /\ ShowsCurrentPage'
      BY <1>0, <1>2, <2>1 DEF SessionsKept, ShowsCurrentPage, WebTypeOK
    <2> QED
      BY <1>1, <2>2, <2>3
  <1>5. CASE Capture
    <2>1. at = "capture" /\ at' = "idle" /\ UNCHANGED target
      BY <1>5 DEF Capture
    <2>2. CASE shot' = [shot EXCEPT !.of = target] /\ UNCHANGED session
      <3>1. shot'.of = target /\ shot'.asked = shot.asked /\ DOMAIN shot' = {"of", "asked"}
        BY <2>2 DEF WebTypeOK
      <3>2. WebTypeOK' /\ TargetKnown'
        BY <1>0, <2>1, <2>2, <3>1 DEF WebTypeOK, TargetKnown
      <3>3. SessionsKept' /\ ShowsCurrentPage'
        BY <1>0, <2>1, <2>2, <3>1 DEF SessionsKept, ShowsCurrentPage
      <3> QED
        BY <1>1, <3>2, <3>3
    <2>3. CASE /\ session' = [session EXCEPT ![active] = NoTab]
               /\ shot' = [shot EXCEPT !.of = IF active \in Range(tabs) THEN active ELSE NoTab]
      <3>1. /\ shot'.of \in {active, NoTab} /\ shot'.asked = shot.asked
            /\ DOMAIN shot' = {"of", "asked"}
        BY <2>3 DEF WebTypeOK
      <3>2. WebTypeOK' /\ TargetKnown'
        BY <1>0, <1>2, <2>1, <2>3, <3>1 DEF WebTypeOK, TargetKnown
      <3>3. SessionsKept' /\ ShowsCurrentPage'
        BY <1>0, <1>2, <2>1, <2>3, <3>1 DEF SessionsKept, ShowsCurrentPage, WebTypeOK
      <3> QED
        BY <1>1, <3>2, <3>3
    <2> QED
      BY <1>5, <2>2, <2>3 DEF Capture
  <1>6. CASE Blind
    <2>1. at = "attach" /\ at' = "idle" /\ UNCHANGED <<target, session, shot>>
      BY <1>6 DEF Blind
    <2>2. WebTypeOK' /\ TargetKnown'
      BY <1>0, <2>1 DEF WebTypeOK, TargetKnown
    <2>3. SessionsKept' /\ ShowsCurrentPage'
      BY <1>0, <2>1 DEF SessionsKept, ShowsCurrentPage
    <2> QED
      BY <1>1, <2>2, <2>3
  <1> QED
    BY <1>3, <1>4, <1>5, <1>6

LEMMA WebStepKeeps == WebInv /\ [WebNext]_webVars => WebInv'
  <1> SUFFICES ASSUME WebInv, [WebNext]_webVars PROVE WebInv'
    OBVIOUS
  <1>t. target \in Nat /\ NoTab \in Nat
    BY DEF WebInv, WebTypeOK, NoTab
  <1>0. CASE UNCHANGED webVars
    BY <1>0 DEF webVars, tabVars, stepVars, viewVars, siteVars, WebInv, WebTypeOK, TargetKnown,
       Handled, SessionsKept, FocusOpen, ShowsCurrentPage
  <1>1. CASE SiteOpens
    BY <1>1, OpensKeeps DEF SiteOpens, stepVars
  <1>2. CASE NewTab
    BY <1>2, OpensKeeps DEF NewTab
  <1>3. CASE SiteCloses \/ Loaded
    BY <1>3, SiteClosesKeeps, CallbackKeeps
  <1>4. CASE \E a \in {"other", "new_tab", "switch_tab", "close_tab"} : ActOn(a)
    BY <1>4, <1>t, ActionOnly DEF ActOn
  <1>5. CASE Other
    BY <1>5, <1>t, ActionOnly DEF Other, Over
  <1>6. CASE NewTabOpened
    <2>1. /\ at = "new_tab" /\ target # NoTab /\ Focus(target) /\ at' = "between"
          /\ handler \subseteq handler'
          /\ UNCHANGED <<tabs, loading, target, viewVars, siteVars>>
      BY <1>6 DEF NewTabOpened, Over
    <2>2. target \in 1..opened /\ target \in Range(tabs) \cup closed
      BY <2>1 DEF WebInv, TargetKnown
    <2> QED
      BY <2>1, <2>2, FocusKeeps
  <1>7. CASE SwitchTab
    <2>1. PICK t \in Range(tabs) : Focus(t)
      BY <1>7 DEF SwitchTab
    <2>2. t \in 1..opened
      BY TabOpened DEF WebInv
    <2>3. /\ at = "switch_tab" /\ at' = "between"
          /\ UNCHANGED <<tabs, loading, handler, target, viewVars, siteVars>>
      BY <1>7 DEF SwitchTab, Over
    <2> QED
      BY <2>1, <2>2, <2>3, FocusKeeps
  <1>8. CASE CloseTab \/ ClosedTab
    BY <1>8, CloseKeeps
  <1>9. CASE Shoot \/ Attach \/ Capture \/ Blind
    BY <1>9, ShotKeeps
  <1> QED
    BY <1>0, <1>1, <1>2, <1>3, <1>4, <1>5, <1>6, <1>7, <1>8, <1>9 DEF WebNext

\* Whatever the agent and the site open and close, and whenever: the agent acts
\* on an open tab, answers the dialogs of the tabs whose callback it could run,
\* once they have loaded, and sees the tab it is on, but for the tabs it may have mixed up itself.
THEOREM TabsAreInHand == WebSpec => []TabsInHand
  <1>1. WebInv => TabsInHand
    BY DEF WebInv, Handled, DialogsSeen, Intercepted, TabsInHand
  <1> QED
    BY WebInitInv, WebStepKeeps, <1>1, PTL DEF WebSpec

-----------------------------------------------------------------------------
(* PageSettle.                                                                *)

\* As long as there is no excuse: a page that is not shown has been seen to
\* start navigating, a commit was one of the page with the focus, which does not
\* navigate again, and a step that reaches the check has waited for it.
SettleInv ==
  /\ doc \in [Page -> {"shown", "asked", "partial"}] /\ front \in Page
  /\ started \in BOOLEAN /\ committed \in BOOLEAN /\ replaced \in BOOLEAN
  /\ committed => replaced
  /\ excuse = {} => /\ \A p \in Page : doc[p] # "shown" => started
                    /\ replaced => doc[front] # "asked"
                    /\ place = "ready" => doc[front] # "asked"
                    /\ place = "between" /\ act \in Settling => doc[front] = "shown"

LEMMA SettleStepKeeps == SettleInv /\ [SettleNext]_settleVars => SettleInv'
  <1> SUFFICES ASSUME SettleInv, [SettleNext]_settleVars PROVE SettleInv'
    OBVIOUS
  <1> USE DEF SettleInv
  <1>0. CASE UNCHANGED settleVars
    BY <1>0 DEF settleVars
  <1>1. CASE Navigates
    <2>1. PICK p \in Page :
            /\ doc[p] = "shown" /\ doc' = [doc EXCEPT ![p] = "asked"]
            /\ started' = (started \/ p \in tracked)
            /\ excuse' = excuse \cup (IF place \notin {"do", "grace"} THEN {"late"} ELSE {})
                                \cup (IF p \notin tracked THEN {"untracked"} ELSE {})
                                \cup (IF replaced THEN {"another"} ELSE {})
      BY <1>1 DEF Navigates
    <2>2. UNCHANGED <<front, committed, place, act, replaced>>
      BY <1>1 DEF Navigates
    <2>3. excuse' = {} => /\ excuse = {} /\ place \in {"do", "grace"} /\ p \in tracked
                          /\ ~replaced
      BY <2>1
    <2>4. started' \in BOOLEAN
      BY <2>1
    <2>5. excuse' = {} => started' = TRUE
      BY <2>1, <2>3
    <2> QED
      BY <2>1, <2>2, <2>3, <2>4, <2>5
  <1>2. CASE Commits
    <2>1. PICK p \in Page :
            /\ doc[p] = "asked" /\ doc' = [doc EXCEPT ![p] = "partial"]
            /\ committed' = (committed \/ p \in tracked) /\ replaced' = TRUE
            /\ excuse' = IF p # front THEN excuse \cup {"another"} ELSE excuse
            /\ UNCHANGED <<front, started, place, act>>
      BY <1>2 DEF Commits
    <2>2. excuse' = {} => excuse = {} /\ p = front
      BY <2>1
    <2>3. committed' \in BOOLEAN
      BY <2>1
    <2> QED
      BY <2>1, <2>2, <2>3
  <1>3. CASE Shown
    <2>1. PICK p \in Page : doc[p] # "shown" /\ doc' = [doc EXCEPT ![p] = "shown"]
      BY <1>3 DEF Shown
    <2> QED
      BY <1>3, <2>1 DEF Shown
  <1>4. CASE Refocuses
    BY <1>4 DEF Refocuses
  <1>5. CASE \E a \in Settling \cup {"pause"} : BeginAction(a)
    BY <1>5 DEF BeginAction
  <1>6. CASE Fails \/ Pause
    BY <1>6 DEF Fails, Pause, Ends, Settling, Graced
  <1>7. CASE Settle \/ GraceOver
    BY <1>7 DEF Settle, GraceOver
  <1>8. CASE Committed
    BY <1>8 DEF Committed
  <1>9. CASE Ready
    BY <1>9 DEF Ready, Ends
  <1>10. CASE Observed
    BY <1>10 DEF Observed
  <1> QED
    BY <1>0, <1>1, <1>2, <1>3, <1>4, <1>5, <1>6, <1>7, <1>8, <1>9, <1>10 DEF SettleNext

\* A screenshot falls into a navigation only for one of the reasons the wait
\* cannot exclude, for any number of pages, navigations and checks.
THEOREM ViewsSettle == SettleSpec => []ViewSettled
  <1>1. SettleInit => SettleInv
    BY SettleAssumption DEF SettleInit, SettleInv
  <1>2. SettleInv => ViewSettled
    BY DEF SettleInv, ViewSettled
  <1> QED
    BY <1>1, <1>2, SettleStepKeeps, PTL DEF SettleSpec


-----------------------------------------------------------------------------
(* CloudSessions.                                                             *)

\* Where a task waits for an answer about a session, or has one.
Holding == {"sweep", "answer", "debug", "poll", "setup", "unwind", "use", "exit", "cost"}

CloudTypeOK ==
  /\ life \in Nat \ {0} /\ swept \in BOOLEAN
  /\ marks \subseteq Session /\ refused \subseteq Session
  /\ remote \in [Session -> {"none", "live", "released"}]
  /\ born \in [Session -> 0..life]
  /\ step \in [CloudTask -> Holding \cup {"idle", "create", "over", "failed"}]
  /\ held \in [CloudTask -> Session \cup {NoSession}]
  /\ todo \in [CloudTask -> SUBSET Session]
  /\ \A t \in CloudTask : step[t] \in Holding => held[t] \in Session

\* What was asked to stop, successfully or not.
Asked(s) == remote[s] = "released" \/ s \in refused

\* A session whose answer is under way is new, and its task's alone.
AnswersNew ==
  /\ \A s \in Session : born[s] # 0 => remote[s] # "none"
  /\ \A t \in CloudTask : step[t] = "answer" => /\ born[held[t]] = 0
                                                /\ remote[held[t]] # "none"
  /\ \A t, u \in CloudTask : step[t] = "answer" /\ step[u] = "answer" /\ held[t] = held[u]
                               => t = u

\* A marker is of a session the program was told of; before the flag is set
\* nothing of this run exists, and a sweep has all markers before it.
MarksOld ==
  /\ \A s \in marks : born[s] # 0
  /\ ~swept => \A s \in Session : born[s] # life
  /\ ~swept => \A t \in CloudTask : step[t] \in {"idle", "sweep", "failed"}
  /\ ~swept => \A t \in CloudTask : step[t] = "sweep" => marks \subseteq todo[t] \cup {held[t]}

\* The bill is asked for after the provider was asked to stop.
BillAfterStop == \A t \in CloudTask : step[t] = "cost" => Asked(held[t])

CloudInv == /\ CloudTypeOK /\ AnswersNew /\ MarksOld /\ BillAfterStop
            /\ Traced /\ SweepSparesOwn /\ SweptClean

LEMMA CloudInitInv == CloudInit => CloudInv
  <1> SUFFICES ASSUME CloudInit PROVE CloudInv
    OBVIOUS
  <1> USE DEF CloudInit
  <1>1. CloudTypeOK
    <2>0. swept \in BOOLEAN
      BY Zenon
    <2>1. life \in Nat \ {0} /\ marks \subseteq Session /\ refused \subseteq Session
      OBVIOUS
    <2>2. /\ remote \in [Session -> {"none", "live", "released"}]
          /\ born \in [Session -> 0..life]
      OBVIOUS
    <2>3. /\ step \in [CloudTask -> Holding \cup {"idle", "create", "over", "failed"}]
          /\ \A t \in CloudTask : step[t] \notin Holding
      BY DEF Holding
    <2>4. /\ held \in [CloudTask -> Session \cup {NoSession}]
          /\ todo \in [CloudTask -> SUBSET Session]
      OBVIOUS
    <2> QED
      BY <2>0, <2>1, <2>2, <2>3, <2>4 DEF CloudTypeOK
  <1>2. AnswersNew /\ MarksOld /\ BillAfterStop
    BY DEF AnswersNew, MarksOld, BillAfterStop
  <1>3. Traced /\ SweepSparesOwn /\ SweptClean
    BY DEF Traced, SweepSparesOwn, SweptClean
  <1> QED
    BY <1>1, <1>2, <1>3 DEF CloudInv

\* The next run: everything a run knows is gone, sessions and markers are not.
LEMMA KilledKeeps == CloudInv /\ Killed => CloudInv'
  <1> SUFFICES ASSUME CloudInv, Killed PROVE CloudInv'
    OBVIOUS
  <1> USE DEF CloudInv, Killed, CloudTypeOK
  <1>1. CloudTypeOK'
    <2>0. swept' \in BOOLEAN
      BY Zenon
    <2>1. life' \in Nat \ {0}
      OBVIOUS
    <2>2. born' \in [Session -> 0..life']
      BY <2>1
    <2>3. /\ step' \in [CloudTask -> Holding \cup {"idle", "create", "over", "failed"}]
          /\ \A t \in CloudTask : step'[t] \notin Holding
      BY DEF Holding
    <2>4. /\ held' \in [CloudTask -> Session \cup {NoSession}]
          /\ todo' \in [CloudTask -> SUBSET Session]
      OBVIOUS
    <2> QED
      BY <2>1, <2>2, <2>3, <2>4
  <1>2. AnswersNew' /\ MarksOld' /\ BillAfterStop'
    BY DEF AnswersNew, MarksOld, BillAfterStop
  <1>3. Traced' /\ SweepSparesOwn' /\ SweptClean'
    BY DEF Traced, SweepSparesOwn, SweptClean
  <1> QED
    BY <1>1, <1>2, <1>3

\* A step of a task that touches neither markers nor sessions and goes to a
\* place where the invariant asks for nothing but a session.
LEMMA MovesOn ==
  ASSUME CloudInv, NEW t \in CloudTask,
         NEW where \in {"debug", "poll", "setup", "unwind", "use", "exit", "failed"},
         step' = [step EXCEPT ![t] = where],
         where # "failed" => step[t] \in Holding \ {"sweep"},
         UNCHANGED <<life, swept, marks, remote, born, held, todo>>,
         refused \subseteq refused', refused' \subseteq Session
  PROVE  CloudInv'
  <1> USE DEF CloudInv, CloudTypeOK
  <1>1. CloudTypeOK'
    BY DEF Holding
  <1>2. AnswersNew'
    BY DEF AnswersNew
  <1>3. MarksOld'
    BY DEF MarksOld, Holding
  <1>4. BillAfterStop'
    BY DEF BillAfterStop, Asked
  <1>5. Traced' /\ SweepSparesOwn' /\ SweptClean'
    BY DEF Traced, SweepSparesOwn, SweptClean
  <1> QED
    BY <1>1, <1>2, <1>3, <1>4, <1>5

\* The provider was asked to stop the session a task holds, and the task
\* removes its marker: in the sweep, when opening failed, at the end.
LEMMA StopsThenForgets ==
  ASSUME CloudInv, NEW t \in CloudTask,
         NEW where \in {"failed", "over"},
         step[t] \in Holding \ {"sweep"},
         step' = [step EXCEPT ![t] = where],
         marks' = marks \ {held[t]},
         remote[held[t]] = "released" \/ held[t] \in refused',
         UNCHANGED <<life, swept, remote, born, held, todo>>,
         refused \subseteq refused', refused' \subseteq Session
  PROVE  CloudInv'
  <1> USE DEF CloudInv, CloudTypeOK
  <1>1. CloudTypeOK'
    BY DEF Holding
  <1>2. AnswersNew'
    BY DEF AnswersNew
  <1>3. MarksOld'
    BY DEF MarksOld, Holding
  <1>4. BillAfterStop'
    BY DEF BillAfterStop, Asked
  <1>5. Traced' /\ SweepSparesOwn' /\ SweptClean'
    BY DEF Traced, SweepSparesOwn, SweptClean, Asked
  <1> QED
    BY <1>1, <1>2, <1>3, <1>4, <1>5

\* How a request to stop ends: asked, whatever the answer.
LEMMA StoppedIsAsked ==
  ASSUME NEW s \in Session, refused \subseteq Session, Stopped(s)
  PROVE  /\ remote[s] = "released" \/ s \in refused'
         /\ refused \subseteq refused' /\ refused' \subseteq Session
  BY DEF Stopped

LEMMA BeginKeeps ==
  ASSUME CloudInv, NEW t \in CloudTask, Begin(t)
  PROVE  CloudInv'
  <1> USE DEF CloudInv, CloudTypeOK
  <1>0. /\ step[t] = "idle" /\ UNCHANGED <<life, marks, remote, born, refused>>
    BY DEF Begin
  <1>1. CASE swept /\ GoTo(t, "create") /\ UNCHANGED <<swept, held, todo>>
    <2>1. CloudTypeOK'
      BY <1>0, <1>1 DEF GoTo, Holding
    <2>2. AnswersNew' /\ MarksOld' /\ BillAfterStop'
      BY <1>0, <1>1 DEF AnswersNew, MarksOld, BillAfterStop, Asked, GoTo
    <2>3. Traced' /\ SweepSparesOwn' /\ SweptClean'
      BY <1>0, <1>1 DEF Traced, SweepSparesOwn, SweptClean, GoTo
    <2> QED
      BY <2>1, <2>2, <2>3
  <1>2. CASE ~swept /\ marks = {} /\ AfterSweep(t) /\ UNCHANGED todo
    <2> USE DEF AfterSweep, GoTo
    <2>1. CloudTypeOK'
      BY <1>0, <1>2 DEF Holding
    <2>2. AnswersNew' /\ MarksOld' /\ BillAfterStop'
      BY <1>0, <1>2 DEF AnswersNew, MarksOld, BillAfterStop, Asked
    <2>3. Traced' /\ SweepSparesOwn' /\ SweptClean'
      BY <1>0, <1>2 DEF Traced, SweepSparesOwn, SweptClean
    <2> QED
      BY <2>1, <2>2, <2>3
  <1>3. CASE ~swept /\ AskNext(t, marks) /\ GoTo(t, "sweep") /\ UNCHANGED swept
    <2>1. PICK s \in marks : /\ held' = [held EXCEPT ![t] = s]
                             /\ todo' = [todo EXCEPT ![t] = marks \ {s}]
      BY <1>3 DEF AskNext
    <2> USE <1>0, <1>3, <2>1 DEF GoTo
    <2>2. CloudTypeOK'
      BY DEF Holding
    <2>3. AnswersNew'
      BY DEF AnswersNew
    <2>4. MarksOld' /\ BillAfterStop'
      BY DEF MarksOld, BillAfterStop, Asked
    <2>5. Traced' /\ SweptClean'
      BY DEF Traced, SweptClean
    <2>6. SweepSparesOwn'
      <3>1. \A r \in marks : born[r] \in 1..life-1
        BY DEF MarksOld
      <3> QED
        BY <3>1 DEF SweepSparesOwn
    <2> QED
      BY <2>2, <2>3, <2>4, <2>5, <2>6
  <1> QED
    BY <1>1, <1>2, <1>3 DEF Begin

LEMMA SweepAnswerKeeps ==
  ASSUME CloudInv, NEW t \in CloudTask, SweepAnswer(t)
  PROVE  CloudInv'
  <1> USE DEF CloudInv, CloudTypeOK, GoTo
  <1>0. /\ step[t] = "sweep" /\ held[t] \in Session /\ marks' = marks \ {held[t]}
        /\ UNCHANGED <<life, remote, born>>
    BY DEF SweepAnswer, Holding
  <1>1. /\ remote[held[t]] = "released" \/ held[t] \in refused'
        /\ refused \subseteq refused' /\ refused' \subseteq Session
    BY <1>0, StoppedIsAsked DEF SweepAnswer
  <1>2. Traced'
    BY <1>0, <1>1 DEF Traced, Asked
  <1>3. CASE todo[t] = {} /\ AfterSweep(t) /\ UNCHANGED todo
    <2> USE DEF AfterSweep
    <2>1. CloudTypeOK'
      BY <1>0, <1>1, <1>3 DEF Holding
    <2>2. AnswersNew' /\ MarksOld' /\ BillAfterStop'
      BY <1>0, <1>1, <1>3 DEF AnswersNew, MarksOld, BillAfterStop, Asked
    <2>3. SweepSparesOwn'
      BY <1>0, <1>3 DEF SweepSparesOwn
    <2>4. SweptClean'
      <3>1. CASE swept
        BY <1>0, <1>1, <3>1 DEF SweptClean
      <3>2. CASE ~swept
        <4>1. marks' = {}
          BY <1>0, <1>3, <3>2 DEF MarksOld
        <4> QED
          BY <4>1, <1>2 DEF SweptClean, Traced
      <3> QED
        BY <3>1, <3>2
    <2> QED
      BY <1>2, <2>1, <2>2, <2>3, <2>4
  <1>4. CASE AskNext(t, todo[t]) /\ UNCHANGED <<step, swept>>
    <2>1. PICK s \in todo[t] : /\ held' = [held EXCEPT ![t] = s]
                               /\ todo' = [todo EXCEPT ![t] = todo[t] \ {s}]
      BY <1>4 DEF AskNext
    <2>2. CloudTypeOK'
      BY <1>0, <1>1, <1>4, <2>1 DEF Holding
    <2>3. AnswersNew'
      BY <1>0, <1>4, <2>1 DEF AnswersNew
    <2>4. MarksOld'
      <3>1. ~swept => marks' \subseteq todo[t]
        BY <1>0 DEF MarksOld
      <3>2. ASSUME ~swept, NEW u \in CloudTask, step[u] = "sweep"
            PROVE  marks' \subseteq todo'[u] \cup {held'[u]}
        <4>1. CASE u = t
          BY <3>1, <3>2, <2>1, <4>1
        <4>2. CASE u # t
          BY <1>0, <3>2, <2>1, <4>2 DEF MarksOld
        <4> QED
          BY <4>1, <4>2
      <3> QED
        BY <1>0, <1>4, <3>2 DEF MarksOld
    <2>5. BillAfterStop'
      BY <1>0, <1>1, <1>4, <2>1 DEF BillAfterStop, Asked
    <2>6. SweepSparesOwn'
      BY <1>0, <1>4, <2>1 DEF SweepSparesOwn
    <2>7. SweptClean'
      BY <1>0, <1>1, <1>4 DEF SweptClean
    <2> QED
      BY <1>2, <2>2, <2>3, <2>4, <2>5, <2>6, <2>7
  <1> QED
    BY <1>3, <1>4 DEF SweepAnswer

\* The provider acts between the request and the answer: it opens a session, or
\* releases one that was asked for.
LEMMA ProviderKeeps ==
  ASSUME CloudInv, NEW t \in CloudTask, ProviderStops(t) \/ ProviderCreates(t)
  PROVE  CloudInv'
  <1> USE DEF CloudInv, CloudTypeOK
  <1>1. CASE ProviderStops(t)
    <2>1. /\ held[t] \in Session /\ remote[held[t]] = "live"
          /\ remote' = [remote EXCEPT ![held[t]] = "released"]
          /\ UNCHANGED <<life, swept, marks, born, step, held, todo, refused>>
      BY <1>1 DEF ProviderStops, Stops, Holding, taskVars
    <2>2. CloudTypeOK' /\ AnswersNew'
      BY <2>1 DEF AnswersNew, Holding
    <2>3. MarksOld' /\ BillAfterStop'
      BY <2>1 DEF MarksOld, BillAfterStop, Asked, Holding
    <2>4. Traced' /\ SweepSparesOwn' /\ SweptClean'
      BY <2>1 DEF Traced, SweepSparesOwn, SweptClean
    <2> QED
      BY <2>2, <2>3, <2>4
  <1>2. CASE ProviderCreates(t)
    <2>1. PICK s \in Session : /\ remote[s] = "none"
                               /\ remote' = [remote EXCEPT ![s] = "live"]
                               /\ held' = [held EXCEPT ![t] = s]
      BY <1>2 DEF ProviderCreates
    <2>2. /\ step[t] = "create" /\ step' = [step EXCEPT ![t] = "answer"]
          /\ UNCHANGED <<life, swept, marks, born, todo, refused>>
      BY <1>2 DEF ProviderCreates, GoTo
    <2>3. CloudTypeOK'
      BY <2>1, <2>2 DEF Holding
    <2>4. AnswersNew'
      BY <2>1, <2>2 DEF AnswersNew, Holding
    <2>5. MarksOld'
      BY <2>1, <2>2 DEF MarksOld
    <2>6. BillAfterStop'
      BY <2>1, <2>2 DEF BillAfterStop, Asked, Holding
    <2>7. Traced' /\ SweepSparesOwn' /\ SweptClean'
      BY <2>1, <2>2 DEF Traced, SweepSparesOwn, SweptClean
    <2> QED
      BY <2>3, <2>4, <2>5, <2>6, <2>7
  <1> QED
    BY <1>1, <1>2

\* The answer: the marker is written before the task can be cancelled again.
LEMMA CreatedKeeps ==
  ASSUME CloudInv, NEW t \in CloudTask, Created(t)
  PROVE  CloudInv'
  <1> USE DEF CloudInv, CloudTypeOK
  <1>1. /\ step[t] = "answer" /\ held[t] \in Session
        /\ marks' = marks \cup {held[t]} /\ born' = [born EXCEPT ![held[t]] = life]
        /\ UNCHANGED <<life, swept, remote, held, todo, refused>>
    BY DEF Created, Holding
  <1>2. PICK where \in {"debug", "poll", "setup"} : step' = [step EXCEPT ![t] = where]
    BY DEF Created, GoTo
  <1>3. swept /\ born[held[t]] = 0
    BY <1>1 DEF MarksOld, AnswersNew
  <1>4. CloudTypeOK'
    BY <1>1, <1>2 DEF Holding
  <1>5. AnswersNew'
    BY <1>1, <1>2 DEF AnswersNew, Holding
  <1>6. MarksOld'
    BY <1>1, <1>2, <1>3 DEF MarksOld
  <1>7. BillAfterStop'
    BY <1>1, <1>2 DEF BillAfterStop, Asked
  <1>8. Traced'
    BY <1>1 DEF Traced
  <1>9. SweepSparesOwn'
    BY <1>1, <1>2, <1>3 DEF SweepSparesOwn
  <1>10. SweptClean'
    BY <1>1, <1>3 DEF SweptClean
  <1> QED
    BY <1>4, <1>5, <1>6, <1>7, <1>8, <1>9, <1>10

\* The last answer of a session, and the bill that may come after it.
LEMMA ExitKeeps ==
  ASSUME CloudInv, NEW t \in CloudTask, Unwind(t) \/ ExitAnswer(t) \/ Cost(t)
  PROVE  CloudInv'
  <1> USE DEF CloudInv, CloudTypeOK, GoTo
  <1>1. CASE Unwind(t)
    <2>1. step[t] \in Holding \ {"sweep"} /\ held[t] \in Session /\ Stopped(held[t])
      BY <1>1 DEF Unwind, Holding
    <2>2. /\ marks' = marks \ {held[t]} /\ step' = [step EXCEPT ![t] = "failed"]
          /\ UNCHANGED <<life, swept, remote, born, held, todo>>
      BY <1>1 DEF Unwind
    <2> QED
      BY <2>1, <2>2, StoppedIsAsked, StopsThenForgets
  <1>2. CASE ExitAnswer(t)
    <2>1. /\ step[t] = "exit" /\ held[t] \in Session
          /\ UNCHANGED <<life, swept, remote, born, held, todo>>
      BY <1>2 DEF ExitAnswer, Holding
    <2>2. /\ remote[held[t]] = "released" \/ held[t] \in refused'
          /\ refused \subseteq refused' /\ refused' \subseteq Session
      BY <1>2, <2>1, StoppedIsAsked DEF ExitAnswer
    <2>3. CASE marks' = marks \ {held[t]} /\ step' = [step EXCEPT ![t] = "over"]
      BY <2>1, <2>2, <2>3, StopsThenForgets DEF Holding
    <2>4. CASE step' = [step EXCEPT ![t] = "cost"] /\ UNCHANGED marks
      <3>1. CloudTypeOK' /\ AnswersNew'
        BY <2>1, <2>2, <2>4 DEF AnswersNew, Holding
      <3>2. MarksOld'
        BY <2>1, <2>2, <2>4 DEF MarksOld, Holding
      <3>3. BillAfterStop'
        BY <2>1, <2>2, <2>4 DEF BillAfterStop, Asked, Holding
      <3>4. Traced' /\ SweepSparesOwn' /\ SweptClean'
        BY <2>1, <2>2, <2>4 DEF Traced, SweepSparesOwn, SweptClean
      <3> QED
        BY <3>1, <3>2, <3>3, <3>4
    <2> QED
      BY <1>2, <2>3, <2>4 DEF ExitAnswer
  <1>3. CASE Cost(t)
    <2>1. step[t] = "cost" /\ Asked(held[t])
      BY <1>3 DEF Cost, BillAfterStop
    <2>2. /\ marks' = marks \ {held[t]} /\ step' = [step EXCEPT ![t] = "over"]
          /\ UNCHANGED <<life, swept, remote, born, held, todo, refused>>
      BY <1>3 DEF Cost
    <2> QED
      BY <2>1, <2>2, StopsThenForgets DEF Holding, Asked
  <1> QED
    BY <1>1, <1>2, <1>3

LEMMA CloudStepKeeps ==
  ASSUME CloudInv, NEW t \in CloudTask, CloudStep(t)
  PROVE  CloudInv'
  <1> USE DEF GoTo
  <1>t. refused \subseteq Session
    BY DEF CloudInv, CloudTypeOK
  <1>1. CASE Begin(t) \/ SweepAnswer(t)
    BY <1>1, BeginKeeps, SweepAnswerKeeps
  <1>2. CASE ProviderStops(t) \/ ProviderCreates(t)
    BY <1>2, ProviderKeeps
  <1>3. CASE Created(t)
    BY <1>3, CreatedKeeps
  <1>4. CASE CreateFails(t)
    BY <1>4, <1>t, MovesOn DEF CreateFails
  <1>5. CASE Debug(t)
    BY <1>5, <1>t, MovesOn DEF Debug, Holding
  <1>6. CASE Poll(t)
    BY <1>6, <1>t, MovesOn DEF Poll, Holding
  <1>7. CASE Setup(t)
    BY <1>7, <1>t, MovesOn DEF Setup, Holding
  <1>8. CASE CloudExit(t)
    BY <1>8, <1>t, MovesOn DEF CloudExit, Holding
  <1>9. CASE Cancel(t)
    BY <1>9, <1>t, MovesOn DEF Cancel, Holding
  <1>10. CASE Unwind(t) \/ ExitAnswer(t) \/ Cost(t)
    BY <1>10, ExitKeeps
  <1> QED
    BY <1>1, <1>2, <1>3, <1>4, <1>5, <1>6, <1>7, <1>8, <1>9, <1>10 DEF CloudStep

\* A run that is killed anywhere leaves a marker for every session it was told
\* of and did not ask to stop; a sweep never asks for a session of its own run,
\* and leaves nothing of an earlier one.
THEOREM SessionsAreTraced == CloudSpec => []SessionsTraced
  <1>1. CloudInv /\ UNCHANGED cloudVars => CloudInv'
    BY DEF cloudVars, taskVars, CloudInv, CloudTypeOK, AnswersNew, MarksOld, BillAfterStop,
           Asked, Traced, SweepSparesOwn, SweptClean
  <1>2. CloudInv /\ [CloudNext]_cloudVars => CloudInv'
    BY <1>1, KilledKeeps, CloudStepKeeps DEF CloudNext
  <1>3. CloudInv => SessionsTraced
    BY DEF CloudInv, SessionsTraced
  <1> QED
    BY CloudInitInv, <1>2, <1>3, PTL DEF CloudSpec

-----------------------------------------------------------------------------
(* CaptchaWait.                                                               *)

Announcement == {"started", "finished"}

\* A challenge that nobody excused was announced last: on the console, or, when
\* the environment has received everything, in what it watches.
AnnouncedLast ==
  solver = "solving" /\ ~excused =>
    IF console # << >> THEN console[Len(console)] = "started"
    ELSE wait = "watch" /\ events[Len(events)] = "started"

CaptchaInv ==
  /\ solver \in {"idle", "solving"} /\ wait \in {"act", "grace", "watch", "land"}
  /\ console \in Seq(Announcement) /\ events \in Seq(Announcement)
  /\ excused \in BOOLEAN
  /\ wait \in {"act", "grace"} => events = << >>
  /\ wait = "watch" => events # << >>
  /\ AnnouncedLast

LEMMA EmptyAnnouncement == << >> \in Seq(Announcement)
  OBVIOUS

\* What a pump delivers comes last.
LEMMA PumpedLast ==
  ASSUME events \in Seq(Announcement), console \in Seq(Announcement), Pump
  PROVE  /\ events' \in Seq(Announcement) /\ console' = << >>
         /\ console = << >> => events' = events
         /\ console # << >> => events' # << >> /\ events'[Len(events')] = console[Len(console)]
  BY DEF Pump

LEMMA CaptchaKeeps == CaptchaInv /\ [CaptchaNext]_captchaVars => CaptchaInv'
  <1> SUFFICES ASSUME CaptchaInv, [CaptchaNext]_captchaVars PROVE CaptchaInv'
    OBVIOUS
  <1> USE DEF CaptchaInv
  <1>0. CASE UNCHANGED captchaVars
    BY <1>0 DEF captchaVars, AnnouncedLast
  <1>1. CASE Challenge
    <2>1. \A a \in Announcement : /\ Append(console, a) \in Seq(Announcement)
                                  /\ Append(console, a) # << >>
                                  /\ Append(console, a)[Len(Append(console, a))] = a
      OBVIOUS
    <2> QED
      BY <1>1, <2>1 DEF Challenge, AnnouncedLast, Announcement
  <1>2. CASE Look
    <2>1. wait = "act" /\ Pump /\ UNCHANGED <<solver, excused>>
          /\ wait' = IF events' # << >> THEN "watch" ELSE IF fast THEN "act" ELSE "grace"
      BY <1>2 DEF Look
    <2> QED
      BY <2>1, PumpedLast DEF AnnouncedLast
  <1>3. CASE Grace
    <2>1. /\ wait = "grace" /\ Pump /\ UNCHANGED <<solver, excused>>
          /\ \/ events' # << >> /\ wait' = "watch"
             \/ events' = << >> /\ wait' \in {"grace", "act"}
      BY <1>3 DEF Grace
    <2> QED
      BY <2>1, PumpedLast DEF AnnouncedLast
  <1>4. CASE Watch
    <2>1. wait = "watch" /\ Pump /\ UNCHANGED solver
      BY <1>4 DEF Watch
    <2>2. \/ console = << >> /\ Settled /\ wait' = "land" /\ UNCHANGED excused
          \/ UNCHANGED <<wait, excused>>
          \/ wait' = "land" /\ excused' = TRUE
      BY <1>4 DEF Watch
    <2>3. /\ events' \in Seq(Announcement) /\ console' = << >> /\ events' # << >>
          /\ console = << >> => events' = events
          /\ console # << >> => events'[Len(events')] = console[Len(console)]
      BY <2>1, PumpedLast
    <2>4. CASE console = << >> /\ Settled /\ wait' = "land" /\ UNCHANGED excused
      BY <2>1, <2>3, <2>4 DEF AnnouncedLast, Settled
    <2>5. CASE UNCHANGED <<wait, excused>>
      BY <2>1, <2>3, <2>5 DEF AnnouncedLast
    <2>6. CASE wait' = "land" /\ excused' = TRUE
      BY <2>1, <2>3, <2>6 DEF AnnouncedLast
    <2> QED
      BY <2>2, <2>4, <2>5, <2>6
  <1>5. CASE Land
    <2>1. /\ wait' = "act" /\ events' = << >> /\ console' = << >> /\ UNCHANGED solver
          /\ excused' = (excused \/ solver = "solving")
      BY <1>5 DEF Land
    <2>2. events' \in Seq(Announcement) /\ console' \in Seq(Announcement)
      BY <2>1, EmptyAnnouncement
    <2> QED
      BY <2>1, <2>2 DEF AnnouncedLast
  <1> QED
    BY <1>0, <1>1, <1>2, <1>3, <1>4, <1>5 DEF CaptchaNext

\* The environment never acts during a challenge it was told of and has not
\* waited for, for any number of challenges and any of the waiting times.
THEOREM ChallengesRespected == CaptchaSpec => []Respected
  <1>1. CaptchaInit => CaptchaInv
    BY EmptyAnnouncement DEF CaptchaInit, CaptchaInv, AnnouncedLast
  <1>2. CaptchaInv => Respected
    BY DEF CaptchaInv, AnnouncedLast, Respected
  <1> QED
    BY <1>1, <1>2, CaptchaKeeps, PTL DEF CaptchaSpec


\* The values of a function on a finite set are no more than its arguments.
LEMMA FewValues ==
  ASSUME NEW S, IsFiniteSet(S), NEW f, f = [x \in S |-> f[x]]
  PROVE  LET R == {f[x] : x \in S}
         IN  IsFiniteSet(R) /\ Cardinality(R) <= Cardinality(S)
  <1> DEFINE R == {f[x] : x \in S}
  <1>1. f \in Surjection(S, R)
    BY DEF Surjection
  <1> QED
    BY <1>1, FS_Surjection

\* There is an inode left for a lock file: the paths and the descriptors of the
\* tasks, one of which holds none, cannot use them all up.
LEMMA InodeFree ==
  ASSUME LocalAssumption, TypeOK, NEW t \in Task, fd[t] = 0
  PROVE  \E i \in Inode : (\A q \in Port : file[q] # i) /\ (\A u \in Task : fd[u] # i)
  <1> DEFINE F == {file[q] : q \in Port}
             D == {fd[u] : u \in Task}
             X == F \cup D
  <1>1. IsFiniteSet(Port) /\ Cardinality(Port) = NumPorts
    BY FS_Interval DEF Port, LocalAssumption
  <1>2. IsFiniteSet(F) /\ Cardinality(F) <= NumPorts
    BY <1>1, FewValues DEF TypeOK
  <1>3. IsFiniteSet(D) /\ Cardinality(D) <= Cardinality(Task)
    BY FewValues DEF TypeOK, LocalAssumption
  <1>4. /\ Cardinality(Task) \in Nat /\ Cardinality(F) \in Nat /\ Cardinality(D) \in Nat
        /\ Cardinality(F \cap D) \in Nat
    <2>1. IsFiniteSet(F \cap D)
      BY <1>2, FS_Subset
    <2> QED
      BY <1>2, <1>3, <2>1, FS_CardinalityType DEF LocalAssumption
  <1>5. IsFiniteSet(X) /\ Cardinality(X) <= NumPorts + Cardinality(Task)
    <2>1. IsFiniteSet(X) /\ Cardinality(X) = Cardinality(F) + Cardinality(D) - Cardinality(F \cap D)
      BY <1>2, <1>3, FS_Union
    <2> QED
      BY <2>1, <1>2, <1>3, <1>4 DEF LocalAssumption
  <1>6. 0 \in X
    OBVIOUS
  <1>7. IsFiniteSet(X \ {0}) /\ Cardinality(X \ {0}) = Cardinality(X) - 1
    BY <1>5, <1>6, FS_RemoveElement
  <1>8. Cardinality(Inode) = NumPorts + Cardinality(Task)
    BY <1>4, FS_Interval DEF Inode, LocalAssumption
  <1>9. ~(Inode \subseteq X \ {0})
    <2> HIDE DEF X
    <2>1. Cardinality(X) \in Nat
      BY <1>5, FS_CardinalityType
    <2>2. ASSUME Inode \subseteq X \ {0} PROVE FALSE
      <3>1. Cardinality(Inode) <= Cardinality(X \ {0})
        BY <1>7, <2>2, FS_Subset
      <3> QED
        BY <3>1, <1>4, <1>5, <1>7, <1>8, <2>1 DEF LocalAssumption
    <2> QED
      BY <2>2
  <1>10. PICK i \in Inode : i \notin X \ {0}
    BY <1>9
  <1>11. i # 0
    BY <1>4 DEF Inode, LocalAssumption
  <1> QED
    BY <1>10, <1>11

-----------------------------------------------------------------------------
(* The conjuncts of LocalInv, one at a time.                                  *)

\* The semaphore is the quota less the slots that are taken.
LEMMA SemRange ==
  ASSUME LocalAssumption, LocalInv, NEW t \in Task
  PROVE  /\ Home[t] \in Worker
         /\ sem[Home[t]] \in 0 .. MaxProcesses
         /\ slot[t] => sem[Home[t]] + 1 <= MaxProcesses
  <1>1. IsFiniteSet(Held(Home[t])) /\ Cardinality(Held(Home[t])) \in Nat
    BY FS_Subset, FS_CardinalityType DEF Held, LocalAssumption
  <1>2. slot[t] => Cardinality(Held(Home[t])) # 0
    <2>1. slot[t] => t \in Held(Home[t])
      BY DEF Held
    <2> QED
      BY <1>1, <2>1, FS_EmptySet
  <1> QED
    BY <1>1, <1>2 DEF LocalInv, TypeOK, LocalAssumption

\* Types.
LEMMA TypeStep == LocalAssumption /\ LocalInv /\ [Next]_vars => TypeOK'
  <1> SUFFICES ASSUME LocalAssumption, LocalInv, [Next]_vars PROVE TypeOK'
    OBVIOUS
  <1> USE DEF vars, locks, pool, child, closing, env
  <1>0. CASE UNCHANGED vars
    BY <1>0 DEF LocalInv, TypeOK
  <1>1. ASSUME NEW t \in Task, Create(t) \/ Use(t) \/ Exit(t) \/ Bind(t) \/ Die(t) \/ Crash(t)
        PROVE  TypeOK'
    <2> USE LocalInv DEF TypeOK
    <2>a. Holds(t) /\ Home[t] \in Worker
      BY DEF LocalInv, LocalAssumption
    <2>1. CASE Start(t)
      BY <2>1, <2>a DEF Start, At, Scheduled, Go, Await, LocalInv
    <2>2. CASE SlotTaken(t)
      BY <2>2, <2>a, SemRange DEF SlotTaken, At, Scheduled, Go, Keep, LocalInv,
         Holds, Searching, LocalAssumption, Port
    <2>3. CASE SlotTimeout(t)
      BY <2>3, <2>a DEF SlotTimeout, At, Scheduled, Go, Await, NoFault, Cancelled,
         LocalInv
    <2>4. CASE RangeExhausted(t)
      BY <2>4, <2>a, SemRange DEF RangeExhausted, At, Scheduled, GiveSlotBack, Go,
         Await, LocalInv, Holds, Searching, LocalAssumption, Port
    <2>5. CASE OpenLockFile(t)
      <3>1. fd[t] = 0 /\ port[t] \in Port
        BY <2>5, <2>a DEF OpenLockFile, At, Holds
      <3>2. \E i \in Inode : (\A q \in Port : file[q] # i) /\ (\A u \in Task : fd[u] # i)
        BY <3>1, InodeFree DEF LocalInv
      <3>3. PICK i \in Inode : file' = [file EXCEPT ![port[t]] = i] /\ fd' = [fd EXCEPT ![t] = i]
        BY <2>5, <3>1, <3>2 DEF OpenLockFile, LocalInv
      <3> QED
        BY <2>5, <3>3 DEF OpenLockFile, LocalInv, Go, Keep
    <2>6. CASE LockPort(t)
      BY <2>6, <2>a DEF LockPort, At, Scheduled, Go, Keep, LocalInv
    <2>7. CASE PortLocked(t)
      BY <2>7, <2>a, SemRange, SMTT(30) DEF PortLocked, At, Scheduled, NextPort, Go, Keep,
         LocalInv, Holds, Searching, LocalAssumption, Port
    <2>8. CASE PortInUse(t)
      BY <2>8, <2>a, SemRange DEF PortInUse, At, Scheduled, NextPort, Go, Keep,
         LocalInv, Holds, Searching, LocalAssumption, Port
    <2>9. CASE SpawnServer(t)
      BY <2>9, <2>a DEF SpawnServer, At, Scheduled, Go, Await, LocalInv
    <2>10. CASE SpawnFails(t)
      BY <2>10, <2>a DEF SpawnFails, At, Scheduled, Go, Keep, Fault, LocalInv
    <2>11. CASE HealthOk(t)
      BY <2>11, <2>a DEF HealthOk, At, Scheduled, Go, Await, LocalInv
    <2>12. CASE HealthFails(t)
      BY <2>12, <2>a DEF HealthFails, At, Scheduled, Go, Keep, Await, Fault,
         NoFault, Cancelled, Running, LocalInv
    <2>13. CASE ResetOk(t)
      BY <2>13, <2>a DEF ResetOk, At, Scheduled, Go, Await, LocalInv
    <2>14. CASE ResetFails(t)
      BY <2>14, <2>a DEF ResetFails, At, Scheduled, Fault, NoFault, Cancelled,
         Terminate, Go, Keep, Await, Running, LocalInv
    <2>15. CASE StepFails(t)
      BY <2>15, <2>a DEF StepFails, At, Scheduled, Fault, NoFault, Terminate, Go,
         Keep, Await, Running, LocalInv
    <2>16. CASE Finish(t)
      BY <2>16, <2>a DEF Finish, At, Scheduled, Go, Keep, Await, Running, LocalInv
    <2>17. CASE ExitPosted(t)
      BY <2>17, <2>a DEF ExitPosted, At, Scheduled, Terminate, Go, Keep, Await,
         Running, LocalInv
    <2>18. CASE TermTimeout(t)
      BY <2>18, <2>a DEF TermTimeout, At, Scheduled, Go, Await, Running, LocalInv
    <2>19. CASE Reaped(t)
      BY <2>19, <2>a DEF Reaped, Scheduled, Go, Keep, LocalInv
    <2>20. CASE CleanupCancelled(t)
      BY <2>20, <2>a DEF CleanupCancelled, Scheduled, Go, Await, Cancelled, LocalInv
    <2>21. CASE Unlock(t)
      BY <2>21, <2>a DEF Unlock, At, Scheduled, Go, Keep, LocalInv
    <2>22. CASE Unlink(t)
      BY <2>22, <2>a, SemRange DEF Unlink, At, Scheduled, GiveSlotBack, Go, Await,
         LocalInv, Holds, Searching, LocalAssumption, Port
    <2>23. CASE Bind(t)
      BY <2>23, <2>a DEF Bind, NoFault, Dead, LocalInv
    <2>24. CASE Die(t)
      BY <2>24, <2>a DEF Die, NoFault, Running, Dead, LocalInv
    <2>25. CASE Crash(t)
      BY <2>25, <2>a DEF Crash, Fault, Running, Dead, LocalInv
    <2>26. CASE KillTimeout(t)
      BY <2>26, <2>a DEF KillTimeout, At, Scheduled, Go, Keep, Running, LocalInv
    <2> QED
      BY <1>1, <2>1, <2>2, <2>3, <2>4, <2>5, <2>6, <2>7, <2>8, <2>9, <2>10, <2>11, <2>12, <2>13,
         <2>14, <2>15, <2>16, <2>17, <2>18, <2>19, <2>20, <2>21, <2>22, <2>23, <2>24, <2>25, <2>26
         DEF Create, Use, Exit
  <1> QED
    BY <1>0, <1>1 DEF Next, Idle

\* What the tasks hold.
LEMMA HoldsStep == LocalAssumption /\ LocalInv /\ [Next]_vars => \A u \in Task : Holds(u)'
  <1> SUFFICES ASSUME LocalAssumption, LocalInv, [Next]_vars, NEW u \in Task PROVE Holds(u)'
    OBVIOUS
  <1> USE DEF vars, locks, pool, child, closing, env, Holds, Searching, Leasing, Running
  <1>a. Holds(u) /\ TypeOK /\ None \notin Task
    BY DEF LocalInv, LocalAssumption
  <1>0. CASE UNCHANGED vars
    BY <1>0, <1>a
  <1>1. ASSUME NEW t \in Task, Create(t) \/ Use(t) \/ Exit(t) \/ Bind(t) \/ Die(t) \/ Crash(t)
        PROVE  Holds(u)'
    <2> USE <1>a DEF TypeOK
    <2>a. Holds(t)
      BY DEF LocalInv
    <2>1. CASE Start(t)
      BY <2>1, <2>a DEF Start, At, Go
    <2>2. CASE SlotTaken(t)
      BY <2>2, <2>a DEF SlotTaken, At, Go, Port, LocalAssumption
    <2>3. CASE SlotTimeout(t)
      BY <2>3, <2>a DEF SlotTimeout, At, Go
    <2>4. CASE RangeExhausted(t)
      BY <2>4, <2>a DEF RangeExhausted, At, GiveSlotBack, Go
    <2>5. CASE OpenLockFile(t)
      <3>1. fd[t] = 0 /\ port[t] \in Port
        BY <2>5, <2>a DEF OpenLockFile, At
      <3>2. \E i \in Inode : (\A q \in Port : file[q] # i) /\ (\A v \in Task : fd[v] # i)
        BY <3>1, InodeFree
      <3>3. PICK i \in Inode : fd' = [fd EXCEPT ![t] = i]
        BY <2>5, <3>1, <3>2 DEF OpenLockFile
      <3>4. /\ pc[t] = "open" /\ pc' = [pc EXCEPT ![t] = "flock"]
            /\ UNCHANGED <<flock, port, lease, slot, server, signal, overdue>>
        BY <2>5 DEF OpenLockFile, At, Go
      <3> QED
        BY <2>a, <3>1, <3>3, <3>4
    <2>6. CASE LockPort(t)
      BY <2>6, <2>a DEF LockPort, At, Go
    <2>7. CASE PortLocked(t)
      BY <2>7, <2>a DEF PortLocked, At, NextPort, Go, Port, LocalAssumption
    <2>8. CASE PortInUse(t)
      BY <2>8, <2>a DEF PortInUse, At, NextPort, Go, Port, LocalAssumption
    <2>9. CASE SpawnServer(t)
      BY <2>9, <2>a DEF SpawnServer, At, Go
    <2>10. CASE SpawnFails(t)
      BY <2>10, <2>a DEF SpawnFails, At, Go
    <2>11. CASE HealthOk(t)
      BY <2>11, <2>a DEF HealthOk, At, Go
    <2>12. CASE HealthFails(t)
      BY <2>12, <2>a DEF HealthFails, At, Go
    <2>13. CASE ResetOk(t)
      BY <2>13, <2>a DEF ResetOk, At, Go
    <2>14. CASE ResetFails(t)
      BY <2>14, <2>a DEF ResetFails, At, Terminate, Go
    <2>15. CASE StepFails(t)
      BY <2>15, <2>a DEF StepFails, At, Terminate, Go
    <2>16. CASE Finish(t)
      BY <2>16, <2>a DEF Finish, At, Go
    <2>17. CASE ExitPosted(t)
      BY <2>17, <2>a DEF ExitPosted, At, Terminate, Go
    <2>18. CASE TermTimeout(t)
      BY <2>18, <2>a DEF TermTimeout, At, Go
    <2>19. CASE Reaped(t)
      BY <2>19, <2>a DEF Reaped, Go
    <2>20. CASE CleanupCancelled(t)
      BY <2>20, <2>a DEF CleanupCancelled, Go
    <2>21. CASE Unlock(t)
      BY <2>21, <2>a DEF Unlock, At, Go
    <2>22. CASE Unlink(t)
      BY <2>22, <2>a DEF Unlink, At, GiveSlotBack, Go
    <2>23. CASE Bind(t)
      BY <2>23, <2>a DEF Bind, Dead
    <2>24. CASE Die(t)
      BY <2>24, <2>a DEF Die, Dead
    <2>25. CASE Crash(t)
      BY <2>25, <2>a DEF Crash, Dead
    <2>26. CASE KillTimeout(t)
      BY <2>26, <2>a DEF KillTimeout, At, Go
    <2> QED
      BY <1>1, <2>1, <2>2, <2>3, <2>4, <2>5, <2>6, <2>7, <2>8, <2>9, <2>10, <2>11, <2>12, <2>13,
         <2>14, <2>15, <2>16, <2>17, <2>18, <2>19, <2>20, <2>21, <2>22, <2>23, <2>24, <2>25, <2>26
         DEF Create, Use, Exit
  <1> QED
    BY <1>0, <1>1 DEF Next, Idle

\* The semaphore and the slots taken.
LEMMA PoolStep ==
  LocalAssumption /\ LocalInv /\ [Next]_vars
    => \A w \in Worker : sem'[w] + Cardinality(Held(w)') = MaxProcesses
  <1> SUFFICES ASSUME LocalAssumption, LocalInv, [Next]_vars, NEW w \in Worker
               PROVE  sem'[w] + Cardinality(Held(w)') = MaxProcesses
    OBVIOUS
  <1> USE DEF vars, locks, pool, child, closing, env
  <1>a. /\ TypeOK /\ sem[w] + Cardinality(Held(w)) = MaxProcesses
        /\ IsFiniteSet(Held(w)) /\ Cardinality(Held(w)) \in Nat /\ sem[w] \in Int
    <2>1. IsFiniteSet(Held(w))
      BY FS_Subset DEF Held, LocalAssumption
    <2> QED
      BY <2>1, FS_CardinalityType DEF LocalInv, TypeOK
  <1>s. CASE UNCHANGED pool
    BY <1>s, <1>a DEF Held
  <1>1. ASSUME NEW t \in Task, SlotTaken(t) PROVE sem'[w] + Cardinality(Held(w)') = MaxProcesses
    <2>1. ~slot[t]
      BY <1>1 DEF SlotTaken, At, LocalInv, Holds
    <2>2. sem' = [sem EXCEPT ![Home[t]] = @ - 1] /\ slot' = [slot EXCEPT ![t] = TRUE]
      BY <1>1 DEF SlotTaken
    <2>3. CASE Home[t] = w
      <3>1. Held(w)' = Held(w) \cup {t} /\ t \notin Held(w)
        BY <1>a, <2>1, <2>2, <2>3 DEF Held, TypeOK
      <3>2. Cardinality(Held(w)') = Cardinality(Held(w)) + 1
        BY <1>a, <3>1, FS_AddElement
      <3> QED
        BY <1>a, <2>2, <2>3, <3>2 DEF TypeOK
    <2>4. CASE Home[t] # w
      <3>1. Held(w)' = Held(w)
        BY <1>a, <2>2, <2>4 DEF Held, TypeOK
      <3> QED
        BY <1>a, <2>2, <2>4, <3>1 DEF TypeOK
    <2> QED
      BY <2>3, <2>4
  <1>2. ASSUME NEW t \in Task, RangeExhausted(t) \/ Unlink(t)
        PROVE  sem'[w] + Cardinality(Held(w)') = MaxProcesses
    <2>1. slot[t]
      BY <1>2 DEF RangeExhausted, Unlink, At, LocalInv, Holds, Searching
    <2>2. sem' = [sem EXCEPT ![Home[t]] = @ + 1] /\ slot' = [slot EXCEPT ![t] = FALSE]
      BY <1>2 DEF RangeExhausted, Unlink, GiveSlotBack
    <2>3. CASE Home[t] = w
      <3>1. Held(w)' = Held(w) \ {t} /\ t \in Held(w)
        BY <1>a, <2>1, <2>2, <2>3 DEF Held, TypeOK
      <3>2. Cardinality(Held(w)') = Cardinality(Held(w)) - 1
        BY <1>a, <3>1, FS_RemoveElement, ZenonT(30)
      <3> QED
        BY <1>a, <2>2, <2>3, <3>2 DEF TypeOK
    <2>4. CASE Home[t] # w
      <3>1. Held(w)' = Held(w)
        BY <1>a, <2>2, <2>4 DEF Held, TypeOK
      <3> QED
        BY <1>a, <2>2, <2>4, <3>1 DEF TypeOK
    <2> QED
      BY <2>3, <2>4
  <1> QED
    BY <1>s, <1>1, <1>2
    DEF Next, Idle, Create, Use, Exit, Start, SlotTimeout, OpenLockFile, LockPort, PortLocked,
        PortInUse, NextPort, SpawnServer, SpawnFails, HealthOk, HealthFails, ResetOk, ResetFails,
        StepFails, Finish, ExitPosted, TermTimeout, KillTimeout, Reaped, CleanupCancelled, Unlock, Bind, Die,
        Crash, Dead

-----------------------------------------------------------------------------
(* The theorems.                                                              *)

\* The invariant is inductive: no interleaving of workers, no failure and no
\* cancellation leaves a task with less than what its place in the code needs.
THEOREM LocalInvariance == Spec => []LocalInv
  <1> USE LocalAssumption
  <1>1. Init => LocalInv
    <2> SUFFICES ASSUME Init PROVE LocalInv
      OBVIOUS
    <2>1. TypeOK
      BY DEF Init, TypeOK, LocalAssumption
    <2>2. \A t \in Task : Holds(t)
      BY DEF Init, Holds, Searching, Leasing, Running
    <2>3. ASSUME NEW w \in Worker PROVE sem[w] + Cardinality(Held(w)) = MaxProcesses
      <3>1. Held(w) = {}
        BY DEF Init, Held
      <3> QED
        BY <3>1, FS_EmptySet DEF Init, LocalAssumption
    <2> QED
      BY <2>1, <2>2, <2>3 DEF LocalInv
  <1>2. LocalInv /\ [Next]_vars => LocalInv'
    BY TypeStep, HoldsStep, PoolStep DEF LocalInv
  <1> QED
    BY <1>1, <1>2, PTL DEF Spec

\* The quota of a worker holds for all its processes, the dying ones included,
\* but for those that outlive the wait that follows SIGKILL.
THEOREM QuotaHolds == Spec => []Quota
  <1>1. LocalInv => Quota
    <2> SUFFICES ASSUME LocalInv, NEW w \in Worker
                 PROVE  Cardinality(Counted(w)) <= MaxProcesses
      BY DEF Quota
    <2> DEFINE R == Counted(w)
    <2>1. R \subseteq Held(w)
      BY DEF LocalInv, Holds, Held, Counted
    <2>2. IsFiniteSet(Held(w))
      BY LocalAssumption, FS_Subset DEF Held, LocalAssumption
    <2>3. Cardinality(R) <= Cardinality(Held(w)) /\ IsFiniteSet(R)
      BY <2>1, <2>2, FS_Subset
    <2>4. Cardinality(R) \in Nat /\ Cardinality(Held(w)) \in Nat
      BY <2>2, <2>3, FS_CardinalityType
    <2>5. sem[w] \in Nat /\ sem[w] + Cardinality(Held(w)) = MaxProcesses
      BY DEF LocalInv, TypeOK
    <2> QED
      BY <2>3, <2>4, <2>5, LocalAssumption DEF LocalAssumption
  <1> QED
    BY <1>1, LocalInvariance, PTL

\* A server that may still run has the lease of its port and the lock behind it,
\* unless it was sent SIGKILL and has not ended within the wait that follows.
THEOREM LeaseIsKept == Spec => []LeaseOutlivesServer
  <1>1. LocalInv => LeaseOutlivesServer
    BY DEF LocalInv, Holds, LeaseOutlivesServer
  <1> QED
    BY <1>1, LocalInvariance, PTL

-----------------------------------------------------------------------------
(* A machine with one worker.  Everything from opening a lock file to the     *)
(* lease, and from releasing it to the unlink, is one stretch without awaits, *)
(* so no other task of the worker runs in between.                            *)

SingleWorker == \A t, u \in Task : Home[t] = Home[u]

\* A task inside such a stretch has the event loop.
Stretch  == Searching \cup {"unlock", "unlink"}
LoopHeld == \A t \in Task : pc[t] \in Stretch => loop[Home[t]] = t

\* The lock file that was opened is still the one its path names.
PathNames == \A t \in Task : lease[t] \/ pc[t] \in {"flock", "probe"} => file[port[t]] = fd[t]

\* Nobody has, is about to have or is about to unlink the port of a lease.
PortsApart ==
  \A t, u \in Task : t # u /\ lease[u] /\ (lease[t] \/ pc[t] \in {"probe", "unlink"})
                      => port[t] # port[u]

\* No server is up on the port of another one's lease, not even a server that
\* outlived the wait after SIGKILL and the lease it was started under.
ServersApart ==
  \A t, u \in Task : t # u /\ server[t] = "up" /\ lease[u] => port[t] # port[u]

\* A task talks to its own child, which has no other environment than its own.
OwnChild == /\ \A t \in Task : pc[t] \in {"reset", "run", "exitPost"} => peer[t] = t
            /\ \A t \in Task : hosts[t] \in {None, t}

\* The inductive invariant of one worker.
FreshInv == LoopHeld /\ PathNames /\ PortsApart /\ ServersApart /\ OwnChild

\* Who has the event loop.
LEMMA LoopStep ==
  SingleWorker /\ LocalAssumption /\ LocalInv /\ FreshInv /\ [Next]_vars => LoopHeld'
  <1> SUFFICES ASSUME SingleWorker, LocalAssumption, LocalInv, FreshInv, [Next]_vars, NEW u \in Task
               PROVE  (pc[u] \in Stretch => loop[Home[u]] = u)'
    BY DEF LoopHeld
  <1> USE DEF vars, locks, pool, child, closing, env, Stretch, Searching
  <1>a. TypeOK /\ None \notin Task /\ Home \in [Task -> Worker] /\ \A v \in Task : Holds(v)
    BY DEF LocalInv, LocalAssumption
  <1>0. CASE UNCHANGED vars
    BY <1>0 DEF FreshInv, LoopHeld
  <1>1. ASSUME NEW t \in Task, Create(t) \/ Use(t) \/ Exit(t) \/ Bind(t) \/ Die(t) \/ Crash(t)
        PROVE  (pc[u] \in Stretch => loop[Home[u]] = u)'
    <2> USE <1>a DEF TypeOK
    <2>a. /\ pc[u] \in Stretch => loop[Home[u]] = u
          /\ pc[t] \in Stretch => loop[Home[t]] = t
          /\ Home[t] = Home[u] /\ Home[t] \in Worker
      BY DEF FreshInv, LoopHeld, SingleWorker
    <2>1. CASE Start(t)
      BY <2>1, <2>a DEF Start, At, Scheduled, Go, Keep, Await
    <2>2. CASE SlotTaken(t)
      BY <2>2, <2>a DEF SlotTaken, At, Scheduled, Go, Keep, Await
    <2>3. CASE SlotTimeout(t)
      BY <2>3, <2>a DEF SlotTimeout, At, Scheduled, Go, Keep, Await
    <2>4. CASE RangeExhausted(t)
      BY <2>4, <2>a DEF RangeExhausted, At, Scheduled, Go, GiveSlotBack, Keep, Await
    <2>5. CASE OpenLockFile(t)
      BY <2>5, <2>a DEF OpenLockFile, At, Scheduled, Go, Keep, Await
    <2>6. CASE LockPort(t)
      BY <2>6, <2>a DEF LockPort, At, Scheduled, Go, Keep, Await
    <2>7. CASE PortLocked(t)
      BY <2>7, <2>a DEF PortLocked, At, Scheduled, Go, NextPort, Keep, Await
    <2>8. CASE PortInUse(t)
      BY <2>8, <2>a DEF PortInUse, At, Scheduled, Go, NextPort, Keep, Await
    <2>9. CASE SpawnServer(t)
      BY <2>9, <2>a DEF SpawnServer, At, Scheduled, Go, Keep, Await
    <2>10. CASE SpawnFails(t)
      BY <2>10, <2>a DEF SpawnFails, At, Scheduled, Go, Keep, Await
    <2>11. CASE HealthOk(t)
      BY <2>11, <2>a DEF HealthOk, At, Scheduled, Go, Keep, Await
    <2>12. CASE HealthFails(t)
      BY <2>12, <2>a DEF HealthFails, At, Scheduled, Go, Keep, Await
    <2>13. CASE ResetOk(t)
      BY <2>13, <2>a DEF ResetOk, At, Scheduled, Go, Keep, Await
    <2>14. CASE ResetFails(t)
      BY <2>14, <2>a DEF ResetFails, At, Scheduled, Go, Terminate, Keep, Await
    <2>15. CASE StepFails(t)
      BY <2>15, <2>a DEF StepFails, At, Scheduled, Go, Terminate, Keep, Await
    <2>16. CASE Finish(t)
      BY <2>16, <2>a DEF Finish, At, Scheduled, Go, Keep, Await
    <2>17. CASE ExitPosted(t)
      BY <2>17, <2>a DEF ExitPosted, At, Scheduled, Go, Terminate, Keep, Await
    <2>18. CASE TermTimeout(t)
      BY <2>18, <2>a DEF TermTimeout, At, Scheduled, Go, Keep, Await
    <2>19. CASE Reaped(t)
      BY <2>19, <2>a DEF Reaped, At, Scheduled, Go, Keep
    <2>20. CASE CleanupCancelled(t)
      BY <2>20, <2>a DEF CleanupCancelled, At, Scheduled, Go, Await
    <2>21. CASE Unlock(t)
      BY <2>21, <2>a DEF Unlock, At, Scheduled, Go, Keep, Await
    <2>22. CASE Unlink(t)
      BY <2>22, <2>a DEF Unlink, At, Scheduled, Go, GiveSlotBack, Keep, Await
    <2>23. CASE Bind(t)
      BY <2>23, <2>a DEF Bind, Dead
    <2>24. CASE Die(t)
      BY <2>24, <2>a DEF Die, Dead
    <2>25. CASE Crash(t)
      BY <2>25, <2>a DEF Crash, Dead
    <2>26. CASE KillTimeout(t)
      BY <2>26, <2>a DEF KillTimeout, At, Scheduled, Go, Keep, Await
    <2> QED
      BY <1>1, <2>1, <2>2, <2>3, <2>4, <2>5, <2>6, <2>7, <2>8, <2>9, <2>10, <2>11, <2>12, <2>13, <2>14, <2>15, <2>16, <2>17, <2>18, <2>19, <2>20, <2>21, <2>22, <2>23, <2>24, <2>25, <2>26
         DEF Create, Use, Exit
  <1> QED
    BY <1>0, <1>1 DEF Next, Idle

\* What the paths of the lock files name.
LEMMA PathStep ==
  SingleWorker /\ LocalAssumption /\ LocalInv /\ FreshInv /\ [Next]_vars => PathNames'
  <1> SUFFICES ASSUME SingleWorker, LocalAssumption, LocalInv, FreshInv, [Next]_vars, NEW u \in Task
               PROVE  (lease[u] \/ pc[u] \in {"flock", "probe"} => file[port[u]] = fd[u])'
    BY DEF PathNames
  <1> USE DEF vars, locks, pool, child, closing, env
  <1>a. TypeOK /\ None \notin Task /\ Home \in [Task -> Worker] /\ \A v \in Task : Holds(v)
    BY DEF LocalInv, LocalAssumption
  <1>0. CASE UNCHANGED vars
    BY <1>0 DEF FreshInv, PathNames
  <1>1. ASSUME NEW t \in Task, Create(t) \/ Use(t) \/ Exit(t) \/ Bind(t) \/ Die(t) \/ Crash(t)
        PROVE  (lease[u] \/ pc[u] \in {"flock", "probe"} => file[port[u]] = fd[u])'
    <2> USE <1>a DEF TypeOK
    <2>a. /\ lease[u] \/ pc[u] \in {"flock", "probe"} => file[port[u]] = fd[u]
          /\ pc[u] \in Stretch => loop[Home[u]] = u
          /\ pc[t] \in Stretch => loop[Home[t]] = t
          /\ t # u /\ lease[u] /\ (lease[t] \/ pc[t] \in {"probe", "unlink"}) => port[t] # port[u]
          /\ Home[t] = Home[u] /\ Home[t] \in Worker
      BY DEF FreshInv, LoopHeld, PathNames, PortsApart, SingleWorker
    <2>b. Holds(t) /\ Holds(u)
      BY <1>a
    <2>1. CASE Start(t)
      BY <2>1, <2>a, <2>b DEF Stretch, Searching, Leasing, Holds, Port, Inode, Start, At, Scheduled, Go, Keep, Await
    <2>2. CASE SlotTaken(t)
      BY <2>2, <2>a, <2>b DEF Stretch, Searching, Leasing, Holds, Port, Inode, SlotTaken, At, Scheduled, Go, Keep, Await
    <2>3. CASE SlotTimeout(t)
      BY <2>3, <2>a, <2>b DEF Stretch, Searching, Leasing, Holds, Port, Inode, SlotTimeout, At, Scheduled, Go, Keep, Await
    <2>4. CASE RangeExhausted(t)
      BY <2>4, <2>a, <2>b DEF Stretch, Searching, Leasing, Holds, Port, Inode, RangeExhausted, At, Scheduled, Go, GiveSlotBack, Keep, Await
    <2>5. CASE OpenLockFile(t)
      BY <2>5, <2>a, <2>b DEF Stretch, Searching, Leasing, Holds, Port, Inode, OpenLockFile, At, Scheduled, Go, Keep, Await
    <2>6. CASE LockPort(t)
      BY <2>6, <2>a, <2>b DEF Stretch, Searching, Leasing, Holds, Port, Inode, LockPort, At, Scheduled, Go, Keep, Await
    <2>7. CASE PortLocked(t)
      BY <2>7, <2>a, <2>b DEF Stretch, Searching, Leasing, Holds, Port, Inode, PortLocked, At, Scheduled, Go, NextPort, Keep, Await
    <2>8. CASE PortInUse(t)
      BY <2>8, <2>a, <2>b DEF Stretch, Searching, Leasing, Holds, Port, Inode, PortInUse, At, Scheduled, Go, NextPort, Keep, Await
    <2>9. CASE SpawnServer(t)
      BY <2>9, <2>a, <2>b DEF Stretch, Searching, Leasing, Holds, Port, Inode, SpawnServer, At, Scheduled, Go, Keep, Await
    <2>10. CASE SpawnFails(t)
      BY <2>10, <2>a, <2>b DEF Stretch, Searching, Leasing, Holds, Port, Inode, SpawnFails, At, Scheduled, Go, Keep, Await
    <2>11. CASE HealthOk(t)
      BY <2>11, <2>a, <2>b DEF Stretch, Searching, Leasing, Holds, Port, Inode, HealthOk, At, Scheduled, Go, Keep, Await
    <2>12. CASE HealthFails(t)
      BY <2>12, <2>a, <2>b DEF Stretch, Searching, Leasing, Holds, Port, Inode, HealthFails, At, Scheduled, Go, Keep, Await
    <2>13. CASE ResetOk(t)
      BY <2>13, <2>a, <2>b DEF Stretch, Searching, Leasing, Holds, Port, Inode, ResetOk, At, Scheduled, Go, Keep, Await
    <2>14. CASE ResetFails(t)
      BY <2>14, <2>a, <2>b DEF Stretch, Searching, Leasing, Holds, Port, Inode, ResetFails, At, Scheduled, Go, Terminate, Keep, Await
    <2>15. CASE StepFails(t)
      BY <2>15, <2>a, <2>b DEF Stretch, Searching, Leasing, Holds, Port, Inode, StepFails, At, Scheduled, Go, Terminate, Keep, Await
    <2>16. CASE Finish(t)
      BY <2>16, <2>a, <2>b DEF Stretch, Searching, Leasing, Holds, Port, Inode, Finish, At, Scheduled, Go, Keep, Await
    <2>17. CASE ExitPosted(t)
      BY <2>17, <2>a, <2>b DEF Stretch, Searching, Leasing, Holds, Port, Inode, ExitPosted, At, Scheduled, Go, Terminate, Keep, Await
    <2>18. CASE TermTimeout(t)
      BY <2>18, <2>a, <2>b DEF Stretch, Searching, Leasing, Holds, Port, Inode, TermTimeout, At, Scheduled, Go, Keep, Await
    <2>19. CASE Reaped(t)
      BY <2>19, <2>a, <2>b DEF Stretch, Searching, Leasing, Holds, Port, Inode, Reaped, At, Scheduled, Go, Keep
    <2>20. CASE CleanupCancelled(t)
      BY <2>20, <2>a, <2>b DEF Stretch, Searching, Leasing, Holds, Port, Inode, CleanupCancelled, At, Scheduled, Go, Await
    <2>21. CASE Unlock(t)
      BY <2>21, <2>a, <2>b DEF Stretch, Searching, Leasing, Holds, Port, Inode, Unlock, At, Scheduled, Go, Keep, Await
    <2>22. CASE Unlink(t)
      BY <2>22, <2>a, <2>b DEF Stretch, Searching, Leasing, Holds, Port, Inode, Unlink, At, Scheduled, Go, GiveSlotBack, Keep, Await
    <2>23. CASE Bind(t)
      BY <2>23, <2>a, <2>b DEF Stretch, Searching, Leasing, Holds, Port, Inode, Bind, Dead
    <2>24. CASE Die(t)
      BY <2>24, <2>a, <2>b DEF Stretch, Searching, Leasing, Holds, Port, Inode, Die, Dead
    <2>25. CASE Crash(t)
      BY <2>25, <2>a, <2>b DEF Stretch, Searching, Leasing, Holds, Port, Inode, Crash, Dead
    <2>26. CASE KillTimeout(t)
      BY <2>26, <2>a, <2>b DEF Stretch, Searching, Leasing, Holds, Port, Inode, KillTimeout, At, Scheduled, Go, Keep
    <2> QED
      BY <1>1, <2>1, <2>2, <2>3, <2>4, <2>5, <2>6, <2>7, <2>8, <2>9, <2>10, <2>11, <2>12, <2>13, <2>14, <2>15, <2>16, <2>17, <2>18, <2>19, <2>20, <2>21, <2>22, <2>23, <2>24, <2>25, <2>26
         DEF Create, Use, Exit
  <1> QED
    BY <1>0, <1>1 DEF Next, Idle

\* Whose ports are apart.
LEMMA ApartStep ==
  SingleWorker /\ LocalAssumption /\ LocalInv /\ FreshInv /\ [Next]_vars => PortsApart'
  <1> SUFFICES ASSUME SingleWorker, LocalAssumption, LocalInv, FreshInv, [Next]_vars, NEW v \in Task, NEW u \in Task
               PROVE  (v # u /\ lease[u] /\ (lease[v] \/ pc[v] \in {"probe", "unlink"}) => port[v] # port[u])'
    BY DEF PortsApart
  <1> USE DEF vars, locks, pool, child, closing, env
  <1>a. TypeOK /\ None \notin Task /\ Home \in [Task -> Worker] /\ \A x \in Task : Holds(x)
    BY DEF LocalInv, LocalAssumption
  <1>0. CASE UNCHANGED vars
    BY <1>0 DEF FreshInv, PortsApart
  <1>1. ASSUME NEW t \in Task, Create(t) \/ Use(t) \/ Exit(t) \/ Bind(t) \/ Die(t) \/ Crash(t)
        PROVE  (v # u /\ lease[u] /\ (lease[v] \/ pc[v] \in {"probe", "unlink"}) => port[v] # port[u])'
    <2> USE <1>a DEF TypeOK
    <2>a. /\ v # u /\ lease[u] /\ (lease[v] \/ pc[v] \in {"probe", "unlink"}) => port[v] # port[u]
          /\ pc[u] \in Stretch => loop[Home[u]] = u
          /\ pc[v] \in Stretch => loop[Home[v]] = v
          /\ pc[t] \in Stretch => loop[Home[t]] = t
          /\ v # u /\ lease[v] /\ (lease[u] \/ pc[u] \in {"probe", "unlink"}) => port[u] # port[v]
          /\ Home[t] = Home[u] /\ Home[v] = Home[u] /\ Home[t] \in Worker
      BY DEF FreshInv, LoopHeld, PortsApart, SingleWorker
    <2>b. Holds(t) /\ Holds(u) /\ Holds(v)
      BY <1>a
    <2>1. CASE Start(t)
      BY <2>1, <2>a, <2>b DEF Stretch, Searching, Leasing, Holds, Start, At, Scheduled, Go, Keep, Await
    <2>2. CASE SlotTaken(t)
      BY <2>2, <2>a, <2>b DEF Stretch, Searching, Leasing, Holds, SlotTaken, At, Scheduled, Go, Keep, Await
    <2>3. CASE SlotTimeout(t)
      BY <2>3, <2>a, <2>b DEF Stretch, Searching, Leasing, Holds, SlotTimeout, At, Scheduled, Go, Keep, Await
    <2>4. CASE RangeExhausted(t)
      BY <2>4, <2>a, <2>b DEF Stretch, Searching, Leasing, Holds, RangeExhausted, At, Scheduled, Go, GiveSlotBack, Keep, Await
    <2>5. CASE OpenLockFile(t)
      BY <2>5, <2>a, <2>b DEF Stretch, Searching, Leasing, Holds, OpenLockFile, At, Scheduled, Go, Keep, Await
    <2>6. CASE LockPort(t)
      <3>1. pc[t] = "flock" /\ flock[fd[t]] = None /\ UNCHANGED <<port, lease>> /\ pc' = [pc EXCEPT ![t] = "probe"]
        BY <2>6 DEF LockPort, At, Go
      <3>2. lease[u] /\ port[t] = port[u] => fd[t] = fd[u]
        BY <3>1 DEF FreshInv, PathNames
      <3>3. lease[u] => flock[fd[u]] = u /\ u # None
        BY <2>b DEF Holds
      <3> QED
        BY <2>a, <3>1, <3>2, <3>3
    <2>7. CASE PortLocked(t)
      BY <2>7, <2>a, <2>b DEF Stretch, Searching, Leasing, Holds, PortLocked, At, Scheduled, Go, NextPort, Keep, Await
    <2>8. CASE PortInUse(t)
      BY <2>8, <2>a, <2>b DEF Stretch, Searching, Leasing, Holds, PortInUse, At, Scheduled, Go, NextPort, Keep, Await
    <2>9. CASE SpawnServer(t)
      BY <2>9, <2>a, <2>b DEF Stretch, Searching, Leasing, Holds, SpawnServer, At, Scheduled, Go, Keep, Await
    <2>10. CASE SpawnFails(t)
      BY <2>10, <2>a, <2>b DEF Stretch, Searching, Leasing, Holds, SpawnFails, At, Scheduled, Go, Keep, Await
    <2>11. CASE HealthOk(t)
      BY <2>11, <2>a, <2>b DEF Stretch, Searching, Leasing, Holds, HealthOk, At, Scheduled, Go, Keep, Await
    <2>12. CASE HealthFails(t)
      BY <2>12, <2>a, <2>b DEF Stretch, Searching, Leasing, Holds, HealthFails, At, Scheduled, Go, Keep, Await
    <2>13. CASE ResetOk(t)
      BY <2>13, <2>a, <2>b DEF Stretch, Searching, Leasing, Holds, ResetOk, At, Scheduled, Go, Keep, Await
    <2>14. CASE ResetFails(t)
      BY <2>14, <2>a, <2>b DEF Stretch, Searching, Leasing, Holds, ResetFails, At, Scheduled, Go, Terminate, Keep, Await
    <2>15. CASE StepFails(t)
      BY <2>15, <2>a, <2>b DEF Stretch, Searching, Leasing, Holds, StepFails, At, Scheduled, Go, Terminate, Keep, Await
    <2>16. CASE Finish(t)
      BY <2>16, <2>a, <2>b DEF Stretch, Searching, Leasing, Holds, Finish, At, Scheduled, Go, Keep, Await
    <2>17. CASE ExitPosted(t)
      BY <2>17, <2>a, <2>b DEF Stretch, Searching, Leasing, Holds, ExitPosted, At, Scheduled, Go, Terminate, Keep, Await
    <2>18. CASE TermTimeout(t)
      BY <2>18, <2>a, <2>b DEF Stretch, Searching, Leasing, Holds, TermTimeout, At, Scheduled, Go, Keep, Await
    <2>19. CASE Reaped(t)
      BY <2>19, <2>a, <2>b DEF Stretch, Searching, Leasing, Holds, Reaped, At, Scheduled, Go, Keep
    <2>20. CASE CleanupCancelled(t)
      BY <2>20, <2>a, <2>b DEF Stretch, Searching, Leasing, Holds, CleanupCancelled, At, Scheduled, Go, Await
    <2>21. CASE Unlock(t)
      BY <2>21, <2>a, <2>b DEF Stretch, Searching, Leasing, Holds, Unlock, At, Scheduled, Go, Keep, Await
    <2>22. CASE Unlink(t)
      BY <2>22, <2>a, <2>b DEF Stretch, Searching, Leasing, Holds, Unlink, At, Scheduled, Go, GiveSlotBack, Keep, Await
    <2>23. CASE Bind(t)
      BY <2>23, <2>a, <2>b DEF Stretch, Searching, Leasing, Holds, Bind, Dead
    <2>24. CASE Die(t)
      BY <2>24, <2>a, <2>b DEF Stretch, Searching, Leasing, Holds, Die, Dead
    <2>25. CASE Crash(t)
      BY <2>25, <2>a, <2>b DEF Stretch, Searching, Leasing, Holds, Crash, Dead
    <2>26. CASE KillTimeout(t)
      BY <2>26, <2>a, <2>b DEF Stretch, Searching, Leasing, Holds, KillTimeout, At, Scheduled, Go, Keep
    <2> QED
      BY <1>1, <2>1, <2>2, <2>3, <2>4, <2>5, <2>6, <2>7, <2>8, <2>9, <2>10, <2>11, <2>12, <2>13, <2>14, <2>15, <2>16, <2>17, <2>18, <2>19, <2>20, <2>21, <2>22, <2>23, <2>24, <2>25, <2>26
         DEF Create, Use, Exit
  <1> QED
    BY <1>0, <1>1 DEF Next, Idle

\* A lease is made only where no server is up, and a server comes up only under
\* a lease of its own: an overdue one does not come up any more.
LEMMA ServersStep ==
  SingleWorker /\ LocalAssumption /\ LocalInv /\ FreshInv /\ [Next]_vars => ServersApart'
  <1> SUFFICES ASSUME LocalAssumption, LocalInv, FreshInv, [Next]_vars,
                      NEW v \in Task, NEW u \in Task, v # u
               PROVE  (server[v] = "up" /\ lease[u] => port[v] # port[u])'
    BY DEF ServersApart
  <1> USE DEF vars, locks, pool, child, closing, env
  <1>a. /\ TypeOK /\ \A x \in Task : Holds(x)
        /\ server[v] = "up" /\ lease[u] => port[v] # port[u]
        /\ lease[v] /\ lease[u] => port[v] # port[u]
    BY DEF LocalInv, FreshInv, ServersApart, PortsApart
  <1>0. CASE /\ UNCHANGED port
             /\ server'[v] = "up" => server[v] = "up"
             /\ lease'[u] => lease[u]
    BY <1>0, <1>a
  <1>1. ASSUME NEW t \in Task, SlotTaken(t) \/ PortLocked(t) \/ PortInUse(t)
        PROVE  (server[v] = "up" /\ lease[u] => port[v] # port[u])'
    <2>1. pc[t] \in {"slotWait", "flock", "probe"} /\ UNCHANGED <<server, lease>>
      BY <1>1 DEF SlotTaken, PortLocked, PortInUse, NextPort, At
    <2>2. ~lease[t] /\ server[t] # "up"
      BY <1>a, <2>1 DEF Holds, Searching, Running
    <2>3. \A x \in Task \ {t} : port'[x] = port[x]
      BY <1>1, <1>a DEF SlotTaken, PortLocked, PortInUse, NextPort, TypeOK
    <2> QED
      BY <1>a, <2>1, <2>2, <2>3
  <1>2. ASSUME NEW t \in Task, SpawnServer(t) \/ SpawnFails(t)
        PROVE  (server[v] = "up" /\ lease[u] => port[v] # port[u])'
    <2>1. /\ ~Bound(port[t]) /\ UNCHANGED port /\ lease' = [lease EXCEPT ![t] = TRUE]
          /\ server' = [server EXCEPT ![t] = "booting"] \/ UNCHANGED server
      BY <1>2 DEF SpawnServer, SpawnFails
    <2>2. server'[v] = "up" => server[v] = "up"
      BY <1>a, <2>1 DEF TypeOK
    <2>3. server[v] = "up" => port[v] # port[t]
      BY <2>1 DEF Bound
    <2> QED
      BY <1>a, <2>1, <2>2, <2>3 DEF TypeOK
  <1>3. ASSUME NEW t \in Task, Bind(t)
        PROVE  (server[v] = "up" /\ lease[u] => port[v] # port[u])'
    <2>1. server[t] = "booting" /\ signal[t] # "kill" /\ UNCHANGED <<port, lease>>
      BY <1>3 DEF Bind, Dead
    <2>2. lease[t]
      BY <1>a, <2>1 DEF Holds, Running
    <2>3. server'[v] = "up" => server[v] = "up" \/ v = t
      BY <1>3, <1>a DEF Bind, Dead, TypeOK
    <2> QED
      BY <1>a, <2>1, <2>2, <2>3
  <1>4. ASSUME NEW t \in Task, Use(t) \/ Exit(t) \/ Die(t) \/ Crash(t)
        PROVE  /\ UNCHANGED port
               /\ server'[v] = "up" => server[v] = "up"
               /\ lease'[u] => lease[u]
    <2> USE <1>a DEF TypeOK, Use, Exit
    <2>1. UNCHANGED port
      BY <1>4 DEF ResetOk, ResetFails, StepFails, Finish, ExitPosted, TermTimeout, KillTimeout,
         Reaped, CleanupCancelled, Unlock, Unlink, Die, Crash, Dead
    <2>2. UNCHANGED server \/ server' = [server EXCEPT ![t] = "dead"]
      BY <1>4 DEF ResetOk, ResetFails, StepFails, Finish, ExitPosted, TermTimeout, KillTimeout,
         Reaped, CleanupCancelled, Unlock, Unlink, Die, Crash, Dead
    <2>3. UNCHANGED lease \/ lease' = [lease EXCEPT ![t] = FALSE]
      BY <1>4 DEF ResetOk, ResetFails, StepFails, Finish, ExitPosted, TermTimeout, KillTimeout,
         Reaped, CleanupCancelled, Unlock, Unlink, Die, Crash, Dead
    <2> QED
      BY <2>1, <2>2, <2>3
  <1>5. ASSUME NEW t \in Task, Start(t) \/ SlotTimeout(t) \/ RangeExhausted(t) \/ OpenLockFile(t)
                               \/ LockPort(t) \/ HealthOk(t) \/ HealthFails(t)
        PROVE  UNCHANGED <<port, server, lease>>
    BY <1>5 DEF Start, SlotTimeout, RangeExhausted, OpenLockFile, LockPort, HealthOk, HealthFails
  <1> QED
    BY <1>0, <1>1, <1>2, <1>3, <1>4, <1>5 DEF Next, Idle, Create

\* Whose server answers, and what lives in it.
LEMMA OwnStep ==
  SingleWorker /\ LocalAssumption /\ LocalInv /\ FreshInv /\ [Next]_vars => OwnChild'
  <1> SUFFICES ASSUME SingleWorker, LocalAssumption, LocalInv, FreshInv, [Next]_vars, NEW u \in Task
               PROVE  ((pc[u] \in {"reset", "run", "exitPost"} => peer[u] = u) /\ hosts[u] \in {None, u})'
    BY DEF OwnChild
  <1> USE DEF vars, locks, pool, child, closing, env
  <1>a. TypeOK /\ None \notin Task /\ Home \in [Task -> Worker] /\ \A v \in Task : Holds(v)
    BY DEF LocalInv, LocalAssumption
  <1>0. CASE UNCHANGED vars
    BY <1>0 DEF FreshInv, OwnChild
  <1>1. ASSUME NEW t \in Task, Create(t) \/ Use(t) \/ Exit(t) \/ Bind(t) \/ Die(t) \/ Crash(t)
        PROVE  ((pc[u] \in {"reset", "run", "exitPost"} => peer[u] = u) /\ hosts[u] \in {None, u})'
    <2> USE <1>a DEF TypeOK
    <2>a. /\ pc[u] \in {"reset", "run", "exitPost"} => peer[u] = u
          /\ pc[t] \in {"reset", "run", "exitPost"} => peer[t] = t
          /\ hosts[u] \in {None, u}
      BY DEF FreshInv, OwnChild
    <2>1. CASE Start(t)
      BY <2>1, <2>a DEF Start, At, Scheduled, Go, Keep, Await
    <2>2. CASE SlotTaken(t)
      BY <2>2, <2>a DEF SlotTaken, At, Scheduled, Go, Keep, Await
    <2>3. CASE SlotTimeout(t)
      BY <2>3, <2>a DEF SlotTimeout, At, Scheduled, Go, Keep, Await
    <2>4. CASE RangeExhausted(t)
      BY <2>4, <2>a DEF RangeExhausted, At, Scheduled, Go, GiveSlotBack, Keep, Await
    <2>5. CASE OpenLockFile(t)
      BY <2>5, <2>a DEF OpenLockFile, At, Scheduled, Go, Keep, Await
    <2>6. CASE LockPort(t)
      BY <2>6, <2>a DEF LockPort, At, Scheduled, Go, Keep, Await
    <2>7. CASE PortLocked(t)
      BY <2>7, <2>a DEF PortLocked, At, Scheduled, Go, NextPort, Keep, Await
    <2>8. CASE PortInUse(t)
      BY <2>8, <2>a DEF PortInUse, At, Scheduled, Go, NextPort, Keep, Await
    <2>9. CASE SpawnServer(t)
      BY <2>9, <2>a DEF SpawnServer, At, Scheduled, Go, Keep, Await
    <2>10. CASE SpawnFails(t)
      BY <2>10, <2>a DEF SpawnFails, At, Scheduled, Go, Keep, Await
    <2>11. CASE HealthOk(t)
      <3>1. PICK v \in Task : /\ server[v] = "up" /\ port[v] = port[t]
                             /\ peer' = [peer EXCEPT ![t] = v]
        BY <2>11 DEF HealthOk
      <3>2. lease[t]
        BY <1>a, <2>11 DEF HealthOk, At, Holds, Leasing
      <3>3. v = t
        BY <3>1, <3>2 DEF FreshInv, ServersApart
      <3> QED
        BY <2>11, <2>a, <3>1, <3>3 DEF HealthOk, At, Go
    <2>12. CASE HealthFails(t)
      BY <2>12, <2>a DEF HealthFails, At, Scheduled, Go, Keep, Await
    <2>13. CASE ResetOk(t)
      BY <2>13, <2>a DEF ResetOk, At, Scheduled, Go, Keep, Await
    <2>14. CASE ResetFails(t)
      BY <2>14, <2>a DEF ResetFails, At, Scheduled, Go, Terminate, Keep, Await
    <2>15. CASE StepFails(t)
      BY <2>15, <2>a DEF StepFails, At, Scheduled, Go, Terminate, Keep, Await
    <2>16. CASE Finish(t)
      BY <2>16, <2>a DEF Finish, At, Scheduled, Go, Keep, Await
    <2>17. CASE ExitPosted(t)
      BY <2>17, <2>a DEF ExitPosted, At, Scheduled, Go, Terminate, Keep, Await
    <2>18. CASE TermTimeout(t)
      BY <2>18, <2>a DEF TermTimeout, At, Scheduled, Go, Keep, Await
    <2>19. CASE Reaped(t)
      BY <2>19, <2>a DEF Reaped, At, Scheduled, Go, Keep
    <2>20. CASE CleanupCancelled(t)
      BY <2>20, <2>a DEF CleanupCancelled, At, Scheduled, Go, Await
    <2>21. CASE Unlock(t)
      BY <2>21, <2>a DEF Unlock, At, Scheduled, Go, Keep, Await
    <2>22. CASE Unlink(t)
      BY <2>22, <2>a DEF Unlink, At, Scheduled, Go, GiveSlotBack, Keep, Await
    <2>23. CASE Bind(t)
      BY <2>23, <2>a DEF Bind, Dead
    <2>24. CASE Die(t)
      BY <2>24, <2>a DEF Die, Dead
    <2>25. CASE Crash(t)
      BY <2>25, <2>a DEF Crash, Dead
    <2>26. CASE KillTimeout(t)
      BY <2>26, <2>a DEF KillTimeout, At, Scheduled, Go, Keep
    <2> QED
      BY <1>1, <2>1, <2>2, <2>3, <2>4, <2>5, <2>6, <2>7, <2>8, <2>9, <2>10, <2>11, <2>12, <2>13, <2>14, <2>15, <2>16, <2>17, <2>18, <2>19, <2>20, <2>21, <2>22, <2>23, <2>24, <2>25, <2>26
         DEF Create, Use, Exit
  <1> QED
    BY <1>0, <1>1 DEF Next, Idle

\* The invariant of one worker is inductive.
LEMMA FreshInvariance ==
  ASSUME SingleWorker
  PROVE  Spec => []FreshInv
  <1> USE LocalAssumption
  <1>1. Init => FreshInv
    BY DEF Init, FreshInv, LoopHeld, PathNames, PortsApart, ServersApart, OwnChild, Stretch, Searching
  <1>2. LocalInv /\ FreshInv /\ [Next]_vars => FreshInv'
    BY LoopStep, PathStep, ApartStep, ServersStep, OwnStep DEF FreshInv
  <1> QED
    BY <1>1, <1>2, LocalInvariance, PTL DEF Spec

\* With one worker on the machine each generation gets a fresh server of its
\* own, for any number of generations, ports, failures and cancellations.
THEOREM ServersAreFresh ==
  ASSUME SingleWorker
  PROVE  Spec => []FreshServer
  <1>1. FreshInv => FreshServer
    BY DEF FreshInv, OwnChild, FreshServer
  <1> QED
    BY <1>1, FreshInvariance, PTL

\* With one worker no two leases have the same port: what the lock files
\* promise, and what the unlink of one worker takes from another.
THEOREM LeasesAreExclusive ==
  ASSUME SingleWorker
  PROVE  Spec => []LeaseExclusive
  <1>1. FreshInv => LeaseExclusive
    BY DEF FreshInv, PortsApart, LeaseExclusive, Exclusive
  <1> QED
    BY <1>1, FreshInvariance, PTL
====
