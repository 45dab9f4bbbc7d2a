----------------------------- MODULE ServingProofs -----------------------------
(* Proofs about the router and about the data source, for any number of        *)
(* engines, requests, rows, rollouts and restarts.                             *)
EXTENDS RouterCache, RolloutDataSource, DataTheorems

-----------------------------------------------------------------------------
(* The load of the engines.                                                    *)

Asking(w) == {c \in Clients : request[c].at = w}

\* The fields of a record of request.
RequestFields == {"at", "prompt", "input", "answer", "sample", "tries"}
RequestOK(r) ==
  /\ DOMAIN r = RequestFields /\ r = [f \in RequestFields |-> r[f]]
  /\ r.at \in Place \cup Known

\* Every engine that was registered is counted, and a request is with one of
\* those or with none.
RouterTypeOK ==
  /\ up \subseteq Workers /\ Known \subseteq Workers
  /\ counts \in [Known -> Int] /\ lost \in [Known -> Int] /\ DOMAIN failures = Known
  /\ DOMAIN request = Clients /\ request = [c \in Clients |-> request[c]]
  /\ \A c \in Clients : RequestOK(request[c])

RouterInv == RouterTypeOK /\ LoadTrue

OneIf(b) == IF b THEN 1 ELSE 0

\* A client more or less at w.
LEMMA AskingChanges ==
  ASSUME NEW A \in SUBSET Clients, NEW B \in SUBSET Clients, NEW c \in Clients,
         \A d \in Clients \ {c} : d \in A <=> d \in B
  PROVE  /\ Cardinality(A) \in Nat /\ Cardinality(B) \in Nat
         /\ Cardinality(B) + OneIf(c \in A) = Cardinality(A) + OneIf(c \in B)
  <1>1. IsFiniteSet(A) /\ IsFiniteSet(B)
    BY FS_Subset, RouterAssumption
  <1>2. Cardinality(A) \in Nat /\ Cardinality(B) \in Nat
    BY <1>1, FS_CardinalityType
  <1>3. CASE (c \in A) <=> (c \in B)
    <2>1. A = B
      BY <1>3
    <2> QED
      BY <1>2, <1>3, <2>1 DEF OneIf
  <1>4. CASE c \in A /\ c \notin B
    <2>1. B = A \ {c}
      BY <1>4
    <2> QED
      BY <1>1, <1>2, <1>4, <2>1, FS_RemoveElement DEF OneIf
  <1>5. CASE c \notin A /\ c \in B
    <2>1. B = A \cup {c}
      BY <1>5
    <2> QED
      BY <1>1, <1>2, <1>5, <2>1, FS_AddElement DEF OneIf
  <1> QED
    BY <1>3, <1>4, <1>5

\* A request goes from one place to another: the counts have to follow.
LEMMA RequestMoves ==
  ASSUME RouterInv, NEW c \in Clients, NEW r,
         request' = [request EXCEPT ![c] = r], RequestOK(r),
         counts' \in [Known -> Int], UNCHANGED <<up, lost, failures>>,
         \A w \in Known : counts'[w] + OneIf(request[c].at = w) = counts[w] + OneIf(r.at = w)
  PROVE  RouterInv'
  <1> USE DEF RouterInv
  <1>1. /\ request'[c] = r /\ \A d \in Clients \ {c} : request'[d] = request[d]
        /\ DOMAIN request' = Clients /\ request' = [d \in Clients |-> request'[d]]
    BY DEF RouterTypeOK
  <1>2. Known' = Known
    BY DEF Known
  <1>3. RouterTypeOK'
    BY <1>1, <1>2 DEF RouterTypeOK, RequestOK
  <1>4. ASSUME NEW w \in Known PROVE counts'[w] = lost'[w] + Cardinality(Asking(w)')
    <2> DEFINE A == Asking(w)
               B == {d \in Clients : request'[d].at = w}
    <2>1. /\ A \in SUBSET Clients /\ B \in SUBSET Clients
          /\ \A d \in Clients \ {c} : d \in A <=> d \in B
          /\ (c \in A) = (request[c].at = w) /\ (c \in B) = (r.at = w)
      BY <1>1 DEF Asking
    <2> HIDE DEF A, B
    <2>2. /\ Cardinality(A) \in Nat /\ Cardinality(B) \in Nat
          /\ Cardinality(B) + OneIf(request[c].at = w) = Cardinality(A) + OneIf(r.at = w)
      BY <2>1, AskingChanges
    <2>3. counts[w] = lost[w] + Cardinality(A)
      BY DEF LoadTrue, A, Asking
    <2>4. /\ counts[w] \in Int /\ counts'[w] \in Int /\ lost[w] \in Int
          /\ OneIf(request[c].at = w) \in Int /\ OneIf(r.at = w) \in Int
      BY DEF RouterTypeOK, OneIf
    <2>5. counts'[w] + OneIf(request[c].at = w) = counts[w] + OneIf(r.at = w)
      OBVIOUS
    <2>6. counts'[w] = lost[w] + Cardinality(B)
      BY ONLY <2>2, <2>3, <2>4, <2>5
    <2> QED
      BY <2>6 DEF B, Asking
  <1>5. LoadTrue'
    BY <1>2, <1>4 DEF LoadTrue, Asking
  <1> QED
    BY <1>3, <1>5

\* A step that leaves the loads and the places of the requests alone.
LEMMA LoadsStay ==
  ASSUME RouterInv, UNCHANGED <<request, loadVars>>, DOMAIN failures' = DOMAIN failures, up' \subseteq Workers
  PROVE  RouterInv'
  <1>1. Known' = Known
    BY DEF Known, loadVars
  <1>2. RouterTypeOK'
    BY <1>1 DEF RouterInv, RouterTypeOK, RequestOK, loadVars
  <1>3. LoadTrue'
    BY <1>1 DEF RouterInv, LoadTrue, loadVars
  <1> QED
    BY <1>2, <1>3 DEF RouterInv

\* A request that stays with no engine.
LEMMA RequestWaits ==
  ASSUME RouterInv, NEW c \in Clients, request[c].at \in Place, NEW r,
         request' = [request EXCEPT ![c] = r], RequestOK(r), r.at \in Place,
         UNCHANGED <<up, loadVars, failures>>
  PROVE  RouterInv'
  <1>1. \A w \in Known : w \notin Place
    BY RouterAssumption DEF RouterInv, RouterTypeOK
  <1>2. counts' = counts /\ lost' = lost
    BY DEF loadVars
  <1>3. \A w \in Known : counts'[w] + OneIf(request[c].at = w) = counts[w] + OneIf(r.at = w)
    BY <1>1, <1>2 DEF OneIf
  <1>4. counts' \in [Known -> Int]
    BY <1>2 DEF RouterInv, RouterTypeOK
  <1> QED
    BY <1>2, <1>3, <1>4, RequestMoves

LEMMA IdleIsARequest ==
  RequestOK(RouterIdle) /\ RouterIdle.at \in Place
  BY DEF RequestOK, RouterIdle, RequestFields, Place

LEMMA RouterStarts ==
  RouterInit => RouterInv
  <1> SUFFICES ASSUME RouterInit PROVE RouterInv
    OBVIOUS
  <1>1. Known = {} /\ counts = << >> /\ lost = << >> /\ DOMAIN failures = {}
    BY DEF RouterInit, Known
  <1>2. counts \in [Known -> Int] /\ lost \in [Known -> Int]
    BY <1>1
  <1>3. RouterTypeOK
    BY <1>1, <1>2, IdleIsARequest DEF RouterInit, RouterTypeOK
  <1>4. LoadTrue
    BY <1>1 DEF LoadTrue
  <1> QED
    BY <1>3, <1>4 DEF RouterInv

\* What an engine gives back when its request ends.
LEMMA FinishedKeeps ==
  ASSUME RouterInv, NEW c \in Clients, request[c].at \in Known, NEW r,
         counts' = Finished(request[c].at),
         request' = [request EXCEPT ![c] = r], RequestOK(r), r.at \in Place,
         UNCHANGED <<up, lost, failures>>
  PROVE  RouterInv'
  <1>1. \A w \in Known : w \notin Place
    BY RouterAssumption DEF RouterInv, RouterTypeOK
  <1>2. counts' = [counts EXCEPT ![request[c].at] = counts[request[c].at] - 1] /\ counts \in [Known -> Int]
    BY DEF Finished, RouterInv, RouterTypeOK
  <1>3. counts' \in [Known -> Int]
    BY <1>2
  <1>4. \A w \in Known : counts'[w] + OneIf(request[c].at = w) = counts[w] + OneIf(r.at = w)
    BY <1>1, <1>2 DEF OneIf
  <1> QED
    BY <1>3, <1>4, RequestMoves

LEMMA RouterSteps ==
  RouterInv /\ [RouterNext]_routerVars => RouterInv'
  <1> SUFFICES ASSUME RouterInv, [RouterNext]_routerVars PROVE RouterInv'
    OBVIOUS
  <1> USE DEF healthVars, engineVars
  <1>0. /\ \A c \in Clients : /\ RequestOK(request[c])
                              /\ DOMAIN request[c] = RequestFields
                              /\ request[c] = [f \in RequestFields |-> request[c][f]]
        /\ DOMAIN request = Clients /\ request = [c \in Clients |-> request[c]]
        /\ up \subseteq Workers /\ Known \cap Place = {}
    BY RouterAssumption DEF RouterInv, RouterTypeOK, RequestOK
  <1>1. ASSUME NEW c \in Clients, Ask(c) PROVE RouterInv'
    <2> PICK p \in Prompts :
           request' = [request EXCEPT ![c] = [@ EXCEPT !.at = "route", !.prompt = p,
                                                       !.input = Found(p).tokens, !.tries = 1]]
      BY <1>1 DEF Ask
    <2> DEFINE r == [request[c] EXCEPT !.at = "route", !.prompt = p, !.input = Found(p).tokens, !.tries = 1]
    <2>1. RequestOK(r) /\ r.at \in Place
      BY <1>0 DEF RequestOK, RequestFields, Place
    <2>2. request' = [request EXCEPT ![c] = r]
      OBVIOUS
    <2>3. request[c].at \in Place /\ UNCHANGED <<up, loadVars, failures>>
      BY <1>1 DEF Ask, Place
    <2> HIDE DEF r
    <2> QED
      BY <2>1, <2>2, <2>3, RequestWaits
  <1>2. ASSUME NEW c \in Clients, Route(c) PROVE RouterInv'
    <2>1. CASE Healthy = {}
      <3>1. request[c].at \in Place /\ request' = [request EXCEPT ![c] = RouterIdle]
            /\ UNCHANGED <<up, loadVars, failures>>
        BY <1>2, <2>1 DEF Route, Place, loadVars
      <3> QED
        BY <3>1, RequestWaits, IdleIsARequest
    <2>2. CASE Healthy # {}
      <3> PICK w \in Least : /\ counts' = [counts EXCEPT ![w] = @ + 1]
                             /\ request' = [request EXCEPT ![c] = [@ EXCEPT !.at = w]]
        BY <1>2, <2>2 DEF Route
      <3> DEFINE r == [request[c] EXCEPT !.at = w]
      <3>1. w \in Known
        BY DEF Least, Healthy
      <3>2. RequestOK(r) /\ r.at = w
        BY <1>0, <3>1 DEF RequestOK, RequestFields
      <3>3. request' = [request EXCEPT ![c] = r]
        OBVIOUS
      <3>4. request[c].at \notin Known /\ UNCHANGED <<up, lost, failures>>
        BY <1>0, <1>2 DEF Route, Place
      <3> HIDE DEF r
      <3>5. counts' \in [Known -> Int]
        BY <3>1 DEF RouterInv, RouterTypeOK
      <3>6. \A v \in Known : counts'[v] + OneIf(request[c].at = v) = counts[v] + OneIf(r.at = v)
        BY <3>1, <3>2, <3>4 DEF OneIf, RouterInv, RouterTypeOK
      <3> QED
        BY <3>2, <3>3, <3>4, <3>5, <3>6, RequestMoves
    <2> QED
      BY <2>1, <2>2
  <1>3. ASSUME NEW c \in Clients, Answer(c) PROVE RouterInv'
    <2> PICK a \in Answers, reason \in {"stop", "length", "abort"} : \E n \in 0 .. Len(a) :
           request' = [request EXCEPT ![c] =
            IF reason = "abort" /\ @.tries < Tries
            THEN [@ EXCEPT !.at = "route", !.tries = request[c].tries + 1]
            ELSE [@ EXCEPT !.at = "insert", !.answer = Made(SubSeq(a, 1, n))]]
      BY <1>3 DEF Answer
    <2> PICK n \in 0 .. Len(a) :
           request' = [request EXCEPT ![c] =
            IF reason = "abort" /\ @.tries < Tries
            THEN [@ EXCEPT !.at = "route", !.tries = request[c].tries + 1]
            ELSE [@ EXCEPT !.at = "insert", !.answer = Made(SubSeq(a, 1, n))]]
      OBVIOUS
    <2> DEFINE again == [request[c] EXCEPT !.at = "route", !.tries = request[c].tries + 1]
               ends  == [request[c] EXCEPT !.at = "insert", !.answer = Made(SubSeq(a, 1, n))]
               r == IF reason = "abort" /\ request[c].tries < Tries THEN again ELSE ends
    <2>1. RequestOK(again) /\ again.at \in Place
      BY <1>0 DEF RequestOK, RequestFields, Place
    <2>2. RequestOK(ends) /\ ends.at \in Place
      BY <1>0 DEF RequestOK, RequestFields, Place
    <2>3. request' = [request EXCEPT ![c] = r]
      BY Zenon
    <2> HIDE DEF again, ends
    <2>4. RequestOK(r) /\ r.at \in Place
      BY <2>1, <2>2
    <2> HIDE DEF r
    <2>5. request[c].at \in Known
      BY <1>0, <1>3, RouterAssumption DEF Answer, RequestOK
    <2>6. counts' = Finished(request[c].at) /\ UNCHANGED <<up, lost, failures>>
      BY <1>3 DEF Answer
    <2> QED
      BY <2>3, <2>4, <2>5, <2>6, FinishedKeeps
  <1>4. ASSUME NEW c \in Clients, Fail(c) PROVE RouterInv'
    BY <1>4, FinishedKeeps, IdleIsARequest DEF Fail
  <1>5. ASSUME NEW c \in Clients, Insert(c) PROVE RouterInv'
    <2> DEFINE r == [request[c] EXCEPT !.at = "read"]
    <2>1. RequestOK(r) /\ r.at \in Place
      BY <1>0 DEF RequestOK, RequestFields, Place
    <2>2. request' = [request EXCEPT ![c] = r]
      BY <1>5 DEF Insert
    <2>3. request[c].at \in Place /\ UNCHANGED <<up, loadVars, failures>>
      BY <1>5 DEF Insert, Place
    <2> HIDE DEF r
    <2> QED
      BY <2>1, <2>2, <2>3, RequestWaits
  <1>6. ASSUME NEW c \in Clients, Read(c) PROVE RouterInv'
    <2> DEFINE tokens == Found(request[c].prompt \o Text(request[c].answer)).tokens
               r == [request[c] EXCEPT !.at = "done", !.sample = tokens]
    <2>1. RequestOK(r) /\ r.at \in Place
      BY <1>0 DEF RequestOK, RequestFields, Place
    <2>2. request' = [request EXCEPT ![c] = r]
      BY <1>6 DEF Read
    <2>3. request[c].at \in Place /\ UNCHANGED <<up, loadVars, failures>>
      BY <1>6 DEF Read, Place
    <2> HIDE DEF r, tokens
    <2> QED
      BY <2>1, <2>2, <2>3, RequestWaits
  <1>7. ASSUME NEW w \in Workers, AddWorker(w) PROVE RouterInv'
    <2>1. /\ w \notin Known /\ UNCHANGED <<up, request>>
          /\ counts' = [v \in Known \cup {w} |-> IF v = w THEN 0 ELSE counts[v]]
          /\ lost' = [v \in Known \cup {w} |-> IF v = w THEN 0 ELSE lost[v]]
          /\ failures' = [v \in Known \cup {w} |-> IF v = w THEN 0 ELSE failures[v]]
      BY <1>7 DEF AddWorker
    <2>2. /\ DOMAIN counts' = Known \cup {w} /\ DOMAIN lost' = Known \cup {w}
          /\ DOMAIN failures' = Known \cup {w} /\ Known' = Known \cup {w}
      BY <2>1 DEF Known
    <2>3. counts' \in [Known' -> Int] /\ lost' \in [Known' -> Int]
      BY <2>1, <2>2 DEF RouterInv, RouterTypeOK
    <2>4. RouterTypeOK'
      BY <2>1, <2>2, <2>3 DEF RouterInv, RouterTypeOK, RequestOK
    <2>5. Asking(w) = {}
      BY <2>1, <1>0, RouterAssumption DEF Asking, RequestOK
    <2>6. Cardinality(Asking(w)) = 0
      BY <2>5, FS_EmptySet
    <2>7. ASSUME NEW v \in Known' PROVE counts'[v] = lost'[v] + Cardinality({c \in Clients : request'[c].at = v})
      <3>1. CASE v = w
        BY <2>1, <2>6, <3>1 DEF Asking
      <3>2. CASE v \in Known /\ v # w
        BY <2>1, <3>2 DEF RouterInv, LoadTrue
      <3> QED
        BY <2>2, <2>7, <3>1, <3>2
    <2>8. LoadTrue'
      BY <2>7 DEF LoadTrue
    <2> QED
      BY <2>4, <2>8 DEF RouterInv
  <1>8. ASSUME NEW w \in Workers, Stop(w) \/ Recover(w) PROVE RouterInv'
    BY <1>0, <1>8, LoadsStay DEF Stop, Recover
  <1>9. CASE CheckAll
    BY <1>0, <1>9, LoadsStay DEF CheckAll
  <1>10. CASE Checked
    <2>1. DOMAIN failures' = Known
      BY <1>10 DEF Checked
    <2> QED
      BY <1>0, <1>10, <2>1, LoadsStay DEF Checked, RouterInv, RouterTypeOK
  <1>11. CASE Lose
    <2> PICK w \in Least : counts' = [counts EXCEPT ![w] = @ + 1] /\ lost' = [lost EXCEPT ![w] = @ + 1]
      BY <1>11 DEF Lose
    <2>1. w \in Known
      BY DEF Least, Healthy
    <2>2. UNCHANGED <<up, failures, request>>
      BY <1>11 DEF Lose
    <2>3. Known' = Known
      BY DEF Known
    <2>4. RouterTypeOK'
      BY <2>1, <2>2, <2>3 DEF RouterInv, RouterTypeOK, RequestOK
    <2>5. \A v \in Known : Cardinality({c \in Clients : request[c].at = v}) \in Int
      BY RouterAssumption, FS_Subset, FS_CardinalityType
    <2>6. ASSUME NEW v \in Known PROVE counts'[v] = lost'[v] + Cardinality({c \in Clients : request[c].at = v})
      <3>1. counts[v] = lost[v] + Cardinality({c \in Clients : request[c].at = v})
        BY DEF RouterInv, LoadTrue
      <3>2. counts[v] \in Int /\ lost[v] \in Int /\ Cardinality({c \in Clients : request[c].at = v}) \in Int
        BY <2>5 DEF RouterInv, RouterTypeOK
      <3>3. counts'[v] - counts[v] = lost'[v] - lost[v] /\ counts'[v] \in Int /\ lost'[v] \in Int
        BY <2>1, <3>2 DEF RouterInv, RouterTypeOK
      <3> QED
        BY ONLY <3>1, <3>2, <3>3
    <2>7. LoadTrue'
      BY <2>2, <2>3, <2>6 DEF LoadTrue
    <2> QED
      BY <2>4, <2>7 DEF RouterInv
  <1>12. CASE UNCHANGED routerVars
    BY <1>0, <1>12, LoadsStay DEF routerVars
  <1> QED
    BY <1>1, <1>2, <1>3, <1>4, <1>5, <1>6, <1>7, <1>8, <1>9, <1>10, <1>11, <1>12 DEF RouterNext

\* The router never loses count of the requests an engine has, whichever of them
\* ends, fails, is aborted and asked again, or was lost before its try block,
\* whatever engines register, die, recover or are quarantined (proxy, _use_url and
\* _finish_url of router.py): the load an engine is chosen by is the load it has.
THEOREM LoadIsTrue ==
  RouterSpec => []LoadTrue
  <1>1. RouterInv => LoadTrue
    BY DEF RouterInv
  <1> QED
    BY <1>1, RouterStarts, RouterSteps, PTL DEF RouterSpec

-----------------------------------------------------------------------------
(* Tokens.                                                                     *)

Tokens(Chars) == [text : Seq(Chars), made : BOOLEAN]

LEMMA TextsOfTokens ==
  ASSUME NEW Chars, NEW s \in Seq(Tokens(Chars)), NEW t \in Seq(Tokens(Chars))
  PROVE  /\ Text(s) \in Seq(Chars) /\ MadeText(s) \in Seq(Chars)
         /\ Text(s \o t) = Text(s) \o Text(t) /\ MadeText(s \o t) = MadeText(s) \o MadeText(t)
  <1> DEFINE texts(u) == [i \in 1 .. Len(u) |-> u[i].text]
             kept(u) == [i \in 1 .. Len(u) |-> IF u[i].made THEN u[i].text ELSE << >>]
  <1>1. ASSUME NEW u \in Seq(Tokens(Chars))
        PROVE  /\ texts(u) \in Seq(Seq(Chars)) /\ kept(u) \in Seq(Seq(Chars))
               /\ Len(texts(u)) = Len(u) /\ Len(kept(u)) = Len(u)
               /\ \A i \in 1 .. Len(u) : /\ texts(u)[i] = u[i].text
                                         /\ kept(u)[i] = IF u[i].made THEN u[i].text ELSE << >>
    <2>0. Len(u) \in Nat /\ \A i \in 1 .. Len(u) : u[i] \in Tokens(Chars)
      OBVIOUS
    <2>1. Len(u) \in Nat /\ \A i \in 1 .. Len(u) : u[i].text \in Seq(Chars)
      BY <2>0 DEF Tokens
    <2>2. << >> \in Seq(Chars)
      OBVIOUS
    <2> QED
      BY <2>1, <2>2
  <1>2. s \o t \in Seq(Tokens(Chars)) /\ Len(s) \in Nat /\ Len(t) \in Nat /\ Len(s \o t) = Len(s) + Len(t)
    OBVIOUS
  <1>3. /\ \A i \in 1 .. Len(s) : (s \o t)[i] = s[i]
        /\ \A i \in 1 .. Len(t) : (s \o t)[Len(s) + i] = t[i]
    OBVIOUS
  <1>4. texts(s \o t) = texts(s) \o texts(t)
    <2> DEFINE S == Seq(Chars)
               a == texts(s)
               b == texts(t)
               c == texts(s \o t)
    <2>1. /\ a \in Seq(S) /\ b \in Seq(S) /\ c \in Seq(S)
          /\ Len(a) = Len(s) /\ Len(b) = Len(t) /\ Len(c) = Len(s) + Len(t)
      BY <1>1, <1>2
    <2>2. /\ \A i \in 1 .. Len(s) + Len(t) : c[i] = (s \o t)[i].text
          /\ \A i \in 1 .. Len(s) : a[i] = s[i].text
          /\ \A i \in 1 .. Len(t) : b[i] = t[i].text
      BY <1>1, <1>2
    <2> HIDE DEF S, a, b, c
    <2>3. \A i \in 1 .. Len(a) : c[i] = a[i]
      <3> SUFFICES ASSUME NEW i \in 1 .. Len(s) PROVE c[i] = a[i]
        BY <2>1
      <3>1. i \in 1 .. Len(s) + Len(t)
        BY <1>2
      <3> QED
        BY <1>3, <2>2, <3>1
    <2>4. \A i \in 1 .. Len(b) : c[Len(a) + i] = b[i]
      <3> SUFFICES ASSUME NEW i \in 1 .. Len(t) PROVE c[Len(s) + i] = b[i]
        BY <2>1
      <3>1. Len(s) + i \in 1 .. Len(s) + Len(t)
        BY <1>2
      <3>2. c[Len(s) + i] = (s \o t)[Len(s) + i].text
        BY <2>2, <3>1
      <3> QED
        BY <1>3, <2>2, <3>2
    <2>5. Len(c) = Len(a) + Len(b)
      BY <2>1
    <2>6. c = a \o b
      BY <2>1, <2>3, <2>4, <2>5, JoinedIs
    <2> QED
      BY <2>6 DEF a, b, c
  <1>5. kept(s \o t) = kept(s) \o kept(t)
    <2> DEFINE S == Seq(Chars)
               a == kept(s)
               b == kept(t)
               c == kept(s \o t)
    <2>1. /\ a \in Seq(S) /\ b \in Seq(S) /\ c \in Seq(S)
          /\ Len(a) = Len(s) /\ Len(b) = Len(t) /\ Len(c) = Len(s) + Len(t)
      BY <1>1, <1>2
    <2>2. /\ \A i \in 1 .. Len(s) + Len(t) : c[i] = IF (s \o t)[i].made THEN (s \o t)[i].text ELSE << >>
          /\ \A i \in 1 .. Len(s) : a[i] = IF s[i].made THEN s[i].text ELSE << >>
          /\ \A i \in 1 .. Len(t) : b[i] = IF t[i].made THEN t[i].text ELSE << >>
      BY <1>1, <1>2
    <2> HIDE DEF S, a, b, c
    <2>3. \A i \in 1 .. Len(a) : c[i] = a[i]
      <3> SUFFICES ASSUME NEW i \in 1 .. Len(s) PROVE c[i] = a[i]
        BY <2>1
      <3>1. i \in 1 .. Len(s) + Len(t)
        BY <1>2
      <3> QED
        BY <1>3, <2>2, <3>1
    <2>4. \A i \in 1 .. Len(b) : c[Len(a) + i] = b[i]
      <3> SUFFICES ASSUME NEW i \in 1 .. Len(t) PROVE c[Len(s) + i] = b[i]
        BY <2>1
      <3>1. Len(s) + i \in 1 .. Len(s) + Len(t)
        BY <1>2
      <3>2. c[Len(s) + i] = IF (s \o t)[Len(s) + i].made THEN (s \o t)[Len(s) + i].text ELSE << >>
        BY <2>2, <3>1
      <3> QED
        BY <1>3, <2>2, <3>2
    <2>5. Len(c) = Len(a) + Len(b)
      BY <2>1
    <2>6. c = a \o b
      BY <2>1, <2>3, <2>4, <2>5, JoinedIs
    <2> QED
      BY <2>6 DEF a, b, c
  <1>6. /\ Text(s) = FlattenSeq(texts(s)) /\ Text(t) = FlattenSeq(texts(t))
        /\ Text(s \o t) = FlattenSeq(texts(s \o t))
        /\ MadeText(s) = FlattenSeq(kept(s)) /\ MadeText(t) = FlattenSeq(kept(t))
        /\ MadeText(s \o t) = FlattenSeq(kept(s \o t))
    BY DEF Text, MadeText
  <1>7. /\ texts(s) \in Seq(Seq(Chars)) /\ texts(t) \in Seq(Seq(Chars))
        /\ kept(s) \in Seq(Seq(Chars)) /\ kept(t) \in Seq(Seq(Chars)) /\ << >> \in Seq(Chars)
    BY <1>1
  <1> HIDE DEF texts, kept
  <1>8. Text(s) \in Seq(Chars) /\ MadeText(s) \in Seq(Chars)
    BY <1>6, <1>7, FlattenAppend
  <1>9. /\ FlattenSeq(texts(s) \o texts(t)) = FlattenSeq(texts(s)) \o FlattenSeq(texts(t))
        /\ FlattenSeq(kept(s) \o kept(t)) = FlattenSeq(kept(s)) \o FlattenSeq(kept(t))
    BY <1>7, FlattenTogether
  <1> QED
    BY <1>4, <1>5, <1>6, <1>8, <1>9

\* What an engine made, and what it did not.
LEMMA TextsMade ==
  ASSUME NEW Chars
  PROVE  /\ \A a \in Seq(Seq(Chars)) : /\ Made(a) \in Seq(Tokens(Chars)) /\ Text(Made(a)) = FlattenSeq(a)
                                       /\ MadeText(Made(a)) = FlattenSeq(a)
         /\ \A s \in Seq([text : Seq(Chars), made : {FALSE}]) : MadeText(s) = << >>
  <1>1. ASSUME NEW a \in Seq(Seq(Chars))
        PROVE  /\ Made(a) \in Seq(Tokens(Chars)) /\ Text(Made(a)) = FlattenSeq(a)
               /\ MadeText(Made(a)) = FlattenSeq(a)
    <2>1. /\ Made(a) \in Seq(Tokens(Chars)) /\ Len(Made(a)) = Len(a) /\ Len(a) \in Nat
          /\ \A i \in 1 .. Len(a) : Made(a)[i].text = a[i] /\ Made(a)[i].made = TRUE
      BY DEF Made, Tokens
    <2>2. a = [i \in 1 .. Len(a) |-> a[i]]
      OBVIOUS
    <2>3. [i \in 1 .. Len(Made(a)) |-> Made(a)[i].text] = a
      BY <2>1, <2>2
    <2>4. [i \in 1 .. Len(Made(a)) |-> IF Made(a)[i].made THEN Made(a)[i].text ELSE << >>] = a
      BY <2>1, <2>2
    <2> QED
      BY <2>1, <2>3, <2>4 DEF Text, MadeText
  <1>2. ASSUME NEW s \in Seq([text : Seq(Chars), made : {FALSE}]) PROVE MadeText(s) = << >>
    <2>0. Len(s) \in Nat /\ \A i \in 1 .. Len(s) : s[i].made = FALSE
      <3>1. Len(s) \in Nat /\ \A i \in 1 .. Len(s) : s[i] \in [text : Seq(Chars), made : {FALSE}]
        <4> DEFINE R == [text : Seq(Chars), made : {FALSE}]
        <4>1. s \in Seq(R)
          OBVIOUS
        <4> HIDE DEF R
        <4>2. Len(s) \in Nat /\ \A i \in 1 .. Len(s) : s[i] \in R
          BY <4>1
        <4> QED
          BY <4>2 DEF R
      <3> QED
        BY <3>1
    <2>1. [i \in 1 .. Len(s) |-> IF s[i].made THEN s[i].text ELSE << >>] \in Seq({<< >>})
      BY <2>0
    <2> QED
      BY <2>1, FlattenNothings DEF MadeText
  <1> QED
    BY <1>1, <1>2

-----------------------------------------------------------------------------
(* The tokenizer.                                                              *)

\* Tokens no engine made.
Given(Chars) == [text : Seq(Chars), made : {FALSE}]

\* The tokenizer's tokens spell the text.
LEMMA TokenizeSpells ==
  ASSUME NEW Chars, NEW text \in Seq(Chars)
  PROVE  /\ Tokenize(text) \in Seq(Given(Chars)) /\ Text(Tokenize(text)) = text
         /\ text # << >> => Tokenize(text) # << >>
         /\ Tokenize(<< >>) = << >>
  <1> DEFINE L == Len(text)
             V == Seq(Given(Chars))
             size(i) == IF i < L /\ SubSeq(text, i, i + 1) \in Merges THEN 2 ELSE 1
             tok(i) == [text |-> SubSeq(text, i, i + size(i) - 1), made |-> FALSE]
             next == [i \in 1 .. L |-> i + size(i)]
             step == [p \in (1 .. L) \X V |-> <<tok(p[1])>> \o p[2]]
             F(T) == [i \in 1 .. L + 2 |-> IF i > L THEN << >> ELSE <<tok(i)>> \o T[i + size(i)]]
             C == CHOOSE T : T = F(T)
  <1>1. Tokenize(text) = C[1]
    BY DEF Tokenize
  <1>2. L \in Nat /\ \A i \in 1 .. L : size(i) \in 1 .. 2 /\ i + size(i) \in 1 .. L + 1
    OBVIOUS
  <1>3. ASSUME NEW i \in 1 .. L PROVE tok(i) \in Given(Chars)
    <2>1. i \in 1 .. L /\ i + size(i) - 1 \in 1 .. L
      BY <1>2
    <2>2. SubSeq(text, i, i + size(i) - 1) \in Seq(Chars)
      <3> HIDE DEF size
      <3> QED
        BY <2>1
    <2> QED
      BY <2>2 DEF Given
  <1> HIDE DEF tok
  <1>4. \E T \in [1 .. L + 2 -> V] : T = F(T)
    <2>1. next \in [1 .. L -> 1 .. L + 2] /\ \A i \in 1 .. L : next[i] > i
      BY <1>2
    <2>2. step \in [(1 .. L) \X V -> V]
      <3>1. ASSUME NEW i \in 1 .. L, NEW v \in V PROVE <<tok(i)>> \o v \in V
        <4>1. tok(i) \in Given(Chars)
          BY <1>3
        <4> QED
          BY <4>1
      <3> HIDE DEF V
      <3> QED
        BY <3>1
    <2>3. << >> \in V
      OBVIOUS
    <2>4. PICK T \in [1 .. L + 2 -> V] : Strides(T, L, << >>, next, step)
      <3> HIDE DEF V, next, step, L
      <3> QED
        BY <1>2, <2>1, <2>2, <2>3, StridesExist
    <2>5. ASSUME NEW i \in 1 .. L + 2 PROVE T[i] = F(T)[i]
      <3>1. T[i] = IF i > L THEN << >> ELSE step[<<i, T[next[i]]>>]
        BY <2>4 DEF Strides
      <3>2. CASE i > L
        BY <3>1, <3>2
      <3>3. CASE ~ (i > L)
        <4>1. i \in 1 .. L /\ next[i] = i + size(i) /\ i + size(i) \in 1 .. L + 2
          BY <1>2, <3>3
        <4>2. T[i + size(i)] \in V
          BY <4>1
        <4>3. <<i, T[i + size(i)]>> \in (1 .. L) \X V
          BY <4>1, <4>2
        <4>4. step[<<i, T[i + size(i)]>>] = <<tok(i)>> \o T[i + size(i)]
          <5> HIDE DEF V, size
          <5> QED
            BY <4>3
        <4>5. T[i] = step[<<i, T[i + size(i)]>>]
          BY <3>1, <3>3, <4>1
        <4>6. F(T)[i] = <<tok(i)>> \o T[i + size(i)]
          BY <3>3
        <4> QED
          BY <4>4, <4>5, <4>6
      <3> QED
        BY <3>2, <3>3
    <2>6. T = F(T)
      <3>1. \A i \in 1 .. L + 2 : T[i] = F(T)[i]
        BY <2>5
      <3>2. DOMAIN F(T) = 1 .. L + 2 /\ F(T) = [i \in 1 .. L + 2 |-> F(T)[i]]
        OBVIOUS
      <3>3. T = [i \in 1 .. L + 2 |-> T[i]]
        OBVIOUS
      <3> HIDE DEF F
      <3> QED
        BY <3>1, <3>2, <3>3
    <2> HIDE DEF F, V
    <2> QED
      BY <2>6
  <1>5. C = F(C)
    <2> HIDE DEF F
    <2> QED
      BY <1>4
  <1>6. /\ \A i \in 1 .. L : C[i] = <<tok(i)>> \o C[i + size(i)]
        /\ \A i \in L + 1 .. L + 2 : C[i] = << >>
    <2>1. \A i \in 1 .. L + 2 : C[i] = IF i > L THEN << >> ELSE <<tok(i)>> \o C[i + size(i)]
      <3>1. \A i \in 1 .. L + 2 : F(C)[i] = IF i > L THEN << >> ELSE <<tok(i)>> \o C[i + size(i)]
        <4> HIDE DEF C, size
        <4> QED
          OBVIOUS
      <3> HIDE DEF C, F
      <3> QED
        BY <1>5, <3>1
    <2>2. /\ \A i \in 1 .. L : i \in 1 .. L + 2 /\ ~ (i > L)
          /\ \A i \in L + 1 .. L + 2 : i \in 1 .. L + 2 /\ i > L
      BY <1>2
    <2> HIDE DEF C, size, L, F
    <2> QED
      BY <2>1, <2>2
  <1>7. ASSUME NEW i \in 1 .. L
        PROVE  /\ <<tok(i)>> \in V /\ <<tok(i)>> \in Seq(Tokens(Chars))
               /\ Text(<<tok(i)>>) = SubSeq(text, i, i + size(i) - 1)
    <2>1. tok(i) \in Given(Chars) /\ tok(i) \in Tokens(Chars)
      BY <1>3 DEF Given, Tokens
    <2>2. <<tok(i)>> \in V /\ <<tok(i)>> \in Seq(Tokens(Chars))
      BY <2>1
    <2>3. tok(i).text = SubSeq(text, i, i + size(i) - 1)
      BY DEF tok
    <2>4. tok(i).text \in Seq(Chars)
      BY <2>1 DEF Given
    <2> HIDE DEF size
    <2> DEFINE t == tok(i)
    <2>5. t.text = SubSeq(text, i, i + size(i) - 1) /\ t.text \in Seq(Chars)
      BY <2>3, <2>4
    <2> HIDE DEF t
    <2>6. [n \in 1 .. Len(<<t>>) |-> <<t>>[n].text] = <<t.text>>
      OBVIOUS
    <2>7. Text(<<t>>) = FlattenSeq(<<t.text>>)
      BY <2>6 DEF Text
    <2>8. Text(<<t>>) = t.text
      BY <2>5, <2>7, FlattenFew
    <2> QED
      BY <2>2, <2>5, <2>8 DEF t
  <1> DEFINE Spells(m) == \A i \in 1 .. L + 2 : i > L - m => C[i] \in V /\ Text(C[i]) = SubSeq(text, i, L)
             K == {m \in Nat : Spells(m)}
  <1>8. V \subseteq Seq(Tokens(Chars))
    <2>1. Given(Chars) \subseteq Tokens(Chars)
      BY DEF Given, Tokens
    <2> QED
      BY <2>1, SeqMonotonic
  <1>9. 0 \in K
    <2>1. ASSUME NEW i \in 1 .. L + 2, i > L PROVE C[i] \in V /\ Text(C[i]) = SubSeq(text, i, L)
      <3>1. C[i] = << >>
        <4>1. i \in L + 1 .. L + 2
          BY <1>2, <2>1
        <4> HIDE DEF C, L
        <4> QED
          BY <1>6, <4>1
      <3>2. SubSeq(text, i, L) = << >>
        BY <2>1
      <3>3. Text(<< >>) = << >>
        <4>1. [n \in 1 .. Len(<< >>) |-> << >>[n].text] = << >>
          OBVIOUS
        <4> QED
          BY <4>1, FlattenNothing DEF Text
      <3> HIDE DEF C
      <3> QED
        BY <3>1, <3>2, <3>3
    <2> HIDE DEF C, L, V
    <2> QED
      BY <1>2, <2>1
  <1>10. ASSUME NEW m \in Nat, m \in K PROVE m + 1 \in K
    <2> HIDE DEF C, size, V
    <2> SUFFICES ASSUME NEW i \in 1 .. L + 2, i > L - (m + 1)
                 PROVE  C[i] \in V /\ Text(C[i]) = SubSeq(text, i, L)
      OBVIOUS
    <2>1. CASE i > L - m
      BY <1>10, <2>1
    <2>2. CASE ~ (i > L - m)
      <3>1. i = L - m /\ i \in 1 .. L
        BY <1>2, <2>2
      <3> DEFINE j == i + size(i)
      <3>2. j \in 1 .. L + 2 /\ j > L - m /\ j - 1 \in i .. L
        <4>1. size(i) \in 1 .. 2 /\ i + size(i) \in 1 .. L + 1
          BY <1>2, <3>1
        <4> QED
          BY <1>2, <3>1, <4>1, SMTT(30)
      <3>3. C[j] \in V /\ Text(C[j]) = SubSeq(text, j, L)
        BY <1>10, <3>2
      <3>4. C[i] = <<tok(i)>> \o C[j]
        BY <1>6, <3>1
      <3>5. C[i] \in V
        <4>1. <<tok(i)>> \in V
          BY <1>7, <3>1
        <4> HIDE DEF j
        <4> QED
          BY <3>3, <3>4, <4>1 DEF V
      <3>6. Text(C[i]) = Text(<<tok(i)>>) \o Text(C[j])
        <4>1. <<tok(i)>> \in Seq(Tokens(Chars)) /\ C[j] \in Seq(Tokens(Chars))
          BY <1>7, <1>8, <3>1, <3>3
        <4> HIDE DEF j
        <4> QED
          BY <3>4, <4>1, TextsOfTokens
      <3>7. Text(<<tok(i)>>) = SubSeq(text, i, i + size(i) - 1)
        BY <1>7, <3>1
      <3>8. SubSeq(text, i, j - 1) \o SubSeq(text, j, L) = SubSeq(text, i, L)
        <4> HIDE DEF j
        <4> QED
          BY <1>2, <3>1, <3>2, PartsOfOne
      <3>9. j - 1 = i + size(i) - 1
        <4>1. size(i) \in 1 .. 2
          BY <1>2, <3>1
        <4> QED
          BY <3>1, <4>1
      <3> HIDE DEF j
      <3>10. Text(C[i]) = SubSeq(text, i, j - 1) \o SubSeq(text, j, L)
        BY <3>3, <3>6, <3>7, <3>9
      <3> QED
        BY <3>5, <3>8, <3>10
    <2> QED
      BY <2>1, <2>2
  <1>11. \A m \in Nat : m \in K
    <2> HIDE DEF K
    <2> QED
      BY <1>9, <1>10, SetInduction
  <1>12. C[1] \in V /\ Text(C[1]) = SubSeq(text, 1, L)
    <2>1. Spells(L)
      <3> HIDE DEF Spells
      <3> QED
        BY <1>2, <1>11
    <2>2. 1 \in 1 .. L + 2 /\ 1 > L - L
      BY <1>2
    <2> HIDE DEF C, V, L
    <2> QED
      BY <2>1, <2>2
  <1>13. text # << >> => C[1] # << >>
    <2>1. SUFFICES ASSUME text # << >> PROVE C[1] # << >>
      OBVIOUS
    <2>2. 1 \in 1 .. L
      BY <2>1
    <2>3. 1 + size(1) \in 1 .. L + 2 /\ 1 + size(1) > L - L
      BY <1>2, <2>2
    <2> HIDE DEF C, size
    <2>4. C[1] = <<tok(1)>> \o C[1 + size(1)]
      BY <1>6, <2>2
    <2>5. C[1] = << >> => FALSE
      <3>1. C[1] = << >> => Text(C[1]) = << >>
        <4>1. [n \in 1 .. Len(<< >>) |-> << >>[n].text] = << >>
          OBVIOUS
        <4>2. Text(<< >>) = << >>
          BY <4>1, FlattenNothing DEF Text
        <4> QED
          BY <4>2
      <3>2. SubSeq(text, 1, L) = text
        OBVIOUS
      <3> QED
        BY <1>12, <2>1, <3>1, <3>2
    <2> QED
      BY <2>5
  <1>14. Tokenize(<< >>) = << >>
    <2> DEFINE G(T) == [i \in 1 .. Len(<< >>) + 2 |->
                 IF i > Len(<< >>) THEN << >>
                 ELSE LET n == IF i < Len(<< >>) /\ SubSeq(<< >>, i, i + 1) \in Merges THEN 2 ELSE 1
                      IN <<[text |-> SubSeq(<< >>, i, i + n - 1), made |-> FALSE]>> \o T[i + n]]
               D == CHOOSE T : T = G(T)
    <2>1. Tokenize(<< >>) = D[1]
      BY DEF Tokenize
    <2>2. \A T : G(T) = [i \in 1 .. 2 |-> << >>]
      <3>1. Len(<< >>) = 0
        OBVIOUS
      <3> QED
        BY <3>1
    <2>3. \E T : T = G(T)
      <3> HIDE DEF G
      <3> QED
        BY <2>2
    <2>4. D = G(D)
      <3> HIDE DEF G
      <3> QED
        BY <2>3
    <2>5. D[1] = << >>
      <3>1. D = [i \in 1 .. 2 |-> << >>]
        <4> HIDE DEF G, D
        <4> QED
          BY <2>2, <2>4
      <3> HIDE DEF D
      <3> QED
        BY <3>1
    <2> QED
      BY <2>1, <2>5
  <1>15. SubSeq(text, 1, L) = text
    OBVIOUS
  <1> HIDE DEF C, L
  <1> QED
    BY <1>1, <1>12, <1>13, <1>14, <1>15

-----------------------------------------------------------------------------
(* The trie.                                                                   *)

\* The text of an answer, which may be empty.
Written == {<< >>} \cup {FlattenSeq(a) : a \in Answers}

\* What a node holds: a prompt and the tokenizer's tokens, or what followed a
\* prompt and an engine's tokens.
PromptNode(n) == \E p \in Prompts : n = <<p>> /\ trie[n] = Tokenize(p)
AnswerNode(chars, n) ==
  \E p \in Prompts, x \in Written \ {<< >>} :
    /\ n = <<p, x>> /\ <<p>> \in DOMAIN trie
    /\ trie[n] \in Seq(Tokens(chars)) /\ Text(trie[n]) = x /\ MadeText(trie[n]) = x
TrieFits(chars) == \A n \in DOMAIN trie : PromptNode(n) \/ AnswerNode(chars, n)

LEMMA WrittenApart ==
  ASSUME NEW Chars, TextsApart(Chars)
  PROVE  /\ \A p \in Prompts : p \in Seq(Chars) /\ p # << >>
         /\ \A x \in Written : x \in Seq(Chars)
         /\ \A p, q \in Prompts : \A x \in Written : IsPrefix(q, p \o x) => q = p
         /\ \A x \in Written \ {<< >>} : \A y \in Written : IsPrefix(x, y) => x = y
  <1>1. \A a \in Answers : FlattenSeq(a) \in Seq(Chars)
    BY FlattenAppend DEF TextsApart
  <1>2. << >> \in Seq(Chars)
    OBVIOUS
  <1>3. \A x \in Written : x \in Seq(Chars)
    BY <1>1, <1>2 DEF Written
  <1>4. ASSUME NEW x \in Written \ {<< >>}, NEW y \in Written, IsPrefix(x, y) PROVE x = y
    <2>1. CASE y = << >>
      <3>1. x \in Seq(Chars) /\ Len(x) <= Len(<< >>)
        BY <1>3, <1>4, <2>1 DEF IsPrefix
      <3> QED
        BY <3>1
    <2>2. CASE y # << >>
      BY <1>4, <2>2 DEF Written, TextsApart
    <2> QED
      BY <2>1, <2>2
  <1>5. \A p \in Prompts : p \in Seq(Chars) /\ p # << >>
    BY DEF TextsApart
  <1>6. \A p, q \in Prompts : \A x \in Written : IsPrefix(q, p \o x) => q = p
    BY DEF TextsApart, Written
  <1> QED
    BY <1>3, <1>4, <1>5, <1>6

\* The shapes of nodes, without their tokens.
LEMMA NodeShapes ==
  ASSUME NEW Chars, TextsApart(Chars), TrieFits(Chars), NEW n \in DOMAIN trie
  PROVE  \/ \E p \in Prompts : n = <<p>>
         \/ \E p \in Prompts, x \in Written \ {<< >>} : n = <<p, x>> /\ <<p>> \in DOMAIN trie
  BY DEF TrieFits, PromptNode, AnswerNode

LEMMA KeysAre ==
  ASSUME NEW Chars, TextsApart(Chars), TrieFits(Chars), NEW p \in Prompts, NEW x \in Written
  PROVE  /\ Keys(<< >>, p \o x) = IF <<p>> \in DOMAIN trie THEN {p} ELSE {}
         /\ Keys(<<p>>, p \o x) = IF <<p, x>> \in DOMAIN trie THEN {x} ELSE {}
         /\ Rest(<< >>, p \o x) = p \o x /\ Rest(<<p>>, p \o x) = x
         /\ Rest(<<p, x>>, p \o x) = << >>
         /\ p \o x \in Seq(Chars)
  <1> DEFINE t == p \o x
  <1>1. p \in Seq(Chars) /\ x \in Seq(Chars) /\ t \in Seq(Chars)
    BY WrittenApart
  <1>2. Rest(<< >>, t) = t
    <2>1. SubSeq(t, 1, Len(t)) = t
      BY <1>1, PrefixFacts
    <2>2. Len(FlattenSeq(<< >>)) + 1 = 1
      BY FlattenNothing
    <2> QED
      BY <2>1, <2>2 DEF Rest
  <1>3. Rest(<<p>>, t) = x
    <2>1. FlattenSeq(<<p>>) = p
      BY <1>1, FlattenFew
    <2>2. SubSeq(t, Len(p) + 1, Len(t)) = x
      BY <1>1, PrefixFacts
    <2> HIDE DEF t
    <2> QED
      BY <2>1, <2>2 DEF Rest
  <1>4. Rest(<<p, x>>, t) = << >>
    <2>1. FlattenSeq(<<p, x>>) = t
      BY <1>1, FlattenFew
    <2> HIDE DEF t
    <2>2. SubSeq(t, Len(t) + 1, Len(t)) = << >>
      BY <1>1, PrefixFacts
    <2> QED
      BY <2>1, <2>2 DEF Rest
  <1> HIDE DEF t
  <1>5. Keys(<< >>, t) = IF <<p>> \in DOMAIN trie THEN {p} ELSE {}
    <2>1. ASSUME NEW n \in DOMAIN trie, Len(n) = Len(<< >>) + 1, IsPrefix(n[Len(n)], Rest(<< >>, t))
          PROVE  n = <<p>> /\ n[Len(n)] = p
      <3>1. PICK q \in Prompts : n = <<q>>
        <4>1. /\ \A q, y : Len(<<q, y>>) = 2
              /\ Len(n) = 1
          BY <2>1
        <4>2. \/ \E q \in Prompts : n = <<q>>
              \/ \E q \in Prompts, y \in Written \ {<< >>} : n = <<q, y>> /\ <<q>> \in DOMAIN trie
          BY NodeShapes
        <4>3. ASSUME NEW q \in Prompts, NEW y \in Written \ {<< >>}, n = <<q, y>> PROVE FALSE
          BY <4>1, <4>3
        <4> QED
          BY <4>2, <4>3
      <3>2. n[Len(n)] = q
        BY <3>1
      <3>3. q = p
        BY <1>2, <2>1, <3>2, WrittenApart DEF t
      <3> QED
        BY <3>1, <3>2, <3>3
    <2>2. ASSUME <<p>> \in DOMAIN trie
          PROVE  /\ Len(<<p>>) = Len(<< >>) + 1 /\ IsPrefix(<< >>, <<p>>) /\ <<p>>[Len(<<p>>)] = p
                 /\ IsPrefix(p, Rest(<< >>, t))
      <3>1. Len(<<p>>) = Len(<< >>) + 1 /\ <<p>>[Len(<<p>>)] = p /\ <<p>> \in Seq(Prompts)
        OBVIOUS
      <3>2. IsPrefix(<< >>, <<p>>)
        BY <3>1, PrefixFacts
      <3>3. IsPrefix(p, t)
        BY <1>1, PrefixFacts DEF t
      <3> QED
        BY <1>2, <3>1, <3>2, <3>3
    <2> QED
      BY <2>1, <2>2 DEF Keys
  <1>6. Keys(<<p>>, t) = IF <<p, x>> \in DOMAIN trie THEN {x} ELSE {}
    <2>1. ASSUME NEW n \in DOMAIN trie, Len(n) = Len(<<p>>) + 1, IsPrefix(<<p>>, n),
                 IsPrefix(n[Len(n)], Rest(<<p>>, t))
          PROVE  n = <<p, x>> /\ n[Len(n)] = x
      <3>1. PICK q \in Prompts, y \in Written \ {<< >>} : n = <<q, y>>
        <4>1. /\ \A q : Len(<<q>>) = 1
              /\ Len(n) = 2
          BY <2>1
        <4>2. \/ \E q \in Prompts : n = <<q>>
              \/ \E q \in Prompts, y \in Written \ {<< >>} : n = <<q, y>> /\ <<q>> \in DOMAIN trie
          BY NodeShapes
        <4>3. ASSUME NEW q \in Prompts, n = <<q>> PROVE FALSE
          BY <4>1, <4>3
        <4> QED
          BY <4>2, <4>3
      <3>2. n[Len(n)] = y /\ q = p
        <4>1. n[Len(n)] = y /\ Len(<<p>>) = 1 /\ <<p>>[1] = p /\ n[1] = q
          BY <3>1
        <4>2. SubSeq(<<p>>, 1, 1) = SubSeq(n, 1, 1)
          BY <2>1, <4>1 DEF IsPrefix
        <4>3. SubSeq(<<p>>, 1, 1)[1] = p
          OBVIOUS
        <4>4. SubSeq(n, 1, 1)[1] = q
          BY <3>1
        <4> QED
          BY <4>1, <4>2, <4>3, <4>4
      <3>3. y = x
        BY <1>3, <2>1, <3>2, WrittenApart
      <3> QED
        BY <3>1, <3>2, <3>3
    <2>2. ASSUME <<p, x>> \in DOMAIN trie
          PROVE  /\ Len(<<p, x>>) = Len(<<p>>) + 1 /\ IsPrefix(<<p>>, <<p, x>>)
                 /\ <<p, x>>[Len(<<p, x>>)] = x /\ IsPrefix(x, Rest(<<p>>, t))
      <3>1. Len(<<p, x>>) = Len(<<p>>) + 1 /\ <<p, x>>[Len(<<p, x>>)] = x
        OBVIOUS
      <3>2. IsPrefix(<<p>>, <<p, x>>)
        BY <1>1, PartsOfTwo
      <3>3. IsPrefix(x, x)
        BY <1>1, PrefixFacts
      <3> QED
        BY <1>3, <3>1, <3>2, <3>3
    <2> QED
      BY <2>1, <2>2 DEF Keys
  <1> QED
    BY <1>1, <1>2, <1>3, <1>4, <1>5, <1>6 DEF t

\* A key leads to a node; a node of two keys has none below it.
LEMMA KeyLeads ==
  ASSUME NEW Chars, TextsApart(Chars), TrieFits(Chars), NEW p \in Prompts, NEW x \in Written,
         NEW n \in DOMAIN trie \cup {<< >>}, NEW key \in Keys(n, p \o x)
  PROVE  /\ Append(n, key) \in DOMAIN trie /\ Len(Append(n, key)) = Len(n) + 1
         /\ Len(n) \in 0 .. 1 /\ key \in Seq(Chars) /\ \A j \in Keys(n, p \o x) : j = key
  <1> DEFINE t == p \o x
  <1>0. /\ \A q \in Prompts : q \in Seq(Chars)
        /\ \A y \in Written : y \in Seq(Chars)
        /\ t \in Seq(Chars)
    BY WrittenApart
  <1> HIDE DEF t
  <1>1. CASE n = << >>
    <2>1. key = p /\ <<p>> \in DOMAIN trie /\ \A j \in Keys(n, p \o x) : j = p
      <3>1. Keys(<< >>, p \o x) = IF <<p>> \in DOMAIN trie THEN {p} ELSE {}
        BY KeysAre
      <3>2. key \in Keys(<< >>, p \o x)
        BY <1>1
      <3> QED
        BY <1>1, <3>1, <3>2
    <2>2. Append(<< >>, p) = <<p>> /\ Len(<<p>>) = 1 /\ Len(<< >>) = 0
      BY <1>0
    <2> QED
      BY <1>0, <1>1, <2>1, <2>2
  <1>2. CASE n \in DOMAIN trie /\ n # << >>
    <2>1. ASSUME NEW j \in Keys(n, t)
          PROVE  \E q \in Prompts, y \in Written \ {<< >>} :
                   /\ n = <<q>> /\ j = y /\ <<q, y>> \in DOMAIN trie
                   /\ IsPrefix(y, Rest(n, t))
      <3>1. PICK m \in DOMAIN trie : /\ Len(m) = Len(n) + 1 /\ IsPrefix(n, m) /\ j = m[Len(m)]
                                     /\ IsPrefix(m[Len(m)], Rest(n, t))
        BY <2>1 DEF Keys
      <3>2. PICK q \in Prompts : \/ n = <<q>>
                                 \/ \E y \in Written : n = <<q, y>>
        BY <1>2, NodeShapes
      <3>3. Len(n) \in 1 .. 2 /\ (Len(n) = 1 => n = <<q>>) /\ n[1] = q
        BY <3>2
      <3>4. \/ \E r \in Prompts : m = <<r>>
            \/ \E r \in Prompts, y \in Written \ {<< >>} : m = <<r, y>> /\ <<r>> \in DOMAIN trie
        BY NodeShapes
      <3>5. PICK r \in Prompts, y \in Written \ {<< >>} : m = <<r, y>>
        <4>1. ASSUME NEW r \in Prompts, m = <<r>> PROVE FALSE
          BY <3>1, <3>3, <4>1
        <4> QED
          BY <3>4, <4>1
      <3>6. Len(m) = 2 /\ m[2] = y /\ m[1] = r
        BY <3>5
      <3>7. Len(n) = 1 /\ n = <<q>> /\ j = y
        <4>1. Len(n) = 1
          BY <3>1, <3>3, <3>6
        <4>2. n = <<q>>
          BY <3>3, <4>1
        <4>3. j = y
          BY <3>1, <3>6
        <4> QED
          BY <4>1, <4>2, <4>3
      <3>8. r = q
        <4>1. SubSeq(<<q>>, 1, 1) = SubSeq(m, 1, 1)
          BY <3>1, <3>7 DEF IsPrefix
        <4>2. SubSeq(<<q>>, 1, 1) = <<q>>
          BY PartsOfTwo
        <4>3. SubSeq(<<r, y>>, 1, 1) = <<r>>
          <5>1. r \in Seq(Chars) /\ y \in Seq(Chars)
            BY <1>0
          <5> QED
            BY <5>1, PartsOfTwo
        <4>4. <<q>>[1] = q /\ <<r>>[1] = r
          OBVIOUS
        <4>5. <<q>> = <<r>>
          BY <3>5, <4>1, <4>2, <4>3
        <4> QED
          BY <4>4, <4>5
      <3>9. IsPrefix(y, Rest(n, t))
        BY <3>1, <3>7
      <3> QED
        BY <3>5, <3>7, <3>8, <3>9
    <2>2. key \in Keys(n, t)
      BY DEF t
    <2>3. PICK q \in Prompts, y \in Written \ {<< >>} :
             /\ n = <<q>> /\ key = y /\ <<q, y>> \in DOMAIN trie /\ IsPrefix(y, Rest(n, t))
      BY <2>1, <2>2
    <2>4. q \in Seq(Chars) /\ y \in Seq(Chars)
      BY <1>0
    <2>5. Append(<<q>>, y) = <<q, y>> /\ Len(<<q, y>>) = 2 /\ Len(<<q>>) = 1
      BY <2>4, AppendToOne
    <2>6. ASSUME NEW j \in Keys(n, t) PROVE j = key
      <3>1. PICK z \in Written \ {<< >>} : j = z /\ IsPrefix(z, Rest(n, t))
        BY <2>1, <2>6
      <3>2. Rest(n, t) \in Seq(Chars)
        <4>1. FlattenSeq(n) = q
          BY <2>3, <2>4, FlattenFew
        <4>2. SubSeq(t, Len(q) + 1, Len(t)) \in Seq(Chars)
          BY <1>0, <2>4
        <4> QED
          BY <4>1, <4>2 DEF Rest
      <3>3. z \in Seq(Chars) /\ Len(z) \in Nat /\ Len(y) \in Nat
        BY <1>0, <2>4
      <3>4. CASE Len(z) <= Len(y)
        <4>1. IsPrefix(z, y)
          BY <2>3, <2>4, <3>1, <3>2, <3>3, <3>4, PrefixesCompare
        <4> QED
          BY <2>3, <3>1, <4>1, WrittenApart
      <3>5. CASE ~ (Len(z) <= Len(y))
        <4>1. Len(y) <= Len(z)
          BY <3>3, <3>5
        <4>2. IsPrefix(y, z)
          BY <2>3, <2>4, <3>1, <3>2, <3>3, <4>1, PrefixesCompare
        <4> QED
          BY <2>3, <3>1, <4>2, WrittenApart
      <3> QED
        BY <3>4, <3>5
    <2>7. Append(n, key) = <<q, y>> /\ Len(n) = 1
      BY <2>3, <2>5
    <2>8. Append(n, key) \in DOMAIN trie /\ Len(Append(n, key)) = Len(n) + 1 /\ Len(n) \in 0 .. 1
      <3>1. Append(n, key) \in DOMAIN trie
        BY <2>3, <2>7
      <3>2. Len(Append(n, key)) = 2
        BY <2>5, <2>7
      <3> QED
        BY <2>7, <3>1, <3>2
    <2>9. key \in Seq(Chars) /\ \A j \in Keys(n, p \o x) : j = key
      BY <2>3, <2>4, <2>6 DEF t
    <2> QED
      BY <2>8, <2>9
  <1> QED
    BY <1>1, <1>2

\* The walk along a prompt and what followed it.
LEMMA WalkIs ==
  ASSUME NEW Chars, TextsApart(Chars), TrieFits(Chars), NEW p \in Prompts, NEW x \in Written
  PROVE  Walk(p \o x) = IF <<p>> \notin DOMAIN trie THEN << >>
                        ELSE IF <<p, x>> \in DOMAIN trie THEN <<p, x>> ELSE <<p>>
  <1> DEFINE t == p \o x
             D == DOMAIN trie \cup {<< >>}
             keys(n) == Keys(n, t)
             pick(n) == CHOOSE key \in keys(n) : \A j \in keys(n) : Len(j) <= Len(key)
             next(n) == Append(n, pick(n))
             F(To) == [n \in D |-> IF keys(n) = {} THEN n ELSE To[next(n)]]
             C == CHOOSE To : To = F(To)
  <1>1. Walk(t) = C[<< >>]
    BY DEF Walk
  <1>2. ASSUME NEW n \in D, keys(n) # {}
        PROVE  /\ pick(n) \in keys(n) /\ next(n) \in D /\ Len(next(n)) = Len(n) + 1
               /\ Len(n) \in 0 .. 1
    <2>1. PICK key \in keys(n) : TRUE
      BY <1>2
    <2>2. /\ Append(n, key) \in DOMAIN trie /\ Len(Append(n, key)) = Len(n) + 1
          /\ Len(n) \in 0 .. 1 /\ key \in Seq(Chars) /\ \A j \in keys(n) : j = key
      BY KeyLeads
    <2>3. \A j \in keys(n) : Len(j) <= Len(key)
      BY <2>2
    <2> HIDE DEF keys
    <2>4. pick(n) \in keys(n)
      BY <2>1, <2>3
    <2>5. pick(n) = key
      BY <2>2, <2>4
    <2> HIDE DEF pick
    <2> QED
      BY <2>2, <2>4, <2>5
  <1> HIDE DEF keys, pick
  <1>3. ASSUME NEW n \in D, keys(n) # {}, keys(next(n)) # {} PROVE keys(next(next(n))) = {}
    <2>1. next(n) \in D /\ Len(next(n)) = Len(n) + 1 /\ Len(n) \in 0 .. 1
      BY <1>2, <1>3
    <2> HIDE DEF next
    <2>2. next(next(n)) \in D /\ Len(next(next(n))) = Len(next(n)) + 1 /\ Len(next(n)) \in 0 .. 1
      BY <1>2, <1>3, <2>1
    <2>3. keys(next(next(n))) # {} => Len(next(next(n))) \in 0 .. 1
      BY <1>2, <2>2
    <2> QED
      BY <2>1, <2>2, <2>3
  <1> HIDE DEF next, D
  <1>4. \E To : To = F(To)
    <2> DEFINE G == [n \in D |-> IF keys(n) = {} THEN n
                                 ELSE IF keys(next(n)) = {} THEN next(n) ELSE next(next(n))]
    <2>1. ASSUME NEW n \in D PROVE F(G)[n] = G[n]
      <3>1. CASE keys(n) = {}
        BY <3>1
      <3>2. CASE keys(n) # {}
        <4>1. next(n) \in D
          BY <1>2, <3>2
        <4>2. F(G)[n] = G[next(n)]
          BY <3>2
        <4>3. CASE keys(next(n)) = {}
          <5>1. G[next(n)] = next(n) /\ G[n] = next(n)
            BY <3>2, <4>1, <4>3
          <5> QED
            BY <4>2, <5>1
        <4>4. CASE keys(next(n)) # {}
          <5>1. keys(next(next(n))) = {}
            BY <1>3, <3>2, <4>4
          <5>2. G[next(n)] = next(next(n)) /\ G[n] = next(next(n))
            BY <3>2, <4>1, <4>4, <5>1
          <5> QED
            BY <4>2, <5>2
        <4> QED
          BY <4>3, <4>4
      <3> QED
        BY <3>1, <3>2
    <2>2. F(G) = [n \in D |-> F(G)[n]]
      OBVIOUS
    <2>3. G = [n \in D |-> G[n]]
      OBVIOUS
    <2> HIDE DEF F, G
    <2>4. G = F(G)
      BY <2>1, <2>2, <2>3
    <2> QED
      BY <2>4
  <1>5. C = F(C)
    <2> HIDE DEF F
    <2> QED
      BY <1>4
  <1>6. \A n \in D : C[n] = IF keys(n) = {} THEN n ELSE C[next(n)]
    <2>1. \A n \in D : F(C)[n] = IF keys(n) = {} THEN n ELSE C[next(n)]
      <3> HIDE DEF C
      <3> QED
        OBVIOUS
    <2> HIDE DEF C, F
    <2> QED
      BY <1>5, <2>1
  <1> HIDE DEF C
  <1>7. << >> \in D /\ \A n \in DOMAIN trie : n \in D
    BY DEF D
  <1>8. /\ keys(<< >>) = IF <<p>> \in DOMAIN trie THEN {p} ELSE {}
        /\ keys(<<p>>) = IF <<p, x>> \in DOMAIN trie THEN {x} ELSE {}
        /\ p \in Seq(Chars) /\ x \in Seq(Chars)
    BY KeysAre, WrittenApart DEF keys
  <1>9. CASE <<p>> \notin DOMAIN trie
    BY <1>1, <1>6, <1>7, <1>8, <1>9
  <1>10. CASE <<p>> \in DOMAIN trie
    <2>1. next(<< >>) = <<p>>
      <3>1. pick(<< >>) = p
        BY <1>2, <1>7, <1>8, <1>10
      <3>2. Append(<< >>, p) = <<p>>
        BY <1>8
      <3> QED
        BY <3>1, <3>2 DEF next
    <2>2. C[<< >>] = C[<<p>>]
      BY <1>6, <1>7, <1>8, <1>10, <2>1
    <2>3. CASE <<p, x>> \notin DOMAIN trie
      BY <1>1, <1>6, <1>7, <1>8, <1>10, <2>2, <2>3
    <2>4. CASE <<p, x>> \in DOMAIN trie
      <3>1. pick(<<p>>) = x
        BY <1>2, <1>7, <1>8, <1>10, <2>4
      <3>2. next(<<p>>) = <<p, x>>
        BY <1>8, <3>1, AppendToOne DEF next
      <3>3. keys(<<p, x>>) = {}
        <4>1. Len(<<p, x>>) = 2 /\ <<p, x>> \in D
          BY <1>7, <2>4
        <4> QED
          BY <1>2, <4>1
      <3>4. C[<<p>>] = C[<<p, x>>] /\ C[<<p, x>>] = <<p, x>>
        BY <1>6, <1>7, <1>8, <1>10, <2>4, <3>2, <3>3
      <3> QED
        BY <1>1, <1>10, <2>2, <2>4, <3>4
    <2> QED
      BY <2>3, <2>4
  <1> QED
    BY <1>9, <1>10

LEMMA HeldIs ==
  ASSUME NEW Chars, TextsApart(Chars), TrieFits(Chars), NEW p \in Prompts, NEW x \in Written
  PROVE  /\ Held(<< >>) = << >>
         /\ <<p>> \in DOMAIN trie => Held(<<p>>) = Tokenize(p)
         /\ <<p>> \in DOMAIN trie /\ <<p, x>> \in DOMAIN trie =>
              /\ Held(<<p, x>>) = Tokenize(p) \o trie[<<p, x>>] /\ x # << >>
              /\ trie[<<p, x>>] \in Seq(Tokens(Chars))
              /\ Text(trie[<<p, x>>]) = x /\ MadeText(trie[<<p, x>>]) = x
  <1>1. Held(<< >>) = << >>
    <2>1. [i \in 1 .. Len(<< >>) |-> trie[SubSeq(<< >>, 1, i)]] = << >>
      OBVIOUS
    <2> QED
      BY <2>1, FlattenNothing DEF Held
  <1>2. /\ p \in Seq(Chars) /\ x \in Seq(Chars)
        /\ \A q \in Prompts : q \in Seq(Chars)
        /\ \A y \in Written : y \in Seq(Chars)
    BY WrittenApart
  <1>3. /\ SubSeq(<<p>>, 1, 1) = <<p>> /\ SubSeq(<<p, x>>, 1, 1) = <<p>> /\ SubSeq(<<p, x>>, 1, 2) = <<p, x>>
        /\ Len(<<p>>) = 1 /\ Len(<<p, x>>) = 2
    BY <1>2, PartsOfTwo
  <1>4. Tokenize(p) \in Seq(Tokens(Chars))
    <2>1. Tokenize(p) \in Seq(Given(Chars))
      BY <1>2, TokenizeSpells
    <2>2. Given(Chars) \subseteq Tokens(Chars)
      BY DEF Given, Tokens
    <2> QED
      BY <2>1, <2>2, SeqMonotonic
  <1>5. ASSUME <<p>> \in DOMAIN trie PROVE trie[<<p>>] = Tokenize(p)
    <2>1. PromptNode(<<p>>) \/ AnswerNode(Chars, <<p>>)
      BY <1>5 DEF TrieFits
    <2>2. CASE PromptNode(<<p>>)
      <3>1. PICK q \in Prompts : <<p>> = <<q>> /\ trie[<<p>>] = Tokenize(q)
        BY <2>2 DEF PromptNode
      <3>2. <<p>>[1] = p /\ <<q>>[1] = q
        OBVIOUS
      <3>3. p = q
        BY <3>1, <3>2
      <3> QED
        BY <3>1, <3>3
    <2>3. CASE AnswerNode(Chars, <<p>>)
      <3>1. PICK q \in Prompts, y \in Written : <<p>> = <<q, y>>
        BY <2>3 DEF AnswerNode
      <3>2. Len(<<q, y>>) = 2
        OBVIOUS
      <3> QED
        BY <1>3, <3>1, <3>2
    <2> QED
      BY <2>1, <2>2, <2>3
  <1>6. ASSUME <<p, x>> \in DOMAIN trie
        PROVE  /\ x # << >> /\ trie[<<p, x>>] \in Seq(Tokens(Chars))
               /\ Text(trie[<<p, x>>]) = x /\ MadeText(trie[<<p, x>>]) = x
    <2>1. PromptNode(<<p, x>>) \/ AnswerNode(Chars, <<p, x>>)
      BY <1>6 DEF TrieFits
    <2>2. CASE PromptNode(<<p, x>>)
      <3>1. PICK q \in Prompts : <<p, x>> = <<q>>
        BY <2>2 DEF PromptNode
      <3>2. Len(<<q>>) = 1
        OBVIOUS
      <3> QED
        BY <1>3, <3>1, <3>2
    <2>3. CASE AnswerNode(Chars, <<p, x>>)
      <3> DEFINE n == <<p, x>>
      <3>1. PICK q \in Prompts, y \in Written \ {<< >>} :
               /\ n = <<q, y>> /\ trie[n] \in Seq(Tokens(Chars)) /\ Text(trie[n]) = y /\ MadeText(trie[n]) = y
        BY <2>3 DEF AnswerNode
      <3>2. n[2] = x /\ <<q, y>>[2] = y
        OBVIOUS
      <3> HIDE DEF n
      <3>3. x = y
        BY <3>1, <3>2
      <3>4. /\ x # << >> /\ trie[n] \in Seq(Tokens(Chars)) /\ Text(trie[n]) = x /\ MadeText(trie[n]) = x
        BY <3>1, <3>3
      <3> QED
        BY <3>4 DEF n
    <2> QED
      BY <2>1, <2>2, <2>3
  <1>7. ASSUME <<p>> \in DOMAIN trie PROVE Held(<<p>>) = Tokenize(p)
    <2>1. [i \in 1 .. Len(<<p>>) |-> trie[SubSeq(<<p>>, 1, i)]] = <<trie[<<p>>]>>
      <3> DEFINE at(i) == trie[SubSeq(<<p>>, 1, i)]
      <3>1. at(1) = trie[<<p>>]
        BY <1>3, Zenon
      <3> HIDE DEF at
      <3>2. [i \in 1 .. 1 |-> at(i)] = <<at(1)>>
        OBVIOUS
      <3>3. [i \in 1 .. Len(<<p>>) |-> at(i)] = <<trie[<<p>>]>>
        BY <1>3, <3>1, <3>2
      <3> QED
        BY <3>3 DEF at
    <2>2. Held(<<p>>) = FlattenSeq(<<trie[<<p>>]>>)
      BY <2>1 DEF Held
    <2>3. Held(<<p>>) = FlattenSeq(<<Tokenize(p)>>)
      BY <1>5, <1>7, <2>2
    <2>4. FlattenSeq(<<Tokenize(p)>>) = Tokenize(p)
      BY <1>4, FlattenFew
    <2> QED
      BY <2>3, <2>4
  <1>8. ASSUME <<p>> \in DOMAIN trie, <<p, x>> \in DOMAIN trie
        PROVE  Held(<<p, x>>) = Tokenize(p) \o trie[<<p, x>>]
    <2> DEFINE a == Tokenize(p)
               b == trie[<<p, x>>]
    <2>1. [i \in 1 .. Len(<<p, x>>) |-> trie[SubSeq(<<p, x>>, 1, i)]] = <<trie[<<p>>], trie[<<p, x>>]>>
      <3> DEFINE at(i) == trie[SubSeq(<<p, x>>, 1, i)]
      <3>1. at(1) = trie[<<p>>] /\ at(2) = trie[<<p, x>>]
        <4>1. SubSeq(<<p, x>>, 1, 1) = <<p>> /\ SubSeq(<<p, x>>, 1, 2) = <<p, x>>
          BY <1>3
        <4> QED
          BY <4>1, Zenon
      <3> HIDE DEF at
      <3>2. [i \in 1 .. 2 |-> at(i)] = <<at(1), at(2)>>
        OBVIOUS
      <3>3. [i \in 1 .. Len(<<p, x>>) |-> at(i)] = <<trie[<<p>>], trie[<<p, x>>]>>
        BY <1>3, <3>1, <3>2
      <3> QED
        BY <3>3 DEF at
    <2>2. Held(<<p, x>>) = FlattenSeq(<<a, b>>)
      BY <1>5, <1>8, <2>1 DEF Held
    <2>3. a \in Seq(Tokens(Chars)) /\ b \in Seq(Tokens(Chars))
      BY <1>4, <1>6, <1>8
    <2> HIDE DEF a, b
    <2>4. FlattenSeq(<<a, b>>) = a \o b
      BY <2>3, FlattenFew
    <2> QED
      BY <2>2, <2>4 DEF a, b
  <1> QED
    BY <1>1, <1>6, <1>7, <1>8

\* What a look-up finds and what an insertion adds.
LEMMA FoundIs ==
  ASSUME NEW Chars, TextsApart(Chars), TrieFits(Chars), NEW p \in Prompts, NEW x \in Written
  PROVE  /\ <<p>> \in DOMAIN trie => Found(p) = [tokens |-> Tokenize(p), trie |-> trie]
         /\ <<p>> \notin DOMAIN trie =>
              Found(p) = [tokens |-> Tokenize(p), trie |-> With(<<p>>, Tokenize(p))]
         /\ <<p>> \in DOMAIN trie /\ <<p, x>> \in DOMAIN trie =>
              Found(p \o x) = [tokens |-> Tokenize(p) \o trie[<<p, x>>], trie |-> trie]
  <1>1. /\ p \in Seq(Chars) /\ x \in Seq(Chars) /\ p # << >> /\ p \o << >> = p /\ << >> \in Written
        /\ p \o x \in Seq(Chars)
    BY WrittenApart DEF Written
  <1>2. /\ Tokenize(p) \in Seq(Tokens(Chars)) /\ Tokenize(p) # << >> /\ Tokenize(<< >>) = << >>
    <2>1. Tokenize(p) \in Seq(Given(Chars)) /\ Tokenize(p) # << >> /\ Tokenize(<< >>) = << >>
      BY <1>1, TokenizeSpells
    <2>2. Given(Chars) \subseteq Tokens(Chars)
      BY DEF Given, Tokens
    <2> QED
      BY <2>1, <2>2, SeqMonotonic
  <1>3. <<p, << >>>> \notin DOMAIN trie \/ <<p>> \notin DOMAIN trie
    BY <1>1, HeldIs
  <1>4. Walk(p) = IF <<p>> \notin DOMAIN trie THEN << >> ELSE <<p>>
    <2>1. Walk(p \o << >>) = IF <<p>> \notin DOMAIN trie THEN << >>
                             ELSE IF <<p, << >>>> \in DOMAIN trie THEN <<p, << >>>> ELSE <<p>>
      BY <1>1, WalkIs
    <2> QED
      BY <1>1, <1>3, <2>1
  <1>5. Rest(<<p>>, p) = << >> /\ Rest(<< >>, p) = p
    <2>1. Rest(<<p>>, p \o << >>) = << >> /\ Rest(<< >>, p \o << >>) = p \o << >>
      BY <1>1, KeysAre
    <2> QED
      BY <1>1, <2>1
  <1>6. ASSUME <<p>> \in DOMAIN trie PROVE Found(p) = [tokens |-> Tokenize(p), trie |-> trie]
    <2>1. Held(<<p>>) = Tokenize(p)
      BY <1>6, HeldIs
    <2>2. Tokenize(p) \o << >> = Tokenize(p)
      BY <1>2
    <2> QED
      BY <1>2, <1>4, <1>5, <1>6, <2>1, <2>2 DEF Found
  <1>7. ASSUME <<p>> \notin DOMAIN trie
        PROVE  Found(p) = [tokens |-> Tokenize(p), trie |-> With(<<p>>, Tokenize(p))]
    <2>1. Held(<< >>) = << >> /\ Len(<< >>) = 0
      BY HeldIs
    <2>2. SubSeq(Tokenize(p), 1, Len(Tokenize(p))) = Tokenize(p)
      BY <1>2, PrefixFacts
    <2>3. Append(<< >>, p) = <<p>>
      BY <1>1
    <2>4. Inserted(p, Tokenize(p)) = With(<<p>>, Tokenize(p))
      <3>1. Len(Held(<< >>)) + 1 = 1
        BY <2>1
      <3> QED
        BY <1>1, <1>2, <1>4, <1>5, <1>7, <2>2, <2>3, <3>1 DEF Inserted
    <2> QED
      BY <1>4, <1>7, <2>1, <2>4 DEF Found
  <1>8. ASSUME <<p>> \in DOMAIN trie, <<p, x>> \in DOMAIN trie
        PROVE  Found(p \o x) = [tokens |-> Tokenize(p) \o trie[<<p, x>>], trie |-> trie]
    <2>1. Walk(p \o x) = <<p, x>>
      BY <1>8, WalkIs
    <2>2. Held(<<p, x>>) = Tokenize(p) \o trie[<<p, x>>] /\ trie[<<p, x>>] \in Seq(Tokens(Chars))
      BY <1>8, HeldIs
    <2>3. Rest(<<p, x>>, p \o x) = << >>
      BY KeysAre
    <2> DEFINE h == Tokenize(p) \o trie[<<p, x>>]
    <2>4. h \in Seq(Tokens(Chars)) /\ h # << >>
      BY <1>2, <2>2
    <2> HIDE DEF h
    <2>5. h \o << >> = h
      BY <2>4
    <2>6. Held(<<p, x>>) = h
      BY <2>2 DEF h
    <2>7. Found(p \o x) = [tokens |-> h, trie |-> trie]
      BY <1>2, <2>1, <2>3, <2>4, <2>5, <2>6 DEF Found
    <2> QED
      BY <2>7 DEF h
  <1> QED
    BY <1>6, <1>7, <1>8

LEMMA InsertedIs ==
  ASSUME NEW Chars, TextsApart(Chars), TrieFits(Chars), NEW p \in Prompts, NEW x \in Written,
         NEW made \in Seq(Tokens(Chars)), <<p>> \in DOMAIN trie
  PROVE  Inserted(p \o x, Tokenize(p) \o made) =
           IF x = << >> \/ <<p, x>> \in DOMAIN trie THEN trie ELSE With(<<p, x>>, made)
  <1> DEFINE t == p \o x
             tokens == Tokenize(p) \o made
             node == Walk(t)
             rest == Rest(node, t)
             left == SubSeq(tokens, Len(Held(node)) + 1, Len(tokens))
  <1>1. /\ p \in Seq(Chars) /\ x \in Seq(Chars) /\ p # << >> /\ t # << >>
        /\ \A y \in Written : y \in Seq(Chars)
    BY WrittenApart
  <1>2. Tokenize(p) \in Seq(Tokens(Chars)) /\ Tokenize(p) # << >> /\ tokens # << >>
    <2>1. Tokenize(p) \in Seq(Given(Chars)) /\ Tokenize(p) # << >>
      BY <1>1, TokenizeSpells
    <2>2. Given(Chars) \subseteq Tokens(Chars)
      BY DEF Given, Tokens
    <2>3. Tokenize(p) \in Seq(Tokens(Chars))
      BY <2>1, <2>2, SeqMonotonic
    <2> QED
      BY <2>1, <2>3
  <1>3. Inserted(t, tokens) = IF rest # << >> THEN With(Append(node, rest), left)
                              ELSE IF trie[node] = << >> THEN With(node, left) ELSE trie
    <2> HIDE DEF t, tokens
    <2> QED
      BY <1>1, <1>2 DEF Inserted
  <1>4. node = IF <<p, x>> \in DOMAIN trie THEN <<p, x>> ELSE <<p>>
    BY WalkIs
  <1>5. Rest(<<p>>, t) = x /\ Rest(<<p, x>>, t) = << >> /\ Held(<<p>>) = Tokenize(p)
    BY KeysAre, HeldIs
  <1> HIDE DEF t
  <1>6. trie[<<p>>] # << >>
    <2>1. PromptNode(<<p>>) \/ AnswerNode(Chars, <<p>>)
      BY DEF TrieFits
    <2>2. PICK q \in Prompts : trie[<<p>>] = Tokenize(q) \/ \E y \in Written \ {<< >>} : Text(trie[<<p>>]) = y
      BY <2>1 DEF PromptNode, AnswerNode
    <2>3. Tokenize(q) # << >>
      BY WrittenApart, TokenizeSpells
    <2>4. Text(<< >>) = << >>
      <3>1. [n \in 1 .. Len(<< >>) |-> << >>[n].text] = << >>
        OBVIOUS
      <3> QED
        BY <3>1, FlattenNothing DEF Text
    <2> QED
      BY <2>2, <2>3, <2>4
  <1>7. CASE <<p, x>> \in DOMAIN trie
    <2>1. node = <<p, x>> /\ rest = << >>
      BY <1>4, <1>5, <1>7
    <2>2. Text(trie[<<p, x>>]) = x /\ x # << >>
      BY <1>7, HeldIs
    <2>3. Text(<< >>) = << >>
      <3>1. [n \in 1 .. Len(<< >>) |-> << >>[n].text] = << >>
        OBVIOUS
      <3> QED
        BY <3>1, FlattenNothing DEF Text
    <2>4. trie[<<p, x>>] # << >>
      BY <2>2, <2>3
    <2> HIDE DEF node, rest, left, tokens
    <2>5. Inserted(t, tokens) = trie
      BY <1>3, <2>1, <2>4
    <2> QED
      BY <1>7, <2>5 DEF t, tokens
  <1>8. CASE <<p, x>> \notin DOMAIN trie
    <2>1. node = <<p>> /\ rest = x
      BY <1>4, <1>5, <1>8
    <2>2. left = made
      <3>1. SubSeq(tokens, Len(Tokenize(p)) + 1, Len(tokens)) = made
        BY <1>2, PrefixFacts
      <3> HIDE DEF node, tokens
      <3> QED
        BY <1>5, <2>1, <3>1
    <2>3. Append(<<p>>, x) = <<p, x>>
      BY <1>1, AppendToOne
    <2> HIDE DEF node, rest, left, tokens
    <2>4. Inserted(t, tokens) = IF x # << >> THEN With(<<p, x>>, made) ELSE trie
      BY <1>3, <1>6, <2>1, <2>2, <2>3
    <2> QED
      BY <1>8, <2>4 DEF t, tokens
  <1> QED
    BY <1>7, <1>8

-----------------------------------------------------------------------------
(* The samples.                                                                *)

\* What is known of a request by its place; nodes are those of the trie.
RequestSpells(r, nodes) ==
  /\ r.at # "idle" => /\ r.prompt \in Prompts /\ <<r.prompt>> \in nodes
                      /\ r.input = Tokenize(r.prompt) /\ r.tries \in 0 .. Tries
  /\ r.at \in {"insert", "read", "done"} => \E a \in Answers : r.answer = Made(a)
  /\ r.at = "read" => Text(r.answer) = << >> \/ <<r.prompt, Text(r.answer)>> \in nodes
  /\ r.at = "done" => Faithful(r)

\* As long as every answer came to its end.
SpellInv(chars) ==
  ~ cut => TrieFits(chars) /\ \A c \in Clients : RequestSpells(request[c], DOMAIN trie)

\* A node more.
LEMMA NodeAdded ==
  ASSUME NEW Chars, TrieFits(Chars), NEW n, NEW tokens, trie' = With(n, tokens),
         \/ \E p \in Prompts : n = <<p>> /\ tokens = Tokenize(p)
         \/ \E p \in Prompts, x \in Written \ {<< >>} :
              /\ n = <<p, x>> /\ <<p>> \in DOMAIN trie
              /\ tokens \in Seq(Tokens(Chars)) /\ Text(tokens) = x /\ MadeText(tokens) = x
  PROVE  TrieFits(Chars)' /\ DOMAIN trie' = DOMAIN trie \cup {n}
  <1>1. DOMAIN trie' = DOMAIN trie \cup {n} /\ trie'[n] = tokens
    BY DEF With
  <1>2. \A m \in DOMAIN trie \ {n} : trie'[m] = trie[m]
    BY DEF With
  <1>3. PromptNode(n)' \/ AnswerNode(Chars, n)'
    BY <1>1 DEF PromptNode, AnswerNode
  <1>4. ASSUME NEW m \in DOMAIN trie \ {n} PROVE PromptNode(m)' \/ AnswerNode(Chars, m)'
    <2>1. PromptNode(m) \/ AnswerNode(Chars, m)
      BY DEF TrieFits
    <2>2. trie'[m] = trie[m]
      BY <1>2
    <2> QED
      BY <1>1, <2>1, <2>2 DEF PromptNode, AnswerNode
  <1>5. TrieFits(Chars)'
    <2>1. \A m \in DOMAIN trie' : PromptNode(m)' \/ AnswerNode(Chars, m)'
      BY <1>1, <1>3, <1>4
    <2> QED
      BY <2>1 DEF TrieFits
  <1> QED
    BY <1>1, <1>5

\* A request goes on, the trie grows.
LEMMA SpellingGoesOn ==
  ASSUME NEW Chars, RouterTypeOK, TrieFits(Chars)',
         \A d \in Clients : RequestSpells(request[d], DOMAIN trie),
         DOMAIN trie \subseteq DOMAIN trie', NEW c \in Clients, NEW r,
         request' = [request EXCEPT ![c] = r], RequestSpells(r, DOMAIN trie')
  PROVE  SpellInv(Chars)'
  <1>1. ASSUME NEW d \in Clients PROVE RequestSpells(request'[d], DOMAIN trie')
    <2>1. CASE d = c
      <3>1. request'[d] = r
        BY <2>1 DEF RouterTypeOK
      <3> QED
        BY <3>1
    <2>2. CASE d # c
      <3>1. request'[d] = request[d]
        BY <2>2 DEF RouterTypeOK
      <3>2. RequestSpells(request[d], DOMAIN trie)
        OBVIOUS
      <3>3. RequestSpells(request[d], DOMAIN trie')
        BY <3>2 DEF RequestSpells
      <3> QED
        BY <3>1, <3>3
    <2> QED
      BY <2>1, <2>2
  <1> QED
    BY <1>1 DEF SpellInv

\* The trie as it was.
LEMMA SpellingWaits ==
  ASSUME NEW Chars, RouterTypeOK, TrieFits(Chars), trie' = trie,
         \A d \in Clients : RequestSpells(request[d], DOMAIN trie),
         NEW c \in Clients, NEW r,
         request' = [request EXCEPT ![c] = r], RequestSpells(r, DOMAIN trie)
  PROVE  SpellInv(Chars)'
  <1>1. TrieFits(Chars)'
    BY DEF TrieFits, PromptNode, AnswerNode
  <1> QED
    BY <1>1, SpellingGoesOn

LEMMA IdleSpells ==
  ASSUME NEW nodes
  PROVE  RequestSpells(RouterIdle, nodes)
  BY DEF RequestSpells, RouterIdle

LEMMA MadeIs ==
  ASSUME NEW Chars, TextsApart(Chars), NEW a \in Answers
  PROVE  /\ Made(a) \in Seq(Tokens(Chars)) /\ Text(Made(a)) \in Written
         /\ MadeText(Made(a)) = Text(Made(a))
  <1>1. a \in Seq(Seq(Chars))
    BY DEF TextsApart
  <1>2. Made(a) \in Seq(Tokens(Chars)) /\ Text(Made(a)) = FlattenSeq(a) /\ MadeText(Made(a)) = FlattenSeq(a)
    BY <1>1, TextsMade
  <1> QED
    BY <1>2 DEF Written

LEMMA SpellSteps ==
  ASSUME NEW Chars, TextsApart(Chars)
  PROVE  RouterInv /\ SpellInv(Chars) /\ [RouterNext]_routerVars => SpellInv(Chars)'
  <1> SUFFICES ASSUME RouterInv, SpellInv(Chars), [RouterNext]_routerVars PROVE SpellInv(Chars)'
    OBVIOUS
  <1> USE DEF cacheVars
  <1>0. /\ \A c \in Clients : /\ DOMAIN request[c] = RequestFields
                              /\ request[c] = [f \in RequestFields |-> request[c][f]]
        /\ DOMAIN request = Clients /\ request = [c \in Clients |-> request[c]]
        /\ Known \cap Place = {} /\ RouterTypeOK /\ up \cap Place = {} /\ Tries \in Nat \ {0}
    BY RouterAssumption DEF RouterInv, RouterTypeOK, RequestOK
  <1>a. CASE UNCHANGED <<trie, cut, request>>
    BY <1>a DEF SpellInv, TrieFits, PromptNode, AnswerNode
  <1>b. CASE cut'
    BY <1>b DEF SpellInv
  <1>c. CASE ~ cut' /\ ~ cut
    <2>0. TrieFits(Chars) /\ \A d \in Clients : RequestSpells(request[d], DOMAIN trie)
      BY <1>c DEF SpellInv
    <2>1. ASSUME NEW c \in Clients, Ask(c) PROVE SpellInv(Chars)'
      <3> PICK p \in Prompts :
             /\ request' = [request EXCEPT ![c] = [@ EXCEPT !.at = "route", !.prompt = p,
                                                         !.input = Found(p).tokens, !.tries = 1]]
             /\ trie' = Found(p).trie
        BY <2>1 DEF Ask
      <3> DEFINE r == [request[c] EXCEPT !.at = "route", !.prompt = p, !.input = Found(p).tokens, !.tries = 1]
      <3>1. request' = [request EXCEPT ![c] = r]
        OBVIOUS
      <3>2. << >> \in Written
        BY DEF Written
      <3>3. /\ Found(p).tokens = Tokenize(p)
            /\ <<p>> \in DOMAIN trie => Found(p).trie = trie
            /\ <<p>> \notin DOMAIN trie => Found(p).trie = With(<<p>>, Tokenize(p))
        <4>1. CASE <<p>> \in DOMAIN trie
          <5>1. Found(p) = [tokens |-> Tokenize(p), trie |-> trie]
            BY <2>0, <3>2, <4>1, FoundIs
          <5> QED
            BY <4>1, <5>1
        <4>2. CASE <<p>> \notin DOMAIN trie
          <5>1. Found(p) = [tokens |-> Tokenize(p), trie |-> With(<<p>>, Tokenize(p))]
            BY <2>0, <3>2, <4>2, FoundIs
          <5> QED
            BY <4>2, <5>1
        <4> QED
          BY <4>1, <4>2
      <3>4. r.at = "route" /\ r.prompt = p /\ r.input = Tokenize(p) /\ r.tries = 1
        BY <1>0, <3>3 DEF RequestFields
      <3> HIDE DEF r
      <3>5. ASSUME NEW nodes, <<p>> \in nodes PROVE RequestSpells(r, nodes)
        BY <1>0, <3>4, <3>5 DEF RequestSpells
      <3>6. CASE <<p>> \in DOMAIN trie
        <4>1. trie' = trie
          BY <3>3, <3>6
        <4>2. RequestSpells(r, DOMAIN trie)
          BY <3>5, <3>6
        <4> QED
          BY <1>0, <2>0, <3>1, <4>1, <4>2, SpellingWaits
      <3>7. CASE <<p>> \notin DOMAIN trie
        <4>1. trie' = With(<<p>>, Tokenize(p))
          BY <3>3, <3>7
        <4>2. TrieFits(Chars)' /\ DOMAIN trie' = DOMAIN trie \cup {<<p>>}
          BY <2>0, <4>1, NodeAdded
        <4>3. RequestSpells(r, DOMAIN trie')
          BY <3>5, <4>2
        <4>4. DOMAIN trie \subseteq DOMAIN trie'
          BY <4>2
        <4> QED
          BY <1>0, <2>0, <3>1, <4>2, <4>3, <4>4, SpellingGoesOn
      <3> QED
        BY <3>6, <3>7
    <2>2. ASSUME NEW c \in Clients, Route(c) PROVE SpellInv(Chars)'
      <3>0. trie' = trie
        BY <2>2 DEF Route
      <3>1. CASE Healthy = {}
        <4>1. request' = [request EXCEPT ![c] = RouterIdle]
          BY <2>2, <3>1 DEF Route
        <4> QED
          BY <1>0, <2>0, <3>0, <4>1, IdleSpells, SpellingWaits
      <3>2. CASE Healthy # {}
        <4> PICK w \in Least : request' = [request EXCEPT ![c] = [@ EXCEPT !.at = w]]
          BY <2>2, <3>2 DEF Route
        <4> DEFINE r == [request[c] EXCEPT !.at = w]
        <4>1. request' = [request EXCEPT ![c] = r]
          OBVIOUS
        <4>2. w \notin Place /\ request[c].at = "route"
          BY <1>0, <2>2 DEF Route, Least, Healthy
        <4>3. r.at = w /\ r.prompt = request[c].prompt /\ r.input = request[c].input /\ r.tries = request[c].tries
          BY <1>0 DEF RequestFields
        <4>4. RequestSpells(request[c], DOMAIN trie)
          BY <2>0
        <4> HIDE DEF r
        <4>5. RequestSpells(r, DOMAIN trie)
          BY <4>2, <4>3, <4>4 DEF RequestSpells, Place
        <4> QED
          BY <1>0, <2>0, <3>0, <4>1, <4>5, SpellingWaits
      <3> QED
        BY <3>1, <3>2
    <2>3. ASSUME NEW c \in Clients, Answer(c) PROVE SpellInv(Chars)'
      <3> PICK a \in Answers, reason \in {"stop", "length", "abort"} : \E n \in 0 .. Len(a) :
             /\ (n = Len(a)) <=> (reason = "stop")
             /\ request' = [request EXCEPT ![c] =
                  IF reason = "abort" /\ @.tries < Tries
                  THEN [@ EXCEPT !.at = "route", !.tries = request[c].tries + 1]
                  ELSE [@ EXCEPT !.at = "insert", !.answer = Made(SubSeq(a, 1, n))]]
             /\ cut' = (cut \/ (reason # "stop" /\ (reason = "abort" => request[c].tries = Tries)))
        BY <2>3 DEF Answer
      <3> PICK n \in 0 .. Len(a) :
             /\ (n = Len(a)) <=> (reason = "stop")
             /\ request' = [request EXCEPT ![c] =
                  IF reason = "abort" /\ @.tries < Tries
                  THEN [@ EXCEPT !.at = "route", !.tries = request[c].tries + 1]
                  ELSE [@ EXCEPT !.at = "insert", !.answer = Made(SubSeq(a, 1, n))]]
             /\ cut' = (cut \/ (reason # "stop" /\ (reason = "abort" => request[c].tries = Tries)))
        OBVIOUS
      <3> DEFINE again == [request[c] EXCEPT !.at = "route", !.tries = request[c].tries + 1]
                 ends  == [request[c] EXCEPT !.at = "insert", !.answer = Made(SubSeq(a, 1, n))]
                 r == IF reason = "abort" /\ request[c].tries < Tries THEN again ELSE ends
      <3>0. trie' = trie /\ request[c].at \in up
        BY <2>3 DEF Answer
      <3>1. request' = [request EXCEPT ![c] = r]
        BY Zenon
      <3>2. /\ request[c].prompt \in Prompts /\ <<request[c].prompt>> \in DOMAIN trie
            /\ request[c].input = Tokenize(request[c].prompt) /\ request[c].tries \in 0 .. Tries
        BY <1>0, <2>0, <3>0 DEF RequestSpells, Place
      <3>3. /\ again.at = "route" /\ again.prompt = request[c].prompt /\ again.input = request[c].input
            /\ again.tries = request[c].tries + 1
        BY <1>0 DEF RequestFields
      <3>4. /\ ends.at = "insert" /\ ends.prompt = request[c].prompt /\ ends.input = request[c].input
            /\ ends.tries = request[c].tries /\ ends.answer = Made(SubSeq(a, 1, n))
        BY <1>0 DEF RequestFields
      <3> HIDE DEF again, ends
      <3>5. CASE reason = "abort" /\ request[c].tries < Tries
        <4>1. r = again
          BY <3>5
        <4>2. again.tries \in 0 .. Tries
          BY <1>0, <3>2, <3>3, <3>5
        <4>3. RequestSpells(again, DOMAIN trie)
          BY <3>2, <3>3, <4>2 DEF RequestSpells
        <4> HIDE DEF r
        <4>4. RequestSpells(r, DOMAIN trie)
          BY <4>1, <4>3
        <4> QED
          BY <1>0, <2>0, <3>0, <3>1, <4>4, SpellingWaits
      <3>6. CASE ~ (reason = "abort" /\ request[c].tries < Tries)
        <4>1. r = ends
          BY <3>6
        <4>2. reason = "stop"
          <5>1. reason = "abort" => request[c].tries = Tries
            BY <1>0, <3>2, <3>6
          <5> QED
            BY <1>c, <5>1
        <4>3. SubSeq(a, 1, n) = a
          <5>1. a \in Seq(Seq(Chars)) /\ n = Len(a)
            BY <4>2 DEF TextsApart
          <5> QED
            BY <5>1, PrefixFacts
        <4>4. RequestSpells(ends, DOMAIN trie)
          BY <3>2, <3>4, <4>3 DEF RequestSpells
        <4> HIDE DEF r
        <4>5. RequestSpells(r, DOMAIN trie)
          BY <4>1, <4>4
        <4> QED
          BY <1>0, <2>0, <3>0, <3>1, <4>5, SpellingWaits
      <3> QED
        BY <3>5, <3>6
    <2>4. ASSUME NEW c \in Clients, Fail(c) PROVE SpellInv(Chars)'
      <3>1. request' = [request EXCEPT ![c] = RouterIdle] /\ trie' = trie
        BY <2>4 DEF Fail
      <3> QED
        BY <1>0, <2>0, <3>1, IdleSpells, SpellingWaits
    <2>5. ASSUME NEW c \in Clients, Insert(c) PROVE SpellInv(Chars)'
      <3> DEFINE p == request[c].prompt
                 x == Text(request[c].answer)
                 r == [request[c] EXCEPT !.at = "read"]
      <3>1. request' = [request EXCEPT ![c] = r] /\ request[c].at = "insert"
            /\ trie' = Inserted(p \o x, request[c].input \o request[c].answer)
        BY <2>5 DEF Insert
      <3>2. PICK a \in Answers : request[c].answer = Made(a)
        BY <2>0, <3>1 DEF RequestSpells
      <3>3. p \in Prompts /\ <<p>> \in DOMAIN trie /\ request[c].input = Tokenize(p) /\ request[c].tries \in 0 .. Tries
        BY <2>0, <3>1 DEF RequestSpells
      <3>4. x \in Written /\ Made(a) \in Seq(Tokens(Chars)) /\ Text(Made(a)) = x /\ MadeText(Made(a)) = x
        BY <3>2, MadeIs
      <3>5. /\ r.at = "read" /\ r.prompt = p /\ r.input = request[c].input /\ r.tries = request[c].tries
            /\ r.answer = Made(a) /\ Text(r.answer) = x
        BY <1>0, <3>2 DEF RequestFields
      <3> HIDE DEF p, x, r
      <3>6. trie' = Inserted(p \o x, Tokenize(p) \o Made(a))
        BY <3>1, <3>2, <3>3
      <3>7. Inserted(p \o x, Tokenize(p) \o Made(a)) =
              IF x = << >> \/ <<p, x>> \in DOMAIN trie THEN trie ELSE With(<<p, x>>, Made(a))
        BY <2>0, <3>3, <3>4, InsertedIs
      <3>8. CASE x = << >> \/ <<p, x>> \in DOMAIN trie
        <4>1. trie' = trie
          BY <3>6, <3>7, <3>8
        <4>2. RequestSpells(r, DOMAIN trie)
          BY <3>3, <3>5, <3>8 DEF RequestSpells
        <4> QED
          BY <1>0, <2>0, <3>1, <4>1, <4>2, SpellingWaits
      <3>9. CASE ~ (x = << >> \/ <<p, x>> \in DOMAIN trie)
        <4> DEFINE n == <<p, x>>
        <4>1. trie' = With(n, Made(a))
          BY <3>6, <3>7, <3>9
        <4>2. /\ n = <<p, x>> /\ <<p>> \in DOMAIN trie /\ p \in Prompts /\ x \in Written \ {<< >>}
              /\ Made(a) \in Seq(Tokens(Chars)) /\ Text(Made(a)) = x /\ MadeText(Made(a)) = x
          BY <3>3, <3>4, <3>9
        <4>3. TrieFits(Chars)' /\ DOMAIN trie' = DOMAIN trie \cup {n}
          <5> HIDE DEF n
          <5> QED
            BY <2>0, <4>1, <4>2, NodeAdded
        <4>4. RequestSpells(r, DOMAIN trie')
          BY <3>3, <3>5, <4>3 DEF RequestSpells
        <4>5. DOMAIN trie \subseteq DOMAIN trie'
          BY <4>3
        <4> QED
          BY <1>0, <2>0, <3>1, <4>3, <4>4, <4>5, SpellingGoesOn
      <3> QED
        BY <3>8, <3>9
    <2>6. ASSUME NEW c \in Clients, Read(c) PROVE SpellInv(Chars)'
      <3> DEFINE p == request[c].prompt
                 x == Text(request[c].answer)
                 found == Found(p \o x)
                 r == [request[c] EXCEPT !.at = "done", !.sample = found.tokens]
      <3>1. request' = [request EXCEPT ![c] = r] /\ request[c].at = "read" /\ trie' = found.trie
        BY <2>6 DEF Read
      <3>2. PICK a \in Answers : request[c].answer = Made(a)
        BY <2>0, <3>1 DEF RequestSpells
      <3>3. /\ p \in Prompts /\ <<p>> \in DOMAIN trie /\ request[c].input = Tokenize(p)
            /\ request[c].tries \in 0 .. Tries
            /\ x = << >> \/ <<p, x>> \in DOMAIN trie
        BY <2>0, <3>1 DEF RequestSpells
      <3>4. x \in Written
        BY <3>2, MadeIs
      <3>5. /\ r.at = "done" /\ r.prompt = p /\ r.input = request[c].input /\ r.tries = request[c].tries
            /\ r.answer = Made(a) /\ Text(r.answer) = x /\ r.sample = found.tokens
        BY <1>0, <3>2 DEF RequestFields
      <3> HIDE DEF p, x, r, found
      <3>6. /\ p \in Seq(Chars) /\ x \in Seq(Chars)
            /\ Tokenize(p) \in Seq(Tokens(Chars)) /\ Text(Tokenize(p)) = p /\ MadeText(Tokenize(p)) = << >>
        <4>1. p \in Seq(Chars) /\ x \in Seq(Chars)
          BY <3>3, <3>4, WrittenApart
        <4>2. Tokenize(p) \in Seq(Given(Chars)) /\ Text(Tokenize(p)) = p
          BY <4>1, TokenizeSpells
        <4>3. Given(Chars) \subseteq Tokens(Chars)
          BY DEF Given, Tokens
        <4>4. MadeText(Tokenize(p)) = << >>
          BY <4>2, TextsMade DEF Given
        <4> QED
          BY <4>1, <4>2, <4>3, <4>4, SeqMonotonic
      <3>7. /\ found.trie = trie /\ Text(found.tokens) = p \o x /\ MadeText(found.tokens) = x
        <4>1. CASE x = << >>
          <5>1. p \o x = p
            BY <3>6, <4>1
          <5>2. Found(p) = [tokens |-> Tokenize(p), trie |-> trie]
            BY <2>0, <3>3, <3>4, FoundIs
          <5>3. found = [tokens |-> Tokenize(p), trie |-> trie]
            BY <5>1, <5>2 DEF found
          <5> QED
            BY <3>6, <4>1, <5>1, <5>3
        <4>2. CASE <<p, x>> \in DOMAIN trie
          <5> DEFINE made == trie[<<p, x>>]
          <5>1. found = [tokens |-> Tokenize(p) \o made, trie |-> trie]
            BY <2>0, <3>3, <3>4, <4>2, FoundIs DEF found
          <5>2. made \in Seq(Tokens(Chars)) /\ Text(made) = x /\ MadeText(made) = x
            BY <2>0, <3>3, <3>4, <4>2, HeldIs
          <5> HIDE DEF made
          <5>3. /\ Text(Tokenize(p) \o made) = p \o x
                /\ MadeText(Tokenize(p) \o made) = << >> \o x
            BY <3>6, <5>2, TextsOfTokens, ZenonT(30)
          <5>4. << >> \o x = x
            BY <3>6
          <5> QED
            BY <5>1, <5>3, <5>4
        <4> QED
          BY <3>3, <4>1, <4>2
      <3>8. Faithful(r)
        BY <3>5, <3>7 DEF Faithful
      <3>9. RequestSpells(r, DOMAIN trie)
        BY <3>3, <3>5, <3>8 DEF RequestSpells
      <3> QED
        BY <1>0, <2>0, <3>1, <3>7, <3>9, SpellingWaits
    <2>7. ASSUME NEW w \in Workers, AddWorker(w) \/ Stop(w) \/ Recover(w) PROVE SpellInv(Chars)'
      BY <1>a, <2>7 DEF AddWorker, Stop, Recover
    <2>8. CASE CheckAll \/ Checked \/ Lose
      BY <1>a, <2>8 DEF CheckAll, Checked, Lose
    <2>9. CASE UNCHANGED routerVars
      BY <1>a, <2>9 DEF routerVars
    <2> QED
      BY <2>1, <2>2, <2>3, <2>4, <2>5, <2>6, <2>7, <2>8, <2>9 DEF RouterNext
  <1>d. ASSUME cut PROVE cut'
    BY <1>0, <1>d DEF RouterNext, routerVars, Ask, Route, Answer, Fail, Insert, Read, AddWorker, Stop, Recover,
                      CheckAll, Checked, Lose
  <1>e. cut' \/ (~ cut' /\ ~ cut)
    BY <1>d
  <1> QED
    BY <1>b, <1>c, <1>e

\* As long as every cached answer came to its end, the tokens a sample gets back from the
\* trie by its text (_insert and retrieve_from_text of radix_tree.py) spell its prompt and
\* its answer, and the loss mask marks the answer and nothing else: in whatever order
\* requests look up, insert and read, for any texts that are apart, any merges of the
\* tokenizer, and engines that spell one answer with different tokens.
THEOREM FinishedTextsAreSpelled ==
  ASSUME NEW Chars, TextsApart(Chars)
  PROVE  RouterSpec => []FinishedSpelled
  <1>1. RouterInit => RouterInv /\ SpellInv(Chars)
    <2> SUFFICES ASSUME RouterInit PROVE SpellInv(Chars)
      BY RouterStarts
    <2>1. DOMAIN trie = {}
      BY DEF RouterInit
    <2>2. \A c \in Clients : request[c] = RouterIdle
      BY DEF RouterInit
    <2> QED
      BY <2>1, <2>2, IdleSpells DEF SpellInv, TrieFits
  <1>2. RouterInv /\ SpellInv(Chars) /\ [RouterNext]_routerVars => (RouterInv /\ SpellInv(Chars))'
    BY RouterSteps, SpellSteps
  <1>3. SpellInv(Chars) => FinishedSpelled
    BY DEF SpellInv, FinishedSpelled, TokensSpellText, RequestSpells
  <1> QED
    BY <1>1, <1>2, <1>3, PTL DEF RouterSpec

-----------------------------------------------------------------------------
(* The data source: what a walk over the shuffled epochs draws.                *)

\* How many of I come up to i.
Rank(I, i) == Cardinality({j \in I : j <= i})

\* The ranks of a finite set of numbers are those from 1 to its size, each once.
LEMMA RanksCount ==
  ASSUME NEW I \in SUBSET Nat, IsFiniteSet(I)
  PROVE  /\ Cardinality(I) \in Nat
         /\ \A i \in I : Rank(I, i) \in 1 .. Cardinality(I)
         /\ \A i, j \in I : i < j => Rank(I, i) < Rank(I, j)
         /\ \A i, j \in I : Rank(I, i) = Rank(I, j) => i = j
         /\ \A k \in 1 .. Cardinality(I) : \E i \in I : Rank(I, i) = k
  <1> DEFINE size == Cardinality(I)
             U(i) == {j \in I : j <= i}
  <1>1. size \in Nat
    BY FS_CardinalityType
  <1>2. ASSUME NEW i \in I PROVE IsFiniteSet(U(i)) /\ Rank(I, i) \in 1 .. size
    <2>1. U(i) \in SUBSET I
      OBVIOUS
    <2>2. IsFiniteSet(U(i)) /\ Cardinality(U(i)) <= size
      BY <2>1, FS_Subset
    <2>3. U(i) # {}
      OBVIOUS
    <2> HIDE DEF U, size
    <2>4. Cardinality(U(i)) \in Nat /\ Cardinality(U(i)) # 0
      BY <2>2, <2>3, FS_CardinalityType, FS_EmptySet
    <2>5. Rank(I, i) = Cardinality(U(i))
      BY DEF Rank, U
    <2> QED
      BY <1>1, <2>2, <2>4, <2>5
  <1>3. ASSUME NEW i \in I, NEW j \in I, i < j PROVE Rank(I, i) < Rank(I, j)
    <2>0. i \in Nat /\ j \in Nat /\ \A n \in I : n \in Nat
      OBVIOUS
    <2>1. U(i) \in SUBSET U(j)
      <3>1. ASSUME NEW n \in I, n <= i PROVE n <= j
        BY <1>3, <2>0, <3>1
      <3> QED
        BY <3>1
    <2>2. j \in U(j) /\ j \notin U(i)
      BY <1>3
    <2>3. IsFiniteSet(U(j)) /\ Rank(I, i) \in Nat /\ Rank(I, j) \in Nat
      <3>1. Rank(I, i) \in 1 .. size /\ Rank(I, j) \in 1 .. size /\ IsFiniteSet(U(j))
        BY <1>2
      <3> HIDE DEF size, U
      <3> QED
        BY <1>1, <3>1
    <2>4. Rank(I, i) = Cardinality(U(i)) /\ Rank(I, j) = Cardinality(U(j))
      BY DEF Rank
    <2> HIDE DEF U
    <2>5. /\ Cardinality(U(i)) <= Cardinality(U(j))
          /\ Cardinality(U(j)) = Cardinality(U(i)) => U(j) = U(i)
      BY <2>1, <2>3, FS_Subset
    <2> QED
      BY <2>2, <2>3, <2>4, <2>5
  <1>4. ASSUME NEW i \in I, NEW j \in I, Rank(I, i) = Rank(I, j) PROVE i = j
    <2>1. Rank(I, i) \in Int
      <3>1. Rank(I, i) \in 1 .. size
        BY <1>2
      <3> HIDE DEF size
      <3> QED
        BY <1>1, <3>1
    <2>2. ~(i < j) /\ ~(j < i)
      BY <1>3, <1>4, <2>1
    <2> QED
      BY <2>2
  <1>5. ASSUME NEW k \in 1 .. size PROVE \E i \in I : Rank(I, i) = k
    <2> DEFINE f == [i \in I |-> Rank(I, i)]
    <2>1. f \in Injection(I, 1 .. size)
      <3>1. f \in [I -> 1 .. size]
        BY <1>2
      <3>2. \A i, j \in I : f[i] = f[j] => i = j
        BY <1>4
      <3> QED
        BY <3>1, <3>2 DEF Injection, IsInjective
    <2>2. IsFiniteSet(1 .. size) /\ Cardinality(1 .. size) = size
      <3>1. \A n \in Nat : 1 \in Int /\ n \in Int
        OBVIOUS
      <3>2. \A n \in Nat : IsFiniteSet(1 .. n) /\ Cardinality(1 .. n) = IF 1 > n THEN 0 ELSE n - 1 + 1
        BY <3>1, FS_Interval
      <3>3. \A n \in Nat : IsFiniteSet(1 .. n) /\ Cardinality(1 .. n) = n
        BY <3>2
      <3> QED
        BY <1>1, <3>3
    <2> HIDE DEF f
    <2>3. f \in Surjection(I, 1 .. size)
      BY <2>1, <2>2, FS_Injection
    <2> QED
      BY <2>3 DEF Surjection, f
  <1> QED
    BY <1>1, <1>2, <1>3, <1>4, <1>5

\* A finite set of numbers has a least one.
LEMMA LeastExists ==
  ASSUME NEW I \in SUBSET Nat, IsFiniteSet(I), I # {}
  PROVE  \E i \in I : \A j \in I : i <= j
  <1>1. Cardinality(I) \in Nat /\ Cardinality(I) # 0
    BY RanksCount, FS_EmptySet
  <1>2. PICK i \in I : Rank(I, i) = 1
    <2>1. 1 \in 1 .. Cardinality(I)
      BY <1>1
    <2> QED
      BY <2>1, RanksCount
  <1>3. \A j \in I : Rank(I, j) \in 1 .. Cardinality(I) /\ (j < i => Rank(I, j) < Rank(I, i))
    BY RanksCount
  <1>4. \A j \in I : ~(j < i)
    BY <1>1, <1>2, <1>3
  <1> QED
    BY <1>4

LEMMA FunctionsAreSequences ==
  \A S : \A n \in Nat : \A f \in [1 .. n -> S] : f \in Seq(S) /\ Len(f) = n /\ DOMAIN f = 1 .. n
  <1>1. \A S : \A n \in Nat : \A f \in [1 .. n -> S] : f \in Seq(S)
    BY SeqDef
  <1> QED
    BY <1>1

\* A shuffle has every row, once.
Shuffle(f) ==
  /\ f \in [Row -> Row] /\ \A i, j \in Row : f[i] = f[j] => i = j
  /\ \A r \in Row : \E i \in Row : f[i] = r

LEMMA RowsFinite ==
  /\ N \in Nat /\ 0 < N /\ Row = 1 .. N /\ \A i \in Row : i \in Nat /\ 0 < i /\ i <= N
  /\ IsFiniteSet(Row)
  <1>1. \A n \in Nat : 1 \in Int /\ n \in Int
    OBVIOUS
  <1>2. \A n \in Nat : IsFiniteSet(1 .. n)
    BY <1>1, FS_Interval
  <1> QED
    BY <1>2, DataAssumption DEF Row

LEMMA EpochsAreShuffles ==
  ASSUME args \in Configurations, NEW e \in Nat
  PROVE  Shuffle(Order(e))
  <1>1. Smaller(e, MaxEpoch) \in Epoch
    BY DataAssumption DEF Smaller, Epoch
  <1>2. Order(e) \in [Row -> Row] /\ \A i, j \in Row : Order(e)[i] = Order(e)[j] => i = j
    BY <1>1, DataAssumption DEF Order
  <1> DEFINE f == Order(e)
  <1> HIDE DEF f
  <1>4. f \in Injection(Row, Row)
    BY <1>2 DEF Injection, IsInjective, f
  <1>5. f \in Surjection(Row, Row)
    BY RowsFinite, <1>4, FS_Injection
  <1> QED
    BY <1>2, <1>5 DEF Surjection, f, Shuffle

\* The fields of a source, of which the walks need these.
SourceFields == {"offset", "epoch", "group", "index", "order", "step", "selected"}
SourceOK(s) ==
  /\ DOMAIN s = SourceFields /\ s.offset \in Nat /\ s.epoch \in Nat /\ s.group \in Nat
  /\ s.order = Order(s.epoch)

\* Whether r is among the rows of an epoch after the a-th to the b-th.
Met(f, a, b, r) == IF \E i \in Row : a < i /\ i <= b /\ f[i] = r THEN 1 ELSE 0
\* How often a source has come by r since the job began.
Passed(s, r) == s.epoch + Met(s.order, 0, s.offset, r)

LEMMA MetOnce ==
  ASSUME NEW f, Shuffle(f), NEW r \in Row
  PROVE  \E i \in Row : f[i] = r /\ \A a, b \in Nat : Met(f, a, b, r) = IF a < i /\ i <= b THEN 1 ELSE 0
  BY DEF Met, Shuffle

\* The rows from one place to another of an epoch.
LEMMA SlicesCount ==
  ASSUME NEW f, Shuffle(f), NEW a \in Nat, NEW b \in Nat, b <= N
  PROVE  /\ SubSeq(f, a + 1, b) \in Seq(Row)
         /\ Len(SubSeq(f, a + 1, b)) = IF a <= b THEN b - a ELSE 0
         /\ \A r \in Row : Count(SubSeq(f, a + 1, b), r) = Met(f, a, b, r)
  <1> DEFINE n == IF a <= b THEN b - a ELSE 0
             rows == SubSeq(f, a + 1, b)
  <1>1. /\ f \in [1 .. N -> Row] /\ \A i, j \in Row : f[i] = f[j] => i = j
        /\ N \in Nat /\ Row = 1 .. N
    BY RowsFinite DEF Shuffle
  <1>2. f \in Seq(Row) /\ Len(f) = N
    BY <1>1
  <1>3. rows = [i \in 1 .. n |-> f[i + a]] /\ n \in Nat
    <2>1. rows = [i \in 1 .. (b - (a + 1)) + 1 |-> f[i + (a + 1) - 1]]
      BY <1>2
    <2> QED
      BY <2>1
  <1>4. \A i \in 1 .. n : i \in Nat /\ i + a \in Row /\ a < i + a /\ i + a <= b
    BY <1>1
  <1>40. \A j \in Row : a < j /\ j <= b => j - a \in 1 .. n /\ j - a + a = j
    BY <1>1
  <1> HIDE DEF n, rows
  <1>5. rows \in Seq(Row) /\ Len(rows) = n /\ DOMAIN rows = 1 .. n
    <2>1. rows \in [1 .. n -> Row]
      <3>1. \A i \in 1 .. n : f[i + a] \in Row
        BY <1>1, <1>4
      <3> QED
        BY <1>3, <3>1
    <2> QED
      BY <1>3, <2>1, FunctionsAreSequences
  <1>6. ASSUME NEW r \in Row PROVE Count(rows, r) = Met(f, a, b, r)
    <2> DEFINE I == {i \in DOMAIN rows : rows[i] = r}
    <2>0. \A i \in I : i \in 1 .. n /\ f[i + a] = r
      BY <1>3, <1>5
    <2>1. ASSUME NEW i \in I, NEW j \in I PROVE i = j
      <3>1. i + a = j + a
        BY <1>1, <1>4, <2>0
      <3> QED
        BY <1>4, <2>0, <3>1
    <2>2. (\E i \in I : TRUE) <=> \E i \in Row : a < i /\ i <= b /\ f[i] = r
      <3>1. ASSUME NEW i \in I PROVE \E j \in Row : a < j /\ j <= b /\ f[j] = r
        BY <1>4, <2>0
      <3>2. ASSUME NEW j \in Row, a < j, j <= b, f[j] = r PROVE j - a \in I
        BY <1>3, <1>40, <1>5, <3>2
      <3> QED
        BY <3>1, <3>2
    <2>3. CASE \E i \in I : TRUE
      <3> PICK i \in I : TRUE
        BY <2>3
      <3>1. I = {i}
        BY <2>1
      <3> HIDE DEF I
      <3>2. Cardinality(I) = 1
        BY <3>1, FS_Singleton
      <3> QED
        BY <2>2, <2>3, <3>2 DEF I, Count, Met
    <2>4. CASE I = {}
      <3> HIDE DEF I
      <3>1. Cardinality(I) = 0
        BY <2>4, FS_EmptySet
      <3> QED
        BY <2>2, <2>4, <3>1 DEF I, Count, Met
    <2> QED
      BY <2>3, <2>4
  <1> QED
    BY <1>3, <1>5, <1>6 DEF rows, n

\* A row is counted in both parts of a concatenation.
LEMMA CountsAdd ==
  ASSUME NEW x \in Seq(Row), NEW y \in Seq(Row), NEW r
  PROVE  /\ Count(x, r) \in Nat /\ Count(y, r) \in Nat
         /\ Count(x \o y, r) = Count(x, r) + Count(y, r)
         /\ x \o y \in Seq(Row) /\ Len(x \o y) = Len(x) + Len(y)
  <1> DEFINE m == Len(x)
             n == Len(y)
             z == x \o y
             A == {i \in DOMAIN x : x[i] = r}
             B == {i \in DOMAIN y : y[i] = r}
             C == {i \in DOMAIN z : z[i] = r}
             D == {i + m : i \in B}
  <1>1. /\ m \in Nat /\ n \in Nat /\ DOMAIN x = 1 .. m /\ DOMAIN y = 1 .. n
        /\ z \in Seq(Row) /\ Len(z) = m + n /\ DOMAIN z = 1 .. m + n
        /\ \A i \in 1 .. m : z[i] = x[i]
        /\ \A i \in 1 .. n : z[i + m] = y[i]
    <2>1. m \in Nat /\ n \in Nat /\ DOMAIN x = 1 .. m /\ DOMAIN y = 1 .. n
      OBVIOUS
    <2>2. z \in Seq(Row) /\ Len(z) = m + n /\ DOMAIN z = 1 .. m + n
      OBVIOUS
    <2>3. \A i \in 1 .. m : z[i] = x[i]
      OBVIOUS
    <2>4. \A i \in 1 .. n : z[i + m] = y[i]
      OBVIOUS
    <2> QED
      BY <2>1, <2>2, <2>3, <2>4
  <1> HIDE DEF m, n, z
  <1>2. C = A \cup D /\ A \cap D = {}
    <2>1. A \subseteq C /\ D \subseteq C
      BY <1>1
    <2>2. ASSUME NEW i \in C, i \notin A PROVE i \in D
      <3>1. i \in 1 .. m + n /\ ~(i \in 1 .. m) /\ z[i] = r
        BY <1>1, <2>2
      <3>2. i - m \in 1 .. n /\ i - m + m = i
        BY <1>1, <3>1
      <3>3. i - m \in B
        BY <1>1, <3>1, <3>2
      <3> QED
        BY <3>2, <3>3
    <2>3. A \cap D = {}
      BY <1>1
    <2> QED
      BY <2>1, <2>2, <2>3
  <1>3. IsFiniteSet(A) /\ IsFiniteSet(B) /\ Cardinality(A) \in Nat /\ Cardinality(B) \in Nat
    <2>1. \A k \in Nat : 1 \in Int /\ k \in Int
      OBVIOUS
    <2>2. \A k \in Nat : IsFiniteSet(1 .. k)
      BY <2>1, FS_Interval
    <2>3. A \in SUBSET (1 .. m) /\ B \in SUBSET (1 .. n)
      BY <1>1
    <2> HIDE DEF A, B
    <2>4. IsFiniteSet(A) /\ IsFiniteSet(B)
      BY <1>1, <2>2, <2>3, FS_Subset
    <2> QED
      BY <2>4, FS_CardinalityType
  <1>4. IsFiniteSet(D) /\ Cardinality(D) = Cardinality(B)
    <2> DEFINE f == [i \in B |-> i + m]
    <2>1. \A i \in B : i \in Nat
      BY <1>1
    <2>2. f \in Bijection(B, D)
      <3>1. \A i, j \in B : f[i] = f[j] => i = j
        BY <1>1, <2>1
      <3>2. f \in [B -> D] /\ \A d \in D : \E i \in B : f[i] = d
        OBVIOUS
      <3> HIDE DEF f, B, D
      <3> QED
        BY <3>1, <3>2 DEF Bijection, Injection, Surjection, IsInjective
    <2> HIDE DEF f, B, D
    <2>3. ExistsBijection(B, D)
      BY <2>2 DEF ExistsBijection
    <2> QED
      BY <1>3, <2>3, FS_Bijection
  <1>5. Cardinality(C) = Cardinality(A) + Cardinality(B)
    <2> HIDE DEF A, B, C, D
    <2>1. Cardinality(A \cup D) = Cardinality(A) + Cardinality(D) - Cardinality(A \cap D)
      BY <1>3, <1>4, FS_Union
    <2>2. Cardinality(A \cap D) = 0
      BY <1>2, FS_EmptySet
    <2> QED
      BY <1>2, <1>3, <1>4, <2>1, <2>2
  <1> QED
    BY <1>1, <1>3, <1>5 DEF Count, m, n, z

\* What a walk that gave the rows w.rows must have left behind.
WalkOK(s, w, k) ==
  /\ SourceOK(w.source) /\ w.source.group = s.group
  /\ w.rows \in Seq(Row) /\ Len(w.rows) <= k
Accounts(s, w, r) == Passed(w.source, r) = Passed(s, r) + Count(w.rows, r)

LEMMA NextEpochIs ==
  ASSUME NEW s, SourceOK(s)
  PROVE  /\ SourceOK(NextEpoch(s)) /\ NextEpoch(s).offset = 0 /\ NextEpoch(s).epoch = s.epoch + 1
         /\ NextEpoch(s).group = s.group
  BY DEF SourceOK, SourceFields, NextEpoch

\* A source at the end of its epoch has passed what one has at the beginning
\* of the next.
LEMMA EpochEnds ==
  ASSUME args \in Configurations, NEW s, SourceOK(s), s.offset >= N, NEW r \in Row
  PROVE  /\ Passed(s, r) = s.epoch + 1 /\ Met(s.order, 0, s.offset, r) = 1
         /\ Passed(NextEpoch(s), r) = s.epoch + 1
  <1>0. Shuffle(s.order) /\ s.epoch \in Nat /\ s.offset \in Nat
    BY EpochsAreShuffles DEF SourceOK
  <1>1. Met(s.order, 0, s.offset, r) = 1
    <2>1. PICK i \in Row : \A a, b \in Nat : Met(s.order, a, b, r) = IF a < i /\ i <= b THEN 1 ELSE 0
      BY <1>0, MetOnce
    <2> QED
      BY <1>0, <2>1, RowsFinite
  <1>2. \A f : Met(f, 0, 0, r) = 0
    BY RowsFinite DEF Met
  <1> QED
    BY <1>0, <1>1, <1>2, NextEpochIs DEF Passed

LEMMA UnfilteredWalks ==
  ASSUME args \in Configurations, NEW s, SourceOK(s), NEW k \in Nat, NEW w, w = Unfiltered(s, k)
  PROVE  WalkOK(s, w, k) /\ \A r \in Row : Accounts(s, w, r)
  <1>0. N \in Nat /\ N > 0 /\ s.offset \in Nat /\ s.epoch \in Nat /\ Shuffle(s.order)
    BY RowsFinite, EpochsAreShuffles DEF SourceOK
  <1> DEFINE f == s.order
             o == s.offset
  <1> HIDE DEF f, o
  <1>1. CASE s.offset + k <= N
    <2> DEFINE t == [s EXCEPT !.offset = s.offset + k]
               b == o + k
               rows == SubSeq(f, o + 1, b)
    <2>1. w = [source |-> t, rows |-> rows]
      BY <1>0, <1>1 DEF Unfiltered, Slice, Smaller, f, o
    <2>2. SourceOK(t) /\ t.offset = b /\ t.order = f /\ t.epoch = s.epoch /\ t.group = s.group
      BY <1>0 DEF SourceOK, SourceFields, f, o
    <2> HIDE DEF t
    <2>3. /\ rows \in Seq(Row) /\ Len(rows) = k
          /\ \A r \in Row : Count(rows, r) = Met(f, o, b, r)
      <3>1. b \in Nat /\ b <= N /\ o <= b /\ b - o = k /\ o \in Nat /\ Shuffle(f)
        BY <1>0, <1>1 DEF f, o
      <3> HIDE DEF b
      <3> QED
        BY <3>1, SlicesCount
    <2> HIDE DEF rows
    <2>4. ASSUME NEW r \in Row PROVE Passed(t, r) = Passed(s, r) + Count(rows, r)
      <3>1. PICK i \in Row : \A x, y \in Nat : Met(f, x, y, r) = IF x < i /\ i <= y THEN 1 ELSE 0
        BY <1>0, MetOnce DEF f
      <3>2. Passed(t, r) = s.epoch + Met(f, 0, b, r) /\ Passed(s, r) = s.epoch + Met(f, 0, o, r)
        BY <2>2 DEF Passed, f, o
      <3>3. o \in Nat /\ b \in Nat /\ o <= b /\ i \in Nat /\ 0 < i
        BY <1>0, RowsFinite DEF o
      <3> QED
        BY <1>0, <2>3, <3>1, <3>2, <3>3
    <2> QED
      BY <2>1, <2>2, <2>3, <2>4 DEF WalkOK, Accounts
  <1>2. CASE ~(s.offset + k <= N)
    <2> DEFINE rest == SubSeq(f, o + 1, N)
               e == NextEpoch(s)
               g == e.order
               more == k - Len(rest)
               b == Smaller(more, N)
               begin == SubSeq(g, 0 + 1, b)
               t == [e EXCEPT !.offset = more]
    <2>1. Slice(s, k) = rest
      BY <1>0, <1>2 DEF Slice, Smaller, f, o
    <2>2. SourceOK(e) /\ e.offset = 0 /\ e.epoch = s.epoch + 1 /\ e.group = s.group
      BY NextEpochIs
    <2> HIDE DEF e
    <2>20. Shuffle(f) /\ Shuffle(g) /\ o \in Nat
      BY <1>0, <2>2, EpochsAreShuffles DEF SourceOK, f, o
    <2>3. /\ rest \in Seq(Row) /\ Len(rest) = IF o <= N THEN N - o ELSE 0
          /\ \A r \in Row : Count(rest, r) = Met(f, o, N, r)
      BY <1>0, <2>20, SlicesCount
    <2>4. more \in Nat /\ Len(rest) + more = k
      BY <1>0, <1>2, <2>3 DEF o
    <2> HIDE DEF rest, more, g
    <2>40. b \in Nat /\ b <= N /\ 0 <= b /\ b - 0 = b /\ b <= more
      BY <1>0, <2>4 DEF Smaller
    <2>5. /\ begin \in Seq(Row) /\ Len(begin) = b
          /\ \A r \in Row : Count(begin, r) = Met(g, 0, b, r)
      <3> HIDE DEF b
      <3> QED
        BY <2>20, <2>40, SlicesCount
    <2>6. SourceOK(t) /\ t.offset = more /\ t.order = g /\ t.epoch = s.epoch + 1 /\ t.group = s.group
      BY <2>2, <2>4 DEF SourceOK, SourceFields, g
    <2>7. w = [source |-> t, rows |-> rest \o begin]
      <3>1. e.offset + 1 = 0 + 1 /\ e.offset + more = more
        BY <2>2, <2>4
      <3>2. Slice(e, more) = begin
        BY <3>1 DEF Slice, g
      <3> QED
        BY <1>2, <2>1, <3>2 DEF Unfiltered, e, rest, more
    <2>8. ASSUME NEW r \in Row PROVE Passed(t, r) = Passed(s, r) + Count(rest \o begin, r)
      <3>1. PICK i \in Row : \A x, y \in Nat : Met(f, x, y, r) = IF x < i /\ i <= y THEN 1 ELSE 0
        BY <2>20, MetOnce
      <3>2. PICK j \in Row : \A x, y \in Nat : Met(g, x, y, r) = IF x < j /\ j <= y THEN 1 ELSE 0
        BY <2>20, MetOnce
      <3>3. i \in Nat /\ j \in Nat /\ i <= N /\ j <= N /\ 0 < i /\ 0 < j
        BY RowsFinite
      <3>4. Met(g, 0, b, r) = Met(g, 0, more, r)
        BY <1>0, <2>4, <2>40, <3>2, <3>3 DEF Smaller
      <3>5. Count(rest \o begin, r) = Count(rest, r) + Count(begin, r)
        BY <2>3, <2>5, CountsAdd
      <3>6. Met(f, o, N, r) + Met(f, 0, o, r) = 1 /\ Met(f, 0, o, r) \in Nat /\ Met(f, o, N, r) \in Nat
        BY <1>0, <2>20, <3>1, <3>3
      <3>7. Passed(t, r) = s.epoch + 1 + Met(g, 0, more, r) /\ Passed(s, r) = s.epoch + Met(f, 0, o, r)
        BY <2>6 DEF Passed, f, o
      <3>8. Met(g, 0, more, r) \in Nat
        BY DEF Met
      <3>9. Count(rest, r) = Met(f, o, N, r) /\ Count(begin, r) = Met(g, 0, b, r)
        BY <2>3, <2>5
      <3> QED
        BY ONLY <1>0, <3>4, <3>5, <3>6, <3>7, <3>8, <3>9
    <2> HIDE DEF t, begin, b
    <2>9. Len(rest \o begin) <= k /\ rest \o begin \in Seq(Row)
      <3>1. Len(rest \o begin) = Len(rest) + b /\ rest \o begin \in Seq(Row) /\ Len(rest) \in Nat
        BY <2>3, <2>5
      <3>2. Len(rest \o begin) <= Len(rest) + more
        BY <2>4, <2>40, <3>1
      <3> QED
        BY <2>4, <3>1, <3>2
    <2> QED
      BY <2>6, <2>7, <2>8, <2>9 DEF WalkOK, Accounts
  <1> QED
    BY <1>1, <1>2

-----------------------------------------------------------------------------
(* The walk past the blacklist.                                                *)

LEMMA DivisionFits ==
  \A p, n \in Nat : 0 < n =>
    /\ p \div n \in Nat /\ (p \div n) * n <= p /\ p < (p \div n) * n + n
  OBVIOUS

LEMMA AheadIs ==
  ASSUME args \in Configurations, NEW s, SourceOK(s), s.offset < N, NEW m \in Nat, 0 < m,
         NEW e, e = (s.offset + m - 1) \div N
  PROVE  /\ e \in Nat /\ SourceOK(Ahead(s, m)) /\ Ahead(s, m).group = s.group
         /\ Ahead(s, m).epoch = s.epoch + e
         /\ Ahead(s, m).offset = s.offset + m - e * N
         /\ 0 < Ahead(s, m).offset /\ Ahead(s, m).offset <= N
  <1>1. /\ N \in Nat /\ 0 < N /\ s.offset \in Nat /\ s.epoch \in Nat /\ s.order = Order(s.epoch)
        /\ DOMAIN s = SourceFields /\ s.group \in Nat
    BY RowsFinite DEF SourceOK
  <1>2. e \in Nat /\ e * N <= s.offset + m - 1 /\ s.offset + m - 1 < e * N + N
    <2>1. s.offset + m - 1 \in Nat
      BY <1>1
    <2> QED
      BY <1>1, <2>1, DivisionFits
  <1>3. PICK x \in Nat : x = e * N
    BY <1>1, <1>2
  <1> DEFINE y == s.offset + m - x
  <1>4. y \in Nat /\ 0 < y /\ y <= N
    BY <1>1, <1>2, <1>3
  <1>5. CASE e = 0
    <2>1. Ahead(s, m) = [s EXCEPT !.offset = s.offset + m]
      BY <1>5 DEF Ahead
    <2>2. y = s.offset + m /\ s.offset + m - e * N = y /\ s.epoch + e = s.epoch
      <3>1. 0 * N = 0
        BY <1>1
      <3>2. x = 0 /\ e * N = 0 /\ e = 0
        BY <1>3, <1>5, <3>1
      <3> QED
        BY ONLY <1>1, <3>2, m \in Nat DEF y
    <2> HIDE DEF y
    <2>3. /\ Ahead(s, m).epoch = s.epoch /\ Ahead(s, m).order = s.order
          /\ Ahead(s, m).offset = y /\ Ahead(s, m).group = s.group /\ DOMAIN Ahead(s, m) = SourceFields
      <3>1. Ahead(s, m) = [s EXCEPT !.offset = y]
        BY <2>1, <2>2
      <3> QED
        BY <1>1, <3>1 DEF SourceFields
    <2> QED
      BY <1>1, <1>2, <1>4, <2>2, <2>3 DEF SourceOK
  <1>6. CASE e # 0
    <2>1. Ahead(s, m) = [s EXCEPT !.epoch = s.epoch + e, !.order = Order(s.epoch + e), !.offset = y]
      <3>1. y = s.offset + m - e * N
        BY <1>3
      <3> QED
        BY <1>6, <3>1 DEF Ahead
    <2> HIDE DEF y
    <2>2. /\ Ahead(s, m).epoch = s.epoch + e /\ Ahead(s, m).order = Order(s.epoch + e)
          /\ Ahead(s, m).offset = y /\ Ahead(s, m).group = s.group /\ DOMAIN Ahead(s, m) = SourceFields
      BY <1>1, <2>1 DEF SourceFields
    <2> QED
      BY <1>1, <1>2, <1>3, <1>4, <2>2 DEF SourceOK, y
  <1> QED
    BY <1>5, <1>6

\* From a source to the one that has visited a row more.
OneVisit(s, t) ==
  \/ s.offset < N /\ t.epoch = s.epoch /\ t.offset = s.offset + 1
  \/ s.offset = N /\ t.epoch = s.epoch + 1 /\ t.offset = 1

LEMMA VisitsPass ==
  ASSUME args \in Configurations, NEW s, NEW t, SourceOK(s), SourceOK(t), OneVisit(s, t), NEW r \in Row
  PROVE  Passed(t, r) = Passed(s, r) + IF t.order[t.offset] = r THEN 1 ELSE 0
  <1>1. /\ Shuffle(s.order) /\ Shuffle(t.order) /\ s.epoch \in Nat /\ s.offset \in Nat
        /\ N \in Nat /\ 0 < N /\ (s.epoch = t.epoch => s.order = t.order)
    BY EpochsAreShuffles, RowsFinite DEF SourceOK
  <1>2. PICK i \in Row : /\ t.order[i] = r
                         /\ \A x, y \in Nat : Met(t.order, x, y, r) = IF x < i /\ i <= y THEN 1 ELSE 0
    BY <1>1, MetOnce
  <1>3. i \in Nat /\ 0 < i /\ i <= N
    BY RowsFinite
  <1>4. ASSUME t.offset \in Row PROVE t.order[t.offset] = r <=> t.offset = i
    BY <1>1, <1>2, <1>4 DEF Shuffle
  <1>5. CASE s.offset < N /\ t.epoch = s.epoch /\ t.offset = s.offset + 1
    <2>1. t.offset \in Row /\ t.offset = s.offset + 1
      BY <1>1, <1>5, RowsFinite
    <2>2. Met(t.order, 0, t.offset, r) = Met(t.order, 0, s.offset, r) + IF t.offset = i THEN 1 ELSE 0
      BY <1>1, <1>2, <1>3, <2>1
    <2>3. Met(t.order, 0, s.offset, r) \in Nat /\ s.order = t.order
      BY <1>1, <1>5 DEF Met
    <2>4. /\ Passed(t, r) = s.epoch + Met(t.order, 0, t.offset, r)
          /\ Passed(s, r) = s.epoch + Met(t.order, 0, s.offset, r)
      BY <1>5, <2>3 DEF Passed
    <2>5. (IF t.order[t.offset] = r THEN 1 ELSE 0) = IF t.offset = i THEN 1 ELSE 0
      <3>1. t.order[t.offset] = r <=> t.offset = i
        BY <1>4, <2>1
      <3> QED
        BY ONLY <3>1
    <2>6. PICK a \in Nat, b \in {0, 1} :
             a = Met(t.order, 0, s.offset, r) /\ b = IF t.offset = i THEN 1 ELSE 0
      BY <2>3
    <2>7. Passed(t, r) = s.epoch + (a + b) /\ Passed(s, r) = s.epoch + a
      BY <2>2, <2>4, <2>6
    <2> QED
      BY <1>1, <2>5, <2>6, <2>7
  <1>6. CASE s.offset = N /\ t.epoch = s.epoch + 1 /\ t.offset = 1
    <2>1. Passed(s, r) = s.epoch + 1
      BY <1>1, <1>6, EpochEnds
    <2>2. t.offset \in Row
      BY <1>1, <1>6, RowsFinite
    <2>3. Met(t.order, 0, t.offset, r) = IF t.offset = i THEN 1 ELSE 0
      BY <1>1, <1>2, <1>3, <1>6
    <2> QED
      BY <1>1, <1>4, <1>6, <2>1, <2>2, <2>3 DEF Passed
  <1> QED
    BY <1>5, <1>6 DEF OneVisit

LEMMA AheadSteps ==
  ASSUME args \in Configurations, NEW s, SourceOK(s), s.offset < N
  PROVE  /\ OneVisit(s, Ahead(s, 1))
         /\ \A m \in Nat : 0 < m => OneVisit(Ahead(s, m), Ahead(s, m + 1))
  <1>0. N \in Nat /\ 0 < N /\ s.offset \in Nat /\ s.epoch \in Nat
    BY RowsFinite DEF SourceOK
  <1>1. OneVisit(s, Ahead(s, 1))
    <2> DEFINE e == (s.offset + 1 - 1) \div N
    <2>1. e \in Nat /\ e * N <= s.offset /\ s.offset < e * N + N
      <3>1. s.offset + 1 - 1 = s.offset
        BY <1>0
      <3> QED
        BY <1>0, <3>1, DivisionFits
    <2>2. Ahead(s, 1).epoch = s.epoch + e /\ Ahead(s, 1).offset = s.offset + 1 - e * N
      <3> HIDE DEF e
      <3>1. e = (s.offset + 1 - 1) \div N
        BY DEF e
      <3> QED
        BY <1>0, <3>1, AheadIs
    <2> HIDE DEF e
    <2>3. e = 0
      <3>1. ASSUME e >= 1 PROVE FALSE
        <4>1. e * N >= N
          BY <1>0, <2>1, <3>1
        <4> QED
          BY <1>0, <2>1, <4>1
      <3> QED
        BY <2>1, <3>1
    <2> QED
      BY <1>0, <2>2, <2>3 DEF OneVisit
  <1>2. ASSUME NEW m \in Nat, 0 < m PROVE OneVisit(Ahead(s, m), Ahead(s, m + 1))
    <2> DEFINE n == m + 1
               p == s.offset + m - 1
               q == s.offset + n - 1
               d == p \div N
               e == q \div N
    <2>1. n \in Nat /\ 0 < n /\ p \in Nat /\ q \in Nat /\ q = p + 1
      BY <1>0, <1>2
    <2> HIDE DEF n, p, q
    <2>2. /\ d \in Nat /\ d * N <= p /\ p < d * N + N
          /\ e \in Nat /\ e * N <= q /\ q < e * N + N
      BY <1>0, <2>1, DivisionFits
    <2>3. /\ Ahead(s, m).epoch = s.epoch + d /\ Ahead(s, m).offset = s.offset + m - d * N
      BY <1>0, <1>2, AheadIs DEF p
    <2>4. /\ Ahead(s, n).epoch = s.epoch + e /\ Ahead(s, n).offset = s.offset + n - e * N
      BY <1>0, <2>1, AheadIs DEF q
    <2> HIDE DEF d, e
    <2>5. PICK x \in Nat, y \in Nat : x = d * N /\ y = e * N
      BY <1>0, <2>2
    <2>6. (d = e /\ x = y) \/ (e = d + 1 /\ y = x + N)
      <3>1. ASSUME e < d PROVE FALSE
        <4>1. (d - e) * N >= N /\ (d - e) * N = d * N - e * N
          BY <1>0, <2>2, <3>1
        <4> QED
          BY <1>0, <2>1, <2>2, <2>5, <4>1
      <3>2. ASSUME e > d + 1 PROVE FALSE
        <4>1. (e - d) * N >= 2 * N /\ (e - d) * N = e * N - d * N
          BY <1>0, <2>2, <3>2
        <4> QED
          BY <1>0, <2>1, <2>2, <2>5, <4>1
      <3>3. CASE e = d
        BY <2>5, <3>3
      <3>4. CASE e = d + 1
        <4>1. e * N = d * N + N
          BY <1>0, <2>2, <3>4
        <4> QED
          BY <2>5, <3>4, <4>1
      <3> QED
        BY <2>2, <3>1, <3>2, <3>3, <3>4
    <2>7. n = m + 1
      BY DEF n
    <2>8. p = s.offset + m - 1 /\ q = s.offset + n - 1
      BY DEF p, q
    <2>9. CASE d = e /\ x = y
      BY <1>0, <2>1, <2>2, <2>3, <2>4, <2>5, <2>7, <2>8, <2>9 DEF OneVisit
    <2>10. CASE e = d + 1 /\ y = x + N
      BY <1>0, <2>1, <2>2, <2>3, <2>4, <2>5, <2>7, <2>8, <2>10 DEF OneVisit
    <2> QED
      BY <2>6, <2>9, <2>10
  <1> QED
    BY <1>1, <1>2

\* The visits of the first m that were to r.
Visits(s, m, r) == {j \in 1 .. m : At(s, j) = r}

LEMMA PartsOfRange ==
  ASSUME NEW m \in Nat, NEW I \in SUBSET (1 .. m)
  PROVE  I \in SUBSET Nat /\ IsFiniteSet(I) /\ Cardinality(I) \in Nat
  <1>1. \A n \in Nat : 1 \in Int /\ n \in Int
    OBVIOUS
  <1>2. IsFiniteSet(1 .. m)
    BY <1>1, FS_Interval
  <1>3. IsFiniteSet(I)
    BY <1>2, FS_Subset
  <1> QED
    BY <1>3, FS_CardinalityType

\* One more visit is one more member, or none.
LEMMA OneMore ==
  ASSUME NEW m \in Nat, NEW A \in SUBSET (1 .. m), NEW B, B = A \/ B = A \cup {m + 1}
  PROVE  Cardinality(B) = Cardinality(A) + IF B = A THEN 0 ELSE 1
  <1>1. IsFiniteSet(A) /\ Cardinality(A) \in Nat
    BY PartsOfRange
  <1>2. m + 1 \notin A
    OBVIOUS
  <1> QED
    BY <1>1, <1>2, FS_AddElement

\* The walk keeps the account of every row.
LEMMA AheadPasses ==
  ASSUME args \in Configurations, NEW s, SourceOK(s), s.offset < N,
         NEW n \in Nat, 0 < n, NEW r \in Row
  PROVE  Passed(Ahead(s, n), r) = Passed(s, r) + Cardinality(Visits(s, n, r))
  <1> DEFINE P(m) == Passed(Ahead(s, m), r) = Passed(s, r) + Cardinality(Visits(s, m, r))
             Wrong == {m \in 1 .. n : ~P(m)}
  <1>0. s.epoch \in Nat /\ s.offset \in Nat /\ N \in Nat /\ Passed(s, r) \in Nat
    <2>1. Met(s.order, 0, s.offset, r) \in Nat /\ s.epoch \in Nat
      BY DEF SourceOK, Met
    <2> QED
      BY <2>1, RowsFinite DEF SourceOK, Passed
  <1>1. ASSUME NEW m \in Nat, 0 < m
        PROVE  SourceOK(Ahead(s, m)) /\ At(s, m) = Ahead(s, m).order[Ahead(s, m).offset]
    <2> DEFINE e == (s.offset + m - 1) \div N
    <2> HIDE DEF e
    <2>1. e = (s.offset + m - 1) \div N
      BY DEF e
    <2> QED
      BY <1>1, <2>1, AheadIs DEF At
  <1>2. ASSUME NEW m \in Nat
        PROVE  /\ Visits(s, m, r) \in SUBSET (1 .. m)
               /\ Visits(s, m + 1, r) = Visits(s, m, r) \cup IF At(s, m + 1) = r THEN {m + 1} ELSE {}
               /\ Cardinality(Visits(s, m, r)) \in Nat
               /\ Cardinality(Visits(s, m + 1, r)) =
                    Cardinality(Visits(s, m, r)) + IF At(s, m + 1) = r THEN 1 ELSE 0
    <2> DEFINE A == Visits(s, m, r)
               B == Visits(s, m + 1, r)
    <2>1. \A j : j \in 1 .. m + 1 <=> (j \in 1 .. m \/ j = m + 1)
      OBVIOUS
    <2>2. A \in SUBSET (1 .. m) /\ B = A \cup IF At(s, m + 1) = r THEN {m + 1} ELSE {}
      BY <2>1 DEF Visits
    <2>3. m + 1 \notin A
      BY <2>2
    <2> HIDE DEF A, B
    <2>4. Cardinality(A) \in Nat
      BY <2>2, PartsOfRange
    <2>5. Cardinality(B) = Cardinality(A) + IF At(s, m + 1) = r THEN 1 ELSE 0
      <3>1. CASE At(s, m + 1) = r
        <4>1. B = A \cup {m + 1} /\ B # A
          BY <2>2, <2>3, <3>1
        <4> QED
          BY <2>2, <3>1, <4>1, OneMore
      <3>2. CASE At(s, m + 1) # r
        <4>1. B = A
          BY <2>2, <3>2
        <4> QED
          BY <2>4, <3>2, <4>1
      <3> QED
        BY <3>1, <3>2
    <2> QED
      BY <2>2, <2>4, <2>5 DEF A, B
  <1>3. ASSUME NEW m \in Nat, m > 0 => P(m) PROVE P(m + 1)
    <2> DEFINE u == IF m = 0 THEN s ELSE Ahead(s, m)
               t == Ahead(s, m + 1)
    <2>1. SourceOK(u) /\ SourceOK(t) /\ At(s, m + 1) = t.order[t.offset]
      BY <1>1
    <2>2. OneVisit(u, t)
      <3>1. CASE m = 0
        BY <3>1, AheadSteps
      <3>2. CASE m # 0
        <4>1. 0 < m
          BY <3>2
        <4> QED
          BY <3>2, <4>1, AheadSteps
      <3> QED
        BY <3>1, <3>2
    <2>3. Passed(u, r) = Passed(s, r) + Cardinality(Visits(s, m, r))
      <3>1. CASE m = 0
        <4>1. Visits(s, m, r) = {}
          BY <3>1 DEF Visits
        <4> QED
          BY <1>0, <3>1, <4>1, FS_EmptySet
      <3>2. CASE m # 0
        <4>1. m > 0
          BY <3>2
        <4> QED
          BY <1>3, <3>2, <4>1
      <3> QED
        BY <3>1, <3>2
    <2> HIDE DEF u, t
    <2>4. Passed(t, r) = Passed(u, r) + IF At(s, m + 1) = r THEN 1 ELSE 0
      BY <2>1, <2>2, VisitsPass
    <2> QED
      BY <1>0, <1>2, <2>3, <2>4, SMTT(30) DEF t
  <1> HIDE DEF P
  <1>4. ASSUME Wrong # {} PROVE FALSE
    <2>1. Wrong \in SUBSET Nat /\ IsFiniteSet(Wrong)
      BY PartsOfRange
    <2>2. PICK i \in Wrong : \A j \in Wrong : i <= j
      BY <1>4, <2>1, LeastExists
    <2>3. i \in 1 .. n /\ i - 1 \in Nat /\ i - 1 + 1 = i /\ i - 1 \notin Wrong
      BY <2>1, <2>2
    <2>4. i - 1 > 0 => P(i - 1)
      BY <2>3
    <2>5. P(i)
      BY <1>3, <2>3, <2>4
    <2> QED
      BY <2>2, <2>5
  <1>5. n \in 1 .. n
    OBVIOUS
  <1> QED
    BY <1>4, <1>5 DEF P

\* The yields of a walk grow by one or stay.
LEMMA YieldsGrow ==
  ASSUME NEW s, NEW m \in Nat
  PROVE  /\ Yields(s, m) \in SUBSET (1 .. m) /\ Cardinality(Yields(s, m)) \in Nat
         /\ Cardinality(Yields(s, m + 1)) \in Nat
         /\ Cardinality(Yields(s, m + 1)) <= Cardinality(Yields(s, m)) + 1
         /\ Cardinality(Yields(s, 0)) = 0
  <1> DEFINE A == Yields(s, m)
             B == Yields(s, m + 1)
  <1>1. \A j : j \in 1 .. m + 1 <=> (j \in 1 .. m \/ j = m + 1)
    OBVIOUS
  <1>2. A \in SUBSET (1 .. m) /\ (B = A \/ B = A \cup {m + 1}) /\ B \in SUBSET (1 .. m + 1)
    BY <1>1 DEF Yields
  <1>3. Yields(s, 0) = {}
    BY DEF Yields
  <1> HIDE DEF A, B
  <1>4. Cardinality(A) \in Nat /\ Cardinality(B) \in Nat
    <2>1. \A n \in Nat : \A I \in SUBSET (1 .. n) : Cardinality(I) \in Nat
      BY PartsOfRange
    <2>2. m + 1 \in Nat
      OBVIOUS
    <2> QED
      BY <1>2, <2>1, <2>2
  <1>5. Cardinality(B) = Cardinality(A) + IF B = A THEN 0 ELSE 1
    BY <1>2, OneMore
  <1> QED
    BY <1>2, <1>3, <1>4, <1>5, FS_EmptySet DEF A, B

\* A walk does not yield more without having yielded each number before.
LEMMA YieldsReach ==
  ASSUME NEW s, NEW n \in Nat, NEW k \in Nat, 0 < k, Cardinality(Yields(s, n)) >= k
  PROVE  \E m \in 1 .. n : Cardinality(Yields(s, m)) = k
  <1> DEFINE c(m) == Cardinality(Yields(s, m))
             I == {m \in 1 .. n : c(m) >= k}
  <1>1. c(0) = 0 /\ \A m \in Nat : c(m) \in Nat /\ c(m + 1) <= c(m) + 1
    BY YieldsGrow
  <1> HIDE DEF c
  <1>2. n # 0 /\ c(n) >= k
    BY <1>1 DEF c
  <1>3. n \in I
    BY <1>2
  <1>4. I \in SUBSET Nat /\ IsFiniteSet(I)
    BY PartsOfRange
  <1>5. PICK i \in I : \A j \in I : i <= j
    BY <1>3, <1>4, LeastExists
  <1>6. i \in 1 .. n /\ i - 1 \in Nat /\ i - 1 + 1 = i /\ i - 1 \notin I /\ c(i) >= k
    BY <1>4, <1>5
  <1>7. c(i - 1) < k
    BY <1>1, <1>6
  <1>8. c(i) = k
    <2> DEFINE h == i - 1
    <2>1. h \in Nat /\ c(h) \in Nat /\ c(h) < k /\ c(h + 1) \in Nat /\ c(h + 1) <= c(h) + 1
      BY <1>1, <1>6, <1>7
    <2>2. c(h + 1) = c(i)
      BY <1>6
    <2> QED
      BY <1>6, <2>1, <2>2
  <1> QED
    BY <1>6, <1>8 DEF c

InVain(s, m) == m >= N /\ \A j \in m - N + 1 .. m : At(s, j) \notin Allowed

\* The loop of _get_sequential_prompt_samples ends.
LEMMA WalksStop ==
  ASSUME NEW s, NEW k \in Nat, 0 < k
  PROVE  \E m \in 1 .. k * N : Stops(s, k, m) /\ \A l \in 1 .. m - 1 : ~Stops(s, k, l)
  <1>0. N \in Nat /\ 0 < N
    BY RowsFinite
  <1> DEFINE n == k * N
             I == {m \in 1 .. n : Stops(s, k, m)}
  <1>1. n \in Nat /\ \A b \in 1 .. k : b * N \in 1 .. n /\ b * N >= N
    <2>1. n \in Nat
      BY <1>0
    <2>2. ASSUME NEW b \in 1 .. k PROVE b * N <= n /\ b * N >= N /\ b * N \in Nat
      BY <1>0
    <2> QED
      BY <1>0, <2>1, <2>2
  <1> HIDE DEF n
  <1>2. I # {}
    <2> SUFFICES ASSUME I = {} PROVE FALSE
      OBVIOUS
    <2>1. ASSUME NEW b \in 1 .. k
          PROVE  \E j \in Nat : (b - 1) * N < j /\ j <= b * N /\ At(s, j) \in Allowed
      <3>1. ~Stops(s, k, b * N) /\ b * N >= N /\ b * N \in Nat
        BY <1>0, <1>1
      <3>2. PICK j \in b * N - N + 1 .. b * N : At(s, j) \in Allowed
        BY <3>1 DEF Stops
      <3>3. (b - 1) * N = b * N - N
        BY <1>0
      <3> QED
        BY <1>0, <3>1, <3>2, <3>3
    <2> DEFINE Y == Yields(s, n)
               f == [b \in 1 .. k |->
                       CHOOSE j \in Nat : (b - 1) * N < j /\ j <= b * N /\ At(s, j) \in Allowed]
    <2>2. \A b \in 1 .. k : /\ f[b] \in Nat /\ (b - 1) * N < f[b] /\ f[b] <= b * N
                            /\ At(s, f[b]) \in Allowed
      BY <2>1
    <2> HIDE DEF f
    <2>3. f \in Injection(1 .. k, Y)
      <3>1. ASSUME NEW b \in 1 .. k PROVE f[b] \in Y
        <4>1. (b - 1) * N \in Nat /\ b * N \in Nat /\ b * N <= n
          <5>1. b - 1 \in Nat
            OBVIOUS
          <5>2. (b - 1) * N \in Nat
            BY <1>0, <5>1
          <5> QED
            BY <1>0, <1>1, <5>2
        <4>2. PICK x \in Nat, y \in Nat : x = (b - 1) * N /\ y = b * N
          BY <4>1
        <4>3. f[b] \in Nat /\ x < f[b] /\ f[b] <= y /\ y <= n /\ At(s, f[b]) \in Allowed
          BY <2>2, <4>1, <4>2
        <4>4. f[b] \in 1 .. n
          BY <1>1, <4>3
        <4> QED
          BY <4>3, <4>4 DEF Yields
      <3>2. f \in [1 .. k -> Y]
        BY <3>1 DEF f
      <3>3. ASSUME NEW a \in 1 .. k, NEW b \in 1 .. k, f[a] = f[b] PROVE ~(a < b)
        <4> SUFFICES ASSUME a < b PROVE FALSE
          OBVIOUS
        <4>1. a <= b - 1 /\ b - 1 \in Nat /\ a \in Nat
          OBVIOUS
        <4>2. a * N <= (b - 1) * N
          BY <1>0, <4>1
        <4>3. a * N \in Nat /\ (b - 1) * N \in Nat
          BY <1>0, <4>1
        <4> QED
          BY <2>2, <3>3, <4>2, <4>3
      <3>4. \A a, b \in 1 .. k : f[a] = f[b] => a = b
        BY <3>3
      <3> QED
        BY <3>2, <3>4 DEF Injection, IsInjective
    <2>4. IsFiniteSet(Y) /\ Cardinality(Y) \in Nat
      BY <1>1, YieldsGrow, PartsOfRange
    <2>5. Cardinality(1 .. k) = k
      <3>1. \A x \in Nat : 1 \in Int /\ x \in Int
        OBVIOUS
      <3>2. \A x \in Nat : Cardinality(1 .. x) = IF 1 > x THEN 0 ELSE x - 1 + 1
        BY <3>1, FS_Interval
      <3> QED
        BY <3>2
    <2>6. k <= Cardinality(Y)
      <3> HIDE DEF Y
      <3>1. Cardinality(1 .. k) <= Cardinality(Y)
        BY <2>3, <2>4, FS_Injection
      <3> QED
        BY <2>5, <3>1
    <2>7. PICK m \in 1 .. n : Cardinality(Yields(s, m)) = k
      <3>1. Cardinality(Yields(s, n)) >= k
        BY <2>4, <2>6
      <3> QED
        BY <1>1, <3>1, YieldsReach
    <2> QED
      BY <2>7 DEF Stops
  <1>3. I \in SUBSET Nat /\ IsFiniteSet(I)
    BY <1>1, PartsOfRange, ZenonT(30)
  <1>4. PICK m \in I : \A j \in I : m <= j
    BY <1>2, <1>3, LeastExists
  <1>5. \A l \in 1 .. m - 1 : l \notin I /\ l \in 1 .. n
    BY <1>1, <1>4
  <1> QED
    BY <1>4, <1>5 DEF n

\* It never yields more than was asked for.
LEMMA StopsInTime ==
  ASSUME NEW s, NEW k \in Nat, 0 < k, NEW m \in Nat, \A l \in 1 .. m - 1 : ~Stops(s, k, l)
  PROVE  Cardinality(Yields(s, m)) <= k
  <1>1. CASE m = 0
    BY <1>1, YieldsGrow
  <1>2. CASE m # 0
    <2>0. m - 1 \in Nat /\ m - 1 + 1 = m
      BY <1>2
    <2>1. /\ Cardinality(Yields(s, m - 1)) \in Nat /\ Cardinality(Yields(s, m)) \in Nat
          /\ Cardinality(Yields(s, m)) <= Cardinality(Yields(s, m - 1)) + 1
      <3>1. \A i \in Nat : /\ Cardinality(Yields(s, i)) \in Nat
                           /\ Cardinality(Yields(s, i + 1)) <= Cardinality(Yields(s, i)) + 1
        BY YieldsGrow
      <3> QED
        BY <2>0, <3>1
    <2>2. Cardinality(Yields(s, m - 1)) < k
      <3> SUFFICES ASSUME Cardinality(Yields(s, m - 1)) >= k PROVE FALSE
        BY <2>1
      <3>1. PICK l \in 1 .. m - 1 : Cardinality(Yields(s, l)) = k
        BY <2>0, YieldsReach
      <3> QED
        BY <3>1 DEF Stops
    <2> QED
      BY <2>1, <2>2
  <1> QED
    BY <1>1, <1>2

\* When less than half of the rows are on the blacklist, N visits in a row find
\* one that is not, across the end of an epoch too.
LEMMA NeverInVain ==
  ASSUME args \in Configurations, 2 * Cardinality(args.blacklist) < N,
         NEW s, SourceOK(s), s.offset < N, NEW m \in Nat
  PROVE  ~InVain(s, m)
  <1> SUFFICES ASSUME InVain(s, m) PROVE FALSE
    OBVIOUS
  <1> DEFINE W == m - N + 1 .. m
             black == args.blacklist
  <1>0. N \in Nat /\ 0 < N /\ s.offset \in Nat /\ s.epoch \in Nat /\ m >= N /\ m - N + 1 \in Nat
    BY RowsFinite DEF SourceOK, InVain
  <1>1. black \in SUBSET Row /\ IsFiniteSet(black) /\ Cardinality(black) \in Nat
    <2>1. black \in SUBSET Row
      BY DataAssumption
    <2> QED
      BY <2>1, RowsFinite, FS_Subset, FS_CardinalityType
  <1> HIDE DEF black
  <1> DEFINE e(j) == (s.offset + j - 1) \div N
             E == e(m - N + 1)
             T == {E, E + 1} \X black
             f == [j \in W |-> <<e(j), At(s, j)>>]
  <1>2. \A j \in W : j \in Nat /\ 0 < j /\ m - N + 1 <= j /\ j <= m /\ s.offset + j - 1 \in Nat
    BY <1>0
  <1>3. ASSUME NEW j \in Nat, 0 < j
        PROVE  /\ e(j) \in Nat /\ e(j) * N <= s.offset + j - 1 /\ s.offset + j - 1 < e(j) * N + N
               /\ At(s, j) = Ahead(s, j).order[Ahead(s, j).offset]
               /\ Ahead(s, j).order = Order(s.epoch + e(j))
               /\ Ahead(s, j).offset = s.offset + j - e(j) * N /\ Ahead(s, j).offset \in Row
    <2> DEFINE d == e(j)
    <2>1. d = (s.offset + j - 1) \div N /\ s.offset + j - 1 \in Nat
      BY <1>0, <1>3
    <2> HIDE DEF d, e
    <2>2. d \in Nat /\ d * N <= s.offset + j - 1 /\ s.offset + j - 1 < d * N + N
      BY <1>0, <2>1, DivisionFits
    <2>3. /\ SourceOK(Ahead(s, j)) /\ Ahead(s, j).epoch = s.epoch + d
          /\ Ahead(s, j).offset = s.offset + j - d * N
          /\ 0 < Ahead(s, j).offset /\ Ahead(s, j).offset <= N
      BY <1>3, <2>1, AheadIs
    <2>4. Ahead(s, j).offset \in Row
      BY <1>0, <2>3, RowsFinite DEF SourceOK
    <2> QED
      BY <2>2, <2>3, <2>4 DEF SourceOK, At, d
  <1> HIDE DEF e
  <1>4. ASSUME NEW j \in W PROVE At(s, j) \in black /\ e(j) \in {E, E + 1}
    <2>1. At(s, j) \in Row
      <3>1. s.epoch + e(j) \in Nat /\ Ahead(s, j).offset \in Row
        BY <1>0, <1>2, <1>3
      <3>2. Shuffle(Ahead(s, j).order)
        BY <1>2, <1>3, <3>1, EpochsAreShuffles
      <3> QED
        BY <1>2, <1>3, <3>1, <3>2 DEF Shuffle
    <2>2. At(s, j) \in black
      BY <2>1 DEF InVain, Allowed, black
    <2> DEFINE b == m - N + 1
    <2>3. b \in Nat /\ 0 < b /\ b <= j /\ j < b + N /\ j \in Nat
      BY <1>0, <1>2
    <2> HIDE DEF b
    <2>4. /\ e(b) \in Nat /\ e(b) * N <= s.offset + b - 1 /\ s.offset + b - 1 < e(b) * N + N
          /\ e(j) \in Nat /\ e(j) * N <= s.offset + j - 1 /\ s.offset + j - 1 < e(j) * N + N
      BY <1>2, <1>3, <2>3
    <2>5. ASSUME e(j) < e(b) PROVE FALSE
      <3>1. (e(b) - e(j)) * N >= N /\ (e(b) - e(j)) * N = e(b) * N - e(j) * N
        BY <1>0, <2>4, <2>5
      <3> QED
        BY <1>0, <2>3, <2>4, <3>1
    <2>6. ASSUME e(j) > e(b) + 1 PROVE FALSE
      <3>1. (e(j) - e(b)) * N >= 2 * N /\ (e(j) - e(b)) * N = e(j) * N - e(b) * N
        BY <1>0, <2>4, <2>6
      <3> QED
        BY <1>0, <2>3, <2>4, <3>1
    <2>7. e(j) = e(b) \/ e(j) = e(b) + 1
      BY <2>4, <2>5, <2>6
    <2> QED
      BY <2>2, <2>7 DEF b
  <1>5. f \in [W -> T]
    BY <1>4
  <1>6. ASSUME NEW i \in W, NEW j \in W, f[i] = f[j] PROVE i = j
    <2>1. e(i) = e(j) /\ At(s, i) = At(s, j)
      BY <1>6
    <2> DEFINE g == Order(s.epoch + e(i))
    <2>2. /\ g[Ahead(s, i).offset] = g[Ahead(s, j).offset]
          /\ Ahead(s, i).offset \in Row /\ Ahead(s, j).offset \in Row
      BY <1>2, <1>3, <2>1
    <2>3. Shuffle(g)
      <3>1. i \in Nat /\ 0 < i
        BY <1>2
      <3>2. e(i) \in Nat
        BY <1>3, <3>1
      <3>3. s.epoch + e(i) \in Nat
        BY <1>0, <3>2
      <3> QED
        BY <3>3, EpochsAreShuffles
    <2>4. Ahead(s, i).offset = Ahead(s, j).offset
      BY <2>2, <2>3 DEF Shuffle
    <2>5. PICK x \in Nat : x = e(i) * N
      <3>1. e(i) \in Nat
        BY <1>2, <1>3
      <3> QED
        BY <1>0, <3>1
    <2>6. s.offset + i - x = s.offset + j - x
      BY <1>2, <1>3, <2>1, <2>4, <2>5
    <2> QED
      BY <1>0, <1>2, <2>6
  <1>7. IsFiniteSet(T) /\ Cardinality(T) < N
    <2> DEFINE P == {E, E + 1}
    <2>1. E \in Nat
      BY <1>0, <1>3
    <2>2. IsFiniteSet(P) /\ Cardinality(P) = 2
      <3> HIDE DEF E
      <3>1. IsFiniteSet({E}) /\ Cardinality({E}) = 1
        BY FS_Singleton
      <3>2. P = {E} \cup {E + 1} /\ E + 1 \notin {E}
        BY <2>1
      <3> HIDE DEF P
      <3> QED
        BY <3>1, <3>2, FS_AddElement
    <2> HIDE DEF P
    <2>3. IsFiniteSet(P \X black) /\ Cardinality(P \X black) = Cardinality(P) * Cardinality(black)
      BY <1>1, <2>2, FS_Product
    <2>4. Cardinality(P \X black) = 2 * Cardinality(black)
      BY <2>2, <2>3
    <2> QED
      BY <1>1, <2>3, <2>4 DEF P, black
  <1>8. IsFiniteSet(W) /\ Cardinality(W) = N
    <2>1. \A a, b \in Int : IsFiniteSet(a .. b) /\ Cardinality(a .. b) = IF a > b THEN 0 ELSE b - a + 1
      BY FS_Interval
    <2> QED
      BY <1>0, <2>1
  <1> HIDE DEF f, T, W
  <1>9. \E i, j \in W : i # j /\ f[i] = f[j]
    BY <1>5, <1>7, <1>8, FS_PigeonHole
  <1> QED
    BY <1>6, <1>9

\* The rows a walk gives are those of its visits that are not on the blacklist.
LEMMA RowsYielded ==
  ASSUME NEW s, NEW n \in Nat, \A j \in 1 .. n : At(s, j) \in Row, NEW rows,
         rows = [i \in 1 .. Cardinality(Yields(s, n)) |-> At(s, Yield(s, n, i))]
  PROVE  /\ rows \in Seq(Row) /\ Len(rows) = Cardinality(Yields(s, n))
         /\ \A r \in Allowed : Count(rows, r) = Cardinality(Visits(s, n, r))
         /\ \A r \in Row \ Allowed : Count(rows, r) = 0
  <1> DEFINE Y == Yields(s, n)
             K == Cardinality(Y)
             place(i) == Yield(s, n, i)
  <1>1. Y \in SUBSET (1 .. n) /\ Y \in SUBSET Nat /\ IsFiniteSet(Y) /\ K \in Nat
        /\ \A j \in Y : At(s, j) \in Allowed /\ At(s, j) \in Row
    <2>1. Y \in SUBSET (1 .. n) /\ \A j \in Y : At(s, j) \in Allowed /\ At(s, j) \in Row
      BY DEF Yields
    <2> QED
      BY <2>1, PartsOfRange
  <1>2. ASSUME NEW j \in Y PROVE Cardinality(Yields(s, j)) = Rank(Y, j)
    <2>1. j \in Nat /\ j <= n
      BY <1>1
    <2>2. Yields(s, j) = {l \in Y : l <= j}
      BY <2>1 DEF Yields
    <2> QED
      BY <2>2 DEF Rank
  <1>3. /\ \A i \in Y : Rank(Y, i) \in 1 .. K
        /\ \A i, j \in Y : Rank(Y, i) = Rank(Y, j) => i = j
        /\ \A i \in 1 .. K : \E j \in Y : Rank(Y, j) = i
    <2> HIDE DEF Y
    <2> QED
      BY <1>1, RanksCount
  <1>4. ASSUME NEW i \in 1 .. K PROVE place(i) \in Y /\ Rank(Y, place(i)) = i
    <2>1. \E j \in Y : Cardinality(Yields(s, j)) = i
      BY <1>2, <1>3
    <2>2. place(i) \in Yields(s, n) /\ Cardinality(Yields(s, place(i))) = i
      BY <2>1 DEF Yield
    <2> QED
      BY <1>2, <2>2
  <1>5. ASSUME NEW j \in Y PROVE place(Rank(Y, j)) = j
    BY <1>3, <1>4
  <1> HIDE DEF place
  <1>6. rows = [i \in 1 .. K |-> At(s, place(i))]
    BY DEF place
  <1> HIDE DEF Y, K
  <1>7. rows \in Seq(Row) /\ Len(rows) = K /\ DOMAIN rows = 1 .. K
    <2>1. rows \in [1 .. K -> Row]
      BY <1>1, <1>4, <1>6
    <2> QED
      BY <1>1, <2>1, FunctionsAreSequences
  <1>8. ASSUME NEW r \in Allowed PROVE Count(rows, r) = Cardinality(Visits(s, n, r))
    <2> DEFINE I == {i \in DOMAIN rows : rows[i] = r}
               V == Visits(s, n, r)
               f == [j \in V |-> Rank(Y, j)]
    <2>1. V \in SUBSET Y /\ \A j \in V : At(s, j) = r
      BY <1>8 DEF V, Visits, Y, Yields
    <2>2. \A j \in Y : At(s, j) = r => j \in V
      BY <1>1 DEF V, Visits
    <2>3. \A j \in V : Rank(Y, j) \in I
      <3> SUFFICES ASSUME NEW j \in V PROVE Rank(Y, j) \in I
        OBVIOUS
      <3>1. j \in Y /\ Rank(Y, j) \in 1 .. K /\ place(Rank(Y, j)) = j /\ At(s, j) = r
        BY <1>3, <1>5, <2>1
      <3>2. rows[Rank(Y, j)] = r
        BY <1>6, <3>1
      <3> QED
        BY <1>7, <3>1, <3>2
    <2>4. \A i \in I : place(i) \in V /\ Rank(Y, place(i)) = i
      <3> SUFFICES ASSUME NEW i \in I PROVE place(i) \in V /\ Rank(Y, place(i)) = i
        OBVIOUS
      <3>1. i \in 1 .. K /\ rows[i] = r
        BY <1>7
      <3>2. place(i) \in Y /\ Rank(Y, place(i)) = i /\ At(s, place(i)) = r
        BY <1>4, <1>6, <3>1
      <3> QED
        BY <2>2, <3>2
    <2>5. \A i, j \in V : Rank(Y, i) = Rank(Y, j) => i = j
      BY <1>3, <2>1
    <2>6. IsFiniteSet(V)
      <3>1. V \in SUBSET (1 .. n)
        BY DEF Visits
      <3> HIDE DEF V
      <3> QED
        BY <3>1, PartsOfRange
    <2> HIDE DEF I, V
    <2>7. f \in Bijection(V, I)
      <3>1. f \in [V -> I]
        BY <2>3
      <3>2. \A i, j \in V : f[i] = f[j] => i = j
        BY <2>5
      <3>3. \A i \in I : \E j \in V : f[j] = i
        BY <2>4
      <3> HIDE DEF f
      <3> QED
        BY <3>1, <3>2, <3>3 DEF Bijection, Injection, Surjection, IsInjective
    <2> HIDE DEF f
    <2>8. ExistsBijection(V, I)
      BY <2>7 DEF ExistsBijection
    <2>9. Cardinality(I) = Cardinality(V)
      BY <2>6, <2>8, FS_Bijection
    <2> QED
      BY <2>9 DEF Count, I, V
  <1>9. ASSUME NEW r \in Row \ Allowed PROVE Count(rows, r) = 0
    <2>1. ASSUME NEW i \in DOMAIN rows PROVE rows[i] # r
      BY <1>1, <1>4, <1>6, <1>7
    <2>2. {i \in DOMAIN rows : rows[i] = r} = {}
      BY <2>1
    <2> QED
      BY <2>2, FS_EmptySet DEF Count
  <1> QED
    BY <1>7, <1>8, <1>9 DEF K, Y

\* Less than half of the rows are on the blacklist.
FewBlack == 2 * Cardinality(args.blacklist) < N

LEMMA FilteredWalks ==
  ASSUME args \in Configurations, NEW s, SourceOK(s), NEW k \in Nat, 0 < k, NEW w, w = Filtered(s, k)
  PROVE  /\ WalkOK(s, w, k)
         /\ FewBlack => /\ \A r \in Allowed : Accounts(s, w, r)
                        /\ \A r \in Row \ Allowed : Count(w.rows, r) = 0
  <1> DEFINE from == IF s.offset >= N THEN NextEpoch(s) ELSE s
             stop == CHOOSE m \in 1 .. k * N :
                       Stops(from, k, m) /\ \A l \in 1 .. m - 1 : ~Stops(from, k, l)
             rows == [i \in 1 .. Cardinality(Yields(from, stop)) |-> At(from, Yield(from, stop, i))]
             ends == Ahead(from, stop)
             more == Unfiltered(ends, k - Len(rows))
  <1>1. w = IF Len(rows) = k THEN [source |-> ends, rows |-> rows]
            ELSE [source |-> more.source, rows |-> rows \o more.rows]
    BY DEF Filtered
  <1>2. /\ SourceOK(from) /\ from.offset < N /\ from.group = s.group
        /\ \A r \in Row : Passed(from, r) = Passed(s, r)
    <2>1. CASE s.offset >= N
      BY <2>1, NextEpochIs, EpochEnds, RowsFinite
    <2>2. CASE ~(s.offset >= N)
      BY <2>2, RowsFinite DEF SourceOK
    <2> QED
      BY <2>1, <2>2
  <1> HIDE DEF from
  <1>3. /\ stop \in 1 .. k * N /\ Stops(from, k, stop)
        /\ \A l \in 1 .. stop - 1 : ~Stops(from, k, l)
    <2>1. \E m \in 1 .. k * N : Stops(from, k, m) /\ \A l \in 1 .. m - 1 : ~Stops(from, k, l)
      BY WalksStop
    <2> QED
      BY <2>1
  <1> HIDE DEF stop
  <1>4. stop \in Nat /\ 0 < stop
    <2>1. k * N \in Nat
      BY RowsFinite
    <2> QED
      BY <1>3, <2>1
  <1>5. ASSUME NEW j \in Nat, 0 < j
        PROVE  SourceOK(Ahead(from, j)) /\ Ahead(from, j).group = s.group /\ At(from, j) \in Row
    <2> DEFINE e == (from.offset + j - 1) \div N
    <2> HIDE DEF e
    <2>1. e = (from.offset + j - 1) \div N
      BY DEF e
    <2>2. /\ SourceOK(Ahead(from, j)) /\ Ahead(from, j).group = from.group
          /\ 0 < Ahead(from, j).offset /\ Ahead(from, j).offset <= N
      BY <1>2, <1>5, <2>1, AheadIs
    <2>3. Ahead(from, j).offset \in Row /\ Shuffle(Ahead(from, j).order)
      BY <2>2, RowsFinite, EpochsAreShuffles DEF SourceOK
    <2> QED
      BY <1>2, <2>2, <2>3 DEF At, Shuffle
  <1>6. /\ rows \in Seq(Row) /\ Len(rows) = Cardinality(Yields(from, stop))
        /\ \A r \in Allowed : Count(rows, r) = Cardinality(Visits(from, stop, r))
        /\ \A r \in Row \ Allowed : Count(rows, r) = 0
    <2>1. \A j \in 1 .. stop : At(from, j) \in Row
      BY <1>4, <1>5
    <2> QED
      BY <1>4, <2>1, RowsYielded
  <1> HIDE DEF rows
  <1>7. Len(rows) \in Nat /\ Len(rows) <= k
    BY <1>3, <1>4, <1>6, YieldsGrow, StopsInTime
  <1>8. SourceOK(ends) /\ ends.group = s.group
    BY <1>4, <1>5
  <1>9. \A r \in Row : Passed(ends, r) = Passed(s, r) + Cardinality(Visits(from, stop, r))
    BY <1>2, <1>4, AheadPasses
  <1> HIDE DEF ends
  <1>10. CASE Len(rows) = k
    <2>1. WalkOK(s, w, k)
      BY <1>1, <1>6, <1>8, <1>10 DEF WalkOK
    <2>2. \A r \in Allowed : Accounts(s, w, r)
      BY <1>1, <1>6, <1>9, <1>10 DEF Accounts, Allowed
    <2> QED
      BY <1>1, <1>6, <1>10, <2>1, <2>2
  <1>11. CASE Len(rows) # k
    <2> DEFINE h == k - Len(rows)
    <2>1. h \in Nat /\ Len(rows) + h = k
      BY <1>7
    <2> HIDE DEF h
    <2>2. WalkOK(ends, more, h)
      <3>1. more = Unfiltered(ends, h)
        BY DEF h
      <3> HIDE DEF more
      <3> QED
        BY <1>8, <2>1, <3>1, UnfilteredWalks
    <2> HIDE DEF more
    <2>3. /\ rows \o more.rows \in Seq(Row) /\ Len(rows \o more.rows) = Len(rows) + Len(more.rows)
          /\ Len(more.rows) <= h /\ Len(more.rows) \in Nat
      BY <1>6, <2>2 DEF WalkOK
    <2>4. WalkOK(s, w, k)
      <3>1. Len(rows \o more.rows) <= k
        BY <1>7, <2>1, <2>3
      <3> QED
        BY <1>1, <1>8, <1>11, <2>2, <2>3, <3>1 DEF WalkOK
    <2>5. ~FewBlack
      <3>1. stop >= N /\ \A j \in stop - N + 1 .. stop : At(from, j) \notin Allowed
        BY <1>3, <1>6, <1>11 DEF Stops
      <3> QED
        BY <1>2, <1>4, <3>1, NeverInVain DEF InVain, FewBlack
    <2> QED
      BY <2>4, <2>5
  <1> QED
    BY <1>10, <1>11

\* What any way of drawing k groups does, adaptive sampling included.
LEMMA WalksFit ==
  ASSUME args \in Configurations, NEW s, SourceOK(s), NEW k \in Nat, 0 < k, NEW w \in Walks(s, k)
  PROVE  /\ WalkOK(s, w, k)
         /\ ~args.adaptive /\ FewBlack => /\ \A r \in Allowed : Accounts(s, w, r)
                                          /\ \A r \in Row \ Allowed : Count(w.rows, r) = 0
  <1>1. CASE args.adaptive
    <2> PICK rows \in [1 .. k -> Candidates] : w = [source |-> Selected(s, rows), rows |-> rows]
      BY <1>1 DEF Walks
    <2>1. rows \in [1 .. k -> Row]
      BY DEF Candidates, Allowed
    <2>2. rows \in Seq(Row) /\ Len(rows) = k
      BY <2>1, FunctionsAreSequences
    <2>3. SourceOK(Selected(s, rows)) /\ Selected(s, rows).group = s.group
      BY DEF SourceOK, SourceFields, Selected
    <2> QED
      BY <1>1, <2>2, <2>3 DEF WalkOK
  <1>2. CASE ~args.adaptive /\ args.blacklist = {}
    <2>1. w = Unfiltered(s, k)
      BY <1>2 DEF Walks
    <2> QED
      BY <1>2, <2>1, UnfilteredWalks DEF Allowed
  <1>3. CASE ~args.adaptive /\ args.blacklist # {}
    <2>1. w = Filtered(s, k)
      BY <1>3 DEF Walks
    <2> QED
      BY <2>1, FilteredWalks
  <1> QED
    BY <1>1, <1>2, <1>3

-----------------------------------------------------------------------------
(* The line of training and the position it has in the dataset.                *)

LineOK(l) ==
  /\ DOMAIN l = {"drawn", "trained", "torn"} /\ l.torn \in BOOLEAN
  /\ l.trained \subseteq Nat /\ l.drawn \in [Row -> Nat]

FileOK(f) == f.offset \in Nat /\ f.epoch \in Nat /\ f.group \in Nat

\* What the model of line l was trained with is what a source, or a file, with
\* this position has given.
LineFits(l, f) ==
  l.torn # TRUE =>
    /\ \A id \in l.trained : id <= f.group
    /\ ~args.adaptive /\ FewBlack =>
         \A r \in Row : l.drawn[r] = IF r \in Allowed THEN f.epoch + Met(Order(f.epoch), 0, f.offset, r)
                                     ELSE 0

DataTypeOK ==
  /\ args \in Configurations
  /\ pc \in Working \cup {"load", "done"} /\ (pc \in Working => rid \in Iter)
  /\ SourceOK(source) /\ LineOK(line)
  /\ DOMAIN ckpt = Iter /\ DOMAIN paired = Iter
  /\ \A i \in Iter : LineOK(ckpt[i]) /\ paired[i] \in BOOLEAN
  /\ iters \subseteq Iter /\ saving \in Iter \cup {-1}
  /\ \A i \in DOMAIN disk : i \in Iter /\ FileOK(disk[i])
  /\ IsFiniteSet(held) /\ IsFiniteSet(buffer) /\ \A g \in held \cup buffer : g.id \in Nat

\* A checkpoint with its data file is a line that fits the file.
CheckpointsFit ==
  /\ \A i \in Iter : paired[i] = TRUE => i \in DOMAIN disk /\ LineFits(ckpt[i], disk[i])
  /\ pc = "data" /\ line.torn # TRUE => ckpt[rid] = line

\* A group is in one place, and was not trained.
GroupsFit ==
  line.torn # TRUE =>
    /\ \A g \in held \cup buffer : g.id \notin line.trained /\ g.id <= source.group
    /\ \A g, h \in held \cup buffer : g.id = h.id => g = h
    /\ held \cap buffer = {}

DataInv == DataTypeOK /\ LineFits(line, source) /\ CheckpointsFit /\ GroupsFit

LEMMA DataInvHolds ==
  DataInv => DrawsExact
  <1> SUFFICES ASSUME DataInv PROVE DrawsExact
    OBVIOUS
  <1>0. line.torn \in BOOLEAN
    BY DEF DataInv, DataTypeOK, LineOK
  <1>1. OneGroupPerId
    BY <1>0 DEF OneGroupPerId, DataInv, GroupsFit
  <1>2. EvenDraws
    <2> SUFFICES ASSUME ~args.adaptive, ~line.torn, 2 * Cardinality(args.blacklist) < N
                 PROVE  /\ \A r, s \in Allowed : line.drawn[r] <= line.drawn[s] + 1
                        /\ \A r \in args.blacklist : line.drawn[r] = 0
      BY DEF EvenDraws
    <2>1. \A r \in Row : line.drawn[r] =
            IF r \in Allowed THEN source.epoch + Met(Order(source.epoch), 0, source.offset, r) ELSE 0
      BY <1>0 DEF DataInv, LineFits, FewBlack
    <2>2. args.blacklist \subseteq Row /\ source.epoch \in Nat
      BY DataAssumption DEF DataInv, DataTypeOK, SourceOK
    <2>3. ASSUME NEW r \in Allowed, NEW s \in Allowed PROVE line.drawn[r] <= line.drawn[s] + 1
      <3>1. PICK a \in {0, 1} : a = Met(Order(source.epoch), 0, source.offset, r)
        BY DEF Met
      <3>2. PICK b \in {0, 1} : b = Met(Order(source.epoch), 0, source.offset, s)
        BY DEF Met
      <3>3. line.drawn[r] = source.epoch + a /\ line.drawn[s] = source.epoch + b
        BY <2>1, <3>1, <3>2 DEF Allowed
      <3> QED
        BY <2>2, <3>3
    <2>4. ASSUME NEW r \in args.blacklist PROVE line.drawn[r] = 0
      BY <2>1, <2>2, <2>4 DEF Allowed
    <2> QED
      BY <2>3, <2>4
  <1> QED
    BY <1>1, <1>2 DEF DrawsExact

\* The command line is the same after a restart.
LEMMA ArgsFixed ==
  ASSUME args' = args
  PROVE  /\ \A e : Order(e)' = Order(e)
         /\ \A l, f : LineFits(l, f) => LineFits(l, f)'
         /\ \A s : SourceOK(s) => SourceOK(s)'
  <1>1. \A e : Order(e)' = Order(e)
    BY DEF Order
  <1> QED
    BY <1>1 DEF LineFits, SourceOK, FewBlack, Allowed

LEMMA FreshFits ==
  ASSUME args \in Configurations
  PROVE  SourceOK(FreshSource) /\ LineOK(Line0) /\ LineFits(Line0, FreshSource)
  <1>1. SourceOK(FreshSource) /\ LineOK(Line0) /\ Line0.trained = {}
    BY DEF SourceOK, SourceFields, FreshSource, LineOK, Line0
  <1>2. \A f : \A r \in Row : Met(f, 0, 0, r) = 0
    BY RowsFinite DEF Met
  <1>3. \A r \in Row : Line0.drawn[r] = 0
    BY DEF Line0
  <1>4. FreshSource.epoch = 0 /\ FreshSource.offset = 0
    BY DEF FreshSource
  <1>5. ASSUME NEW r \in Row
        PROVE  FreshSource.epoch + Met(Order(FreshSource.epoch), 0, FreshSource.offset, r) = 0
    BY <1>2, <1>4
  <1>6. LineFits(Line0, FreshSource)
    BY <1>1, <1>3, <1>5 DEF LineFits
  <1> QED
    BY <1>1, <1>6

LEMMA DataStarts ==
  DataInit => DataInv
  <1> SUFFICES ASSUME DataInit PROVE DataInv
    OBVIOUS
  <1>1. SourceOK(FreshSource) /\ LineOK(Line0) /\ LineFits(Line0, FreshSource)
    BY FreshFits DEF DataInit
  <1>2. DataTypeOK
    <2>1. pc \in Working \cup {"load", "done"} /\ ~(pc \in Working)
      BY DEF DataInit, Working
    <2>2. SourceOK(source) /\ LineOK(line) /\ args \in Configurations
      BY <1>1 DEF DataInit
    <2>3. /\ DOMAIN ckpt = Iter /\ DOMAIN paired = Iter
          /\ \A i \in Iter : LineOK(ckpt[i]) /\ paired[i] \in BOOLEAN
      BY <1>1 DEF DataInit
    <2>4. iters = {} /\ saving = -1 /\ DOMAIN disk = {} /\ held = {} /\ buffer = {}
      BY DEF DataInit
    <2> QED
      BY <2>1, <2>2, <2>3, <2>4, FS_EmptySet DEF DataTypeOK
  <1>3. CheckpointsFit /\ GroupsFit
    BY DEF DataInit, CheckpointsFit, GroupsFit
  <1> QED
    BY <1>1, <1>2, <1>3 DEF DataInv, DataInit

\* A source that is loaded from a file has its position.
LEMMA LoadedIs ==
  ASSUME DataTypeOK, NEW i \in DOMAIN disk
  PROVE  /\ SourceOK(Loaded(i)) /\ Loaded(i).group = disk[i].group
         /\ Loaded(i).epoch = disk[i].epoch /\ Loaded(i).offset = disk[i].offset
  BY DEF DataTypeOK, FileOK, SourceOK, SourceFields, Loaded, FreshSource

-----------------------------------------------------------------------------
(* The steps of the job.                                                       *)

LEMMA CheckpointsStay ==
  ASSUME CheckpointsFit, UNCHANGED <<args, ckpt, disk, paired>>, pc' # "data"
  PROVE  CheckpointsFit'
  <1>1. ASSUME NEW i \in Iter, paired'[i] = TRUE PROVE i \in DOMAIN disk' /\ LineFits(ckpt[i], disk[i])'
    <2>1. i \in DOMAIN disk /\ LineFits(ckpt[i], disk[i])
      BY <1>1 DEF CheckpointsFit
    <2> QED
      BY <2>1 DEF LineFits, Order, Allowed, FewBlack
  <1> QED
    BY <1>1 DEF CheckpointsFit

\* The groups of a walk have the numbers that follow.
LEMMA GroupsAreNumbered ==
  ASSUME NEW w, w.rows \in Seq(Row), w.source.group \in Nat
  PROVE  /\ IsFiniteSet(Groups(w))
         /\ \A g \in Groups(w) : /\ g.id \in Nat /\ w.source.group < g.id
                                 /\ g.id <= w.source.group + Len(w.rows)
         /\ \A g, h \in Groups(w) : g.id = h.id => g = h
  <1> DEFINE n == Len(w.rows)
             f == [i \in 1 .. n |-> [id |-> w.source.group + i, row |-> w.rows[i]]]
  <1>1. n \in Nat /\ DOMAIN w.rows = 1 .. n
    OBVIOUS
  <1>2. Groups(w) = {f[i] : i \in 1 .. n}
    BY <1>1 DEF Groups
  <1>3. \A i \in 1 .. n : f[i].id = w.source.group + i
    OBVIOUS
  <1> HIDE DEF f, n
  <1>4. IsFiniteSet(Groups(w))
    <2>1. f \in Surjection(1 .. n, Groups(w))
      <3>1. f \in [1 .. n -> Groups(w)]
        BY <1>2 DEF f
      <3> QED
        BY <1>2, <3>1 DEF Surjection
    <2>2. IsFiniteSet(1 .. n)
      <3>1. 1 .. n \in SUBSET (1 .. n)
        OBVIOUS
      <3> QED
        BY <1>1, <3>1, PartsOfRange
    <2> QED
      BY <2>1, <2>2, FS_Surjection
  <1>5. ASSUME NEW g \in Groups(w) PROVE \E i \in 1 .. n : g = f[i] /\ g.id = w.source.group + i
    BY <1>2, <1>3
  <1>6. \A g \in Groups(w) : /\ g.id \in Nat /\ w.source.group < g.id
                             /\ g.id <= w.source.group + n
    BY <1>1, <1>5
  <1>7. \A g, h \in Groups(w) : g.id = h.id => g = h
    BY <1>1, <1>5
  <1> QED
    BY <1>4, <1>6, <1>7 DEF n

\* Drawing without a walk, when the buffer has enough, or with one.
DrawOK(w) ==
  /\ SourceOK(w.source) /\ w.source.group = source.group /\ w.rows \in Seq(Row)
  /\ ~args.adaptive /\ FewBlack =>
       \A r \in Row : IF r \in Allowed
                      THEN Passed(w.source, r) = Passed(source, r) + Count(w.rows, r)
                      ELSE Count(w.rows, r) = 0

LEMMA DrawsFit ==
  ASSUME DataTypeOK, NEW B \in SUBSET buffer,
         Cardinality(B) = Smaller(Cardinality(buffer), args.over),
         NEW w \in IF Cardinality(B) = args.over THEN {[source |-> source, rows |-> <<>>]}
                   ELSE Walks(source, args.over - Cardinality(B))
  PROVE  DrawOK(w)
  <1>1. args \in Configurations /\ SourceOK(source) /\ IsFiniteSet(buffer)
    BY DEF DataTypeOK
  <1>2. CASE Cardinality(B) = args.over
    <2>1. w = [source |-> source, rows |-> <<>>]
      BY <1>2
    <2>2. \A r : Count(<<>>, r) = 0
      BY FS_EmptySet DEF Count
    <2>3. \A r \in Row : Passed(source, r) \in Nat
      BY <1>1 DEF Passed, SourceOK, Met
    <2> QED
      BY <1>1, <2>1, <2>2, <2>3 DEF DrawOK
  <1>3. CASE Cardinality(B) # args.over
    <2> DEFINE k == args.over - Cardinality(B)
    <2>1. args.over \in Nat /\ Cardinality(buffer) \in Nat
      BY <1>1, DataAssumption, FS_CardinalityType
    <2>2. k \in Nat /\ 0 < k
      BY <1>3, <2>1 DEF Smaller
    <2>3. w \in Walks(source, k)
      BY <1>3
    <2> HIDE DEF k
    <2>4. /\ WalkOK(source, w, k)
          /\ ~args.adaptive /\ FewBlack => /\ \A r \in Allowed : Accounts(source, w, r)
                                           /\ \A r \in Row \ Allowed : Count(w.rows, r) = 0
      BY <1>1, <2>2, <2>3, WalksFit
    <2> QED
      BY <2>4 DEF DrawOK, WalkOK, Accounts
  <1> QED
    BY <1>2, <1>3

LEMMA DrawKeeps ==
  ASSUME DataInv, Draw
  PROVE  DataInv'
  <1>0. DataTypeOK /\ LineFits(line, source) /\ CheckpointsFit /\ GroupsFit
    BY DEF DataInv
  <1> PICK B \in SUBSET buffer :
        /\ Cardinality(B) = Smaller(Cardinality(buffer), args.over)
        /\ buffer' = buffer \ B
        /\ \E w \in IF Cardinality(B) = args.over THEN {[source |-> source, rows |-> <<>>]}
                    ELSE Walks(source, args.over - Cardinality(B)) :
             /\ held' = held \cup B \cup Groups(w)
             /\ source' = Numbered(w)
             /\ line' = [line EXCEPT !.drawn = [r \in Row |-> @[r] + Count(w.rows, r)]]
    BY DEF Draw
  <1> PICK w \in IF Cardinality(B) = args.over THEN {[source |-> source, rows |-> <<>>]}
                 ELSE Walks(source, args.over - Cardinality(B)) :
        /\ held' = held \cup B \cup Groups(w)
        /\ source' = Numbered(w)
        /\ line' = [line EXCEPT !.drawn = [r \in Row |-> line.drawn[r] + Count(w.rows, r)]]
    OBVIOUS
  <1>1. DrawOK(w)
    BY <1>0, DrawsFit
  <1>2. UNCHANGED <<args, pc, rid, disk, paired, iters, saving, ckpt>>
    BY DEF Draw
  <1> DEFINE n == Len(w.rows)
             t == Numbered(w)
             s == w.source
             l == [line EXCEPT !.drawn = [r \in Row |-> line.drawn[r] + Count(w.rows, r)]]
             G == Groups(w)
  <1>3. /\ SourceOK(s) /\ w.rows \in Seq(Row) /\ n \in Nat /\ s.group = source.group /\ s.group \in Nat
        /\ source.group \in Nat
    BY <1>1 DEF DrawOK, SourceOK
  <1>4. /\ SourceOK(t) /\ t.group = source.group + n /\ t.offset = s.offset /\ t.epoch = s.epoch
        /\ t.order = s.order
    BY <1>3 DEF Numbered, SourceOK, SourceFields
  <1>5. /\ IsFiniteSet(G) /\ \A g, h \in G : g.id = h.id => g = h
        /\ \A g \in G : g.id \in Nat /\ source.group < g.id /\ g.id <= source.group + n
    BY <1>3, GroupsAreNumbered
  <1>6. /\ LineOK(l) /\ l.torn = line.torn /\ l.trained = line.trained
        /\ \A r \in Row : l.drawn[r] = line.drawn[r] + Count(w.rows, r)
    <2>1. LineOK(line)
      BY <1>0 DEF DataTypeOK
    <2>2. \A r \in Row : Count(w.rows, r) \in Nat
      BY <1>3, CountsAdd
    <2> QED
      BY <2>1, <2>2 DEF LineOK
  <1> HIDE DEF t, s, l, G, n
  <1>7. source' = t /\ line' = l /\ held' = held \cup B \cup G /\ buffer' = buffer \ B
    BY DEF t, l, G
  <1>8. DataTypeOK'
    <2>1. SourceOK(source)' /\ LineOK(line)'
      BY <1>2, <1>4, <1>6, <1>7, ArgsFixed DEF SourceOK, LineOK
    <2>2. IsFiniteSet(held') /\ IsFiniteSet(buffer')
      <3>1. IsFiniteSet(held) /\ IsFiniteSet(buffer)
        BY <1>0 DEF DataTypeOK
      <3>2. IsFiniteSet(B) /\ IsFiniteSet(buffer \ B)
        BY <3>1, FS_Subset
      <3>3. IsFiniteSet(held \cup B)
        BY <3>1, <3>2, FS_Union
      <3>4. IsFiniteSet(held \cup B \cup G)
        BY <1>5, <3>3, FS_Union
      <3> QED
        BY <1>7, <3>2, <3>4
    <2>3. \A g \in held' \cup buffer' : g.id \in Nat
      BY <1>0, <1>5, <1>7 DEF DataTypeOK
    <2>4. /\ pc' \in Working \cup {"load", "done"} /\ (pc' \in Working => rid' \in Iter)
          /\ args' \in Configurations /\ iters' \subseteq Iter /\ saving' \in Iter \cup {-1}
          /\ \A i \in DOMAIN disk' : i \in Iter /\ FileOK(disk'[i])
          /\ DOMAIN ckpt' = Iter /\ DOMAIN paired' = Iter
          /\ \A i \in Iter : LineOK(ckpt'[i]) /\ paired'[i] \in BOOLEAN
      BY <1>0, <1>2 DEF DataTypeOK
    <2> QED
      BY <2>1, <2>2, <2>3, <2>4 DEF DataTypeOK, LineOK, FileOK
  <1>9. LineFits(l, t)
    <2> SUFFICES ASSUME l.torn # TRUE
                 PROVE  /\ \A id \in l.trained : id <= t.group
                        /\ ~args.adaptive /\ FewBlack =>
                             \A r \in Row : l.drawn[r] = IF r \in Allowed
                               THEN t.epoch + Met(Order(t.epoch), 0, t.offset, r) ELSE 0
      BY DEF LineFits
    <2>1. \A id \in l.trained : id <= t.group
      <3>1. \A id \in line.trained : id \in Nat /\ id <= source.group
        BY <1>0, <1>6 DEF LineFits, DataTypeOK, LineOK
      <3> QED
        BY <1>3, <1>4, <1>6, <3>1
    <2>2. ASSUME ~args.adaptive, FewBlack, NEW r \in Row
          PROVE  l.drawn[r] = IF r \in Allowed
                   THEN t.epoch + Met(Order(t.epoch), 0, t.offset, r) ELSE 0
      <3>1. line.drawn[r] = IF r \in Allowed
              THEN source.epoch + Met(Order(source.epoch), 0, source.offset, r) ELSE 0
        BY <1>0, <1>6, <2>2 DEF LineFits
      <3>2. IF r \in Allowed THEN Passed(s, r) = Passed(source, r) + Count(w.rows, r)
            ELSE Count(w.rows, r) = 0
        BY <1>1, <2>2 DEF DrawOK, s
      <3>3. /\ Passed(source, r) = source.epoch + Met(Order(source.epoch), 0, source.offset, r)
            /\ Passed(s, r) = t.epoch + Met(Order(t.epoch), 0, t.offset, r)
        BY <1>0, <1>3, <1>4 DEF Passed, DataTypeOK, SourceOK
      <3>4. l.drawn[r] = line.drawn[r] + Count(w.rows, r)
        BY <1>6
      <3> QED
        BY <3>1, <3>2, <3>3, <3>4
    <2> QED
      BY <2>1, <2>2
  <1>10. LineFits(line, source)'
    BY <1>2, <1>7, <1>9, ArgsFixed DEF LineFits, FewBlack, Allowed
  <1>11. CheckpointsFit'
    <2>1. pc' # "data"
      BY <1>2 DEF Draw
    <2> QED
      BY <1>0, <1>2, <2>1, CheckpointsStay
  <1>12. GroupsFit'
    <2> SUFFICES ASSUME line.torn # TRUE
                 PROVE  /\ \A g \in held' \cup buffer' : g.id \notin l.trained /\ g.id <= t.group
                        /\ \A g, h \in held' \cup buffer' : g.id = h.id => g = h
                        /\ held' \cap buffer' = {}
      BY <1>6, <1>7 DEF GroupsFit
    <2>1. /\ \A g \in held \cup buffer : g.id \in Nat /\ g.id \notin line.trained /\ g.id <= source.group
          /\ \A g, h \in held \cup buffer : g.id = h.id => g = h
          /\ held \cap buffer = {}
          /\ \A id \in line.trained : id \in Nat /\ id <= source.group
      BY <1>0 DEF GroupsFit, DataTypeOK, LineFits, LineOK
    <2>2. \A g \in held' \cup buffer' : g \in held \cup buffer \/ g \in G
      BY <1>7
    <2>3. \A g \in G : g.id \in Nat /\ source.group < g.id /\ g.id <= t.group
      BY <1>4, <1>5
    <2>4. \A g \in held \cup buffer : g.id <= t.group
      BY <1>3, <1>4, <2>1
    <2>5. \A g \in G : g.id \notin line.trained /\ \A h \in held \cup buffer : g.id # h.id
      BY <1>3, <2>1, <2>3
    <2>6. \A g \in held' \cup buffer' : g.id \notin l.trained /\ g.id <= t.group
      BY <1>6, <2>1, <2>2, <2>3, <2>4, <2>5
    <2>7. \A g, h \in held' \cup buffer' : g.id = h.id => g = h
      BY <1>5, <2>1, <2>2, <2>5
    <2>8. held' \cap buffer' = {}
      BY <1>7, <2>1, <2>5
    <2> QED
      BY <2>6, <2>7, <2>8
  <1> QED
    BY <1>8, <1>10, <1>11, <1>12 DEF DataInv

\* The types of what a step has not changed.
LEMMA TypesStay ==
  ASSUME DataTypeOK, UNCHANGED args,
         pc' \in Working \cup {"load", "done"}, pc' \in Working => rid' \in Iter,
         source' = source \/ SourceOK(source)', line' = line \/ LineOK(line'),
         ckpt' = ckpt \/ (DOMAIN ckpt' = Iter /\ \A i \in Iter : LineOK(ckpt'[i])),
         paired' = paired \/ (DOMAIN paired' = Iter /\ \A i \in Iter : paired'[i] \in BOOLEAN),
         iters' \subseteq Iter, saving' \in Iter \cup {-1},
         disk' = disk \/ (\A i \in DOMAIN disk' : i \in Iter /\ FileOK(disk'[i])),
         IsFiniteSet(held'), IsFiniteSet(buffer'), \A g \in held' \cup buffer' : g.id \in Nat
  PROVE  DataTypeOK'
  <1>1. SourceOK(source)'
    BY ArgsFixed DEF DataTypeOK, SourceOK, Order
  <1>2. LineOK(line)'
    BY DEF DataTypeOK, LineOK
  <1>3. DOMAIN ckpt' = Iter /\ \A i \in Iter : LineOK(ckpt'[i])
    BY DEF DataTypeOK
  <1>4. DOMAIN paired' = Iter /\ \A i \in Iter : paired'[i] \in BOOLEAN
    BY DEF DataTypeOK
  <1>5. \A i \in DOMAIN disk' : i \in Iter /\ FileOK(disk'[i])
    BY DEF DataTypeOK
  <1>6. args' \in Configurations
    BY DEF DataTypeOK
  <1> QED
    BY <1>1, <1>2, <1>3, <1>4, <1>5, <1>6 DEF DataTypeOK, LineOK, FileOK

\* A line that keeps its rows keeps its position.
LEMMA LineStays ==
  ASSUME LineFits(line, source), UNCHANGED <<args, line, source>>
  PROVE  LineFits(line, source)'
  BY DEF LineFits, Order, Allowed, FewBlack

LEMMA DropKeeps ==
  ASSUME DataInv, Drop
  PROVE  DataInv'
  <1>0. DataTypeOK /\ LineFits(line, source) /\ CheckpointsFit /\ GroupsFit
    BY DEF DataInv
  <1>1. PICK g \in held : held' = held \ {g}
    BY DEF Drop
  <1>2. UNCHANGED <<args, pc, rid, source, buffer, disk, paired, iters, saving, line, ckpt>> /\ pc' # "data"
    BY DEF Drop
  <1>3. IsFiniteSet(held') /\ IsFiniteSet(buffer')
    BY <1>0, <1>1, <1>2, FS_RemoveElement DEF DataTypeOK
  <1>4. DataTypeOK'
    <2>1. /\ pc' \in Working \cup {"load", "done"} /\ (pc' \in Working => rid' \in Iter)
          /\ iters' \subseteq Iter /\ saving' \in Iter \cup {-1}
          /\ \A h \in held' \cup buffer' : h.id \in Nat
      BY <1>0, <1>1, <1>2 DEF DataTypeOK
    <2> QED
      BY <1>0, <1>2, <1>3, <2>1, TypesStay
  <1>5. GroupsFit'
    BY <1>0, <1>1, <1>2 DEF GroupsFit
  <1> QED
    BY <1>0, <1>2, <1>4, <1>5, CheckpointsStay, LineStays DEF DataInv

LEMMA TrainKeeps ==
  ASSUME DataInv, TrainRollout
  PROVE  DataInv'
  <1>0. DataTypeOK /\ LineFits(line, source) /\ CheckpointsFit /\ GroupsFit
    BY DEF DataInv
  <1>1. PICK B \in SUBSET held :
          /\ line' = [line EXCEPT !.trained = line.trained \cup {g.id : g \in B}]
          /\ \E R \in IF args.partial THEN SUBSET (held \ B) ELSE {{}} : buffer' = buffer \cup R
    BY DEF TrainRollout
  <1>2. PICK R \in SUBSET (held \ B) : buffer' = buffer \cup R
    BY <1>1
  <1>3. /\ UNCHANGED <<args, rid, source, disk, paired, iters, saving, ckpt>>
        /\ held' = {} /\ pc' = "train" /\ pc = "generate"
    BY DEF TrainRollout
  <1> DEFINE l == [line EXCEPT !.trained = line.trained \cup {g.id : g \in B}]
  <1>4. /\ LineOK(l) /\ l.torn = line.torn /\ l.drawn = line.drawn
        /\ l.trained = line.trained \cup {g.id : g \in B}
    BY <1>0 DEF DataTypeOK, LineOK
  <1> HIDE DEF l
  <1>5. line' = l
    BY <1>1 DEF l
  <1>6. IsFiniteSet(held') /\ IsFiniteSet(buffer')
    <2>1. IsFiniteSet(held) /\ IsFiniteSet(buffer) /\ R \in SUBSET held
      BY <1>0 DEF DataTypeOK
    <2>2. IsFiniteSet(R)
      BY <2>1, FS_Subset
    <2>3. IsFiniteSet(buffer \cup R)
      BY <2>1, <2>2, FS_Union
    <2> QED
      BY <1>2, <1>3, <2>3, FS_EmptySet
  <1>7. DataTypeOK'
    <2>1. /\ pc' \in Working \cup {"load", "done"} /\ (pc' \in Working => rid' \in Iter)
          /\ iters' \subseteq Iter /\ saving' \in Iter \cup {-1}
          /\ \A h \in held' \cup buffer' : h.id \in Nat
      BY <1>0, <1>2, <1>3 DEF DataTypeOK, Working
    <2>2. LineOK(line')
      BY <1>4, <1>5
    <2> QED
      BY <1>0, <1>3, <1>6, <2>1, <2>2, TypesStay
  <1>8. LineFits(l, source)
    BY <1>0, <1>4 DEF LineFits, GroupsFit
  <1>9. LineFits(line, source)'
    BY <1>3, <1>5, <1>8 DEF LineFits, Order, Allowed, FewBlack
  <1>10. GroupsFit'
    <2> SUFFICES ASSUME line.torn # TRUE
                 PROVE  /\ \A g \in buffer' : g.id \notin l.trained /\ g.id <= source.group
                        /\ \A g, h \in buffer' : g.id = h.id => g = h
      BY <1>3, <1>4, <1>5 DEF GroupsFit
    <2>1. /\ \A g \in held \cup buffer : g.id \notin line.trained /\ g.id <= source.group
          /\ \A g, h \in held \cup buffer : g.id = h.id => g = h
          /\ held \cap buffer = {}
      BY <1>0 DEF GroupsFit
    <2>2. \A g \in buffer' : g \in held \cup buffer /\ g \notin B
      BY <1>2, <2>1
    <2>3. \A g \in buffer' : \A h \in B : g.id # h.id
      BY <2>1, <2>2
    <2> QED
      BY <1>4, <2>1, <2>2, <2>3
  <1>11. CheckpointsFit'
    BY <1>0, <1>3, CheckpointsStay
  <1> QED
    BY <1>7, <1>9, <1>10, <1>11 DEF DataInv

LEMMA IterIs ==
  /\ NumRollouts \in Nat /\ 0 < NumRollouts /\ 0 \in Iter
  /\ \A i \in Iter : i \in Nat /\ i < NumRollouts /\ (i + 1 # NumRollouts => i + 1 \in Iter)
  BY DataAssumption DEF Iter

LEMMA TrainedKeeps ==
  ASSUME DataInv, Trained
  PROVE  DataInv'
  <1>0. DataTypeOK /\ LineFits(line, source) /\ CheckpointsFit /\ GroupsFit
    BY DEF DataInv
  <1>1. /\ UNCHANGED <<args, source, buffer, held, disk, paired, iters, saving, line, ckpt>>
        /\ pc = "train"
    BY DEF Trained
  <1>2. rid \in Iter
    BY <1>0, <1>1 DEF DataTypeOK, Working
  <1>3. /\ pc' \in Working \cup {"load", "done"} /\ (pc' \in Working => rid' \in Iter) /\ pc' # "data"
    BY <1>2, IterIs DEF Trained, NextRollout, Working
  <1>4. DataTypeOK'
    BY <1>0, <1>1, <1>3, TypesStay DEF DataTypeOK
  <1>5. GroupsFit'
    BY <1>0, <1>1 DEF GroupsFit
  <1> QED
    BY <1>0, <1>1, <1>3, <1>4, <1>5, CheckpointsStay, LineStays DEF DataInv

LEMMA SaveModelKeeps ==
  ASSUME DataInv, SaveModel
  PROVE  DataInv'
  <1>0. DataTypeOK /\ LineFits(line, source) /\ CheckpointsFit /\ GroupsFit
    BY DEF DataInv
  <1>1. /\ UNCHANGED <<args, rid, source, buffer, held, disk, line>> /\ pc = "model" /\ pc' = "data"
        /\ ckpt' = [ckpt EXCEPT ![rid] = line] /\ paired' = [paired EXCEPT ![rid] = FALSE]
    BY DEF SaveModel
  <1>2. rid \in Iter /\ DOMAIN ckpt = Iter /\ DOMAIN paired = Iter /\ LineOK(line)
    BY <1>0, <1>1 DEF DataTypeOK, Working
  <1>3. iters' \subseteq Iter /\ saving' \in Iter \cup {-1}
    BY <1>0, <1>2 DEF SaveModel, DataTypeOK
  <1>4. DataTypeOK'
    <2>1. DOMAIN ckpt' = Iter /\ \A i \in Iter : LineOK(ckpt'[i])
      BY <1>0, <1>1, <1>2 DEF DataTypeOK
    <2>2. DOMAIN paired' = Iter /\ \A i \in Iter : paired'[i] \in BOOLEAN
      BY <1>0, <1>1, <1>2 DEF DataTypeOK
    <2>3. pc' \in Working \cup {"load", "done"} /\ (pc' \in Working => rid' \in Iter)
      BY <1>1, <1>2 DEF Working
    <2>4. IsFiniteSet(held') /\ IsFiniteSet(buffer') /\ \A g \in held' \cup buffer' : g.id \in Nat
      BY <1>0, <1>1 DEF DataTypeOK
    <2> QED
      BY <1>0, <1>1, <1>3, <2>1, <2>2, <2>3, <2>4, TypesStay
  <1>5. CheckpointsFit'
    <2>1. ASSUME NEW i \in Iter, paired'[i] = TRUE PROVE i \in DOMAIN disk' /\ LineFits(ckpt[i], disk[i])'
      <3>1. i # rid /\ paired[i] = TRUE /\ ckpt'[i] = ckpt[i]
        BY <1>1, <1>2, <2>1
      <3>2. i \in DOMAIN disk /\ LineFits(ckpt[i], disk[i])
        BY <1>0, <3>1 DEF CheckpointsFit
      <3> QED
        BY <1>1, <3>1, <3>2 DEF LineFits, Order, Allowed, FewBlack
    <2>2. ckpt'[rid'] = line'
      BY <1>1, <1>2
    <2> QED
      BY <2>1, <2>2 DEF CheckpointsFit
  <1>6. GroupsFit'
    BY <1>0, <1>1 DEF GroupsFit
  <1> QED
    BY <1>0, <1>1, <1>4, <1>5, <1>6, LineStays DEF DataInv

LEMMA SaveDataKeeps ==
  ASSUME DataInv, SaveData
  PROVE  DataInv'
  <1>0. DataTypeOK /\ LineFits(line, source) /\ CheckpointsFit /\ GroupsFit
    BY DEF DataInv
  <1> DEFINE file == [offset |-> source.offset, epoch |-> source.epoch, group |-> source.group,
                      index |-> source.index, step |-> source.step, selected |-> source.selected]
  <1>1. /\ UNCHANGED <<args, source, buffer, held, iters, saving, line, ckpt>> /\ pc = "data"
        /\ disk' = [i \in DOMAIN disk \cup {rid} |-> IF i = rid THEN file ELSE disk[i]]
        /\ paired' = [paired EXCEPT ![rid] = ~line.torn]
    BY DEF SaveData
  <1>2. /\ rid \in Iter /\ DOMAIN ckpt = Iter /\ DOMAIN paired = Iter /\ LineOK(line) /\ line.torn \in BOOLEAN
        /\ SourceOK(source)
    BY <1>0, <1>1 DEF DataTypeOK, Working, LineOK
  <1>3. pc' \in Working \cup {"load", "done"} /\ (pc' \in Working => rid' \in Iter) /\ pc' # "data"
    BY <1>2, IterIs DEF SaveData, NextRollout, Working
  <1>4. file.offset = source.offset /\ file.epoch = source.epoch /\ file.group = source.group /\ FileOK(file)
    BY <1>2 DEF FileOK, SourceOK
  <1> HIDE DEF file
  <1>5. /\ DOMAIN disk' = DOMAIN disk \cup {rid} /\ disk'[rid] = file
        /\ \A i \in DOMAIN disk : i # rid => disk'[i] = disk[i]
    BY <1>1
  <1>6. DataTypeOK'
    <2>1. \A i \in DOMAIN disk' : i \in Iter /\ FileOK(disk'[i])
      BY <1>0, <1>2, <1>4, <1>5 DEF DataTypeOK
    <2>2. DOMAIN paired' = Iter /\ \A i \in Iter : paired'[i] \in BOOLEAN
      BY <1>0, <1>1, <1>2 DEF DataTypeOK
    <2>3. /\ IsFiniteSet(held') /\ IsFiniteSet(buffer') /\ \A g \in held' \cup buffer' : g.id \in Nat
          /\ iters' \subseteq Iter /\ saving' \in Iter \cup {-1}
      BY <1>0, <1>1 DEF DataTypeOK
    <2> QED
      BY <1>0, <1>1, <1>3, <2>1, <2>2, <2>3, TypesStay
  <1>7. CheckpointsFit'
    <2>1. ASSUME NEW i \in Iter, paired'[i] = TRUE PROVE i \in DOMAIN disk' /\ LineFits(ckpt[i], disk[i])'
      <3>1. CASE i = rid
        <4>1. line.torn # TRUE
          BY <1>1, <1>2, <2>1, <3>1
        <4>2. ckpt[rid] = line
          BY <1>0, <1>1, <4>1 DEF CheckpointsFit
        <4>3. LineFits(line, file)
          BY <1>0, <1>4 DEF LineFits
        <4> QED
          BY <1>1, <1>5, <3>1, <4>2, <4>3 DEF LineFits, Order, Allowed, FewBlack
      <3>2. CASE i # rid
        <4>1. paired[i] = TRUE
          BY <1>1, <1>2, <2>1, <3>2
        <4>2. i \in DOMAIN disk /\ LineFits(ckpt[i], disk[i])
          BY <1>0, <4>1 DEF CheckpointsFit
        <4> QED
          BY <1>1, <1>5, <3>2, <4>2 DEF LineFits, Order, Allowed, FewBlack
      <3> QED
        BY <3>1, <3>2
    <2> QED
      BY <1>3, <2>1 DEF CheckpointsFit
  <1>8. GroupsFit'
    BY <1>0, <1>1 DEF GroupsFit
  <1> QED
    BY <1>0, <1>1, <1>6, <1>7, <1>8, LineStays DEF DataInv

LEMMA ResumeKeeps ==
  ASSUME DataInv, ResumeJob
  PROVE  DataInv'
  <1>0. DataTypeOK /\ LineFits(line, source) /\ CheckpointsFit /\ GroupsFit /\ args \in Configurations
    BY DEF DataInv, DataTypeOK
  <1>1. PICK i \in IF iters = {} THEN {-1} ELSE iters :
          /\ source' = Loaded(i)
          /\ line' = IF i = -1 THEN Line0 ELSE [ckpt[i] EXCEPT !.torn = @ \/ ~paired[i]]
          /\ rid' = i + 1
          /\ pc' = IF i + 1 = NumRollouts THEN "done" ELSE "generate"
    BY DEF ResumeJob
  <1>2. UNCHANGED <<args, disk, paired, iters, saving, ckpt>> /\ buffer' = {} /\ held' = {}
    BY DEF ResumeJob
  <1> DEFINE s == Loaded(i)
             l == IF i = -1 THEN Line0 ELSE [ckpt[i] EXCEPT !.torn = ckpt[i].torn \/ ~paired[i]]
  <1>3. i = -1 \/ i \in Iter
    BY <1>0 DEF DataTypeOK
  <1>4. pc' \in Working \cup {"load", "done"} /\ (pc' \in Working => rid' \in Iter) /\ pc' # "data"
    BY <1>1, <1>3, IterIs DEF Working
  <1>5. -1 \notin Iter
    BY IterIs
  <1>6. SourceOK(s) /\ (i \notin DOMAIN disk => s = FreshSource)
    <2>1. CASE i \in DOMAIN disk
      BY <1>0, <2>1, LoadedIs
    <2>2. CASE i \notin DOMAIN disk
      BY <1>0, <2>2, FreshFits DEF Loaded
    <2> QED
      BY <2>1, <2>2
  <1>7. LineOK(l) /\ LineFits(l, s)
    <2>1. CASE i = -1
      <3>1. i \notin DOMAIN disk
        BY <1>0, <1>5, <2>1 DEF DataTypeOK
      <3> QED
        BY <1>0, <1>6, <2>1, <3>1, FreshFits
    <2>2. CASE i # -1
      <3>1. i \in Iter /\ LineOK(ckpt[i]) /\ paired[i] \in BOOLEAN
        BY <1>0, <1>3, <2>2 DEF DataTypeOK
      <3>2. CASE paired[i] = TRUE /\ ckpt[i].torn = FALSE
        <4>1. (ckpt[i].torn \/ ~paired[i]) = FALSE
          BY <3>2
        <4>2. l = [ckpt[i] EXCEPT !.torn = FALSE]
          BY <2>2, <4>1
        <4>3. LineOK(l) /\ l.drawn = ckpt[i].drawn /\ l.trained = ckpt[i].trained
          BY <3>1, <4>2 DEF LineOK
        <4>4. i \in DOMAIN disk /\ LineFits(ckpt[i], disk[i])
          BY <1>0, <3>1, <3>2 DEF CheckpointsFit
        <4>5. s.group = disk[i].group /\ s.epoch = disk[i].epoch /\ s.offset = disk[i].offset
          BY <1>0, <4>4, LoadedIs
        <4> QED
          BY <3>2, <4>3, <4>4, <4>5 DEF LineFits
      <3>3. CASE ~(paired[i] = TRUE /\ ckpt[i].torn = FALSE)
        <4>1. (ckpt[i].torn \/ ~paired[i]) = TRUE
          BY <3>1, <3>3 DEF LineOK
        <4>2. l = [ckpt[i] EXCEPT !.torn = TRUE]
          BY <2>2, <4>1
        <4>3. LineOK(l) /\ l.torn = TRUE
          BY <3>1, <4>2 DEF LineOK
        <4> QED
          BY <4>3 DEF LineFits
      <3> QED
        BY <3>2, <3>3
    <2> QED
      BY <2>1, <2>2
  <1> HIDE DEF s, l
  <1>8. source' = s /\ line' = l
    BY <1>1 DEF s, l
  <1>9. LineFits(line, source)'
    BY <1>2, <1>7, <1>8 DEF LineFits, Order, Allowed, FewBlack
  <1>10. DataTypeOK'
    <2>1. SourceOK(source)' /\ LineOK(line')
      BY <1>2, <1>6, <1>7, <1>8 DEF SourceOK, Order
    <2>2. IsFiniteSet(held') /\ IsFiniteSet(buffer') /\ \A g \in held' \cup buffer' : g.id \in Nat
      BY <1>2, FS_EmptySet
    <2>3. iters' \subseteq Iter /\ saving' \in Iter \cup {-1}
      BY <1>0, <1>2 DEF DataTypeOK
    <2> QED
      BY <1>0, <1>2, <1>4, <2>1, <2>2, <2>3, TypesStay
  <1>11. GroupsFit'
    BY <1>2 DEF GroupsFit
  <1> QED
    BY <1>0, <1>2, <1>4, <1>9, <1>10, <1>11, CheckpointsStay DEF DataInv

LEMMA CrashKeeps ==
  ASSUME DataInv, JobCrashes
  PROVE  DataInv'
  <1>0. DataTypeOK /\ LineFits(line, source) /\ CheckpointsFit /\ GroupsFit
    BY DEF DataInv
  <1>1. UNCHANGED <<args, rid, source, buffer, held, disk, paired, iters, line, ckpt>> /\ pc' = "load" /\ saving' = -1
    BY DEF JobCrashes
  <1>2. pc' \in Working \cup {"load", "done"} /\ (pc' \in Working => rid' \in Iter) /\ pc' # "data"
    BY <1>1 DEF Working
  <1>3. DataTypeOK'
    BY <1>0, <1>1, <1>2, TypesStay DEF DataTypeOK
  <1>4. GroupsFit'
    BY <1>0, <1>1 DEF GroupsFit
  <1> QED
    BY <1>0, <1>1, <1>2, <1>3, <1>4, CheckpointsStay, LineStays DEF DataInv

LEMMA ManagerKeeps ==
  ASSUME DataInv, ManagerRestarts
  PROVE  DataInv'
  <1>0. DataTypeOK /\ LineFits(line, source) /\ CheckpointsFit /\ GroupsFit /\ args \in Configurations
    BY DEF DataInv, DataTypeOK
  <1>1. /\ UNCHANGED <<args, pc, rid, disk, paired, iters, saving, ckpt>>
        /\ source' = FreshSource /\ buffer' = {} /\ held' = {}
        /\ line' = [line EXCEPT !.torn = TRUE]
    BY DEF ManagerRestarts
  <1>2. LineOK(line') /\ line'.torn = TRUE
    BY <1>0, <1>1 DEF DataTypeOK, LineOK
  <1>3. SourceOK(source)'
    BY <1>0, <1>1, FreshFits DEF SourceOK, Order
  <1>4. DataTypeOK'
    <2>1. IsFiniteSet(held') /\ IsFiniteSet(buffer') /\ \A g \in held' \cup buffer' : g.id \in Nat
      BY <1>1, FS_EmptySet
    <2>2. /\ pc' \in Working \cup {"load", "done"} /\ (pc' \in Working => rid' \in Iter)
          /\ iters' \subseteq Iter /\ saving' \in Iter \cup {-1}
      BY <1>0, <1>1 DEF DataTypeOK
    <2> QED
      BY <1>0, <1>1, <1>2, <1>3, <2>1, <2>2, TypesStay
  <1>5. LineFits(line, source)' /\ GroupsFit'
    BY <1>2 DEF LineFits, GroupsFit
  <1>6. CheckpointsFit'
    <2>1. ASSUME NEW i \in Iter, paired'[i] = TRUE PROVE i \in DOMAIN disk' /\ LineFits(ckpt[i], disk[i])'
      <3>1. i \in DOMAIN disk /\ LineFits(ckpt[i], disk[i])
        BY <1>0, <1>1, <2>1 DEF CheckpointsFit
      <3> QED
        BY <1>1, <3>1 DEF LineFits, Order, Allowed, FewBlack
    <2> QED
      BY <1>2, <2>1 DEF CheckpointsFit
  <1> QED
    BY <1>4, <1>5, <1>6 DEF DataInv

LEMMA DataInvariance ==
  DataInv /\ [DataNext]_dataVars => DataInv'
  <1> SUFFICES ASSUME DataInv, [DataNext]_dataVars PROVE DataInv'
    OBVIOUS
  <1>1. CASE UNCHANGED dataVars
    <2>0. DataTypeOK /\ LineFits(line, source) /\ CheckpointsFit /\ GroupsFit
      BY DEF DataInv
    <2>1. UNCHANGED <<args, pc, rid, source, buffer, held, disk, paired, iters, saving, line, ckpt>>
      BY <1>1 DEF dataVars
    <2>2. DataTypeOK'
      BY <2>0, <2>1, TypesStay DEF DataTypeOK
    <2>3. CheckpointsFit'
      BY <2>0, <2>1 DEF CheckpointsFit, LineFits, Order, Allowed, FewBlack
    <2>4. GroupsFit'
      BY <2>0, <2>1 DEF GroupsFit
    <2> QED
      BY <2>0, <2>1, <2>2, <2>3, <2>4, LineStays DEF DataInv
  <1> QED
    BY <1>1, DrawKeeps, DropKeeps, TrainKeeps, TrainedKeeps, SaveModelKeeps, SaveDataKeeps, ResumeKeeps,
       CrashKeeps, ManagerKeeps DEF DataNext, Generate, Save

\* However often a job crashes, comes back from a checkpoint, or has its manager
\* restarted, whatever is drawn, dropped, buffered, filtered by a blacklist or
\* shuffled (get_samples, add_samples, save and load of data_source.py): on an
\* untorn line of training every row that is not on the blacklist was drawn as
\* often as every other, but for the epoch that is not at its end, the others
\* were not drawn, and a group id stands for one group, trained at most once.
THEOREM DrawsAreExact ==
  DataSpec => []DrawsExact
  <1> QED
    BY DataStarts, DataInvariance, DataInvHolds, PTL DEF DataSpec
=============================================================================
