------------------------- MODULE AdapterRequest_proofs -------------------------
(***************************************************************************)
(* The search of a request, for any number of back ends, queries, results  *)
(* and retries in any order, whenever the client leaves: attempts are      *)
(* bounded, every request goes to an endpoint there is, and what ended the *)
(* search is what the model or the handler is told.                        *)
(***************************************************************************)
EXTENDS RequestTranslation_proofs, FiniteSetTheorems

Fields == {"stage", "action", "queries", "query", "backend", "endpoint", "attempt", "page",
           "overdue", "erred", "errors", "groups", "place", "cache", "outcome", "heard"}

Stages == {"off", "ready", "asked", "backoff", "enriching", "ended"}

Verdicts == {"none", "results", "empty", "failure", "cancelled", "page"}

(* A request is under way, or waits to be begun again.                     *)
Requesting(t) == t.stage \in {"ready", "asked", "backoff"}

(* Only a search has queries, endpoints, excerpts and second attempts; a   *)
(* page that is fetched for a search is one of its excerpts'.              *)
Sound(t) ==
  /\ t = [f \in Fields |-> t[f]]
  /\ t.stage \in Stages /\ t.outcome \in Verdicts
  /\ t.stage = "ended" <=> t.outcome # "none"
  /\ t.queries \in Nat /\ t.query \in Nat /\ t.erred \in BOOLEAN /\ t.overdue \in BOOLEAN
  /\ t.errors \subseteq 1 .. t.queries
  /\ t.attempt \in 1 .. 3
  /\ t.stage = "backoff" => t.attempt < 3
  /\ t.stage \in {"backoff", "enriching"} => t.action = "search"
  /\ t.stage = "enriching" => t.page = NoPage /\ t.queries > 0
  /\ Requesting(t) /\ t.page = NoPage =>
       /\ t.action = "search" /\ t.query \in 1 .. t.queries
       /\ t.backend \in DOMAIN Endpoints /\ t.endpoint \in 1 .. Endpoints[t.backend]
  /\ Requesting(t) /\ t.page # NoPage => (t.action = "search" <=> t.queries > 0)
  /\ t.stage # "off" /\ t.action # "search" => t.queries = 0 /\ t.attempt = 1
  /\ t.outcome = "failure" /\ t.queries > 0 => t.groups = <<>> /\ t.errors # {}
  /\ t.outcome = "results" => t.groups # <<>>
  /\ t.outcome = "empty" => t.groups = <<>> /\ t.errors = {}

(* u is how a call goes on from t; it ends in silence only alone.          *)
Follows(t, u) ==
  /\ u.action = t.action /\ u.stage # "off"
  /\ u.outcome = "cancelled" => ~Here

Excused(t) == t.outcome = "cancelled" => ~Here

LEMMA EndpointsFacts ==
  /\ Endpoints \in Seq(Nat \ {0}) /\ 1 \in DOMAIN Endpoints
  /\ DOMAIN Endpoints = 1 .. Len(Endpoints) /\ Len(Endpoints) \in Nat
  /\ \A b \in DOMAIN Endpoints : Endpoints[b] \in Nat /\ Endpoints[b] > 0
BY SearchAssumption

LEMMA NextQuerySound ==
  ASSUME NEW t, Sound(t), Requesting(t), t.page = NoPage
  PROVE  Sound(NextQuery(t)) /\ Follows(t, NextQuery(t))
<1> DEFINE u == NextQuery(t)
<1>1. /\ u.stage = IF t.query < t.queries THEN "ready" ELSE "enriching"
      /\ u.query = t.query + 1 /\ u.backend = 1 /\ u.endpoint = 1 /\ u.attempt = 1
      /\ u.erred = FALSE
      /\ \A f \in Fields \ {"stage", "query", "backend", "endpoint", "attempt", "erred"} : u[f] = t[f]
      /\ u = [f \in Fields |-> u[f]]
  BY DEF NextQuery, Sound, Fields
<1>2. /\ u.action = "search" /\ u.queries = t.queries /\ u.page = NoPage /\ u.overdue = t.overdue
      /\ u.errors = t.errors /\ u.groups = t.groups /\ u.outcome = t.outcome
  BY <1>1 DEF Sound, Requesting, Fields
<1>3. t.outcome = "none" /\ t.queries > 0
  BY DEF Sound, Requesting
<1> HIDE DEF u
<1>4. Sound(u) /\ Follows(t, u)
  <2>1. /\ u.stage \in Stages /\ u.outcome \in Verdicts /\ u.stage # "ended" /\ u.outcome = "none"
        /\ u.queries \in Nat /\ u.query \in Nat /\ u.overdue \in BOOLEAN
        /\ u.errors \subseteq 1 .. u.queries /\ u.attempt \in 1 .. 3 /\ u.stage # "backoff"
        /\ u.queries > 0
    BY <1>1, <1>2, <1>3 DEF Sound, Stages, Verdicts
  <2>4. u.erred \in BOOLEAN
    BY <1>1
  <2>2. Requesting(u) => u.query \in 1 .. u.queries
    BY <1>1, <1>2, <1>3 DEF Sound, Requesting
  <2>3. u.backend \in DOMAIN Endpoints /\ u.endpoint \in 1 .. Endpoints[u.backend]
    BY <1>1, EndpointsFacts
  <2> QED
    BY <1>1, <1>2, <2>1, <2>2, <2>3, <2>4 DEF Sound, Follows
<1> QED
  BY <1>4 DEF u

LEMMA NextEndpointSound ==
  ASSUME NEW t, Sound(t), Requesting(t), t.page = NoPage,
         ~(t.backend = Len(Endpoints) /\ t.endpoint = Endpoints[t.backend])
  PROVE  Sound(NextEndpoint(t)) /\ Follows(t, NextEndpoint(t))
<1> DEFINE u == NextEndpoint(t)
           last == t.endpoint = Endpoints[t.backend]
<1>1. /\ u.stage = "ready" /\ u.attempt = 1
      /\ u.backend = IF last THEN t.backend + 1 ELSE t.backend
      /\ u.endpoint = IF last THEN 1 ELSE t.endpoint + 1
      /\ \A f \in Fields \ {"stage", "backend", "endpoint", "attempt"} : u[f] = t[f]
      /\ u = [f \in Fields |-> u[f]]
  BY DEF NextEndpoint, Sound, Fields
<1>2. /\ u.action = "search" /\ u.queries = t.queries /\ u.query = t.query /\ u.page = NoPage
      /\ u.overdue = t.overdue /\ u.erred = t.erred /\ u.errors = t.errors
      /\ u.groups = t.groups /\ u.outcome = t.outcome
  BY <1>1 DEF Sound, Requesting, Fields
<1>3. u.backend \in DOMAIN Endpoints /\ u.endpoint \in 1 .. Endpoints[u.backend]
  BY <1>1, EndpointsFacts DEF Sound, Requesting
<1>4. t.outcome = "none" /\ t.query \in 1 .. t.queries
  BY DEF Sound, Requesting
<1> HIDE DEF u
<1>5. Sound(u) /\ Follows(t, u)
  <2>1. /\ u.stage \in Stages /\ u.outcome \in Verdicts /\ u.stage = "ready" /\ u.outcome = "none"
        /\ u.queries \in Nat /\ u.query \in 1 .. u.queries /\ u.erred \in BOOLEAN
        /\ u.overdue \in BOOLEAN /\ u.errors \subseteq 1 .. u.queries /\ u.attempt \in 1 .. 3
    BY <1>1, <1>2, <1>4 DEF Sound, Stages, Verdicts
  <2> QED
    BY <1>1, <1>2, <1>3, <2>1 DEF Sound, Follows
<1> QED
  BY <1>5 DEF u

LEMMA QueryFruitlessSound ==
  ASSUME NEW t, Sound(t), Requesting(t), t.page = NoPage
  PROVE  Sound(QueryFruitless(t)) /\ Follows(t, QueryFruitless(t))
<1>1. CASE t.erred /\ Here
  <2> DEFINE u == [t EXCEPT !.errors = @ \union {t.query}]
  <2>1. Sound(u) /\ Requesting(u) /\ u.page = NoPage /\ u.action = t.action
    BY DEF Sound, Requesting, Follows, Fields, Stages, Verdicts
  <2> HIDE DEF u
  <2>2. Sound(NextQuery(u)) /\ Follows(u, NextQuery(u))
    BY <2>1, NextQuerySound
  <2>3. QueryFruitless(t) = NextQuery(u)
    BY <1>1 DEF QueryFruitless, u
  <2> QED
    BY <2>1, <2>2, <2>3 DEF Follows
<1>2. CASE t.erred /\ ~Here
  BY <1>2 DEF QueryFruitless, Ended,
   Sound, Requesting, Follows, Fields, Stages, Verdicts
<1>3. CASE ~t.erred
  <2>1. QueryFruitless(t) = NextQuery(t)
    BY <1>3 DEF QueryFruitless, Sound
  <2> QED
    BY <2>1, NextQuerySound DEF Follows
<1> QED
  BY <1>1, <1>2, <1>3

LEMMA FruitlessSound ==
  ASSUME NEW t, Sound(t), Requesting(t), t.page = NoPage, NEW failed \in BOOLEAN
  PROVE  Sound(Fruitless(t, failed)) /\ Follows(t, Fruitless(t, failed))
<1> DEFINE told == [t EXCEPT !.erred = @ \/ failed]
<1>1. Sound(told) /\ Requesting(told) /\ told.page = NoPage /\ told.action = t.action
      /\ told.backend = t.backend /\ told.endpoint = t.endpoint
  BY DEF Sound, Requesting, Follows, Fields, Stages, Verdicts
<1>2. Fruitless(t, failed) =
        IF t.backend = Len(Endpoints) /\ t.endpoint = Endpoints[t.backend]
          THEN QueryFruitless(told) ELSE NextEndpoint(told)
  BY DEF Fruitless
<1> HIDE DEF told
<1> QED
  BY <1>1, <1>2, QueryFruitlessSound, NextEndpointSound DEF Follows

LEMMA HearSound ==
  ASSUME NEW t, Sound(t), Requesting(t), t.page = NoPage, NEW what
  PROVE  Sound(Hear(t, what)) /\ Requesting(Hear(t, what)) /\ Hear(t, what).page = NoPage
         /\ Hear(t, what).action = t.action
BY DEF Hear,
   Sound, Requesting, Follows, Fields, Stages, Verdicts

LEMMA FoundSound ==
  ASSUME NEW t, Sound(t), Requesting(t), t.page = NoPage, NEW results
  PROVE  Sound(Found(t, results)) /\ Follows(t, Found(t, results))
<1> DEFINE kept == Fresh(t, results)
           group == [query |-> t.query,
                     results |-> [i \in DOMAIN kept |-> [url |-> kept[i], excerpt |-> FALSE]]]
           u == IF kept = <<>> THEN t ELSE [t EXCEPT !.groups = Append(@, group)]
<1>1. Found(t, results) = NextQuery(u)
  BY DEF Found
<1> HIDE DEF kept, group
<1>2. Sound(u) /\ Requesting(u) /\ u.page = NoPage /\ u.action = t.action
  BY DEF Sound, Requesting, Follows, Fields, Stages, Verdicts
<1> HIDE DEF u
<1> QED
  BY <1>1, <1>2, NextQuerySound DEF Follows

LEMMA WithExcerptSound ==
  ASSUME NEW t, Sound(t), t.action = "search", t.queries > 0, t.outcome = "none", NEW got
  PROVE  Sound(WithExcerpt(t, got)) /\ Follows(t, WithExcerpt(t, got))
BY DEF WithExcerpt,
   Sound, Requesting, Follows, Fields, Stages, Verdicts

LEMMA FailedSound ==
  ASSUME NEW t, Sound(t), Requesting(t)
  PROVE  Sound(Failed(t)) /\ Follows(t, Failed(t))
<1>1. CASE t.page = NoPage
  <2> DEFINE u == Hear(t, IF Here THEN "failed" ELSE "lost")
  <2>1. Sound(u) /\ Requesting(u) /\ u.page = NoPage /\ u.action = t.action
    BY <1>1, HearSound
  <2>2. t.queries > 0
    BY <1>1 DEF Sound, Requesting
  <2>3. Failed(t) = Fruitless(u, TRUE)
    BY <1>1, <2>2 DEF Failed
  <2> HIDE DEF u
  <2> QED
    BY <2>1, <2>3, FruitlessSound DEF Follows
<1>2. CASE t.page # NoPage /\ t.action = "search"
  <2>1. Failed(t) = WithExcerpt(t, FALSE)
    BY <1>2 DEF Failed
  <2>2. t.outcome = "none" /\ t.queries > 0
    BY <1>2 DEF Sound, Requesting
  <2> QED
    BY <1>2, <2>1, <2>2, WithExcerptSound
<1>3. CASE t.page # NoPage /\ t.action # "search"
  BY <1>3 DEF Failed, Ended,
   Sound, Requesting, Follows, Fields, Stages, Verdicts
<1> QED
  BY <1>1, <1>2, <1>3

LEMMA BackoffSound ==
  ASSUME NEW t, Sound(t), Requesting(t), ~LastTry(t)
  PROVE  Sound(Backoff(t)) /\ Follows(t, Backoff(t))
<1> DEFINE u == Backoff(t)
<1>1. /\ u.stage = "backoff" /\ u = [f \in Fields |-> u[f]]
      /\ u.action = t.action /\ u.queries = t.queries /\ u.query = t.query /\ u.page = t.page
      /\ u.backend = t.backend /\ u.endpoint = t.endpoint /\ u.attempt = t.attempt
      /\ u.overdue = t.overdue /\ u.erred = t.erred /\ u.errors = t.errors
      /\ u.groups = t.groups /\ u.outcome = t.outcome
  BY DEF Backoff, Sound, Fields
<1>2. t.action = "search" /\ t.attempt \in 1 .. 3 /\ t.attempt < 3 /\ t.outcome = "none"
  BY DEF LastTry, Sound, Requesting
<1> HIDE DEF u
<1>3. Sound(u) /\ Follows(t, u)
  BY <1>1, <1>2 DEF Sound, Requesting, Follows, Stages
<1> QED
  BY <1>3 DEF u

LEMMA RequestFailedSound ==
  ASSUME NEW t, Sound(t), Requesting(t)
  PROVE  Sound(RequestFailed(t)) /\ Follows(t, RequestFailed(t))
BY FailedSound, BackoffSound DEF RequestFailed
-----------------------------------------------------------------------------
(* The steps.                                                              *)

Unstarted ==
  /\ s.page = NoPage /\ s.query = 1 /\ s.backend = 1 /\ s.endpoint = 1 /\ s.attempt = 1
  /\ s.errors = {} /\ s.groups = <<>> /\ s.outcome = "none"

(* What an open_page or find_in_page fetches is asked for once, and no     *)
(* request is late but the one that ends it.                               *)
PageOnce ==
  /\ IsSequence(late)
  /\ s.action # "search" => Len(late) <= IF s.stage = "ended" THEN 1 ELSE 0

SearchInv ==
  /\ client \in {"here", "gone"}
  /\ Sound(s) /\ Excused(s)
  /\ s.stage = "off" => Unstarted /\ s.action = "none"
  /\ PageOnce

(* One that goes on with no new request late.                              *)
LEMMA StepSound ==
  ASSUME SearchInv, s.stage # "ended", Sound(s'), Follows(s, s'), UNCHANGED <<client, late>>
  PROVE  SearchInv' /\ s'.stage # "off"
BY DEF SearchInv, PageOnce, Excused, Follows, Here

LEMMA AskSound ==
  ASSUME SearchInv, Ask
  PROVE  SearchInv' /\ s'.stage # "off"
<1>1. CASE ContextDone
  <2>1. s' = RequestFailed(s) /\ Sound(s') /\ Follows(s, s')
    BY <1>1, RequestFailedSound DEF Ask, SearchInv, Requesting
  <2>2. s.action # "search" => s'.stage = "ended"
    BY <2>1 DEF RequestFailed, LastTry, Failed, Ended, SearchInv, Sound, Ask, Requesting, Fields
  <2>3. IsSequence(late') /\ Len(late) \in Nat /\ Len(late') <= Len(late) + 1
    BY AppendedToAny DEF Ask, SearchInv, PageOnce
  <2>4. s.action # "search" => Len(late) = 0
    BY AppendedToAny DEF Ask, SearchInv, PageOnce, Requesting
  <2>5. PageOnce'
    BY <2>1, <2>2, <2>3, <2>4 DEF PageOnce, Follows
  <2> QED
    BY <2>1, <2>5 DEF SearchInv, Ask, Excused, Follows, Here
<1>2. CASE ~ContextDone
  <2>1. s' = [s EXCEPT !.stage = "asked"] /\ late' = late /\ client' = client
    BY <1>2 DEF Ask, ContextDone
  <2>2. Sound(s') /\ Follows(s, s')
    BY <2>1 DEF Ask, SearchInv, Sound, Requesting, Follows, Fields, Stages
  <2> QED
    BY <2>1, <2>2, StepSound DEF Ask
<1> QED
  BY <1>1, <1>2

LEMMA ResponseSound ==
  ASSUME SearchInv,
         RequestError \/ ResponseToRetry \/ ResponseUseless \/ ResponseEmpty
           \/ ResponseResults \/ ResponsePage
  PROVE  SearchInv' /\ s'.stage # "off"
<1>1. s.stage = "asked" /\ Sound(s) /\ Requesting(s) /\ UNCHANGED <<client, late>>
  BY DEF RequestError, ResponseToRetry, ResponseUseless, ResponseEmpty, ResponseResults,
         ResponsePage, SearchInv, Requesting
<1>2. CASE RequestError
  BY <1>1, <1>2, RequestFailedSound, StepSound DEF RequestError
<1>3. CASE ResponseToRetry
  BY <1>1, <1>3, FailedSound, BackoffSound, StepSound DEF ResponseToRetry
<1>4. CASE ResponseUseless
  BY <1>1, <1>4, FailedSound, StepSound DEF ResponseUseless
<1>5. CASE ResponseEmpty
  <2> DEFINE u == Hear(s, "empty")
  <2>1. Sound(u) /\ Requesting(u) /\ u.page = NoPage /\ u.action = s.action
    BY <1>1, <1>5, HearSound DEF ResponseEmpty
  <2>2. s' = Fruitless(u, FALSE)
    BY <1>5 DEF ResponseEmpty
  <2> HIDE DEF u
  <2>3. Sound(s') /\ Follows(s, s')
    BY <2>1, <2>2, FruitlessSound DEF Follows
  <2> QED
    BY <1>1, <2>3, StepSound
<1>6. CASE ResponseResults
  <2> DEFINE u == Hear(s, "found")
  <2>1. Sound(u) /\ Requesting(u) /\ u.page = NoPage /\ u.action = s.action
    BY <1>1, <1>6, HearSound DEF ResponseResults
  <2>2. PICK results : s' = Found(u, results)
    BY <1>6 DEF ResponseResults
  <2> HIDE DEF u
  <2>3. Sound(s') /\ Follows(s, s')
    BY <2>1, <2>2, FoundSound DEF Follows
  <2> QED
    BY <1>1, <2>3, StepSound
<1>7. CASE ResponsePage
  <2>1. s.page # NoPage /\ s.outcome = "none"
    BY <1>1, <1>7 DEF ResponsePage, Sound
  <2>2. CASE s.action = "search"
    <3>1. \E text \in BOOLEAN : s' = WithExcerpt(s, text)
      BY <1>7, <2>2 DEF ResponsePage
    <3>2. s.queries > 0
      BY <1>1, <2>1, <2>2 DEF Sound
    <3> QED
      BY <1>1, <2>1, <2>2, <3>1, <3>2, WithExcerptSound, StepSound
  <2>3. CASE s.action # "search"
    <3>1. s' = Ended(s, "page")
      BY <1>7, <2>3 DEF ResponsePage
    <3>2. Sound(s') /\ Follows(s, s')
      BY <1>1, <2>1, <2>3, <3>1 DEF Ended, Sound, Follows, Requesting, Fields, Stages, Verdicts
    <3> QED
      BY <1>1, <3>2, StepSound
  <2> QED
    BY <2>2, <2>3
<1> QED
  BY <1>2, <1>3, <1>4, <1>5, <1>6, <1>7

LEMMA EndBackoffSound ==
  ASSUME SearchInv, EndBackoff
  PROVE  SearchInv' /\ s'.stage # "off"
<1>1. /\ s'.stage = "ready" /\ s' = [f \in Fields |-> s'[f]]
      /\ s'.action = s.action /\ s'.queries = s.queries /\ s'.query = s.query /\ s'.page = s.page
      /\ s'.backend = s.backend /\ s'.endpoint = s.endpoint /\ s'.attempt = s.attempt + 1
      /\ s'.overdue = s.overdue /\ s'.erred = s.erred /\ s'.errors = s.errors
      /\ s'.groups = s.groups /\ s'.outcome = s.outcome
  BY DEF EndBackoff, SearchInv, Sound, Fields
<1>2. /\ s.action = "search" /\ s.attempt \in 1 .. 3 /\ s.attempt < 3 /\ s.outcome = "none"
      /\ Sound(s) /\ Requesting(s)
  BY DEF EndBackoff, SearchInv, Sound, Requesting
<1>3. s'.attempt \in 1 .. 3
  BY <1>1, <1>2
<1>4. Sound(s') /\ Follows(s, s')
  BY <1>1, <1>2, <1>3 DEF Sound, Requesting, Follows, Stages
<1> QED
  BY <1>4, StepSound DEF EndBackoff

LEMMA EnrichNextSound ==
  ASSUME SearchInv, EnrichNext
  PROVE  SearchInv' /\ s'.stage # "off"
<1>1. /\ s.stage = "enriching" /\ Sound(s) /\ UNCHANGED <<client, late>>
      /\ s.action = "search" /\ s.queries > 0 /\ s.outcome = "none" /\ s.page = NoPage
  BY DEF EnrichNext, SearchInv, Sound
<1>2. CASE s.place[1] > Len(s.groups)
  <2>1. s' = Ended(s, Conclusion(s)) /\ Conclusion(s) \in {"results", "failure", "empty"}
    BY <1>2 DEF EnrichNext, Conclusion
  <2>2. /\ Conclusion(s) = "failure" => s.groups = <<>> /\ s.errors # {}
        /\ Conclusion(s) = "results" => s.groups # <<>>
        /\ Conclusion(s) = "empty" => s.groups = <<>> /\ s.errors = {}
    BY DEF Conclusion
  <2>3. Sound(s') /\ Follows(s, s')
    BY <1>1, <2>1, <2>2 DEF Ended, Sound, Follows, Requesting, Fields, Stages, Verdicts
  <2> QED
    BY <1>1, <2>3, StepSound
<1>3. CASE ~(s.place[1] > Len(s.groups))
  <2> DEFINE target == Address[GroupResults(s)[s.place[2]].url]
  <2>1. \/ s' = [s EXCEPT !.place = <<@[1] + 1, 1>>]
        \/ s' = [s EXCEPT !.place[2] = @ + 1]
        \/ s' = WithExcerpt(s, s.cache[target])
        \/ target # NoPage /\ s' = [s EXCEPT !.stage = "ready", !.page = target, !.attempt = 1]
    BY <1>3 DEF EnrichNext
  <2> HIDE DEF target
  <2>2. CASE s' = [s EXCEPT !.place = <<@[1] + 1, 1>>] \/ s' = [s EXCEPT !.place[2] = @ + 1]
    <3>1. Sound(s') /\ Follows(s, s')
      BY <1>1, <2>2 DEF Sound, Follows, Requesting, Fields
    <3> QED
      BY <1>1, <3>1, StepSound
  <2>3. CASE s' = WithExcerpt(s, s.cache[target])
    BY <1>1, <2>3, WithExcerptSound, StepSound
  <2>4. CASE target # NoPage /\ s' = [s EXCEPT !.stage = "ready", !.page = target, !.attempt = 1]
    <3>1. Sound(s') /\ Follows(s, s')
      <4>1. /\ s'.stage = "ready" /\ s' = [f \in Fields |-> s'[f]] /\ s'.page = target
            /\ s'.action = "search" /\ s'.queries = s.queries /\ s'.query = s.query
            /\ s'.attempt = 1 /\ s'.overdue = s.overdue /\ s'.erred = s.erred
            /\ s'.errors = s.errors /\ s'.groups = s.groups /\ s'.outcome = "none"
        BY <1>1, <2>4 DEF Sound, Fields
      <4>2. s'.attempt \in 1 .. 3
        BY <4>1
      <4> QED
        BY <1>1, <2>4, <4>1, <4>2 DEF Sound, Follows, Requesting, Stages
    <3> QED
      BY <1>1, <3>1, StepSound
  <2> QED
    BY <2>1, <2>2, <2>3, <2>4
<1> QED
  BY <1>2, <1>3

LEMMA AsideSound ==
  ASSUME SearchInv, PageOverdue \/ ClientLeaves
  PROVE  SearchInv'
<1>1. CASE PageOverdue
  <2>1. Sound(s') /\ Follows(s, s')
    BY <1>1 DEF PageOverdue, SearchInv, Sound, Requesting, Follows, Fields
  <2> QED
    BY <1>1, <2>1, StepSound DEF PageOverdue
<1>2. CASE ClientLeaves
  BY <1>2 DEF ClientLeaves, SearchInv, Unstarted, PageOnce, Excused, Here
<1> QED
  BY <1>1, <1>2

LEMMA StartSound ==
  ASSUME SearchInv, s.stage = "off", NEW call \in SearchCalls, StartSearch(call)
  PROVE  SearchInv' /\ s'.stage # "off"
<1> DEFINE started == [s EXCEPT !.stage = "ready", !.action = call.type, !.queries = call.queries,
                                !.page = call.page]
<1>1. /\ started.stage = "ready" /\ started = [f \in Fields |-> started[f]]
      /\ started.action = call.type /\ started.queries = call.queries /\ started.page = call.page
      /\ started.query = s.query /\ started.backend = s.backend /\ started.endpoint = s.endpoint
      /\ started.attempt = s.attempt /\ started.overdue = s.overdue /\ started.erred = s.erred
      /\ started.errors = s.errors /\ started.groups = s.groups /\ started.outcome = s.outcome
  BY DEF SearchInv, Sound, Fields
<1>2. /\ s' = IF call.queries = 0 /\ call.page = NoPage THEN Ended(started, "failure") ELSE started
      /\ UNCHANGED <<client, late>>
  BY DEF StartSearch
<1> HIDE DEF started
<1>3. /\ call.queries \in Nat
      /\ call.type = "search" => call.page = NoPage
      /\ call.type # "search" => call.queries = 0
  BY CallsAssumption
<1>4. Unstarted /\ Sound(s) /\ s.action = "none" /\ IsSequence(late) /\ Len(late) \in Nat
  BY AppendedToAny DEF SearchInv, PageOnce
<1>5. CASE call.queries = 0 /\ call.page = NoPage
  <2>1. /\ s'.stage = "ended" /\ s'.outcome = "failure" /\ s' = [f \in Fields |-> s'[f]]
        /\ s'.action = call.type /\ s'.queries = 0 /\ s'.query = s.query /\ s'.attempt = s.attempt
        /\ s'.overdue = s.overdue /\ s'.erred = s.erred /\ s'.errors = s.errors
    BY <1>1, <1>2, <1>5 DEF Ended, Fields
  <2>2. Sound(s')
    <3>1. /\ s'.query \in Nat /\ s'.attempt \in 1 .. 3 /\ s'.attempt = 1
          /\ s'.errors \subseteq 1 .. s'.queries
      BY <1>4, <2>1 DEF Unstarted
    <3>2. s'.erred \in BOOLEAN /\ s'.overdue \in BOOLEAN
      BY <1>4, <2>1 DEF Sound
    <3> QED
      BY <2>1, <3>1, <3>2 DEF Sound, Requesting, Stages, Verdicts
  <2> QED
    BY <1>2, <1>4, <2>1, <2>2 DEF SearchInv, PageOnce, Excused
<1>6. CASE ~(call.queries = 0 /\ call.page = NoPage)
  <2>1. s' = started
    BY <1>2, <1>6
  <2>2. Sound(started)
    <3>5. /\ started.query = 1 /\ started.attempt = 1 /\ started.errors = {}
          /\ started.outcome = "none" /\ started.backend = 1 /\ started.endpoint = 1
      BY <1>1, <1>4 DEF Unstarted
    <3>1. /\ started.query = 1 /\ started.attempt \in 1 .. 3 /\ started.attempt = 1
          /\ started.errors \subseteq 1 .. started.queries /\ started.outcome = "none"
          /\ started.backend = 1 /\ started.endpoint = 1
      BY <3>5
    <3>4. started.backend \in DOMAIN Endpoints /\ started.endpoint \in 1 .. Endpoints[started.backend]
      <4>1. Endpoints[1] \in Nat /\ Endpoints[1] > 0 /\ 1 \in DOMAIN Endpoints
        BY EndpointsFacts
      <4> QED
        BY <3>1, <4>1
    <3>2. started.erred \in BOOLEAN /\ started.overdue \in BOOLEAN
      BY <1>1, <1>4 DEF Sound
    <3>3. /\ started.page = NoPage => started.action = "search" /\ started.query \in 1 .. started.queries
          /\ started.page # NoPage => started.action # "search"
          /\ started.action # "search" => started.queries = 0
      BY <1>1, <1>3, <1>6, <3>1
    <3> QED
      BY <1>1, <1>3, <3>1, <3>2, <3>3, <3>4 DEF Sound, Requesting, Stages, Verdicts
  <2> QED
    BY <1>1, <1>2, <1>4, <2>1, <2>2 DEF SearchInv, PageOnce, Excused, Unstarted
<1> QED
  BY <1>5, <1>6
-----------------------------------------------------------------------------
(* The request around the search.                                          *)

(* A search is begun once, by the upstream's answer.                       *)
Started ==
  /\ pc \in {"tools", "input", "posted"} => s.stage = "off"
  /\ pc = "searching" => s.stage # "off"

LEMMA InitSound == Init => SearchInv /\ Started
<1> SUFFICES ASSUME Init PROVE SearchInv /\ Started
  OBVIOUS
<1>1. /\ client = "here" /\ late = <<>> /\ pc = "tools"
      /\ s = [f \in Fields |-> s[f]]
      /\ s.stage = "off" /\ s.action = "none" /\ s.queries = 0 /\ s.query = 1 /\ s.backend = 1
      /\ s.endpoint = 1 /\ s.attempt = 1 /\ s.page = NoPage /\ s.errors = {} /\ s.groups = <<>>
      /\ s.outcome = "none"
  BY DEF Init, InitSearch, Fields
<1>2. s.erred = FALSE /\ s.overdue = FALSE
  BY DEF Init, InitSearch
<1>3. Sound(s)
  <2>1. s.erred \in BOOLEAN /\ s.overdue \in BOOLEAN
    BY <1>2
  <2>2. s.attempt \in 1 .. 3 /\ s.query \in Nat /\ s.queries \in Nat
    BY <1>1
  <2> QED
    BY <1>1, <2>1, <2>2 DEF Sound, Requesting, Stages, Verdicts
<1>4. IsSequence(late) /\ s.stage # "ended" /\ Len(late) <= 0
  <2>1. <<>> \in Seq({})
    OBVIOUS
  <2> QED
    BY <1>1, <2>1 DEF IsSequence
<1>5. PageOnce
  BY <1>4 DEF PageOnce
<1> QED
  BY <1>1, <1>3, <1>5 DEF SearchInv, Started, Unstarted, Excused

LEMMA NextSound == SearchInv /\ Started /\ [Next]_vars => (SearchInv /\ Started)'
<1> SUFFICES ASSUME SearchInv, Started, [Next]_vars PROVE (SearchInv /\ Started)'
  OBVIOUS
<1>1. CASE UNCHANGED search /\ (UNCHANGED pc \/ pc' = "ended"
             \/ (pc \in {"tools", "input"} /\ pc' \in {"input", "posted"}))
  <2>1. UNCHANGED <<client, s, late>>
    BY <1>1 DEF search
  <2>2. SearchInv'
    BY <2>1 DEF SearchInv, Unstarted, PageOnce, Excused, Here
  <2> QED
    BY <1>1, <2>1, <2>2 DEF Started
<1>2. CASE Declare \/ ReadNext \/ Post \/ UpstreamEnds \/ FollowUp \/ Answered \/ UNCHANGED vars
  BY <1>1, <1>2 DEF Declare, ReadNext, Post, UpstreamEnds, FollowUp, Answered, vars
<1>3. CASE UpstreamCalls
  <2>1. PICK i \in DOMAIN sent :
          LET tool == MappingForTool(names, sent[i].chat) IN
          IF tool.kind = "web_search"
            THEN /\ \E call \in SearchCalls : StartSearch(call)
                 /\ pc' = "searching"
            ELSE pc' = "ended" /\ UNCHANGED search
    BY <1>3 DEF UpstreamCalls
  <2>2. CASE pc' = "ended" /\ UNCHANGED search
    BY <1>1, <2>2
  <2>3. CASE pc' = "searching" /\ \E call \in SearchCalls : StartSearch(call)
    <3>1. s.stage = "off"
      BY <1>3 DEF UpstreamCalls, Started
    <3>2. SearchInv' /\ s'.stage # "off"
      BY <2>3, <3>1, StartSound
    <3> QED
      BY <2>3, <3>2 DEF Started
  <2> QED
    BY <2>1, <2>2, <2>3
<1>4. CASE Search
  <2>1. SearchInv' /\ s'.stage # "off"
    BY <1>4, AskSound, ResponseSound, EndBackoffSound, EnrichNextSound DEF Search, Searching
  <2> QED
    BY <1>4, <2>1 DEF Search, Started
<1>5. CASE LateExcerpt \/ ClientGoes
  <2>1. SearchInv'
    BY <1>5, AsideSound DEF LateExcerpt, ClientGoes
  <2>2. s'.stage = s.stage /\ pc' = pc
    BY <1>5 DEF LateExcerpt, ClientGoes, PageOverdue, ClientLeaves, SearchInv, Sound, Fields
  <2> QED
    BY <2>1, <2>2 DEF Started
<1> QED
  BY <1>2, <1>3, <1>4, <1>5 DEF Next
-----------------------------------------------------------------------------
(* The inductive invariant of a request's search: its locals fit together  *)
(* at every await, whatever the endpoints answer and the client does.      *)
THEOREM SearchInvariant == Spec => [](SearchInv /\ Started)
BY InitSound, NextSound, PTL DEF Spec

(* A request is tried at most three times and always goes to an endpoint   *)
(* of a back end there is (doRequestWithRetry, executeSearch).             *)
THEOREM SearchTypeCorrect == Spec => []SearchTypeOK
<1>1. SearchInv => SearchTypeOK
  BY DEF SearchInv, Sound, Stages, Verdicts, Requesting, SearchTypeOK
<1> QED
  BY <1>1, SearchInvariant, PTL

(* What ends a search is what it came to: an error for want of results, an *)
(* empty answer for want of both, and silence only if the client left      *)
(* (executeWebSearch, executeSearch).                                      *)
THEOREM SearchToldAsItWas == Spec => [](OutcomeEarned(s))
<1>1. SearchInv => OutcomeEarned(s)
  BY DEF SearchInv, Sound, Excused, OutcomeEarned
<1> QED
  BY <1>1, SearchInvariant, PTL

(* A page the model asks for is fetched once, and not again once the       *)
(* client has left (fetchPageText).                                          *)
OpenedPageNotRetried == s.action # "search" => Len(late) <= 1 /\ s.attempt = 1

THEOREM PagesFetchedOnce == Spec => []OpenedPageNotRetried
<1>1. SearchInv => OpenedPageNotRetried
  BY DEF SearchInv, Sound, PageOnce, Unstarted, OpenedPageNotRetried
<1> QED
  BY <1>1, SearchInvariant, PTL
-----------------------------------------------------------------------------
(* What the model is told (AnswerHonest).  The fields a piece of the code  *)
(* changes, as far as the answer depends on them.                          *)

LastAsked(t) == t.backend = Len(Endpoints) /\ t.endpoint = Endpoints[t.backend]

AtNextQuery(t, u) ==
  /\ u.stage = IF t.query < t.queries THEN "ready" ELSE "enriching"
  /\ u.query = t.query + 1 /\ u.backend = 1 /\ u.endpoint = 1 /\ u.erred = FALSE
  /\ u.outcome = t.outcome

AtNextEndpoint(t, u) ==
  /\ u.stage = "ready" /\ u.query = t.query /\ u.outcome = t.outcome
  /\ t.endpoint = Endpoints[t.backend] => u.backend = t.backend + 1 /\ u.endpoint = 1
  /\ t.endpoint # Endpoints[t.backend] => u.backend = t.backend /\ u.endpoint = t.endpoint + 1

(* An endpoint was of no use, and this or an earlier one failed.           *)
Turned(t, u, erred) ==
  \/ ~LastAsked(t) /\ AtNextEndpoint(t, u) /\ (u.erred <=> erred) /\ u.errors = t.errors
  \/ LastAsked(t) /\ AtNextQuery(t, u) /\ ~erred /\ u.errors = t.errors
  \/ LastAsked(t) /\ AtNextQuery(t, u) /\ erred /\ Here /\ u.errors = t.errors \union {t.query}
  \/ /\ LastAsked(t) /\ erred /\ ~Here /\ u.stage = "ended" /\ u.outcome = "cancelled"
     /\ u.query = t.query /\ u.errors = t.errors

SameFinds(t, u) ==
  /\ u.groups = t.groups /\ u.place = t.place /\ u.cache = t.cache
  /\ u.action = t.action /\ u.queries = t.queries /\ u.page = t.page

HeardToo(t, u, what) == u.heard = t.heard \union {[from |-> Target(t), what |-> what]}

LEMMA NextQueryFields ==
  ASSUME NEW t, t = [f \in Fields |-> t[f]]
  PROVE  /\ AtNextQuery(t, NextQuery(t)) /\ SameFinds(t, NextQuery(t))
         /\ NextQuery(t).heard = t.heard /\ NextQuery(t).errors = t.errors
         /\ NextQuery(t) = [f \in Fields |-> NextQuery(t)[f]]
BY DEF NextQuery, AtNextQuery, SameFinds, Fields

LEMMA NextEndpointFields ==
  ASSUME NEW t, t = [f \in Fields |-> t[f]]
  PROVE  /\ AtNextEndpoint(t, NextEndpoint(t)) /\ SameFinds(t, NextEndpoint(t))
         /\ NextEndpoint(t).heard = t.heard /\ NextEndpoint(t).errors = t.errors
         /\ NextEndpoint(t).erred = t.erred
BY DEF NextEndpoint, AtNextEndpoint, SameFinds, Fields

LEMMA FruitlessFields ==
  ASSUME NEW t, t = [f \in Fields |-> t[f]], t.erred \in BOOLEAN, NEW what, NEW failed \in BOOLEAN
  PROVE  LET u == Fruitless(Hear(t, what), failed)
         IN  HeardToo(t, u, what) /\ SameFinds(t, u) /\ Turned(t, u, t.erred \/ failed)
<1> DEFINE told == [Hear(t, what) EXCEPT !.erred = @ \/ failed]
           u == Fruitless(Hear(t, what), failed)
<1>1. /\ told = [f \in Fields |-> told[f]] /\ HeardToo(t, told, what) /\ SameFinds(t, told)
      /\ told.stage = t.stage /\ told.query = t.query /\ told.backend = t.backend
      /\ told.endpoint = t.endpoint /\ told.errors = t.errors /\ told.outcome = t.outcome
  BY DEF Hear, HeardToo, SameFinds, Fields
<1>2. told.erred <=> t.erred \/ failed
  BY DEF Hear, Fields
<1>3. u = IF LastAsked(told) THEN QueryFruitless(told) ELSE NextEndpoint(told)
  BY DEF Fruitless, Hear, LastAsked, Fields
<1> HIDE DEF told, u
<1>4. LastAsked(told) <=> LastAsked(t)
  BY <1>1 DEF LastAsked
<1>5. CASE ~LastAsked(told)
  <2>1. u = NextEndpoint(told)
    BY <1>3, <1>5
  <2>2. AtNextEndpoint(t, u) /\ u.errors = t.errors /\ SameFinds(t, u) /\ HeardToo(t, u, what)
    BY <1>1, <2>1, NextEndpointFields DEF AtNextEndpoint, SameFinds, HeardToo
  <2>3. u.erred <=> t.erred \/ failed
    BY <1>1, <1>2, <2>1, NextEndpointFields
  <2> QED
    BY <1>4, <1>5, <2>2, <2>3 DEF Turned, u
<1>6. CASE LastAsked(told) /\ ~told.erred
  <2>1. u = NextQuery(told)
    BY <1>3, <1>6 DEF QueryFruitless
  <2>3. /\ AtNextQuery(told, u) /\ SameFinds(told, u)
        /\ u.heard = told.heard /\ u.errors = told.errors
    BY <1>1, <2>1, NextQueryFields
  <2>2. AtNextQuery(t, u) /\ u.errors = t.errors /\ SameFinds(t, u) /\ HeardToo(t, u, what)
    BY <1>1, <2>3 DEF AtNextQuery, SameFinds, HeardToo
  <2> QED
    BY <1>2, <1>4, <1>6, <2>2 DEF Turned, u
<1>7. CASE LastAsked(told) /\ told.erred /\ Here
  <2> DEFINE v == [told EXCEPT !.errors = @ \union {told.query}]
  <2>1. u = NextQuery(v)
    BY <1>3, <1>7 DEF QueryFruitless
  <2>2. /\ v = [f \in Fields |-> v[f]] /\ HeardToo(t, v, what) /\ SameFinds(t, v)
        /\ v.query = t.query /\ v.errors = t.errors \union {t.query} /\ v.outcome = t.outcome
    BY <1>1 DEF HeardToo, SameFinds, Fields
  <2> HIDE DEF v
  <2>3. /\ AtNextQuery(t, u) /\ u.errors = t.errors \union {t.query}
        /\ SameFinds(t, u) /\ HeardToo(t, u, what)
    <3>1. /\ AtNextQuery(v, u) /\ SameFinds(v, u)
          /\ u.heard = v.heard /\ u.errors = v.errors
      BY <2>1, <2>2, NextQueryFields
    <3> QED
      BY <2>2, <3>1 DEF AtNextQuery, SameFinds, HeardToo
  <2> QED
    BY <1>2, <1>4, <1>7, <2>3 DEF Turned, u
<1>8. CASE LastAsked(told) /\ told.erred /\ ~Here
  <2>1. u = Ended(told, "cancelled")
    BY <1>3, <1>8 DEF QueryFruitless
  <2>2. /\ u.stage = "ended" /\ u.outcome = "cancelled" /\ u.query = t.query /\ u.errors = t.errors
        /\ SameFinds(t, u) /\ HeardToo(t, u, what)
    BY <1>1, <2>1 DEF Ended, SameFinds, HeardToo, Fields
  <2> QED
    BY <1>2, <1>4, <1>8, <2>2 DEF Turned, u
<1> QED
  BY <1>5, <1>6, <1>7, <1>8

(* What was heard.                                                         *)
Seeking(t) == Requesting(t) /\ t.page = NoPage

Enriching(t) ==
  \/ t.stage = "enriching" \/ t.outcome \in {"results", "empty"}
  \/ Requesting(t) /\ t.page # NoPage /\ t.action = "search"

HeardTyped(t) ==
  \A h \in t.heard : /\ h.from.query \in Nat /\ h.from.backend \in Nat /\ h.from.endpoint \in Nat
                     /\ h.what \in {"found", "empty", "failed", "lost"}

(* All that was heard was heard before the request in progress, and of its *)
(* query nothing was found.                                                *)
HeardBefore(t) == t.stage # "ended" => \A h \in t.heard :
  \/ h.from.query < t.query
  \/ h.from.query = t.query /\ Before(h.from, t) /\ h.what # "found"

NoneSkipped(t) == Seeking(t) => \A b \in DOMAIN Endpoints : \A e \in 1 .. Endpoints[b] :
  b < t.backend \/ (b = t.backend /\ e < t.endpoint) =>
    \E h \in HeardFor(t, t.query) : h.from.backend = b /\ h.from.endpoint = e

ErredHeard(t) == Seeking(t) => (t.erred <=> \E h \in HeardFor(t, t.query) : h.what \in {"failed", "lost"})

LostAlone(t) == \A h \in t.heard : h.what = "lost" => ~Here

ErrorOf(t, q) == Exhausted(t, q) /\ "failed" \in WhatHeard(t, q) /\ "lost" \notin WhatHeard(t, q)

Judged(t, q) ==
  "found" \in WhatHeard(t, q) \/ q \in t.errors \/ (Exhausted(t, q) /\ WhatHeard(t, q) = {"empty"})

QueriesJudged(t) ==
  /\ \A q \in t.errors : q < t.query /\ ErrorOf(t, q)
  /\ \A q \in 1 .. t.queries : q < t.query => Judged(t, q)

AllAsked(t) == Enriching(t) => t.queries < t.query

HeardWell(t) ==
  /\ HeardTyped(t) /\ HeardBefore(t) /\ NoneSkipped(t) /\ ErredHeard(t) /\ LostAlone(t)
  /\ QueriesJudged(t) /\ AllAsked(t) /\ FirstFound(t)

(* A step that asks no other endpoint.                                     *)
SameAsked(t, u) ==
  /\ u.heard = t.heard /\ u.errors = t.errors /\ u.query = t.query /\ u.queries = t.queries
  /\ t.stage # "ended" /\ (Seeking(u) => Seeking(t)) /\ (Enriching(u) => Enriching(t))
  /\ u.backend = t.backend /\ u.endpoint = t.endpoint /\ u.erred = t.erred

LEMMA HeardSame ==
  ASSUME NEW t, NEW u, HeardWell(t), SameAsked(t, u)
  PROVE  HeardWell(u)
<1>1. \A q : /\ HeardFor(u, q) = HeardFor(t, q) /\ WhatHeard(u, q) = WhatHeard(t, q)
             /\ Exhausted(u, q) <=> Exhausted(t, q)
  BY DEF SameAsked, HeardFor, WhatHeard, Exhausted
<1>2. \A q : (Judged(u, q) <=> Judged(t, q)) /\ (ErrorOf(u, q) <=> ErrorOf(t, q))
  BY <1>1 DEF SameAsked, Judged, ErrorOf
<1>3. HeardTyped(u) /\ LostAlone(u) /\ FirstFound(u) /\ AllAsked(u)
  BY DEF HeardWell, SameAsked, HeardTyped, LostAlone, FirstFound, AllAsked
<1>4. HeardBefore(u)
  BY DEF HeardWell, SameAsked, HeardBefore, Before
<1>5. NoneSkipped(u) /\ ErredHeard(u)
  BY <1>1 DEF HeardWell, SameAsked, NoneSkipped, ErredHeard
<1>6. QueriesJudged(u)
  BY <1>2 DEF HeardWell, SameAsked, QueriesJudged
<1> QED
  BY <1>3, <1>4, <1>5, <1>6 DEF HeardWell

(* An endpoint's answer is heard: what is known of its query and others.   *)
LEMMA Hearing ==
  ASSUME NEW t, NEW u, NEW what, HeardToo(t, u, what)
  PROVE  /\ \A q : q # t.query =>
              /\ HeardFor(u, q) = HeardFor(t, q) /\ WhatHeard(u, q) = WhatHeard(t, q)
              /\ Exhausted(u, q) <=> Exhausted(t, q)
         /\ WhatHeard(u, t.query) = WhatHeard(t, t.query) \union {what}
         /\ HeardFor(u, t.query) = HeardFor(t, t.query) \union {[from |-> Target(t), what |-> what]}
<1> DEFINE new == [from |-> Target(t), what |-> what]
<1>1. new.from.query = t.query /\ new.what = what /\ u.heard = t.heard \union {new}
  BY DEF HeardToo, Target
<1> HIDE DEF new
<1>2. \A q : q # t.query => HeardFor(u, q) = HeardFor(t, q)
  BY <1>1 DEF HeardFor
<1>3. HeardFor(u, t.query) = HeardFor(t, t.query) \union {new}
  BY <1>1 DEF HeardFor
<1>4. \A q : q # t.query => WhatHeard(u, q) = WhatHeard(t, q)
  BY <1>2 DEF WhatHeard
<1>5. WhatHeard(u, t.query) = WhatHeard(t, t.query) \union {what}
  BY <1>1, <1>3 DEF WhatHeard
<1>6. \A q : q # t.query => (Exhausted(u, q) <=> Exhausted(t, q))
  BY <1>2, <1>4 DEF Exhausted
<1> QED
  BY <1>2, <1>3, <1>4, <1>5, <1>6 DEF new

LEMMA HearingInOrder ==
  ASSUME NEW t, NEW u, NEW what \in {"found", "empty", "failed", "lost"}, HeardToo(t, u, what),
         HeardWell(t), Sound(t), Seeking(t)
  PROVE  HeardTyped(u) /\ FirstFound(u)
<1> DEFINE new == [from |-> Target(t), what |-> what]
<1>1. /\ new.from.query = t.query /\ new.from.backend = t.backend /\ new.from.endpoint = t.endpoint
      /\ new.what = what /\ u.heard = t.heard \union {new}
  BY DEF HeardToo, Target
<1> HIDE DEF new
<1>2. t.query \in Nat /\ t.backend \in Nat /\ t.endpoint \in Nat /\ t.stage # "ended"
  BY EndpointsFacts DEF Sound, Seeking, Requesting
<1>3. HeardTyped(u)
  BY <1>1, <1>2 DEF HeardWell, HeardTyped
<1>4. \A h \in t.heard : h.from.query = t.query => Before(h.from, new.from) /\ h.what # "found"
  BY <1>1, <1>2 DEF HeardWell, HeardBefore, HeardTyped, Before
<1>5. FirstFound(u)
  BY <1>1, <1>4 DEF HeardWell, FirstFound
<1> QED
  BY <1>3, <1>5

(* With the last endpoint, all have been asked.                            *)
LEMMA AllHeard ==
  ASSUME NEW t, NEW u, NEW what \in {"empty", "failed", "lost"}, HeardToo(t, u, what),
         HeardWell(t), Sound(t), Seeking(t), LastAsked(t)
  PROVE  Exhausted(u, t.query)
<1> DEFINE new == [from |-> Target(t), what |-> what]
<1>1. /\ new.from.query = t.query /\ new.from.backend = t.backend /\ new.from.endpoint = t.endpoint
      /\ new.what = what
  BY DEF Target
<1>2. HeardFor(u, t.query) = HeardFor(t, t.query) \union {new}
  BY Hearing
<1>3. WhatHeard(u, t.query) = WhatHeard(t, t.query) \union {what}
  BY Hearing
<1> HIDE DEF new
<1>4. "found" \notin WhatHeard(t, t.query)
  BY DEF HeardWell, HeardBefore, Sound, Seeking, Requesting, WhatHeard, HeardFor
<1>5. ASSUME NEW b \in DOMAIN Endpoints, NEW e \in 1 .. Endpoints[b]
      PROVE  \E h \in HeardFor(u, t.query) : h.from.backend = b /\ h.from.endpoint = e
  <2>1. t.backend \in Nat /\ t.endpoint \in Nat /\ b \in Nat /\ e \in Nat
    BY EndpointsFacts DEF Sound, Seeking, Requesting
  <2>2. b < t.backend \/ (b = t.backend /\ e < t.endpoint) \/ (b = t.backend /\ e = t.endpoint)
    BY <2>1, EndpointsFacts DEF LastAsked
  <2>3. CASE b = t.backend /\ e = t.endpoint
    BY <1>1, <1>2, <2>3
  <2>4. CASE b < t.backend \/ (b = t.backend /\ e < t.endpoint)
    <3>1. \E h \in HeardFor(t, t.query) : h.from.backend = b /\ h.from.endpoint = e
      BY <2>4 DEF HeardWell, NoneSkipped
    <3> QED
      BY <1>2, <3>1
  <2> QED
    BY <2>2, <2>3, <2>4
<1> QED
  BY <1>3, <1>4, <1>5 DEF Exhausted

(* What was judged before is not judged anew.                              *)
LEMMA StillJudged ==
  ASSUME NEW t, NEW u, NEW what, HeardToo(t, u, what), HeardWell(t), t.query \in Nat,
         u.queries = t.queries, t.errors \subseteq u.errors, u.errors \subseteq t.errors \union {t.query}
  PROVE  /\ \A q \in t.errors : q < t.query /\ ErrorOf(u, q)
         /\ \A q \in 1 .. u.queries : q < t.query => Judged(u, q)
<1>1. \A q : q < t.query => q # t.query
  OBVIOUS
<1>2. \A q : q # t.query => /\ WhatHeard(u, q) = WhatHeard(t, q)
                            /\ Exhausted(u, q) <=> Exhausted(t, q)
  BY Hearing
<1>3. \A q : q # t.query => (ErrorOf(u, q) <=> ErrorOf(t, q)) /\ (Judged(t, q) => Judged(u, q))
  BY <1>2 DEF ErrorOf, Judged
<1> QED
  BY <1>1, <1>3 DEF HeardWell, QueriesJudged

(* A query is over: nothing was heard for the next yet.                    *)
LEMMA NextQueryHeard ==
  ASSUME NEW t, NEW u, NEW what \in {"found", "empty", "failed", "lost"}, HeardToo(t, u, what),
         what = "lost" => ~Here,
         HeardWell(t), Sound(t), Seeking(t), AtNextQuery(t, u), u.queries = t.queries, u.page = t.page,
         t.errors \subseteq u.errors, u.errors \subseteq t.errors \union {t.query},
         Judged(u, t.query), t.query \in u.errors => ErrorOf(u, t.query)
  PROVE  HeardWell(u)
<1>1. HeardTyped(u) /\ FirstFound(u)
  BY HearingInOrder
<1>2. t.query \in Nat /\ t.query >= 1 /\ t.stage # "ended" /\ t.outcome = "none" /\ u.outcome = "none"
      /\ t.queries \in Nat
  BY DEF Sound, Seeking, Requesting, AtNextQuery
<1>3. u.query = t.query + 1 /\ u.backend = 1 /\ u.endpoint = 1 /\ u.erred = FALSE /\ u.page = NoPage
      /\ u.queries = t.queries
  BY DEF AtNextQuery, Seeking
<1>4. \A h \in u.heard : h.from.query < u.query
  <2>1. \A h \in t.heard : h.from.query \in Nat /\ (h.from.query < t.query \/ h.from.query = t.query)
    BY <1>2 DEF HeardWell, HeardBefore, HeardTyped
  <2>2. [from |-> Target(t), what |-> what].from.query = t.query
    BY DEF Target
  <2> QED
    BY <1>2, <1>3, <2>1, <2>2 DEF HeardToo
<1>5. HeardBefore(u)
  BY <1>4 DEF HeardBefore
<1>6. NoneSkipped(u)
  <2>1. \A b \in DOMAIN Endpoints : \A e \in 1 .. Endpoints[b] : ~(b < 1) /\ ~(b = 1 /\ e < 1)
    BY EndpointsFacts
  <2> QED
    BY <1>3, <2>1 DEF NoneSkipped
<1>7. ErredHeard(u)
  <2>1. u.query \in Nat /\ \A h \in u.heard : h.from.query \in Nat
    BY <1>1, <1>2, <1>3 DEF HeardTyped
  <2>2. HeardFor(u, u.query) = {}
    BY <1>4, <2>1 DEF HeardFor
  <2> QED
    BY <1>3, <2>2 DEF ErredHeard
<1>8. LostAlone(u)
  BY DEF HeardWell, LostAlone, HeardToo
<1>9. QueriesJudged(u)
  <2>1. /\ \A q \in t.errors : q < t.query /\ ErrorOf(u, q)
        /\ \A q \in 1 .. u.queries : q < t.query => Judged(u, q)
    BY <1>2, <1>3, StillJudged
  <2>2. \A q \in u.errors : (q \in t.errors \/ q = t.query)
    OBVIOUS
  <2>3. \A q \in 1 .. u.queries : q < u.query => q < t.query \/ q = t.query
    BY <1>2, <1>3
  <2>4. t.errors \subseteq 1 .. t.queries
    BY DEF Sound
  <2>5. \A q \in u.errors : q < u.query
    BY <1>2, <1>3, <2>1, <2>2, <2>4
  <2>6. \A q \in u.errors : ErrorOf(u, q)
    BY <2>1, <2>2
  <2>7. \A q \in 1 .. u.queries : q < u.query => Judged(u, q)
    BY <2>1, <2>3
  <2> QED
    BY <2>5, <2>6, <2>7 DEF QueriesJudged
<1>10. AllAsked(u)
  <2>1. Enriching(u) => u.stage = "enriching"
    BY <1>2, <1>3 DEF Enriching
  <2>2. u.stage = "enriching" => ~(t.query < t.queries)
    BY DEF AtNextQuery
  <2>3. ~(t.query < t.queries) => t.queries < t.query + 1
    BY <1>2
  <2> QED
    BY <1>3, <2>1, <2>2, <2>3 DEF AllAsked
<1> QED
  BY <1>1, <1>5, <1>6, <1>7, <1>8, <1>9, <1>10 DEF HeardWell

LEMMA FruitlessHeard ==
  ASSUME NEW t, NEW u, NEW what \in {"empty", "failed", "lost"}, NEW failed \in BOOLEAN,
         failed <=> what # "empty", what = "lost" => ~Here,
         HeardToo(t, u, what), SameFinds(t, u), Turned(t, u, t.erred \/ failed),
         HeardWell(t), Sound(t), Seeking(t)
  PROVE  HeardWell(u)
<1> DEFINE new == [from |-> Target(t), what |-> what]
           bad(h) == h.what \in {"failed", "lost"}
<1>0. /\ new.from.query = t.query /\ new.from.backend = t.backend /\ new.from.endpoint = t.endpoint
      /\ new.what = what /\ u.heard = t.heard \union {new}
  BY DEF Target, HeardToo
<1>1. HeardTyped(u) /\ FirstFound(u)
  BY HearingInOrder
<1>2. /\ t.query \in Nat /\ t.query \in 1 .. t.queries /\ t.stage # "ended" /\ t.outcome = "none"
      /\ t.queries \in Nat /\ t.page = NoPage /\ u.page = NoPage /\ u.queries = t.queries
      /\ t.backend \in DOMAIN Endpoints /\ t.endpoint \in 1 .. Endpoints[t.backend]
      /\ t.backend \in Nat /\ t.endpoint \in Nat
  BY EndpointsFacts DEF Sound, Seeking, Requesting, SameFinds
<1>3. HeardFor(u, t.query) = HeardFor(t, t.query) \union {new}
  BY Hearing
<1>4. WhatHeard(u, t.query) = WhatHeard(t, t.query) \union {what}
  BY Hearing
<1> HIDE DEF new
<1>5. t.erred \/ failed <=> \E h \in HeardFor(u, t.query) : bad(h)
  <2>1. t.erred <=> \E h \in HeardFor(t, t.query) : bad(h)
    BY DEF HeardWell, ErredHeard
  <2>2. failed <=> bad(new)
    BY <1>0
  <2> QED
    BY <1>3, <2>1, <2>2
<1>6. LostAlone(u)
  BY <1>0 DEF HeardWell, LostAlone
<1>7. "found" \notin WhatHeard(u, t.query)
  <2>1. "found" \notin WhatHeard(t, t.query)
    BY <1>2 DEF HeardWell, HeardBefore, WhatHeard, HeardFor
  <2> QED
    BY <1>4, <2>1
<1> HIDE DEF bad
<1>8. CASE ~LastAsked(t) /\ AtNextEndpoint(t, u) /\ (u.erred <=> t.erred \/ failed) /\ u.errors = t.errors
  <2>1. /\ u.query = t.query /\ u.stage = "ready" /\ u.outcome = "none"
        /\ \/ t.endpoint = Endpoints[t.backend] /\ u.backend = t.backend + 1 /\ u.endpoint = 1
           \/ u.backend = t.backend /\ u.endpoint = t.endpoint + 1
    BY <1>2, <1>8 DEF AtNextEndpoint
  <2>2. HeardBefore(u)
    <3>1. Before(new.from, u)
      BY <1>0, <1>2, <2>1 DEF Before
    <3>2. \A h \in t.heard : Before(h.from, t) => Before(h.from, u)
      BY <1>2, <2>1 DEF HeardWell, HeardTyped, Before
    <3> QED
      BY <1>0, <1>2, <2>1, <3>1, <3>2 DEF HeardWell, HeardBefore
  <2>3. NoneSkipped(u)
    <3> SUFFICES ASSUME NEW b \in DOMAIN Endpoints, NEW e \in 1 .. Endpoints[b],
                        b < u.backend \/ (b = u.backend /\ e < u.endpoint)
                 PROVE  \E h \in HeardFor(u, u.query) : h.from.backend = b /\ h.from.endpoint = e
      BY DEF NoneSkipped
    <3>1. b \in Nat /\ e \in Nat /\ e >= 1 /\ e <= Endpoints[b] /\ Endpoints[b] \in Nat
      BY EndpointsFacts
    <3>2. (b < t.backend \/ (b = t.backend /\ e < t.endpoint)) \/ (b = t.backend /\ e = t.endpoint)
      BY <1>2, <2>1, <3>1
    <3>3. CASE b = t.backend /\ e = t.endpoint
      BY <1>0, <1>3, <2>1, <3>3
    <3>4. CASE b < t.backend \/ (b = t.backend /\ e < t.endpoint)
      <4>1. \E h \in HeardFor(t, t.query) : h.from.backend = b /\ h.from.endpoint = e
        BY <3>4 DEF HeardWell, NoneSkipped
      <4> QED
        BY <1>3, <2>1, <4>1
    <3> QED
      BY <3>2, <3>3, <3>4
  <2>4. ErredHeard(u)
    BY <1>5, <1>8, <2>1 DEF ErredHeard, bad
  <2>5. QueriesJudged(u)
    <3>1. /\ \A q \in t.errors : q < t.query /\ ErrorOf(u, q)
          /\ \A q \in 1 .. u.queries : q < t.query => Judged(u, q)
      BY <1>2, <1>8, StillJudged
    <3> QED
      BY <1>8, <2>1, <3>1 DEF QueriesJudged
  <2>6. AllAsked(u)
    BY <1>2, <2>1 DEF AllAsked, Enriching
  <2> QED
    BY <1>1, <1>6, <2>2, <2>3, <2>4, <2>5, <2>6 DEF HeardWell
<1>9. CASE LastAsked(t)
  <2>1. Exhausted(u, t.query)
    BY <1>9, AllHeard
  <2>2. CASE AtNextQuery(t, u) /\ ~(t.erred \/ failed) /\ u.errors = t.errors
    <3>1. WhatHeard(u, t.query) = {"empty"}
      <4>1. \A h \in HeardFor(u, t.query) : h.what = "empty"
        BY <1>1, <1>5, <1>7, <2>2 DEF HeardTyped, HeardFor, WhatHeard, bad
      <4>2. new \in HeardFor(u, t.query)
        BY <1>3
      <4> QED
        BY <4>1, <4>2 DEF WhatHeard
    <3>2. Judged(u, t.query)
      BY <2>1, <3>1 DEF Judged
    <3>3. t.query \notin u.errors
      BY <1>2, <2>2 DEF HeardWell, QueriesJudged
    <3> QED
      BY <1>2, <2>2, <3>2, <3>3, NextQueryHeard
  <2>3. CASE AtNextQuery(t, u) /\ (t.erred \/ failed) /\ Here /\ u.errors = t.errors \union {t.query}
    <3>1. ErrorOf(u, t.query)
      <4>1. PICK h \in HeardFor(u, t.query) : bad(h)
        BY <1>5, <2>3
      <4>2. \A k \in HeardFor(u, t.query) : k.what # "lost"
        BY <1>6, <2>3 DEF LostAlone, HeardFor
      <4>3. "failed" \in WhatHeard(u, t.query) /\ "lost" \notin WhatHeard(u, t.query)
        BY <4>1, <4>2 DEF WhatHeard, bad
      <4> QED
        BY <2>1, <4>3 DEF ErrorOf
    <3>2. Judged(u, t.query)
      BY <2>3 DEF Judged
    <3> QED
      BY <1>2, <2>3, <3>1, <3>2, NextQueryHeard
  <2>4. CASE u.stage = "ended" /\ u.outcome = "cancelled" /\ u.query = t.query /\ u.errors = t.errors
    <3>1. HeardBefore(u) /\ NoneSkipped(u) /\ ErredHeard(u) /\ AllAsked(u)
      BY <2>4 DEF HeardBefore, NoneSkipped, ErredHeard, AllAsked, Seeking, Enriching, Requesting
    <3>2. QueriesJudged(u)
      <4>1. /\ \A q \in t.errors : q < t.query /\ ErrorOf(u, q)
            /\ \A q \in 1 .. u.queries : q < t.query => Judged(u, q)
        BY <1>2, <2>4, StillJudged
      <4> QED
        BY <2>4, <4>1 DEF QueriesJudged
    <3> QED
      BY <1>1, <1>6, <3>1, <3>2 DEF HeardWell
  <2> QED
    BY <1>9, <2>2, <2>3, <2>4 DEF Turned
<1> QED
  BY <1>8, <1>9 DEF Turned

LEMMA FoundHeard ==
  ASSUME NEW t, NEW u, HeardToo(t, u, "found"), AtNextQuery(t, u), u.errors = t.errors,
         u.queries = t.queries, u.page = t.page, HeardWell(t), Sound(t), Seeking(t)
  PROVE  HeardWell(u)
<1>1. "found" \in WhatHeard(u, t.query)
  BY Hearing
<1>2. Judged(u, t.query)
  BY <1>1 DEF Judged
<1>3. t.query \notin u.errors
  BY DEF HeardWell, QueriesJudged, Sound
<1> QED
  BY <1>2, <1>3, NextQueryHeard
-----------------------------------------------------------------------------
(* The results that are told.                                              *)

(* What is kept of an answer, result by result.                            *)
Unknown(t, kept) ==
  /\ kept \in Seq(Allowed)
  /\ \A i \in DOMAIN kept : kept[i] \notin Known(t)
  /\ \A i, j \in DOMAIN kept : kept[i] = kept[j] => i = j

LEMMA FreshUnknown ==
  ASSUME NEW t, NEW results \in Seq(Results)
  PROVE  Unknown(t, Fresh(t, results))
<1> DEFINE n == Len(results)
           next(kept, i) == IF Keeps(t, kept, results[i]) THEN Append(kept, results[i]) ELSE kept
           whole(kept) == [i \in 0 .. n |->
             CASE i = 0 -> <<>>
               [] i > 0 /\ Keeps(t, kept[i - 1], results[i]) -> Append(kept[i - 1], results[i])
               [] OTHER -> kept[i - 1]]
           chosen == CHOOSE kept : kept = whole(kept)
<1>1. n \in Nat /\ Fresh(t, results) = chosen[n]
  BY DEF Fresh
<1> HIDE DEF n
<1>2. \E kept : kept = whole(kept)
  <2> DEFINE step == [i \in 1 .. n |-> [kept \in Seq(Allowed) |-> next(kept, i)]]
  <2>1. ASSUME NEW i \in 1 .. n, NEW kept \in Seq(Allowed) PROVE next(kept, i) \in Seq(Allowed)
    BY AppendProperties DEF Keeps
  <2>2. step \in [1 .. n -> [Seq(Allowed) -> Seq(Allowed)]]
    <3> HIDE DEF next
    <3> QED
      BY <2>1
  <2>3. <<>> \in Seq(Allowed)
    OBVIOUS
  <2> HIDE DEF step
  <2>4. PICK f \in [0 .. n -> Seq(Allowed)] : f[0] = <<>> /\ \A i \in 1 .. n : f[i] = step[i][f[i - 1]]
    <3> DEFINE S == Seq(Allowed)
    <3>1. step \in [1 .. n -> [S -> S]] /\ <<>> \in S /\ n \in Nat
      BY <1>1, <2>2, <2>3
    <3> HIDE DEF S
    <3>2. \E f \in [0 .. n -> S] : Iterates(f, n, <<>>, step)
      BY <3>1, Recursion
    <3> QED
      BY <3>2 DEF S, Iterates
  <2>5. ASSUME NEW i \in 1 .. n PROVE f[i] = next(f[i - 1], i)
    <3>1. f[i - 1] \in Seq(Allowed)
      BY <1>1
    <3> HIDE DEF next
    <3> QED
      BY <2>4, <3>1 DEF step
  <2>6. ASSUME NEW i \in 0 .. n PROVE f[i] = whole(f)[i]
    <3>1. CASE i = 0
      BY <2>4, <3>1
    <3>2. CASE i # 0
      <4>1. i \in 1 .. n /\ i > 0
        BY <1>1, <3>2
      <4>2. f[i] = next(f[i - 1], i)
        BY <2>5, <4>1
      <4> QED
        BY <3>2, <4>1, <4>2
    <3> QED
      BY <3>1, <3>2
  <2>7. f = whole(f)
    <3>1. f = [i \in 0 .. n |-> f[i]] /\ whole(f) = [i \in 0 .. n |-> whole(f)[i]]
      OBVIOUS
    <3> HIDE DEF whole
    <3> QED
      BY <2>6, <3>1
  <2> QED
    BY <2>7
<1>3. chosen = whole(chosen)
  BY <1>2
<1> HIDE DEF chosen
<1>4. chosen[0] = <<>> /\ \A i \in 1 .. n : chosen[i] = next(chosen[i - 1], i)
  <2>1. ASSUME NEW i \in 0 .. n PROVE chosen[i] = whole(chosen)[i]
    <3> HIDE DEF whole
    <3> QED
      BY <1>3
  <2>2. chosen[0] = <<>>
    <3>1. 0 \in 0 .. n /\ whole(chosen)[0] = <<>>
      BY <1>1
    <3> QED
      BY <2>1, <3>1
  <2>3. ASSUME NEW i \in 1 .. n PROVE chosen[i] = next(chosen[i - 1], i)
    <3>1. i \in 0 .. n /\ i > 0 /\ i # 0
      BY <1>1
    <3>2. whole(chosen)[i] = next(chosen[i - 1], i)
      BY <3>1
    <3> HIDE DEF whole, next
    <3> QED
      BY <2>1, <3>1, <3>2
  <2> HIDE DEF next
  <2> QED
    BY <2>2, <2>3
<1> HIDE DEF whole
<1> DEFINE T == {i \in 0 .. n : Unknown(t, chosen[i])}
<1>5. 0 \in T
  <2>1. <<>> \in Seq(Allowed) /\ DOMAIN <<>> = {}
    OBVIOUS
  <2>2. Unknown(t, <<>>)
    BY <2>1 DEF Unknown
  <2>3. Unknown(t, chosen[0])
    BY <1>4, <2>2, Zenon
  <2> QED
    BY <1>1, <2>3
<1>6. \A i \in 0 .. n - 1 : i \in T => i + 1 \in T
  <2> SUFFICES ASSUME NEW i \in 0 .. n - 1, Unknown(t, chosen[i]) PROVE Unknown(t, chosen[i + 1])
    BY <1>1
  <2> DEFINE kept == chosen[i]
             url == results[i + 1]
  <2>1. chosen[i + 1] = next(kept, i + 1)
    <3>1. i + 1 \in 1 .. n /\ (i + 1) - 1 = i
      BY <1>1
    <3> HIDE DEF next
    <3> QED
      BY <1>4, <3>1
  <2> HIDE DEF kept
  <2>2. CASE ~Keeps(t, kept, url)
    BY <2>1, <2>2 DEF kept
  <2>3. CASE Keeps(t, kept, url)
    <3>1. chosen[i + 1] = Append(kept, url)
      BY <2>1, <2>3
    <3>2. kept \in Seq(Allowed) /\ url \in Allowed /\ url \notin Known(t) /\ url \notin ToSet(kept)
      BY <2>3 DEF Keeps, Unknown, kept
    <3> HIDE DEF url
    <3>3. /\ Append(kept, url) \in Seq(Allowed) /\ Len(kept) \in Nat
          /\ DOMAIN kept = 1 .. Len(kept) /\ DOMAIN Append(kept, url) = 1 .. Len(kept) + 1
          /\ Append(kept, url)[Len(kept) + 1] = url
          /\ \A j \in 1 .. Len(kept) : Append(kept, url)[j] = kept[j]
      BY <3>2, Appended
    <3>4. \A j \in DOMAIN kept : kept[j] # url
      BY <3>2 DEF ToSet
    <3>5. \A j \in 1 .. Len(kept) + 1 : j \in 1 .. Len(kept) \/ j = Len(kept) + 1
      BY <3>3
    <3>6. /\ \A j \in DOMAIN kept : kept[j] \notin Known(t)
          /\ \A j, k \in DOMAIN kept : kept[j] = kept[k] => j = k
      BY DEF Unknown, kept
    <3> QED
      BY <3>1, <3>2, <3>3, <3>4, <3>5, <3>6 DEF Unknown
  <2> QED
    BY <2>2, <2>3
<1> HIDE DEF T
<1>7. n \in T
  <2>1. 0 .. n \subseteq T
    BY <1>1, <1>5, <1>6, Induction
  <2> QED
    BY <1>1, <2>1
<1> QED
  BY <1>1, <1>7 DEF T

Flags == BOOLEAN

Hits == [url : Allowed, excerpt : Flags]

Groups == [query : Nat, results : Seq(Hits)]

GroupsTyped(t) ==
  /\ t.groups \in Seq(Groups)
  /\ t.place \in [1 .. 2 -> Nat \ {0}]
  /\ \A page \in DOMAIN t.cache : t.cache[page] \in Flags

InPlace(t) == t.place[1] \in DOMAIN t.groups /\ t.place[2] \in DOMAIN GroupResults(t)

(* A page is fetched for a result that may have an excerpt, the first time *)
(* its address is met.                                                     *)
PageWell(t) == Requesting(t) /\ t.page # NoPage /\ t.action = "search" =>
  /\ InPlace(t) /\ Gained(t) < ExcerptLimit
  /\ t.page = Address[GroupResults(t)[t.place[2]].url] /\ t.page \notin DOMAIN t.cache

GroupsWell(t) == GroupsTyped(t) /\ ToldOnce(t) /\ ExcerptsLimited(t) /\ PageWell(t)

LEMMA ExcerptsFinite ==
  ASSUME NEW results \in Seq(Hits)
  PROVE  IsFiniteSet(WithExcerpts(results)) /\ Cardinality(WithExcerpts(results)) \in Nat
<1>1. DOMAIN results = 1 .. Len(results) /\ Len(results) \in Nat
  OBVIOUS
<1>2. IsFiniteSet(1 .. Len(results))
  BY <1>1, FS_Interval
<1>3. WithExcerpts(results) \subseteq 1 .. Len(results)
  BY <1>1 DEF WithExcerpts
<1>4. IsFiniteSet(WithExcerpts(results))
  BY <1>2, <1>3, FS_Subset
<1> QED
  BY <1>4, FS_CardinalityType

FoundIn(t, u) ==
  \E kept : /\ Unknown(t, kept)
            /\ IF kept = <<>> THEN u.groups = t.groups
               ELSE u.groups = Append(t.groups,
                      [query |-> t.query,
                       results |-> [i \in DOMAIN kept |-> [url |-> kept[i], excerpt |-> FALSE]]])

LEMMA FoundFields ==
  ASSUME NEW t, t = [f \in Fields |-> t[f]], NEW results \in Seq(Results)
  PROVE  LET u == Found(Hear(t, "found"), results)
         IN  /\ HeardToo(t, u, "found") /\ AtNextQuery(t, u) /\ u.errors = t.errors
             /\ u.queries = t.queries /\ u.page = t.page /\ u.action = t.action
             /\ u.place = t.place /\ u.cache = t.cache /\ FoundIn(t, u)
<1> DEFINE w == Hear(t, "found")
           kept == Fresh(w, results)
           group == [query |-> w.query,
                     results |-> [i \in DOMAIN kept |-> [url |-> kept[i], excerpt |-> FALSE]]]
           v == IF kept = <<>> THEN w ELSE [w EXCEPT !.groups = Append(@, group)]
           u == Found(w, results)
<1>1. /\ w = [f \in Fields |-> w[f]] /\ HeardToo(t, w, "found") /\ SameFinds(t, w)
      /\ w.query = t.query /\ w.errors = t.errors /\ w.outcome = t.outcome
  BY DEF Hear, HeardToo, SameFinds, Fields
<1>2. u = NextQuery(v)
  BY DEF Found
<1>3. Unknown(w, kept)
  BY FreshUnknown
<1> HIDE DEF w, kept
<1>10. Known(w) = Known(t)
  <2> DEFINE K(gs) == UNION {{gs[g].results[i].url : i \in DOMAIN gs[g].results} : g \in DOMAIN gs}
  <2>1. Known(w) = K(w.groups) /\ Known(t) = K(t.groups)
    BY DEF Known
  <2>2. w.groups = t.groups
    BY <1>1 DEF SameFinds
  <2> HIDE DEF K
  <2> QED
    BY <2>1, <2>2
<1>4. Unknown(t, kept)
  BY <1>3, <1>10 DEF Unknown
<1>5. /\ v = [f \in Fields |-> v[f]] /\ HeardToo(t, v, "found")
      /\ v.queries = t.queries /\ v.page = t.page /\ v.action = t.action
      /\ v.place = t.place /\ v.cache = t.cache
      /\ v.query = t.query /\ v.errors = t.errors /\ v.outcome = t.outcome
      /\ v.groups = IF kept = <<>> THEN t.groups ELSE Append(t.groups, group)
  <2> HIDE DEF group
  <2>1. CASE kept = <<>>
    BY <1>1, <2>1 DEF HeardToo, SameFinds
  <2>2. CASE kept # <<>>
    BY <1>1, <2>2 DEF HeardToo, SameFinds, Fields
  <2> QED
    BY <2>1, <2>2
<1>6. w.query = t.query
  BY <1>1
<1> HIDE DEF v
<1>7. /\ AtNextQuery(v, u) /\ SameFinds(v, u) /\ u.heard = v.heard /\ u.errors = v.errors
  BY <1>2, <1>5, NextQueryFields
<1> HIDE DEF u
<1>8. FoundIn(t, u)
  BY <1>4, <1>5, <1>6, <1>7 DEF FoundIn, SameFinds
<1>9. /\ HeardToo(t, u, "found") /\ AtNextQuery(t, u) /\ u.errors = t.errors
      /\ u.queries = t.queries /\ u.page = t.page /\ u.action = t.action
      /\ u.place = t.place /\ u.cache = t.cache
  BY <1>5, <1>7 DEF HeardToo, AtNextQuery, SameFinds
<1> QED
  BY <1>8, <1>9 DEF u, w

LEMMA FoundGroups ==
  ASSUME NEW t, NEW u, GroupsWell(t), t.query \in Nat, FoundIn(t, u), u.page = NoPage,
         u.place = t.place, u.cache = t.cache
  PROVE  GroupsWell(u)
<1>1. PICK kept :
        /\ Unknown(t, kept)
        /\ IF kept = <<>> THEN u.groups = t.groups
           ELSE u.groups = Append(t.groups,
                  [query |-> t.query,
                   results |-> [i \in DOMAIN kept |-> [url |-> kept[i], excerpt |-> FALSE]]])
  BY DEF FoundIn
<1>2. PageWell(u)
  BY DEF PageWell
<1>3. CASE kept = <<>>
  BY <1>1, <1>2, <1>3 DEF GroupsWell, GroupsTyped, ToldOnce, ExcerptsLimited
<1>4. CASE kept # <<>>
  <2> DEFINE results == [i \in DOMAIN kept |-> [url |-> kept[i], excerpt |-> FALSE]]
             group == [query |-> t.query, results |-> results]
             n == Len(t.groups)
  <2>1. /\ DOMAIN results = DOMAIN kept
        /\ \A i \in DOMAIN kept : results[i].url = kept[i] /\ results[i].excerpt = FALSE
    OBVIOUS
  <2>2. results \in Seq(Hits)
    <3>1. kept \in Seq(Allowed) /\ DOMAIN kept = 1 .. Len(kept) /\ Len(kept) \in Nat
      BY <1>1 DEF Unknown
    <3>2. \A url \in Allowed, flag \in Flags : [url |-> url, excerpt |-> flag] \in Hits
      BY DEF Hits
    <3>3. \A i \in 1 .. Len(kept) : [url |-> kept[i], excerpt |-> FALSE] \in Hits
      <4>1. \A i \in 1 .. Len(kept) : kept[i] \in Allowed
        BY <3>1
      <4>2. FALSE \in Flags
        BY DEF Flags
      <4> QED
        BY <3>2, <4>1, <4>2, Zenon
    <3>4. results \in [1 .. Len(kept) -> Hits]
      BY <3>1, <3>3
    <3> HIDE DEF results
    <3> QED
      BY <3>1, <3>4, SeqDef
  <2>3. WithExcerpts(results) = {}
    BY <2>1 DEF WithExcerpts
  <2> HIDE DEF results
  <2>4. group \in Groups /\ group.results = results
    BY <2>2 DEF Groups
  <2>5. u.groups = Append(t.groups, group)
    BY <1>1, <1>4 DEF results
  <2> HIDE DEF group
  <2>6. /\ u.groups \in Seq(Groups) /\ n \in Nat
        /\ DOMAIN t.groups = 1 .. n /\ DOMAIN u.groups = 1 .. n + 1
        /\ u.groups[n + 1] = group /\ \A g \in 1 .. n : u.groups[g] = t.groups[g]
    BY <2>4, <2>5, Appended DEF GroupsWell, GroupsTyped
  <2> HIDE DEF n
  <2>7. \A g \in DOMAIN u.groups : g \in DOMAIN t.groups \/ g = n + 1
    BY <2>6
  <2>8. ExcerptsLimited(u)
    <3>1. Cardinality(WithExcerpts(group.results)) <= ExcerptLimit
      <4>1. ExcerptLimit \in Nat
        BY SearchAssumption
      <4>2. Cardinality(WithExcerpts(group.results)) = 0
        BY <2>3, <2>4, FS_EmptySet
      <4> QED
        BY <4>1, <4>2
    <3> QED
      BY <2>6, <2>7, <3>1 DEF GroupsWell, ExcerptsLimited
  <2>9. ToldOnce(u)
    <3>1. ASSUME NEW g \in DOMAIN t.groups, NEW i \in DOMAIN t.groups[g].results,
                 NEW j \in DOMAIN group.results
          PROVE  t.groups[g].results[i].url # group.results[j].url
      <4>1. t.groups[g].results[i].url \in Known(t)
        BY DEF Known
      <4>2. group.results[j].url \notin Known(t)
        BY <1>1, <2>1, <2>4 DEF Unknown
      <4> QED
        BY <4>1, <4>2
    <3>2. \A i, j \in DOMAIN group.results : group.results[i].url = group.results[j].url => i = j
      BY <1>1, <2>1, <2>4 DEF Unknown
    <3>3. /\ \A g \in DOMAIN t.groups : u.groups[g] = t.groups[g]
          /\ u.groups[n + 1] = group
      BY <2>6
    <3> QED
      BY <2>7, <3>1, <3>2, <3>3 DEF GroupsWell, ToldOnce
  <2> QED
    BY <1>2, <2>6, <2>8, <2>9 DEF GroupsWell, GroupsTyped
<1> QED
  BY <1>3, <1>4

(* A result gets its excerpt, or none, and the page is known.              *)
Enriched(t, u) ==
  LET g == t.place[1]
      i == t.place[2]
  IN  /\ u.groups \in Seq(Groups) /\ DOMAIN u.groups = DOMAIN t.groups
      /\ \A h \in DOMAIN t.groups :
           /\ DOMAIN u.groups[h].results = DOMAIN t.groups[h].results
           /\ \A j \in DOMAIN t.groups[h].results :
                u.groups[h].results[j].url = t.groups[h].results[j].url
      /\ \A h \in DOMAIN t.groups : h # g => u.groups[h] = t.groups[h]
      /\ WithExcerpts(u.groups[g].results) \subseteq WithExcerpts(t.groups[g].results) \union {i}
      /\ u.place \in [1 .. 2 -> Nat \ {0}]
      /\ DOMAIN u.cache = DOMAIN t.cache \union {Address[GroupResults(t)[i].url]}
      /\ \A page \in DOMAIN u.cache : u.cache[page] \in Flags
      /\ u.stage = "enriching" /\ u.page = NoPage
      /\ u.heard = t.heard /\ u.errors = t.errors /\ u.query = t.query /\ u.queries = t.queries
      /\ u.backend = t.backend /\ u.endpoint = t.endpoint /\ u.erred = t.erred
      /\ u.action = t.action /\ u.outcome = t.outcome

LEMMA WithExcerptFields ==
  ASSUME NEW t, t = [f \in Fields |-> t[f]], GroupsTyped(t), InPlace(t), NEW got \in Flags
  PROVE  Enriched(t, WithExcerpt(t, got))
<1> DEFINE g == t.place[1]
           i == t.place[2]
           results == t.groups[g].results
           page == Address[results[i].url]
           hit == [results[i] EXCEPT !.excerpt = got]
           resultsNow == [results EXCEPT ![i] = hit]
           group == [t.groups[g] EXCEPT !.results = resultsNow]
           groups == [t.groups EXCEPT ![g] = group]
           place == [t.place EXCEPT ![2] = @ + 1]
           u == WithExcerpt(t, got)
<1>1. /\ u.groups = groups /\ u.cache = Put(t.cache, page, got) /\ u.place = place
      /\ u.stage = "enriching" /\ u.page = NoPage
      /\ u.heard = t.heard /\ u.errors = t.errors /\ u.query = t.query /\ u.queries = t.queries
      /\ u.backend = t.backend /\ u.endpoint = t.endpoint /\ u.erred = t.erred
      /\ u.action = t.action /\ u.outcome = t.outcome
  BY DEF WithExcerpt, GroupResults, Fields
<1> HIDE DEF u
<1>2. g \in DOMAIN t.groups /\ i \in DOMAIN results /\ t.groups[g] \in Groups /\ results \in Seq(Hits)
  <2>1. g \in DOMAIN t.groups /\ i \in DOMAIN results
    BY DEF InPlace, GroupResults
  <2>2. t.groups[g] \in Groups
    BY <2>1, ElementOfSeq DEF GroupsTyped
  <2>3. results \in Seq(Hits)
    BY <2>2 DEF Groups
  <2> QED
    BY <2>1, <2>2, <2>3
<1>3. results[i] \in Hits
  <2> HIDE DEF results, i
  <2> QED
    BY <1>2, ElementOfSeq
<1>4. hit \in Hits /\ hit.url = results[i].url
  BY <1>3 DEF Hits
<1> HIDE DEF hit
<1>5. /\ resultsNow \in Seq(Hits) /\ DOMAIN resultsNow = DOMAIN results
      /\ resultsNow[i] = hit /\ \A j \in DOMAIN results : j # i => resultsNow[j] = results[j]
  <2>1. DOMAIN results = 1 .. Len(results) /\ Len(results) \in Nat
    BY <1>2, LenProperties
  <2> HIDE DEF results
  <2> QED
    BY <1>2, <1>4, <2>1, ExceptSeq
<1> HIDE DEF resultsNow
<1>6. group \in Groups /\ group.results = resultsNow
  BY <1>2, <1>5 DEF Groups
<1> HIDE DEF group
<1>7. /\ groups \in Seq(Groups) /\ DOMAIN groups = DOMAIN t.groups
      /\ groups[g] = group /\ \A h \in DOMAIN t.groups : h # g => groups[h] = t.groups[h]
  BY <1>2, <1>6 DEF GroupsTyped
<1> HIDE DEF groups
<1>8. ASSUME NEW h \in DOMAIN t.groups
      PROVE  /\ DOMAIN u.groups[h].results = DOMAIN t.groups[h].results
             /\ \A j \in DOMAIN t.groups[h].results :
                  u.groups[h].results[j].url = t.groups[h].results[j].url
  <2>1. CASE h # g
    BY <1>1, <1>7, <2>1
  <2>2. CASE h = g
    BY <1>1, <1>4, <1>5, <1>6, <1>7, <2>2
  <2> QED
    BY <2>1, <2>2
<1>9. WithExcerpts(u.groups[g].results) \subseteq WithExcerpts(results) \union {i}
  <2>1. u.groups[g].results = resultsNow
    BY <1>1, <1>6, <1>7
  <2>2. WithExcerpts(resultsNow) \subseteq WithExcerpts(results) \union {i}
    BY <1>5 DEF WithExcerpts
  <2> QED
    BY <2>1, <2>2
<1>10. u.place \in [1 .. 2 -> Nat \ {0}]
  <2>1. t.place \in [1 .. 2 -> Nat \ {0}]
    BY DEF GroupsTyped
  <2> DEFINE P == Nat \ {0}
  <2>2. 2 \in 1 .. 2 /\ t.place[2] + 1 \in P /\ t.place \in [1 .. 2 -> P]
    BY <2>1
  <2>3. u.place = [t.place EXCEPT ![2] = t.place[2] + 1]
    BY <1>1
  <2> HIDE DEF P
  <2>4. u.place \in [1 .. 2 -> P]
    BY <2>2, <2>3
  <2> QED
    BY <2>4 DEF P
<1>11. /\ DOMAIN u.cache = DOMAIN t.cache \union {page}
       /\ \A p \in DOMAIN u.cache : u.cache[p] \in Flags
  <2>1. /\ DOMAIN u.cache = DOMAIN t.cache \union {page}
        /\ \A p \in DOMAIN u.cache : u.cache[p] = IF p = page THEN got ELSE t.cache[p]
    BY <1>1 DEF Put
  <2> HIDE DEF page
  <2> QED
    BY <2>1 DEF GroupsTyped
<1> QED
  BY <1>1, <1>7, <1>8, <1>9, <1>10, <1>11 DEF Enriched, GroupResults, u

LEMMA EnrichedGroups ==
  ASSUME NEW t, NEW u, GroupsWell(t), InPlace(t), Gained(t) < ExcerptLimit, Enriched(t, u)
  PROVE  GroupsWell(u)
<1> DEFINE g == t.place[1]
<1>1. GroupsTyped(u) /\ PageWell(u)
  BY DEF Enriched, GroupsTyped, PageWell
<1>2. ToldOnce(u)
  BY DEF Enriched, GroupsWell, ToldOnce
<1>3. ExcerptsLimited(u)
  <2>1. ExcerptLimit \in Nat
    BY SearchAssumption
  <2>2. g \in DOMAIN t.groups /\ t.groups[g] \in Groups /\ t.groups[g].results \in Seq(Hits)
    <3>1. g \in DOMAIN t.groups /\ t.groups \in Seq(Groups)
      BY DEF InPlace, GroupsWell, GroupsTyped
    <3>2. t.groups[g] \in Groups
      BY <3>1, ElementOfSeq
    <3> QED
      BY <3>1, <3>2 DEF Groups
  <2>3. u.groups[g] \in Groups /\ u.groups[g].results \in Seq(Hits)
    <3>1. g \in DOMAIN u.groups /\ u.groups \in Seq(Groups)
      BY <2>2 DEF Enriched
    <3>2. u.groups[g] \in Groups
      BY <3>1, ElementOfSeq
    <3> QED
      BY <3>1, <3>2 DEF Groups
  <2> DEFINE before == WithExcerpts(t.groups[g].results)
             after == WithExcerpts(u.groups[g].results)
  <2>4. /\ IsFiniteSet(before) /\ IsFiniteSet(after)
        /\ Cardinality(before) \in Nat /\ Cardinality(after) \in Nat
    BY <2>2, <2>3, ExcerptsFinite
  <2>5. after \subseteq before \union {t.place[2]}
    BY DEF Enriched
  <2>6. Cardinality(before) < ExcerptLimit
    BY DEF Gained, GroupResults
  <2> HIDE DEF before, after
  <2>7. /\ IsFiniteSet(before \union {t.place[2]})
        /\ Cardinality(before \union {t.place[2]}) <= Cardinality(before) + 1
    <3> DEFINE x == t.place[2]
    <3> HIDE DEF x
    <3>1. /\ IsFiniteSet(before \union {x})
          /\ Cardinality(before \union {x}) \in {Cardinality(before), Cardinality(before) + 1}
      BY <2>4, FS_AddElement
    <3> QED
      BY <2>4, <3>1 DEF x
  <2>8. Cardinality(after) <= Cardinality(before \union {t.place[2]})
    BY <2>5, <2>7, FS_Subset
  <2>9. Cardinality(before \union {t.place[2]}) \in Nat
    BY <2>7, FS_CardinalityType
  <2>10. Cardinality(after) <= ExcerptLimit
    BY <2>1, <2>4, <2>6, <2>7, <2>8, <2>9
  <2>11. \A h \in DOMAIN t.groups : h # g => u.groups[h] = t.groups[h]
    BY DEF Enriched
  <2> QED
    BY <2>10, <2>11 DEF Enriched, GroupsWell, ExcerptsLimited, after
<1> QED
  BY <1>1, <1>2, <1>3 DEF GroupsWell

LEMMA EnrichedHeard ==
  ASSUME NEW t, NEW u, Enriched(t, u), HeardWell(t), Enriching(t), t.stage # "ended"
  PROVE  HeardWell(u)
<1>1. SameAsked(t, u)
  BY DEF Enriched, SameAsked, Seeking, Requesting
<1> QED
  BY <1>1, HeardSame
-----------------------------------------------------------------------------
(* The steps of a search.                                                  *)

(* The same request goes on.                                               *)
Stays(t, u) ==
  /\ Requesting(t) /\ Requesting(u) /\ u.outcome = t.outcome
  /\ u.heard = t.heard /\ u.errors = t.errors /\ u.query = t.query /\ u.queries = t.queries
  /\ u.backend = t.backend /\ u.endpoint = t.endpoint /\ u.erred = t.erred
  /\ u.groups = t.groups /\ u.place = t.place /\ u.cache = t.cache
  /\ u.page = t.page /\ u.action = t.action

LEMMA StaysWell ==
  ASSUME NEW t, NEW u, HeardWell(t), GroupsWell(t), Stays(t, u)
  PROVE  HeardWell(u) /\ GroupsWell(u)
<1>1. SameAsked(t, u)
  BY DEF Stays, SameAsked, Seeking, Enriching, Requesting
<1>2. HeardWell(u)
  BY <1>1, HeardSame
<1>3. GroupsTyped(u) /\ ToldOnce(u) /\ ExcerptsLimited(u)
  BY DEF GroupsWell, GroupsTyped, ToldOnce, ExcerptsLimited, Stays
<1>4. PageWell(u)
  BY DEF GroupsWell, PageWell, InPlace, Gained, GroupResults, Stays
<1> QED
  BY <1>2, <1>3, <1>4 DEF GroupsWell

LEMMA EndedWell ==
  ASSUME NEW t, NEW outcome \in {"failure", "cancelled", "page"}, HeardWell(t), GroupsWell(t),
         t = [f \in Fields |-> t[f]], t.stage # "ended"
  PROVE  HeardWell(Ended(t, outcome)) /\ GroupsWell(Ended(t, outcome))
<1> DEFINE u == Ended(t, outcome)
<1>1. /\ u.stage = "ended" /\ u.outcome = outcome
      /\ u.heard = t.heard /\ u.errors = t.errors /\ u.query = t.query /\ u.queries = t.queries
      /\ u.backend = t.backend /\ u.endpoint = t.endpoint /\ u.erred = t.erred
      /\ u.groups = t.groups /\ u.place = t.place /\ u.cache = t.cache
  BY DEF Ended, Fields
<1> HIDE DEF u
<1>2. ~Requesting(u)
  BY <1>1 DEF Requesting
<1>3. SameAsked(t, u)
  BY <1>1, <1>2 DEF SameAsked, Seeking, Enriching
<1>4. HeardWell(u)
  BY <1>3, HeardSame
<1>5. GroupsWell(u)
  <2>1. PageWell(u)
    BY <1>2 DEF PageWell
  <2>2. u.groups = t.groups /\ u.place = t.place /\ u.cache = t.cache
    BY <1>1
  <2>3. GroupsTyped(t) /\ ToldOnce(t) /\ ExcerptsLimited(t)
    BY DEF GroupsWell
  <2>4. GroupsTyped(u)
    BY <2>2, <2>3 DEF GroupsTyped
  <2>5. ToldOnce(u)
    BY <2>2, <2>3 DEF ToldOnce
  <2>6. ExcerptsLimited(u)
    BY <2>2, <2>3 DEF ExcerptsLimited
  <2> QED
    BY <2>1, <2>4, <2>5, <2>6 DEF GroupsWell
<1> QED
  BY <1>4, <1>5 DEF u

LEMMA FruitlessWell ==
  ASSUME NEW t, HeardWell(t), GroupsWell(t), Sound(t), Seeking(t),
         NEW what \in {"empty", "failed", "lost"}, NEW failed \in BOOLEAN,
         failed <=> what # "empty", what = "lost" => ~Here
  PROVE  LET u == Fruitless(Hear(t, what), failed)
         IN  HeardWell(u) /\ GroupsWell(u) /\ Turned(t, u, t.erred \/ failed) /\ u.page = NoPage
<1> DEFINE u == Fruitless(Hear(t, what), failed)
<1>1. t = [f \in Fields |-> t[f]] /\ t.erred \in BOOLEAN
  BY DEF Sound
<1>2. HeardToo(t, u, what) /\ SameFinds(t, u) /\ Turned(t, u, t.erred \/ failed)
  BY <1>1, FruitlessFields
<1> HIDE DEF u
<1>3. HeardWell(u)
  BY <1>2, FruitlessHeard
<1>4. GroupsWell(u)
  <2>1. u.page = NoPage
    BY <1>2 DEF SameFinds, Seeking
  <2> QED
    BY <1>2, <2>1 DEF GroupsWell, GroupsTyped, ToldOnce, ExcerptsLimited, PageWell, SameFinds
<1>5. u.page = NoPage
  BY <1>2 DEF SameFinds, Seeking
<1> QED
  BY <1>2, <1>3, <1>4, <1>5 DEF u

(* A page that is fetched for an excerpt is a result's, and new.           *)
LEMMA PageExcerpt ==
  ASSUME NEW t, HeardWell(t), GroupsWell(t), Sound(t), Requesting(t), t.page # NoPage,
         t.action = "search", NEW got \in Flags
  PROVE  LET u == WithExcerpt(t, got)
         IN  HeardWell(u) /\ GroupsWell(u) /\ Enriched(t, u)
<1> DEFINE u == WithExcerpt(t, got)
<1>1. InPlace(t) /\ Gained(t) < ExcerptLimit /\ GroupsTyped(t) /\ t = [f \in Fields |-> t[f]]
  BY DEF GroupsWell, PageWell, Sound
<1>2. Enriched(t, u)
  BY <1>1, WithExcerptFields
<1> HIDE DEF u
<1>3. GroupsWell(u)
  BY <1>1, <1>2, EnrichedGroups
<1>4. Enriching(t) /\ t.stage # "ended"
  BY DEF Enriching, Requesting
<1>5. HeardWell(u)
  BY <1>2, <1>4, EnrichedHeard
<1> QED
  BY <1>2, <1>3, <1>5 DEF u

LEMMA FailedWell ==
  ASSUME NEW t, HeardWell(t), GroupsWell(t), Sound(t), Requesting(t)
  PROVE  /\ HeardWell(Failed(t)) /\ GroupsWell(Failed(t))
         /\ t.page = NoPage => Turned(t, Failed(t), TRUE) /\ Failed(t).page = NoPage
         /\ t.page # NoPage /\ t.action = "search" => Enriched(t, Failed(t))
         /\ t.action # "search" => Failed(t).stage = "ended"
<1>1. CASE t.page = NoPage
  <2>1. Seeking(t) /\ t.queries > 0 /\ t.action = "search"
    BY <1>1 DEF Seeking, Sound, Requesting
  <2> DEFINE what == IF Here THEN "failed" ELSE "lost"
  <2>2. Failed(t) = Fruitless(Hear(t, what), TRUE)
    BY <1>1, <2>1 DEF Failed
  <2>3. what \in {"empty", "failed", "lost"} /\ what # "empty" /\ (what = "lost" => ~Here)
    OBVIOUS
  <2> HIDE DEF what
  <2>4. /\ HeardWell(Failed(t)) /\ GroupsWell(Failed(t))
        /\ Turned(t, Failed(t), t.erred \/ TRUE)
        /\ Failed(t).page = NoPage
    BY <2>1, <2>2, <2>3, FruitlessWell
  <2>5. Turned(t, Failed(t), TRUE)
    BY <2>4 DEF Turned
  <2> QED
    BY <1>1, <2>1, <2>4, <2>5
<1>2. CASE t.page # NoPage /\ t.action = "search"
  <2>1. Failed(t) = WithExcerpt(t, FALSE) /\ FALSE \in Flags
    BY <1>2 DEF Failed, Flags
  <2> QED
    BY <1>2, <2>1, PageExcerpt
<1>3. CASE t.page # NoPage /\ t.action # "search"
  <2>1. \E outcome \in {"failure", "cancelled", "page"} : Failed(t) = Ended(t, outcome)
    BY <1>3 DEF Failed
  <2>2. t = [f \in Fields |-> t[f]] /\ t.stage # "ended"
    BY DEF Sound, Requesting
  <2>3. \A outcome : Ended(t, outcome).stage = "ended"
    BY <2>2 DEF Ended, Fields
  <2> QED
    BY <1>3, <2>1, <2>2, <2>3, EndedWell
<1> QED
  BY <1>1, <1>2, <1>3

LEMMA BackoffWell ==
  ASSUME NEW t, HeardWell(t), GroupsWell(t), Sound(t), Requesting(t)
  PROVE  HeardWell(Backoff(t)) /\ GroupsWell(Backoff(t))
<1>1. Stays(t, Backoff(t))
  BY DEF Stays, Backoff, Sound, Requesting, Fields
<1> QED
  BY <1>1, StaysWell

(* What is begun after the client has left.                                *)
LateNow(t, l) == l # <<>> /\ t.stage # "ended" =>
  /\ t.stage \notin {"asked", "backoff"}
  /\ \A i \in DOMAIN l : l[i].query = t.query
  /\ Seeking(t) => /\ t.erred
                   /\ \A i \in DOMAIN l : /\ l[i].backend \in Nat /\ l[i].endpoint \in Nat
                                          /\ Before(l[i], t)
  /\ ~Seeking(t) => \A i \in DOMAIN l : l[i].page \in DOMAIN t.cache

LateOnce(l) == \A i, j \in DOMAIN l : i # j => l[i] # l[j] /\ l[i].query = l[j].query

PagesOfResults == {NoPage} \union {Address[url] : url \in Allowed}

LatePages(t, l) == t.action = "search" => \A i \in DOMAIN l : l[i].page \in PagesOfResults

LateWell(t, l) == LateNow(t, l) /\ LateOnce(l) /\ LatePages(t, l)

LEMMA NoneLate == \A t : LateWell(t, <<>>)
BY DEF LateWell, LateNow, LateOnce, LatePages

(* One more, to another place than all before.                             *)
LEMMA OneMoreLate ==
  ASSUME NEW t, NEW l, IsSequence(l), LateOnce(l), LatePages(t, l), NEW new,
         \A i \in DOMAIN l : l[i] # new /\ l[i].query = new.query,
         t.action = "search" => new.page \in PagesOfResults
  PROVE  LateOnce(Append(l, new)) /\ LatePages(t, Append(l, new))
<1> DEFINE n == Len(l)
           now == Append(l, new)
<1>1. /\ n \in Nat /\ DOMAIN l = 1 .. n /\ DOMAIN now = 1 .. n + 1
      /\ now[n + 1] = new /\ \A i \in 1 .. n : now[i] = l[i]
  BY AppendedToAny
<1> HIDE DEF now, n
<1>2. \A i \in 1 .. n + 1 : i \in 1 .. n \/ i = n + 1
  BY <1>1
<1>3. LateOnce(now)
  BY <1>1, <1>2 DEF LateOnce
<1>4. LatePages(t, now)
  BY <1>1, <1>2 DEF LatePages
<1> QED
  BY <1>3, <1>4 DEF now

HonestInv ==
  /\ HeardWell(s) /\ GroupsWell(s)
  /\ Here \/ s.stage = "off" => late = <<>>
  /\ LateWell(s, late)
  /\ s.stage = "off" => s.heard = {} /\ s.erred = FALSE

(* The operators on a call speak of the client, too.                       *)
LEMMA Later ==
  ASSUME UNCHANGED client, HeardWell(s'), GroupsWell(s'), LateWell(s', late'),
         Here \/ s'.stage = "off" => late' = <<>>, s'.stage # "off"
  PROVE  HonestInv'
<1>1. HeardWell(s)'
  BY DEF HeardWell, HeardTyped, HeardBefore, NoneSkipped, ErredHeard, LostAlone, Here, QueriesJudged,
         AllAsked, FirstFound, Judged, ErrorOf, Exhausted, HeardFor, WhatHeard, Seeking, Requesting,
         Enriching, Before
<1> QED
  BY <1>1 DEF HonestInv, Here

(* A step other than the beginning of a request.                           *)
LEMMA StepWell ==
  ASSUME HonestInv, s.stage \in {"asked", "backoff"} \/ late = <<>>, UNCHANGED <<client, late>>,
         HeardWell(s'), GroupsWell(s'), s'.stage # "off"
  PROVE  HonestInv'
<1>1. late = <<>>
  BY DEF HonestInv, LateWell, LateNow
<1> QED
  BY <1>1, NoneLate, Later DEF HonestInv

LEMMA AskWell ==
  ASSUME SearchInv, HonestInv, Ask
  PROVE  HonestInv'
<1>1. /\ s.stage = "ready" /\ Requesting(s) /\ Sound(s) /\ s = [f \in Fields |-> s[f]]
      /\ HeardWell(s) /\ GroupsWell(s) /\ LateWell(s, late) /\ UNCHANGED client /\ s'.stage # "off"
      /\ s.stage # "ended"
  BY AskSound DEF Ask, SearchInv, HonestInv, Requesting, Sound
<1>2. CASE ~ContextDone
  <2>1. s' = [s EXCEPT !.stage = "asked"] /\ Here /\ UNCHANGED late
    BY <1>2 DEF Ask, ContextDone
  <2>2. Stays(s, s')
    BY <1>1, <2>1 DEF Stays, Requesting, Fields
  <2> QED
    BY <1>1, <2>1, <2>2, StaysWell, StepWell DEF HonestInv
<1>3. CASE ContextDone
  <2>1. s' = Failed(s)
    BY <1>3 DEF Ask, RequestFailed
  <2>2. /\ HeardWell(s') /\ GroupsWell(s')
        /\ s.page = NoPage => Turned(s, s', TRUE) /\ s'.page = NoPage
        /\ s.page # NoPage /\ s.action = "search" => Enriched(s, s')
        /\ s.action # "search" => s'.stage = "ended"
    BY <1>1, <2>1, FailedWell
  <2>3. CASE Here
    BY <1>1, <2>2, <2>3, StepWell DEF Ask, HonestInv
  <2>4. CASE ~Here
    <3> DEFINE new == Target(s)
    <3>1. late' = Append(late, new) /\ IsSequence(late)
      BY <2>4 DEF Ask, SearchInv, PageOnce
    <3>2. /\ new.query = s.query /\ new.backend = s.backend /\ new.endpoint = s.endpoint
          /\ new.page = s.page
      BY DEF Target
    <3> HIDE DEF new
    <3>3. /\ Len(late) \in Nat /\ DOMAIN late = 1 .. Len(late) /\ DOMAIN late' = 1 .. Len(late) + 1
          /\ late'[Len(late) + 1] = new /\ \A i \in 1 .. Len(late) : late'[i] = late[i]
      BY <3>1, AppendedToAny
    <3>4. s'.action = s.action
      BY AskSound, <1>1, <2>1, FailedSound DEF Follows
    <3>5. \A i \in DOMAIN late' : (i \in DOMAIN late /\ late'[i] = late[i]) \/ late'[i] = new
      BY <3>3
    <3>6. CASE s.action # "search"
      <4>1. late = <<>>
        BY <1>1, <3>1, <3>3, <3>6, EmptySeq DEF SearchInv, PageOnce, IsSequence
      <4>2. LateOnce(late') /\ LatePages(s', late')
        BY <3>3, <3>4, <3>6, <4>1 DEF LateOnce, LatePages
      <4>3. LateNow(s', late')
        BY <2>2, <3>6 DEF LateNow
      <4> QED
        BY <1>1, <2>2, <2>4, <4>2, <4>3, Later DEF LateWell
    <3>7. CASE s.action = "search"
      <4>1. \A i \in DOMAIN late : late[i].query = s.query
        <5>1. late # <<>> \/ DOMAIN late = {}
          BY <3>3
        <5> QED
          BY <1>1, <5>1 DEF LateWell, LateNow
      <4>2. ASSUME NEW i \in DOMAIN late PROVE late[i] # new
        <5>0. late # <<>>
          BY <3>3
        <5>1. CASE Seeking(s)
          <6>1. /\ late[i].backend \in Nat /\ late[i].endpoint \in Nat /\ Before(late[i], s)
            BY <1>1, <5>0, <5>1 DEF LateWell, LateNow
          <6> QED
            BY <3>2, <6>1 DEF Before
        <5>2. CASE ~Seeking(s)
          <6>1. late[i].page \in DOMAIN s.cache
            BY <1>1, <5>0, <5>2 DEF LateWell, LateNow
          <6>2. s.page \notin DOMAIN s.cache
            BY <1>1, <3>7, <5>2 DEF GroupsWell, PageWell, Seeking
          <6> QED
            BY <3>2, <6>1, <6>2
        <5> QED
          BY <5>1, <5>2
      <4>3. new.page \in PagesOfResults
        <5>1. CASE s.page = NoPage
          BY <3>2, <5>1 DEF PagesOfResults
        <5>2. CASE s.page # NoPage
          <6> DEFINE results == s.groups[s.place[1]].results
          <6>1. /\ s.place[1] \in DOMAIN s.groups /\ s.place[2] \in DOMAIN results
                /\ s.page = Address[results[s.place[2]].url] /\ s.groups \in Seq(Groups)
            BY <1>1, <3>7, <5>2 DEF GroupsWell, GroupsTyped, PageWell, InPlace, GroupResults
          <6>2. s.groups[s.place[1]] \in Groups
            BY <6>1, ElementOfSeq
          <6>3. results \in Seq(Hits)
            BY <6>2 DEF Groups
          <6>4. results[s.place[2]] \in Hits
            BY <6>1, <6>3, ElementOfSeq
          <6>5. results[s.place[2]].url \in Allowed
            BY <6>4 DEF Hits
          <6> QED
            BY <3>2, <6>1, <6>5 DEF PagesOfResults
        <5> QED
          BY <5>1, <5>2
      <4>4. LateOnce(late') /\ LatePages(s, late')
        BY <1>1, <3>1, <3>2, <4>1, <4>2, <4>3, OneMoreLate DEF LateWell
      <4>5. LatePages(s', late')
        BY <3>4, <4>4 DEF LatePages
      <4>6. LateNow(s', late')
        <5>1. CASE s.page = NoPage
          <6>1. s'.stage = "ended" \/ (AtNextEndpoint(s, s') /\ s'.erred)
            BY <2>2, <2>4, <5>1 DEF Turned
          <6>2. CASE AtNextEndpoint(s, s') /\ s'.erred
            <7>1. /\ s'.stage = "ready" /\ s'.query = s.query
                  /\ \/ s'.backend = s.backend + 1
                     \/ s'.backend = s.backend /\ s'.endpoint = s.endpoint + 1
              BY <6>2 DEF AtNextEndpoint
            <7>2. s.backend \in Nat /\ s.endpoint \in Nat /\ Seeking(s)
              BY <1>1, <5>1, EndpointsFacts DEF Sound, Seeking
            <7>3. Before(new, s')
              BY <3>2, <7>1, <7>2 DEF Before
            <7>4. ASSUME NEW i \in DOMAIN late
                  PROVE  late[i].backend \in Nat /\ late[i].endpoint \in Nat /\ Before(late[i], s')
              <8>1. late # <<>>
                BY <3>3
              <8>2. late[i].backend \in Nat /\ late[i].endpoint \in Nat /\ Before(late[i], s)
                BY <1>1, <7>2, <8>1 DEF LateWell, LateNow
              <8> QED
                BY <7>1, <7>2, <8>2 DEF Before
            <7>5. s'.page = NoPage
              BY <2>2, <5>1
            <7>6. Seeking(s')
              BY <7>1, <7>5 DEF Seeking, Requesting
            <7>7. \A i \in DOMAIN late' : late'[i].query = s'.query
              BY <3>2, <3>5, <4>1, <7>1
            <7>8. \A i \in DOMAIN late' :
                    late'[i].backend \in Nat /\ late'[i].endpoint \in Nat /\ Before(late'[i], s')
              BY <3>2, <3>5, <7>2, <7>3, <7>4
            <7> QED
              BY <6>2, <7>1, <7>6, <7>7, <7>8 DEF LateNow
          <6> QED
            BY <6>1, <6>2 DEF LateNow
        <5>2. CASE s.page # NoPage
          <6>1. Enriched(s, s')
            BY <2>2, <3>7, <5>2
          <6>2. s.page \in DOMAIN s'.cache /\ DOMAIN s.cache \subseteq DOMAIN s'.cache
            BY <1>1, <3>7, <5>2, <6>1 DEF Enriched, GroupsWell, PageWell
          <6>3. \A i \in DOMAIN late : late[i].page \in DOMAIN s.cache
            <7>1. ~Seeking(s) /\ (late # <<>> \/ DOMAIN late = {})
              BY <3>3, <5>2 DEF Seeking
            <7> QED
              BY <1>1, <7>1 DEF LateWell, LateNow
          <6>4. \A i \in DOMAIN late' : late'[i].page \in DOMAIN s'.cache /\ late'[i].query = s'.query
            BY <3>2, <3>5, <4>1, <6>1, <6>2, <6>3 DEF Enriched
          <6>5. s'.stage = "enriching" /\ ~Seeking(s')
            BY <6>1 DEF Enriched, Seeking, Requesting
          <6> QED
            BY <6>4, <6>5 DEF LateNow
        <5> QED
          BY <5>1, <5>2
      <4> QED
        BY <1>1, <2>2, <2>4, <4>4, <4>5, <4>6, Later DEF LateWell
    <3> QED
      BY <3>6, <3>7
  <2> QED
    BY <2>3, <2>4
<1> QED
  BY <1>2, <1>3
-----------------------------------------------------------------------------
(* The other steps.                                                        *)

LEMMA ResponseWell ==
  ASSUME SearchInv, HonestInv,
         RequestError \/ ResponseToRetry \/ ResponseUseless \/ ResponseEmpty
           \/ ResponseResults \/ ResponsePage
  PROVE  HonestInv'
<1>1. /\ s.stage = "asked" /\ Sound(s) /\ Requesting(s) /\ UNCHANGED <<client, late>>
      /\ HeardWell(s) /\ GroupsWell(s) /\ s = [f \in Fields |-> s[f]] /\ s.stage # "ended"
  BY DEF RequestError, ResponseToRetry, ResponseUseless, ResponseEmpty, ResponseResults,
         ResponsePage, SearchInv, HonestInv, Requesting, Sound
<1>2. s'.stage # "off"
  BY ResponseSound
<1>3. SUFFICES HeardWell(s') /\ GroupsWell(s')
  BY <1>1, <1>2, StepWell
<1>4. CASE s' = Failed(s) \/ s' = Backoff(s)
  BY <1>1, <1>4, FailedWell, BackoffWell
<1>5. CASE RequestError \/ ResponseToRetry \/ ResponseUseless
  BY <1>4, <1>5 DEF RequestError, RequestFailed, ResponseToRetry, ResponseUseless
<1>6. CASE ResponseEmpty
  <2>1. s' = Fruitless(Hear(s, "empty"), FALSE) /\ Seeking(s)
    BY <1>1, <1>6 DEF ResponseEmpty, Seeking
  <2> QED
    BY <1>1, <2>1, FruitlessWell
<1>7. CASE ResponseResults
  <2>1. PICK results \in BoundedSeq(Results, MaxResults) : s' = Found(Hear(s, "found"), results)
    BY <1>7 DEF ResponseResults
  <2>2. results \in Seq(Results)
    <3>1. PICK m \in 0 .. MaxResults : results \in [1 .. m -> Results]
      BY DEF BoundedSeq, SeqOf
    <3>2. m \in Nat
      BY SearchAssumption
    <3> QED
      BY <3>1, <3>2, SeqDef
  <2>3. Seeking(s)
    BY <1>1, <1>7 DEF ResponseResults, Seeking
  <2>4. /\ HeardToo(s, s', "found") /\ AtNextQuery(s, s') /\ s'.errors = s.errors
        /\ s'.queries = s.queries /\ s'.page = s.page /\ s'.action = s.action
        /\ s'.place = s.place /\ s'.cache = s.cache /\ FoundIn(s, s')
    BY <1>1, <2>1, <2>2, FoundFields
  <2>5. HeardWell(s')
    BY <1>1, <2>3, <2>4, FoundHeard
  <2>6. s.query \in Nat /\ s'.page = NoPage
    BY <1>1, <2>3, <2>4 DEF Sound, Seeking
  <2>7. GroupsWell(s')
    BY <1>1, <2>4, <2>6, FoundGroups
  <2> QED
    BY <2>5, <2>7
<1>8. CASE ResponsePage
  <2>1. CASE s.action = "search"
    <3>1. s.page # NoPage /\ \E text \in Flags : s' = WithExcerpt(s, text)
      BY <1>8, <2>1 DEF ResponsePage, Flags
    <3> QED
      BY <1>1, <2>1, <3>1, PageExcerpt
  <2>2. CASE s.action # "search"
    <3>1. s' = Ended(s, "page")
      BY <1>8, <2>2 DEF ResponsePage
    <3> QED
      BY <1>1, <3>1, EndedWell
  <2> QED
    BY <2>1, <2>2
<1> QED
  BY <1>5, <1>6, <1>7, <1>8

LEMMA SameRequestWell ==
  ASSUME SearchInv, HonestInv, EndBackoff \/ PageOverdue
  PROVE  HonestInv'
<1>1. /\ s.stage \in {"asked", "backoff"} /\ UNCHANGED <<client, late>>
      /\ s = [f \in Fields |-> s[f]] /\ HeardWell(s) /\ GroupsWell(s)
  BY DEF EndBackoff, PageOverdue, SearchInv, HonestInv, Sound
<1>2. Stays(s, s') /\ s'.stage # "off"
  BY <1>1 DEF EndBackoff, PageOverdue, Stays, Requesting, Fields
<1> QED
  BY <1>1, <1>2, StaysWell, StepWell

LEMMA LeavingWell ==
  ASSUME HonestInv, ClientLeaves
  PROVE  HonestInv'
<1>1. Here /\ ~Here' /\ late = <<>> /\ UNCHANGED <<s, late>>
  BY DEF ClientLeaves, HonestInv, Here
<1>2. HeardWell(s)'
  <2>1. /\ HeardTyped(s) /\ HeardBefore(s) /\ NoneSkipped(s) /\ ErredHeard(s)
        /\ QueriesJudged(s) /\ AllAsked(s) /\ FirstFound(s)
    BY DEF HonestInv, HeardWell
  <2>2. (HeardTyped(s) /\ HeardBefore(s))'
    BY <1>1, <2>1 DEF HeardTyped, HeardBefore, Before
  <2>3. NoneSkipped(s)' /\ ErredHeard(s)'
    BY <1>1, <2>1 DEF NoneSkipped, ErredHeard, Seeking, Requesting, HeardFor
  <2>4. QueriesJudged(s)'
    <3>1. \A t : t = s => QueriesJudged(t)
      BY <2>1
    <3>2. QueriesJudged(s')
      BY <1>1, <3>1
    <3> QED
      BY <3>2 DEF QueriesJudged, Judged, ErrorOf, Exhausted, HeardFor, WhatHeard
  <2>5. AllAsked(s)' /\ FirstFound(s)'
    BY <1>1, <2>1 DEF AllAsked, FirstFound, Before, Enriching, Requesting
  <2>6. LostAlone(s)'
    BY <1>1 DEF LostAlone
  <2> QED
    BY <2>2, <2>3, <2>4, <2>5, <2>6 DEF HeardWell
<1> QED
  BY <1>1, <1>2, NoneLate DEF HonestInv

LEMMA StartWell ==
  ASSUME SearchInv, HonestInv, s.stage = "off", NEW call \in SearchCalls, StartSearch(call)
  PROVE  HonestInv'
<1> DEFINE started == [s EXCEPT !.stage = "ready", !.action = call.type, !.queries = call.queries,
                                !.page = call.page]
<1>1. /\ s.query = 1 /\ s.backend = 1 /\ s.endpoint = 1 /\ s.errors = {} /\ s.groups = <<>>
      /\ s.outcome = "none" /\ s.heard = {} /\ ~s.erred /\ late = <<>> /\ GroupsWell(s)
      /\ s = [f \in Fields |-> s[f]]
  BY DEF SearchInv, Unstarted, HonestInv, Sound
<1>2. /\ started.stage = "ready" /\ started.queries = call.queries /\ started.page = call.page
      /\ started.action = call.type /\ started = [f \in Fields |-> started[f]]
      /\ \A f \in Fields \ {"stage", "action", "queries", "page"} : started[f] = s[f]
  BY <1>1 DEF Fields
<1>3. /\ s' = IF call.queries = 0 /\ call.page = NoPage THEN Ended(started, "failure") ELSE started
      /\ UNCHANGED <<client, late>>
  BY DEF StartSearch
<1> HIDE DEF started
<1>4. \A f \in Fields \ {"stage", "outcome"} : s'[f] = started[f]
  BY <1>2, <1>3 DEF Ended, Fields
<1>5. \/ s'.stage = "ready" /\ s'.outcome = "none"
      \/ s'.stage = "ended" /\ s'.outcome = "failure"
  BY <1>1, <1>2, <1>3 DEF Ended, Fields
<1>6. /\ s'.query = 1 /\ s'.backend = 1 /\ s'.endpoint = 1 /\ s'.errors = {} /\ s'.groups = s.groups
      /\ s'.heard = {} /\ s'.place = s.place /\ s'.cache = s.cache
      /\ s'.action = call.type /\ s'.queries = call.queries /\ s'.page = call.page
  <2>1. /\ started.query = s.query /\ started.backend = s.backend /\ started.endpoint = s.endpoint
        /\ started.errors = s.errors /\ started.groups = s.groups /\ started.heard = s.heard
        /\ started.place = s.place /\ started.cache = s.cache
    BY <1>2 DEF Fields
  <2>2. /\ s'.query = started.query /\ s'.backend = started.backend
        /\ s'.endpoint = started.endpoint /\ s'.errors = started.errors
        /\ s'.groups = started.groups /\ s'.heard = started.heard /\ s'.place = started.place
        /\ s'.cache = started.cache /\ s'.action = started.action
        /\ s'.queries = started.queries /\ s'.page = started.page
    BY <1>4 DEF Fields
  <2> QED
    BY <1>1, <1>2, <2>1, <2>2
<1>10. ~s'.erred
  <2>1. s'.erred = s.erred
    BY <1>2, <1>4 DEF Fields
  <2> QED
    BY <1>1, <2>1, Zenon
<1>7. call.queries \in Nat /\ (s'.page # NoPage => s'.action # "search")
  BY <1>6, CallsAssumption
<1>8. HeardWell(s')
  <2>1. HeardTyped(s') /\ HeardBefore(s') /\ LostAlone(s') /\ FirstFound(s')
    BY <1>6 DEF HeardTyped, HeardBefore, LostAlone, FirstFound
  <2>2. NoneSkipped(s')
    <3>1. \A b \in DOMAIN Endpoints : \A e \in 1 .. Endpoints[b] : ~(b < 1) /\ ~(b = 1 /\ e < 1)
      BY EndpointsFacts
    <3> QED
      BY <1>6, <3>1 DEF NoneSkipped
  <2>3. ErredHeard(s')
    BY <1>6, <1>10 DEF ErredHeard, HeardFor
  <2>4. QueriesJudged(s')
    BY <1>6, <1>7 DEF QueriesJudged
  <2>5. AllAsked(s')
    BY <1>5, <1>7 DEF AllAsked, Enriching
  <2> QED
    BY <2>1, <2>2, <2>3, <2>4, <2>5 DEF HeardWell
<1>9. GroupsWell(s')
  <2>1. PageWell(s')
    BY <1>7 DEF PageWell
  <2>2. GroupsTyped(s')
    BY <1>1, <1>6 DEF GroupsWell, GroupsTyped
  <2>3. ToldOnce(s') /\ ExcerptsLimited(s')
    BY <1>1, <1>6 DEF ToldOnce, ExcerptsLimited
  <2> QED
    BY <2>1, <2>2, <2>3 DEF GroupsWell
<1> QED
  BY <1>1, <1>3, <1>5, <1>8, <1>9, NoneLate, Later
-----------------------------------------------------------------------------
(* Looking for the next page for an excerpt.                               *)

(* The place moves on.                                                     *)
Moves(t, u) ==
  /\ u.stage = "enriching" /\ u.outcome = t.outcome
  /\ u.heard = t.heard /\ u.errors = t.errors /\ u.query = t.query /\ u.queries = t.queries
  /\ u.backend = t.backend /\ u.endpoint = t.endpoint /\ u.erred = t.erred
  /\ u.groups = t.groups /\ u.place \in [1 .. 2 -> Nat \ {0}] /\ u.cache = t.cache
  /\ u.page = t.page /\ u.action = t.action

LEMMA MovesWell ==
  ASSUME NEW t, NEW u, HeardWell(t), GroupsWell(t), t.stage = "enriching", Moves(t, u)
  PROVE  HeardWell(u) /\ GroupsWell(u)
<1>1. SameAsked(t, u)
  BY DEF Moves, SameAsked, Seeking, Enriching, Requesting
<1>2. HeardWell(u)
  BY <1>1, HeardSame
<1>3. GroupsTyped(u) /\ ToldOnce(u) /\ ExcerptsLimited(u)
  BY DEF GroupsWell, GroupsTyped, ToldOnce, ExcerptsLimited, Moves
<1>4. PageWell(u)
  BY DEF PageWell, Requesting, Moves
<1> QED
  BY <1>2, <1>3, <1>4 DEF GroupsWell

(* A result of the group is next, and the group may have more excerpts.    *)
LEMMA NotEnough ==
  ASSUME NEW t, GroupsTyped(t), t.place[1] <= Len(t.groups), ~Enough(t)
  PROVE  InPlace(t) /\ Gained(t) < ExcerptLimit
<1>1. t.groups \in Seq(Groups) /\ t.place[1] \in Nat \ {0} /\ t.place[2] \in Nat \ {0}
  BY DEF GroupsTyped
<1>2. t.place[1] \in DOMAIN t.groups
  BY <1>1, LenProperties
<1>3. GroupResults(t) \in Seq(Hits)
  <2>1. t.groups[t.place[1]] \in Groups
    BY <1>1, <1>2, ElementOfSeq
  <2> QED
    BY <2>1 DEF GroupResults, Groups
<1>4. t.place[2] \in DOMAIN GroupResults(t)
  <2>1. Len(GroupResults(t)) \in Nat /\ DOMAIN GroupResults(t) = 1 .. Len(GroupResults(t))
    BY <1>3, LenProperties
  <2> QED
    BY <1>1, <2>1 DEF Enough
<1>5. Gained(t) < ExcerptLimit
  <2>1. Gained(t) \in Nat /\ ExcerptLimit \in Nat
    BY <1>3, ExcerptsFinite, SearchAssumption DEF Gained
  <2> QED
    BY <2>1 DEF Enough
<1> QED
  BY <1>2, <1>4, <1>5 DEF InPlace

(* The end, with what there is.                                            *)
LEMMA ConclusionWell ==
  ASSUME NEW t, HeardWell(t), GroupsWell(t), t = [f \in Fields |-> t[f]], t.stage = "enriching"
  PROVE  LET u == Ended(t, Conclusion(t))
         IN  HeardWell(u) /\ GroupsWell(u) /\ u.stage = "ended"
<1> DEFINE u == Ended(t, Conclusion(t))
<1>1. /\ u.stage = "ended"
      /\ u.heard = t.heard /\ u.errors = t.errors /\ u.query = t.query /\ u.queries = t.queries
      /\ u.backend = t.backend /\ u.endpoint = t.endpoint /\ u.erred = t.erred
      /\ u.groups = t.groups /\ u.place = t.place /\ u.cache = t.cache
  BY DEF Ended, Fields
<1> HIDE DEF u
<1>2. ~Requesting(u)
  BY <1>1 DEF Requesting
<1>3. SameAsked(t, u)
  BY <1>1, <1>2 DEF SameAsked, Seeking, Enriching
<1>4. HeardWell(u)
  BY <1>3, HeardSame
<1>5. GroupsTyped(u)
  BY <1>1 DEF GroupsWell, GroupsTyped
<1>6. ToldOnce(u)
  BY <1>1 DEF GroupsWell, ToldOnce
<1>7. ExcerptsLimited(u)
  BY <1>1 DEF GroupsWell, ExcerptsLimited
<1>8. PageWell(u)
  BY <1>2 DEF PageWell
<1> QED
  BY <1>1, <1>4, <1>5, <1>6, <1>7, <1>8 DEF GroupsWell, u

LEMMA EnrichNextWell ==
  ASSUME SearchInv, HonestInv, EnrichNext
  PROVE  HonestInv'
<1>1. /\ s.stage = "enriching" /\ s.page = NoPage /\ s.action = "search" /\ s = [f \in Fields |-> s[f]]
      /\ HeardWell(s) /\ GroupsWell(s) /\ LateWell(s, late) /\ UNCHANGED <<client, late>>
  BY DEF EnrichNext, SearchInv, HonestInv, Sound
<1>2. s'.stage # "off" /\ (Here => late' = <<>>) /\ LateOnce(late') /\ LatePages(s, late')
  BY <1>1, EnrichNextSound DEF HonestInv, LateWell
<1>3. ASSUME HeardWell(s'), GroupsWell(s'), LateNow(s', late'), s'.action = s.action
      PROVE  HonestInv'
  <2>1. LateWell(s', late')
    BY <1>2, <1>3 DEF LateWell, LatePages
  <2> QED
    BY <1>1, <1>2, <1>3, <2>1, Later
(* What is late went to pages that are known.                              *)
<1>4. /\ ~Seeking(s) /\ ~Seeking(s')
      /\ late # <<>> => \A i \in DOMAIN late : late[i].query = s.query /\ late[i].page \in DOMAIN s.cache
  <2>1. ~Seeking(s)
    BY <1>1 DEF Seeking, Requesting
  <2>2. ~Seeking(s')
    <3>1. SearchInv'
      BY EnrichNextSound
    <3> QED
      BY <1>1 DEF EnrichNext, Seeking, Requesting, Ended, WithExcerpt, Fields
  <2> QED
    BY <1>1, <2>1, <2>2 DEF LateWell, LateNow
<1>5. CASE s.place[1] > Len(s.groups)
  <2>1. s' = Ended(s, Conclusion(s))
    BY <1>5 DEF EnrichNext
  <2>2. HeardWell(s') /\ GroupsWell(s') /\ s'.stage = "ended" /\ s'.action = s.action
    BY <1>1, <2>1, ConclusionWell DEF Ended, Fields
  <2>3. LateNow(s', late')
    BY <2>2 DEF LateNow
  <2> QED
    BY <1>3, <2>2, <2>3
<1>6. CASE ~(s.place[1] > Len(s.groups))
  <2> DEFINE target == Address[GroupResults(s)[s.place[2]].url]
  <2>1. s.place[1] <= Len(s.groups) /\ s.place \in [1 .. 2 -> Nat \ {0}] /\ GroupsTyped(s)
    <3>1. s.groups \in Seq(Groups) /\ s.place \in [1 .. 2 -> Nat \ {0}]
      BY <1>1 DEF GroupsWell, GroupsTyped
    <3>2. Len(s.groups) \in Nat /\ s.place[1] \in Nat
      BY <3>1, LenProperties
    <3> QED
      BY <1>1, <1>6, <3>1, <3>2 DEF GroupsWell
  <2>2. \/ Enough(s) /\ s' = [s EXCEPT !.place = <<@[1] + 1, 1>>]
        \/ ~Enough(s) /\ s' = [s EXCEPT !.place[2] = @ + 1]
        \/ ~Enough(s) /\ target \in DOMAIN s.cache /\ s' = WithExcerpt(s, s.cache[target])
        \/ /\ ~Enough(s) /\ target # NoPage /\ target \notin DOMAIN s.cache
           /\ s' = [s EXCEPT !.stage = "ready", !.page = target, !.attempt = 1]
    BY <1>6 DEF EnrichNext
  <2> HIDE DEF target
  <2>3. CASE s' = [s EXCEPT !.place = <<@[1] + 1, 1>>] \/ s' = [s EXCEPT !.place[2] = @ + 1]
    <3>1. s'.place \in [1 .. 2 -> Nat \ {0}]
      <4> DEFINE P == Nat \ {0}
      <4>1. s.place \in [1 .. 2 -> P] /\ 1 \in P /\ s.place[1] + 1 \in P /\ s.place[2] + 1 \in P
        BY <2>1
      <4> HIDE DEF P
      <4>2. s'.place = <<s.place[1] + 1, 1>> \/ s'.place = [s.place EXCEPT ![2] = s.place[2] + 1]
        BY <1>1, <2>3 DEF Fields
      <4>3. s'.place \in [1 .. 2 -> P]
        BY <4>1, <4>2
      <4> QED
        BY <4>3 DEF P
    <3>2. Moves(s, s')
      BY <1>1, <2>3, <3>1 DEF Moves, Fields
    <3>3. HeardWell(s') /\ GroupsWell(s')
      BY <1>1, <3>2, MovesWell
    <3>4. LateNow(s', late')
      BY <1>1, <1>4, <3>2 DEF LateNow, Moves
    <3> QED
      BY <1>3, <3>2, <3>3, <3>4 DEF Moves
  <2>4. CASE ~Enough(s) /\ target \in DOMAIN s.cache /\ s' = WithExcerpt(s, s.cache[target])
    <3>1. InPlace(s) /\ Gained(s) < ExcerptLimit
      BY <2>1, <2>4, NotEnough
    <3>2. s.cache[target] \in Flags
      BY <2>1, <2>4 DEF GroupsTyped
    <3>3. Enriched(s, s')
      BY <1>1, <2>1, <2>4, <3>1, <3>2, WithExcerptFields
    <3>4. GroupsWell(s') /\ HeardWell(s')
      BY <1>1, <3>1, <3>3, EnrichedGroups, EnrichedHeard DEF Enriching
    <3>5. LateNow(s', late')
      BY <1>1, <1>4, <3>3 DEF LateNow, Enriched
    <3> QED
      BY <1>3, <3>3, <3>4, <3>5 DEF Enriched
  <2>5. CASE /\ ~Enough(s) /\ target # NoPage /\ target \notin DOMAIN s.cache
             /\ s' = [s EXCEPT !.stage = "ready", !.page = target, !.attempt = 1]
    <3>1. InPlace(s) /\ Gained(s) < ExcerptLimit
      BY <2>1, <2>5, NotEnough
    <3>2. /\ s'.stage = "ready" /\ s'.page = target /\ s'.action = "search" /\ s'.outcome = s.outcome
          /\ s'.heard = s.heard /\ s'.errors = s.errors /\ s'.query = s.query
          /\ s'.queries = s.queries /\ s'.backend = s.backend /\ s'.endpoint = s.endpoint
          /\ s'.erred = s.erred
          /\ s'.groups = s.groups /\ s'.place = s.place /\ s'.cache = s.cache
      BY <1>1, <2>5 DEF Fields
    <3>3. SameAsked(s, s')
      BY <1>1, <2>5, <3>2 DEF SameAsked, Seeking, Enriching, Requesting
    <3>4. HeardWell(s')
      BY <1>1, <3>3, HeardSame
    <3>5. GroupsTyped(s') /\ ToldOnce(s') /\ ExcerptsLimited(s')
      <4>1. s'.groups = s.groups /\ s'.place = s.place /\ s'.cache = s.cache
        BY <3>2
      <4>2. GroupsTyped(s) /\ ToldOnce(s) /\ ExcerptsLimited(s)
        BY <1>1 DEF GroupsWell
      <4>3. GroupsTyped(s')
        BY <4>1, <4>2 DEF GroupsTyped
      <4>4. ToldOnce(s')
        BY <4>1, <4>2 DEF ToldOnce
      <4>5. ExcerptsLimited(s')
        BY <4>1, <4>2 DEF ExcerptsLimited
      <4> QED
        BY <4>3, <4>4, <4>5
    <3>6. PageWell(s')
      BY <2>5, <3>1, <3>2 DEF PageWell, InPlace, Gained, GroupResults, target
    <3>7. LateNow(s', late')
      BY <1>1, <1>4, <3>2 DEF LateNow
    <3> QED
      BY <1>1, <1>3, <3>2, <3>4, <3>5, <3>6, <3>7 DEF GroupsWell
  <2> QED
    BY <2>2, <2>3, <2>4, <2>5
<1> QED
  BY <1>5, <1>6

LEMMA InitHonest == Init => HonestInv
<1> SUFFICES ASSUME Init PROVE HonestInv
  OBVIOUS
<1>1. /\ client = "here" /\ late = <<>> /\ s.stage = "off" /\ s.outcome = "none" /\ s.queries = 0
      /\ s.errors = {} /\ s.groups = <<>> /\ s.place = <<1, 1>> /\ s.cache = <<>> /\ s.heard = {}
      /\ s.page = NoPage
  BY DEF Init, InitSearch
<1>2. s.erred = FALSE
  BY DEF Init, InitSearch
<1>3. HeardWell(s)
  BY <1>1 DEF HeardWell, HeardTyped, HeardBefore, NoneSkipped, ErredHeard, LostAlone, QueriesJudged,
              AllAsked, FirstFound, Seeking, Requesting, Enriching
<1>4. GroupsWell(s)
  <2>1. s.groups \in Seq(Groups) /\ DOMAIN s.groups = {} /\ DOMAIN s.cache = {}
    BY <1>1
  <2>2. s.place \in [1 .. 2 -> Nat \ {0}]
    BY <1>1
  <2> QED
    BY <1>1, <2>1, <2>2 DEF GroupsWell, GroupsTyped, ToldOnce, ExcerptsLimited, PageWell
<1> QED
  BY <1>1, <1>2, <1>3, <1>4, NoneLate DEF HonestInv

LEMMA NextHonest == SearchInv /\ Started /\ HonestInv /\ [Next]_vars => HonestInv'
<1> SUFFICES ASSUME SearchInv, Started, HonestInv, [Next]_vars PROVE HonestInv'
  OBVIOUS
<1>1. CASE UNCHANGED search
  BY <1>1 DEF search, HonestInv, HeardWell, HeardTyped, HeardBefore, NoneSkipped, ErredHeard,
              LostAlone, Here
<1>2. CASE UpstreamCalls /\ ~UNCHANGED search
  <2>1. (\E call \in SearchCalls : StartSearch(call)) /\ s.stage = "off"
    BY <1>2 DEF UpstreamCalls, Started
  <2> QED
    BY <2>1, StartWell
<1>3. CASE Declare \/ ReadNext \/ Post \/ UpstreamEnds \/ FollowUp \/ Answered \/ UNCHANGED vars
  BY <1>1, <1>3 DEF Declare, ReadNext, Post, UpstreamEnds, FollowUp, Answered, vars
<1>4. CASE Search
  BY <1>4, AskWell, ResponseWell, SameRequestWell, EnrichNextWell DEF Search, Searching
<1>5. CASE LateExcerpt \/ ClientGoes
  BY <1>5, SameRequestWell, LeavingWell DEF LateExcerpt, ClientGoes
<1> QED
  BY <1>1, <1>2, <1>3, <1>4, <1>5 DEF Next
-----------------------------------------------------------------------------
(* The inductive invariant of what a search hears, tells and asks: answers *)
(* come in the order of the endpoints, and none of a query's is skipped    *)
(* until one has results; what was asked late fits to where the call is.   *)
THEOREM HonestInvariant == Spec => []HonestInv
BY SearchInvariant, InitHonest, NextHonest, PTL DEF Spec

(* The model is told what the back ends said: an error is told only for a  *)
(* query all of whose endpoints were asked in vain and one failed, none    *)
(* for the client's leaving, no result twice (executeWebSearch,            *)
(* executeSearch, enrichSearchResultGroups).                               *)
THEOREM AnswersHonest == Spec => []AnswerHonest
<1>1. SearchInv /\ HonestInv => AnswerHonest
  <2> SUFFICES ASSUME SearchInv, HonestInv PROVE AnswerHonest
    OBVIOUS
  <2>1. HeardWell(s) /\ GroupsWell(s) /\ Sound(s)
    BY DEF SearchInv, HonestInv
  <2>2. OutcomeEarned(s)
    BY DEF SearchInv, Sound, Excused, OutcomeEarned
  <2>3. FirstFound(s) /\ ToldOnce(s) /\ ExcerptsLimited(s)
    BY <2>1 DEF HeardWell, GroupsWell
  <2>4. ErrorsEarned(s)
    <3>1. \A q \in s.errors : ErrorOf(s, q)
      BY <2>1 DEF HeardWell, QueriesJudged
    <3>2. ASSUME s.outcome = "empty", NEW q \in 1 .. s.queries
          PROVE  "found" \in WhatHeard(s, q) \/ (Exhausted(s, q) /\ WhatHeard(s, q) = {"empty"})
      <4>1. s.errors = {} /\ s.queries < s.query /\ s.queries \in Nat /\ s.query \in Nat
        BY <2>1, <2>2, <3>2 DEF OutcomeEarned, HeardWell, AllAsked, Enriching, Sound
      <4>2. q < s.query
        BY <4>1
      <4>3. Judged(s, q)
        BY <2>1, <4>2 DEF HeardWell, QueriesJudged
      <4> QED
        BY <4>1, <4>3 DEF Judged
    <3> QED
      BY <3>1, <3>2 DEF ErrorsEarned, ErrorOf
  <2> QED
    BY <2>2, <2>3, <2>4 DEF AnswerHonest
<1> QED
  BY <1>1, SearchInvariant, HonestInvariant, PTL

(* Once the client has left, a search goes to no place twice and starts no *)
(* other query (executeSearch, doRequestWithRetry).                        *)
THEOREM FewLate == Spec => []FewAfterLeaving
<1>1. SearchInv /\ HonestInv => FewAfterLeaving
  <2> SUFFICES ASSUME SearchInv, HonestInv PROVE FewAfterLeaving
    OBVIOUS
  <2>1. \A i, j \in DOMAIN late : i # j => late[i] # late[j] /\ late[i].query = late[j].query
    BY DEF HonestInv, LateWell, LateOnce
  <2>2. s.action = "search" =>
          \A i \in DOMAIN late : late[i].page \in {NoPage} \union {Address[url] : url \in Allowed}
    BY DEF HonestInv, LateWell, LatePages, PagesOfResults
  <2>3. s.action # "search" => Len(late) <= 1
    <3>1. Len(late) \in Nat
      BY AppendedToAny DEF SearchInv, PageOnce
    <3> QED
      BY <3>1 DEF SearchInv, PageOnce
  <2> QED
    BY <2>1, <2>2, <2>3 DEF FewAfterLeaving
<1> QED
  BY <1>1, SearchInvariant, HonestInvariant, PTL
-----------------------------------------------------------------------------
(* A request from its first step to its last.                              *)

(* The handler is in the search exactly while a web search is what the     *)
(* upstream called and the answer is not there.                            *)
Handling ==
  /\ pc \in {"tools", "input", "posted", "searching", "ended"}
  /\ pc = "searching" <=> returned.kind = "web_search" /\ pc # "ended"

LEMMA NextHandling ==
  ASSUME Handling, [Next]_vars
  PROVE  Handling'
<1>1. CASE UpstreamCalls
  <2>1. pc' = (IF returned'.kind = "web_search" THEN "searching" ELSE "ended")
    BY <1>1 DEF UpstreamCalls
  <2> QED
    BY <2>1 DEF Handling
<1>2. CASE returned' = returned /\ (pc' = pc \/ pc' = "ended" \/ (pc = "tools" /\ pc' = "input")
                                             \/ (pc = "input" /\ pc' = "posted"))
  BY <1>2 DEF Handling
<1> QED
  BY <1>1, <1>2 DEF Next, Declare, ReadNext, Post, UpstreamEnds, Search, LateExcerpt, ClientGoes, FollowUp,
                    Answered, vars

(* Every state of a request has its type: the tools known are those that   *)
(* are declared, messages have roles a Chat request may have and only      *)
(* assistants call, and nothing is held back when the request is sent      *)
(* (buildChatRequest, translateInput, runWebSearchLoop).                   *)
THEOREM TypeCorrect == Spec => []TypeOK
<1>1. Init => Handling
  <2>1. NoTool.kind = "none"
    BY DEF NoTool, Tool
  <2> QED
    BY <2>1 DEF Init, Handling
<1>2. Spec => []Handling
  BY <1>1, NextHandling, PTL DEF Spec
<1>3. ASSUME Translated, Handling, SearchTypeOK PROVE TypeOK
  <2>1. Typed /\ Rest
    BY <1>3 DEF Translated
  <2>2. DOMAIN names.byKey = {entry.tool : entry \in ToSet(sent)} /\ (images # <<>> => pending = Nothing)
    BY <2>1 DEF Typed, Recorded, Registered, Registry
  <2>3. \A message \in ToSet(Outgoing) : /\ message.role \in Roles
                                         /\ message.calls # <<>> => message.role = "assistant"
    BY <1>3, OutgoingParts DEF WellTold, Ordinary, ToSet
  <2>4. pc \in {"posted", "searching", "ended"} => pending = Nothing /\ images = <<>> /\ messages # <<>>
    BY <2>1 DEF Rest, Reading
  <2> QED
    BY <1>3, <2>2, <2>3, <2>4 DEF TypeOK, Handling
<1> QED
  BY <1>2, <1>3, TranslationInvariant, SearchTypeCorrect, PTL
=============================================================================
