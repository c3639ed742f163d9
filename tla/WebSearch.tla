------------------------------ MODULE WebSearch ------------------------------
(***************************************************************************)
(* Executing one web_search call (web_search.go, executeWebSearch; the     *)
(* back ends of search_backend.go and search_providers.go): each query is  *)
(* put to one endpoint after the other until one has results, each request *)
(* is tried up to three times, and pages of results are fetched for        *)
(* excerpts.  The client may leave at any time; its context is that of the *)
(* requests, so none is sent after that.                                   *)
(*                                                                         *)
(* s holds the locals of the calls in progress; an operator on it returns  *)
(* them as a piece of the code leaves them.                                *)
(***************************************************************************)
EXTENDS Integers, FiniteSets, SequencesExt, Maps

CONSTANTS
  Endpoints,    \* how many each back end has, in the order they are asked
  Results,      \* URLs that results may have
  Allowed,      \* those in an allowed domain
  Address,      \* the page each leads to: URLs may differ in case only
  ResultLimit,  \* webSearchResultLimit
  ExcerptLimit, \* webSearchPageExcerptResultLimit
  MaxResults    \* bound: results of one endpoint

ASSUME SearchAssumption ==
  /\ Endpoints \in Seq(Nat \ {0}) /\ Endpoints # <<>>
  /\ Allowed \subseteq Results /\ DOMAIN Address = Results
  /\ {ResultLimit, ExcerptLimit, MaxResults} \subseteq Nat

VARIABLES
  client,  \* "here" or "gone"
  s,
  late     \* where requests went that were begun after the client had left

search == <<client, s, late>>

NoPage == "no page"

InitSearch ==
  /\ client = "here"
  /\ s = [stage |-> "off", action |-> "none", queries |-> 0,
          query |-> 1, backend |-> 1, endpoint |-> 1, attempt |-> 1,
          page |-> NoPage, overdue |-> FALSE,
          erred |-> FALSE,     \* some endpoint failed for this query
          errors |-> {},       \* searchErrors, by query
          groups |-> <<>>,     \* for each query with any, the results kept, with and without excerpt
          place |-> <<1, 1>>,  \* group and result of it that is to be enriched
          cache |-> <<>>,      \* which pages gave an excerpt
          outcome |-> "none",
          heard |-> {}]        \* what each endpoint answered in the end
  /\ late = <<>>

Here == client = "here"

(* An excerpt's page has a context of its own, with a timeout.             *)
ContextDone == ~Here \/ s.overdue

Ended(t, outcome) == [t EXCEPT !.stage = "ended", !.outcome = outcome]
-----------------------------------------------------------------------------
(* Pages for excerpts (enrichSearchResultGroups).                          *)

GroupResults(t) == t.groups[t.place[1]].results

WithExcerpts(results) == {i \in DOMAIN results : results[i].excerpt}

Gained(t) == Cardinality(WithExcerpts(GroupResults(t)))

Enough(t) == t.place[2] > Len(GroupResults(t)) \/ Gained(t) >= ExcerptLimit

Conclusion(t) ==
  CASE t.groups # <<>> -> "results"
    [] t.groups = <<>> /\ t.errors # {} -> "failure"
    [] OTHER -> "empty"

WithExcerpt(t, got) ==
  [t EXCEPT !.groups[t.place[1]].results[t.place[2]].excerpt = got,
            !.cache = Put(@, Address[GroupResults(t)[t.place[2]].url], got),
            !.place[2] = @ + 1, !.stage = "enriching", !.page = NoPage, !.overdue = FALSE]

(* The next result that is to get an excerpt; each page is fetched once.   *)
EnrichNext ==
  /\ s.stage = "enriching"
  /\ UNCHANGED <<client, late>>
  /\ IF s.place[1] > Len(s.groups)
       THEN s' = Ended(s, Conclusion(s))
       ELSE IF Enough(s)
       THEN s' = [s EXCEPT !.place = <<@[1] + 1, 1>>]
       ELSE LET target == Address[GroupResults(s)[s.place[2]].url] IN
            s' = CASE target = NoPage -> [s EXCEPT !.place[2] = @ + 1]
                   [] target \in DOMAIN s.cache -> WithExcerpt(s, s.cache[target])
                   [] OTHER -> [s EXCEPT !.stage = "ready", !.page = target, !.attempt = 1]
-----------------------------------------------------------------------------
(* Queries and back ends.                                                  *)

(* Where a request goes.                                                   *)
Target(t) == [query |-> t.query, backend |-> t.backend, endpoint |-> t.endpoint, page |-> t.page]

Hear(t, what) == [t EXCEPT !.heard = @ \union {[from |-> Target(t), what |-> what]}]

NextQuery(t) ==
  [t EXCEPT !.stage = IF t.query < t.queries THEN "ready" ELSE "enriching",
            !.query = @ + 1, !.backend = 1, !.endpoint = 1, !.attempt = 1, !.erred = FALSE]

NextEndpoint(t) ==
  LET last == t.endpoint = Endpoints[t.backend] IN
  [t EXCEPT !.backend = IF last THEN @ + 1 ELSE @, !.endpoint = IF last THEN 1 ELSE @ + 1,
            !.attempt = 1, !.stage = "ready"]

(* executeSearch: an error ends the search if the client has left.         *)
QueryFruitless(t) ==
  CASE t.erred /\ Here -> NextQuery([t EXCEPT !.errors = @ \union {t.query}])
    [] t.erred /\ ~Here -> Ended(t, "cancelled")
    [] OTHER -> NextQuery(t)

(* Mutant: an endpoint that found nothing makes errors before forgotten.   *)
FruitlessForgetting(t, failed) ==
  LET told == [t EXCEPT !.erred = failed] IN
  IF t.backend = Len(Endpoints) /\ t.endpoint = Endpoints[t.backend]
    THEN QueryFruitless(told) ELSE NextEndpoint(told)

(* An endpoint failed or found nothing: the next one, of this back end or  *)
(* the next, is asked in its place.                                        *)
Fruitless(t, failed) ==
  LET told == [t EXCEPT !.erred = @ \/ failed] IN
  IF t.backend = Len(Endpoints) /\ t.endpoint = Endpoints[t.backend]
    THEN QueryFruitless(told) ELSE NextEndpoint(told)

Known(t) == UNION {{t.groups[g].results[i].url : i \in DOMAIN t.groups[g].results} :
                     g \in DOMAIN t.groups}

(* The result is allowed, was not found before, and there is room for it.  *)
Keeps(t, kept, url) ==
  url \in Allowed \ (Known(t) \union ToSet(kept)) /\ Len(kept) < ResultLimit

Fresh(t, results) ==
  LET kept[i \in 0 .. Len(results)] ==
        CASE i = 0 -> <<>>
          [] i > 0 /\ Keeps(t, kept[i - 1], results[i]) -> Append(kept[i - 1], results[i])
          [] OTHER -> kept[i - 1]
  IN  kept[Len(results)]

Found(t, results) ==
  LET kept == Fresh(t, results)
      group == [query |-> t.query,
                results |-> [i \in DOMAIN kept |-> [url |-> kept[i], excerpt |-> FALSE]]]
  IN  NextQuery(IF kept = <<>> THEN t ELSE [t EXCEPT !.groups = Append(@, group)])
-----------------------------------------------------------------------------
(* One request, with its retries (doRequestWithRetry).                     *)

(* Mutant: one request too many.                                           *)
LastTryOfFour(t) == t.action # "search" \/ t.attempt = 4

(* What open_page and find_in_page fetch is not tried again.               *)
LastTry(t) == t.action # "search" \/ t.attempt = 3

(* executeWebSearch: a failure is told to the model, unless the client has *)
(* left.                                                                   *)
Failed(t) ==
  CASE t.page = NoPage /\ t.queries > 0 -> Fruitless(Hear(t, IF Here THEN "failed" ELSE "lost"), TRUE)
    [] t.page # NoPage /\ t.action = "search" -> WithExcerpt(t, FALSE)
    [] OTHER -> Ended(t, IF Here THEN "failure" ELSE "cancelled")

Backoff(t) == [t EXCEPT !.stage = "backoff"]

(* An action without a query or URL fails at once.                         *)
StartSearch(call) ==
  LET started == [s EXCEPT !.stage = "ready", !.action = call.type, !.queries = call.queries,
                           !.page = call.page]
  IN  /\ s' = IF call.queries = 0 /\ call.page = NoPage THEN Ended(started, "failure") ELSE started
      /\ UNCHANGED <<client, late>>

(* Mutant: no one looks whether the client is there.                       *)
RequestRetried(t) == IF LastTry(t) THEN Failed(t) ELSE Backoff(t)

RequestFailed(t) == IF LastTry(t) \/ ContextDone THEN Failed(t) ELSE Backoff(t)

(* A request is begun; if its context is done, it fails at once.           *)
Ask ==
  /\ s.stage = "ready"
  /\ s' = IF ContextDone THEN RequestFailed(s) ELSE [s EXCEPT !.stage = "asked"]
  /\ late' = IF Here THEN late ELSE Append(late, Target(s))
  /\ UNCHANGED client

RequestError ==
  /\ s.stage = "asked"
  /\ s' = RequestFailed(s)
  /\ UNCHANGED <<client, late>>

(* The body breaks off, or the status is one to try again for.             *)
ResponseToRetry ==
  /\ s.stage = "asked"
  /\ s' = IF LastTry(s) THEN Failed(s) ELSE Backoff(s)
  /\ UNCHANGED <<client, late>>

(* Another status, no HTML, or a challenge.                                *)
ResponseUseless ==
  /\ s.stage = "asked"
  /\ s' = Failed(s)
  /\ UNCHANGED <<client, late>>

ResponseEmpty ==
  /\ s.stage = "asked" /\ s.page = NoPage
  /\ s' = Fruitless(Hear(s, "empty"), FALSE)
  /\ UNCHANGED <<client, late>>

ResponseResults ==
  /\ s.stage = "asked" /\ s.page = NoPage
  /\ \E results \in BoundedSeq(Results, MaxResults) \ {<<>>} :
       s' = Found(Hear(s, "found"), results)
  /\ UNCHANGED <<client, late>>

(* Without text, an excerpt is none, a page that was asked for says so.    *)
ResponsePage ==
  /\ s.stage = "asked" /\ s.page # NoPage
  /\ \/ s.action = "search" /\ \E text \in BOOLEAN : s' = WithExcerpt(s, text)
     \/ s.action # "search" /\ s' = Ended(s, "page")
  /\ UNCHANGED <<client, late>>

(* The timer, or the context.                                              *)
EndBackoff ==
  /\ s.stage = "backoff"
  /\ s' = [s EXCEPT !.stage = "ready", !.attempt = @ + 1]
  /\ UNCHANGED <<client, late>>

PageOverdue ==
  /\ s.page # NoPage /\ s.action = "search" /\ ~s.overdue /\ s.stage \in {"asked", "backoff"}
  /\ s' = [s EXCEPT !.overdue = TRUE]
  /\ UNCHANGED <<client, late>>

ClientLeaves ==
  /\ Here /\ s.stage # "ended"
  /\ client' = "gone"
  /\ UNCHANGED <<s, late>>

Searching ==
  \/ Ask \/ RequestError \/ ResponseToRetry \/ ResponseUseless \/ ResponseEmpty \/ ResponseResults
  \/ ResponsePage \/ EndBackoff \/ EnrichNext
-----------------------------------------------------------------------------
(* The locals have their types and attempts are bounded.                   *)
SearchTypeOK ==
  /\ client \in {"here", "gone"}
  /\ s.stage \in {"off", "ready", "asked", "backoff", "enriching", "ended"}
  /\ s.outcome \in {"none", "results", "empty", "failure", "cancelled", "page"}
  /\ s.stage = "ended" <=> s.outcome # "none"
  /\ s.attempt \in 1 .. 3 /\ s.errors \subseteq 1 .. s.queries
  /\ s.stage \in {"ready", "asked"} /\ s.page = NoPage =>
       s.backend \in DOMAIN Endpoints /\ s.endpoint \in 1 .. Endpoints[s.backend]

(* The endpoints are asked in this order.                                  *)
Before(one, other) ==
  \/ one.backend < other.backend
  \/ one.backend = other.backend /\ one.endpoint < other.endpoint

HeardFor(t, q) == {h \in t.heard : h.from.query = q}

WhatHeard(t, q) == {h.what : h \in HeardFor(t, q)}

(* Every endpoint was asked and none had results.                          *)
Exhausted(t, q) ==
  /\ "found" \notin WhatHeard(t, q)
  /\ \A b \in DOMAIN Endpoints : \A e \in 1 .. Endpoints[b] :
       \E h \in HeardFor(t, q) : h.from.backend = b /\ h.from.endpoint = e

(* The failures that are told are no one's leaving, and have nothing but   *)
(* failures and empty answers behind them; where nothing was found, and no *)
(* failure is told, no endpoint failed.                                    *)
ErrorsEarned(t) ==
  /\ \A q \in t.errors :
       Exhausted(t, q) /\ "failed" \in WhatHeard(t, q) /\ "lost" \notin WhatHeard(t, q)
  /\ t.outcome = "empty" => \A q \in 1 .. t.queries :
       "found" \in WhatHeard(t, q) \/ (Exhausted(t, q) /\ WhatHeard(t, q) = {"empty"})

(* Each endpoint is heard once, and after results none is asked.           *)
FirstFound(t) ==
  \A h, k \in t.heard : h.from.query = k.from.query /\ h # k =>
    \/ Before(h.from, k.from) /\ h.what # "found"
    \/ Before(k.from, h.from) /\ k.what # "found"

ToldOnce(t) ==
  \A g, h \in DOMAIN t.groups : \A i \in DOMAIN t.groups[g].results, j \in DOMAIN t.groups[h].results :
    t.groups[g].results[i].url = t.groups[h].results[j].url => g = h /\ i = j

ExcerptsLimited(t) ==
  \A g \in DOMAIN t.groups : Cardinality(WithExcerpts(t.groups[g].results)) <= ExcerptLimit

(* A search fails only with an error and nothing found, finds nothing only *)
(* without either, and ends in silence only if the client has left.        *)
OutcomeEarned(t) ==
  /\ t.outcome = "failure" /\ t.queries > 0 => t.groups = <<>> /\ t.errors # {}
  /\ t.outcome = "results" => t.groups # <<>>
  /\ t.outcome = "empty" => t.groups = <<>> /\ t.errors = {}
  /\ t.outcome = "cancelled" => ~Here

(* What the model is told of a search is what the back ends said: results  *)
(* if any were left, an error only if nothing was and some query had all   *)
(* endpoints without results and one failing, nothing found only if no     *)
(* failure is behind it.  A failure that is due to the client's leaving is *)
(* never told.  Results come from the first endpoint that had any, none is *)
(* told twice, and no query gets more excerpts than it may have.           *)
AnswerHonest ==
  ErrorsEarned(s) /\ OutcomeEarned(s) /\ FirstFound(s) /\ ToldOnce(s) /\ ExcerptsLimited(s)

(* Once the client has left, nothing is tried again: what is begun goes to *)
(* the endpoints left for the query in progress, or to pages of results,   *)
(* each but once, and fails at once; queries that are left are given up.   *)
(* A page is not fetched twice if it was found under several URLs, and one *)
(* the model asks for is fetched once.                                     *)
FewAfterLeaving ==
  /\ \A i, j \in DOMAIN late : i # j => late[i] # late[j] /\ late[i].query = late[j].query
  /\ s.action = "search" =>
       \A i \in DOMAIN late : late[i].page \in {NoPage} \union {Address[url] : url \in Allowed}
  /\ s.action # "search" => Len(late) <= 1
=============================================================================
