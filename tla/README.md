# codex-adapter: a TLA+ model

This directory models the two programs of the repository: `codex-adapter`, which
serves the OpenAI Responses API on top of a Chat Completions upstream, and
`cmd/load-balancer`, which spreads requests over several upstream providers. TLC checks
small instances. TLAPS proves, for every value of the constants, the safety and action
properties of the load balancer, that it implements an abstract contract, its marker scan,
the adapter's replay caches, that a translated request keeps its history, calls and tools
apart and in order, that the model is told of a web search what the back ends said, and that the events of a response
are in order and its follow-ups complete. Source references are to `src/`.

## 1. Inventory

| part | state | operations | hard behaviour |
| --- | --- | --- | --- |
| provider pool (`cmd/load-balancer/main.go` 363-1261) | providers with generation, models, busy count, failures, cooldown, block; model index; blocked IDs | startup, reconcile, replace or clear a model list, block, record failure or success, acquire, release, prune | every method is atomic under `mu`, but callers combine several; shells are replaced under their users; refs carry a generation |
| request handling (1522-1793) | per request: candidates, pass, tried set, last error response | arrival, acquire, post, relay, record, release, retry, answer | client leaves at any time; marker after a partial reply; cooldowns, blocks and reloads between steps |
| refresh (254-292, 845-897) | targets, `refreshMu` | reload config, fetch each model list | fetches run unlocked against a table that may change |
| marker scan (2001-2054) | bytes held back, bytes relayed | copy with a look-ahead of one marker | marker split over reads, write errors, partial commit |
| Responses stream (`adapter.go` 1858-2730) | active item, tool states, text, reasoning, output | one upstream chunk at a time | order of events, exactly one end, interleaved items |
| adapter turn (`web_search.go` 101-182) | messages, follow-up count | generate, search, follow up | bounded follow-ups, one step failing |
| replay caches (`adapter.go` 419-534) | three bounded caches in insertion order | remember, look up | shared by concurrent requests, eviction |
| tool names (`adapter.go` 926-1168) | per request: names given, both ways | register, look up | different tools whose names become alike |
| request translation (`adapter.go` 1170-1518) | per request: pending assistant message, delayed images, calls rendered | one history item at a time | order and pairing of calls and outputs, images that have to wait |
| search (`web_search.go` 184-922, `search_backend.go`, `search_providers.go`) | locals of one call | ask, retry, fall back, fetch pages for excerpts | bounded retries, errors on the way, a client that leaves, what the model is told |
| debug recorder (`debug.go`), flags, URLs, logging | files, none | write | out of scope: pure I/O and formatting |

What makes each part correct:

- pool: index, flags and sets agree; busy counts are exact; a cooldown is earned; a ref
  names one shell for ever;
- requests: every acquired provider is given back; bounded retries; no answer twice and
  none missing; no retry after the reply began; blocked providers stay out; tiers and idle
  providers are respected;
- refresh: no list is stored with a connection it was not fetched over; it ends;
- scan: exactly what precedes the marker is relayed, however reads split it;
- stream: every item is opened, fed and closed in order, and the stream ends once;
- turn and caches: bounded follow-ups, each with the results of its own calls; the newest
  entries kept and replayed in order;
- tool names and translation: different names lead back to the tools declared; nothing of a
  history is lost, doubled or reordered; every tool message has its call right before it;
- search: retries end, and soon once the client has left; what the model is told is what the
  back ends said.

## 2. Modules

### Load balancer

`ProviderPool` has the pool's variables and one operator per method. `LoadBalancer`
extends it with the goroutines: one handler per request, the refresh, the operator's
prune and the clock. `RequestService` is the abstract contract of one request;
`LoadBalancer` implements it under the mapping at its end. `MCLoadBalancer` gives the
instances. `LoadBalancer_proofs` has the lemmas on the pool's methods, then the inductive
invariant, and `Requests_proofs` what holds of every request and the refinement.

| variable | code |
| --- | --- |
| `providers` | `providerPool.providers` with `providerByID`: a function on the configured IDs |
| `modelProviders`, `blockedProviderIDs`, `nextProviderGeneration` | the fields of the same name; the index is a function to sets of refs (order is shuffled before use) |
| `coolingLeft` | `cooldownUntil - now`, 0 when zero or past |
| `pc`, `ordered`, `tried`, `pass`, `attempt`, `provider`, `lastHTTP` | the locals of `handleAPIRequest` and the place it is at |
| `holding` | the release function has not run (`sync.Once`) |
| `outcome` | what the attempt in progress came to |
| `reply` | what was written to the `http.ResponseWriter` |
| `refresh` | the refresh that holds `refreshMu` |

A URL and key are one member of `Connections`, and `Serves[c]` is what the server behind
`c` may list. Each pool method is one step because it holds `mu` from start to end; between
two methods a handler holds no lock, so every other actor may run there.

`LoadBalancer` treats the copying of a body as one choice of outcomes. `MarkerScan` opens
that choice: it has the bytes. `taken` counts what was read of `body`, `pending` is the
look-ahead, `written` what went to the writer (client or buffer), `sent` and `committed`
what the client saw. `MCMarkerScan` gives instances, `MarkerScan_proofs` the proofs.

### Adapter

`Generation` has `chatGeneration` as a record and one operator for each of its methods;
every operator returns the changed record, with the events it sent appended to `events`.
`ResponseTurn` is the state machine of one `POST /responses` around it: posting, reading a
stream chunk by chunk, searching, following up. `MCResponseTurn` says what upstreams send,
`ResponseTurn_proofs` has the proofs.

| field or variable | code |
| --- | --- |
| `g.text["message"]`, `g.text["reasoning"]` | `chatGeneration.message`, `reasoning` |
| `g.tools` | `chatGeneration.tools`, by index |
| `g.activeKind`, `g.activeTool` | `activeKind`, `activeToolIndex` |
| `g.events` | what `responseSSEWriter.Event` wrote, with item, index, call ID, the amount of text, and (`form`) what a call's content was made of |
| `depth` | `webSearchDepth` |
| `results`, `requests` | the results so far, and what each follow-up adds to the messages |

Text and arguments are amounts: a fragment is one unit, so that sums tell whether deltas and
done items agree. The JSON of a custom call is decoded twice in the code, and so in the model.
`decodeCustomInputPrefix` reads what came so far for the deltas: `prefix` says whether it has found
the key `input` and is inside its string or past it, and `decoded` how much of it it has.
`customInputFromArguments` reads all of it for the done item: `json` says what `json.Unmarshal`
makes of it, `value` how much text its string has. `Content` gives the done item: that text, the raw arguments
where the JSON is cut or broken, and `{}` for a function without arguments (`ArgsOrEmptyObject`). A surrogate pair
(`paired`) is text that the two read differently. A fragment of text is a whole number of characters and escapes.

`HistoryCache` has the three caches of an `Adapter` and the requests of several
conversations around them. Metadata and results are known by the number of the item they
came with, so "the wrong one" is a comparison of numbers. `log`, what was ever remembered,
is there for the properties. `MCHistoryCache` says what upstreams answer, `HistoryCache_proofs`
has the proofs. The client (Codex) is
outside the repository: it sends back what it was shown, drops `extra_content` (as the
adapter's tests say it does), and may or may not keep the items of a failed response.

`ToolNames` has the flat names of `requestBuilder`; a name is a sequence of tokens (runs of
letters, and `_`, `-`, `.` alone), so that replacing, trimming, joining, cutting and numbering
do what they do in the code. `RequestTranslation` reads a history item by item, one action
per kind of item, and `WebSearch` executes one web_search call. `AdapterRequest` composes the
three: a request is translated, the upstream calls one of the tools under the name it was
sent, and a web search is executed and followed up. `MCAdapterRequest` gives the requests.
`RequestTranslation_proofs` has the proofs about the messages of a request, whichever action
made them, and `AdapterRequest_proofs` those about the search and the request as a whole.

`Maps` has Go's map assignment. `DataLemmas` has the facts that proofs of several components
cite: on appending and joining sequences whose elements have no type, on least numbers, that a
function defined by steps over `1 .. n` exists and keeps what every step keeps, and that a
finite set of numbers can be put in order.

| variable | code |
| --- | --- |
| `names.used`, `names.byChat`, `names.byKey` | `usedNames`, `byChat`, `byKey` of the builder |
| `sent` | the chat tools, with the tool each stands for |
| `pending` | `pendingAssistant`: reasoning, text, calls, and results of searches among them |
| `images` | `pendingImageMsgs` |
| `rendered` | `renderedCallIDs`, `renderedCallNames` |
| `messages` | the chat messages so far; a part names the history item it came from and as what |
| `s` | the locals of `executeSearch`, `fallbackSearcher`, `doRequestWithRetry` and `enrichSearchResultGroups` |
| `client`, `late` | the request's context; where requests went that were begun after it was done (for the properties) |

Items of the history are known by their place. Call IDs are numbers: 0 is none, a negative
one was made up by the adapter. What each endpoint answered to each query in the end is kept in
`s.heard`, a set, also for the properties only. Every wait for an endpoint and every backoff is a step of its own, so
the client may leave, or an excerpt's timeout run out, during any of them.

## 3. Runs

| run | instance | shows |
| --- | --- | --- |
| `requests` | 1 request, providers of tiers 0 and 1, 2 passes, refresh, cooldown at 2 failures | nothing leaked, retry budget, no silent drop, no retry after a reply, the contract `RequestService` |
| `contention` | 2 requests, 2 providers of one tier or two, cooldown at the first failure | types, earned cooldowns, tiers before idleness, idle before busy |
| `reconfig` | 2 requests, one provider whose connection changes up to twice | exact busy counts, a consistent index; late results, releases and lists do not reach the successor |
| `removal` | 1 request, 2 passes, config files that name one or the other provider, cooldown at the first failure | blocks outlive removal, dead refs stay dead; every request and refresh ends, also with all candidates cooling down or blocked |
| `marker` | all bodies of up to 7 bytes over 2 symbols, reads of 1 to 4 bytes | no byte of a marker is sent, clean ends mean whole bodies, retryable means unseen |
| `responses` | five kinds of upstream, see below | order, sums and closing of items; calls kept apart; follow-ups complete; exactly one end |
| `history` | 2 conversations, 4 items, caches of 2 entries | the newest entries are kept, replay is in order, and exact where the README's scheme can be |
| `request` | histories, tool lists and searches, see below | results follow their calls, histories are kept, names lead back to tools, a search tells what it heard, few requests after the client left |
| `cooldown_default` | threshold at the code's default of 5 | README line 100 says 3: violated |
| `routing_documented` | 1 request, refresh in between | README lines 96 and 104 on routing: violated |
| `resumed` | streams of up to 4 chunks | a call that goes on after text: violated |
| `occurrence` | 1 conversation | metadata keyed by occurrence: violated |

Bounds. `MaxGeneration` bounds how many shells a run may create (two replacements are
enough to replace a successor, too); `Attempts` of 2 has a first, a last and a repeated
pass; `Cooldown` of 1 tells cooling from not cooling, and its expiry is a step of its own
that may come at any time. Two providers are enough for a choice within a tier and between
tiers, two requests for any interference through a busy count or a failure count.

`responses` has one upstream that indexes its calls (5 chunks: enough to open two calls and
a text, leave each and come back), one that does not (4 chunks: two calls with IDs, one
without, continued in any order), one that names a function after its first arguments (4 chunks:
two fragments on either side of the name, text in between), one that calls a custom tool (4 chunks of any
fragment: the JSON may be whole, in pieces, cut, broken, of another key or hold a surrogate pair, with
text in between) and one that searches (2 chunks, 2 follow-ups: a search with
and without an ID, alone or with a client's call, the last allowed follow-up and one too
many). The code's limit of 50 follow-ups is `MaxFollowUps`. In `history`, two entries per
cache are enough for an eviction between two look-ups of one request; four items are enough
for two occurrences in one conversation and evictions by the other. The code's limits are
40960 each. In `marker` the marker is short and overlaps itself partly, so that a false
start of it may contain the real one.

`request` has four kinds of requests. Histories of up to 5 items of one turn (text, reasoning,
two calls, their outputs, one with an image, a search), with reasoning dropped or sent back:
enough for two calls whose outputs and image alternate. Histories of up to 3 of all 19 items
(made-up and repeated IDs, invalid arguments, tool searches with what they discover, unknown
items, a message whose role is `tool`) in all three modes: enough for a call, its output and
one thing between. Lists of up to
3 of 13 tools whose names meet after replacing, joining, trimming, cutting or prefixing, then a
tool search that discovers one of them: enough for a name to be numbered twice. Names are cut
at `MaxLength` of 6 tokens for the code's 64 characters. And searches of up to 2 queries or
an opened page, with a back end of two endpoints and one of one (an endpoint that fails, one that is the
last of its back end, one that is the last of all), 4 URLs of which two lead to the same page,
one to none and one is not allowed, at most 2 results of an answer and of a query and 1
excerpt: enough for a result that is cut off, found twice, and a page fetched once for both.
It has 829,872 states. One of the names fills its 6 tokens and ends in a number.

`MarkerScan`, `ResponseTurn` and `HistoryCache` stop by themselves (a body ends, a response
ends, the bound on items is reached), so deadlock is not checked in their runs; in
`LoadBalancer` something can always happen, and it is. In `AdapterRequest` it is checked, too:
only a request that was answered may stop (`Answered`), so every search comes to an outcome.

Fairness. In `LoadBalancer`, weak fairness of what a handler does without its client (`Unaided`) says
goroutines run and a call to an upstream returns, which the client's timeout guarantees; weak fairness of
the refresh relies on the refresh timeout. Nothing is assumed of operators, the clock or the
number of refreshes. What a handler writes to its client may wait for ever: the server sets only `ReadHeaderTimeout`
(main.go of both commands), and no write has a deadline. `FairSpec` therefore says nothing of these steps (`ToClient`);
`RequestsFinish` promises the end of a request only if its own client reads what it is sent, or goes
away, whatever the other clients do. Without that condition TLC refutes it. `RefreshFinishes` needs no
client. In `ResponseTurn`, weak fairness of the handler's own work says that it runs, that an
upstream answers, that a stream ends or its connection breaks, and that the client reads its events or goes
away; no chunk is promised. `HistoryCache` and `AdapterRequest` assume no fairness.

## 4. Proofs

`LoadBalancer_proofs!Invariance` proves `IInv` inductive. It adds to the checked invariants
that a holder's ref is a real ref with a generation already handed out (`HeldRefs`) and
that a live target of the refresh still has the connection noted with it
(`TargetsCurrent`). Both are needed: busy counts are exact across a reconciliation because a
fresh shell's generation differs from every held one, and a stored list is the
connection's own because a live target's connection did not change. The lemmas of
the module's first half say what every pool method keeps; each handler and refresh step
uses one of them. The assumptions are `PoolAssumption` and `LoadBalancerAssumption`: finite
IDs and requests, natural tiers, a valid initial config; all are evaluated by every run.

`MarkerScan_proofs!ScanInvariant` proves `ScanInv` inductive, for any marker, any set of
bodies and any read length (`ScanAssumption`). It adds `Reading` to the checked invariants:
while reading, `written` and `pending` together are the bytes read, no whole marker is among
them, and once anything was written exactly `Len(Marker) - 1` bytes are held back. The last
part is the reason for the look-ahead: a marker that is still incomplete starts within what
is held back, so writing the rest shows none of it. `MarkerHeldBack` alone is not inductive:
it does not say what is pending.

`Requests_proofs` proves what the runs check of requests, on top of `IInv`:

- `NoSilentDrop` and `NoRetryAfterReply` from `Path`: at every place of the handler it is
  known whether its answer has begun and what its attempt came to. Neither property is
  inductive alone, as neither says how a handler gets to `release`.
- `DeadRefsStayDead` from `KeptOrFresh` (a pool step keeps a shell or gives it a generation
  never used) and `Known` (a handler keeps only refs that were handed out).
- `BlockedStaysOut` and `TierDiscipline` from the choice `acquire` makes among the known refs;
  that no step takes a block back is a lemma of its own (`BlocksGrow`).
- `FailuresChargedToServer`: each step is shown to charge no one or the holder's own shell.
- `RetryBudget` from `Budget`, which bounds the attempts by the pass and the tried set.

`Requests_proofs!BalancerImplementsService`: each step maps to a step of `RequestService` or a
stutter. One lemma per abstract action says when a step of the handlers looks like it; pool steps change
nothing the contract sees except the blocks, which only grow.

`HistoryCache_proofs` proves, for any limits, answers and number of conversations
(`CacheAssumption`), everything `history` checks. `NewestKept` compares a cache with `log`, and
needs a lemma on what eviction from the front does to the order and, per key, to the list. Replay
is harder: an item is looked up by its occurrence among the items of its key, but entries of that
key may have been added by other conversations or evicted since the item before it was looked
up. `Inv` adds `ReplayedFrom`: what was replayed for an item is an entry of its key, and not later
than the entries gone plus the occurrences before it account for. As entries only go at the front
and only come at the end, the next look-up finds a later one (`ReplayInOrder`). It also adds
`NumbersOnce` and `LoggedOnce`: what is to be remembered is nowhere yet, so that two entries never
have one number, which `ReplayExact` needs. Occurrences and positions are counted by recursive
functions of the model, with lemmas of their own.

`RequestTranslation_proofs` proves `ResultsFollowCalls` of any request and history
(`InboundAssumption`). It has two halves. `Paired`: every output told, and every result of a search
that waits in the pending message, has a call of that ID and name before it; the IDs in `rendered`
are those of calls told or pending. `Turning`: nothing comes between the calls of a turn and their
outputs. That is not inductive as it stands, since an item is judged by messages that were told
before it was read. It takes `CallsPending` (while a run of calls goes on, none of them was told
yet), `OutputsLast` (while a run of outputs goes on, nothing but tool messages was told since the
calls) and `ImagesLast` (images wait only behind an output of the same turn). `Rest`
says that nothing waits once a request is posted.

It then proves the two other properties of a translated request.

- `CallsNameTheirTool` from `Recorded` and `AllNamed`. `Recorded` says how the names in `sent` came
  about: each is the `NthName` of its tool's base, entries of one base have different numbers, none
  above what `usedNames` counts, and whatever `byChat` and `byKey` hold is in `sent`. Two equal names
  are then a pair of bases and numbers that `Confusable` names, so numbering needs no search for a free name, and `ToString`
  no properties. `AllNamed` says that a call told or pending bears the name its tool was registered with, or
  that of `tool_search`, which is known even where it is not declared. Names are never taken back
  (`Widens`), so later discoveries change nothing.
- `HistoryKept` from `Ordered`. `InOrder` orders any two parts that would be sent now: the later one
  is another, and of an earlier item only as the two exceptions allow. `Below` keeps room for
  the next item, `Complete` says what each item has become, `PartsPending` that what waits are only results of
  searches whose calls wait, too, and images. Each kind of item adds at most two parts, the first
  somewhere among what waits and the second at the end (`TellsAs`, `Goes`), and one lemma
  (`Inserted`) says that this keeps the order. `MadeTogether` remembers which calls are of one message
  before that message is told (`ReadGroups`); no call being told twice makes it the property's `CallsOf`.

`AdapterRequest_proofs` proves of a web search, for any back ends, results and calls
(`SearchAssumption`, `CallsAssumption`):

- `SearchTypeOK` and `OutcomeEarned` from `SearchInv`, which says which locals belong together at
  each await: only a search has queries, further attempts and excerpts, and the position of
  what is asked is within the endpoints. A page that was opened is fetched once.
- `AnswerHonest` and `FewAfterLeaving` from `HonestInv`. `HeardWell` says of `s.heard` that it has
  the endpoints before the one being asked, none of them left out and each heard once, that of the
  query in progress nothing was found yet, and that every query before was judged by what was heard:
  it was found, or is among the errors, or all its endpoints had nothing. `GroupsWell` says that no
  URL is told twice, that excerpts stay within the limit, and that a page being fetched is one of a
  result and fetched for the first time. `LateWell` says that all requests in `late` are of one
  query and to different places, all before the place the search is at.
- `TypeOK` of the whole request, from the invariants above and `Handling`.

`ResponseTurn_proofs` proves of a response, for any upstreams, tool names and number of follow-ups
(`GenerationAssumption`, `TurnAssumption`: a call's index is a natural number or not there, as the
Chat Completions protocol has it), all that `responses` checks but the end. The
properties look only at the events and at one moment; the next event depends on what the generation
remembers. So `TurnInv` ties the two together:

- `Story`, of the events alone: of two events of an item the later one is not `added` and not a second
  `done`, and after `done` only a call's deltas come; a delta has an `added` before it; where calls have no
  indexes, two events of an item name the same call.
- `Told`, of events and generation: a text or call is announced, or done, exactly when an event says
  so, item numbers are shared by no two of them and were handed out, and no event mentions an
  item that will be. `Active`: a text that is announced and not done is the active item.
- `ToolTold`, where calls have no indexes: the ID of an announced call is the one its events name. The lemma
  on `toolForDelta` says why that stays so: a delta with another ID never reaches an announced call.
- `Finished` once the items are emitted: what was added is done. It follows from `Told`, as the last
  pass goes through both texts and all calls.
- `SearchesInOrder`, `RequestsPaired` and `MemoryUpToNow`: the searches of a turn are run by index, the results
  so far are those of the first ones, and each search of earlier turns, and of this one
  as far as it went, was remembered once. `SearchesRemembered` speaks only of the end and says nothing of the way.

- `SumsInStep`, for `DeltasAddUp`: `Flows` relates what was sent of an item still open to what is held of it.
  For a text the sum of its deltas is the text so far (`TextSent`); for a custom call it is the decoded input, which is
  all emitted between two deltas, and for a function at most the arguments, less only if it may have been
  named late (`ToolSent`). A call without a name may hold arguments only at an index in `Unnamed`, those at which the
  upstream sends arguments without a name (`Placed`); naming a function there is `NamedLate`, the one
  exception the property makes. That it cannot be dropped is what the third upstream of `responses` shows.
  `Decoding` relates the two decoders of a custom call: while the arguments may still be JSON and the key `input` was found,
  they have the same text; cut or broken, the raw arguments are more than was decoded; with another key
  nothing was. It is part of the type of a call (`Tools`) and kept by every fragment (`DecodingGoesOn`); `ContentIs`
  reads off what a done item of each form has. What is done at the end was never added, or is in step, so
  each done item relates to its deltas as its form says.

Each of these is kept by each method of `Generation`, then, by induction over the calls of a
chunk and the items of an answer, by a whole chunk and a whole pass, then by each action.

Recursion. The library's induction theorems take an operator as a parameter. `DataLemmas` has
induction for a set instead of a predicate (`LeastNat`, from `WFMin`, then `Induction`), which needs none,
and `Recursion`: a function given by its value at 0 and by steps exists, has its values in a set the steps
keep, and satisfies its equation. With it, recursive functions can be reasoned about
like any other definition.

Model-checked only:

- `RequestsFinish`, `RefreshFinishes` and `ResponseEnds`: liveness.

## 5. Not modelled, and why

- Function calls that are given another ID by the upstream once announced (`adapter.go:2081`): the
  model has them, but no document or test says what a client should see, so no property is
  stated of it. Of functions named late (`adapter.go:2159`) `DeltasAddUp` says only that
  nothing else comes short of its deltas.
- Calls that the upstream itself gives as custom, whose input is no JSON (`rawCustomInput`,
  `adapter.go:2100` and 2146), extra_content and usage. Of text with surrogate pairs `DeltasAddUp` says nothing: the
  decoder of the deltas writes one replacement character for each half (`adapter.go:2847`).
- A fragment with neither name nor ID at the position of another call is that call's in the model
  as in the code; `CallsStaySeparate` cannot tell whose it was meant to be.
- The levels of the recursion of `handleGeneration`: an error ends the response in one step from any depth,
  and the returns on its way are not steps of their own.
- Offsets in `excerptsAround`, `truncateString` and the like: text is not modelled, only whether a page gives an
  excerpt.
- `tool_choice` objects and other parameters that are passed through (`adapter.go:1811`).
- Flags, URL normalisation, header copying, logging, JSON shapes, status pages, scraping of
  result pages, the debug recorder: they keep no state another part depends on.

## 6. Divergences from the documentation

- `cooldown_default`: README.md:100 gives 3 as the default of `-provider-cooldown-failures`,
  main.go:34 has 5.
- `routing_documented`: README.md:96 and 104 say a request only goes to providers that
  advertise the model and that a failed refresh takes a provider out of routing; the
  candidates of a request are taken once (main.go:1579-1606), so a request in progress still
  tries it.
- `resumed`: a test is named `TestStreamingInterleavedToolCallsDoneAfterAllArgumentDeltas`
  (adapter_test.go:1265), but `finishActiveItem` (adapter.go:2446) ends the active call as
  soon as text or reasoning arrives; fragments that come later are deltas after done.
- `occurrence`: README.md:187 says message metadata is keyed by content and occurrence;
  occurrences are counted over all messages (adapter.go:1276), entries kept only for those
  with metadata (adapter.go:419), so a message without shifts those after it.

Met while modelling, without a run that refutes a document's sentence:

- Numbers that make a name unique are not recorded (`adapter.go:1102`): tools that flatten to
  `a`, `a` and `a_2` get two equal names, and calls of one come back as the other. The same
  holds for a client's tool named like a `tool_search` that was not declared. README.md:178 says
  that calls are reconstructed with their namespace; `CallsNameTheirTool` excludes just these
  lists (`Confusable`).
- Where a name is cut to make room for its number, one may get its own name again: a tool of 64 characters
  ending in `_2`, registered twice, is called the same both times (`adapter.go:1113`). It is among what
  `Confusable` names; with pairs of different bases only, TLC refutes `CallsNameTheirTool`.
- `isToolOutputItem` (`adapter.go:1445`) does not count a `tool_search_output`, so an image of an
  earlier output comes between the call and the result of a tool search in the same turn.
  Markers, text and reasoning between calls and outputs separate them, too; `OneTurn`
  says which histories `ResultsFollowCalls` is about.
- The done item of a custom call may be other than its deltas together (`adapter.go:2147` against 2637 and 2867):
  arguments cut by text or by the upstream's limit are done as raw JSON, a string under the keys `patch`, `content`,
  `text` or `command` is in no delta, and a function called without arguments is done with `{}` (2689), which no delta had.
  `DeltasAddUp` says what holds in each case.
- `excerptsAround` (`web_search.go:886`) finds offsets in lower-cased text and uses them in the original,
  whose length may differ.
