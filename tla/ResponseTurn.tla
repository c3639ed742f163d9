---------------------------- MODULE ResponseTurn ----------------------------
(***************************************************************************)
(* One POST /responses (adapter.go, handleResponses; web_search.go,        *)
(* handleGeneration): the answer is streamed to the client as it is        *)
(* generated; an answer that only calls web_search is followed up with the *)
(* results, within the same response, up to MaxFollowUps times.            *)
(***************************************************************************)
EXTENDS Generation

CONSTANTS
  MaxFollowUps,  \* maxWebSearchFollowUps
  Upstreams      \* kinds of upstream: what a chunk of its streams, or a whole
                 \* answer, may hold, and a bound on the chunks of a stream

(* What a chunk holds of a call.                                           *)
Calls ==
  [index : Nat \union {NoIndex}, id : IDs \union {NoID}, name : Names \union {NoName},
   fragment : Fragments]

Chunks == [content : BOOLEAN, reasoning : BOOLEAN, calls : Seq(Calls)]

ASSUME TurnAssumption ==
  /\ MaxFollowUps \in Nat
  /\ \A u \in Upstreams : u.maxChunks \in Nat /\ u.chunks \subseteq Chunks

VARIABLES
  upstream,    \* the kind of upstream, the same for all follow-ups
  pc,
  g,           \* the generation, with all events of the response so far
  depth,       \* webSearchDepth
  chunks,      \* how many came in this stream
  finish,      \* finish_reason
  toSearch,    \* calls still to be executed
  results,     \* calls executed for this generation, in order
  remembered,  \* <<depth, call>> put into the web search history
  requests     \* the messages each follow-up request adds

vars == <<upstream, pc, g, depth, chunks, finish, toSearch, results, remembered, requests>>

Finishes == {"stop", "length"}

Terminals == {"completed", "incomplete", "failed", "refused"}

Init ==
  /\ upstream \in Upstreams
  /\ pc = "request"
  /\ g = NewGeneration(<<>>, 0)
  /\ depth = 0 /\ chunks = 0 /\ finish = "stop"
  /\ toSearch = <<>> /\ results = <<>> /\ remembered = <<>> /\ requests = <<>>

Tell(h, type) == Emit(h, type, NoItem, NoIndex, NoID, 0)

Stay == UNCHANGED <<upstream, depth, chunks, finish, toSearch, results, remembered, requests>>

(* An error, however deep in the follow-ups, is returned to the one place  *)
(* that reports it; items that were open stay so.                          *)
Fail ==
  /\ g' = Tell(g, "failed") /\ pc' = "ended"
  /\ Stay

(* Wrong method or an unreadable body: plain HTTP, no events.              *)
Refuse ==
  /\ pc = "request"
  /\ g' = Tell(g, "refused") /\ pc' = "ended"
  /\ Stay

Begin ==
  /\ pc = "request"
  /\ g' = Tell(g, "created") /\ pc' = "translating"
  /\ Stay

Translate ==
  /\ pc = "translating"
  /\ \/ pc' = "posting" /\ UNCHANGED g /\ Stay
     \/ Fail

(* The upstream's finish reason only matters here.                         *)
Completion(h, reason) == Tell(h, IF reason = "length" THEN "incomplete" ELSE "completed")

(* Mutant: a mixed answer gets no searches either.                         *)
NotFollowedUp(h) == ~AllWebSearch(h) \/ depth >= MaxFollowUps

FollowUpsExceeded(h) == AllWebSearch(h) /\ depth >= MaxFollowUps

(* handleGeneration up to the first search.                                *)
HandleGeneration(h, reason) ==
  LET shown == EmitGenerationOutputItems(h)
      calls == WebSearchCalls(shown)
  IN  /\ finish' = reason
      /\ IF calls = <<>> \/ FollowUpsExceeded(shown)
           THEN /\ g' = Completion(shown, reason) /\ pc' = "ended"
                /\ UNCHANGED <<upstream, toSearch, results>>
           ELSE /\ g' = shown /\ pc' = "searching"
                /\ toSearch' = calls /\ results' = <<>>
      /\ UNCHANGED <<upstream, depth, chunks, remembered, requests>>

(* postChat: the request fails, or upstream has no 2xx answer, ...         *)
PostFails == pc = "posting" /\ Fail

(* ... or it streams, ...                                                  *)
PostStreams ==
  /\ pc = "posting"
  /\ pc' = "streaming" /\ g' = NewGeneration(g.events, g.lastID) /\ chunks' = 0
  /\ UNCHANGED <<upstream, depth, finish, toSearch, results, remembered, requests>>

(* ... or it answers in one piece, which may not be what it should be.     *)
PostAnswers ==
  /\ pc = "posting"
  /\ \/ \E message \in upstream.chunks, reason \in Finishes :
          HandleGeneration(FromChatResponse(NewGeneration(g.events, g.lastID), message), reason)
     \/ Fail

StreamChunk ==
  /\ pc = "streaming" /\ chunks < upstream.maxChunks
  /\ \E chunk \in upstream.chunks : g' = ApplyStreamChunk(g, chunk)
  /\ chunks' = chunks + 1
  /\ UNCHANGED <<upstream, pc, depth, finish, toSearch, results, remembered, requests>>

(* Mutant: what there is of a stream that broke is completed first.        *)
StreamBreaksCompleted ==
  /\ pc = "streaming"
  /\ g' = Tell(Completion(EmitGenerationOutputItems(g), finish), "failed") /\ pc' = "ended"
  /\ Stay

(* Broken off, not JSON, or an error object.                               *)
StreamBreaks == pc = "streaming" /\ Fail

StreamEnds ==
  /\ pc = "streaming"
  /\ \E reason \in Finishes : HandleGeneration(g, reason)

(* Mutant: a search that fails is put back, without end.                   *)
RunSearchAgain ==
  /\ pc = "searching" /\ toSearch # <<>>
  /\ \/ /\ results' = Append(results, Head(toSearch))
        /\ remembered' = Append(remembered, <<depth, Head(toSearch)>>)
        /\ toSearch' = Tail(toSearch)
        /\ UNCHANGED <<upstream, pc, g, depth, chunks, finish, requests>>
     \/ /\ toSearch' = Append(Tail(toSearch), Head(toSearch))
        /\ UNCHANGED <<upstream, pc, g, depth, chunks, finish, results, remembered, requests>>

(* executeAndRememberWebSearchCalls.  A search that fails has the failure  *)
(* for its result; only a client that left ends the turn.                  *)
RunSearch ==
  /\ pc = "searching" /\ toSearch # <<>>
  /\ \/ /\ results' = Append(results, Head(toSearch))
        /\ remembered' = Append(remembered, <<depth, Head(toSearch)>>)
        /\ toSearch' = Tail(toSearch)
        /\ UNCHANGED <<upstream, pc, g, depth, chunks, finish, requests>>
     \/ Fail

(* A turn with calls for the client is left to it.                         *)
CompleteMixed ==
  /\ pc = "searching" /\ toSearch = <<>> /\ ~AllWebSearch(g)
  /\ g' = Completion(g, finish) /\ pc' = "ended"
  /\ Stay

(* buildWebSearchFollowUpRequest, assistantToolCallsMessage: one assistant *)
(* message with all calls, giving an ID to those without one, and one tool *)
(* message with each result.                                               *)
WithIDs(h) ==
  [h EXCEPT !.tools = [i \in DOMAIN h.tools |->
      IF h.tools[i].id = NoID THEN [h.tools[i] EXCEPT !.id = h.lastID - 1 - i] ELSE h.tools[i]],
            !.lastID = @ - 1 - Max(DOMAIN h.tools)]

(* Mutant: an ID made up for the assistant's message is not kept.          *)
RequestForgettingIDs(old, new) ==
  LET calls == WebSearchCalls(new) IN
  [calls |-> calls,
   asked |-> [p \in DOMAIN calls |-> new.tools[calls[p]].id],
   answers |-> [p \in DOMAIN calls |-> [id |-> old.tools[calls[p]].id, of |-> results[p]]]]

FollowUpRequest(old, new) ==
  LET calls == WebSearchCalls(new) IN
  [calls |-> calls,
   asked |-> [p \in DOMAIN calls |-> new.tools[calls[p]].id],
   answers |-> [p \in DOMAIN calls |-> [id |-> new.tools[calls[p]].id, of |-> results[p]]]]

FollowUp ==
  /\ pc = "searching" /\ toSearch = <<>> /\ AllWebSearch(g)
  /\ g' = WithIDs(g)
  /\ requests' = Append(requests, FollowUpRequest(g, g'))
  /\ depth' = depth + 1 /\ pc' = "posting"
  /\ UNCHANGED <<upstream, chunks, finish, toSearch, results, remembered>>

Work ==
  \/ Refuse \/ Begin \/ Translate
  \/ PostFails \/ PostStreams \/ PostAnswers
  \/ StreamBreaks \/ StreamEnds
  \/ RunSearch \/ CompleteMixed \/ FollowUp

Next == Work \/ StreamChunk

(* The handler runs, an upstream answers and ends its stream, or the       *)
(* connection breaks, and the client reads its events, or goes away:       *)
(* writing them has no deadline.                                           *)
Spec == Init /\ [][Next]_vars /\ WF_vars(Work)
-----------------------------------------------------------------------------
(* Types.                                                                  *)
TextType(t) ==
  /\ t.item \in Int /\ t.text \in Nat /\ t.index \in Nat \union {NoIndex}
  /\ t.announced \in BOOLEAN /\ t.done \in BOOLEAN

ToolType(t) ==
  /\ t.item \in Int /\ t.id \in Int /\ t.args \in Nat
  /\ t.name \in Names \union {NoName} /\ t.kind \in Kinds \union {NoName}
  /\ t.emitted <= t.decoded /\ t.decoded <= t.args /\ t.value <= t.args
  /\ t.prefix \in {"before", "inside", "past"} /\ t.json \in {"empty", "open", "whole", "broken"}
  /\ t.paired \in BOOLEAN
  /\ t.announced => t.id # NoID /\ t.index # NoIndex /\ t.kind # NoName
  /\ t.done => t.announced

(* Every variable has its type, an announced item its ID and index, and an *)
(* active item is one that exists.                                         *)
TypeOK ==
  /\ upstream \in Upstreams
  /\ pc \in {"request", "translating", "posting", "streaming", "searching", "ended"}
  /\ \A k \in TextKinds : TextType(g.text[k])
  /\ DOMAIN g.tools \subseteq Nat /\ \A i \in DOMAIN g.tools : ToolType(g.tools[i])
  /\ g.activeKind \in TextKinds => g.text[g.activeKind].announced
  /\ g.activeKind = "tool" => g.activeTool \in DOMAIN g.tools
  /\ depth \in 0 .. MaxFollowUps /\ chunks \in 0 .. upstream.maxChunks /\ finish \in Finishes
  /\ depth = Len(requests)

Events == g.events

Of(item, type) == {i \in DOMAIN Events : Events[i].item = item /\ Events[i].type = type}

Items == {Events[i].item : i \in DOMAIN Events} \ {NoItem}

(* Whatever order text, reasoning and calls come in, an item is added at   *)
(* most once and before its deltas, and done at most once, for text and    *)
(* reasoning after the last delta, and at most one of text and reasoning   *)
(* is open at a time.                                                      *)
ItemsWellFormed ==
  /\ \A item \in Items :
       /\ Cardinality(Of(item, "added")) <= 1 /\ Cardinality(Of(item, "done")) <= 1
       /\ \A d \in Of(item, "delta") : \E a \in Of(item, "added") : a < d
       /\ \A d \in Of(item, "done"), a \in Of(item, "added") : a < d
  /\ \A d \in DOMAIN Events : Events[d].type = "delta" /\ Events[d].callID = NoID =>
       \A e \in Of(Events[d].item, "done") : d < e
  /\ \A k \in TextKinds :
       g.text[k].announced /\ ~g.text[k].done => g.activeKind = k \/ pc # "streaming"

(* When the response is completed or incomplete, all that was added is     *)
(* done.                                                                   *)
NothingLeftOpen ==
  \A t \in DOMAIN Events : Events[t].type \in {"completed", "incomplete"} =>
    \A item \in Items : Of(item, "added") # {} => \E d \in Of(item, "done") : d < t

Unindexed ==
  \A chunk \in upstream.chunks : \A p \in DOMAIN chunk.calls :
    chunk.calls[p].index = NoIndex

(* What the deltas of an item have in sum, up to each event.               *)
DeltasOf(events, item) ==
  LET sum[i \in 0 .. Len(events)] ==
        IF i = 0 THEN 0
        ELSE IF events[i].item = item /\ events[i].type = "delta" THEN sum[i - 1] + events[i].n
        ELSE sum[i - 1]
  IN  sum

(* A function call may have a fragment before it has a name.               *)
NamedLate ==
  \E early, named \in upstream.chunks : \E p \in DOMAIN early.calls, q \in DOMAIN named.calls :
    LET c == early.calls[p]
        d == named.calls[q]
    IN  /\ c.name = NoName /\ c.fragment # "none"
        /\ d.name # NoName /\ Kind[d.name] = "function"
        /\ c.index = d.index \/ NoIndex \in {c.index, d.index}

(* A done item is the sum of the deltas sent for it before: that of a      *)
(* text, of a custom call whose arguments were read to the end and have    *)
(* the key "input", and, unless it may be named late, of a function.  Of   *)
(* other custom calls and of empty arguments the done item has what no     *)
(* deltas had, and of cut arguments more than all of them; nothing is said *)
(* of text with surrogate pairs, which the two decoders read differently.  *)
DeltasAddUp ==
  \A d \in DOMAIN Events :
    LET e == Events[d]
        sent == DeltasOf(Events, e.item)[d - 1]
    IN  e.type = "done" /\ Of(e.item, "added") # {} =>
          /\ e.form \in {"text", "input"} => sent = e.n
          /\ e.form = "arguments" => sent <= e.n /\ (sent < e.n => NamedLate)
          /\ e.form = "raw" => sent < e.n
          /\ e.form \in {"object", "other"} => sent = 0

(* All events of an item name the same call, so calls that arrive without  *)
(* an index, told apart by ID, name and position only, are not mixed up.   *)
CallsStaySeparate ==
  Unindexed => \A i, j \in DOMAIN Events :
    Events[i].item = Events[j].item /\ Events[i].item # NoItem =>
      Events[i].callID = Events[j].callID

(* The response ends with exactly one event that says how, on all paths,   *)
(* follow-ups that fail half-way included.                                 *)
EndsOnce ==
  \A t \in DOMAIN Events :
    Events[t].type \in Terminals <=> t = Len(Events) /\ pc = "ended"

(* A follow-up request answers each call of its assistant message, in the  *)
(* order of the calls, under the ID that message gives, with that call's   *)
(* result, and no call goes without an ID.                                 *)
FollowUpPaired ==
  \A r \in DOMAIN requests :
    LET req == requests[r] IN
    /\ DOMAIN req.asked = DOMAIN req.answers
    /\ \A p \in DOMAIN req.asked :
         /\ req.asked[p] # NoID
         /\ req.answers[p].id = req.asked[p]
         /\ req.answers[p].of = req.calls[p]

(* Every web search of a completed response was executed and remembered    *)
(* once, for the client to send its history back; only the ones of an      *)
(* answer beyond the last follow-up were not.                              *)
SearchesRemembered ==
  pc = "ended" /\ Events[Len(Events)].type \in {"completed", "incomplete"} =>
    LET calls == {WebSearchCalls(g)[p] : p \in DOMAIN WebSearchCalls(g)}
        count(d, i) == Cardinality({r \in DOMAIN remembered : remembered[r] = <<d, i>>})
    IN  /\ AllWebSearch(g) /\ calls # {} => depth = MaxFollowUps
        /\ ~AllWebSearch(g) => \A i \in calls : count(depth, i) = 1
        /\ \A r \in DOMAIN requests : \A p \in DOMAIN requests[r].calls :
             count(r - 1, requests[r].calls[p]) = 1

(* As a test has it for calls whose arguments alternate (adapter_test.go,  *)
(* TestStreamingInterleavedToolCallsDoneAfterAllArgumentDeltas): a call is *)
(* done after all deltas of its arguments.                                 *)
DoneAfterAllArgumentDeltas ==
  \A item \in Items : \A d \in Of(item, "done"), e \in Of(item, "delta") : e < d

(* Every response ends.                                                    *)
ResponseEnds == <>(pc = "ended")
=============================================================================
