---------------------------- MODULE HistoryCache ----------------------------
(***************************************************************************)
(* The caches an Adapter keeps between requests (adapter.go, the           *)
(* remember... methods and their look-ups), shared by all conversations.   *)
(* Codex sends its whole history with every request, without extra_content *)
(* and without the results of web searches; both are looked up again: that *)
(* of a call by its ID, that of a message by its content and occurrence, a *)
(* search's result by its action and occurrence.                           *)
(*                                                                         *)
(* Every call of a remember or look-up method holds extraMu for itself, so *)
(* each is a step, and other conversations' come between.  What is kept is *)
(* known by the item it came with: metadata and result of item n are n.    *)
(***************************************************************************)
EXTENDS Integers, FiniteSets, Sequences

CONSTANTS
  Conversations,
  Answers,      \* the sequences of items an upstream may answer with
  MaxTools,     \* maxToolExtraContentEntries
  MaxMessages,  \* maxMessageExtraContentEntries
  MaxSearches,  \* maxWebSearchHistoryEntries
  MaxItems      \* bound: items in all answers together

(* An item is a message with its content for a key, a call with its ID, or *)
(* a search with both its action and its ID.                               *)
Kinds == {"message", "call", "search"}

Elements(s) == {s[i] : i \in DOMAIN s}

ASSUME CacheAssumption ==
  /\ {MaxTools, MaxMessages, MaxSearches} \subseteq Nat \ {0}
  /\ MaxItems \in Nat
  /\ \A items \in Answers :
       /\ items \in Seq(Elements(items))
       /\ \A i \in DOMAIN items : items[i].kind \in Kinds /\ items[i].extra \in BOOLEAN

VARIABLES
  tools,        \* extraByCallID and extraOrder
  messages,     \* messageExtraByKey and messageExtraOrder
  searches,     \* webSearchByKey and webSearchOrder
  made,         \* items made so far; their numbers name them
  pc,           \* where each conversation's request is
  history,      \* the items the client has
  replayed,     \* what was looked up for them so far
  answer,       \* the items of the response so far
  todo,         \* what the response still has to remember
  log           \* everything ever put into each cache, in order

caches == <<tools, messages, searches, log>>
vars == <<caches, made, pc, history, replayed, answer, todo>>

None == 0
NoKey == "none"

Caches == {"tools", "messages", "searches"}

Of(f, key) == IF key \in DOMAIN f THEN f[key] ELSE <<>>

Init ==
  /\ tools = [value |-> <<>>, order |-> <<>>]
  /\ messages = [byKey |-> <<>>, order |-> <<>>]
  /\ searches = [byKey |-> <<>>, order |-> <<>>]
  /\ made = 0
  /\ pc = [c \in Conversations |-> "idle"]
  /\ history = [c \in Conversations |-> <<>>]
  /\ replayed = [c \in Conversations |-> <<>>]
  /\ answer = [c \in Conversations |-> <<>>]
  /\ todo = [c \in Conversations |-> {}]
  /\ log = [cache \in Caches |-> <<>>]
-----------------------------------------------------------------------------
(* Insertion with eviction.                                                *)

Without(f, key) == [k \in DOMAIN f \ {key} |-> f[k]]

With(f, key, value) == [k \in DOMAIN f \union {key} |-> IF k = key THEN value ELSE f[k]]

(* Mutant: eviction forgets all that is kept under the oldest key.         *)
EvictKey(cache, max) ==
  IF Len(cache.order) <= max THEN cache
  ELSE [byKey |-> Without(cache.byKey, Head(cache.order)), order |-> Tail(cache.order)]

(* Mutant: one entry more than the limit is kept.                          *)
EvictLate(cache, max) ==
  IF Len(cache.order) <= max + 1 THEN cache
  ELSE LET oldest == Head(cache.order) IN
       [byKey |-> IF Len(cache.byKey[oldest]) <= 1
                    THEN Without(cache.byKey, oldest)
                    ELSE With(cache.byKey, oldest, Tail(cache.byKey[oldest])),
        order |-> Tail(cache.order)]

(* One entry at most is too many.                                          *)
Evict(cache, max) ==
  IF Len(cache.order) <= max THEN cache
  ELSE LET oldest == Head(cache.order) IN
       [byKey |-> IF Len(cache.byKey[oldest]) <= 1
                    THEN Without(cache.byKey, oldest)
                    ELSE With(cache.byKey, oldest, Tail(cache.byKey[oldest])),
        order |-> Tail(cache.order)]

Insert(cache, key, value, max) ==
  Evict([byKey |-> With(cache.byKey, key, Append(Of(cache.byKey, key), value)),
         order |-> Append(cache.order, key)], max)

(* rememberExtraContent: an ID seen before keeps its place in the order.   *)
InsertTool(key, value) ==
  LET order == IF key \in DOMAIN tools.value THEN tools.order ELSE Append(tools.order, key)
      all == With(tools.value, key, value)
  IN  IF Len(order) <= MaxTools
        THEN [value |-> all, order |-> order]
        ELSE [value |-> Without(all, Head(order)), order |-> Tail(order)]
-----------------------------------------------------------------------------
(* A request: the history is translated item by item.                      *)

Ask(c) ==
  /\ pc[c] = "idle"
  /\ pc' = [pc EXCEPT ![c] = "translating"]
  /\ replayed' = [replayed EXCEPT ![c] = <<>>]
  /\ UNCHANGED <<caches, made, history, answer, todo>>

(* Every item counts, whether or not anything was remembered with it.      *)
Occurrence(items, p) ==
  Cardinality({q \in 1 .. p - 1 : items[q].kind = items[p].kind /\ items[q].key = items[p].key})

(* Mutant: occurrences count from one.                                     *)
AtOnePast(list, occurrence) ==
  IF occurrence + 1 >= Len(list) THEN None ELSE list[occurrence + 2]

(* Mutant: each occurrence finds the first entry.                          *)
AtFirst(list, occurrence) == IF list = <<>> THEN None ELSE list[1]

At(list, occurrence) ==
  IF occurrence >= Len(list) THEN None ELSE list[occurrence + 1]

Found(items, p) ==
  LET item == items[p] IN
  CASE item.kind = "call" -> IF item.id \in DOMAIN tools.value THEN tools.value[item.id] ELSE None
    [] item.kind = "message" -> At(Of(messages.byKey, item.key), Occurrence(items, p))
    [] item.kind = "search" -> At(Of(searches.byKey, item.key), Occurrence(items, p))

LookUp(c) ==
  LET p == Len(replayed[c]) + 1 IN
  /\ pc[c] = "translating" /\ p <= Len(history[c])
  /\ replayed' = [replayed EXCEPT ![c] = Append(@, Found(history[c], p))]
  /\ UNCHANGED <<caches, made, pc, history, answer, todo>>
-----------------------------------------------------------------------------
(* The response.                                                           *)

Entry(cache, key, value) == [cache |-> cache, key |-> key, value |-> value]

(* What a generation has to remember: metadata of its calls (searches are  *)
(* calls, too), that of its message, and results of its searches.          *)
ToRemember(items, executed) ==
  {Entry("tools", item.id, item.n) :
     item \in {it \in Elements(items) : it.kind # "message" /\ it.id # NoKey /\ it.extra}}
  \union
  {Entry("messages", item.key, item.n) :
     item \in {it \in Elements(items) : it.kind = "message" /\ it.extra}}
  \union
  {Entry("searches", item.key, item.n) :
     item \in {it \in Elements(items) : it.kind = "search" /\ executed}}

Turn(cache) == CASE cache = "tools" -> 1 [] cache = "messages" -> 2 [] cache = "searches" -> 3

(* It does so in this order, and in that of the items.                     *)
NotAfter(entry, other) ==
  \/ Turn(entry.cache) < Turn(other.cache)
  \/ entry.cache = other.cache /\ entry.value <= other.value

Some(items, kind) == \E i \in DOMAIN items : items[i].kind = kind

Numbered(items) ==
  [i \in DOMAIN items |->
     [n |-> made + i, kind |-> items[i].kind, key |-> items[i].key, id |-> items[i].id,
      extra |-> items[i].extra]]

(* The upstream has answered.  Searches without a client's call among them *)
(* are followed up; beyond the last follow-up they are shown, but not      *)
(* executed.  A stream may break after its items were shown.               *)
Generate(c) ==
  /\ \/ pc[c] = "translating" /\ Len(replayed[c]) = Len(history[c])
     \/ pc[c] = "following" /\ todo[c] = {}
  /\ \E items \in Answers :
       LET new == Numbered(items)
           goOn(label, entries) == /\ pc' = [pc EXCEPT ![c] = label]
                                   /\ todo' = [todo EXCEPT ![c] = entries]
       IN  /\ made' = made + Len(items) /\ made' <= MaxItems
           /\ answer' = [answer EXCEPT ![c] = @ \o new]
           /\ \/ Some(new, "search") /\ ~Some(new, "call")
                 /\ goOn("following", ToRemember(new, TRUE))
              \/ (Some(new, "search") => Some(new, "call"))
                 /\ goOn("finishing", ToRemember(new, TRUE))
              \/ pc[c] = "following" /\ Some(new, "search") /\ ~Some(new, "call")
                 /\ goOn("finishing", ToRemember(new, FALSE))
              \/ goOn("failing", {})
  /\ replayed' = [replayed EXCEPT ![c] = <<>>]
  /\ UNCHANGED <<caches, history>>

(* handleCompact: an answer that is to replace the history, if there is any.*)
GenerateCompact(c) ==
  /\ pc[c] = "translating" /\ Len(replayed[c]) = Len(history[c]) /\ history[c] # <<>>
  /\ \E items \in Answers :
       /\ made' = made + Len(items) /\ made' <= MaxItems
       /\ answer' = [answer EXCEPT ![c] = Numbered(items)]
       /\ todo' = [todo EXCEPT ![c] = ToRemember(Numbered(items), FALSE)]
  /\ pc' = [pc EXCEPT ![c] = "compacting"]
  /\ replayed' = [replayed EXCEPT ![c] = <<>>]
  /\ UNCHANGED <<caches, history>>

Remember(c) ==
  /\ \E entry \in todo[c] :
       /\ \A other \in todo[c] : NotAfter(entry, other)
       /\ log' = [log EXCEPT ![entry.cache] = Append(@, entry)]
       /\ \/ entry.cache = "tools" /\ tools' = InsertTool(entry.key, entry.value)
             /\ UNCHANGED <<messages, searches>>
          \/ entry.cache = "messages"
             /\ messages' = Insert(messages, entry.key, entry.value, MaxMessages)
             /\ UNCHANGED <<tools, searches>>
          \/ entry.cache = "searches"
             /\ searches' = Insert(searches, entry.key, entry.value, MaxSearches)
             /\ UNCHANGED <<tools, messages>>
       /\ todo' = [todo EXCEPT ![c] = @ \ {entry}]
  /\ UNCHANGED <<made, pc, history, replayed, answer>>

Leave(c, items) ==
  /\ history' = [history EXCEPT ![c] = items]
  /\ pc' = [pc EXCEPT ![c] = "idle"]
  /\ answer' = [answer EXCEPT ![c] = <<>>]
  /\ todo' = [todo EXCEPT ![c] = {}]
  /\ replayed' = [replayed EXCEPT ![c] = <<>>]
  /\ UNCHANGED <<caches, made>>

Finish(c) ==
  /\ todo[c] = {}
  /\ \/ pc[c] = "finishing" /\ Leave(c, history[c] \o answer[c])
     \/ pc[c] = "compacting" /\ Leave(c, answer[c])

(* The request fails: upstream, while searching, or at a broken stream.    *)
(* The client may keep what it was shown, or not.                          *)
Fail(c) ==
  /\ \/ pc[c] = "translating" /\ Len(replayed[c]) = Len(history[c])
     \/ pc[c] \in {"failing", "following"} /\ todo[c] = {}
     \/ pc[c] \in {"following", "finishing"} /\ todo[c] # {}
        /\ \A entry \in todo[c] : entry.cache = "searches"
  /\ \/ Leave(c, history[c]) \/ Leave(c, history[c] \o answer[c])

Next ==
  \E c \in Conversations :
    \/ Ask(c) \/ LookUp(c) \/ Generate(c) \/ GenerateCompact(c)
    \/ Remember(c) \/ Finish(c) \/ Fail(c)

Spec == Init /\ [][Next]_vars
-----------------------------------------------------------------------------
Marks == 1 .. made

(* How many of these entries, from one to another, are under a key.        *)
Times(entries, key, from, to) == Cardinality({i \in from .. to : entries[i].key = key})

(* What each cache has lost of its entries: all but the newest.            *)
Gone(entries, max) == IF Len(entries) > max THEN Len(entries) - max ELSE 0

(* All entries but those gone are in the order, and each key's in its list.*)
Holds(cache, entries, gone) ==
  /\ cache.order = [i \in 1 .. Len(entries) - gone |-> entries[gone + i].key]
  /\ DOMAIN cache.byKey = Elements(cache.order)
  /\ \A k \in DOMAIN cache.byKey :
       /\ Len(cache.byKey[k]) = Times(entries, k, gone + 1, Len(entries))
       /\ \A j \in DOMAIN cache.byKey[k] : \E i \in gone + 1 .. Len(entries) :
            /\ entries[i].key = k /\ entries[i].value = cache.byKey[k][j]
            /\ j = Times(entries, k, gone + 1, i)

CacheIsNewest(cache, entries, max) == Holds(cache, entries, Gone(entries, max))

(* Every variable has its type.                                            *)
TypeOK ==
  /\ made \in 0 .. MaxItems
  /\ DOMAIN tools.value = Elements(tools.order)
  /\ Len(tools.order) <= MaxTools /\ Len(messages.order) <= MaxMessages
  /\ Len(searches.order) <= MaxSearches
  /\ \A c \in Conversations :
       /\ pc[c] \in {"idle", "translating", "following", "finishing", "compacting", "failing"}
       /\ \A p \in DOMAIN history[c] : history[c][p].n \in Marks /\ history[c][p].kind \in Kinds
       /\ Len(replayed[c]) <= Len(history[c])
       /\ \A p \in DOMAIN replayed[c] : replayed[c][p] \in Marks \union {None}

(* The two caches of lists hold the newest entries ever remembered, however*)
(* many keys and conversations they are spread over: each key's in order,  *)
(* and no key without any.  The metadata kept for a call is the last that  *)
(* came with its ID, and an ID has one place in the order, so eviction     *)
(* drops no other's.                                                       *)
NewestKept ==
  /\ CacheIsNewest(messages, log["messages"], MaxMessages)
  /\ CacheIsNewest(searches, log["searches"], MaxSearches)
  /\ \A i, j \in DOMAIN tools.order : tools.order[i] = tools.order[j] => i = j
  /\ \A id \in DOMAIN tools.value : \E i \in DOMAIN log["tools"] :
       /\ log["tools"][i].key = id /\ log["tools"][i].value = tools.value[id]
       /\ \A j \in DOMAIN log["tools"] : j > i => log["tools"][j].key # id

CacheFor(kind) == CASE kind = "message" -> "messages" [] kind = "search" -> "searches"
                    [] kind = "call" -> "tools"

SameList(x, y) == x.kind = y.kind /\ x.kind # "call" /\ x.key = y.key

(* Whatever other conversations add or evict between the look-ups of one   *)
(* request, occurrences of the same content or action get entries in the   *)
(* order they were remembered in, none twice.                              *)
ReplayInOrder ==
  \A c \in Conversations : \A p, q \in DOMAIN replayed[c] :
    LET entries == log[CacheFor(history[c][p].kind)] IN
    /\ p < q /\ SameList(history[c][p], history[c][q])
    /\ replayed[c][p] # None /\ replayed[c][q] # None
    => \A i, j \in DOMAIN entries :
         entries[i].value = replayed[c][p] /\ entries[j].value = replayed[c][q] => i < j

MaxFor(kind) == IF kind = "message" THEN MaxMessages ELSE MaxSearches

(* Nobody else used the call's ID, but its metadata was remembered: it is  *)
(* replayed, unless it was evicted.                                        *)
OwnCall(item, entries, kept, value) ==
  /\ \A i \in DOMAIN entries : entries[i].key = item.id => entries[i].value = item.n
  /\ \E i \in DOMAIN entries : entries[i].key = item.id /\ entries[i].value = item.n
  => value = item.n \/ item.id \notin kept

(* Nothing was evicted, and the entry of this occurrence is what came with *)
(* this item: it is replayed.                                              *)
OwnEntry(item, occurrence, entries, max, value) ==
  /\ Len(entries) <= max
  /\ \E i \in DOMAIN entries :
       /\ entries[i].key = item.key /\ entries[i].value = item.n
       /\ Times(entries, item.key, 1, i) = occurrence + 1
  => value = item.n

(* Each item gets back what came with it, even while other conversations   *)
(* remember more between the look-ups.                                     *)
ReplayExact ==
  \A c \in Conversations : \A p \in DOMAIN replayed[c] :
    LET item == history[c][p]
        entries == log[CacheFor(item.kind)]
    IN  /\ item.kind = "call" => OwnCall(item, entries, DOMAIN tools.value, replayed[c][p])
        /\ item.kind # "call" =>
             OwnEntry(item, Occurrence(history[c], p), entries, MaxFor(item.kind), replayed[c][p])

Mark(item) == IF item.kind = "search" \/ item.extra THEN item.n ELSE None

(* As README.md has it: metadata of messages is keyed by content and       *)
(* occurrence.  So one occurrence never gets another's, at least where the *)
(* metadata remembered is just what came with messages of this history.    *)
MetadataOfItsOccurrence ==
  \A c \in Conversations : \A p \in DOMAIN replayed[c] :
    LET item == history[c][p]
        brought == {history[c][q].n : q \in {r \in DOMAIN history[c] : history[c][r].extra}}
        kept == UNION {{entry.value : entry \in Elements(log[cache])} : cache \in Caches}
    IN  item.kind = "message" /\ brought = kept => replayed[c][p] \in {None, Mark(item)}
=============================================================================
