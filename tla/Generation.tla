----------------------------- MODULE Generation -----------------------------
(***************************************************************************)
(* One Chat Completions answer turned into Responses items (adapter.go,    *)
(* chatGeneration).  Each method is an operator from a generation to the   *)
(* generation it leaves, with the events it wrote appended to `events`.    *)
(*                                                                         *)
(* Text is a count of the pieces it is made of.  The arguments of a custom *)
(* call are JSON with one string, the tool's input, and are decoded twice: *)
(* as far as they came for a delta, as a whole for the done item.  A call  *)
(* that the upstream itself gives as custom, whose input is no JSON        *)
(* (rawCustomInput), extra_content, usage and the wording of items are     *)
(* left out.                                                               *)
(***************************************************************************)
EXTENDS Integers, FiniteSets, Sequences, FiniteSetsExt

CONSTANTS
  Names,  \* tool names the upstream model may call
  Kind,   \* what each name was declared as: mappingForTool
  IDs     \* call IDs the upstream may give

NoName == "none"

NoID == 0
NoItem == 0
NoIndex == -1

Kinds == {"function", "custom", "web_search", "tool_search"}

ASSUME GenerationAssumption ==
  /\ NoName \notin Names /\ Kind \in [Names -> Kinds]
  /\ IDs \subseteq Nat \ {NoID}

TextKinds == {"message", "reasoning"}

(* streamedAssistantItem, streamedReasoningItem; item is NoItem when nil.  *)
NewText(item) ==
  [item |-> item, text |-> 0, announced |-> FALSE, done |-> FALSE, index |-> NoIndex]

(* What a fragment of arguments may be: the JSON up to the string, which   *)
(* is that of the key "input" or another one; text of the string; a        *)
(* surrogate pair in it; the JSON after it; or input's JSON in one piece.  *)
(* None is blank.  Those of a function are only counted.                   *)
Fragments == {"none", "input", "other", "text", "pair", "close", "whole"}

(* chatToolCall.  args counts the fragments of the arguments, decoded and  *)
(* emitted the input in them so far and as sent, and value what is in      *)
(* their string.  prefix is where decodeCustomInputPrefix is in them, json *)
(* what json.Unmarshal has of them; a pair is not decoded alike by both.   *)
NewTool ==
  [item |-> NoItem, id |-> NoID, name |-> NoName, kind |-> NoName, args |-> 0, decoded |-> 0,
   emitted |-> 0, value |-> 0, prefix |-> "before", json |-> "empty", paired |-> FALSE,
   announced |-> FALSE, done |-> FALSE, index |-> NoIndex]

(* newID: upstream's IDs are positive, the adapter's own negative.         *)
NewGeneration(events, lastID) ==
  [text |-> [k \in TextKinds |-> NewText(NoItem)], tools |-> <<>>,
   activeKind |-> "none", activeTool |-> NoIndex, nextOutputIndex |-> 0,
   lastID |-> lastID, events |-> events]

(* form is what n counts: text, or what the content of a call was made of. *)
EmitAs(g, type, item, index, callID, n, form) ==
  [g EXCEPT !.events = Append(@, [type |-> type, item |-> item, index |-> index,
                                  callID |-> callID, n |-> n, form |-> form])]

Emit(g, type, item, index, callID, n) == EmitAs(g, type, item, index, callID, n, "text")

TextDone(g, k) == Emit(g, "done", g.text[k].item, NoIndex, NoID, g.text[k].text)

(* A call that never got a name is presented as a function.                *)
KindOf(t) ==
  CASE t.kind # NoName -> t.kind
    [] t.kind = NoName /\ t.name # NoName -> Kind[t.name]
    [] OTHER -> "function"

(* customInputFromArguments: the string of the key "input", or of another; *)
(* arguments that are no JSON, such as cut ones, as they came.             *)
CustomInput(t) ==
  CASE t.json = "empty" -> [n |-> 0, form |-> "input"]
    [] t.json = "whole" ->
         [n |-> t.value, form |-> CASE t.prefix = "before" -> "other"
                                    [] t.prefix # "before" /\ t.paired -> "paired"
                                    [] OTHER -> "input"]
    [] OTHER -> [n |-> t.args, form |-> "raw"]

(* argsOrEmptyObject.                                                      *)
ArgsOrEmptyObject(t) ==
  IF t.args = 0 THEN [n |-> 1, form |-> "object"] ELSE [n |-> t.args, form |-> "arguments"]

(* Of calls that the adapter or Codex runs it is not told apart.           *)
Content(t) == IF KindOf(t) = "custom" THEN CustomInput(t) ELSE ArgsOrEmptyObject(t)

(* toolCallItem: an item not announced, or a call without an ID, gets one  *)
(* that is not kept.                                                       *)
ToolDone(g, i) ==
  LET t == g.tools[i]
      kind == KindOf(t)
      id == IF kind = "web_search" THEN NoID ELSE IF t.id # NoID THEN t.id ELSE g.lastID - 1
      item == IF t.item # NoItem THEN t.item ELSE g.lastID - 2
  IN  EmitAs([g EXCEPT !.lastID = @ - 2], "done", item, NoIndex, id, Content(t).n, Content(t).form)

Deactivate(g) == [g EXCEPT !.activeKind = "none", !.activeTool = NoIndex]

FinishActiveItem(g) ==
  Deactivate(
    CASE /\ g.activeKind \in TextKinds
         /\ g.text[g.activeKind].announced /\ ~g.text[g.activeKind].done ->
           [TextDone(g, g.activeKind) EXCEPT !.text[g.activeKind].done = TRUE]
      [] /\ g.activeKind = "tool" /\ g.activeTool \in DOMAIN g.tools
         /\ g.tools[g.activeTool].announced /\ ~g.tools[g.activeTool].done ->
           [ToolDone(g, g.activeTool) EXCEPT !.tools[g.activeTool].done = TRUE]
      [] OTHER -> g)

(* Mutant: an item that is done is used again.                             *)
NoItemYet(t) == t.item = NoItem

NeedsNewItem(t) == t.item = NoItem \/ t.done

(* ensureMessageActive, ensureReasoningActive: an item that is done is     *)
(* followed by a new one.                                                  *)
EnsureTextActive(g, k) ==
  LET old == g.text[k]
      g1 == IF NeedsNewItem(old) THEN [g EXCEPT !.text[k] = NewText(g.lastID - 1), !.lastID = @ - 1] ELSE g
      g2 == [FinishActiveItem(g1) EXCEPT !.activeKind = k]
      g3 == [g2 EXCEPT !.text[k].index = g2.nextOutputIndex, !.text[k].announced = TRUE,
                       !.nextOutputIndex = @ + 1]
  IN  IF ~g1.text[k].announced
        THEN Emit(g3, "added", g3.text[k].item, g3.text[k].index, NoID, 0)
        ELSE IF g1.activeKind = k THEN g1 ELSE g2

TextDelta(g, k) ==
  LET g1 == EnsureTextActive(g, k)
      g2 == [g1 EXCEPT !.text[k].text = @ + 1]
  IN  Emit(g2, "delta", g2.text[k].item, g2.text[k].index, NoID, 1)

(* The tool before it, if there is one, is left open: arguments of several *)
(* calls may alternate.                                                    *)
EnsureToolActive(g, i) ==
  [IF g.activeKind = "tool" THEN g ELSE FinishActiveItem(g)
     EXCEPT !.activeKind = "tool", !.activeTool = i]

WithTool(g, i, t) ==
  [g EXCEPT !.tools = [j \in DOMAIN g.tools \union {i} |-> IF j = i THEN t ELSE g.tools[j]]]

(* Mutant: a call that came without an ID is announced without one.        *)
IDAsGiven(g, t) == t.id

AnnouncedID(g, t) == IF t.id = NoID THEN g.lastID - 1 ELSE t.id

(* announceFunctionTool, announceCustomTool.                               *)
AnnounceTool(g, i) ==
  LET t == [g.tools[i] EXCEPT !.id = AnnouncedID(g, g.tools[i]), !.item = g.lastID - 2,
                              !.index = g.nextOutputIndex, !.announced = TRUE]
      g1 == [WithTool(g, i, t) EXCEPT !.nextOutputIndex = @ + 1, !.lastID = @ - 2]
  IN  IF g.tools[i].announced THEN g ELSE Emit(g1, "added", t.item, t.index, t.id, 0)

(* Mutant: what was sent of a custom call's input is sent again.           *)
WholeInput(t) == t.decoded

NewInput(t) == t.decoded - t.emitted

ToolDelta(g, i, n) ==
  IF n = 0 THEN g
  ELSE Emit(g, "delta", g.tools[i].item, g.tools[i].index, g.tools[i].id, n)

(* A call is announced once its name tells what it is; those the adapter   *)
(* or Codex runs are not.                                                  *)
EmitToolCallDelta(g, i, fragment) ==
  LET t == g.tools[i]
      kind == IF t.kind = NoName /\ t.name # NoName THEN Kind[t.name] ELSE t.kind
      g1 == WithTool(g, i, [t EXCEPT !.kind = kind])
      g2 == AnnounceTool(EnsureToolActive(g1, i), i)
  IN  CASE kind = "function" -> ToolDelta(g2, i, IF fragment = "none" THEN 0 ELSE 1)
        [] kind = "custom" ->
             ToolDelta(WithTool(g2, i, [g2.tools[i] EXCEPT !.emitted = t.decoded]), i, NewInput(t))
        [] OTHER -> g1

Started(t) == t.id # NoID \/ t.name # NoName \/ t.args > 0 \/ t.announced

NextToolIndex(g) == 1 + Max({NoIndex} \union DOMAIN g.tools)

(* A call of a whole answer without an index has that of its position.     *)
(* Mutant: and so has a delta.                                             *)
ToolAtPosition(g, call, position) ==
  IF call.index # NoIndex THEN call.index ELSE position

(* toolForDelta, toolByID.  Without an index a delta belongs to the call   *)
(* with its ID, or else to the one at its position, unless that is another *)
(* call.                                                                   *)
ToolForDelta(g, call, position) ==
  LET known == {i \in DOMAIN g.tools : g.tools[i].id = call.id}
      there == g.tools[position]
  IN  CASE call.index # NoIndex -> call.index
        [] call.index = NoIndex /\ call.id # NoID /\ known # {} -> CHOOSE i \in known : TRUE
        [] OTHER ->
             IF /\ position \in DOMAIN g.tools /\ Started(there)
                /\ \/ call.id # NoID /\ there.id # NoID /\ there.id # call.id
                   \/ call.name # NoName /\ there.name # NoName /\ there.name # call.name
               THEN NextToolIndex(g)
               ELSE position

(* decodeCustomInputPrefix: it skips to the key "input" and reads up to    *)
(* the next quote, which may be that of another key.                       *)
PrefixAfter(t, fragment) ==
  CASE fragment = "none" -> t.prefix
    [] t.prefix = "before" /\ fragment = "input" -> "inside"
    [] t.prefix = "before" /\ fragment = "whole" -> "past"
    [] t.prefix = "inside" /\ fragment \notin {"none", "text", "pair"} -> "past"
    [] OTHER -> t.prefix

Decodes(t, fragment) ==
  IF \/ t.prefix = "inside" /\ fragment \notin {"none", "close"}
     \/ t.prefix = "before" /\ fragment = "whole"
    THEN 1 ELSE 0

(* json.Unmarshal in customInputFromArguments.                             *)
JSONAfter(t, fragment) ==
  CASE fragment = "none" -> t.json
    [] t.json = "empty" /\ fragment \in {"input", "other"} -> "open"
    [] t.json = "empty" /\ fragment = "whole" -> "whole"
    [] t.json = "open" /\ fragment \in {"text", "pair"} -> "open"
    [] t.json = "open" /\ fragment = "close" -> "whole"
    [] OTHER -> "broken"

(* What a delta adds to a call.                                            *)
Accumulate(t, call) ==
  [t EXCEPT !.id = IF call.id # NoID THEN call.id ELSE @,
            !.name = IF call.name # NoName THEN call.name ELSE @,
            !.args = IF call.fragment # "none" THEN @ + 1 ELSE @,
            !.decoded = @ + Decodes(t, call.fragment),
            !.value = IF call.fragment \in {"text", "pair", "whole"} THEN @ + 1 ELSE @,
            !.prefix = PrefixAfter(t, call.fragment),
            !.json = JSONAfter(t, call.fragment),
            !.paired = @ \/ call.fragment = "pair"]

ToolAt(g, i) == IF i \in DOMAIN g.tools THEN g.tools[i] ELSE NewTool

(* applyToolCallDeltas; the older function_call is a call with index 0.    *)
ApplyToolCallDelta(g, call, position) ==
  LET i == ToolForDelta(g, call, position)
  IN  EmitToolCallDelta(WithTool(g, i, Accumulate(ToolAt(g, i), call)), i, call.fragment)

(* The calls of a chunk in their order: AppliedTo(g, calls)[p] has p.      *)
AppliedTo(g, calls) ==
  LET h[p \in 0 .. Len(calls)] ==
        IF p = 0 THEN g ELSE ApplyToolCallDelta(h[p - 1], calls[p], p - 1)
  IN  h

(* applyStreamChunk: text, then reasoning, then the calls.                 *)
ApplyStreamChunk(g, chunk) ==
  LET g1 == IF chunk.content THEN TextDelta(g, "message") ELSE g
      g2 == IF chunk.reasoning THEN TextDelta(g1, "reasoning") ELSE g1
  IN  AppliedTo(g2, chunk.calls)[Len(chunk.calls)]

(* generationFromChatResponse: one message, nothing announced.             *)
WholeText(g, k) ==
  [g EXCEPT !.text[k] = [NewText(g.lastID - 1) EXCEPT !.text = 1], !.lastID = @ - 1]

WholeCall(g, call, i) ==
  WithTool(g, i, [Accumulate(ToolAt(g, i), call) EXCEPT !.id = call.id, !.name = call.name])

CallsReadInto(g, calls) ==
  LET h[p \in 0 .. Len(calls)] ==
        IF p = 0 THEN g
        ELSE WholeCall(h[p - 1], calls[p], ToolAtPosition(h[p - 1], calls[p], p - 1))
  IN  h

FromChatResponse(g, message) ==
  LET g1 == IF message.content THEN WholeText(g, "message") ELSE g
      g2 == IF message.reasoning THEN WholeText(g1, "reasoning") ELSE g1
  IN  CallsReadInto(g2, message.calls)[Len(message.calls)]

(* Mutant: only the item that is active at the end is done.                *)
EmitActiveItemOnly(g) == FinishActiveItem(g)

(* Indexes of calls in their order.                                        *)
Ascending(S) ==
  CHOOSE s \in [1 .. Cardinality(S) -> S] : \A p, q \in DOMAIN s : p < q => s[p] < s[q]

RestOfText(g, k) == IF g.text[k].text > 0 /\ ~g.text[k].done THEN TextDone(g, k) ELSE g

RestOfTools(g, order) ==
  LET h[p \in 0 .. Len(order)] ==
        IF p = 0 THEN g
        ELSE IF g.tools[order[p]].done THEN h[p - 1]
        ELSE ToolDone(h[p - 1], order[p])
  IN  h

(* emitGenerationOutputItems with responseItems: what is not done yet, in  *)
(* the order reasoning, message, calls by index.                           *)
EmitGenerationOutputItems(g) ==
  LET g1 == IF g.activeKind = "tool" THEN Deactivate(g) ELSE FinishActiveItem(g)
      g2 == RestOfText(RestOfText(g1, "reasoning"), "message")
      order == Ascending(DOMAIN g.tools)
  IN  RestOfTools(g2, order)[Len(order)]

(* webSearchCallsForTurn.                                                  *)
WebSearchCalls(g) ==
  Ascending({i \in DOMAIN g.tools : KindOf(g.tools[i]) = "web_search"})

AllWebSearch(g) == \A i \in DOMAIN g.tools : KindOf(g.tools[i]) = "web_search"
=============================================================================
