-------------------------- MODULE RequestTranslation --------------------------
(***************************************************************************)
(* From a Responses request to the tools and messages of a Chat request    *)
(* (adapter.go, buildChatRequest, translateInput).  The items of the       *)
(* history are read one after the other.  Calls are collected into one     *)
(* assistant message, with reasoning and text if the mode sends reasoning  *)
(* back, and images of tool outputs are put off, since Chat Completions    *)
(* wants the outputs of a message's calls right after it.                  *)
(*                                                                         *)
(* Items are known by their place in the history; a message says which     *)
(* items it has in it and as what.  IDs of calls are numbers, 0 where the  *)
(* client gave none, negative where the adapter made one up.               *)
(***************************************************************************)
EXTENDS ToolNames

NoID == 0

CONSTANT Inbound  \* the requests: how reasoning is sent back, whether there are
                  \* instructions, the tools, the items, and how many at most

(* What normalizeRole makes of an item's role.                             *)
Roles == {"system", "user", "assistant", "tool"}

(* How reasoning is sent back, or that it is not.                          *)
Modes == {"drop", "assistant-content", "reasoning-content"}

Tools == [kind : STRING, namespace : Seq(STRING), name : Seq(STRING)]

(* The tool a tool_search_call of the history calls.                       *)
Finding == Tool("tool_search", <<>>, HostedName("tool_search"))

(* A cached search has an ID, if only one made up.                         *)
ASSUME InboundAssumption == \A asked \in Inbound :
  /\ asked.mode \in Modes /\ asked.tools \in Seq(Tools)
  /\ \A item \in asked.items :
       /\ item.kind = "message" => item.role \in Roles
       /\ item.kind = "call" /\ item.tool.kind = "tool_search" => item.tool = Finding
       /\ item.kind = "tool_search_output" => item.tools \in Seq(Tools)
       /\ item.kind = "web_search" /\ item.cached => item.id # NoID

VARIABLES
  request,   \* the member of Inbound
  names,     \* usedNames, byChat, byKey
  sent,      \* the chat tools of the request, each with the tool it stands for
  history,   \* the items read
  pending,   \* pendingAssistant
  images,    \* pendingImageMsgs
  rendered,  \* renderedCallIDs and renderedCallNames
  messages

translation == <<request, names, sent, history, pending, images, rendered, messages>>

Part(item, as) == [item |-> item, as |-> as]

Message(role, parts) ==
  [role |-> role, parts |-> parts, calls |-> <<>>, id |-> NoID, name |-> <<>>]

MarkerMessage(item) == Message("assistant", <<Part(item, "marker")>>)

ToolMessage(item, id, name) ==
  [Message("tool", <<Part(item, "output")>>) EXCEPT !.id = id, !.name = name]

ImageMessage(item) == Message("user", <<Part(item, "image")>>)

Nothing == [reasoning |-> <<>>, text |-> <<>>, calls |-> <<>>, results |-> <<>>]

(* assistantHistoryMessage.flush: one assistant message, then the results  *)
(* of the searches among its calls.                                        *)
Flush(p) ==
  IF p = Nothing THEN <<>>
  ELSE <<[Message("assistant", p.reasoning \o p.text) EXCEPT !.calls = p.calls]>> \o p.results

InitTranslation ==
  /\ request \in Inbound
  /\ names = NewNames /\ sent = <<>>
  /\ history = <<>> /\ pending = Nothing /\ images = <<>> /\ rendered = <<>>
  /\ messages = IF request.instructions THEN <<Message("system", <<>>)>> ELSE <<>>
-----------------------------------------------------------------------------
(* Tools.                                                                  *)

Entry(known, tool) == [chat |-> ChatName(known, tool), tool |-> Named(tool)]

WithTool(start, tool) ==
  [names |-> Register(start.names, tool), sent |-> Append(start.sent, Entry(start.names, tool))]

(* One entry of tools after the other, those of a namespace in its place.  *)
WithTools(start, tools) ==
  LET so[i \in 0 .. Len(tools)] == IF i = 0 THEN start ELSE WithTool(so[i - 1], tools[i])
  IN  so[Len(tools)]

(* registerDiscoveredTool: what is declared is not registered again.       *)
WithDiscoveredTool(start, tool) ==
  IF HasRegisteredTool(start.names, tool) THEN start ELSE WithTool(start, tool)

WithDiscoveredTools(start, tools) ==
  LET so[i \in 0 .. Len(tools)] == IF i = 0 THEN start ELSE WithDiscoveredTool(so[i - 1], tools[i])
  IN  so[Len(tools)]

Registry == [names |-> names, sent |-> sent]

TranslateTools ==
  /\ LET all == WithTools(Registry, request.tools)
     IN  names' = all.names /\ sent' = all.sent
  /\ UNCHANGED <<request, history, pending, images, rendered, messages>>
-----------------------------------------------------------------------------
(* Items.                                                                  *)

(* Of the item that is being read.                                         *)
Place == Len(history) + 1

(* An item that is no tool output sends the images on their way first.     *)
Said == messages \o images

ReasoningSentBack == request.mode = "reasoning-content"

Read(item) ==
  /\ history' = Append(history, item)
  /\ UNCHANGED request

SameNames == UNCHANGED <<names, sent>>

(* The item becomes messages of its own, after the pending one.            *)
Separately(own, so) ==
  /\ messages' = so \o Flush(pending) \o own
  /\ pending' = Nothing

(* Mutant: the pending message's text is overwritten.                      *)
SplitBeforeResults(p) == p.calls # <<>> \/ p.results # <<>>

(* Text, calls or results end what reasoning and text may be added to.     *)
SplitBefore(p) == p.text # <<>> \/ p.calls # <<>> \/ p.results # <<>>

(* mergeReasoningHistoryItem for reasoning and text: what they are added   *)
(* to, and the pending message that comes of it.                           *)
Open == IF SplitBefore(pending) THEN Nothing ELSE pending

Merge(message) ==
  /\ messages' = IF SplitBefore(pending) THEN Said \o Flush(pending) ELSE Said
  /\ pending' = message

ReadMessage(item) ==
  /\ item.kind = "message"
  /\ Read(item)
  /\ images' = <<>>
  /\ LET part == <<Part(Place, "text")>> IN
       IF ReasoningSentBack /\ item.role = "assistant"
         THEN Merge([Open EXCEPT !.text = part])
         ELSE Separately(<<Message(item.role, part)>>, Said)
  /\ SameNames /\ UNCHANGED rendered

(* Reasoning that is only encrypted says nothing.                          *)
ReadReasoning(item) ==
  /\ item.kind = "reasoning"
  /\ Read(item)
  /\ images' = <<>>
  /\ LET part == IF item.readable THEN <<Part(Place, "reasoning")>> ELSE <<>> IN
       CASE ReasoningSentBack -> Merge([Open EXCEPT !.reasoning = @ \o part])
         [] request.mode = "assistant-content" /\ item.readable ->
              Separately(<<Message("assistant", part)>>, Said)
         [] OTHER -> Separately(<<>>, Said)
  /\ SameNames /\ UNCHANGED rendered

Call(id, name) == [item |-> Place, id |-> IF id = NoID THEN -Place ELSE id, name |-> name]

Renderable(item) ==
  \/ item.tool.kind = "tool_search"
  \/ HasRegisteredTool(names, item.tool) /\ item.valid

(* tool_search is known even where it is not declared.                     *)
RenderedName(tool) ==
  IF HasRegisteredTool(names, tool) THEN KnownChatNameFor(names, tool) ELSE Finding.name

(* A call of the client's tools.                                           *)
ReadCall(item) ==
  /\ item.kind = "call"
  /\ Read(item)
  /\ images' = <<>>
  /\ IF Renderable(item)
       THEN /\ messages' = Said
            /\ pending' = [pending EXCEPT !.calls = Append(@, Call(item.id, RenderedName(item.tool)))]
            /\ rendered' = Put(rendered, item.id, RenderedName(item.tool))
       ELSE Separately(<<MarkerMessage(Place)>>, Said) /\ UNCHANGED rendered
  /\ SameNames

(* Only what was cached can be told as a call with its result; anything    *)
(* else is left out.                                                       *)
ReadSearch(item) ==
  /\ item.kind = "web_search"
  /\ Read(item)
  /\ images' = <<>> /\ messages' = Said
  /\ LET name == HostedName("web_search") IN
       pending' = IF ~item.cached THEN pending
                  ELSE [pending EXCEPT !.calls = Append(@, Call(item.id, name)),
                                       !.results = Append(@, ToolMessage(Place, item.id, name))]
  /\ SameNames /\ UNCHANGED rendered

Answers(item) == item.id # NoID /\ item.id \in DOMAIN rendered

OutputMessage(item) ==
  IF Answers(item) THEN ToolMessage(Place, item.id, rendered[item.id]) ELSE MarkerMessage(Place)

(* Mutant: an image is not put off.                                        *)
ReadOutputWithImage(item) ==
  /\ item.kind = "output"
  /\ Read(item)
  /\ Separately(<<OutputMessage(item)>>
                \o (IF Answers(item) /\ item.image THEN <<ImageMessage(Place)>> ELSE <<>>), messages)
  /\ SameNames /\ UNCHANGED <<rendered, images>>

(* function_call_output and custom_tool_call_output.                       *)
ReadOutput(item) ==
  /\ item.kind = "output"
  /\ Read(item)
  /\ Separately(<<OutputMessage(item)>>, messages)
  /\ images' = IF Answers(item) /\ item.image THEN Append(images, ImageMessage(Place)) ELSE images
  /\ SameNames /\ UNCHANGED rendered

(* It does not count as a tool output where images are put off.            *)
ReadToolSearchOutput(item) ==
  /\ item.kind = "tool_search_output"
  /\ Read(item)
  /\ Separately(<<OutputMessage(item)>>, Said)
  /\ images' = <<>>
  /\ LET all == WithDiscoveredTools(Registry, item.tools)
     IN  names' = all.names /\ sent' = all.sent
  /\ UNCHANGED rendered

(* Of a type that is not known, or no object.                              *)
ReadOther(item) ==
  /\ item.kind = "other"
  /\ Read(item)
  /\ Separately(<<MarkerMessage(Place)>>, Said)
  /\ images' = <<>>
  /\ SameNames /\ UNCHANGED rendered

ReadItem ==
  /\ Len(history) < request.length
  /\ \E item \in request.items :
       \/ ReadMessage(item) \/ ReadReasoning(item) \/ ReadCall(item) \/ ReadSearch(item)
       \/ ReadOutput(item) \/ ReadToolSearchOutput(item) \/ ReadOther(item)

(* A request is never without a message.                                   *)
EndInput ==
  /\ messages' = LET all == messages \o Flush(pending) \o images
                 IN  IF all = <<>> THEN <<Message("user", <<>>)>> ELSE all
  /\ pending' = Nothing /\ images' = <<>>
  /\ UNCHANGED <<request, history, rendered>> /\ SameNames
-----------------------------------------------------------------------------
(* What the upstream would get for the items read so far.                  *)
Outgoing == messages \o Flush(pending) \o images

CallsOf(out, item) ==
  {m \in DOMAIN out : \E c \in DOMAIN out[m].calls : out[m].calls[c].item = item}

ResultsOf(out, item) ==
  {m \in DOMAIN out : out[m].role = "tool" /\ out[m].parts[1].item = item}

CallIn(message, item) ==
  message.calls[CHOOSE c \in DOMAIN message.calls : message.calls[c].item = item]

(* The items from p to q are calls and then outputs, as a client has them  *)
(* that runs calls side by side; none became a marker, and tool searches   *)
(* are answered before images come.                                        *)
OneTurn(out, p, q) ==
  \E last \in p .. q - 1 :
    /\ \A k \in p .. last :
         \/ history[k].kind = "call" /\ CallsOf(out, k) # {}
         \/ history[k].kind = "web_search"
    /\ \A k \in last + 1 .. q :
         history[k].kind \in {"output", "tool_search_output"} /\ ResultsOf(out, k) # {}
    /\ \A k \in last + 1 .. q - 1 : history[k].kind = "output" /\ history[k].image =>
         \A l \in k .. q : history[l].kind = "output"

(* Chat Completions takes a tool message only for a call that was made and *)
(* right after it: each that bears an output has an assistant message      *)
(* before it that calls that tool by that ID; and where calls and then     *)
(* their outputs make up a turn, only tool messages stand between a call   *)
(* and its result, images put off.  (A message whose role the client gives *)
(* as tool is passed on as it is.)                                         *)
ResultsFollowCalls ==
  LET out == Outgoing
      answers(call, m) == call.id = out[m].id /\ call.name = out[m].name
  IN  /\ \A m \in DOMAIN out : out[m].role = "tool" /\ out[m].parts[1].as = "output" =>
           \E n \in 1 .. m - 1 :
             out[n].role = "assistant" /\ \E c \in DOMAIN out[n].calls : answers(out[n].calls[c], m)
      /\ \A p, q \in DOMAIN history : p < q /\ OneTurn(out, p, q) =>
           \A n \in CallsOf(out, p), m \in ResultsOf(out, q) : answers(CallIn(out[n], p), m) =>
             \A between \in n + 1 .. m - 1 : out[between].role = "tool"

PartsOf(message) ==
  message.parts \o [c \in DOMAIN message.calls |-> Part(message.calls[c].item, "call")]

(* The parts in the order the upstream reads them.                         *)
Parts(out) ==
  LET so[m \in 0 .. Len(out)] == IF m = 0 THEN <<>> ELSE so[m - 1] \o PartsOf(out[m])
  IN  so[Len(out)]

Declared(asked, tool) == \E other \in ToSet(asked.tools) : Named(other) \in {tool, AsFunction(tool)}

(* What each item may have become; a call whose tool the request declares  *)
(* and whose arguments are valid is never a mere marker.                   *)
Forms(asked, item) ==
  CASE item.kind = "message" -> {{"text"}}
    [] item.kind = "reasoning" ->
         {IF item.readable /\ asked.mode # "drop" THEN {"reasoning"} ELSE {}}
    [] item.kind = "call" ->
         IF Declared(asked, item.tool) /\ item.valid THEN {{"call"}} ELSE {{"call"}, {"marker"}}
    [] item.kind = "web_search" -> {IF item.cached THEN {"call", "output"} ELSE {}}
    [] item.kind = "output" -> {IF item.image THEN {"output", "image"} ELSE {"output"}, {"marker"}}
    [] item.kind = "tool_search_output" -> {{"output"}, {"marker"}}
    [] OTHER -> {{"marker"}}

(* Nothing of the history is lost, told twice or told out of order.  Only  *)
(* images stand after outputs that came later, and results of searches     *)
(* after calls of the same message.                                        *)
HistoryKept ==
  LET out == Outgoing
      parts == Parts(out)
      as(item) == {parts[i].as : i \in {j \in DOMAIN parts : parts[j].item = item}}
  IN  /\ \A k \in DOMAIN history : as(k) \in Forms(request, history[k])
      /\ \A i, j \in DOMAIN parts : i < j => parts[i] # parts[j]
      /\ \A i, j \in DOMAIN parts : i < j /\ parts[i].item > parts[j].item =>
           \/ parts[j].as = "image" /\ history[parts[i].item].kind = "output"
           \/ /\ parts[i].as = "call" /\ parts[j].as = "output"
              /\ history[parts[j].item].kind = "web_search"
              /\ CallsOf(out, parts[i].item) = CallsOf(out, parts[j].item)

(* The names there may be do not tell all tools apart: one ends like       *)
(* another's number, or in its own where that cuts it off, or is that of a *)
(* tool_search which is not declared.                                      *)
Confusable ==
  LET tools == {entry.tool : entry \in ToSet(sent)}
      numbers == 1 .. Len(sent)
  IN  \/ \E one, two \in {Base(tool) : tool \in tools} \X numbers :
           one # two /\ NthName(one[1], one[2]) = NthName(two[1], two[2])
      \/ \E tool \in tools \ {Finding}, n \in numbers : NthName(Base(tool), n) = Finding.name

(* Whatever is replaced, trimmed or cut off in names, tools of one request *)
(* have different ones, each leads back to the tool that was declared, or  *)
(* found by a tool search, and a call of the history bears the name of its *)
(* own tool.                                                               *)
CallsNameTheirTool ==
  LET out == Outgoing IN
  \/ Confusable
  \/ /\ \A i, j \in DOMAIN sent : sent[i].chat = sent[j].chat => i = j
     /\ \A i \in DOMAIN sent : MappingForTool(names, sent[i].chat) = sent[i].tool
     /\ \A k \in DOMAIN history : history[k].kind = "call" => \A n \in CallsOf(out, k) :
          MappingForTool(names, CallIn(out[n], k).name) \in {history[k].tool, AsFunction(history[k].tool)}
=============================================================================
