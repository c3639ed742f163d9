------------------------------ MODULE ToolNames ------------------------------
(***************************************************************************)
(* Names for the tools of one request (adapter.go, requestBuilder): a tool *)
(* of Responses has a kind, a namespace and a name, a tool of Chat         *)
(* Completions one flat name.  byChat leads back from the flat name, byKey *)
(* leads to it for the calls of the history.                               *)
(*                                                                         *)
(* A name is a sequence of tokens: "_", "-" and "." by themselves, runs of *)
(* letters or digits whole.  Lengths count tokens, so MaxLength stands for *)
(* the 64 characters.                                                      *)
(***************************************************************************)
EXTENDS Integers, SequencesExt, TLC, Maps

CONSTANT MaxLength

ASSUME NamesAssumption == MaxLength \in Nat /\ MaxLength > 2

Tool(kind, namespace, name) == [kind |-> kind, namespace |-> namespace, name |-> name]

NewNames == [used |-> <<>>, byChat |-> <<>>, byKey |-> <<>>]

FlatToolName(namespace, name) ==
  IF namespace = <<>> \/ Last(namespace) = "_" \/ (name # <<>> /\ Head(name) = "_")
    THEN namespace \o name
    ELSE namespace \o <<"_">> \o name

Trimmable == {"_", "-"}

TrimRight(s) ==
  LET kept == {i \in DOMAIN s : s[i] \notin Trimmable}
  IN  IF kept = {} THEN <<>> ELSE SubSeq(s, 1, Max(kept))

Trim(s) ==
  LET kept == {i \in DOMAIN s : s[i] \notin Trimmable}
  IN  IF kept = {} THEN <<>> ELSE SubSeq(s, Min(kept), Max(kept))

OrTool(s) == IF s = <<>> THEN <<"tool">> ELSE s

Cut(s, n) == IF Len(s) > n THEN OrTool(TrimRight(SubSeq(s, 1, n))) ELSE s

ReservedMCPToolName(s) == IsPrefix(<<"mcp", "_", "_">>, s)

SafeToolName(name) ==
  LET clean == OrTool(Trim([i \in DOMAIN name |-> IF name[i] = "." THEN "_" ELSE name[i]]))
  IN  Cut(IF ReservedMCPToolName(clean) THEN <<"tool", "_">> \o clean ELSE clean, MaxLength)

Used(names, base) == IF base \in DOMAIN names.used THEN names.used[base] ELSE 0

Numbered(base, count) == Cut(base, MaxLength - 2) \o <<"_", ToString(count)>>

(* The n-th of the tools that have the same name.                          *)
NthName(base, n) == IF n = 1 THEN base ELSE Numbered(base, n)

(* Mutant: a name that is taken is not numbered.                           *)
TakenChatName(names, base) == base

(* The number is counted for the name asked for, so what comes out may be  *)
(* another tool's own name; or this one's again, where it ends in the      *)
(* number and is as long as a name may be.                                 *)
UniqueChatName(names, base) == NthName(base, Used(names, base) + 1)

Named(tool) == IF tool.name = <<>> THEN [tool EXCEPT !.name = <<"unnamed", "_", "tool">>] ELSE tool

Base(tool) == SafeToolName(FlatToolName(tool.namespace, Named(tool).name))

ChatName(names, tool) == UniqueChatName(names, Base(tool))

Register(names, tool) ==
  [used |-> Put(names.used, Base(tool), Used(names, Base(tool)) + 1),
   byChat |-> Put(names.byChat, ChatName(names, tool), Named(tool)),
   byKey |-> Put(names.byKey, Named(tool), ChatName(names, tool))]

AsFunction(tool) == [tool EXCEPT !.kind = "function"]

HasRegisteredTool(names, tool) == {tool, AsFunction(tool)} \intersect DOMAIN names.byKey # {}

KnownChatNameFor(names, tool) ==
  names.byKey[IF tool \in DOMAIN names.byKey THEN tool ELSE AsFunction(tool)]

(* Hosted tools are told by their names alone.                             *)
Hosted == {"tool_search", "web_search", "image_generation"}

HostedName(kind) ==
  CASE kind = "tool_search" -> <<"tool", "_", "search">>
    [] kind = "web_search" -> <<"web", "_", "search">>
    [] kind = "image_generation" -> <<"image", "_", "generation">>

InferToolMapping(chatName) ==
  IF \E kind \in Hosted : chatName = HostedName(kind)
    THEN Tool(CHOOSE kind \in Hosted : chatName = HostedName(kind), <<>>, chatName)
    ELSE Tool("function", <<>>, chatName)

MappingForTool(names, chatName) ==
  IF chatName \in DOMAIN names.byChat THEN names.byChat[chatName] ELSE InferToolMapping(chatName)
=============================================================================
