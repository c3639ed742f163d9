-------------------------- MODULE MCAdapterRequest --------------------------
(* Instances of AdapterRequest: requests, calls of an upstream, results.   *)
EXTENDS AdapterRequest

Fn(namespace, name) == Tool("function", namespace, name)
Custom(name) == Tool("custom", <<>>, name)
HostedTool(kind) == Tool(kind, <<>>, HostedName(kind))

Run == Fn(<<>>, <<"run">>)
Patch == Custom(<<"patch">>)
FindTool == Fn(<<"git">>, <<"find">>)
Finder == HostedTool("tool_search")

(* Names that meet: after replacing, joining, trimming, a prefix, a cut.   *)
AlikeTools ==
  {Fn(<<>>, <<"a", ".", "b">>), Fn(<<"a">>, <<"b">>), Fn(<<"a", "_">>, <<"b">>), Custom(<<"a", "_", "b">>),
   Custom(<<"_", "b", "-">>), Fn(<<>>, <<"b">>), Fn(<<>>, <<>>),
   Fn(<<>>, <<"mcp", "_", "_", "b">>), Fn(<<"tool">>, <<"mcp", "_", "_", "b">>),
   Fn(<<>>, <<"a", "_", "b", "_", "c", "_", "d">>), Fn(<<"a">>, <<"b", ".", "c", ".", "e", "f">>),
   Fn(<<>>, <<"b", "_", "2">>), Fn(<<>>, <<"a", "_", "b", "c", "_", "2">>), HostedTool("image_generation")}

Says(role) == [kind |-> "message", role |-> role]
Thinks(readable) == [kind |-> "reasoning", readable |-> readable]
Calls(tool, id, valid) == [kind |-> "call", tool |-> tool, id |-> id, valid |-> valid]
Gives(id, image) == [kind |-> "output", id |-> id, image |-> image]
Finds(id, tools) == [kind |-> "tool_search_output", id |-> id, tools |-> tools]
Searches(id, cached) == [kind |-> "web_search", id |-> id, cached |-> cached]

TurnItems ==
  {Says("assistant"), Thinks(TRUE), Calls(Run, 1, TRUE), Calls(Patch, 2, TRUE),
   Gives(1, TRUE), Gives(2, FALSE), Searches(9, TRUE)}

OddItems ==
  {Says("user"), Says("tool"), Thinks(FALSE), Calls(Run, NoID, TRUE), Calls(Run, 1, FALSE), Calls(FindTool, 3, TRUE),
   Calls(Finder, 4, TRUE), Gives(NoID, TRUE), Gives(3, TRUE), Finds(4, <<FindTool, Run>>),
   Finds(NoID, <<FindTool>>), Searches(8, FALSE), [kind |-> "other"]}

Asks(mode, instructions, tools, items, length) ==
  [mode |-> mode, instructions |-> instructions, tools |-> tools, items |-> items, length |-> length]

MCInbound ==
  {Asks(mode, FALSE, <<Run, Patch>>, TurnItems, 5) : mode \in {"drop", "reasoning-content"}}
  \union {Asks(mode, TRUE, <<Run, Patch, Finder>>, TurnItems \union OddItems, 3) : mode \in Modes}
  \union {Asks("drop", FALSE, tools, {Finds(4, <<Fn(<<"a">>, <<"b">>)>>)}, 1) :
            tools \in BoundedSeq(AlikeTools, 3)}
  \union {Asks("drop", FALSE, <<HostedTool("web_search")>>, {}, 0)}

MCSearchCalls ==
  {[type |-> "search", queries |-> n, page |-> NoPage] : n \in 0 .. 2}
  \union {[type |-> "open_page", queries |-> 0, page |-> "p"]}

MCEndpoints == <<2, 1>>
MCAddress == [url \in {"p", "P", "q", "pdf"} |->
                CASE url = "q" -> "q" [] url = "pdf" -> NoPage [] OTHER -> "p"]
=============================================================================
