--------------------------- MODULE MCResponseTurn ---------------------------
(* Instances of ResponseTurn: what the upstream sends.                     *)
EXTENDS ResponseTurn

MCNames == {"fn", "patch", "search", "find"}
MCKind == [n \in MCNames |-> CASE n = "fn" -> "function" [] n = "patch" -> "custom"
                               [] n = "search" -> "web_search" [] OTHER -> "tool_search"]

Says(content, reasoning, calls) ==
  [content |-> content, reasoning |-> reasoning, calls |-> calls]

Call(index, id, name, fragment) ==
  [index |-> index, id |-> id, name |-> name, fragment |-> fragment]

Text == {Says(TRUE, FALSE, <<>>), Says(FALSE, TRUE, <<>>), Says(TRUE, TRUE, <<>>)}

(* Calls with indexes: a delta may give the ID or not, that of a function  *)
(* names it, the custom one may be named late; two may come in one chunk.  *)
First == {Call(0, 1, "fn", "text"), Call(1, 2, "patch", "input")}
More == {Call(0, NoID, "fn", "text"), Call(1, NoID, NoName, "text")}
IndexedChunks ==
  Text \union {Says(FALSE, FALSE, <<c>>) : c \in First \union More}
       \union {Says(TRUE, FALSE, <<Call(0, 1, "fn", "none"), Call(1, 2, "patch", "whole")>>),
               Says(FALSE, FALSE, <<Call(1, NoID, NoName, "close"), Call(0, NoID, "fn", "text")>>)}

(* Calls without indexes: whole ones and continued ones, with and without  *)
(* an ID, alone or two in a chunk.                                         *)
UnindexedChunks ==
  {Says(TRUE, FALSE, <<>>)} \union
  {Says(FALSE, FALSE, <<c>>) : c \in
     {Call(NoIndex, 1, "fn", "text"), Call(NoIndex, 2, "fn", "text"), Call(NoIndex, 2, NoName, "text"),
      Call(NoIndex, NoID, "patch", "input"), Call(NoIndex, NoID, NoName, "text"),
      Call(NoIndex, 3, "find", "text")}} \union
  {Says(FALSE, FALSE, <<Call(NoIndex, 2, "fn", "none"), Call(NoIndex, 1, "fn", "text")>>)}

(* A function whose name comes after a fragment, and text in between.      *)
LateChunks ==
  {Says(TRUE, FALSE, <<>>),
   Says(FALSE, FALSE, <<Call(0, 1, NoName, "text")>>), Says(FALSE, FALSE, <<Call(0, NoID, "fn", "text")>>)}

(* A custom call whose JSON comes in all ways, and may be cut by text.     *)
CustomChunks ==
  {Says(TRUE, FALSE, <<>>)} \union
  {Says(FALSE, FALSE, <<Call(0, 1, "patch", fragment)>>) : fragment \in Fragments}

(* Searches, with and without an ID, and a call for the client.            *)
SearchChunks ==
  {Says(TRUE, FALSE, <<>>),
   Says(FALSE, FALSE, <<Call(0, 1, "search", "text")>>),
   Says(FALSE, FALSE, <<Call(0, 1, "search", "text"), Call(1, NoID, "search", "text")>>),
   Says(FALSE, FALSE, <<Call(2, 3, "fn", "text")>>)}

IndexedOnly == {[chunks |-> IndexedChunks, maxChunks |-> 4]}
AllUpstreams == {[chunks |-> IndexedChunks, maxChunks |-> 5],
                 [chunks |-> UnindexedChunks, maxChunks |-> 4],
                 [chunks |-> LateChunks, maxChunks |-> 4],
                 [chunks |-> CustomChunks, maxChunks |-> 4],
                 [chunks |-> SearchChunks, maxChunks |-> 2]}
=============================================================================
