--------------------------- MODULE MCHistoryCache ---------------------------
(* Instances of HistoryCache for TLC: what upstreams answer.               *)
EXTENDS HistoryCache, TLC

CONSTANTS c1, c2

Says(key, extra) == [kind |-> "message", key |-> key, id |-> NoKey, extra |-> extra]
Calls(id, extra) == [kind |-> "call", key |-> NoKey, id |-> id, extra |-> extra]
Searches(key, id, extra) == [kind |-> "search", key |-> key, id |-> id, extra |-> extra]

(* The same content with and without metadata, searches of one action and  *)
(* of two, and a call, all with IDs that other conversations use, too.     *)
MCAnswers ==
  {<<Says("done", TRUE)>>, <<Says("done", FALSE)>>,
   <<Searches("stock", "x", FALSE)>>,
   <<Searches("stock", NoKey, TRUE), Searches("news", "y", TRUE)>>,
   <<Searches("stock", "x", TRUE), Calls("y", TRUE)>>,
   <<Says("done", TRUE), Calls("z", TRUE)>>}

MCSymmetry == Permutations(Conversations)
=============================================================================
