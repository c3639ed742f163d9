----------------------------- MODULE MarkerScan -----------------------------
(***************************************************************************)
(* How the load balancer copies an upstream body while it looks for the    *)
(* marker (cmd/load-balancer/main.go, copyResponseBodyWithMarker and the   *)
(* two ways copySuccessfulUpstreamResponse calls it).  The body arrives in *)
(* reads of any length, so the marker may be split anywhere between them;  *)
(* what could still be the start of a marker is held back in `pending`.    *)
(*                                                                         *)
(* A body cut short by an error is modelled as the part that arrived.      *)
(***************************************************************************)
EXTENDS Integers, Sequences

CONSTANTS
  Symbols,   \* the bytes told apart
  Marker,    \* providerThinkingMarker
  Bodies,    \* the bodies upstream may send
  MaxRead    \* the length of the read buffer

ASSUME ScanAssumption ==
  /\ Marker \in Seq(Symbols) /\ Len(Marker) > 0
  /\ Bodies \subseteq Seq(Symbols)
  /\ MaxRead \in Nat \ {0}

VARIABLES
  mode,       \* streamed to the client, or buffered first
  body,       \* all that upstream sends
  taken,      \* how much of it was read
  pending,    \* read and held back
  written,    \* handed to write: the client's connection or the buffer
  sent,       \* what reached the client
  committed,  \* status and headers were sent
  status

vars == <<mode, body, taken, pending, written, sent, committed, status>>

Statuses == {"reading", "copied", "cut", "writeError", "marked"}

Keep == Len(Marker) - 1

Init ==
  /\ mode \in {"streamed", "buffered"}
  /\ body \in Bodies
  /\ taken = 0
  /\ pending = <<>> /\ written = <<>> /\ sent = <<>>
  /\ committed = FALSE
  /\ status = "reading"

OccursAt(s, i) ==
  /\ i \in Nat /\ 1 <= i /\ i + Keep <= Len(s)
  /\ \A k \in 1 .. Len(Marker) : s[i + k - 1] = Marker[k]

FirstAt(s, i) == OccursAt(s, i) /\ \A j \in 1 .. i - 1 : ~OccursAt(s, j)

Prefix(s, n) == SubSeq(s, 1, n)

(* The client's connection takes a chunk whole, or fails or falls short    *)
(* after some of it.  Even an attempt to write commits the response.       *)
Send(chunk, next) ==
  IF chunk = <<>>
    THEN UNCHANGED <<sent, committed>> /\ status' = next
    ELSE /\ committed' = TRUE
         /\ \/ sent' = sent \o chunk /\ status' = next
            \/ /\ \E n \in 0 .. Len(chunk) : sent' = sent \o Prefix(chunk, n)
               /\ status' = IF next = "marked" THEN "marked" ELSE "writeError"

(* Mutant: a buffered response is written to the client as well.           *)
WriteThrough(chunk, next) ==
  /\ written' = written \o chunk
  /\ Send(chunk, next)

(* writeChunk: a buffer takes everything.                                  *)
Write(chunk, next) ==
  /\ written' = written \o chunk
  /\ IF mode = "streamed" THEN Send(chunk, next)
                          ELSE UNCHANGED <<sent, committed>> /\ status' = next

(* Mutant: one byte too few is held back.                                  *)
ReadKeepingTooLittle ==
  /\ status = "reading"
  /\ \E n \in 1 .. MaxRead :
       LET got == pending \o SubSeq(body, taken + 1, taken + n)
           safe == Len(got) - (Keep - 1)
       IN  /\ taken + n <= Len(body)
           /\ taken' = taken + n
           /\ \A i \in 1 .. Len(got) : ~OccursAt(got, i)
           /\ IF safe > 0
                THEN /\ Write(Prefix(got, safe), "reading")
                     /\ pending' = SubSeq(got, safe + 1, Len(got))
                ELSE pending' = got /\ UNCHANGED <<written, sent, committed, status>>
  /\ UNCHANGED <<mode, body>>

(* The marker is complete: only what precedes it is written.               *)
ReadFinds ==
  /\ status = "reading"
  /\ \E n \in 1 .. MaxRead :
       LET got == pending \o SubSeq(body, taken + 1, taken + n) IN
       /\ taken + n <= Len(body)
       /\ taken' = taken + n
       /\ \E i \in 1 .. Len(got) : FirstAt(got, i) /\ Write(Prefix(got, i - 1), "marked")
       /\ pending' = <<>>
  /\ UNCHANGED <<mode, body>>

(* Mutant: the whole buffer counts as read, however little arrived.        *)
ReadPassesWholeBuffer ==
  /\ status = "reading"
  /\ \E n \in 1 .. MaxRead :
       LET got == pending \o SubSeq(body, taken + 1, taken + n) IN
       /\ taken + n <= Len(body)
       /\ taken' = taken + MaxRead
       /\ pending' = got
  /\ UNCHANGED <<mode, body, written, sent, committed, status>>

(* No marker yet: everything but the last Keep bytes is written.           *)
ReadPasses ==
  /\ status = "reading"
  /\ \E n \in 1 .. MaxRead :
       LET got == pending \o SubSeq(body, taken + 1, taken + n)
           safe == Len(got) - Keep
       IN  /\ taken + n <= Len(body)
           /\ taken' = taken + n
           /\ \A i \in 1 .. Len(got) : ~OccursAt(got, i)
           /\ IF safe > 0
                THEN /\ Write(Prefix(got, safe), "reading")
                     /\ pending' = SubSeq(got, safe + 1, Len(got))
                ELSE pending' = got /\ UNCHANGED <<written, sent, committed, status>>
  /\ UNCHANGED <<mode, body>>

(* Mutant: what was held back is dropped when the body ends.               *)
EndDroppingPending ==
  /\ status = "reading" /\ taken = Len(body)
  /\ UNCHANGED written
  /\ \E next \in {"copied", "cut"} :
       IF mode = "streamed"
         THEN committed' = TRUE /\ UNCHANGED sent /\ status' = next
         ELSE Send(written, next)
  /\ pending' = <<>>
  /\ UNCHANGED <<mode, body, taken>>

(* EOF or an error: what was held back is written, and a buffered response *)
(* is sent.  One that turned out empty is committed nevertheless.          *)
End ==
  /\ status = "reading" /\ taken = Len(body)
  /\ written' = written \o pending
  /\ \E next \in {"copied", "cut"} :
       LET rest == IF mode = "streamed" THEN pending ELSE written \o pending IN
       IF rest = <<>>
         THEN committed' = TRUE /\ UNCHANGED sent /\ status' = next
         ELSE Send(rest, next)
  /\ pending' = <<>>
  /\ UNCHANGED <<mode, body, taken>>

Next == ReadFinds \/ ReadPasses \/ End

Spec == Init /\ [][Next]_vars
-----------------------------------------------------------------------------
(* Every variable has its type.                                            *)
TypeOK ==
  /\ mode \in {"streamed", "buffered"}
  /\ body \in Bodies
  /\ taken \in 0 .. Len(body)
  /\ pending \in Seq(Symbols) /\ written \in Seq(Symbols) /\ sent \in Seq(Symbols)
  /\ committed \in BOOLEAN
  /\ status \in Statuses

IsPrefix(s, t) == Len(s) <= Len(t) /\ \A k \in 1 .. Len(s) : s[k] = t[k]

(* However the reads split the body and wherever a write fails, the client *)
(* gets a prefix of the body that no marker in it reaches into: not one    *)
(* byte of a marker, nor anything behind it.                               *)
MarkerHeldBack ==
  /\ IsPrefix(sent, body)
  /\ \A i \in 1 .. Len(body) : OccursAt(body, i) => Len(sent) < i

(* A copy that ends well is the whole body, and there was no marker in it; *)
(* one that stopped at a marker had read one.                              *)
VerdictRight ==
  /\ status \in {"copied", "cut"} =>
       sent = body /\ \A i \in 1 .. Len(body) : ~OccursAt(body, i)
  /\ status = "marked" =>
       \E i \in 1 .. taken : OccursAt(body, i) /\ i + Keep <= taken

(* A marked response that may be tried elsewhere has shown the client      *)
(* nothing; a buffered one always may, however much preceded the marker.   *)
RetryableUnseen ==
  status = "marked" =>
    /\ ~committed => sent = <<>>
    /\ mode = "buffered" => ~committed
=============================================================================
