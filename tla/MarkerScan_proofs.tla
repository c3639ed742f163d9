-------------------------- MODULE MarkerScan_proofs --------------------------
(***************************************************************************)
(* For every marker, body and split into reads: nothing of a marker, nor   *)
(* anything behind it, reaches the client, and the verdict is right.       *)
(***************************************************************************)
EXTENDS MarkerScan, TLAPS

(* While reading, what was written and what is held back are the bytes     *)
(* read, no whole marker is among them, and once anything was written,     *)
(* Keep bytes are held back: a marker that is still incomplete lies        *)
(* entirely in what was not written.                                       *)
Reading ==
  /\ Len(written) + Len(pending) = taken
  /\ \A k \in 1 .. Len(written) : written[k] = body[k]
  /\ \A k \in 1 .. Len(pending) : pending[k] = body[Len(written) + k]
  /\ \A i \in 1 .. Len(body) : OccursAt(body, i) => i + Keep > taken
  /\ Len(written) > 0 => Len(pending) = Keep
  /\ mode = "streamed" => sent = written
  /\ mode = "buffered" => sent = <<>> /\ ~committed
  /\ ~committed => sent = <<>>

ScanInv ==
  /\ TypeOK
  /\ status = "reading" => Reading
  /\ MarkerHeldBack
  /\ VerdictRight
  /\ RetryableUnseen

LEMMA Constants ==
  /\ Marker \in Seq(Symbols) /\ Len(Marker) \in Nat \ {0} /\ Keep \in Nat
  /\ Keep = Len(Marker) - 1
  /\ Bodies \subseteq Seq(Symbols)
  /\ MaxRead \in Nat \ {0}
BY ScanAssumption DEF Keep

LEMMA BodyType ==
  ASSUME TypeOK
  PROVE  /\ body \in Seq(Symbols) /\ Len(body) \in Nat /\ taken \in Nat /\ taken <= Len(body)
         /\ Len(written) \in Nat /\ Len(pending) \in Nat /\ Len(sent) \in Nat
BY Constants DEF TypeOK

(* Concatenation, as the provers need it.                                  *)
LEMMA Concat ==
  ASSUME NEW a \in Seq(Symbols), NEW d \in Seq(Symbols)
  PROVE  /\ a \o d \in Seq(Symbols) /\ Len(a \o d) = Len(a) + Len(d)
         /\ \A k \in 1 .. Len(a) : (a \o d)[k] = a[k]
         /\ \A k \in 1 .. Len(d) : (a \o d)[Len(a) + k] = d[k]
OBVIOUS

(* The n symbols after the first m.                                        *)
LEMMA Slice ==
  ASSUME NEW s \in Seq(Symbols), NEW m \in Nat, NEW n \in Nat, m + n <= Len(s)
  PROVE  /\ SubSeq(s, m + 1, m + n) \in Seq(Symbols) /\ Len(SubSeq(s, m + 1, m + n)) = n
         /\ \A k \in 1 .. n : SubSeq(s, m + 1, m + n)[k] = s[m + k]
<1> DEFINE t == SubSeq(s, m + 1, m + n)
<1>1. t \in Seq(Symbols)
  OBVIOUS
<1>2. Len(t) = n
  OBVIOUS
<1>3. \A k \in 1 .. n : t[k] = s[m + k]
  OBVIOUS
<1> QED
  BY <1>1, <1>2, <1>3

(* What a read of n bytes leaves to look at.                               *)
LEMMA GotFacts ==
  ASSUME TypeOK, Reading, NEW n \in 1 .. MaxRead, taken + n <= Len(body),
         NEW got, got = pending \o SubSeq(body, taken + 1, taken + n)
  PROVE  /\ got \in Seq(Symbols) /\ Len(got) \in Nat
         /\ Len(got) = Len(pending) + n
         /\ Len(written) + Len(got) = taken + n
         /\ \A k \in 1 .. Len(got) : got[k] = body[Len(written) + k]
<1> DEFINE part == SubSeq(body, taken + 1, taken + n)
<1>1. n \in Nat /\ n > 0
  BY Constants
<1>2. /\ part \in Seq(Symbols) /\ Len(part) = n
      /\ \A k \in 1 .. n : part[k] = body[taken + k]
  BY <1>1, BodyType, Slice
<1>3. pending \in Seq(Symbols)
  BY DEF TypeOK
<1> HIDE DEF part
<1>4. got \in Seq(Symbols) /\ Len(got) = Len(pending) + n
  BY <1>1, <1>2, <1>3 DEF part
<1>5. \A k \in 1 .. Len(got) :
        got[k] = IF k <= Len(pending) THEN pending[k] ELSE part[k - Len(pending)]
  BY <1>1, <1>2, <1>3, <1>4 DEF part
<1>6. ASSUME NEW k \in 1 .. Len(got)
      PROVE  got[k] = body[Len(written) + k]
  <2>1. CASE k <= Len(pending)
    BY <1>5, <2>1, BodyType DEF Reading
  <2>2. CASE k > Len(pending)
    <3>1. PICK j \in 1 .. n : k = Len(pending) + j
      <4>1. k - Len(pending) \in 1 .. n /\ k = Len(pending) + (k - Len(pending))
        BY <1>1, <1>4, <2>2, BodyType
      <4> QED
        BY <4>1
    <3>2. got[k] = part[j]
      <4>1. k - Len(pending) = j /\ ~(k <= Len(pending))
        BY <1>1, <2>2, <3>1, BodyType
      <4> QED
        BY <1>5, <4>1
    <3>3. taken + j = Len(written) + k
      BY <3>1, BodyType DEF Reading
    <3> QED
      BY <1>2, <3>2, <3>3
  <2>3. k <= Len(pending) \/ k > Len(pending)
    <3>1. PICK m \in Nat : m = Len(got)
      BY <1>1, <1>4, <1>3
    <3>2. k \in Int /\ Len(pending) \in Int
      BY <3>1, BodyType
    <3> QED
      BY <3>2
  <2> QED
    BY <2>1, <2>2, <2>3
<1>7. Len(written) + Len(got) = taken + n
  BY <1>1, <1>4, BodyType DEF Reading
<1>8. PICK m \in Nat : m = Len(got)
  BY <1>1, <1>3, <1>4
<1> QED
  BY <1>4, <1>6, <1>7, <1>8

(* A marker in what there is to look at is one in the body, and back.      *)
LEMMA Aligned ==
  ASSUME NEW b \in Seq(Symbols), NEW w \in Nat, NEW got \in Seq(Symbols),
         w + Len(got) <= Len(b),
         \A k \in 1 .. Len(got) : got[k] = b[w + k]
  PROVE  \A i \in Nat \ {0} : i + Keep <= Len(got) =>
           (OccursAt(got, i) <=> OccursAt(b, w + i))
<1> SUFFICES ASSUME NEW i \in Nat \ {0}, i + Keep <= Len(got)
             PROVE  OccursAt(got, i) <=> OccursAt(b, w + i)
  OBVIOUS
<1>1. w + i \in Nat /\ 1 <= w + i /\ (w + i) + Keep <= Len(b)
  BY Constants
<1>2. \A k \in 1 .. Len(Marker) : got[i + k - 1] = b[(w + i) + k - 1]
  <2> SUFFICES ASSUME NEW k \in 1 .. Len(Marker)
               PROVE  got[i + k - 1] = b[(w + i) + k - 1]
    OBVIOUS
  <2>1. i + k - 1 \in 1 .. Len(got)
    BY Constants
  <2>2. w + (i + k - 1) = (w + i) + k - 1
    BY Constants
  <2> QED
    BY <2>1, <2>2
<1> QED
  BY <1>1, <1>2 DEF OccursAt

(* The marker cannot begin in what was already written.                    *)
LEMMA NotInWritten ==
  ASSUME TypeOK, Reading, NEW i \in 1 .. Len(body), OccursAt(body, i)
  PROVE  i > Len(written)
<1>1. i + Keep > taken
  BY DEF Reading
<1> QED
  BY <1>1, Constants, BodyType DEF Reading

(* What write does with a chunk.                                           *)
LEMMA SendFacts ==
  ASSUME NEW chunk \in Seq(Symbols), sent \in Seq(Symbols), committed \in BOOLEAN,
         NEW next \in Statuses, Send(chunk, next)
  PROVE  /\ sent' \in Seq(Symbols) /\ committed' \in BOOLEAN
         /\ \E n \in 0 .. Len(chunk) : sent' = sent \o Prefix(chunk, n)
         /\ \/ status' = next /\ (next # "marked" => sent' = sent \o chunk)
            \/ status' = "writeError"
         /\ ~committed' => ~committed /\ sent' = sent
<1>1. /\ \A n \in 0 .. Len(chunk) : Prefix(chunk, n) \in Seq(Symbols)
      /\ Prefix(chunk, Len(chunk)) = chunk
      /\ Len(chunk) \in 0 .. Len(chunk)
  BY DEF Prefix
<1>2. CASE chunk = <<>>
  <2>1. sent' = sent /\ committed' = committed /\ status' = next
    BY <1>2 DEF Send
  <2>2. Prefix(chunk, 0) = <<>> /\ 0 \in 0 .. Len(chunk)
    BY <1>2 DEF Prefix
  <2>3. sent' = sent \o Prefix(chunk, 0) /\ sent' = sent \o chunk
    BY <1>2, <2>1, <2>2
  <2> QED
    BY <2>1, <2>2, <2>3
<1>3. CASE chunk # <<>>
  <2>1. committed' = TRUE
    BY <1>3 DEF Send
  <2>2. CASE sent' = sent \o chunk /\ status' = next
    <3>1. sent' = sent \o Prefix(chunk, Len(chunk))
      BY <1>1, <2>2
    <3>2. sent' \in Seq(Symbols)
      BY <2>2
    <3> QED
      BY <1>1, <2>1, <2>2, <3>1, <3>2
  <2>3. CASE /\ \E n \in 0 .. Len(chunk) : sent' = sent \o Prefix(chunk, n)
             /\ status' = IF next = "marked" THEN "marked" ELSE "writeError"
    <3>1. PICK n \in 0 .. Len(chunk) : sent' = sent \o Prefix(chunk, n)
      BY <2>3
    <3>2. sent' \in Seq(Symbols)
      BY <1>1, <3>1
    <3>3. (status' = next /\ next = "marked") \/ status' = "writeError"
      BY <2>3
    <3> QED
      BY <2>1, <3>1, <3>2, <3>3
  <2> QED
    BY <1>3, <2>2, <2>3 DEF Send
<1> QED
  BY <1>2, <1>3

LEMMA WriteFacts ==
  ASSUME TypeOK, NEW chunk \in Seq(Symbols), NEW next \in Statuses, Write(chunk, next)
  PROVE  /\ written' = written \o chunk
         /\ sent' \in Seq(Symbols) /\ committed' \in BOOLEAN
         /\ status' \in {next, "writeError"}
         /\ mode = "buffered" => sent' = sent /\ committed' = committed /\ status' = next
         /\ mode = "streamed" =>
              /\ \E n \in 0 .. Len(chunk) : sent' = sent \o Prefix(chunk, n)
              /\ (status' = next /\ status' \in {"reading", "copied", "cut"} => sent' = sent \o chunk)
              /\ ~committed' => ~committed /\ sent' = sent
<1>1. sent \in Seq(Symbols) /\ committed \in BOOLEAN /\ mode \in {"streamed", "buffered"}
  BY DEF TypeOK
<1>2. CASE mode = "streamed"
  <2>1. Send(chunk, next) /\ written' = written \o chunk
    BY <1>2 DEF Write
  <2>2. /\ sent' \in Seq(Symbols) /\ committed' \in BOOLEAN
        /\ \E n \in 0 .. Len(chunk) : sent' = sent \o Prefix(chunk, n)
        /\ \/ status' = next /\ (next # "marked" => sent' = sent \o chunk)
           \/ status' = "writeError"
        /\ ~committed' => ~committed /\ sent' = sent
    BY <1>1, <2>1, SendFacts
  <2>3. status' \in {next, "writeError"}
    BY <2>2
  <2>4. status' = next /\ status' \in {"reading", "copied", "cut"} => sent' = sent \o chunk
    BY <2>2
  <2>5. written' = written \o chunk
    BY <2>1
  <2> QED
    BY <1>2, <2>2, <2>3, <2>4, <2>5
<1>3. CASE mode = "buffered"
  BY <1>1, <1>3 DEF Write
<1> QED
  BY <1>1, <1>2, <1>3

(* A prefix of what follows the bytes sent extends them along the body.    *)
LEMMA PrefixesExtend ==
  ASSUME NEW s \in Seq(Symbols), NEW b \in Seq(Symbols), NEW c \in Seq(Symbols),
         IsPrefix(s, b), Len(s) + Len(c) <= Len(b),
         \A k \in 1 .. Len(c) : c[k] = b[Len(s) + k]
  PROVE  \A n \in 0 .. Len(c) :
           IsPrefix(s \o Prefix(c, n), b) /\ Len(s \o Prefix(c, n)) = Len(s) + n
<1> SUFFICES ASSUME NEW n \in 0 .. Len(c), NEW t, t = s \o Prefix(c, n)
             PROVE  IsPrefix(t, b) /\ Len(t) = Len(s) + n
  BY Zenon
<1>1. n \in Nat /\ Len(c) \in Nat /\ Len(s) \in Nat
  OBVIOUS
<1>2. /\ Prefix(c, n) \in Seq(Symbols) /\ Len(Prefix(c, n)) = n
      /\ \A k \in 1 .. n : Prefix(c, n)[k] = c[k]
  BY DEF Prefix
<1>3. t \in Seq(Symbols) /\ Len(t) = Len(s) + n
  <2>1. /\ s \o Prefix(c, n) \in Seq(Symbols)
        /\ Len(s \o Prefix(c, n)) = Len(s) + Len(Prefix(c, n))
    BY <1>2, Concat, Zenon
  <2> QED
    BY <1>2, <2>1, Zenon
<1>4. ASSUME NEW k \in 1 .. Len(t)
      PROVE  t[k] = b[k]
  <2>1. k \in Int
    BY <1>1, <1>3
  <2>2. CASE k <= Len(s)
    <3>1. t[k] = s[k]
      BY <1>1, <1>2, <2>1, <2>2, Concat
    <3> QED
      BY <1>1, <2>1, <2>2, <3>1 DEF IsPrefix
  <2>3. CASE k > Len(s)
    <3>1. k - Len(s) \in 1 .. n /\ k - Len(s) \in 1 .. Len(c) /\ Len(s) + (k - Len(s)) = k
      BY <1>1, <1>3, <2>1, <2>3
    <3>2. PICK j \in 1 .. n : j \in 1 .. Len(c) /\ Len(s) + j = k
      BY <3>1
    <3>3. t[Len(s) + j] = Prefix(c, n)[j]
      BY <1>2, Concat
    <3> QED
      BY <1>2, <3>2, <3>3
  <2> QED
    BY <1>1, <2>1, <2>2, <2>3
<1> QED
  BY <1>1, <1>3, <1>4 DEF IsPrefix

(* A marker that the read did not complete ends beyond what was read.      *)
LEMMA NoMarkerYet ==
  ASSUME TypeOK, Reading, NEW n \in Nat, taken + n <= Len(body),
         NEW got \in Seq(Symbols), Len(written) + Len(got) = taken + n,
         \A k \in 1 .. Len(got) : got[k] = body[Len(written) + k],
         NEW i \in 1 .. Len(body), OccursAt(body, i),
         NEW m \in Nat, m + Keep <= Len(got),
         \A j \in 1 .. m : ~OccursAt(got, j)
  PROVE  i > Len(written) + m
<1>1. i > Len(written) /\ i \in Nat /\ Len(written) \in Nat /\ Len(got) \in Nat
  BY NotInWritten, BodyType
<1>2. SUFFICES ASSUME i <= Len(written) + m
               PROVE  FALSE
  BY <1>1
<1>3. PICK j \in Nat \ {0} : i = Len(written) + j
  <2>1. i - Len(written) \in Nat \ {0} /\ i = Len(written) + (i - Len(written))
    BY <1>1
  <2> QED
    BY <2>1
<1>4. j \in 1 .. m /\ j + Keep <= Len(got)
  BY <1>1, <1>2, <1>3, Constants
<1>5. body \in Seq(Symbols) /\ Len(written) + Len(got) <= Len(body)
  BY BodyType
<1>6. OccursAt(got, j) <=> OccursAt(body, Len(written) + j)
  BY <1>1, <1>4, <1>5, Aligned
<1> QED
  BY <1>3, <1>4, <1>6

(* A chunk that continues what was written, in front of every marker, may  *)
(* be written.                                                             *)
LEMMA WriteStep ==
  ASSUME TypeOK, Reading, MarkerHeldBack, NEW chunk \in Seq(Symbols), NEW next \in Statuses,
         Len(written) + Len(chunk) <= Len(body),
         \A k \in 1 .. Len(chunk) : chunk[k] = body[Len(written) + k],
         \A i \in 1 .. Len(body) : OccursAt(body, i) => i > Len(written) + Len(chunk),
         Write(chunk, next), UNCHANGED <<mode, body>>
  PROVE  /\ written' \in Seq(Symbols) /\ Len(written') = Len(written) + Len(chunk)
         /\ IsPrefix(written', body)
         /\ sent' \in Seq(Symbols) /\ committed' \in BOOLEAN /\ status' \in {next, "writeError"}
         /\ MarkerHeldBack'
         /\ mode = "streamed" /\ status' = next /\ next = "reading" => sent' = written'
         /\ mode = "buffered" => sent' = <<>> /\ ~committed'
         /\ ~committed' => sent' = <<>>
<1>1. /\ body \in Seq(Symbols) /\ written \in Seq(Symbols) /\ sent \in Seq(Symbols)
      /\ mode \in {"streamed", "buffered"}
  BY BodyType DEF TypeOK
<1>2. /\ written' = written \o chunk
      /\ sent' \in Seq(Symbols) /\ committed' \in BOOLEAN
      /\ status' \in {next, "writeError"}
      /\ mode = "buffered" => sent' = sent /\ committed' = committed /\ status' = next
      /\ mode = "streamed" =>
           /\ \E n \in 0 .. Len(chunk) : sent' = sent \o Prefix(chunk, n)
           /\ (status' = next /\ status' \in {"reading", "copied", "cut"} => sent' = sent \o chunk)
           /\ ~committed' => ~committed /\ sent' = sent
  BY WriteFacts
<1>3. Prefix(chunk, Len(chunk)) = chunk /\ Len(chunk) \in 0 .. Len(chunk)
  BY DEF Prefix
<1>4. IsPrefix(written, body)
  BY BodyType DEF Reading, IsPrefix
<1>along. \A n \in 0 .. Len(chunk) : /\ IsPrefix(written \o Prefix(chunk, n), body)
                                 /\ Len(written \o Prefix(chunk, n)) = Len(written) + n
  BY <1>1, <1>4, PrefixesExtend
<1>5. IsPrefix(written', body) /\ Len(written') = Len(written) + Len(chunk)
  <2>1. PICK w : w = written'
    OBVIOUS
  <2>2. w = written \o Prefix(chunk, Len(chunk))
    BY <1>2, <1>3, <2>1, Zenon
  <2>3. IsPrefix(w, body) /\ Len(w) = Len(written) + Len(chunk)
    BY <1>3, <1>along, <2>2, Zenon
  <2> QED
    BY <2>1, <2>3, Zenon DEF IsPrefix
<1>6. written' \in Seq(Symbols)
  BY <1>1, <1>2, Concat
<1>7. MarkerHeldBack'
  <2>1. CASE mode = "buffered"
    <3>1. sent' = sent
      BY <1>2, <2>1
    <3> QED
      BY <3>1 DEF MarkerHeldBack, OccursAt, IsPrefix
  <2>2. CASE mode = "streamed"
    <3>1. sent = written
      BY <2>2 DEF Reading
    <3>2. PICK n \in 0 .. Len(chunk) : sent' = sent \o Prefix(chunk, n)
      BY <1>2, <2>2
    <3>3. PICK t \in Seq(Symbols) : t = sent'
      BY <1>2
    <3>4. IsPrefix(t, body) /\ Len(t) = Len(written) + n
      <4>1. t = written \o Prefix(chunk, n)
        BY <3>1, <3>2, <3>3, Zenon
      <4> QED
        BY <1>along, <4>1, Zenon
    <3>5. ASSUME NEW i \in 1 .. Len(body), OccursAt(body, i)
          PROVE  Len(t) < i
      BY <3>4, <3>5, BodyType
    <3> QED
      BY <3>3, <3>4, <3>5 DEF MarkerHeldBack, OccursAt, IsPrefix
  <2> QED
    BY <1>1, <2>1, <2>2
<1>8. mode = "streamed" /\ status' = next /\ next = "reading" => sent' = written'
  BY <1>2 DEF Reading
<1>9. mode = "buffered" => sent' = <<>> /\ ~committed'
  BY <1>2 DEF Reading
<1>10. ~committed' => sent' = <<>>
  BY <1>1, <1>2 DEF Reading
<1> QED
  BY <1>2, <1>5, <1>6, <1>7, <1>8, <1>9, <1>10

LEMMA ReadFindsKeeps ==
  ASSUME ScanInv, ReadFinds
  PROVE  ScanInv'
<1>1. TypeOK /\ Reading /\ MarkerHeldBack /\ UNCHANGED <<mode, body>>
  BY DEF ScanInv, ReadFinds
<1>2. PICK n \in 1 .. MaxRead :
        LET got == pending \o SubSeq(body, taken + 1, taken + n) IN
        /\ taken + n <= Len(body) /\ taken' = taken + n
        /\ \E i \in 1 .. Len(got) : FirstAt(got, i) /\ Write(Prefix(got, i - 1), "marked")
        /\ pending' = <<>>
  BY DEF ReadFinds
<1>3. PICK got : got = pending \o SubSeq(body, taken + 1, taken + n)
  OBVIOUS
<1>4. /\ got \in Seq(Symbols) /\ Len(got) \in Nat
      /\ Len(written) + Len(got) = taken + n
      /\ \A k \in 1 .. Len(got) : got[k] = body[Len(written) + k]
  BY <1>1, <1>2, <1>3, GotFacts, Zenon
<1>5. PICK i \in 1 .. Len(got) : FirstAt(got, i) /\ Write(Prefix(got, i - 1), "marked")
  BY <1>2, <1>3
<1>6. n \in Nat /\ taken + n <= Len(body) /\ taken' = taken + n /\ pending' = <<>>
  BY <1>2, Constants
<1>7. /\ i - 1 \in Nat /\ i \in Nat \ {0} /\ i + Keep <= Len(got)
      /\ OccursAt(got, i) /\ \A j \in 1 .. i - 1 : ~OccursAt(got, j)
  BY <1>4, <1>5 DEF FirstAt, OccursAt
<1>8. PICK chunk \in Seq(Symbols) :
        /\ chunk = Prefix(got, i - 1) /\ Len(chunk) = i - 1
        /\ \A k \in 1 .. i - 1 : chunk[k] = got[k]
  <2>1. /\ Prefix(got, i - 1) \in Seq(Symbols) /\ Len(Prefix(got, i - 1)) = i - 1
        /\ \A k \in 1 .. i - 1 : Prefix(got, i - 1)[k] = got[k]
    BY <1>4, <1>7 DEF Prefix
  <2> QED
    BY <2>1
<1>9. ASSUME NEW j \in 1 .. Len(body), OccursAt(body, j)
      PROVE  j > Len(written) + Len(chunk)
  <2>1. (i - 1) + Keep <= Len(got)
    BY <1>4, <1>7, Constants
  <2>2. j > Len(written) + (i - 1)
    BY <1>1, <1>4, <1>6, <1>7, <1>9, <2>1, NoMarkerYet
  <2> QED
    BY <1>8, <2>2
<1>10. /\ Len(written) + Len(chunk) <= Len(body)
       /\ \A k \in 1 .. Len(chunk) : chunk[k] = body[Len(written) + k]
  <2>1. i - 1 <= Len(got) /\ Len(chunk) = i - 1 /\ Len(written) \in Nat /\ Len(body) \in Nat
        /\ taken \in Nat
    BY <1>1, <1>4, <1>7, <1>8, BodyType, Constants
  <2>2. Len(written) + Len(chunk) <= Len(body)
    BY <1>4, <1>6, <1>7, <2>1
  <2>3. ASSUME NEW k \in 1 .. Len(chunk)
        PROVE  chunk[k] = body[Len(written) + k]
    <3>1. k \in 1 .. i - 1 /\ k \in 1 .. Len(got)
      BY <1>4, <1>7, <2>1
    <3> QED
      BY <1>4, <1>8, <3>1
  <2> QED
    BY <2>2, <2>3
<1>11. Write(chunk, "marked") /\ "marked" \in Statuses
  BY <1>5, <1>8 DEF Statuses
<1>12. /\ written' \in Seq(Symbols)
       /\ sent' \in Seq(Symbols) /\ committed' \in BOOLEAN /\ status' \in {"marked", "writeError"}
       /\ MarkerHeldBack'
       /\ mode = "buffered" => sent' = <<>> /\ ~committed'
       /\ ~committed' => sent' = <<>>
  BY <1>1, <1>9, <1>10, <1>11, WriteStep
<1>13. TypeOK'
  <2>1. taken' \in 0 .. Len(body)
    BY <1>1, <1>6, BodyType
  <2>2. status' \in Statuses
    BY <1>12 DEF Statuses
  <2> QED
    BY <1>1, <1>6, <1>12, <2>1, <2>2 DEF TypeOK
<1>14. VerdictRight'
  <2>1. OccursAt(body, Len(written) + i)
    BY <1>1, <1>4, <1>6, <1>7, Aligned, BodyType
  <2>2. PICK p \in 1 .. taken + n : p = Len(written) + i /\ p + Keep <= taken + n
    <3>1. Len(written) + i \in 1 .. taken + n /\ (Len(written) + i) + Keep <= taken + n
      BY <1>1, <1>4, <1>6, <1>7, BodyType, Constants
    <3> QED
      BY <3>1
  <2>3. status' \notin {"copied", "cut"}
    BY <1>12
  <2> QED
    BY <1>1, <1>6, <2>1, <2>2, <2>3 DEF VerdictRight, OccursAt
<1>15. RetryableUnseen' /\ status' # "reading"
  BY <1>1, <1>12 DEF RetryableUnseen
<1> QED
  BY <1>12, <1>13, <1>14, <1>15 DEF ScanInv

LEMMA ReadPassesKeeps ==
  ASSUME ScanInv, ReadPasses
  PROVE  ScanInv'
<1>1. TypeOK /\ Reading /\ MarkerHeldBack /\ status = "reading" /\ UNCHANGED <<mode, body>>
  BY DEF ScanInv, ReadPasses
<1>2. PICK n \in 1 .. MaxRead :
        LET got == pending \o SubSeq(body, taken + 1, taken + n)
            safe == Len(got) - Keep
        IN  /\ taken + n <= Len(body) /\ taken' = taken + n
            /\ \A i \in 1 .. Len(got) : ~OccursAt(got, i)
            /\ IF safe > 0
                 THEN /\ Write(Prefix(got, safe), "reading")
                      /\ pending' = SubSeq(got, safe + 1, Len(got))
                 ELSE pending' = got /\ UNCHANGED <<written, sent, committed, status>>
  BY DEF ReadPasses
<1>3. PICK got : got = pending \o SubSeq(body, taken + 1, taken + n)
  OBVIOUS
<1>4. /\ got \in Seq(Symbols) /\ Len(got) \in Nat
      /\ Len(got) = Len(pending) + n
      /\ Len(written) + Len(got) = taken + n
      /\ \A k \in 1 .. Len(got) : got[k] = body[Len(written) + k]
  BY <1>1, <1>2, <1>3, GotFacts, Zenon
<1>5. PICK safe : safe = Len(got) - Keep
  OBVIOUS
<1>6. /\ n \in Nat \ {0} /\ taken + n <= Len(body) /\ taken' = taken + n
      /\ \A i \in 1 .. Len(got) : ~OccursAt(got, i)
      /\ safe \in Int
  BY <1>2, <1>3, <1>4, <1>5, Constants
<1>7. ASSUME NEW i \in 1 .. Len(body), OccursAt(body, i)
      PROVE  i + Keep > taken + n
  <2>1. CASE safe <= 0
    <3>1. i + Keep > Len(written) + Len(pending) /\ (Len(written) > 0 => Len(pending) = Keep)
      BY <1>1, <1>7 DEF Reading
    <3>2. /\ Len(got) = Len(pending) + n /\ safe = Len(got) - Keep /\ n \in Nat \ {0}
          /\ Len(written) \in Nat /\ Len(pending) \in Nat /\ Keep \in Nat
      BY <1>1, <1>4, <1>5, <1>6, BodyType, Constants
    <3>3. Len(written) = 0
      BY <2>1, <3>1, <3>2
    <3> QED
      BY <1>1, <1>4, <1>5, <2>1, <3>3, BodyType, Constants
  <2>2. CASE safe > 0
    <3>1. safe \in Nat /\ safe + Keep <= Len(got) /\ \A j \in 1 .. safe : ~OccursAt(got, j)
      BY <1>4, <1>5, <1>6, <2>2, Constants
    <3>2. i > Len(written) + safe
      BY <1>1, <1>4, <1>6, <1>7, <3>1, NoMarkerYet
    <3> QED
      BY <1>1, <1>4, <1>5, <1>6, <3>2, BodyType, Constants
  <2> QED
    BY <1>6, <2>1, <2>2
<1>8. taken' \in 0 .. Len(body)
  BY <1>1, <1>6, BodyType
<1>9. CASE safe <= 0
  <2>1. pending' = got /\ UNCHANGED <<written, sent, committed, status>>
    <3>1. ~(safe > 0)
      BY <1>6, <1>9
    <3> QED
      BY <1>2, <1>3, <1>5, <3>1, Zenon
  <2>2. TypeOK'
    BY <1>1, <1>4, <1>8, <2>1 DEF TypeOK
  <2>3. ~(Len(written) > 0)
    BY <1>1, <1>4, <1>5, <1>6, <1>9, BodyType, Constants DEF Reading
  <2>4. Reading'
    BY <1>1, <1>4, <1>6, <1>7, <2>1, <2>3 DEF Reading, OccursAt
  <2>5. MarkerHeldBack'
    BY <1>1, <2>1 DEF MarkerHeldBack, OccursAt, IsPrefix
  <2> QED
    BY <1>1, <2>1, <2>2, <2>4, <2>5 DEF ScanInv, VerdictRight, RetryableUnseen
<1>10. CASE safe > 0
  <2>1. Write(Prefix(got, safe), "reading") /\ pending' = SubSeq(got, safe + 1, Len(got))
    BY <1>2, <1>3, <1>5, <1>10
  <2>2. safe \in Nat \ {0} /\ safe <= Len(got) /\ Len(got) - safe = Keep
    BY <1>4, <1>5, <1>6, <1>10, Constants
  <2>3. PICK chunk \in Seq(Symbols) :
          /\ chunk = Prefix(got, safe) /\ Len(chunk) = safe
          /\ \A k \in 1 .. safe : chunk[k] = got[k]
    <3>1. /\ Prefix(got, safe) \in Seq(Symbols) /\ Len(Prefix(got, safe)) = safe
          /\ \A k \in 1 .. safe : Prefix(got, safe)[k] = got[k]
      BY <1>4, <2>2 DEF Prefix
    <3> QED
      BY <3>1
  <2>4. ASSUME NEW i \in 1 .. Len(body), OccursAt(body, i)
        PROVE  i > Len(written) + Len(chunk)
    <3>1. i + Keep > taken + n
      BY <1>7, <2>4
    <3> QED
      BY <1>1, <1>4, <1>6, <2>2, <2>3, <3>1, BodyType, Constants
  <2>5. /\ Len(written) + Len(chunk) <= Len(body)
        /\ \A k \in 1 .. Len(chunk) : chunk[k] = body[Len(written) + k]
    <3>1. safe \in Nat /\ safe <= Len(got) /\ Len(chunk) = safe
      BY <2>2, <2>3, <1>4, <1>6
    <3>2. Len(written) + Len(got) <= Len(body)
      BY <1>4, <1>6
    <3>3. Len(written) + Len(chunk) <= Len(body)
      BY <1>4, <1>1, <3>1, <3>2, BodyType
    <3>4. \A k \in 1 .. Len(chunk) : chunk[k] = got[k]
      BY <2>2, <2>3, <1>4, <3>1
    <3>5. 1 .. Len(chunk) \subseteq 1 .. Len(got)
      BY <1>4, <3>1
    <3> QED
      BY <1>4, <3>3, <3>4, <3>5
  <2>6. Write(chunk, "reading") /\ "reading" \in Statuses
    BY <2>1, <2>3 DEF Statuses
  <2>7. /\ written' \in Seq(Symbols) /\ Len(written') = Len(written) + Len(chunk)
        /\ IsPrefix(written', body)
        /\ sent' \in Seq(Symbols) /\ committed' \in BOOLEAN
        /\ status' \in {"reading", "writeError"}
        /\ MarkerHeldBack'
        /\ mode = "streamed" /\ status' = "reading" => sent' = written'
        /\ mode = "buffered" => sent' = <<>> /\ ~committed'
        /\ ~committed' => sent' = <<>>
    BY <1>1, <2>4, <2>5, <2>6, WriteStep
  <2>8. PICK rest \in Seq(Symbols) :
          /\ rest = SubSeq(got, safe + 1, Len(got)) /\ Len(rest) = Keep
          /\ \A k \in 1 .. Keep : rest[k] = got[safe + k]
    <3>1. /\ SubSeq(got, safe + 1, Len(got)) \in Seq(Symbols)
          /\ Len(SubSeq(got, safe + 1, Len(got))) = Keep
          /\ \A k \in 1 .. Keep : SubSeq(got, safe + 1, Len(got))[k] = got[safe + k]
      BY <1>4, <2>2, Constants
    <3> QED
      BY <3>1
  <2>9. TypeOK'
    <3>1. pending' \in Seq(Symbols) /\ status' \in Statuses
      BY <2>1, <2>7, <2>8 DEF Statuses
    <3> QED
      BY <1>1, <1>8, <2>7, <3>1 DEF TypeOK
  <2>10. Reading' \/ status' # "reading"
    <3>1. PICK w \in Seq(Symbols) : w = written'
      BY <2>7
    <3>2. Len(w) = Len(written) + safe /\ \A k \in 1 .. Len(w) : w[k] = body[k]
      BY <2>3, <2>7, <3>1 DEF IsPrefix
    <3>3. Len(w) + Len(rest) = taken + n
      <4>1. Len(written) \in Nat /\ Keep \in Nat
        BY <1>1, BodyType, Constants
      <4> QED
        <5>1. Len(w) = Len(written) + safe /\ Len(rest) = Keep
          BY <2>8, <3>2
        <5>2. Len(w) + Len(rest) = Len(written) + Len(got)
          <6>1. \A a, g, h \in Nat : (a + h) + (g - h) = a + g
            OBVIOUS
          <6>2. Len(w) + Len(rest) = (Len(written) + safe) + (Len(got) - safe)
            BY <2>2, <5>1, Zenon
          <6>3. safe \in Nat /\ Len(got) \in Nat
            BY <1>4, <2>2
          <6> QED
            BY <4>1, <6>1, <6>2, <6>3, Zenon
        <5> QED
          BY <1>4, <5>2
    <3>4. ASSUME NEW k \in 1 .. Len(rest)
          PROVE  rest[k] = body[Len(w) + k]
      <4>1. safe + k \in 1 .. Len(got) /\ Len(written) + (safe + k) = Len(w) + k
        BY <1>1, <1>4, <2>2, <2>8, <3>2, BodyType, Constants
      <4> QED
        BY <1>4, <2>8, <4>1
    <3>5. pending' = rest
      BY <2>1, <2>8
    <3> QED
      BY <1>1, <1>6, <1>7, <2>7, <2>8, <3>1, <3>2, <3>3, <3>4, <3>5 DEF Reading, OccursAt, Keep
  <2>11. VerdictRight' /\ RetryableUnseen'
    BY <2>7 DEF VerdictRight, RetryableUnseen
  <2> QED
    BY <2>7, <2>9, <2>10, <2>11 DEF ScanInv
<1> QED
  BY <1>6, <1>9, <1>10

(* Two sequences of one length, one a prefix of the other, are equal.      *)
LEMMA WholePrefix ==
  ASSUME NEW s \in Seq(Symbols), NEW b \in Seq(Symbols), IsPrefix(s, b), Len(s) = Len(b)
  PROVE  s = b
BY DEF IsPrefix

LEMMA EndKeeps ==
  ASSUME ScanInv, End
  PROVE  ScanInv'
<1>1. /\ TypeOK /\ Reading /\ MarkerHeldBack /\ status = "reading" /\ taken = Len(body)
      /\ UNCHANGED <<mode, body, taken>> /\ written' = written \o pending /\ pending' = <<>>
  BY DEF ScanInv, End
<1>2. PICK next \in {"copied", "cut"} :
        LET rest == IF mode = "streamed" THEN pending ELSE written \o pending IN
        IF rest = <<>>
          THEN committed' = TRUE /\ UNCHANGED sent /\ status' = next
          ELSE Send(rest, next)
  BY DEF End
<1>3. PICK rest : rest = IF mode = "streamed" THEN pending ELSE written \o pending
  OBVIOUS
<1>4. /\ written \in Seq(Symbols) /\ pending \in Seq(Symbols) /\ sent \in Seq(Symbols)
      /\ body \in Seq(Symbols) /\ committed \in BOOLEAN /\ mode \in {"streamed", "buffered"}
  BY <1>1, BodyType DEF TypeOK
<1>5. written' \in Seq(Symbols)
  BY <1>1, <1>4, Concat
<1>6. /\ rest \in Seq(Symbols) /\ Len(sent) + Len(rest) = Len(body)
      /\ IsPrefix(sent, body)
      /\ \A k \in 1 .. Len(rest) : rest[k] = body[Len(sent) + k]
  <2>1. CASE mode = "streamed"
    <3>1. rest = pending /\ sent = written
      BY <1>1, <1>3, <2>1 DEF Reading
    <3> QED
      BY <1>1, <1>4, <3>1 DEF Reading, MarkerHeldBack
  <2>2. CASE mode = "buffered"
    <3>1. rest = written \o pending /\ sent = <<>> /\ Len(sent) = 0
      BY <1>1, <1>3, <2>2 DEF Reading
    <3>2. Len(written) \in Nat /\ Len(pending) \in Nat
      BY <1>4
    <3>3. rest \in Seq(Symbols) /\ Len(rest) = Len(written) + Len(pending)
      BY <1>4, <3>1, Concat, Zenon
    <3>0. /\ \A k \in 1 .. Len(written) : rest[k] = written[k]
          /\ \A k \in 1 .. Len(pending) : rest[Len(written) + k] = pending[k]
      <4>1. /\ \A k \in 1 .. Len(written) : (written \o pending)[k] = written[k]
            /\ \A k \in 1 .. Len(pending) : (written \o pending)[Len(written) + k] = pending[k]
        BY <1>4, Concat
      <4> QED
        BY <3>1, <4>1, Zenon
    <3>4. ASSUME NEW k \in 1 .. Len(rest)
          PROVE  rest[k] = body[k]
      <4>1. CASE k <= Len(written)
        <5>1. k \in 1 .. Len(written)
          BY <3>2, <3>3, <4>1
        <5>2. rest[k] = written[k]
          BY <3>0, <5>1
        <5> QED
          BY <1>1, <5>1, <5>2 DEF Reading
      <4>2. CASE k > Len(written)
        <5>1. k - Len(written) \in 1 .. Len(pending) /\ Len(written) + (k - Len(written)) = k
          BY <3>2, <3>3, <4>2
        <5>2. PICK j \in 1 .. Len(pending) : Len(written) + j = k
          BY <5>1
        <5>3. rest[Len(written) + j] = pending[j]
          BY <3>0, <5>2
        <5> QED
          BY <1>1, <5>2, <5>3 DEF Reading
      <4> QED
        BY <3>2, <3>3, <4>1, <4>2
    <3>5. \A k \in 1 .. Len(rest) : Len(sent) + k = k
      BY <3>1
    <3>6. Len(sent) + Len(rest) = Len(body)
      BY <1>1, <3>1, <3>2, <3>3 DEF Reading
    <3>7. IsPrefix(sent, body)
      BY <1>1 DEF MarkerHeldBack
    <3> QED
      BY <3>3, <3>4, <3>5, <3>6, <3>7
  <2> QED
    BY <1>4, <2>1, <2>2
<1>7. \A i \in 1 .. Len(body) : ~OccursAt(body, i)
  <2> SUFFICES ASSUME NEW i \in 1 .. Len(body), OccursAt(body, i)
               PROVE  FALSE
    OBVIOUS
  <2>1. i + Keep <= Len(body) /\ i + Keep > Len(body)
    BY <1>1 DEF Reading, OccursAt
  <2> QED
    BY <2>1, <1>1, BodyType, Constants
<1>8. /\ sent' \in Seq(Symbols) /\ committed' \in BOOLEAN /\ status' \in {next, "writeError"}
      /\ IsPrefix(sent', body)
      /\ status' = next => sent' = body
  <2>1. CASE rest = <<>>
    <3>1. committed' = TRUE /\ sent' = sent /\ status' = next
      BY <1>2, <1>3, <2>1
    <3>2. Len(sent) = Len(body)
      BY <1>4, <1>6, <2>1
    <3>3. sent = body
      BY <1>4, <1>6, <3>2, WholePrefix
    <3> QED
      BY <1>4, <1>6, <3>1, <3>3
  <2>2. CASE rest # <<>>
    <3>1. Send(rest, next) /\ next \in Statuses /\ next # "marked"
      BY <1>2, <1>3, <2>2 DEF Statuses
    <3>2. /\ sent' \in Seq(Symbols) /\ committed' \in BOOLEAN
          /\ \E n \in 0 .. Len(rest) : sent' = sent \o Prefix(rest, n)
          /\ \/ status' = next /\ (next # "marked" => sent' = sent \o rest)
             \/ status' = "writeError"
      BY <1>4, <1>6, <3>1, SendFacts
    <3>3. PICK n \in 0 .. Len(rest) : sent' = sent \o Prefix(rest, n)
      BY <3>2
    <3>4. PICK t \in Seq(Symbols) : t = sent'
      BY <3>2
    <3>5. Len(sent) + Len(rest) <= Len(body)
      BY <1>6, BodyType, <1>1
    <3>6. IsPrefix(t, body)
      <4>1. \A m \in 0 .. Len(rest) : IsPrefix(sent \o Prefix(rest, m), body)
        BY <1>4, <1>6, <3>5, PrefixesExtend
      <4> QED
        BY <3>3, <3>4, <4>1, Zenon
    <3>7. ASSUME status' = next
          PROVE  t = body
      <4>1. t = sent \o rest
        BY <1>2, <3>1, <3>2, <3>4, <3>7
      <4>2. Len(t) = Len(body)
        BY <1>4, <1>6, <4>1, Concat, Zenon
      <4> QED
        BY <1>4, <3>6, <4>2, WholePrefix
    <3> QED
      BY <3>2, <3>4, <3>6, <3>7
  <2> QED
    BY <2>1, <2>2
<1>9. TypeOK'
  <2>1. status' \in Statuses
    BY <1>8 DEF Statuses
  <2> QED
    BY <1>1, <1>5, <1>8, <2>1 DEF TypeOK
<1>10. MarkerHeldBack'
  BY <1>1, <1>7, <1>8 DEF MarkerHeldBack, OccursAt, IsPrefix
<1>11. VerdictRight' /\ RetryableUnseen' /\ status' # "reading"
  BY <1>1, <1>2, <1>7, <1>8 DEF VerdictRight, RetryableUnseen, OccursAt
<1> QED
  BY <1>9, <1>10, <1>11 DEF ScanInv
-----------------------------------------------------------------------------
(* The inductive invariant.                                                *)
THEOREM ScanInvariant == Spec => []ScanInv
<1>1. Init => ScanInv
  <2> SUFFICES ASSUME Init
               PROVE  ScanInv
    OBVIOUS
  <2>1. TypeOK
    <3>1. Len(body) \in Nat
      BY Constants DEF Init
    <3>2. 0 \in 0 .. Len(body) /\ <<>> \in Seq(Symbols)
      BY <3>1
    <3> QED
      BY <3>2 DEF Init, TypeOK, Statuses
  <2>2. Reading
    <3>1. \A i \in 1 .. Len(body) : i + Keep > taken
      BY <2>1, Constants, BodyType DEF Init
    <3> QED
      BY <3>1 DEF Init, Reading
  <2>3. MarkerHeldBack
    BY <2>1, BodyType DEF Init, MarkerHeldBack, IsPrefix
  <2> QED
    BY <2>1, <2>2, <2>3 DEF Init, ScanInv, VerdictRight, RetryableUnseen
<1>2. ScanInv /\ [Next]_vars => ScanInv'
  <2> SUFFICES ASSUME ScanInv, [Next]_vars
               PROVE  ScanInv'
    OBVIOUS
  <2>1. CASE UNCHANGED vars
    BY <2>1 DEF ScanInv, TypeOK, Reading, MarkerHeldBack, VerdictRight, RetryableUnseen,
                IsPrefix, OccursAt, vars
  <2> QED
    BY <2>1, ReadFindsKeeps, ReadPassesKeeps, EndKeeps DEF Next
<1> QED
  BY <1>1, <1>2, PTL DEF Spec

(* Every variable keeps its type.                                          *)
THEOREM ScanTypeCorrect == Spec => []TypeOK
<1>1. ScanInv => TypeOK
  BY DEF ScanInv
<1> QED
  BY <1>1, ScanInvariant, PTL

(* For any marker, body and split into reads, wherever a write fails, the  *)
(* client gets a prefix of the body that stops before every marker.        *)
THEOREM NothingOfAMarkerSent == Spec => []MarkerHeldBack
<1>1. ScanInv => MarkerHeldBack
  BY DEF ScanInv
<1> QED
  BY <1>1, ScanInvariant, PTL

(* A copy that ends well is the whole body and had no marker in it; one    *)
(* that stopped at a marker had read one.                                  *)
THEOREM ScanVerdict == Spec => []VerdictRight
<1>1. ScanInv => VerdictRight
  BY DEF ScanInv
<1> QED
  BY <1>1, ScanInvariant, PTL

(* A marked response that may be tried elsewhere has shown nothing.        *)
THEOREM MarkedUnseen == Spec => []RetryableUnseen
<1>1. ScanInv => RetryableUnseen
  BY DEF ScanInv
<1> QED
  BY <1>1, ScanInvariant, PTL
=============================================================================
