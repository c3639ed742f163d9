------------------------- MODULE ResponseTurn_proofs -------------------------
(***************************************************************************)
(* The events of a response are in order and add up, whatever an upstream  *)
(* sends, and a follow-up request answers the calls it repeats.            *)
(***************************************************************************)
EXTENDS ResponseTurn, DataLemmas

ItemTypes == {"added", "delta", "done"}

EventTypes == ItemTypes \union {"created"} \union Terminals

(* What a done event may say that a call's content was made of.            *)
Forms == {"text", "input", "other", "paired", "raw", "object", "arguments"}

AnEvent ==
  [type : EventTypes, item : Int, index : Nat \union {NoIndex}, callID : Int, n : Nat, form : Forms]

Texts ==
  {t \in [item : Int, text : Nat, announced : BOOLEAN, done : BOOLEAN, index : Nat \union {NoIndex}] :
     /\ t.done => t.announced
     /\ t.announced => t.item # NoItem
     /\ t.text > 0 => t.item # NoItem}

ToolRecords ==
  [item : Int, id : Int, name : Names \union {NoName}, kind : Kinds \union {NoName},
   args : Nat, decoded : Nat, emitted : Nat, value : Nat,
   prefix : {"before", "inside", "past"}, json : {"empty", "open", "whole", "broken"},
   paired : BOOLEAN,
   announced : BOOLEAN, done : BOOLEAN, index : Nat \union {NoIndex}]

(* What the two decoders have of the same arguments: once the prefix has   *)
(* reached the key "input" and as long as they may still be JSON it has    *)
(* all of the string; cut or broken, there is more of them than it has.    *)
Decoding(t) ==
  /\ t.decoded <= t.args /\ t.value <= t.args
  /\ t.prefix = "before" => t.decoded = 0
  /\ t.json = "empty" <=> t.args = 0
  /\ t.json = "empty" => t.prefix = "before" /\ t.value = 0
  /\ t.json \in {"open", "whole"} /\ t.prefix # "before" => t.value = t.decoded
  /\ t.json = "open" => t.prefix # "past"
  /\ t.json = "whole" => t.prefix # "inside"
  /\ t.json \in {"open", "broken"} => t.decoded < t.args

Tools ==
  {t \in ToolRecords :
     /\ t.emitted <= t.decoded /\ Decoding(t)
     /\ t.announced => t.id # NoID /\ t.index # NoIndex /\ t.kind \in {"function", "custom"}
     /\ t.done => t.announced
     /\ t.item # NoItem <=> t.announced}

ToolMaps == {m \in UNION {[D -> Tools] : D \in SUBSET Nat} : IsFiniteSet(DOMAIN m)}

ActiveKinds == TextKinds \union {"tool", "none"}

Generations ==
  [text : [TextKinds -> Texts], tools : ToolMaps, activeKind : ActiveKinds, activeTool : Int,
   nextOutputIndex : Nat, lastID : Int, events : Seq(AnEvent)]

-----------------------------------------------------------------------------
(* The calls of a generation by their indexes.                             *)

LEMMA ToolMapIs ==
  ASSUME NEW m
  PROVE  m \in ToolMaps <=> /\ DOMAIN m \subseteq Nat /\ IsFiniteSet(DOMAIN m)
                            /\ m \in [DOMAIN m -> Tools]
<1>1. ASSUME m \in ToolMaps PROVE DOMAIN m \subseteq Nat /\ m \in [DOMAIN m -> Tools]
  <2>1. PICK D \in SUBSET Nat : m \in [D -> Tools]
    BY <1>1 DEF ToolMaps
  <2>2. DOMAIN m = D
    BY <2>1
  <2> QED
    BY <2>1, <2>2
<1>2. ASSUME m \in ToolMaps PROVE IsFiniteSet(DOMAIN m)
  BY <1>2 DEF ToolMaps
<1>3. ASSUME DOMAIN m \in SUBSET Nat, IsFiniteSet(DOMAIN m), m \in [DOMAIN m -> Tools]
      PROVE  m \in ToolMaps
  <2>1. m \in UNION {[D -> Tools] : D \in SUBSET Nat}
    BY <1>3
  <2> QED
    BY <1>3, <2>1 DEF ToolMaps
<1> QED
  BY <1>1, <1>2, <1>3

(* One of them set, as WithTool and the methods that change one do.        *)
SetTo(m, i, t) == [j \in DOMAIN m \union {i} |-> IF j = i THEN t ELSE m[j]]

LEMMA SetToIs ==
  ASSUME NEW m \in ToolMaps, NEW i \in Nat, NEW t \in Tools
  PROVE  /\ SetTo(m, i, t) \in ToolMaps /\ DOMAIN SetTo(m, i, t) = DOMAIN m \union {i}
         /\ SetTo(m, i, t)[i] = t
         /\ \A j \in DOMAIN m : j # i => SetTo(m, i, t)[j] = m[j]
<1>1. DOMAIN m \subseteq Nat /\ IsFiniteSet(DOMAIN m) /\ m \in [DOMAIN m -> Tools]
  BY ToolMapIs
<1>2. /\ DOMAIN SetTo(m, i, t) = DOMAIN m \union {i} /\ SetTo(m, i, t)[i] = t
      /\ \A j \in DOMAIN m : j # i => SetTo(m, i, t)[j] = m[j]
  BY DEF SetTo
<1>3. IsFiniteSet(DOMAIN m \union {i})
  BY <1>1, FS_AddElement
<1>4. SetTo(m, i, t) \in [DOMAIN m \union {i} -> Tools]
  BY <1>1 DEF SetTo
<1>5. SetTo(m, i, t) \in ToolMaps
  <2> HIDE DEF SetTo
  <2>1. DOMAIN m \union {i} \subseteq Nat
    BY <1>1
  <2> QED
    BY <1>2, <1>3, <1>4, <2>1, ToolMapIs
<1> QED
  BY <1>2, <1>5

(* A function of which one value is replaced.                              *)
LEMMA ExceptIs ==
  ASSUME NEW m, NEW D, NEW R, m \in [D -> R], NEW i \in D, NEW t
  PROVE  [m EXCEPT ![i] = t] = SetTo(m, i, t)
<1>1. DOMAIN m \union {i} = D
  OBVIOUS
<1>2. SetTo(m, i, t) = [j \in D |-> IF j = i THEN t ELSE m[j]]
  BY <1>1 DEF SetTo
<1> QED
  BY <1>2

(* It depends on nothing else of a call.                                   *)
LEMMA DecodingKept ==
  ASSUME NEW t, NEW u, Decoding(t), u.args = t.args, u.decoded = t.decoded, u.value = t.value,
         u.prefix = t.prefix, u.json = t.json
  PROVE  Decoding(u)
BY DEF Decoding

LEMMA ToolAtIs ==
  ASSUME NEW h \in Generations, NEW i
  PROVE  ToolAt(h, i) \in Tools /\ NewTool \in Tools
<1>1. NewTool \in Tools
  <2>1. NewTool \in ToolRecords
    BY DEF NewTool, ToolRecords, NoItem, NoID, NoName, NoIndex
  <2>2. Decoding(NewTool) /\ NewTool.emitted <= NewTool.decoded
    BY DEF NewTool, Decoding
  <2>3. ~NewTool.announced /\ ~NewTool.done /\ NewTool.item = NoItem
    BY DEF NewTool
  <2> QED
    BY <2>1, <2>2, <2>3 DEF Tools, ToolRecords
<1>2. h.tools \in [DOMAIN h.tools -> Tools]
  <2>1. h.tools \in ToolMaps
    BY DEF Generations
  <2> QED
    BY <2>1, ToolMapIs
<1>3. CASE i \in DOMAIN h.tools
  BY <1>1, <1>2, <1>3 DEF ToolAt
<1> QED
  BY <1>1, <1>3 DEF ToolAt

(* The greatest index.                                                     *)
LEMMA GreatestIn ==
  ASSUME NEW S, IsFiniteSet(S), S \subseteq Int, S # {}
  PROVE  Max(S) \in S /\ \A k \in S : k <= Max(S)
<1>1. \E m \in S : \A k \in S : m >= k
  <2>1. PICK m \in S : \A k \in S : k <= m
    BY HasGreatest
  <2> QED
    BY <2>1
<1>2. Max(S) \in S /\ \A k \in S : Max(S) >= k
  BY <1>1 DEF Max
<1> QED
  BY <1>2

-----------------------------------------------------------------------------
(* What the events tell.                                                   *)

(* Of two events of an item, what the later one may be.                    *)
MayFollow(a, b, apart) ==
  /\ b.type # "added"
  /\ ~(a.type = "done" /\ b.type = "done")
  /\ a.type = "done" /\ b.type = "delta" => b.callID # NoID
  /\ apart => a.callID = b.callID

Story(E, apart) ==
  /\ E \in Seq(AnEvent)
  /\ \A j \in DOMAIN E : E[j].item # NoItem <=> E[j].type \in ItemTypes
  /\ \A j \in DOMAIN E, i \in DOMAIN E :
       i < j /\ E[i].item = E[j].item /\ E[i].item # NoItem => MayFollow(E[i], E[j], apart)
  /\ \A j \in DOMAIN E : E[j].type = "delta" =>
       \E i \in DOMAIN E : i < j /\ E[i].item = E[j].item /\ E[i].type = "added"

Has(E, x, type) == \E i \in DOMAIN E : E[i].item = x /\ E[i].type = type

Unmentioned(E, x) == \A i \in DOMAIN E : E[i].item # x

LEMMA StoryGrows ==
  ASSUME NEW E, NEW apart \in BOOLEAN, NEW e \in AnEvent, Story(E, apart),
         e.item # NoItem <=> e.type \in ItemTypes,
         \A i \in DOMAIN E : E[i].item = e.item /\ e.item # NoItem => MayFollow(E[i], e, apart),
         e.type = "delta" => Has(E, e.item, "added")
  PROVE  Story(Append(E, e), apart)
<1> DEFINE F == Append(E, e)
<1>1. /\ E \in Seq(AnEvent) /\ F \in Seq(AnEvent) /\ Len(E) \in Nat
      /\ DOMAIN E = 1 .. Len(E) /\ DOMAIN F = 1 .. Len(E) + 1 /\ F[Len(E) + 1] = e
      /\ \A i \in 1 .. Len(E) : F[i] = E[i]
  BY Appended DEF Story
<1>2. \A j \in DOMAIN F : j \in DOMAIN E \/ j = Len(E) + 1
  BY <1>1
<1> HIDE DEF F
<1>3. \A j \in DOMAIN F : F[j].item # NoItem <=> F[j].type \in ItemTypes
  BY <1>1, <1>2 DEF Story
<1>4. \A j \in DOMAIN F, i \in DOMAIN F :
        i < j /\ F[i].item = F[j].item /\ F[i].item # NoItem => MayFollow(F[i], F[j], apart)
  <2> SUFFICES ASSUME NEW j \in DOMAIN F, NEW i \in DOMAIN F, i < j,
                      F[i].item = F[j].item, F[i].item # NoItem
               PROVE  MayFollow(F[i], F[j], apart)
    OBVIOUS
  <2>1. i \in DOMAIN E /\ F[i] = E[i]
    BY <1>1
  <2>2. CASE j \in DOMAIN E
    BY <1>1, <2>1, <2>2 DEF Story
  <2>3. CASE j = Len(E) + 1
    BY <1>1, <2>1, <2>3
  <2> QED
    BY <1>2, <2>2, <2>3
<1>5. \A j \in DOMAIN F : F[j].type = "delta" =>
        \E i \in DOMAIN F : i < j /\ F[i].item = F[j].item /\ F[i].type = "added"
  <2> SUFFICES ASSUME NEW j \in DOMAIN F, F[j].type = "delta"
               PROVE  \E i \in DOMAIN F : i < j /\ F[i].item = F[j].item /\ F[i].type = "added"
    OBVIOUS
  <2>1. \E i \in DOMAIN E : i < j /\ E[i].item = F[j].item /\ E[i].type = "added"
    <3>1. CASE j \in DOMAIN E
      BY <1>1, <3>1 DEF Story
    <3>2. CASE j = Len(E) + 1
      BY <1>1, <3>2 DEF Has
    <3> QED
      BY <1>2, <3>1, <3>2
  <2> QED
    BY <1>1, <2>1
<1> QED
  BY <1>1, <1>3, <1>4, <1>5 DEF Story, F

(* What an event adds to what there is of an item.                         *)
LEMMA HasMore ==
  ASSUME NEW E \in Seq(AnEvent), NEW e \in AnEvent
  PROVE  /\ \A x, type : Has(Append(E, e), x, type) <=>
                           Has(E, x, type) \/ (e.item = x /\ e.type = type)
         /\ \A x : Unmentioned(Append(E, e), x) <=> Unmentioned(E, x) /\ e.item # x
<1> DEFINE F == Append(E, e)
<1>1. /\ Len(E) \in Nat /\ DOMAIN E = 1 .. Len(E) /\ DOMAIN F = 1 .. Len(E) + 1
      /\ F[Len(E) + 1] = e /\ \A i \in 1 .. Len(E) : F[i] = E[i]
  BY Appended
<1>2. \A j \in DOMAIN F : j \in DOMAIN E \/ j = Len(E) + 1
  BY <1>1
<1> HIDE DEF F
<1>3. \A x, type : Has(F, x, type) => Has(E, x, type) \/ (e.item = x /\ e.type = type)
  BY <1>1, <1>2 DEF Has
<1>4. \A x, type : Has(E, x, type) => Has(F, x, type)
  BY <1>1 DEF Has
<1>5. \A x, type : e.item = x /\ e.type = type => Has(F, x, type)
  <2>1. Len(E) + 1 \in DOMAIN F
    BY <1>1
  <2> QED
    BY <1>1, <2>1 DEF Has
<1>6. \A x : Unmentioned(F, x) => Unmentioned(E, x) /\ e.item # x
  <2>1. Len(E) + 1 \in DOMAIN F
    BY <1>1
  <2> QED
    BY <1>1, <2>1 DEF Unmentioned
<1>7. \A x : Unmentioned(E, x) /\ e.item # x => Unmentioned(F, x)
  BY <1>1, <1>2 DEF Unmentioned
<1> QED
  BY <1>3, <1>4, <1>5, <1>6, <1>7 DEF F

(* What the events say of a text and of a call.                            *)
TextTold(t, E) ==
  /\ t.announced => Has(E, t.item, "added")
  /\ ~t.announced => t.item = NoItem \/ Unmentioned(E, t.item)
  /\ t.announced => (t.done <=> Has(E, t.item, "done"))
  /\ t.announced => \A i \in DOMAIN E : E[i].item = t.item => E[i].callID = NoID

ToolTold(t, E, apart) ==
  t.announced =>
    /\ Has(E, t.item, "added")
    /\ t.done <=> Has(E, t.item, "done")
    /\ apart => \A i \in DOMAIN E : E[i].item = t.item => E[i].callID = t.id

(* No two texts and calls are one item.                                    *)
Distinct(h, T, D) ==
  /\ \A k \in T, m \in T : k # m /\ h.text[k].item = h.text[m].item => h.text[k].item = NoItem
  /\ \A i \in D, j \in D : i # j /\ h.tools[i].item = h.tools[j].item => h.tools[i].item = NoItem
  /\ \A k \in T, i \in D : h.text[k].item = h.tools[i].item => h.tools[i].item = NoItem

Owned(h, T, D, x) == \/ \E k \in T : h.text[k].item = x
                     \/ \E i \in D : h.tools[i].item = x

(* What the events tell is what the texts T and the calls D are, and all   *)
(* other items are done.                                                   *)
Told(h, T, D, apart) ==
  /\ Story(h.events, apart)
  /\ \A i \in DOMAIN h.events : h.events[i].type \notin Terminals
  /\ h.lastID \in Int /\ h.lastID <= 0
  /\ \A i \in DOMAIN h.events : h.lastID <= h.events[i].item
  /\ \A k \in T : h.lastID <= h.text[k].item /\ TextTold(h.text[k], h.events)
  /\ \A i \in D : h.lastID <= h.tools[i].item /\ ToolTold(h.tools[i], h.events, apart)
  /\ Distinct(h, T, D)
  /\ \A e \in DOMAIN h.events : h.events[e].type = "added" =>
       Has(h.events, h.events[e].item, "done") \/ Owned(h, T, D, h.events[e].item)

Active(h) ==
  /\ \A k \in TextKinds : h.activeKind = k <=> h.text[k].announced /\ ~h.text[k].done
  /\ h.activeKind = "tool" => h.activeTool \in DOMAIN h.tools

(* What was announced of a text has some.                                  *)
Worded(h) == \A k \in TextKinds : h.text[k].announced => h.text[k].text > 0

(* A generation while its stream is read.                                  *)
Live(h, apart) ==
  h \in Generations /\ Told(h, TextKinds, DOMAIN h.tools, apart) /\ Active(h) /\ Worded(h)

(* An event of another item changes nothing of what is told of one.        *)
LEMMA OtherItem ==
  ASSUME NEW E \in Seq(AnEvent), NEW e \in AnEvent, NEW apart \in BOOLEAN
  PROVE  /\ \A t : TextTold(t, E) /\ (t.item = NoItem \/ e.item # t.item) /\ (t.announced => t.item # NoItem) =>
              TextTold(t, Append(E, e))
         /\ \A t : ToolTold(t, E, apart) /\ (t.announced => e.item # t.item) =>
              ToolTold(t, Append(E, e), apart)
<1> DEFINE F == Append(E, e)
<1>1. /\ DOMAIN E = 1 .. Len(E) /\ DOMAIN F = 1 .. Len(E) + 1 /\ Len(E) \in Nat
      /\ F[Len(E) + 1] = e /\ \A i \in 1 .. Len(E) : F[i] = E[i]
  BY Appended
<1>2. \A j \in DOMAIN F : (j \in DOMAIN E /\ F[j] = E[j]) \/ (j = Len(E) + 1 /\ F[j] = e)
  BY <1>1
<1>3. /\ \A x, type : e.item # x => (Has(F, x, type) <=> Has(E, x, type))
      /\ \A x : e.item # x => (Unmentioned(F, x) <=> Unmentioned(E, x))
  BY HasMore
<1> HIDE DEF F
<1>4. \A t : TextTold(t, E) /\ (t.item = NoItem \/ e.item # t.item) /\ (t.announced => t.item # NoItem) => TextTold(t, F)
  BY <1>2, <1>3 DEF TextTold
<1>5. \A t : ToolTold(t, E, apart) /\ (t.announced => e.item # t.item) => ToolTold(t, F, apart)
  BY <1>2, <1>3 DEF ToolTold
<1> QED
  BY <1>4, <1>5 DEF F

(* An event e of an item leads from h to h2, and what it says of the item  *)
(* is what the texts T2 and the calls D2 then are.                         *)
Sends(h, h2, T, D, T2, D2, apart, e) ==
  /\ e \in AnEvent /\ e.type \in ItemTypes /\ e.item # NoItem
  /\ \A i \in DOMAIN h.events : h.events[i].item = e.item => MayFollow(h.events[i], e, apart)
  /\ e.type = "delta" => Has(h.events, e.item, "added")
  /\ h2.events = Append(h.events, e)
  /\ h2.lastID \in Int /\ h2.lastID <= h.lastID /\ h2.lastID <= e.item
  /\ \A k \in T2 : \/ /\ k \in T /\ h2.text[k] = h.text[k] /\ h.text[k].item # e.item
                      /\ h.text[k] \in Texts
                   \/ h2.lastID <= h2.text[k].item /\ TextTold(h2.text[k], h2.events)
  /\ \A i \in D2 : \/ /\ i \in D /\ h2.tools[i] = h.tools[i] /\ h.tools[i].item # e.item
                      /\ h.tools[i] \in Tools
                   \/ h2.lastID <= h2.tools[i].item /\ ToolTold(h2.tools[i], h2.events, apart)
  /\ Distinct(h2, T2, D2)
  /\ \A x : Owned(h, T, D, x) => Owned(h2, T2, D2, x) \/ x = NoItem \/ (x = e.item /\ e.type = "done")
  /\ e.type = "added" => Owned(h2, T2, D2, e.item)

LEMMA EventTold ==
  ASSUME NEW h, NEW h2, NEW T, NEW D, NEW T2, NEW D2, NEW apart \in BOOLEAN, NEW e,
         Told(h, T, D, apart), Sends(h, h2, T, D, T2, D2, apart, e)
  PROVE  Told(h2, T2, D2, apart)
<1>0. /\ e \in AnEvent /\ e.type \in ItemTypes /\ e.item # NoItem
      /\ \A i \in DOMAIN h.events : h.events[i].item = e.item => MayFollow(h.events[i], e, apart)
      /\ e.type = "delta" => Has(h.events, e.item, "added")
      /\ h2.events = Append(h.events, e)
      /\ h2.lastID \in Int /\ h2.lastID <= h.lastID /\ h2.lastID <= e.item
      /\ \A x : Owned(h, T, D, x) => Owned(h2, T2, D2, x) \/ x = NoItem \/ (x = e.item /\ e.type = "done")
      /\ e.type = "added" => Owned(h2, T2, D2, e.item)
      /\ Distinct(h2, T2, D2)
  BY DEF Sends
<1> DEFINE E == h.events
           F == h2.events
<1>1. /\ E \in Seq(AnEvent) /\ F \in Seq(AnEvent) /\ Len(E) \in Nat
      /\ DOMAIN E = 1 .. Len(E) /\ DOMAIN F = 1 .. Len(E) + 1 /\ F[Len(E) + 1] = e
      /\ \A i \in 1 .. Len(E) : F[i] = E[i]
  BY <1>0, Appended DEF Told, Story
<1>2. \A j \in DOMAIN F : (j \in DOMAIN E /\ F[j] = E[j]) \/ (j = Len(E) + 1 /\ F[j] = e)
  BY <1>1
<1>3. Story(F, apart)
  BY <1>0, StoryGrows DEF Told
<1>4. e.type \notin Terminals
  BY <1>0 DEF ItemTypes, Terminals
<1>5. \A x, type : Has(F, x, type) <=> Has(E, x, type) \/ (e.item = x /\ e.type = type)
  BY <1>0, <1>1, HasMore
<1>6. /\ \A i \in DOMAIN F : F[i].type \notin Terminals
      /\ \A i \in DOMAIN F : h2.lastID <= F[i].item
  <2>3. \A i \in DOMAIN E : E[i] \in AnEvent
    BY <1>1, ElementOfSeq
  <2>1. \A i \in DOMAIN E : E[i].item \in Int /\ E[i].type \notin Terminals /\ h.lastID <= E[i].item
    BY <2>3 DEF Told, AnEvent
  <2>2. h.lastID \in Int /\ e.item \in Int
    BY <1>0 DEF Told, AnEvent
  <2> HIDE DEF E, F
  <2> QED
    BY <1>0, <1>2, <1>4, <2>1, <2>2
<1>7. ASSUME NEW k \in T2 PROVE h2.lastID <= h2.text[k].item /\ TextTold(h2.text[k], F)
  <2>1. CASE /\ k \in T /\ h2.text[k] = h.text[k] /\ h.text[k].item # e.item
             /\ h.text[k] \in Texts
    <3>1. h.lastID <= h.text[k].item /\ TextTold(h.text[k], E) /\ h.lastID \in Int
      BY <2>1 DEF Told
    <3>2. h.text[k].item \in Int /\ (h.text[k].announced => h.text[k].item # NoItem)
      BY <2>1 DEF Texts
    <3>3. TextTold(h2.text[k], F)
      BY <1>0, <1>1, <2>1, <3>1, <3>2, OtherItem
    <3> QED
      BY <1>0, <2>1, <3>1, <3>2, <3>3
  <2> QED
    BY <2>1 DEF Sends
<1>8. ASSUME NEW i \in D2 PROVE h2.lastID <= h2.tools[i].item /\ ToolTold(h2.tools[i], F, apart)
  <2>1. CASE /\ i \in D /\ h2.tools[i] = h.tools[i] /\ h.tools[i].item # e.item
             /\ h.tools[i] \in Tools
    <3>1. h.lastID <= h.tools[i].item /\ ToolTold(h.tools[i], E, apart) /\ h.lastID \in Int
      BY <2>1 DEF Told
    <3>2. h.tools[i].item \in Int
      BY <2>1 DEF Tools, ToolRecords
    <3>3. ToolTold(h2.tools[i], F, apart)
      BY <1>0, <1>1, <2>1, <3>1, OtherItem
    <3> QED
      BY <1>0, <2>1, <3>1, <3>2, <3>3
  <2> QED
    BY <2>1 DEF Sends
<1>9. ASSUME NEW j \in DOMAIN F, F[j].type = "added"
      PROVE  Has(F, F[j].item, "done") \/ Owned(h2, T2, D2, F[j].item)
  <2>1. CASE j \in DOMAIN E /\ F[j] = E[j]
    <3>1. Has(E, E[j].item, "done") \/ Owned(h, T, D, E[j].item)
      BY <1>9, <2>1 DEF Told
    <3>2. E[j].item # NoItem
      BY <1>9, <2>1 DEF Told, Story, ItemTypes
    <3> HIDE DEF E, F
    <3> QED
      BY <1>0, <1>5, <2>1, <3>1, <3>2
  <2>2. CASE j = Len(E) + 1 /\ F[j] = e
    BY <1>0, <1>9, <2>2
  <2> QED
    BY <1>2, <2>1, <2>2
<1>10. h2.lastID <= 0 /\ h2.lastID \in Int /\ Distinct(h2, T2, D2)
  BY <1>0 DEF Told
<1> HIDE DEF E, F
<1>11. Told(h2, T2, D2, apart) <=>
         /\ Story(F, apart)
         /\ \A i \in DOMAIN F : F[i].type \notin Terminals
         /\ h2.lastID \in Int /\ h2.lastID <= 0
         /\ \A i \in DOMAIN F : h2.lastID <= F[i].item
         /\ \A k \in T2 : h2.lastID <= h2.text[k].item /\ TextTold(h2.text[k], F)
         /\ \A i \in D2 : h2.lastID <= h2.tools[i].item /\ ToolTold(h2.tools[i], F, apart)
         /\ Distinct(h2, T2, D2)
         /\ \A j \in DOMAIN F : F[j].type = "added" =>
              Has(F, F[j].item, "done") \/ Owned(h2, T2, D2, F[j].item)
  BY DEF Told, F
<1> QED
  BY <1>3, <1>6, <1>7, <1>8, <1>9, <1>10, <1>11

(* h becomes h2 without an event, and what was told is what T2 and D2 are. *)
Turns(h, h2, T, D, T2, D2, apart) ==
  /\ h2.events = h.events /\ h2.lastID \in Int /\ h2.lastID <= h.lastID
  /\ \A k \in T2 : \/ k \in T /\ h2.text[k] = h.text[k] /\ h.text[k] \in Texts
                   \/ h2.lastID <= h2.text[k].item /\ TextTold(h2.text[k], h2.events)
  /\ \A i \in D2 : \/ i \in D /\ h2.tools[i] = h.tools[i] /\ h.tools[i] \in Tools
                   \/ h2.lastID <= h2.tools[i].item /\ ToolTold(h2.tools[i], h2.events, apart)
  /\ Distinct(h2, T2, D2)
  /\ \A x : Owned(h, T, D, x) =>
       Owned(h2, T2, D2, x) \/ x = NoItem \/ Has(h.events, x, "done") \/ Unmentioned(h.events, x)

LEMMA SilentlyTold ==
  ASSUME NEW h, NEW h2, NEW T, NEW D, NEW T2, NEW D2, NEW apart \in BOOLEAN,
         Told(h, T, D, apart), Turns(h, h2, T, D, T2, D2, apart)
  PROVE  Told(h2, T2, D2, apart)
<1>0. /\ h2.events = h.events /\ h2.lastID \in Int /\ h2.lastID <= h.lastID
      /\ Distinct(h2, T2, D2)
      /\ \A x : Owned(h, T, D, x) =>
           Owned(h2, T2, D2, x) \/ x = NoItem \/ Has(h.events, x, "done") \/ Unmentioned(h.events, x)
  BY DEF Turns
<1> DEFINE E == h.events
<1>1. E \in Seq(AnEvent)
  BY DEF Told, Story
<1>2. \A i \in DOMAIN E : h2.lastID <= E[i].item
  <2>3. \A i \in DOMAIN E : E[i] \in AnEvent
    <3> HIDE DEF E
    <3>1. DOMAIN E = 1 .. Len(E)
      BY <1>1
    <3> QED
      BY <1>1, <3>1, ElementOfSeq
  <2>1. \A i \in DOMAIN E : E[i].item \in Int /\ h.lastID <= E[i].item
    BY <2>3 DEF Told, AnEvent
  <2>2. h.lastID \in Int
    BY DEF Told
  <2> HIDE DEF E
  <2> QED
    BY <1>0, <2>1, <2>2
<1>3. ASSUME NEW k \in T2 PROVE h2.lastID <= h2.text[k].item /\ TextTold(h2.text[k], E)
  <2>1. CASE k \in T /\ h2.text[k] = h.text[k] /\ h.text[k] \in Texts
    <3>1. h.lastID <= h.text[k].item /\ TextTold(h.text[k], E) /\ h.lastID \in Int
      BY <2>1 DEF Told
    <3>2. h.text[k].item \in Int
      BY <2>1 DEF Texts
    <3> QED
      BY <1>0, <2>1, <3>1, <3>2
  <2> QED
    BY <1>0, <2>1 DEF Turns
<1>4. ASSUME NEW i \in D2 PROVE h2.lastID <= h2.tools[i].item /\ ToolTold(h2.tools[i], E, apart)
  <2>1. CASE i \in D /\ h2.tools[i] = h.tools[i] /\ h.tools[i] \in Tools
    <3>1. h.lastID <= h.tools[i].item /\ ToolTold(h.tools[i], E, apart) /\ h.lastID \in Int
      BY <2>1 DEF Told
    <3>2. h.tools[i].item \in Int
      BY <2>1 DEF Tools, ToolRecords
    <3> QED
      BY <1>0, <2>1, <3>1, <3>2
  <2> QED
    BY <1>0, <2>1 DEF Turns
<1>5. ASSUME NEW j \in DOMAIN E, E[j].type = "added"
      PROVE  Has(E, E[j].item, "done") \/ Owned(h2, T2, D2, E[j].item)
  <2>1. Has(E, E[j].item, "done") \/ Owned(h, T, D, E[j].item)
    BY <1>5 DEF Told
  <2>2. E[j].item # NoItem /\ ~Unmentioned(E, E[j].item)
    BY <1>5 DEF Told, Story, ItemTypes, Unmentioned
  <2> QED
    BY <1>0, <2>1, <2>2
<1>6. h2.lastID <= 0
  BY <1>0 DEF Told
<1> QED
  BY <1>0, <1>2, <1>3, <1>4, <1>5, <1>6 DEF Told

(* Items that stay as they are stay different.                             *)
LEMMA StillDistinct ==
  ASSUME NEW h, NEW h2, NEW T, NEW D, NEW T2, NEW D2, Distinct(h, T, D),
         T2 \subseteq T, D2 \subseteq D,
         \A k \in T2 : h2.text[k].item = h.text[k].item,
         \A i \in D2 : h2.tools[i].item = h.tools[i].item
  PROVE  Distinct(h2, T2, D2)
BY DEF Distinct

-----------------------------------------------------------------------------
(* Ending the item that is active.                                         *)

AnOf(type, item, index, callID, n, form) ==
  [type |-> type, item |-> item, index |-> index, callID |-> callID, n |-> n, form |-> form]

An(type, item, index, callID, n) ==
  AnOf(type, item, index, callID, n, "text")

Marked(t) == [t EXCEPT !.done = TRUE]

LEMMA MarkedIs ==
  ASSUME NEW t
  PROVE  /\ t \in Texts /\ t.announced =>
              /\ Marked(t) \in Texts /\ Marked(t).item = t.item /\ Marked(t).text = t.text
              /\ Marked(t).announced /\ Marked(t).done
         /\ t \in Tools /\ t.announced =>
              /\ Marked(t) \in Tools /\ Marked(t).item = t.item /\ Marked(t).id = t.id
              /\ Marked(t).announced /\ Marked(t).done
<1>1. ASSUME t \in Texts, t.announced
      PROVE  /\ Marked(t) \in Texts /\ Marked(t).item = t.item /\ Marked(t).text = t.text
             /\ Marked(t).announced /\ Marked(t).done
  BY <1>1 DEF Texts, Marked
<1>2. ASSUME t \in Tools, t.announced
      PROVE  /\ Marked(t) \in Tools /\ Marked(t).item = t.item /\ Marked(t).id = t.id
             /\ Marked(t).announced /\ Marked(t).done
  <2>1. Marked(t) \in ToolRecords
    BY <1>2 DEF Tools, ToolRecords, Marked
  <2>2. /\ Marked(t).emitted = t.emitted /\ Marked(t).decoded = t.decoded /\ Marked(t).args = t.args
        /\ Marked(t).value = t.value /\ Marked(t).prefix = t.prefix /\ Marked(t).json = t.json
        /\ Marked(t).id = t.id /\ Marked(t).index = t.index /\ Marked(t).kind = t.kind
        /\ Marked(t).item = t.item /\ Marked(t).announced = t.announced /\ Marked(t).done
    BY <1>2 DEF Tools, ToolRecords, Marked
  <2>3. Decoding(Marked(t))
    BY <1>2, <2>2, DecodingKept DEF Tools
  <2> QED
    BY <1>2, <2>1, <2>2, <2>3 DEF Tools
<1> QED
  BY <1>1, <1>2

LEMMA SentIs ==
  ASSUME NEW h \in Generations, NEW e \in AnEvent, NEW f,
         f = [h EXCEPT !.events = Append(h.events, e)]
  PROVE  /\ f \in Generations /\ f.text = h.text /\ f.tools = h.tools
         /\ f.activeKind = h.activeKind /\ f.activeTool = h.activeTool
         /\ f.nextOutputIndex = h.nextOutputIndex /\ f.lastID = h.lastID
         /\ f.events = Append(h.events, e)
<1>1. Append(h.events, e) \in Seq(AnEvent)
  BY DEF Generations
<1> QED
  BY <1>1 DEF Generations

(* What a generation is made of, and that a changed one still is one.      *)
LEMMA Parts ==
  ASSUME NEW h \in Generations
  PROVE  /\ \A k \in TextKinds : h.text[k] \in Texts
         /\ DOMAIN h.text = TextKinds
         /\ h.tools \in ToolMaps /\ DOMAIN h.tools \subseteq Nat /\ IsFiniteSet(DOMAIN h.tools)
         /\ \A i \in DOMAIN h.tools : h.tools[i] \in Tools
         /\ h.events \in Seq(AnEvent) /\ h.lastID \in Int /\ h.nextOutputIndex \in Nat
         /\ h.activeKind \in ActiveKinds /\ h.activeTool \in Int
<1>1. h.tools \in ToolMaps
  BY DEF Generations
<1>2. /\ DOMAIN h.tools \subseteq Nat /\ IsFiniteSet(DOMAIN h.tools)
      /\ h.tools \in [DOMAIN h.tools -> Tools]
  BY <1>1, ToolMapIs
<1>3. \A i \in DOMAIN h.tools : h.tools[i] \in Tools
  BY <1>2
<1> QED
  BY <1>1, <1>2, <1>3 DEF Generations

(* What FinishActiveItem sends and marks.                                  *)
LEMMA FinishTextIs ==
  ASSUME NEW h \in Generations, NEW k \in TextKinds, h.activeKind = k,
         h.text[k].announced, ~h.text[k].done
  PROVE  LET f == FinishActiveItem(h)
             e == An("done", h.text[k].item, NoIndex, NoID, h.text[k].text)
         IN  /\ f \in Generations /\ e \in AnEvent
             /\ f.text = [h.text EXCEPT ![k] = Marked(h.text[k])]
             /\ f.tools = h.tools /\ f.activeKind = "none" /\ f.lastID = h.lastID
             /\ f.nextOutputIndex = h.nextOutputIndex
             /\ f.events = Append(h.events, e)
<1> DEFINE t == h.text[k]
           e == An("done", t.item, NoIndex, NoID, t.text)
           d == TextDone(h, k)
           f == FinishActiveItem(h)
<1>1. t \in Texts /\ t.item \in Int /\ t.text \in Nat
  BY Parts DEF Texts
<1>2. e \in AnEvent /\ d \in Generations /\ d = [h EXCEPT !.events = Append(h.events, e)]
  <2>1. "done" \in EventTypes /\ NoID \in Int
    BY DEF EventTypes, ItemTypes, NoID
  <2>2. d = [h EXCEPT !.events = Append(h.events, e)]
    BY DEF TextDone, Emit, EmitAs, An, AnOf
  <2>3. e \in AnEvent
    BY <1>1, <2>1 DEF An, AnOf, AnEvent, Forms
  <2> HIDE DEF d, e
  <2> QED
    BY <2>2, <2>3, SentIs
<1>3. f = Deactivate([d EXCEPT !.text[k].done = TRUE])
  <2>1. h.activeKind \in TextKinds /\ h.text[h.activeKind].announced /\ ~h.text[h.activeKind].done
    OBVIOUS
  <2>2. f = Deactivate([TextDone(h, h.activeKind) EXCEPT !.text[h.activeKind].done = TRUE])
    BY <2>1 DEF FinishActiveItem, TextKinds
  <2> QED
    BY <2>2
<1>4. Marked(t) \in Texts
  BY <1>1, MarkedIs
<1> HIDE DEF d, e
<1>5. [d EXCEPT !.text[k].done = TRUE] =
        [d EXCEPT !.text = [d.text EXCEPT ![k] = Marked(d.text[k])]]
  BY <1>2 DEF Marked
<1>6. d.text = h.text /\ d.tools = h.tools /\ d.lastID = h.lastID /\ d.events = Append(h.events, e)
      /\ d.nextOutputIndex = h.nextOutputIndex
  BY <1>2 DEF Generations
<1>7. [h.text EXCEPT ![k] = Marked(t)] \in [TextKinds -> Texts]
  BY <1>4 DEF Generations
<1> DEFINE x == [h.text EXCEPT ![k] = Marked(t)]
<1>8. f = [d EXCEPT !.text = x, !.activeKind = "none", !.activeTool = NoIndex]
  <2>1. [d EXCEPT !.text[k].done = TRUE] = [d EXCEPT !.text = x]
    BY <1>5, <1>6
  <2> HIDE DEF x
  <2> QED
    BY <1>2, <1>3, <2>1 DEF Deactivate, Generations
<1>9. NoIndex \in Int /\ "none" \in ActiveKinds
  BY DEF NoIndex, ActiveKinds
<1> HIDE DEF x, f
<1>10. f \in Generations /\ f.text = x /\ f.tools = d.tools /\ f.activeKind = "none"
       /\ f.lastID = d.lastID /\ f.nextOutputIndex = d.nextOutputIndex /\ f.events = d.events
  BY <1>2, <1>7, <1>8, <1>9 DEF Generations, x
<1> QED
  BY <1>2, <1>6, <1>10 DEF f, e, x

(* What the done item of a call says, against what was decoded for deltas. *)
LEMMA ContentIs ==
  ASSUME NEW t \in Tools
  PROVE  LET c == Content(t) IN
         /\ c.n \in Nat /\ c.form \in Forms
         /\ t.kind = "custom" =>
              /\ c.form \in {"input", "other", "paired", "raw"}
              /\ c.form = "input" => c.n = t.decoded
              /\ c.form = "other" => t.decoded = 0
              /\ c.form = "raw" => t.decoded < c.n
         /\ t.kind = "function" =>
              /\ c.form \in {"object", "arguments"}
              /\ c.form = "object" => t.args = 0
              /\ c.form = "arguments" => c.n = t.args
<1> DEFINE x == CustomInput(t)
           y == ArgsOrEmptyObject(t)
<1>1. /\ t.args \in Nat /\ t.value \in Nat /\ t.decoded \in Nat /\ Decoding(t)
      /\ t.prefix \in {"before", "inside", "past"} /\ t.json \in {"empty", "open", "whole", "broken"}
  BY DEF Tools, ToolRecords
<1>2. /\ x.n \in Nat /\ x.form \in {"input", "other", "paired", "raw"}
      /\ x.form = "input" => x.n = t.decoded
      /\ x.form = "other" => t.decoded = 0
      /\ x.form = "raw" => t.decoded < x.n
  <2>1. CASE t.json = "empty"
    BY <1>1, <2>1 DEF CustomInput, Decoding
  <2>2. CASE t.json = "whole"
    BY <1>1, <2>2 DEF CustomInput, Decoding
  <2>3. CASE t.json \in {"open", "broken"}
    BY <1>1, <2>3 DEF CustomInput, Decoding
  <2> QED
    BY <1>1, <2>1, <2>2, <2>3
<1>3. /\ y.n \in Nat /\ y.form \in {"object", "arguments"}
      /\ y.form = "object" => t.args = 0
      /\ y.form = "arguments" => y.n = t.args
  BY <1>1 DEF ArgsOrEmptyObject
<1>4. t.kind \in {"custom", "function"} => KindOf(t) = t.kind
  BY DEF KindOf, NoName
<1>5. Content(t) = IF KindOf(t) = "custom" THEN x ELSE y
  BY DEF Content
<1> HIDE DEF x, y
<1> QED
  BY <1>2, <1>3, <1>4, <1>5 DEF Forms

LEMMA ToolDoneIs ==
  ASSUME NEW h \in Generations, NEW i \in DOMAIN h.tools, h.lastID <= 0
  PROVE  LET f == ToolDone(h, i) IN
         \E e \in AnEvent :
             /\ f \in Generations /\ e.type = "done"
             /\ e.item = IF h.tools[i].announced THEN h.tools[i].item ELSE h.lastID - 2
             /\ h.tools[i].announced =>
                  /\ e.callID = h.tools[i].id
                  /\ e.n = Content(h.tools[i]).n /\ e.form = Content(h.tools[i]).form
             /\ f.text = h.text /\ f.tools = h.tools
             /\ f.activeKind = h.activeKind /\ f.activeTool = h.activeTool
             /\ f.nextOutputIndex = h.nextOutputIndex
             /\ f.lastID = h.lastID - 2 /\ f.events = Append(h.events, e)
<1> DEFINE t == h.tools[i]
           kind == KindOf(t)
           id == IF kind = "web_search" THEN NoID ELSE IF t.id # NoID THEN t.id ELSE h.lastID - 1
           item == IF t.item # NoItem THEN t.item ELSE h.lastID - 2
           n == Content(t).n
           form == Content(t).form
           m == [h EXCEPT !.lastID = @ - 2]
           e == AnOf("done", item, NoIndex, id, n, form)
<1>1. t \in Tools /\ h.lastID \in Int
  BY Parts
<1>2. id \in Int /\ item \in Int
  BY <1>1 DEF Tools, ToolRecords, NoID
<1>21. n \in Nat /\ form \in Forms
  BY <1>1, ContentIs
<1>3. m \in Generations
  BY DEF Generations
<1>4. ToolDone(h, i) = EmitAs(m, "done", item, NoIndex, id, n, form)
  BY DEF ToolDone
<1>5. t.announced => t.id # NoID /\ KindOf(t) # "web_search"
  BY <1>1, GenerationAssumption DEF Tools, ToolRecords, KindOf, NoName, Kinds
<1>6. item = IF t.announced THEN t.item ELSE h.lastID - 2
  BY <1>1 DEF Tools, ToolRecords
<1>7. t.announced => id = t.id
  BY <1>5
<1>8. /\ m.text = h.text /\ m.tools = h.tools /\ m.activeKind = h.activeKind
      /\ m.activeTool = h.activeTool /\ m.lastID = h.lastID - 2 /\ m.events = h.events
      /\ m.nextOutputIndex = h.nextOutputIndex
  BY DEF Generations
<1> HIDE DEF id, item, n, form, m, kind
<1>9. e \in AnEvent /\ ToolDone(h, i) \in Generations
      /\ ToolDone(h, i) = [m EXCEPT !.events = Append(m.events, e)]
  <2>1. "done" \in EventTypes
    BY DEF EventTypes, ItemTypes
  <2>2. e \in AnEvent
    BY <1>2, <1>21, <2>1 DEF AnOf, AnEvent
  <2>3. ToolDone(h, i) = [m EXCEPT !.events = Append(m.events, e)]
    BY <1>3, <1>4 DEF EmitAs, AnOf, Generations
  <2> HIDE DEF e
  <2> QED
    BY <1>3, <2>2, <2>3, SentIs
<1>10. e.type = "done" /\ e.item = item /\ e.callID = id /\ e.n = n /\ e.form = form
  BY DEF AnOf
<1> HIDE DEF e
<1> DEFINE f == ToolDone(h, i)
<1>11. /\ f.text = m.text /\ f.tools = m.tools /\ f.activeKind = m.activeKind
       /\ f.activeTool = m.activeTool /\ f.lastID = m.lastID /\ f.events = Append(m.events, e)
       /\ f.nextOutputIndex = m.nextOutputIndex
  BY <1>3, <1>9 DEF Generations
<1> HIDE DEF f
<1>12. f \in Generations
  BY <1>9 DEF f
<1> QED
  BY <1>6, <1>7, <1>8, <1>9, <1>10, <1>11, <1>12 DEF f, n, form

LEMMA FinishToolIs ==
  ASSUME NEW h \in Generations, h.activeKind = "tool", h.lastID <= 0,
         NEW i \in DOMAIN h.tools, h.activeTool = i, h.tools[i].announced, ~h.tools[i].done
  PROVE  LET f == FinishActiveItem(h) IN
         \E e \in AnEvent :
             /\ f \in Generations
             /\ e.type = "done" /\ e.item = h.tools[i].item /\ e.callID = h.tools[i].id
             /\ e.n = Content(h.tools[i]).n /\ e.form = Content(h.tools[i]).form
             /\ f.tools = SetTo(h.tools, i, Marked(h.tools[i]))
             /\ f.text = h.text /\ f.activeKind = "none" /\ f.lastID = h.lastID - 2
             /\ f.nextOutputIndex = h.nextOutputIndex
             /\ f.events = Append(h.events, e)
<1> DEFINE t == h.tools[i]
           d == ToolDone(h, i)
           x == SetTo(h.tools, i, Marked(t))
           f == FinishActiveItem(h)
<1>1. PICK e \in AnEvent :
        /\ d \in Generations /\ e.type = "done" /\ e.item = t.item /\ e.callID = t.id
        /\ e.n = Content(t).n /\ e.form = Content(t).form
        /\ d.text = h.text /\ d.tools = h.tools /\ d.nextOutputIndex = h.nextOutputIndex
        /\ d.lastID = h.lastID - 2 /\ d.events = Append(h.events, e)
  BY ToolDoneIs
<1>2. f = Deactivate([d EXCEPT !.tools[i].done = TRUE])
  BY DEF FinishActiveItem, TextKinds
<1>3. t \in Tools /\ h.tools \in ToolMaps /\ i \in Nat
  BY Parts
<1>4. Marked(t) \in Tools
  BY <1>3, MarkedIs
<1>5. x \in ToolMaps
  BY <1>3, <1>4, SetToIs
<1> HIDE DEF d
<1>6. [d EXCEPT !.tools[i].done = TRUE] = [d EXCEPT !.tools = x]
  <2>1. h.tools \in [DOMAIN h.tools -> Tools]
    BY <1>3, ToolMapIs
  <2>2. [h.tools EXCEPT ![i] = Marked(t)] = x
    BY <2>1, ExceptIs
  <2>3. [d EXCEPT !.tools[i].done = TRUE] = [d EXCEPT !.tools = [h.tools EXCEPT ![i] = Marked(t)]]
    BY <1>1 DEF Generations, Marked
  <2> QED
    BY <2>2, <2>3
<1>7. f = [d EXCEPT !.tools = x, !.activeKind = "none", !.activeTool = NoIndex]
  <2> HIDE DEF x
  <2> QED
    BY <1>1, <1>2, <1>6 DEF Deactivate, Generations
<1>8. NoIndex \in Int /\ "none" \in ActiveKinds
  BY DEF NoIndex, ActiveKinds
<1> HIDE DEF x, f
<1>9. f \in Generations /\ f.text = d.text /\ f.tools = x /\ f.activeKind = "none"
      /\ f.lastID = d.lastID /\ f.events = d.events /\ f.nextOutputIndex = d.nextOutputIndex
  BY <1>1, <1>5, <1>7, <1>8 DEF Generations
<1> QED
  BY <1>1, <1>9 DEF f, x

LEMMA FinishNothingIs ==
  ASSUME NEW h \in Generations, 
         ~(h.activeKind \in TextKinds /\ h.text[h.activeKind].announced /\ ~h.text[h.activeKind].done),
         ~(h.activeKind = "tool" /\ h.activeTool \in DOMAIN h.tools
           /\ h.tools[h.activeTool].announced /\ ~h.tools[h.activeTool].done)
  PROVE  LET f == FinishActiveItem(h) IN
         /\ f \in Generations /\ f.text = h.text /\ f.tools = h.tools /\ f.activeKind = "none"
         /\ f.lastID = h.lastID /\ f.events = h.events /\ f.nextOutputIndex = h.nextOutputIndex
<1>1. FinishActiveItem(h) = Deactivate(h)
  BY DEF FinishActiveItem
<1>2. NoIndex \in Int /\ "none" \in ActiveKinds
  BY DEF NoIndex, ActiveKinds
<1> QED
  BY <1>1, <1>2 DEF Deactivate, Generations

(* Ending the active item keeps what is told in step.                      *)
LEMMA FinishLive ==
  ASSUME NEW h, NEW apart \in BOOLEAN, Live(h, apart)
  PROVE  LET f == FinishActiveItem(h) IN
         /\ Live(f, apart) /\ f.activeKind = "none" /\ f.lastID <= h.lastID
         /\ h.activeKind # "tool" => f.tools = h.tools
         /\ \A k \in TextKinds : ~h.text[k].announced => f.text[k] = h.text[k]
<1> DEFINE f == FinishActiveItem(h)
           D == DOMAIN h.tools
<1>1. /\ h \in Generations /\ Told(h, TextKinds, D, apart) /\ Active(h) /\ Worded(h)
      /\ h.lastID \in Int /\ h.lastID <= 0
      /\ Distinct(h, TextKinds, D)
  BY DEF Live, Told
<1>2. /\ \A k \in TextKinds : h.text[k] \in Texts
      /\ \A i \in D : h.tools[i] \in Tools
      /\ DOMAIN h.text = TextKinds /\ D \subseteq Nat /\ h.events \in Seq(AnEvent)
      /\ h.tools \in ToolMaps
  BY <1>1, Parts
<1>3. ASSUME NEW k \in TextKinds, h.activeKind = k PROVE
         /\ Live(f, apart) /\ f.activeKind = "none" /\ f.lastID <= h.lastID /\ f.tools = h.tools
         /\ \A m \in TextKinds : ~h.text[m].announced => f.text[m] = h.text[m]
  <2> DEFINE t == h.text[k]
             e == An("done", t.item, NoIndex, NoID, t.text)
  <2>1. t.announced /\ ~t.done /\ t \in Texts /\ \A m \in TextKinds : m # k => ~(h.text[m].announced /\ ~h.text[m].done)
    BY <1>1, <1>2, <1>3 DEF Active
  <2>2. /\ f \in Generations /\ e \in AnEvent
        /\ f.text = [h.text EXCEPT ![k] = Marked(t)]
        /\ f.tools = h.tools /\ f.activeKind = "none" /\ f.lastID = h.lastID
        /\ f.events = Append(h.events, e)
    BY <1>1, <1>3, <2>1, FinishTextIs
  <2>3. e.type = "done" /\ e.item = t.item /\ e.callID = NoID
    BY DEF An, AnOf
  <2>4. t.item # NoItem /\ TextTold(t, h.events) /\ h.lastID <= t.item
    BY <1>1, <2>1 DEF Texts, Told
  <2>5. Marked(t).item = t.item /\ Marked(t).announced /\ Marked(t).done /\ Marked(t).text = t.text
    BY <2>1, MarkedIs
  <2> HIDE DEF f, e
  <2>6. f.text[k] = Marked(t) /\ \A m \in TextKinds : m # k => f.text[m] = h.text[m]
    BY <1>2, <2>2
  <2>7. \A m \in TextKinds : f.text[m].item = h.text[m].item
    BY <2>5, <2>6
  <2>8. \A m \in TextKinds : m # k => h.text[m].item # t.item
    BY <1>1, <2>4 DEF Distinct
  <2>9. \A i \in D : h.tools[i].item # t.item
    BY <1>1, <2>4 DEF Distinct
  <2>10. \A i \in DOMAIN h.events : h.events[i].item = e.item => MayFollow(h.events[i], e, apart)
    BY <2>1, <2>3, <2>4 DEF TextTold, MayFollow, Has
  <2>11. TextTold(f.text[k], f.events)
    <3>1. /\ \A x, type : Has(f.events, x, type) <=> Has(h.events, x, type) \/ (e.item = x /\ e.type = type)
      BY <1>2, <2>2, HasMore
    <3>2. \A i \in DOMAIN f.events : (i \in DOMAIN h.events /\ f.events[i] = h.events[i]) \/ f.events[i] = e
      <4>1. /\ DOMAIN h.events = 1 .. Len(h.events) /\ DOMAIN f.events = 1 .. Len(h.events) + 1
            /\ Len(h.events) \in Nat /\ f.events[Len(h.events) + 1] = e
            /\ \A i \in 1 .. Len(h.events) : f.events[i] = h.events[i]
        BY <1>2, <2>2, Appended
      <4> QED
        BY <4>1
    <3> QED
      BY <2>1, <2>3, <2>4, <2>5, <2>6, <3>1, <3>2 DEF TextTold
  <2>12. Distinct(f, TextKinds, D)
    BY <1>1, <2>2, <2>7, StillDistinct
  <2>13. \A x : Owned(h, TextKinds, D, x) => Owned(f, TextKinds, D, x)
    BY <2>2, <2>7 DEF Owned
  <2>14. Told(f, TextKinds, D, apart)
    <3>1. e.type \in ItemTypes /\ e.item # NoItem /\ e.type # "delta" /\ e.type # "added"
      BY <2>3, <2>4 DEF ItemTypes
    <3>2. /\ f.lastID \in Int /\ f.lastID <= h.lastID /\ f.lastID <= e.item
      BY <1>1, <2>2, <2>3, <2>4
    <3>3. \A m \in TextKinds : \/ /\ m \in TextKinds /\ f.text[m] = h.text[m] /\ h.text[m].item # e.item
                                  /\ h.text[m] \in Texts
                               \/ f.lastID <= f.text[m].item /\ TextTold(f.text[m], f.events)
      BY <1>2, <2>2, <2>3, <2>4, <2>6, <2>7, <2>8, <2>11
    <3>4. \A i \in D : \/ /\ i \in D /\ f.tools[i] = h.tools[i] /\ h.tools[i].item # e.item
                          /\ h.tools[i] \in Tools
                       \/ f.lastID <= f.tools[i].item /\ ToolTold(f.tools[i], f.events, apart)
      BY <1>2, <2>2, <2>3, <2>9
    <3>5. /\ \A x : Owned(h, TextKinds, D, x) =>
                Owned(f, TextKinds, D, x) \/ (x = e.item /\ e.type = "done")
          /\ e.type = "added" => Owned(f, TextKinds, D, e.item)
          /\ e.type = "delta" => Has(h.events, e.item, "added")
      BY <2>13, <3>1
    <3>6. e \in AnEvent /\ f.events = Append(h.events, e) /\ Told(h, TextKinds, D, apart)
      BY <1>1, <2>2
    <3> HIDE DEF D
    <3>7. Sends(h, f, TextKinds, D, TextKinds, D, apart, e)
      BY <2>10, <2>12, <3>1, <3>2, <3>3, <3>4, <3>5, <3>6 DEF Sends
    <3> QED
      BY <3>6, <3>7, EventTold
  <2>15. Active(f)
    <3>1. "none" \notin TextKinds
      BY DEF TextKinds
    <3> QED
      BY <2>1, <2>2, <2>5, <2>6, <3>1 DEF Active
  <2>16. \A m \in TextKinds : ~h.text[m].announced => f.text[m] = h.text[m]
    BY <2>1, <2>6
  <2> QED
    BY <1>1, <2>2, <2>5, <2>6, <2>14, <2>15, <2>16 DEF Live, Worded
<1>4. ASSUME NEW i \in D, h.activeKind = "tool", h.activeTool = i, h.tools[i].announced, ~h.tools[i].done
      PROVE  /\ Live(f, apart) /\ f.activeKind = "none" /\ f.lastID <= h.lastID
             /\ f.text = h.text
  <2> DEFINE t == h.tools[i]
  <2>1. PICK e \in AnEvent :
          /\ f \in Generations
          /\ e.type = "done" /\ e.item = t.item /\ e.callID = t.id
          /\ f.tools = SetTo(h.tools, i, Marked(t))
          /\ f.text = h.text /\ f.activeKind = "none" /\ f.lastID = h.lastID - 2
          /\ f.events = Append(h.events, e)
    BY <1>1, <1>4, FinishToolIs
  <2>2. t \in Tools /\ t.announced /\ ~t.done /\ t.item # NoItem /\ t.item \in Int /\ t.id # NoID
    BY <1>2, <1>4 DEF Tools, ToolRecords
  <2>3. Marked(t).item = t.item /\ Marked(t).announced /\ Marked(t).done /\ Marked(t).id = t.id /\ Marked(t) \in Tools
    BY <2>2, MarkedIs
  <2>4. ToolTold(t, h.events, apart) /\ h.lastID <= t.item
    BY <1>1, <2>2 DEF Told
  <2> HIDE DEF f
  <2>6. DOMAIN f.tools = D /\ f.tools[i] = Marked(t) /\ \A j \in D : j # i => f.tools[j] = h.tools[j]
    <3>1. DOMAIN SetTo(h.tools, i, Marked(t)) = D \union {i} /\ SetTo(h.tools, i, Marked(t))[i] = Marked(t)
          /\ \A j \in D : j # i => SetTo(h.tools, i, Marked(t))[j] = h.tools[j]
      BY <1>2, <2>3, SetToIs, ZenonT(60)
    <3> QED
      BY <2>1, <3>1
  <2>7. \A j \in D : f.tools[j].item = h.tools[j].item
    BY <2>3, <2>6
  <2>8. \A k \in TextKinds : h.text[k].item # t.item
    BY <1>1, <2>2 DEF Distinct
  <2>9. \A j \in D : j # i => h.tools[j].item # t.item
    BY <1>1, <2>2 DEF Distinct
  <2>10. \A j \in DOMAIN h.events : h.events[j].item = e.item => MayFollow(h.events[j], e, apart)
    BY <2>1, <2>2, <2>4 DEF ToolTold, MayFollow, Has
  <2>11. ToolTold(f.tools[i], f.events, apart)
    <3>1. /\ \A x, type : Has(f.events, x, type) <=> Has(h.events, x, type) \/ (e.item = x /\ e.type = type)
      BY <1>2, <2>1, HasMore
    <3>2. \A j \in DOMAIN f.events : (j \in DOMAIN h.events /\ f.events[j] = h.events[j]) \/ f.events[j] = e
      <4>1. /\ DOMAIN h.events = 1 .. Len(h.events) /\ DOMAIN f.events = 1 .. Len(h.events) + 1
            /\ Len(h.events) \in Nat /\ f.events[Len(h.events) + 1] = e
            /\ \A j \in 1 .. Len(h.events) : f.events[j] = h.events[j]
        BY <1>2, <2>1, Appended
      <4> QED
        BY <4>1
    <3> QED
      BY <2>1, <2>2, <2>3, <2>4, <2>6, <3>1, <3>2 DEF ToolTold
  <2>12. Distinct(f, TextKinds, D)
    BY <1>1, <2>1, <2>7, StillDistinct
  <2>13. \A x : Owned(h, TextKinds, D, x) => Owned(f, TextKinds, D, x)
    BY <2>1, <2>7 DEF Owned
  <2>14. Told(f, TextKinds, D, apart)
    <3>1. e.type \in ItemTypes /\ e.item # NoItem /\ e.type # "delta" /\ e.type # "added"
      BY <2>1, <2>2 DEF ItemTypes
    <3>2. /\ f.lastID \in Int /\ f.lastID <= h.lastID /\ f.lastID <= e.item
      BY <1>1, <2>1, <2>2, <2>4
    <3>3. \A m \in TextKinds : \/ /\ m \in TextKinds /\ f.text[m] = h.text[m] /\ h.text[m].item # e.item
                                  /\ h.text[m] \in Texts
                               \/ f.lastID <= f.text[m].item /\ TextTold(f.text[m], f.events)
      BY <1>2, <2>1, <2>8
    <3>4. \A j \in D : \/ /\ j \in D /\ f.tools[j] = h.tools[j] /\ h.tools[j].item # e.item
                          /\ h.tools[j] \in Tools
                       \/ f.lastID <= f.tools[j].item /\ ToolTold(f.tools[j], f.events, apart)
      BY <1>2, <2>1, <2>6, <2>7, <2>9, <2>11, <3>2
    <3>5. /\ \A x : Owned(h, TextKinds, D, x) =>
                Owned(f, TextKinds, D, x) \/ (x = e.item /\ e.type = "done")
          /\ e.type = "added" => Owned(f, TextKinds, D, e.item)
          /\ e.type = "delta" => Has(h.events, e.item, "added")
      BY <2>13, <3>1
    <3>6. e \in AnEvent /\ f.events = Append(h.events, e) /\ Told(h, TextKinds, D, apart)
      BY <1>1, <2>1
    <3> HIDE DEF D, t
    <3>7. Sends(h, f, TextKinds, D, TextKinds, D, apart, e)
      BY <2>10, <2>12, <3>1, <3>2, <3>3, <3>4, <3>5, <3>6 DEF Sends
    <3> QED
      BY <3>6, <3>7, EventTold
  <2>15. Active(f)
    <3>1. "none" \notin TextKinds /\ "tool" \notin TextKinds
      BY DEF TextKinds
    <3> QED
      BY <1>1, <1>4, <2>1, <3>1 DEF Active
  <2> QED
    BY <1>1, <2>1, <2>6, <2>14, <2>15 DEF Live, Worded
<1>5. ASSUME h.activeKind \notin TextKinds,
             ~(h.activeKind = "tool" /\ h.activeTool \in D
               /\ h.tools[h.activeTool].announced /\ ~h.tools[h.activeTool].done)
      PROVE  /\ Live(f, apart) /\ f.activeKind = "none" /\ f.lastID <= h.lastID
             /\ f.text = h.text /\ f.tools = h.tools
  <2>1. /\ f \in Generations /\ f.text = h.text /\ f.tools = h.tools /\ f.activeKind = "none"
        /\ f.lastID = h.lastID /\ f.events = h.events
    BY <1>1, <1>5, FinishNothingIs
  <2> HIDE DEF f
  <2>2. Distinct(f, TextKinds, D) /\ \A x : Owned(h, TextKinds, D, x) => Owned(f, TextKinds, D, x)
    BY <1>1, <2>1 DEF Distinct, Owned
  <2>3. Told(f, TextKinds, D, apart)
    <3>1. f.lastID \in Int /\ f.lastID <= h.lastID
      BY <1>1, <2>1
    <3>2. Turns(h, f, TextKinds, D, TextKinds, D, apart)
      BY <1>1, <1>2, <2>1, <2>2, <3>1 DEF Turns
    <3> QED
      BY <1>1, <3>2, SilentlyTold
  <2>4. Active(f)
    <3>1. "none" \notin TextKinds /\ "tool" \notin TextKinds
      BY DEF TextKinds
    <3> QED
      BY <1>1, <1>5, <2>1, <3>1 DEF Active
  <2> QED
    BY <1>1, <2>1, <2>3, <2>4 DEF Live, Worded
<1>6. "tool" \notin TextKinds
  BY DEF TextKinds
<1> HIDE DEF f
<1>7. CASE h.activeKind \in TextKinds
  BY <1>3, <1>6, <1>7 DEF f
<1>8. CASE h.activeKind = "tool" /\ h.activeTool \in D
           /\ h.tools[h.activeTool].announced /\ ~h.tools[h.activeTool].done
  BY <1>4, <1>8 DEF f
<1> QED
  BY <1>5, <1>7, <1>8 DEF f

-----------------------------------------------------------------------------
(* Text and reasoning.                                                     *)

Opened(t, index) == [t EXCEPT !.index = index, !.announced = TRUE]

Longer(t) == [t EXCEPT !.text = @ + 1]

LEMMA TextsMade ==
  /\ \A item \in Int : NewText(item) \in Texts /\ NewText(item).item = item
                       /\ ~NewText(item).announced /\ ~NewText(item).done /\ NewText(item).text = 0
  /\ \A t \in Texts, index \in Nat : t.item # NoItem =>
       /\ Opened(t, index) \in Texts /\ Opened(t, index).item = t.item
       /\ Opened(t, index).announced /\ (Opened(t, index).done <=> t.done)
       /\ Opened(t, index).text = t.text /\ Opened(t, index).index = index
  /\ \A t \in Texts : t.item # NoItem =>
       /\ Longer(t) \in Texts /\ Longer(t).item = t.item /\ Longer(t).announced = t.announced
       /\ Longer(t).done = t.done /\ Longer(t).text > 0 /\ Longer(t).text = t.text + 1
       /\ Longer(t).index = t.index
<1>1. \A item \in Int : NewText(item) \in Texts /\ NewText(item).item = item
                       /\ ~NewText(item).announced /\ ~NewText(item).done /\ NewText(item).text = 0
  BY DEF NewText, Texts, NoIndex
<1>2. ASSUME NEW t \in Texts, NEW index \in Nat, t.item # NoItem
      PROVE  /\ Opened(t, index) \in Texts /\ Opened(t, index).item = t.item
             /\ Opened(t, index).announced /\ (Opened(t, index).done <=> t.done)
             /\ Opened(t, index).text = t.text /\ Opened(t, index).index = index
  BY <1>2 DEF Opened, Texts
<1>3. ASSUME NEW t \in Texts, t.item # NoItem
      PROVE  /\ Longer(t) \in Texts /\ Longer(t).item = t.item /\ Longer(t).announced = t.announced
             /\ Longer(t).done = t.done /\ Longer(t).text > 0 /\ Longer(t).text = t.text + 1
             /\ Longer(t).index = t.index
  BY <1>3 DEF Longer, Texts
<1> QED
  BY <1>1, <1>2, <1>3

(* An event of a text that stays the same item.                            *)
TextSays(h, f, k, t, e) ==
  /\ t \in Texts /\ e \in AnEvent
  /\ f.text = [h.text EXCEPT ![k] = t] /\ f.tools = h.tools /\ f.lastID = h.lastID
  /\ f.events = Append(h.events, e)
  /\ h.text[k].item # NoItem /\ t.item = h.text[k].item /\ ~h.text[k].done /\ ~t.done /\ t.announced
  /\ \/ e.type = "added" /\ ~h.text[k].announced
     \/ e.type = "delta" /\ h.text[k].announced
  /\ e.item = t.item /\ e.callID = NoID

LEMMA TextEventTold ==
  ASSUME NEW h \in Generations, NEW f, NEW apart \in BOOLEAN, NEW e, NEW k \in TextKinds, NEW t,
         Told(h, TextKinds, DOMAIN h.tools, apart), TextSays(h, f, k, t, e)
  PROVE  Told(f, TextKinds, DOMAIN f.tools, apart)
<1> USE DEF TextSays
<1> DEFINE D == DOMAIN h.tools
           old == h.text[k]
<1>1. /\ \A m \in TextKinds : h.text[m] \in Texts
      /\ \A i \in D : h.tools[i] \in Tools
      /\ DOMAIN h.text = TextKinds /\ h.events \in Seq(AnEvent) /\ h.lastID \in Int
  BY Parts
<1>2. TextTold(old, h.events) /\ h.lastID <= old.item /\ Distinct(h, TextKinds, D)
  BY DEF Told
<1>3. f.text[k] = t /\ \A m \in TextKinds : m # k => f.text[m] = h.text[m]
  BY <1>1
<1>4. \A m \in TextKinds : f.text[m].item = h.text[m].item
  BY <1>3
<1>5. /\ \A m \in TextKinds : m # k => h.text[m].item # e.item
      /\ \A i \in D : h.tools[i].item # e.item
  BY <1>2 DEF Distinct
<1>6. Distinct(f, TextKinds, D) /\ \A x : Owned(h, TextKinds, D, x) => Owned(f, TextKinds, D, x)
  <2>1. Distinct(f, TextKinds, D)
    BY <1>2, <1>4 DEF Distinct
  <2> QED
    BY <1>4, <2>1 DEF Owned
<1>7. \A i \in DOMAIN h.events : h.events[i].item = e.item => MayFollow(h.events[i], e, apart)
  <2>1. CASE e.type = "added" /\ ~old.announced
    BY <1>2, <2>1 DEF TextTold, Unmentioned
  <2>2. CASE e.type = "delta" /\ old.announced
    BY <1>2, <2>2 DEF TextTold, MayFollow, Has
  <2> QED
    BY <2>1, <2>2
<1>8. TextTold(t, f.events)
  <2>1. \A x, type : Has(f.events, x, type) <=> Has(h.events, x, type) \/ (e.item = x /\ e.type = type)
    BY <1>1, HasMore
  <2>2. \A i \in DOMAIN f.events : (i \in DOMAIN h.events /\ f.events[i] = h.events[i]) \/ f.events[i] = e
    <3>1. /\ DOMAIN h.events = 1 .. Len(h.events) /\ DOMAIN f.events = 1 .. Len(h.events) + 1
          /\ Len(h.events) \in Nat /\ f.events[Len(h.events) + 1] = e
          /\ \A i \in 1 .. Len(h.events) : f.events[i] = h.events[i]
      BY <1>1, Appended
    <3> QED
      BY <3>1
  <2>3. ~Has(h.events, t.item, "done") /\ \A i \in DOMAIN h.events : h.events[i].item = t.item => h.events[i].callID = NoID
    BY <1>2 DEF TextTold, Unmentioned, Has
  <2>4. Has(f.events, t.item, "added")
    BY <1>2, <2>1 DEF TextTold
  <2>5. ~Has(f.events, t.item, "done")
    BY <2>1, <2>3
  <2>6. \A i \in DOMAIN f.events : f.events[i].item = t.item => f.events[i].callID = NoID
    BY <2>2, <2>3
  <2> QED
    BY <2>4, <2>5, <2>6 DEF TextTold
<1>9. Sends(h, f, TextKinds, D, TextKinds, D, apart, e)
  <2>1. e.type \in ItemTypes /\ e.item # NoItem /\ e.type # "done"
    BY DEF ItemTypes
  <2>2. f.lastID \in Int /\ f.lastID <= h.lastID /\ f.lastID <= e.item
    BY <1>1, <1>2
  <2>3. \A m \in TextKinds : \/ /\ m \in TextKinds /\ f.text[m] = h.text[m] /\ h.text[m].item # e.item
                                /\ h.text[m] \in Texts
                             \/ f.lastID <= f.text[m].item /\ TextTold(f.text[m], f.events)
    BY <1>1, <1>2, <1>3, <1>4, <1>5, <1>8
  <2>4. \A i \in D : \/ /\ i \in D /\ f.tools[i] = h.tools[i] /\ h.tools[i].item # e.item
                        /\ h.tools[i] \in Tools
                     \/ f.lastID <= f.tools[i].item /\ ToolTold(f.tools[i], f.events, apart)
    BY <1>1, <1>5
  <2>5. e.type = "delta" => Has(h.events, e.item, "added")
    BY <1>2 DEF TextTold
  <2>6. e.type = "added" => Owned(f, TextKinds, D, e.item)
    BY <1>3 DEF Owned
  <2>7. \A x : Owned(h, TextKinds, D, x) => Owned(f, TextKinds, D, x) \/ (x = e.item /\ e.type = "done")
    BY <1>6
  <2> HIDE DEF D
  <2> QED
    BY <1>6, <1>7, <2>1, <2>2, <2>3, <2>4, <2>5, <2>6, <2>7 DEF Sends
<1> QED
  BY <1>9, EventTold

(* A text or reasoning that has no item, or is done, replaced by a new one  *)
(* with an item but no event yet.                                          *)
Replaces(h, r, k, new) ==
  /\ NeedsNewItem(h.text[k])
  /\ new \in Texts /\ new.item = h.lastID - 1 /\ ~new.announced /\ ~new.done
  /\ r = [h EXCEPT !.text = [h.text EXCEPT ![k] = new], !.lastID = h.lastID - 1]

LEMMA ReplacedLive ==
  ASSUME NEW h, NEW apart \in BOOLEAN, NEW k \in TextKinds, NEW new, NEW r, Live(h, apart),
         Replaces(h, r, k, new)
  PROVE  /\ Live(r, apart) /\ r.tools = h.tools /\ r.text[k] = new /\ new.item # NoItem
         /\ \A m \in TextKinds : m # k => r.text[m] = h.text[m]
<1> DEFINE D == DOMAIN h.tools
           old == h.text[k]
           texts == [h.text EXCEPT ![k] = new]
<1>1. /\ h \in Generations /\ Told(h, TextKinds, D, apart) /\ Active(h) /\ Worded(h)
      /\ h.lastID \in Int /\ h.lastID <= 0 /\ Distinct(h, TextKinds, D)
  BY DEF Live, Told
<1>2. /\ \A m \in TextKinds : h.text[m] \in Texts /\ h.text[m].item \in Int
      /\ \A i \in D : h.tools[i] \in Tools /\ h.tools[i].item \in Int
      /\ DOMAIN h.text = TextKinds /\ h.events \in Seq(AnEvent)
      /\ h.text \in [TextKinds -> Texts]
  BY <1>1, Parts DEF Texts, Tools, ToolRecords, Generations
<1>4. NeedsNewItem(old)
  BY DEF Replaces
<1>5. new \in Texts /\ new.item = h.lastID - 1 /\ ~new.announced /\ ~new.done
  BY DEF Replaces
<1>6. texts \in [TextKinds -> Texts] /\ r = [h EXCEPT !.text = texts, !.lastID = h.lastID - 1]
  BY <1>2, <1>5 DEF Replaces
<1>a. texts = [h.text EXCEPT ![k] = new]
  OBVIOUS
<1> HIDE DEF texts
<1>7. /\ r \in Generations /\ r.text = [h.text EXCEPT ![k] = new] /\ r.tools = h.tools
      /\ r.lastID = h.lastID - 1 /\ r.events = h.events
      /\ r.activeKind = h.activeKind /\ r.activeTool = h.activeTool
  <2>1. h.lastID - 1 \in Int
    BY <1>1
  <2>2. r \in Generations /\ r.text = texts /\ r.tools = h.tools
        /\ r.lastID = h.lastID - 1 /\ r.events = h.events
        /\ r.activeKind = h.activeKind /\ r.activeTool = h.activeTool
    BY <1>1, <1>6, <2>1 DEF Generations
  <2> QED
    BY <1>a, <2>2
<1>8. r.text[k] = new /\ \A m \in TextKinds : m # k => r.text[m] = h.text[m]
  BY <1>2, <1>7
<1>9. /\ \A m \in TextKinds : h.lastID <= h.text[m].item
      /\ \A i \in D : h.lastID <= h.tools[i].item
      /\ \A i \in DOMAIN h.events : h.lastID <= h.events[i].item /\ h.events[i].item \in Int
  <2>1. \A i \in DOMAIN h.events : h.events[i] \in AnEvent
    BY <1>2
  <2> QED
    BY <1>1, <2>1 DEF Told, AnEvent
<1>10. Unmentioned(h.events, new.item)
  BY <1>1, <1>5, <1>9 DEF Unmentioned
<1>11. TextTold(new, r.events) /\ r.lastID <= new.item
  BY <1>1, <1>5, <1>7, <1>10 DEF TextTold
<1>12. Distinct(r, TextKinds, D)
  <2>1. /\ \A m \in TextKinds : h.text[m].item # new.item
        /\ \A i \in D : h.tools[i].item # new.item
    BY <1>1, <1>2, <1>5, <1>9
  <2> QED
    BY <1>1, <1>7, <1>8, <2>1 DEF Distinct
<1>13. \A x : Owned(h, TextKinds, D, x) =>
         Owned(r, TextKinds, D, x) \/ x = NoItem \/ Has(h.events, x, "done") \/ Unmentioned(h.events, x)
  <2>1. old.item = NoItem \/ Has(h.events, old.item, "done")
    BY <1>1, <1>2, <1>4 DEF NeedsNewItem, Told, TextTold, Texts
  <2>2. \A x : Owned(h, TextKinds, D, x) => Owned(r, TextKinds, D, x) \/ x = old.item
    BY <1>7, <1>8 DEF Owned
  <2> QED
    BY <2>1, <2>2
<1>14. Told(r, TextKinds, D, apart)
  <2>1. r.lastID \in Int /\ r.lastID <= h.lastID
    BY <1>1, <1>7
  <2>2. \A m \in TextKinds : \/ m \in TextKinds /\ r.text[m] = h.text[m] /\ h.text[m] \in Texts
                             \/ r.lastID <= r.text[m].item /\ TextTold(r.text[m], r.events)
    BY <1>2, <1>8, <1>11
  <2>3. \A i \in D : i \in D /\ r.tools[i] = h.tools[i] /\ h.tools[i] \in Tools
    BY <1>2, <1>7
  <2> HIDE DEF D
  <2>4. Turns(h, r, TextKinds, D, TextKinds, D, apart)
    BY <1>7, <1>12, <1>13, <2>1, <2>2, <2>3 DEF Turns
  <2>5. Told(h, TextKinds, D, apart)
    BY <1>1
  <2> QED
    BY <2>4, <2>5, SilentlyTold
<1>15. Active(r) /\ Worded(r)
  <2>1. h.activeKind # k
    BY <1>1, <1>2, <1>4 DEF Active, NeedsNewItem, Texts
  <2> QED
    BY <1>1, <1>5, <1>7, <1>8, <2>1 DEF Active, Worded
<1>16. new.item # NoItem
  BY <1>1, <1>5 DEF NoItem
<1> QED
  BY <1>5, <1>7, <1>8, <1>14, <1>15, <1>16 DEF Live

(* Such a new one where ensureMessageActive makes one.                      *)
Renewed(h, k) ==
  IF NeedsNewItem(h.text[k])
    THEN [h EXCEPT !.text[k] = NewText(h.lastID - 1), !.lastID = @ - 1] ELSE h

LEMMA RenewedLive ==
  ASSUME NEW h, NEW apart \in BOOLEAN, NEW k \in TextKinds, Live(h, apart)
  PROVE  LET r == Renewed(h, k) IN
         Live(r, apart) /\ r.text[k].item # NoItem /\ ~r.text[k].done
<1> DEFINE r == Renewed(h, k)
           D == DOMAIN h.tools
           old == h.text[k]
           new == NewText(h.lastID - 1)
<1>1. /\ h \in Generations /\ Told(h, TextKinds, D, apart) /\ Active(h) /\ Worded(h)
      /\ h.lastID \in Int /\ h.lastID <= 0 /\ Distinct(h, TextKinds, D)
  BY DEF Live, Told
<1>2. /\ \A m \in TextKinds : h.text[m] \in Texts /\ h.text[m].item \in Int
      /\ \A i \in D : h.tools[i] \in Tools /\ h.tools[i].item \in Int
      /\ DOMAIN h.text = TextKinds /\ h.events \in Seq(AnEvent)
      /\ h.text \in [TextKinds -> Texts]
  BY <1>1, Parts DEF Texts, Tools, ToolRecords, Generations
<1>3. CASE ~NeedsNewItem(old)
  BY <1>3 DEF Renewed, NeedsNewItem
<1>4. CASE NeedsNewItem(old)
  <2>1. r = [h EXCEPT !.text = [h.text EXCEPT ![k] = new], !.lastID = h.lastID - 1]
    BY <1>1, <1>4 DEF Renewed, Generations
  <2>2. new \in Texts /\ new.item = h.lastID - 1 /\ ~new.announced /\ ~new.done
    BY <1>1, TextsMade
  <2>3. Replaces(h, r, k, new)
    BY <1>4, <2>1, <2>2 DEF Replaces
  <2> HIDE DEF new, r
  <2>4. Live(r, apart) /\ r.text[k] = new /\ new.item # NoItem
    BY <2>3, ReplacedLive
  <2> QED
    BY <2>2, <2>4 DEF r
<1> QED
  BY <1>3, <1>4

(* ensureMessageActive and ensureReasoningActive leave text or reasoning   *)
(* announced, open and active, with or without text.                       *)
OpenText(x, k, apart) ==
  /\ x \in Generations /\ Told(x, TextKinds, DOMAIN x.tools, apart) /\ x.activeKind = k
  /\ x.text[k].item # NoItem /\ x.text[k].announced /\ ~x.text[k].done
  /\ \A m \in TextKinds : m # k =>
       (x.text[m].announced => x.text[m].text > 0 /\ x.text[m].done)

(* What is known of the events and the texts of x, which is f with text k  *)
(* announced.                                                              *)
Opens(f, x, k, e) ==
  /\ e.type = "added" /\ e.item = f.text[k].item
  /\ x.events = Append(f.events, e) /\ x.tools = f.tools
  /\ x.text[k].item = f.text[k].item /\ x.text[k].text = f.text[k].text
  /\ \A m \in TextKinds : m # k => x.text[m] = f.text[m]

LEMMA EnsureTextOpen ==
  ASSUME NEW h, NEW apart \in BOOLEAN, NEW k \in TextKinds, Live(h, apart)
  PROVE  LET r == Renewed(h, k)
             x == EnsureTextActive(h, k)
         IN  /\ OpenText(x, k, apart)
             /\ r.text[k].announced => x = r
             /\ ~r.text[k].announced => \E e \in AnEvent : Opens(FinishActiveItem(r), x, k, e)
<1> DEFINE r == Renewed(h, k)
           f == FinishActiveItem(r)
           x == EnsureTextActive(h, k)
<1>1. Live(r, apart) /\ r.text[k].item # NoItem /\ ~r.text[k].done
  BY RenewedLive
<1>2. /\ k \in {"message", "reasoning"} /\ "tool" \notin TextKinds /\ "none" \notin TextKinds
      /\ k \in ActiveKinds
  BY DEF TextKinds, ActiveKinds
<1>3. /\ OpenText(x, k, apart)
      /\ r.text[k].announced => x = r
      /\ ~r.text[k].announced => \E e \in AnEvent : Opens(f, x, k, e)
  <2>1. CASE r.text[k].announced
    <3>1. r.activeKind = k
      BY <1>1, <2>1 DEF Live, Active
    <3>2. x = r
      BY <2>1, <3>1 DEF EnsureTextActive, Renewed
    <3> HIDE DEF x, r
    <3> QED
      BY <1>1, <2>1, <3>1, <3>2 DEF OpenText, Live, Active, Worded
  <2>2. CASE ~r.text[k].announced
    <3> DEFINE t == r.text[k]
               at == f.nextOutputIndex
               o == Opened(t, at)
               e == An("added", t.item, at, NoID, 0)
               w == [f EXCEPT !.activeKind = k, !.text = [f.text EXCEPT ![k] = o],
                              !.nextOutputIndex = at + 1]
    <3>1. Live(f, apart) /\ f.activeKind = "none" /\ f.text[k] = t
      BY <1>1, <2>2, FinishLive
    <3>2. f \in Generations /\ f.text \in [TextKinds -> Texts] /\ t \in Texts /\ at \in Nat
      BY <3>1, Parts DEF Live, Generations
    <3>3. /\ o \in Texts /\ o.item = t.item /\ o.announced /\ ~o.done /\ o.index = at
          /\ o.text = t.text
          /\ o = [t EXCEPT !.index = at, !.announced = TRUE]
      <4>1. t.item # NoItem /\ ~t.done
        BY <1>1
      <4> HIDE DEF t, at
      <4> QED
        BY <3>2, <4>1, TextsMade, ZenonT(60) DEF Opened
    <3>4. x = Emit(w, "added", w.text[k].item, w.text[k].index, NoID, 0)
      <4> DEFINE g2 == [f EXCEPT !.activeKind = k]
                 g3 == [g2 EXCEPT !.text[k].index = g2.nextOutputIndex, !.text[k].announced = TRUE,
                                  !.nextOutputIndex = @ + 1]
      <4>1. x = Emit(g3, "added", g3.text[k].item, g3.text[k].index, NoID, 0)
        BY <2>2 DEF EnsureTextActive, Renewed
      <4>2. g3 = w
        <5> HIDE DEF f, r
        <5>1. /\ g2 \in Generations /\ g2.text = f.text /\ g2.nextOutputIndex = at
          BY <1>2, <3>2 DEF Generations
        <5> HIDE DEF g2
        <5>2. g3 = [g2 EXCEPT !.text = [f.text EXCEPT ![k] = [f.text[k] EXCEPT !.index = at, !.announced = TRUE]],
                              !.nextOutputIndex = at + 1]
          BY <3>2, <5>1 DEF Generations
        <5>3. g3 = [g2 EXCEPT !.text = [f.text EXCEPT ![k] = o], !.nextOutputIndex = at + 1]
          BY <3>1, <3>3, <5>2
        <5> HIDE DEF o
        <5> QED
          BY <3>2, <5>3 DEF g2, Generations
      <4> HIDE DEF g3, w
      <4> QED
        BY <4>1, <4>2
    <3> HIDE DEF f, r, o, at
    <3> DEFINE texts == [f.text EXCEPT ![k] = o]
    <3>5. texts \in [TextKinds -> Texts] /\ texts = [f.text EXCEPT ![k] = o]
          /\ w = [f EXCEPT !.activeKind = k, !.text = texts, !.nextOutputIndex = at + 1]
      BY <3>2, <3>3
    <3> HIDE DEF texts, w
    <3>6. /\ w \in Generations /\ w.text = [f.text EXCEPT ![k] = o] /\ w.tools = f.tools
          /\ w.activeKind = k /\ w.lastID = f.lastID /\ w.events = f.events
      <4>1. at + 1 \in Nat
        BY <3>2
      <4>2. /\ w \in Generations /\ w.text = texts /\ w.tools = f.tools
            /\ w.activeKind = k /\ w.lastID = f.lastID /\ w.events = f.events
        BY <1>2, <3>2, <3>5, <4>1 DEF Generations
      <4> QED
        BY <3>5, <4>2
    <3>7. w.text[k] = o /\ \A m \in TextKinds : m # k => w.text[m] = f.text[m]
      BY <3>2, <3>6
    <3>8. e \in AnEvent /\ e.type = "added" /\ e.item = t.item /\ e.callID = NoID
      BY <3>2 DEF An, AnOf, AnEvent, Forms, EventTypes, ItemTypes, NoID, Texts
    <3>9. x = [w EXCEPT !.events = Append(w.events, e)]
      BY <3>3, <3>4, <3>7 DEF Emit, EmitAs, An, AnOf
    <3> HIDE DEF e, x
    <3>10. /\ x \in Generations /\ x.text = w.text /\ x.tools = w.tools
           /\ x.activeKind = w.activeKind /\ x.lastID = w.lastID /\ x.events = Append(w.events, e)
      BY <3>6, <3>8, <3>9, SentIs
    <3>11. Told(x, TextKinds, DOMAIN x.tools, apart)
      <4>1. f.text[k].item # NoItem /\ ~f.text[k].announced /\ ~f.text[k].done
        BY <1>1, <2>2, <3>1
      <4>2. TextSays(f, x, k, o, e)
        BY <3>1, <3>3, <3>6, <3>8, <3>10, <4>1 DEF TextSays
      <4>3. Told(f, TextKinds, DOMAIN f.tools, apart)
        BY <3>1 DEF Live
      <4> QED
        BY <3>2, <4>2, <4>3, TextEventTold
    <3>12. \A m \in TextKinds : m # k => (f.text[m].announced => f.text[m].text > 0 /\ f.text[m].done)
      BY <1>2, <3>1 DEF Live, Active, Worded
    <3>13. \A m \in TextKinds : m # k => (x.text[m].announced => x.text[m].text > 0 /\ x.text[m].done)
      <4>1. \A m \in TextKinds : m # k => x.text[m] = f.text[m]
        BY <3>7, <3>10
      <4> QED
        BY <3>12, <4>1
    <3>14. x.text[k] = o /\ x.activeKind = k
      BY <3>6, <3>7, <3>10
    <3>15. o.item # NoItem
      BY <1>1, <3>3
    <3>16. OpenText(x, k, apart)
      BY <3>3, <3>10, <3>11, <3>13, <3>14, <3>15 DEF OpenText
    <3>17. Opens(f, x, k, e)
      BY <3>1, <3>3, <3>6, <3>7, <3>8, <3>10 DEF Opens
    <3> QED
      BY <2>2, <3>8, <3>16, <3>17 DEF f
  <2> QED
    BY <2>1, <2>2
<1> QED
  BY <1>3

Lengthens(x, y, k, e) ==
  /\ e.type = "delta" /\ e.item = x.text[k].item /\ e.n = 1
  /\ y.events = Append(x.events, e) /\ y.tools = x.tools
  /\ y.text[k] = Longer(x.text[k]) /\ \A m \in TextKinds : m # k => y.text[m] = x.text[m]

LEMMA TextDeltaLive ==
  ASSUME NEW h, NEW apart \in BOOLEAN, NEW k \in TextKinds, Live(h, apart)
  PROVE  LET y == TextDelta(h, k) IN
         Live(y, apart) /\ \E e \in AnEvent : Lengthens(EnsureTextActive(h, k), y, k, e)
<1> DEFINE x == EnsureTextActive(h, k)
           y == TextDelta(h, k)
<1>2. /\ k \in {"message", "reasoning"} /\ "tool" \notin TextKinds /\ "none" \notin TextKinds
      /\ k \in ActiveKinds
  BY DEF TextKinds, ActiveKinds
<1>3. OpenText(x, k, apart)
  BY EnsureTextOpen
<1>4. Live(y, apart) /\ \E e \in AnEvent : Lengthens(x, y, k, e)
  <2> DEFINE t == x.text[k]
             l == Longer(t)
             w == [x EXCEPT !.text = [x.text EXCEPT ![k] = l]]
             e == An("delta", t.item, t.index, NoID, 1)
  <2>1. x.text \in [TextKinds -> Texts] /\ t \in Texts /\ DOMAIN x.text = TextKinds
    BY <1>3 DEF OpenText, Generations
  <2>2. /\ l \in Texts /\ l.item = t.item /\ l.announced /\ ~l.done /\ l.text > 0 /\ l.index = t.index
        /\ l = [t EXCEPT !.text = @ + 1]
    BY <1>3, <2>1, TextsMade DEF OpenText, Longer
  <2>3. y = Emit(w, "delta", w.text[k].item, w.text[k].index, NoID, 1)
    <3>1. y = Emit([x EXCEPT !.text[k].text = @ + 1], "delta", [x EXCEPT !.text[k].text = @ + 1].text[k].item,
                   [x EXCEPT !.text[k].text = @ + 1].text[k].index, NoID, 1)
      BY DEF TextDelta
    <3> HIDE DEF x
    <3>2. [x EXCEPT !.text[k].text = @ + 1] = w
      BY <1>3, <2>1 DEF OpenText, Generations, Longer
    <3> HIDE DEF w
    <3> QED
      BY <3>1, <3>2
  <2> HIDE DEF x, l
  <2>4. [x.text EXCEPT ![k] = l] \in [TextKinds -> Texts]
    BY <2>1, <2>2
  <2>5. /\ w \in Generations /\ w.text = [x.text EXCEPT ![k] = l] /\ w.tools = x.tools
        /\ w.activeKind = k /\ w.activeTool = x.activeTool /\ w.lastID = x.lastID /\ w.events = x.events
    BY <1>3, <2>4 DEF OpenText, Generations
  <2> HIDE DEF w
  <2>6. w.text[k] = l /\ \A m \in TextKinds : m # k => w.text[m] = x.text[m]
    BY <2>1, <2>5
  <2>7. e \in AnEvent /\ e.type = "delta" /\ e.item = t.item /\ e.callID = NoID /\ e.n = 1
    BY <2>1 DEF An, AnOf, AnEvent, Forms, EventTypes, ItemTypes, NoID, Texts
  <2>8. y = [w EXCEPT !.events = Append(w.events, e)]
    BY <2>2, <2>3, <2>6 DEF Emit, EmitAs, An, AnOf
  <2> HIDE DEF e, y
  <2>9. /\ y \in Generations /\ y.text = w.text /\ y.tools = w.tools
        /\ y.activeKind = w.activeKind /\ y.activeTool = w.activeTool
        /\ y.lastID = w.lastID /\ y.events = Append(w.events, e)
    BY <2>5, <2>7, <2>8, SentIs
  <2>10. Told(y, TextKinds, DOMAIN y.tools, apart)
    <3>1. TextSays(x, y, k, l, e)
      BY <1>3, <2>2, <2>5, <2>7, <2>9 DEF OpenText, TextSays
    <3>2. x \in Generations /\ Told(x, TextKinds, DOMAIN x.tools, apart)
      BY <1>3 DEF OpenText
    <3> QED
      BY <3>1, <3>2, TextEventTold
  <2>11. Active(y) /\ Worded(y)
    <3>1. y.text[k] = l /\ y.activeKind = k /\ k # "tool"
      BY <1>2, <2>5, <2>6, <2>9
    <3>2. ASSUME NEW m \in TextKinds, m # k
          PROVE  y.text[m].announced => y.text[m].text > 0 /\ y.text[m].done
      <4>1. y.text[m] = x.text[m]
        BY <2>6, <2>9, <3>2
      <4> QED
        BY <1>3, <3>2, <4>1 DEF OpenText
    <3>3. l.announced /\ ~l.done /\ l.text > 0
      BY <2>2
    <3> QED
      BY <3>1, <3>2, <3>3 DEF Active, Worded
  <2>12. Lengthens(x, y, k, e)
    BY <2>5, <2>6, <2>7, <2>9 DEF Lengthens, l
  <2> QED
    BY <2>7, <2>9, <2>10, <2>11, <2>12 DEF Live
<1> QED
  BY <1>4

-----------------------------------------------------------------------------
(* Calls.                                                                  *)

(* A call that becomes t: nothing is sent, and nothing that was sent of it *)
(* becomes wrong.                                                          *)
Becomes(h, f, i, t, apart) ==
  /\ i \in Nat /\ t \in Tools
  /\ f.text = h.text /\ f.tools = SetTo(h.tools, i, t)
  /\ f.activeKind = h.activeKind /\ f.activeTool = h.activeTool
  /\ f.lastID = h.lastID /\ f.events = h.events /\ f.nextOutputIndex = h.nextOutputIndex
  /\ f = [h EXCEPT !.tools = SetTo(h.tools, i, t)]
  /\ t.item = ToolAt(h, i).item /\ t.announced = ToolAt(h, i).announced /\ t.done = ToolAt(h, i).done
  /\ apart /\ t.announced => t.id = ToolAt(h, i).id

LEMMA BecomesLive ==
  ASSUME NEW h, NEW f, NEW apart \in BOOLEAN, NEW i, NEW t, Live(h, apart), Becomes(h, f, i, t, apart)
  PROVE  /\ Live(f, apart) /\ i \in DOMAIN f.tools /\ f.tools[i] = t
         /\ \A j \in DOMAIN h.tools : j # i => f.tools[j] = h.tools[j]
         /\ DOMAIN f.tools = DOMAIN h.tools \union {i}
<1> DEFINE D == DOMAIN h.tools
           F == DOMAIN f.tools
           old == ToolAt(h, i)
<1>1. /\ h \in Generations /\ Told(h, TextKinds, D, apart) /\ Active(h) /\ Worded(h)
      /\ h.lastID \in Int /\ h.lastID <= 0 /\ Distinct(h, TextKinds, D)
  BY DEF Live, Told
<1>2. /\ \A m \in TextKinds : h.text[m] \in Texts
      /\ \A j \in D : h.tools[j] \in Tools
      /\ h.tools \in ToolMaps /\ i \in Nat /\ t \in Tools
  BY <1>1, Parts DEF Becomes
<1>3. /\ f.tools \in ToolMaps /\ F = D \union {i} /\ f.tools[i] = t
      /\ \A j \in D : j # i => f.tools[j] = h.tools[j]
  <2>1. f.tools = SetTo(h.tools, i, t)
    BY DEF Becomes
  <2>2. /\ SetTo(h.tools, i, t) \in ToolMaps /\ DOMAIN SetTo(h.tools, i, t) = D \union {i}
        /\ SetTo(h.tools, i, t)[i] = t
        /\ \A j \in D : j # i => SetTo(h.tools, i, t)[j] = h.tools[j]
    BY <1>2, SetToIs
  <2> QED
    BY <2>1, <2>2
<1>4. f \in Generations
  <2>1. f = [h EXCEPT !.tools = f.tools]
    BY DEF Becomes
  <2> QED
    BY <1>1, <1>3, <2>1 DEF Generations
<1>5. /\ t.item = old.item /\ (t.announced <=> old.announced) /\ (t.done <=> old.done)
      /\ (apart /\ t.announced => t.id = old.id)
      /\ (i \in D => old = h.tools[i]) /\ (i \notin D => old.item = NoItem /\ ~old.announced)
  BY DEF Becomes, ToolAt, NewTool
<1>6. h.lastID <= t.item /\ ToolTold(t, h.events, apart)
  <2>1. CASE i \in D
    <3>1. h.lastID <= old.item /\ ToolTold(old, h.events, apart)
      BY <1>1, <1>5, <2>1 DEF Told
    <3> QED
      BY <1>5, <3>1 DEF ToolTold
  <2>2. CASE i \notin D
    BY <1>1, <1>5, <2>2 DEF ToolTold, NoItem
  <2> QED
    BY <2>1, <2>2
<1>7. \A j \in F : \/ j \in D /\ f.tools[j].item = h.tools[j].item
                   \/ j = i /\ f.tools[j].item = NoItem
  BY <1>3, <1>5
<1>8. f.text = h.text /\ f.events = h.events /\ f.lastID = h.lastID
      /\ f.activeKind = h.activeKind /\ f.activeTool = h.activeTool
  BY DEF Becomes
<1> HIDE DEF F, old
<1>9. Distinct(f, TextKinds, F)
  BY <1>1, <1>7, <1>8 DEF Distinct
<1>10. \A x : Owned(h, TextKinds, D, x) => Owned(f, TextKinds, F, x)
  BY <1>3, <1>7, <1>8, <1>5 DEF Owned
<1>11. Turns(h, f, TextKinds, D, TextKinds, F, apart)
  <2>1. \A j \in F : \/ j \in D /\ f.tools[j] = h.tools[j] /\ h.tools[j] \in Tools
                     \/ f.lastID <= f.tools[j].item /\ ToolTold(f.tools[j], f.events, apart)
    BY <1>2, <1>3, <1>6, <1>8
  <2>2. \A m \in TextKinds : m \in TextKinds /\ f.text[m] = h.text[m] /\ h.text[m] \in Texts
    BY <1>2, <1>8
  <2>3. f.lastID \in Int /\ f.lastID <= h.lastID
    BY <1>1, <1>8
  <2> HIDE DEF D
  <2> QED
    BY <1>8, <1>9, <1>10, <2>1, <2>2, <2>3 DEF Turns
<1>12. Told(f, TextKinds, F, apart)
  <2>1. Told(h, TextKinds, D, apart)
    BY <1>1
  <2> HIDE DEF D
  <2> QED
    BY <1>11, <2>1, SilentlyTold
<1>13. Active(f) /\ Worded(f)
  BY <1>1, <1>3, <1>8 DEF Active, Worded, F
<1> QED
  BY <1>3, <1>4, <1>12, <1>13 DEF Live, F

(* ensureToolActive leaves a call before it open, but no text.             *)
LEMMA EnsureToolLive ==
  ASSUME NEW h, NEW apart \in BOOLEAN, NEW i \in DOMAIN h.tools, Live(h, apart)
  PROVE  LET x == EnsureToolActive(h, i) IN
         Live(x, apart) /\ x.tools = h.tools
<1> DEFINE f == IF h.activeKind = "tool" THEN h ELSE FinishActiveItem(h)
           x == EnsureToolActive(h, i)
<1>1. Live(f, apart) /\ f.tools = h.tools /\ f.activeKind \notin TextKinds
  <2>1. "tool" \notin TextKinds /\ "none" \notin TextKinds
    BY DEF TextKinds
  <2> QED
    BY <2>1, FinishLive
<1>2. x = [f EXCEPT !.activeKind = "tool", !.activeTool = i]
  BY DEF EnsureToolActive
<1> HIDE DEF f
<1>3. i \in Int /\ "tool" \in ActiveKinds /\ f \in Generations
  BY <1>1, Parts DEF Live, ActiveKinds
<1> HIDE DEF x
<1>4. /\ x \in Generations /\ x.text = f.text /\ x.tools = f.tools /\ x.events = f.events
      /\ x.lastID = f.lastID /\ x.activeKind = "tool" /\ x.activeTool = i
  BY <1>2, <1>3 DEF Generations
<1>5. Told(x, TextKinds, DOMAIN x.tools, apart)
  BY <1>1, <1>4 DEF Live, Told, Distinct, Owned
<1>6. Active(x) /\ Worded(x)
  <2>1. "tool" \notin TextKinds
    BY DEF TextKinds
  <2> QED
    BY <1>1, <1>4, <2>1 DEF Live, Active, Worded
<1> QED
  BY <1>1, <1>4, <1>5, <1>6 DEF Live, x

(* What announceFunctionTool and announceCustomTool make of a call.        *)
Announced(t, id, item, index) == [t EXCEPT !.id = id, !.item = item, !.index = index, !.announced = TRUE]

LEMMA AnnouncedIs ==
  ASSUME NEW t \in Tools, NEW id \in Int \ {NoID}, NEW item \in Int \ {NoItem}, NEW index \in Nat,
         t.kind \in {"function", "custom"}
  PROVE  /\ Announced(t, id, item, index) \in Tools
         /\ Announced(t, id, item, index).id = id /\ Announced(t, id, item, index).item = item
         /\ Announced(t, id, item, index).index = index /\ Announced(t, id, item, index).announced
         /\ Announced(t, id, item, index).done = t.done
         /\ Announced(t, id, item, index).kind = t.kind
         /\ Announced(t, id, item, index).args = t.args
         /\ Announced(t, id, item, index).decoded = t.decoded
         /\ Announced(t, id, item, index).emitted = t.emitted
         /\ Announced(t, id, item, index).name = t.name
<1> DEFINE a == Announced(t, id, item, index)
<1>1. /\ a.id = id /\ a.item = item /\ a.index = index /\ a.announced
      /\ a.done = t.done /\ a.kind = t.kind /\ a.args = t.args /\ a.decoded = t.decoded
      /\ a.emitted = t.emitted /\ a.name = t.name
      /\ a.value = t.value /\ a.prefix = t.prefix /\ a.json = t.json
  BY DEF Announced, Tools, ToolRecords
<1>2. a \in ToolRecords
  BY DEF Announced, Tools, ToolRecords
<1> HIDE DEF a
<1>3. t.emitted <= t.decoded /\ Decoding(a)
  BY <1>1, DecodingKept DEF Tools
<1>4. a \in Tools
  BY <1>1, <1>2, <1>3 DEF Tools, ToolRecords, NoIndex
<1> QED
  BY <1>1, <1>4 DEF a

LEMMA AnnounceIs ==
  ASSUME NEW h \in Generations, NEW i \in DOMAIN h.tools, ~h.tools[i].announced
  PROVE  LET t == h.tools[i]
             a == Announced(t, AnnouncedID(h, t), h.lastID - 2, h.nextOutputIndex)
             e == An("added", h.lastID - 2, h.nextOutputIndex, AnnouncedID(h, t), 0)
         IN  AnnounceTool(h, i) =
               [h EXCEPT !.tools = SetTo(h.tools, i, a), !.nextOutputIndex = h.nextOutputIndex + 1,
                         !.lastID = h.lastID - 2, !.events = Append(h.events, e)]
<1> DEFINE t == h.tools[i]
           id == AnnouncedID(h, t)
           item == h.lastID - 2
           index == h.nextOutputIndex
           a == Announced(t, id, item, index)
           e == An("added", item, index, id, 0)
           m == [WithTool(h, i, a) EXCEPT !.nextOutputIndex = @ + 1, !.lastID = @ - 2]
<1>1. t \in Tools
  BY Parts
<1>2. AnnounceTool(h, i) = Emit(m, "added", a.item, a.index, a.id, 0)
  BY DEF AnnounceTool, Announced
<1>3. a.item = item /\ a.index = index /\ a.id = id
  <2> HIDE DEF item, index, id
  <2> QED
    BY <1>1 DEF Announced, Tools, ToolRecords
<1> HIDE DEF a
<1>4. m = [h EXCEPT !.tools = SetTo(h.tools, i, a), !.nextOutputIndex = index + 1, !.lastID = item]
  <2>1. WithTool(h, i, a) = [h EXCEPT !.tools = SetTo(h.tools, i, a)]
    BY DEF WithTool, SetTo
  <2> QED
    BY <2>1 DEF Generations
<1> HIDE DEF m, item, index, id
<1>5. AnnounceTool(h, i) = [m EXCEPT !.events = Append(m.events, e)]
  BY <1>2, <1>3 DEF Emit, EmitAs, An, AnOf
<1> HIDE DEF e
<1>6. m.events = h.events
  BY <1>4 DEF Generations
<1>7. AnnounceTool(h, i) = [h EXCEPT !.tools = SetTo(h.tools, i, a), !.nextOutputIndex = index + 1,
                                     !.lastID = item, !.events = Append(h.events, e)]
  BY <1>4, <1>5, <1>6 DEF Generations
<1> QED
  BY <1>7 DEF a, e, item, index, id

(* An event of a call.                                                     *)
ToolSays(h, f, i, t, e) ==
  /\ i \in DOMAIN h.tools /\ t \in Tools /\ e \in AnEvent
  /\ f.text = h.text /\ f.tools = SetTo(h.tools, i, t)
  /\ f.events = Append(h.events, e)
  /\ t.announced /\ t.done = h.tools[i].done
  /\ \/ /\ e.type = "added" /\ ~h.tools[i].announced
        /\ t.item = h.lastID - 2 /\ f.lastID = h.lastID - 2
     \/ /\ e.type = "delta" /\ h.tools[i].announced
        /\ t.item = h.tools[i].item /\ t.id = h.tools[i].id /\ f.lastID = h.lastID
  /\ e.item = t.item /\ e.callID = t.id

LEMMA ToolEventTold ==
  ASSUME NEW h \in Generations, NEW f, NEW apart \in BOOLEAN, NEW e, NEW i, NEW t,
         Told(h, TextKinds, DOMAIN h.tools, apart), ToolSays(h, f, i, t, e)
  PROVE  Told(f, TextKinds, DOMAIN f.tools, apart)
<1> DEFINE D == DOMAIN h.tools
           old == h.tools[i]
           added == e.type = "added"
<1>1. /\ \A m \in TextKinds : h.text[m] \in Texts /\ h.text[m].item \in Int
      /\ \A j \in D : h.tools[j] \in Tools /\ h.tools[j].item \in Int
      /\ h.tools \in ToolMaps /\ h.events \in Seq(AnEvent) /\ h.lastID \in Int /\ D \subseteq Nat
  BY Parts DEF Texts, Tools, ToolRecords
<1>2. /\ i \in D /\ t \in Tools /\ e \in AnEvent
      /\ f.text = h.text /\ f.tools = SetTo(h.tools, i, t) /\ f.events = Append(h.events, e)
      /\ t.announced /\ t.done = old.done /\ e.item = t.item /\ e.callID = t.id
      /\ added \/ e.type = "delta"
      /\ added => ~old.announced /\ t.item = h.lastID - 2 /\ f.lastID = h.lastID - 2
      /\ ~added => old.announced /\ t.item = old.item /\ t.id = old.id /\ f.lastID = h.lastID
  BY DEF ToolSays
<1>3. /\ ToolTold(old, h.events, apart) /\ h.lastID <= old.item /\ Distinct(h, TextKinds, D)
      /\ h.lastID <= 0
  BY <1>2 DEF Told
<1>4. /\ old.announced <=> old.item # NoItem
      /\ ~old.announced => ~old.done
      /\ t.item # NoItem /\ t.id # NoID
  BY <1>1, <1>2 DEF Tools, ToolRecords
<1>5. /\ f.tools[i] = t /\ DOMAIN f.tools = D
      /\ \A j \in D : j # i => f.tools[j] = h.tools[j]
  <2>1. /\ DOMAIN SetTo(h.tools, i, t) = D \union {i} /\ SetTo(h.tools, i, t)[i] = t
        /\ \A j \in D : j # i => SetTo(h.tools, i, t)[j] = h.tools[j]
    <3>1. h.tools \in ToolMaps /\ i \in Nat /\ t \in Tools
      BY <1>1, <1>2
    <3> QED
      BY <3>1, SetToIs
  <2>2. D \union {i} = D
    BY <1>2
  <2> QED
    BY <1>2, <2>1, <2>2
<1>6. /\ \A m \in TextKinds : h.lastID <= h.text[m].item
      /\ \A j \in D : h.lastID <= h.tools[j].item
      /\ \A j \in DOMAIN h.events : h.lastID <= h.events[j].item /\ h.events[j].item \in Int
  <2>1. \A j \in DOMAIN h.events : h.events[j] \in AnEvent
    BY <1>1
  <2> QED
    BY <2>1 DEF Told, AnEvent
<1>7. /\ \A m \in TextKinds : h.text[m].item # e.item
      /\ \A j \in D : j # i => h.tools[j].item # e.item
  <2>1. CASE added
    BY <1>1, <1>2, <1>6, <2>1
  <2>2. CASE ~added
    BY <1>2, <1>3, <1>4, <2>2 DEF Distinct
  <2> QED
    BY <2>1, <2>2
<1>8. added => \A j \in DOMAIN h.events : h.events[j].item # e.item
  BY <1>1, <1>2, <1>6
<1> HIDE DEF D, old, added
<1>9. Distinct(f, TextKinds, D)
  BY <1>2, <1>3, <1>5, <1>7 DEF Distinct
<1>10. \A x : Owned(h, TextKinds, D, x) => Owned(f, TextKinds, D, x) \/ x = NoItem
  <2>1. old.item = t.item \/ old.item = NoItem
    BY <1>2, <1>4
  <2> QED
    BY <1>2, <1>5, <2>1 DEF Owned, old
<1>11. \A j \in DOMAIN h.events : h.events[j].item = e.item => MayFollow(h.events[j], e, apart)
  <2>1. CASE added
    BY <1>8, <2>1
  <2>2. CASE ~added
    BY <1>2, <1>3, <1>4, <2>2 DEF MayFollow, ToolTold
  <2> QED
    BY <2>1, <2>2
<1>12. ToolTold(t, f.events, apart)
  <2>1. \A x, type : Has(f.events, x, type) <=> Has(h.events, x, type) \/ (e.item = x /\ e.type = type)
    BY <1>1, <1>2, HasMore
  <2>2. \A j \in DOMAIN f.events : (j \in DOMAIN h.events /\ f.events[j] = h.events[j]) \/ f.events[j] = e
    <3>1. /\ DOMAIN h.events = 1 .. Len(h.events) /\ DOMAIN f.events = 1 .. Len(h.events) + 1
          /\ Len(h.events) \in Nat /\ f.events[Len(h.events) + 1] = e
          /\ \A j \in 1 .. Len(h.events) : f.events[j] = h.events[j]
      BY <1>1, <1>2, Appended
    <3> QED
      BY <3>1
  <2>3. CASE added
    <3>1. ~Has(h.events, t.item, "done")
      BY <1>2, <1>8, <2>3 DEF Has
    <3> QED
      BY <1>2, <1>4, <1>8, <2>1, <2>2, <2>3, <3>1 DEF ToolTold, added
  <2>4. CASE ~added
    BY <1>2, <1>3, <1>4, <2>1, <2>2, <2>4 DEF ToolTold, added
  <2> QED
    BY <2>3, <2>4
<1>13. Sends(h, f, TextKinds, D, TextKinds, D, apart, e)
  <2>1. e.type \in ItemTypes /\ e.item # NoItem /\ e.type # "done"
    BY <1>2, <1>4 DEF ItemTypes, added
  <2>2. f.lastID \in Int /\ f.lastID <= h.lastID /\ f.lastID <= e.item
    BY <1>1, <1>2, <1>3
  <2>3. \A m \in TextKinds : /\ m \in TextKinds /\ f.text[m] = h.text[m] /\ h.text[m].item # e.item
                             /\ h.text[m] \in Texts
    BY <1>1, <1>2, <1>7
  <2>4. \A j \in D : \/ /\ j \in D /\ f.tools[j] = h.tools[j] /\ h.tools[j].item # e.item
                        /\ h.tools[j] \in Tools
                     \/ f.lastID <= f.tools[j].item /\ ToolTold(f.tools[j], f.events, apart)
    BY <1>1, <1>2, <1>5, <1>7, <1>12, <2>2
  <2>5. e.type = "delta" => Has(h.events, e.item, "added")
    BY <1>2, <1>3 DEF ToolTold, added
  <2>6. Owned(f, TextKinds, D, e.item)
    BY <1>2, <1>5 DEF Owned
  <2>7. \A x : Owned(h, TextKinds, D, x) =>
          Owned(f, TextKinds, D, x) \/ x = NoItem \/ (x = e.item /\ e.type = "done")
    BY <1>10
  <2> QED
    BY <1>2, <1>9, <1>11, <2>1, <2>2, <2>3, <2>4, <2>5, <2>6, <2>7 DEF Sends
<1> QED
  BY <1>5, <1>13, EventTold DEF D

(* What is known of the events and the calls of x, which is h with call i  *)
(* announced.                                                              *)
Announces(h, x, i, e) ==
  /\ e.type = "added" /\ e.item = x.tools[i].item /\ Unmentioned(h.events, e.item)
  /\ x.events = Append(h.events, e) /\ x.text = h.text
  /\ DOMAIN x.tools = DOMAIN h.tools /\ \A j \in DOMAIN h.tools : j # i => x.tools[j] = h.tools[j]
  /\ x.tools[i].kind = h.tools[i].kind /\ x.tools[i].name = h.tools[i].name
  /\ x.tools[i].args = h.tools[i].args /\ x.tools[i].emitted = h.tools[i].emitted

LEMMA AnnounceLive ==
  ASSUME NEW h, NEW apart \in BOOLEAN, Live(h, apart), NEW i \in DOMAIN h.tools,
         h.tools[i].kind \in {"function", "custom"}
  PROVE  LET x == AnnounceTool(h, i) IN
         /\ Live(x, apart) /\ i \in DOMAIN x.tools /\ x.tools[i].announced
         /\ x.tools[i].decoded = h.tools[i].decoded
         /\ h.tools[i].announced => x = h
         /\ ~h.tools[i].announced => \E e \in AnEvent : Announces(h, x, i, e)
<1> DEFINE t == h.tools[i]
           id == AnnouncedID(h, t)
           item == h.lastID - 2
           index == h.nextOutputIndex
           a == Announced(t, id, item, index)
           e == An("added", item, index, id, 0)
           tools == SetTo(h.tools, i, a)
           x == AnnounceTool(h, i)
<1>1. /\ h \in Generations /\ Told(h, TextKinds, DOMAIN h.tools, apart) /\ Active(h) /\ Worded(h)
      /\ h.lastID \in Int /\ h.lastID <= 0
  BY DEF Live, Told
<1>2. t \in Tools /\ t.id \in Int /\ h.tools \in ToolMaps /\ i \in Nat /\ index \in Nat
      /\ h.events \in Seq(AnEvent)
  BY <1>1, Parts DEF Tools, ToolRecords
<1>3. CASE t.announced
  BY <1>3 DEF AnnounceTool
<1>4. CASE ~t.announced
  <2>1. x = [h EXCEPT !.tools = tools, !.nextOutputIndex = index + 1, !.lastID = item,
                      !.events = Append(h.events, e)]
    BY <1>1, <1>4, AnnounceIs
  <2>2. id \in Int \ {NoID} /\ item \in Int \ {NoItem} /\ ~t.done
    BY <1>1, <1>2, <1>4 DEF AnnouncedID, NoID, NoItem, Tools, ToolRecords
  <2>3. /\ a \in Tools /\ a.id = id /\ a.item = item /\ a.announced /\ a.done = t.done
        /\ a.decoded = t.decoded /\ a.kind = t.kind /\ a.name = t.name /\ a.args = t.args
        /\ a.emitted = t.emitted
    <3> HIDE DEF id, item, index, t
    <3>1. t.kind \in {"function", "custom"}
      BY DEF t
    <3>2. t \in Tools /\ id \in Int \ {NoID} /\ item \in Int \ {NoItem} /\ index \in Nat
      BY <1>2, <2>2
    <3>3. /\ a \in Tools /\ a.id = id /\ a.item = item /\ a.announced /\ a.done = t.done
          /\ a.decoded = t.decoded
      BY <3>1, <3>2, AnnouncedIs
    <3>4. a.kind = t.kind /\ a.name = t.name /\ a.args = t.args /\ a.emitted = t.emitted
      BY <3>1, <3>2, AnnouncedIs
    <3> HIDE DEF a
    <3> QED
      BY <3>3, <3>4
  <2>4. e \in AnEvent /\ e.type = "added" /\ e.item = item /\ e.callID = id
    BY <1>2, <2>2 DEF An, AnOf, AnEvent, Forms, EventTypes, ItemTypes
  <2>5. tools \in ToolMaps /\ DOMAIN tools = DOMAIN h.tools \union {i} /\ tools[i] = a
        /\ \A j \in DOMAIN h.tools : j # i => tools[j] = h.tools[j]
    <3> HIDE DEF a
    <3>1. h.tools \in ToolMaps /\ i \in Nat /\ a \in Tools
      BY <1>2, <2>3
    <3>2. tools \in ToolMaps /\ DOMAIN tools = DOMAIN h.tools \union {i} /\ tools[i] = a
      BY <3>1, SetToIs
    <3>3. \A j \in DOMAIN h.tools : j # i => tools[j] = h.tools[j]
      BY <3>1, SetToIs, ZenonT(60)
    <3> QED
      BY <3>2, <3>3
  <2>a. tools = SetTo(h.tools, i, a)
    OBVIOUS
  <2> HIDE DEF e, tools, a, x, id
  <2>6. Append(h.events, e) \in Seq(AnEvent) /\ index + 1 \in Nat /\ item \in Int
    BY <1>2, <2>2, <2>4
  <2>7. /\ x \in Generations /\ x.text = h.text /\ x.tools = tools /\ x.events = Append(h.events, e)
        /\ x.lastID = item /\ x.activeKind = h.activeKind /\ x.activeTool = h.activeTool
    BY <1>1, <2>1, <2>5, <2>6 DEF Generations
  <2>8. ToolSays(h, x, i, a, e)
    BY <1>4, <2>2, <2>3, <2>4, <2>a, <2>7 DEF ToolSays
  <2>9. Told(x, TextKinds, DOMAIN x.tools, apart)
    BY <1>1, <2>8, ToolEventTold
  <2>10. Active(x) /\ Worded(x)
    BY <1>1, <2>5, <2>7 DEF Active, Worded
  <2>11. Unmentioned(h.events, item)
    <3>1. \A j \in DOMAIN h.events : h.lastID <= h.events[j].item /\ h.events[j] \in AnEvent
      BY <1>1, <1>2, ElementOfSeq DEF Told
    <3>2. \A j \in DOMAIN h.events : h.lastID <= h.events[j].item /\ h.events[j].item \in Int
      BY <3>1 DEF AnEvent
    <3> QED
      BY <1>1, <3>2 DEF Unmentioned
  <2>12. Announces(h, x, i, e)
    BY <2>3, <2>4, <2>5, <2>7, <2>11 DEF Announces
  <2> QED
    BY <1>4, <2>3, <2>4, <2>5, <2>7, <2>9, <2>10, <2>12 DEF Live, x
<1> QED
  BY <1>3, <1>4

LEMMA ToolDeltaLive ==
  ASSUME NEW h, NEW apart \in BOOLEAN, Live(h, apart), NEW i \in DOMAIN h.tools,
         h.tools[i].announced, NEW n \in Nat
  PROVE  LET x == ToolDelta(h, i, n) IN
         /\ Live(x, apart) /\ x.tools = h.tools /\ x.text = h.text
         /\ n = 0 => x = h
         /\ n # 0 => \E e \in AnEvent :
              /\ e.type = "delta" /\ e.item = h.tools[i].item /\ e.n = n
              /\ x.events = Append(h.events, e)
<1> DEFINE t == h.tools[i]
           e == An("delta", t.item, t.index, t.id, n)
           x == ToolDelta(h, i, n)
<1>1. /\ h \in Generations /\ Told(h, TextKinds, DOMAIN h.tools, apart) /\ Active(h) /\ Worded(h)
      /\ h.lastID \in Int
  BY DEF Live, Told
<1>2. t \in Tools /\ h.tools \in ToolMaps
  BY <1>1, Parts
<1>3. CASE n = 0
  BY <1>3 DEF ToolDelta
<1>4. CASE n # 0
  <2>1. x = [h EXCEPT !.events = Append(h.events, e)]
    BY <1>4 DEF ToolDelta, Emit, EmitAs, An, AnOf
  <2>2. e \in AnEvent /\ e.type = "delta" /\ e.item = t.item /\ e.callID = t.id /\ e.n = n
    BY <1>2 DEF An, AnOf, AnEvent, Forms, EventTypes, ItemTypes, Tools, ToolRecords
  <2>3. SetTo(h.tools, i, t) = h.tools
    <3>1. h.tools \in [DOMAIN h.tools -> Tools]
      BY <1>2, ToolMapIs
    <3> QED
      BY <3>1 DEF SetTo
  <2> HIDE DEF e, x
  <2>4. /\ x \in Generations /\ x.text = h.text /\ x.tools = h.tools /\ x.events = Append(h.events, e)
        /\ x.lastID = h.lastID /\ x.activeKind = h.activeKind /\ x.activeTool = h.activeTool
    BY <1>1, <2>1, <2>2, SentIs
  <2>5. ToolSays(h, x, i, t, e)
    BY <1>2, <2>2, <2>3, <2>4 DEF ToolSays
  <2>6. Told(x, TextKinds, DOMAIN x.tools, apart)
    BY <1>1, <2>5, ToolEventTold
  <2>7. Active(x) /\ Worded(x)
    BY <1>1, <2>4 DEF Active, Worded
  <2> QED
    BY <1>4, <2>2, <2>4, <2>6, <2>7 DEF Live, x
<1> QED
  BY <1>3, <1>4

(* What emitToolCallDelta changes in a call besides announcing it.         *)
OfKind(t, kind) == [t EXCEPT !.kind = kind]

AllSent(t) == [t EXCEPT !.emitted = t.decoded]

LEMMA CallsMade ==
  /\ \A t \in Tools, kind \in Kinds \union {NoName} : (t.announced => kind = t.kind) =>
       /\ OfKind(t, kind) \in Tools /\ OfKind(t, kind).item = t.item /\ OfKind(t, kind).id = t.id
       /\ OfKind(t, kind).announced = t.announced /\ OfKind(t, kind).done = t.done
       /\ OfKind(t, kind).kind = kind /\ OfKind(t, kind).decoded = t.decoded
       /\ OfKind(t, kind).emitted = t.emitted /\ OfKind(t, kind).args = t.args
       /\ OfKind(t, kind).name = t.name
  /\ \A t \in Tools : /\ AllSent(t) \in Tools /\ AllSent(t).item = t.item
                      /\ AllSent(t).id = t.id
                      /\ AllSent(t).announced = t.announced
                      /\ AllSent(t).done = t.done
                      /\ AllSent(t).kind = t.kind /\ AllSent(t).decoded = t.decoded
                      /\ AllSent(t).args = t.args /\ AllSent(t).emitted = t.decoded
<1>1. ASSUME NEW t \in Tools, NEW kind \in Kinds \union {NoName}, t.announced => kind = t.kind
      PROVE  /\ OfKind(t, kind) \in Tools /\ OfKind(t, kind).item = t.item /\ OfKind(t, kind).id = t.id
             /\ OfKind(t, kind).announced = t.announced /\ OfKind(t, kind).done = t.done
             /\ OfKind(t, kind).kind = kind /\ OfKind(t, kind).decoded = t.decoded
             /\ OfKind(t, kind).emitted = t.emitted /\ OfKind(t, kind).args = t.args
             /\ OfKind(t, kind).name = t.name
  <2>1. OfKind(t, kind) \in ToolRecords
    BY <1>1 DEF Tools, ToolRecords, OfKind
  <2>2. /\ OfKind(t, kind).item = t.item /\ OfKind(t, kind).id = t.id
        /\ OfKind(t, kind).announced = t.announced /\ OfKind(t, kind).done = t.done
        /\ OfKind(t, kind).kind = kind /\ OfKind(t, kind).decoded = t.decoded
        /\ OfKind(t, kind).emitted = t.emitted /\ OfKind(t, kind).args = t.args
        /\ OfKind(t, kind).index = t.index /\ OfKind(t, kind).name = t.name
        /\ OfKind(t, kind).value = t.value /\ OfKind(t, kind).prefix = t.prefix
        /\ OfKind(t, kind).json = t.json
    BY DEF OfKind, Tools, ToolRecords
  <2>3. Decoding(OfKind(t, kind))
    BY <2>2, DecodingKept DEF Tools
  <2> QED
    BY <1>1, <2>1, <2>2, <2>3 DEF Tools
<1>2. ASSUME NEW t \in Tools
      PROVE  /\ AllSent(t) \in Tools /\ AllSent(t).item = t.item
             /\ AllSent(t).id = t.id
             /\ AllSent(t).announced = t.announced
             /\ AllSent(t).done = t.done
             /\ AllSent(t).kind = t.kind /\ AllSent(t).decoded = t.decoded
             /\ AllSent(t).args = t.args /\ AllSent(t).emitted = t.decoded
  <2> DEFINE u == AllSent(t)
  <2>1. u \in ToolRecords
    BY DEF Tools, ToolRecords, AllSent
  <2>2. /\ u.item = t.item /\ u.id = t.id /\ u.announced = t.announced /\ u.done = t.done
        /\ u.kind = t.kind /\ u.decoded = t.decoded /\ u.emitted = t.decoded /\ u.args = t.args
        /\ u.index = t.index /\ u.value = t.value /\ u.prefix = t.prefix /\ u.json = t.json
    BY DEF AllSent, Tools, ToolRecords
  <2> HIDE DEF u
  <2>3. t.decoded \in Nat /\ Decoding(u)
    BY <2>2, DecodingKept DEF Tools, ToolRecords
  <2>4. u \in Tools
    BY <2>1, <2>2, <2>3 DEF Tools, ToolRecords
  <2> QED
    BY <2>2, <2>4 DEF u
<1> QED
  BY <1>1, <1>2

LEMMA EmitCallLive ==
  ASSUME NEW h, NEW apart \in BOOLEAN, Live(h, apart), NEW i \in DOMAIN h.tools, NEW fragment
  PROVE  Live(EmitToolCallDelta(h, i, fragment), apart)
<1> DEFINE t == h.tools[i]
           kind == IF t.kind = NoName /\ t.name # NoName THEN Kind[t.name] ELSE t.kind
           k == OfKind(t, kind)
           g1 == WithTool(h, i, k)
           ensured == EnsureToolActive(g1, i)
           g2 == AnnounceTool(ensured, i)
           s == AllSent(g2.tools[i])
           g3 == WithTool(g2, i, s)
           x == EmitToolCallDelta(h, i, fragment)
<1>1. h \in Generations /\ t \in Tools /\ i \in Nat
  BY Parts DEF Live
<1>2. kind \in Kinds \union {NoName} /\ (t.announced => kind = t.kind)
  <2>1. t.kind \in Kinds \union {NoName} /\ t.name \in Names \union {NoName}
        /\ (t.announced => t.kind \in {"function", "custom"})
    BY <1>1 DEF Tools, ToolRecords
  <2>2. NoName \notin {"function", "custom"}
    BY DEF NoName
  <2> QED
    BY <2>1, <2>2, GenerationAssumption
<1>3. x = CASE kind = "function" -> ToolDelta(g2, i, IF fragment = "none" THEN 0 ELSE 1)
            [] kind = "custom" -> ToolDelta(WithTool(g2, i, [g2.tools[i] EXCEPT !.emitted = t.decoded]), i, NewInput(t))
            [] OTHER -> g1
  BY DEF EmitToolCallDelta, OfKind
<1> HIDE DEF kind
<1>4. /\ k \in Tools /\ k.item = t.item /\ k.id = t.id /\ k.announced = t.announced
      /\ k.done = t.done /\ k.kind = kind /\ k.decoded = t.decoded
  <2> HIDE DEF t
  <2> QED
    BY <1>1, <1>2, CallsMade
<1> HIDE DEF k
<1>5. Live(g1, apart) /\ i \in DOMAIN g1.tools /\ g1.tools[i] = k
  <2>1. g1 = [h EXCEPT !.tools = SetTo(h.tools, i, k)]
    BY DEF WithTool, SetTo
  <2> HIDE DEF g1
  <2>2. /\ g1.text = h.text /\ g1.tools = SetTo(h.tools, i, k)
        /\ g1.activeKind = h.activeKind /\ g1.activeTool = h.activeTool
        /\ g1.lastID = h.lastID /\ g1.events = h.events /\ g1.nextOutputIndex = h.nextOutputIndex
    BY <1>1, <2>1 DEF Generations
  <2>3. Becomes(h, g1, i, k, apart)
    BY <1>1, <1>4, <2>1, <2>2 DEF Becomes, ToolAt
  <2> QED
    BY <2>3, BecomesLive
<1> HIDE DEF g1
<1>6. Live(ensured, apart) /\ ensured.tools = g1.tools
  BY <1>5, EnsureToolLive
<1> HIDE DEF ensured
<1>7. CASE kind = "function"
  <2>1. ensured.tools[i].kind \in {"function", "custom"} /\ i \in DOMAIN ensured.tools
    BY <1>4, <1>5, <1>6, <1>7
  <2>2. Live(g2, apart) /\ i \in DOMAIN g2.tools /\ g2.tools[i].announced
    BY <1>6, <2>1, AnnounceLive
  <2> HIDE DEF g2
  <2>3. (IF fragment = "none" THEN 0 ELSE 1) \in Nat
    OBVIOUS
  <2>4. Live(ToolDelta(g2, i, IF fragment = "none" THEN 0 ELSE 1), apart)
    BY <2>2, <2>3, ToolDeltaLive
  <2>5. x = ToolDelta(g2, i, IF fragment = "none" THEN 0 ELSE 1)
    BY <1>3, <1>7
  <2> QED
    BY <2>4, <2>5
<1>8. CASE kind = "custom"
  <2>1. ensured.tools[i].kind \in {"function", "custom"} /\ i \in DOMAIN ensured.tools
        /\ ensured.tools[i].decoded = t.decoded
    BY <1>4, <1>5, <1>6, <1>8
  <2>2. Live(g2, apart) /\ i \in DOMAIN g2.tools /\ g2.tools[i].announced
        /\ g2.tools[i].decoded = t.decoded
    BY <1>6, <2>1, AnnounceLive
  <2> HIDE DEF g2
  <2>3. g2 \in Generations /\ g2.tools[i] \in Tools
    BY <2>2, Parts DEF Live
  <2>4. /\ s \in Tools /\ s.item = g2.tools[i].item /\ s.id = g2.tools[i].id
        /\ s.announced = g2.tools[i].announced /\ s.done = g2.tools[i].done
    BY <2>3, CallsMade
  <2>5. s = [g2.tools[i] EXCEPT !.emitted = t.decoded]
    BY <2>2 DEF AllSent
  <2> HIDE DEF s
  <2>6. Live(g3, apart) /\ i \in DOMAIN g3.tools /\ g3.tools[i] = s
    <3>1. g3 = [g2 EXCEPT !.tools = SetTo(g2.tools, i, s)]
      BY DEF WithTool, SetTo
    <3> HIDE DEF g3
    <3>2. /\ g3.text = g2.text /\ g3.tools = SetTo(g2.tools, i, s)
          /\ g3.activeKind = g2.activeKind /\ g3.activeTool = g2.activeTool
          /\ g3.lastID = g2.lastID /\ g3.events = g2.events /\ g3.nextOutputIndex = g2.nextOutputIndex
      BY <2>3, <3>1 DEF Generations
    <3>3. Becomes(g2, g3, i, s, apart)
      BY <1>1, <2>2, <2>4, <3>1, <3>2 DEF Becomes, ToolAt
    <3> QED
      BY <2>2, <3>3, BecomesLive
  <2>7. x = ToolDelta(g3, i, NewInput(t))
    <3>1. kind # "function"
      BY <1>8
    <3> QED
      BY <1>3, <1>8, <2>5, <3>1
  <2>8. NewInput(t) \in Nat
    <3> HIDE DEF t
    <3> QED
      BY <1>1 DEF NewInput, Tools, ToolRecords
  <2> HIDE DEF g3
  <2>9. g3.tools[i].announced
    BY <2>2, <2>4, <2>6
  <2>10. Live(ToolDelta(g3, i, NewInput(t)), apart)
    <3> DEFINE n == NewInput(t)
    <3>1. n \in Nat
      BY <2>8
    <3> HIDE DEF n
    <3>2. Live(ToolDelta(g3, i, n), apart)
      BY <2>6, <2>9, <3>1, ToolDeltaLive
    <3> QED
      BY <3>2 DEF n
  <2> QED
    BY <2>7, <2>10
<1>9. CASE kind \notin {"function", "custom"}
  <2>1. x = g1
    BY <1>3, <1>9
  <2> QED
    BY <1>5, <2>1
<1> QED
  BY <1>7, <1>8, <1>9

(* What a delta adds.                                                      *)
Grown(t, u, call) ==
  /\ u.kind = t.kind /\ u.emitted = t.emitted /\ u.item = t.item /\ u.announced = t.announced
  /\ u.name = IF call.name # NoName THEN call.name ELSE t.name
  /\ u.args = IF call.fragment # "none" THEN t.args + 1 ELSE t.args

(* The two decoders go on side by side.                                    *)
LEMMA DecodingGoesOn ==
  ASSUME NEW t, NEW u, NEW fragment \in Fragments, Decoding(t),
         t.args \in Nat, t.decoded \in Nat, t.value \in Nat,
         t.prefix \in {"before", "inside", "past"}, t.json \in {"empty", "open", "whole", "broken"},
         u.args = IF fragment # "none" THEN t.args + 1 ELSE t.args,
         u.decoded = t.decoded + Decodes(t, fragment),
         u.value = IF fragment \in {"text", "pair", "whole"} THEN t.value + 1 ELSE t.value,
         u.prefix = PrefixAfter(t, fragment), u.json = JSONAfter(t, fragment)
  PROVE  Decoding(u)
<1>1. CASE fragment = "none"
  BY <1>1 DEF Decoding, Decodes, PrefixAfter, JSONAfter
<1>2. CASE fragment = "input"
  BY <1>2 DEF Decoding, Decodes, PrefixAfter, JSONAfter
<1>3. CASE fragment = "other"
  BY <1>3 DEF Decoding, Decodes, PrefixAfter, JSONAfter
<1>4. CASE fragment = "text"
  BY <1>4 DEF Decoding, Decodes, PrefixAfter, JSONAfter
<1>5. CASE fragment = "pair"
  BY <1>5 DEF Decoding, Decodes, PrefixAfter, JSONAfter
<1>6. CASE fragment = "close"
  BY <1>6 DEF Decoding, Decodes, PrefixAfter, JSONAfter
<1>7. CASE fragment = "whole"
  BY <1>7 DEF Decoding, Decodes, PrefixAfter, JSONAfter
<1> QED
  BY <1>1, <1>2, <1>3, <1>4, <1>5, <1>6, <1>7 DEF Fragments

LEMMA AccumulateIs ==
  ASSUME NEW t \in Tools, NEW call \in Calls
  PROVE  LET u == Accumulate(t, call) IN
         /\ u \in Tools /\ u.item = t.item /\ u.announced = t.announced /\ u.done = t.done
         /\ u.id = IF call.id # NoID THEN call.id ELSE t.id
         /\ Grown(t, u, call)
<1> DEFINE u == Accumulate(t, call)
           id == IF call.id # NoID THEN call.id ELSE t.id
           name == IF call.name # NoName THEN call.name ELSE t.name
           args == IF call.fragment # "none" THEN t.args + 1 ELSE t.args
           decoded == t.decoded + Decodes(t, call.fragment)
           value == IF call.fragment \in {"text", "pair", "whole"} THEN t.value + 1 ELSE t.value
           prefix == PrefixAfter(t, call.fragment)
           json == JSONAfter(t, call.fragment)
           paired == t.paired \/ call.fragment = "pair"
<1>1. call.id \in Nat /\ call.name \in Names \union {NoName} /\ call.fragment \in Fragments
  <2>1. call.id \in IDs \union {NoID} /\ call.name \in Names \union {NoName} /\ call.fragment \in Fragments
    BY DEF Calls
  <2>2. IDs \union {NoID} \subseteq Nat
    BY GenerationAssumption DEF NoID
  <2> QED
    BY <2>1, <2>2
<1>2. /\ t \in ToolRecords /\ t.emitted <= t.decoded /\ Decoding(t)
      /\ t.announced => t.id # NoID /\ t.index # NoIndex /\ t.kind \in {"function", "custom"}
      /\ t.done => t.announced
      /\ t.item # NoItem <=> t.announced
  BY DEF Tools, ToolRecords
<1>3. /\ t.args \in Nat /\ t.decoded \in Nat /\ t.value \in Nat /\ t.emitted \in Nat
      /\ t.prefix \in {"before", "inside", "past"} /\ t.json \in {"empty", "open", "whole", "broken"}
      /\ t.id \in Int /\ t.name \in Names \union {NoName}
  BY <1>2 DEF ToolRecords
<1>4. /\ id \in Int /\ name \in Names \union {NoName} /\ args \in Nat /\ value \in Nat
      /\ paired \in BOOLEAN
  BY <1>1, <1>3
<1>5. decoded \in Nat /\ decoded >= t.decoded
  BY <1>3 DEF Decodes
<1>6. prefix \in {"before", "inside", "past"} /\ json \in {"empty", "open", "whole", "broken"}
  BY <1>3 DEF PrefixAfter, JSONAfter
<1>7. u = [t EXCEPT !.id = id, !.name = name, !.args = args, !.decoded = decoded, !.value = value,
                    !.prefix = prefix, !.json = json, !.paired = paired]
  BY DEF Accumulate
<1> HIDE DEF u, id, name, args, decoded, value, prefix, json, paired
<1>8. u \in ToolRecords
  BY <1>2, <1>4, <1>5, <1>6, <1>7 DEF ToolRecords
<1>9. /\ u.item = t.item /\ u.announced = t.announced /\ u.done = t.done /\ u.id = id
      /\ u.name = name /\ u.args = args /\ u.decoded = decoded /\ u.value = value
      /\ u.prefix = prefix /\ u.json = json
      /\ u.kind = t.kind /\ u.emitted = t.emitted /\ u.index = t.index
  BY <1>2, <1>7 DEF ToolRecords
<1>10. Decoding(u)
  BY <1>1, <1>2, <1>3, <1>9, DecodingGoesOn DEF args, decoded, value, prefix, json
<1>11. u.id = IF call.id # NoID THEN call.id ELSE t.id
  BY <1>9 DEF id
<1>12. u.announced => u.id # NoID
  BY <1>2, <1>9, <1>11
<1>13. u.emitted <= u.decoded
  BY <1>2, <1>3, <1>5, <1>9
<1>14. u \in Tools
  BY <1>2, <1>8, <1>9, <1>10, <1>12, <1>13 DEF Tools
<1>15. Grown(t, u, call)
  BY <1>9 DEF Grown, name, args
<1> QED
  BY <1>9, <1>11, <1>14, <1>15 DEF u

(* A delta without an index never goes to another call that was announced. *)
LEMMA DeltaGoesWhere ==
  ASSUME NEW h \in Generations, NEW call \in Calls, NEW position \in Nat
  PROVE  LET i == ToolForDelta(h, call, position) IN
         /\ i \in Nat
         /\ call.index = NoIndex /\ i \in DOMAIN h.tools /\ h.tools[i].announced /\ call.id # NoID =>
              h.tools[i].id = call.id
<1> DEFINE known == {i \in DOMAIN h.tools : h.tools[i].id = call.id}
           there == h.tools[position]
           i == ToolForDelta(h, call, position)
           other == /\ position \in DOMAIN h.tools /\ Started(there)
                    /\ \/ call.id # NoID /\ there.id # NoID /\ there.id # call.id
                       \/ call.name # NoName /\ there.name # NoName /\ there.name # call.name
<1>1. /\ DOMAIN h.tools \subseteq Nat /\ IsFiniteSet(DOMAIN h.tools)
      /\ \A j \in DOMAIN h.tools : h.tools[j] \in Tools
  BY Parts
<1>2. call.index \in Nat \union {NoIndex}
  BY DEF Calls
<1>3. CASE call.index # NoIndex
  <2>1. i = call.index
    BY <1>3 DEF ToolForDelta
  <2> QED
    BY <1>2, <1>3, <2>1
<1>4. CASE call.index = NoIndex /\ call.id # NoID /\ known # {}
  <2>1. i = CHOOSE j \in known : TRUE
    BY <1>4 DEF ToolForDelta
  <2>2. i \in known
    BY <1>4, <2>1
  <2> QED
    BY <1>1, <2>2
<1>5. CASE call.index = NoIndex /\ ~(call.id # NoID /\ known # {}) /\ other
  <2>1. i = NextToolIndex(h)
    BY <1>5 DEF ToolForDelta
  <2> DEFINE S == {NoIndex} \union DOMAIN h.tools
  <2>2. IsFiniteSet(S) /\ S \subseteq Int /\ NoIndex \in S
    BY <1>1, FS_AddElement DEF NoIndex
  <2>3. Max(S) \in S /\ \A k \in S : k <= Max(S)
    <3> HIDE DEF S
    <3> QED
      BY <2>2, GreatestIn
  <2>4. i = 1 + Max(S)
    BY <2>1 DEF NextToolIndex
  <2>5. Max(S) >= -1 /\ Max(S) \in Int
    BY <2>2, <2>3 DEF NoIndex
  <2>6. i \in Nat /\ i \notin S
    <3> HIDE DEF S, i
    <3> QED
      BY <2>2, <2>3, <2>4, <2>5
  <2> QED
    BY <2>6
<1>6. CASE call.index = NoIndex /\ ~(call.id # NoID /\ known # {}) /\ ~other
  <2>1. i = position
    BY <1>6 DEF ToolForDelta
  <2>2. ASSUME position \in DOMAIN h.tools, there.announced, call.id # NoID
        PROVE  there.id = call.id
    <3>1. there.id # NoID
      BY <1>1, <2>2 DEF Tools, ToolRecords
    <3> QED
      BY <1>6, <2>2, <3>1 DEF Started
  <2> QED
    BY <2>1, <2>2
<1> QED
  BY <1>3, <1>4, <1>5, <1>6

LEMMA ApplyCallLive ==
  ASSUME NEW h, NEW apart \in BOOLEAN, Live(h, apart), NEW call \in Calls, NEW position \in Nat,
         apart => call.index = NoIndex
  PROVE  Live(ApplyToolCallDelta(h, call, position), apart)
<1> DEFINE i == ToolForDelta(h, call, position)
           old == ToolAt(h, i)
           t == Accumulate(old, call)
           f == WithTool(h, i, t)
<1>1. h \in Generations
  BY DEF Live
<1>2. /\ i \in Nat
      /\ call.index = NoIndex /\ i \in DOMAIN h.tools /\ h.tools[i].announced /\ call.id # NoID =>
           h.tools[i].id = call.id
  BY <1>1, DeltaGoesWhere
<1> HIDE DEF i
<1>3. old \in Tools
  BY <1>1, ToolAtIs
<1>4. /\ t \in Tools /\ t.item = old.item /\ t.announced = old.announced /\ t.done = old.done
      /\ t.id = IF call.id # NoID THEN call.id ELSE old.id
  <2> HIDE DEF old
  <2> QED
    BY <1>3, AccumulateIs
<1>5. apart /\ t.announced => t.id = old.id
  <2>1. i \notin DOMAIN h.tools => ~old.announced
    BY DEF ToolAt, NewTool
  <2>2. i \in DOMAIN h.tools => old = h.tools[i]
    BY DEF ToolAt
  <2> HIDE DEF t, old
  <2> QED
    BY <1>2, <1>4, <2>1, <2>2
<1>6. f = [h EXCEPT !.tools = SetTo(h.tools, i, t)]
  BY DEF WithTool, SetTo
<1> HIDE DEF t, f
<1>7. /\ f.text = h.text /\ f.tools = SetTo(h.tools, i, t)
      /\ f.activeKind = h.activeKind /\ f.activeTool = h.activeTool
      /\ f.lastID = h.lastID /\ f.events = h.events /\ f.nextOutputIndex = h.nextOutputIndex
  BY <1>1, <1>6 DEF Generations
<1>8. Becomes(h, f, i, t, apart)
  BY <1>2, <1>4, <1>5, <1>6, <1>7 DEF Becomes
<1>9. Live(f, apart) /\ i \in DOMAIN f.tools
  BY <1>8, BecomesLive
<1>10. ApplyToolCallDelta(h, call, position) = EmitToolCallDelta(f, i, call.fragment)
  BY DEF ApplyToolCallDelta, f, t, i
<1> QED
  BY <1>9, <1>10, EmitCallLive

-----------------------------------------------------------------------------
(* The sums of deltas.                                                     *)

(* What an event adds to the sum of an item.                               *)
Adding(e, x) == IF e.item = x /\ e.type = "delta" THEN e.n ELSE 0

LEMMA DeltasOfIs ==
  ASSUME NEW E \in Seq(AnEvent), NEW x
  PROVE  LET sum == DeltasOf(E, x) IN
         /\ sum \in [0 .. Len(E) -> Nat] /\ sum[0] = 0
         /\ \A i \in 1 .. Len(E) : sum[i] = sum[i - 1] + Adding(E[i], x)
<1> DEFINE n == Len(E)
           whole(f) == [i \in 0 .. n |->
             IF i = 0 THEN 0
             ELSE IF E[i].item = x /\ E[i].type = "delta" THEN f[i - 1] + E[i].n ELSE f[i - 1]]
           chosen == CHOOSE f : f = whole(f)
           step == [i \in 1 .. n |-> [k \in Nat |-> k + Adding(E[i], x)]]
<1>1. n \in Nat /\ DeltasOf(E, x) = chosen
  <2>1. DeltasOf(E, x) = CHOOSE f : f = [i \in 0 .. Len(E) |->
          IF i = 0 THEN 0
          ELSE IF E[i].item = x /\ E[i].type = "delta" THEN f[i - 1] + E[i].n ELSE f[i - 1]]
    BY Zenon DEF DeltasOf
  <2>2. n \in Nat
    OBVIOUS
  <2>3. DeltasOf(E, x) = chosen
    BY <2>1, Zenon
  <2> QED
    BY <2>2, <2>3
<1>2. \A i \in 1 .. n : Adding(E[i], x) \in Nat
  <2>1. \A i \in 1 .. n : E[i] \in AnEvent
    BY ElementOfSeq
  <2> QED
    BY <2>1 DEF Adding, AnEvent
<1> HIDE DEF n
<1>3. step \in [1 .. n -> [Nat -> Nat]] /\ \A i \in 1 .. n, k \in Nat : step[i][k] = k + Adding(E[i], x)
  BY <1>2
<1> HIDE DEF step
<1>4. PICK f \in [0 .. n -> Nat] : Iterates(f, n, 0, step)
  BY <1>1, <1>3, Recursion
<1>5. f[0] = 0 /\ \A i \in 1 .. n : f[i] = f[i - 1] + Adding(E[i], x)
  <2>1. f[0] = 0 /\ \A i \in 1 .. n : f[i] = step[i][f[i - 1]]
    BY <1>4 DEF Iterates
  <2>2. \A i \in 1 .. n : i - 1 \in 0 .. n /\ f[i - 1] \in Nat
    BY <1>1, <1>4
  <2> QED
    BY <1>3, <2>1, <2>2
<1>6. f = whole(f)
  <2>1. \A i \in 0 .. n : i = 0 \/ (i \in 1 .. n /\ i - 1 \in 0 .. n)
    BY <1>1
  <2>2. ASSUME NEW i \in 1 .. n
        PROVE  f[i] = IF E[i].item = x /\ E[i].type = "delta" THEN f[i - 1] + E[i].n ELSE f[i - 1]
    <3>1. f[i - 1] \in Nat /\ f[i] = f[i - 1] + Adding(E[i], x)
      BY <1>1, <1>4, <1>5
    <3> QED
      BY <3>1 DEF Adding
  <2>3. \A i \in 0 .. n : f[i] = IF i = 0 THEN 0
          ELSE IF E[i].item = x /\ E[i].type = "delta" THEN f[i - 1] + E[i].n ELSE f[i - 1]
    BY <1>5, <2>1, <2>2
  <2> QED
    BY <1>4, <2>3
<1>7. chosen = whole(chosen)
  BY <1>6
<1> HIDE DEF chosen
<1>8. /\ DOMAIN chosen = 0 .. n /\ chosen[0] = 0
      /\ \A i \in 1 .. n : chosen[i] =
           IF E[i].item = x /\ E[i].type = "delta" THEN chosen[i - 1] + E[i].n ELSE chosen[i - 1]
      /\ chosen = [i \in 0 .. n |-> chosen[i]]
  <2>1. \A i \in 1 .. n : i \in 0 .. n /\ i # 0
    BY <1>1
  <2>2. 0 \in 0 .. n
    BY <1>1
  <2>3. DOMAIN chosen = 0 .. n /\ chosen = [i \in 0 .. n |-> chosen[i]]
    BY <1>7
  <2>4. \A i \in 0 .. n : chosen[i] = IF i = 0 THEN 0
          ELSE IF E[i].item = x /\ E[i].type = "delta" THEN chosen[i - 1] + E[i].n ELSE chosen[i - 1]
    BY <1>7
  <2> QED
    BY <2>1, <2>2, <2>3, <2>4
<1> DEFINE T == {i \in 0 .. n : chosen[i] \in Nat /\ chosen[i] = f[i]}
<1>9. 0 \in T
  BY <1>1, <1>5, <1>8
<1>10. \A i \in 0 .. n - 1 : i \in T => i + 1 \in T
  <2> SUFFICES ASSUME NEW i \in 0 .. n - 1, chosen[i] \in Nat, chosen[i] = f[i]
               PROVE  chosen[i + 1] \in Nat /\ chosen[i + 1] = f[i + 1]
    BY <1>1
  <2>1. i + 1 \in 1 .. n /\ (i + 1) - 1 = i
    BY <1>1
  <2>2. f[i + 1] = f[i] + Adding(E[i + 1], x)
    BY <1>5, <2>1
  <2>3. chosen[i + 1] = chosen[i] + Adding(E[i + 1], x)
    <3>1. chosen[i + 1] =
            IF E[i + 1].item = x /\ E[i + 1].type = "delta" THEN chosen[i] + E[i + 1].n ELSE chosen[i]
      BY <1>8, <2>1
    <3> QED
      BY <3>1 DEF Adding
  <2> QED
    BY <1>2, <2>1, <2>2, <2>3
<1> HIDE DEF T
<1>11. 0 .. n \subseteq T
  BY <1>1, <1>9, <1>10, Induction
<1>12. \A i \in 0 .. n : chosen[i] \in Nat /\ chosen[i] = f[i]
  BY <1>11 DEF T
<1>13. chosen \in [0 .. n -> Nat]
  BY <1>8, <1>12
<1>14. \A i \in 1 .. n : chosen[i] = chosen[i - 1] + Adding(E[i], x)
  <2>1. \A i \in 1 .. n : i - 1 \in 0 .. n /\ i \in 0 .. n
    BY <1>1
  <2> QED
    BY <1>5, <1>12, <2>1
<1> QED
  BY <1>1, <1>8, <1>13, <1>14 DEF n

(* The sum of all deltas of an item.                                       *)
Sum(E, x) == DeltasOf(E, x)[Len(E)]

(* Sums up to an event do not change with later ones.                      *)
LEMMA SumGrows ==
  ASSUME NEW E \in Seq(AnEvent), NEW e \in AnEvent, NEW x
  PROVE  /\ \A i \in 0 .. Len(E) : DeltasOf(Append(E, e), x)[i] = DeltasOf(E, x)[i]
         /\ Sum(E, x) \in Nat
         /\ Sum(Append(E, e), x) = Sum(E, x) + Adding(e, x)
<1> DEFINE F == Append(E, e)
           n == Len(E)
           a == DeltasOf(E, x)
           b == DeltasOf(F, x)
<1>1. /\ n \in Nat /\ F \in Seq(AnEvent) /\ Len(F) = n + 1 /\ F[n + 1] = e
      /\ \A i \in 1 .. n : F[i] = E[i]
  <2>1. F \in Seq(AnEvent) /\ Len(F) = n + 1
    OBVIOUS
  <2> QED
    BY <2>1, Appended
<1>2. /\ a \in [0 .. n -> Nat] /\ a[0] = 0
      /\ \A i \in 1 .. n : a[i] = a[i - 1] + Adding(E[i], x)
  BY DeltasOfIs
<1>3. /\ b \in [0 .. n + 1 -> Nat] /\ b[0] = 0
      /\ \A i \in 1 .. n + 1 : b[i] = b[i - 1] + Adding(F[i], x)
  <2> HIDE DEF F
  <2>1. /\ b \in [0 .. Len(F) -> Nat] /\ b[0] = 0
        /\ \A i \in 1 .. Len(F) : b[i] = b[i - 1] + Adding(F[i], x)
    BY <1>1, DeltasOfIs
  <2> QED
    BY <1>1, <2>1
<1>a. Sum(E, x) = a[n] /\ Sum(F, x) = b[n + 1]
  BY <1>1 DEF Sum
<1> HIDE DEF F, n, a, b
<1> DEFINE T == {i \in 0 .. n : b[i] = a[i]}
<1>4. 0 \in T
  BY <1>1, <1>2, <1>3
<1>5. \A i \in 0 .. n - 1 : i \in T => i + 1 \in T
  <2> SUFFICES ASSUME NEW i \in 0 .. n - 1, b[i] = a[i] PROVE b[i + 1] = a[i + 1]
    BY <1>1
  <2>1. i + 1 \in 1 .. n /\ i + 1 \in 1 .. n + 1 /\ (i + 1) - 1 = i
    BY <1>1
  <2>2. a[i + 1] = a[i] + Adding(E[i + 1], x) /\ b[i + 1] = b[i] + Adding(F[i + 1], x)
    BY <1>2, <1>3, <2>1
  <2> QED
    BY <1>1, <2>1, <2>2
<1> HIDE DEF T
<1>6. 0 .. n \subseteq T
  BY <1>1, <1>4, <1>5, Induction
<1>7. \A i \in 0 .. n : b[i] = a[i]
  BY <1>6 DEF T
<1>8. b[n + 1] = a[n] + Adding(e, x)
  <2>1. n + 1 \in 1 .. n + 1 /\ (n + 1) - 1 = n /\ n \in 0 .. n
    BY <1>1
  <2> QED
    BY <1>1, <1>3, <1>7, <2>1
<1>9. a[n] \in Nat
  BY <1>1, <1>2
<1> QED
  BY <1>7, <1>8, <1>9, <1>a DEF n, a, b, F

LEMMA NothingToSum ==
  ASSUME NEW E \in Seq(AnEvent), NEW x, Unmentioned(E, x)
  PROVE  Sum(E, x) = 0
<1> DEFINE n == Len(E)
           a == DeltasOf(E, x)
           T == {i \in 0 .. n : a[i] = 0}
<1>1. /\ n \in Nat /\ a[0] = 0 /\ \A i \in 1 .. n : a[i] = a[i - 1] + Adding(E[i], x)
  BY DeltasOfIs
<1>2. \A i \in 1 .. n : Adding(E[i], x) = 0
  BY DEF Unmentioned, Adding
<1>a. Sum(E, x) = a[n]
  BY DEF Sum
<1> HIDE DEF n, a
<1>3. 0 \in T
  BY <1>1
<1>4. \A i \in 0 .. n - 1 : i \in T => i + 1 \in T
  <2> SUFFICES ASSUME NEW i \in 0 .. n - 1, a[i] = 0 PROVE a[i + 1] = 0
    BY <1>1
  <2>1. i + 1 \in 1 .. n /\ (i + 1) - 1 = i
    BY <1>1
  <2>2. a[i + 1] = a[(i + 1) - 1] + Adding(E[i + 1], x)
    BY <1>1, <2>1
  <2> QED
    BY <1>2, <2>1, <2>2
<1> HIDE DEF T
<1>5. 0 .. n \subseteq T
  BY <1>1, <1>3, <1>4, Induction
<1>6. a[n] = 0
  BY <1>1, <1>5 DEF T
<1> QED
  BY <1>6, <1>a

(* How a done event relates to the sum of the deltas.                      *)
AddsUp(sum, e, late) ==
  /\ e.form \in {"text", "input"} => sum = e.n
  /\ e.form = "arguments" => sum <= e.n /\ (sum < e.n => late)
  /\ e.form = "raw" => sum < e.n
  /\ e.form \in {"object", "other"} => sum = 0

(* Every done item that was added is the sum of its deltas so far.         *)
DonesAddUp(E, late) ==
  \A d \in DOMAIN E :
    E[d].type = "done" /\ Has(E, E[d].item, "added") => AddsUp(DeltasOf(E, E[d].item)[d - 1], E[d], late)

LEMMA DonesGrow ==
  ASSUME NEW E \in Seq(AnEvent), NEW e \in AnEvent, NEW late, NEW apart, DonesAddUp(E, late),
         e.type = "added" => Story(Append(E, e), apart),
         e.type = "done" /\ Has(E, e.item, "added") => AddsUp(Sum(E, e.item), e, late)
  PROVE  DonesAddUp(Append(E, e), late)
<1> DEFINE F == Append(E, e)
           n == Len(E)
<1>1. /\ n \in Nat /\ DOMAIN E = 1 .. n /\ DOMAIN F = 1 .. n + 1 /\ F[n + 1] = e
      /\ \A i \in 1 .. n : F[i] = E[i]
  BY Appended
<1>2. \A y, type : Has(F, y, type) <=> Has(E, y, type) \/ (e.item = y /\ e.type = type)
  BY HasMore
<1>3. \A y : /\ \A i \in 0 .. n : DeltasOf(F, y)[i] = DeltasOf(E, y)[i]
             /\ Sum(E, y) = DeltasOf(E, y)[n]
  BY SumGrows DEF Sum
<1> HIDE DEF F, n
<1> SUFFICES ASSUME NEW d \in DOMAIN F, F[d].type = "done", Has(F, F[d].item, "added")
             PROVE  AddsUp(DeltasOf(F, F[d].item)[d - 1], F[d], late)
  BY DEF F, DonesAddUp
<1>4. CASE d \in 1 .. n
  <2>1. F[d] = E[d] /\ d - 1 \in 0 .. n
    BY <1>1, <1>4
  <2>2. Has(E, E[d].item, "added")
    <3>1. ASSUME e.item = E[d].item, e.type = "added" PROVE FALSE
      <4>1. Story(F, apart) /\ n + 1 \in DOMAIN F /\ d < n + 1
        BY <1>1, <1>4, <3>1 DEF F
      <4>2. F[d].item # NoItem
        BY <4>1 DEF Story, ItemTypes
      <4>3. MayFollow(F[d], F[n + 1], apart)
        BY <1>1, <2>1, <3>1, <4>1, <4>2 DEF Story
      <4> QED
        BY <1>1, <3>1, <4>3 DEF MayFollow
    <3> QED
      BY <1>2, <2>1, <3>1
  <2>3. AddsUp(DeltasOf(E, E[d].item)[d - 1], E[d], late)
    BY <1>1, <1>4, <2>1, <2>2 DEF DonesAddUp
  <2> QED
    BY <1>3, <2>1, <2>3
<1>5. CASE d = n + 1
  <2>1. F[d] = e /\ d - 1 = n /\ n \in 0 .. n
    BY <1>1, <1>5
  <2>2. Has(E, e.item, "added")
    BY <1>2, <2>1
  <2> QED
    BY <1>3, <2>1, <2>2
<1> QED
  BY <1>1, <1>4, <1>5

(* What the deltas of a text and of a call have in sum while they stream.  *)
TextSent(t, E) == t.announced => Sum(E, t.item) = t.text

ToolSent(t, E, late) ==
  t.announced =>
    /\ t.kind = "custom" => Sum(E, t.item) = t.decoded
    /\ t.kind = "function" => Sum(E, t.item) <= t.args /\ (Sum(E, t.item) < t.args => late)

(* All texts and the calls D are the sums of what was sent.                *)
Balanced(h, D, late) ==
  /\ DonesAddUp(h.events, late)
  /\ \A k \in TextKinds : TextSent(h.text[k], h.events)
  /\ \A i \in D : ToolSent(h.tools[i], h.events, late)

(* What was said of a call so far; a call with no name that has arguments  *)
(* is one that may have them unnamed.                                      *)
Placed(t, unnamed) ==
  /\ t.kind \in {"function", "custom"} => t.announced
  /\ t.kind = "custom" => t.emitted = t.decoded
  /\ ~t.announced => t.emitted = 0
  /\ t.kind = NoName => t.name = NoName /\ (t.args > 0 => unnamed)

Streaming(h, D, N) ==
  /\ \A k \in TextKinds : h.text[k].text > 0 => h.text[k].announced
  /\ \A i \in D : Placed(h.tools[i], i \in N)

Flows(h, D, N, late) == Balanced(h, D, late) /\ Streaming(h, D, N)

(* What a sum is of stays the same.                                        *)
SameText(t, u) == u.announced = t.announced /\ u.item = t.item /\ u.text = t.text

SameTool(t, u) ==
  /\ u.announced = t.announced /\ u.item = t.item /\ u.kind = t.kind /\ u.name = t.name
  /\ u.args = t.args /\ u.decoded = t.decoded /\ u.emitted = t.emitted

LEMMA MarkedSame ==
  ASSUME NEW t
  PROVE  /\ t \in Texts => SameText(t, Marked(t))
         /\ t \in Tools => SameTool(t, Marked(t))
<1>1. t \in Texts => SameText(t, Marked(t))
  BY DEF Texts, Marked, SameText
<1>2. t \in Tools => SameTool(t, Marked(t))
  BY DEF Tools, ToolRecords, Marked, SameTool
<1> QED
  BY <1>1, <1>2

(* An event e leads from h to h2 and is of no text and no call that is     *)
(* not in step with it.                                                    *)
Adds(h, h2, D, N, late, e) ==
  /\ e \in AnEvent /\ h.events \in Seq(AnEvent) /\ h2.events = Append(h.events, e)
  /\ \E apart : e.type = "added" => Story(h2.events, apart)
  /\ e.type = "done" /\ Has(h.events, e.item, "added") => AddsUp(Sum(h.events, e.item), e, late)
  /\ \A k \in TextKinds :
       \/ SameText(h.text[k], h2.text[k]) /\ (h.text[k].announced => Adding(e, h.text[k].item) = 0)
       \/ TextSent(h2.text[k], h2.events) /\ (h2.text[k].text > 0 => h2.text[k].announced)
  /\ \A i \in D : /\ SameTool(h.tools[i], h2.tools[i])
                  /\ h.tools[i].announced => Adding(e, h.tools[i].item) = 0

LEMMA FlowGrows ==
  ASSUME NEW h, NEW h2, NEW D, NEW N, NEW late \in BOOLEAN, NEW e, Adds(h, h2, D, N, late, e)
  PROVE  /\ Balanced(h, D, late) => Balanced(h2, D, late)
         /\ Streaming(h, D, N) => Streaming(h2, D, N)
<1> DEFINE E == h.events
           F == h2.events
<1>1. /\ e \in AnEvent /\ E \in Seq(AnEvent) /\ F = Append(E, e)
      /\ e.type = "done" /\ Has(E, e.item, "added") => AddsUp(Sum(E, e.item), e, late)
  BY DEF Adds
<1>2. \A x : Adding(e, x) = 0 => Sum(F, x) = Sum(E, x)
  <2> SUFFICES ASSUME NEW x, Adding(e, x) = 0 PROVE Sum(F, x) = Sum(E, x)
    OBVIOUS
  <2>1. Sum(E, x) \in Nat /\ Sum(Append(E, e), x) = Sum(E, x) + Adding(e, x)
    BY <1>1, SumGrows
  <2> QED
    BY <1>1, <2>1
<1>3. ASSUME NEW k \in TextKinds, TextSent(h.text[k], E) PROVE TextSent(h2.text[k], F)
  BY <1>2, <1>3 DEF Adds, SameText, TextSent
<1>4. ASSUME NEW i \in D, ToolSent(h.tools[i], E, late) PROVE ToolSent(h2.tools[i], F, late)
  <2>1. SameTool(h.tools[i], h2.tools[i]) /\ (h.tools[i].announced => Adding(e, h.tools[i].item) = 0)
    BY DEF Adds
  <2> QED
    BY <1>2, <1>4, <2>1 DEF SameTool, ToolSent
<1>5. ASSUME DonesAddUp(E, late) PROVE DonesAddUp(F, late)
  <2>1. PICK apart : e.type = "added" => Story(Append(E, e), apart)
    BY <1>1 DEF Adds
  <2> HIDE DEF E, F
  <2> QED
    BY <1>1, <1>5, <2>1, DonesGrow
<1>6. ASSUME NEW k \in TextKinds, h.text[k].text > 0 => h.text[k].announced
      PROVE  h2.text[k].text > 0 => h2.text[k].announced
  BY <1>6 DEF Adds, SameText
<1>7. ASSUME NEW i \in D, Placed(h.tools[i], i \in N) PROVE Placed(h2.tools[i], i \in N)
  <2>1. SameTool(h.tools[i], h2.tools[i])
    BY DEF Adds
  <2> QED
    BY <1>7, <2>1 DEF SameTool, Placed
<1>8. ASSUME Balanced(h, D, late) PROVE Balanced(h2, D, late)
  BY <1>3, <1>4, <1>5, <1>8 DEF Balanced
<1>9. ASSUME Streaming(h, D, N) PROVE Streaming(h2, D, N)
  BY <1>6, <1>7, <1>9 DEF Streaming
<1> QED
  BY <1>8, <1>9

(* Without an event, what is the same stays in step.                       *)
Stays(h, h2, D) ==
  /\ h2.events = h.events
  /\ \A k \in TextKinds : \/ SameText(h.text[k], h2.text[k])
                          \/ ~h2.text[k].announced /\ h2.text[k].text = 0
  /\ \A i \in D : SameTool(h.tools[i], h2.tools[i])

LEMMA FlowStays ==
  ASSUME NEW h, NEW h2, NEW D, NEW N, NEW late \in BOOLEAN, Stays(h, h2, D)
  PROVE  /\ Balanced(h, D, late) => Balanced(h2, D, late)
         /\ Streaming(h, D, N) => Streaming(h2, D, N)
<1>1. ASSUME Balanced(h, D, late) PROVE Balanced(h2, D, late)
  <2>1. DonesAddUp(h2.events, late)
    BY <1>1 DEF Balanced, Stays
  <2>2. \A k \in TextKinds : TextSent(h2.text[k], h2.events)
    BY <1>1 DEF Balanced, Stays, SameText, TextSent
  <2>3. \A i \in D : ToolSent(h2.tools[i], h2.events, late)
    BY <1>1 DEF Balanced, Stays, SameTool, ToolSent
  <2> QED
    BY <2>1, <2>2, <2>3 DEF Balanced
<1>2. ASSUME Streaming(h, D, N) PROVE Streaming(h2, D, N)
  <2>1. \A k \in TextKinds : h2.text[k].text > 0 => h2.text[k].announced
    BY <1>2 DEF Streaming, Stays, SameText
  <2>2. \A i \in D : Placed(h2.tools[i], i \in N)
    BY <1>2 DEF Streaming, Stays, SameTool, Placed
  <2> QED
    BY <2>1, <2>2 DEF Streaming
<1> QED
  BY <1>1, <1>2

(* Only a delta adds to a sum.                                             *)
LEMMA OnlyDeltasAdd ==
  ASSUME NEW E \in Seq(AnEvent), NEW e \in AnEvent, e.type # "delta"
  PROVE  \A x : Adding(e, x) = 0 /\ Sum(Append(E, e), x) = Sum(E, x)
<1> SUFFICES ASSUME NEW x PROVE Adding(e, x) = 0 /\ Sum(Append(E, e), x) = Sum(E, x)
  OBVIOUS
<1>1. Adding(e, x) = 0
  BY DEF Adding
<1>2. Sum(E, x) \in Nat /\ Sum(Append(E, e), x) = Sum(E, x) + Adding(e, x)
  BY SumGrows
<1> QED
  BY <1>1, <1>2

(* What a done event says of a call, and of a text, is what was sent.      *)
LEMMA DoneToolAddsUp ==
  ASSUME NEW t \in Tools, NEW E \in Seq(AnEvent), NEW late \in BOOLEAN, NEW e \in AnEvent, t.announced,
         ToolSent(t, E, late), e.n = Content(t).n, e.form = Content(t).form
  PROVE  AddsUp(Sum(E, t.item), e, late)
<1> DEFINE sum == Sum(E, t.item)
<1>1. t.kind \in {"function", "custom"} /\ t.args \in Nat /\ t.decoded \in Nat
  BY DEF Tools, ToolRecords
<1>2. sum \in Nat
  BY SumGrows
<1>3. CASE t.kind = "custom"
  <2>1. sum = t.decoded
    BY <1>3 DEF ToolSent
  <2>2. /\ e.n \in Nat /\ e.form \in {"input", "other", "paired", "raw"}
        /\ e.form = "input" => e.n = t.decoded
        /\ e.form = "other" => t.decoded = 0
        /\ e.form = "raw" => t.decoded < e.n
    BY <1>3, ContentIs
  <2> HIDE DEF sum
  <2>3. AddsUp(sum, e, late)
    BY <2>1, <2>2 DEF AddsUp
  <2> QED
    BY <2>3 DEF sum
<1>4. CASE t.kind = "function"
  <2>1. sum <= t.args /\ (sum < t.args => late)
    BY <1>4 DEF ToolSent
  <2>2. /\ e.n \in Nat /\ e.form \in {"object", "arguments"}
        /\ e.form = "object" => t.args = 0
        /\ e.form = "arguments" => e.n = t.args
    BY <1>4, ContentIs
  <2> HIDE DEF sum
  <2>3. AddsUp(sum, e, late)
    BY <1>1, <1>2, <2>1, <2>2 DEF AddsUp
  <2> QED
    BY <2>3 DEF sum
<1> QED
  BY <1>1, <1>3, <1>4

LEMMA DoneTextAddsUp ==
  ASSUME NEW t, NEW E, NEW late, NEW e, t.announced, TextSent(t, E), e.n = t.text, e.form = "text"
  PROVE  AddsUp(Sum(E, t.item), e, late)
BY DEF TextSent, AddsUp

LEMMA FinishFlows ==
  ASSUME NEW h, NEW apart \in BOOLEAN, NEW late \in BOOLEAN, Live(h, apart),
         NEW D \in SUBSET DOMAIN h.tools, NEW N, h.activeKind = "tool" => h.activeTool \in D,
         Balanced(h, D, late)
  PROVE  LET f == FinishActiveItem(h) IN
         /\ Balanced(f, D, late)
         /\ Streaming(h, D, N) => Streaming(f, D, N)
         /\ \A x : Sum(f.events, x) = Sum(h.events, x)
         /\ DOMAIN f.tools = DOMAIN h.tools
<1> DEFINE f == FinishActiveItem(h)
           E == h.events
<1>1. /\ h \in Generations /\ E \in Seq(AnEvent) /\ h.lastID \in Int /\ h.lastID <= 0
      /\ \A k \in TextKinds : h.text[k] \in Texts
      /\ \A i \in DOMAIN h.tools : h.tools[i] \in Tools
      /\ h.tools \in ToolMaps /\ DOMAIN h.tools \subseteq Nat /\ DOMAIN h.text = TextKinds
      /\ Active(h)
  BY Parts DEF Live, Told
<1>2. Story(f.events, apart)
  <2>1. Live(f, apart)
    BY FinishLive
  <2> QED
    BY <2>1 DEF Live, Told
<1>3. CASE h.activeKind \in TextKinds /\ h.text[h.activeKind].announced /\ ~h.text[h.activeKind].done
  <2> DEFINE k == h.activeKind
             t == h.text[k]
             e == An("done", t.item, NoIndex, NoID, t.text)
  <2>1. /\ e \in AnEvent /\ f.text = [h.text EXCEPT ![k] = Marked(t)] /\ f.tools = h.tools
        /\ f.events = Append(E, e)
    BY <1>1, <1>3, FinishTextIs
  <2>2. e.type = "done" /\ e.item = t.item /\ e.n = t.text /\ e.form = "text"
    BY DEF An, AnOf
  <2>3. t \in Texts /\ t.announced /\ TextSent(t, E)
    BY <1>1, <1>3 DEF Balanced
  <2> HIDE DEF e, f
  <2>4. AddsUp(Sum(E, e.item), e, late)
    BY <2>2, <2>3, DoneTextAddsUp
  <2>5. \A x : Adding(e, x) = 0 /\ Sum(f.events, x) = Sum(E, x)
    BY <1>1, <2>1, <2>2, OnlyDeltasAdd
  <2>6. \A m \in TextKinds : SameText(h.text[m], f.text[m])
    <3>1. SameText(t, Marked(t))
      BY <2>3, MarkedSame
    <3>2. ASSUME NEW m \in TextKinds PROVE SameText(h.text[m], f.text[m])
      <4>1. CASE m = k
        BY <1>1, <1>3, <2>1, <3>1, <4>1
      <4>2. CASE m # k
        <5>1. f.text[m] = h.text[m]
          BY <1>1, <2>1, <4>2
        <5> QED
          BY <5>1 DEF SameText
      <4> QED
        BY <4>1, <4>2
    <3> QED
      BY <3>2
  <2>7. \A i \in D : SameTool(h.tools[i], f.tools[i])
    BY <2>1 DEF SameTool
  <2>8. Adds(h, f, D, N, late, e)
    BY <1>1, <1>2, <2>1, <2>4, <2>5, <2>6, <2>7 DEF Adds
  <2>9. Balanced(f, D, late) /\ (Streaming(h, D, N) => Streaming(f, D, N))
    BY <2>8, FlowGrows
  <2> QED
    BY <2>1, <2>5, <2>9 DEF f
<1>4. CASE /\ h.activeKind = "tool" /\ h.activeTool \in DOMAIN h.tools
           /\ h.tools[h.activeTool].announced /\ ~h.tools[h.activeTool].done
  <2> DEFINE i == h.activeTool
             t == h.tools[i]
  <2>1. PICK e \in AnEvent :
             /\ e.type = "done" /\ e.item = t.item /\ e.callID = t.id
             /\ e.n = Content(t).n /\ e.form = Content(t).form
             /\ f.tools = SetTo(h.tools, i, Marked(t))
             /\ f.text = h.text
             /\ f.events = Append(E, e)
    BY <1>1, <1>4, FinishToolIs
  <2> HIDE DEF f
  <2>2. t \in Tools /\ t.announced /\ ToolSent(t, E, late) /\ i \in DOMAIN h.tools
    BY <1>1, <1>4 DEF Balanced
  <2>3. AddsUp(Sum(E, e.item), e, late)
    <3>1. AddsUp(Sum(E, t.item), e, late)
      <4> HIDE DEF t
      <4> QED
        BY <1>1, <2>1, <2>2, DoneToolAddsUp
    <3> QED
      BY <2>1, <3>1
  <2>4. \A x : Adding(e, x) = 0 /\ Sum(f.events, x) = Sum(E, x)
    BY <1>1, <2>1, OnlyDeltasAdd
  <2>5. \A m \in TextKinds : SameText(h.text[m], f.text[m])
    BY <2>1 DEF SameText
  <2>6. /\ DOMAIN f.tools = DOMAIN h.tools /\ f.tools[i] = Marked(t)
        /\ \A j \in DOMAIN h.tools : j # i => f.tools[j] = h.tools[j]
    <3>1. DOMAIN h.tools \union {i} = DOMAIN h.tools
      BY <2>2
    <3> QED
      BY <2>1, <2>2, <3>1 DEF SetTo
  <2>7. \A j \in D : SameTool(h.tools[j], f.tools[j])
    <3>1. SameTool(t, Marked(t))
      BY <2>2, MarkedSame
    <3>2. ASSUME NEW j \in D PROVE SameTool(h.tools[j], f.tools[j])
      <4>1. CASE j = i
        BY <2>6, <3>1, <4>1
      <4>2. CASE j # i
        <5>1. f.tools[j] = h.tools[j]
          BY <2>6, <4>2
        <5> QED
          BY <5>1 DEF SameTool
      <4> QED
        BY <4>1, <4>2
    <3> QED
      BY <3>2
  <2>8. Adds(h, f, D, N, late, e)
    BY <1>1, <1>2, <2>1, <2>3, <2>4, <2>5, <2>7 DEF Adds
  <2>9. Balanced(f, D, late) /\ (Streaming(h, D, N) => Streaming(f, D, N))
    BY <2>8, FlowGrows
  <2> QED
    BY <2>4, <2>6, <2>9 DEF f
<1>5. CASE ~(h.activeKind \in TextKinds /\ h.text[h.activeKind].announced /\ ~h.text[h.activeKind].done)
           /\ ~(h.activeKind = "tool" /\ h.activeTool \in DOMAIN h.tools
                /\ h.tools[h.activeTool].announced /\ ~h.tools[h.activeTool].done)
  <2>1. f.text = h.text /\ f.tools = h.tools /\ f.events = h.events
    BY <1>1, <1>5, FinishNothingIs
  <2> HIDE DEF f
  <2>2. Stays(h, f, D)
    BY <2>1 DEF Stays, SameText, SameTool
  <2>3. Balanced(f, D, late) /\ (Streaming(h, D, N) => Streaming(f, D, N))
    BY <2>2, FlowStays
  <2> QED
    BY <2>1, <2>3 DEF f
<1> QED
  BY <1>3, <1>4, <1>5

LEMMA RenewedFlows ==
  ASSUME NEW h, NEW apart \in BOOLEAN, NEW late \in BOOLEAN, NEW k \in TextKinds, Live(h, apart),
         NEW D, NEW N, Flows(h, D, N, late)
  PROVE  LET r == Renewed(h, k) IN
         /\ Flows(r, D, N, late) /\ r.events = h.events /\ r.tools = h.tools
         /\ r.activeKind = h.activeKind /\ r.activeTool = h.activeTool
<1> DEFINE r == Renewed(h, k)
           new == NewText(h.lastID - 1)
<1>1. h \in Generations /\ DOMAIN h.text = TextKinds /\ h.lastID \in Int
  BY Parts DEF Live
<1>2. CASE ~NeedsNewItem(h.text[k])
  BY <1>2 DEF Renewed
<1>3. CASE NeedsNewItem(h.text[k])
  <2>1. r = [h EXCEPT !.text = [h.text EXCEPT ![k] = new], !.lastID = h.lastID - 1]
    BY <1>1, <1>3 DEF Renewed, Generations
  <2>2. ~new.announced /\ new.text = 0
    BY <1>1, TextsMade
  <2> HIDE DEF new, r
  <2>3. /\ r.text = [h.text EXCEPT ![k] = new] /\ r.events = h.events /\ r.tools = h.tools
        /\ r.activeKind = h.activeKind /\ r.activeTool = h.activeTool
    BY <1>1, <2>1 DEF Generations
  <2>4. \A m \in TextKinds : \/ SameText(h.text[m], r.text[m])
                             \/ ~r.text[m].announced /\ r.text[m].text = 0
    <3> SUFFICES ASSUME NEW m \in TextKinds, m # k PROVE SameText(h.text[m], r.text[m])
      BY <1>1, <2>2, <2>3
    <3>1. r.text[m] = h.text[m]
      BY <1>1, <2>3
    <3> QED
      BY <3>1 DEF SameText
  <2>5. Stays(h, r, D)
    BY <2>3, <2>4 DEF Stays, SameTool
  <2>6. Flows(r, D, N, late)
    BY <2>5, FlowStays DEF Flows
  <2> QED
    BY <2>3, <2>6 DEF r
<1> QED
  BY <1>2, <1>3

LEMMA EnsureTextFlows ==
  ASSUME NEW h, NEW apart \in BOOLEAN, NEW late \in BOOLEAN, NEW k \in TextKinds, Live(h, apart),
         NEW N, Flows(h, DOMAIN h.tools, N, late)
  PROVE  LET x == EnsureTextActive(h, k) IN
         Flows(x, DOMAIN x.tools, N, late)
<1> DEFINE D == DOMAIN h.tools
           r == Renewed(h, k)
           f == FinishActiveItem(r)
           x == EnsureTextActive(h, k)
<1>1. /\ Flows(r, D, N, late) /\ r.events = h.events /\ r.tools = h.tools
      /\ r.activeKind = h.activeKind /\ r.activeTool = h.activeTool
  BY RenewedFlows
<1>2. Live(r, apart) /\ r.text[k].item # NoItem /\ ~r.text[k].done
  BY RenewedLive
<1>3. /\ OpenText(x, k, apart)
      /\ r.text[k].announced => x = r
      /\ ~r.text[k].announced => \E e \in AnEvent : Opens(f, x, k, e)
  BY EnsureTextOpen
<1>4. r.activeKind = "tool" => r.activeTool \in D
  BY <1>1 DEF Live, Active
<1> HIDE DEF x, r
<1>5. CASE r.text[k].announced
  BY <1>1, <1>3, <1>5 DEF x
<1>6. CASE ~r.text[k].announced
  <2>1. PICK e \in AnEvent : Opens(f, x, k, e)
    BY <1>3, <1>6
  <2>2. DOMAIN r.tools = D
    BY <1>1
  <2>3. Flows(f, D, N, late) /\ DOMAIN f.tools = DOMAIN r.tools
    <3>1. Balanced(r, D, late) /\ Streaming(r, D, N)
      BY <1>1 DEF Flows
    <3>2. /\ Balanced(f, D, late)
          /\ Streaming(r, D, N) => Streaming(f, D, N)
          /\ DOMAIN f.tools = DOMAIN r.tools
      BY <1>2, <1>4, <2>2, <3>1, FinishFlows
    <3> QED
      BY <3>1, <3>2 DEF Flows
  <2>4. Live(f, apart) /\ f.text[k] = r.text[k]
    BY <1>2, <1>6, FinishLive
  <2> HIDE DEF f
  <2>5. /\ e.type = "added" /\ e.item = f.text[k].item
        /\ x.events = Append(f.events, e) /\ x.tools = f.tools
        /\ x.text[k].item = f.text[k].item /\ x.text[k].text = f.text[k].text
        /\ \A m \in TextKinds : m # k => x.text[m] = f.text[m]
    BY <2>1 DEF Opens
  <2>6. f.events \in Seq(AnEvent) /\ f.text[k] \in Texts
    BY <2>4, Parts DEF Live
  <2>7. \A y : Adding(e, y) = 0 /\ Sum(x.events, y) = Sum(f.events, y)
    BY <2>5, <2>6, OnlyDeltasAdd
  <2>8. Unmentioned(f.events, f.text[k].item)
    BY <1>2, <1>6, <2>4 DEF Live, Told, TextTold
  <2>9. f.text[k].text = 0
    BY <1>6, <2>3, <2>4, <2>6 DEF Flows, Streaming, Texts
  <2>10. Sum(x.events, x.text[k].item) = 0
    BY <2>5, <2>6, <2>7, <2>8, NothingToSum
  <2>11. \A m \in TextKinds :
           \/ SameText(f.text[m], x.text[m]) /\ (f.text[m].announced => Adding(e, f.text[m].item) = 0)
           \/ TextSent(x.text[m], x.events) /\ (x.text[m].text > 0 => x.text[m].announced)
    <3>1. TextSent(x.text[k], x.events) /\ ~(x.text[k].text > 0)
      BY <2>5, <2>9, <2>10 DEF TextSent
    <3>2. \A m \in TextKinds : m # k => SameText(f.text[m], x.text[m])
      BY <2>5 DEF SameText
    <3> QED
      BY <2>7, <3>1, <3>2
  <2>12. Story(x.events, apart)
    BY <1>3 DEF OpenText, Told
  <2>13. Adds(f, x, D, N, late, e)
    BY <2>5, <2>6, <2>7, <2>11, <2>12 DEF Adds, SameTool
  <2>14. Flows(x, D, N, late)
    BY <2>3, <2>13, FlowGrows DEF Flows
  <2> QED
    BY <2>2, <2>3, <2>5, <2>14 DEF x
<1> QED
  BY <1>5, <1>6

LEMMA TextDeltaFlows ==
  ASSUME NEW h, NEW apart \in BOOLEAN, NEW late \in BOOLEAN, NEW k \in TextKinds, Live(h, apart),
         NEW N, Flows(h, DOMAIN h.tools, N, late)
  PROVE  LET y == TextDelta(h, k) IN
         Flows(y, DOMAIN y.tools, N, late)
<1> DEFINE x == EnsureTextActive(h, k)
           y == TextDelta(h, k)
           D == DOMAIN x.tools
<1>1. Flows(x, D, N, late)
  BY EnsureTextFlows
<1>2. OpenText(x, k, apart)
  BY EnsureTextOpen
<1>3. Live(y, apart) /\ \E e \in AnEvent : Lengthens(x, y, k, e)
  BY TextDeltaLive
<1> HIDE DEF x, y
<1>4. PICK e \in AnEvent : Lengthens(x, y, k, e)
  BY <1>3
<1>5. /\ e.type = "delta" /\ e.item = x.text[k].item /\ e.n = 1
      /\ y.events = Append(x.events, e) /\ y.tools = x.tools
      /\ y.text[k] = Longer(x.text[k]) /\ \A m \in TextKinds : m # k => y.text[m] = x.text[m]
  BY <1>4 DEF Lengthens
<1>6. /\ x \in Generations /\ x.events \in Seq(AnEvent) /\ x.text[k] \in Texts
      /\ x.text[k].item # NoItem /\ x.text[k].announced /\ x.text[k].text \in Nat
      /\ Distinct(x, TextKinds, D)
  BY <1>2, Parts DEF OpenText, Told, Texts
<1>7. TextSent(y.text[k], y.events) /\ y.text[k].announced
  <2>1. /\ y.text[k].item = x.text[k].item /\ y.text[k].announced = x.text[k].announced
        /\ y.text[k].text = x.text[k].text + 1
    <3>1. \A t \in Texts : t.item # NoItem =>
            Longer(t).item = t.item /\ Longer(t).announced = t.announced /\ Longer(t).text = t.text + 1
      BY TextsMade
    <3>2. /\ Longer(x.text[k]).item = x.text[k].item /\ Longer(x.text[k]).announced = x.text[k].announced
          /\ Longer(x.text[k]).text = x.text[k].text + 1
      BY <1>6, <3>1
    <3> QED
      BY <1>5, <3>2
  <2>2. Sum(x.events, x.text[k].item) = x.text[k].text
    BY <1>1, <1>6 DEF Flows, Balanced, TextSent
  <2>3. Sum(y.events, x.text[k].item) = Sum(x.events, x.text[k].item) + Adding(e, x.text[k].item)
    BY <1>5, <1>6, SumGrows
  <2>4. Adding(e, x.text[k].item) = 1
    BY <1>5 DEF Adding
  <2> QED
    BY <1>6, <2>1, <2>2, <2>3, <2>4 DEF TextSent
<1>8. \A m \in TextKinds : m # k => SameText(x.text[m], y.text[m]) /\ Adding(e, x.text[m].item) = 0
  <2> SUFFICES ASSUME NEW m \in TextKinds, m # k
               PROVE  SameText(x.text[m], y.text[m]) /\ Adding(e, x.text[m].item) = 0
    OBVIOUS
  <2>1. e.item # x.text[m].item
    BY <1>5, <1>6 DEF Distinct
  <2> QED
    BY <1>5, <2>1 DEF SameText, Adding
<1>9. \A i \in D : SameTool(x.tools[i], y.tools[i]) /\ Adding(e, x.tools[i].item) = 0
  <2> SUFFICES ASSUME NEW i \in D PROVE SameTool(x.tools[i], y.tools[i]) /\ Adding(e, x.tools[i].item) = 0
    OBVIOUS
  <2>1. e.item # x.tools[i].item
    BY <1>5, <1>6 DEF Distinct
  <2> QED
    BY <1>5, <2>1 DEF SameTool, Adding
<1>10. Story(y.events, apart)
  BY <1>3 DEF Live, Told
<1>11. Adds(x, y, D, N, late, e)
  BY <1>5, <1>6, <1>7, <1>8, <1>9, <1>10 DEF Adds
<1>12. Flows(y, D, N, late)
  BY <1>1, <1>11, FlowGrows DEF Flows
<1> QED
  BY <1>5, <1>12 DEF y

(* Only text is ended when a call becomes active.                          *)
LEMMA EnsureToolFlows ==
  ASSUME NEW h, NEW apart \in BOOLEAN, NEW late \in BOOLEAN, NEW i \in DOMAIN h.tools, Live(h, apart),
         NEW D \in SUBSET DOMAIN h.tools, NEW N, Flows(h, D, N, late)
  PROVE  LET x == EnsureToolActive(h, i) IN
         /\ Flows(x, D, N, late)
         /\ \A y : Sum(x.events, y) = Sum(h.events, y)
<1> DEFINE f == IF h.activeKind = "tool" THEN h ELSE FinishActiveItem(h)
           x == EnsureToolActive(h, i)
<1>1. Flows(f, D, N, late) /\ \A y : Sum(f.events, y) = Sum(h.events, y)
  <2>1. CASE h.activeKind = "tool"
    BY <2>1
  <2>2. CASE h.activeKind # "tool"
    <3> DEFINE a == FinishActiveItem(h)
    <3>1. Balanced(h, D, late) /\ Streaming(h, D, N)
      BY DEF Flows
    <3>2. /\ Balanced(a, D, late)
          /\ Streaming(h, D, N) => Streaming(a, D, N)
          /\ \A y : Sum(a.events, y) = Sum(h.events, y)
      BY <2>2, <3>1, FinishFlows
    <3>3. f = a
      BY <2>2
    <3> HIDE DEF a, f
    <3> QED
      BY <3>1, <3>2, <3>3 DEF Flows
  <2> QED
    BY <2>1, <2>2
<1>2. f \in Generations
  <2>1. Live(f, apart)
    BY FinishLive
  <2> QED
    BY <2>1 DEF Live
<1>3. x = [f EXCEPT !.activeKind = "tool", !.activeTool = i]
  BY DEF EnsureToolActive
<1> HIDE DEF f, x
<1>4. x.text = f.text /\ x.tools = f.tools /\ x.events = f.events
  BY <1>2, <1>3 DEF Generations
<1>5. Stays(f, x, D)
  BY <1>4 DEF Stays, SameText, SameTool
<1>6. Flows(x, D, N, late)
  BY <1>1, <1>5, FlowStays DEF Flows
<1> QED
  BY <1>1, <1>4, <1>6 DEF x

(* The calls but one.                                                      *)
Others(D, h, i) == D = DOMAIN h.tools \ {i}

(* What was sent of a call.                                                *)
SentOf(h, i) == IF h.tools[i].announced THEN Sum(h.events, h.tools[i].item) ELSE 0

LEMMA AnnounceFlows ==
  ASSUME NEW h, NEW apart \in BOOLEAN, NEW late \in BOOLEAN, Live(h, apart), NEW i \in DOMAIN h.tools,
         h.tools[i].kind \in {"function", "custom"},
         NEW D, Others(D, h, i), NEW N, Flows(h, D, N, late)
  PROVE  LET x == AnnounceTool(h, i) IN
         /\ Flows(x, D, N, late) /\ DOMAIN x.tools = DOMAIN h.tools
         /\ x.tools[i].announced /\ SentOf(x, i) = SentOf(h, i)
         /\ x.tools[i].kind = h.tools[i].kind /\ x.tools[i].args = h.tools[i].args
         /\ x.tools[i].emitted = h.tools[i].emitted /\ x.tools[i].decoded = h.tools[i].decoded
<1> DEFINE x == AnnounceTool(h, i)
<1>1. /\ Live(x, apart) /\ x.tools[i].announced
      /\ x.tools[i].decoded = h.tools[i].decoded
      /\ h.tools[i].announced => x = h
      /\ ~h.tools[i].announced => \E e \in AnEvent : Announces(h, x, i, e)
  BY AnnounceLive
<1> HIDE DEF x
<1>2. CASE h.tools[i].announced
  BY <1>1, <1>2 DEF x
<1>3. CASE ~h.tools[i].announced
  <2>1. PICK e \in AnEvent : Announces(h, x, i, e)
    BY <1>1, <1>3
  <2>2. /\ e.type = "added" /\ e.item = x.tools[i].item /\ Unmentioned(h.events, e.item)
        /\ x.events = Append(h.events, e) /\ x.text = h.text
        /\ DOMAIN x.tools = DOMAIN h.tools /\ \A j \in DOMAIN h.tools : j # i => x.tools[j] = h.tools[j]
        /\ x.tools[i].kind = h.tools[i].kind
        /\ x.tools[i].args = h.tools[i].args /\ x.tools[i].emitted = h.tools[i].emitted
    BY <2>1 DEF Announces
  <2>3. h.events \in Seq(AnEvent)
    BY Parts DEF Live
  <2>4. \A y : Adding(e, y) = 0 /\ Sum(x.events, y) = Sum(h.events, y)
    BY <2>2, <2>3, OnlyDeltasAdd
  <2>5. Sum(h.events, e.item) = 0
    BY <2>2, <2>3, NothingToSum
  <2>6. Story(x.events, apart)
    BY <1>1 DEF Live, Told
  <2>7. Adds(h, x, D, N, late, e)
    BY <2>2, <2>3, <2>4, <2>6 DEF Adds, SameText, SameTool, Others
  <2>8. Flows(x, D, N, late)
    <3>1. Balanced(h, D, late) /\ Streaming(h, D, N)
      BY DEF Flows
    <3>2. /\ Balanced(h, D, late) => Balanced(x, D, late)
          /\ Streaming(h, D, N) => Streaming(x, D, N)
      BY <2>7, FlowGrows
    <3> QED
      BY <3>1, <3>2 DEF Flows
  <2>9. SentOf(x, i) = SentOf(h, i)
    BY <1>1, <1>3, <2>2, <2>4, <2>5 DEF SentOf
  <2> QED
    BY <1>1, <2>2, <2>8, <2>9 DEF x
<1> QED
  BY <1>2, <1>3

LEMMA ToolDeltaFlows ==
  ASSUME NEW h, NEW apart \in BOOLEAN, NEW late \in BOOLEAN, Live(h, apart), NEW i \in DOMAIN h.tools,
         h.tools[i].announced, NEW n \in Nat,
         NEW D, Others(D, h, i), NEW N, Flows(h, D, N, late)
  PROVE  LET x == ToolDelta(h, i, n) IN
         Flows(x, D, N, late) /\ x.tools = h.tools /\ SentOf(x, i) = SentOf(h, i) + n
<1> DEFINE x == ToolDelta(h, i, n)
           t == h.tools[i]
<1>1. /\ Live(x, apart) /\ x.tools = h.tools /\ x.text = h.text
      /\ n = 0 => x = h
      /\ n # 0 => \E e \in AnEvent :
           /\ e.type = "delta" /\ e.item = h.tools[i].item /\ e.n = n
           /\ x.events = Append(h.events, e)
  BY ToolDeltaLive
<1>2. /\ h.events \in Seq(AnEvent) /\ t \in Tools /\ Distinct(h, TextKinds, DOMAIN h.tools)
  BY Parts DEF Live, Told
<1>3. t.item # NoItem
  BY <1>2 DEF Tools, ToolRecords
<1>4. Sum(h.events, t.item) \in Nat
  <2>1. \A e \in AnEvent : \A y : Sum(h.events, y) \in Nat
    BY <1>2, SumGrows
  <2>2. An("done", 0, NoIndex, NoID, 0) \in AnEvent
    BY DEF An, AnOf, AnEvent, Forms, EventTypes, ItemTypes, NoID
  <2> QED
    BY <2>1, <2>2
<1> HIDE DEF x
<1>5. CASE n = 0
  BY <1>1, <1>4, <1>5 DEF SentOf, x
<1>6. CASE n # 0
  <2>1. PICK e \in AnEvent :
          /\ e.type = "delta" /\ e.item = t.item /\ e.n = n
          /\ x.events = Append(h.events, e)
    BY <1>1, <1>6
  <2>2. \A k \in TextKinds : SameText(h.text[k], x.text[k]) /\ Adding(e, h.text[k].item) = 0
    <3> SUFFICES ASSUME NEW k \in TextKinds PROVE SameText(h.text[k], x.text[k]) /\ Adding(e, h.text[k].item) = 0
      OBVIOUS
    <3>1. e.item # h.text[k].item
      BY <1>2, <1>3, <2>1 DEF Distinct
    <3> QED
      BY <1>1, <3>1 DEF SameText, Adding
  <2>3. \A j \in D : SameTool(h.tools[j], x.tools[j]) /\ Adding(e, h.tools[j].item) = 0
    <3> SUFFICES ASSUME NEW j \in D PROVE SameTool(h.tools[j], x.tools[j]) /\ Adding(e, h.tools[j].item) = 0
      OBVIOUS
    <3>1. e.item # h.tools[j].item
      BY <1>2, <1>3, <2>1 DEF Distinct, Others
    <3> QED
      BY <1>1, <3>1 DEF SameTool, Adding
  <2>4. Story(x.events, apart)
    BY <1>1 DEF Live, Told
  <2>5. Adds(h, x, D, N, late, e)
    BY <1>2, <2>1, <2>2, <2>3, <2>4 DEF Adds
  <2>6. Flows(x, D, N, late)
    BY <2>5, FlowGrows DEF Flows
  <2>7. SentOf(x, i) = SentOf(h, i) + n
    <3>1. Sum(x.events, t.item) = Sum(h.events, t.item) + Adding(e, t.item)
      BY <1>2, <2>1, SumGrows
    <3>2. Adding(e, t.item) = n
      BY <2>1 DEF Adding
    <3> QED
      BY <1>1, <3>1, <3>2 DEF SentOf
  <2> QED
    BY <1>1, <2>6, <2>7 DEF x
<1> QED
  BY <1>5, <1>6

(* A call set to what it was, but for what is said of its kind and of what *)
(* was sent, leaves the others in step.                                    *)
LEMMA SetFlows ==
  ASSUME NEW h \in Generations, NEW i \in Nat, NEW t \in Tools, NEW late \in BOOLEAN,
         NEW D, Others(D, h, i), NEW N, Flows(h, D, N, late)
  PROVE  LET x == WithTool(h, i, t) IN
         /\ Flows(x, D, N, late) /\ x.events = h.events /\ DOMAIN x.tools = DOMAIN h.tools \union {i}
         /\ x.tools[i] = t
<1> DEFINE x == WithTool(h, i, t)
<1>1. x = [h EXCEPT !.tools = SetTo(h.tools, i, t)]
  BY DEF WithTool, SetTo
<1>2. h.tools \in ToolMaps
  BY Parts
<1> HIDE DEF x
<1>3. x.text = h.text /\ x.events = h.events /\ x.tools = SetTo(h.tools, i, t)
  BY <1>1 DEF Generations
<1>4. /\ DOMAIN x.tools = DOMAIN h.tools \union {i} /\ x.tools[i] = t
      /\ \A j \in DOMAIN h.tools : j # i => x.tools[j] = h.tools[j]
  <2> DEFINE m == SetTo(h.tools, i, t)
  <2>1. /\ DOMAIN m = DOMAIN h.tools \union {i} /\ m[i] = t
        /\ \A j \in DOMAIN h.tools : j # i => m[j] = h.tools[j]
    BY <1>2, SetToIs
  <2> HIDE DEF m
  <2>2. x.tools = m
    BY <1>3 DEF m
  <2> QED
    BY <2>1, <2>2
<1>5. \A j \in D : x.tools[j] = h.tools[j]
  BY <1>4 DEF Others
<1>6. Stays(h, x, D)
  BY <1>3, <1>5 DEF Stays, SameText, SameTool
<1>7. Flows(x, D, N, late)
  BY <1>6, FlowStays DEF Flows
<1> QED
  BY <1>3, <1>4, <1>7 DEF x

(* All calls are in step when one is, and the others are.                  *)
InStep(h, i, N, late) == ToolSent(h.tools[i], h.events, late) /\ Placed(h.tools[i], i \in N)

LEMMA AllInStep ==
  ASSUME NEW h, NEW i \in DOMAIN h.tools, NEW N, NEW late \in BOOLEAN, NEW D, Others(D, h, i),
         Flows(h, D, N, late), InStep(h, i, N, late)
  PROVE  Flows(h, DOMAIN h.tools, N, late)
<1>1. \A j \in DOMAIN h.tools : j = i \/ j \in D
  BY DEF Others
<1>2. \A j \in DOMAIN h.tools : ToolSent(h.tools[j], h.events, late)
  BY <1>1 DEF Flows, Balanced, InStep
<1>3. \A j \in DOMAIN h.tools : Placed(h.tools[j], j \in N)
  <2>1. Placed(h.tools[i], i \in N)
    BY DEF InStep
  <2>2. \A j \in D : Placed(h.tools[j], j \in N)
    BY DEF Flows, Streaming
  <2> QED
    BY <1>1, <2>1, <2>2
<1> QED
  BY <1>2, <1>3 DEF Flows, Balanced, Streaming

(* How many a fragment adds to the arguments of a call.                    *)
Count(fragment) == IF fragment = "none" THEN 0 ELSE 1

NewKind(t) == IF t.kind = NoName /\ t.name # NoName THEN Kind[t.name] ELSE t.kind

(* What was sent of a call when it took a fragment that is yet to be sent. *)
Ready(t, sent, n, unnamed, late) ==
  /\ NewKind(t) = "custom" => sent = t.emitted
  /\ NewKind(t) = "function" => sent + n <= t.args /\ (sent + n < t.args => late)
  /\ NewKind(t) \notin {"function", "custom"} => ~t.announced
  /\ ~t.announced => t.emitted = 0
  /\ NewKind(t) = NoName => t.name = NoName /\ (t.args > 0 => unnamed)

LEMMA EmitCallFlows ==
  ASSUME NEW h, NEW apart \in BOOLEAN, NEW late \in BOOLEAN, Live(h, apart), NEW i \in DOMAIN h.tools, NEW fragment,
         NEW D, Others(D, h, i), NEW N, Flows(h, D, N, late),
         Ready(h.tools[i], SentOf(h, i), Count(fragment), i \in N, late)
  PROVE  LET x == EmitToolCallDelta(h, i, fragment) IN
         Flows(x, DOMAIN x.tools, N, late)
<1> DEFINE t == h.tools[i]
           kind == NewKind(t)
           k == OfKind(t, kind)
           g1 == WithTool(h, i, k)
           ensured == EnsureToolActive(g1, i)
           g2 == AnnounceTool(ensured, i)
           s == AllSent(g2.tools[i])
           g3 == WithTool(g2, i, s)
           sent == SentOf(h, i)
           n == Count(fragment)
           x == EmitToolCallDelta(h, i, fragment)
<1>1. h \in Generations /\ t \in Tools /\ i \in Nat /\ D \in SUBSET DOMAIN h.tools
  BY Parts DEF Live, Others
<1>2. kind \in Kinds \union {NoName} /\ (t.announced => kind = t.kind)
  <2>1. t.kind \in Kinds \union {NoName} /\ t.name \in Names \union {NoName}
        /\ (t.announced => t.kind \in {"function", "custom"})
    BY <1>1 DEF Tools, ToolRecords
  <2>2. NoName \notin {"function", "custom"}
    BY DEF NoName
  <2> QED
    BY <2>1, <2>2, GenerationAssumption DEF NewKind
<1>3. x = CASE kind = "function" -> ToolDelta(g2, i, n)
            [] kind = "custom" -> ToolDelta(WithTool(g2, i, [g2.tools[i] EXCEPT !.emitted = t.decoded]), i, NewInput(t))
            [] OTHER -> g1
  BY DEF EmitToolCallDelta, OfKind, NewKind, Count
<1>a. Ready(t, sent, n, i \in N, late)
  OBVIOUS
<1>b. n \in Nat
  BY DEF Count
<1> HIDE DEF kind, n, sent
<1>4. /\ k \in Tools /\ k.item = t.item /\ k.id = t.id /\ k.announced = t.announced
      /\ k.done = t.done /\ k.kind = kind /\ k.decoded = t.decoded
      /\ k.emitted = t.emitted /\ k.args = t.args /\ k.name = t.name
  <2> HIDE DEF t
  <2> QED
    BY <1>1, <1>2, CallsMade
<1> HIDE DEF k
<1>5. Live(g1, apart) /\ i \in DOMAIN g1.tools /\ g1.tools[i] = k
  <2>1. g1 = [h EXCEPT !.tools = SetTo(h.tools, i, k)]
    BY DEF WithTool, SetTo
  <2> HIDE DEF g1
  <2>2. /\ g1.text = h.text /\ g1.tools = SetTo(h.tools, i, k)
        /\ g1.activeKind = h.activeKind /\ g1.activeTool = h.activeTool
        /\ g1.lastID = h.lastID /\ g1.events = h.events /\ g1.nextOutputIndex = h.nextOutputIndex
    BY <1>1, <2>1 DEF Generations
  <2>3. Becomes(h, g1, i, k, apart)
    BY <1>1, <1>4, <2>1, <2>2 DEF Becomes, ToolAt
  <2> QED
    BY <2>3, BecomesLive
<1>6. /\ Flows(g1, D, N, late) /\ g1.events = h.events /\ DOMAIN g1.tools = DOMAIN h.tools
  <2>1. /\ Flows(g1, D, N, late) /\ g1.events = h.events /\ DOMAIN g1.tools = DOMAIN h.tools \union {i}
    BY <1>1, <1>4, SetFlows
  <2> QED
    BY <2>1
<1> HIDE DEF g1
<1>7. SentOf(g1, i) = sent
  BY <1>4, <1>5, <1>6 DEF SentOf, sent
<1>8. Others(D, g1, i) /\ D \in SUBSET DOMAIN g1.tools
  BY <1>1, <1>6 DEF Others
<1>9. Live(ensured, apart) /\ ensured.tools = g1.tools
  BY <1>5, EnsureToolLive
<1>10. Flows(ensured, D, N, late) /\ \A y : Sum(ensured.events, y) = Sum(g1.events, y)
  BY <1>5, <1>6, <1>8, EnsureToolFlows
<1> HIDE DEF ensured
<1>11. /\ SentOf(ensured, i) = sent /\ Others(D, ensured, i) /\ i \in DOMAIN ensured.tools
       /\ ensured.tools[i] = k
  BY <1>5, <1>7, <1>8, <1>9, <1>10 DEF SentOf, Others
<1>12. ASSUME kind \in {"function", "custom"}
       PROVE  /\ Live(g2, apart) /\ Flows(g2, D, N, late) /\ i \in DOMAIN g2.tools
              /\ Others(D, g2, i) /\ SentOf(g2, i) = sent
              /\ g2.tools[i] \in Tools /\ g2.tools[i].announced /\ g2.tools[i].kind = kind
              /\ g2.tools[i].args = t.args /\ g2.tools[i].decoded = t.decoded
  <2>1. ensured.tools[i].kind \in {"function", "custom"}
    BY <1>4, <1>11, <1>12
  <2>2. Live(g2, apart)
    BY <1>9, <1>11, <2>1, AnnounceLive
  <2>3. /\ Flows(g2, D, N, late) /\ DOMAIN g2.tools = DOMAIN ensured.tools
        /\ g2.tools[i].announced /\ SentOf(g2, i) = SentOf(ensured, i)
        /\ g2.tools[i].kind = ensured.tools[i].kind /\ g2.tools[i].args = ensured.tools[i].args
        /\ g2.tools[i].decoded = ensured.tools[i].decoded
    BY <1>9, <1>10, <1>11, <2>1, AnnounceFlows
  <2> HIDE DEF g2
  <2>4. i \in DOMAIN g2.tools /\ Others(D, g2, i)
    BY <1>11, <2>3 DEF Others
  <2>5. g2.tools[i] \in Tools
    BY <2>2, <2>4, Parts DEF Live
  <2> QED
    BY <1>4, <1>11, <2>2, <2>3, <2>4, <2>5
<1>13. t.args \in Nat /\ t.decoded \in Nat /\ t.emitted \in Nat /\ t.emitted <= t.decoded
  <2> HIDE DEF t
  <2> QED
    BY <1>1 DEF Tools, ToolRecords
<1>14. CASE kind = "function"
  <2> HIDE DEF g2
  <2> DEFINE y == ToolDelta(g2, i, n)
  <2>1. Flows(y, D, N, late) /\ y.tools = g2.tools /\ SentOf(y, i) = SentOf(g2, i) + n
    BY <1>12, <1>14, <1>b, ToolDeltaFlows
  <2> HIDE DEF y
  <2>2. x = y
    BY <1>3, <1>14 DEF y
  <2>3. sent + n <= t.args /\ (sent + n < t.args => late)
    BY <1>14, <1>a DEF Ready, kind
  <2>4. InStep(y, i, N, late)
    <3>1. Sum(y.events, y.tools[i].item) = sent + n
      BY <1>12, <1>14, <2>1 DEF SentOf
    <3>2. y.tools[i].kind = "function" /\ y.tools[i].args = t.args /\ y.tools[i].announced
      BY <1>12, <1>14, <2>1
    <3>3. ToolSent(y.tools[i], y.events, late)
      BY <2>3, <3>1, <3>2 DEF ToolSent
    <3>4. Placed(y.tools[i], i \in N)
      BY <3>2 DEF Placed, NoName
    <3> QED
      BY <3>3, <3>4 DEF InStep
  <2>5. i \in DOMAIN y.tools /\ Others(D, y, i)
    BY <1>12, <1>14, <2>1 DEF Others
  <2>6. Flows(y, DOMAIN y.tools, N, late)
    BY <2>1, <2>4, <2>5, AllInStep
  <2> QED
    BY <2>2, <2>6
<1>15. CASE kind = "custom"
  <2> HIDE DEF g2
  <2>1. /\ s \in Tools /\ s.item = g2.tools[i].item /\ s.id = g2.tools[i].id
        /\ s.announced = g2.tools[i].announced /\ s.done = g2.tools[i].done
        /\ s.kind = g2.tools[i].kind /\ s.decoded = g2.tools[i].decoded
        /\ s.emitted = g2.tools[i].decoded
    BY <1>12, <1>15, CallsMade
  <2>2. s = [g2.tools[i] EXCEPT !.emitted = t.decoded]
    BY <1>12, <1>15 DEF AllSent
  <2> HIDE DEF s
  <2>3. Live(g3, apart) /\ i \in DOMAIN g3.tools /\ g3.tools[i] = s
    <3>1. g3 = [g2 EXCEPT !.tools = SetTo(g2.tools, i, s)]
      BY DEF WithTool, SetTo
    <3>a. g2 \in Generations
      BY <1>12, <1>15 DEF Live
    <3> HIDE DEF g3
    <3>2. /\ g3.text = g2.text /\ g3.tools = SetTo(g2.tools, i, s)
          /\ g3.activeKind = g2.activeKind /\ g3.activeTool = g2.activeTool
          /\ g3.lastID = g2.lastID /\ g3.events = g2.events /\ g3.nextOutputIndex = g2.nextOutputIndex
      BY <3>1, <3>a DEF Generations
    <3>3. Becomes(g2, g3, i, s, apart)
      BY <1>1, <1>12, <1>15, <2>1, <3>1, <3>2 DEF Becomes, ToolAt
    <3>4. Live(g2, apart)
      BY <1>12, <1>15
    <3> QED
      BY <3>3, <3>4, BecomesLive
  <2>4. Flows(g3, D, N, late) /\ g3.events = g2.events /\ DOMAIN g3.tools = DOMAIN g2.tools \union {i}
    <3>1. /\ g2 \in Generations /\ Others(D, g2, i) /\ Flows(g2, D, N, late)
      BY <1>12, <1>15 DEF Live
    <3> QED
      BY <1>1, <2>1, <3>1, SetFlows
  <2> HIDE DEF g3
  <2>5. Others(D, g3, i) /\ g3.tools[i].announced /\ SentOf(g3, i) = sent
    BY <1>12, <1>15, <2>1, <2>3, <2>4 DEF Others, SentOf
  <2> DEFINE m == NewInput(t)
  <2>6. m \in Nat /\ m = t.decoded - t.emitted
    BY <1>13 DEF NewInput
  <2> HIDE DEF m
  <2> DEFINE y == ToolDelta(g3, i, m)
  <2>7. Flows(y, D, N, late) /\ y.tools = g3.tools /\ SentOf(y, i) = SentOf(g3, i) + m
    BY <2>3, <2>4, <2>5, <2>6, ToolDeltaFlows
  <2> HIDE DEF y
  <2>8. x = y
    <3>1. kind # "function"
      BY <1>15
    <3> QED
      BY <1>3, <1>15, <2>2, <3>1 DEF y, g3, m
  <2>9. sent = t.emitted
    BY <1>15, <1>a DEF Ready, kind
  <2>10. InStep(y, i, N, late)
    <3>1. y.tools[i] = s /\ s.announced /\ s.kind = "custom" /\ s.emitted = s.decoded /\ s.decoded = t.decoded
      BY <1>12, <1>15, <2>1, <2>3, <2>7
    <3>2. Sum(y.events, s.item) = t.decoded
      BY <1>13, <2>5, <2>6, <2>7, <2>9, <3>1 DEF SentOf
    <3>3. ToolSent(y.tools[i], y.events, late)
      BY <3>1, <3>2 DEF ToolSent
    <3>4. Placed(y.tools[i], i \in N)
      BY <3>1 DEF Placed, NoName
    <3> QED
      BY <3>3, <3>4 DEF InStep
  <2>11. i \in DOMAIN y.tools /\ Others(D, y, i)
    BY <2>3, <2>5, <2>7 DEF Others
  <2>12. Flows(y, DOMAIN y.tools, N, late)
    BY <2>7, <2>10, <2>11, AllInStep
  <2> QED
    BY <2>8, <2>12
<1>16. CASE kind \notin {"function", "custom"}
  <2>1. x = g1
    BY <1>3, <1>16
  <2>2. ~k.announced /\ k.emitted = 0 /\ (k.kind = NoName => k.name = NoName /\ (k.args > 0 => i \in N))
        /\ k.kind \notin {"function", "custom"}
    BY <1>4, <1>16, <1>a DEF Ready, kind
  <2>3. InStep(g1, i, N, late)
    BY <1>5, <2>2 DEF InStep, ToolSent, Placed
  <2>4. Flows(g1, DOMAIN g1.tools, N, late)
    BY <1>5, <1>6, <1>8, <2>3, AllInStep
  <2> QED
    BY <2>1, <2>4
<1> QED
  BY <1>14, <1>15, <1>16

(* N has all calls that may get arguments before a name, and late says     *)
(* whether one of those may be a function.                                 *)
Fits(call, N, late) ==
  \A i \in Nat : call.index \in {i, NoIndex} =>
    /\ call.name = NoName /\ call.fragment # "none" => i \in N
    /\ call.name # NoName /\ Kind[call.name] = "function" /\ i \in N => late

LEMMA ReadyNow ==
  ASSUME NEW old \in Tools, NEW t, NEW call \in Calls, Grown(old, t, call), NEW sent \in Nat,
         NEW unnamed \in BOOLEAN, NEW late \in BOOLEAN,
         old.announced => /\ old.kind = "custom" => sent = old.decoded
                          /\ old.kind = "function" => sent <= old.args /\ (sent < old.args => late),
         ~old.announced => sent = 0,
         Placed(old, unnamed),
         call.name = NoName /\ call.fragment # "none" => unnamed,
         call.name # NoName /\ Kind[call.name] = "function" /\ unnamed => late
  PROVE  Ready(t, sent, Count(call.fragment), unnamed, late)
<1> DEFINE n == Count(call.fragment)
<1>1. /\ t.kind = old.kind /\ t.emitted = old.emitted /\ t.announced = old.announced
      /\ t.name = IF call.name # NoName THEN call.name ELSE old.name
  BY DEF Grown
<1>2. n \in Nat /\ t.args = old.args + n /\ (n > 0 <=> call.fragment # "none")
  <2>1. old.args \in Nat
    BY DEF Tools, ToolRecords
  <2>2. t.args = IF call.fragment # "none" THEN old.args + 1 ELSE old.args
    BY DEF Grown
  <2> QED
    BY <2>1, <2>2 DEF Count
<1>3. /\ old.args \in Nat /\ old.emitted \in Nat /\ old.decoded \in Nat
      /\ old.announced \in BOOLEAN /\ old.kind \in Kinds \union {NoName}
      /\ old.announced => old.kind \in {"function", "custom"}
  BY DEF Tools, ToolRecords
<1>4. NoName \notin Kinds
  BY DEF NoName, Kinds
<1>5. /\ old.kind \in {"function", "custom"} => old.announced
      /\ old.kind = "custom" => old.emitted = old.decoded
      /\ ~old.announced => old.emitted = 0
      /\ old.kind = NoName => old.name = NoName /\ (old.args > 0 => unnamed)
  BY DEF Placed
<1> HIDE DEF n
<1>6. CASE old.announced
  <2>1. NewKind(t) = old.kind /\ NewKind(t) \in {"function", "custom"} /\ NewKind(t) # NoName
    BY <1>1, <1>3, <1>4, <1>6 DEF NewKind, Kinds
  <2>2. NewKind(t) = "custom" => sent = t.emitted
    BY <1>1, <1>5, <1>6, <2>1
  <2>3. NewKind(t) = "function" => sent + n <= t.args /\ (sent + n < t.args => late)
    BY <1>2, <1>3, <1>6, <2>1
  <2> QED
    BY <1>1, <1>6, <2>1, <2>2, <2>3 DEF Ready, n
<1>7. CASE ~old.announced /\ old.kind # NoName
  <2>1. NewKind(t) = old.kind /\ NewKind(t) \notin {"function", "custom"}
    BY <1>1, <1>5, <1>7 DEF NewKind
  <2> QED
    BY <1>1, <1>5, <1>7, <2>1 DEF Ready
<1>8. CASE ~old.announced /\ old.kind = NoName /\ call.name # NoName
  <2>1. NewKind(t) = Kind[call.name] /\ call.name \in Names
    BY <1>1, <1>8 DEF NewKind, Calls
  <2>2. NewKind(t) \in Kinds
    BY <2>1, GenerationAssumption
  <2>3. NewKind(t) = "function" => sent + n <= t.args /\ (sent + n < t.args => late)
    BY <1>2, <1>3, <1>5, <1>8, <2>1
  <2>4. NewKind(t) = "custom" => sent = t.emitted
    BY <1>1, <1>5, <1>8
  <2> QED
    BY <1>1, <1>4, <1>5, <1>8, <2>2, <2>3, <2>4 DEF Ready, n
<1>9. CASE ~old.announced /\ old.kind = NoName /\ call.name = NoName
  <2>1. t.name = NoName /\ NewKind(t) = NoName
    BY <1>1, <1>5, <1>9 DEF NewKind
  <2>2. t.args > 0 => unnamed
    BY <1>2, <1>3, <1>5, <1>9
  <2>3. NoName \notin {"function", "custom"}
    BY DEF NoName
  <2> QED
    BY <1>1, <1>5, <1>9, <2>1, <2>2, <2>3 DEF Ready
<1> QED
  BY <1>6, <1>7, <1>8, <1>9

LEMMA ApplyCallFlows ==
  ASSUME NEW h, NEW apart \in BOOLEAN, NEW late \in BOOLEAN, Live(h, apart), NEW call \in Calls, NEW position \in Nat,
         apart => call.index = NoIndex,
         NEW N, Flows(h, DOMAIN h.tools, N, late), Fits(call, N, late)
  PROVE  LET x == ApplyToolCallDelta(h, call, position) IN
         Flows(x, DOMAIN x.tools, N, late)
<1> DEFINE i == ToolForDelta(h, call, position)
           old == ToolAt(h, i)
           t == Accumulate(old, call)
           f == WithTool(h, i, t)
           D == DOMAIN h.tools \ {i}
           E == h.events
<1>1. h \in Generations /\ E \in Seq(AnEvent)
  BY Parts DEF Live
<1>2. /\ i \in Nat
      /\ call.index = NoIndex /\ i \in DOMAIN h.tools /\ h.tools[i].announced /\ call.id # NoID =>
           h.tools[i].id = call.id
  BY <1>1, DeltaGoesWhere
<1>a. call.index \in {i, NoIndex}
  BY DEF ToolForDelta
<1>b. /\ call.name = NoName /\ call.fragment # "none" => i \in N
      /\ call.name # NoName /\ Kind[call.name] = "function" /\ i \in N => late
  <2> HIDE DEF i
  <2> QED
    BY <1>2, <1>a DEF Fits
<1>c. ApplyToolCallDelta(h, call, position) = EmitToolCallDelta(f, i, call.fragment)
  BY DEF ApplyToolCallDelta
<1> HIDE DEF i
<1>3. old \in Tools
  BY <1>1, ToolAtIs
<1>d. /\ i \notin DOMAIN h.tools => old = NewTool
      /\ i \in DOMAIN h.tools => old = h.tools[i]
  BY DEF ToolAt
<1> HIDE DEF old
<1>4. /\ t \in Tools /\ t.item = old.item /\ t.announced = old.announced /\ t.done = old.done
      /\ t.id = (IF call.id # NoID THEN call.id ELSE old.id)
      /\ Grown(old, t, call)
  BY <1>3, AccumulateIs
<1>5. apart /\ t.announced => t.id = old.id
  <2>1. i \notin DOMAIN h.tools => ~old.announced
    BY <1>d DEF NewTool
  <2> HIDE DEF t
  <2> QED
    BY <1>2, <1>4, <1>d, <2>1
<1>6. f = [h EXCEPT !.tools = SetTo(h.tools, i, t)]
  BY DEF WithTool, SetTo
<1> HIDE DEF t
<1>7. Flows(h, D, N, late) /\ Others(D, h, i)
  BY DEF Flows, Balanced, Streaming, Others
<1> HIDE DEF D
<1>8. Flows(f, D, N, late) /\ f.events = E /\ DOMAIN f.tools = DOMAIN h.tools \union {i} /\ f.tools[i] = t
  BY <1>1, <1>2, <1>4, <1>7, SetFlows
<1> HIDE DEF f
<1>9. /\ f.text = h.text /\ f.tools = SetTo(h.tools, i, t)
      /\ f.activeKind = h.activeKind /\ f.activeTool = h.activeTool
      /\ f.lastID = h.lastID /\ f.events = h.events /\ f.nextOutputIndex = h.nextOutputIndex
  BY <1>1, <1>6 DEF Generations
<1>10. Becomes(h, f, i, t, apart)
  BY <1>2, <1>4, <1>5, <1>6, <1>9 DEF Becomes, old
<1>11. Live(f, apart) /\ i \in DOMAIN f.tools
  BY <1>10, BecomesLive
<1>12. Others(D, f, i)
  BY <1>7, <1>8 DEF Others
<1>13. Placed(old, i \in N) /\ ToolSent(old, E, late)
  <2>1. CASE i \in DOMAIN h.tools
    BY <1>d, <2>1 DEF Flows, Balanced, Streaming
  <2>2. CASE i \notin DOMAIN h.tools
    <3>1. old = NewTool
      BY <1>d, <2>2
    <3>2. /\ ~old.announced /\ old.emitted = 0 /\ old.kind = NoName /\ old.name = NoName /\ old.args = 0
      BY <3>1 DEF NewTool
    <3>3. old.kind \notin {"function", "custom"}
      BY <3>2 DEF NoName
    <3> QED
      BY <3>2, <3>3 DEF Placed, ToolSent
  <2> QED
    BY <2>1, <2>2
<1>14. Ready(t, SentOf(f, i), Count(call.fragment), i \in N, late)
  <2> DEFINE sent == SentOf(f, i)
             unnamed == i \in N
  <2>1. Sum(E, old.item) \in Nat
    <3>1. \A e \in AnEvent : \A y : Sum(E, y) \in Nat
      BY <1>1, SumGrows
    <3>2. An("done", 0, NoIndex, NoID, 0) \in AnEvent
      BY DEF An, AnOf, AnEvent, Forms, EventTypes, ItemTypes, NoID
    <3> QED
      BY <3>1, <3>2
  <2>2. sent = IF old.announced THEN Sum(E, old.item) ELSE 0
    BY <1>4, <1>8 DEF SentOf
  <2> HIDE DEF sent, E
  <2>3. sent \in Nat /\ unnamed \in BOOLEAN
    BY <2>1, <2>2
  <2>4. old.announced => /\ old.kind = "custom" => sent = old.decoded
                         /\ old.kind = "function" => sent <= old.args /\ (sent < old.args => late)
    BY <1>13, <2>2 DEF ToolSent
  <2>5. /\ Placed(old, unnamed)
        /\ call.name = NoName /\ call.fragment # "none" => unnamed
        /\ call.name # NoName /\ Kind[call.name] = "function" /\ unnamed => late
    BY <1>13, <1>b
  <2> HIDE DEF unnamed
  <2>6. ~old.announced => sent = 0
    BY <2>2
  <2>7. Grown(old, t, call)
    BY <1>4
  <2>8. Ready(t, sent, Count(call.fragment), unnamed, late)
    BY <1>3, <2>3, <2>4, <2>5, <2>6, <2>7, ReadyNow
  <2> QED
    BY <2>8 DEF sent, unnamed
<1>15. Ready(f.tools[i], SentOf(f, i), Count(call.fragment), i \in N, late)
  BY <1>8, <1>14
<1> DEFINE x == EmitToolCallDelta(f, i, call.fragment)
<1>16. Flows(x, DOMAIN x.tools, N, late)
  BY <1>8, <1>11, <1>12, <1>15, EmitCallFlows
<1> HIDE DEF x
<1> QED
  BY <1>16, <1>c DEF x

-----------------------------------------------------------------------------
(* A chunk: text, reasoning and its calls in their order.                  *)

(* What each call of a chunk keeps, the chunk keeps.                       *)
LEMMA AppliedStays ==
  ASSUME NEW h, NEW calls \in Seq(Calls), NEW S, h \in S,
         \A x \in S, p \in 1 .. Len(calls) : ApplyToolCallDelta(x, calls[p], p - 1) \in S
  PROVE  AppliedTo(h, calls)[Len(calls)] \in S
<1> DEFINE n == Len(calls)
           whole(f) == [p \in 0 .. n |->
             IF p = 0 THEN h ELSE ApplyToolCallDelta(f[p - 1], calls[p], p - 1)]
           chosen == CHOOSE f : f = whole(f)
           step == [p \in 1 .. n |-> [x \in S |-> ApplyToolCallDelta(x, calls[p], p - 1)]]
<1>1. n \in Nat /\ AppliedTo(h, calls) = chosen
  BY DEF AppliedTo
<1>2. \A x \in S, p \in 1 .. n : ApplyToolCallDelta(x, calls[p], p - 1) \in S
  OBVIOUS
<1> HIDE DEF n
<1>4. step \in [1 .. n -> [S -> S]]
  BY <1>2
<1>a. \A p \in 1 .. n, x \in S : step[p][x] = ApplyToolCallDelta(x, calls[p], p - 1)
  OBVIOUS
<1> HIDE DEF step
<1>5. PICK f \in [0 .. n -> S] : Iterates(f, n, h, step)
  BY <1>1, <1>4, Recursion
<1>6. f = whole(f)
  <2>1. f[0] = h /\ \A p \in 1 .. n : f[p] = step[p][f[p - 1]]
    BY <1>5 DEF Iterates
  <2>2. \A p \in 1 .. n : p - 1 \in 0 .. n /\ f[p - 1] \in S
    BY <1>1, <1>5
  <2>3. \A p \in 1 .. n : f[p] = ApplyToolCallDelta(f[p - 1], calls[p], p - 1)
    BY <1>a, <2>1, <2>2
  <2>4. \A p \in 0 .. n : p = 0 \/ p \in 1 .. n
    BY <1>1
  <2>5. \A p \in 0 .. n : f[p] = IF p = 0 THEN h ELSE ApplyToolCallDelta(f[p - 1], calls[p], p - 1)
    BY <2>1, <2>3, <2>4
  <2> QED
    BY <1>5, <2>5
<1>7. chosen = whole(chosen)
  BY <1>6
<1> HIDE DEF chosen
<1>8. chosen[0] = h /\ \A p \in 1 .. n : chosen[p] = ApplyToolCallDelta(chosen[p - 1], calls[p], p - 1)
  BY <1>1, <1>7
<1> DEFINE T == {p \in 0 .. n : chosen[p] \in S}
<1>9. 0 \in T
  BY <1>1, <1>8
<1>10. \A p \in 0 .. n - 1 : p \in T => p + 1 \in T
  <2> SUFFICES ASSUME NEW p \in 0 .. n - 1, chosen[p] \in S PROVE chosen[p + 1] \in S
    BY <1>1
  <2>1. p + 1 \in 1 .. n /\ (p + 1) - 1 = p
    BY <1>1
  <2>2. chosen[p + 1] = ApplyToolCallDelta(chosen[p], calls[p + 1], (p + 1) - 1)
    BY <1>8, <2>1
  <2> QED
    BY <1>2, <2>1, <2>2
<1> HIDE DEF T
<1>11. 0 .. n \subseteq T
  BY <1>1, <1>9, <1>10, Induction
<1>12. chosen[n] \in S
  BY <1>1, <1>11 DEF T
<1> QED
  BY <1>1, <1>12 DEF n

LEMMA AppliedLive ==
  ASSUME NEW h, NEW apart \in BOOLEAN, Live(h, apart), NEW calls \in Seq(Calls),
         apart => \A p \in DOMAIN calls : calls[p].index = NoIndex
  PROVE  Live(AppliedTo(h, calls)[Len(calls)], apart)
<1> DEFINE S == {x \in Generations : Live(x, apart)}
<1>1. ASSUME NEW x \in S, NEW p \in 1 .. Len(calls)
      PROVE  ApplyToolCallDelta(x, calls[p], p - 1) \in S
  <2>1. calls[p] \in Calls /\ p \in DOMAIN calls /\ p - 1 \in Nat
    OBVIOUS
  <2>2. apart => calls[p].index = NoIndex
    BY <2>1
  <2>3. Live(ApplyToolCallDelta(x, calls[p], p - 1), apart)
    BY <2>1, <2>2, ApplyCallLive
  <2> QED
    BY <2>3 DEF Live
<1>2. h \in S
  BY DEF Live
<1> HIDE DEF S
<1>3. AppliedTo(h, calls)[Len(calls)] \in S
  BY <1>1, <1>2, AppliedStays
<1> QED
  BY <1>3 DEF S

(* The sums stay in step with all calls of a chunk.                        *)
AllFit(calls, N, late) == \A p \in DOMAIN calls : Fits(calls[p], N, late)

LEMMA AppliedFlows ==
  ASSUME NEW h, NEW apart \in BOOLEAN, NEW late \in BOOLEAN, Live(h, apart), NEW calls \in Seq(Calls),
         apart => \A p \in DOMAIN calls : calls[p].index = NoIndex,
         NEW N, Flows(h, DOMAIN h.tools, N, late), AllFit(calls, N, late)
  PROVE  LET x == AppliedTo(h, calls)[Len(calls)] IN
         Flows(x, DOMAIN x.tools, N, late)
<1> DEFINE S == {x \in Generations : Live(x, apart) /\ Flows(x, DOMAIN x.tools, N, late)}
<1>1. ASSUME NEW x \in S, NEW p \in 1 .. Len(calls)
      PROVE  ApplyToolCallDelta(x, calls[p], p - 1) \in S
  <2> DEFINE call == calls[p]
             y == ApplyToolCallDelta(x, call, p - 1)
  <2>1. call \in Calls /\ p \in DOMAIN calls /\ p - 1 \in Nat
    OBVIOUS
  <2>2. (apart => call.index = NoIndex) /\ Fits(call, N, late)
    BY <2>1 DEF AllFit
  <2>3. Live(x, apart) /\ Flows(x, DOMAIN x.tools, N, late)
    OBVIOUS
  <2> HIDE DEF call
  <2>4. Live(y, apart)
    BY <2>1, <2>2, <2>3, ApplyCallLive
  <2>5. Flows(y, DOMAIN y.tools, N, late)
    BY <2>1, <2>2, <2>3, ApplyCallFlows
  <2> HIDE DEF y
  <2>6. y \in S
    BY <2>4, <2>5 DEF Live
  <2> QED
    BY <2>6 DEF y, call
<1>2. h \in S
  BY DEF Live
<1> HIDE DEF S
<1>3. AppliedTo(h, calls)[Len(calls)] \in S
  BY <1>1, <1>2, AppliedStays
<1> QED
  BY <1>3 DEF S

LEMMA ChunkLive ==
  ASSUME NEW h, NEW apart \in BOOLEAN, Live(h, apart), NEW chunk \in Chunks,
         apart => \A p \in DOMAIN chunk.calls : chunk.calls[p].index = NoIndex
  PROVE  Live(ApplyStreamChunk(h, chunk), apart)
<1> DEFINE g1 == IF chunk.content THEN TextDelta(h, "message") ELSE h
           g2 == IF chunk.reasoning THEN TextDelta(g1, "reasoning") ELSE g1
<1>1. "message" \in TextKinds /\ "reasoning" \in TextKinds
  BY DEF TextKinds
<1>2. Live(g1, apart)
  BY <1>1, TextDeltaLive
<1> HIDE DEF g1
<1>3. Live(g2, apart)
  BY <1>1, <1>2, TextDeltaLive
<1>4. ApplyStreamChunk(h, chunk) = AppliedTo(g2, chunk.calls)[Len(chunk.calls)]
  BY DEF ApplyStreamChunk, g1
<1> HIDE DEF g2
<1>5. chunk.calls \in Seq(Calls)
  BY DEF Chunks
<1> QED
  BY <1>3, <1>4, <1>5, AppliedLive

LEMMA ChunkFlows ==
  ASSUME NEW h, NEW apart \in BOOLEAN, NEW late \in BOOLEAN, Live(h, apart), NEW chunk \in Chunks,
         apart => \A p \in DOMAIN chunk.calls : chunk.calls[p].index = NoIndex,
         NEW N, Flows(h, DOMAIN h.tools, N, late), AllFit(chunk.calls, N, late)
  PROVE  LET x == ApplyStreamChunk(h, chunk) IN
         Flows(x, DOMAIN x.tools, N, late)
<1> DEFINE g1 == IF chunk.content THEN TextDelta(h, "message") ELSE h
           g2 == IF chunk.reasoning THEN TextDelta(g1, "reasoning") ELSE g1
           calls == chunk.calls
<1>1. "message" \in TextKinds /\ "reasoning" \in TextKinds
  BY DEF TextKinds
<1>2. Live(g1, apart) /\ Flows(g1, DOMAIN g1.tools, N, late)
  BY <1>1, TextDeltaLive, TextDeltaFlows
<1> HIDE DEF g1
<1>3. Live(g2, apart) /\ Flows(g2, DOMAIN g2.tools, N, late)
  BY <1>1, <1>2, TextDeltaLive, TextDeltaFlows
<1>4. ApplyStreamChunk(h, chunk) = AppliedTo(g2, calls)[Len(calls)]
  BY DEF ApplyStreamChunk, g1
<1> HIDE DEF g2
<1>5. /\ calls \in Seq(Calls) /\ (apart => \A p \in DOMAIN calls : calls[p].index = NoIndex)
      /\ AllFit(calls, N, late)
  BY DEF Chunks
<1> DEFINE x == AppliedTo(g2, calls)[Len(calls)]
<1> HIDE DEF calls
<1>6. Flows(x, DOMAIN x.tools, N, late)
  BY <1>3, <1>5, AppliedFlows
<1> QED
  BY <1>4, <1>6

-----------------------------------------------------------------------------
(* An answer in one piece.                                                 *)

LEMMA NewLive ==
  ASSUME NEW h, NEW apart \in BOOLEAN, Told(h, {}, {}, apart)
  PROVE  LET x == NewGeneration(h.events, h.lastID) IN
         /\ Live(x, apart) /\ x.tools = <<>> /\ x.activeKind = "none"
         /\ \A k \in TextKinds : x.text[k].item = NoItem /\ ~x.text[k].announced
         /\ x.events = h.events
<1> DEFINE x == NewGeneration(h.events, h.lastID)
<1>1. h.events \in Seq(AnEvent) /\ h.lastID \in Int /\ h.lastID <= 0
  BY DEF Told, Story
<1>2. /\ NewText(NoItem) \in Texts /\ NewText(NoItem).item = NoItem
      /\ ~NewText(NoItem).announced /\ ~NewText(NoItem).done
  BY TextsMade DEF NoItem
<1>3. /\ x.text = [k \in TextKinds |-> NewText(NoItem)] /\ x.tools = <<>> /\ x.activeKind = "none"
      /\ x.lastID = h.lastID /\ x.events = h.events
  BY DEF NewGeneration
<1>4. x \in Generations
  <2>1. <<>> \in ToolMaps
    <3>1. DOMAIN <<>> = {} /\ <<>> \in [{} -> Tools]
      OBVIOUS
    <3>2. IsFiniteSet({})
      BY FS_EmptySet
    <3> QED
      BY <3>1, <3>2, ToolMapIs
  <2>2. "none" \in ActiveKinds /\ NoIndex \in Int
    BY DEF ActiveKinds, NoIndex
  <2>3. [k \in TextKinds |-> NewText(NoItem)] \in [TextKinds -> Texts]
    BY <1>2
  <2> QED
    BY <1>1, <2>1, <2>2, <2>3 DEF NewGeneration, Generations
<1>5. \A k \in TextKinds : x.text[k] = NewText(NoItem)
  BY <1>3
<1>6. DOMAIN x.tools = {}
  BY <1>3
<1> HIDE DEF x
<1>7. Distinct(x, TextKinds, {})
  BY <1>2, <1>5 DEF Distinct
<1>8. \A k \in TextKinds : x.lastID <= x.text[k].item /\ TextTold(x.text[k], x.events)
  BY <1>1, <1>2, <1>3, <1>5 DEF TextTold, NoItem
<1>9. Turns(h, x, {}, {}, TextKinds, {}, apart)
  BY <1>1, <1>3, <1>7, <1>8 DEF Turns, Owned
<1>10. Told(x, TextKinds, DOMAIN x.tools, apart)
  <2>1. Told(x, TextKinds, {}, apart)
    BY <1>9, SilentlyTold
  <2> QED
    BY <1>6, <2>1
<1>11. Active(x) /\ Worded(x)
  <2>1. "none" \notin TextKinds
    BY DEF TextKinds
  <2> QED
    BY <1>2, <1>3, <1>5, <2>1 DEF Active, Worded
<1> QED
  BY <1>2, <1>3, <1>4, <1>5, <1>10, <1>11 DEF Live, x

LEMMA WholeTextLive ==
  ASSUME NEW h, NEW apart \in BOOLEAN, NEW k \in TextKinds, Live(h, apart), h.text[k].item = NoItem
  PROVE  LET x == WholeText(h, k) IN
         /\ Live(x, apart) /\ x.tools = h.tools /\ x.events = h.events /\ ~x.text[k].announced
         /\ \A m \in TextKinds : m # k => x.text[m] = h.text[m]
<1> DEFINE x == WholeText(h, k)
           new == [NewText(h.lastID - 1) EXCEPT !.text = 1]
<1>1. h \in Generations /\ h.lastID \in Int
  BY Parts DEF Live
<1>2. x = [h EXCEPT !.text = [h.text EXCEPT ![k] = new], !.lastID = h.lastID - 1]
  BY <1>1 DEF WholeText, Generations
<1>3. new \in Texts /\ new.item = h.lastID - 1 /\ ~new.announced /\ ~new.done
  <2>1. \A y \in Int : y # NoItem => LET n == [NewText(y) EXCEPT !.text = 1] IN
          n \in Texts /\ n.item = y /\ ~n.announced /\ ~n.done
    BY DEF NewText, Texts, NoIndex
  <2>2. h.lastID - 1 \in Int /\ h.lastID - 1 # NoItem
    BY <1>1 DEF Live, Told, NoItem
  <2> QED
    BY <2>1, <2>2
<1>4. NeedsNewItem(h.text[k])
  BY DEF NeedsNewItem
<1>5. Replaces(h, x, k, new)
  BY <1>2, <1>3, <1>4 DEF Replaces
<1>7. x.events = h.events
  BY <1>1, <1>2 DEF Generations
<1> HIDE DEF x, new
<1>6. /\ Live(x, apart) /\ x.tools = h.tools /\ \A m \in TextKinds : m # k => x.text[m] = h.text[m]
      /\ x.text[k] = new
  BY <1>5, ReplacedLive
<1> QED
  BY <1>3, <1>6, <1>7 DEF x

Silent(h) == \A i \in DOMAIN h.tools : ~h.tools[i].announced

Mute(h) == Silent(h) /\ \A k \in TextKinds : ~h.text[k].announced

Renamed(t, call) == [t EXCEPT !.id = call.id, !.name = call.name]

LEMMA WholeCallLive ==
  ASSUME NEW h, NEW apart \in BOOLEAN, Live(h, apart), Silent(h), NEW call \in Calls, NEW i \in Nat
  PROVE  LET f == WholeCall(h, call, i) IN
         Live(f, apart) /\ Silent(f) /\ f.text = h.text /\ f.events = h.events
<1> DEFINE old == ToolAt(h, i)
           t == Renamed(Accumulate(old, call), call)
           f == WholeCall(h, call, i)
<1>1. h \in Generations
  BY DEF Live
<1>2. old \in Tools /\ ~old.announced
  <2>1. ~NewTool.announced
    BY DEF NewTool
  <2> QED
    BY <1>1, <2>1, ToolAtIs DEF ToolAt, Silent
<1> DEFINE u == Accumulate(old, call)
<1>3. u \in Tools /\ u.item = old.item /\ ~u.announced /\ u.done = old.done
  <2> HIDE DEF old
  <2> QED
    BY <1>2, AccumulateIs
<1>4. call.id \in Int /\ call.name \in Names \union {NoName}
  <2>1. call.id \in IDs \union {NoID} /\ call.name \in Names \union {NoName}
    BY DEF Calls
  <2>2. IDs \union {NoID} \subseteq Nat
    BY GenerationAssumption DEF NoID
  <2> QED
    BY <2>1, <2>2
<1>5. t \in Tools /\ t.item = u.item /\ ~t.announced /\ t.done = u.done
  <2> HIDE DEF u
  <2>1. Renamed(u, call) \in Tools /\ Renamed(u, call).item = u.item
        /\ ~Renamed(u, call).announced /\ Renamed(u, call).done = u.done
    <3> DEFINE v == Renamed(u, call)
    <3>1. v \in ToolRecords
      <4> DEFINE id == call.id
                 name == call.name
      <4>1. id \in Int /\ name \in Names \union {NoName}
        BY <1>4
      <4>2. v = [u EXCEPT !.id = id, !.name = name]
        BY DEF Renamed
      <4> HIDE DEF id, name, v
      <4> QED
        BY <1>3, <4>1, <4>2 DEF Tools, ToolRecords
    <3>2. /\ v.item = u.item /\ v.announced = u.announced /\ v.done = u.done /\ v.args = u.args
          /\ v.decoded = u.decoded /\ v.emitted = u.emitted /\ v.index = u.index /\ v.kind = u.kind
          /\ v.value = u.value /\ v.prefix = u.prefix /\ v.json = u.json
      BY <1>3 DEF Renamed, Tools, ToolRecords
    <3>3. /\ u.emitted <= u.decoded /\ ~u.announced
          /\ u.item = NoItem /\ (u.done => u.announced)
      BY <1>3 DEF Tools, ToolRecords
    <3> HIDE DEF v
    <3>4. Decoding(v)
      BY <1>3, <3>2, DecodingKept DEF Tools
    <3> QED
      BY <3>1, <3>2, <3>3, <3>4 DEF Tools, v
  <2> QED
    BY <2>1 DEF u
<1>6. f = [h EXCEPT !.tools = SetTo(h.tools, i, t)]
  BY DEF WholeCall, WithTool, SetTo, Renamed
<1>7. t.item = old.item /\ t.announced = old.announced /\ t.done = old.done
  <2>1. t.announced \in BOOLEAN /\ old.announced \in BOOLEAN
    BY <1>2, <1>5 DEF Tools, ToolRecords
  <2> QED
    BY <1>2, <1>3, <1>5, <2>1
<1> HIDE DEF t, f, u
<1>8. /\ f.text = h.text /\ f.tools = SetTo(h.tools, i, t)
      /\ f.activeKind = h.activeKind /\ f.activeTool = h.activeTool
      /\ f.lastID = h.lastID /\ f.events = h.events /\ f.nextOutputIndex = h.nextOutputIndex
  BY <1>1, <1>6 DEF Generations
<1>9. Becomes(h, f, i, t, apart)
  BY <1>5, <1>6, <1>7, <1>8 DEF Becomes
<1>10. /\ Live(f, apart) /\ f.tools[i] = t /\ DOMAIN f.tools = DOMAIN h.tools \union {i}
       /\ \A j \in DOMAIN h.tools : j # i => f.tools[j] = h.tools[j]
  BY <1>9, BecomesLive
<1>11. Silent(f)
  BY <1>5, <1>10 DEF Silent
<1> QED
  BY <1>8, <1>10, <1>11 DEF f

LEMMA ReadIntoLive ==
  ASSUME NEW h, NEW apart \in BOOLEAN, Live(h, apart), Silent(h), NEW calls \in Seq(Calls)
  PROVE  LET f == CallsReadInto(h, calls)[Len(calls)] IN
         Live(f, apart) /\ Silent(f) /\ f.text = h.text /\ f.events = h.events
<1> DEFINE n == Len(calls)
           S == {x \in Generations : Live(x, apart) /\ Silent(x) /\ x.text = h.text /\ x.events = h.events}
           read(x, p) == WholeCall(x, calls[p], ToolAtPosition(x, calls[p], p - 1))
           whole(f) == [p \in 0 .. n |-> IF p = 0 THEN h ELSE read(f[p - 1], p)]
           chosen == CHOOSE f : f = whole(f)
           step == [p \in 1 .. n |-> [x \in S |-> read(x, p)]]
<1>1. n \in Nat /\ CallsReadInto(h, calls) = chosen
  BY DEF CallsReadInto
<1>2. ASSUME NEW x \in S, NEW p \in 1 .. n PROVE read(x, p) \in S
  <2>1. calls[p] \in Calls /\ p - 1 \in Nat
    BY <1>1
  <2>2. ToolAtPosition(x, calls[p], p - 1) \in Nat
    BY <2>1 DEF ToolAtPosition, Calls
  <2>3. /\ Live(read(x, p), apart) /\ Silent(read(x, p))
        /\ read(x, p).text = x.text /\ read(x, p).events = x.events
    <3> DEFINE i == ToolAtPosition(x, calls[p], p - 1)
    <3>1. i \in Nat
      BY <2>2
    <3> HIDE DEF i
    <3>2. LET f == WholeCall(x, calls[p], i) IN
          Live(f, apart) /\ Silent(f) /\ f.text = x.text /\ f.events = x.events
      BY <2>1, <3>1, WholeCallLive
    <3> QED
      BY <3>2 DEF i
  <2> QED
    BY <2>3 DEF Live
<1>3. h \in S
  BY DEF Live
<1> HIDE DEF n, S, read
<1>4. step \in [1 .. n -> [S -> S]]
  BY <1>2
<1>a. \A p \in 1 .. n, x \in S : step[p][x] = read(x, p)
  OBVIOUS
<1> HIDE DEF step
<1>5. PICK f \in [0 .. n -> S] : Iterates(f, n, h, step)
  BY <1>1, <1>3, <1>4, Recursion
<1>6. f = whole(f)
  <2>1. f[0] = h /\ \A p \in 1 .. n : f[p] = step[p][f[p - 1]]
    BY <1>5 DEF Iterates
  <2>2. \A p \in 1 .. n : p - 1 \in 0 .. n /\ f[p - 1] \in S
    BY <1>1, <1>5
  <2>3. \A p \in 1 .. n : f[p] = read(f[p - 1], p)
    BY <1>a, <2>1, <2>2
  <2>4. \A p \in 0 .. n : p = 0 \/ p \in 1 .. n
    BY <1>1
  <2>5. \A p \in 0 .. n : f[p] = IF p = 0 THEN h ELSE read(f[p - 1], p)
    BY <2>1, <2>3, <2>4
  <2> QED
    BY <1>5, <2>5
<1>7. chosen = whole(chosen)
  BY <1>6
<1> HIDE DEF chosen
<1>8. chosen[0] = h /\ \A p \in 1 .. n : chosen[p] = read(chosen[p - 1], p)
  BY <1>1, <1>7
<1> DEFINE T == {p \in 0 .. n : chosen[p] \in S}
<1>9. 0 \in T
  BY <1>1, <1>3, <1>8
<1>10. \A p \in 0 .. n - 1 : p \in T => p + 1 \in T
  <2> SUFFICES ASSUME NEW p \in 0 .. n - 1, chosen[p] \in S PROVE chosen[p + 1] \in S
    BY <1>1
  <2>1. p + 1 \in 1 .. n /\ (p + 1) - 1 = p
    BY <1>1
  <2>2. chosen[p + 1] = read(chosen[p], p + 1)
    BY <1>8, <2>1
  <2> QED
    BY <1>2, <2>1, <2>2
<1> HIDE DEF T
<1>11. 0 .. n \subseteq T
  BY <1>1, <1>9, <1>10, Induction
<1>12. chosen[n] \in S
  BY <1>1, <1>11 DEF T
<1> QED
  BY <1>1, <1>12 DEF S, n

LEMMA FromResponseLive ==
  ASSUME NEW h, NEW apart \in BOOLEAN, Told(h, {}, {}, apart), NEW message \in Chunks
  PROVE  LET f == FromChatResponse(NewGeneration(h.events, h.lastID), message) IN
         Live(f, apart) /\ Mute(f) /\ f.events = h.events
<1> DEFINE x == NewGeneration(h.events, h.lastID)
           g1 == IF message.content THEN WholeText(x, "message") ELSE x
           g2 == IF message.reasoning THEN WholeText(g1, "reasoning") ELSE g1
<1>1. "message" \in TextKinds /\ "reasoning" \in TextKinds /\ "message" # "reasoning"
  BY DEF TextKinds
<1>2. /\ Live(x, apart) /\ x.tools = <<>>
      /\ \A k \in TextKinds : x.text[k].item = NoItem /\ ~x.text[k].announced
      /\ x.events = h.events
  BY NewLive
<1>3. FromChatResponse(x, message) = CallsReadInto(g2, message.calls)[Len(message.calls)]
  BY DEF FromChatResponse
<1> HIDE DEF x
<1>4. /\ Live(g1, apart) /\ g1.tools = <<>> /\ g1.text["reasoning"].item = NoItem
      /\ g1.events = h.events /\ \A k \in TextKinds : ~g1.text[k].announced
  <2>1. CASE message.content
    <3> DEFINE y == WholeText(x, "message")
    <3>1. /\ Live(y, apart) /\ y.tools = x.tools /\ y.events = x.events /\ ~y.text["message"].announced
          /\ \A m \in TextKinds : m # "message" => y.text[m] = x.text[m]
      BY <1>1, <1>2, WholeTextLive
    <3> QED
      BY <1>1, <1>2, <2>1, <3>1
  <2>2. CASE ~message.content
    BY <1>1, <1>2, <2>2
  <2> QED
    BY <2>1, <2>2
<1> HIDE DEF g1
<1>5. /\ Live(g2, apart) /\ g2.tools = <<>>
      /\ g2.events = h.events /\ \A k \in TextKinds : ~g2.text[k].announced
  <2>1. CASE message.reasoning
    <3> DEFINE y == WholeText(g1, "reasoning")
    <3>1. /\ Live(y, apart) /\ y.tools = g1.tools /\ y.events = g1.events /\ ~y.text["reasoning"].announced
          /\ \A m \in TextKinds : m # "reasoning" => y.text[m] = g1.text[m]
      BY <1>1, <1>4, WholeTextLive
    <3> QED
      BY <1>4, <2>1, <3>1
  <2>2. CASE ~message.reasoning
    BY <1>4, <2>2
  <2> QED
    BY <2>1, <2>2
<1> HIDE DEF g2
<1>6. Silent(g2)
  <2>1. DOMAIN g2.tools = {}
    BY <1>5
  <2> QED
    BY <2>1 DEF Silent
<1>7. message.calls \in Seq(Calls)
  BY DEF Chunks
<1> DEFINE f == CallsReadInto(g2, message.calls)[Len(message.calls)]
<1>8. Live(f, apart) /\ Silent(f) /\ f.text = g2.text /\ f.events = g2.events
  BY <1>5, <1>6, <1>7, ReadIntoLive
<1> HIDE DEF f
<1>9. Live(f, apart) /\ Mute(f) /\ f.events = h.events
  BY <1>5, <1>8 DEF Mute
<1> QED
  BY <1>3, <1>9 DEF x, f

(* What comes in one piece is in step: nothing of it was sent.             *)
LEMMA MuteFlows ==
  ASSUME NEW f, NEW late, Mute(f), DonesAddUp(f.events, late), NEW D \in SUBSET DOMAIN f.tools
  PROVE  Balanced(f, D, late)
<1>1. \A k \in TextKinds : TextSent(f.text[k], f.events)
  BY DEF Mute, TextSent
<1>2. \A i \in D : ToolSent(f.tools[i], f.events, late)
  BY DEF Mute, Silent, ToolSent
<1> QED
  BY <1>1, <1>2 DEF Balanced

LEMMA NewFlows ==
  ASSUME NEW h, NEW late, DonesAddUp(h.events, late), NEW N
  PROVE  LET x == NewGeneration(h.events, h.lastID) IN
         Flows(x, DOMAIN x.tools, N, late)
<1> DEFINE x == NewGeneration(h.events, h.lastID)
<1>1. /\ x.events = h.events /\ DOMAIN x.tools = {}
      /\ \A k \in TextKinds : ~x.text[k].announced /\ x.text[k].text = 0
  BY DEF NewGeneration, NewText
<1> HIDE DEF x
<1>2. Balanced(x, {}, late)
  BY <1>1 DEF Balanced, TextSent
<1>3. Streaming(x, {}, N)
  BY <1>1 DEF Streaming
<1> QED
  BY <1>1, <1>2, <1>3 DEF Flows, x

-----------------------------------------------------------------------------
(* The end of an answer: what is not done yet is done.                     *)

LEMMA OrderIs ==
  ASSUME NEW S, IsFiniteSet(S), S \subseteq Nat
  PROVE  /\ Ascending(S) \in Seq(S) /\ Len(Ascending(S)) = Cardinality(S)
         /\ \A p \in DOMAIN Ascending(S) : Ascending(S)[p] \in S
         /\ \A p, q \in DOMAIN Ascending(S) : Ascending(S)[p] = Ascending(S)[q] => p = q
         /\ \A k \in S : \E p \in DOMAIN Ascending(S) : Ascending(S)[p] = k
<1> DEFINE s == Ascending(S)
<1>0. S \subseteq Int
  OBVIOUS
<1>1. \E o \in [1 .. Cardinality(S) -> S] : \A p, q \in DOMAIN o : p < q => o[p] < o[q]
  <2>1. PICK o : Orders(o, S)
    BY <1>0, CanBeOrdered
  <2> QED
    BY <2>1 DEF Orders
<1>2. s \in [1 .. Cardinality(S) -> S] /\ \A p, q \in DOMAIN s : p < q => s[p] < s[q]
  BY <1>1 DEF Ascending
<1> HIDE DEF s
<1>3. Orders(s, S)
  BY <1>2 DEF Orders
<1>4. /\ s \in Seq(S) /\ Len(s) = Cardinality(S)
      /\ \A p \in DOMAIN s : s[p] \in S
      /\ \A p, q \in DOMAIN s : s[p] = s[q] => p = q
      /\ \A k \in S : \E p \in DOMAIN s : s[p] = k
  BY <1>0, <1>3, OrderedOnce
<1> QED
  BY <1>4 DEF s

LEMMA DeactivatedLive ==
  ASSUME NEW h, NEW apart \in BOOLEAN, Live(h, apart), h.activeKind = "tool"
  PROVE  LET f == Deactivate(h) IN
         Live(f, apart) /\ f.activeKind = "none" /\ f.tools = h.tools
<1> DEFINE f == Deactivate(h)
           D == DOMAIN h.tools
<1>1. /\ h \in Generations /\ Told(h, TextKinds, D, apart) /\ Active(h) /\ Worded(h)
      /\ h.lastID \in Int /\ h.lastID <= 0 /\ Distinct(h, TextKinds, D)
  BY DEF Live, Told
<1>2. /\ \A k \in TextKinds : h.text[k] \in Texts
      /\ \A i \in D : h.tools[i] \in Tools
  BY <1>1, Parts
<1>3. NoIndex \in Int /\ "none" \in ActiveKinds /\ "none" \notin TextKinds /\ "tool" \notin TextKinds
  BY DEF NoIndex, ActiveKinds, TextKinds
<1>4. /\ f \in Generations /\ f.text = h.text /\ f.tools = h.tools /\ f.activeKind = "none"
      /\ f.lastID = h.lastID /\ f.events = h.events
  BY <1>1, <1>3 DEF Deactivate, Generations
<1> HIDE DEF f
<1>5. Distinct(f, TextKinds, D) /\ \A x : Owned(h, TextKinds, D, x) => Owned(f, TextKinds, D, x)
  BY <1>1, <1>4 DEF Distinct, Owned
<1>6. Told(f, TextKinds, D, apart)
  <2>1. f.lastID \in Int /\ f.lastID <= h.lastID
    BY <1>1, <1>4
  <2>2. Turns(h, f, TextKinds, D, TextKinds, D, apart)
    BY <1>1, <1>2, <1>4, <1>5, <2>1 DEF Turns
  <2> QED
    BY <1>1, <2>2, SilentlyTold
<1>7. Active(f) /\ Worded(f)
  BY <1>1, <1>3, <1>4 DEF Active, Worded
<1> QED
  BY <1>1, <1>4, <1>6, <1>7 DEF Live, f

(* What is left when no text is active.                                    *)
Left(h, T, D, apart) ==
  /\ h \in Generations /\ T \in SUBSET TextKinds /\ D \in SUBSET DOMAIN h.tools
  /\ Told(h, T, D, apart)
  /\ \A m \in T : h.text[m].announced => h.text[m].done

(* Text that is sent in one piece has no added event.                      *)
LEMMA RestOfTextTold ==
  ASSUME NEW h, NEW apart \in BOOLEAN, NEW T, NEW D, NEW k \in T, Left(h, T, D, apart)
  PROVE  LET f == RestOfText(h, k) IN
         /\ Left(f, T \ {k}, D, apart)
         /\ f.text = h.text /\ f.tools = h.tools
         /\ f.activeKind = h.activeKind /\ f.activeTool = h.activeTool
<1> DEFINE f == RestOfText(h, k)
           t == h.text[k]
           U == T \ {k}
           e == An("done", t.item, NoIndex, NoID, t.text)
<1>0. /\ h \in Generations /\ T \in SUBSET TextKinds /\ D \in SUBSET DOMAIN h.tools
      /\ Told(h, T, D, apart)
      /\ \A m \in T : h.text[m].announced => h.text[m].done
  BY DEF Left
<1>a. U \in SUBSET TextKinds /\ U \subseteq T
  BY <1>0
<1>b. ASSUME NEW x, x \in Generations, Told(x, U, D, apart), x.text = h.text, x.tools = h.tools
      PROVE  Left(x, U, D, apart)
  <2> HIDE DEF U
  <2> QED
    BY <1>0, <1>a, <1>b DEF Left
<1>1. /\ \A m \in T : h.text[m] \in Texts
      /\ \A i \in D : h.tools[i] \in Tools
      /\ h.events \in Seq(AnEvent) /\ h.lastID \in Int
  BY <1>0, Parts
<1>2. /\ TextTold(t, h.events) /\ h.lastID <= t.item /\ t.item \in Int /\ t.text \in Nat
      /\ (t.announced => t.done) /\ t \in Texts
      /\ Distinct(h, T, D) /\ Distinct(h, U, D)
  BY <1>0, <1>1 DEF Told, Texts, Distinct
<1>3. CASE t.text > 0 /\ ~t.done
  <2>1. t.item # NoItem /\ ~t.announced /\ Unmentioned(h.events, t.item)
    BY <1>2, <1>3 DEF Texts, TextTold
  <2>2. e \in AnEvent /\ e.type = "done" /\ e.item = t.item /\ e.type \in ItemTypes
    BY <1>2 DEF An, AnOf, AnEvent, Forms, EventTypes, ItemTypes, NoID
  <2>3. f = [h EXCEPT !.events = Append(h.events, e)]
    BY <1>3 DEF RestOfText, TextDone, Emit, EmitAs, An, AnOf
  <2> HIDE DEF f, e
  <2>4. /\ f \in Generations /\ f.text = h.text /\ f.tools = h.tools
        /\ f.activeKind = h.activeKind /\ f.activeTool = h.activeTool
        /\ f.lastID = h.lastID /\ f.events = Append(h.events, e)
    BY <1>0, <2>2, <2>3, SentIs
  <2>5. /\ \A m \in U : h.text[m].item # e.item
        /\ \A i \in D : h.tools[i].item # e.item
    BY <1>2, <2>1, <2>2 DEF Distinct
  <2>6. Distinct(f, U, D)
    BY <1>2, <2>4 DEF Distinct
  <2>7. \A x : Owned(h, T, D, x) => Owned(f, U, D, x) \/ x = e.item
    BY <2>2, <2>4 DEF Owned
  <2>8. \A i \in DOMAIN h.events : h.events[i].item = e.item => MayFollow(h.events[i], e, apart)
    BY <2>1, <2>2 DEF Unmentioned
  <2>9. Sends(h, f, T, D, U, D, apart, e)
    <3>1. f.lastID \in Int /\ f.lastID <= h.lastID /\ f.lastID <= e.item
      BY <1>1, <1>2, <2>2, <2>4
    <3>2. \A m \in U : /\ m \in T /\ f.text[m] = h.text[m] /\ h.text[m].item # e.item
                       /\ h.text[m] \in Texts
      BY <1>1, <2>4, <2>5
    <3>3. \A i \in D : /\ i \in D /\ f.tools[i] = h.tools[i] /\ h.tools[i].item # e.item
                       /\ h.tools[i] \in Tools
      BY <1>1, <2>4, <2>5
    <3>4. e.item # NoItem /\ e.type # "delta" /\ e.type # "added"
      BY <2>1, <2>2
    <3> HIDE DEF U
    <3> QED
      BY <2>2, <2>4, <2>6, <2>7, <2>8, <3>1, <3>2, <3>3, <3>4 DEF Sends
  <2>10. Told(f, U, D, apart)
    BY <1>0, <2>9, EventTold
  <2> QED
    BY <1>b, <2>4, <2>10 DEF f
<1>4. CASE ~(t.text > 0 /\ ~t.done)
  <2>1. f = h
    BY <1>4 DEF RestOfText
  <2>2. t.item = NoItem \/ Has(h.events, t.item, "done") \/ Unmentioned(h.events, t.item)
    BY <1>2 DEF TextTold
  <2>3. \A x : Owned(h, T, D, x) => Owned(h, U, D, x) \/ x = t.item
    BY DEF Owned
  <2>4. Turns(h, h, T, D, U, D, apart)
    <3>1. h.lastID <= h.lastID
      BY <1>1
    <3>2. \A m \in U : m \in T /\ h.text[m] \in Texts
      BY <1>1
    <3> HIDE DEF U
    <3> QED
      BY <1>1, <1>2, <2>2, <2>3, <3>1, <3>2 DEF Turns
  <2>5. Told(h, U, D, apart)
    BY <1>0, <2>4, SilentlyTold
  <2> QED
    BY <1>0, <1>b, <2>1, <2>5
<1> QED
  BY <1>3, <1>4

LEMMA ToolDoneTold ==
  ASSUME NEW h \in Generations, NEW apart \in BOOLEAN, NEW D \in SUBSET DOMAIN h.tools, NEW i \in D,
         Told(h, {}, D, apart)
  PROVE  /\ h.tools[i].done => Told(h, {}, D \ {i}, apart)
         /\ ~h.tools[i].done =>
              LET f == ToolDone(h, i) IN
              /\ f \in Generations /\ Told(f, {}, D \ {i}, apart)
              /\ f.text = h.text /\ f.tools = h.tools
              /\ f.activeKind = h.activeKind /\ f.activeTool = h.activeTool
<1> DEFINE t == h.tools[i]
           C == D \ {i}
           f == ToolDone(h, i)
<1>1. /\ \A j \in D : h.tools[j] \in Tools
      /\ h.events \in Seq(AnEvent) /\ h.lastID \in Int /\ h.lastID <= 0
      /\ \A j \in DOMAIN h.events : h.lastID <= h.events[j].item
  BY Parts DEF Told
<1>2. /\ ToolTold(t, h.events, apart) /\ h.lastID <= t.item /\ t.item \in Int /\ t \in Tools
      /\ (t.item # NoItem <=> t.announced) /\ (t.done => t.announced)
      /\ Distinct(h, {}, D) /\ Distinct(h, {}, C)
  BY <1>1 DEF Told, Tools, ToolRecords, Distinct
<1>3. ASSUME t.done PROVE Told(h, {}, C, apart)
  <2>1. Has(h.events, t.item, "done")
    BY <1>2, <1>3 DEF ToolTold
  <2>2. \A x : Owned(h, {}, D, x) => Owned(h, {}, C, x) \/ x = t.item
    BY DEF Owned
  <2>3. Turns(h, h, {}, D, {}, C, apart)
    <3>1. h.lastID <= h.lastID
      BY <1>1
    <3>2. \A j \in C : j \in D /\ h.tools[j] \in Tools
      BY <1>1
    <3> HIDE DEF C
    <3> QED
      BY <1>1, <1>2, <2>1, <2>2, <3>1, <3>2 DEF Turns
  <2> QED
    BY <2>3, SilentlyTold
<1>4. ASSUME ~t.done
      PROVE  /\ f \in Generations /\ Told(f, {}, C, apart)
             /\ f.text = h.text /\ f.tools = h.tools
             /\ f.activeKind = h.activeKind /\ f.activeTool = h.activeTool
  <2>1. PICK e \in AnEvent :
          /\ f \in Generations /\ e.type = "done"
          /\ e.item = IF t.announced THEN t.item ELSE h.lastID - 2
          /\ t.announced => e.callID = t.id
          /\ f.text = h.text /\ f.tools = h.tools
          /\ f.activeKind = h.activeKind /\ f.activeTool = h.activeTool
          /\ f.lastID = h.lastID - 2 /\ f.events = Append(h.events, e)
    BY <1>1, ToolDoneIs
  <2> HIDE DEF f
  <2>2. e.item # NoItem /\ e.item \in Int /\ e.type \in ItemTypes
    BY <1>1, <1>2, <2>1 DEF NoItem, ItemTypes
  <2>3. \A j \in C : h.tools[j].item # e.item
    <3> SUFFICES ASSUME NEW j \in C PROVE h.tools[j].item # e.item
      OBVIOUS
    <3>1. CASE t.announced
      BY <1>2, <2>1, <2>2, <3>1 DEF Distinct
    <3>2. CASE ~t.announced
      <4>1. h.lastID <= h.tools[j].item /\ h.tools[j].item \in Int
        BY <1>1 DEF Told, Tools, ToolRecords
      <4> QED
        BY <1>1, <2>1, <3>2, <4>1
    <3> QED
      BY <3>1, <3>2
  <2>4. \A j \in DOMAIN h.events : h.events[j].item = e.item => MayFollow(h.events[j], e, apart)
    <3>1. CASE t.announced
      BY <1>2, <1>4, <2>1, <3>1 DEF ToolTold, MayFollow, Has
    <3>2. CASE ~t.announced
      <4>1. \A j \in DOMAIN h.events : h.events[j] \in AnEvent
        BY <1>1
      <4>2. \A j \in DOMAIN h.events : h.events[j].item \in Int
        BY <4>1 DEF AnEvent
      <4> QED
        BY <1>1, <2>1, <3>2, <4>2
    <3> QED
      BY <3>1, <3>2
  <2>5. Distinct(f, {}, C)
    BY <1>2, <2>1 DEF Distinct
  <2>6. \A x : Owned(h, {}, D, x) => Owned(f, {}, C, x) \/ x = NoItem \/ x = e.item
    BY <1>2, <2>1 DEF Owned
  <2>7. Sends(h, f, {}, D, {}, C, apart, e)
    <3>1. f.lastID \in Int /\ f.lastID <= h.lastID /\ f.lastID <= e.item
      BY <1>1, <1>2, <2>1
    <3>2. \A j \in C : /\ j \in D /\ f.tools[j] = h.tools[j] /\ h.tools[j].item # e.item
                       /\ h.tools[j] \in Tools
      BY <1>1, <2>1, <2>3
    <3>3. e.type # "delta" /\ e.type # "added"
      BY <2>1
    <3> HIDE DEF C
    <3> QED
      BY <2>1, <2>2, <2>4, <2>5, <2>6, <3>1, <3>2, <3>3 DEF Sends
  <2>8. Told(f, {}, C, apart)
    BY <2>7, EventTold
  <2> QED
    BY <2>1, <2>8
<1> QED
  BY <1>3, <1>4

AfterTool(h, i) == IF h.tools[i].done THEN h ELSE ToolDone(h, i)

LEMMA OneToolTold ==
  ASSUME NEW h \in Generations, NEW apart \in BOOLEAN, NEW D, D \subseteq DOMAIN h.tools, NEW i \in D,
         NEW C, C = D \ {i}, Told(h, {}, D, apart)
  PROVE  Told(AfterTool(h, i), {}, C, apart)
<1>1. D \in SUBSET DOMAIN h.tools
  OBVIOUS
<1> DEFINE f == ToolDone(h, i)
<1>2. /\ h.tools[i].done => Told(h, {}, D \ {i}, apart)
      /\ ~h.tools[i].done => Told(f, {}, D \ {i}, apart)
  BY <1>1, ToolDoneTold
<1> HIDE DEF f
<1>3. Told(IF h.tools[i].done THEN h ELSE f, {}, D \ {i}, apart)
  BY <1>2
<1> QED
  BY <1>3 DEF f, AfterTool

LEMMA RestOfToolsTold ==
  ASSUME NEW h \in Generations, NEW apart \in BOOLEAN, Told(h, {}, DOMAIN h.tools, apart),
         NEW order \in Seq(DOMAIN h.tools),
         \A p, q \in DOMAIN order : order[p] = order[q] => p = q,
         \A k \in DOMAIN h.tools : \E p \in DOMAIN order : order[p] = k
  PROVE  LET f == RestOfTools(h, order)[Len(order)] IN
         /\ f \in Generations /\ Told(f, {}, {}, apart)
         /\ f.text = h.text /\ f.tools = h.tools
         /\ f.activeKind = h.activeKind /\ f.activeTool = h.activeTool
<1> DEFINE n == Len(order)
           Same(x) == /\ x.text = h.text /\ x.tools = h.tools
                      /\ x.activeKind = h.activeKind /\ x.activeTool = h.activeTool
           S == {x \in Generations : Same(x) /\ x.lastID <= 0}
           told(x, p) == IF h.tools[order[p]].done THEN x ELSE ToolDone(x, order[p])
           whole(f) == [p \in 0 .. n |-> IF p = 0 THEN h ELSE told(f[p - 1], p)]
           chosen == CHOOSE f : f = whole(f)
           step == [p \in 1 .. n |-> [x \in S |-> told(x, p)]]
           rest(p) == {order[q] : q \in p + 1 .. n}
<1>1. n \in Nat /\ DOMAIN order = 1 .. n /\ \A p \in 1 .. n : order[p] \in DOMAIN h.tools
  OBVIOUS
<1>b. RestOfTools(h, order) = chosen
  <2>1. RestOfTools(h, order) = CHOOSE f : f = [p \in 0 .. Len(order) |->
          IF p = 0 THEN h ELSE IF h.tools[order[p]].done THEN f[p - 1] ELSE ToolDone(f[p - 1], order[p])]
    BY DEF RestOfTools
  <2> QED
    BY <2>1
<1>2. ASSUME NEW x \in S, NEW p \in 1 .. n PROVE told(x, p) \in S
  <2>1. CASE h.tools[order[p]].done
    BY <2>1
  <2>2. CASE ~h.tools[order[p]].done
    <3> DEFINE i == order[p]
               f == ToolDone(x, i)
    <3>1. i \in DOMAIN x.tools /\ x.lastID <= 0 /\ x \in Generations /\ x.lastID \in Int
      BY <1>1, Parts
    <3>2. /\ f \in Generations /\ f.text = x.text /\ f.tools = x.tools
          /\ f.activeKind = x.activeKind /\ f.activeTool = x.activeTool
          /\ f.lastID = x.lastID - 2
      <4> HIDE DEF i
      <4> QED
        BY <3>1, ToolDoneIs
    <3>3. f.lastID <= 0
      BY <3>1, <3>2
    <3>4. told(x, p) = f
      BY <2>2
    <3> HIDE DEF f, i, told
    <3> QED
      BY <3>2, <3>3, <3>4
  <2> QED
    BY <2>1, <2>2
<1>3. h \in S
  BY DEF Told
<1> HIDE DEF n, S, told, step
<1>4. step \in [1 .. n -> [S -> S]]
  BY <1>2 DEF step
<1>a. \A p \in 1 .. n, x \in S : step[p][x] = told(x, p)
  BY DEF step
<1>5. PICK f \in [0 .. n -> S] : Iterates(f, n, h, step)
  BY <1>1, <1>3, <1>4, Recursion
<1>6. f = whole(f)
  <2>1. f[0] = h /\ \A p \in 1 .. n : f[p] = step[p][f[p - 1]]
    BY <1>5 DEF Iterates
  <2>2. \A p \in 1 .. n : p - 1 \in 0 .. n /\ f[p - 1] \in S
    BY <1>1, <1>5
  <2>3. \A p \in 1 .. n : f[p] = told(f[p - 1], p)
    BY <1>a, <2>1, <2>2
  <2>4. \A p \in 0 .. n : p = 0 \/ p \in 1 .. n
    BY <1>1
  <2>5. \A p \in 0 .. n : f[p] = IF p = 0 THEN h ELSE told(f[p - 1], p)
    BY <2>1, <2>3, <2>4
  <2> QED
    BY <1>5, <2>5
<1>7. chosen = whole(chosen)
  BY <1>6
<1> HIDE DEF chosen
<1>8. chosen[0] = h /\ \A p \in 1 .. n : chosen[p] = told(chosen[p - 1], p)
  BY <1>1, <1>7
<1> DEFINE T == {p \in 0 .. n : chosen[p] \in S /\ Told(chosen[p], {}, rest(p), apart)}
<1>9. 0 \in T
  <2>1. rest(0) = DOMAIN h.tools
    BY <1>1
  <2>2. 0 \in 0 .. n
    BY <1>1
  <2> HIDE DEF rest
  <2>3. chosen[0] \in S /\ Told(chosen[0], {}, rest(0), apart)
    BY <1>3, <1>8, <2>1
  <2> QED
    BY <2>2, <2>3
<1>10. \A p \in 0 .. n - 1 : p \in T => p + 1 \in T
  <2> SUFFICES ASSUME NEW p \in 0 .. n - 1, chosen[p] \in S, Told(chosen[p], {}, rest(p), apart)
               PROVE  chosen[p + 1] \in S /\ Told(chosen[p + 1], {}, rest(p + 1), apart)
    BY <1>1
  <2> DEFINE i == order[p + 1]
             x == chosen[p]
  <2>1. p + 1 \in 1 .. n /\ (p + 1) - 1 = p
    BY <1>1
  <2>2. chosen[p + 1] = told(x, p + 1)
    BY <1>8, <2>1
  <2>3. chosen[p + 1] \in S
    BY <1>2, <2>1, <2>2
  <2>4. /\ i \in rest(p) /\ rest(p + 1) = rest(p) \ {i} /\ rest(p) \subseteq DOMAIN h.tools
    <3>1. p + 1 \in p + 1 .. n
      BY <2>1
    <3>2. \A q \in p + 1 .. n : q \in 1 .. n /\ (q = p + 1 \/ q \in (p + 1) + 1 .. n)
      BY <1>1, <2>1
    <3>3. \A q \in (p + 1) + 1 .. n : q \in p + 1 .. n /\ q # p + 1
      BY <1>1, <2>1
    <3>4. \A q \in (p + 1) + 1 .. n : order[q] # i
      BY <1>1, <2>1, <3>2, <3>3
    <3> QED
      BY <1>1, <3>1, <3>2, <3>3, <3>4
  <2>5. x \in Generations /\ x.tools = h.tools
    BY DEF S
  <2> HIDE DEF i, x, rest
  <2>6. Told(x, {}, rest(p), apart)
    BY DEF x
  <2>7. rest(p) \in SUBSET DOMAIN x.tools /\ i \in rest(p)
    BY <2>4, <2>5
  <2>8. Told(AfterTool(x, i), {}, rest(p + 1), apart)
    <3> DEFINE D == rest(p)
               C == rest(p + 1)
    <3>1. /\ x \in Generations /\ D \subseteq DOMAIN x.tools /\ i \in D /\ C = D \ {i}
          /\ Told(x, {}, D, apart)
      BY <2>4, <2>5, <2>6
    <3> HIDE DEF C, D
    <3>2. Told(AfterTool(x, i), {}, C, apart)
      BY <3>1, OneToolTold
    <3> QED
      BY <3>2 DEF C
  <2>9. told(x, p + 1) = AfterTool(x, i)
    BY <2>5 DEF told, i, AfterTool
  <2>10. chosen[p + 1] = told(x, p + 1)
    BY <2>2 DEF x
  <2> HIDE DEF told
  <2>11. Told(chosen[p + 1], {}, rest(p + 1), apart)
    BY <2>4, <2>8, <2>9, <2>10
  <2> QED
    BY <2>3, <2>11
<1> HIDE DEF T, rest
<1>11. 0 .. n \subseteq T
  BY <1>1, <1>9, <1>10, Induction
<1>12. chosen[n] \in S /\ Told(chosen[n], {}, rest(n), apart)
  BY <1>1, <1>11 DEF T
<1>13. rest(n) = {}
  BY <1>1 DEF rest
<1> QED
  BY <1>12, <1>13, <1>b DEF S, n

LEMMA OutputTold ==
  ASSUME NEW h, NEW apart \in BOOLEAN, Live(h, apart)
  PROVE  LET f == EmitGenerationOutputItems(h) IN
         /\ f \in Generations /\ Told(f, {}, {}, apart) /\ Active(f)
         /\ DOMAIN f.tools = DOMAIN h.tools
<1> DEFINE g1 == IF h.activeKind = "tool" THEN Deactivate(h) ELSE FinishActiveItem(h)
           ga == RestOfText(g1, "reasoning")
           g2 == RestOfText(ga, "message")
           order == Ascending(DOMAIN h.tools)
           f == EmitGenerationOutputItems(h)
<1>1. /\ TextKinds = {"message", "reasoning"} /\ "none" \notin TextKinds
      /\ TextKinds \ {"reasoning"} = {"message"} /\ {"message"} \ {"message"} = {}
      /\ "reasoning" \in TextKinds
  BY DEF TextKinds
<1>2. Live(g1, apart) /\ g1.activeKind = "none" /\ g1.tools = h.tools
  <2>1. CASE h.activeKind = "tool"
    BY <2>1, DeactivatedLive
  <2>2. CASE h.activeKind # "tool"
    BY <2>2, FinishLive
  <2> QED
    BY <2>1, <2>2
<1>3. f = RestOfTools(g2, order)[Len(order)]
  BY DEF EmitGenerationOutputItems
<1> HIDE DEF g1
<1>4. /\ Left(g1, TextKinds, DOMAIN h.tools, apart)
      /\ \A m \in TextKinds : g1.text[m].announced => g1.text[m].done
  <2>1. \A m \in TextKinds : g1.text[m].announced => g1.text[m].done
    BY <1>1, <1>2 DEF Live, Active
  <2> QED
    BY <1>2, <2>1 DEF Live, Left
<1>5. /\ Left(ga, TextKinds \ {"reasoning"}, DOMAIN h.tools, apart)
      /\ ga.text = g1.text /\ ga.tools = g1.tools
      /\ ga.activeKind = g1.activeKind /\ ga.activeTool = g1.activeTool
  <2> DEFINE D == DOMAIN h.tools
  <2>1. "reasoning" \in TextKinds
    BY <1>1
  <2>3. Left(g1, TextKinds, D, apart)
    BY <1>4
  <2> HIDE DEF D
  <2>2. /\ Left(ga, TextKinds \ {"reasoning"}, D, apart)
        /\ ga.text = g1.text /\ ga.tools = g1.tools
        /\ ga.activeKind = g1.activeKind /\ ga.activeTool = g1.activeTool
    BY <2>1, <2>3, RestOfTextTold, ZenonT(60)
  <2> QED
    BY <2>2 DEF D
<1> HIDE DEF ga
<1>6. /\ g2 \in Generations /\ Told(g2, {}, DOMAIN h.tools, apart)
      /\ g2.text = ga.text /\ g2.tools = ga.tools
      /\ g2.activeKind = ga.activeKind /\ g2.activeTool = ga.activeTool
  <2>1. Left(ga, {"message"}, DOMAIN h.tools, apart) /\ "message" \in {"message"}
    BY <1>1, <1>5
  <2>2. /\ Left(g2, {"message"} \ {"message"}, DOMAIN h.tools, apart)
        /\ g2.text = ga.text /\ g2.tools = ga.tools
        /\ g2.activeKind = ga.activeKind /\ g2.activeTool = ga.activeTool
    BY <2>1, RestOfTextTold
  <2> QED
    BY <1>1, <2>2 DEF Left
<1> HIDE DEF g2
<1>7. g2.tools = h.tools /\ Told(g2, {}, DOMAIN g2.tools, apart)
  BY <1>2, <1>5, <1>6
<1>8. /\ order \in Seq(DOMAIN g2.tools)
      /\ \A p, q \in DOMAIN order : order[p] = order[q] => p = q
      /\ \A k \in DOMAIN g2.tools : \E p \in DOMAIN order : order[p] = k
  <2>1. IsFiniteSet(DOMAIN h.tools) /\ DOMAIN h.tools \subseteq Nat
    BY Parts DEF Live
  <2> QED
    BY <1>7, <2>1, OrderIs
<1> HIDE DEF order, f
<1>9. /\ f \in Generations /\ Told(f, {}, {}, apart)
      /\ f.text = g2.text /\ f.tools = g2.tools
      /\ f.activeKind = g2.activeKind /\ f.activeTool = g2.activeTool
  BY <1>3, <1>6, <1>7, <1>8, RestOfToolsTold
<1>10. Active(f)
  <2>1. f.activeKind = "none" /\ f.text = g1.text
    BY <1>2, <1>5, <1>6, <1>9
  <2> QED
    BY <1>1, <1>4, <2>1 DEF Active
<1> QED
  BY <1>7, <1>9, <1>10 DEF f

(* A done event in step keeps the rest in step.                            *)
Ends(h, f, late, e) ==
  /\ h.events \in Seq(AnEvent) /\ e \in AnEvent /\ e.type = "done"
  /\ f.events = Append(h.events, e) /\ f.text = h.text /\ f.tools = h.tools
  /\ Has(h.events, e.item, "added") => AddsUp(Sum(h.events, e.item), e, late)

LEMMA EndsFlows ==
  ASSUME NEW h, NEW f, NEW late \in BOOLEAN, NEW e, Ends(h, f, late, e), NEW D, Balanced(h, D, late)
  PROVE  Balanced(f, D, late)
<1>1. \A x : Adding(e, x) = 0
  BY DEF Ends, Adding
<1>2. /\ \A k \in TextKinds : SameText(h.text[k], f.text[k])
      /\ \A i \in D : SameTool(h.tools[i], f.tools[i])
  BY DEF Ends, SameText, SameTool
<1>3. e.type # "added"
  BY DEF Ends
<1> DEFINE N == {}
<1>4. Adds(h, f, D, N, late, e)
  BY <1>1, <1>2, <1>3 DEF Ends, Adds
<1> HIDE DEF N
<1>5. /\ Balanced(h, D, late) => Balanced(f, D, late)
      /\ Streaming(h, D, N) => Streaming(f, D, N)
  BY <1>4, FlowGrows
<1> QED
  BY <1>5

LEMMA RestOfTextFlows ==
  ASSUME NEW h, NEW apart \in BOOLEAN, NEW late \in BOOLEAN, NEW T, NEW D, NEW k \in T,
         Left(h, T, D, apart), Balanced(h, D, late)
  PROVE  Balanced(RestOfText(h, k), D, late)
<1> DEFINE f == RestOfText(h, k)
           t == h.text[k]
           e == An("done", t.item, NoIndex, NoID, t.text)
<1>a. h \in Generations /\ k \in TextKinds /\ Told(h, T, D, apart)
  BY DEF Left
<1>1. t \in Texts /\ h.events \in Seq(AnEvent)
  BY <1>a, Parts
<1>2. TextTold(t, h.events) /\ TextSent(t, h.events)
  BY <1>a DEF Told, Balanced
<1>3. CASE t.text > 0 /\ ~t.done
  <2>1. t.item # NoItem /\ t.item \in Int /\ t.text \in Nat
    BY <1>1, <1>3 DEF Texts
  <2>2. e \in AnEvent /\ e.type = "done" /\ e.item = t.item /\ e.n = t.text /\ e.form = "text"
    BY <2>1 DEF An, AnOf, AnEvent, Forms, EventTypes, ItemTypes, NoID
  <2>3. f = [h EXCEPT !.events = Append(h.events, e)]
    BY <1>3 DEF RestOfText, TextDone, Emit, EmitAs, An, AnOf
  <2> HIDE DEF f, e
  <2>4. f.text = h.text /\ f.tools = h.tools /\ f.events = Append(h.events, e)
    BY <1>a, <2>2, <2>3, SentIs
  <2>5. ASSUME Has(h.events, e.item, "added") PROVE AddsUp(Sum(h.events, e.item), e, late)
    <3>1. t.announced
      BY <1>2, <2>1, <2>2, <2>5 DEF TextTold, Has, Unmentioned
    <3> HIDE DEF t
    <3>2. AddsUp(Sum(h.events, t.item), e, late)
      BY <1>1, <1>2, <2>2, <3>1, DoneTextAddsUp
    <3> QED
      BY <2>2, <3>2
  <2>6. Ends(h, f, late, e)
    BY <1>1, <2>2, <2>4, <2>5 DEF Ends
  <2> QED
    BY <2>6, EndsFlows DEF f
<1>4. CASE ~(t.text > 0 /\ ~t.done)
  BY <1>4 DEF RestOfText
<1> QED
  BY <1>3, <1>4

(* IDs that are made up next were not used before.                         *)
Fresh(h) ==
  /\ h.lastID \in Int /\ h.lastID <= 0
  /\ \A j \in DOMAIN h.events : h.lastID <= h.events[j].item
  /\ \A i \in DOMAIN h.tools : h.lastID <= h.tools[i].item

LEMMA ToolDoneFlows ==
  ASSUME NEW h \in Generations, NEW late \in BOOLEAN, NEW i \in DOMAIN h.tools, Fresh(h),
         Balanced(h, DOMAIN h.tools, late)
  PROVE  LET f == ToolDone(h, i) IN
         f \in Generations /\ f.tools = h.tools /\ Fresh(f) /\ Balanced(f, DOMAIN h.tools, late)
<1> DEFINE t == h.tools[i]
           f == ToolDone(h, i)
           E == h.events
<1>1. t \in Tools /\ E \in Seq(AnEvent) /\ h.lastID \in Int /\ h.lastID <= 0
  BY Parts DEF Fresh
<1>2. PICK e \in AnEvent :
        /\ f \in Generations /\ e.type = "done"
        /\ e.item = IF t.announced THEN t.item ELSE h.lastID - 2
        /\ t.announced => /\ e.callID = t.id
                          /\ e.n = Content(t).n /\ e.form = Content(t).form
        /\ f.text = h.text /\ f.tools = h.tools
        /\ f.lastID = h.lastID - 2 /\ f.events = Append(E, e)
  BY <1>1, ToolDoneIs
<1>3. ToolSent(t, E, late)
  BY DEF Balanced
<1>4. \A j \in DOMAIN E : E[j].item \in Int /\ h.lastID <= E[j].item
  <2>1. \A j \in DOMAIN E : E[j] \in AnEvent
    BY <1>1, ElementOfSeq
  <2> QED
    BY <2>1 DEF AnEvent, Fresh
<1> HIDE DEF f, t
<1>5. ASSUME Has(E, e.item, "added") PROVE AddsUp(Sum(E, e.item), e, late)
  <2>1. t.announced
    <3>1. ASSUME ~t.announced PROVE FALSE
      <4>1. e.item = h.lastID - 2
        BY <1>2, <3>1
      <4>2. PICK j \in DOMAIN E : E[j].item = e.item
        BY <1>5 DEF Has
      <4> QED
        BY <1>1, <1>4, <4>1, <4>2
    <3> QED
      BY <3>1
  <2>2. e.item = t.item /\ e.n = Content(t).n /\ e.form = Content(t).form
    BY <1>2, <2>1
  <2>3. AddsUp(Sum(E, t.item), e, late)
    BY <1>1, <1>3, <2>1, <2>2, DoneToolAddsUp
  <2> QED
    BY <2>2, <2>3
<1>6. Ends(h, f, late, e)
  BY <1>1, <1>2, <1>5 DEF Ends
<1>7. Balanced(f, DOMAIN h.tools, late)
  BY <1>6, EndsFlows
<1>8. Fresh(f)
  <2>1. t.item \in Int /\ h.lastID <= t.item
    BY <1>1 DEF Fresh, Tools, ToolRecords, t
  <2>2. e.item \in Int /\ h.lastID - 2 <= e.item
    BY <1>1, <1>2, <2>1
  <2>3. f.lastID \in Int /\ f.lastID <= 0 /\ f.lastID = h.lastID - 2
    BY <1>1, <1>2
  <2>4. \A j \in DOMAIN f.events : f.lastID <= f.events[j].item
    <3>1. /\ Len(E) \in Nat /\ DOMAIN E = 1 .. Len(E) /\ DOMAIN Append(E, e) = 1 .. Len(E) + 1
          /\ Append(E, e)[Len(E) + 1] = e /\ \A j \in 1 .. Len(E) : Append(E, e)[j] = E[j]
      BY <1>1, <1>2, Appended
    <3> SUFFICES ASSUME NEW j \in 1 .. Len(E) + 1 PROVE f.lastID <= Append(E, e)[j].item
      BY <1>2, <3>1
    <3>2. CASE j \in 1 .. Len(E)
      <4> DEFINE x == E[j].item
      <4>1. Append(E, e)[j] = E[j] /\ x \in Int /\ h.lastID <= x
        BY <1>4, <3>1, <3>2
      <4> HIDE DEF x
      <4>2. f.lastID <= x
        BY <1>1, <2>3, <4>1
      <4> QED
        BY <4>1, <4>2 DEF x
    <3>3. CASE j = Len(E) + 1
      BY <2>2, <2>3, <3>1, <3>3
    <3> QED
      BY <3>1, <3>2, <3>3
  <2>5. \A j \in DOMAIN f.tools : f.lastID <= f.tools[j].item
    <3> SUFFICES ASSUME NEW j \in DOMAIN h.tools PROVE h.lastID - 2 <= h.tools[j].item
      BY <1>2, <2>3
    <3>1. h.tools[j].item \in Int /\ h.lastID <= h.tools[j].item
      BY Parts DEF Fresh, Tools, ToolRecords
    <3> QED
      BY <1>1, <3>1
  <2> QED
    BY <2>3, <2>4, <2>5 DEF Fresh
<1> QED
  BY <1>2, <1>7, <1>8 DEF f

(* What each done event keeps, all of them keep.                           *)
LEMMA RestOfToolsStay ==
  ASSUME NEW h, NEW order \in Seq(DOMAIN h.tools), NEW S, h \in S,
         \A x \in S, i \in DOMAIN h.tools : ToolDone(x, i) \in S
  PROVE  RestOfTools(h, order)[Len(order)] \in S
<1> DEFINE n == Len(order)
           told(x, p) == IF h.tools[order[p]].done THEN x ELSE ToolDone(x, order[p])
           whole(f) == [p \in 0 .. n |-> IF p = 0 THEN h ELSE told(f[p - 1], p)]
           chosen == CHOOSE f : f = whole(f)
           step == [p \in 1 .. n |-> [x \in S |-> told(x, p)]]
<1>1. n \in Nat /\ \A p \in 1 .. n : order[p] \in DOMAIN h.tools
  OBVIOUS
<1>2. RestOfTools(h, order) = chosen
  <2>1. RestOfTools(h, order) = CHOOSE f : f = [p \in 0 .. Len(order) |->
          IF p = 0 THEN h ELSE IF h.tools[order[p]].done THEN f[p - 1] ELSE ToolDone(f[p - 1], order[p])]
    BY DEF RestOfTools
  <2> QED
    BY <2>1
<1>3. \A x \in S, p \in 1 .. n : told(x, p) \in S
  BY <1>1
<1> HIDE DEF n, told, step
<1>4. step \in [1 .. n -> [S -> S]]
  BY <1>3 DEF step
<1>a. \A p \in 1 .. n, x \in S : step[p][x] = told(x, p)
  BY DEF step
<1>5. PICK f \in [0 .. n -> S] : Iterates(f, n, h, step)
  BY <1>1, <1>4, Recursion
<1>6. f = whole(f)
  <2>1. f[0] = h /\ \A p \in 1 .. n : f[p] = step[p][f[p - 1]]
    BY <1>5 DEF Iterates
  <2>2. \A p \in 1 .. n : p - 1 \in 0 .. n /\ f[p - 1] \in S
    BY <1>1, <1>5
  <2>3. \A p \in 1 .. n : f[p] = told(f[p - 1], p)
    BY <1>a, <2>1, <2>2
  <2>4. \A p \in 0 .. n : p = 0 \/ p \in 1 .. n
    BY <1>1
  <2>5. \A p \in 0 .. n : f[p] = IF p = 0 THEN h ELSE told(f[p - 1], p)
    BY <2>1, <2>3, <2>4
  <2> QED
    BY <1>5, <2>5
<1>7. chosen = whole(chosen)
  BY <1>6
<1> HIDE DEF chosen
<1>8. chosen[0] = h /\ \A p \in 1 .. n : chosen[p] = told(chosen[p - 1], p)
  BY <1>1, <1>7
<1> DEFINE T == {p \in 0 .. n : chosen[p] \in S}
<1>9. 0 \in T
  BY <1>1, <1>8
<1>10. \A p \in 0 .. n - 1 : p \in T => p + 1 \in T
  <2> SUFFICES ASSUME NEW p \in 0 .. n - 1, chosen[p] \in S PROVE chosen[p + 1] \in S
    BY <1>1
  <2>1. p + 1 \in 1 .. n /\ (p + 1) - 1 = p
    BY <1>1
  <2>2. chosen[p + 1] = told(chosen[p], p + 1)
    BY <1>8, <2>1
  <2> QED
    BY <1>3, <2>1, <2>2
<1> HIDE DEF T
<1>11. 0 .. n \subseteq T
  BY <1>1, <1>9, <1>10, Induction
<1>12. chosen[n] \in S
  BY <1>1, <1>11 DEF T
<1> QED
  BY <1>2, <1>12 DEF n

(* All done items of an answer are the sums of their deltas.               *)
LEMMA OutputFlows ==
  ASSUME NEW h, NEW apart \in BOOLEAN, NEW late \in BOOLEAN, Live(h, apart),
         Balanced(h, DOMAIN h.tools, late)
  PROVE  DonesAddUp(EmitGenerationOutputItems(h).events, late)
<1> DEFINE g1 == IF h.activeKind = "tool" THEN Deactivate(h) ELSE FinishActiveItem(h)
           ga == RestOfText(g1, "reasoning")
           g2 == RestOfText(ga, "message")
           D == DOMAIN h.tools
           order == Ascending(D)
<1>1. /\ TextKinds = {"message", "reasoning"} /\ TextKinds \ {"reasoning"} = {"message"}
      /\ {"message"} \ {"message"} = {} /\ "none" \notin TextKinds
      /\ "reasoning" \in TextKinds
  BY DEF TextKinds
<1>2. Live(g1, apart) /\ g1.activeKind = "none" /\ DOMAIN g1.tools = D /\ Balanced(g1, D, late)
  <2>1. CASE h.activeKind = "tool"
    <3> DEFINE f == Deactivate(h)
    <3>1. Live(f, apart) /\ f.activeKind = "none" /\ f.tools = h.tools
      BY <2>1, DeactivatedLive
    <3>2. Stays(h, f, D)
      <4>1. f.text = h.text /\ f.tools = h.tools /\ f.events = h.events
        BY DEF Live, Deactivate, Generations
      <4> HIDE DEF f
      <4> QED
        BY <4>1 DEF Stays, SameText, SameTool
    <3>3. Balanced(f, D, late)
      <4> HIDE DEF f
      <4> QED
        BY <3>2, FlowStays
    <3> QED
      BY <2>1, <3>1, <3>3
  <2>2. CASE h.activeKind # "tool"
    <3> DEFINE f == FinishActiveItem(h)
    <3>1. Live(f, apart) /\ f.activeKind = "none" /\ f.tools = h.tools
      BY <2>2, FinishLive
    <3>2. D \in SUBSET DOMAIN h.tools
      OBVIOUS
    <3>3. Balanced(f, D, late)
      BY <2>2, <3>2, FinishFlows
    <3> QED
      BY <2>2, <3>1, <3>3
  <2> QED
    BY <2>1, <2>2
<1>3. EmitGenerationOutputItems(h) = RestOfTools(g2, order)[Len(order)]
  BY DEF EmitGenerationOutputItems
<1> HIDE DEF g1
<1>4. Left(g1, TextKinds, D, apart)
  <2>1. /\ g1 \in Generations /\ Told(g1, TextKinds, D, apart) /\ D \in SUBSET DOMAIN g1.tools
        /\ \A m \in TextKinds : g1.text[m].announced => g1.text[m].done
    BY <1>1, <1>2 DEF Live, Active
  <2> QED
    BY <2>1 DEF Left
<1> HIDE DEF D
<1>5. Left(ga, TextKinds \ {"reasoning"}, D, apart) /\ ga.tools = g1.tools /\ Balanced(ga, D, late)
  <2>1. "reasoning" \in TextKinds
    BY <1>1
  <2>2. /\ Left(ga, TextKinds \ {"reasoning"}, D, apart)
        /\ ga.text = g1.text /\ ga.tools = g1.tools
        /\ ga.activeKind = g1.activeKind /\ ga.activeTool = g1.activeTool
    BY <1>4, <2>1, RestOfTextTold
  <2>3. Balanced(ga, D, late)
    BY <1>2, <1>4, <2>1, RestOfTextFlows
  <2> QED
    BY <2>2, <2>3
<1> HIDE DEF ga
<1>6. Left(ga, {"message"}, D, apart) /\ "message" \in {"message"}
  BY <1>1, <1>5
<1>7. Left(g2, {"message"} \ {"message"}, D, apart) /\ g2.tools = ga.tools
  BY <1>6, RestOfTextTold
<1>8. Balanced(g2, D, late)
  BY <1>5, <1>6, RestOfTextFlows
<1> HIDE DEF g2
<1>9. g2 \in Generations /\ Told(g2, {}, D, apart) /\ g2.tools = g1.tools
  BY <1>1, <1>5, <1>7 DEF Left
<1>10. DOMAIN g2.tools = D
  BY <1>2, <1>9
<1>11. Fresh(g2)
  BY <1>9, <1>10 DEF Told, Fresh
<1>12. order \in Seq(DOMAIN g2.tools)
  <2>1. IsFiniteSet(D) /\ D \subseteq Nat
    BY Parts DEF Live, D
  <2> QED
    BY <1>10, <2>1, OrderIs
<1> DEFINE S == {x \in Generations : x.tools = g2.tools /\ Fresh(x) /\ Balanced(x, D, late)}
<1>13. ASSUME NEW x \in S, NEW i \in DOMAIN g2.tools PROVE ToolDone(x, i) \in S
  <2> DEFINE f == ToolDone(x, i)
  <2>1. /\ x \in Generations /\ i \in DOMAIN x.tools /\ Fresh(x) /\ DOMAIN x.tools = D
        /\ Balanced(x, DOMAIN x.tools, late) /\ x.tools = g2.tools
    BY <1>10
  <2>2. f \in Generations /\ f.tools = x.tools /\ Fresh(f) /\ Balanced(f, DOMAIN x.tools, late)
    BY <2>1, ToolDoneFlows
  <2> QED
    BY <2>1, <2>2
<1>14. g2 \in S
  BY <1>8, <1>9, <1>11
<1> HIDE DEF S, order
<1>15. RestOfTools(g2, order)[Len(order)] \in S
  BY <1>12, <1>13, <1>14, RestOfToolsStay
<1>16. Balanced(RestOfTools(g2, order)[Len(order)], D, late)
  BY <1>15 DEF S
<1> QED
  BY <1>3, <1>16 DEF Balanced

-----------------------------------------------------------------------------
(* Events of the whole response.                                           *)

AllDone(E) == \A e \in DOMAIN E : E[e].type = "added" => Has(E, E[e].item, "done")

(* A response that ended: how is told last and once.                       *)
Finished(E, apart) ==
  /\ Story(E, apart) /\ Len(E) \in DOMAIN E
  /\ \A t \in DOMAIN E : E[t].type \in Terminals <=> t = Len(E)
  /\ E[Len(E)].type \in {"completed", "incomplete"} => AllDone(E)

LEMMA TellIs ==
  ASSUME NEW h \in Generations, NEW type \in {"created"} \union Terminals
  PROVE  LET f == Tell(h, type)
             e == An(type, NoItem, NoIndex, NoID, 0)
         IN  /\ f \in Generations /\ f.text = h.text /\ f.tools = h.tools
             /\ f.activeKind = h.activeKind /\ f.activeTool = h.activeTool
             /\ f.lastID = h.lastID /\ f.events = Append(h.events, e)
             /\ e \in AnEvent /\ e.type = type /\ e.item = NoItem
<1> DEFINE f == Tell(h, type)
           e == An(type, NoItem, NoIndex, NoID, 0)
<1>1. e \in AnEvent /\ e.type = type /\ e.item = NoItem
  BY DEF An, AnOf, AnEvent, Forms, EventTypes, NoItem, NoID
<1>2. f = [h EXCEPT !.events = Append(h.events, e)]
  BY DEF Tell, Emit, EmitAs, An, AnOf
<1> HIDE DEF e, f
<1>3. /\ f \in Generations /\ f.text = h.text /\ f.tools = h.tools
      /\ f.activeKind = h.activeKind /\ f.activeTool = h.activeTool
      /\ f.lastID = h.lastID /\ f.events = Append(h.events, e)
  BY <1>1, <1>2, SentIs
<1> QED
  BY <1>1, <1>3 DEF e, f

LEMMA ToldAtStart ==
  ASSUME NEW h \in Generations, NEW apart \in BOOLEAN, Told(h, {}, {}, apart)
  PROVE  Told(Tell(h, "created"), {}, {}, apart)
<1> DEFINE f == Tell(h, "created")
           e == An("created", NoItem, NoIndex, NoID, 0)
<1>1. /\ f \in Generations /\ f.lastID = h.lastID /\ f.events = Append(h.events, e)
      /\ e \in AnEvent /\ e.type = "created" /\ e.item = NoItem
  BY TellIs
<1> HIDE DEF e, f
<1>2. h.events \in Seq(AnEvent) /\ h.lastID \in Int /\ h.lastID <= 0
  BY DEF Told, Story
<1>3. "created" \notin ItemTypes /\ "created" \notin Terminals
  BY DEF ItemTypes, Terminals
<1>4. Story(f.events, apart)
  <2>1. Story(h.events, apart)
    BY DEF Told
  <2> QED
    BY <1>1, <1>3, <2>1, StoryGrows
<1>5. \A i \in DOMAIN f.events : (i \in DOMAIN h.events /\ f.events[i] = h.events[i]) \/ f.events[i] = e
  <2>1. /\ DOMAIN h.events = 1 .. Len(h.events) /\ DOMAIN f.events = 1 .. Len(h.events) + 1
        /\ Len(h.events) \in Nat /\ f.events[Len(h.events) + 1] = e
        /\ \A i \in 1 .. Len(h.events) : f.events[i] = h.events[i]
    BY <1>1, <1>2, Appended
  <2> QED
    BY <2>1
<1>6. \A x, type : Has(h.events, x, type) => Has(f.events, x, type)
  BY <1>1, <1>2, HasMore
<1>7. \A i \in DOMAIN f.events : f.events[i].type \notin Terminals /\ f.lastID <= f.events[i].item
  BY <1>1, <1>2, <1>3, <1>5 DEF Told, NoItem
<1>8. \A i \in DOMAIN f.events : f.events[i].type = "added" => Has(f.events, f.events[i].item, "done")
  BY <1>1, <1>5, <1>6 DEF Told, Owned
<1> QED
  BY <1>1, <1>2, <1>4, <1>7, <1>8 DEF Told, Distinct, f

LEMMA FinishedBy ==
  ASSUME NEW h \in Generations, NEW apart \in BOOLEAN, NEW T, NEW D, Told(h, T, D, apart),
         NEW type \in Terminals, type \in {"completed", "incomplete"} => T = {} /\ D = {}
  PROVE  LET f == Tell(h, type) IN
         /\ f \in Generations /\ f.text = h.text /\ f.tools = h.tools
         /\ f.activeKind = h.activeKind /\ f.activeTool = h.activeTool
         /\ Finished(f.events, apart)
         /\ f.events[Len(f.events)].type = type
<1> DEFINE f == Tell(h, type)
           e == An(type, NoItem, NoIndex, NoID, 0)
           n == Len(h.events)
<1>1. /\ f \in Generations /\ f.text = h.text /\ f.tools = h.tools
      /\ f.activeKind = h.activeKind /\ f.activeTool = h.activeTool
      /\ f.events = Append(h.events, e)
      /\ e \in AnEvent /\ e.type = type /\ e.item = NoItem
  BY TellIs
<1> HIDE DEF e, f
<1>2. h.events \in Seq(AnEvent) /\ \A i \in DOMAIN h.events : h.events[i].type \notin Terminals
  BY DEF Told, Story
<1>3. type \notin ItemTypes /\ type # "added" /\ type # "delta"
  BY DEF ItemTypes, Terminals
<1>4. Story(f.events, apart)
  <2>1. Story(h.events, apart)
    BY DEF Told
  <2> QED
    BY <1>1, <1>3, <2>1, StoryGrows
<1>5. /\ DOMAIN h.events = 1 .. n /\ DOMAIN f.events = 1 .. n + 1 /\ n \in Nat
      /\ f.events[n + 1] = e /\ Len(f.events) = n + 1
      /\ \A i \in 1 .. n : f.events[i] = h.events[i]
  <2>1. Len(f.events) = n + 1
    BY <1>1, <1>2
  <2> QED
    BY <1>1, <1>2, <2>1, Appended
<1> HIDE DEF n
<1>6. \A t \in 1 .. n + 1 : t \in 1 .. n \/ t = n + 1
  BY <1>5
<1>7. \A t \in DOMAIN f.events : f.events[t].type \in Terminals <=> t = Len(f.events)
  <2>1. \A t \in 1 .. n : f.events[t].type \notin Terminals /\ t # n + 1
    BY <1>2, <1>5
  <2> QED
    BY <1>1, <1>5, <1>6, <2>1
<1>8. type \in {"completed", "incomplete"} => AllDone(f.events)
  <2> SUFFICES ASSUME T = {}, D = {}, NEW i \in DOMAIN f.events, f.events[i].type = "added"
               PROVE  Has(f.events, f.events[i].item, "done")
    BY DEF AllDone
  <2>1. i \in DOMAIN h.events /\ f.events[i] = h.events[i]
    BY <1>1, <1>3, <1>5, <1>6
  <2>2. Has(h.events, f.events[i].item, "done")
    BY <2>1 DEF Told, Owned
  <2> QED
    BY <1>1, <1>2, <2>2, HasMore
<1>9. Len(f.events) \in DOMAIN f.events /\ f.events[Len(f.events)].type = type
  BY <1>1, <1>5
<1> QED
  BY <1>1, <1>4, <1>7, <1>8, <1>9 DEF Finished, f

-----------------------------------------------------------------------------
(* Web search calls and the request that follows them up.                  *)

LEMMA WebSearchCallsAre ==
  ASSUME NEW h \in Generations
  PROVE  LET calls == WebSearchCalls(h) IN
         /\ calls \in Seq(Nat)
         /\ \A p \in DOMAIN calls : calls[p] \in DOMAIN h.tools /\ calls[p] \in Nat
         /\ \A p, q \in DOMAIN calls : calls[p] = calls[q] => p = q
<1> DEFINE S == {i \in DOMAIN h.tools : KindOf(h.tools[i]) = "web_search"}
<1>1. DOMAIN h.tools \subseteq Nat /\ IsFiniteSet(DOMAIN h.tools)
  BY Parts
<1>2. S \subseteq Nat /\ S \subseteq DOMAIN h.tools /\ IsFiniteSet(S)
  BY <1>1, FS_Subset
<1>3. WebSearchCalls(h) = Ascending(S)
  BY DEF WebSearchCalls
<1> HIDE DEF S
<1>4. /\ Ascending(S) \in Seq(S)
      /\ \A p \in DOMAIN Ascending(S) : Ascending(S)[p] \in S
      /\ \A p, q \in DOMAIN Ascending(S) : Ascending(S)[p] = Ascending(S)[q] => p = q
  BY <1>2, OrderIs
<1>5. Ascending(S) \in Seq(Nat)
  <2> DEFINE s == Ascending(S)
             N == Nat
  <2>1. s \in Seq(S) /\ S \subseteq N
    BY <1>2, <1>4
  <2> HIDE DEF s, N
  <2>2. s \in Seq(N)
    BY <2>1
  <2> QED
    BY <2>2 DEF s, N
<1> QED
  BY <1>2, <1>3, <1>4, <1>5

Identified(t, id) == [t EXCEPT !.id = id]

LEMMA IdentifiedIs ==
  ASSUME NEW t \in Tools, NEW id \in Int, id # NoID
  PROVE  LET v == Identified(t, id) IN
         /\ v \in Tools /\ v.id = id /\ v.item = t.item /\ v.kind = t.kind /\ v.name = t.name
         /\ v.announced = t.announced
<1> DEFINE v == Identified(t, id)
<1>1. v \in ToolRecords
  BY DEF Identified, Tools, ToolRecords
<1>2. /\ v.item = t.item /\ v.announced = t.announced /\ v.done = t.done /\ v.args = t.args
      /\ v.decoded = t.decoded /\ v.emitted = t.emitted /\ v.index = t.index /\ v.kind = t.kind
      /\ v.name = t.name /\ v.id = id
      /\ v.value = t.value /\ v.prefix = t.prefix /\ v.json = t.json
  BY DEF Identified, Tools, ToolRecords
<1>3. /\ t.emitted <= t.decoded
      /\ t.announced => t.id # NoID /\ t.index # NoIndex /\ t.kind \in {"function", "custom"}
      /\ t.done => t.announced
      /\ t.item # NoItem <=> t.announced
  BY DEF Tools, ToolRecords
<1> HIDE DEF v
<1>4. Decoding(v)
  BY <1>2, DecodingKept DEF Tools
<1>5. v \in Tools
  BY <1>1, <1>2, <1>3, <1>4 DEF Tools
<1> QED
  BY <1>2, <1>5 DEF v

LEMMA WithIDsIs ==
  ASSUME NEW h \in Generations, NEW apart \in BOOLEAN, Told(h, {}, {}, apart), Active(h),
         DOMAIN h.tools # {}
  PROVE  LET n == WithIDs(h) IN
         /\ n \in Generations /\ Told(n, {}, {}, apart) /\ Active(n)
         /\ DOMAIN n.tools = DOMAIN h.tools
         /\ WebSearchCalls(n) = WebSearchCalls(h)
         /\ \A i \in DOMAIN n.tools : n.tools[i].id # NoID /\ n.tools[i].id \in Int
<1> DEFINE D == DOMAIN h.tools
           given(i) == IF h.tools[i].id = NoID THEN Identified(h.tools[i], h.lastID - 1 - i) ELSE h.tools[i]
           tools == [i \in D |-> given(i)]
           last == h.lastID - 1 - Max(D)
           n == WithIDs(h)
<1>1. /\ D \subseteq Nat /\ IsFiniteSet(D) /\ \A i \in D : h.tools[i] \in Tools
      /\ h.lastID \in Int /\ h.lastID <= 0
  BY Parts DEF Told
<1>2. Max(D) \in Nat
  <2>1. D \subseteq Int
    BY <1>1
  <2> QED
    BY <1>1, <2>1, GreatestIn
<1>3. ASSUME NEW i \in D
      PROVE  /\ given(i) \in Tools /\ given(i).id # NoID /\ given(i).id \in Int
             /\ given(i).kind = h.tools[i].kind /\ given(i).name = h.tools[i].name
  <2>1. h.tools[i] \in Tools /\ h.tools[i].id \in Int
    BY <1>1 DEF Tools, ToolRecords
  <2>2. h.lastID - 1 - i \in Int /\ h.lastID - 1 - i # NoID
    BY <1>1 DEF NoID
  <2>3. CASE h.tools[i].id = NoID
    BY <2>1, <2>2, <2>3, IdentifiedIs
  <2>4. CASE h.tools[i].id # NoID
    BY <2>1, <2>4
  <2> QED
    BY <2>3, <2>4
<1>4. last \in Int /\ last <= h.lastID
  BY <1>1, <1>2
<1>5. n = [h EXCEPT !.tools = tools, !.lastID = last]
  BY DEF WithIDs, Identified, Generations
<1> HIDE DEF given, last
<1>6. tools \in ToolMaps /\ DOMAIN tools = D /\ \A i \in D : tools[i] = given(i)
  <2>1. tools \in [D -> Tools] /\ DOMAIN tools = D
    BY <1>3
  <2> HIDE DEF tools
  <2>2. tools \in ToolMaps
    BY <1>1, <2>1, ToolMapIs
  <2> QED
    BY <2>2 DEF tools
<1> HIDE DEF tools, n
<1>7. /\ n \in Generations /\ n.text = h.text /\ n.tools = tools /\ n.lastID = last
      /\ n.events = h.events /\ n.activeKind = h.activeKind /\ n.activeTool = h.activeTool
  BY <1>4, <1>5, <1>6 DEF Generations
<1>8. Told(n, {}, {}, apart)
  <2>1. Distinct(n, {}, {})
    BY DEF Distinct
  <2>2. Turns(h, n, {}, {}, {}, {}, apart)
    BY <1>4, <1>7, <2>1 DEF Turns, Owned
  <2> QED
    BY <2>2, SilentlyTold
<1>9. Active(n)
  BY <1>6, <1>7 DEF Active
<1>10. WebSearchCalls(n) = WebSearchCalls(h)
  <2>1. \A i \in D : KindOf(n.tools[i]) = KindOf(h.tools[i])
    BY <1>3, <1>6, <1>7 DEF KindOf
  <2>2. {i \in DOMAIN n.tools : KindOf(n.tools[i]) = "web_search"} =
        {i \in D : KindOf(h.tools[i]) = "web_search"}
    BY <1>6, <1>7, <2>1
  <2> QED
    BY <2>2 DEF WebSearchCalls
<1> QED
  BY <1>3, <1>6, <1>7, <1>8, <1>9, <1>10 DEF n

-----------------------------------------------------------------------------
(* The whole response.                                                     *)

Noted(m, d, i) == {r \in DOMAIN m : m[r] = <<d, i>>}

LEMMA NotedMore ==
  ASSUME NEW m \in Seq(Nat \X Nat), NEW d \in Nat, NEW i \in Nat
  PROVE  LET n == Append(m, <<d, i>>) IN
         /\ n \in Seq(Nat \X Nat)
         /\ Noted(m, d, i) = {} => Cardinality(Noted(n, d, i)) = 1
         /\ \A b, j : ~(b = d /\ j = i) => Noted(n, b, j) = Noted(m, b, j)
<1> DEFINE n == Append(m, <<d, i>>)
           at == Len(m) + 1
<1>1. /\ n \in Seq(Nat \X Nat) /\ Len(m) \in Nat
      /\ DOMAIN m = 1 .. Len(m) /\ DOMAIN n = 1 .. Len(m) + 1
      /\ n[at] = <<d, i>> /\ \A r \in 1 .. Len(m) : n[r] = m[r]
  <2>1. <<d, i>> \in Nat \X Nat
    OBVIOUS
  <2> QED
    BY <2>1, Appended
<1> HIDE DEF n
<1>2. \A r \in DOMAIN n : r \in DOMAIN m \/ r = at
  BY <1>1
<1>3. ASSUME Noted(m, d, i) = {} PROVE Cardinality(Noted(n, d, i)) = 1
  <2>1. \A r \in DOMAIN m : m[r] # <<d, i>>
    BY <1>3 DEF Noted
  <2>2. at \in DOMAIN n /\ \A r \in DOMAIN m : n[r] = m[r]
    BY <1>1
  <2> HIDE DEF at
  <2>3. \A r \in DOMAIN n : n[r] = <<d, i>> <=> r = at
    BY <1>1, <1>2, <2>1, <2>2
  <2>4. Noted(n, d, i) = {at}
    BY <2>2, <2>3 DEF Noted
  <2> QED
    BY <2>4, FS_Singleton
<1>4. ASSUME NEW b, NEW j, ~(b = d /\ j = i) PROVE Noted(n, b, j) = Noted(m, b, j)
  <2>1. n[at] # <<b, j>>
    BY <1>1, <1>4
  <2>2. at \notin DOMAIN m
    BY <1>1
  <2> QED
    BY <1>1, <1>2, <2>1, <2>2, SMTT(40) DEF Noted
<1> QED
  BY <1>1, <1>3, <1>4 DEF n

Steps == {"request", "translating", "posting", "streaming", "searching", "ended"}

Requests ==
  [calls : Seq(Nat), asked : UNION {[1 .. n -> Int] : n \in Nat},
   answers : UNION {[1 .. n -> [id : Int, of : Nat]] : n \in Nat}]

(* A follow-up request answers what it asked.                              *)
Paired(req) ==
  /\ DOMAIN req.asked = DOMAIN req.answers
  /\ \A p \in DOMAIN req.asked :
       /\ req.asked[p] # NoID
       /\ req.answers[p].id = req.asked[p]
       /\ req.answers[p].of = req.calls[p]

Types ==
  /\ upstream \in Upstreams /\ pc \in Steps
  /\ g \in Generations /\ Active(g)
  /\ depth \in 0 .. MaxFollowUps /\ chunks \in 0 .. upstream.maxChunks /\ finish \in Finishes
  /\ IsSequence(requests) /\ depth = Len(requests)

(* The events up to now are in order, also at the end.                     *)
EventsInOrder ==
  /\ pc = "streaming" => Live(g, Unindexed)
  /\ pc \in {"request", "translating", "posting", "searching"} => Told(g, {}, {}, Unindexed)
  /\ pc = "ended" => Finished(g.events, Unindexed)

(* Searches executed and still to be executed are those of the answer.     *)
SearchesInOrder ==
  pc = "searching" =>
    /\ results \in Seq(Nat) /\ toSearch \in Seq(Nat)
    /\ results \o toSearch = WebSearchCalls(g) /\ WebSearchCalls(g) # <<>>
    /\ AllWebSearch(g) => depth < MaxFollowUps

RequestsPaired == \A r \in DOMAIN requests : Paired(requests[r])

(* Of each turn before, and of this one up to now, every search is         *)
(* remembered once.                                                        *)
MemoryUpToNow ==
  /\ remembered \in Seq(Nat \X Nat)
  /\ \A d \in Nat, i \in Nat : d > depth => Noted(remembered, d, i) = {}
  /\ pc \in Steps \ {"searching", "ended"} => \A i \in Nat : Noted(remembered, depth, i) = {}
  /\ pc = "searching" =>
       /\ \A p \in DOMAIN results : Cardinality(Noted(remembered, depth, results[p])) = 1
       /\ \A i \in Nat : (\A p \in DOMAIN results : results[p] # i) => Noted(remembered, depth, i) = {}
  /\ \A r \in DOMAIN requests : \A p \in DOMAIN requests[r].calls :
       /\ requests[r].calls[p] \in Nat
       /\ Cardinality(Noted(remembered, r - 1, requests[r].calls[p])) = 1
  /\ pc = "ended" /\ g.events[Len(g.events)].type \in {"completed", "incomplete"} =>
       /\ AllWebSearch(g) /\ WebSearchCalls(g) # <<>> => depth = MaxFollowUps
       /\ ~AllWebSearch(g) => \A p \in DOMAIN WebSearchCalls(g) :
            Cardinality(Noted(remembered, depth, WebSearchCalls(g)[p])) = 1

TurnInv == Types /\ EventsInOrder /\ SearchesInOrder /\ RequestsPaired /\ MemoryUpToNow

LEMMA UnindexedIs == Unindexed \in BOOLEAN
BY DEF Unindexed

(* At the start there are no events.                                       *)
LEMMA InitTurn ==
  ASSUME Init
  PROVE  TurnInv
<1> USE DEF Init
<1>1. /\ g.events = <<>> /\ g.lastID = 0 /\ g.tools = <<>> /\ g.activeKind = "none"
  BY DEF NewGeneration
<1>2. Told(g, {}, {}, Unindexed)
  <2>1. DOMAIN g.events = {} /\ g.events \in Seq(AnEvent)
    <3>1. DOMAIN <<>> = {} /\ <<>> \in Seq(AnEvent)
      BY NoneAndOne
    <3> QED
      BY <1>1, <3>1
  <2>2. Story(g.events, Unindexed)
    BY <2>1 DEF Story
  <2> QED
    BY <1>1, <2>1, <2>2 DEF Told, Distinct
<1>3. g \in Generations /\ Active(g)
  <2>1. g = NewGeneration(g.events, g.lastID)
    BY DEF NewGeneration
  <2> DEFINE x == NewGeneration(g.events, g.lastID)
  <2>2. Live(x, Unindexed)
    BY <1>2, NewLive, UnindexedIs
  <2>3. x \in Generations /\ Active(x)
    BY <2>2 DEF Live
  <2> HIDE DEF x
  <2>4. g = x
    BY <2>1 DEF x
  <2> QED
    BY <2>3, <2>4
<1>4. DOMAIN requests = {} /\ IsSequence(requests) /\ Len(requests) = 0 /\ DOMAIN remembered = {}
      /\ remembered \in Seq(Nat \X Nat)
  BY NoneAndOne
<1>5. Types
  <2>1. 0 \in 0 .. MaxFollowUps /\ 0 \in 0 .. upstream.maxChunks
    BY TurnAssumption
  <2> QED
    BY <1>3, <1>4, <2>1 DEF Types, Steps, Finishes
<1>6. EventsInOrder
  BY <1>2 DEF EventsInOrder
<1>7. SearchesInOrder /\ RequestsPaired
  BY <1>4 DEF SearchesInOrder, RequestsPaired
<1>8. MemoryUpToNow
  <2>1. \A d, i : Noted(remembered, d, i) = {}
    BY <1>4 DEF Noted
  <2> QED
    BY <1>4, <2>1 DEF MemoryUpToNow
<1> QED
  BY <1>5, <1>6, <1>7, <1>8 DEF TurnInv

(* An error ends the response at any time.                                 *)
LEMMA EndsWith ==
  ASSUME TurnInv, pc # "ended", NEW type \in {"failed", "refused"},
         g' = Tell(g, type), pc' = "ended", Stay
  PROVE  TurnInv'
<1> USE DEF Stay
<1>1. /\ upstream' = upstream /\ depth' = depth /\ chunks' = chunks /\ finish' = finish
      /\ requests' = requests /\ remembered' = remembered
      /\ g \in Generations /\ Active(g)
  BY DEF TurnInv, Types
<1>2. Unindexed' = Unindexed
  BY <1>1 DEF Unindexed
<1>3. type \in Terminals /\ type \notin {"completed", "incomplete"}
  BY DEF Terminals
<1>4. \E T, D : Told(g, T, D, Unindexed)
  <2>1. pc \in Steps
    BY DEF TurnInv, Types
  <2> QED
    BY <2>1 DEF TurnInv, EventsInOrder, Live, Steps
<1>5. /\ g' \in Generations /\ g'.text = g.text /\ g'.tools = g.tools
      /\ g'.activeKind = g.activeKind /\ g'.activeTool = g.activeTool
      /\ Finished(g'.events, Unindexed) /\ g'.events[Len(g'.events)].type = type
  <2>1. PICK T, D : Told(g, T, D, Unindexed)
    BY <1>4
  <2> DEFINE f == Tell(g, type)
  <2>2. /\ f \in Generations /\ f.text = g.text /\ f.tools = g.tools
        /\ f.activeKind = g.activeKind /\ f.activeTool = g.activeTool
        /\ Finished(f.events, Unindexed) /\ f.events[Len(f.events)].type = type
    BY <1>1, <1>3, <2>1, FinishedBy, UnindexedIs
  <2> QED
    BY <2>2
<1>6. Active(g')
  BY <1>1, <1>5 DEF Active
<1>7. Types'
  BY <1>1, <1>5, <1>6 DEF TurnInv, Types, Steps
<1>8. EventsInOrder'
  BY <1>2, <1>5 DEF EventsInOrder
<1>9. SearchesInOrder' /\ RequestsPaired'
  BY <1>1 DEF SearchesInOrder, RequestsPaired, TurnInv
<1>10. MemoryUpToNow'
  BY <1>1, <1>3, <1>5 DEF MemoryUpToNow, TurnInv, Steps
<1> QED
  BY <1>7, <1>8, <1>9, <1>10 DEF TurnInv

(* The end of an answer: the response is completed, or its searches begin. *)
LEMMA HandleTurn ==
  ASSUME TurnInv, pc \in {"posting", "streaming"}, NEW h, Live(h, Unindexed),
         NEW reason \in Finishes, HandleGeneration(h, reason)
  PROVE  TurnInv'
<1> DEFINE shown == EmitGenerationOutputItems(h)
           calls == WebSearchCalls(shown)
           type == IF reason = "length" THEN "incomplete" ELSE "completed"
<1>1. /\ upstream' = upstream /\ depth' = depth /\ chunks' = chunks /\ finish' = reason
      /\ requests' = requests /\ remembered' = remembered
      /\ IF calls = <<>> \/ FollowUpsExceeded(shown)
           THEN g' = Tell(shown, type) /\ pc' = "ended"
           ELSE g' = shown /\ pc' = "searching" /\ toSearch' = calls /\ results' = <<>>
  BY DEF HandleGeneration, Completion
<1>2. /\ shown \in Generations /\ Told(shown, {}, {}, Unindexed) /\ Active(shown)
  BY OutputTold, UnindexedIs
<1>3. Unindexed' = Unindexed
  BY <1>1 DEF Unindexed
<1>4. /\ calls \in Seq(Nat) /\ \A p \in DOMAIN calls : calls[p] \in Nat
  BY <1>2, WebSearchCallsAre
<1>5. type \in {"completed", "incomplete"} /\ type \in Terminals
  BY DEF Terminals
<1>6. /\ upstream \in Upstreams /\ depth \in 0 .. MaxFollowUps /\ chunks \in 0 .. upstream.maxChunks
      /\ IsSequence(requests) /\ depth = Len(requests) /\ RequestsPaired
      /\ remembered \in Seq(Nat \X Nat)
      /\ \A d \in Nat, i \in Nat : d > depth => Noted(remembered, d, i) = {}
      /\ \A i \in Nat : Noted(remembered, depth, i) = {}
      /\ \A r \in DOMAIN requests : \A p \in DOMAIN requests[r].calls :
           /\ requests[r].calls[p] \in Nat
           /\ Cardinality(Noted(remembered, r - 1, requests[r].calls[p])) = 1
  BY DEF TurnInv, Types, MemoryUpToNow, Steps
<1> HIDE DEF shown, type
<1>7. CASE calls = <<>> \/ FollowUpsExceeded(shown)
  <2> DEFINE f == Tell(shown, type)
  <2>1. /\ f \in Generations /\ f.text = shown.text /\ f.tools = shown.tools
        /\ f.activeKind = shown.activeKind /\ f.activeTool = shown.activeTool
        /\ Finished(f.events, Unindexed) /\ f.events[Len(f.events)].type = type
    BY <1>2, <1>5, FinishedBy, UnindexedIs
  <2>2. g' = f /\ pc' = "ended"
    BY <1>1, <1>7
  <2> HIDE DEF f
  <2>3. Active(f)
    BY <1>2, <2>1 DEF Active
  <2>4. Types'
    BY <1>1, <1>6, <2>1, <2>2, <2>3 DEF Types, Steps
  <2>5. EventsInOrder'
    BY <1>3, <2>1, <2>2 DEF EventsInOrder
  <2>6. SearchesInOrder' /\ RequestsPaired'
    BY <1>1, <1>6, <2>2 DEF SearchesInOrder, RequestsPaired
  <2>7. WebSearchCalls(f) = calls /\ (AllWebSearch(f) <=> AllWebSearch(shown))
    BY <2>1 DEF WebSearchCalls, AllWebSearch
  <2>8. FollowUpsExceeded(shown) => AllWebSearch(shown) /\ depth = MaxFollowUps
    BY <1>6, TurnAssumption DEF FollowUpsExceeded
  <2>9. /\ AllWebSearch(f) /\ WebSearchCalls(f) # <<>> => depth = MaxFollowUps
        /\ ~AllWebSearch(f) => DOMAIN WebSearchCalls(f) = {}
    BY <1>7, <2>7, <2>8
  <2>10. MemoryUpToNow'
    BY <1>1, <1>6, <2>2, <2>9 DEF MemoryUpToNow, Steps
  <2> QED
    BY <2>4, <2>5, <2>6, <2>10 DEF TurnInv
<1>8. CASE ~(calls = <<>> \/ FollowUpsExceeded(shown))
  <2>1. g' = shown /\ pc' = "searching" /\ toSearch' = calls /\ results' = <<>>
    BY <1>1, <1>8
  <2>2. Types'
    BY <1>1, <1>2, <1>6, <2>1 DEF Types, Steps
  <2>3. EventsInOrder'
    BY <1>2, <1>3, <2>1 DEF EventsInOrder
  <2>4. SearchesInOrder'
    <3>1. <<>> \o calls = calls /\ <<>> \in Seq(Nat)
      BY <1>4
    <3>2. AllWebSearch(shown) => depth < MaxFollowUps
      BY <1>6, <1>8, TurnAssumption DEF FollowUpsExceeded
    <3> HIDE DEF calls
    <3>3. (WebSearchCalls(g))' = calls /\ calls # <<>> /\ (AllWebSearch(g)' <=> AllWebSearch(shown))
      BY <1>8, <2>1 DEF calls
    <3> QED
      BY <1>1, <1>4, <2>1, <3>1, <3>2, <3>3 DEF SearchesInOrder
  <2>5. RequestsPaired'
    BY <1>1, <1>6 DEF RequestsPaired
  <2>6. MemoryUpToNow'
    <3>1. DOMAIN results' = {}
      BY <2>1
    <3> QED
      BY <1>1, <1>6, <2>1, <3>1 DEF MemoryUpToNow, Steps
  <2> QED
    BY <2>2, <2>3, <2>4, <2>5, <2>6 DEF TurnInv
<1> QED
  BY <1>7, <1>8

(* A search that was executed is remembered, and is none of those before.  *)
LEMMA SearchTurn ==
  ASSUME TurnInv, pc = "searching", toSearch # <<>>,
         results' = Append(results, Head(toSearch)),
         remembered' = Append(remembered, <<depth, Head(toSearch)>>),
         toSearch' = Tail(toSearch),
         UNCHANGED <<upstream, pc, g, depth, chunks, finish, requests>>
  PROVE  TurnInv'
<1> DEFINE x == Head(toSearch)
           calls == WebSearchCalls(g)
           n == Len(results)
<1>1. /\ results \in Seq(Nat) /\ toSearch \in Seq(Nat)
      /\ results \o toSearch = calls /\ calls # <<>>
      /\ AllWebSearch(g) => depth < MaxFollowUps
  BY DEF TurnInv, SearchesInOrder
<1>2. /\ Types /\ EventsInOrder /\ RequestsPaired /\ MemoryUpToNow
      /\ g \in Generations /\ depth \in Nat /\ IsSequence(requests) /\ depth = Len(requests)
  BY TurnAssumption DEF TurnInv, Types
<1>3. Types' /\ EventsInOrder' /\ RequestsPaired'
  <2>1. Unindexed' = Unindexed
    BY DEF Unindexed
  <2> QED
    BY <1>2, <2>1 DEF Types, EventsInOrder, RequestsPaired
<1>4. /\ x \in Nat /\ Tail(toSearch) \in Seq(Nat) /\ Append(results, x) \in Seq(Nat)
      /\ Append(results, x) \o Tail(toSearch) = calls
      /\ x = calls[n + 1] /\ n + 1 \in DOMAIN calls /\ n \in Nat /\ DOMAIN results = 1 .. n
      /\ \A p \in 1 .. n : p \in DOMAIN calls /\ results[p] = calls[p]
      /\ DOMAIN Append(results, x) = 1 .. n + 1 /\ Append(results, x)[n + 1] = x
      /\ \A p \in 1 .. n : Append(results, x)[p] = results[p]
  <2>1. results \in Seq(Nat) /\ toSearch \in Seq(Nat) /\ toSearch # <<>> /\ results \o toSearch = calls
    BY <1>1
  <2>2. IsMoved(results, toSearch, Nat)
    BY <2>1, Moved
  <2>3. n = Len(results) /\ x = Head(toSearch)
    OBVIOUS
  <2> HIDE DEF calls, n, x
  <2> QED
    BY <2>1, <2>2, <2>3 DEF IsMoved
<1>5. SearchesInOrder'
  <2>1. (WebSearchCalls(g))' = calls /\ (AllWebSearch(g)' <=> AllWebSearch(g))
    OBVIOUS
  <2> HIDE DEF x, calls
  <2> QED
    BY <1>1, <1>4, <2>1 DEF SearchesInOrder, x
<1>6. \A p \in 1 .. n : results[p] # x
  <2>1. \A p, q \in DOMAIN calls : calls[p] = calls[q] => p = q
    BY <1>2, WebSearchCallsAre
  <2> HIDE DEF x, calls, n
  <2> SUFFICES ASSUME NEW p \in 1 .. n, results[p] = x PROVE FALSE
    OBVIOUS
  <2>2. p # n + 1
    BY <1>4
  <2> QED
    BY <1>4, <2>1, <2>2
<1>7. Noted(remembered, depth, x) = {}
  BY <1>2, <1>4, <1>6 DEF MemoryUpToNow
<1>8. /\ remembered' \in Seq(Nat \X Nat)
      /\ Cardinality(Noted(remembered', depth, x)) = 1
      /\ \A b, j : ~(b = depth /\ j = x) => Noted(remembered', b, j) = Noted(remembered, b, j)
  <2>1. remembered \in Seq(Nat \X Nat)
    BY <1>2 DEF MemoryUpToNow
  <2> DEFINE m == Append(remembered, <<depth, x>>)
  <2>2. /\ m \in Seq(Nat \X Nat)
        /\ Cardinality(Noted(m, depth, x)) = 1
        /\ \A b, j : ~(b = depth /\ j = x) => Noted(m, b, j) = Noted(remembered, b, j)
    <3> HIDE DEF x
    <3>1. x \in Nat /\ depth \in Nat
      BY <1>2, <1>4
    <3> QED
      BY <1>7, <2>1, <3>1, NotedMore
  <2> HIDE DEF m
  <2>3. remembered' = m
    BY DEF m
  <2> QED
    BY <2>2, <2>3
<1> HIDE DEF x, n, calls
<1>9. \A p \in 1 .. n + 1 : p \in 1 .. n \/ p = n + 1
  BY <1>4
<1>10. results' = Append(results, x) /\ depth' = depth /\ requests' = requests /\ pc' = pc
  BY DEF x
<1>11. \A p \in DOMAIN results' : Cardinality(Noted(remembered', depth, results'[p])) = 1
  <2> SUFFICES ASSUME NEW p \in 1 .. n + 1
               PROVE  Cardinality(Noted(remembered', depth, results'[p])) = 1
    BY <1>4, <1>10
  <2>1. CASE p = n + 1
    BY <1>4, <1>8, <1>10, <2>1
  <2>2. CASE p \in 1 .. n
    <3>1. results'[p] = results[p] /\ results[p] # x
      BY <1>4, <1>6, <1>10, <2>2
    <3>2. Cardinality(Noted(remembered, depth, results[p])) = 1
      BY <1>2, <1>4, <2>2 DEF MemoryUpToNow
    <3> QED
      BY <1>8, <3>1, <3>2
  <2> QED
    BY <1>9, <2>1, <2>2
<1>12. \A i \in Nat : (\A p \in DOMAIN results' : results'[p] # i) => Noted(remembered', depth, i) = {}
  <2> SUFFICES ASSUME NEW i \in Nat, \A p \in DOMAIN results' : results'[p] # i
               PROVE  Noted(remembered', depth, i) = {}
    OBVIOUS
  <2>1. n + 1 \in DOMAIN results' /\ \A p \in 1 .. n : p \in DOMAIN results'
    BY <1>4, <1>10
  <2>2. i # x /\ \A p \in 1 .. n : results[p] # i
    BY <1>4, <1>10, <2>1
  <2>3. Noted(remembered, depth, i) = {}
    BY <1>2, <1>4, <2>2 DEF MemoryUpToNow
  <2> QED
    BY <1>8, <2>2, <2>3
<1>13. \A d \in Nat, i \in Nat : d > depth => Noted(remembered', d, i) = {}
  <2> SUFFICES ASSUME NEW d \in Nat, NEW i \in Nat, d > depth PROVE Noted(remembered', d, i) = {}
    OBVIOUS
  <2>1. d # depth
    BY <1>2
  <2>2. Noted(remembered, d, i) = {}
    BY <1>2 DEF MemoryUpToNow
  <2> QED
    BY <1>8, <2>1, <2>2
<1>14. \A r \in DOMAIN requests : \A p \in DOMAIN requests[r].calls :
         /\ requests[r].calls[p] \in Nat
         /\ Cardinality(Noted(remembered', r - 1, requests[r].calls[p])) = 1
  <2> SUFFICES ASSUME NEW r \in DOMAIN requests, NEW p \in DOMAIN requests[r].calls
               PROVE  /\ requests[r].calls[p] \in Nat
                      /\ Cardinality(Noted(remembered', r - 1, requests[r].calls[p])) = 1
    OBVIOUS
  <2>1. DOMAIN requests = 1 .. depth
    BY <1>2 DEF IsSequence
  <2>2. r - 1 # depth
    BY <1>2, <2>1
  <2>3. requests[r].calls[p] \in Nat /\ Cardinality(Noted(remembered, r - 1, requests[r].calls[p])) = 1
    BY <1>2 DEF MemoryUpToNow
  <2> QED
    BY <1>8, <2>2, <2>3
<1>15. MemoryUpToNow'
  BY <1>8, <1>10, <1>11, <1>12, <1>13, <1>14, ZenonT(60) DEF MemoryUpToNow, Steps
<1> QED
  BY <1>3, <1>5, <1>15 DEF TurnInv

LEMMA CompleteMixedTurn ==
  ASSUME TurnInv, CompleteMixed
  PROVE  TurnInv'
<1> DEFINE type == IF finish = "length" THEN "incomplete" ELSE "completed"
           f == Tell(g, type)
<1>1. /\ pc = "searching" /\ toSearch = <<>> /\ ~AllWebSearch(g) /\ g' = f /\ pc' = "ended"
      /\ upstream' = upstream /\ depth' = depth /\ chunks' = chunks /\ finish' = finish
      /\ requests' = requests /\ remembered' = remembered
  BY DEF CompleteMixed, Completion, Stay
<1>2. /\ Types /\ RequestsPaired /\ MemoryUpToNow /\ g \in Generations /\ Active(g)
      /\ Told(g, {}, {}, Unindexed)
  BY <1>1 DEF TurnInv, Types, EventsInOrder
<1>3. results = WebSearchCalls(g)
  <2>1. results \in Seq(Nat) /\ results \o <<>> = WebSearchCalls(g)
    BY <1>1 DEF TurnInv, SearchesInOrder
  <2> QED
    BY <2>1
<1>4. type \in {"completed", "incomplete"} /\ type \in Terminals
  BY DEF Terminals
<1>5. Unindexed' = Unindexed
  BY <1>1 DEF Unindexed
<1> HIDE DEF type
<1>6. /\ f \in Generations /\ f.text = g.text /\ f.tools = g.tools
      /\ f.activeKind = g.activeKind /\ f.activeTool = g.activeTool
      /\ Finished(f.events, Unindexed) /\ f.events[Len(f.events)].type = type
  BY <1>2, <1>4, FinishedBy, UnindexedIs
<1> HIDE DEF f
<1>7. Active(f)
  BY <1>2, <1>6 DEF Active
<1>8. Types'
  BY <1>1, <1>2, <1>6, <1>7 DEF Types, Steps
<1>9. EventsInOrder'
  BY <1>1, <1>5, <1>6 DEF EventsInOrder
<1>10. SearchesInOrder' /\ RequestsPaired'
  BY <1>1, <1>2 DEF SearchesInOrder, RequestsPaired
<1>11. MemoryUpToNow'
  <2>1. WebSearchCalls(f) = WebSearchCalls(g) /\ ~AllWebSearch(f)
    BY <1>1, <1>6 DEF WebSearchCalls, AllWebSearch
  <2>2. \A p \in DOMAIN WebSearchCalls(f) :
          Cardinality(Noted(remembered, depth, WebSearchCalls(f)[p])) = 1
    BY <1>1, <1>2, <1>3, <2>1 DEF MemoryUpToNow
  <2> QED
    BY <1>1, <1>2, <2>1, <2>2 DEF MemoryUpToNow, Steps
<1> QED
  BY <1>8, <1>9, <1>10, <1>11 DEF TurnInv

(* The request that is made is one that answers what it asks.              *)
LEMMA RequestMade ==
  ASSUME NEW n, NEW calls, calls = WebSearchCalls(n), results = calls,
         \A p \in DOMAIN calls : calls[p] \in DOMAIN n.tools,
         \A i \in DOMAIN n.tools : n.tools[i].id # NoID
  PROVE  LET req == FollowUpRequest(g, n) IN Paired(req) /\ req.calls = calls
<1> DEFINE req == FollowUpRequest(g, n)
<1>1. /\ req.calls = calls
      /\ req.asked = [p \in DOMAIN calls |-> n.tools[calls[p]].id]
      /\ req.answers = [p \in DOMAIN calls |-> [id |-> n.tools[calls[p]].id, of |-> results[p]]]
  BY DEF FollowUpRequest
<1> HIDE DEF req
<1>2. Paired(req)
  BY <1>1 DEF Paired
<1> QED
  BY <1>1, <1>2 DEF req

LEMMA FollowUpTurn ==
  ASSUME TurnInv, FollowUp
  PROVE  TurnInv'
<1> DEFINE n == WithIDs(g)
           req == FollowUpRequest(g, n)
           calls == WebSearchCalls(g)
<1>1. /\ pc = "searching" /\ toSearch = <<>> /\ AllWebSearch(g) /\ g' = n /\ pc' = "posting"
      /\ requests' = Append(requests, req) /\ depth' = depth + 1
      /\ upstream' = upstream /\ chunks' = chunks /\ finish' = finish /\ remembered' = remembered
  BY DEF FollowUp
<1>2. /\ Types /\ RequestsPaired /\ MemoryUpToNow /\ g \in Generations /\ Active(g)
      /\ Told(g, {}, {}, Unindexed) /\ depth < MaxFollowUps /\ calls # <<>>
  BY <1>1 DEF TurnInv, Types, EventsInOrder, SearchesInOrder
<1>3. results = calls
  <2>1. results \in Seq(Nat) /\ results \o <<>> = calls
    BY <1>1 DEF TurnInv, SearchesInOrder
  <2> QED
    BY <2>1
<1>4. /\ calls \in Seq(Nat) /\ \A p \in DOMAIN calls : calls[p] \in DOMAIN g.tools /\ calls[p] \in Nat
  BY <1>2, WebSearchCallsAre
<1>5. DOMAIN g.tools # {}
  <2> HIDE DEF calls
  <2>1. 1 \in DOMAIN calls
    BY <1>2, <1>4
  <2> QED
    BY <1>4, <2>1
<1>6. Unindexed' = Unindexed
  BY <1>1 DEF Unindexed
<1>7. /\ n \in Generations /\ Told(n, {}, {}, Unindexed) /\ Active(n)
      /\ DOMAIN n.tools = DOMAIN g.tools /\ WebSearchCalls(n) = calls
      /\ \A i \in DOMAIN n.tools : n.tools[i].id # NoID /\ n.tools[i].id \in Int
  BY <1>2, <1>5, WithIDsIs, UnindexedIs
<1> HIDE DEF n
<1>8. Paired(req) /\ req.calls = calls
  BY <1>3, <1>4, <1>7, RequestMade
<1> HIDE DEF req, calls
<1>9. /\ IsSequence(requests') /\ Len(requests') = Len(requests) + 1 /\ Len(requests) \in Nat
      /\ DOMAIN requests = 1 .. Len(requests) /\ DOMAIN requests' = 1 .. Len(requests) + 1
      /\ requests'[Len(requests) + 1] = req
      /\ \A r \in 1 .. Len(requests) : requests'[r] = requests[r]
  <2>1. IsSequence(requests)
    BY <1>2 DEF Types
  <2> DEFINE more == Append(requests, req)
  <2>2. /\ IsSequence(more) /\ Len(more) = Len(requests) + 1 /\ Len(requests) \in Nat
        /\ DOMAIN requests = 1 .. Len(requests) /\ DOMAIN more = 1 .. Len(requests) + 1
        /\ more[Len(requests) + 1] = req
        /\ \A r \in 1 .. Len(requests) : more[r] = requests[r]
    BY <2>1, AppendedToAny
  <2>3. requests' = more
    BY <1>1
  <2> HIDE DEF more
  <2> QED
    BY <2>2, <2>3
<1>10. \A r \in DOMAIN requests' : \/ r \in DOMAIN requests /\ requests'[r] = requests[r]
                                   \/ r = Len(requests) + 1 /\ requests'[r] = req
  BY <1>9
<1>11. depth = Len(requests) /\ depth \in Nat
  BY <1>2, <1>9 DEF Types
<1>12. Types'
  <2>1. depth + 1 \in 0 .. MaxFollowUps
    BY <1>2, <1>11, TurnAssumption
  <2> QED
    BY <1>1, <1>2, <1>7, <1>9, <1>11, <2>1 DEF Types, Steps
<1>13. EventsInOrder' /\ SearchesInOrder'
  BY <1>1, <1>6, <1>7 DEF EventsInOrder, SearchesInOrder
<1>14. RequestsPaired'
  BY <1>2, <1>8, <1>10 DEF RequestsPaired
<1>15. MemoryUpToNow'
  <2>1. \A d \in Nat, i \in Nat : d > depth + 1 => Noted(remembered, d, i) = {}
    <3> SUFFICES ASSUME NEW d \in Nat, NEW i \in Nat, d > depth + 1 PROVE Noted(remembered, d, i) = {}
      OBVIOUS
    <3>1. d > depth
      BY <1>11
    <3> QED
      BY <1>2, <3>1 DEF MemoryUpToNow
  <2>2. \A i \in Nat : Noted(remembered, depth + 1, i) = {}
    <3>1. depth + 1 \in Nat /\ depth + 1 > depth
      BY <1>11
    <3> QED
      BY <1>2, <3>1 DEF MemoryUpToNow
  <2>3. ASSUME NEW r \in DOMAIN requests', NEW p \in DOMAIN requests'[r].calls
        PROVE  /\ requests'[r].calls[p] \in Nat
               /\ Cardinality(Noted(remembered, r - 1, requests'[r].calls[p])) = 1
    <3>1. CASE r \in DOMAIN requests /\ requests'[r] = requests[r]
      BY <1>2, <2>3, <3>1 DEF MemoryUpToNow
    <3>2. CASE r = Len(requests) + 1 /\ requests'[r] = req
      <4>1. p \in DOMAIN calls /\ requests'[r].calls = calls
        BY <1>8, <2>3, <3>2
      <4>2. r - 1 = depth
        BY <1>11, <3>2
      <4>3. Cardinality(Noted(remembered, depth, calls[p])) = 1
        BY <1>1, <1>2, <1>3, <4>1 DEF MemoryUpToNow
      <4> QED
        BY <1>4, <4>1, <4>2, <4>3
    <3> QED
      BY <1>10, <3>1, <3>2
  <2> QED
    BY <1>1, <1>2, <2>1, <2>2, <2>3 DEF MemoryUpToNow, Steps
<1> QED
  BY <1>12, <1>13, <1>14, <1>15 DEF TurnInv

(* Steps of a turn before its searches.                                    *)
LEMMA TurnGoesOn ==
  ASSUME TurnInv, pc \in Steps \ {"searching", "ended"}, pc' \in Steps \ {"searching", "ended"},
         UNCHANGED <<upstream, depth, finish, requests, remembered>>,
         chunks' \in 0 .. upstream.maxChunks, g' \in Generations, Active(g'), EventsInOrder'
  PROVE  TurnInv'
<1>1. Types'
  BY DEF TurnInv, Types, Steps
<1>2. SearchesInOrder' /\ RequestsPaired'
  BY DEF TurnInv, SearchesInOrder, RequestsPaired
<1>3. MemoryUpToNow'
  BY DEF TurnInv, MemoryUpToNow, Steps
<1> QED
  BY <1>1, <1>2, <1>3 DEF TurnInv

LEMMA NextTurn ==
  ASSUME TurnInv, [Next]_vars
  PROVE  TurnInv'
<1>0. /\ upstream \in Upstreams /\ chunks \in 0 .. upstream.maxChunks /\ g \in Generations /\ Active(g)
      /\ upstream.maxChunks \in Nat /\ upstream.chunks \subseteq Chunks
  BY TurnAssumption DEF TurnInv, Types
<1>a. pc \in {"request", "translating", "posting", "searching"} => Told(g, {}, {}, Unindexed)
  BY DEF TurnInv, EventsInOrder
<1>1. CASE Refuse
  <2>1. pc # "ended" /\ g' = Tell(g, "refused") /\ pc' = "ended" /\ Stay
    BY <1>1 DEF Refuse
  <2> QED
    BY <2>1, EndsWith
<1>2. ASSUME Fail, pc # "ended" PROVE TurnInv'
  <2>1. g' = Tell(g, "failed") /\ pc' = "ended" /\ Stay
    BY <1>2 DEF Fail
  <2> QED
    BY <1>2, <2>1, EndsWith
<1>3. CASE Begin
  <2> DEFINE f == Tell(g, "created")
  <2>1. /\ pc = "request" /\ g' = f /\ pc' = "translating"
        /\ UNCHANGED <<upstream, depth, chunks, finish, requests, remembered>>
    BY <1>3 DEF Begin, Stay
  <2>2. f \in Generations /\ f.tools = g.tools /\ f.text = g.text
        /\ f.activeKind = g.activeKind /\ f.activeTool = g.activeTool
    BY <1>0, TellIs
  <2>3. Told(f, {}, {}, Unindexed)
    BY <1>0, <1>a, <2>1, ToldAtStart, UnindexedIs
  <2> HIDE DEF f
  <2>4. Active(f)
    BY <1>0, <2>2 DEF Active
  <2>5. Unindexed' = Unindexed
    BY <2>1 DEF Unindexed
  <2>6. EventsInOrder'
    BY <2>1, <2>3, <2>5 DEF EventsInOrder
  <2> QED
    BY <1>0, <2>1, <2>2, <2>4, <2>6, TurnGoesOn DEF Steps
<1>4. CASE Translate
  <2>1. pc = "translating"
    BY <1>4 DEF Translate
  <2>2. CASE pc' = "posting" /\ UNCHANGED g /\ Stay
    <3>1. UNCHANGED <<upstream, depth, chunks, finish, requests, remembered>>
      BY <2>2 DEF Stay
    <3>2. Unindexed' = Unindexed
      BY <3>1 DEF Unindexed
    <3>3. EventsInOrder'
      BY <1>a, <2>1, <2>2, <3>2 DEF EventsInOrder
    <3> QED
      BY <1>0, <2>1, <2>2, <3>1, <3>3, TurnGoesOn DEF Steps
  <2> QED
    BY <1>2, <1>4, <2>1, <2>2 DEF Translate
<1>5. CASE PostFails
  BY <1>2, <1>5 DEF PostFails
<1>6. CASE PostStreams
  <2> DEFINE x == NewGeneration(g.events, g.lastID)
  <2>1. /\ pc = "posting" /\ pc' = "streaming" /\ g' = x /\ chunks' = 0
        /\ UNCHANGED <<upstream, depth, finish, requests, remembered>>
    BY <1>6 DEF PostStreams
  <2>2. Live(x, Unindexed)
    BY <1>a, <2>1, NewLive, UnindexedIs
  <2> HIDE DEF x
  <2>3. Unindexed' = Unindexed
    BY <2>1 DEF Unindexed
  <2>4. EventsInOrder'
    BY <2>1, <2>2, <2>3 DEF EventsInOrder
  <2>5. x \in Generations /\ Active(x)
    BY <2>2 DEF Live
  <2>6. chunks' \in 0 .. upstream.maxChunks
    BY <1>0, <2>1
  <2> QED
    BY <2>1, <2>4, <2>5, <2>6, TurnGoesOn DEF Steps
<1>7. CASE PostAnswers
  <2>1. pc = "posting"
    BY <1>7 DEF PostAnswers
  <2>2. ASSUME NEW message \in upstream.chunks, NEW reason \in Finishes,
               HandleGeneration(FromChatResponse(NewGeneration(g.events, g.lastID), message), reason)
        PROVE  TurnInv'
    <3> DEFINE h == FromChatResponse(NewGeneration(g.events, g.lastID), message)
    <3>1. message \in Chunks
      BY <1>0
    <3>2. Live(h, Unindexed)
      BY <1>a, <2>1, <3>1, FromResponseLive, UnindexedIs
    <3>3. HandleGeneration(h, reason)
      BY <2>2
    <3> HIDE DEF h
    <3> QED
      BY <2>1, <3>2, <3>3, HandleTurn
  <2> QED
    BY <1>2, <1>7, <2>1, <2>2 DEF PostAnswers
<1>8. CASE StreamBreaks
  BY <1>2, <1>8 DEF StreamBreaks
<1>9. CASE StreamEnds
  <2>1. pc = "streaming"
    BY <1>9 DEF StreamEnds
  <2>2. PICK reason \in Finishes : HandleGeneration(g, reason)
    BY <1>9 DEF StreamEnds
  <2>3. Live(g, Unindexed)
    BY <2>1 DEF TurnInv, EventsInOrder
  <2> QED
    BY <2>1, <2>2, <2>3, HandleTurn
<1>10. CASE RunSearch
  <2>1. pc = "searching" /\ toSearch # <<>>
    BY <1>10 DEF RunSearch
  <2>2. CASE /\ results' = Append(results, Head(toSearch))
             /\ remembered' = Append(remembered, <<depth, Head(toSearch)>>)
             /\ toSearch' = Tail(toSearch)
             /\ UNCHANGED <<upstream, pc, g, depth, chunks, finish, requests>>
    BY <2>1, <2>2, SearchTurn
  <2> QED
    BY <1>2, <1>10, <2>1, <2>2 DEF RunSearch
<1>11. CASE CompleteMixed
  BY <1>11, CompleteMixedTurn
<1>12. CASE FollowUp
  BY <1>12, FollowUpTurn
<1>13. CASE StreamChunk
  <2>1. /\ pc = "streaming" /\ pc' = "streaming" /\ chunks < upstream.maxChunks /\ chunks' = chunks + 1
        /\ UNCHANGED <<upstream, depth, finish, requests, remembered>>
    BY <1>13 DEF StreamChunk
  <2>2. PICK chunk \in upstream.chunks : g' = ApplyStreamChunk(g, chunk)
    BY <1>13 DEF StreamChunk
  <2>3. chunk \in Chunks /\ (Unindexed => \A p \in DOMAIN chunk.calls : chunk.calls[p].index = NoIndex)
    BY <1>0 DEF Unindexed
  <2>4. Live(g, Unindexed)
    BY <2>1 DEF TurnInv, EventsInOrder
  <2> DEFINE f == ApplyStreamChunk(g, chunk)
  <2>5. Live(f, Unindexed)
    BY <2>3, <2>4, ChunkLive, UnindexedIs
  <2>6. g' = f
    BY <2>2
  <2> HIDE DEF f
  <2>7. Unindexed' = Unindexed
    BY <2>1 DEF Unindexed
  <2>8. EventsInOrder'
    BY <2>1, <2>5, <2>6, <2>7 DEF EventsInOrder
  <2>9. f \in Generations /\ Active(f)
    BY <2>5 DEF Live
  <2>10. chunks' \in 0 .. upstream.maxChunks
    BY <1>0, <2>1
  <2> QED
    BY <2>1, <2>6, <2>8, <2>9, <2>10, TurnGoesOn DEF Steps
<1>14. CASE UNCHANGED vars
  <2>1. Unindexed' = Unindexed
    BY <1>14 DEF vars, Unindexed
  <2> QED
    BY <1>14, <2>1 DEF vars, TurnInv, Types, EventsInOrder, SearchesInOrder, RequestsPaired, MemoryUpToNow
<1> QED
  BY <1>1, <1>3, <1>4, <1>5, <1>6, <1>7, <1>8, <1>9, <1>10, <1>11, <1>12, <1>13, <1>14 DEF Next, Work

(* Up to each step of a response the events are in order, the searches     *)
(* those of its answers, and each of them remembered once.                 *)
THEOREM Invariance == Spec => []TurnInv
<1>1. Init => TurnInv
  BY InitTurn
<1>2. TurnInv /\ [Next]_vars => TurnInv'
  BY NextTurn
<1> QED
  BY <1>1, <1>2, PTL DEF Spec

-----------------------------------------------------------------------------
(* What follows from it.                                                   *)

(* Every variable has its type, an announced item its ID and index, and an *)
(* active item is one that exists.                                         *)
THEOREM TypeCorrect == Spec => []TypeOK
<1>1. ASSUME TurnInv PROVE TypeOK
  <2>1. Types
    BY <1>1 DEF TurnInv
  <2>2. /\ \A k \in TextKinds : g.text[k] \in Texts
        /\ DOMAIN g.tools \subseteq Nat /\ \A i \in DOMAIN g.tools : g.tools[i] \in Tools
    BY <2>1, Parts DEF Types
  <2>3. \A k \in TextKinds : TextType(g.text[k])
    BY <2>2 DEF TextType, Texts
  <2>4. \A i \in DOMAIN g.tools : ToolType(g.tools[i])
    <3> SUFFICES ASSUME NEW t \in Tools PROVE ToolType(t)
      BY <2>2
    <3>1. NoName \notin Kinds
      BY DEF Kinds, NoName
    <3>2. t.decoded <= t.args /\ t.value <= t.args
      BY DEF Tools, Decoding
    <3> QED
      BY <3>1, <3>2 DEF ToolType, Tools, ToolRecords, Kinds
  <2> QED
    BY <2>1, <2>2, <2>3, <2>4 DEF TypeOK, Types, Steps, Active
<1> QED
  BY <1>1, Invariance, PTL

(* What the events tell at any time.                                       *)
LEMMA TheStory ==
  ASSUME TurnInv
  PROVE  /\ Story(Events, Unindexed)
         /\ \A t \in DOMAIN Events : Events[t].type \in Terminals <=> t = Len(Events) /\ pc = "ended"
         /\ \A t \in DOMAIN Events : Events[t].type \in {"completed", "incomplete"} =>
              t = Len(Events) /\ AllDone(Events)
         /\ DOMAIN Events \subseteq Nat
<1>1. pc \in Steps
  BY DEF TurnInv, Types
<1>2. CASE pc = "ended"
  <2>1. Finished(g.events, Unindexed)
    BY <1>2 DEF TurnInv, EventsInOrder
  <2> QED
    BY <1>2, <2>1 DEF Finished, Events, Terminals, Story
<1>3. CASE pc # "ended"
  <2>1. PICK T, D : Told(g, T, D, Unindexed)
    BY <1>1, <1>3 DEF TurnInv, EventsInOrder, Live, Steps
  <2> QED
    BY <1>3, <2>1 DEF Told, Events, Terminals, Story
<1> QED
  BY <1>2, <1>3

(* The response ends with exactly one event that says how.                 *)
THEOREM TerminalOnce == Spec => []EndsOnce
<1>1. TurnInv => EndsOnce
  BY TheStory DEF EndsOnce
<1> QED
  BY <1>1, Invariance, PTL

(* When the response is completed or incomplete, all that was added is     *)
(* done.                                                                   *)
THEOREM AllAddedDone == Spec => []NothingLeftOpen
<1>1. ASSUME TurnInv PROVE NothingLeftOpen
  <2> SUFFICES ASSUME NEW t \in DOMAIN Events, Events[t].type \in {"completed", "incomplete"},
                      NEW item \in Items, Of(item, "added") # {}
               PROVE  \E d \in Of(item, "done") : d < t
    BY DEF NothingLeftOpen
  <2>1. t = Len(Events) /\ AllDone(Events) /\ Events \in Seq(AnEvent)
    BY <1>1, TheStory DEF Story
  <2>2. PICK e \in DOMAIN Events : Events[e].item = item /\ Events[e].type = "added"
    BY DEF Of
  <2>3. PICK d \in DOMAIN Events : Events[d].item = item /\ Events[d].type = "done"
    BY <2>1, <2>2 DEF AllDone, Has
  <2>4. d # t
    BY <2>3
  <2>5. d < t
    BY <2>1, <2>4
  <2> QED
    BY <2>3, <2>5 DEF Of
<1> QED
  BY <1>1, Invariance, PTL

(* All events of an item name the same call, if calls come without an      *)
(* index.                                                                  *)
THEOREM CallsApart == Spec => []CallsStaySeparate
<1>1. ASSUME TurnInv PROVE CallsStaySeparate
  <2> SUFFICES ASSUME Unindexed, NEW i \in DOMAIN Events, NEW j \in DOMAIN Events,
                      Events[i].item = Events[j].item, Events[i].item # NoItem
               PROVE  Events[i].callID = Events[j].callID
    BY DEF CallsStaySeparate
  <2>1. Story(Events, Unindexed) /\ i \in Nat /\ j \in Nat
    BY <1>1, TheStory
  <2>2. CASE i < j
    BY <2>1, <2>2 DEF Story, MayFollow
  <2>3. CASE j < i
    BY <2>1, <2>3 DEF Story, MayFollow
  <2>4. CASE i = j
    BY <2>4
  <2> QED
    BY <2>1, <2>2, <2>3, <2>4
<1> QED
  BY <1>1, Invariance, PTL

LEMMA AtMostOne ==
  ASSUME NEW S, \A x \in S, y \in S : x = y
  PROVE  Cardinality(S) <= 1
<1>1. CASE S = {}
  BY <1>1, FS_EmptySet
<1>2. CASE S # {}
  <2>1. PICK x \in S : TRUE
    BY <1>2
  <2>2. S = {x}
    BY <2>1
  <2> QED
    BY <2>2, FS_Singleton
<1> QED
  BY <1>1, <1>2

(* An item is added at most once and before its deltas, and done at most   *)
(* once, for text and reasoning after the last delta.                      *)
THEOREM ItemsInOrder == Spec => []ItemsWellFormed
<1>1. ASSUME TurnInv PROVE ItemsWellFormed
  <2>1. Story(Events, Unindexed) /\ DOMAIN Events \subseteq Nat
    BY <1>1, TheStory
  <2>2. \A j \in DOMAIN Events, i \in DOMAIN Events :
          i < j /\ Events[i].item = Events[j].item /\ Events[i].item # NoItem =>
            MayFollow(Events[i], Events[j], Unindexed)
    BY <2>1 DEF Story
  <2>3. ASSUME NEW item \in Items
        PROVE  /\ \A x \in Of(item, "added"), y \in Of(item, "added") : x = y
               /\ \A x \in Of(item, "done"), y \in Of(item, "done") : x = y
               /\ \A d \in Of(item, "delta") : \E a \in Of(item, "added") : a < d
               /\ \A d \in Of(item, "done"), a \in Of(item, "added") : a < d
    <3>1. item # NoItem
      BY DEF Items
    <3>2. ASSUME NEW x \in DOMAIN Events, NEW y \in DOMAIN Events,
                 Events[x].item = item, Events[y].item = item
          PROVE  /\ Events[x].type = "added" /\ Events[y].type = "added" => x = y
                 /\ Events[x].type = "done" /\ Events[y].type = "done" => x = y
                 /\ Events[x].type = "done" /\ Events[y].type = "added" => y < x
      <4>1. x \in Nat /\ y \in Nat
        BY <2>1
      <4>2. x < y => MayFollow(Events[x], Events[y], Unindexed)
        BY <2>2, <3>1, <3>2
      <4>3. y < x => MayFollow(Events[y], Events[x], Unindexed)
        BY <2>2, <3>1, <3>2
      <4> QED
        BY <4>1, <4>2, <4>3 DEF MayFollow
    <3>3. \A d \in Of(item, "delta") : \E a \in Of(item, "added") : a < d
      BY <2>1 DEF Story, Of
    <3> QED
      BY <3>2, <3>3 DEF Of
  <2>4. ASSUME NEW item \in Items
        PROVE  Cardinality(Of(item, "added")) <= 1 /\ Cardinality(Of(item, "done")) <= 1
    BY <2>3, AtMostOne
  <2>5. ASSUME NEW d \in DOMAIN Events, Events[d].type = "delta", Events[d].callID = NoID,
               NEW e \in Of(Events[d].item, "done")
        PROVE  d < e
    <3>1. e \in DOMAIN Events /\ Events[e].item = Events[d].item /\ Events[e].type = "done"
      BY DEF Of
    <3>2. Events[d].item # NoItem
      BY <2>1, <2>5 DEF Story, ItemTypes
    <3>3. ~(e < d)
      BY <2>2, <2>5, <3>1, <3>2 DEF MayFollow
    <3>4. e # d /\ e \in Nat /\ d \in Nat
      BY <2>1, <2>5, <3>1
    <3> QED
      BY <3>3, <3>4
  <2>6. \A k \in TextKinds :
          g.text[k].announced /\ ~g.text[k].done => g.activeKind = k \/ pc # "streaming"
    BY <1>1 DEF TurnInv, Types, Active
  <2> QED
    BY <2>3, <2>4, <2>5, <2>6 DEF ItemsWellFormed
<1> QED
  BY <1>1, Invariance, PTL

(* A follow-up request answers each call of its assistant message.         *)
THEOREM RequestsAnswer == Spec => []FollowUpPaired
<1>1. TurnInv => FollowUpPaired
  BY DEF TurnInv, RequestsPaired, Paired, FollowUpPaired
<1> QED
  BY <1>1, Invariance, PTL

(* Every web search of a completed response was executed and remembered    *)
(* once.                                                                   *)
THEOREM EachSearchRemembered == Spec => []SearchesRemembered
<1>1. ASSUME TurnInv PROVE SearchesRemembered
  <2> DEFINE calls == {WebSearchCalls(g)[p] : p \in DOMAIN WebSearchCalls(g)}
             count(d, i) == Cardinality({r \in DOMAIN remembered : remembered[r] = <<d, i>>})
  <2> SUFFICES ASSUME pc = "ended", Events[Len(Events)].type \in {"completed", "incomplete"}
               PROVE  /\ AllWebSearch(g) /\ calls # {} => depth = MaxFollowUps
                      /\ ~AllWebSearch(g) => \A i \in calls : count(depth, i) = 1
                      /\ \A r \in DOMAIN requests : \A p \in DOMAIN requests[r].calls :
                           count(r - 1, requests[r].calls[p]) = 1
    BY DEF SearchesRemembered
  <2>1. \A d, i : count(d, i) = Cardinality(Noted(remembered, d, i))
    BY DEF Noted
  <2> HIDE DEF count
  <2>2. calls # {} => WebSearchCalls(g) # <<>>
    <3>1. DOMAIN <<>> = {}
      OBVIOUS
    <3> QED
      BY <3>1
  <2>3. MemoryUpToNow
    BY <1>1 DEF TurnInv
  <2> QED
    BY <2>1, <2>2, <2>3 DEF MemoryUpToNow, Events
<1> QED
  BY <1>1, Invariance, PTL

-----------------------------------------------------------------------------
(* The sums of deltas, along a response.                                   *)

(* Calls that may get arguments before a name.                             *)
Unnamed ==
  {i \in Nat : \E chunk \in upstream.chunks : \E p \in DOMAIN chunk.calls :
     LET c == chunk.calls[p] IN
     c.name = NoName /\ c.fragment # "none" /\ c.index \in {i, NoIndex}}

(* Done items are the sums of their deltas, and items still open are in    *)
(* step with what was sent of them.                                        *)
SumsInStep ==
  /\ DonesAddUp(g.events, NamedLate)
  /\ pc = "streaming" => Flows(g, DOMAIN g.tools, Unnamed, NamedLate)

LEMMA NamedLateIs == NamedLate \in BOOLEAN
BY DEF NamedLate

LEMMA CallsFit ==
  ASSUME NEW chunk \in upstream.chunks
  PROVE  AllFit(chunk.calls, Unnamed, NamedLate)
<1> SUFFICES ASSUME NEW p \in DOMAIN chunk.calls, NEW i \in Nat, chunk.calls[p].index \in {i, NoIndex}
             PROVE  LET call == chunk.calls[p] IN
                    /\ call.name = NoName /\ call.fragment # "none" => i \in Unnamed
                    /\ call.name # NoName /\ Kind[call.name] = "function" /\ i \in Unnamed => NamedLate
  BY DEF AllFit, Fits
<1> DEFINE call == chunk.calls[p]
<1>1. ASSUME call.name = NoName, call.fragment # "none" PROVE i \in Unnamed
  BY <1>1 DEF Unnamed
<1>2. ASSUME call.name # NoName, Kind[call.name] = "function", i \in Unnamed PROVE NamedLate
  <2>1. PICK early \in upstream.chunks : \E q \in DOMAIN early.calls :
          /\ early.calls[q].name = NoName /\ early.calls[q].fragment # "none"
          /\ early.calls[q].index \in {i, NoIndex}
    BY <1>2 DEF Unnamed
  <2>2. PICK q \in DOMAIN early.calls :
          /\ early.calls[q].name = NoName /\ early.calls[q].fragment # "none"
          /\ early.calls[q].index \in {i, NoIndex}
    BY <2>1
  <2>3. \/ early.calls[q].index = call.index
        \/ NoIndex \in {early.calls[q].index, call.index}
    BY <2>2
  <2> QED
    BY <1>2, <2>2, <2>3 DEF NamedLate
<1> QED
  BY <1>1, <1>2

LEMMA TellFlows ==
  ASSUME NEW h \in Generations, NEW type \in {"created"} \union Terminals, NEW late,
         DonesAddUp(h.events, late)
  PROVE  DonesAddUp(Tell(h, type).events, late)
<1> DEFINE f == Tell(h, type)
           e == An(type, NoItem, NoIndex, NoID, 0)
<1>1. f.events = Append(h.events, e) /\ e \in AnEvent /\ e.type = type
  BY TellIs
<1> HIDE DEF e, f
<1>2. e.type # "added" /\ e.type # "done"
  BY <1>1 DEF Terminals
<1>3. h.events \in Seq(AnEvent)
  BY Parts
<1>4. DonesAddUp(Append(h.events, e), late)
  BY <1>1, <1>2, <1>3, DonesGrow
<1> QED
  BY <1>1, <1>4 DEF f

LEMMA HandleFlows ==
  ASSUME NEW h, Live(h, Unindexed), Balanced(h, DOMAIN h.tools, NamedLate),
         NEW reason, HandleGeneration(h, reason)
  PROVE  pc' # "streaming" /\ DonesAddUp(g'.events, NamedLate)
<1> DEFINE shown == EmitGenerationOutputItems(h)
           type == IF reason = "length" THEN "incomplete" ELSE "completed"
<1>1. \/ g' = Tell(shown, type) /\ pc' = "ended"
      \/ g' = shown /\ pc' = "searching"
  BY DEF HandleGeneration, Completion
<1>2. DonesAddUp(shown.events, NamedLate)
  BY OutputFlows, UnindexedIs, NamedLateIs
<1>3. shown \in Generations
  BY OutputTold, UnindexedIs
<1>4. type \in {"created"} \union Terminals
  BY DEF Terminals
<1> HIDE DEF shown, type
<1>5. DonesAddUp(Tell(shown, type).events, NamedLate)
  BY <1>2, <1>3, <1>4, TellFlows
<1> QED
  BY <1>1, <1>2, <1>5

LEMMA NextSums ==
  ASSUME TurnInv, SumsInStep, [Next]_vars
  PROVE  SumsInStep'
<1>0. /\ upstream \in Upstreams /\ g \in Generations /\ upstream.chunks \subseteq Chunks
      /\ DonesAddUp(g.events, NamedLate)
  BY TurnAssumption DEF TurnInv, Types, SumsInStep
<1>a. upstream' = upstream
  BY DEF Next, Work, vars, Refuse, Begin, Translate, Fail, Stay, PostFails, PostStreams, PostAnswers,
         StreamBreaks, StreamEnds, RunSearch, CompleteMixed, FollowUp, StreamChunk, HandleGeneration
<1>b. NamedLate' = NamedLate /\ Unnamed' = Unnamed
  BY <1>a DEF NamedLate, Unnamed
<1>c. ASSUME pc' # "streaming", DonesAddUp(g'.events, NamedLate) PROVE SumsInStep'
  BY <1>b, <1>c DEF SumsInStep
<1>d. ASSUME NEW type \in {"created"} \union Terminals, g' = Tell(g, type), pc' # "streaming"
      PROVE  SumsInStep'
  <2>1. DonesAddUp(Tell(g, type).events, NamedLate)
    BY <1>0, TellFlows
  <2> QED
    BY <1>c, <1>d, <2>1
<1>e. pc = "posting" => Told(g, {}, {}, Unindexed)
  BY DEF TurnInv, EventsInOrder
<1>f. ASSUME g' = g, pc' # "streaming" PROVE SumsInStep'
  BY <1>0, <1>c, <1>f
<1>1. CASE Refuse
  BY <1>1, <1>d DEF Refuse, Terminals
<1>2. ASSUME Fail PROVE SumsInStep'
  BY <1>2, <1>d DEF Fail, Terminals
<1>3. CASE Begin
  BY <1>3, <1>d DEF Begin
<1>4. CASE Translate
  <2>1. CASE pc' = "posting" /\ UNCHANGED g
    BY <1>f, <2>1
  <2> QED
    BY <1>2, <1>4, <2>1 DEF Translate
<1>5. CASE PostFails
  BY <1>2, <1>5 DEF PostFails
<1>6. CASE PostStreams
  <2> DEFINE x == NewGeneration(g.events, g.lastID)
  <2>1. g' = x
    BY <1>6 DEF PostStreams
  <2>2. Flows(x, DOMAIN x.tools, Unnamed, NamedLate)
    BY <1>0, NewFlows
  <2> HIDE DEF x
  <2>3. DonesAddUp(x.events, NamedLate)
    BY <2>2 DEF Flows, Balanced
  <2> QED
    BY <1>b, <2>1, <2>2, <2>3 DEF SumsInStep
<1>7. CASE PostAnswers
  <2>1. ASSUME NEW message \in upstream.chunks, NEW reason \in Finishes,
               HandleGeneration(FromChatResponse(NewGeneration(g.events, g.lastID), message), reason)
        PROVE  SumsInStep'
    <3> DEFINE h == FromChatResponse(NewGeneration(g.events, g.lastID), message)
    <3>1. message \in Chunks /\ pc = "posting"
      BY <1>0, <1>7 DEF PostAnswers
    <3>2. Live(h, Unindexed) /\ Mute(h) /\ h.events = g.events
      BY <1>e, <3>1, FromResponseLive, UnindexedIs
    <3>3. HandleGeneration(h, reason)
      BY <2>1
    <3> HIDE DEF h
    <3>4. Balanced(h, DOMAIN h.tools, NamedLate)
      BY <1>0, <3>2, MuteFlows
    <3>5. pc' # "streaming" /\ DonesAddUp(g'.events, NamedLate)
      BY <3>2, <3>3, <3>4, HandleFlows
    <3> QED
      BY <1>c, <3>5
  <2> QED
    BY <1>2, <1>7, <2>1 DEF PostAnswers
<1>8. CASE StreamBreaks
  BY <1>2, <1>8 DEF StreamBreaks
<1>9. CASE StreamEnds
  <2>1. PICK reason \in Finishes : HandleGeneration(g, reason)
    BY <1>9 DEF StreamEnds
  <2>2. Live(g, Unindexed) /\ Balanced(g, DOMAIN g.tools, NamedLate)
    BY <1>9 DEF StreamEnds, TurnInv, EventsInOrder, SumsInStep, Flows
  <2>3. pc' # "streaming" /\ DonesAddUp(g'.events, NamedLate)
    BY <2>1, <2>2, HandleFlows
  <2> QED
    BY <1>c, <2>3
<1>10. CASE RunSearch
  <2>1. CASE pc = "searching" /\ UNCHANGED <<pc, g>>
    BY <1>f, <2>1
  <2> QED
    BY <1>2, <1>10, <2>1 DEF RunSearch
<1>11. CASE CompleteMixed
  <2> DEFINE type == IF finish = "length" THEN "incomplete" ELSE "completed"
  <2>1. g' = Tell(g, type) /\ pc' = "ended" /\ type \in Terminals
    BY <1>11 DEF CompleteMixed, Completion, Terminals
  <2> HIDE DEF type
  <2> QED
    BY <1>d, <2>1
<1>12. CASE FollowUp
  <2>1. g' = WithIDs(g) /\ pc' = "posting"
    BY <1>12 DEF FollowUp
  <2>2. WithIDs(g).events = g.events
    BY <1>0 DEF WithIDs, Generations
  <2> QED
    BY <1>0, <1>c, <2>1, <2>2
<1>13. CASE StreamChunk
  <2>1. pc = "streaming" /\ pc' = "streaming"
    BY <1>13 DEF StreamChunk
  <2>2. PICK chunk \in upstream.chunks : g' = ApplyStreamChunk(g, chunk)
    BY <1>13 DEF StreamChunk
  <2>3. chunk \in Chunks /\ (Unindexed => \A p \in DOMAIN chunk.calls : chunk.calls[p].index = NoIndex)
    BY <1>0 DEF Unindexed
  <2>4. Live(g, Unindexed) /\ Flows(g, DOMAIN g.tools, Unnamed, NamedLate)
    BY <2>1 DEF TurnInv, EventsInOrder, SumsInStep
  <2>5. AllFit(chunk.calls, Unnamed, NamedLate)
    BY CallsFit
  <2> DEFINE f == ApplyStreamChunk(g, chunk)
  <2>6. Flows(f, DOMAIN f.tools, Unnamed, NamedLate)
    BY <2>3, <2>4, <2>5, ChunkFlows, UnindexedIs, NamedLateIs
  <2>7. g' = f
    BY <2>2
  <2> HIDE DEF f
  <2>8. DonesAddUp(f.events, NamedLate)
    BY <2>6 DEF Flows, Balanced
  <2> QED
    BY <1>b, <2>6, <2>7, <2>8 DEF SumsInStep
<1>14. CASE UNCHANGED vars
  BY <1>b, <1>14 DEF vars, SumsInStep
<1> QED
  BY <1>1, <1>3, <1>4, <1>5, <1>6, <1>7, <1>8, <1>9, <1>10, <1>11, <1>12, <1>13, <1>14 DEF Next, Work

(* A done item is the sum of the deltas sent for it before, or more only   *)
(* for a call of a function that may be named after its first arguments.   *)
THEOREM SumsOfDeltas == Spec => []DeltasAddUp
<1>1. Init => TurnInv
  BY InitTurn
<1>2. Init => SumsInStep
  <2> SUFFICES ASSUME Init PROVE SumsInStep
    OBVIOUS
  <2>1. DOMAIN g.events = {} /\ pc = "request"
    <3>1. g.events = <<>> /\ DOMAIN <<>> = {}
      BY NoneAndOne DEF Init, NewGeneration
    <3> QED
      BY <3>1 DEF Init
  <2> QED
    BY <2>1 DEF SumsInStep, DonesAddUp
<1>3. TurnInv /\ [Next]_vars => TurnInv'
  BY NextTurn
<1>4. TurnInv /\ SumsInStep /\ [Next]_vars => SumsInStep'
  BY NextSums
<1>5. SumsInStep => DeltasAddUp
  <2> SUFFICES ASSUME DonesAddUp(Events, NamedLate), NEW d \in DOMAIN Events, Events[d].type = "done",
                      Of(Events[d].item, "added") # {}
               PROVE  AddsUp(DeltasOf(Events, Events[d].item)[d - 1], Events[d], NamedLate)
    BY DEF SumsInStep, Events, DeltasAddUp, AddsUp
  <2>1. Has(Events, Events[d].item, "added")
    BY DEF Of, Has
  <2> QED
    BY <2>1 DEF DonesAddUp
<1> QED
  BY <1>1, <1>2, <1>3, <1>4, <1>5, PTL DEF Spec

=============================================================================
