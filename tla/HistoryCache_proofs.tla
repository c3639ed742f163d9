------------------------- MODULE HistoryCache_proofs -------------------------
(***************************************************************************)
(* The replay caches hold the newest entries and replay them in order, for *)
(* every number of conversations, every limit and every set of answers.    *)
(***************************************************************************)
EXTENDS HistoryCache, DataLemmas, FiniteSetTheorems, SequenceTheorems, TLAPS

(* All keys and IDs of items, and what can be in a log and a history.      *)
Keys == UNION {{items[i].key : i \in DOMAIN items} \union {items[i].id : i \in DOMAIN items} :
                 items \in Answers}

Entries == [cache : Caches, key : Keys, value : Nat]

Flags == BOOLEAN

Items == [n : Nat, kind : Kinds, key : Keys, id : Keys, extra : Flags]

Limits == MaxTools \in Nat \ {0} /\ MaxMessages \in Nat \ {0} /\ MaxSearches \in Nat \ {0}

LEMMA LimitsHold == Limits
BY CacheAssumption DEF Limits

-----------------------------------------------------------------------------
(* Counting entries under a key.                                           *)

Under(entries, key, from, to) == {i \in from .. to : entries[i].key = key}

LEMMA UnderFinite ==
  ASSUME NEW entries, NEW key, NEW from \in Int, NEW to \in Int
  PROVE  IsFiniteSet(Under(entries, key, from, to)) /\ Times(entries, key, from, to) \in Nat
<1>1. IsFiniteSet(from .. to)  BY FS_Interval
<1>2. Under(entries, key, from, to) \in SUBSET (from .. to)  BY DEF Under
<1>3. IsFiniteSet(Under(entries, key, from, to))  BY <1>1, <1>2, FS_Subset
<1> QED BY <1>3, FS_CardinalityType DEF Times, Under

LEMMA TimesNone ==
  ASSUME NEW entries, NEW key, NEW from \in Int, NEW to \in Int, to < from
  PROVE  Times(entries, key, from, to) = 0
<1>1. Under(entries, key, from, to) = {}  BY DEF Under
<1> QED BY <1>1, FS_EmptySet DEF Times, Under

LEMMA TimesLast ==
  ASSUME NEW entries, NEW key, NEW from \in Int, NEW to \in Int, from <= to
  PROVE  Times(entries, key, from, to) =
           Times(entries, key, from, to - 1) + (IF entries[to].key = key THEN 1 ELSE 0)
<1> DEFINE before == Under(entries, key, from, to - 1)
<1>1. IsFiniteSet(before) /\ Cardinality(before) \in Nat
  BY UnderFinite, FS_CardinalityType
<1>2. CASE entries[to].key = key
  <2>1. Under(entries, key, from, to) = before \union {to} /\ to \notin before
    BY <1>2 DEF Under
  <2>2. Cardinality(before \union {to}) = Cardinality(before) + 1
    BY <1>1, <2>1, FS_AddElement
  <2>3. Times(entries, key, from, to) = Cardinality(before \union {to})
    BY <2>1 DEF Times, Under
  <2>4. Times(entries, key, from, to - 1) = Cardinality(before)  BY DEF Times, Under
  <2> HIDE DEF before
  <2> QED BY <1>2, <2>2, <2>3, <2>4
<1>3. CASE entries[to].key # key
  <2>1. Under(entries, key, from, to) = before  BY <1>3 DEF Under
  <2>2. /\ Times(entries, key, from, to) = Cardinality(before)
        /\ Times(entries, key, from, to - 1) = Cardinality(before)
    BY <2>1 DEF Times, Under
  <2> HIDE DEF before
  <2> QED BY <1>1, <1>3, <2>2
<1> QED BY <1>2, <1>3

LEMMA TimesSplit ==
  ASSUME NEW entries, NEW key, NEW from \in Int, NEW at \in Int, NEW to \in Int,
         from <= at + 1, at <= to
  PROVE  Times(entries, key, from, to) =
           Times(entries, key, from, at) + Times(entries, key, at + 1, to)
<1> DEFINE low == Under(entries, key, from, at)
           high == Under(entries, key, at + 1, to)
<1>1. IsFiniteSet(low) /\ IsFiniteSet(high)  BY UnderFinite
<1>2. Under(entries, key, from, to) = low \union high /\ low \intersect high = {}
  BY DEF Under
<1>3. Cardinality(low) \in Nat /\ Cardinality(high) \in Nat  BY <1>1, FS_CardinalityType
<1>4. Cardinality(low \intersect high) = 0  BY <1>2, FS_EmptySet
<1>5. Cardinality(low \union high) =
        Cardinality(low) + Cardinality(high) - Cardinality(low \intersect high)
  BY <1>1, FS_Union, Zenon
<1>6. /\ Times(entries, key, from, to) = Cardinality(low \union high)
      /\ Times(entries, key, from, at) = Cardinality(low)
      /\ Times(entries, key, at + 1, to) = Cardinality(high)
  BY <1>2 DEF Times, Under
<1> HIDE DEF low, high
<1> QED BY <1>3, <1>4, <1>5, <1>6

LEMMA TimesOne ==
  ASSUME NEW entries, NEW key, NEW at \in Int
  PROVE  Times(entries, key, at, at) = IF entries[at].key = key THEN 1 ELSE 0
<1>1. Times(entries, key, at, at - 1) = 0  BY TimesNone
<1> QED BY <1>1, TimesLast

(* The entry itself counts.                                                *)
LEMMA TimesLess ==
  ASSUME NEW entries, NEW key, NEW from \in Int, NEW i \in Int, NEW j \in Int,
         from <= i + 1, i < j, entries[j].key = key
  PROVE  Times(entries, key, from, i) < Times(entries, key, from, j)
<1>1. Times(entries, key, from, j) = Times(entries, key, from, j - 1) + 1
  BY TimesLast
<1>2. Times(entries, key, from, j - 1) =
        Times(entries, key, from, i) + Times(entries, key, i + 1, j - 1)
  <2>1. j - 1 \in Int /\ i <= j - 1  OBVIOUS
  <2> QED BY <2>1, TimesSplit
<1>3. /\ Times(entries, key, from, i) \in Nat /\ Times(entries, key, i + 1, j - 1) \in Nat
      /\ Times(entries, key, from, j - 1) \in Nat
  BY UnderFinite
<1> QED BY <1>1, <1>2, <1>3

LEMMA TimesMonotone ==
  ASSUME NEW entries, NEW key, NEW from \in Int, NEW i \in Int, NEW j \in Int,
         from <= i + 1, i <= j
  PROVE  Times(entries, key, from, i) <= Times(entries, key, from, j)
<1>1. Times(entries, key, from, j) = Times(entries, key, from, i) + Times(entries, key, i + 1, j)
  BY TimesSplit
<1>2. Times(entries, key, from, i) \in Nat /\ Times(entries, key, i + 1, j) \in Nat
  BY UnderFinite
<1> QED BY <1>1, <1>2

(* Entries that come later do not matter.                                  *)
LEMMA TimesSame ==
  ASSUME NEW S, NEW entries \in Seq(S), NEW entry \in S, NEW key, NEW from \in Nat \ {0},
         NEW to \in Int, to <= Len(entries)
  PROVE  Times(Append(entries, entry), key, from, to) = Times(entries, key, from, to)
<1>1. \A i \in from .. to : Append(entries, entry)[i] = entries[i]  OBVIOUS
<1>2. Under(Append(entries, entry), key, from, to) = Under(entries, key, from, to)
  BY <1>1 DEF Under
<1> QED BY <1>2 DEF Times, Under
-----------------------------------------------------------------------------
(* Inserting and evicting.                                                 *)

IsCache(cache) ==
  /\ cache.order \in Seq(Keys)
  /\ cache.byKey \in [DOMAIN cache.byKey -> Seq(Nat)]

LEMMA HoldsAfterAppend ==
  ASSUME NEW entries \in Seq(Entries), NEW entry \in Entries, NEW cache, IsCache(cache),
         NEW gone \in 0 .. Len(entries), Holds(cache, entries, gone),
         NEW new, new.order = Append(cache.order, entry.key),
         new.byKey = With(cache.byKey, entry.key, Append(Of(cache.byKey, entry.key), entry.value))
  PROVE  IsCache(new) /\ Holds(new, Append(entries, entry), gone)
<1> DEFINE all == Append(entries, entry)
           last == Len(entries) + 1
           old == Of(cache.byKey, entry.key)
<1>1. entry.key \in Keys /\ entry.value \in Nat  BY DEF Entries
<1>2. all \in Seq(Entries) /\ Len(all) = last /\ last \in Nat /\ all[last] = entry
      /\ \A i \in 1 .. Len(entries) : all[i] = entries[i]
  OBVIOUS
<1>3. old \in Seq(Nat)  BY DEF Of, IsCache
<1>a. Len(entries) \in Nat /\ gone \in Nat /\ gone <= Len(entries)  OBVIOUS
<1>b. all = Append(entries, entry) /\ old = Of(cache.byKey, entry.key)  OBVIOUS
<1>c. last = Len(entries) + 1  OBVIOUS
<1> HIDE DEF all, last, old
<1>4. IsCache(new)
  <2>1. new.order \in Seq(Keys)  BY <1>1 DEF IsCache
  <2>2. Append(old, entry.value) \in Seq(Nat)  BY <1>1, <1>3
  <2>3. new.byKey \in [DOMAIN new.byKey -> Seq(Nat)]
    BY <1>b, <2>2 DEF IsCache, With
  <2> QED BY <2>1, <2>3 DEF IsCache
<1>5. new.order = [i \in 1 .. Len(all) - gone |-> all[gone + i].key]
  <2>1. cache.order = [i \in 1 .. Len(entries) - gone |-> entries[gone + i].key]  BY DEF Holds
  <2>2. Len(cache.order) = Len(entries) - gone  BY <2>1 DEF IsCache
  <2>3. cache.order \in Seq(Keys) /\ new.order \in Seq(Keys)  BY <1>4 DEF IsCache
  <2>a. Len(new.order) = Len(cache.order) + 1  BY <1>1, <2>3
  <2>b. Len(all) - gone = Len(entries) + 1 - gone /\ Len(all) - gone \in Nat
    BY <1>2, <1>a, <1>c
  <2>4. Len(new.order) = Len(all) - gone  BY <1>a, <2>2, <2>a, <2>b
  <2> DEFINE length == Len(entries) - gone
  <2>c. length \in Nat /\ Len(all) - gone = length + 1 /\ gone + (length + 1) = last
    BY <1>a, <1>c, <2>b
  <2>d. /\ DOMAIN new.order = 1 .. length + 1 /\ new.order[length + 1] = entry.key
        /\ \A i \in 1 .. length : new.order[i] = cache.order[i]
    BY <1>1, <2>2, <2>3, Appended
  <2>e. \A i \in 1 .. length : gone + i \in 1 .. Len(entries)  BY <1>a
  <2>f. \A i \in 1 .. length : cache.order[i] = entries[gone + i].key  BY <2>1
  <2> HIDE DEF length
  <2>5. ASSUME NEW i \in 1 .. length + 1
        PROVE  new.order[i] = all[gone + i].key
    <3>1. CASE i \in 1 .. length  BY <1>2, <2>d, <2>e, <2>f, <3>1
    <3>2. CASE i = length + 1  BY <1>2, <2>c, <2>d, <3>2
    <3>3. length \in Nat  BY <2>c
    <3>4. i \in 1 .. length \/ i = length + 1  BY <3>3
    <3> QED BY <3>1, <3>2, <3>4, Zenon
  <2>6. new.order \in [1 .. length + 1 -> Keys]
    <3>1. new.order \in [1 .. Len(cache.order) + 1 -> Keys]
      BY <1>1, <2>3, Appended
    <3> QED
      BY <2>2, <3>1 DEF length
  <2> QED BY <2>c, <2>5, <2>6
<1>6. DOMAIN new.byKey = Elements(new.order)
  <2>1. DOMAIN new.byKey = DOMAIN cache.byKey \union {entry.key}  BY DEF With
  <2>2. DOMAIN cache.byKey = Elements(cache.order)  BY DEF Holds
  <2>3. Elements(Append(cache.order, entry.key)) = Elements(cache.order) \union {entry.key}
    <3>1. cache.order \in Seq(Keys)  BY DEF IsCache
    <3> DEFINE s == cache.order
               t == Append(cache.order, entry.key)
    <3>2. DOMAIN t = 1 .. Len(s) + 1 /\ DOMAIN s = 1 .. Len(s) /\ Len(s) \in Nat
          /\ t[Len(s) + 1] = entry.key /\ \A i \in 1 .. Len(s) : t[i] = s[i]
      BY <1>1, <3>1
    <3> HIDE DEF s, t
    <3>3. Elements(t) = Elements(s) \union {entry.key}
      BY <3>2 DEF Elements
    <3> QED BY <3>3 DEF s, t
  <2> QED BY <2>1, <2>2, <2>3
<1>7. Len(old) = Times(entries, entry.key, gone + 1, Len(entries))
  <2>1. CASE entry.key \in DOMAIN cache.byKey  BY <1>b, <2>1 DEF Of, Holds
  <2>2. CASE entry.key \notin DOMAIN cache.byKey
    <3>1. \A i \in gone + 1 .. Len(entries) : entries[i].key # entry.key
      <4> SUFFICES ASSUME NEW i \in gone + 1 .. Len(entries), entries[i].key = entry.key
                   PROVE  FALSE
        OBVIOUS
      <4>1. cache.order = [j \in 1 .. Len(entries) - gone |-> entries[gone + j].key]
        BY DEF Holds
      <4>2. i - gone \in 1 .. Len(entries) - gone /\ gone + (i - gone) = i  BY <1>a
      <4>3. i - gone \in DOMAIN cache.order /\ cache.order[i - gone] = entries[i].key
        BY <4>1, <4>2
      <4>4. entry.key \in Elements(cache.order)  BY <4>3 DEF Elements
      <4> QED BY <2>2, <4>4 DEF Holds
    <3>2. Under(entries, entry.key, gone + 1, Len(entries)) = {}  BY <3>1 DEF Under
    <3>3. old = <<>>  BY <1>b, <2>2 DEF Of
    <3> QED BY <3>2, <3>3, FS_EmptySet DEF Times, Under
  <2> QED BY <2>1, <2>2
<1>8. \A key : \A i \in Int : i <= Len(entries) =>
        Times(all, key, gone + 1, i) = Times(entries, key, gone + 1, i)
  BY <1>a, <1>b, TimesSame
<1>9. \A key : Times(all, key, gone + 1, last) =
        Times(entries, key, gone + 1, Len(entries)) + (IF entry.key = key THEN 1 ELSE 0)
  <2> TAKE key
  <2>1. Times(all, key, gone + 1, last) =
          Times(all, key, gone + 1, last - 1) + (IF all[last].key = key THEN 1 ELSE 0)
    BY <1>2, <1>a, <1>c, TimesLast
  <2>2. last - 1 = Len(entries) /\ Len(entries) \in Int  BY <1>a, <1>c
  <2> QED BY <1>2, <1>8, <2>1, <2>2
<1>10. ASSUME NEW k \in DOMAIN new.byKey
       PROVE  /\ Len(new.byKey[k]) = Times(all, k, gone + 1, Len(all))
              /\ \A j \in DOMAIN new.byKey[k] : \E i \in gone + 1 .. Len(all) :
                   /\ all[i].key = k /\ all[i].value = new.byKey[k][j]
                   /\ j = Times(all, k, gone + 1, i)
  <2>1. CASE k # entry.key
    <3>1. k \in DOMAIN cache.byKey /\ new.byKey[k] = cache.byKey[k]  BY <2>1 DEF With
    <3>2. /\ Len(cache.byKey[k]) = Times(entries, k, gone + 1, Len(entries))
          /\ \A j \in DOMAIN cache.byKey[k] : \E i \in gone + 1 .. Len(entries) :
               /\ entries[i].key = k /\ entries[i].value = cache.byKey[k][j]
               /\ j = Times(entries, k, gone + 1, i)
      BY <3>1 DEF Holds
    <3>3. Times(all, k, gone + 1, Len(all)) = Times(entries, k, gone + 1, Len(entries))
      BY <1>2, <1>9, <1>a, <2>1, UnderFinite
    <3>4. ASSUME NEW j \in DOMAIN new.byKey[k]
          PROVE  \E i \in gone + 1 .. Len(all) :
                   /\ all[i].key = k /\ all[i].value = new.byKey[k][j]
                   /\ j = Times(all, k, gone + 1, i)
      <4>1. PICK i \in gone + 1 .. Len(entries) :
              /\ entries[i].key = k /\ entries[i].value = cache.byKey[k][j]
              /\ j = Times(entries, k, gone + 1, i)
        BY <3>1, <3>2
      <4>2. i \in gone + 1 .. Len(all) /\ i \in 1 .. Len(entries) /\ i \in Int
          BY <1>2, <1>a, <1>c
      <4> QED BY <1>2, <1>8, <3>1, <4>1, <4>2
    <3> QED BY <3>1, <3>2, <3>3, <3>4
  <2>2. CASE k = entry.key
    <3>1. new.byKey[k] = Append(old, entry.value)  BY <1>b, <2>2 DEF With
    <3>2. Len(new.byKey[k]) = Len(old) + 1 /\ DOMAIN new.byKey[k] = 1 .. Len(old) + 1
          /\ new.byKey[k][Len(old) + 1] = entry.value
          /\ \A j \in 1 .. Len(old) : new.byKey[k][j] = old[j]
      BY <1>1, <1>3, <3>1
    <3>3. Times(all, k, gone + 1, Len(all)) = Len(old) + 1
      BY <1>2, <1>7, <1>9, <2>2
    <3>4. ASSUME NEW j \in DOMAIN new.byKey[k]
          PROVE  \E i \in gone + 1 .. Len(all) :
                   /\ all[i].key = k /\ all[i].value = new.byKey[k][j]
                   /\ j = Times(all, k, gone + 1, i)
      <4>1. CASE j = Len(old) + 1
        <5>1. last \in gone + 1 .. Len(all)  BY <1>2, <1>a, <1>c
        <5> QED BY <1>2, <2>2, <3>2, <3>3, <4>1, <5>1
      <4>2. CASE j \in 1 .. Len(old)
        <5>1. k \in DOMAIN cache.byKey /\ old = cache.byKey[k]
          BY <1>b, <2>2, <4>2 DEF Of
        <5>4. DOMAIN old = 1 .. Len(old)  BY <1>3
        <5>2. PICK i \in gone + 1 .. Len(entries) :
                /\ entries[i].key = k /\ entries[i].value = cache.byKey[k][j]
                /\ j = Times(entries, k, gone + 1, i)
          BY <4>2, <5>1, <5>4 DEF Holds
        <5>3. i \in gone + 1 .. Len(all) /\ i \in 1 .. Len(entries) /\ i \in Int
          BY <1>2, <1>a, <1>c
        <5> QED BY <1>2, <1>8, <3>2, <4>2, <5>1, <5>2, <5>3
      <4> QED BY <1>3, <3>2, <4>1, <4>2
    <3> QED BY <3>2, <3>3, <3>4
  <2> QED BY <2>1, <2>2
<1> QED BY <1>4, <1>5, <1>6, <1>10, <1>b DEF Holds

LEMMA TimesZero ==
  ASSUME NEW entries, NEW key, NEW from \in Int, NEW to \in Int
  PROVE  Times(entries, key, from, to) = 0 <=> \A i \in from .. to : entries[i].key # key
<1>1. IsFiniteSet(Under(entries, key, from, to))  BY UnderFinite
<1>2. Times(entries, key, from, to) = 0 <=> Under(entries, key, from, to) = {}
  BY <1>1, FS_EmptySet DEF Times, Under
<1> QED BY <1>2 DEF Under

LEMMA HoldsAfterDrop ==
  ASSUME NEW entries \in Seq(Entries), NEW cache, IsCache(cache),
         NEW gone \in Nat, gone < Len(entries), Holds(cache, entries, gone),
         NEW new, new.order = Tail(cache.order),
         new.byKey = IF Len(cache.byKey[Head(cache.order)]) <= 1
                       THEN Without(cache.byKey, Head(cache.order))
                       ELSE With(cache.byKey, Head(cache.order),
                                 Tail(cache.byKey[Head(cache.order)]))
  PROVE  IsCache(new) /\ Holds(new, entries, gone + 1)
<1> DEFINE order == cache.order
           oldest == Head(order)
           list == cache.byKey[oldest]
           last == Len(entries)
           kept == last - gone
           later == gone + 1
<1>1. last \in Nat /\ kept \in Nat /\ kept >= 1 /\ last - later = kept - 1
      /\ later \in 1 .. last /\ later = gone + 1
  OBVIOUS
<1>2. /\ order \in Seq(Keys) /\ order = [i \in 1 .. kept |-> entries[gone + i].key]
      /\ cache.byKey \in [DOMAIN cache.byKey -> Seq(Nat)]
      /\ DOMAIN cache.byKey = Elements(order)
  BY DEF Holds, IsCache
<1>b. new.order = Tail(order) /\ oldest = Head(order)  OBVIOUS
<1> HIDE DEF last, kept, later
<1>3. Len(order) = kept /\ order # <<>> /\ \A i \in 1 .. kept : order[i] = entries[gone + i].key
  <2> HIDE DEF order
  <2>1. DOMAIN order = 1 .. kept  BY <1>2, Zenon
  <2>4. Len(order) \in Nat /\ DOMAIN order = 1 .. Len(order)  BY <1>2, LenProperties, Zenon
  <2>2. Len(order) = kept  BY <1>1, <2>1, <2>4
  <2>3. order # <<>>  BY <1>1, <2>2
  <2> QED BY <1>2, <2>2, <2>3
<1>4. new.order \in Seq(Keys) /\ Len(new.order) = kept - 1
      /\ \A i \in 1 .. kept - 1 : new.order[i] = order[i + 1]
  <2> HIDE DEF order
  <2>1. /\ Tail(order) \in Seq(Keys) /\ Len(Tail(order)) = Len(order) - 1
        /\ \A i \in 1 .. Len(Tail(order)) : Tail(order)[i] = order[i + 1]
    BY <1>2, <1>3, HeadTailProperties
  <2> QED BY <1>3, <1>b, <2>1
<1>5. oldest = order[1] /\ oldest \in Keys
  BY <1>1, <1>2, <1>3, HeadTailProperties
<1>6. oldest = entries[later].key  BY <1>1, <1>3, <1>5
<1>7. new.byKey = IF Len(list) <= 1 THEN Without(cache.byKey, oldest)
                  ELSE With(cache.byKey, oldest, Tail(list))
  OBVIOUS
<1>8. oldest \in DOMAIN cache.byKey
  <2>1. 1 \in DOMAIN order  BY <1>1, <1>2
  <2> QED BY <1>2, <1>5, <2>1 DEF Elements
<1>9. list \in Seq(Nat)  BY <1>2, <1>8
<1> HIDE DEF order, oldest, list
<1>10. \A k : \A i \in later .. last :
         Times(entries, k, gone + 1, i) =
           Times(entries, k, later + 1, i) + (IF oldest = k THEN 1 ELSE 0)
  <2> TAKE k
  <2> TAKE i \in later .. last
  <2>1. later \in Int /\ i \in Int /\ later <= later + 1 /\ later <= i  BY <1>1
  <2>2. Times(entries, k, later, i) = Times(entries, k, later, later) + Times(entries, k, later + 1, i)
    BY <2>1, TimesSplit
  <2>3. Times(entries, k, later, later) = IF oldest = k THEN 1 ELSE 0
    BY <1>6, <2>1, TimesOne
  <2>4. Times(entries, k, later + 1, i) \in Nat  BY <2>1, UnderFinite
  <2> QED BY <1>1, <2>2, <2>3, <2>4
<1>11. \A k \in DOMAIN cache.byKey :
         /\ Len(cache.byKey[k]) = Times(entries, k, gone + 1, last)
         /\ \A j \in DOMAIN cache.byKey[k] : \E i \in gone + 1 .. last :
              /\ entries[i].key = k /\ entries[i].value = cache.byKey[k][j]
              /\ j = Times(entries, k, gone + 1, i)
  BY DEF Holds, last
<1>12. Len(list) = Times(entries, oldest, later + 1, last) + 1 /\ Len(list) \in Nat
       /\ Times(entries, oldest, later + 1, last) \in Nat
  <2>1. last \in later .. last  BY <1>1
  <2>2. Len(list) = Times(entries, oldest, gone + 1, last)  BY <1>8, <1>11 DEF list
  <2>3. Times(entries, oldest, later + 1, last) \in Nat  BY <1>1, UnderFinite
  <2> QED BY <1>10, <2>1, <2>2, <2>3
<1>13. IsCache(new)
  <2>1. Len(list) > 1 => Tail(list) \in Seq(Nat)  BY <1>9
  <2>2. CASE Len(list) <= 1
    <3>1. new.byKey = Without(cache.byKey, oldest)  BY <1>7, <2>2
    <3> QED BY <1>2, <1>4, <3>1 DEF IsCache, Without
  <2>3. CASE ~(Len(list) <= 1)
    <3>1. new.byKey = With(cache.byKey, oldest, Tail(list))  BY <1>7, <2>3
    <3>2. Tail(list) \in Seq(Nat)  BY <1>12, <2>1, <2>3
    <3> QED BY <1>2, <1>4, <3>1, <3>2 DEF IsCache, With
  <2> QED BY <2>2, <2>3
<1>14. new.order = [i \in 1 .. last - later |-> entries[later + i].key]
  <2>1. new.order \in [1 .. kept - 1 -> Keys]  BY <1>4, LenProperties
  <2>2. ASSUME NEW i \in 1 .. kept - 1
        PROVE  new.order[i] = entries[later + i].key
    <3>1. i + 1 \in 1 .. kept /\ gone + (i + 1) = later + i  BY <1>1
    <3> QED BY <1>3, <1>4, <3>1
  <2> QED BY <1>1, <2>1, <2>2
<1>15. Elements(order) = Elements(new.order) \union {oldest}
  <2>1. DOMAIN order = 1 .. kept /\ DOMAIN new.order = 1 .. kept - 1
    BY <1>2, <1>3, <1>4
  <2>2. \A i \in 1 .. kept : i = 1 \/ (i - 1 \in 1 .. kept - 1 /\ i = (i - 1) + 1)
    BY <1>1
  <2>3. \A i \in 1 .. kept - 1 : i + 1 \in 1 .. kept  BY <1>1
  <2>4. 1 \in 1 .. kept  BY <1>1
  <2>5. Elements(order) \subseteq Elements(new.order) \union {oldest}
    <3> SUFFICES ASSUME NEW i \in 1 .. kept
                 PROVE  order[i] \in Elements(new.order) \union {oldest}
      BY <2>1 DEF Elements
    <3>1. CASE i = 1  BY <1>5, <3>1
    <3>2. CASE i - 1 \in 1 .. kept - 1
      <4>1. order[i] = new.order[i - 1]  BY <1>4, <2>2, <3>2
      <4> QED BY <2>1, <3>2, <4>1 DEF Elements
    <3> QED BY <2>2, <3>1, <3>2
  <2>6. Elements(new.order) \subseteq Elements(order)
    BY <1>4, <2>1, <2>3 DEF Elements
  <2>7. oldest \in Elements(order)  BY <1>5, <2>1, <2>4 DEF Elements
  <2> QED BY <2>5, <2>6, <2>7
<1>16. oldest \in Elements(new.order) <=> Len(list) > 1
  <2>1. DOMAIN new.order = 1 .. last - later  BY <1>14
  <2>2. oldest \in Elements(new.order) <=> \E i \in 1 .. last - later : entries[later + i].key = oldest
    BY <1>14, <2>1 DEF Elements
  <2>3. (\E i \in 1 .. last - later : entries[later + i].key = oldest)
          <=> (\E i \in later + 1 .. last : entries[i].key = oldest)
    <3>1. \A i \in 1 .. last - later : later + i \in later + 1 .. last  BY <1>1
    <3>2. \A i \in later + 1 .. last : i - later \in 1 .. last - later /\ later + (i - later) = i
      BY <1>1
    <3> QED BY <3>1, <3>2
  <2>4. (\E i \in later + 1 .. last : entries[i].key = oldest)
          <=> Times(entries, oldest, later + 1, last) # 0
    BY <1>1, TimesZero
  <2> QED BY <1>12, <2>2, <2>3, <2>4
<1>17. DOMAIN new.byKey = Elements(new.order)
  <2>1. CASE Len(list) <= 1
    <3>1. DOMAIN new.byKey = DOMAIN cache.byKey \ {oldest}  BY <1>7, <2>1 DEF Without
    <3>2. oldest \notin Elements(new.order)  BY <1>12, <1>16, <2>1
    <3> QED BY <1>2, <1>15, <3>1, <3>2
  <2>2. CASE ~(Len(list) <= 1)
    <3>1. DOMAIN new.byKey = DOMAIN cache.byKey \union {oldest}  BY <1>7, <2>2 DEF With
    <3>2. oldest \in Elements(new.order)  BY <1>12, <1>16, <2>2
    <3> QED BY <1>2, <1>15, <3>1, <3>2
  <2> QED BY <2>1, <2>2
<1>18. ASSUME NEW k \in DOMAIN new.byKey
       PROVE  /\ Len(new.byKey[k]) = Times(entries, k, later + 1, last)
              /\ \A j \in DOMAIN new.byKey[k] : \E i \in later + 1 .. last :
                   /\ entries[i].key = k /\ entries[i].value = new.byKey[k][j]
                   /\ j = Times(entries, k, later + 1, i)
  <2>0. last \in later .. last /\ gone + 1 = later  BY <1>1
  <2>a. \A i \in later .. last : i = later \/ i \in later + 1 .. last  BY <1>1
  <2>b. \A i \in later .. last : Times(entries, k, later + 1, i) \in Nat
    BY <1>1, UnderFinite
  <2>1. CASE k # oldest
    <3>1. k \in DOMAIN cache.byKey /\ new.byKey[k] = cache.byKey[k]
      BY <1>7, <2>1 DEF With, Without
    <3>2. \A i \in later .. last : Times(entries, k, gone + 1, i) = Times(entries, k, later + 1, i)
      BY <1>10, <2>1, <2>b
    <3>3. ASSUME NEW j \in DOMAIN new.byKey[k]
          PROVE  \E i \in later + 1 .. last :
                   /\ entries[i].key = k /\ entries[i].value = new.byKey[k][j]
                   /\ j = Times(entries, k, later + 1, i)
      <4>1. PICK i \in later .. last :
              /\ entries[i].key = k /\ entries[i].value = cache.byKey[k][j]
              /\ j = Times(entries, k, gone + 1, i)
        BY <1>11, <2>0, <3>1
      <4>2. i \in later + 1 .. last  BY <1>6, <2>1, <2>a, <4>1
      <4> QED BY <3>1, <3>2, <4>1, <4>2
    <3> QED BY <1>11, <2>0, <3>1, <3>2, <3>3
  <2>2. CASE k = oldest
    <3>1. Len(list) > 1  BY <1>16, <1>17, <2>2
    <3>a. new.byKey = With(cache.byKey, oldest, Tail(list))  BY <1>7, <1>12, <3>1
    <3>2. new.byKey[k] = Tail(list)  BY <2>2, <3>a DEF With
    <3>3. list # <<>>  BY <3>1
    <3>4. /\ Len(new.byKey[k]) = Len(list) - 1 /\ DOMAIN new.byKey[k] = 1 .. Len(list) - 1
          /\ \A j \in 1 .. Len(list) - 1 : new.byKey[k][j] = list[j + 1]
      <4>1. Tail(list) \in Seq(Nat) /\ Len(Tail(list)) = Len(list) - 1
            /\ \A j \in 1 .. Len(Tail(list)) : Tail(list)[j] = list[j + 1]
        BY <1>9, <3>3, HeadTailProperties
      <4>2. DOMAIN Tail(list) = 1 .. Len(Tail(list))  BY <4>1
      <4> QED BY <3>2, <4>1, <4>2
    <3>5. ASSUME NEW j \in DOMAIN new.byKey[k]
          PROVE  \E i \in later + 1 .. last :
                   /\ entries[i].key = k /\ entries[i].value = new.byKey[k][j]
                   /\ j = Times(entries, k, later + 1, i)
      <4>1. j \in Nat /\ j >= 1 /\ j + 1 \in DOMAIN list /\ new.byKey[k][j] = list[j + 1]
        <5>1. j \in 1 .. Len(list) - 1  BY <3>4, Zenon
        <5>2. DOMAIN list = 1 .. Len(list)  BY <1>9
        <5> QED BY <1>12, <3>4, <5>1, <5>2
      <4>2. PICK i \in later .. last :
              /\ entries[i].key = k /\ entries[i].value = list[j + 1]
              /\ j + 1 = Times(entries, k, gone + 1, i)
        BY <1>8, <1>11, <2>0, <2>2, <4>1 DEF list
      <4>3. j = Times(entries, k, later + 1, i)  BY <1>10, <2>2, <2>b, <4>1, <4>2
      <4>4. i # later
        <5> SUFFICES ASSUME i = later  PROVE FALSE
          OBVIOUS
        <5>1. Times(entries, k, later + 1, i) = 0  BY <1>1, TimesNone
        <5> QED BY <4>1, <4>3, <5>1
      <4> QED BY <2>a, <4>1, <4>2, <4>3, <4>4
    <3>6. Len(new.byKey[k]) = Times(entries, k, later + 1, last)  BY <1>12, <2>2, <3>4
    <3> QED BY <3>5, <3>6
  <2> QED BY <2>1, <2>2
<1>19. Holds(new, entries, later)  BY <1>14, <1>17, <1>18 DEF Holds, last
<1> QED BY <1>1, <1>13, <1>19
LEMMA GoneBounds ==
  ASSUME NEW entries \in Seq(Entries), NEW max \in Nat
  PROVE  /\ Gone(entries, max) \in 0 .. Len(entries)
         /\ Len(entries) - Gone(entries, max) <= max
BY DEF Gone

LEMMA OrderLength ==
  ASSUME NEW entries \in Seq(Entries), NEW cache, IsCache(cache),
         NEW gone \in 0 .. Len(entries), Holds(cache, entries, gone)
  PROVE  Len(cache.order) = Len(entries) - gone
<1>1. cache.order = [i \in 1 .. Len(entries) - gone |-> entries[gone + i].key]  BY DEF Holds
<1>2. DOMAIN cache.order = 1 .. Len(entries) - gone  BY <1>1, Zenon
<1>3. Len(cache.order) \in Nat /\ DOMAIN cache.order = 1 .. Len(cache.order)
  BY LenProperties, Zenon DEF IsCache
<1>4. Len(entries) - gone \in Nat  OBVIOUS
<1> QED BY <1>2, <1>3, <1>4

(* A cache stays the newest entries with every entry that is added.        *)
LEMMA InsertNewest ==
  ASSUME NEW entries \in Seq(Entries), NEW entry \in Entries, NEW cache, IsCache(cache),
         NEW max \in Nat \ {0}, CacheIsNewest(cache, entries, max),
         NEW new, new = Insert(cache, entry.key, entry.value, max)
  PROVE  /\ IsCache(new) /\ CacheIsNewest(new, Append(entries, entry), max)
         /\ Len(new.order) <= max
<1> DEFINE all == Append(entries, entry)
           gone == Gone(entries, max)
           larger == [byKey |-> With(cache.byKey, entry.key,
                                     Append(Of(cache.byKey, entry.key), entry.value)),
                      order |-> Append(cache.order, entry.key)]
           oldest == Head(larger.order)
           smaller == [byKey |-> IF Len(larger.byKey[oldest]) <= 1
                                   THEN Without(larger.byKey, oldest)
                                   ELSE With(larger.byKey, oldest, Tail(larger.byKey[oldest])),
                       order |-> Tail(larger.order)]
<1>1. all \in Seq(Entries) /\ Len(all) = Len(entries) + 1 /\ Len(entries) \in Nat  OBVIOUS
<1>2. gone \in 0 .. Len(entries)  BY GoneBounds
<1>3. Holds(cache, entries, gone)  BY DEF CacheIsNewest
<1>4. /\ larger.order = Append(cache.order, entry.key)
      /\ larger.byKey = With(cache.byKey, entry.key,
                             Append(Of(cache.byKey, entry.key), entry.value))
  OBVIOUS
<1>5. /\ smaller.order = Tail(larger.order)
      /\ smaller.byKey = IF Len(larger.byKey[Head(larger.order)]) <= 1
                           THEN Without(larger.byKey, Head(larger.order))
                           ELSE With(larger.byKey, Head(larger.order),
                                     Tail(larger.byKey[Head(larger.order)]))
  OBVIOUS
<1>6. new = IF Len(larger.order) <= max THEN larger ELSE smaller
  BY DEF Insert, Evict
<1>7. all = Append(entries, entry)  OBVIOUS
<1>a. gone = Gone(entries, max)  OBVIOUS
<1> HIDE DEF larger, smaller, all, gone
<1>8. IsCache(larger) /\ Holds(larger, all, gone)
  BY <1>2, <1>3, <1>4, <1>7, HoldsAfterAppend
<1>9. Len(larger.order) = Len(all) - gone
  BY <1>1, <1>2, <1>8, OrderLength
<1>10. CASE Len(larger.order) <= max
  <2>1. gone = 0 /\ Gone(all, max) = 0
    BY <1>1, <1>2, <1>9, <1>10, <1>a DEF Gone
  <2> QED BY <1>6, <1>7, <1>8, <1>10, <2>1 DEF CacheIsNewest
<1>11. CASE ~(Len(larger.order) <= max)
  <2>1. Gone(all, max) = gone + 1 /\ gone \in Nat /\ gone < Len(all)
    BY <1>1, <1>2, <1>9, <1>11, <1>a DEF Gone
  <2>2. IsCache(smaller) /\ Holds(smaller, all, gone + 1)
    BY <1>1, <1>5, <1>8, <2>1, HoldsAfterDrop
  <2>3. Len(smaller.order) <= max
    <3>1. gone + 1 \in 0 .. Len(all)  BY <1>1, <2>1
    <3>2. Len(smaller.order) = Len(all) - (gone + 1)  BY <1>1, <2>2, <3>1, OrderLength
    <3>3. Len(all) - Gone(all, max) <= max  BY <1>1, GoneBounds
    <3> QED BY <2>1, <3>2, <3>3
  <2> QED BY <1>6, <1>7, <1>11, <2>1, <2>2, <2>3 DEF CacheIsNewest
<1> QED BY <1>10, <1>11

(* The metadata of calls: one place in the order for each ID.              *)
IsToolCache ==
  /\ tools.order \in Seq(Keys)
  /\ tools.value \in [DOMAIN tools.value -> Nat]
  /\ DOMAIN tools.value = Elements(tools.order)
  /\ Len(tools.order) <= MaxTools

OnePlaceEach ==
  \A i, j \in DOMAIN tools.order : tools.order[i] = tools.order[j] => i = j

LastKept ==
  \A id \in DOMAIN tools.value : \E i \in DOMAIN log["tools"] :
    /\ log["tools"][i].key = id /\ log["tools"][i].value = tools.value[id]
    /\ \A j \in DOMAIN log["tools"] : j > i => log["tools"][j].key # id

LEMMA InsertToolNewest ==
  ASSUME Limits, log["tools"] \in Seq(Entries), IsToolCache, OnePlaceEach, LastKept,
         NEW entry \in Entries, tools' = InsertTool(entry.key, entry.value),
         log'["tools"] = Append(log["tools"], entry)
  PROVE  /\ IsToolCache' /\ OnePlaceEach' /\ LastKept'
         /\ DOMAIN tools'.value \subseteq DOMAIN tools.value \union {entry.key}
<1> DEFINE old == tools.order
           order == IF entry.key \in DOMAIN tools.value THEN old ELSE Append(old, entry.key)
           all == With(tools.value, entry.key, entry.value)
           entries == log["tools"]
<1>1. entry.key \in Keys /\ entry.value \in Nat  BY DEF Entries
<1>2. tools' = IF Len(order) <= MaxTools
                 THEN [value |-> all, order |-> order]
                 ELSE [value |-> Without(all, Head(order)), order |-> Tail(order)]
  BY DEF InsertTool
<1>3. old \in Seq(Keys) /\ Len(old) \in Nat /\ DOMAIN old = 1 .. Len(old) /\ Len(old) <= MaxTools
  BY DEF IsToolCache
<1>4. MaxTools \in Nat \ {0}  BY DEF Limits
<1>5. \A i, j \in 1 .. Len(old) : old[i] = old[j] => i = j  BY <1>3 DEF OnePlaceEach
<1>6. DOMAIN tools.value = {old[i] : i \in 1 .. Len(old)}  BY <1>3 DEF IsToolCache, Elements
<1>7. /\ DOMAIN all = DOMAIN tools.value \union {entry.key} /\ all \in [DOMAIN all -> Nat]
      /\ all[entry.key] = entry.value
      /\ \A id \in DOMAIN tools.value \ {entry.key} : all[id] = tools.value[id]
  BY <1>1 DEF With, IsToolCache
<1>b. order = IF entry.key \in DOMAIN tools.value THEN old ELSE Append(old, entry.key)
  OBVIOUS
<1> HIDE DEF all, old, order
<1>8. /\ order \in Seq(Keys) /\ Len(order) \in Nat /\ DOMAIN order = 1 .. Len(order)
      /\ DOMAIN all = {order[i] : i \in 1 .. Len(order)}
      /\ \A i, j \in 1 .. Len(order) : order[i] = order[j] => i = j
  <2>1. CASE entry.key \in DOMAIN tools.value
    BY <1>3, <1>5, <1>6, <1>7, <1>b, <2>1
  <2>2. CASE entry.key \notin DOMAIN tools.value
    <3>1. order = Append(old, entry.key)  BY <1>b, <2>2
    <3>2. /\ order \in Seq(Keys) /\ Len(order) = Len(old) + 1 /\ DOMAIN order = 1 .. Len(old) + 1
          /\ order[Len(old) + 1] = entry.key /\ \A i \in 1 .. Len(old) : order[i] = old[i]
      BY <1>1, <1>3, <3>1, Appended
    <3>3. \A i \in 1 .. Len(old) + 1 : i \in 1 .. Len(old) \/ i = Len(old) + 1  BY <1>3
    <3>4. \A i \in 1 .. Len(old) : old[i] # entry.key  BY <1>6, <2>2
    <3>5. \A i \in 1 .. Len(old) : i \in 1 .. Len(old) + 1  BY <1>3
    <3>6. Len(old) + 1 \in 1 .. Len(old) + 1  BY <1>3
    <3>7. {order[i] : i \in 1 .. Len(old) + 1} = {old[i] : i \in 1 .. Len(old)} \union {entry.key}
      BY <3>2, <3>3, <3>5, <3>6
    <3>8. ASSUME NEW i \in 1 .. Len(old) + 1, NEW j \in 1 .. Len(old) + 1, order[i] = order[j]
          PROVE  i = j
      BY <1>5, <3>2, <3>3, <3>4, <3>8
    <3>9. 1 .. Len(order) = 1 .. Len(old) + 1 /\ Len(order) \in Nat  BY <1>3, <3>2
    <3>10. DOMAIN all = {order[i] : i \in 1 .. Len(old) + 1}  BY <1>6, <1>7, <3>7, Zenon
    <3>11. \A i, j \in 1 .. Len(old) + 1 : order[i] = order[j] => i = j  BY <3>8
    <3> QED BY <3>2, <3>9, <3>10, <3>11, Zenon
  <2> QED BY <2>1, <2>2
<1> DEFINE Good(o, v) ==
      /\ o \in Seq(Keys) /\ Len(o) <= MaxTools /\ DOMAIN o = 1 .. Len(o)
      /\ v \in [DOMAIN v -> Nat] /\ DOMAIN v = {o[i] : i \in 1 .. Len(o)}
      /\ \A i, j \in 1 .. Len(o) : o[i] = o[j] => i = j
      /\ DOMAIN v \subseteq DOMAIN all /\ \A id \in DOMAIN v : v[id] = all[id]
<1>c. Good(tools'.order, tools'.value)
  <2>1. CASE Len(order) <= MaxTools
    <3>1. tools'.value = all /\ tools'.order = order  BY <1>2, <2>1
    <3>2. Good(order, all)  BY <1>7, <1>8, <2>1
    <3> HIDE DEF Good
    <3> QED BY <3>1, <3>2
  <2>2. CASE ~(Len(order) <= MaxTools)
    <3>1. tools'.value = Without(all, Head(order)) /\ tools'.order = Tail(order)
      BY <1>2, <2>2
    <3>2. Len(order) = MaxTools + 1 /\ order # <<>>
      <4>1. Len(order) <= Len(old) + 1  BY <1>1, <1>3, <1>b
      <4>4. Len(order) \in Nat /\ Len(old) \in Nat /\ Len(old) <= MaxTools  BY <1>3, <1>8
      <4>2. Len(order) = MaxTools + 1  BY <1>4, <2>2, <4>1, <4>4
      <4>3. order # <<>>  BY <1>4, <4>2
      <4> QED BY <4>2, <4>3
    <3>3. /\ Tail(order) \in Seq(Keys) /\ Len(Tail(order)) = MaxTools /\ Head(order) = order[1]
          /\ DOMAIN Tail(order) = 1 .. MaxTools
          /\ \A i \in 1 .. MaxTools : Tail(order)[i] = order[i + 1]
      <4>1. /\ Tail(order) \in Seq(Keys) /\ Len(Tail(order)) = Len(order) - 1
            /\ \A i \in 1 .. Len(Tail(order)) : Tail(order)[i] = order[i + 1]
        BY <1>8, <3>2, HeadTailProperties
      <4>2. DOMAIN Tail(order) = 1 .. Len(Tail(order))  BY <4>1, LenProperties
      <4>3. Len(order) - 1 = MaxTools  BY <1>4, <3>2
      <4>4. Head(order) = order[1]  BY <1>8, <3>2
      <4> QED BY <4>1, <4>2, <4>3, <4>4
    <3>4. /\ \A i \in 1 .. MaxTools : i + 1 \in 1 .. Len(order) /\ i + 1 # 1
          /\ \A i \in 1 .. Len(order) : i = 1 \/ (i - 1 \in 1 .. MaxTools /\ (i - 1) + 1 = i)
          /\ \A i, j \in 1 .. MaxTools : i + 1 = j + 1 => i = j
          /\ 1 \in 1 .. Len(order)
      BY <1>4, <3>2
    <3>5. \A i, j \in 1 .. MaxTools : Tail(order)[i] = Tail(order)[j] => i = j
      BY <1>8, <3>3, <3>4
    <3>6. DOMAIN Without(all, Head(order)) = {Tail(order)[i] : i \in 1 .. MaxTools}
      <4>1. DOMAIN Without(all, Head(order)) = DOMAIN all \ {order[1]}  BY <3>3 DEF Without
      <4>2. ASSUME NEW i \in 1 .. Len(order), order[i] # order[1]
            PROVE  order[i] \in {Tail(order)[j] : j \in 1 .. MaxTools}
        <5>1. i - 1 \in 1 .. MaxTools /\ (i - 1) + 1 = i  BY <3>4, <4>2
        <5> QED BY <3>3, <5>1
      <4>3. ASSUME NEW i \in 1 .. MaxTools
            PROVE  Tail(order)[i] \in DOMAIN all \ {order[1]}
        BY <1>8, <3>3, <3>4
      <4>4. DOMAIN all = {order[i] : i \in 1 .. Len(order)}  BY <1>8
      <4>5. ASSUME NEW x \in DOMAIN all \ {order[1]}
            PROVE  x \in {Tail(order)[j] : j \in 1 .. MaxTools}
        <5>1. PICK i \in 1 .. Len(order) : x = order[i]  BY <4>4
        <5> QED BY <4>2, <5>1
      <4> QED BY <4>1, <4>3, <4>5
    <3>7. /\ Without(all, Head(order)) \in [DOMAIN Without(all, Head(order)) -> Nat]
          /\ DOMAIN Without(all, Head(order)) \subseteq DOMAIN all
          /\ \A id \in DOMAIN Without(all, Head(order)) : Without(all, Head(order))[id] = all[id]
      BY <1>7 DEF Without
    <3>8. MaxTools <= MaxTools  BY <1>4
    <3>9. Good(Tail(order), Without(all, Head(order)))
      BY <3>3, <3>5, <3>6, <3>7, <3>8, Zenon
    <3> HIDE DEF Good
    <3> QED BY <3>1, <3>9
  <2> QED BY <2>1, <2>2
<1>9. /\ tools'.order \in Seq(Keys) /\ Len(tools'.order) <= MaxTools
      /\ DOMAIN tools'.order = 1 .. Len(tools'.order)
      /\ tools'.value \in [DOMAIN tools'.value -> Nat]
      /\ DOMAIN tools'.value = {tools'.order[i] : i \in 1 .. Len(tools'.order)}
      /\ \A i, j \in 1 .. Len(tools'.order) : tools'.order[i] = tools'.order[j] => i = j
      /\ DOMAIN tools'.value \subseteq DOMAIN all
      /\ \A id \in DOMAIN tools'.value : tools'.value[id] = all[id]
  BY <1>c, Zenon
<1>10. IsToolCache'
  BY <1>9 DEF IsToolCache, Elements
<1>11. OnePlaceEach'
  BY <1>9 DEF OnePlaceEach
<1>12. /\ entries \in Seq(Entries) /\ Len(entries) \in Nat /\ DOMAIN entries = 1 .. Len(entries)
       /\ DOMAIN log'["tools"] = 1 .. Len(entries) + 1
       /\ log'["tools"][Len(entries) + 1] = entry
       /\ \A i \in 1 .. Len(entries) : log'["tools"][i] = entries[i]
  BY Appended
<1> HIDE DEF entries
<1>13. ASSUME NEW id \in DOMAIN tools'.value
       PROVE  \E i \in DOMAIN log'["tools"] :
                /\ log'["tools"][i].key = id /\ log'["tools"][i].value = tools'.value[id]
                /\ \A j \in DOMAIN log'["tools"] : j > i => log'["tools"][j].key # id
  <2>1. CASE id = entry.key
    <3>1. Len(entries) + 1 \in DOMAIN log'["tools"]
          /\ \A j \in DOMAIN log'["tools"] : ~(j > Len(entries) + 1)
      BY <1>12
    <3>2. tools'.value[id] = entry.value  BY <1>7, <1>9, <2>1
    <3> QED BY <1>12, <2>1, <3>1, <3>2, Zenon
  <2>2. CASE id # entry.key
    <3>1. id \in DOMAIN tools.value /\ tools'.value[id] = tools.value[id]  BY <1>7, <1>9, <2>2
    <3>2. PICK i \in 1 .. Len(entries) :
            /\ entries[i].key = id /\ entries[i].value = tools.value[id]
            /\ \A j \in 1 .. Len(entries) : j > i => entries[j].key # id
      BY <1>12, <3>1 DEF LastKept, entries
    <3>3. i \in DOMAIN log'["tools"]  BY <1>12
    <3>4. ASSUME NEW j \in DOMAIN log'["tools"], j > i
          PROVE  log'["tools"][j].key # id
      <4>1. j \in 1 .. Len(entries) \/ j = Len(entries) + 1  BY <1>12
      <4> QED BY <1>12, <2>2, <3>2, <3>4, <4>1
    <3> QED BY <1>12, <3>1, <3>2, <3>3, <3>4
  <2> QED BY <2>1, <2>2
<1>14. LastKept'  BY <1>13 DEF LastKept
<1> QED BY <1>7, <1>9, <1>10, <1>11, <1>14
-----------------------------------------------------------------------------
(* The inductive invariant.                                                *)

Places == {"idle", "translating", "following", "finishing", "compacting", "failing"}

Typed ==
  /\ made \in Nat /\ made <= MaxItems
  /\ pc \in [Conversations -> Places]
  /\ history \in [Conversations -> Seq(Items)]
  /\ answer \in [Conversations -> Seq(Items)]
  /\ replayed \in [Conversations -> Seq(Nat)]
  /\ todo \in [Conversations -> SUBSET Entries]

CachesTyped ==
  /\ log \in [Caches -> Seq(Entries)]
  /\ IsCache(messages) /\ Len(messages.order) <= MaxMessages
  /\ IsCache(searches) /\ Len(searches.order) <= MaxSearches
  /\ IsToolCache

Numbers(items) == {items[i].n : i \in DOMAIN items}

(* A number is in one place only: a history, the answer of one response,   *)
(* and with each cache either still to be remembered or in its log.        *)
NumbersOnce ==
  /\ \A c \in Conversations :
       /\ Numbers(history[c]) \subseteq 1 .. made /\ Numbers(answer[c]) \subseteq 1 .. made
       /\ \A e \in todo[c] : e.value \in Numbers(answer[c])
       /\ \A e, g \in todo[c] : e.cache = g.cache /\ e.value = g.value => e = g
  /\ \A c, d \in Conversations : Numbers(history[c]) \intersect Numbers(answer[d]) = {}
  /\ \A c, d \in Conversations : c # d => Numbers(answer[c]) \intersect Numbers(answer[d]) = {}

LoggedOnce ==
  /\ \A cache \in Caches : \A i \in DOMAIN log[cache] : log[cache][i].value \in 1 .. made
  /\ \A cache \in Caches : \A i, j \in DOMAIN log[cache] :
       log[cache][i].value = log[cache][j].value => i = j
  /\ \A c \in Conversations : \A e \in todo[c] : \A i \in DOMAIN log[e.cache] :
       log[e.cache][i].value # e.value

(* A value looked up in a list is of an entry under that key, and none that*)
(* came later than what is gone and the earlier occurrences account for.   *)
FromEntry(entries, max, item, occurrence, value) ==
  \E i \in DOMAIN entries :
    /\ entries[i].value = value /\ entries[i].key = item.key
    /\ Times(entries, item.key, 1, i)
         <= Times(entries, item.key, 1, Gone(entries, max)) + occurrence + 1

ReplayedFrom ==
  \A c \in Conversations :
    /\ Len(replayed[c]) <= Len(history[c])
    /\ \A p \in DOMAIN replayed[c] :
         /\ replayed[c][p] \in Marks \union {None}
         /\ history[c][p].kind # "call" /\ replayed[c][p] # None =>
              FromEntry(log[CacheFor(history[c][p].kind)], MaxFor(history[c][p].kind),
                        history[c][p], Occurrence(history[c], p), replayed[c][p])

Inv ==
  /\ Typed /\ CachesTyped /\ NewestKept /\ NumbersOnce /\ LoggedOnce
  /\ ReplayedFrom /\ ReplayInOrder /\ ReplayExact

LEMMA InvTyped == Inv => TypeOK
<1> SUFFICES ASSUME Inv PROVE TypeOK
  OBVIOUS
<1>1. made \in 0 .. MaxItems  BY CacheAssumption DEF Inv, Typed
<1>2. /\ DOMAIN tools.value = Elements(tools.order) /\ Len(tools.order) <= MaxTools
      /\ Len(messages.order) <= MaxMessages /\ Len(searches.order) <= MaxSearches
  BY DEF Inv, CachesTyped, IsToolCache
<1>3. ASSUME NEW c \in Conversations
      PROVE  /\ pc[c] \in {"idle", "translating", "following", "finishing", "compacting", "failing"}
             /\ \A p \in DOMAIN history[c] : history[c][p].n \in Marks /\ history[c][p].kind \in Kinds
             /\ Len(replayed[c]) <= Len(history[c])
             /\ \A p \in DOMAIN replayed[c] : replayed[c][p] \in Marks \union {None}
  <2>1. pc[c] \in Places  BY DEF Inv, Typed
  <2>2. history[c] \in Seq(Items)  BY DEF Inv, Typed
  <2>3. \A p \in DOMAIN history[c] : history[c][p] \in Items  BY <2>2
  <2>4. Numbers(history[c]) \subseteq 1 .. made  BY DEF Inv, NumbersOnce
  <2>5. \A p \in DOMAIN history[c] : history[c][p].n \in Marks /\ history[c][p].kind \in Kinds
    BY <2>3, <2>4 DEF Items, Numbers, Marks
  <2> QED BY <2>1, <2>5 DEF Inv, ReplayedFrom, Places
<1> QED BY <1>1, <1>2, <1>3 DEF TypeOK

LEMMA InitInv == Init => Inv
<1> SUFFICES ASSUME Init PROVE Inv
  OBVIOUS
<1>1. Typed  BY CacheAssumption DEF Init, Typed, Places
<1>2. CachesTyped
  <2>1. log \in [Caches -> Seq(Entries)]  BY DEF Init
  <2>2. IsCache(messages) /\ Len(messages.order) <= MaxMessages
    BY LimitsHold DEF Init, IsCache, Limits
  <2>3. IsCache(searches) /\ Len(searches.order) <= MaxSearches
    BY LimitsHold DEF Init, IsCache, Limits
  <2>4. IsToolCache  BY LimitsHold DEF Init, IsToolCache, Limits, Elements
  <2> QED BY <2>1, <2>2, <2>3, <2>4 DEF CachesTyped
<1>3. NewestKept
  <2>1. ASSUME NEW max \in Nat \ {0}, NEW cache, cache = [byKey |-> <<>>, order |-> <<>>]
        PROVE  CacheIsNewest(cache, <<>>, max)
    BY <2>1 DEF CacheIsNewest, Holds, Gone, Elements
  <2>2. CacheIsNewest(messages, log["messages"], MaxMessages)
    BY <2>1, LimitsHold DEF Init, Limits, Caches
  <2>3. CacheIsNewest(searches, log["searches"], MaxSearches)
    BY <2>1, LimitsHold DEF Init, Limits, Caches
  <2>4. tools.value = <<>> /\ tools.order = <<>>  BY DEF Init
  <2> QED BY <2>2, <2>3, <2>4 DEF NewestKept
<1>4. NumbersOnce  BY DEF Init, NumbersOnce, Numbers
<1>5. LoggedOnce  BY DEF Init, LoggedOnce
<1>6. \A c \in Conversations : replayed[c] = <<>> /\ history[c] = <<>>  BY DEF Init
<1>7. ReplayedFrom  BY <1>6 DEF ReplayedFrom
<1>8. ReplayInOrder  BY <1>6 DEF ReplayInOrder
<1>9. ReplayExact  BY <1>6 DEF ReplayExact
<1> QED BY <1>1, <1>2, <1>3, <1>4, <1>5, <1>7, <1>8, <1>9 DEF Inv
-----------------------------------------------------------------------------
(* What steps leave alone.                                                 *)

LEMMA CachesKept ==
  ASSUME Inv, UNCHANGED caches
  PROVE  CachesTyped' /\ NewestKept'
<1>1. CachesTyped'  BY DEF Inv, caches, CachesTyped, IsToolCache
<1>2. NewestKept'  BY DEF Inv, caches, NewestKept
<1> QED BY <1>1, <1>2

(* The look-ups of a request are either over or go on with the same        *)
(* history and caches.                                                     *)
LEMMA ReplayKept ==
  ASSUME Inv, UNCHANGED caches, made' \in Nat, made' >= made,
         \A c \in Conversations :
           \/ replayed'[c] = <<>> /\ history'[c] \in Seq(Items)
           \/ replayed'[c] = replayed[c] /\ history'[c] = history[c]
  PROVE  ReplayedFrom' /\ ReplayInOrder' /\ ReplayExact'
<1>1. log' = log /\ tools' = tools  BY DEF caches
<1>2. Marks \subseteq Marks'  BY DEF Marks, Inv, Typed
<1>3. ReplayedFrom'
  <2> SUFFICES ASSUME NEW c \in Conversations
               PROVE  /\ Len(replayed'[c]) <= Len(history'[c])
                      /\ \A p \in DOMAIN replayed'[c] :
                           /\ replayed'[c][p] \in Marks' \union {None}
                           /\ history'[c][p].kind # "call" /\ replayed'[c][p] # None =>
                                FromEntry(log'[CacheFor(history'[c][p].kind)],
                                          MaxFor(history'[c][p].kind), history'[c][p],
                                          Occurrence(history'[c], p), replayed'[c][p])
    BY DEF ReplayedFrom
  <2>1. CASE replayed'[c] = <<>> /\ history'[c] \in Seq(Items)
    BY <2>1
  <2>2. CASE replayed'[c] = replayed[c] /\ history'[c] = history[c]
    BY <1>1, <1>2, <2>2 DEF Inv, ReplayedFrom
  <2> QED BY <2>1, <2>2
<1>4. ReplayInOrder'
  BY <1>1 DEF Inv, ReplayInOrder
<1>5. ReplayExact'
  BY <1>1 DEF Inv, ReplayExact
<1> QED BY <1>3, <1>4, <1>5
-----------------------------------------------------------------------------
(* One lemma per action.                                                   *)

LEMMA AskInv ==
  ASSUME Inv, NEW c \in Conversations, Ask(c)
  PROVE  Inv'
<1>1. Typed'
  <2>1. pc' \in [Conversations -> Places]  BY DEF Ask, Inv, Typed, Places
  <2>2. replayed' \in [Conversations -> Seq(Nat)]  BY DEF Ask, Inv, Typed
  <2> QED BY <2>1, <2>2 DEF Ask, Inv, Typed
<1>2. CachesTyped' /\ NewestKept'  BY CachesKept DEF Ask
<1>3. NumbersOnce'  BY DEF Ask, Inv, NumbersOnce
<1>4. LoggedOnce'  BY DEF Ask, Inv, LoggedOnce, caches
<1>5. ReplayedFrom' /\ ReplayInOrder' /\ ReplayExact'
  <2>1. \A d \in Conversations :
          \/ replayed'[d] = <<>> /\ history'[d] \in Seq(Items)
          \/ replayed'[d] = replayed[d] /\ history'[d] = history[d]
    BY DEF Ask, Inv, Typed
  <2>2. made' \in Nat /\ made' >= made /\ UNCHANGED caches  BY DEF Ask, Inv, Typed
  <2> QED BY <2>1, <2>2, ReplayKept
<1> QED BY <1>1, <1>2, <1>3, <1>4, <1>5 DEF Inv

LEMMA LeaveInv ==
  ASSUME Inv, NEW c \in Conversations, NEW items, Leave(c, items),
         items \in {history[c], history[c] \o answer[c], answer[c]}
  PROVE  Inv'
<1>1. /\ history[c] \in Seq(Items) /\ answer[c] \in Seq(Items)
      /\ history \in [Conversations -> Seq(Items)] /\ answer \in [Conversations -> Seq(Items)]
      /\ todo \in [Conversations -> SUBSET Entries]
      /\ replayed \in [Conversations -> Seq(Nat)]
  BY DEF Inv, Typed
<1>2. items \in Seq(Items)
  <2>1. history[c] \o answer[c] \in Seq(Items)  BY <1>1, ConcatProperties
  <2> QED BY <1>1, <2>1
<1>3. /\ history' = [history EXCEPT ![c] = items] /\ answer' = [answer EXCEPT ![c] = <<>>]
      /\ todo' = [todo EXCEPT ![c] = {}] /\ replayed' = [replayed EXCEPT ![c] = <<>>]
      /\ pc' = [pc EXCEPT ![c] = "idle"] /\ made' = made /\ UNCHANGED caches
  BY DEF Leave
<1>4. Numbers(items) \subseteq Numbers(history[c]) \union Numbers(answer[c])
  <2>1. ASSUME NEW i \in DOMAIN items
        PROVE  items[i].n \in Numbers(history[c]) \union Numbers(answer[c])
    <3>1. CASE items = history[c] \o answer[c]
      <4>1. i \in 1 .. Len(history[c]) + Len(answer[c])  BY <1>1, <3>1, ConcatProperties
      <4>2. items[i] = IF i <= Len(history[c]) THEN history[c][i] ELSE answer[c][i - Len(history[c])]
        BY <1>1, <3>1, <4>1, ConcatProperties
      <4>3. CASE i <= Len(history[c])
        <5>1. i \in DOMAIN history[c]  BY <1>1, <4>1, <4>3
        <5> QED BY <4>2, <4>3, <5>1 DEF Numbers
      <4>4. CASE ~(i <= Len(history[c]))
        <5>1. i - Len(history[c]) \in DOMAIN answer[c]  BY <1>1, <4>1, <4>4
        <5> QED BY <4>2, <4>4, <5>1 DEF Numbers
      <4> QED BY <4>3, <4>4
    <3>2. CASE items = history[c] \/ items = answer[c]  BY <3>2 DEF Numbers
    <3> QED BY <3>1, <3>2
  <2> QED BY <2>1 DEF Numbers
<1>5. Typed'
  <2>1. pc' \in [Conversations -> Places]  BY <1>3 DEF Inv, Typed, Places
  <2>2. history' \in [Conversations -> Seq(Items)]  BY <1>1, <1>2, <1>3
  <2>3. answer' \in [Conversations -> Seq(Items)]  BY <1>1, <1>3
  <2>4. todo' \in [Conversations -> SUBSET Entries]  BY <1>1, <1>3
  <2>5. replayed' \in [Conversations -> Seq(Nat)]  BY <1>1, <1>3
  <2> QED BY <1>3, <2>1, <2>2, <2>3, <2>4, <2>5 DEF Inv, Typed
<1>6. CachesTyped' /\ NewestKept'  BY <1>3, CachesKept
<1>7. \A d \in Conversations :
        /\ history'[d] = IF d = c THEN items ELSE history[d]
        /\ answer'[d] = IF d = c THEN <<>> ELSE answer[d]
        /\ todo'[d] = IF d = c THEN {} ELSE todo[d]
  BY <1>1, <1>3
<1>8. Numbers(<<>>) = {}  BY DEF Numbers
<1>9. NumbersOnce'
  <2>1. \A d \in Conversations :
          /\ Numbers(history'[d]) \subseteq 1 .. made' /\ Numbers(answer'[d]) \subseteq 1 .. made'
          /\ \A e \in todo'[d] : e.value \in Numbers(answer'[d])
          /\ \A e, g \in todo'[d] : e.cache = g.cache /\ e.value = g.value => e = g
    BY <1>3, <1>4, <1>7, <1>8 DEF Inv, NumbersOnce
  <2>2. \A d, e \in Conversations : Numbers(history'[d]) \intersect Numbers(answer'[e]) = {}
    BY <1>4, <1>7, <1>8 DEF Inv, NumbersOnce
  <2>3. \A d, e \in Conversations : d # e => Numbers(answer'[d]) \intersect Numbers(answer'[e]) = {}
    BY <1>7, <1>8 DEF Inv, NumbersOnce
  <2> QED BY <2>1, <2>2, <2>3 DEF NumbersOnce
<1>10. LoggedOnce'  BY <1>3, <1>7 DEF Inv, LoggedOnce, caches
<1>11. ReplayedFrom' /\ ReplayInOrder' /\ ReplayExact'
  <2>1. \A d \in Conversations :
          \/ replayed'[d] = <<>> /\ history'[d] \in Seq(Items)
          \/ replayed'[d] = replayed[d] /\ history'[d] = history[d]
    BY <1>1, <1>2, <1>3
  <2>2. made' \in Nat /\ made' >= made  BY <1>3 DEF Inv, Typed
  <2> QED BY <1>3, <2>1, <2>2, ReplayKept
<1> QED BY <1>5, <1>6, <1>9, <1>10, <1>11 DEF Inv

LEMMA NumberedItems ==
  ASSUME NEW items \in Answers, made \in Nat
  PROVE  /\ Numbered(items) \in Seq(Items) /\ Len(items) \in Nat
         /\ DOMAIN Numbered(items) = 1 .. Len(items)
         /\ \A i \in 1 .. Len(items) : Numbered(items)[i].n = made + i
<1>1. /\ items \in Seq(Elements(items)) /\ Len(items) \in Nat /\ DOMAIN items = 1 .. Len(items)
      /\ \A i \in DOMAIN items : items[i].kind \in Kinds /\ items[i].extra \in BOOLEAN
  <2>1. items \in Seq(Elements(items))
        /\ \A i \in DOMAIN items : items[i].kind \in Kinds /\ items[i].extra \in BOOLEAN
    BY CacheAssumption, Zenon
  <2> QED BY <2>1, LenProperties
<1>2. \A i \in DOMAIN items : items[i].key \in Keys /\ items[i].id \in Keys  BY DEF Keys
<1>3. ASSUME NEW i \in DOMAIN items
      PROVE  Numbered(items)[i] \in Items
  <2>1. Numbered(items)[i] =
          [n |-> made + i, kind |-> items[i].kind, key |-> items[i].key, id |-> items[i].id,
           extra |-> items[i].extra]
    BY DEF Numbered
  <2>2. made + i \in Nat  BY <1>1
  <2>3. /\ items[i].kind \in Kinds /\ items[i].key \in Keys /\ items[i].id \in Keys
        /\ items[i].extra \in Flags
    BY <1>1, <1>2, Zenon DEF Flags
  <2> QED BY <2>1, <2>2, <2>3 DEF Items
<1>4. DOMAIN Numbered(items) = 1 .. Len(items)  BY <1>1 DEF Numbered
<1>5. Numbered(items) \in [1 .. Len(items) -> Items]  BY <1>1, <1>3, <1>4 DEF Numbered
<1>6. Numbered(items) \in Seq(Items)  BY <1>1, <1>5
<1>7. \A i \in 1 .. Len(items) : Numbered(items)[i].n = made + i  BY <1>1 DEF Numbered
<1> QED BY <1>1, <1>4, <1>6, <1>7

LEMMA EntriesOfItems ==
  ASSUME NEW items \in Answers, made \in Nat, NEW executed \in BOOLEAN
  PROVE  \A e \in ToRemember(Numbered(items), executed) :
           /\ e \in Entries
           /\ \E i \in 1 .. Len(items) : e.value = made + i
           /\ \A g \in ToRemember(Numbered(items), executed) :
                e.cache = g.cache /\ e.value = g.value => e = g
<1> DEFINE new == Numbered(items)
<1>1. /\ new \in Seq(Items) /\ DOMAIN new = 1 .. Len(items) /\ Len(items) \in Nat
      /\ \A i \in 1 .. Len(items) : new[i].n = made + i
  BY NumberedItems
<1>2. \A i \in 1 .. Len(items) :
        /\ new[i] \in Items /\ new[i].n \in Nat /\ new[i].key \in Keys /\ new[i].id \in Keys
  <2> HIDE DEF new
  <2>1. \A i \in 1 .. Len(items) : new[i] \in Items  BY <1>1
  <2> QED BY <2>1 DEF Items
<1> HIDE DEF new
<1> DEFINE Name(cache, i) == IF cache = "tools" THEN new[i].id ELSE new[i].key
<1>3. ASSUME NEW e \in ToRemember(new, executed)
      PROVE  \E i \in 1 .. Len(items) : \E cache \in Caches : e = Entry(cache, Name(cache, i), new[i].n)
  <2>1. CASE \E i \in 1 .. Len(items) : e = Entry("tools", new[i].id, new[i].n)
    BY <2>1 DEF Caches
  <2>2. CASE \E i \in 1 .. Len(items) : e = Entry("messages", new[i].key, new[i].n)
    BY <2>2 DEF Caches
  <2>3. CASE \E i \in 1 .. Len(items) : e = Entry("searches", new[i].key, new[i].n)
    BY <2>3 DEF Caches
  <2>4. \/ \E i \in 1 .. Len(items) : e = Entry("tools", new[i].id, new[i].n)
        \/ \E i \in 1 .. Len(items) : e = Entry("messages", new[i].key, new[i].n)
        \/ \E i \in 1 .. Len(items) : e = Entry("searches", new[i].key, new[i].n)
    BY <1>1, Zenon DEF ToRemember, Elements
  <2> QED BY <2>1, <2>2, <2>3, <2>4
<1>4. ASSUME NEW e \in ToRemember(new, executed)
      PROVE  /\ e \in Entries
             /\ \E i \in 1 .. Len(items) : e.value = made + i
             /\ \A g \in ToRemember(new, executed) :
                  e.cache = g.cache /\ e.value = g.value => e = g
  <2>1. PICK i \in 1 .. Len(items), k \in Caches : e = Entry(k, Name(k, i), new[i].n)
    BY <1>3
  <2>2. e.cache = k /\ e.key = Name(k, i) /\ e.value = new[i].n  BY <2>1 DEF Entry
  <2>3. e \in Entries  BY <1>2, <2>1 DEF Entry, Entries
  <2>4. ASSUME NEW g \in ToRemember(new, executed), e.cache = g.cache, e.value = g.value
        PROVE  e = g
    <3>1. PICK j \in 1 .. Len(items), l \in Caches : g = Entry(l, Name(l, j), new[j].n)
      BY <1>3
    <3>2. g.cache = l /\ g.value = new[j].n  BY <3>1 DEF Entry
    <3>a. new[i].n = made + i /\ new[j].n = made + j /\ i \in Nat /\ j \in Nat  BY <1>1
    <3>b. made + i = made + j  BY <2>2, <2>4, <3>2, <3>a
    <3>3. k = l /\ i = j  BY <2>2, <2>4, <3>2, <3>a, <3>b
    <3> QED BY <2>1, <3>1, <3>3
  <2> QED BY <1>1, <2>2, <2>3, <2>4
<1> QED BY <1>4 DEF new

LEMMA NumbersOfBoth ==
  ASSUME NEW x \in Seq(Items), NEW y \in Seq(Items)
  PROVE  Numbers(x \o y) \subseteq Numbers(x) \union Numbers(y)
<1>1. ASSUME NEW i \in DOMAIN (x \o y)
      PROVE  (x \o y)[i].n \in Numbers(x) \union Numbers(y)
  <2>1. i \in 1 .. Len(x) + Len(y)  BY ConcatProperties
  <2>2. (x \o y)[i] = IF i <= Len(x) THEN x[i] ELSE y[i - Len(x)]
    BY <2>1, ConcatProperties
  <2>3. CASE i <= Len(x)
    <3>1. i \in DOMAIN x  BY <2>1, <2>3
    <3> QED BY <2>2, <2>3, <3>1 DEF Numbers
  <2>4. CASE ~(i <= Len(x))
    <3>1. i - Len(x) \in DOMAIN y  BY <2>1, <2>4
    <3> QED BY <2>2, <2>4, <3>1 DEF Numbers
  <2> QED BY <2>3, <2>4
<1> QED BY <1>1 DEF Numbers

LEMMA AnsweredInv ==
  ASSUME Inv, NEW c \in Conversations, NEW items \in Answers,
         made' = made + Len(items), made' <= MaxItems,
         NEW before \in {answer[c], <<>>},
         answer' = [answer EXCEPT ![c] = before \o Numbered(items)],
         NEW entries, entries = {} \/ \E executed \in BOOLEAN :
                                        entries = ToRemember(Numbered(items), executed),
         todo' = [todo EXCEPT ![c] = entries],
         NEW place \in Places, pc' = [pc EXCEPT ![c] = place],
         replayed' = [replayed EXCEPT ![c] = <<>>],
         UNCHANGED <<caches, history>>
  PROVE  Inv'
<1> DEFINE new == Numbered(items)
           both == before \o new
<1>1. /\ history \in [Conversations -> Seq(Items)] /\ answer \in [Conversations -> Seq(Items)]
      /\ todo \in [Conversations -> SUBSET Entries] /\ pc \in [Conversations -> Places]
      /\ replayed \in [Conversations -> Seq(Nat)] /\ made \in Nat
  BY DEF Inv, Typed
<1>2. /\ new \in Seq(Items) /\ Len(items) \in Nat /\ DOMAIN new = 1 .. Len(items)
      /\ \A i \in 1 .. Len(items) : new[i].n = made + i
  BY <1>1, NumberedItems
<1>3. made' \in Nat /\ made' >= made  BY <1>1, <1>2
<1> HIDE DEF new
<1>4. before \in Seq(Items)
  <2>1. answer[c] \in Seq(Items)  BY <1>1
  <2>2. <<>> \in Seq(Items)  BY EmptySeq
  <2> QED BY <2>1, <2>2
<1>5. both \in Seq(Items)  BY <1>2, <1>4, ConcatProperties
<1>6. Numbers(new) = made + 1 .. made'
  <2>1. \A i \in 1 .. Len(items) : made + i \in made + 1 .. made'  BY <1>1, <1>2
  <2>2. \A n \in made + 1 .. made' : n - made \in 1 .. Len(items) /\ n = made + (n - made)
    BY <1>1, <1>2
  <2>3. Numbers(new) = {new[i].n : i \in 1 .. Len(items)}  BY <1>2, Zenon DEF Numbers
  <2>4. ASSUME NEW n \in made + 1 .. made'
        PROVE  n \in {new[i].n : i \in 1 .. Len(items)}
    <3>1. n - made \in 1 .. Len(items) /\ n = made + (n - made)  BY <2>2
    <3>2. new[n - made].n = n  BY <1>2, <3>1
    <3> QED BY <3>1, <3>2
  <2>5. {new[i].n : i \in 1 .. Len(items)} \subseteq made + 1 .. made'  BY <1>2, <2>1
  <2> QED BY <2>3, <2>4, <2>5
<1>7. Numbers(both) \subseteq Numbers(answer[c]) \union Numbers(new)
  <2>1. Numbers(before) \subseteq Numbers(answer[c])  BY DEF Numbers
  <2> QED BY <1>2, <1>4, <2>1, NumbersOfBoth
<1>8. Numbers(new) \subseteq Numbers(both)
  <2>1. ASSUME NEW i \in 1 .. Len(items)
        PROVE  new[i].n \in Numbers(both)
    <3>1. Len(before) \in Nat /\ Len(new) = Len(items)  BY <1>2, <1>4
    <3>2. Len(before) + i \in 1 .. Len(before) + Len(new)
          /\ ~(Len(before) + i <= Len(before)) /\ (Len(before) + i) - Len(before) = i
      BY <1>2, <3>1
    <3>3. DOMAIN both = 1 .. Len(before) + Len(new)  BY <1>2, <1>4, ConcatProperties
    <3>4. both[Len(before) + i] = new[i]  BY <1>2, <1>4, <3>2, ConcatProperties
    <3> QED BY <3>2, <3>3, <3>4 DEF Numbers
  <2> QED BY <1>2, <2>1 DEF Numbers
<1>9. \A e \in entries :
        /\ e \in Entries /\ e.value \in Numbers(new)
        /\ \A g \in entries : e.cache = g.cache /\ e.value = g.value => e = g
  <2>1. ASSUME NEW executed \in BOOLEAN, NEW e \in ToRemember(new, executed)
        PROVE  /\ e \in Entries /\ e.value \in Numbers(new)
               /\ \A g \in ToRemember(new, executed) : e.cache = g.cache /\ e.value = g.value => e = g
    <3>1. /\ e \in Entries /\ \E i \in 1 .. Len(items) : e.value = made + i
          /\ \A g \in ToRemember(new, executed) : e.cache = g.cache /\ e.value = g.value => e = g
      BY <1>1, EntriesOfItems, Zenon DEF new
    <3>2. e.value \in Numbers(new)
      <4>1. PICK i \in 1 .. Len(items) : e.value = made + i  BY <3>1
      <4> QED BY <1>2, <4>1 DEF Numbers
    <3> QED BY <3>1, <3>2
  <2> QED BY <2>1 DEF new
<1>10. \A d \in Conversations :
         /\ history'[d] = history[d]
         /\ answer'[d] = IF d = c THEN both ELSE answer[d]
         /\ todo'[d] = IF d = c THEN entries ELSE todo[d]
  BY <1>1 DEF new
<1> HIDE DEF both
<1>11. Typed'
  <2>1. pc' \in [Conversations -> Places]  BY <1>1
  <2>2. answer' \in [Conversations -> Seq(Items)]  BY <1>1, <1>5 DEF both, new
  <2>3. todo' \in [Conversations -> SUBSET Entries]
    <3>1. entries \in SUBSET Entries  BY <1>9
    <3> QED BY <1>1, <3>1
  <2>4. replayed' \in [Conversations -> Seq(Nat)]  BY <1>1
  <2> QED BY <1>1, <1>3, <2>1, <2>2, <2>3, <2>4 DEF Typed
<1>12. CachesTyped' /\ NewestKept'  BY CachesKept
<1>13. \A n \in 1 .. made : n \in 1 .. made' /\ n \notin Numbers(new)  BY <1>1, <1>3, <1>6
<1>14. Numbers(new) \subseteq 1 .. made'  BY <1>1, <1>3, <1>6
<1>15. \A d \in Conversations :
         /\ Numbers(history[d]) \subseteq 1 .. made /\ Numbers(answer[d]) \subseteq 1 .. made
         /\ \A e \in todo[d] : e.value \in Numbers(answer[d])
         /\ \A e, g \in todo[d] : e.cache = g.cache /\ e.value = g.value => e = g
         /\ \A e \in Conversations : Numbers(history[d]) \intersect Numbers(answer[e]) = {}
         /\ \A e \in Conversations : d # e => Numbers(answer[d]) \intersect Numbers(answer[e]) = {}
  BY DEF Inv, NumbersOnce
<1>16. NumbersOnce'
  <2>1. \A d \in Conversations :
          /\ Numbers(history'[d]) \subseteq 1 .. made' /\ Numbers(answer'[d]) \subseteq 1 .. made'
    BY <1>7, <1>10, <1>13, <1>14, <1>15
  <2>2. \A d \in Conversations : \A e \in todo'[d] : e.value \in Numbers(answer'[d])
    BY <1>8, <1>9, <1>10, <1>15
  <2>3. \A d \in Conversations :
          \A e, g \in todo'[d] : e.cache = g.cache /\ e.value = g.value => e = g
    BY <1>9, <1>10, <1>15
  <2>4. \A d, e \in Conversations : Numbers(history'[d]) \intersect Numbers(answer'[e]) = {}
    BY <1>7, <1>10, <1>13, <1>15
  <2>5. \A d, e \in Conversations : d # e => Numbers(answer'[d]) \intersect Numbers(answer'[e]) = {}
    BY <1>7, <1>10, <1>13, <1>15
  <2> QED BY <2>1, <2>2, <2>3, <2>4, <2>5 DEF NumbersOnce
<1>17. log' = log  BY DEF caches
<1>18. LoggedOnce'
  <2>1. \A cache \in Caches : \A i \in DOMAIN log[cache] : log[cache][i].value \in 1 .. made
    BY DEF Inv, LoggedOnce
  <2>2. \A cache \in Caches : \A i, j \in DOMAIN log[cache] :
          log[cache][i].value = log[cache][j].value => i = j
    BY DEF Inv, LoggedOnce
  <2>3. ASSUME NEW d \in Conversations, NEW e \in todo'[d], NEW i \in DOMAIN log[e.cache]
        PROVE  log[e.cache][i].value # e.value
    <3>1. CASE d = c
      <4>1. e.value \in Numbers(new) /\ e.cache \in Caches  BY <1>9, <1>10, <3>1 DEF Entries
      <4> QED BY <1>13, <2>1, <4>1
    <3>2. CASE d # c
      <4>1. e \in todo[d]  BY <1>10, <3>2
      <4> QED BY <4>1 DEF Inv, LoggedOnce
    <3> QED BY <3>1, <3>2
  <2> QED BY <1>13, <1>17, <2>1, <2>2, <2>3 DEF LoggedOnce
<1>19. ReplayedFrom' /\ ReplayInOrder' /\ ReplayExact'
  <2>1. \A d \in Conversations :
          \/ replayed'[d] = <<>> /\ history'[d] \in Seq(Items)
          \/ replayed'[d] = replayed[d] /\ history'[d] = history[d]
    BY <1>1
  <2> QED BY <1>3, <2>1, ReplayKept
<1> QED BY <1>11, <1>12, <1>16, <1>18, <1>19 DEF Inv

LEMMA GenerateInv ==
  ASSUME Inv, NEW c \in Conversations, Generate(c)
  PROVE  Inv'
<1>1. PICK items \in Answers :
        /\ made' = made + Len(items) /\ made' <= MaxItems
        /\ answer' = [answer EXCEPT ![c] = answer[c] \o Numbered(items)]
        /\ \E place \in {"following", "finishing", "failing"} : \E entries :
             /\ entries = {} \/ \E executed \in BOOLEAN :
                                  entries = ToRemember(Numbered(items), executed)
             /\ pc' = [pc EXCEPT ![c] = place] /\ todo' = [todo EXCEPT ![c] = entries]
  <2>1. PICK items \in Answers :
          /\ made' = made + Len(items) /\ made' <= MaxItems
          /\ answer' = [answer EXCEPT ![c] = answer[c] \o Numbered(items)]
          /\ \/ /\ pc' = [pc EXCEPT ![c] = "following"]
                /\ todo' = [todo EXCEPT ![c] = ToRemember(Numbered(items), TRUE)]
             \/ /\ pc' = [pc EXCEPT ![c] = "finishing"]
                /\ todo' = [todo EXCEPT ![c] = ToRemember(Numbered(items), TRUE)]
             \/ /\ pc' = [pc EXCEPT ![c] = "finishing"]
                /\ todo' = [todo EXCEPT ![c] = ToRemember(Numbered(items), FALSE)]
             \/ pc' = [pc EXCEPT ![c] = "failing"] /\ todo' = [todo EXCEPT ![c] = {}]
    <3>1. answer \in [Conversations -> Seq(Items)]  BY DEF Inv, Typed
    <3> QED BY <3>1 DEF Generate
  <2> QED BY <2>1
<1>6. PICK place \in {"following", "finishing", "failing"} : \E entries :
        /\ entries = {} \/ \E executed \in BOOLEAN :
                             entries = ToRemember(Numbered(items), executed)
        /\ pc' = [pc EXCEPT ![c] = place] /\ todo' = [todo EXCEPT ![c] = entries]
  BY <1>1
<1>2. PICK entries :
        /\ entries = {} \/ \E executed \in BOOLEAN :
                             entries = ToRemember(Numbered(items), executed)
        /\ pc' = [pc EXCEPT ![c] = place] /\ todo' = [todo EXCEPT ![c] = entries]
  BY <1>6
<1>3. place \in Places  BY DEF Places
<1>4. replayed' = [replayed EXCEPT ![c] = <<>>] /\ UNCHANGED <<caches, history>>
  BY DEF Generate
<1> QED BY <1>1, <1>2, <1>3, <1>4, AnsweredInv

LEMMA GenerateCompactInv ==
  ASSUME Inv, NEW c \in Conversations, GenerateCompact(c)
  PROVE  Inv'
<1>1. PICK items \in Answers :
        /\ made' = made + Len(items) /\ made' <= MaxItems
        /\ answer' = [answer EXCEPT ![c] = Numbered(items)]
        /\ todo' = [todo EXCEPT ![c] = ToRemember(Numbered(items), FALSE)]
  BY DEF GenerateCompact
<1>2. made \in Nat  BY DEF Inv, Typed
<1>3. <<>> \o Numbered(items) = Numbered(items)
  <2>1. Numbered(items) \in Seq(Items)  BY <1>2, NumberedItems
  <2> QED BY <2>1, ConcatEmptySeq
<1>4. "compacting" \in Places  BY DEF Places
<1>5. /\ pc' = [pc EXCEPT ![c] = "compacting"]
      /\ replayed' = [replayed EXCEPT ![c] = <<>>] /\ UNCHANGED <<caches, history>>
  BY DEF GenerateCompact
<1>6. FALSE \in BOOLEAN  OBVIOUS
<1> QED BY <1>1, <1>3, <1>4, <1>5, <1>6, AnsweredInv

LEMMA FromEntryAppend ==
  ASSUME NEW entries \in Seq(Entries), NEW entry \in Entries, NEW max \in Nat \ {0},
         NEW item, NEW occurrence \in Nat, NEW value,
         FromEntry(entries, max, item, occurrence, value)
  PROVE  FromEntry(Append(entries, entry), max, item, occurrence, value)
<1> DEFINE all == Append(entries, entry)
           before(e, i) == Times(e, item.key, 1, i)
<1>1. PICK i \in DOMAIN entries :
        /\ entries[i].value = value /\ entries[i].key = item.key
        /\ before(entries, i) <= before(entries, Gone(entries, max)) + occurrence + 1
  BY DEF FromEntry
<1>2. /\ Len(entries) \in Nat /\ DOMAIN entries = 1 .. Len(entries)
      /\ DOMAIN all = 1 .. Len(entries) + 1 /\ Len(all) = Len(entries) + 1
      /\ all[i] = entries[i]
  BY Appended
<1>3. /\ Gone(entries, max) \in Nat /\ Gone(all, max) \in Nat
      /\ Gone(entries, max) <= Gone(all, max) /\ Gone(all, max) <= Len(entries)
  <2> HIDE DEF all
  <2> QED BY <1>2 DEF Gone
<1>4. i \in 1 .. Len(entries) /\ i \in DOMAIN all  BY <1>2
<1>5. before(all, i) = before(entries, i)
  BY <1>4, TimesSame
<1>6. before(all, Gone(all, max)) = before(entries, Gone(all, max))
  BY <1>3, TimesSame
<1>7. before(entries, Gone(entries, max)) <= before(entries, Gone(all, max))
  BY <1>3, TimesMonotone
<1>8. before(entries, i) \in Nat /\ before(entries, Gone(entries, max)) \in Nat
      /\ before(entries, Gone(all, max)) \in Nat
  BY <1>3, <1>4, UnderFinite
<1>9. before(all, i) <= before(all, Gone(all, max)) + occurrence + 1
  <2> HIDE DEF before
  <2> QED BY <1>1, <1>5, <1>6, <1>7, <1>8
<1> QED BY <1>1, <1>2, <1>4, <1>9 DEF FromEntry

LEMMA OccurrenceCounts ==
  ASSUME NEW items \in Seq(Items), NEW p \in DOMAIN items
  PROVE  /\ Occurrence(items, p) \in Nat
         /\ \A q \in DOMAIN items :
              q < p /\ items[q].kind = items[p].kind /\ items[q].key = items[p].key
              => Occurrence(items, q) < Occurrence(items, p)
<1> DEFINE Alike(k) ==
             {q \in 1 .. k - 1 : items[q].kind = items[k].kind /\ items[q].key = items[k].key}
<1>1. \A k \in DOMAIN items : IsFiniteSet(Alike(k)) /\ Cardinality(Alike(k)) \in Nat
  <2> TAKE k \in DOMAIN items
  <2>1. k - 1 \in Int  OBVIOUS
  <2>2. IsFiniteSet(1 .. k - 1)  BY <2>1, FS_Interval
  <2>3. Alike(k) \in SUBSET (1 .. k - 1)  OBVIOUS
  <2>4. IsFiniteSet(Alike(k))  BY <2>2, <2>3, FS_Subset
  <2> QED BY <2>4, FS_CardinalityType
<1>2. ASSUME NEW q \in DOMAIN items, q < p,
             items[q].kind = items[p].kind, items[q].key = items[p].key
      PROVE  Cardinality(Alike(q)) < Cardinality(Alike(p))
  <2>1. q \notin Alike(q)  OBVIOUS
  <2>2. Alike(q) \union {q} \in SUBSET Alike(p)  BY <1>2
  <2>3. Cardinality(Alike(q) \union {q}) = Cardinality(Alike(q)) + 1
    BY <1>1, <2>1, FS_AddElement
  <2>4. Cardinality(Alike(q) \union {q}) <= Cardinality(Alike(p))
    BY <1>1, <2>2, FS_Subset
  <2>5. Cardinality(Alike(q)) \in Nat /\ Cardinality(Alike(p)) \in Nat  BY <1>1
  <2> HIDE DEF Alike
  <2> QED BY <2>3, <2>4, <2>5
<1>3. \A k : Occurrence(items, k) = Cardinality(Alike(k))  BY DEF Occurrence
<1> HIDE DEF Alike
<1> QED BY <1>1, <1>2, <1>3

LEMMA RememberInv ==
  ASSUME Inv, NEW c \in Conversations, Remember(c)
  PROVE  Inv'
<1>1. PICK entry \in todo[c] :
        /\ log' = [log EXCEPT ![entry.cache] = Append(log[entry.cache], entry)]
        /\ \/ entry.cache = "tools" /\ tools' = InsertTool(entry.key, entry.value)
              /\ UNCHANGED <<messages, searches>>
           \/ entry.cache = "messages"
              /\ messages' = Insert(messages, entry.key, entry.value, MaxMessages)
              /\ UNCHANGED <<tools, searches>>
           \/ entry.cache = "searches"
              /\ searches' = Insert(searches, entry.key, entry.value, MaxSearches)
              /\ UNCHANGED <<tools, messages>>
        /\ todo' = [todo EXCEPT ![c] = todo[c] \ {entry}]
  <2>1. log \in [Caches -> Seq(Entries)] /\ todo \in [Conversations -> SUBSET Entries]
    BY DEF Inv, CachesTyped, Typed
  <2>2. \A e \in todo[c] : e.cache \in Caches  BY <2>1 DEF Entries
  <2> QED BY <2>1, <2>2 DEF Remember
<1>2. /\ log \in [Caches -> Seq(Entries)] /\ todo \in [Conversations -> SUBSET Entries]
      /\ IsCache(messages) /\ Len(messages.order) <= MaxMessages
      /\ IsCache(searches) /\ Len(searches.order) <= MaxSearches /\ IsToolCache
      /\ CacheIsNewest(messages, log["messages"], MaxMessages)
      /\ CacheIsNewest(searches, log["searches"], MaxSearches)
      /\ OnePlaceEach /\ LastKept
  BY DEF Inv, CachesTyped, Typed, NewestKept, OnePlaceEach, LastKept
<1>3. entry \in Entries /\ entry.cache \in Caches /\ entry.value \in Nat
  BY <1>2 DEF Entries
<1>4. log' \in [Caches -> Seq(Entries)]
      /\ \A cache \in Caches :
           log'[cache] = IF cache = entry.cache THEN Append(log[cache], entry) ELSE log[cache]
  BY <1>1, <1>2, <1>3
<1>5. /\ made' = made /\ history' = history /\ replayed' = replayed /\ answer' = answer /\ pc' = pc
      /\ \A d \in Conversations : todo'[d] \subseteq todo[d]
      /\ entry \notin todo'[c]
  BY <1>1, <1>2 DEF Remember
<1>6. Typed'
  <2>1. todo' \in [Conversations -> SUBSET Entries]  BY <1>1, <1>2
  <2> QED BY <1>5, <2>1 DEF Inv, Typed
<1>7. CachesTyped' /\ NewestKept' /\ DOMAIN tools'.value \subseteq
        DOMAIN tools.value \union (IF entry.cache = "tools" THEN {entry.key} ELSE {})
  <2>1. CASE entry.cache = "tools"
    <3>1. /\ log'["tools"] = Append(log["tools"], entry)
          /\ log'["messages"] = log["messages"] /\ log'["searches"] = log["searches"]
      BY <1>4, <2>1 DEF Caches
    <3>2. tools' = InsertTool(entry.key, entry.value) /\ UNCHANGED <<messages, searches>>
      BY <1>1, <2>1
    <3>3. log["tools"] \in Seq(Entries)  BY <1>2 DEF Caches
    <3>4. /\ IsToolCache' /\ OnePlaceEach' /\ LastKept'
          /\ DOMAIN tools'.value \subseteq DOMAIN tools.value \union {entry.key}
      BY <1>2, <1>3, <3>1, <3>2, <3>3, LimitsHold, InsertToolNewest
    <3>5. CachesTyped'  BY <1>2, <1>4, <3>2, <3>4 DEF CachesTyped
    <3>6. NewestKept'
      BY <1>2, <3>1, <3>2, <3>4 DEF NewestKept, OnePlaceEach, LastKept
    <3> QED BY <2>1, <3>4, <3>5, <3>6
  <2>2. CASE entry.cache = "messages"
    <3>1. /\ log'["messages"] = Append(log["messages"], entry)
          /\ log'["tools"] = log["tools"] /\ log'["searches"] = log["searches"]
      BY <1>4, <2>2 DEF Caches
    <3>2. messages' = Insert(messages, entry.key, entry.value, MaxMessages)
          /\ UNCHANGED <<tools, searches>>
      BY <1>1, <2>2
    <3>3. log["messages"] \in Seq(Entries) /\ MaxMessages \in Nat \ {0}
      BY <1>2, LimitsHold DEF Caches, Limits
    <3>4. /\ IsCache(messages') /\ Len(messages'.order) <= MaxMessages
          /\ CacheIsNewest(messages', log'["messages"], MaxMessages)
      BY <1>2, <1>3, <3>1, <3>2, <3>3, InsertNewest
    <3>5. IsToolCache' /\ OnePlaceEach' /\ LastKept'
      BY <1>2, <3>1, <3>2 DEF IsToolCache, OnePlaceEach, LastKept
    <3>6. CachesTyped'  BY <1>2, <1>4, <3>2, <3>4, <3>5 DEF CachesTyped
    <3>7. NewestKept'
      BY <1>2, <3>1, <3>2, <3>4, <3>5 DEF NewestKept, OnePlaceEach, LastKept
    <3> QED BY <3>2, <3>6, <3>7
  <2>3. CASE entry.cache = "searches"
    <3>1. /\ log'["searches"] = Append(log["searches"], entry)
          /\ log'["tools"] = log["tools"] /\ log'["messages"] = log["messages"]
      BY <1>4, <2>3 DEF Caches
    <3>2. searches' = Insert(searches, entry.key, entry.value, MaxSearches)
          /\ UNCHANGED <<tools, messages>>
      BY <1>1, <2>3
    <3>3. log["searches"] \in Seq(Entries) /\ MaxSearches \in Nat \ {0}
      BY <1>2, LimitsHold DEF Caches, Limits
    <3>4. /\ IsCache(searches') /\ Len(searches'.order) <= MaxSearches
          /\ CacheIsNewest(searches', log'["searches"], MaxSearches)
      BY <1>2, <1>3, <3>1, <3>2, <3>3, InsertNewest
    <3>5. IsToolCache' /\ OnePlaceEach' /\ LastKept'
      BY <1>2, <3>1, <3>2 DEF IsToolCache, OnePlaceEach, LastKept
    <3>6. CachesTyped'  BY <1>2, <1>4, <3>2, <3>4, <3>5 DEF CachesTyped
    <3>7. NewestKept'
      BY <1>2, <3>1, <3>2, <3>4, <3>5 DEF NewestKept, OnePlaceEach, LastKept
    <3> QED BY <3>2, <3>6, <3>7
  <2> QED BY <1>3, <2>1, <2>2, <2>3 DEF Caches
<1>8. NumbersOnce'
  BY <1>5 DEF Inv, NumbersOnce
<1>9. \A d \in Conversations : \A e \in todo'[d] : e.cache = entry.cache => e.value # entry.value
  <2> SUFFICES ASSUME NEW d \in Conversations, NEW e \in todo'[d], e.cache = entry.cache,
                      e.value = entry.value
               PROVE  FALSE
    OBVIOUS
  <2>1. e \in todo[d]  BY <1>5
  <2>2. CASE d = c  BY <1>5, <2>1, <2>2 DEF Inv, NumbersOnce
  <2>3. CASE d # c
    <3>1. e.value \in Numbers(answer[d]) /\ entry.value \in Numbers(answer[c])
      BY <2>1 DEF Inv, NumbersOnce
    <3> QED BY <2>3, <3>1 DEF Inv, NumbersOnce
  <2> QED BY <2>2, <2>3
<1>10. \A cache \in Caches :
         /\ Len(log[cache]) \in Nat /\ DOMAIN log[cache] = 1 .. Len(log[cache])
         /\ cache # entry.cache => log'[cache] = log[cache]
         /\ cache = entry.cache =>
              /\ DOMAIN log'[cache] = 1 .. Len(log[cache]) + 1
              /\ log'[cache][Len(log[cache]) + 1] = entry
              /\ \A i \in 1 .. Len(log[cache]) : log'[cache][i] = log[cache][i]
  <2> TAKE cache \in Caches
  <2>1. log[cache] \in Seq(Entries)  BY <1>2
  <2>2. Len(log[cache]) \in Nat /\ DOMAIN log[cache] = 1 .. Len(log[cache])  BY <2>1
  <2>3. cache # entry.cache => log'[cache] = log[cache]  BY <1>4
  <2>4. cache = entry.cache => log'[cache] = Append(log[cache], entry)  BY <1>4
  <2>5. /\ DOMAIN Append(log[cache], entry) = 1 .. Len(log[cache]) + 1
        /\ Append(log[cache], entry)[Len(log[cache]) + 1] = entry
        /\ \A i \in 1 .. Len(log[cache]) : Append(log[cache], entry)[i] = log[cache][i]
    BY <1>3, <2>1, Appended
  <2> QED BY <2>2, <2>3, <2>4, <2>5
<1>11. \A cache \in Caches : \A i \in DOMAIN log'[cache] :
         \/ i \in DOMAIN log[cache] /\ log'[cache][i] = log[cache][i]
         \/ cache = entry.cache /\ log'[cache][i] = entry /\ i = Len(log[cache]) + 1
  <2> TAKE cache \in Caches
  <2> TAKE i \in DOMAIN log'[cache]
  <2>1. CASE cache = entry.cache
    <3>1. i \in 1 .. Len(log[cache]) \/ i = Len(log[cache]) + 1  BY <1>10, <2>1
    <3> QED BY <1>10, <2>1, <3>1
  <2>2. CASE cache # entry.cache  BY <1>10, <2>2
  <2> QED BY <2>1, <2>2
<1>12. /\ entry.value \in 1 .. made
       /\ \A i \in DOMAIN log[entry.cache] : log[entry.cache][i].value # entry.value
       /\ \A d \in Conversations : entry.value \notin Numbers(history[d])
  BY DEF Inv, NumbersOnce, LoggedOnce
<1>13. LoggedOnce'
  <2>1. \A cache \in Caches : \A i \in DOMAIN log'[cache] : log'[cache][i].value \in 1 .. made
    BY <1>11, <1>12 DEF Inv, LoggedOnce
  <2>2. ASSUME NEW cache \in Caches, NEW i \in DOMAIN log'[cache], NEW j \in DOMAIN log'[cache],
               log'[cache][i].value = log'[cache][j].value
        PROVE  i = j
    BY <1>11, <1>12, <2>2 DEF Inv, LoggedOnce
  <2>3. ASSUME NEW d \in Conversations, NEW e \in todo'[d], NEW i \in DOMAIN log'[e.cache]
        PROVE  log'[e.cache][i].value # e.value
    <3>1. e \in todo[d] /\ e.cache \in Caches  BY <1>2, <1>5 DEF Entries
    <3>2. CASE i \in DOMAIN log[e.cache] /\ log'[e.cache][i] = log[e.cache][i]
      BY <3>1, <3>2 DEF Inv, LoggedOnce
    <3>3. CASE e.cache = entry.cache /\ log'[e.cache][i] = entry
      BY <1>9, <3>3
    <3> QED BY <1>11, <3>1, <3>2, <3>3
  <2> QED BY <1>5, <2>1, <2>2, <2>3 DEF LoggedOnce
<1>14. ASSUME NEW d \in Conversations, NEW p \in DOMAIN replayed[d]
       PROVE  /\ p \in DOMAIN history[d] /\ history[d] \in Seq(Items) /\ history[d][p] \in Items
              /\ Occurrence(history[d], p) \in Nat
              /\ CacheFor(history[d][p].kind) \in Caches
              /\ MaxFor(history[d][p].kind) \in Nat \ {0}
              /\ history[d][p].n \in Numbers(history[d])
              /\ history[d][p].kind = "call" <=> CacheFor(history[d][p].kind) = "tools"
  <2>1. history[d] \in Seq(Items) /\ replayed[d] \in Seq(Nat)  BY DEF Inv, Typed
  <2>2. Len(replayed[d]) <= Len(history[d])  BY DEF Inv, ReplayedFrom
  <2>3. p \in DOMAIN history[d]  BY <2>1, <2>2
  <2>4. history[d][p] \in Items  BY <2>1, <2>3
  <2>5. history[d][p].kind \in Kinds  BY <2>4 DEF Items
  <2>6. Occurrence(history[d], p) \in Nat  BY <2>1, <2>3, OccurrenceCounts
  <2>7. CacheFor(history[d][p].kind) \in Caches
        /\ (history[d][p].kind = "call" <=> CacheFor(history[d][p].kind) = "tools")
    BY <2>5 DEF Kinds, CacheFor, Caches
  <2>8. MaxFor(history[d][p].kind) \in Nat \ {0}  BY LimitsHold DEF MaxFor, Limits
  <2>9. history[d][p].n \in Numbers(history[d])  BY <2>3 DEF Numbers
  <2> QED BY <2>1, <2>3, <2>4, <2>6, <2>7, <2>8, <2>9
<1>15. ReplayedFrom'
  <2>1. ASSUME NEW d \in Conversations, NEW p \in DOMAIN replayed[d],
               history[d][p].kind # "call", replayed[d][p] # None
        PROVE  FromEntry(log'[CacheFor(history[d][p].kind)], MaxFor(history[d][p].kind),
                         history[d][p], Occurrence(history[d], p), replayed[d][p])
    <3> DEFINE cache == CacheFor(history[d][p].kind)
    <3>1. FromEntry(log[cache], MaxFor(history[d][p].kind),
                    history[d][p], Occurrence(history[d], p), replayed[d][p])
      BY <2>1 DEF Inv, ReplayedFrom
    <3>2. cache \in Caches /\ log[cache] \in Seq(Entries)  BY <1>2, <1>14
    <3> HIDE DEF cache
    <3>3. CASE cache = entry.cache
      <4>1. log'[cache] = Append(log[cache], entry)  BY <1>4, <3>2, <3>3
      <4>2. FromEntry(Append(log[cache], entry), MaxFor(history[d][p].kind),
                      history[d][p], Occurrence(history[d], p), replayed[d][p])
        BY <1>3, <1>14, <3>1, <3>2, FromEntryAppend
      <4> QED BY <4>1, <4>2 DEF cache
    <3>4. CASE cache # entry.cache
      <4>1. log'[cache] = log[cache]  BY <1>4, <3>2, <3>4
      <4> QED BY <3>1, <4>1 DEF cache
    <3> QED BY <3>3, <3>4
  <2> QED BY <1>5, <2>1 DEF Inv, ReplayedFrom, Marks
<1>16. ReplayInOrder'
  <2> SUFFICES ASSUME NEW d \in Conversations, NEW p \in DOMAIN replayed[d],
                      NEW q \in DOMAIN replayed[d], p < q, SameList(history[d][p], history[d][q]),
                      replayed[d][p] # None, replayed[d][q] # None,
                      NEW cache, cache = CacheFor(history[d][p].kind),
                      NEW i \in DOMAIN log'[cache], NEW j \in DOMAIN log'[cache],
                      log'[cache][i].value = replayed[d][p], log'[cache][j].value = replayed[d][q]
               PROVE  i < j
    BY <1>5 DEF ReplayInOrder
  <2>1. cache \in Caches  BY <1>14
  <2>2. history[d][p].kind # "call" /\ history[d][q].kind = history[d][p].kind  BY DEF SameList
  <2>3. \E k \in DOMAIN log[cache] : log[cache][k].value = replayed[d][p]
    BY <2>2 DEF Inv, ReplayedFrom, FromEntry
  <2>4. \E k \in DOMAIN log[cache] : log[cache][k].value = replayed[d][q]
    BY <2>2 DEF Inv, ReplayedFrom, FromEntry
  <2>5. /\ i \in DOMAIN log[cache] /\ log[cache][i].value = replayed[d][p]
        /\ j \in DOMAIN log[cache] /\ log[cache][j].value = replayed[d][q]
    BY <1>11, <1>12, <2>1, <2>3, <2>4
  <2> QED BY <2>5 DEF Inv, ReplayInOrder
<1>17. ReplayExact'
  <2>1. ASSUME NEW d \in Conversations, NEW p \in DOMAIN replayed[d], history[d][p].kind = "call"
        PROVE  OwnCall(history[d][p], log'["tools"], DOMAIN tools'.value, replayed[d][p])
    <3> DEFINE item == history[d][p]
    <3>1. CacheFor(item.kind) = "tools"  BY <2>1 DEF CacheFor
    <3>2. OwnCall(item, log["tools"], DOMAIN tools.value, replayed[d][p])
      BY <2>1, <3>1 DEF Inv, ReplayExact
    <3>3. entry.value # item.n  BY <1>12, <1>14
    <3>4. "tools" \in Caches  BY DEF Caches
    <3>5. SUFFICES ASSUME \A i \in DOMAIN log'["tools"] :
                            log'["tools"][i].key = item.id => log'["tools"][i].value = item.n,
                          \E i \in DOMAIN log'["tools"] :
                            log'["tools"][i].key = item.id /\ log'["tools"][i].value = item.n
                   PROVE  replayed[d][p] = item.n \/ item.id \notin DOMAIN tools'.value
      BY DEF OwnCall
    <3>6. \A i \in DOMAIN log["tools"] : i \in DOMAIN log'["tools"] /\ log'["tools"][i] = log["tools"][i]
      BY <1>10, <3>4
    <3>7. \A i \in DOMAIN log["tools"] :
            log["tools"][i].key = item.id => log["tools"][i].value = item.n
      BY <3>5, <3>6
    <3>8. \E i \in DOMAIN log["tools"] :
            log["tools"][i].key = item.id /\ log["tools"][i].value = item.n
      BY <1>11, <3>3, <3>4, <3>5
    <3>9. replayed[d][p] = item.n \/ item.id \notin DOMAIN tools.value
      BY <3>2, <3>7, <3>8 DEF OwnCall
    <3>10. entry.cache = "tools" => entry.key # item.id
      <4> SUFFICES ASSUME entry.cache = "tools", entry.key = item.id  PROVE FALSE
        OBVIOUS
      <4>1. Len(log["tools"]) + 1 \in DOMAIN log'["tools"]
            /\ log'["tools"][Len(log["tools"]) + 1] = entry
        BY <1>10, <3>4
      <4> QED BY <3>3, <3>5, <4>1
    <3> QED BY <1>7, <3>9, <3>10
  <2>2. ASSUME NEW d \in Conversations, NEW p \in DOMAIN replayed[d], history[d][p].kind # "call"
        PROVE  OwnEntry(history[d][p], Occurrence(history[d], p),
                        log'[CacheFor(history[d][p].kind)], MaxFor(history[d][p].kind),
                        replayed[d][p])
    <3> DEFINE item == history[d][p]
               cache == CacheFor(item.kind)
               max == MaxFor(item.kind)
               occurrence == Occurrence(history[d], p)
    <3>1. OwnEntry(item, occurrence, log[cache], max, replayed[d][p])
      BY <2>2 DEF Inv, ReplayExact
    <3>2. entry.value # item.n  BY <1>12, <1>14
    <3>3. cache \in Caches /\ log[cache] \in Seq(Entries) /\ max \in Nat  BY <1>2, <1>14
    <3> HIDE DEF cache, max, occurrence
    <3>4. SUFFICES ASSUME Len(log'[cache]) <= max,
                          NEW i \in DOMAIN log'[cache], log'[cache][i].key = item.key,
                          log'[cache][i].value = item.n,
                          Times(log'[cache], item.key, 1, i) = occurrence + 1
                   PROVE  replayed[d][p] = item.n
      BY DEF OwnEntry, cache, max, occurrence
    <3>5. i \in DOMAIN log[cache] /\ log[cache][i] = log'[cache][i]
      BY <1>11, <3>2, <3>3, <3>4
    <3>6. CASE cache = entry.cache
      <4>1. log'[cache] = Append(log[cache], entry)  BY <1>4, <3>3, <3>6
      <4>2. i \in Int /\ i <= Len(log[cache])  BY <1>10, <3>3, <3>5
      <4>3. Times(log'[cache], item.key, 1, i) = Times(log[cache], item.key, 1, i)
        BY <1>3, <3>3, <4>1, <4>2, TimesSame
      <4>4. Len(log'[cache]) = Len(log[cache]) + 1  BY <1>3, <3>3, <4>1
      <4>5. Len(log[cache]) <= max  BY <1>10, <3>3, <3>4, <4>4
      <4> QED BY <3>1, <3>4, <3>5, <4>3, <4>5 DEF OwnEntry
    <3>7. CASE cache # entry.cache
      <4>1. log'[cache] = log[cache]  BY <1>4, <3>3, <3>7
      <4> QED BY <3>1, <3>4, <4>1 DEF OwnEntry
    <3> QED BY <3>6, <3>7
  <2>3. \A d \in Conversations : \A p \in DOMAIN replayed[d] :
          history[d][p].kind = "call" => CacheFor(history[d][p].kind) = "tools"
    BY <1>14
  <2> QED BY <1>5, <2>1, <2>2, <2>3 DEF ReplayExact
<1> QED BY <1>6, <1>7, <1>8, <1>13, <1>15, <1>16, <1>17 DEF Inv

(* What a look-up in a list finds, and when it finds a given entry.        *)
FoundIn(entries, max, key, occurrence, value) ==
  /\ value \in Nat
  /\ value # None => \E i \in DOMAIN entries :
       /\ entries[i].value = value /\ entries[i].key = key
       /\ Times(entries, key, 1, i) = Times(entries, key, 1, Gone(entries, max)) + occurrence + 1
  /\ \A i \in DOMAIN entries :
       /\ Len(entries) <= max /\ entries[i].key = key
       /\ Times(entries, key, 1, i) = occurrence + 1
       => value = entries[i].value

LEMMA ListLookUp ==
  ASSUME NEW entries \in Seq(Entries), NEW cache, IsCache(cache), NEW max \in Nat \ {0},
         CacheIsNewest(cache, entries, max), NEW key, NEW occurrence \in Nat,
         NEW value, value = At(Of(cache.byKey, key), occurrence)
  PROVE  FoundIn(entries, max, key, occurrence, value)
<1> DEFINE list == Of(cache.byKey, key)
           gone == Gone(entries, max)
           last == Len(entries)
<1>1. last \in Nat /\ gone \in Nat /\ gone <= last /\ DOMAIN entries = 1 .. last
  BY GoneBounds
<1>2. list \in Seq(Nat) /\ Len(list) \in Nat /\ DOMAIN list = 1 .. Len(list)
  <2>1. list \in Seq(Nat)  BY DEF Of, IsCache
  <2> QED BY <2>1, LenProperties
<1>3. value = IF occurrence >= Len(list) THEN None ELSE list[occurrence + 1]
  BY DEF At
<1>4. cache.order = [i \in 1 .. last - gone |-> entries[gone + i].key]
      /\ DOMAIN cache.byKey = Elements(cache.order)
  BY DEF CacheIsNewest, Holds
<1>5. key \in DOMAIN cache.byKey =>
        /\ list = cache.byKey[key] /\ Len(list) = Times(entries, key, gone + 1, last)
        /\ \A j \in DOMAIN list : \E i \in gone + 1 .. last :
             /\ entries[i].key = key /\ entries[i].value = list[j]
             /\ j = Times(entries, key, gone + 1, i)
  BY DEF CacheIsNewest, Holds, Of
<1>6. gone = Gone(entries, max) /\ list = Of(cache.byKey, key) /\ last = Len(entries)  OBVIOUS
<1> HIDE DEF list, gone, last
<1>7. value \in Nat  BY <1>2, <1>3 DEF None
<1>8. ASSUME occurrence < Len(list)
      PROVE  \E i \in DOMAIN entries :
               /\ entries[i].value = value /\ entries[i].key = key
               /\ Times(entries, key, 1, i) = Times(entries, key, 1, gone) + occurrence + 1
  <2>1. key \in DOMAIN cache.byKey
    <3> SUFFICES ASSUME key \notin DOMAIN cache.byKey  PROVE FALSE
      OBVIOUS
    <3>1. list = <<>>  BY <1>6 DEF Of
    <3> QED BY <1>8, <3>1
  <2>2. occurrence + 1 \in DOMAIN list /\ value = list[occurrence + 1]  BY <1>2, <1>3, <1>8
  <2>3. PICK i \in gone + 1 .. last :
          /\ entries[i].key = key /\ entries[i].value = list[occurrence + 1]
          /\ occurrence + 1 = Times(entries, key, gone + 1, i)
    BY <1>5, <2>1, <2>2
  <2>4. i \in DOMAIN entries /\ i \in Int /\ 1 <= gone + 1 /\ gone <= i  BY <1>1
  <2>5. Times(entries, key, 1, i) =
          Times(entries, key, 1, gone) + Times(entries, key, gone + 1, i)
    BY <1>1, <2>4, TimesSplit
  <2>6. Times(entries, key, 1, gone) \in Nat  BY <1>1, UnderFinite
  <2> QED BY <2>2, <2>3, <2>4, <2>5, <2>6
<1>9. ASSUME NEW i \in DOMAIN entries, Len(entries) <= max, entries[i].key = key,
             Times(entries, key, 1, i) = occurrence + 1
      PROVE  value = entries[i].value
  <2>a. Len(entries) \in Nat  BY <1>1, <1>6
  <2>b. Gone(entries, max) = 0  BY <1>9, <2>a DEF Gone
  <2>1. gone = 0  BY <1>6, <2>b
  <2>2. i \in 1 .. last /\ i \in Int /\ i <= last /\ last \in Int  BY <1>1
  <2>3. i \in DOMAIN cache.order /\ cache.order[i] = key
    <3>1. cache.order = [j \in 1 .. last |-> entries[j].key]  BY <1>1, <1>4, <2>1
    <3> QED BY <1>9, <2>2, <3>1
  <2>4. key \in DOMAIN cache.byKey  BY <1>4, <2>3 DEF Elements
  <2>5. Len(list) = Times(entries, key, 1, last)  BY <1>5, <2>1, <2>4
  <2>6. Times(entries, key, 1, i) <= Times(entries, key, 1, last)
    BY <2>2, TimesMonotone
  <2>7. occurrence < Len(list)  BY <1>2, <1>9, <2>5, <2>6
  <2>8. PICK j \in DOMAIN entries :
          /\ entries[j].value = value /\ entries[j].key = key
          /\ Times(entries, key, 1, j) = Times(entries, key, 1, gone) + occurrence + 1
    BY <1>8, <2>7
  <2>9. Times(entries, key, 1, gone) = 0  BY <2>1, TimesNone
  <2>10. Times(entries, key, 1, j) = Times(entries, key, 1, i)  BY <1>9, <2>8, <2>9
  <2>11. j \in Int /\ 1 <= j + 1 /\ 1 <= i + 1  BY <1>1, <2>2
  <2>12. i < j => Times(entries, key, 1, i) < Times(entries, key, 1, j)
    BY <2>2, <2>8, <2>11, TimesLess
  <2>13. j < i => Times(entries, key, 1, j) < Times(entries, key, 1, i)
    BY <1>9, <2>2, <2>11, TimesLess
  <2>14. Times(entries, key, 1, i) \in Nat  BY <2>2, UnderFinite
  <2>15. i = j  BY <2>2, <2>10, <2>11, <2>12, <2>13, <2>14
  <2> QED BY <2>8, <2>15
<1>10. value # None => occurrence < Len(list)  BY <1>2, <1>3
<1> QED BY <1>6, <1>7, <1>8, <1>9, <1>10 DEF FoundIn

LEMMA LookUpInv ==
  ASSUME Inv, NEW c \in Conversations, LookUp(c)
  PROVE  Inv'
<1> DEFINE h == history[c]
           p == Len(replayed[c]) + 1
           item == h[p]
           value == Found(h, p)
           occurrence == Occurrence(h, p)
           cache == CacheFor(item.kind)
           entries == log[cache]
           max == MaxFor(item.kind)
<1>1. /\ h \in Seq(Items) /\ replayed[c] \in Seq(Nat) /\ made \in Nat
      /\ replayed \in [Conversations -> Seq(Nat)]
      /\ log \in [Caches -> Seq(Entries)]
      /\ IsCache(messages) /\ IsCache(searches) /\ IsToolCache
      /\ CacheIsNewest(messages, log["messages"], MaxMessages)
      /\ CacheIsNewest(searches, log["searches"], MaxSearches) /\ LastKept
  BY DEF Inv, Typed, CachesTyped, NewestKept, LastKept
<1>2. /\ p <= Len(h)
      /\ replayed' = [replayed EXCEPT ![c] = Append(replayed[c], value)]
      /\ UNCHANGED <<caches, made, pc, history, answer, todo>>
  BY DEF LookUp
<1>3. p \in DOMAIN h /\ p = Len(replayed[c]) + 1 /\ Len(replayed[c]) \in Nat /\ item \in Items
  BY <1>1, <1>2
<1>4. item.kind \in Kinds /\ item.n \in Nat  BY <1>3 DEF Items
<1>5. cache \in Caches /\ entries \in Seq(Entries) /\ max \in Nat \ {0}
      /\ (item.kind = "call" <=> cache = "tools")
  <2>1. cache \in Caches /\ (item.kind = "call" <=> cache = "tools")
    BY <1>4 DEF Kinds, CacheFor, Caches
  <2>2. max \in Nat \ {0}  BY LimitsHold DEF MaxFor, Limits
  <2> QED BY <1>1, <2>1, <2>2
<1>6. occurrence \in Nat
      /\ \A q \in DOMAIN h : q < p /\ h[q].kind = item.kind /\ h[q].key = item.key
           => Occurrence(h, q) < occurrence
  BY <1>1, <1>3, OccurrenceCounts
<1>7. UNCHANGED <<log, tools, messages, searches, made, pc, history, answer, todo>>
  BY <1>2 DEF caches
<1> DEFINE list == IF item.kind = "message" THEN messages ELSE searches
<1>8. item.kind # "call" =>
        /\ IsCache(list) /\ CacheIsNewest(list, entries, max)
        /\ value = At(Of(list.byKey, item.key), occurrence)
  <2>1. CASE item.kind = "message"
    <3>1. cache = "messages" /\ max = MaxMessages /\ list = messages
      BY <2>1 DEF CacheFor, MaxFor
    <3>2. value = At(Of(messages.byKey, item.key), occurrence)  BY <2>1 DEF Found
    <3> QED BY <1>1, <3>1, <3>2
  <2>2. CASE item.kind = "search"
    <3>1. cache = "searches" /\ max = MaxSearches /\ list = searches
      BY <2>2 DEF CacheFor, MaxFor
    <3>2. value = At(Of(searches.byKey, item.key), occurrence)  BY <2>2 DEF Found
    <3> QED BY <1>1, <3>1, <3>2
  <2> QED BY <1>4, <2>1, <2>2 DEF Kinds
<1>9. item.kind = "call" =>
        value = IF item.id \in DOMAIN tools.value THEN tools.value[item.id] ELSE None
  BY DEF Found
<1> HIDE DEF value, occurrence, cache, entries, max, list
<1>a. item.kind # "call" => FoundIn(entries, max, item.key, occurrence, value)
  BY <1>5, <1>6, <1>8, ListLookUp
<1>10. item.kind # "call" =>
         /\ value \in Nat
         /\ value # None => \E i \in DOMAIN entries :
              /\ entries[i].value = value /\ entries[i].key = item.key
              /\ Times(entries, item.key, 1, i)
                   = Times(entries, item.key, 1, Gone(entries, max)) + occurrence + 1
         /\ \A i \in DOMAIN entries :
              /\ Len(entries) <= max /\ entries[i].key = item.key
              /\ Times(entries, item.key, 1, i) = occurrence + 1
              => value = entries[i].value
  BY <1>a DEF FoundIn
<1>11. item.kind = "call" /\ item.id \in DOMAIN tools.value =>
         \E i \in DOMAIN log["tools"] : log["tools"][i].key = item.id /\ log["tools"][i].value = value
  <2> SUFFICES ASSUME item.kind = "call", item.id \in DOMAIN tools.value
               PROVE  \E i \in DOMAIN log["tools"] :
                        log["tools"][i].key = item.id /\ log["tools"][i].value = value
    OBVIOUS
  <2>1. value = tools.value[item.id]  BY <1>9
  <2>2. \E i \in DOMAIN log["tools"] :
          log["tools"][i].key = item.id /\ log["tools"][i].value = tools.value[item.id]
    BY <1>1 DEF LastKept
  <2> QED BY <2>1, <2>2
<1>12. value \in Marks \union {None}
  <2>1. \A k \in Caches : \A i \in DOMAIN log[k] : log[k][i].value \in Marks
    BY DEF Inv, LoggedOnce, Marks
  <2>2. CASE item.kind = "call"
    BY <1>9, <1>11, <2>1, <2>2 DEF Caches
  <2>3. CASE item.kind # "call"
    BY <1>5, <1>10, <2>1, <2>3 DEF entries
  <2> QED BY <2>2, <2>3
<1>13. value \in Nat  BY <1>1, <1>12 DEF Marks, None
<1>14. /\ replayed'[c] \in Seq(Nat) /\ Len(replayed'[c]) = p /\ DOMAIN replayed'[c] = 1 .. p
       /\ DOMAIN replayed[c] = 1 .. p - 1
       /\ replayed'[c][p] = value /\ \A q \in 1 .. p - 1 : replayed'[c][q] = replayed[c][q]
  <2>1. replayed'[c] = Append(replayed[c], value)  BY <1>1, <1>2
  <2>2. p - 1 = Len(replayed[c])  BY <1>3
  <2> QED BY <1>1, <1>13, <2>1, <2>2, Appended
<1>15. \A d \in Conversations : d # c => replayed'[d] = replayed[d]  BY <1>1, <1>2
<1>16. \A q \in DOMAIN replayed'[c] : q = p \/ (q \in 1 .. p - 1 /\ q < p)
  <2>1. p \in Nat  BY <1>3
  <2> HIDE DEF p
  <2>2. \A q \in 1 .. p : q = p \/ (q \in 1 .. p - 1 /\ q < p)  BY <2>1
  <2> QED BY <1>14, <2>2 DEF p
<1>17. Typed'
  <2>1. replayed' \in [Conversations -> Seq(Nat)]  BY <1>1, <1>2, <1>14
  <2> QED BY <1>7, <2>1 DEF Inv, Typed
<1>18. CachesTyped' /\ NewestKept'  BY <1>2, CachesKept
<1>19. NumbersOnce' /\ LoggedOnce'  BY <1>7 DEF Inv, NumbersOnce, LoggedOnce
<1>20. ReplayedFrom'
  <2>1. item.kind # "call" /\ value # None => FromEntry(entries, max, item, occurrence, value)
    <3> SUFFICES ASSUME item.kind # "call", value # None
                 PROVE  FromEntry(entries, max, item, occurrence, value)
      OBVIOUS
    <3>1. PICK i \in DOMAIN entries :
            /\ entries[i].value = value /\ entries[i].key = item.key
            /\ Times(entries, item.key, 1, i)
                 = Times(entries, item.key, 1, Gone(entries, max)) + occurrence + 1
      BY <1>10
    <3>2. Gone(entries, max) \in Int  BY <1>5, GoneBounds
    <3>3. Times(entries, item.key, 1, Gone(entries, max)) \in Nat  BY <3>2, UnderFinite
    <3> QED BY <1>6, <3>1, <3>3 DEF FromEntry
  <2>2. \A q \in DOMAIN replayed[c] :
          /\ replayed[c][q] \in Marks \union {None}
          /\ h[q].kind # "call" /\ replayed[c][q] # None =>
               FromEntry(log[CacheFor(h[q].kind)], MaxFor(h[q].kind), h[q], Occurrence(h, q),
                         replayed[c][q])
    BY DEF Inv, ReplayedFrom
  <2>3. \A q \in DOMAIN replayed'[c] :
          /\ replayed'[c][q] \in Marks \union {None}
          /\ h[q].kind # "call" /\ replayed'[c][q] # None =>
               FromEntry(log[CacheFor(h[q].kind)], MaxFor(h[q].kind), h[q], Occurrence(h, q),
                         replayed'[c][q])
    <3> TAKE q \in DOMAIN replayed'[c]
    <3>1. CASE q = p
      BY <1>12, <1>14, <2>1, <3>1 DEF entries, cache, max, occurrence
    <3>2. CASE q \in 1 .. p - 1
      BY <1>14, <2>2, <3>2
    <3> QED BY <1>16, <3>1, <3>2
  <2>4. \A d \in Conversations : d # c =>
          /\ Len(replayed'[d]) <= Len(history[d])
          /\ \A q \in DOMAIN replayed'[d] :
               /\ replayed'[d][q] \in Marks \union {None}
               /\ history[d][q].kind # "call" /\ replayed'[d][q] # None =>
                    FromEntry(log[CacheFor(history[d][q].kind)], MaxFor(history[d][q].kind),
                              history[d][q], Occurrence(history[d], q), replayed'[d][q])
    BY <1>15 DEF Inv, ReplayedFrom
  <2>5. Len(replayed'[c]) <= Len(h)  BY <1>2, <1>14
  <2> QED BY <1>7, <2>3, <2>4, <2>5 DEF ReplayedFrom, Marks
<1>21. ReplayInOrder'
  <2>1. ASSUME NEW q \in 1 .. p - 1, SameList(h[q], item), replayed[c][q] # None, value # None,
               NEW i \in DOMAIN entries, NEW j \in DOMAIN entries,
               entries[i].value = replayed[c][q], entries[j].value = value
        PROVE  i < j
    <3>1. item.kind # "call" /\ h[q].kind = item.kind /\ h[q].key = item.key  BY <2>1 DEF SameList
    <3>2. q \in DOMAIN replayed[c] /\ q \in DOMAIN h /\ q < p  BY <1>1, <1>2, <1>3, <1>14
    <3>3. FromEntry(entries, max, h[q], Occurrence(h, q), replayed[c][q])
      BY <2>1, <3>1, <3>2 DEF Inv, ReplayedFrom, entries, cache, max
    <3>4. PICK i0 \in DOMAIN entries :
            /\ entries[i0].value = replayed[c][q] /\ entries[i0].key = item.key
            /\ Times(entries, item.key, 1, i0)
                 <= Times(entries, item.key, 1, Gone(entries, max)) + Occurrence(h, q) + 1
      BY <3>1, <3>3 DEF FromEntry
    <3>5. PICK j0 \in DOMAIN entries :
            /\ entries[j0].value = value /\ entries[j0].key = item.key
            /\ Times(entries, item.key, 1, j0)
                 = Times(entries, item.key, 1, Gone(entries, max)) + occurrence + 1
      BY <1>10, <2>1, <3>1
    <3>6. i = i0 /\ j = j0
      BY <1>5, <2>1, <3>4, <3>5 DEF Inv, LoggedOnce, entries
    <3>7. Occurrence(h, q) < occurrence /\ Occurrence(h, q) \in Nat
      BY <1>1, <1>6, <3>1, <3>2, OccurrenceCounts
    <3>a. DOMAIN entries = 1 .. Len(entries)  BY <1>5
    <3>b. Gone(entries, max) \in 0 .. Len(entries)  BY <1>5, GoneBounds
    <3>8. i0 \in Int /\ j0 \in Int /\ 1 <= j0 + 1 /\ Gone(entries, max) \in Int
      BY <3>a, <3>b
    <3>9. /\ Times(entries, item.key, 1, i0) \in Nat /\ Times(entries, item.key, 1, j0) \in Nat
          /\ Times(entries, item.key, 1, Gone(entries, max)) \in Nat
      BY <3>8, UnderFinite
    <3>10. Times(entries, item.key, 1, i0) < Times(entries, item.key, 1, j0)
      BY <1>6, <3>4, <3>5, <3>7, <3>9
    <3>11. j0 < i0 => Times(entries, item.key, 1, j0) < Times(entries, item.key, 1, i0)
      BY <3>4, <3>8, TimesLess
    <3> QED BY <3>6, <3>8, <3>9, <3>10, <3>11
  <2> SUFFICES ASSUME NEW d \in Conversations, NEW q \in DOMAIN replayed'[d],
                      NEW r \in DOMAIN replayed'[d], q < r, SameList(history[d][q], history[d][r]),
                      replayed'[d][q] # None, replayed'[d][r] # None,
                      NEW i \in DOMAIN log[CacheFor(history[d][q].kind)],
                      NEW j \in DOMAIN log[CacheFor(history[d][q].kind)],
                      log[CacheFor(history[d][q].kind)][i].value = replayed'[d][q],
                      log[CacheFor(history[d][q].kind)][j].value = replayed'[d][r]
               PROVE  i < j
    BY <1>7 DEF ReplayInOrder
  <2>2. CASE d # c
    BY <1>15, <2>2 DEF Inv, ReplayInOrder
  <2>3. CASE d = c /\ r = p
    <3>1. q \in 1 .. p - 1  BY <1>16, <2>3
    <3>2. history[d][q].kind = item.kind  BY <2>3 DEF SameList
    <3> QED BY <1>14, <2>1, <2>3, <3>1, <3>2 DEF entries, cache
  <2>4. CASE d = c /\ r \in 1 .. p - 1
    <3>1. q \in 1 .. p - 1  BY <1>3, <1>16, <2>4
    <3>2. /\ q \in DOMAIN replayed[c] /\ r \in DOMAIN replayed[c]
          /\ replayed'[c][q] = replayed[c][q] /\ replayed'[c][r] = replayed[c][r]
      BY <1>14, <2>4, <3>1
    <3> QED BY <2>4, <3>2 DEF Inv, ReplayInOrder
  <2> QED BY <1>16, <2>2, <2>3, <2>4
<1>22. ReplayExact'
  <2>1. item.kind = "call" => OwnCall(item, entries, DOMAIN tools.value, value)
    <3> SUFFICES ASSUME item.kind = "call",
                        \A i \in DOMAIN entries : entries[i].key = item.id => entries[i].value = item.n
                 PROVE  value = item.n \/ item.id \notin DOMAIN tools.value
      BY DEF OwnCall
    <3>1. entries = log["tools"]  BY <1>5 DEF entries
    <3> QED BY <1>11, <3>1
  <2>2. item.kind # "call" => OwnEntry(item, occurrence, entries, max, value)
    BY <1>10 DEF OwnEntry
  <2>3. ASSUME NEW d \in Conversations, NEW q \in DOMAIN replayed'[d]
        PROVE  /\ history[d][q].kind = "call" =>
                    OwnCall(history[d][q], log[CacheFor(history[d][q].kind)], DOMAIN tools.value,
                            replayed'[d][q])
               /\ history[d][q].kind # "call" =>
                    OwnEntry(history[d][q], Occurrence(history[d], q),
                             log[CacheFor(history[d][q].kind)], MaxFor(history[d][q].kind),
                             replayed'[d][q])
    <3>1. CASE d # c  BY <1>15, <3>1 DEF Inv, ReplayExact
    <3>2. CASE d = c /\ q = p
      BY <1>14, <2>1, <2>2, <3>2 DEF entries, cache, max, occurrence
    <3>3. CASE d = c /\ q \in 1 .. p - 1
      <4>1. q \in DOMAIN replayed[c] /\ replayed'[c][q] = replayed[c][q]  BY <1>14, <3>3
      <4> QED BY <3>3, <4>1 DEF Inv, ReplayExact
    <3> QED BY <1>16, <3>1, <3>2, <3>3
  <2> QED BY <1>7, <2>3 DEF ReplayExact
<1> QED BY <1>17, <1>18, <1>19, <1>20, <1>21, <1>22 DEF Inv
-----------------------------------------------------------------------------
(* The theorems.                                                           *)

LEMMA NextInv == Inv /\ [Next]_vars => Inv'
<1> SUFFICES ASSUME Inv, [Next]_vars  PROVE Inv'
  OBVIOUS
<1>1. ASSUME NEW c \in Conversations, Finish(c)
      PROVE  Inv'
  BY <1>1, LeaveInv DEF Finish
<1>2. ASSUME NEW c \in Conversations, Fail(c)
      PROVE  Inv'
  BY <1>2, LeaveInv DEF Fail
<1>3. CASE UNCHANGED vars
  <2>1. UNCHANGED <<tools, messages, searches, log, made, pc, history, replayed, answer, todo>>
    BY <1>3 DEF vars, caches
  <2>2. UNCHANGED caches  BY <1>3 DEF vars
  <2>3. CachesTyped' /\ NewestKept'  BY <2>2, CachesKept
  <2>4. Typed' /\ NumbersOnce' /\ LoggedOnce'
    BY <2>1 DEF Inv, Typed, NumbersOnce, LoggedOnce
  <2>5. made' \in Nat /\ made' >= made  BY <2>1 DEF Inv, Typed
  <2>6. ReplayedFrom' /\ ReplayInOrder' /\ ReplayExact'
    BY <2>1, <2>2, <2>5, ReplayKept
  <2> QED BY <2>3, <2>4, <2>6 DEF Inv
<1> QED BY <1>1, <1>2, <1>3, AskInv, LookUpInv, GenerateInv, GenerateCompactInv, RememberInv DEF Next

(* Everything below is a part of what every step of the requests keeps.    *)
THEOREM Invariant == Spec => []Inv
BY InitInv, NextInv, PTL DEF Spec

(* The variables of the caches and requests keep their types, and no cache *)
(* exceeds its limit (maxToolExtraContentEntries and the other two).       *)
THEOREM TypeCorrect == Spec => []TypeOK
BY Invariant, InvTyped, PTL

(* The caches hold exactly the newest entries ever remembered, each list in*)
(* order (rememberMessageExtraContent, rememberWebSearchHistory and        *)
(* rememberExtraContent with their evictions).                             *)
THEOREM NewestAlwaysKept == Spec => []NewestKept
<1>1. Inv => NewestKept  BY DEF Inv
<1> QED BY <1>1, Invariant, PTL

(* Occurrences of one content or action get entries in the order they were *)
(* remembered in, whatever other conversations do between the look-ups.    *)
THEOREM AlwaysReplayedInOrder == Spec => []ReplayInOrder
<1>1. Inv => ReplayInOrder  BY DEF Inv
<1> QED BY <1>1, Invariant, PTL

(* Where nothing was evicted and no other conversation's entry came first, *)
(* each item of the history gets back exactly what came with it.           *)
THEOREM AlwaysReplayedExactly == Spec => []ReplayExact
<1>1. Inv => ReplayExact  BY DEF Inv
<1> QED BY <1>1, Invariant, PTL
=============================================================================
