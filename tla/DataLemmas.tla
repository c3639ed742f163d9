------------------------------ MODULE DataLemmas ------------------------------
(***************************************************************************)
(* Facts on numbers, recursive functions and sequences that the proofs     *)
(* about the models cite.                                                  *)
(***************************************************************************)
EXTENDS Integers, Sequences, FiniteSetTheorems, SequenceTheorems, WellFoundedInduction, TLAPS

(* Every set of natural numbers with an element has a least one.           *)
LEMMA LeastNat ==
  ASSUME NEW T, T \subseteq Nat, T # {}
  PROVE  \E m \in T : \A k \in T : m <= k
<1>1. PICK m \in T : \A k \in T : ~(<<k, m>> \in OpToRel(<, Nat))
  BY NatLessThanWellFounded, WFMin
<1>2. \A k \in T : ~(k < m)
  BY <1>1 DEF OpToRel
<1> QED
  BY <1>2

(* What holds at 0 and with i at i + 1 holds up to n.                      *)
LEMMA Induction ==
  ASSUME NEW n \in Nat, NEW T, 0 \in T, \A i \in 0 .. n - 1 : i \in T => i + 1 \in T
  PROVE  0 .. n \subseteq T
<1> SUFFICES ASSUME ~(0 .. n \subseteq T) PROVE FALSE
  OBVIOUS
<1>1. PICK m \in 0 .. n \ T : \A k \in 0 .. n \ T : m <= k
  <2>1. 0 .. n \ T \subseteq Nat /\ 0 .. n \ T # {}
    OBVIOUS
  <2> QED
    BY <2>1, LeastNat
<1>2. m # 0 /\ m - 1 \in 0 .. n - 1
  BY <1>1
<1>3. m - 1 \in T
  BY <1>1, <1>2
<1>4. (m - 1) + 1 \in T
  BY <1>2, <1>3
<1> QED
  BY <1>1, <1>4

(* A function that is defined by its value at 0 and by steps exists.       *)
Iterates(f, n, start, step) == f[0] = start /\ \A i \in 1 .. n : f[i] = step[i][f[i - 1]]

LEMMA Recursion ==
  ASSUME NEW n \in Nat, NEW S, NEW start \in S, NEW step \in [1 .. n -> [S -> S]]
  PROVE  \E f \in [0 .. n -> S] : Iterates(f, n, start, step)
<1> DEFINE Upto(f, k) == f[0] = start /\ \A i \in 1 .. k : f[i] = step[i][f[i - 1]]
           T == {k \in 0 .. n : \E f \in [0 .. k -> S] : Upto(f, k)}
<1>1. 0 \in T
  <2>1. [i \in 0 .. 0 |-> start] \in [0 .. 0 -> S] /\ Upto([i \in 0 .. 0 |-> start], 0)
    OBVIOUS
  <2>2. 0 \in 0 .. n
    OBVIOUS
  <2> QED
    BY <2>1, <2>2
<1>2. \A k \in 0 .. n - 1 : k \in T => k + 1 \in T
  <2> SUFFICES ASSUME NEW k \in 0 .. n - 1, NEW f \in [0 .. k -> S], Upto(f, k)
               PROVE  k + 1 \in T
    OBVIOUS
  <2> DEFINE g == [i \in 0 .. k + 1 |-> IF i = k + 1 THEN step[k + 1][f[k]] ELSE f[i]]
  <2>1. step[k + 1] \in [S -> S] /\ f[k] \in S
    OBVIOUS
  <2>2. g \in [0 .. k + 1 -> S]
    BY <2>1
  <2>3. g[0] = start /\ g[k + 1] = step[k + 1][g[k]]
    OBVIOUS
  <2>4. \A i \in 1 .. k : g[i] = step[i][g[i - 1]]
    OBVIOUS
  <2>5. \A i \in 1 .. k + 1 : i \in 1 .. k \/ i = k + 1
    OBVIOUS
  <2>6. Upto(g, k + 1)
    <3>1. (k + 1) - 1 = k
      OBVIOUS
    <3> HIDE DEF g
    <3> QED
      BY <2>3, <2>4, <2>5, <3>1
  <2>7. k + 1 \in 0 .. n
    OBVIOUS
  <2> HIDE DEF g
  <2> QED
    BY <2>2, <2>6, <2>7
<1> HIDE DEF T
<1>3. n \in T
  <2>1. 0 .. n \subseteq T
    BY <1>1, <1>2, Induction
  <2> QED
    BY <2>1
<1> QED
  BY <1>3 DEF T, Iterates
-----------------------------------------------------------------------------
(* What stands in a sequence after an element was appended.                *)
LEMMA Appended ==
  ASSUME NEW S, NEW s \in Seq(S), NEW e \in S
  PROVE  /\ Append(s, e) \in Seq(S)
         /\ Append(s, e) \in [1 .. Len(s) + 1 -> S]
         /\ Len(s) \in Nat /\ Len(Append(s, e)) = Len(s) + 1
         /\ DOMAIN s = 1 .. Len(s) /\ DOMAIN Append(s, e) = 1 .. Len(s) + 1
         /\ Append(s, e)[Len(s) + 1] = e
         /\ \A i \in 1 .. Len(s) : Append(s, e)[i] = s[i]
<1>1. /\ Append(s, e) \in Seq(S)
      /\ Len(s) \in Nat /\ Len(Append(s, e)) = Len(s) + 1
      /\ DOMAIN s = 1 .. Len(s) /\ DOMAIN Append(s, e) = 1 .. Len(s) + 1
      /\ Append(s, e)[Len(s) + 1] = e
      /\ \A i \in 1 .. Len(s) : Append(s, e)[i] = s[i]
  OBVIOUS
<1>2. Append(s, e) \in [1 .. Len(s) + 1 -> S]  BY <1>1, LenProperties
<1> QED BY <1>1, <1>2

(* The same of a sequence whose elements have no type.                     *)
IsSequence(s) == \E S : s \in Seq(S)

LEMMA AppendedToAny ==
  ASSUME NEW s, IsSequence(s), NEW e
  PROVE  /\ IsSequence(Append(s, e))
         /\ Len(s) \in Nat /\ Len(Append(s, e)) = Len(s) + 1
         /\ DOMAIN s = 1 .. Len(s) /\ DOMAIN Append(s, e) = 1 .. Len(s) + 1
         /\ Append(s, e)[Len(s) + 1] = e
         /\ \A i \in 1 .. Len(s) : Append(s, e)[i] = s[i]
<1>1. PICK S : s \in Seq(S)
  BY DEF IsSequence
<1>2. s \in Seq(S \union {e}) /\ e \in S \union {e}
  BY <1>1
<1> QED
  BY <1>2, Appended DEF IsSequence

(* What two sequences make one after the other.                            *)
LEMMA Joined ==
  ASSUME NEW s, NEW t, IsSequence(s), IsSequence(t)
  PROVE  /\ IsSequence(s \o t)
         /\ Len(s) \in Nat /\ Len(t) \in Nat /\ Len(s \o t) = Len(s) + Len(t)
         /\ DOMAIN s = 1 .. Len(s) /\ DOMAIN t = 1 .. Len(t)
         /\ DOMAIN (s \o t) = 1 .. Len(s) + Len(t)
         /\ \A i \in DOMAIN s : (s \o t)[i] = s[i]
         /\ \A i \in DOMAIN t : (s \o t)[Len(s) + i] = t[i]
         /\ \A i \in DOMAIN (s \o t) :
              \/ i \in DOMAIN s /\ (s \o t)[i] = s[i]
              \/ i > Len(s) /\ i - Len(s) \in DOMAIN t /\ (s \o t)[i] = t[i - Len(s)]
<1>1. PICK S, T : s \in Seq(S) /\ t \in Seq(T)
  BY DEF IsSequence
<1> DEFINE U == S \union T
<1>2. s \in Seq(U) /\ t \in Seq(U)
  <2>1. S \subseteq U /\ T \subseteq U
    OBVIOUS
  <2> HIDE DEF U
  <2> QED
    BY <1>1, <2>1
<1> HIDE DEF U
<1>3. /\ s \o t \in Seq(U) /\ Len(s) \in Nat /\ Len(t) \in Nat
      /\ Len(s \o t) = Len(s) + Len(t)
      /\ DOMAIN s = 1 .. Len(s) /\ DOMAIN t = 1 .. Len(t)
      /\ DOMAIN (s \o t) = 1 .. Len(s) + Len(t)
  BY <1>2, ConcatProperties, LenProperties
<1>4. \A i \in 1 .. Len(s) + Len(t) : (s \o t)[i] = IF i <= Len(s) THEN s[i] ELSE t[i - Len(s)]
  BY <1>2, ConcatProperties
<1>5. \A i \in DOMAIN s : (s \o t)[i] = s[i]
  BY <1>3, <1>4
<1>6. \A i \in DOMAIN t : (s \o t)[Len(s) + i] = t[i]
  <2> SUFFICES ASSUME NEW i \in 1 .. Len(t) PROVE (s \o t)[Len(s) + i] = t[i]
    BY <1>3
  <2>1. Len(s) + i \in 1 .. Len(s) + Len(t) /\ ~(Len(s) + i <= Len(s)) /\ (Len(s) + i) - Len(s) = i
    BY <1>3
  <2> QED
    BY <1>4, <2>1
<1>7. \A i \in 1 .. Len(s) + Len(t) :
        i \in 1 .. Len(s) \/ (i > Len(s) /\ i - Len(s) \in 1 .. Len(t))
  BY <1>3
<1>8. \A i \in DOMAIN (s \o t) :
        \/ i \in DOMAIN s /\ (s \o t)[i] = s[i]
        \/ i > Len(s) /\ i - Len(s) \in DOMAIN t /\ (s \o t)[i] = t[i - Len(s)]
  <2> SUFFICES ASSUME NEW i \in 1 .. Len(s) + Len(t)
               PROVE  \/ i \in DOMAIN s /\ (s \o t)[i] = s[i]
                      \/ i > Len(s) /\ i - Len(s) \in DOMAIN t /\ (s \o t)[i] = t[i - Len(s)]
    BY <1>3
  <2>1. CASE i \in 1 .. Len(s)
    BY <1>3, <1>5, <2>1
  <2>2. CASE i > Len(s) /\ i - Len(s) \in 1 .. Len(t)
    BY <1>3, <1>4, <2>2
  <2> QED
    BY <1>7, <2>1, <2>2
<1>9. IsSequence(s \o t)
  BY <1>3 DEF IsSequence
<1> QED
  BY <1>3, <1>5, <1>6, <1>8, <1>9

LEMMA NoneAndOne ==
  /\ IsSequence(<<>>) /\ Len(<<>>) = 0 /\ DOMAIN <<>> = {}
  /\ \A x : IsSequence(<<x>>) /\ Len(<<x>>) = 1 /\ DOMAIN <<x>> = {1} /\ <<x>>[1] = x
  /\ \A s : IsSequence(s) => s \o <<>> = s /\ <<>> \o s = s
<1>1. <<>> \in Seq({})
  OBVIOUS
<1>2. \A x : <<x>> \in Seq({x}) /\ Len(<<x>>) = 1 /\ DOMAIN <<x>> = {1} /\ <<x>>[1] = x
  OBVIOUS
<1>3. \A s : IsSequence(s) => s \o <<>> = s /\ <<>> \o s = s
  BY ConcatEmptySeq DEF IsSequence
<1>4. IsSequence(<<>>) /\ Len(<<>>) = 0 /\ DOMAIN <<>> = {}
  BY <1>1 DEF IsSequence
<1>5. \A x : IsSequence(<<x>>)
  BY <1>2 DEF IsSequence
<1> QED
  BY <1>2, <1>3, <1>4, <1>5

LEMMA JoinedThree ==
  ASSUME NEW s, NEW t, NEW u, IsSequence(s), IsSequence(t), IsSequence(u)
  PROVE  (s \o t) \o u = s \o (t \o u)
<1>1. PICK S, T, U : s \in Seq(S) /\ t \in Seq(T) /\ u \in Seq(U)
  BY DEF IsSequence
<1> DEFINE V == S \union T \union U
<1>2. S \subseteq V /\ T \subseteq V /\ U \subseteq V
  OBVIOUS
<1> HIDE DEF V
<1>3. s \in Seq(V) /\ t \in Seq(V) /\ u \in Seq(V)
  BY <1>1, <1>2
<1> QED
  BY <1>3, ConcatAssociative

LEMMA SameSequence ==
  ASSUME NEW s1, NEW s2, IsSequence(s1), IsSequence(s2), DOMAIN s1 = DOMAIN s2,
         \A i \in DOMAIN s1 : s1[i] = s2[i]
  PROVE  s1 = s2
<1>1. PICK S, T : s1 \in Seq(S) /\ s2 \in Seq(T)
  BY DEF IsSequence
<1>2. s1 \in Seq(S \union T) /\ s2 \in Seq(S \union T)
  BY <1>1
<1>3. Len(s1) = Len(s2) /\ DOMAIN s1 = 1 .. Len(s1)
  BY <1>2, LenProperties
<1> QED
  BY <1>2, <1>3, SeqEqual

LEMMA AppendIsJoined ==
  ASSUME NEW s1, IsSequence(s1), NEW e
  PROVE  Append(s1, e) = s1 \o <<e>>
<1> DEFINE one == Append(s1, e)
           last == <<e>>
           two == s1 \o last
<1>1. /\ Len(s1) \in Nat /\ IsSequence(one) /\ DOMAIN s1 = 1 .. Len(s1) /\ DOMAIN one = 1 .. Len(s1) + 1
      /\ one[Len(s1) + 1] = e /\ \A i \in 1 .. Len(s1) : one[i] = s1[i]
  BY AppendedToAny
<1>2. IsSequence(last) /\ Len(last) = 1 /\ DOMAIN last = {1} /\ last[1] = e
  BY NoneAndOne
<1> HIDE DEF last
<1>3. /\ IsSequence(two) /\ DOMAIN two = 1 .. Len(s1) + Len(last)
      /\ \A i \in DOMAIN s1 : two[i] = s1[i]
      /\ \A i \in DOMAIN last : two[Len(s1) + i] = last[i]
  BY <1>1, <1>2, Joined
<1> HIDE DEF one, two
<1>4. DOMAIN one = DOMAIN two /\ two[Len(s1) + 1] = e
  BY <1>1, <1>2, <1>3
<1>5. \A i \in DOMAIN one : i \in 1 .. Len(s1) \/ i = Len(s1) + 1
  BY <1>1
<1>6. \A i \in DOMAIN one : one[i] = two[i]
  BY <1>1, <1>3, <1>4, <1>5
<1>7. one = two
  BY <1>1, <1>3, <1>4, <1>6, SameSequence
<1> QED
  BY <1>7 DEF one, two, last

JoinsAgain(a, b, x, c, y) == a \o (b \o x) \o (c \o y) \o <<>> = (a \o b) \o x \o c \o y

LEMMA TwoJoined == \A a, b : <<a>> \o <<b>> = <<a, b>>
<1> SUFFICES ASSUME NEW a, NEW b PROVE <<a>> \o <<b>> = <<a, b>>
  OBVIOUS
<1>1. <<a, b>> = Append(<<a>>, b)
  OBVIOUS
<1>2. IsSequence(<<a>>)
  BY NoneAndOne
<1> QED
  BY <1>1, <1>2, AppendIsJoined

LEMMA JoinedAgain ==
  ASSUME NEW a, NEW b, NEW x, NEW c, NEW y, IsSequence(a), IsSequence(b), IsSequence(x), IsSequence(c), IsSequence(y)
  PROVE  JoinsAgain(a, b, x, c, y)
<1>1. \A p, q, r : IsSequence(p) /\ IsSequence(q) /\ IsSequence(r) =>
        (p \o q) \o r = p \o (q \o r) /\ IsSequence(p \o q)
  BY JoinedThree, Joined
<1> DEFINE ab == a \o b
           abx == ab \o x
           abxc == abx \o c
<1>2. IsSequence(ab) /\ IsSequence(abx) /\ IsSequence(abxc) /\ IsSequence(abxc \o y)
  BY <1>1
<1>3. ab \o x = a \o (b \o x)
  BY <1>1
<1>4. abxc \o y = abx \o (c \o y)
  BY <1>1, <1>2
<1>5. (abxc \o y) \o <<>> = abxc \o y
  BY <1>2, NoneAndOne
<1> HIDE DEF abx, abxc
<1>6. a \o (b \o x) \o (c \o y) \o <<>> = abxc \o y
  <2>1. a \o (b \o x) = abx
    BY <1>3 DEF abx
  <2> QED
    BY <1>4, <1>5, <2>1, Zenon
<1> QED
  BY <1>6 DEF abxc, abx, JoinsAgain

(* An element between two sequences is in what they make with others.     *)
IsWithin(x, t) == \E m \in DOMAIN t : t[m] = x

LEMMA WithinJoined ==
  ASSUME NEW a, NEW x, NEW b, NEW c, IsSequence(a), IsSequence(b), IsSequence(c)
  PROVE  IsWithin(x, a \o (<<x>> \o b) \o c)
<1> DEFINE h == <<x>>
           f == h \o b
           one == a \o f
           all == one \o c
<1>1. IsSequence(h) /\ DOMAIN h = {1} /\ h[1] = x
  BY NoneAndOne
<1> HIDE DEF h
<1>2. IsSequence(f) /\ 1 \in DOMAIN f /\ f[1] = x
  <2>1. /\ IsSequence(f) /\ DOMAIN h = 1 .. Len(h) /\ DOMAIN f = 1 .. Len(h) + Len(b)
        /\ Len(h) \in Nat /\ Len(b) \in Nat /\ \A i \in DOMAIN h : f[i] = h[i]
    BY <1>1, Joined
  <2> HIDE DEF f
  <2> QED
    BY <1>1, <2>1
<1> HIDE DEF f
<1>3. IsSequence(one) /\ Len(a) + 1 \in DOMAIN one /\ one[Len(a) + 1] = x
  <2>1. /\ IsSequence(one) /\ DOMAIN one = 1 .. Len(a) + Len(f) /\ DOMAIN f = 1 .. Len(f)
        /\ Len(a) \in Nat /\ Len(f) \in Nat /\ \A i \in DOMAIN f : one[Len(a) + i] = f[i]
    BY <1>2, Joined
  <2> HIDE DEF one
  <2>2. Len(a) + 1 \in DOMAIN one
    BY <1>2, <2>1
  <2> QED
    BY <1>2, <2>1, <2>2
<1> HIDE DEF one
<1>4. \A i \in DOMAIN one : i \in DOMAIN all /\ all[i] = one[i]
  <2>1. /\ DOMAIN all = 1 .. Len(one) + Len(c) /\ DOMAIN one = 1 .. Len(one)
        /\ Len(one) \in Nat /\ Len(c) \in Nat /\ \A i \in DOMAIN one : all[i] = one[i]
    BY <1>3, Joined
  <2> HIDE DEF all
  <2> QED
    BY <2>1
<1>5. IsWithin(x, all)
  BY <1>3, <1>4 DEF IsWithin
<1> QED
  BY <1>5 DEF all, one, f, h

(* The first of t moved to the end of s.                                   *)
IsMoved(s, t, S) ==
  LET x == Head(t) IN
  /\ x \in S /\ Tail(t) \in Seq(S) /\ Append(s, x) \in Seq(S)
  /\ Append(s, x) \o Tail(t) = s \o t
  /\ Len(s) \in Nat /\ DOMAIN s = 1 .. Len(s)
  /\ Len(s) + 1 \in DOMAIN (s \o t) /\ (s \o t)[Len(s) + 1] = x
  /\ \A p \in 1 .. Len(s) : p \in DOMAIN (s \o t) /\ (s \o t)[p] = s[p]
  /\ DOMAIN Append(s, x) = 1 .. Len(s) + 1 /\ Append(s, x)[Len(s) + 1] = x
  /\ \A p \in 1 .. Len(s) : Append(s, x)[p] = s[p]

LEMMA Moved ==
  ASSUME NEW S, NEW s \in Seq(S), NEW t \in Seq(S), t # <<>>
  PROVE  IsMoved(s, t, S)
<1> DEFINE x == Head(t)
           u == Tail(t)
<1>1. /\ x \in S /\ u \in Seq(S) /\ <<x>> \in Seq(S) /\ t = <<x>> \o u
      /\ Len(t) \in Nat /\ Len(t) >= 1 /\ x = t[1]
  OBVIOUS
<1> HIDE DEF x, u
<1>2. (s \o <<x>>) \o u = s \o (<<x>> \o u)
  BY <1>1, ConcatAssociative
<1>3. Append(s, x) = s \o <<x>>
  BY <1>1, AppendIsConcat
<1>4. Append(s, x) \o u = s \o t
  BY <1>1, <1>2, <1>3
<1>5. IsSequence(s) /\ IsSequence(t)
  BY DEF IsSequence
<1>6. /\ Len(s) \in Nat /\ DOMAIN s = 1 .. Len(s) /\ DOMAIN t = 1 .. Len(t)
      /\ DOMAIN (s \o t) = 1 .. Len(s) + Len(t)
      /\ \A i \in DOMAIN s : (s \o t)[i] = s[i]
      /\ \A i \in DOMAIN t : (s \o t)[Len(s) + i] = t[i]
  BY <1>5, Joined
<1>7. 1 \in DOMAIN t /\ Len(s) + 1 \in 1 .. Len(s) + Len(t)
      /\ \A p \in 1 .. Len(s) : p \in 1 .. Len(s) + Len(t)
  BY <1>1, <1>6
<1>8. /\ Append(s, x) \in Seq(S)
      /\ DOMAIN Append(s, x) = 1 .. Len(s) + 1 /\ Append(s, x)[Len(s) + 1] = x
      /\ \A p \in 1 .. Len(s) : Append(s, x)[p] = s[p]
  BY <1>1, Appended
<1> QED
  BY <1>1, <1>4, <1>6, <1>7, <1>8 DEF x, u, IsMoved

-----------------------------------------------------------------------------
(* Finite sets.                                                            *)

(* Of the finite sets that are not in T there is a smallest one.           *)
LEMMA SmallestSet ==
  ASSUME NEW S, IsFiniteSet(S), NEW T, S \notin T
  PROVE  \E U \in SUBSET S : IsFiniteSet(U) /\ U \notin T /\ \A V \in SUBSET U : V # U => V \in T
<1> DEFINE Out == {U \in SUBSET S : U \notin T}
<1>1. FiniteSubsetsOf(S) = SUBSET S
  BY FS_FiniteSubsetsOfFinite
<1>2. Out \subseteq FiniteSubsetsOf(S) /\ Out # {}
  BY <1>1
<1>3. PICK U \in Out : \A V \in Out : ~(<<V, U>> \in StrictSubsetOrdering(S))
  <2> HIDE DEF Out
  <2> QED
    BY <1>2, FS_StrictSubsetOrderingWellFounded, WFMin
<1>4. \A V \in SUBSET U : V # U => V \in T
  <2> SUFFICES ASSUME NEW V \in SUBSET U, V # U, V \notin T PROVE FALSE
    OBVIOUS
  <2>1. V \in Out /\ <<V, U>> \in StrictSubsetOrdering(S)
    BY DEF StrictSubsetOrdering
  <2> QED
    BY <1>3, <2>1
<1>5. IsFiniteSet(U) /\ U \in SUBSET S /\ U \notin T
  BY FS_Subset
<1> QED
  BY <1>4, <1>5

(* A finite set of numbers has a greatest one.                             *)
LEMMA HasGreatest ==
  ASSUME NEW S, IsFiniteSet(S), S \subseteq Int, S # {}
  PROVE  \E m \in S : \A k \in S : k <= m
<1> DEFINE Well(U) == U = {} \/ \E m \in U : \A k \in U : k <= m
           T == {U \in SUBSET S : Well(U)}
<1>1. S \in T
  <2> SUFFICES ASSUME S \notin T PROVE FALSE
    OBVIOUS
  <2> HIDE DEF T
  <2>1. PICK U \in SUBSET S : IsFiniteSet(U) /\ U \notin T /\ \A V \in SUBSET U : V # U => V \in T
    BY SmallestSet
  <2> USE DEF T
  <2>2. PICK x \in U : TRUE
    <3>1. U # {}
      BY <2>1
    <3> QED
      BY <3>1
  <2>3. Well(U \ {x})
    <3>1. U \ {x} \in SUBSET U /\ U \ {x} # U
      BY <2>2
    <3>2. U \ {x} \in T
      <4> HIDE DEF T
      <4> QED
        BY <2>1, <3>1
    <3> QED
      BY <3>2
  <2>4. CASE U \ {x} = {}
    <3>1. \A k \in U : k = x
      BY <2>4
    <3>2. x <= x
      OBVIOUS
    <3> QED
      BY <2>1, <2>2, <3>1, <3>2
  <2>5. CASE \E m \in U \ {x} : \A k \in U \ {x} : k <= m
    <3>1. PICK m \in U \ {x} : \A k \in U \ {x} : k <= m
      BY <2>5
    <3>2. m \in Int /\ x \in Int /\ \A k \in U : k \in Int /\ (k = x \/ k \in U \ {x})
      OBVIOUS
    <3>3. CASE x <= m
      <4>1. \A k \in U : k <= m
        BY <3>1, <3>2, <3>3
      <4> QED
        BY <2>1, <4>1
    <3>4. CASE m <= x
      <4>1. \A k \in U : k <= x
        BY <3>1, <3>2, <3>4
      <4> QED
        BY <2>1, <2>2, <4>1
    <3> QED
      BY <3>2, <3>3, <3>4
  <2> QED
    BY <2>3, <2>4, <2>5
<1> QED
  BY <1>1

(* Its elements in their order.                                            *)
Orders(s, S) ==
  s \in [1 .. Cardinality(S) -> S] /\ \A p, q \in DOMAIN s : p < q => s[p] < s[q]

LEMMA CanBeOrdered ==
  ASSUME NEW S, IsFiniteSet(S), S \subseteq Int
  PROVE  \E s : Orders(s, S)
<1> DEFINE T == {U \in SUBSET S : \E s : Orders(s, U)}
<1> SUFFICES ASSUME S \notin T PROVE FALSE
  OBVIOUS
<1> HIDE DEF T
<1>1. PICK U \in SUBSET S : IsFiniteSet(U) /\ U \notin T /\ \A V \in SUBSET U : V # U => V \in T
  BY SmallestSet
<1>2. U # {}
  <2>1. Cardinality({}) = 0 /\ 1 .. 0 = {}
    BY FS_EmptySet
  <2>2. Orders(<<>>, {})
    BY <2>1 DEF Orders
  <2> QED
    BY <1>1, <2>2 DEF T
<1>a. PICK m \in U : \A k \in U : k <= m
  BY <1>1, <1>2, HasGreatest
<1> DEFINE V == U \ {m}
           n == Cardinality(V)
<1>3. m \in U /\ m \in Int /\ (\A k \in U : k <= m) /\ U \subseteq Int
  BY <1>1, <1>a
<1>4. n \in Nat /\ Cardinality(U) = n + 1
  <2>1. IsFiniteSet(V) /\ Cardinality(V) = Cardinality(U) - 1
    BY <1>1, <1>3, FS_RemoveElement
  <2>2. Cardinality(V) \in Nat /\ Cardinality(U) \in Nat
    BY <1>1, <2>1, FS_CardinalityType
  <2> QED
    BY <2>1, <2>2
<1>5. PICK s : Orders(s, V)
  <2>1. V \in SUBSET U /\ V # U
    BY <1>3
  <2> QED
    BY <1>1, <2>1 DEF T
<1> HIDE DEF n
<1> DEFINE o == [p \in 1 .. n + 1 |-> IF p = n + 1 THEN m ELSE s[p]]
<1>6. s \in [1 .. n -> V] /\ \A p, q \in 1 .. n : p < q => s[p] < s[q]
  BY <1>5 DEF Orders, n
<1>7. \A p \in 1 .. n + 1 : p \in 1 .. n \/ p = n + 1
  BY <1>4
<1>8. \A p \in 1 .. n : s[p] \in Int /\ s[p] < m
  <2>1. \A k \in V : k \in Int /\ k <= m /\ k # m
    BY <1>3
  <2>2. \A k \in V : k < m
    BY <1>3, <2>1
  <2> HIDE DEF V
  <2> QED
    BY <1>6, <2>1, <2>2
<1>9. o \in [1 .. n + 1 -> U]
  BY <1>3, <1>6, <1>7
<1>10. \A p, q \in 1 .. n + 1 : p < q => o[p] < o[q]
  BY <1>4, <1>6, <1>7, <1>8
<1>11. Orders(o, U)
  BY <1>4, <1>9, <1>10 DEF Orders
<1> QED
  BY <1>1, <1>11 DEF T

(* Each of them is there once.                                             *)
LEMMA OrderedOnce ==
  ASSUME NEW S, IsFiniteSet(S), S \subseteq Int, NEW s, Orders(s, S)
  PROVE  /\ Cardinality(S) \in Nat /\ DOMAIN s = 1 .. Cardinality(S) /\ Len(s) = Cardinality(S)
         /\ s \in Seq(S)
         /\ \A p \in DOMAIN s : s[p] \in S
         /\ \A p, q \in DOMAIN s : s[p] = s[q] => p = q
         /\ \A k \in S : \E p \in DOMAIN s : s[p] = k
<1> DEFINE n == Cardinality(S)
<1>1. n \in Nat
  BY FS_CardinalityType
<1>2. s \in [1 .. n -> S] /\ \A p, q \in 1 .. n : p < q => s[p] < s[q]
  BY DEF Orders
<1> HIDE DEF n
<1>3. \A p, q \in 1 .. n : s[p] = s[q] => p = q
  <2> SUFFICES ASSUME NEW p \in 1 .. n, NEW q \in 1 .. n, s[p] = s[q], p # q PROVE FALSE
    OBVIOUS
  <2>1. p < q \/ q < p
    BY <1>1
  <2>2. s[p] \in Int /\ s[q] \in Int
    BY <1>2
  <2> QED
    BY <1>2, <2>1, <2>2
<1>4. s \in Injection(1 .. n, S)
  BY <1>2, <1>3 DEF Injection, IsInjective
<1>5. Cardinality(1 .. n) = n
  BY <1>1, FS_Interval
<1>6. s \in Surjection(1 .. n, S)
  BY <1>4, <1>5, FS_Injection DEF n
<1>7. \A k \in S : \E p \in 1 .. n : s[p] = k
  BY <1>6 DEF Surjection
<1>8. s \in Seq(S) /\ Len(s) = n /\ DOMAIN s = 1 .. n
  BY <1>1, <1>2
<1> QED
  BY <1>1, <1>2, <1>3, <1>7, <1>8 DEF n
=============================================================================
