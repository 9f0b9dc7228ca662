------------------------------ MODULE TypeLemmas ------------------------------
(* What the operators on sequences that the broker is built from return (RemoveFirst,  *)
(* Added, Pruned and Without: a line, a list of consumers, the dead letters of a queue),*)
(* the invariant behind the types of the broker's variables, and the methods of the     *)
(* queues that keep it.  That a value read from one variable fits another depends on    *)
(* where messages are: the name a message is published to is in its entry for as long   *)
(* as it is in a queue, because it is in one place only.  So types and places are proved *)
(* together.                                                                            *)
EXTENDS BrokerProperties, SequenceTheorems, FiniteSetTheorems, WellFoundedInduction, TLAPS

-----------------------------------------------------------------------------
(* Sequences *)

\* A set of naturals that is not empty has a least element.
LEMMA LeastOf ==
  ASSUME NEW S \in SUBSET Nat, S # {}
  PROVE  /\ Min(S) \in S
         /\ \A y \in S : Min(S) <= y
<1>1. \E x \in S : \A y \in S : <<y, x>> \notin OpToRel(<, Nat)
  BY NatLessThanWellFounded, WFMin
<1>2. PICK x \in S : \A y \in S : <<y, x>> \notin OpToRel(<, Nat)
  BY <1>1
<1>3. ASSUME NEW y \in S PROVE x <= y
  <2>1. ~(y < x)
    BY <1>2, Zenon DEF OpToRel
  <2> QED BY <2>1
<1> QED BY <1>3 DEF Min

\* A set of naturals with a bound that is not empty has a greatest element.
LEMMA GreatestOf ==
  ASSUME NEW n \in Nat, NEW S \in SUBSET (0 .. n), S # {}
  PROVE  /\ Max(S) \in S
         /\ \A y \in S : y <= Max(S)
<1> DEFINE T == { n - x : x \in S }
<1>1. T \in SUBSET Nat /\ T # {}
  <2>1. \A x \in S : n - x \in Nat
    OBVIOUS
  <2> QED BY <2>1
<1>2. PICK t \in T : \A y \in T : t <= y
  BY <1>1, LeastOf
<1>3. PICK x \in S : t = n - x
  OBVIOUS
<1>4. ASSUME NEW y \in S PROVE y <= x
  <2>1. n - y \in T
    OBVIOUS
  <2>2. n - x <= n - y
    BY <2>1, <1>2, <1>3
  <2> QED BY <2>2
<1> QED BY <1>4 DEF Max

\* A sequence without its k-th element.
LEMMA RemoveAtElements ==
  ASSUME NEW S, NEW s \in Seq(S), NEW k \in 1 .. Len(s)
  PROVE  /\ RemoveAt(s, k) \in Seq(S)
         /\ Len(RemoveAt(s, k)) = Len(s) - 1
         /\ \A j \in 1 .. Len(s) - 1 : RemoveAt(s, k)[j] = IF j < k THEN s[j] ELSE s[j + 1]
<1> DEFINE a == SubSeq(s, 1, k - 1)
           b == SubSeq(s, k + 1, Len(s))
<1>1. a \in Seq(S) /\ Len(a) = k - 1 /\ \A j \in 1 .. k - 1 : a[j] = s[j]
  BY SubSeqProperties
<1>2. b \in Seq(S) /\ Len(b) = Len(s) - k /\ \A j \in 1 .. Len(s) - k : b[j] = s[k + j]
  BY SubSeqProperties
<1>3. /\ a \o b \in Seq(S)
      /\ Len(a \o b) = Len(a) + Len(b)
      /\ \A j \in 1 .. Len(a) + Len(b) : (a \o b)[j] = IF j <= Len(a) THEN a[j] ELSE b[j - Len(a)]
  BY <1>1, <1>2, ConcatProperties
<1>4. RemoveAt(s, k) = a \o b
  BY DEF RemoveAt
<1>5. Len(s) \in Nat
  OBVIOUS
<1>6. ASSUME NEW j \in 1 .. Len(s) - 1
      PROVE (a \o b)[j] = IF j < k THEN s[j] ELSE s[j + 1]
  <2> HIDE DEF a, b
  <2>1. CASE j < k
    BY <2>1, <1>1, <1>2, <1>3, <1>5
  <2>2. CASE ~(j < k)
    <3>1. j - (k - 1) \in 1 .. Len(s) - k /\ k + (j - (k - 1)) = j + 1
      BY <2>2, <1>5
    <3>2. b[j - (k - 1)] = s[j + 1]
      BY <3>1, <1>2
    <3>3. j \in 1 .. Len(a) + Len(b) /\ ~(j <= Len(a)) /\ Len(a) = k - 1
      BY <2>2, <1>1, <1>2, <1>5
    <3>4. (a \o b)[j] = b[j - (k - 1)]
      BY <3>3, <1>3
    <3> QED BY <2>2, <3>2, <3>4
  <2> QED BY <2>1, <2>2
<1> HIDE DEF a, b
<1>7. Len(a) + Len(b) = Len(s) - 1
  BY <1>1, <1>2, <1>5
<1> QED BY <1>3, <1>4, <1>6, <1>7

\* Where RemoveFirst finds what it removes.
LEMMA FirstPlace ==
  ASSUME NEW S, NEW s \in Seq(S), NEW e, \E i \in 1 .. Len(s) : s[i] = e
  PROVE  /\ SelectInSeq(s, LAMBDA v : v = e) \in 1 .. Len(s)
         /\ s[SelectInSeq(s, LAMBDA v : v = e)] = e
<1> DEFINE I == { i \in 1 .. Len(s) : s[i] = e }
<1>1. I \in SUBSET Nat /\ I # {}
  OBVIOUS
<1>2. Min(I) \in I
  BY <1>1, LeastOf
<1>3. SelectInSeq(s, LAMBDA v : v = e) = Min(I)
  BY <1>1 DEF SelectInSeq
<1> QED BY <1>2, <1>3

\* RemoveFirst keeps the type and adds nothing; what is distinct stays so and is rid of e.
LEMMA RemoveFirstElements ==
  ASSUME NEW S, NEW s \in Seq(S), NEW e
  PROVE  /\ RemoveFirst(s, e) \in Seq(S)
         /\ ToSet(RemoveFirst(s, e)) \subseteq ToSet(s)
         /\ IsInjective(s) => /\ IsInjective(RemoveFirst(s, e))
                              /\ ToSet(RemoveFirst(s, e)) = ToSet(s) \ {e}
<1>1. CASE ~ \E i \in 1 .. Len(s) : s[i] = e
  BY <1>1 DEF RemoveFirst, ToSet
<1>2. CASE \E i \in 1 .. Len(s) : s[i] = e
  <2> DEFINE k == SelectInSeq(s, LAMBDA v : v = e)
             t == RemoveAt(s, k)
  <2>1. k \in 1 .. Len(s) /\ s[k] = e
    BY <1>2, FirstPlace
  <2>2. RemoveFirst(s, e) = t
    BY <1>2 DEF RemoveFirst
  <2> HIDE DEF k
  <2>3. /\ t \in Seq(S)
        /\ Len(t) = Len(s) - 1
        /\ \A j \in 1 .. Len(s) - 1 : t[j] = IF j < k THEN s[j] ELSE s[j + 1]
    BY <2>1, RemoveAtElements
  <2> HIDE DEF t
  <2>4. DOMAIN t = 1 .. Len(s) - 1 /\ DOMAIN s = 1 .. Len(s) /\ Len(s) \in Nat
    BY <2>3
  <2>5. ToSet(t) \subseteq ToSet(s)
    BY SMTT(30), <2>1, <2>3, <2>4 DEF ToSet
  <2>6. ASSUME IsInjective(s) PROVE IsInjective(t)
    <3> SUFFICES ASSUME NEW x \in DOMAIN t, NEW y \in DOMAIN t, t[x] = t[y] PROVE x = y
      BY DEF IsInjective
    <3> DEFINE at(j) == IF j < k THEN j ELSE j + 1
    <3>1. at(x) \in DOMAIN s /\ at(y) \in DOMAIN s /\ s[at(x)] = s[at(y)]
      BY <2>1, <2>3, <2>4
    <3>2. at(x) = at(y)
      BY <3>1, <2>6, Zenon DEF IsInjective
    <3> QED BY <3>2, <2>1, <2>4
  <2>7. ASSUME IsInjective(s) PROVE ToSet(t) = ToSet(s) \ {e}
    <3>1. e \notin ToSet(t)
      <4> SUFFICES ASSUME NEW j \in 1 .. Len(s) - 1, t[j] = e PROVE FALSE
        BY <2>4 DEF ToSet
      <4> DEFINE at == IF j < k THEN j ELSE j + 1
      <4>1. at \in 1 .. Len(s) /\ at # k /\ s[at] = e
        BY <2>1, <2>3, <2>4
      <4> HIDE DEF at
      <4>2. at = k
        BY <4>1, <2>1, <2>4, <2>7, Zenon DEF IsInjective
      <4> QED BY <4>1, <4>2
    <3>2. ASSUME NEW x \in ToSet(s), x # e PROVE x \in ToSet(t)
      <4>1. PICK j \in 1 .. Len(s) : s[j] = x
        BY <2>4 DEF ToSet
      <4>2. CASE j < k
        <5>1. j \in 1 .. Len(s) - 1 /\ t[j] = x
          BY <4>1, <4>2, <2>1, <2>3, <2>4
        <5> QED BY <5>1, <2>4 DEF ToSet
      <4>3. CASE j > k
        <5>1. j - 1 \in 1 .. Len(s) - 1 /\ t[j - 1] = x
          BY <4>1, <4>3, <2>1, <2>3, <2>4
        <5> QED BY <5>1, <2>4 DEF ToSet
      <4> QED BY <4>1, <4>2, <4>3, <3>2, <2>1
    <3> QED BY <3>1, <3>2, <2>5
  <2> QED BY <2>2, <2>3, <2>5, <2>6, <2>7
<1> QED BY <1>1, <1>2

\* A line with one more at its end.
LEMMA AppendElements ==
  ASSUME NEW S, NEW s \in Seq(S), NEW e \in S
  PROVE  ToSet(Append(s, e)) = ToSet(s) \union {e}
<1>1. /\ DOMAIN s = 1 .. Len(s) /\ Len(s) \in Nat
      /\ DOMAIN Append(s, e) = 1 .. Len(s) + 1
      /\ \A j \in 1 .. Len(s) : Append(s, e)[j] = s[j]
      /\ Append(s, e)[Len(s) + 1] = e
  BY AppendProperties
<1>2. \A x \in ToSet(s) : x \in ToSet(Append(s, e))
  BY <1>1 DEF ToSet
<1>3. e \in ToSet(Append(s, e))
  BY <1>1 DEF ToSet
<1>4. \A x \in ToSet(Append(s, e)) : x \in ToSet(s) \union {e}
  BY <1>1 DEF ToSet
<1> QED BY <1>2, <1>3, <1>4

\* The end, the head and the front of a line.
LEMMA LineElements ==
  ASSUME NEW S, NEW s \in Seq(S), NEW e \in S
  PROVE  /\ Append(s, e) \in Seq(S)
         /\ ToSet(Append(s, e)) = ToSet(s) \union {e}
         /\ IsInjective(s) /\ e \notin ToSet(s) => IsInjective(Append(s, e))
         /\ <<e>> \o s \in Seq(S)
         /\ ToSet(<<e>> \o s) = ToSet(s) \union {e}
         /\ IsInjective(s) /\ e \notin ToSet(s) => IsInjective(<<e>> \o s)
         /\ ToSet(s) \subseteq S
<1>1. DOMAIN s = 1 .. Len(s) /\ Len(s) \in Nat
  OBVIOUS
<1>2. /\ Append(s, e) \in Seq(S)
      /\ DOMAIN Append(s, e) = 1 .. Len(s) + 1
      /\ \A j \in 1 .. Len(s) : Append(s, e)[j] = s[j]
      /\ Append(s, e)[Len(s) + 1] = e
  BY AppendProperties
<1> DEFINE t == <<e>> \o s
<1>3. /\ t \in Seq(S)
      /\ DOMAIN t = 1 .. Len(s) + 1
      /\ t[1] = e
      /\ \A j \in 1 .. Len(s) + 1 : j # 1 => t[j] = s[j - 1]
  <2>1. <<e>> \in Seq(S) /\ Len(<<e>>) = 1 /\ <<e>>[1] = e
    OBVIOUS
  <2>2. /\ t \in Seq(S)
        /\ Len(t) = Len(s) + 1
        /\ \A i \in 1 .. 1 + Len(s) : t[i] = IF i <= 1 THEN <<e>>[i] ELSE s[i - 1]
    BY <2>1, ConcatProperties
  <2> HIDE DEF t
  <2> QED BY <2>1, <2>2, <1>1
<1> HIDE DEF t
<1>4. ToSet(Append(s, e)) = ToSet(s) \union {e}
  BY AppendElements
<1>5. ToSet(t) = ToSet(s) \union {e}
  <2>1. ASSUME NEW x \in ToSet(s) PROVE x \in ToSet(t)
    <3>1. PICK j \in 1 .. Len(s) : s[j] = x
      BY <1>1 DEF ToSet
    <3>2. j + 1 \in 1 .. Len(s) + 1 /\ t[j + 1] = x
      BY <3>1, <1>1, <1>3
    <3> QED BY <3>2, <1>3 DEF ToSet
  <2>2. e \in ToSet(t)
    BY <1>1, <1>3 DEF ToSet
  <2>3. \A x \in ToSet(t) : x \in ToSet(s) \union {e}
    BY <1>1, <1>3 DEF ToSet
  <2> QED BY <2>1, <2>2, <2>3
<1>6. ASSUME IsInjective(s), e \notin ToSet(s) PROVE IsInjective(Append(s, e))
  BY <1>1, <1>2, <1>6 DEF IsInjective, ToSet
<1>7. ASSUME IsInjective(s), e \notin ToSet(s) PROVE IsInjective(t)
  <2> SUFFICES ASSUME NEW x \in 1 .. Len(s) + 1, NEW y \in 1 .. Len(s) + 1, t[x] = t[y], x # y
               PROVE FALSE
    BY <1>3 DEF IsInjective
  <2>1. \A j \in 1 .. Len(s) : s[j] # e
    BY <1>1, <1>7 DEF ToSet
  <2>2. x # 1 /\ y # 1
    BY <2>1, <1>1, <1>3
  <2>3. x - 1 \in DOMAIN s /\ y - 1 \in DOMAIN s /\ s[x - 1] = s[y - 1]
    BY <2>2, <1>1, <1>3
  <2>4. x - 1 = y - 1
    BY <2>3, <1>7, Zenon DEF IsInjective
  <2> QED BY <2>4
<1>8. ToSet(s) \subseteq S
  BY <1>1 DEF ToSet
<1> QED BY <1>2, <1>3, <1>4, <1>5, <1>6, <1>7, <1>8 DEF t

\* What is left when the head is gone.
LEMMA TailElements ==
  ASSUME NEW S, NEW s \in Seq(S), s # <<>>
  PROVE  /\ Head(s) \in S
         /\ Head(s) \in ToSet(s)
         /\ Tail(s) \in Seq(S)
         /\ IsInjective(s) => IsInjective(Tail(s)) /\ ToSet(Tail(s)) = ToSet(s) \ {Head(s)}
<1>1. DOMAIN s = 1 .. Len(s) /\ Len(s) \in Nat /\ Len(s) >= 1 /\ Head(s) = s[1]
  OBVIOUS
<1>2. /\ Tail(s) \in Seq(S)
      /\ DOMAIN Tail(s) = 1 .. Len(s) - 1
      /\ \A j \in 1 .. Len(s) - 1 : Tail(s)[j] = s[j + 1]
  BY HeadTailProperties
<1>3. ASSUME IsInjective(s) PROVE IsInjective(Tail(s))
  BY <1>1, <1>2, <1>3 DEF IsInjective
<1>4. ASSUME IsInjective(s) PROVE ToSet(Tail(s)) = ToSet(s) \ {Head(s)}
  <2>1. ASSUME NEW x \in ToSet(s), x # Head(s) PROVE x \in ToSet(Tail(s))
    <3>1. PICK j \in 1 .. Len(s) : s[j] = x
      BY <1>1 DEF ToSet
    <3>2. j - 1 \in 1 .. Len(s) - 1 /\ Tail(s)[j - 1] = x
      BY <3>1, <2>1, <1>1, <1>2
    <3> QED BY <3>2, <1>2 DEF ToSet
  <2>2. ASSUME NEW x \in ToSet(Tail(s)) PROVE x \in ToSet(s) /\ x # Head(s)
    <3>1. PICK j \in 1 .. Len(s) - 1 : Tail(s)[j] = x
      BY <1>2 DEF ToSet
    <3>2. j + 1 \in 1 .. Len(s) /\ s[j + 1] = x /\ j + 1 # 1
      BY <3>1, <1>1, <1>2
    <3> QED BY <3>2, <1>1, <1>4 DEF ToSet, IsInjective
  <2> QED BY <2>1, <2>2
<1>5. Head(s) \in ToSet(s)
  BY <1>1 DEF ToSet
<1> QED BY <1>1, <1>2, <1>3, <1>4, <1>5

\* DeadLetterStore: whatever is added, pruned or removed, letters are left.
LEMMA YoungestType ==
  ASSUME NEW S, NEW s \in Seq(S), NEW k \in 0 .. Len(s)
  PROVE  Youngest(s, k) \in Seq(S)
  BY SubSeqProperties DEF Youngest

\* The store is a list of letters after one was added,
LEMMA AddedType ==
  ASSUME NEW S, NEW s \in Seq(S), NEW e \in S, NEW limit \in Nat, NEW maxAge \in Nat
  PROVE  Added(s, e, limit, maxAge) \in Seq(S)
<1> DEFINE all == Append(s, e)
<1>1. all \in Seq(S) /\ Len(all) \in Nat
  BY AppendProperties
<1> HIDE DEF all
<1>2. Len(all) > limit => Youngest(all, limit) \in Seq(S)
  BY <1>1, YoungestType
<1> QED BY <1>1, <1>2 DEF Added, all

\* after it was pruned,
LEMMA PrunedType ==
  ASSUME NEW S, NEW s \in Seq(S), NEW limit, NEW maxAge, NEW time
  PROVE  Pruned(s, limit, maxAge, time) \in Seq(S)
<1> DEFINE StopsAt(k) == /\ k <= limit
                         /\ k > 0 => time - s[Len(s) - k + 1].diedAt <= maxAge
           stops == { k \in 0 .. Len(s) : StopsAt(k) }
<1>1. Len(s) \in Nat /\ stops \in SUBSET (0 .. Len(s))
  OBVIOUS
<1>2. Pruned(s, limit, maxAge, time) = IF stops = {} THEN <<>> ELSE Youngest(s, Max(stops))
  BY DEF Pruned
<1> HIDE DEF stops
<1>3. ASSUME stops # {} PROVE Max(stops) \in 0 .. Len(s)
  BY <1>1, <1>3, GreatestOf
<1> QED BY <1>2, <1>3, YoungestType

\* and after one was removed.
LEMMA WithoutType ==
  ASSUME NEW S, NEW s \in Seq(S), NEW m
  PROVE  Without(s, m) \in Seq(S)
<1> DEFINE I == { i \in 1 .. Len(s) : s[i].msg = m }
<1>1. CASE I = {}
  BY <1>1 DEF Without, RemoveFirstMatch
<1>2. CASE I # {}
  <2> I \in SUBSET Nat
    OBVIOUS
  <2>1. Min(I) \in 1 .. Len(s)
    BY <1>2, LeastOf
  <2>2. Without(s, m) = RemoveAt(s, Min(I))
    BY <1>2 DEF Without, RemoveFirstMatch, SelectInSeq
  <2> QED BY <2>1, <2>2, RemoveAtElements
<1> QED BY <1>1, <1>2

\* Find returns a letter of the list when there is one about the message.
LEMMA LetterType ==
  ASSUME NEW S, NEW s \in Seq(S), NEW m, HasLetter(s, m)
  PROVE  Letter(s, m) \in S
<1> DEFINE I == { i \in 1 .. Len(s) : s[i].msg = m }
<1>1. I # {} /\ I \in SUBSET Nat
  BY DEF HasLetter
<1>2. Min(I) \in 1 .. Len(s)
  BY <1>1, LeastOf
<1>3. Letter(s, m) = s[Min(I)]
  BY <1>1 DEF Letter, SelectInSeq
<1> QED BY <1>2, <1>3


-----------------------------------------------------------------------------
(* What is left of a list, in the order it was in *)

\* p is what is left of s when some elements are taken out.
PartOf(p, s) ==
  /\ Len(p) <= Len(s)
  /\ \E f \in [DOMAIN p -> DOMAIN s] : /\ \A k \in DOMAIN p : p[k] = s[f[k]]
                                       /\ \A k, l \in DOMAIN p : k < l => f[k] < f[l]

\* Nothing, and the list itself.
LEMMA WholeOrNothing ==
  ASSUME NEW S, NEW s \in Seq(S)
  PROVE  PartOf(<<>>, s) /\ PartOf(s, s)
<1>1. DOMAIN <<>> = {} /\ DOMAIN s = 1 .. Len(s) /\ Len(<<>>) = 0 /\ Len(s) \in Nat
  OBVIOUS
<1>2. PartOf(s, s)
  <2> DEFINE f == [k \in DOMAIN s |-> k]
  <2>1. f \in [DOMAIN s -> DOMAIN s] /\ \A k \in DOMAIN s : f[k] = k
    OBVIOUS
  <2>2. \A j, l \in DOMAIN s : j < l => f[j] < f[l]
    BY <2>1
  <2> HIDE DEF f
  <2>3. Len(s) <= Len(s)
    BY <1>1
  <2> QED BY <2>1, <2>2, <2>3, Zenon DEF PartOf
<1>3. PartOf(<<>>, s)
  <2> DEFINE f == [k \in {} |-> 1]
  <2>1. f \in [DOMAIN <<>> -> DOMAIN s]
    BY <1>1
  <2> HIDE DEF f
  <2>2. Len(<<>>) <= Len(s)
    BY <1>1
  <2> QED BY <1>1, <2>1, <2>2, Zenon DEF PartOf
<1> QED BY <1>2, <1>3

\* The youngest letters are a part of the letters,
LEMMA YoungestPart ==
  ASSUME NEW S, NEW s \in Seq(S), NEW k \in 0 .. Len(s)
  PROVE  PartOf(Youngest(s, k), s) /\ Len(Youngest(s, k)) = k
<1> DEFINE p == Youngest(s, k)
           f == [j \in 1 .. k |-> j + (Len(s) - k)]
<1>1. Len(s) \in Nat /\ DOMAIN s = 1 .. Len(s)
  OBVIOUS
<1>2. /\ DOMAIN p = 1 .. k /\ Len(p) = k
      /\ \A j \in 1 .. k : p[j] = s[j + (Len(s) - k)]
  <2>1. /\ Len(p) = k /\ p \in Seq(S)
        /\ \A j \in 1 .. k : p[j] = s[(Len(s) - k + 1) + j - 1]
    BY <1>1, SubSeqProperties DEF Youngest
  <2> HIDE DEF p
  <2> QED BY <1>1, <2>1
<1> HIDE DEF p
<1>3. f \in [DOMAIN p -> DOMAIN s] /\ \A j, l \in DOMAIN p : j < l => f[j] < f[l]
  BY <1>1, <1>2
<1>4. \A j \in DOMAIN p : p[j] = s[f[j]]
  BY <1>1, <1>2
<1>5. Len(p) <= Len(s)
  BY <1>1, <1>2
<1> QED BY <1>2, <1>3, <1>4, <1>5 DEF PartOf, p

\* what is left after pruning is,
LEMMA PrunedPart ==
  ASSUME NEW S, NEW s \in Seq(S), NEW limit, NEW maxAge, NEW time
  PROVE  PartOf(Pruned(s, limit, maxAge, time), s)
<1> DEFINE StopsAt(k) == /\ k <= limit
                         /\ k > 0 => time - s[Len(s) - k + 1].diedAt <= maxAge
           stops == { k \in 0 .. Len(s) : StopsAt(k) }
<1>1. Len(s) \in Nat /\ stops \in SUBSET (0 .. Len(s))
  OBVIOUS
<1>2. Pruned(s, limit, maxAge, time) = IF stops = {} THEN <<>> ELSE Youngest(s, Max(stops))
  BY DEF Pruned
<1> HIDE DEF stops
<1>3. ASSUME stops # {} PROVE Max(stops) \in 0 .. Len(s)
  BY <1>1, <1>3, GreatestOf
<1> QED BY <1>2, <1>3, YoungestPart, WholeOrNothing

\* what is left after one was added is, of the letters with that one at the end, no more than are kept,
LEMMA AddedPart ==
  ASSUME NEW S, NEW s \in Seq(S), NEW e \in S, NEW limit \in Nat, NEW maxAge \in Nat
  PROVE  \/ PartOf(Added(s, e, limit, maxAge), s)
         \/ PartOf(Added(s, e, limit, maxAge), Append(s, e)) /\ Len(Added(s, e, limit, maxAge)) <= limit
<1> DEFINE all == Append(s, e)
<1>1. all \in Seq(S) /\ Len(all) \in Nat
  BY AppendProperties
<1> HIDE DEF all
<1>2. Len(all) > limit => PartOf(Youngest(all, limit), all) /\ Len(Youngest(all, limit)) = limit
  BY <1>1, YoungestPart
<1>3. PartOf(s, s) /\ PartOf(all, all)
  BY <1>1, WholeOrNothing
<1> QED BY <1>2, <1>3 DEF Added, all

\* and what is left after one was removed.
LEMMA WithoutPart ==
  ASSUME NEW S, NEW s \in Seq(S), NEW m
  PROVE  PartOf(Without(s, m), s)
<1> DEFINE I == { i \in 1 .. Len(s) : s[i].msg = m }
<1>1. CASE I = {}
  BY <1>1, WholeOrNothing DEF Without, RemoveFirstMatch
<1>2. CASE I # {}
  <2>1. I \in SUBSET Nat
    OBVIOUS
  <2>2. Min(I) \in 1 .. Len(s)
    BY <1>2, <2>1, LeastOf
  <2>3. Without(s, m) = RemoveAt(s, Min(I))
    BY <1>2 DEF Without, RemoveFirstMatch, SelectInSeq
  <2>4. PICK i \in 1 .. Len(s) : Without(s, m) = RemoveAt(s, i)
    BY <2>2, <2>3
  <2> DEFINE p == RemoveAt(s, i)
             f == [j \in 1 .. Len(s) - 1 |-> IF j < i THEN j ELSE j + 1]
  <2>5. /\ DOMAIN s = 1 .. Len(s) /\ Len(s) \in Nat
        /\ DOMAIN p = 1 .. Len(s) - 1 /\ Len(p) <= Len(s)
        /\ \A j \in 1 .. Len(s) - 1 : p[j] = IF j < i THEN s[j] ELSE s[j + 1]
    BY RemoveAtElements
  <2> HIDE DEF p
  <2>6. f \in [DOMAIN p -> DOMAIN s] /\ \A j, l \in DOMAIN p : j < l => f[j] < f[l]
    BY <2>5
  <2>7. \A j \in DOMAIN p : p[j] = s[f[j]]
    BY <2>5
  <2>8. PartOf(p, s)
    BY <2>5, <2>6, <2>7 DEF PartOf
  <2> QED BY <2>4, <2>8 DEF p
<1> QED BY <1>1, <1>2


-----------------------------------------------------------------------------
(* What is not removed stays *)

\* RemoveFirst takes nothing but the element out.
LEMMA OthersKept ==
  ASSUME NEW S, NEW s \in Seq(S), NEW e, NEW x \in ToSet(s), x # e
  PROVE  x \in ToSet(RemoveFirst(s, e))
<1>1. CASE ~ \E i \in 1 .. Len(s) : s[i] = e
  BY <1>1 DEF RemoveFirst
<1>2. CASE \E i \in 1 .. Len(s) : s[i] = e
  <2>1. PICK k \in 1 .. Len(s) : s[k] = e /\ RemoveFirst(s, e) = RemoveAt(s, k)
    BY <1>2, FirstPlace DEF RemoveFirst
  <2>2. PICK j \in 1 .. Len(s) : s[j] = x
    BY DEF ToSet
  <2> DEFINE t == RemoveAt(s, k)
             at == IF j < k THEN j ELSE j - 1
  <2>3. /\ DOMAIN t = 1 .. Len(s) - 1 /\ Len(s) \in Nat
        /\ \A l \in 1 .. Len(s) - 1 : t[l] = IF l < k THEN s[l] ELSE s[l + 1]
    <3>1. t \in Seq(S) /\ Len(t) = Len(s) - 1 /\ Len(s) \in Nat
      BY RemoveAtElements
    <3>2. \A l \in 1 .. Len(s) - 1 : t[l] = IF l < k THEN s[l] ELSE s[l + 1]
      BY RemoveAtElements
    <3> HIDE DEF t
    <3> QED BY <3>1, <3>2
  <2> HIDE DEF t
  <2>4. at \in DOMAIN t /\ t[at] = x
    BY <2>1, <2>2, <2>3
  <2>5. x \in ToSet(t)
    BY <2>4 DEF ToSet
  <2> QED BY <2>1, <2>5 DEF t
<1> QED BY <1>1, <1>2

-----------------------------------------------------------------------------
(* The parts of a sequence *)

\* What is in a sequence is its head, or in its tail.
LEMMA HeadOrTail ==
  ASSUME NEW S, NEW s \in Seq(S), NEW x \in ToSet(s)
  PROVE  s # <<>> /\ (x = Head(s) \/ x \in ToSet(Tail(s)))
<1>1. /\ DOMAIN s = 1 .. Len(s) /\ Len(s) \in Nat
      /\ s # <<>> => /\ DOMAIN Tail(s) = 1 .. Len(s) - 1 /\ Head(s) = s[1]
                     /\ \A j \in 1 .. Len(s) - 1 : Tail(s)[j] = s[j + 1]
  BY HeadTailProperties, LenProperties
<1>2. PICK k \in 1 .. Len(s) : x = s[k]
  BY <1>1 DEF ToSet
<1>3. s # <<>>
  BY <1>2
<1>4. CASE k # 1
  <2>1. k - 1 \in 1 .. Len(s) - 1 /\ (k - 1) + 1 = k
    BY <1>1, <1>2, <1>4
  <2>2. Tail(s)[k - 1] = x
    BY <1>1, <1>2, <1>3, <2>1
  <2> QED BY <1>1, <1>3, <2>1, <2>2 DEF ToSet
<1> QED BY <1>1, <1>2, <1>3, <1>4

\* A sequence that starts in the middle and goes on at its beginning is all there.
LEMMA RotationElements ==
  ASSUME NEW S, NEW s \in Seq(S), NEW start \in 0 .. Len(s), NEW n \in ToSet(s)
  PROVE  n \in ToSet(SubSeq(s, start + 1, Len(s)) \o SubSeq(s, 1, start))
<1> DEFINE front == SubSeq(s, start + 1, Len(s))
           back  == SubSeq(s, 1, start)
<1>1. PICK L \in Nat : L = Len(s) /\ start \in 0 .. L /\ start \in Nat
  BY LenProperties
<1>2. PICK k \in 1 .. L : s[k] = n
  BY <1>1 DEF ToSet
<1>3. /\ front \in Seq(S) /\ Len(front) = L - start
      /\ \A j \in 1 .. L - start : front[j] = s[start + j]
  BY <1>1, SubSeqProperties
<1>4. back \in Seq(S) /\ Len(back) = start /\ \A j \in 1 .. start : back[j] = s[j]
  BY <1>1, SubSeqProperties
<1> HIDE DEF front, back
<1>5. /\ front \o back \in Seq(S) /\ Len(front \o back) = L
      /\ \A j \in 1 .. L : (front \o back)[j] = IF j <= L - start THEN front[j] ELSE back[j - (L - start)]
  <2>1. /\ front \o back \in Seq(S) /\ Len(front \o back) = Len(front) + Len(back)
        /\ \A j \in 1 .. Len(front) + Len(back) :
             (front \o back)[j] = IF j <= Len(front) THEN front[j] ELSE back[j - Len(front)]
    BY <1>3, <1>4, ConcatProperties
  <2>2. Len(front) + Len(back) = L
    BY <1>1, <1>3, <1>4
  <2> QED BY <1>3, <2>1, <2>2
<1>6. \A j \in 1 .. L : (front \o back)[j] \in ToSet(front \o back)
  <2>1. DOMAIN (front \o back) = 1 .. L
    BY <1>5, LenProperties
  <2> QED BY <2>1 DEF ToSet
<1>7. CASE k > start
  <2>1. k - start \in 1 .. L /\ k - start \in 1 .. L - start /\ k - start <= L - start /\ start + (k - start) = k
    BY <1>1, <1>7
  <2>2. (front \o back)[k - start] = front[k - start]
    BY <1>5, <2>1
  <2>3. (front \o back)[k - start] = n
    BY <1>2, <1>3, <2>1, <2>2
  <2> QED BY <1>6, <2>1, <2>3 DEF front, back
<1>8. CASE k <= start
  <2>1. /\ k + (L - start) \in 1 .. L /\ ~(k + (L - start) <= L - start) /\ (k + (L - start)) - (L - start) = k
        /\ k \in 1 .. start
    BY <1>1, <1>8
  <2>2. (front \o back)[k + (L - start)] = back[k]
    BY <1>5, <2>1
  <2>3. (front \o back)[k + (L - start)] = n
    BY <1>2, <1>4, <2>1, <2>2
  <2> QED BY <1>6, <2>1, <2>3 DEF front, back
<1> QED BY <1>1, <1>7, <1>8

-----------------------------------------------------------------------------
(* Types and places *)

\* Where a thread is in a call that joins a message to a line, but has not yet.
Joins(o) == o.kind = "publish" /\ o.pc \in {"lookup", "resolve", "add", "gate", "unregister"}

InQueue == { "gate", "unregister", "dispatch", "look", "scan", "taking", "reread", "assign",
             "sweeping", "retire" }

\* Calls that only connections make, and steps that only connections take.
ByConsumers(o) ==
  \/ o.kind \in { "bind", "unbind", "confirm", "respond", "await", "free", "disconnect", "abandon" }
  \/ o.pc \in { "release", "rotate", "freeing", "leaving", "complete" }

\* What a thread needs in order to go on is there.
Fits(t, o) ==
  /\ o.pc \in InQueue => o.inst \in Instances
  /\ \/ o.pc \in { "lookup", "resolve", "add", "unregister", "reread", "pausing" }
     \/ o.pc = "gate" /\ o.kind \in {"publish", "bind"}
     => o.name \in Names
  /\ o.pc \in { "lookup", "resolve", "add", "unregister" } => o.kind \in {"publish", "bind", "take"}
  /\ ByConsumers(o) => t \in Consumers
  /\ o.pc = "gate" /\ o.kind \in { "publish", "respondLate", "collect", "confirm", "respond",
                                   "await", "abandon" } => o.msg \in Messages
  /\ Joins(o) => o.msg \in Messages
  /\ o.pc = "freeing" => o.kind = "free"
  /\ o.pc = "leaving" => o.kind = "disconnect"
  /\ o.pc \in {"sweep", "sweeping", "retire"} => o.kind = "sweep"
  /\ o.pc \in {"reread", "assign"} => o.kind = "configure"
  /\ o.pc = "sweeping" => o.scan >= 1

CallsFit == \A t \in Threads : Fits(t, op[t])

Content(i) == ToSet(pending[i]) \union inFlight[i]

OverByPush == {"pushed", "answered", "answerLost"}

\* A message of a queue is live, in that queue only, and there once; a live one knows
\* the name it was published to.
OnePlaceEach ==
  /\ \A i \in Instances : IsInjective(pending[i]) /\ ToSet(pending[i]) \intersect inFlight[i] = {}
  /\ \A i, j \in Instances : i # j => Content(i) \intersect Content(j) = {}
  /\ \A i \in Instances : \A m \in Content(i) : fate[m] = "live"
  /\ \A m \in Messages : fate[m] = "live" => entry[m].home \in Names

\* A message that is being published is in no queue, and one thread publishes it.
JoinsOnce ==
  /\ \A t \in Threads : Joins(op[t]) => /\ fate[op[t].msg] = "sent"
                                        /\ entry[op[t].msg].home = op[t].name
  /\ \A t, u \in Threads : t # u /\ Joins(op[t]) /\ Joins(op[u]) => op[t].msg # op[u].msg

\* An answer on its way out is about a message that is over.
AnswersOver ==
  \A t \in Threads : \A k \in DOMAIN op[t].out :
    op[t].out[k].response => fate[op[t].out[k].msg] \in OverByPush

Places == OnePlaceEach /\ JoinsOnce /\ AnswersOver

TypeInv == TypeOK /\ CallsFit /\ Places

-----------------------------------------------------------------------------
(* Where messages are, after a step of one thread *)

\* What is handed over is about a message.
LEMMA HandedElement ==
  ASSUME NEW out \in Seq(Handed), NEW k \in DOMAIN out
  PROVE  out[k] \in Handed /\ out[k].msg \in Messages
<1>1. out[k] \in Handed
  <2>1. k \in 1 .. Len(out)
    BY LenProperties
  <2> QED BY <2>1, ElementOfSeq
<1> QED BY <1>1 DEF Handed

\* Some messages of the queues end, others may move within their queue: all are still
\* in one place, and what is being published or answered elsewhere is not concerned.
LEMMA PlacesKept ==
  ASSUME TypeInv, NEW t \in Threads, NEW o, op' = [op EXCEPT ![t] = o],
         NEW G \in SUBSET Messages,
         \A m \in G : fate[m] = "live" /\ fate'[m] \notin {"live", "sent"},
         \A m \in Messages \ G : fate'[m] = fate[m] /\ entry'[m].home = entry[m].home,
         \A i \in Instances : /\ IsInjective(pending'[i])
                              /\ ToSet(pending'[i]) \intersect inFlight'[i] = {}
                              /\ ToSet(pending'[i]) \union inFlight'[i] \subseteq Content(i) \ G,
         Joins(o) => Joins(op[t]) /\ o.msg = op[t].msg /\ o.name = op[t].name,
         \A k \in DOMAIN o.out : o.out[k].response => fate'[o.out[k].msg] \in OverByPush
  PROVE  Places'
<1> USE DEF TypeInv
<1>1. op \in [Threads -> Ops] /\ \A u \in Threads : op'[u] = IF u = t THEN o ELSE op[u]
  BY DEF TypeOK
<1>2. \A i \in Instances : Content(i) \subseteq Messages
  BY LineElements DEF TypeOK, Content, ToSet
<1>3. OnePlaceEach'
  BY <1>2 DEF Places, OnePlaceEach, Content
<1>4. \A u \in Threads : Joins(op'[u]) => /\ Joins(op[u])
                                          /\ op'[u].msg = op[u].msg
                                          /\ op'[u].name = op[u].name
  BY <1>1
<1>5. \A u \in Threads : Joins(op[u]) => op[u].msg \in Messages \ G
  BY DEF Places, JoinsOnce, CallsFit, Fits
<1>6. JoinsOnce'
  BY <1>4, <1>5 DEF Places, JoinsOnce
<1>7. AnswersOver'
  <2> SUFFICES ASSUME NEW u \in Threads, NEW k \in DOMAIN op'[u].out, op'[u].out[k].response
               PROVE  fate'[op'[u].out[k].msg] \in OverByPush
    BY DEF AnswersOver
  <2>1. CASE u = t
    BY <2>1, <1>1
  <2>2. CASE u # t
    <3>1. op'[u] = op[u] /\ fate[op[u].out[k].msg] \in OverByPush
      BY <2>2, <1>1 DEF Places, AnswersOver
    <3>2. op[u].out[k].msg \in Messages
      <4>1. op[u].out \in Seq(Handed)
        BY <1>1 DEF Ops
      <4> QED BY <3>1, <4>1, HandedElement
    <3>3. op[u].out[k].msg \notin G
      BY <3>1 DEF OverByPush
    <3> QED BY <3>1, <3>2, <3>3
  <2> QED BY <2>1, <2>2
<1> QED BY <1>3, <1>6, <1>7 DEF Places

\* The same when the step is about one queue.
LEMMA PlacesOfOne ==
  ASSUME TypeInv, NEW t \in Threads, NEW o, op' = [op EXCEPT ![t] = o],
         NEW i \in Instances, NEW p, NEW f, NEW G \in SUBSET Content(i),
         pending' = [pending EXCEPT ![i] = p], inFlight' = [inFlight EXCEPT ![i] = f],
         IsInjective(p), ToSet(p) \intersect f = {}, ToSet(p) \union f \subseteq Content(i) \ G,
         \A m \in G : fate'[m] \notin {"live", "sent"},
         \A m \in Messages \ G : fate'[m] = fate[m] /\ entry'[m].home = entry[m].home,
         Joins(o) => Joins(op[t]) /\ o.msg = op[t].msg /\ o.name = op[t].name,
         \A k \in DOMAIN o.out : o.out[k].response => fate'[o.out[k].msg] \in OverByPush
  PROVE  Places'
<1> USE DEF TypeInv
<1>1. \A j \in Instances : Content(j) \subseteq Messages
  BY LineElements DEF TypeOK, Content, ToSet
<1>2. \A m \in G : fate[m] = "live"
  BY DEF Places, OnePlaceEach
<1>3. ASSUME NEW j \in Instances
      PROVE  /\ IsInjective(pending'[j])
             /\ ToSet(pending'[j]) \intersect inFlight'[j] = {}
             /\ ToSet(pending'[j]) \union inFlight'[j] \subseteq Content(j) \ G
  <2>1. CASE j = i
    BY <2>1 DEF TypeOK
  <2>2. CASE j # i
    <3>1. pending'[j] = pending[j] /\ inFlight'[j] = inFlight[j]
      BY <2>2 DEF TypeOK
    <3>2. Content(j) \intersect Content(i) = {}
      BY <2>2 DEF Places, OnePlaceEach
    <3> QED BY <3>1, <3>2 DEF Places, OnePlaceEach, Content
  <2> QED BY <2>1, <2>2
<1>4. G \in SUBSET Messages /\ \A m \in G : fate[m] = "live" /\ fate'[m] \notin {"live", "sent"}
  BY <1>1, <1>2
<1>5. \A m \in Messages \ G : fate'[m] = fate[m] /\ entry'[m].home = entry[m].home
  OBVIOUS
<1>6. Joins(o) => Joins(op[t]) /\ o.msg = op[t].msg /\ o.name = op[t].name
  OBVIOUS
<1>7. \A k \in DOMAIN o.out : o.out[k].response => fate'[o.out[k].msg] \in OverByPush
  OBVIOUS
<1> HIDE DEF TypeInv
<1> QED BY <1>3, <1>4, <1>5, <1>6, <1>7, PlacesKept, ZenonT(60)

\* The same when the queues keep what they hold.
LEMMA PlacesSame ==
  ASSUME TypeInv, NEW t \in Threads, NEW o, op' = [op EXCEPT ![t] = o],
         UNCHANGED << pending, inFlight, fate >>,
         \A m \in Messages : entry'[m].home = entry[m].home,
         Joins(o) => Joins(op[t]) /\ o.msg = op[t].msg /\ o.name = op[t].name,
         \A k \in DOMAIN o.out : o.out[k].response => fate[o.out[k].msg] \in OverByPush
  PROVE  Places'
<1> USE DEF TypeInv
<1> DEFINE G == {}
<1>1. \A i \in Instances : /\ IsInjective(pending'[i])
                           /\ ToSet(pending'[i]) \intersect inFlight'[i] = {}
                           /\ ToSet(pending'[i]) \union inFlight'[i] \subseteq Content(i) \ G
  BY DEF Places, OnePlaceEach, Content
<1>2. G \in SUBSET Messages
  OBVIOUS
<1> QED BY <1>1, <1>2, PlacesKept

\* The call of one thread goes on to o.
LEMMA CallGoesOn ==
  ASSUME TypeInv, NEW t \in Threads, NEW o, op' = [op EXCEPT ![t] = o], o \in Ops, Fits(t, o)
  PROVE  op' \in [Threads -> Ops] /\ CallsFit'
  BY DEF TypeInv, TypeOK, CallsFit

-----------------------------------------------------------------------------
(* What calls are made of *)

\* Settings that are looked up are settings.
LEMMA ResolveType ==
  ASSUME TypeOK, NEW n \in Names
  PROVE  Resolve(n) \in Settings
  BY ValuesAssumption DEF TypeOK, Resolve

\* A call that is over fits, and joins nothing.
LEMMA IdleFits ==
  ASSUME NEW t
  PROVE  Idle \in Ops /\ Fits(t, Idle) /\ ~Joins(Idle) /\ Idle.out = <<>>
<1>1. <<>> \in Seq(Names) /\ <<>> \in Seq(Handed)
  OBVIOUS
<1> QED BY <1>1, ValuesAssumption DEF Idle, Ops, Steps, Calls, Fits, Joins, InQueue, ByConsumers

\* GetOrAddQueue and TryGetValue leave the call with a queue, or on its way to one, or over.
LEMMA GetOrAddFits ==
  ASSUME TypeInv, NEW t, NEW kind \in Calls, NEW n \in Names, NEW m \in Messages \union {None},
         kind = "publish" => m \in Messages, kind = "bind" => t \in Consumers,
         kind \in {"publish", "bind", "take"}
  PROVE  /\ GetOrAdd(kind, n, m) \in Ops
         /\ Fits(t, GetOrAdd(kind, n, m))
         /\ GetOrAdd(kind, n, m).out = <<>>
         /\ GetOrAdd(kind, n, m).kind = kind
         /\ GetOrAdd(kind, n, m).msg = m
         /\ GetOrAdd(kind, n, m).name = n
<1> DEFINE o == GetOrAdd(kind, n, m)
<1>1. registry[n] \in Instances \union {None}
  BY DEF TypeInv, TypeOK
<1>2. /\ o.kind = kind /\ o.name = n /\ o.msg = m /\ o.inst = registry[n] /\ o.out = <<>>
      /\ o.pc = IF registry[n] = None THEN "resolve" ELSE "gate"
  BY DEF GetOrAdd, Idle
<1>3. o \in Ops
  BY <1>1, IdleFits DEF GetOrAdd, Idle, Ops, Steps
<1> HIDE DEF o
<1>4. Fits(t, o)
  BY <1>1, <1>2 DEF Fits, Joins, InQueue, ByConsumers
<1> QED BY <1>2, <1>3, <1>4 DEF o

\* TryGetValue leaves the call in the lock of a queue, or over.
LEMMA TryGetFits ==
  ASSUME TypeInv, NEW t, NEW kind \in Calls, NEW n \in Names, NEW m \in Messages \union {None},
         kind \in { "respondLate", "collect", "confirm", "respond", "await", "abandon" } => m \in Messages,
         kind \in { "unbind", "confirm", "respond", "await", "abandon" } => t \in Consumers,
         kind \notin {"publish", "bind", "free", "disconnect"}
  PROVE  /\ TryGet(kind, n, m) \in Ops
         /\ Fits(t, TryGet(kind, n, m))
         /\ TryGet(kind, n, m).out = <<>>
         /\ ~Joins(TryGet(kind, n, m))
<1> DEFINE o == TryGet(kind, n, m)
<1>1. CASE registry[n] = None
  BY <1>1, IdleFits DEF TryGet
<1>2. CASE registry[n] # None
  <2>1. registry[n] \in Instances
    BY <1>2 DEF TypeInv, TypeOK
  <2>2. /\ o.kind = kind /\ o.name = n /\ o.msg = m /\ o.inst = registry[n] /\ o.out = <<>>
        /\ o.pc = "gate"
    BY <1>2 DEF TryGet, Idle
  <2>3. o \in Ops
    BY <1>2, <2>1, IdleFits DEF TryGet, Idle, Ops, Steps
  <2> HIDE DEF o
  <2>4. Fits(t, o) /\ ~Joins(o)
    BY <2>1, <2>2 DEF Fits, Joins, InQueue, ByConsumers
  <2> QED BY <2>2, <2>3, <2>4 DEF o
<1> QED BY <1>1, <1>2

\* A step that moves nothing but the call of its thread, and perhaps a lock.
LEMMA OnlyTheCall ==
  ASSUME TypeInv, NEW t \in Threads, NEW o, op' = [op EXCEPT ![t] = o],
         o \in Ops, Fits(t, o),
         Joins(o) => Joins(op[t]) /\ o.msg = op[t].msg /\ o.name = op[t].name,
         o.out = <<>> \/ o.out = op[t].out,
         UNCHANGED << bodyVars, stableVars >>,
         gate' \in [Instances -> Threads \union {None}]
  PROVE  TypeInv'
<1>1. TypeOK /\ CallsFit /\ Places
  BY DEF TypeInv
<1>2. UNCHANGED << pending, inFlight, fate, entry >>
  BY DEF bodyVars, messageVars
<1>3. \A k \in DOMAIN o.out : o.out[k].response => fate[o.out[k].msg] \in OverByPush
  BY <1>1 DEF Places, AnswersOver
<1>4. Places'
  BY <1>2, <1>3, PlacesSame
<1>5. op' \in [Threads -> Ops] /\ CallsFit'
  BY CallGoesOn
<1>6. TypeOK'
  BY <1>1, <1>5 DEF TypeOK, bodyVars, messageVars, stableVars
<1> QED BY <1>4, <1>5, <1>6 DEF TypeInv

-----------------------------------------------------------------------------
(* The steps that are of that kind *)

\* What is known of the call a thread is in.
LEMMA CallType ==
  ASSUME TypeInv, NEW t \in Threads
  PROVE  /\ op \in [Threads -> Ops]
         /\ op[t] \in Ops
         /\ op[t].pc \in Steps /\ op[t].kind \in Calls
         /\ op[t].name \in Names \union {None}
         /\ op[t].msg \in Messages \union {None}
         /\ op[t].inst \in Instances \union {None}
         /\ op[t].todo \in Seq(Names) /\ op[t].out \in Seq(Handed)
         /\ op[t].scan \in Nat /\ op[t].arg \in Settings
         /\ Fits(t, op[t])
         /\ gate \in [Instances -> Threads \union {None}]
  BY DEF TypeInv, TypeOK, CallsFit, Ops

\* Records of a call, a field or a few changed.
LEMMA OpGoes ==
  ASSUME NEW r \in Ops, NEW p \in Steps
  PROVE  [r EXCEPT !.pc = p] \in Ops
  BY DEF Ops

\* The same with the settings that apply to a name.
LEMMA OpResolves ==
  ASSUME NEW r \in Ops, NEW p \in Steps, NEW s \in Settings
  PROVE  [r EXCEPT !.arg = s, !.pc = p] \in Ops
  BY DEF Ops

\* The same for the place in a loop.
LEMMA OpCounts ==
  ASSUME NEW r \in Ops, NEW p \in Steps, NEW k \in Nat
  PROVE  [r EXCEPT !.scan = k] \in Ops /\ [r EXCEPT !.pc = p, !.scan = k] \in Ops
  BY DEF Ops

\* The same for the next name of a list.
LEMMA OpWalks ==
  ASSUME NEW r \in Ops, NEW p \in Steps, NEW q \in Seq(Names), NEW i \in Instances \union {None}
  PROVE  /\ [r EXCEPT !.todo = q, !.inst = i, !.pc = p] \in Ops
         /\ \A n \in Names : [r EXCEPT !.todo = q, !.name = n, !.inst = i, !.pc = p] \in Ops
  BY DEF Ops

\* The same for a call that starts with a list of names.
LEMMA OpStarts ==
  ASSUME NEW p \in Steps, NEW k \in Calls, NEW q \in Seq(Names)
  PROVE  [Idle EXCEPT !.pc = p, !.kind = k, !.todo = q] \in Ops
  BY IdleFits DEF Ops

\* The queues of a consumer, wherever the round starts.
LEMMA RotatedFits ==
  ASSUME TypeOK, NEW c \in Consumers
  PROVE  Rotated(c) \in Seq(Names)
<1> DEFINE all == queues[c]
           I == { i \in 1 .. Len(all) : all[i] = lastQueue[c] }
           start == IF I # {} THEN Min(I) ELSE 0
<1>1. all \in Seq(Names)
  BY DEF TypeOK
<1>2. Rotated(c) = SubSeq(all, start + 1, Len(all)) \o SubSeq(all, 1, start)
  BY DEF Rotated, SelectInSeq
<1>3. start \in 0 .. Len(all)
  <2>1. I \in SUBSET Nat
    BY <1>1
  <2>2. CASE I # {}
    <3>1. Min(I) \in I
      BY <2>1, <2>2, LeastOf
    <3> QED BY <3>1, <2>2, <1>1
  <2>3. CASE I = {}
    BY <2>3, <1>1
  <2> QED BY <2>2, <2>3
<1> HIDE DEF all, start
<1>4. SubSeq(all, start + 1, Len(all)) \in Seq(Names) /\ SubSeq(all, 1, start) \in Seq(Names)
  BY <1>1, <1>3, SubSeqProperties
<1> QED BY <1>2, <1>4, ConcatProperties

\* The queue is looked up, and its settings are read before it is made.
LEMMA LookingUp ==
  ASSUME TypeInv, NEW t \in Threads, Lookup(t)
  PROVE  TypeInv'
<1> DEFINE kind == op[t].kind
           n == op[t].name
           m == op[t].msg
           o == GetOrAdd(kind, n, m)
<1>1. op' = [op EXCEPT ![t] = o] /\ UNCHANGED << bodyVars, stableVars, gate >> /\ op[t].pc = "lookup"
  BY DEF Lookup
<1>2. /\ n \in Names /\ kind \in Calls /\ kind \in {"publish", "bind", "take"}
      /\ m \in Messages \union {None} /\ gate \in [Instances -> Threads \union {None}]
      /\ kind = "publish" => m \in Messages /\ Joins(op[t])
      /\ kind = "bind" => t \in Consumers
  BY <1>1, CallType DEF Fits, Joins, ByConsumers
<1> HIDE DEF kind, n, m
<1>3. o \in Ops
  BY <1>2, GetOrAddFits
<1>4. Fits(t, o)
  BY <1>2, GetOrAddFits
<1>5. o.out = <<>> /\ o.kind = kind /\ o.msg = m /\ o.name = n
  BY <1>2, GetOrAddFits
<1>6. Joins(o) => Joins(op[t]) /\ o.msg = op[t].msg /\ o.name = op[t].name
  BY <1>2, <1>5 DEF Joins, kind, n, m
<1> HIDE DEF o
<1> QED BY <1>1, <1>2, <1>3, <1>4, <1>5, <1>6, OnlyTheCall

\* The settings a new queue will have are resolved by name.
LEMMA ReadingSettings ==
  ASSUME TypeInv, NEW t \in Threads, ReadSettings(t)
  PROVE  TypeInv'
<1> USE CallType
<1> DEFINE o == [op[t] EXCEPT !.arg = Resolve(op[t].name), !.pc = "add"]
<1>1. op' = [op EXCEPT ![t] = o] /\ UNCHANGED << bodyVars, stableVars, gate >> /\ op[t].pc = "resolve"
  BY DEF ReadSettings
<1>2. Resolve(op[t].name) \in Settings
  BY <1>1, ResolveType DEF Fits, TypeInv
<1>3. o \in Ops
  <2>1. "add" \in Steps /\ op[t] \in Ops
    BY DEF Steps
  <2> QED BY <1>2, <2>1, OpResolves
<1>4. Fits(t, o) /\ o.out = op[t].out
  BY <1>1, <1>2 DEF Fits, Joins, InQueue, ByConsumers
<1>5. Joins(o) => Joins(op[t]) /\ o.msg = op[t].msg /\ o.name = op[t].name
  BY <1>1 DEF Joins
<1> HIDE DEF o
<1> QED BY <1>1, <1>3, <1>4, <1>5, OnlyTheCall

\* The loop of Dispatch goes on.
LEMMA DispatchGoesOn ==
  ASSUME TypeInv, NEW t \in Threads, DispatchFinds(t) \/ ScanBusy(t) \/ DispatchLocked(t)
  PROVE  TypeInv'
<1> USE CallType
<1>1. CASE DispatchFinds(t)
  <2> DEFINE o == [op[t] EXCEPT !.pc = "scan", !.scan = 0]
  <2>1. /\ op' = [op EXCEPT ![t] = o]
        /\ UNCHANGED << bodyVars, stableVars >>
        /\ gate' \in [Instances -> Threads \union {None}]
        /\ op[t].pc \in {"dispatch", "look"}
    BY <1>1 DEF DispatchFinds, Looking
  <2>2. o \in Ops
    BY <2>1, OpGoes, OpCounts DEF Steps
  <2>3. Fits(t, o) /\ o.out = op[t].out /\ ~Joins(o)
    BY <2>1, <2>2 DEF Fits, Joins, InQueue, ByConsumers
  <2> HIDE DEF o
  <2> QED BY <2>1, <2>2, <2>3, OnlyTheCall
<1>2. CASE ScanBusy(t)
  <2> DEFINE o == [op[t] EXCEPT !.scan = @ + 1]
  <2>1. /\ op' = [op EXCEPT ![t] = o]
        /\ UNCHANGED << bodyVars, stableVars >>
        /\ gate' \in [Instances -> Threads \union {None}]
        /\ op[t].pc = "scan"
    BY <1>2 DEF ScanBusy
  <2>2. op[t].scan + 1 \in Nat
    BY CallType
  <2>3. o \in Ops
    BY <2>1, <2>2, OpGoes, OpCounts DEF Steps
  <2>4. Fits(t, o) /\ o.out = op[t].out /\ ~Joins(o)
    BY <2>1, <2>2, <2>3 DEF Fits, Joins, InQueue, ByConsumers
  <2> HIDE DEF o
  <2> QED BY <2>1, <2>2, <2>3, <2>4, OnlyTheCall
<1>3. CASE DispatchLocked(t)
  <2> DEFINE o == [op[t] EXCEPT !.pc = "dispatch"]
  <2>1. /\ op' = [op EXCEPT ![t] = o]
        /\ UNCHANGED << bodyVars, stableVars >>
        /\ gate' \in [Instances -> Threads \union {None}]
        /\ op[t].pc = "gate"
    BY <1>3 DEF DispatchLocked, Enter, Goto, At
  <2>2. o \in Ops
    BY <2>1, OpGoes, OpCounts DEF Steps
  <2>3. Fits(t, o) /\ o.out = op[t].out /\ ~Joins(o)
    BY <2>1, <2>2 DEF Fits, Joins, InQueue, ByConsumers
  <2> HIDE DEF o
  <2> QED BY <2>1, <2>2, <2>3, OnlyTheCall
<1> QED BY <1>1, <1>2, <1>3

\* What was decided has been handed over: the call is over, or frees its consumer.
LEMMA HandingDone ==
  ASSUME TypeInv, NEW t \in Threads, HandDone(t)
  PROVE  TypeInv'
<1> USE CallType
<1> DEFINE o == CASE op[t].kind = "respond" -> [op[t] EXCEPT !.pc = "release"]
                  [] op[t].kind = "abandon" -> [Idle EXCEPT !.pc = "complete"]
                  [] OTHER -> Idle
<1>1. /\ op' = [op EXCEPT ![t] = o]
      /\ UNCHANGED << bodyVars, stableVars, gate >>
      /\ op[t].out = <<>> /\ op[t].pc = "hand"
  BY DEF HandDone
<1>2. CASE op[t].kind = "respond"
  <2>1. o = [op[t] EXCEPT !.pc = "release"]
    BY <1>2
  <2>2. [op[t] EXCEPT !.pc = "release"] \in Ops
    BY OpGoes DEF Steps
  <2>3. t \in Consumers /\ o.pc = "release" /\ o.kind = "respond" /\ o.out = <<>>
    BY <1>1, <1>2, <2>1 DEF Fits, ByConsumers, Ops
  <2>4. Fits(t, o) /\ ~Joins(o)
    BY <2>3 DEF Fits, Joins, InQueue, ByConsumers
  <2> HIDE DEF o
  <2> QED BY <1>1, <2>1, <2>2, <2>3, <2>4, OnlyTheCall
<1>3. CASE op[t].kind = "abandon"
  <2>1. o = [Idle EXCEPT !.pc = "complete"]
    BY <1>3
  <2>2. o \in Ops
    <3>1. "complete" \in Steps /\ Idle \in Ops
      BY IdleFits DEF Steps
    <3> QED BY <2>1, <3>1, OpGoes
  <2>3. t \in Consumers
    BY <1>3 DEF Fits, ByConsumers
  <2>4. Fits(t, o) /\ ~Joins(o) /\ o.out = <<>>
    BY <2>1, <2>3 DEF Fits, Joins, InQueue, ByConsumers, Idle
  <2> HIDE DEF o
  <2> QED BY <1>1, <2>2, <2>4, OnlyTheCall
<1>4. CASE op[t].kind \notin {"respond", "abandon"}
  <2>1. o = Idle
    BY <1>4
  <2> HIDE DEF o
  <2> QED BY <1>1, <2>1, IdleFits, OnlyTheCall
<1> QED BY <1>2, <1>3, <1>4

\* A connection goes over its queues, to be served by them or to leave them.
LEMMA Walking ==
  ASSUME TypeInv, NEW t \in Threads, Rotate(t) \/ FreeNext(t) \/ FreeEnds(t) \/ LeaveNext(t)
  PROVE  TypeInv'
<1> USE CallType
<1>1. CASE Rotate(t)
  <2> DEFINE o == [Idle EXCEPT !.pc = "freeing", !.kind = "free", !.todo = Rotated(t)]
  <2>1. /\ op' = [op EXCEPT ![t] = o]
        /\ UNCHANGED << bodyVars, stableVars >>
        /\ gate' \in [Instances -> Threads \union {None}]
        /\ op[t].pc = "rotate"
    BY <1>1 DEF Rotate
  <2>2. t \in Consumers
    BY <2>1 DEF Fits, ByConsumers
  <2>3. Rotated(t) \in Seq(Names)
    BY <2>2, RotatedFits DEF TypeInv
  <2>4. Idle \in Ops /\ Idle.out = <<>> /\ "free" \in Calls
    BY IdleFits DEF Calls
  <2>5. o \in Ops
    BY <2>1, <2>2, <2>3, <2>4, OpStarts DEF Steps
  <2>6. Fits(t, o) /\ o.out = <<>> /\ ~Joins(o)
    BY <2>1, <2>2, <2>3, <2>4, <2>5 DEF Fits, Joins, InQueue, ByConsumers, Idle
  <2> HIDE DEF o
  <2> QED BY <2>1, <2>2, <2>3, <2>4, <2>5, <2>6, OnlyTheCall
<1>2. CASE FreeNext(t)
  <2> DEFINE o == [op[t] EXCEPT !.todo = Tail(@), !.inst = registry[Head(op[t].todo)],
                 !.pc = IF registry[Head(op[t].todo)] = None THEN "freeing" ELSE "gate"]
  <2>1. /\ op' = [op EXCEPT ![t] = o]
        /\ UNCHANGED << bodyVars, stableVars >>
        /\ gate' \in [Instances -> Threads \union {None}]
        /\ op[t].pc = "freeing"
        /\ op[t].todo # <<>>
    BY <1>2 DEF FreeNext
  <2>2. Head(op[t].todo) \in Names /\ Tail(op[t].todo) \in Seq(Names)
    BY <2>1, HeadTailProperties
  <2>3. registry[Head(op[t].todo)] \in Instances \union {None}
    BY <2>2 DEF TypeInv, TypeOK
  <2>4. t \in Consumers
    BY <2>1 DEF Fits, ByConsumers
  <2>5. op[t].kind = "free"
    BY <2>1 DEF Fits
  <2>6. o \in Ops
    BY <2>1, <2>2, <2>3, <2>4, <2>5, OpWalks DEF Steps
  <2>7. Fits(t, o) /\ o.out = op[t].out /\ ~Joins(o)
    BY <2>1, <2>2, <2>3, <2>4, <2>5, <2>6 DEF Fits, Joins, InQueue, ByConsumers
  <2> HIDE DEF o
  <2> QED BY <2>1, <2>2, <2>3, <2>4, <2>5, <2>6, <2>7, OnlyTheCall
<1>3. CASE FreeEnds(t)
  <2> DEFINE o == [op[t] EXCEPT !.pc = "hand"]
  <2>1. /\ op' = [op EXCEPT ![t] = o]
        /\ UNCHANGED << bodyVars, stableVars >>
        /\ gate' \in [Instances -> Threads \union {None}]
        /\ op[t].pc = "freeing"
    BY <1>3 DEF FreeEnds, Goto
  <2>2. o \in Ops
    BY <2>1, OpGoes, OpCounts DEF Steps
  <2>3. Fits(t, o) /\ o.out = op[t].out /\ ~Joins(o)
    BY <2>1, <2>2 DEF Fits, Joins, InQueue, ByConsumers
  <2> HIDE DEF o
  <2> QED BY <2>1, <2>2, <2>3, OnlyTheCall
<1>4. CASE LeaveNext(t)
  <2> DEFINE o == [op[t] EXCEPT !.todo = Tail(@), !.inst = registry[Head(op[t].todo)],
                 !.pc = IF registry[Head(op[t].todo)] = None THEN "leaving" ELSE "gate"]
  <2>1. /\ op' = [op EXCEPT ![t] = o]
        /\ UNCHANGED << bodyVars, stableVars >>
        /\ gate' \in [Instances -> Threads \union {None}]
        /\ op[t].pc = "leaving"
        /\ op[t].todo # <<>>
    BY <1>4 DEF LeaveNext
  <2>2. Head(op[t].todo) \in Names /\ Tail(op[t].todo) \in Seq(Names)
    BY <2>1, HeadTailProperties
  <2>3. registry[Head(op[t].todo)] \in Instances \union {None}
    BY <2>2 DEF TypeInv, TypeOK
  <2>4. t \in Consumers
    BY <2>1 DEF Fits, ByConsumers
  <2>5. op[t].kind = "disconnect"
    BY <2>1 DEF Fits
  <2>6. o \in Ops
    BY <2>1, <2>2, <2>3, <2>4, <2>5, OpWalks DEF Steps
  <2>7. Fits(t, o) /\ o.out = op[t].out /\ ~Joins(o)
    BY <2>1, <2>2, <2>3, <2>4, <2>5, <2>6 DEF Fits, Joins, InQueue, ByConsumers
  <2> HIDE DEF o
  <2> QED BY <2>1, <2>2, <2>3, <2>4, <2>5, <2>6, <2>7, OnlyTheCall
<1> QED BY <1>1, <1>2, <1>3, <1>4

\* Current is read when the connection has left its queues.
LEMMA Leaving ==
  ASSUME TypeInv, NEW t \in Threads, LeaveLast(t)
  PROVE  TypeInv'
<1> USE CallType
<1> DEFINE held == current[t]
<1>1. /\ op' = [op EXCEPT ![t] = IF held # None /\ registry[held.home] # None
                                 THEN TryGet("abandon", held.home, held.msg)
                                 ELSE [Idle EXCEPT !.pc = "complete"]]
      /\ UNCHANGED << bodyVars, stableVars, gate >>
      /\ op[t].pc = "leaving"
  BY DEF LeaveLast
<1>2. t \in Consumers
  BY <1>1 DEF Fits, ByConsumers
<1>3. CASE held # None /\ registry[held.home] # None
  <2> DEFINE o == TryGet("abandon", held.home, held.msg)
  <2>1. op' = [op EXCEPT ![t] = o]
    BY <1>1, <1>3
  <2>2. held.home \in Names /\ held.msg \in Messages
    BY <1>2, <1>3 DEF TypeInv, TypeOK
  <2>3. o \in Ops /\ Fits(t, o) /\ ~Joins(o) /\ o.out = <<>>
    BY <1>2, <2>2, TryGetFits DEF Calls
  <2> HIDE DEF o
  <2> QED BY <1>1, <2>1, <2>3, OnlyTheCall
<1>4. CASE ~(held # None /\ registry[held.home] # None)
  <2> DEFINE o == [Idle EXCEPT !.pc = "complete"]
  <2>1. op' = [op EXCEPT ![t] = o]
    BY <1>1, <1>4
  <2>2. o \in Ops
    BY IdleFits DEF Ops, Steps
  <2>3. Fits(t, o) /\ ~Joins(o) /\ o.out = <<>>
    BY <1>2 DEF Fits, Joins, InQueue, ByConsumers, Idle
  <2> HIDE DEF o
  <2> QED BY <1>1, <2>1, <2>2, <2>3, OnlyTheCall
<1> QED BY <1>3, <1>4

\* A call that only looks a queue up.
LEMMA Asking ==
  ASSUME TypeInv, NEW t \in Threads, NEW kind \in Calls, NEW n \in Names,
         NEW m \in Messages \union {None},
         op' = [op EXCEPT ![t] = TryGet(kind, n, m)],
         UNCHANGED << bodyVars, stableVars, gate >>,
         kind \in {"respondLate", "collect", "await"} => m \in Messages,
         kind = "await" => t \in Consumers,
         kind \in {"take", "respondLate", "collect", "await", "purge"}
  PROVE  TypeInv'
<1> USE CallType
<1> DEFINE o == TryGet(kind, n, m)
<1>1. o \in Ops /\ Fits(t, o) /\ ~Joins(o) /\ o.out = <<>>
  BY TryGetFits
<1> HIDE DEF o
<1> QED BY <1>1, OnlyTheCall DEF o

\* A live message knows the name of its queue.
LEMMA HomeOfLive ==
  ASSUME TypeInv, NEW m \in Messages, fate[m] = "live"
  PROVE  entry[m].home \in Names
  BY DEF TypeInv, Places, OnePlaceEach

\* Take looks its queue up, or makes it exist.
LEMMA TakeAsks ==
  ASSUME TypeInv, NEW t \in Callers, NEW n \in Names, NEW keep \in BOOLEAN, Take(t, n, keep)
  PROVE  TypeInv'
<1> USE CallType DEF Threads
<1>1. UNCHANGED << bodyVars, stableVars, gate >>
  BY DEF Take
<1>2. CASE keep
  <2> DEFINE o == GetOrAdd("take", n, None)
  <2>1. op' = [op EXCEPT ![t] = o]
    BY <1>2 DEF Take
  <2>2. "take" \in Calls /\ None \in Messages \union {None}
    BY DEF Calls
  <2>3. o \in Ops /\ Fits(t, o) /\ o.out = <<>> /\ o.kind = "take"
    <3>1. o \in Ops
      BY <2>2, GetOrAddFits
    <3>2. Fits(t, o)
      BY <2>2, GetOrAddFits
    <3>3. o.out = <<>> /\ o.kind = "take"
      BY DEF GetOrAdd, Idle
    <3> QED BY <3>1, <3>2, <3>3
  <2>4. ~Joins(o)
    BY <2>3 DEF Joins
  <2> HIDE DEF o
  <2> QED BY <1>1, <2>1, <2>3, <2>4, OnlyTheCall
<1>3. CASE ~keep
  <2>1. op' = [op EXCEPT ![t] = TryGet("take", n, None)]
    BY <1>3 DEF Take
  <2> QED BY <1>1, <2>1, Asking DEF Calls
<1> QED BY <1>2, <1>3

\* Purge looks its queue up.
LEMMA PurgeAsks ==
  ASSUME TypeInv, NEW t \in Callers, NEW n \in Names, Purge(t, n)
  PROVE  TypeInv'
  BY Asking DEF Purge, Threads, Calls

\* Requests that name a live message.
LEMMA MessageAsked ==
  ASSUME TypeInv, NEW t \in Threads, NEW m \in Messages,
         \/ t \in Callers /\ (RespondLate(t, m) \/ Collect(t, m))
         \/ t \in Consumers /\ Await(t, m)
  PROVE  TypeInv'
<1> USE DEF Calls
<1>1. entry[m].home \in Names
  BY HomeOfLive DEF RespondLate, Collect, Await
<1>2. CASE RespondLate(t, m)
  BY <1>1, <1>2, Asking DEF RespondLate
<1>3. CASE Collect(t, m)
  BY <1>1, <1>3, Asking DEF Collect
<1>4. CASE t \in Consumers /\ Await(t, m)
  BY <1>1, <1>4, Asking DEF Await
<1> QED BY <1>2, <1>3, <1>4

\* An administrator goes on with the settings; the sweeper with its list.
LEMMA Administering ==
  ASSUME TypeInv, NEW t \in Threads, Reread(t) \/ SweepNext(t) \/ SweepEnters(t) \/ SweepSkips(t)
  PROVE  TypeInv'
<1> USE CallType
<1>1. CASE Reread(t)
  <2> DEFINE o == [op[t] EXCEPT !.arg = Resolve(op[t].name), !.pc = "assign"]
  <2>1. /\ op' = [op EXCEPT ![t] = o]
        /\ UNCHANGED << bodyVars, stableVars >>
        /\ gate' \in [Instances -> Threads \union {None}]
        /\ op[t].pc = "reread"
    BY <1>1 DEF Reread
  <2>2. Resolve(op[t].name) \in Settings
    BY <2>1, ResolveType DEF Fits, TypeInv
  <2>3. o \in Ops
    <3>1. "assign" \in Steps /\ op[t] \in Ops
      BY DEF Steps
    <3> QED BY <2>2, <3>1, OpResolves
  <2>4. Fits(t, o) /\ o.out = op[t].out /\ ~Joins(o)
    BY <2>1, <2>2, <2>3 DEF Fits, Joins, InQueue, ByConsumers
  <2> HIDE DEF o
  <2> QED BY <2>1, <2>2, <2>3, <2>4, OnlyTheCall
<1>2. CASE SweepNext(t)
  <2> DEFINE o == [op[t] EXCEPT !.todo = Tail(@), !.name = Head(op[t].todo), !.inst = registry[Head(op[t].todo)],
                 !.pc = IF registry[Head(op[t].todo)] = None THEN "sweep" ELSE "gate"]
  <2>1. /\ op' = [op EXCEPT ![t] = o]
        /\ UNCHANGED << bodyVars, stableVars >>
        /\ gate' \in [Instances -> Threads \union {None}]
        /\ op[t].pc = "sweep"
        /\ op[t].todo # <<>>
    BY <1>2 DEF SweepNext
  <2>2. Head(op[t].todo) \in Names /\ Tail(op[t].todo) \in Seq(Names)
    BY <2>1, HeadTailProperties
  <2>3. registry[Head(op[t].todo)] \in Instances \union {None}
    BY <2>2 DEF TypeInv, TypeOK
  <2>4. op[t].kind = "sweep"
    BY <2>1 DEF Fits
  <2>5. o \in Ops
    BY <2>1, <2>2, <2>3, <2>4, OpWalks DEF Steps
  <2>6. Fits(t, o) /\ o.out = op[t].out /\ ~Joins(o)
    BY <2>1, <2>2, <2>3, <2>4, <2>5 DEF Fits, Joins, InQueue, ByConsumers
  <2> HIDE DEF o
  <2> QED BY <2>1, <2>2, <2>3, <2>4, <2>5, <2>6, OnlyTheCall
<1>3. CASE SweepEnters(t)
  <2> DEFINE o == [op[t] EXCEPT !.pc = "sweeping", !.scan = 1]
  <2>1. /\ op' = [op EXCEPT ![t] = o]
        /\ UNCHANGED << bodyVars, stableVars >>
        /\ gate' \in [Instances -> Threads \union {None}]
        /\ op[t].pc = "gate"
        /\ op[t].kind = "sweep"
    BY <1>3 DEF SweepEnters, Enter, At
  <2>2. o \in Ops
    BY <2>1, OpGoes, OpCounts DEF Steps
  <2>3. Fits(t, o) /\ o.out = op[t].out /\ ~Joins(o)
    BY <2>1, <2>2 DEF Fits, Joins, InQueue, ByConsumers
  <2> HIDE DEF o
  <2> QED BY <2>1, <2>2, <2>3, OnlyTheCall
<1>4. CASE SweepSkips(t)
  <2> DEFINE o == [op[t] EXCEPT !.scan = @ + 1]
  <2>1. /\ op' = [op EXCEPT ![t] = o]
        /\ UNCHANGED << bodyVars, stableVars >>
        /\ gate' \in [Instances -> Threads \union {None}]
        /\ op[t].pc = "sweeping"
    BY <1>4 DEF SweepSkips
  <2>2. op[t].scan + 1 \in Nat
    BY CallType
  <2>3. o \in Ops
    BY <2>1, <2>2, OpGoes, OpCounts DEF Steps
  <2>4. Fits(t, o) /\ o.out = op[t].out /\ ~Joins(o)
    BY <2>1, <2>2, <2>3 DEF Fits, Joins, InQueue, ByConsumers
  <2> HIDE DEF o
  <2> QED BY <2>1, <2>2, <2>3, <2>4, OnlyTheCall
<1> QED BY <1>1, <1>2, <1>3, <1>4
-----------------------------------------------------------------------------
(* Steps that change what a method of a queue changes, and those that do not *)

BodyTypes ==
  /\ pending \in [Instances -> Seq(Messages)]
  /\ inFlight \in [Instances -> SUBSET Messages]
  /\ bound \in [Instances -> Seq(Consumers)]
  /\ nextConsumer \in [Instances -> Nat]
  /\ \A i \in Instances : nextConsumer[i] = 0 \/ nextConsumer[i] < Len(bound[i])
  /\ emptySince \in [Instances -> Nat \union {Never}]
  /\ entry \in [Messages -> Entries]
  /\ fate \in [Messages -> Fates]
  /\ dead \in [Names -> Seq(Letters)]
  /\ cstate \in [Consumers -> {"free", "busy", "closed"}]
  /\ lastQueue \in [Consumers -> Names \union {None}]
  /\ current \in [Consumers -> [home : Names, msg : Messages] \union {None}]

GateType == gate \in [Instances -> Threads \union {None}]

\* These are parts of the invariant.
LEMMA BodyTypesHold == ASSUME TypeInv PROVE BodyTypes /\ GateType
  BY DEF TypeInv, TypeOK, BodyTypes, GateType

\* A step of one call that changes what a method changes, and nothing else.
LEMMA BodyStep ==
  ASSUME TypeInv, NEW t \in Threads, NEW o, op' = [op EXCEPT ![t] = o], o \in Ops, Fits(t, o),
         BodyTypes', GateType', Places', UNCHANGED stableVars
  PROVE  TypeInv'
<1>1. op' \in [Threads -> Ops] /\ CallsFit'
  BY CallGoesOn
<1>2. TypeOK'
  BY <1>1 DEF TypeInv, TypeOK, BodyTypes, GateType, stableVars
<1> QED BY <1>1, <1>2 DEF TypeInv

\* A method that moves messages of its own queue or ends some, G.
LEMMA QueueStep ==
  ASSUME TypeInv, NEW t \in Threads, NEW o, op' = [op EXCEPT ![t] = o], o \in Ops, Fits(t, o),
         BodyTypes', GateType', UNCHANGED stableVars,
         ~Joins(o),
         \A k \in DOMAIN o.out : o.out[k].response => fate'[o.out[k].msg] \in OverByPush,
         NEW i \in Instances, NEW p, NEW f, NEW G \in SUBSET Content(i),
         pending' = [pending EXCEPT ![i] = p], inFlight' = [inFlight EXCEPT ![i] = f],
         IsInjective(p), ToSet(p) \intersect f = {}, ToSet(p) \union f \subseteq Content(i) \ G,
         \A m \in G : fate'[m] \notin {"live", "sent"},
         \A m \in Messages \ G : fate'[m] = fate[m] /\ entry'[m].home = entry[m].home
  PROVE  TypeInv'
<1>1. Places'
  BY PlacesOfOne
<1> QED BY <1>1, BodyStep

\* A call goes on while the messages stay where they are.
LEMMA CallMoves ==
  ASSUME TypeInv, NEW t \in Threads, NEW o, op' = [op EXCEPT ![t] = o], o \in Ops, Fits(t, o),
         Joins(o) => Joins(op[t]) /\ o.msg = op[t].msg /\ o.name = op[t].name,
         o.out = <<>> \/ o.out = op[t].out,
         UNCHANGED << pending, inFlight, fate >>,
         \A m \in Messages : entry'[m].home = entry[m].home
  PROVE  op' \in [Threads -> Ops] /\ CallsFit' /\ Places'
<1>1. \A k \in DOMAIN o.out : o.out[k].response => fate[o.out[k].msg] \in OverByPush
  BY DEF TypeInv, Places, AnswersOver
<1>2. Places'
  BY <1>1, PlacesSame
<1> QED BY <1>2, CallGoesOn

\* The same when it is a method that leaves the messages where they are.
LEMMA QuietStep ==
  ASSUME TypeInv, NEW t \in Threads, NEW o, op' = [op EXCEPT ![t] = o], o \in Ops, Fits(t, o),
         ~Joins(o), o.out = <<>> \/ o.out = op[t].out,
         BodyTypes', GateType', UNCHANGED << pending, inFlight, fate, stableVars >>,
         \A m \in Messages : entry'[m].home = entry[m].home
  PROVE  TypeInv'
<1>1. Places'
  BY CallMoves
<1> QED BY <1>1, BodyStep

\* The steps of the proofs below leave a call in one of these states.
LEMMA GoesOnTo ==
  ASSUME TypeInv, NEW t \in Threads, NEW p \in { "hand", "dispatch", "look", "release", "taking" },
         op[t].pc \in InQueue,
         p = "release" => t \in Consumers
  PROVE  LET o == [op[t] EXCEPT !.pc = p]
         IN  o \in Ops /\ Fits(t, o) /\ ~Joins(o) /\ o.out = op[t].out
<1> DEFINE o == [op[t] EXCEPT !.pc = p]
<1>1. o \in Ops
  BY CallType, OpGoes DEF Steps
<1>2. o.pc = p /\ o.kind = op[t].kind /\ o.inst = op[t].inst /\ o.out = op[t].out /\ op[t].inst \in Instances
  BY CallType DEF Fits, Ops
<1>3. ByConsumers(op[t]) => t \in Consumers
  BY CallType DEF Fits
<1> HIDE DEF o
<1>4. ByConsumers(o) => t \in Consumers
  BY <1>2, <1>3 DEF ByConsumers
<1>5. Fits(t, o) /\ ~Joins(o)
  BY <1>2, <1>4 DEF Fits, Joins, InQueue
<1> QED BY <1>1, <1>2, <1>5 DEF o

-----------------------------------------------------------------------------
(* What the methods make of a message and of its queue *)

\* A forgotten message has an entry of the type.
LEMMA BlankType == Blank \in Entries
  BY DEF Blank, Entries

\* TrackEmptiness.
LEMMA TrackType ==
  ASSUME BodyTypes, now \in Nat, NEW i, NEW line, NEW flight, TrackEmptiness(i, line, flight)
  PROVE  emptySince' \in [Instances -> Nat \union {Never}]
  BY DEF BodyTypes, TrackEmptiness

\* Bury: the letter fits the store, and the message is over.
LEMMA BuryType ==
  ASSUME TypeInv, NEW i \in Instances, NEW m \in Messages, NEW why \in Fates, Bury(i, m, why)
  PROVE  /\ dead' \in [Names -> Seq(Letters)]
         /\ entry' \in [Messages -> Entries]
         /\ fate' \in [Messages -> Fates]
         /\ fate'[m] = why
         /\ \A x \in Messages \ {m} : fate'[x] = fate[x] /\ entry'[x] = entry[x]
<1> DEFINE letter == [ msg |-> m, rpc |-> entry[m].rpc, why |-> why, diedAt |-> now ]
           after(l) == Added(l, letter, settings[i].limit, settings[i].maxAge)
<1>1. /\ dead' = [dead EXCEPT ![entry[m].home] = after(@)]
      /\ fate' = [fate EXCEPT ![m] = why]
      /\ entry' = [entry EXCEPT ![m] = Blank]
  BY DEF Bury, Becomes, Forget
<1>2. /\ dead \in [Names -> Seq(Letters)] /\ fate \in [Messages -> Fates]
      /\ entry \in [Messages -> Entries] /\ now \in Nat /\ settings[i] \in Settings
  BY DEF TypeInv, TypeOK
<1>3. letter \in Letters
  BY <1>2 DEF Letters, Entries
<1>4. settings[i].limit \in Nat /\ settings[i].maxAge \in Nat
  BY <1>2 DEF Settings
<1> HIDE DEF letter
<1>5. \A l \in Seq(Letters) : after(l) \in Seq(Letters)
  BY <1>3, <1>4, AddedType
<1> HIDE DEF after
<1>6. dead' \in [Names -> Seq(Letters)]
  BY <1>1, <1>2, <1>5
<1> QED BY <1>1, <1>2, <1>6, BlankType

\* A message that died in the line is over.
LEMMA DeathType == ASSUME NEW m PROVE DeathOf(m) \in Fates \ {"live", "sent"}
  BY DEF DeathOf, Fates

-----------------------------------------------------------------------------
(* Dispatch and Take, and the sweep of the line *)

\* A dead message of the line goes to the dead letters.
LEMMA BuriedStep ==
  ASSUME TypeInv, NEW t \in Threads, NEW o, op' = [op EXCEPT ![t] = o], o \in Ops, Fits(t, o),
         ~Joins(o), o.out = op[t].out,
         NEW i \in Instances, NEW m \in ToSet(pending[i]), BuryPending(i, m),
         UNCHANGED << inFlight, emptySince, bound, nextConsumer, cstate, lastQueue, current >>,
         UNCHANGED << gate, stableVars >>
  PROVE  TypeInv'
<1> DEFINE p == RemoveFirst(pending[i], m)
           G == {m}
<1>1. /\ BodyTypes /\ GateType /\ Places /\ pending[i] \in Seq(Messages) /\ inFlight[i] \subseteq Messages
      /\ now \in Nat
  BY BodyTypesHold DEF BodyTypes, TypeInv, TypeOK
<1>2. m \in Messages /\ G \in SUBSET Content(i) /\ fate[m] = "live" /\ IsInjective(pending[i])
      /\ ToSet(pending[i]) \intersect inFlight[i] = {}
  BY <1>1, LineElements DEF Places, OnePlaceEach, Content, ToSet
<1>3. p \in Seq(Messages) /\ ToSet(p) = ToSet(pending[i]) \ {m} /\ IsInjective(p)
  BY <1>1, <1>2, RemoveFirstElements
<1>4. pending' = [pending EXCEPT ![i] = p] /\ Bury(i, m, DeathOf(m)) /\ DeathOf(m) \in Fates \ {"live", "sent"}
  BY DeathType DEF BuryPending
<1>5. /\ dead' \in [Names -> Seq(Letters)]
      /\ entry' \in [Messages -> Entries]
      /\ fate' \in [Messages -> Fates]
      /\ fate'[m] = DeathOf(m)
      /\ \A x \in Messages \ {m} : fate'[x] = fate[x] /\ entry'[x] = entry[x]
  BY <1>2, <1>4, BuryType
<1> HIDE DEF p
<1>6. BodyTypes' /\ GateType'
  BY <1>1, <1>3, <1>4, <1>5 DEF BodyTypes, GateType
<1>7. \A k \in DOMAIN o.out : o.out[k].response => fate'[o.out[k].msg] \in OverByPush
  <2> SUFFICES ASSUME NEW k \in DOMAIN o.out, o.out[k].response
               PROVE  fate'[o.out[k].msg] \in OverByPush
    OBVIOUS
  <2>1. o.out \in Seq(Handed)
    BY DEF Ops
  <2>2. o.out[k].msg \in Messages
    BY <2>1, HandedElement
  <2>3. fate[o.out[k].msg] \in OverByPush
    BY <1>1 DEF Places, AnswersOver
  <2> QED BY <1>2, <1>5, <2>2, <2>3 DEF OverByPush
<1>8. /\ inFlight' = [inFlight EXCEPT ![i] = inFlight[i]]
      /\ ToSet(p) \intersect inFlight[i] = {}
      /\ ToSet(p) \union inFlight[i] \subseteq Content(i) \ G
  BY <1>1, <1>2, <1>3 DEF Content, BodyTypes
<1>9. /\ \A x \in G : fate'[x] \notin {"live", "sent"}
      /\ \A x \in Messages \ G : fate'[x] = fate[x] /\ entry'[x].home = entry[x].home
  BY <1>4, <1>5
<1> HIDE DEF G
<1> QED BY <1>2, <1>3, <1>4, <1>6, <1>7, <1>8, <1>9, QueueStep

\* Dispatch buries a dead head.
LEMMA DispatchBuriesType == ASSUME TypeInv, NEW t \in Threads, DispatchBuries(t) PROVE TypeInv'
<1> DEFINE i == op[t].inst
           m == Head(pending[i])
           o == [op[t] EXCEPT !.pc = "look"]
<1>1. /\ op[t].pc \in InQueue /\ pending[i] # <<>> /\ BuryPending(i, m)
      /\ UNCHANGED << inFlight, emptySince, bound, nextConsumer, cstate, lastQueue, current >>
      /\ UNCHANGED << gate, stableVars >>
      /\ op' = [op EXCEPT ![t] = o]
  BY CallType DEF DispatchBuries, Looking, BuryHead, Goto, InQueue
<1>2. i \in Instances
  BY <1>1, CallType DEF Fits
<1>3. m \in ToSet(pending[i])
  BY <1>1, <1>2, TailElements DEF TypeInv, TypeOK
<1>4. o \in Ops /\ Fits(t, o) /\ ~Joins(o) /\ o.out = op[t].out
  BY <1>1, GoesOnTo
<1> HIDE DEF i, m, o
<1> QED BY <1>1, <1>2, <1>3, <1>4, BuriedStep

\* Take buries a dead head.
LEMMA TakeBuriesType == ASSUME TypeInv, NEW t \in Threads, TakeBuries(t) PROVE TypeInv'
<1> DEFINE i == op[t].inst
           m == Head(pending[i])
           o == op[t]
<1>1. /\ op[t].pc = "taking" /\ pending[i] # <<>> /\ BuryPending(i, m)
      /\ UNCHANGED << inFlight, emptySince, bound, nextConsumer, cstate, lastQueue, current >>
      /\ UNCHANGED << gate, stableVars >>
      /\ op' = [op EXCEPT ![t] = o]
  BY CallType DEF TakeBuries, BuryHead
<1>2. i \in Instances /\ o \in Ops /\ Fits(t, o) /\ ~Joins(o)
  BY <1>1, CallType DEF Fits, InQueue, Joins
<1>3. m \in ToSet(pending[i])
  BY <1>1, <1>2, TailElements DEF TypeInv, TypeOK
<1> HIDE DEF i, m
<1> QED BY <1>1, <1>2, <1>3, BuriedStep

\* The sweep buries a dead message anywhere in the line.
LEMMA SweepBuriesType == ASSUME TypeInv, NEW t \in Threads, SweepBuries(t) PROVE TypeInv'
<1> DEFINE i == op[t].inst
           m == pending[i][op[t].scan]
           o == op[t]
<1>1. /\ op[t].pc = "sweeping" /\ op[t].scan <= Len(pending[i]) /\ BuryPending(i, m)
      /\ UNCHANGED << inFlight, emptySince, bound, nextConsumer, cstate, lastQueue, current >>
      /\ UNCHANGED << gate, stableVars >>
      /\ op' = [op EXCEPT ![t] = o]
  BY CallType DEF SweepBuries, SweepPending
<1>2. i \in Instances /\ o \in Ops /\ Fits(t, o) /\ ~Joins(o) /\ o.scan >= 1 /\ o.scan \in Nat
  BY <1>1, CallType DEF Fits, InQueue, Joins
<1>3. m \in ToSet(pending[i])
  <2>1. pending[i] \in Seq(Messages)
    BY <1>2 DEF TypeInv, TypeOK
  <2> QED BY <1>1, <1>2, <2>1 DEF ToSet
<1> HIDE DEF i, m
<1> QED BY <1>1, <1>2, <1>3, BuriedStep

\* The loop is over: the call hands over what it decided, or goes on to the next queue.
LEMMA FinishType ==
  ASSUME TypeInv, NEW t \in Threads, FinishDispatch(t), op[t].pc \in InQueue, UNCHANGED stableVars
  PROVE  TypeInv'
<1> DEFINE i == op[t].inst
           o == [op[t] EXCEPT !.pc = AfterDispatch(t), !.scan = 0]
<1>1. op' = [op EXCEPT ![t] = o] /\ OnlyTracks(i) /\ Leave(i)
  BY DEF FinishDispatch
<1>2. i \in Instances /\ now \in Nat /\ BodyTypes /\ GateType
  BY CallType, BodyTypesHold DEF Fits, TypeInv, TypeOK
<1>3. AfterDispatch(t) \in Steps
  BY DEF AfterDispatch, Steps
<1>4. o \in Ops
  BY <1>3, CallType, OpCounts
<1>5. o.pc = AfterDispatch(t) /\ o.kind = op[t].kind /\ o.out = op[t].out
  BY CallType DEF Ops
<1> HIDE DEF o
<1>6. Fits(t, o) /\ ~Joins(o)
  BY <1>5, CallType DEF AfterDispatch, Fits, Joins, InQueue, ByConsumers
<1>7. UNCHANGED << pending, inFlight, bound, nextConsumer, messageVars, cstate, lastQueue, current >>
  BY <1>1 DEF OnlyTracks
<1>8. emptySince' \in [Instances -> Nat \union {Never}]
  BY <1>1, <1>2, TrackType DEF OnlyTracks
<1>9. BodyTypes' /\ GateType'
  BY <1>1, <1>2, <1>7, <1>8 DEF BodyTypes, GateType, messageVars, Leave
<1> QED BY <1>1, <1>4, <1>5, <1>6, <1>7, <1>9, QuietStep DEF messageVars

\* The loop of Dispatch is over: nothing to deliver, or nobody free.
LEMMA DispatchEndsType == ASSUME TypeInv, NEW t \in Threads, DispatchEnds(t) \/ ScanEnds(t) PROVE TypeInv'
  BY FinishType DEF DispatchEnds, ScanEnds, Looking, InQueue

\* The candidate is one of the bound consumers, and so is the turn after it.
LEMMA TurnType ==
  ASSUME NEW n \in Nat, NEW k \in Nat, NEW len \in Nat, len > 0
  PROVE  /\ ((n + k) % len) + 1 \in 1 .. len
         /\ \A at \in 1 .. len : at % len \in Nat /\ at % len < len
  OBVIOUS

\* The record of a call that has decided what to hand over.
LEMMA OpDecides ==
  ASSUME NEW r \in Ops, NEW p \in Steps, NEW q \in Seq(Handed)
  PROVE  [r EXCEPT !.pc = p, !.scan = 0, !.out = q] \in Ops /\ [r EXCEPT !.pc = p, !.out = q] \in Ops
  BY DEF Ops

\* The message at the head goes to a consumer.
LEMMA ScanAcquiresType == ASSUME TypeInv, NEW t \in Threads, ScanAcquires(t) PROVE TypeInv'
<1> DEFINE i == op[t].inst
           at == Candidate(i, op[t].scan)
           c == bound[i][at]
           m == Head(pending[i])
           o == [op[t] EXCEPT !.pc = "dispatch", !.scan = 0, !.out = Append(@, Delivery(c, m))]
           p == Tail(pending[i])
           f == inFlight[i] \union {m}
           G == {}
<1>1. /\ op[t].pc = "scan" /\ op[t].scan < Len(bound[i]) /\ Assign(i, op[t].scan)
      /\ op' = [op EXCEPT ![t] = o] /\ UNCHANGED << gate, stableVars >>
  BY DEF ScanAcquires
<1>2. /\ i \in Instances /\ op[t].scan \in Nat /\ op[t] \in Ops /\ op[t].out \in Seq(Handed)
      /\ BodyTypes /\ GateType /\ Places /\ Fits(t, op[t])
  BY <1>1, CallType, BodyTypesHold DEF Fits, InQueue, TypeInv
<1>3. /\ pending[i] \in Seq(Messages) /\ inFlight[i] \subseteq Messages /\ bound[i] \in Seq(Consumers)
      /\ nextConsumer[i] \in Nat /\ Len(bound[i]) \in Nat /\ IsInjective(pending[i])
      /\ ToSet(pending[i]) \intersect inFlight[i] = {}
  BY <1>2 DEF BodyTypes, Places, OnePlaceEach
<1>4. at \in 1 .. Len(bound[i]) /\ at % Len(bound[i]) \in Nat /\ at % Len(bound[i]) < Len(bound[i])
  <2> DEFINE n == nextConsumer[i]
             k == op[t].scan
             len == Len(bound[i])
  <2>1. n \in Nat /\ k \in Nat /\ len \in Nat /\ len > 0 /\ at = ((n + k) % len) + 1
    BY <1>1, <1>2, <1>3 DEF Candidate
  <2> HIDE DEF n, k, len
  <2>2. ((n + k) % len) + 1 \in 1 .. len /\ \A x \in 1 .. len : x % len \in Nat /\ x % len < len
    BY <2>1, TurnType
  <2>3. at \in 1 .. len /\ at % len \in Nat /\ at % len < len
    BY <2>1, <2>2
  <2> QED BY <2>3 DEF len
<1> HIDE DEF at
<1>5. c \in Consumers
  BY <1>3, <1>4
<1> HIDE DEF c
<1>6. /\ pending[i] # <<>>
      /\ cstate' = [cstate EXCEPT ![c] = "busy"]
      /\ nextConsumer' = [nextConsumer EXCEPT ![i] = at % Len(bound[i])]
      /\ pending' = [pending EXCEPT ![i] = p]
      /\ inFlight' = [inFlight EXCEPT ![i] = f]
      /\ entry' = [entry EXCEPT ![m].owner = c]
      /\ current' = [current EXCEPT ![c] = [home |-> entry[m].home, msg |-> m]]
      /\ lastQueue' = [lastQueue EXCEPT ![c] = entry[m].home]
      /\ UNCHANGED << emptySince, bound, fate, dead >>
  BY <1>1 DEF Assign, at, c
<1>7. m \in Messages /\ m \in ToSet(pending[i]) /\ p \in Seq(Messages) /\ IsInjective(p)
      /\ ToSet(p) = ToSet(pending[i]) \ {m}
  BY <1>3, <1>5, <1>6, TailElements
<1> HIDE DEF p
<1>8. entry[m].home \in Names
  BY <1>2, <1>7 DEF Places, OnePlaceEach, Content
<1>9. /\ ToSet(p) \intersect f = {} /\ ToSet(p) \union f \subseteq Content(i) \ G
  BY <1>3, <1>7 DEF Content
<1>10. entry' \in [Messages -> Entries] /\ \A x \in Messages : entry'[x].home = entry[x].home
  <2>1. entry[m] \in Entries /\ entry \in [Messages -> Entries] /\ entry'[m] = [entry[m] EXCEPT !.owner = c]
    BY <1>2, <1>6, <1>7 DEF BodyTypes
  <2>2. entry'[m] \in Entries /\ entry'[m].home = entry[m].home
    BY <2>1, <1>5 DEF Entries
  <2> QED BY <1>6, <2>1, <2>2
<1>11. f \subseteq Messages
  BY <1>3, <1>7
<1> HIDE DEF m, f
<1>12. BodyTypes' /\ GateType'
  <2>1. nextConsumer' \in [Instances -> Nat]
    BY <1>2, <1>4, <1>5, <1>6 DEF BodyTypes
  <2>2. \A j \in Instances : nextConsumer'[j] = 0 \/ nextConsumer'[j] < Len(bound'[j])
    BY <1>2, <1>4, <1>5, <1>6 DEF BodyTypes
  <2>3. current' \in [Consumers -> [home : Names, msg : Messages] \union {None}]
    BY <1>2, <1>5, <1>6, <1>7, <1>8 DEF BodyTypes
  <2>4. /\ pending' \in [Instances -> Seq(Messages)]
        /\ inFlight' \in [Instances -> SUBSET Messages]
        /\ cstate' \in [Consumers -> {"free", "busy", "closed"}]
        /\ lastQueue' \in [Consumers -> Names \union {None}]
    BY <1>2, <1>5, <1>6, <1>7, <1>8, <1>11 DEF BodyTypes
  <2> QED BY <1>1, <1>2, <1>5, <1>6, <1>10, <2>1, <2>2, <2>3, <2>4 DEF BodyTypes, GateType
<1>13. Delivery(c, m) \in Handed /\ ~Delivery(c, m).response
  BY <1>5, <1>6, <1>7 DEF Delivery, Handed
<1>14. o \in Ops
  <2>1. Append(op[t].out, Delivery(c, m)) \in Seq(Handed) /\ "dispatch" \in Steps
    BY <1>2, <1>13, AppendProperties DEF Steps
  <2> QED BY <1>2, <2>1, OpDecides
<1>15. /\ o.pc = "dispatch" /\ o.kind = op[t].kind /\ o.inst = i
       /\ o.out = Append(op[t].out, Delivery(c, m))
  BY <1>2 DEF Ops
<1> HIDE DEF o
<1>16. ByConsumers(o) => t \in Consumers
  BY <1>2, <1>15 DEF Fits, ByConsumers
<1>17. Fits(t, o) /\ ~Joins(o)
  BY <1>2, <1>15, <1>16 DEF Fits, Joins, InQueue
<1>18. \A k \in DOMAIN o.out : o.out[k].response => fate'[o.out[k].msg] \in OverByPush
  <2> SUFFICES ASSUME NEW k \in DOMAIN o.out, o.out[k].response
               PROVE  fate'[o.out[k].msg] \in OverByPush
    OBVIOUS
  <2>1. k \in DOMAIN op[t].out /\ o.out[k] = op[t].out[k]
    <3>1. k \in 1 .. Len(op[t].out) + 1 /\ Len(op[t].out) \in Nat
      BY <1>2, <1>13, <1>15, AppendProperties
    <3>2. k # Len(op[t].out) + 1
      BY <1>2, <1>13, <1>15, AppendProperties
    <3> QED BY <1>2, <1>13, <1>15, <3>1, <3>2, AppendProperties
  <2> QED BY <1>2, <1>5, <1>6, <2>1 DEF Places, AnswersOver
<1> HIDE DEF i
<1> QED BY <1>1, <1>2, <1>5, <1>6, <1>7, <1>9, <1>10, <1>12, <1>14, <1>17, <1>18, QueueStep

\* A paused queue is left at once.
LEMMA TakeEntersType == ASSUME TypeInv, NEW t \in Threads, TakeEnters(t) PROVE TypeInv'
<1> DEFINE i == op[t].inst
<1>1. op[t].pc = "gate" /\ op[t].kind = "take" /\ UNCHANGED stableVars
  BY DEF TakeEnters, At
<1>2. i \in Instances /\ now \in Nat /\ BodyTypes /\ GateType
  BY <1>1, CallType, BodyTypesHold DEF Fits, InQueue, TypeInv, TypeOK
<1>3. CASE Unlocked(i) /\ OnlyTracks(i) /\ Return(t)
  <2>1. UNCHANGED << pending, inFlight, bound, nextConsumer, messageVars, cstate, lastQueue, current, gate >>
    BY <1>3 DEF OnlyTracks, Unlocked
  <2>2. emptySince' \in [Instances -> Nat \union {Never}]
    BY <1>2, <1>3, TrackType DEF OnlyTracks
  <2>3. BodyTypes' /\ GateType'
    BY <1>2, <2>1, <2>2 DEF BodyTypes, GateType, messageVars
  <2> QED BY <1>1, <1>3, <2>1, <2>3, IdleFits, QuietStep DEF messageVars, Return
<1>4. CASE Enter(i, t) /\ Goto(t, "taking") /\ UNCHANGED bodyVars
  <2> DEFINE o == [op[t] EXCEPT !.pc = "taking"]
  <2>1. o \in Ops /\ Fits(t, o) /\ ~Joins(o) /\ o.out = op[t].out
    BY <1>1, GoesOnTo DEF InQueue
  <2>2. op' = [op EXCEPT ![t] = o] /\ gate' \in [Instances -> Threads \union {None}]
    BY <1>2, <1>4 DEF Goto, Enter, GateType
  <2> HIDE DEF o
  <2> QED BY <1>1, <1>4, <2>1, <2>2, OnlyTheCall
<1> QED BY <1>3, <1>4 DEF TakeEnters

\* The head is taken: an RPC message waits for its answer, another one is over.
LEMMA TakeReturnsType == ASSUME TypeInv, NEW t \in Threads, TakeReturns(t) PROVE TypeInv'
<1> DEFINE i == op[t].inst
           m == Head(pending[i])
<1>1. /\ op[t].pc = "taking" /\ UNCHANGED stableVars /\ Leave(i)
      /\ op' = [op EXCEPT ![t] = Idle]
      /\ OnlyTracks(i) \/ TakeHead(i)
  BY DEF TakeReturns, Return
<1>2. i \in Instances /\ now \in Nat /\ BodyTypes /\ GateType /\ Places /\ GateType'
  BY <1>1, CallType, BodyTypesHold DEF Fits, InQueue, TypeInv, TypeOK, Leave, GateType
<1>3. CASE OnlyTracks(i)
  <2>1. UNCHANGED << pending, inFlight, bound, nextConsumer, messageVars, cstate, lastQueue, current >>
    BY <1>3 DEF OnlyTracks
  <2>2. emptySince' \in [Instances -> Nat \union {Never}]
    BY <1>2, <1>3, TrackType DEF OnlyTracks
  <2>3. BodyTypes'
    BY <1>2, <2>1, <2>2 DEF BodyTypes, messageVars
  <2> QED BY <1>1, <1>2, <2>1, <2>3, IdleFits, QuietStep DEF messageVars
<1>4. CASE TakeHead(i)
  <2> DEFINE p == Tail(pending[i])
  <2>1. /\ pending[i] \in Seq(Messages) /\ inFlight[i] \subseteq Messages /\ IsInjective(pending[i])
        /\ ToSet(pending[i]) \intersect inFlight[i] = {} /\ pending[i] # <<>>
    BY <1>2, <1>4 DEF BodyTypes, Places, OnePlaceEach, TakeHead, HeadIsDeliverable
  <2>2. /\ m \in Messages /\ m \in ToSet(pending[i]) /\ p \in Seq(Messages) /\ IsInjective(p)
        /\ ToSet(p) = ToSet(pending[i]) \ {m}
    BY <2>1, TailElements
  <2>3. /\ pending' = [pending EXCEPT ![i] = p]
        /\ UNCHANGED << bound, nextConsumer, dead, cstate, lastQueue, current >>
    BY <1>4 DEF TakeHead
  <2>4. emptySince' \in [Instances -> Nat \union {Never}]
    BY <1>2, <1>4, TrackType DEF TakeHead
  <2>5. Idle \in Ops /\ Fits(t, Idle) /\ ~Joins(Idle)
        /\ \A k \in DOMAIN Idle.out : Idle.out[k].response => fate'[Idle.out[k].msg] \in OverByPush
    BY IdleFits
  <2> HIDE DEF p
  <2>6. CASE entry[m].rpc
    <3> DEFINE f == inFlight[i] \union {m}
               G == {}
    <3>1. inFlight' = [inFlight EXCEPT ![i] = f] /\ UNCHANGED << entry, fate >>
      BY <1>4, <2>6 DEF TakeHead
    <3>2. ToSet(p) \intersect f = {} /\ ToSet(p) \union f \subseteq Content(i) \ G /\ f \subseteq Messages
      BY <2>1, <2>2 DEF Content
    <3> HIDE DEF f
    <3>3. BodyTypes'
      BY <1>2, <2>2, <2>3, <2>4, <3>1, <3>2 DEF BodyTypes
    <3> QED BY <1>1, <1>2, <2>2, <2>3, <2>5, <3>1, <3>2, <3>3, QueueStep
  <2>7. CASE ~entry[m].rpc
    <3> DEFINE f == inFlight[i]
               G == {m}
    <3>1. /\ inFlight' = [inFlight EXCEPT ![i] = f]
          /\ entry' = [entry EXCEPT ![m] = Blank] /\ fate' = [fate EXCEPT ![m] = "taken"]
      BY <1>2, <1>4, <2>7 DEF TakeHead, Forget, Becomes, BodyTypes
    <3>2. ToSet(p) \intersect f = {} /\ ToSet(p) \union f \subseteq Content(i) \ G /\ f \subseteq Messages
      BY <2>1, <2>2 DEF Content
    <3>3. G \in SUBSET Content(i)
      BY <2>2 DEF Content
    <3> HIDE DEF f
    <3>4. entry' \in [Messages -> Entries] /\ fate' \in [Messages -> Fates]
      BY <1>2, <3>1, BlankType DEF BodyTypes, Fates
    <3>5. BodyTypes'
      BY <1>2, <2>2, <2>3, <2>4, <3>1, <3>2, <3>4 DEF BodyTypes
    <3>6. /\ \A x \in G : fate'[x] \notin {"live", "sent"}
          /\ \A x \in Messages \ G : fate'[x] = fate[x] /\ entry'[x].home = entry[x].home
      BY <1>2, <2>2, <3>1 DEF BodyTypes
    <3> HIDE DEF G
    <3> QED BY <1>1, <1>2, <2>2, <2>3, <2>5, <3>1, <3>2, <3>3, <3>5, <3>6, QueueStep
  <2> QED BY <2>6, <2>7
<1> QED BY <1>1, <1>3, <1>4

-----------------------------------------------------------------------------
(* Answers, confirmations and what a connection leaves behind *)

\* An answered message waits in the dictionary, owned by nobody, to be collected.
AnswersAway ==
  /\ \A m \in Messages : entry[m].answered => entry[m].owner = None /\ fate[m] = "live"
  /\ \A i \in Instances : \A m \in ToSet(pending[i]) : ~entry[m].answered

\* What a call that is in the lock of its queue knows of the two.
LEMMA InGate ==
  ASSUME TypeInv, NEW t \in Threads, op[t].pc = "gate"
  PROVE  /\ op[t].inst \in Instances /\ now \in Nat /\ BodyTypes /\ GateType /\ Places
         /\ pending[op[t].inst] \in Seq(Messages) /\ inFlight[op[t].inst] \subseteq Messages
         /\ IsInjective(pending[op[t].inst])
         /\ ToSet(pending[op[t].inst]) \intersect inFlight[op[t].inst] = {}
<1>1. op[t].inst \in Instances
  BY CallType DEF Fits, InQueue
<1>2. now \in Nat /\ BodyTypes /\ GateType /\ Places
  BY BodyTypesHold DEF TypeInv, TypeOK
<1> QED BY <1>1, <1>2 DEF BodyTypes, Places, OnePlaceEach

\* A call that finds nothing to do inside the lock is over, or goes on to hand over.
LEMMA NothingDone ==
  ASSUME TypeInv, NEW t \in Threads, op[t].pc = "gate", Return(t) \/ Goto(t, "hand"),
         GateType', UNCHANGED << bodyVars, stableVars >>
  PROVE  TypeInv'
<1>1. CASE Return(t)
  BY <1>1, IdleFits, OnlyTheCall DEF Return, GateType
<1>2. CASE Goto(t, "hand")
  <2> DEFINE o == [op[t] EXCEPT !.pc = "hand"]
  <2>1. o \in Ops /\ Fits(t, o) /\ ~Joins(o) /\ o.out = op[t].out
    BY GoesOnTo DEF InQueue
  <2>2. op' = [op EXCEPT ![t] = o]
    BY <1>2 DEF Goto
  <2> HIDE DEF o
  <2> QED BY <2>1, <2>2, OnlyTheCall DEF GateType
<1> QED BY <1>1, <1>2

\* A message is finished, wherever in the queue it was found.
LEMMA FinishedStep ==
  ASSUME TypeInv, NEW t \in Threads, NEW o, op' = [op EXCEPT ![t] = o], o \in Ops, Fits(t, o),
         ~Joins(o),
         NEW i \in Instances, NEW m \in Content(i), NEW f \in Fates \ {"live", "sent"}, Finish(i, m, f),
         \A k \in DOMAIN o.out : o.out[k].response => fate'[o.out[k].msg] \in OverByPush,
         pending' = [pending EXCEPT ![i] = IF m \in inFlight[i] THEN @ ELSE RemoveFirst(@, m)],
         current' \in [Consumers -> [home : Names, msg : Messages] \union {None}],
         UNCHANGED << bound, nextConsumer, dead, cstate, lastQueue, gate, stableVars >>
  PROVE  TypeInv'
<1> DEFINE p == IF m \in inFlight[i] THEN pending[i] ELSE RemoveFirst(pending[i], m)
           g == inFlight[i] \ {m}
           G == {m}
<1>1. /\ BodyTypes /\ GateType /\ Places /\ now \in Nat
  BY BodyTypesHold DEF TypeInv, TypeOK
<1>2. /\ pending[i] \in Seq(Messages) /\ inFlight[i] \subseteq Messages /\ IsInjective(pending[i])
      /\ ToSet(pending[i]) \intersect inFlight[i] = {} /\ Content(i) = ToSet(pending[i]) \union inFlight[i]
  BY <1>1 DEF BodyTypes, Places, OnePlaceEach, Content
<1>3. m \in Messages /\ G \in SUBSET Content(i)
  BY <1>2, LineElements DEF ToSet
<1>4. p \in Seq(Messages) /\ IsInjective(p) /\ ToSet(p) = ToSet(pending[i]) \ {m}
  <2>1. CASE m \in inFlight[i]
    BY <1>2, <2>1
  <2>2. CASE m \notin inFlight[i]
    BY <1>2, <2>2, RemoveFirstElements
  <2> QED BY <2>1, <2>2
<1>5. /\ pending' = [pending EXCEPT ![i] = p] /\ inFlight' = [inFlight EXCEPT ![i] = g]
      /\ entry' = [entry EXCEPT ![m] = Blank] /\ fate' = [fate EXCEPT ![m] = f]
  BY DEF Finish, Forget, Becomes
<1>6. emptySince' \in [Instances -> Nat \union {Never}]
  BY <1>1, TrackType DEF Finish
<1>7. entry' \in [Messages -> Entries] /\ fate' \in [Messages -> Fates]
  BY <1>1, <1>3, <1>5, BlankType DEF BodyTypes
<1>8. /\ ToSet(p) \intersect g = {} /\ ToSet(p) \union g \subseteq Content(i) \ G /\ g \subseteq Messages
  BY <1>2, <1>4
<1> HIDE DEF p, g
<1>9. BodyTypes' /\ GateType'
  <2>1. pending' \in [Instances -> Seq(Messages)] /\ inFlight' \in [Instances -> SUBSET Messages]
    BY <1>1, <1>4, <1>5, <1>6, <1>7, <1>8 DEF BodyTypes
  <2> QED BY <1>1, <1>6, <1>7, <2>1 DEF BodyTypes, GateType
<1>10. /\ \A x \in G : fate'[x] \notin {"live", "sent"}
       /\ \A x \in Messages \ G : fate'[x] = fate[x] /\ entry'[x].home = entry[x].home
  BY <1>1, <1>3, <1>5 DEF BodyTypes
<1> HIDE DEF G
<1> QED BY <1>3, <1>4, <1>5, <1>8, <1>9, <1>10, QueueStep

\* The answer is kept; a message found in the line is taken out of it.
LEMMA KeptStep ==
  ASSUME TypeInv, NEW t \in Threads, NEW o, op' = [op EXCEPT ![t] = o], o \in Ops, Fits(t, o),
         ~Joins(o), o.out = <<>>,
         NEW i \in Instances, NEW m \in Content(i),
         entry' \in [Messages -> Entries], \A x \in Messages : entry'[x].home = entry[x].home,
         inFlight' = [inFlight EXCEPT ![i] = @ \union {m}],
         pending' = [pending EXCEPT ![i] = IF m \in inFlight[i] THEN @ ELSE RemoveFirst(@, m)],
         current' \in [Consumers -> [home : Names, msg : Messages] \union {None}],
         UNCHANGED << fate, emptySince, bound, nextConsumer, dead, cstate, lastQueue, gate, stableVars >>
  PROVE  TypeInv'
<1> DEFINE p == IF m \in inFlight[i] THEN pending[i] ELSE RemoveFirst(pending[i], m)
           g == inFlight[i] \union {m}
           G == {}
<1>1. /\ BodyTypes /\ GateType /\ Places
  BY BodyTypesHold DEF TypeInv
<1>2. /\ pending[i] \in Seq(Messages) /\ inFlight[i] \subseteq Messages /\ IsInjective(pending[i])
      /\ ToSet(pending[i]) \intersect inFlight[i] = {} /\ Content(i) = ToSet(pending[i]) \union inFlight[i]
  BY <1>1 DEF BodyTypes, Places, OnePlaceEach, Content
<1>3. m \in Messages
  BY <1>2, LineElements DEF ToSet
<1>4. p \in Seq(Messages) /\ IsInjective(p) /\ ToSet(p) = ToSet(pending[i]) \ {m}
  <2>1. CASE m \in inFlight[i]
    BY <1>2, <2>1
  <2>2. CASE m \notin inFlight[i]
    BY <1>2, <2>2, RemoveFirstElements
  <2> QED BY <2>1, <2>2
<1>5. pending' = [pending EXCEPT ![i] = p] /\ inFlight' = [inFlight EXCEPT ![i] = g]
  OBVIOUS
<1>6. ToSet(p) \intersect g = {} /\ ToSet(p) \union g \subseteq Content(i) \ G /\ g \subseteq Messages
  BY <1>2, <1>3, <1>4
<1> HIDE DEF p, g
<1>7. BodyTypes' /\ GateType'
  <2>1. pending' \in [Instances -> Seq(Messages)] /\ inFlight' \in [Instances -> SUBSET Messages]
    BY <1>1, <1>4, <1>5, <1>6 DEF BodyTypes
  <2> QED BY <1>1, <2>1 DEF BodyTypes, GateType
<1>8. /\ G \in SUBSET Content(i)
      /\ \A x \in G : fate'[x] \notin {"live", "sent"}
      /\ \A x \in Messages \ G : fate'[x] = fate[x] /\ entry'[x].home = entry[x].home
      /\ \A k \in DOMAIN o.out : o.out[k].response => fate'[o.out[k].msg] \in OverByPush
  OBVIOUS
<1> HIDE DEF G
<1> QED BY <1>4, <1>5, <1>6, <1>7, <1>8, QueueStep

\* What waits to be handed over stays about the same messages when a live one ends.
LEMMA OutStays ==
  ASSUME TypeInv, NEW t \in Threads, NEW m \in Messages, fate[m] = "live",
         \A x \in Messages \ {m} : fate'[x] = fate[x]
  PROVE  \A k \in DOMAIN op[t].out : op[t].out[k].response => fate'[op[t].out[k].msg] \in OverByPush
<1> SUFFICES ASSUME NEW k \in DOMAIN op[t].out, op[t].out[k].response
             PROVE  fate'[op[t].out[k].msg] \in OverByPush
  OBVIOUS
<1>1. op[t].out \in Seq(Handed)
  BY CallType
<1>2. op[t].out[k].msg \in Messages
  BY <1>1, HandedElement
<1>3. fate[op[t].out[k].msg] \in OverByPush
  BY DEF TypeInv, Places, AnswersOver
<1> QED BY <1>2, <1>3 DEF OverByPush

\* An answer goes out when the message ended by being pushed to somebody.
LEMMA AnswerCall ==
  ASSUME TypeInv, NEW t \in Threads, op[t].pc = "gate", NEW m \in Messages, NEW r,
         fate'[m] = "pushed" => r \in Consumers
  PROVE  LET o == [op[t] EXCEPT !.pc = "hand", !.out = OutAfter(m, fate'[m], r)]
         IN  /\ o \in Ops
             /\ Fits(t, o)
             /\ ~Joins(o)
             /\ \A k \in DOMAIN o.out : o.out[k].response => fate'[o.out[k].msg] \in OverByPush
             /\ fate'[m] # "pushed" => o.out = <<>>
<1> DEFINE q == OutAfter(m, fate'[m], r)
           o == [op[t] EXCEPT !.pc = "hand", !.out = q]
<1>1. q = IF fate'[m] = "pushed" THEN << [to |-> r, msg |-> m, response |-> TRUE] >> ELSE <<>>
  BY DEF OutAfter, Response
<1> HIDE DEF q
<1>2. q \in Seq(Handed)
  <2>1. CASE fate'[m] = "pushed"
    <3>1. [to |-> r, msg |-> m, response |-> TRUE] \in Handed
      BY <2>1 DEF Handed
    <3> QED BY <1>1, <2>1, <3>1
  <2>2. CASE fate'[m] # "pushed"
    BY <1>1, <2>2
  <2> QED BY <2>1, <2>2
<1>3. op[t] \in Ops /\ Fits(t, op[t]) /\ "hand" \in Steps
  BY CallType DEF Steps
<1>4. o \in Ops
  BY <1>2, <1>3, OpDecides
<1>5. o.pc = "hand" /\ o.kind = op[t].kind /\ o.out = q
  BY <1>3 DEF Ops
<1> HIDE DEF o
<1>6. Fits(t, o) /\ ~Joins(o)
  BY <1>3, <1>5 DEF Fits, Joins, InQueue, ByConsumers
<1>7. \A k \in DOMAIN o.out : o.out[k].response => fate'[o.out[k].msg] \in OverByPush
  <2>1. CASE fate'[m] = "pushed"
    <3>1. DOMAIN o.out = {1} /\ o.out[1] = [to |-> r, msg |-> m, response |-> TRUE]
      BY <1>1, <1>5, <2>1
    <3> QED BY <2>1, <3>1 DEF OverByPush
  <2>2. CASE fate'[m] # "pushed"
    BY <1>1, <1>5, <2>2
  <2> QED BY <2>1, <2>2
<1> QED BY <1>1, <1>4, <1>5, <1>6, <1>7 DEF o, q

\* What a call owns is a live message of the queue.
LEMMA OwnedIsLive ==
  ASSUME TypeInv, NEW i \in Instances, NEW m \in Content(i)
  PROVE  m \in Messages /\ fate[m] = "live" /\ entry[m] \in Entries
<1>1. BodyTypes /\ Places
  BY BodyTypesHold DEF TypeInv
<1>2. pending[i] \in Seq(Messages) /\ inFlight[i] \subseteq Messages
  BY <1>1 DEF BodyTypes
<1>3. m \in Messages
  BY <1>2, LineElements DEF Content, ToSet
<1> QED BY <1>1, <1>3 DEF BodyTypes, Places, OnePlaceEach

\* A consumer that confirmed holds nothing.
LEMMA FreedType ==
  ASSUME BodyTypes, NEW c
  PROVE  [current EXCEPT ![c] = None] \in [Consumers -> [home : Names, msg : Messages] \union {None}]
  BY DEF BodyTypes

\* Confirm ends a message its owner names, or nothing.
LEMMA ConfirmType == ASSUME TypeInv, NEW t \in Threads, ConfirmLocked(t) PROVE TypeInv'
<1> DEFINE i == op[t].inst
           m == op[t].msg
<1>1. op[t].pc = "gate" /\ op[t].kind = "confirm" /\ UNCHANGED << gate, stableVars >>
  BY DEF ConfirmLocked, At, Unlocked
<1>2. i \in Instances /\ BodyTypes /\ GateType /\ GateType' /\ t \in Consumers
  BY <1>1, InGate, CallType DEF GateType, Fits, ByConsumers
<1>3. CASE Return(t) /\ UNCHANGED bodyVars
  BY <1>1, <1>2, <1>3, NothingDone
<1>4. CASE ConfirmBody(t, i, m) /\ Goto(t, "release")
  <2> DEFINE o == [op[t] EXCEPT !.pc = "release"]
  <2>1. o \in Ops /\ Fits(t, o) /\ ~Joins(o) /\ o.out = op[t].out /\ op' = [op EXCEPT ![t] = o]
    BY <1>1, <1>2, <1>4, GoesOnTo DEF InQueue, Goto
  <2>2. /\ m \in inFlight[i] /\ UNCHANGED pending /\ Finish(i, m, "confirmed")
        /\ current' = [current EXCEPT ![t] = None]
        /\ UNCHANGED << bound, nextConsumer, dead, cstate, lastQueue >>
    BY <1>4 DEF ConfirmBody, Owns
  <2>3. m \in Content(i) /\ m \in Messages /\ fate[m] = "live"
    BY <1>2, <2>2, OwnedIsLive DEF Content
  <2>4. pending' = [pending EXCEPT ![i] = IF m \in inFlight[i] THEN @ ELSE RemoveFirst(@, m)]
    BY <1>2, <2>2 DEF BodyTypes
  <2>5. current' \in [Consumers -> [home : Names, msg : Messages] \union {None}]
    BY <1>2, <2>2, FreedType
  <2>6. \A x \in Messages \ {m} : fate'[x] = fate[x]
    BY <1>2, <2>2 DEF Finish, Becomes, BodyTypes
  <2>7. \A k \in DOMAIN o.out : o.out[k].response => fate'[o.out[k].msg] \in OverByPush
    BY <2>1, <2>3, <2>6, OutStays
  <2>8. "confirmed" \in Fates \ {"live", "sent"}
    BY DEF Fates
  <2> HIDE DEF o, i, m
  <2> QED BY <1>1, <1>2, <2>1, <2>2, <2>3, <2>4, <2>5, <2>7, <2>8, FinishedStep
<1> QED BY <1>3, <1>4 DEF ConfirmLocked

\* TakeResponse ends a message that is answered, or nothing.
LEMMA CollectType == ASSUME TypeInv, NEW t \in Threads, CollectLocked(t) PROVE TypeInv'
<1> DEFINE i == op[t].inst
           m == op[t].msg
<1>1. op[t].pc = "gate" /\ op[t].kind = "collect" /\ UNCHANGED << gate, stableVars >> /\ Return(t)
  BY DEF CollectLocked, At, Unlocked
<1>2. i \in Instances /\ BodyTypes /\ GateType /\ GateType'
  BY <1>1, InGate DEF GateType
<1>3. CASE UNCHANGED bodyVars
  BY <1>1, <1>2, <1>3, NothingDone
<1>4. CASE CollectBody(i, m)
  <2>1. /\ m \in inFlight[i] /\ UNCHANGED pending /\ Finish(i, m, "collected")
        /\ UNCHANGED << bound, nextConsumer, dead, cstate, lastQueue, current >>
    BY <1>4 DEF CollectBody
  <2>2. m \in Content(i)
    BY <2>1 DEF Content
  <2>3. pending' = [pending EXCEPT ![i] = IF m \in inFlight[i] THEN @ ELSE RemoveFirst(@, m)]
    BY <1>2, <2>1 DEF BodyTypes
  <2>4. current' \in [Consumers -> [home : Names, msg : Messages] \union {None}]
    BY <1>2, <2>1 DEF BodyTypes
  <2>5. "collected" \in Fates \ {"live", "sent"}
    BY DEF Fates
  <2>6. /\ Idle \in Ops /\ Fits(t, Idle) /\ ~Joins(Idle) /\ op' = [op EXCEPT ![t] = Idle]
        /\ \A k \in DOMAIN Idle.out : Idle.out[k].response => fate'[Idle.out[k].msg] \in OverByPush
    BY <1>1, IdleFits DEF Return
  <2> HIDE DEF i, m
  <2> QED BY <1>1, <1>2, <2>1, <2>2, <2>3, <2>4, <2>5, <2>6, FinishedStep
<1> QED BY <1>3, <1>4 DEF CollectLocked

\* An answer that is kept leaves the message an entry of the same queue.
LEMMA AnsweredType ==
  ASSUME TypeInv, NEW m \in Messages, entry' = [entry EXCEPT ![m] = Answered(m)]
  PROVE  entry' \in [Messages -> Entries] /\ \A x \in Messages : entry'[x].home = entry[x].home
<1>1. entry \in [Messages -> Entries] /\ now \in Nat
  BY DEF TypeInv, TypeOK
<1>2. Answered(m) \in Entries /\ Answered(m).home = entry[m].home
  BY <1>1 DEF Answered, Entries
<1> QED BY <1>1, <1>2

\* The message is answered: pushed to whoever waits, confirmed, or kept for later.
LEMMA AnswerStep ==
  ASSUME TypeInv, NEW t \in Threads, op[t].pc = "gate", NEW r,
         NEW i \in Instances, NEW m \in Content(i),
         op' = [op EXCEPT ![t].pc = "hand", ![t].out = OutAfter(m, fate'[m], r)],
         pending' = [pending EXCEPT ![i] = IF m \in inFlight[i] THEN @ ELSE RemoveFirst(@, m)],
         current' \in [Consumers -> [home : Names, msg : Messages] \union {None}],
         UNCHANGED << bound, nextConsumer, dead, cstate, lastQueue, gate, stableVars >>,
         \/ Finish(i, m, "confirmed")
         \/ Finish(i, m, "pushed") /\ r \in Consumers
         \/ KeepAnswer(i, m)
  PROVE  TypeInv'
<1> DEFINE o == [op[t] EXCEPT !.pc = "hand", !.out = OutAfter(m, fate'[m], r)]
<1>1. op' = [op EXCEPT ![t] = o]
  BY CallType
<1>2. m \in Messages /\ fate[m] = "live" /\ fate \in [Messages -> Fates]
  BY OwnedIsLive DEF TypeInv, TypeOK
<1>3. fate'[m] = "pushed" => r \in Consumers
  BY <1>2 DEF Finish, Becomes, KeepAnswer
<1>4. /\ o \in Ops
      /\ Fits(t, o)
      /\ ~Joins(o)
      /\ \A k \in DOMAIN o.out : o.out[k].response => fate'[o.out[k].msg] \in OverByPush
      /\ fate'[m] # "pushed" => o.out = <<>>
  BY <1>2, <1>3, AnswerCall
<1>5. "confirmed" \in Fates \ {"live", "sent"} /\ "pushed" \in Fates \ {"live", "sent"}
  BY DEF Fates
<1> HIDE DEF o
<1>6. CASE Finish(i, m, "confirmed")
  BY <1>1, <1>4, <1>5, <1>6, FinishedStep
<1>7. CASE Finish(i, m, "pushed")
  BY <1>1, <1>4, <1>5, <1>7, FinishedStep
<1>8. CASE KeepAnswer(i, m)
  <2>1. /\ entry' = [entry EXCEPT ![m] = Answered(m)]
        /\ inFlight' = [inFlight EXCEPT ![i] = @ \union {m}]
        /\ UNCHANGED << fate, emptySince >>
    BY <1>8 DEF KeepAnswer
  <2>2. entry' \in [Messages -> Entries] /\ \A x \in Messages : entry'[x].home = entry[x].home
    BY <1>2, <2>1, AnsweredType
  <2>3. o.out = <<>>
    BY <1>2, <1>4, <2>1
  <2> QED BY <1>1, <1>4, <2>1, <2>2, <2>3, KeptStep
<1> QED BY <1>6, <1>7, <1>8

\* Somebody who waits is a connection.
LEMMA WaiterType ==
  ASSUME TypeInv, NEW m \in Messages, SomebodyWaits(entry[m].replyTo)
  PROVE  entry[m].replyTo \in Consumers
  BY DEF TypeInv, TypeOK, Entries, SomebodyWaits

\* Respond by the owner confirms, pushes the answer or keeps it.
LEMMA RespondType == ASSUME TypeInv, NEW t \in Threads, RespondLocked(t) PROVE TypeInv'
<1> DEFINE i == op[t].inst
           m == op[t].msg
           r == entry[m].replyTo
<1>1. op[t].pc = "gate" /\ op[t].kind = "respond" /\ UNCHANGED << gate, stableVars >>
  BY DEF RespondLocked, At, Unlocked
<1>2. i \in Instances /\ BodyTypes /\ GateType /\ GateType' /\ t \in Consumers
  BY <1>1, InGate, CallType DEF GateType, Fits, ByConsumers
<1>3. CASE Return(t) /\ UNCHANGED bodyVars
  BY <1>1, <1>2, <1>3, NothingDone
<1>4. CASE RespondBody(t, i, m) /\ op' = [op EXCEPT ![t].pc = "hand", ![t].out = OutAfter(m, fate'[m], r)]
  <2>1. /\ m \in inFlight[i] /\ UNCHANGED pending
        /\ current' = [current EXCEPT ![t] = None]
        /\ UNCHANGED << bound, nextConsumer, dead, cstate, lastQueue >>
        /\ \/ Finish(i, m, "confirmed")
           \/ Finish(i, m, "pushed") /\ SomebodyWaits(r)
           \/ KeepAnswer(i, m)
    BY <1>4 DEF RespondBody, Owns
  <2>2. m \in Content(i) /\ m \in Messages
    BY <1>2, <2>1, OwnedIsLive DEF Content
  <2>3. SomebodyWaits(r) => r \in Consumers
    BY <2>2, WaiterType
  <2>4. pending' = [pending EXCEPT ![i] = IF m \in inFlight[i] THEN @ ELSE RemoveFirst(@, m)]
    BY <1>2, <2>1 DEF BodyTypes
  <2>5. current' \in [Consumers -> [home : Names, msg : Messages] \union {None}]
    BY <1>2, <2>1, FreedType
  <2> HIDE DEF i, m, r
  <2> QED BY <1>1, <1>2, <1>4, <2>1, <2>2, <2>3, <2>4, <2>5, AnswerStep
<1> QED BY <1>3, <1>4 DEF RespondLocked

\* Respond by id finds its message in the dictionary or in the line.
LEMMA RespondLateType == ASSUME TypeInv, NEW t \in Threads, RespondLateLocked(t) PROVE TypeInv'
<1> DEFINE i == op[t].inst
           m == op[t].msg
           r == entry[m].replyTo
           o == [op[t] EXCEPT !.pc = "hand", !.out = OutAfter(m, fate'[m], r)]
<1>1. op[t].pc = "gate" /\ op[t].kind = "respondLate" /\ UNCHANGED << gate, stableVars >>
  BY DEF RespondLateLocked, At, Unlocked
<1>2. i \in Instances /\ BodyTypes /\ GateType /\ GateType'
  BY <1>1, InGate DEF GateType
<1>3. CASE Return(t) /\ UNCHANGED bodyVars
  BY <1>1, <1>2, <1>3, NothingDone
<1>4. CASE LateRespondBody(i, m) /\ op' = [op EXCEPT ![t].pc = "hand", ![t].out = OutAfter(m, fate'[m], r)]
  <2>1. /\ Reachable(i, m)
        /\ pending' = [pending EXCEPT ![i] = IF m \in inFlight[i] THEN @ ELSE RemoveFirst(@, m)]
        /\ UNCHANGED << bound, nextConsumer, dead, cstate, lastQueue, current >>
    BY <1>4 DEF LateRespondBody
  <2>2. m \in Content(i)
    BY <2>1 DEF Content, Reachable, Contains, ToSet
  <2>3. m \in Messages /\ fate[m] = "live" /\ (SomebodyWaits(r) => r \in Consumers)
    BY <1>2, <2>2, OwnedIsLive, WaiterType
  <2>4. current' \in [Consumers -> [home : Names, msg : Messages] \union {None}]
    BY <1>2, <2>1 DEF BodyTypes
  <2>5. CASE RefusesAnswer(i, m)
    <3>1. inFlight' = [inFlight EXCEPT ![i] = @ \union {m}] /\ UNCHANGED << entry, fate, emptySince >>
      BY <1>4, <2>5 DEF LateRespondBody
    <3>2. o \in Ops /\ Fits(t, o) /\ ~Joins(o) /\ o.out = <<>>
      BY <1>1, <2>3, <3>1, AnswerCall
    <3>3. op' = [op EXCEPT ![t] = o]
      BY <1>4, CallType
    <3>4. entry' \in [Messages -> Entries] /\ \A x \in Messages : entry'[x].home = entry[x].home
      BY <1>2, <3>1 DEF BodyTypes
    <3> HIDE DEF o, i, m, r
    <3> QED BY <1>1, <1>2, <2>1, <2>2, <2>4, <3>1, <3>2, <3>3, <3>4, KeptStep
  <2>6. CASE (Finish(i, m, "pushed") /\ SomebodyWaits(r)) \/ KeepAnswer(i, m)
    <3> HIDE DEF i, m, r
    <3> QED BY <1>1, <1>2, <1>4, <2>1, <2>2, <2>3, <2>4, <2>6, AnswerStep
  <2> QED BY <1>4, <2>5, <2>6 DEF LateRespondBody
<1> QED BY <1>3, <1>4 DEF RespondLateLocked

\* Only an answer that is in the dictionary is pushed to somebody who comes to wait.
LEMMA AwaitType == ASSUME TypeInv, AnswersAway, NEW t \in Threads, AwaitLocked(t) PROVE TypeInv'
<1> DEFINE i == op[t].inst
           m == op[t].msg
           o == [op[t] EXCEPT !.pc = "hand", !.out = OutAfter(m, fate'[m], t)]
<1>1. op[t].pc = "gate" /\ op[t].kind = "await" /\ UNCHANGED << gate, stableVars >>
  BY DEF AwaitLocked, At, Unlocked
<1>2. i \in Instances /\ now \in Nat /\ BodyTypes /\ GateType /\ GateType' /\ t \in Consumers
  BY <1>1, InGate, CallType DEF GateType, Fits, ByConsumers
<1>3. CASE OnlyTracks(i) /\ Goto(t, "hand")
  <2> DEFINE h == [op[t] EXCEPT !.pc = "hand"]
  <2>1. h \in Ops /\ Fits(t, h) /\ ~Joins(h) /\ h.out = op[t].out /\ op' = [op EXCEPT ![t] = h]
    BY <1>1, <1>3, GoesOnTo DEF InQueue, Goto
  <2>2. UNCHANGED << pending, inFlight, bound, nextConsumer, messageVars, cstate, lastQueue, current >>
    BY <1>3 DEF OnlyTracks
  <2>3. emptySince' \in [Instances -> Nat \union {Never}]
    BY <1>2, <1>3, TrackType DEF OnlyTracks
  <2>4. BodyTypes'
    BY <1>2, <2>2, <2>3 DEF BodyTypes, messageVars
  <2> HIDE DEF h
  <2> QED BY <1>1, <1>2, <2>1, <2>2, <2>4, QuietStep DEF messageVars
<1>4. CASE AwaitBody(t, i, m) /\ op' = [op EXCEPT ![t].pc = "hand", ![t].out = OutAfter(m, fate'[m], t)]
  <2>1. /\ Reachable(i, m)
        /\ UNCHANGED << pending, bound, nextConsumer, dead, cstate, lastQueue, current >>
    BY <1>4 DEF AwaitBody
  <2>2. m \in Content(i)
    BY <2>1 DEF Content, Reachable, Contains, ToSet
  <2>3. m \in Messages /\ fate[m] = "live"
    BY <1>2, <2>2, OwnedIsLive
  <2>4. CASE entry[m].answered /\ Finish(i, m, "pushed")
    <3>1. m \in inFlight[i]
      BY <1>2, <2>2, <2>4 DEF AnswersAway, Content
    <3>2. pending' = [pending EXCEPT ![i] = IF m \in inFlight[i] THEN @ ELSE RemoveFirst(@, m)]
      BY <1>2, <2>1, <3>1 DEF BodyTypes
    <3>3. current' \in [Consumers -> [home : Names, msg : Messages] \union {None}]
      BY <1>2, <2>1 DEF BodyTypes
    <3> HIDE DEF i, m
    <3> QED BY <1>1, <1>2, <1>4, <2>1, <2>2, <2>4, <3>2, <3>3, AnswerStep
  <2>5. CASE entry' = [entry EXCEPT ![m].replyTo = t] /\ UNCHANGED << inFlight, emptySince, fate >>
    <3>1. o \in Ops /\ Fits(t, o) /\ ~Joins(o) /\ o.out = <<>>
      BY <1>1, <2>3, <2>5, AnswerCall
    <3>2. op' = [op EXCEPT ![t] = o]
      BY <1>4, CallType
    <3>3. entry' \in [Messages -> Entries] /\ \A x \in Messages : entry'[x].home = entry[x].home
      <4>1. entry[m] \in Entries /\ entry \in [Messages -> Entries]
            /\ entry'[m] = [entry[m] EXCEPT !.replyTo = t]
        BY <1>2, <2>3, <2>5 DEF BodyTypes
      <4>2. entry'[m] \in Entries /\ entry'[m].home = entry[m].home
        BY <1>2, <4>1 DEF Entries
      <4> QED BY <2>5, <4>1, <4>2
    <3>4. BodyTypes'
      BY <1>2, <2>1, <2>5, <3>3 DEF BodyTypes
    <3> HIDE DEF o
    <3> QED BY <1>1, <1>2, <2>1, <2>5, <3>1, <3>2, <3>3, <3>4, QuietStep
  <2> QED BY <1>4, <2>4, <2>5 DEF AwaitBody
<1> QED BY <1>3, <1>4 DEF AwaitLocked

\* What a connection leaves behind goes back to the head of the line, or is buried.
LEMMA DiesType ==
  ASSUME TypeInv, NEW t \in Threads, op[t].pc = "gate", NEW m, DiesUnconfirmed(t, op[t].inst, m),
         Goto(t, "hand"), UNCHANGED << gate, stableVars >>
  PROVE  TypeInv'
<1> DEFINE i == op[t].inst
           o == [op[t] EXCEPT !.pc = "hand"]
           p == pending[i]
           f == inFlight[i] \ {m}
           G == {m}
<1>1. i \in Instances /\ now \in Nat /\ BodyTypes /\ GateType /\ GateType'
      /\ p \in Seq(Messages) /\ inFlight[i] \subseteq Messages /\ IsInjective(p)
      /\ ToSet(p) \intersect inFlight[i] = {}
  BY InGate DEF GateType
<1>2. /\ m \in inFlight[i] /\ Bury(i, m, "unconfirmed")
      /\ inFlight' = [inFlight EXCEPT ![i] = f]
      /\ current' = [current EXCEPT ![t] = None]
      /\ TrackEmptiness(i, p, f)
      /\ UNCHANGED << pending, bound, nextConsumer, cstate, lastQueue >>
  BY DEF DiesUnconfirmed, Owns
<1>3. m \in Messages /\ fate[m] = "live" /\ G \in SUBSET Content(i)
  BY <1>1, <1>2, OwnedIsLive DEF Content
<1>4. "unconfirmed" \in Fates \ {"live", "sent"}
  BY DEF Fates
<1>5. /\ dead' \in [Names -> Seq(Letters)]
      /\ entry' \in [Messages -> Entries]
      /\ fate' \in [Messages -> Fates]
      /\ fate'[m] = "unconfirmed"
      /\ \A x \in Messages \ {m} : fate'[x] = fate[x] /\ entry'[x] = entry[x]
  BY <1>1, <1>2, <1>3, <1>4, BuryType
<1>6. o \in Ops /\ Fits(t, o) /\ ~Joins(o) /\ o.out = op[t].out /\ op' = [op EXCEPT ![t] = o]
  BY GoesOnTo DEF InQueue, Goto
<1>7. \A k \in DOMAIN o.out : o.out[k].response => fate'[o.out[k].msg] \in OverByPush
  BY <1>3, <1>5, <1>6, OutStays
<1>8. emptySince' \in [Instances -> Nat \union {Never}]
  BY <1>1, <1>2, TrackType
<1>9. ToSet(p) \intersect f = {} /\ ToSet(p) \union f \subseteq Content(i) \ G /\ f \subseteq Messages
  BY <1>1, <1>2 DEF Content
<1>10. pending' = [pending EXCEPT ![i] = p]
  BY <1>1, <1>2 DEF BodyTypes
<1>11. current' \in [Consumers -> [home : Names, msg : Messages] \union {None}]
  BY <1>1, <1>2, FreedType
<1> HIDE DEF o, f
<1>12. BodyTypes'
  <2>1. inFlight' \in [Instances -> SUBSET Messages]
    BY <1>1, <1>2, <1>9 DEF BodyTypes
  <2> QED BY <1>1, <1>2, <1>5, <1>8, <1>11, <2>1 DEF BodyTypes
<1>13. /\ \A x \in G : fate'[x] \notin {"live", "sent"}
       /\ \A x \in Messages \ G : fate'[x] = fate[x] /\ entry'[x].home = entry[x].home
  BY <1>5
<1> HIDE DEF G, p, i
<1> QED BY <1>1, <1>2, <1>3, <1>6, <1>7, <1>9, <1>10, <1>12, <1>13, QueueStep

\* An abandoned message goes back to the head of the line.
LEMMA GoesBackType ==
  ASSUME TypeInv, NEW t \in Threads, op[t].pc = "gate", NEW m, GoesBack(t, op[t].inst, m),
         Enter(op[t].inst, t), Goto(t, "dispatch"), UNCHANGED stableVars
  PROVE  TypeInv'
<1> DEFINE i == op[t].inst
           o == [op[t] EXCEPT !.pc = "dispatch"]
           p == <<m>> \o pending[i]
           f == inFlight[i] \ {m}
           G == {}
<1>1. i \in Instances /\ BodyTypes /\ GateType /\ GateType'
      /\ pending[i] \in Seq(Messages) /\ inFlight[i] \subseteq Messages /\ IsInjective(pending[i])
      /\ ToSet(pending[i]) \intersect inFlight[i] = {}
  BY InGate DEF GateType, Enter
<1>2. /\ m \in inFlight[i]
      /\ inFlight' = [inFlight EXCEPT ![i] = f]
      /\ pending' = [pending EXCEPT ![i] = p]
      /\ emptySince' = [emptySince EXCEPT ![i] = Never]
      /\ entry' = [entry EXCEPT ![m].owner = None]
      /\ current' = [current EXCEPT ![t] = None]
      /\ UNCHANGED << bound, nextConsumer, fate, dead, cstate, lastQueue >>
  BY DEF GoesBack, Owns
<1>3. m \in Messages /\ entry[m] \in Entries
  BY <1>1, <1>2, OwnedIsLive DEF Content
<1>4. o \in Ops /\ Fits(t, o) /\ ~Joins(o) /\ o.out = op[t].out /\ op' = [op EXCEPT ![t] = o]
  BY GoesOnTo DEF InQueue, Goto
<1>5. \A k \in DOMAIN o.out : o.out[k].response => fate'[o.out[k].msg] \in OverByPush
  BY <1>2, <1>4 DEF TypeInv, Places, AnswersOver
<1>6. p \in Seq(Messages) /\ ToSet(p) = ToSet(pending[i]) \union {m} /\ IsInjective(p)
  BY <1>1, <1>2, <1>3, LineElements
<1> HIDE DEF p, o
<1>7. ToSet(p) \intersect f = {} /\ ToSet(p) \union f \subseteq Content(i) \ G /\ f \subseteq Messages
  BY <1>1, <1>2, <1>6 DEF Content
<1>8. current' \in [Consumers -> [home : Names, msg : Messages] \union {None}]
  BY <1>1, <1>2, FreedType
<1>9. entry' \in [Messages -> Entries] /\ \A x \in Messages : entry'[x].home = entry[x].home
  <2>1. entry'[m] = [entry[m] EXCEPT !.owner = None]
    BY <1>1, <1>2, <1>3 DEF BodyTypes
  <2>2. entry'[m] \in Entries /\ entry'[m].home = entry[m].home
    BY <1>3, <2>1 DEF Entries
  <2> QED BY <1>1, <1>2, <2>1, <2>2 DEF BodyTypes
<1> HIDE DEF f
<1>10. BodyTypes'
  <2>1. pending' \in [Instances -> Seq(Messages)] /\ inFlight' \in [Instances -> SUBSET Messages]
        /\ emptySince' \in [Instances -> Nat \union {Never}]
    BY <1>1, <1>2, <1>6, <1>7 DEF BodyTypes
  <2> QED BY <1>1, <1>2, <1>8, <1>9, <2>1 DEF BodyTypes
<1>11. /\ G \in SUBSET Content(i)
       /\ \A x \in G : fate'[x] \notin {"live", "sent"}
       /\ \A x \in Messages \ G : fate'[x] = fate[x] /\ entry'[x].home = entry[x].home
  BY <1>2, <1>9
<1> HIDE DEF G, i
<1> QED BY <1>1, <1>2, <1>4, <1>5, <1>6, <1>7, <1>10, <1>11, QueueStep

\* Abandon: nothing to do, the message is dead, or it goes back.
LEMMA AbandonType == ASSUME TypeInv, NEW t \in Threads, AbandonLocked(t) PROVE TypeInv'
<1> DEFINE i == op[t].inst
           m == op[t].msg
<1>1. op[t].pc = "gate" /\ UNCHANGED stableVars
  BY DEF AbandonLocked, At
<1>2. CASE Unlocked(i) /\ Goto(t, "hand") /\ UNCHANGED bodyVars
  <2>1. GateType'
    BY <1>1, <1>2, InGate DEF Unlocked, GateType
  <2> QED BY <1>1, <1>2, <2>1, NothingDone
<1>3. CASE Unlocked(i) /\ DiesUnconfirmed(t, i, m) /\ Goto(t, "hand")
  BY <1>1, <1>3, DiesType DEF Unlocked
<1>4. CASE Enter(i, t) /\ GoesBack(t, i, m) /\ Goto(t, "dispatch")
  BY <1>1, <1>4, GoesBackType
<1> QED BY <1>2, <1>3, <1>4 DEF AbandonLocked
===============================================================================
