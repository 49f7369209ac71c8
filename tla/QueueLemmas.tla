----------------------------- MODULE QueueLemmas -----------------------------
(***************************************************************************)
(* What the proofs need to know of queues: sequences that grow at the end  *)
(* and are taken from at the front.                                        *)
(***************************************************************************)
EXTENDS SequenceTheorems, FiniteSetTheorems, WellFoundedInduction, SequencesExt, TLAPS

\* What a sequence holds after an element was appended.
LEMMA Appended ==
  ASSUME NEW S, NEW q \in Seq(S), NEW x \in S
  PROVE  /\ Append(q, x) \in Seq(S)
         /\ Len(Append(q, x)) = Len(q) + 1
         /\ Append(q, x)[Len(q) + 1] = x
         /\ \A i \in 1..Len(q) : Append(q, x)[i] = q[i]
         /\ Append(q, x) # <<>>
  OBVIOUS

\* What a sequence holds after its first element was taken.
LEMMA Tailed ==
  ASSUME NEW S, NEW q \in Seq(S), q # <<>>
  PROVE  /\ Len(q) \in Nat \ {0}
         /\ Head(q) = q[1] /\ q[1] \in S
         /\ Tail(q) \in Seq(S)
         /\ Len(Tail(q)) = Len(q) - 1
         /\ \A i \in 1..Len(q) - 1 : Tail(q)[i] = q[i + 1]
         /\ Tail(q) = <<>> <=> Len(q) = 1
<1>1. Len(q) \in Nat \ {0} /\ Head(q) = q[1] /\ q[1] \in S
  BY EmptySeq
<1>2. /\ Tail(q) \in Seq(S) /\ Len(Tail(q)) = Len(q) - 1
      /\ \A i \in 1..Len(q) - 1 : Tail(q)[i] = q[i + 1]
  BY HeadTailProperties
<1>3. Tail(q) = <<>> <=> Len(Tail(q)) = 0
  BY <1>2, EmptySeq
<1> QED
  BY <1>1, <1>2, <1>3

\* A sequence without elements is empty.
LEMMA Sequence ==
  ASSUME NEW S, NEW q \in Seq(S)
  PROVE  /\ Len(q) \in Nat /\ DOMAIN q = 1..Len(q)
         /\ \A i \in 1..Len(q) : q[i] \in S
         /\ q = <<>> <=> Len(q) = 0
  OBVIOUS

\* The elements of a queue, before and after.
LEMMA Elements ==
  ASSUME NEW S, NEW q \in Seq(S)
  PROVE  /\ ToSet(q) \subseteq S
         /\ \A i \in 1..Len(q) : q[i] \in ToSet(q)
         /\ \A x \in ToSet(q) : \E i \in 1..Len(q) : x = q[i]
         /\ \A x \in S : ToSet(Append(q, x)) = ToSet(q) \cup {x}
         /\ q # <<>> => Head(q) \in ToSet(q) /\ ToSet(Tail(q)) \subseteq ToSet(q)
<1>1. \A p \in Seq(S) : ToSet(p) = {p[i] : i \in 1..Len(p)}
  BY Sequence DEF ToSet
<1>2. ASSUME NEW x \in S PROVE ToSet(Append(q, x)) = ToSet(q) \cup {x}
  <2>1. ToSet(Append(q, x)) = {Append(q, x)[i] : i \in 1..Len(q) + 1}
    <3>1. Append(q, x) \in Seq(S) /\ Len(Append(q, x)) = Len(q) + 1
      BY Appended
    <3>2. ToSet(Append(q, x)) = {Append(q, x)[i] : i \in 1..Len(Append(q, x))}
      BY <1>1, <3>1
    <3> QED
      BY <3>1, <3>2
  <2>2. ToSet(Append(q, x)) \subseteq ToSet(q) \cup {x}
    <3> SUFFICES ASSUME NEW i \in 1..Len(q) + 1
                 PROVE  Append(q, x)[i] \in ToSet(q) \cup {x}
      BY <2>1
    <3>1. i = Len(q) + 1 \/ i \in 1..Len(q)
      BY Sequence
    <3> QED
      BY <1>1, <3>1, Appended
  <2>3. \A i \in 1..Len(q) : i \in 1..Len(q) + 1 /\ Append(q, x)[i] = q[i]
    BY Appended, Sequence
  <2>4. Len(q) + 1 \in 1..Len(q) + 1 /\ Append(q, x)[Len(q) + 1] = x
    BY Appended, Sequence
  <2> QED
    BY <1>1, <2>1, <2>2, <2>3, <2>4
<1>3. ASSUME q # <<>> PROVE Head(q) \in ToSet(q) /\ ToSet(Tail(q)) \subseteq ToSet(q)
  <2>1. ToSet(Tail(q)) = {Tail(q)[i] : i \in 1..Len(q) - 1}
    BY ZenonT(30), <1>1, <1>3, Tailed
  <2> QED
    BY <1>1, <1>3, <2>1, Tailed
<1> QED
  BY <1>1, <1>2, <1>3, Sequence

\* How many of a queue's elements are in T.
Tally(q, T) == Cardinality({i \in DOMAIN q : q[i] \in T})

\* A tally is a number, and zero when there is none.
LEMMA Tallied ==
  ASSUME NEW S, NEW q \in Seq(S), NEW T
  PROVE  /\ IsFiniteSet({i \in DOMAIN q : q[i] \in T})
         /\ Tally(q, T) \in Nat
         /\ Tally(q, T) = 0 <=> \A i \in DOMAIN q : q[i] \notin T
<1>1. IsFiniteSet(1..Len(q))
  BY Sequence, FS_Interval
<1>2. IsFiniteSet({i \in DOMAIN q : q[i] \in T})
  BY <1>1, Sequence, FS_Subset
<1> QED
  BY <1>2, FS_CardinalityType, FS_EmptySet DEF Tally

\* Nothing is tallied of the empty queue.
LEMMA TallyNone == \A T : Tally(<<>>, T) = 0
<1>1. \A T : {i \in DOMAIN <<>> : <<>>[i] \in T} = {}
  OBVIOUS
<1> QED
  BY <1>1, FS_EmptySet DEF Tally

\* An element appended is tallied.
LEMMA TallyAppended ==
  ASSUME NEW S, NEW q \in Seq(S), NEW x \in S, NEW T
  PROVE  Tally(Append(q, x), T) = Tally(q, T) + (IF x \in T THEN 1 ELSE 0)
<1> DEFINE A == {i \in DOMAIN q : q[i] \in T}
           B == {i \in DOMAIN Append(q, x) : Append(q, x)[i] \in T}
<1>1. /\ DOMAIN q = 1..Len(q) /\ DOMAIN Append(q, x) = 1..Len(q) + 1 /\ Len(q) \in Nat
      /\ Append(q, x)[Len(q) + 1] = x /\ \A i \in 1..Len(q) : Append(q, x)[i] = q[i]
  BY Appended, Sequence
<1>2. \A i \in 1..Len(q) + 1 : i \in 1..Len(q) \/ i = Len(q) + 1
  BY <1>1
<1>3. Len(q) + 1 \notin 1..Len(q) /\ 1..Len(q) \subseteq 1..Len(q) + 1
  BY <1>1
<1>4. IsFiniteSet(A) /\ Cardinality(A) \in Nat
  BY Tallied, FS_CardinalityType
<1>5. CASE x \in T
  <2>1. B = A \cup {Len(q) + 1}
    BY <1>1, <1>2, <1>3, <1>5
  <2>2. Len(q) + 1 \notin A
    BY <1>1, <1>3
  <2>3. Tally(q, T) = Cardinality(A) /\ Tally(Append(q, x), T) = Cardinality(B)
    BY DEF Tally
  <2> HIDE DEF A, B
  <2>4. Cardinality(B) = Cardinality(A) + 1
    BY <1>4, <2>1, <2>2, FS_AddElement
  <2> QED
    BY <1>5, <2>3, <2>4
<1>6. CASE x \notin T
  <2>1. B = A
    BY <1>1, <1>2, <1>3, <1>6
  <2>2. Tally(q, T) = Cardinality(A) /\ Tally(Append(q, x), T) = Cardinality(B)
    BY DEF Tally
  <2> HIDE DEF A, B
  <2> QED
    BY <1>4, <1>6, <2>1, <2>2
<1> QED
  BY <1>5, <1>6

\* The element taken from the front is tallied no more.
LEMMA TallyTailed ==
  ASSUME NEW S, NEW q \in Seq(S), q # <<>>, NEW T
  PROVE  Tally(Tail(q), T) = Tally(q, T) - (IF Head(q) \in T THEN 1 ELSE 0)
<1> DEFINE A == {i \in DOMAIN q : q[i] \in T}
           C == A \ {1}
           B == {i \in DOMAIN Tail(q) : Tail(q)[i] \in T}
           f == [i \in B |-> i + 1]
<1>1. /\ Len(q) \in Nat \ {0} /\ DOMAIN q = 1..Len(q) /\ DOMAIN Tail(q) = 1..Len(q) - 1
      /\ Head(q) = q[1] /\ \A i \in 1..Len(q) - 1 : Tail(q)[i] = q[i + 1]
  BY Tailed, Sequence
<1>2. f \in Bijection(B, C)
  <2>1. f \in [B -> C]
    <3> SUFFICES ASSUME NEW i \in B PROVE i + 1 \in C
      OBVIOUS
    <3> QED
      BY <1>1
  <2>2. \A i, j \in B : f[i] = f[j] => i = j
    BY <1>1
  <2>3. \A k \in C : \E i \in B : f[i] = k
    <3> SUFFICES ASSUME NEW k \in C PROVE k - 1 \in B /\ f[k - 1] = k
      OBVIOUS
    <3>1. k \in 2..Len(q) /\ q[k] \in T
      BY <1>1
    <3>2. k - 1 \in 1..Len(q) - 1 /\ (k - 1) + 1 = k
      BY <1>1, <3>1
    <3>3. k - 1 \in B
      BY <1>1, <3>1, <3>2
    <3> QED
      BY <3>2, <3>3
  <2> QED
    BY <2>1, <2>2, <2>3 DEF Bijection, Injection, Surjection, IsInjective
<1>3. IsFiniteSet(A) /\ IsFiniteSet(B)
  <2>1. Tail(q) \in Seq(S)
    BY Tailed
  <2> QED
    BY <2>1, Tallied
<1>8. Tally(q, T) = Cardinality(A) /\ Tally(Tail(q), T) = Cardinality(B)
  BY DEF Tally
<1> HIDE DEF A, B, f
<1>4. Cardinality(C) = Cardinality(B)
  BY <1>2, <1>3, FS_Bijection DEF ExistsBijection
<1>5. Cardinality(C) = IF 1 \in A THEN Cardinality(A) - 1 ELSE Cardinality(A)
  BY <1>3, FS_RemoveElement
<1>6. 1 \in A <=> Head(q) \in T
  BY <1>1 DEF A
<1>7. Cardinality(A) \in Nat
  BY <1>3, FS_CardinalityType
<1> QED
  BY <1>4, <1>5, <1>6, <1>7, <1>8

\* Numbers that are not none have a least.
LEMMA LeastOf ==
  ASSUME NEW T, T \subseteq Nat, T # {}
  PROVE  \E x \in T : \A y \in T : x <= y
<1> DEFINE R == OpToRel(<, Nat)
<1>1. IsWellFoundedOn(R, Nat)
  BY NatLessThanWellFounded
<1>2. R = {ss \in Nat \X Nat : ss[1] < ss[2]}
  BY Zenon DEF OpToRel
<1> HIDE DEF R
<1>3. \E x \in T : \A y \in T : ~(<<y, x>> \in R)
  BY <1>1, WFMin
<1>4. \A x, y \in Nat : ~(<<y, x>> \in R) => x <= y
  BY <1>2
<1> QED
  BY <1>3, <1>4

\* How often x is in a queue.
Times(q, x) == Cardinality({i \in DOMAIN q : q[i] = x})

\* Nothing is in the empty queue.
LEMMA TimesNone == \A x : Times(<<>>, x) = 0
<1>1. \A x : {i \in DOMAIN <<>> : <<>>[i] = x} = {}
  OBVIOUS
<1> QED
  BY <1>1, FS_EmptySet DEF Times

\* Times is a tally.
LEMMA TimesIsTally ==
  ASSUME NEW q, NEW x
  PROVE  Times(q, x) = Tally(q, {x})
<1>1. {i \in DOMAIN q : q[i] = x} = {i \in DOMAIN q : q[i] \in {x}}
  OBVIOUS
<1> QED
  BY <1>1 DEF Times, Tally

\* An element of a queue is in it at least once.
LEMMA TimesElement ==
  ASSUME NEW S, NEW q \in Seq(S), NEW x
  PROVE  Times(q, x) \in Nat /\ (Times(q, x) = 0 <=> x \notin ToSet(q))
<1>1. Tally(q, {x}) \in Nat /\ (Tally(q, {x}) = 0 <=> \A i \in DOMAIN q : q[i] \notin {x})
  BY Tallied
<1> QED
  BY <1>1, TimesIsTally DEF ToSet

\* An element appended is there once more.
LEMMA TimesAppended ==
  ASSUME NEW S, NEW q \in Seq(S), NEW y \in S, NEW x
  PROVE  Times(Append(q, y), x) = Times(q, x) + (IF x = y THEN 1 ELSE 0)
<1>1. Tally(Append(q, y), {x}) = Tally(q, {x}) + (IF y \in {x} THEN 1 ELSE 0)
  BY TallyAppended
<1> QED
  BY <1>1, TimesIsTally

\* The element taken from the front is there once less.
LEMMA TimesTailed ==
  ASSUME NEW S, NEW q \in Seq(S), q # <<>>, NEW x
  PROVE  Times(Tail(q), x) = Times(q, x) - (IF x = Head(q) THEN 1 ELSE 0)
  BY TallyTailed, TimesIsTally

\* A queue put behind another.
LEMMA TimesJoined ==
  ASSUME NEW S, NEW p \in Seq(S), NEW q \in Seq(S), NEW x
  PROVE  p \o q \in Seq(S) /\ Times(p \o q, x) = Times(p, x) + Times(q, x)
<1> DEFINE A == {i \in DOMAIN p : p[i] = x}
           B == {i \in DOMAIN q : q[i] = x}
           C == {i \in DOMAIN (p \o q) : (p \o q)[i] = x}
           D == {i \in C : i > Len(p)}
           f == [i \in B |-> i + Len(p)]
<1>1. /\ p \o q \in Seq(S) /\ Len(p) \in Nat /\ Len(q) \in Nat
      /\ DOMAIN p = 1..Len(p) /\ DOMAIN q = 1..Len(q) /\ DOMAIN (p \o q) = 1..Len(p) + Len(q)
      /\ \A i \in 1..Len(p) : (p \o q)[i] = p[i]
      /\ \A i \in 1..Len(q) : (p \o q)[i + Len(p)] = q[i]
  BY ConcatProperties
<1>2. f \in Bijection(B, D)
  <2>1. f \in [B -> D]
    <3> SUFFICES ASSUME NEW i \in B PROVE i + Len(p) \in D
      OBVIOUS
    <3>1. i + Len(p) \in 1..Len(p) + Len(q) /\ i + Len(p) > Len(p)
      BY <1>1
    <3> QED
      BY <1>1, <3>1
  <2>2. \A i, j \in B : f[i] = f[j] => i = j
    BY <1>1
  <2>3. \A k \in D : \E i \in B : f[i] = k
    <3> SUFFICES ASSUME NEW k \in D PROVE k - Len(p) \in B /\ f[k - Len(p)] = k
      OBVIOUS
    <3>1. k - Len(p) \in 1..Len(q) /\ (k - Len(p)) + Len(p) = k
      BY <1>1
    <3>2. k - Len(p) \in B
      BY <1>1, <3>1
    <3> QED
      BY <3>1, <3>2
  <2> QED
    BY <2>1, <2>2, <2>3 DEF Bijection, Injection, Surjection, IsInjective
<1>3. IsFiniteSet(1..Len(p)) /\ IsFiniteSet(1..Len(q))
  BY <1>1, FS_Interval
<1>4. IsFiniteSet(A) /\ IsFiniteSet(B)
  BY <1>1, <1>3, FS_Subset
<1>5. C = A \cup D /\ A \cap D = {}
  <2>1. \A i \in 1..Len(p) + Len(q) : i \in 1..Len(p) \/ i > Len(p)
    BY <1>1
  <2>2. \A i \in 1..Len(p) : i \in 1..Len(p) + Len(q) /\ ~(i > Len(p))
    BY <1>1
  <2> QED
    BY <1>1, <2>1, <2>2
<1>6. Times(p, x) = Cardinality(A) /\ Times(q, x) = Cardinality(B) /\ Times(p \o q, x) = Cardinality(C)
  BY DEF Times
<1> HIDE DEF A, B, C, D, f
<1>7. IsFiniteSet(D) /\ Cardinality(D) = Cardinality(B)
  BY <1>2, <1>4, FS_Bijection DEF ExistsBijection
<1>8. Cardinality(A \cup D) = Cardinality(A) + Cardinality(D) - Cardinality(A \cap D)
  BY <1>4, <1>7, FS_Union
<1>9. Cardinality(A \cap D) = 0
  BY <1>5, FS_EmptySet
<1> QED
  BY <1>1, <1>4, <1>5, <1>6, <1>7, <1>8, <1>9, FS_CardinalityType

\* A set made a queue.
LEMMA SetQueue ==
  ASSUME NEW S, NEW T \in SUBSET S, IsFiniteSet(T)
  PROVE  /\ SetToSeq(T) \in Seq(S)
         /\ ToSet(SetToSeq(T)) = T
         /\ \A x : Times(SetToSeq(T), x) = IF x \in T THEN 1 ELSE 0
<1> DEFINE n == Cardinality(T)
           f == SetToSeq(T)
<1>1. n \in Nat /\ ExistsBijection(1..n, T)
  BY FS_CardinalityType
<1>2. \E g \in [1..n -> T] : IsInjective(g)
  BY <1>1 DEF ExistsBijection, Bijection, Injection
<1>3. f \in [1..n -> T] /\ IsInjective(f)
  BY <1>2 DEF SetToSeq
<1> HIDE DEF f
<1>4. f \in Injection(1..n, T)
  BY <1>3 DEF Injection
<1>5. Cardinality(1..n) = n
  BY <1>1, FS_Interval
<1>6. f \in Surjection(1..n, T)
  BY <1>4, <1>5, FS_Injection
<1>7. \A x \in T : \E i \in 1..n : f[i] = x
  BY <1>6 DEF Surjection
<1>8. f \in Seq(S)
  BY <1>1, <1>3
<1>9. DOMAIN f = 1..n
  BY <1>3
<1>10. ToSet(f) = T
  BY <1>3, <1>7, <1>9 DEF ToSet
<1>11. ASSUME NEW x \in T PROVE Times(f, x) = 1
  <2>1. PICK i \in 1..n : f[i] = x
    BY <1>7
  <2>2. \A j \in 1..n : f[j] = x => j = i
    BY <1>3, <1>9, <2>1 DEF IsInjective
  <2>3. {j \in DOMAIN f : f[j] = x} = {i}
    BY <1>9, <2>1, <2>2
  <2> QED
    BY <2>3, FS_Singleton DEF Times
<1>12. ASSUME NEW x, x \notin T PROVE Times(f, x) = 0
  BY <1>8, <1>10, <1>12, TimesElement
<1> QED
  BY <1>8, <1>10, <1>11, <1>12 DEF f

\* The first k elements of a queue are at most k.
LEMMA FirstFew ==
  ASSUME NEW S, NEW q \in Seq(S), NEW k \in 0..Len(q)
  PROVE  /\ ToSet(SubSeq(q, 1, k)) \subseteq ToSet(q)
         /\ IsFiniteSet(ToSet(SubSeq(q, 1, k)))
         /\ Cardinality(ToSet(SubSeq(q, 1, k))) <= k
         /\ Cardinality(ToSet(SubSeq(q, 1, k))) \in Nat
<1> DEFINE p == SubSeq(q, 1, k)
<1>1. Len(q) \in Nat /\ DOMAIN q = 1..Len(q)
  BY Sequence
<1>2. /\ DOMAIN p = 1..k /\ \A i \in 1..k : p[i] = q[i]
  BY <1>1
<1>3. k \in Nat /\ IsFiniteSet(1..k) /\ Cardinality(1..k) = k
  BY <1>1, FS_Interval
<1> HIDE DEF p
<1> DEFINE T == ToSet(p)
           f == [i \in 1..k |-> p[i]]
<1>4. f \in Surjection(1..k, T)
  BY <1>2 DEF ToSet, Surjection
<1>5. IsFiniteSet(T) /\ Cardinality(T) <= k
  BY <1>3, <1>4, FS_Surjection
<1>6. T \subseteq ToSet(q)
  BY <1>1, <1>2 DEF ToSet
<1> QED
  BY <1>5, <1>6, FS_CardinalityType DEF p
=============================================================================
