----------------------------- MODULE ProofFacts -----------------------------
(***************************************************************************)
(* Facts about numbers, loops and queues that the proofs of several        *)
(* modules rest on.  Induction is used in a first-order form: a property   *)
(* is given as the set of the values that have it.                         *)
(***************************************************************************)
EXTENDS Integers, Sequences, SequencesExt, Lists, FiniteSetTheorems,
        WellFoundedInduction, TLAPS

\* A nonempty set of natural numbers has a least element.
LEMMA LeastNumber ==
    ASSUME NEW T \in SUBSET Nat, T # {}
    PROVE  \E x \in T : \A y \in T : x <= y
<1> DEFINE R == {ss \in Nat \X Nat : ss[1] < ss[2]}
<1>1. IsWellFoundedOn(R, Nat)
  BY NatLessThanWellFounded, Zenon DEF OpToRel
<1>2. PICK x \in T : \A y \in T : ~ (<<y, x>> \in R)
  <2> HIDE DEF R
  <2> QED BY <1>1, WFMin, Zenon
<1>3. ASSUME NEW y \in T, y < x
      PROVE  <<y, x>> \in R
  BY <1>3
<1>4. \A y \in T : ~ (y < x)
  <2> HIDE DEF R
  <2> QED BY <1>2, <1>3, Zenon
<1> QED BY <1>4

\* What holds of 0, and with i < n also of i + 1, holds of every number up to n.
LEMMA UpTo ==
    ASSUME NEW n \in Nat, NEW S, 0 \in S,
           \A i \in 0 .. n - 1 : i \in S => i + 1 \in S
    PROVE  \A i \in 0 .. n : i \in S
<1> DEFINE T == {i \in 0 .. n : i \notin S}
<1> SUFFICES ASSUME T # {} PROVE FALSE
  OBVIOUS
<1>1. T \in SUBSET Nat
  OBVIOUS
<1>2. PICK x \in T : \A y \in T : x <= y
  BY <1>1, LeastNumber
<1>3. x # 0 /\ x \in Nat
  OBVIOUS
<1>4. x - 1 \in 0 .. n - 1 /\ x - 1 \notin T
  BY <1>2, <1>3
<1> QED BY <1>4, <1>3

\* A loop of n rounds: g[i] is the value after i of them, and F[i] is what
\* round i does.
LoopFrom(x0, F, n, g) == /\ g[0] = x0
                         /\ \A i \in 1 .. n : g[i] = F[i][g[i - 1]]

\* Every loop over values of a set has run to its end.
LEMMA LoopRuns ==
    ASSUME NEW X, NEW n \in Nat, NEW x0 \in X, NEW F \in [1 .. n -> [X -> X]]
    PROVE  \E g \in [0 .. n -> X] : LoopFrom(x0, F, n, g)
<1> DEFINE Runs(k, g) == LoopFrom(x0, F, k, g)
           S == {k \in 0 .. n : \E g \in [0 .. k -> X] : Runs(k, g)}
<1>1. 0 \in S
  <2>1. [i \in 0 .. 0 |-> x0] \in [0 .. 0 -> X]
    OBVIOUS
  <2>2. Runs(0, [i \in 0 .. 0 |-> x0])
    BY DEF LoopFrom
  <2> HIDE DEF Runs
  <2> QED BY <2>1, <2>2
<1>2. ASSUME NEW k \in 0 .. n - 1, k \in S
      PROVE  k + 1 \in S
  <2>1. PICK g \in [0 .. k -> X] : Runs(k, g)
    BY <1>2
  <2> DEFINE h == [i \in 0 .. k + 1 |->
                      IF i = k + 1 THEN F[k + 1][g[k]] ELSE g[i]]
  <2>2. h \in [0 .. k + 1 -> X]
    <3>1. F[k + 1] \in [X -> X] /\ g[k] \in X
      OBVIOUS
    <3>2. F[k + 1][g[k]] \in X
      BY <3>1
    <3> QED BY <3>2
  <2>3. h[0] = x0
    BY <2>1 DEF LoopFrom
  <2>4. ASSUME NEW i \in 1 .. k + 1
        PROVE  h[i] = F[i][h[i - 1]]
    <3>1. CASE i = k + 1
      BY <3>1
    <3>2. CASE i # k + 1
      BY <3>2, <2>1 DEF LoopFrom
    <3> QED BY <3>1, <3>2
  <2>5. Runs(k + 1, h)
    <3> HIDE DEF h
    <3> QED BY <2>3, <2>4 DEF LoopFrom
  <2>6. k + 1 \in 0 .. n
    OBVIOUS
  <2> HIDE DEF Runs, h
  <2> QED BY <2>2, <2>5, <2>6
<1>3. n \in S
  <2> HIDE DEF S
  <2>1. \A i \in 0 .. n : i \in S
    BY <1>1, <1>2, UpTo
  <2> QED BY <2>1
<1> QED BY <1>3

\* A finite set written as a sequence has its elements and no others.
LEMMA SetToSeqFacts ==
    ASSUME NEW S, IsFiniteSet(S)
    PROVE  /\ SetToSeq(S) \in Seq(S)
           /\ \A x \in S : \E i \in DOMAIN SetToSeq(S) : SetToSeq(S)[i] = x
           /\ IsInjective(SetToSeq(S))
<1> DEFINE n == Cardinality(S)
<1>1. n \in Nat /\ ExistsBijection(1 .. n, S)
  BY FS_CardinalityType
<1>2. \E f \in [1 .. n -> S] : IsInjective(f)
  BY <1>1 DEF ExistsBijection, Bijection, Injection, IsInjective
<1>3. SetToSeq(S) \in [1 .. n -> S] /\ IsInjective(SetToSeq(S))
  BY <1>2, Zenon DEF SetToSeq
<1>4. SetToSeq(S) \in Injection(1 .. n, S)
  BY <1>3 DEF Injection, IsInjective
<1>5. IsFiniteSet(1 .. n) /\ Cardinality(1 .. n) = n
  BY <1>1, FS_Interval
<1>6. SetToSeq(S) \in Surjection(1 .. n, S)
  BY <1>4, <1>5, FS_Injection
<1> HIDE DEF n
<1>7. \A x \in S : \E i \in DOMAIN SetToSeq(S) : SetToSeq(S)[i] = x
  BY <1>6, <1>3 DEF Surjection
<1> QED BY <1>1, <1>3, <1>7

\* Sequence s of length k is increasing.
Increasing(s, k) == \A i, j \in 1 .. k : i < j => s[i] < s[j]

\* A finite set of natural numbers can be put in increasing order.
LEMMA IncreasingOrder ==
    ASSUME NEW S \in SUBSET Nat, IsFiniteSet(S)
    PROVE  \E s \in [1 .. Cardinality(S) -> S] : Increasing(s, Cardinality(S))
<1> DEFINE n == Cardinality(S)
           Ordered(X, k) == \E s \in [1 .. k -> X] : Increasing(s, k)
           T == {k \in 0 .. n : \A X \in SUBSET S :
                                   Cardinality(X) = k => Ordered(X, k)}
<1>1. n \in Nat
  BY FS_CardinalityType
<1>2. 0 \in T
  <2> SUFFICES ASSUME NEW X \in SUBSET S PROVE Ordered(X, 0)
    BY <1>1
  <2>1. [i \in 1 .. 0 |-> 0] \in [1 .. 0 -> X]
    OBVIOUS
  <2>2. Increasing([i \in 1 .. 0 |-> 0], 0)
    BY DEF Increasing
  <2> QED BY <2>1, <2>2, Zenon
<1>3. ASSUME NEW k \in 0 .. n - 1, k \in T
      PROVE  k + 1 \in T
  <2>1. k + 1 \in 0 .. n /\ k \in Nat
    BY <1>1
  <2> SUFFICES ASSUME NEW X \in SUBSET S, Cardinality(X) = k + 1
               PROVE  Ordered(X, k + 1)
    BY <2>1
  <2>2. IsFiniteSet(X)
    BY FS_Subset
  <2>3. X # {} /\ X \in SUBSET Nat
    BY <2>1, FS_EmptySet
  <2>4. PICK x \in X : \A y \in X : x <= y
    BY <2>3, LeastNumber
  <2> DEFINE Y == X \ {x}
  <2>5. Cardinality(Y) = k /\ Y \in SUBSET S
    <3>1. Cardinality(Y) = (k + 1) - 1
      BY <2>2, FS_RemoveElement
    <3> QED BY <2>1, <3>1
  <2>6. PICK s \in [1 .. k -> Y] : Increasing(s, k)
    <3> HIDE DEF Y
    <3> QED BY <1>3, <2>5
  <2> DEFINE h == [i \in 1 .. k + 1 |-> IF i = 1 THEN x ELSE s[i - 1]]
  <2>7. \A i \in 1 .. k : s[i] \in X /\ s[i] \in Nat /\ x < s[i]
    <3>1. \A y \in Y : y \in X /\ y \in Nat /\ x \in Nat /\ x < y
      BY <2>3, <2>4
    <3> HIDE DEF Y
    <3> QED BY <3>1
  <2>8. h \in [1 .. k + 1 -> X]
    BY <2>1, <2>7
  <2>9. Increasing(h, k + 1)
    <3> SUFFICES ASSUME NEW i \in 1 .. k + 1, NEW j \in 1 .. k + 1, i < j
                 PROVE  h[i] < h[j]
      BY DEF Increasing
    <3>1. j - 1 \in 1 .. k /\ h[j] = s[j - 1]
      BY <2>1
    <3>2. CASE i = 1
      BY <2>7, <3>1, <3>2
    <3>3. CASE i # 1
      <4>1. i - 1 \in 1 .. k /\ h[i] = s[i - 1] /\ i - 1 < j - 1
        BY <2>1, <3>3
      <4> QED BY <4>1, <3>1, <2>6 DEF Increasing
    <3> QED BY <3>2, <3>3
  <2> HIDE DEF h
  <2> QED BY <2>8, <2>9
<1>4. n \in T
  <2> HIDE DEF T, n
  <2>1. \A i \in 0 .. n : i \in T
    BY <1>1, <1>2, <1>3, UpTo
  <2> QED BY <1>1, <2>1
<1> HIDE DEF n
<1>5. Ordered(S, n)
  BY <1>4 DEF n
<1> QED BY <1>5 DEF n

\* InOrder lists the elements of its set, each once and in order.
LEMMA InOrderFacts ==
    ASSUME NEW S \in SUBSET Nat, IsFiniteSet(S)
    PROVE  /\ InOrder(S) \in Seq(S) /\ Range(InOrder(S)) = S
           /\ IsInjective(InOrder(S))
           /\ \A i, j \in DOMAIN InOrder(S) : i < j => InOrder(S)[i] < InOrder(S)[j]
<1> DEFINE n == Cardinality(S)
           s == InOrder(S)
<1>1. n \in Nat
  BY FS_CardinalityType
<1>2. s \in [1 .. n -> S] /\ \A i, j \in 1 .. n : i < j => s[i] < s[j]
  <2>1. \E x \in [1 .. n -> S] : \A i, j \in 1 .. n : i < j => x[i] < x[j]
    BY IncreasingOrder DEF Increasing
  <2> QED BY <2>1, Zenon DEF InOrder
<1>3. s \in Seq(S) /\ DOMAIN s = 1 .. n
  <2> HIDE DEF n, s
  <2> QED BY <1>1, <1>2
<1>4. ASSUME NEW i \in 1 .. n, NEW j \in 1 .. n, s[i] = s[j]
      PROVE  i = j
  <2>1. s[i] \in Nat /\ s[j] \in Nat
    BY <1>2
  <2> HIDE DEF s, n
  <2> QED BY <1>1, <1>2, <1>4, <2>1
<1>5. IsInjective(s)
  <2> HIDE DEF s, n
  <2> QED BY <1>3, <1>4 DEF IsInjective
<1>6. s \in Injection(1 .. n, S)
  <2> HIDE DEF s, n
  <2> QED BY <1>2, <1>5 DEF Injection
<1>7. s \in Surjection(1 .. n, S)
  <2>1. IsFiniteSet(1 .. n) /\ Cardinality(1 .. n) = n
    BY <1>1, FS_Interval
  <2> QED BY <1>6, <2>1, FS_Injection
<1>8. Range(s) = S
  <2>1. s \in [1 .. n -> S] /\ \A x \in S : \E i \in 1 .. n : s[i] = x
    BY <1>7 DEF Surjection
  <2> HIDE DEF s, n
  <2> QED BY <1>3, <2>1 DEF Range
<1> QED BY <1>2, <1>3, <1>5, <1>8

\* OnlyIn keeps what is in S.
LEMMA OnlyInFacts ==
    ASSUME NEW B, NEW list \in Seq(B), NEW S
    PROVE  /\ OnlyIn(list, S) \in Seq(B)
           /\ Range(OnlyIn(list, S)) = Range(list) \cap S
           /\ IsInjective(list) => IsInjective(OnlyIn(list, S))
<1> DEFINE I == {i \in DOMAIN list : list[i] \in S}
           kept == InOrder(I)
           new == [k \in DOMAIN kept |-> list[kept[k]]]
<1>1. DOMAIN list = 1 .. Len(list) /\ Len(list) \in Nat
  OBVIOUS
<1>2. I \in SUBSET Nat /\ IsFiniteSet(I)
  <2>1. IsFiniteSet(1 .. Len(list))
    BY <1>1, FS_Interval
  <2>2. I \subseteq 1 .. Len(list)
    BY <1>1
  <2> QED BY <1>1, <2>1, <2>2, FS_Subset
<1>3. kept \in Seq(I) /\ Range(kept) = I /\ IsInjective(kept)
  <2> HIDE DEF I
  <2> QED BY <1>2, InOrderFacts
<1>4. OnlyIn(list, S) = new
  BY DEF OnlyIn
<1>5. \A i \in I : i \in DOMAIN list /\ list[i] \in B /\ list[i] \in S
  OBVIOUS
<1>6. \A i \in DOMAIN list : list[i] \in S => i \in I
  OBVIOUS
<1> HIDE DEF I
<1>7. DOMAIN kept = 1 .. Len(kept) /\ Len(kept) \in Nat
  BY <1>3
<1>8. \A k \in DOMAIN kept : kept[k] \in I
  BY <1>3
<1>9. \A i \in I : \E k \in DOMAIN kept : kept[k] = i
  BY <1>3 DEF Range
<1> HIDE DEF kept
<1>10. new \in Seq(B)
  BY <1>7, <1>8, <1>5
<1>11. Range(new) = Range(list) \cap S
  <2>1. ASSUME NEW x \in Range(new) PROVE x \in Range(list) \cap S
    BY <1>5, <1>8 DEF Range
  <2>2. ASSUME NEW x \in Range(list) \cap S PROVE x \in Range(new)
    <3>1. PICK i \in DOMAIN list : x = list[i]
      BY DEF Range
    <3>2. PICK k \in DOMAIN kept : kept[k] = i
      BY <1>6, <1>9, <3>1
    <3> QED BY <3>1, <3>2 DEF Range
  <2> QED BY <2>1, <2>2
<1>12. IsInjective(list) => IsInjective(new)
  BY <1>3, <1>5, <1>8 DEF IsInjective
<1> QED BY <1>4, <1>10, <1>11, <1>12

(***************************************************************************)
(* The ways an event queue changes.                                        *)
(***************************************************************************)

\* Popping an event leaves the others, one place forward.
LEMMA TailOf ==
    ASSUME NEW S, NEW q \in Seq(S), q # <<>>
    PROVE  /\ Tail(q) \in Seq(S)
           /\ DOMAIN q = 1 .. Len(q) /\ DOMAIN Tail(q) = 1 .. Len(q) - 1
           /\ Head(q) = q[1] /\ Head(q) \in S /\ 1 \in DOMAIN q
           /\ \A i \in DOMAIN Tail(q) : i + 1 \in DOMAIN q /\ Tail(q)[i] = q[i + 1]
           /\ \A i \in DOMAIN q : i # 1 => /\ i - 1 \in DOMAIN Tail(q)
                                          /\ Tail(q)[i - 1] = q[i]
  OBVIOUS

\* What is appended comes behind what is there.
LEMMA ConcatOf ==
    ASSUME NEW S, NEW q \in Seq(S), NEW r \in Seq(S)
    PROVE  /\ q \o r \in Seq(S)
           /\ DOMAIN q = 1 .. Len(q) /\ DOMAIN r = 1 .. Len(r)
           /\ DOMAIN (q \o r) = 1 .. Len(q) + Len(r)
           /\ \A i \in DOMAIN q : i \in DOMAIN (q \o r) /\ (q \o r)[i] = q[i]
           /\ \A i \in DOMAIN r : /\ Len(q) + i \in DOMAIN (q \o r)
                                   /\ (q \o r)[Len(q) + i] = r[i]
           /\ \A i \in DOMAIN (q \o r) :
                 \/ i \in DOMAIN q /\ (q \o r)[i] = q[i]
                 \/ i - Len(q) \in DOMAIN r /\ (q \o r)[i] = r[i - Len(q)]
<1>1. DOMAIN q = 1 .. Len(q) /\ DOMAIN r = 1 .. Len(r)
  OBVIOUS
<1>2. DOMAIN (q \o r) = 1 .. Len(q) + Len(r) /\ q \o r \in Seq(S)
  OBVIOUS
<1>3. \A i \in DOMAIN (q \o r) : 
          (q \o r)[i] = IF i <= Len(q) THEN q[i] ELSE r[i - Len(q)]
  OBVIOUS
<1> QED BY <1>1, <1>2, <1>3

\* A single event is appended.
LEMMA AppendOf ==
    ASSUME NEW S, NEW q \in Seq(S), NEW e \in S
    PROVE  /\ Append(q, e) \in Seq(S)
           /\ DOMAIN q = 1 .. Len(q)
           /\ DOMAIN Append(q, e) = 1 .. Len(q) + 1
           /\ Append(q, e)[Len(q) + 1] = e
           /\ \A i \in DOMAIN q : /\ i \in DOMAIN Append(q, e)
                                   /\ Append(q, e)[i] = q[i]
           /\ \A i \in DOMAIN Append(q, e) : i \in DOMAIN q \/ i = Len(q) + 1
  OBVIOUS

\* A single event is put in front.
LEMMA ConsOf ==
    ASSUME NEW S, NEW q \in Seq(S), NEW e \in S
    PROVE  /\ <<e>> \o q \in Seq(S)
           /\ DOMAIN q = 1 .. Len(q)
           /\ DOMAIN (<<e>> \o q) = 1 .. Len(q) + 1
           /\ (<<e>> \o q)[1] = e
           /\ \A i \in DOMAIN q : (<<e>> \o q)[i + 1] = q[i]
           /\ \A i \in DOMAIN (<<e>> \o q) :
                 i = 1 \/ (i - 1 \in DOMAIN q /\ (<<e>> \o q)[i] = q[i - 1])
  OBVIOUS
=============================================================================
