------------------------- MODULE Reassembly_proofs -------------------------
(***************************************************************************)
(* Proofs about Reassembly, for every payload length, every set of         *)
(* transmitted fragments and every bound.                                  *)
(***************************************************************************)
EXTENDS Reassembly, ProofFacts

EventTypes == {"received", "completed", "deliver", "delivered", "delete",
               "expired", "free"}

EventSet(n) == [type : EventTypes, id : 1 .. n,
                src : {"peer", "frag", "store", "none"}, list : Seq(1 .. n)]

\* Everything that is named is a bundle object, and TypeOK.
TypeInv ==
    /\ TypeOK
    /\ Len(bundles) - arrivals \in 0 .. MaxStates
    /\ eventq \in Seq(EventSet(Len(bundles)))
    /\ pending \cup stored \cup reg.queued \cup reg.out \cup reloaded
           \subseteq 1 .. Len(bundles)
    /\ state.list \in Seq(1 .. Len(bundles))
    /\ state.list # <<>> => state.bundle \in 1 .. Len(bundles)
    /\ state # NoState <=> state.list # <<>>

\* A bundle object that is complete as what it says it is.
Sound(bs, i) == bs[i].frag \/ bs[i].data = Bytes

SortedList(bs, list) ==
    \A j, k \in DOMAIN list : j <= k => bs[list[j]].off <= bs[list[k]].off

\* Every byte of the payload is in some fragment of the list.
Covers(bs, list) == \A p \in Bytes : \E k \in DOMAIN list : p \in bs[list[k]].data

\* A reassembly state's list is sorted, holds fragments, and their data is in
\* the state's bundle, which they do not complete.
ListOK(bs, st) ==
    /\ \A k \in DOMAIN st.list : /\ bs[st.list[k]].frag
                                 /\ bs[st.list[k]].data \subseteq bs[st.bundle].data
    /\ st.list # <<>> => ~bs[st.bundle].frag
    /\ SortedList(bs, st.list)
    /\ st.list # <<>> => ~Covers(bs, st.list)

\* What an event says of its bundle.
EventSound(bs, e) ==
    /\ Sound(bs, e.id)
    /\ e.type \in {"deliver", "delivered", "completed"} => ~bs[e.id].frag
    /\ e.src = "frag" => ~bs[e.id].frag
    /\ e.type = "delete" => bs[e.id].frag
    /\ e.type = "completed" => \A k \in DOMAIN e.list : bs[e.list[k]].frag

\* A fragment's offset, length and data fit together.
GoodFragment(bs, x) ==
    /\ bs[x].off \in Nat /\ bs[x].len \in Nat
    /\ bs[x].off + bs[x].len <= OrigLength
    /\ bs[x].data = SpanOf(bs[x].off, bs[x].len)

\* The data of the bundles: what is pending, stored, delivered or named by an
\* event is what it says it is.
DataInv ==
    /\ \A i \in 1 .. Len(bundles) : bundles[i].frag => GoodFragment(bundles, i)
    /\ \A i \in pending \cup stored : Sound(bundles, i)
    /\ DeliveredIsWhole
    /\ \A i \in Ids : fwdlog[i] # "none" => /\ i \in 1 .. Len(bundles)
                                            /\ ~bundles[i].frag
    /\ \A k \in DOMAIN eventq : EventSound(bundles, eventq[k])
    /\ ListOK(bundles, state)

InList(list, i) == \E k \in DOMAIN list : list[k] = i

\* An event that takes the bundle i out of the pending list.
Takes(e, i) == \/ e.type \in {"delete", "expired"} /\ e.id = i
               \/ e.type = "completed" /\ InList(e.list, i)

Doomed(i) == \E k \in DOMAIN eventq : Takes(eventq[k], i)

\* The fragments of the reassembly state are pending; a pending fragment is in
\* the state, or an event will take it away, unless it was read back or is late.
StateInv ==
    /\ \A k \in DOMAIN state.list : state.list[k] \in pending
    /\ \A i \in pending :
           bundles[i].frag => InList(state.list, i) \/ Doomed(i) \/ i \in reloaded \/ over
    /\ \A k \in DOMAIN eventq : eventq[k].src = "store" => eventq[k].id \in reloaded

\* Events that bring a bundle the node has not had.
Brings(e) == e.type = "completed" \/ (e.type = "received" /\ e.src # "store")

NamedBy(e, i) == e.id = i \/ InList(e.list, i)

InUse == pending \cup reg.queued \cup reg.out \cup Range(state.list)

Used == InUse \cup stored \cup {i \in Ids : fwdlog[i] # "none"}

\* Such a bundle is named by its event and by nothing else, and the bundle
\* under reassembly by the state alone.
BirthInv ==
    /\ \A k \in DOMAIN eventq : Brings(eventq[k]) =>
           /\ eventq[k].id \notin Used
           /\ ~InList(eventq[k].list, eventq[k].id)
           /\ \A l \in DOMAIN eventq : l # k => ~NamedBy(eventq[l], eventq[k].id)
    /\ state # NoState =>
           /\ state.bundle \notin Used
           /\ \A l \in DOMAIN eventq : ~NamedBy(eventq[l], state.bundle)
    /\ \A k \in DOMAIN eventq : eventq[k].type # "completed" => eventq[k].list = <<>>

\* What is to be freed is not in use and in no event that is still to be
\* handled; what is pending is stored.
FreeInv ==
    /\ \A i \in pending : i \in stored
    /\ \A k \in DOMAIN eventq : eventq[k].type = "free" =>
           /\ eventq[k].id \notin InUse
           /\ \A l \in DOMAIN eventq :
                 eventq[l].type # "free" => ~NamedBy(eventq[l], eventq[k].id)

\* Nothing has been delivered, and nothing has expired.
Undisturbed == /\ ~over /\ console = 0
               /\ \A i \in Ids : fwdlog[i] # "DELIVERED"

IsFromFrag(e) == e.type = "completed" \/ (e.type = "received" /\ e.src = "frag")

HasWhole == \E i \in pending : ~bundles[i].frag

\* The data of a bundle is in the pending bundles too, or in the reassembled
\* bundle that the next event brings.
Kept(i) == \/ \A p \in bundles[i].data : \E j \in pending : p \in bundles[j].data
           \/ \E l \in DOMAIN eventq : eventq[l].type = "received" /\ eventq[l].src = "frag"

\* What an event promises: what is to be delivered is pending, fragments are
\* deleted for the sake of a whole bundle, and what is to be freed is kept.
FineEvent(e) ==
    /\ e.type \notin {"delivered", "expired"}
    /\ e.type = "deliver" => e.id \in pending
    /\ e.type = "delete" => HasWhole
    /\ e.type = "free" => Kept(e.id)

\* A reassembled bundle is received before anything else happens, and nothing
\* leaves the store unnoticed.
Safe ==
    /\ \A i \in stored : i \in InUse \/ \E l \in DOMAIN eventq : NamedBy(eventq[l], i)
    /\ reg.queued = {} /\ reg.out = {}
    /\ \A k \in DOMAIN eventq : FineEvent(eventq[k]) /\ (IsFromFrag(eventq[k]) => k = 1)

StoreInv == Undisturbed => Safe
----------------------------------------------------------------------------
(* The reassembly list.                                                    *)

\* Erasing bundles from a list keeps the others, in their order.
LEMMA WithoutFacts ==
    ASSUME NEW S, NEW list \in Seq(S), NEW ids
    PROVE  /\ Without(list, ids) \in Seq(S)
           /\ \A j \in DOMAIN Without(list, ids) :
                  \E m \in DOMAIN list : /\ Without(list, ids)[j] = list[m]
                                         /\ list[m] \notin ids
           /\ \A j, k \in DOMAIN Without(list, ids) : j <= k =>
                  \E m, p \in DOMAIN list : /\ m <= p
                                            /\ Without(list, ids)[j] = list[m]
                                            /\ Without(list, ids)[k] = list[p]
           /\ \A m \in DOMAIN list : list[m] \notin ids =>
                  \E k \in DOMAIN Without(list, ids) :
                      Without(list, ids)[k] = list[m]
<1> DEFINE n == Len(list)
           X == Seq(S)
           Keep(x, i) == IF list[i] \in ids THEN x ELSE Append(x, list[i])
           F == [i \in 1 .. n |-> [x \in X |-> Keep(x, i)]]
           left == CHOOSE left : left =
                      [k \in 0 .. n |-> IF k = 0 THEN <<>>
                                        ELSE IF list[k] \in ids THEN left[k - 1]
                                        ELSE Append(left[k - 1], list[k])]
<1>1. n \in Nat /\ \A i \in 1 .. n : list[i] \in S
  OBVIOUS
<1>2. \A x \in X, i \in 1 .. n : Keep(x, i) \in X
  BY <1>1
<1>3. F \in [1 .. n -> [X -> X]] /\ <<>> \in X
  BY <1>1, <1>2
<1>4. PICK g \in [0 .. n -> X] : LoopFrom(<<>>, F, n, g)
  <2> HIDE DEF F, n, X, left
  <2> QED BY <1>1, <1>3, LoopRuns
<1>5. g = [k \in 0 .. n |-> IF k = 0 THEN <<>>
                            ELSE IF list[k] \in ids THEN g[k - 1]
                            ELSE Append(g[k - 1], list[k])]
  <2>1. ASSUME NEW i \in 0 .. n, i # 0
        PROVE  F[i][g[i - 1]] = Keep(g[i - 1], i)
    <3>1. i \in 1 .. n /\ i - 1 \in 0 .. n
      BY <1>1, <2>1
    <3>2. g[i - 1] \in X
      BY <3>1
    <3> QED BY <3>1, <3>2
  <2>2. \A i \in 0 .. n : i # 0 => i \in 1 .. n
    BY <1>1
  <2>3. 0 \in 0 .. n
    BY <1>1
  <2>4. \A i \in 0 .. n : i # 0 => g[i] = Keep(g[i - 1], i)
    <3> HIDE DEF F, n, Keep
    <3> QED BY <1>4, <2>1, <2>2 DEF LoopFrom
  <2>5. g[0] = <<>>
    BY <1>4 DEF LoopFrom
  <2> HIDE DEF F, n, X
  <2> QED BY <2>3, <2>4, <2>5
<1>6. left = [k \in 0 .. n |-> IF k = 0 THEN <<>>
                               ELSE IF list[k] \in ids THEN left[k - 1]
                               ELSE Append(left[k - 1], list[k])]
  <2> HIDE DEF n, F, X
  <2> QED BY <1>5, Zenon
<1>7. Without(list, ids) = left[n]
  BY DEF Without
<1> HIDE DEF left
<1> DEFINE A(i, x) == \A j \in DOMAIN x : \E m \in 1 .. i :
                          x[j] = list[m] /\ list[m] \notin ids
           B(i, x) == \A j, k \in DOMAIN x : j <= k =>
                          \E m, p \in 1 .. i : m <= p /\ x[j] = list[m] /\ x[k] = list[p]
           C(i, x) == \A m \in 1 .. i : list[m] \notin ids =>
                          \E k \in DOMAIN x : x[k] = list[m]
           T == {i \in 0 .. n : /\ left[i] \in Seq(S) /\ A(i, left[i])
                                /\ B(i, left[i]) /\ C(i, left[i])}
<1>8. 0 \in T
  <2>1. left[0] = <<>> /\ 0 \in 0 .. n
    BY <1>1, <1>6
  <2>2. <<>> \in Seq(S) /\ A(0, <<>>) /\ B(0, <<>>) /\ C(0, <<>>)
    OBVIOUS
  <2> HIDE DEF A, B, C
  <2> QED BY <2>1, <2>2
<1>9. ASSUME NEW i \in 0 .. n - 1, i \in T
      PROVE  i + 1 \in T
  <2>1. i + 1 \in 1 .. n /\ i + 1 \in 0 .. n /\ i + 1 # 0 /\ (i + 1) - 1 = i
        /\ i \in Nat
    BY <1>1
  <2> DEFINE x == left[i]
             y == left[i + 1]
  <2>2. y = IF list[i + 1] \in ids THEN x ELSE Append(x, list[i + 1])
    <3> HIDE DEF n
    <3> QED BY <1>6, <2>1
  <2>3. x \in Seq(S) /\ A(i, x) /\ B(i, x) /\ C(i, x)
    BY <1>9
  <2>4. list[i + 1] \in S
    BY <1>1, <2>1
  <2> HIDE DEF x, y, n
  <2>5. CASE list[i + 1] \in ids
    <3>1. y = x
      BY <2>2, <2>5
    <3>2. A(i + 1, x) /\ B(i + 1, x)
      BY <2>3, <2>1
    <3>3. C(i + 1, x)
      BY <2>3, <2>1, <2>5
    <3> HIDE DEF A, B, C
    <3> QED BY <2>1, <2>3, <3>1, <3>2, <3>3 DEF y
  <2>6. CASE list[i + 1] \notin ids
    <3>1. y = Append(x, list[i + 1])
      BY <2>2, <2>6
    <3>2. /\ y \in Seq(S) /\ DOMAIN x = 1 .. Len(x) /\ Len(x) \in Nat
          /\ DOMAIN y = 1 .. Len(x) + 1 /\ y[Len(x) + 1] = list[i + 1]
          /\ \A k \in DOMAIN x : y[k] = x[k] /\ k \in DOMAIN y
          /\ \A k \in DOMAIN y : k \in DOMAIN x \/ k = Len(x) + 1
      BY <3>1, <2>3, <2>4
    <3>3. A(i + 1, y)
      <4> SUFFICES ASSUME NEW j \in DOMAIN y
                   PROVE  \E m \in 1 .. i + 1 :
                              y[j] = list[m] /\ list[m] \notin ids
        OBVIOUS
      <4>1. CASE j \in DOMAIN x
        <5>1. PICK m \in 1 .. i : x[j] = list[m] /\ list[m] \notin ids
          BY <2>3, <4>1
        <5> QED BY <5>1, <4>1, <3>2, <2>1
      <4>2. CASE j = Len(x) + 1
        BY <4>2, <3>2, <2>1, <2>6
      <4> QED BY <4>1, <4>2, <3>2
    <3>4. B(i + 1, y)
      <4> SUFFICES ASSUME NEW j \in DOMAIN y, NEW k \in DOMAIN y, j <= k
                   PROVE  \E m, p \in 1 .. i + 1 :
                              m <= p /\ y[j] = list[m] /\ y[k] = list[p]
        OBVIOUS
      <4>1. CASE k \in DOMAIN x
        <5>1. j \in DOMAIN x
          BY <3>2, <4>1
        <5>2. PICK m \in 1 .. i, p \in 1 .. i : m <= p /\ x[j] = list[m] /\ x[k] = list[p]
          BY <2>3, <4>1, <5>1
        <5> QED BY <5>1, <5>2, <4>1, <3>2, <2>1
      <4>2. CASE k = Len(x) + 1
        <5>1. CASE j = k
          BY <4>2, <5>1, <3>2, <2>1
        <5>2. CASE j # k
          <6>1. j \in DOMAIN x
            BY <4>2, <5>2, <3>2
          <6>2. PICK m \in 1 .. i : x[j] = list[m]
            BY <6>1, <2>3
          <6> QED BY <6>1, <6>2, <4>2, <3>2, <2>1
        <5> QED BY <5>1, <5>2
      <4> QED BY <4>1, <4>2, <3>2
    <3>5. C(i + 1, y)
      <4> SUFFICES ASSUME NEW m \in 1 .. i + 1, list[m] \notin ids
                   PROVE  \E k \in DOMAIN y : y[k] = list[m]
        OBVIOUS
      <4>1. CASE m = i + 1
        BY <4>1, <3>2
      <4>2. CASE m # i + 1
        <5>1. PICK k \in DOMAIN x : x[k] = list[m]
          BY <4>2, <2>1, <2>3
        <5> QED BY <5>1, <3>2
      <4> QED BY <4>1, <4>2
    <3> HIDE DEF A, B, C
    <3> QED BY <2>1, <3>2, <3>3, <3>4, <3>5 DEF y
  <2> QED BY <2>5, <2>6
<1>10. n \in T
  <2> HIDE DEF n, T
  <2>1. \A i \in 0 .. n : i \in T
    BY <1>1, <1>8, <1>9, UpTo
  <2> QED BY <2>1, <1>1
<1>11. DOMAIN list = 1 .. n
  OBVIOUS
<1>12. left[n] \in Seq(S) /\ A(n, left[n]) /\ B(n, left[n]) /\ C(n, left[n])
  <2> HIDE DEF A, B, C, n
  <2> QED BY <1>10
<1> DEFINE w == Without(list, ids)
<1>13. w \in Seq(S) /\ A(n, w) /\ B(n, w) /\ C(n, w)
  <2> HIDE DEF A, B, C, n
  <2> QED BY <1>7, <1>12
<1> HIDE DEF n, T, w
<1>14. \A j \in DOMAIN w : \E m \in DOMAIN list :
                          w[j] = list[m] /\ list[m] \notin ids
  BY <1>13, <1>11
<1>15. \A j, k \in DOMAIN w : j <= k =>
           \E m, p \in DOMAIN list : m <= p /\ w[j] = list[m] /\ w[k] = list[p]
  <2> SUFFICES ASSUME NEW j \in DOMAIN w, NEW k \in DOMAIN w, j <= k
               PROVE  \E m, p \in DOMAIN list :
                          m <= p /\ w[j] = list[m] /\ w[k] = list[p]
    OBVIOUS
  <2>1. PICK m \in 1 .. n, p \in 1 .. n : m <= p /\ w[j] = list[m] /\ w[k] = list[p]
    <3> HIDE DEF A, C
    <3> QED BY <1>13
  <2> QED BY <2>1, <1>11
<1>16. \A m \in DOMAIN list : list[m] \notin ids =>
                          \E k \in DOMAIN w : w[k] = list[m]
  BY <1>13, <1>11
<1> HIDE DEF A, B, C
<1> QED BY <1>13, <1>14, <1>15, <1>16 DEF w

\* Inserting at a position moves what was there, and what follows, by one.
LEMMA InsertAtFacts ==
    ASSUME NEW S, NEW list \in Seq(S), NEW b \in S, NEW p \in 1 .. Len(list) + 1
    PROVE  InsertAt(list, p, b) =
               [k \in 1 .. Len(list) + 1 |-> IF k < p THEN list[k]
                                             ELSE IF k = p THEN b
                                             ELSE list[k - 1]]
<1> DEFINE f == SubSeq(list, 1, p - 1)
           h == SubSeq(list, p, Len(list))
<1>1. /\ f \in Seq(S) /\ Len(f) = p - 1
      /\ \A k \in 1 .. p - 1 : f[k] = list[k]
  OBVIOUS
<1>2. h \in Seq(S) /\ Len(h) = Len(list) - p + 1
  OBVIOUS
<1>3. \A k \in 1 .. Len(list) - p + 1 : h[k] = list[k + p - 1]
  OBVIOUS
<1>4. InsertAt(list, p, b) = f \o <<b>> \o h
  BY DEF InsertAt
<1>5. Len(list) \in Nat /\ p \in Nat
  OBVIOUS
<1> HIDE DEF f, h
<1> DEFINE g == f \o <<b>>
<1>6. /\ g \in Seq(S) /\ Len(g) = p
      /\ \A k \in 1 .. p - 1 : g[k] = list[k]
      /\ g[p] = b
  BY <1>1, <1>5
<1> HIDE DEF g
<1> DEFINE r == g \o h
<1>7. /\ r \in Seq(S) /\ Len(r) = Len(list) + 1
      /\ \A k \in 1 .. Len(list) + 1 :
             r[k] = IF k <= p THEN g[k] ELSE h[k - p]
  BY <1>2, <1>5, <1>6
<1>8. DOMAIN r = 1 .. Len(list) + 1
  BY <1>7
<1> HIDE DEF r
<1>9. ASSUME NEW k \in 1 .. Len(list) + 1
      PROVE  r[k] = IF k < p THEN list[k] ELSE IF k = p THEN b ELSE list[k - 1]
  <2>1. CASE k <= p
    BY <2>1, <1>5, <1>6, <1>7
  <2>2. CASE k > p
    <3>1. k - p \in 1 .. Len(list) - p + 1 /\ (k - p) + p - 1 = k - 1
      BY <2>2, <1>5
    <3> QED BY <2>2, <3>1, <1>3, <1>5, <1>7
  <2> QED BY <2>1, <2>2, <1>5
<1>10. r = [k \in 1 .. Len(list) + 1 |-> r[k]]
  BY <1>7, <1>8
<1> QED BY <1>4, <1>9, <1>10 DEF r, g

\* A fragment is added to the sorted list, which stays sorted.
LEMMA AddFragmentFacts ==
    ASSUME NEW S, NEW list \in Seq(S), NEW b \in S,
           \A x \in S : bundles[x].off \in Nat
    PROVE  /\ add_fragment(list, b) \in Seq(S) /\ add_fragment(list, b) # <<>>
           /\ \E k \in DOMAIN add_fragment(list, b) : add_fragment(list, b)[k] = b
           /\ \A k \in DOMAIN add_fragment(list, b) :
                  \/ add_fragment(list, b)[k] = b
                  \/ \E m \in DOMAIN list : add_fragment(list, b)[k] = list[m]
           /\ \A m \in DOMAIN list : \E k \in DOMAIN add_fragment(list, b) :
                  add_fragment(list, b)[k] = list[m]
           /\ SortedList(bundles, list) => SortedList(bundles, add_fragment(list, b))
<1> DEFINE after == {k \in DOMAIN list : bundles[list[k]].off > bundles[b].off}
           pos == IF after = {} THEN Len(list) + 1
                  ELSE CHOOSE k \in after : \A j \in after : k <= j
           r == add_fragment(list, b)
<1>1. DOMAIN list = 1 .. Len(list) /\ Len(list) \in Nat
  OBVIOUS
<1>2. /\ pos \in 1 .. Len(list) + 1
      /\ \A k \in DOMAIN list : k < pos => bundles[list[k]].off <= bundles[b].off
      /\ SortedList(bundles, list) =>
             \A k \in DOMAIN list : k >= pos => bundles[list[k]].off >= bundles[b].off
  <2>1. CASE after = {}
    <3>1. pos = Len(list) + 1
      BY <2>1
    <3>2. \A k \in DOMAIN list : bundles[list[k]].off <= bundles[b].off
      BY <2>1, <1>1
    <3> QED BY <3>1, <3>2, <1>1
  <2>2. CASE after # {}
    <3>1. after \in SUBSET Nat
      BY <1>1
    <3>2. \E k \in after : \A j \in after : k <= j
      <4> HIDE DEF after
      <4> QED BY <2>2, <3>1, LeastNumber
    <3>3. pos \in after /\ \A j \in after : pos <= j
      BY <2>2, <3>2
    <3> HIDE DEF pos
    <3>4. \A k \in DOMAIN list : k < pos => k \notin after
      BY <3>1, <3>3, <1>1
    <3>5. \A k \in DOMAIN list : k < pos => bundles[list[k]].off <= bundles[b].off
      BY <3>4, <1>1
    <3>6. SortedList(bundles, list) =>
            \A k \in DOMAIN list : k >= pos => bundles[list[k]].off >= bundles[b].off
      BY <3>3, <1>1 DEF SortedList
    <3> QED BY <3>3, <3>5, <3>6, <1>1
  <2> QED BY <2>1, <2>2
<1>3. r = InsertAt(list, pos, b)
  BY DEF add_fragment
<1> HIDE DEF pos, r
<1>4. r = [k \in 1 .. Len(list) + 1 |-> IF k < pos THEN list[k]
                                        ELSE IF k = pos THEN b ELSE list[k - 1]]
  BY <1>2, <1>3, InsertAtFacts
<1>5. r \in Seq(S) /\ DOMAIN r = 1 .. Len(list) + 1 /\ r[pos] = b /\ r # <<>>
  BY <1>1, <1>2, <1>4
<1>6. /\ \A k \in DOMAIN r : k < pos => k \in DOMAIN list /\ r[k] = list[k]
      /\ \A k \in DOMAIN r : k > pos => k - 1 \in DOMAIN list /\ r[k] = list[k - 1]
  BY <1>1, <1>2, <1>4
<1>7. ASSUME NEW m \in DOMAIN list
      PROVE  \E k \in DOMAIN r : r[k] = list[m]
  <2>1. CASE m < pos
    BY <2>1, <1>1, <1>2, <1>4
  <2>2. CASE m >= pos
    <3>1. m + 1 \in 1 .. Len(list) + 1 /\ m + 1 > pos /\ (m + 1) - 1 = m
      BY <2>2, <1>1, <1>2
    <3> QED BY <3>1, <1>5, <1>6
  <2> QED BY <2>1, <2>2, <1>1, <1>2
<1>8. ASSUME NEW k \in DOMAIN r
      PROVE  r[k] = b \/ \E m \in DOMAIN list : r[k] = list[m]
  <2>1. k < pos \/ k = pos \/ k > pos
    BY <1>2, <1>5
  <2> QED BY <2>1, <1>5, <1>6
<1>9. ASSUME SortedList(bundles, list), NEW j \in DOMAIN r, NEW k \in DOMAIN r, j <= k
      PROVE  bundles[r[j]].off <= bundles[r[k]].off
  <2>1. pos \in Nat /\ j \in Nat /\ k \in Nat
    BY <1>1, <1>2, <1>5
  <2>2. CASE k < pos
    BY <2>1, <2>2, <1>6, <1>9 DEF SortedList
  <2>3. CASE k = pos /\ j = pos
    <3>1. bundles[b].off \in Nat
      OBVIOUS
    <3> QED BY <3>1, <2>3, <1>5
  <2>4. CASE k = pos /\ j < pos
    BY <2>1, <2>4, <1>2, <1>5, <1>6, <1>9
  <2>5. CASE k > pos /\ j > pos
    <3>1. k - 1 \in DOMAIN list /\ j - 1 \in DOMAIN list /\ j - 1 <= k - 1
      BY <2>1, <2>5, <1>6, <1>9
    <3> QED BY <3>1, <2>5, <1>6, <1>9 DEF SortedList
  <2>6. CASE k > pos /\ j = pos
    <3>1. k - 1 \in DOMAIN list /\ k - 1 >= pos
      BY <2>1, <2>6, <1>6
    <3> QED BY <3>1, <2>6, <1>2, <1>5, <1>6, <1>9
  <2>7. CASE k > pos /\ j < pos
    <3>1. k - 1 \in DOMAIN list /\ j \in DOMAIN list /\ j <= k - 1
      BY <2>1, <2>7, <1>6
    <3> QED BY <3>1, <2>7, <1>6, <1>9 DEF SortedList
  <2> QED BY <2>1, <2>2, <2>3, <2>4, <2>5, <2>6, <2>7, <1>9
<1>10. SortedList(bundles, list) => SortedList(bundles, r)
  BY <1>9 DEF SortedList
<1> QED BY <1>2, <1>5, <1>7, <1>8, <1>10 DEF r

\* FragmentState::check_completed says yes only if the fragments cover the
\* payload, and on a sorted list whenever they do.
THEOREM CheckCompletedIsCoverage ==
    ASSUME NEW S, NEW list \in Seq(S), \A x \in S : GoodFragment(bundles, x)
    PROVE  /\ check_completed(list) => Covers(bundles, list)
           /\ SortedList(bundles, list) /\ Covers(bundles, list) => check_completed(list)
<1> DEFINE n == Len(list)
           F == [i \in 1 .. n |-> [x \in Int |-> DoneUpTo(x, list[i])]]
           scan == CHOOSE scan : scan =
                      [k \in 0 .. n |-> IF k = 0 THEN 0
                                        ELSE DoneUpTo(scan[k - 1], list[k])]
<1>0. OrigLength \in Nat \ {0}
  BY SentAssumption
<1>1. n \in Nat /\ DOMAIN list = 1 .. n /\ \A i \in 1 .. n : list[i] \in S
  OBVIOUS
<1>2. \A x \in Int, i \in 1 .. n : DoneUpTo(x, list[i]) \in Int
  BY <1>1 DEF DoneUpTo, Hole, GoodFragment
<1>3. F \in [1 .. n -> [Int -> Int]] /\ 0 \in Int
  BY <1>1, <1>2
<1>4. PICK g \in [0 .. n -> Int] : LoopFrom(0, F, n, g)
  <2> HIDE DEF F, n, scan
  <2> QED BY <1>1, <1>3, LoopRuns
<1>5. g = [k \in 0 .. n |-> IF k = 0 THEN 0 ELSE DoneUpTo(g[k - 1], list[k])]
  <2>1. ASSUME NEW i \in 0 .. n, i # 0
        PROVE  F[i][g[i - 1]] = DoneUpTo(g[i - 1], list[i])
    <3>1. i \in 1 .. n /\ i - 1 \in 0 .. n
      BY <1>1, <2>1
    <3>2. g[i - 1] \in Int
      BY <3>1
    <3> QED BY <3>1, <3>2
  <2>2. \A i \in 0 .. n : i # 0 => i \in 1 .. n
    BY <1>1
  <2>3. 0 \in 0 .. n
    BY <1>1
  <2> HIDE DEF F, n
  <2> QED BY <1>4, <2>1, <2>2, <2>3 DEF LoopFrom
<1>6. scan = [k \in 0 .. n |-> IF k = 0 THEN 0
                               ELSE DoneUpTo(scan[k - 1], list[k])]
  <2> HIDE DEF n, F
  <2> QED BY <1>5, Zenon
<1>7. check_completed(list) <=> scan[n] = OrigLength
  BY DEF check_completed
<1> HIDE DEF scan
<1> DEFINE Filled(i, d) == \A p \in 0 .. d - 1 : \E k \in 1 .. i :
                               p \in bundles[list[k]].data
           Ended(i, d) == \A k \in 1 .. i :
                              bundles[list[k]].off + bundles[list[k]].len <= d
           Missing == \E p \in Bytes : \A k \in 1 .. n : p \notin bundles[list[k]].data
           T == {i \in 0 .. n : /\ scan[i] \in -1 .. OrigLength
                                /\ scan[i] # -1 => /\ Filled(i, scan[i])
                                                   /\ Ended(i, scan[i])
                                /\ scan[i] = -1 /\ SortedList(bundles, list) => Missing}
<1>8. 0 \in T
  <2>1. scan[0] = 0 /\ 0 \in 0 .. n
    BY <1>1, <1>6
  <2>2. Filled(0, 0) /\ Ended(0, 0)
    OBVIOUS
  <2> HIDE DEF Filled, Ended, Missing
  <2> QED BY <2>1, <2>2, <1>0
<1>9. ASSUME NEW i \in 0 .. n - 1, i \in T
      PROVE  i + 1 \in T
  <2>1. i + 1 \in 1 .. n /\ i + 1 \in 0 .. n /\ i + 1 # 0 /\ (i + 1) - 1 = i
        /\ i \in Nat
    BY <1>1
  <2> DEFINE d == scan[i]
             b == list[i + 1]
             off == bundles[b].off
             end == bundles[b].off + bundles[b].len
  <2>2. scan[i + 1] = DoneUpTo(d, b)
    <3> HIDE DEF n
    <3> QED BY <1>6, <2>1
  <2>3. /\ d \in -1 .. OrigLength
        /\ d # -1 => Filled(i, d) /\ Ended(i, d)
        /\ d = -1 /\ SortedList(bundles, list) => Missing
    BY <1>9
  <2>4. GoodFragment(bundles, b)
    BY <1>1, <2>1
  <2>5. off \in Nat /\ end \in Nat /\ off <= end /\ end <= OrigLength
        /\ bundles[b].data = off .. end - 1
    <3> HIDE DEF b, d, Filled, Ended, Missing, T, n
    <3>1. bundles[b].off \in Nat /\ bundles[b].len \in Nat
      BY <2>4 DEF GoodFragment
    <3>2. bundles[b].off + bundles[b].len <= OrigLength
      BY <2>4 DEF GoodFragment
    <3>3. bundles[b].data = bundles[b].off .. bundles[b].off + bundles[b].len - 1
      BY <2>4 DEF GoodFragment, SpanOf
    <3>4. end \in Nat /\ off <= end
      BY <3>1 DEF off, end
    <3> QED BY <3>1, <3>2, <3>3, <3>4
  <2>6. /\ d = -1 \/ d < off => scan[i + 1] = -1
        /\ ~(d = -1 \/ d < off) /\ d > end => scan[i + 1] = d
        /\ ~(d = -1 \/ d < off) /\ ~(d > end) => scan[i + 1] = end
    BY <2>2 DEF DoneUpTo, Hole
  <2> HIDE DEF d, b, off, end, n
  <2>7. CASE d = -1
    <3> HIDE DEF Filled, Ended, Missing
    <3> QED BY <2>1, <2>3, <2>6, <2>7, <1>0
  <2>8. CASE d # -1 /\ d < off
    <3>1. scan[i + 1] = -1
      BY <2>6, <2>8
    <3>2. ASSUME SortedList(bundles, list) PROVE Missing
      <4>1. d \in Bytes
        BY <2>3, <2>5, <2>8, <1>0 DEF Bytes
      <4>2. ASSUME NEW k \in 1 .. n PROVE d \notin bundles[list[k]].data
        <5>1. /\ bundles[list[k]].off \in Nat /\ bundles[list[k]].len \in Nat
              /\ bundles[list[k]].data = bundles[list[k]].off ..
                     bundles[list[k]].off + bundles[list[k]].len - 1
          BY <1>1 DEF GoodFragment, SpanOf
        <5>2. CASE k <= i
          <6>1. bundles[list[k]].off + bundles[list[k]].len <= d
            BY <5>2, <2>1, <2>3, <2>8
          <6> QED BY <5>1, <6>1, <2>3, <2>8
        <5>3. CASE k > i
          <6>1. k >= i + 1 /\ i + 1 \in DOMAIN list /\ k \in DOMAIN list
            BY <5>3, <2>1, <1>1
          <6>2. bundles[list[k]].off >= off
            BY <6>1, <3>2 DEF SortedList, off, b
          <6> QED BY <5>1, <6>2, <2>3, <2>5, <2>8
        <5> QED BY <5>2, <5>3, <2>1
      <4> QED BY <4>1, <4>2
    <3> HIDE DEF Filled, Ended, Missing
    <3> QED BY <2>1, <3>1, <3>2, <1>0
  <2>9. CASE d # -1 /\ ~(d < off) /\ d > end
    <3>1. scan[i + 1] = d /\ d # -1
      BY <2>6, <2>9
    <3>2. Filled(i + 1, d)
      <4> SUFFICES ASSUME NEW p \in 0 .. d - 1
                   PROVE  \E k \in 1 .. i + 1 : p \in bundles[list[k]].data
        OBVIOUS
      <4>1. PICK k \in 1 .. i : p \in bundles[list[k]].data
        BY <2>3, <2>9
      <4> QED BY <4>1, <2>1
    <3>3. Ended(i + 1, d)
      <4> SUFFICES ASSUME NEW k \in 1 .. i + 1
                   PROVE  bundles[list[k]].off + bundles[list[k]].len <= d
        OBVIOUS
      <4>1. CASE k = i + 1
        BY <4>1, <2>5, <2>3, <2>9 DEF end, b
      <4>2. CASE k # i + 1
        BY <4>2, <2>1, <2>3, <2>9
      <4> QED BY <4>1, <4>2
    <3> HIDE DEF Filled, Ended, Missing
    <3> QED BY <2>1, <2>3, <3>1, <3>2, <3>3
  <2>10. CASE d # -1 /\ ~(d < off) /\ ~(d > end)
    <3>1. scan[i + 1] = end /\ end # -1
      BY <2>5, <2>6, <2>10
    <3>2. Filled(i + 1, end)
      <4> SUFFICES ASSUME NEW p \in 0 .. end - 1
                   PROVE  \E k \in 1 .. i + 1 : p \in bundles[list[k]].data
        OBVIOUS
      <4>1. CASE p < d
        <5>0. p \in 0 .. d - 1 /\ Filled(i, d)
          BY <4>1, <2>3, <2>5, <2>10
        <5>1. PICK k \in 1 .. i : p \in bundles[list[k]].data
          BY <5>0
        <5> QED BY <5>1, <2>1
      <4>2. CASE p >= d
        <5>1. p \in bundles[b].data
          BY <4>2, <2>3, <2>5, <2>10
        <5> QED BY <5>1, <2>1 DEF b
      <4> QED BY <4>1, <4>2, <2>3, <2>5
    <3>3. Ended(i + 1, end)
      <4> SUFFICES ASSUME NEW k \in 1 .. i + 1
                   PROVE  bundles[list[k]].off + bundles[list[k]].len <= end
        OBVIOUS
      <4>1. CASE k = i + 1
        BY <4>1, <2>5 DEF end, b
      <4>2. CASE k # i + 1
        <5>1. k \in 1 .. i /\ k \in 1 .. n
          BY <4>2, <2>1, <1>1
        <5>2. bundles[list[k]].off + bundles[list[k]].len <= d
          BY <5>1, <2>3, <2>10
        <5>3. bundles[list[k]].off + bundles[list[k]].len \in Nat
          BY <5>1, <1>1 DEF GoodFragment
        <5> QED BY <5>2, <5>3, <2>3, <2>5, <2>10
      <4> QED BY <4>1, <4>2
    <3> HIDE DEF Filled, Ended, Missing
    <3> QED BY <2>1, <2>5, <3>1, <3>2, <3>3, <1>0
  <2> QED BY <2>7, <2>8, <2>9, <2>10
<1>10. n \in T
  <2> HIDE DEF n, T
  <2>1. \A i \in 0 .. n : i \in T
    BY <1>1, <1>8, <1>9, UpTo
  <2> QED BY <2>1, <1>1
<1> DEFINE d == scan[n]
<1>11. /\ d \in -1 .. OrigLength
       /\ d # -1 => Filled(n, d) /\ Ended(n, d)
       /\ d = -1 /\ SortedList(bundles, list) => Missing
  <2> HIDE DEF Filled, Ended, Missing
  <2> QED BY <1>10
<1> HIDE DEF d, n, T
<1>12. ASSUME d = OrigLength PROVE Covers(bundles, list)
  <2>1. d # -1 /\ Bytes = 0 .. d - 1
    BY <1>0, <1>12 DEF Bytes
  <2>2. Filled(n, d)
    BY <1>11, <2>1
  <2> QED BY <1>1, <2>1, <2>2 DEF Covers
<1>13. ASSUME SortedList(bundles, list), Covers(bundles, list) PROVE d = OrigLength
  <2>1. ~Missing
    BY <1>1, <1>13 DEF Covers
  <2>2. d # -1
    <3> HIDE DEF Missing
    <3> QED BY <1>11, <1>13, <2>1
  <2>3. ASSUME d < OrigLength PROVE FALSE
    <3>1. d \in Bytes
      BY <2>2, <2>3, <1>0, <1>11 DEF Bytes
    <3>2. PICK k \in 1 .. n : d \in bundles[list[k]].data
      BY <3>1, <1>1, <1>13 DEF Covers
    <3>3. GoodFragment(bundles, list[k])
      BY <1>1
    <3>4. bundles[list[k]].off + bundles[list[k]].len <= d
      BY <1>11, <2>2
    <3> QED BY <1>11, <3>2, <3>3, <3>4 DEF GoodFragment, SpanOf
  <2> QED BY <1>0, <1>11, <2>3
<1> QED BY <1>7, <1>12, <1>13 DEF d

----------------------------------------------------------------------------
(* The event queue.                                                        *)

\* r is q with the events of the set new behind it.
Extended(q, r, new) ==
    /\ \A k \in DOMAIN r : \/ k \in DOMAIN q /\ r[k] = q[k]
                           \/ r[k] \in new
    /\ \A k \in DOMAIN q : k \in DOMAIN r /\ r[k] = q[k]
    /\ \A e \in new : \E k \in DOMAIN r : r[k] = e

\* Events are appended.
LEMMA ConcatExtends ==
    ASSUME NEW E, NEW q \in Seq(E), NEW t \in Seq(E)
    PROVE  q \o t \in Seq(E) /\ Extended(q, q \o t, Range(t))
<1>1. /\ q \o t \in Seq(E)
      /\ \A i \in DOMAIN q : i \in DOMAIN (q \o t) /\ (q \o t)[i] = q[i]
      /\ \A i \in DOMAIN t : /\ Len(q) + i \in DOMAIN (q \o t)
                             /\ (q \o t)[Len(q) + i] = t[i]
      /\ \A i \in DOMAIN (q \o t) :
            \/ i \in DOMAIN q /\ (q \o t)[i] = q[i]
            \/ i - Len(q) \in DOMAIN t /\ (q \o t)[i] = t[i - Len(q)]
  BY ConcatOf
<1>2. \A e \in Range(t) : \E i \in DOMAIN t : t[i] = e
  BY DEF Range
<1>3. \A i \in DOMAIN t : t[i] \in Range(t)
  BY DEF Range
<1> DEFINE r == q \o t
<1> HIDE DEF r
<1>4. /\ \A k \in DOMAIN r : \/ k \in DOMAIN q /\ r[k] = q[k]
                             \/ r[k] \in Range(t)
      /\ \A e \in Range(t) : \E k \in DOMAIN r : r[k] = e
  BY <1>1, <1>2, <1>3 DEF r
<1> QED BY <1>1, <1>4 DEF Extended, r

\* An event is appended.
LEMMA AppendExtends ==
    ASSUME NEW E, NEW q \in Seq(E), NEW e \in E
    PROVE  Append(q, e) \in Seq(E) /\ Extended(q, Append(q, e), {e})
  BY DEF Extended

\* Events are appended in two portions.
LEMMA ExtendedTwice ==
    ASSUME NEW q, NEW r, NEW t, NEW A, NEW B,
           Extended(q, r, A), Extended(r, t, B)
    PROVE  Extended(q, t, A \cup B)
  BY Zenon DEF Extended

\* What can be an event stays one when there are more bundles.
LEMMA MoreEvents ==
    ASSUME NEW n \in Nat, NEW m \in Nat, n <= m
    PROVE  /\ EventSet(n) \subseteq EventSet(m)
           /\ \A q \in Seq(EventSet(n)) : q \in Seq(EventSet(m))
<1>1. 1 .. n \subseteq 1 .. m
  OBVIOUS
<1>2. \A l \in Seq(1 .. n) : l \in Seq(1 .. m)
  BY <1>1
<1>3. EventSet(n) \subseteq EventSet(m)
  BY <1>1, <1>2 DEF EventSet
<1> QED BY <1>3

FreeEvents(S) == {Post("free", i) : i \in S}

\* What nothing refers to after a handler that leaves the queue q.
Unreferenced(q) ==
    stored \ (pending' \cup Range(state'.list) \cup Refs(q)
                  \cup reg'.queued \cup reg'.out)

\* The free events at the end of a handler.
LEMMA FreedFacts ==
    ASSUME NEW n \in Nat, NEW q \in Seq(EventSet(n)), stored \subseteq 1 .. n
    PROVE  /\ Freed(q) \in Seq(EventSet(n))
           /\ Extended(q, Freed(q), FreeEvents(Unreferenced(q)))
<1> DEFINE S == Unreferenced(q)
           free == SetToSeq(S)
           t == Spread(free, "free")
<1>1. S \subseteq 1 .. n /\ IsFiniteSet(S)
  <2>1. S \subseteq 1 .. n
    BY DEF Unreferenced
  <2>2. IsFiniteSet(1 .. n)
    BY FS_Interval
  <2> HIDE DEF S
  <2> QED BY <2>1, <2>2, FS_Subset
<1>2. Freed(q) = q \o t
  BY DEF Freed, Unreferenced
<1> HIDE DEF S
<1>3. free \in Seq(S) /\ \A x \in S : \E i \in DOMAIN free : free[i] = x
  BY <1>1, SetToSeqFacts
<1> HIDE DEF free
<1>4. \A i \in S : Post("free", i) \in EventSet(n)
  BY <1>1 DEF Post, Event, EventSet, EventTypes
<1>5. t \in Seq(EventSet(n)) /\ DOMAIN t = DOMAIN free
      /\ \A k \in DOMAIN t : t[k] = Post("free", free[k])
  <2>1. DOMAIN free = 1 .. Len(free) /\ Len(free) \in Nat
    BY <1>3
  <2>2. \A k \in DOMAIN free : free[k] \in S
    BY <1>3
  <2>3. t = [k \in 1 .. Len(free) |-> Post("free", free[k])]
    BY <2>1 DEF Spread
  <2>4. \A k \in 1 .. Len(free) : Post("free", free[k]) \in EventSet(n)
    BY <1>4, <2>1, <2>2
  <2> HIDE DEF t
  <2> QED BY <2>1, <2>3, <2>4
<1>6. Range(t) = FreeEvents(S)
  <2>1. ASSUME NEW k \in DOMAIN t PROVE t[k] \in FreeEvents(S)
    <3>1. free[k] \in S
      BY <1>3, <1>5
    <3> HIDE DEF t
    <3> QED BY <3>1, <1>5 DEF FreeEvents
  <2>2. ASSUME NEW i \in S PROVE \E k \in DOMAIN t : t[k] = Post("free", i)
    <3> HIDE DEF t
    <3> QED BY <1>3, <1>5
  <2> HIDE DEF t
  <2> QED BY <2>1, <2>2 DEF FreeEvents, Range
<1> HIDE DEF t
<1>7. q \o t \in Seq(EventSet(n)) /\ Extended(q, q \o t, Range(t))
  BY <1>5, ConcatExtends
<1> QED BY <1>2, <1>6, <1>7 DEF S

\* How the queue changes: the head goes (or not), events of the set first come
\* to the head and events of the set new to the tail; s is by how much the
\* others move forward.
Requeued(s, gone, first, new) ==
    /\ \A k \in DOMAIN eventq' :
          \/ k = 1 /\ eventq'[k] \in first
          \/ /\ k + s \in DOMAIN eventq /\ ~(gone /\ k + s = 1)
             /\ eventq'[k] = eventq[k + s]
          \/ eventq'[k] \in new
    /\ \A m \in DOMAIN eventq : ~(gone /\ m = 1) =>
          m - s \in DOMAIN eventq' /\ eventq'[m - s] = eventq[m]
    /\ \A e \in first \cup new : \E k \in DOMAIN eventq' : eventq'[k] = e

\* A handler that takes its event and appends others.
LEMMA PoppedThenExtended ==
    ASSUME NEW n \in Nat, eventq \in Seq(EventSet(n)), eventq # <<>>,
           NEW new, Extended(Tail(eventq), eventq', new)
    PROVE  Requeued(1, TRUE, {}, new)
<1> DEFINE E == EventSet(n)
<1>1. eventq \in Seq(E)
  OBVIOUS
<1> HIDE DEF E
<1>2. /\ DOMAIN eventq = 1 .. Len(eventq) /\ DOMAIN Tail(eventq) = 1 .. Len(eventq) - 1
      /\ \A i \in DOMAIN Tail(eventq) : /\ i + 1 \in DOMAIN eventq
                                        /\ Tail(eventq)[i] = eventq[i + 1]
      /\ \A i \in DOMAIN eventq : i # 1 => /\ i - 1 \in DOMAIN Tail(eventq)
                                           /\ Tail(eventq)[i - 1] = eventq[i]
  BY <1>1, TailOf
<1>3. \A i \in DOMAIN Tail(eventq) : i + 1 # 1
  BY <1>2
<1> QED BY <1>2, <1>3 DEF Requeued, Extended

\* A handler that puts an event in the place of its own and appends others.
LEMMA ReplacedThenExtended ==
    ASSUME NEW n \in Nat, eventq \in Seq(EventSet(n)), eventq # <<>>,
           NEW e \in EventSet(n),
           NEW new, Extended(<<e>> \o Tail(eventq), eventq', new)
    PROVE  Requeued(0, TRUE, {e}, new)
<1> DEFINE E == EventSet(n)
           q == <<e>> \o Tail(eventq)
<1>1. eventq \in Seq(E) /\ e \in E
  OBVIOUS
<1> HIDE DEF E
<1>2. /\ DOMAIN eventq = 1 .. Len(eventq) /\ Tail(eventq) \in Seq(E)
      /\ DOMAIN Tail(eventq) = 1 .. Len(eventq) - 1
      /\ \A i \in DOMAIN Tail(eventq) : /\ i + 1 \in DOMAIN eventq
                                        /\ Tail(eventq)[i] = eventq[i + 1]
  BY <1>1, TailOf
<1>3. Len(eventq) \in Nat /\ Len(eventq) > 0 /\ Len(Tail(eventq)) = Len(eventq) - 1
  BY <1>1
<1>4. /\ DOMAIN q = 1 .. Len(eventq)
      /\ q[1] = e
      /\ \A i \in DOMAIN q : i # 1 => q[i] = eventq[i]
  <2>1. /\ DOMAIN q = 1 .. Len(Tail(eventq)) + 1 /\ q[1] = e
        /\ \A i \in DOMAIN q : i = 1 \/ (/\ i - 1 \in DOMAIN Tail(eventq)
                                         /\ q[i] = Tail(eventq)[i - 1])
    BY <1>1, <1>2, ConsOf
  <2>2. \A i \in DOMAIN q : i # 1 => (i - 1) + 1 = i
    BY <2>1, <1>3
  <2> HIDE DEF q
  <2> QED BY <2>1, <2>2, <1>2, <1>3
<1>5. 1 \in DOMAIN q /\ \A k \in DOMAIN q : k + 0 = k /\ k - 0 = k /\ k \in DOMAIN eventq
  BY <1>2, <1>3, <1>4
<1> HIDE DEF q
<1>6. Extended(q, eventq', new)
  BY DEF q
<1> QED BY <1>2, <1>4, <1>5, <1>6 DEF Requeued, Extended

\* Events are appended and none is taken.
LEMMA JustExtended ==
    ASSUME NEW n \in Nat, eventq \in Seq(EventSet(n)),
           NEW new, Extended(eventq, eventq', new)
    PROVE  Requeued(0, FALSE, {}, new)
<1>1. \A k \in DOMAIN eventq : k + 0 = k /\ k - 0 = k
  OBVIOUS
<1> QED BY <1>1 DEF Requeued, Extended

\* An event is put at the head.
LEMMA JustPushed ==
    ASSUME NEW n \in Nat, eventq \in Seq(EventSet(n)), NEW e \in EventSet(n),
           eventq' = <<e>> \o eventq
    PROVE  /\ eventq' \in Seq(EventSet(n))
           /\ Requeued(-1, FALSE, {e}, {})
<1> DEFINE E == EventSet(n)
<1>1. eventq \in Seq(E) /\ e \in E
  OBVIOUS
<1> HIDE DEF E
<1>2. /\ eventq' \in Seq(E)
      /\ DOMAIN eventq = 1 .. Len(eventq)
      /\ DOMAIN eventq' = 1 .. Len(eventq) + 1
      /\ eventq'[1] = e
      /\ \A i \in DOMAIN eventq : eventq'[i + 1] = eventq[i]
      /\ \A i \in DOMAIN eventq' :
           i = 1 \/ (i - 1 \in DOMAIN eventq /\ eventq'[i] = eventq[i - 1])
  BY <1>1, ConsOf
<1>3. /\ \A i \in DOMAIN eventq : i - (-1) = i + 1 /\ i + 1 \in DOMAIN eventq'
      /\ \A i \in DOMAIN eventq' : i + (-1) = i - 1
      /\ 1 \in DOMAIN eventq'
  BY <1>1, <1>2
<1> QED BY <1>2, <1>3 DEF Requeued, E

----------------------------------------------------------------------------
(* Types.                                                                  *)

BundleRecord == [off : Nat, len : Nat, frag : BOOLEAN, data : SUBSET Bytes]
Log == {"none", "PENDING_DELIVERY", "DELIVERED"}
StateRecord(n) == [bundle : {0} \cup 1 .. n, list : Seq(1 .. n)]

\* TypeInv, read off.
LEMMA TypeFacts ==
    ASSUME TypeInv
    PROVE  /\ bundles \in Seq(BundleRecord)
           /\ Len(bundles) \in Nat /\ DOMAIN bundles = 1 .. Len(bundles)
           /\ 1 .. Len(bundles) \subseteq Ids /\ Len(bundles) <= MaxArrivals + MaxStates
           /\ pending \subseteq 1 .. Len(bundles) /\ stored \subseteq 1 .. Len(bundles)
           /\ reloaded \subseteq 1 .. Len(bundles)
           /\ reg \in [queued : SUBSET (1 .. Len(bundles)),
                       out : SUBSET (1 .. Len(bundles))]
           /\ fwdlog \in [Ids -> Log]
           /\ state \in StateRecord(Len(bundles))
           /\ state # NoState <=> state.list # <<>>
           /\ state.list # <<>> => state.bundle \in 1 .. Len(bundles)
           /\ eventq \in Seq(EventSet(Len(bundles)))
           /\ arrivals \in 0 .. MaxArrivals /\ arrivals \in Nat
           /\ Len(bundles) - arrivals \in 0 .. MaxStates
<1>1. Len(bundles) \in Nat /\ DOMAIN bundles = 1 .. Len(bundles)
      /\ bundles \in Seq(BundleRecord) /\ Len(bundles) <= MaxArrivals + MaxStates
  BY SentAssumption DEF TypeInv, TypeOK, BundleRecord
<1>2. 1 .. Len(bundles) \subseteq Ids
  BY <1>1, SentAssumption DEF Ids
<1>3. state \in StateRecord(Len(bundles))
  <2>1. state.list \in Seq(1 .. Len(bundles))
        /\ state = [bundle |-> state.bundle, list |-> state.list]
    BY DEF TypeInv, TypeOK
  <2>2. state.list = <<>> => state.bundle = 0
    BY DEF TypeInv, NoState
  <2>3. state.list # <<>> => state.bundle \in 1 .. Len(bundles)
    BY DEF TypeInv
  <2> QED BY <2>1, <2>2, <2>3 DEF StateRecord
<1>4. reg \in [queued : SUBSET (1 .. Len(bundles)), out : SUBSET (1 .. Len(bundles))]
  <2>1. /\ reg = [queued |-> reg.queued, out |-> reg.out]
        /\ reg.queued \subseteq 1 .. Len(bundles)
        /\ reg.out \subseteq 1 .. Len(bundles)
    BY DEF TypeInv, TypeOK
  <2> QED BY <2>1
<1>5. /\ pending \subseteq 1 .. Len(bundles) /\ stored \subseteq 1 .. Len(bundles)
      /\ reloaded \subseteq 1 .. Len(bundles)
  BY DEF TypeInv
<1>6. fwdlog \in [Ids -> Log]
  BY DEF TypeInv, TypeOK, Log
<1>7. /\ state # NoState <=> state.list # <<>>
      /\ state.list # <<>> => state.bundle \in 1 .. Len(bundles)
      /\ eventq \in Seq(EventSet(Len(bundles)))
  BY DEF TypeInv
<1>8. /\ arrivals \in 0 .. MaxArrivals /\ arrivals \in Nat
      /\ Len(bundles) - arrivals \in 0 .. MaxStates
  BY SentAssumption DEF TypeInv, TypeOK
<1> QED BY <1>1, <1>2, <1>3, <1>4, <1>5, <1>6, <1>7, <1>8

\* TypeInv, put together, for the state after a step.
LEMMA TypeAgain ==
    ASSUME NEW n \in Nat, Len(bundles') = n, n <= MaxArrivals + MaxStates,
           bundles' \in Seq(BundleRecord),
           arrivals' \in 0 .. MaxArrivals, n - arrivals' \in 0 .. MaxStates,
           pending' \subseteq 1 .. n, stored' \subseteq 1 .. n,
           reloaded' \subseteq 1 .. n,
           reg' \in [queued : SUBSET (1 .. n), out : SUBSET (1 .. n)],
           fwdlog' \in [Ids -> Log],
           state' \in StateRecord(n),
           state' # NoState <=> state'.list # <<>>,
           state'.list # <<>> => state'.bundle \in 1 .. n,
           eventq' \in Seq(EventSet(n)),
           cache' \in BOOLEAN, over' \in BOOLEAN, handovers' \in Nat,
           console' \in 0 .. 1
    PROVE  TypeInv'
<1>1. 1 .. n \subseteq Ids /\ n \in 0 .. MaxArrivals + MaxStates
  BY SentAssumption DEF Ids
<1>2. state' \in [bundle : {0} \cup Ids, list : Seq(Ids)] /\ state'.list \in Seq(1 .. n)
  BY <1>1 DEF StateRecord
<1>3. reg' \in [queued : SUBSET Ids, out : SUBSET Ids]
      /\ reg'.queued \subseteq 1 .. n /\ reg'.out \subseteq 1 .. n
  BY <1>1
<1>4. TypeOK'
  BY <1>1, <1>2, <1>3 DEF TypeOK, BundleRecord, Log
<1> QED BY <1>2, <1>3, <1>4 DEF TypeInv

\* The same for a step that leaves the bundles alone.
LEMMA TypeKept ==
    ASSUME TypeInv, UNCHANGED <<bundles, arrivals>>,
           pending' \subseteq 1 .. Len(bundles), stored' \subseteq 1 .. Len(bundles),
           reloaded' \subseteq 1 .. Len(bundles),
           reg' \in [queued : SUBSET (1 .. Len(bundles)),
                     out : SUBSET (1 .. Len(bundles))],
           fwdlog' \in [Ids -> Log],
           state' \in StateRecord(Len(bundles)),
           state' # NoState <=> state'.list # <<>>,
           state'.list # <<>> => state'.bundle \in 1 .. Len(bundles),
           eventq' \in Seq(EventSet(Len(bundles))),
           cache' \in BOOLEAN, over' \in BOOLEAN, handovers' \in Nat,
           console' \in 0 .. 1
    PROVE  TypeInv'
<1> DEFINE n == Len(bundles)
<1>1. /\ n \in Nat /\ Len(bundles') = n /\ n <= MaxArrivals + MaxStates
      /\ bundles' \in Seq(BundleRecord)
      /\ arrivals' \in 0 .. MaxArrivals /\ n - arrivals' \in 0 .. MaxStates
  BY TypeFacts
<1> HIDE DEF n
<1> SUFFICES /\ pending' \subseteq 1 .. n /\ stored' \subseteq 1 .. n
             /\ reloaded' \subseteq 1 .. n
             /\ reg' \in [queued : SUBSET (1 .. n), out : SUBSET (1 .. n)]
             /\ state' \in StateRecord(n)
             /\ state'.list # <<>> => state'.bundle \in 1 .. n
             /\ eventq' \in Seq(EventSet(n))
  BY <1>1, TypeAgain
<1> QED BY DEF n

\* The event being handled.
LEMMA HeadFacts ==
    ASSUME TypeInv, NEW type, Handling(type)
    PROVE  /\ eventq # <<>> /\ Tail(eventq) \in Seq(EventSet(Len(bundles)))
           /\ Head(eventq) = eventq[1] /\ 1 \in DOMAIN eventq
           /\ Head(eventq) \in EventSet(Len(bundles)) /\ Head(eventq).type = type
           /\ Head(eventq).id \in 1 .. Len(bundles) /\ Head(eventq).id \in Ids
           /\ Head(eventq).list \in Seq(1 .. Len(bundles))
<1> DEFINE E == EventSet(Len(bundles))
<1>1. eventq \in Seq(E) /\ eventq # <<>> /\ Head(eventq).type = type
      /\ 1 .. Len(bundles) \subseteq Ids
  BY TypeFacts DEF Handling
<1> HIDE DEF E
<1>2. Tail(eventq) \in Seq(E) /\ Head(eventq) = eventq[1] /\ 1 \in DOMAIN eventq
      /\ Head(eventq) \in E
  BY <1>1, TailOf
<1> QED BY <1>1, <1>2 DEF E, EventSet

\* delete_fragment takes fragments out of the list.
LEMMA DeleteFragmentFacts ==
    ASSUME TypeInv, NEW ids
    PROVE  /\ delete_fragment(ids) \in StateRecord(Len(bundles))
           /\ delete_fragment(ids).list = Without(state.list, ids)
           /\ delete_fragment(ids) # NoState <=> delete_fragment(ids).list # <<>>
           /\ delete_fragment(ids).list # <<>> =>
                 /\ delete_fragment(ids).bundle = state.bundle
                 /\ state.list # <<>>
<1> DEFINE left == Without(state.list, ids)
           n == Len(bundles)
<1>1. state \in StateRecord(n) /\ (state # NoState <=> state.list # <<>>)
      /\ (state.list # <<>> => state.bundle \in 1 .. n)
  BY TypeFacts
<1>2. state.list \in Seq(1 .. n)
      /\ state = [bundle |-> state.bundle, list |-> state.list]
  BY <1>1 DEF StateRecord
<1>3. left \in Seq(1 .. n) /\ (left # <<>> => state.list # <<>>)
  <2> HIDE DEF n
  <2>1. /\ left \in Seq(1 .. n)
        /\ \A j \in DOMAIN left : \E m \in DOMAIN state.list : left[j] = state.list[m]
    BY <1>2, WithoutFacts
  <2> HIDE DEF left
  <2>2. left # <<>> => 1 \in DOMAIN left
    BY <2>1
  <2>3. state.list = <<>> => DOMAIN state.list = {}
    OBVIOUS
  <2> QED BY <2>1, <2>2, <2>3
<1>4. delete_fragment(ids) = IF left = state.list THEN state
                             ELSE IF left = <<>> THEN NoState
                             ELSE [state EXCEPT !.list = left]
  BY DEF delete_fragment
<1> HIDE DEF left, n
<1>5. CASE left = state.list
  BY <1>1, <1>2, <1>4, <1>5 DEF left, n
<1>6. CASE left # state.list /\ left = <<>>
  <2>1. delete_fragment(ids) = NoState
    BY <1>4, <1>6
  <2>2. NoState \in StateRecord(n) /\ NoState.list = <<>>
    BY DEF NoState, StateRecord
  <2> QED BY <2>1, <2>2, <1>6 DEF left, n
<1>7. CASE left # state.list /\ left # <<>>
  <2> DEFINE d == [bundle |-> state.bundle, list |-> left]
  <2>1. delete_fragment(ids) = d
    BY <1>2, <1>4, <1>7
  <2>2. d \in StateRecord(n) /\ d.list = left /\ d.bundle = state.bundle
    BY <1>1, <1>3, <1>7 DEF StateRecord
  <2>3. d # NoState
    BY <1>7 DEF NoState
  <2> HIDE DEF d
  <2> QED BY <2>1, <2>2, <2>3, <1>3, <1>7 DEF left, n
<1> QED BY <1>5, <1>6, <1>7

\* delete_obsoleted_fragments asks for the deletion of every fragment.
LEMMA ObsoletedFacts ==
    ASSUME TypeInv
    PROVE  /\ delete_obsoleted_fragments \in Seq(EventSet(Len(bundles)))
           /\ Range(delete_obsoleted_fragments) =
                  {Post("delete", state.list[k]) : k \in DOMAIN state.list}
<1> DEFINE n == Len(bundles)
           list == state.list
           m == Len(list)
           t == delete_obsoleted_fragments
<1>1. list \in Seq(1 .. n)
  BY TypeFacts DEF StateRecord
<1>2. t = [k \in DOMAIN Reverse(list) |-> Post("delete", Reverse(list)[k])]
  BY DEF delete_obsoleted_fragments, Spread
<1> HIDE DEF n, list, t
<1>3. m \in Nat /\ DOMAIN list = 1 .. m
      /\ DOMAIN Reverse(list) = 1 .. m
      /\ \A k \in 1 .. m : Reverse(list)[k] = list[(m - k) + 1]
  <2>1. m \in Nat /\ DOMAIN list = 1 .. m
    BY <1>1
  <2>2. Reverse(list) = [k \in 1 .. m |-> list[(m - k) + 1]]
    BY DEF Reverse
  <2> HIDE DEF m
  <2> QED BY <2>1, <2>2
<1>4. \A k \in 1 .. m : (m - k) + 1 \in 1 .. m /\ (m - ((m - k) + 1)) + 1 = k
  BY <1>3
<1>5. \A i \in 1 .. n : Post("delete", i) \in EventSet(n)
  BY DEF Post, Event, EventSet, EventTypes
<1> HIDE DEF m
<1>6. t = [k \in 1 .. m |-> Post("delete", list[(m - k) + 1])]
  BY <1>2, <1>3
<1>7. \A k \in 1 .. m : list[(m - k) + 1] \in 1 .. n
  <2> DEFINE S == 1 .. n
  <2>1. list \in Seq(S)
    BY <1>1
  <2> HIDE DEF S
  <2>2. \A j \in DOMAIN list : list[j] \in S
    BY <2>1
  <2> QED BY <2>2, <1>3, <1>4 DEF S
<1>8. t \in Seq(EventSet(n))
  BY <1>3, <1>5, <1>6, <1>7
<1>9. Range(t) = {Post("delete", list[k]) : k \in DOMAIN list}
  <2>1. ASSUME NEW k \in DOMAIN t PROVE \E j \in DOMAIN list : t[k] = Post("delete", list[j])
    BY <1>3, <1>4, <1>6
  <2>2. ASSUME NEW j \in DOMAIN list PROVE \E k \in DOMAIN t : t[k] = Post("delete", list[j])
    <3>1. j \in 1 .. m /\ (m - j) + 1 \in 1 .. m
      BY <1>3, <1>4
    <3>2. t[(m - j) + 1] = Post("delete", list[j])
      BY <3>1, <1>4, <1>6
    <3> QED BY <3>1, <3>2, <1>6
  <2> QED BY <2>1, <2>2 DEF Range
<1> QED BY <1>8, <1>9 DEF n, list, t

\* A handler that takes its event, appends some, and frees.
LEMMA PopFreed ==
    ASSUME TypeInv, eventq # <<>>, NEW new,
           NEW q \in Seq(EventSet(Len(bundles))), Extended(Tail(eventq), q, new),
           eventq' = Freed(q)
    PROVE  /\ eventq' \in Seq(EventSet(Len(bundles)))
           /\ Requeued(1, TRUE, {}, new \cup FreeEvents(Unreferenced(q)))
<1> DEFINE n == Len(bundles)
<1>1. n \in Nat /\ eventq \in Seq(EventSet(n)) /\ stored \subseteq 1 .. n
      /\ q \in Seq(EventSet(n))
  BY TypeFacts
<1>2. SUFFICES /\ eventq' \in Seq(EventSet(n))
               /\ Requeued(1, TRUE, {}, new \cup FreeEvents(Unreferenced(q)))
  OBVIOUS
<1> HIDE DEF n
<1>3. Freed(q) \in Seq(EventSet(n)) /\ Extended(q, Freed(q), FreeEvents(Unreferenced(q)))
  BY <1>1, FreedFacts
<1>4. Extended(Tail(eventq), eventq', new \cup FreeEvents(Unreferenced(q)))
  BY <1>3, ExtendedTwice
<1> QED BY <1>1, <1>3, <1>4, PoppedThenExtended

\* A handler that takes its event and frees.
LEMMA JustPopFreed ==
    ASSUME TypeInv, eventq # <<>>, eventq' = Freed(Tail(eventq))
    PROVE  /\ eventq' \in Seq(EventSet(Len(bundles)))
           /\ Requeued(1, TRUE, {}, FreeEvents(Unreferenced(Tail(eventq))))
<1> DEFINE q == Tail(eventq)
           F == FreeEvents(Unreferenced(q))
<1>1. q \in Seq(EventSet(Len(bundles)))
  BY TypeFacts
<1>2. Extended(q, q, {})
  BY DEF Extended
<1>3. eventq' \in Seq(EventSet(Len(bundles))) /\ Requeued(1, TRUE, {}, {} \cup F)
  <2> HIDE DEF q
  <2>1. Extended(Tail(eventq), q, {}) /\ eventq' = Freed(q)
    BY <1>2 DEF q
  <2> QED BY <1>1, <2>1, PopFreed
<1>4. {} \cup F = F
  OBVIOUS
<1> HIDE DEF F
<1> QED BY <1>3, <1>4 DEF F, q

\* A handler that puts an event in the place of its own, and frees.
LEMMA PushFreed ==
    ASSUME TypeInv, eventq # <<>>, NEW n \in Nat, Len(bundles) <= n,
           NEW e \in EventSet(n), eventq' = Freed(<<e>> \o Tail(eventq))
    PROVE  /\ eventq' \in Seq(EventSet(n))
           /\ Requeued(0, TRUE, {e}, FreeEvents(Unreferenced(<<e>> \o Tail(eventq))))
<1> DEFINE q == <<e>> \o Tail(eventq)
<1>1. eventq \in Seq(EventSet(n)) /\ stored \subseteq 1 .. n
  <2>1. Len(bundles) \in Nat /\ eventq \in Seq(EventSet(Len(bundles)))
        /\ stored \subseteq 1 .. Len(bundles)
    BY TypeFacts
  <2> QED BY <2>1, MoreEvents
<1>2. q \in Seq(EventSet(n))
  <2> DEFINE E == EventSet(n)
  <2> HIDE DEF E
  <2>1. eventq \in Seq(E) /\ e \in E
    BY <1>1 DEF E
  <2>2. q \in Seq(E)
    BY <2>1
  <2> QED BY <2>2 DEF E
<1> HIDE DEF q
<1>3. Freed(q) \in Seq(EventSet(n)) /\ Extended(q, Freed(q), FreeEvents(Unreferenced(q)))
  BY <1>1, <1>2, FreedFacts
<1>4. Extended(<<e>> \o Tail(eventq), eventq', FreeEvents(Unreferenced(q)))
  BY <1>3 DEF q
<1>5. Requeued(0, TRUE, {e}, FreeEvents(Unreferenced(q)))
  BY <1>1, <1>4, ReplacedThenExtended
<1> QED BY <1>3, <1>5 DEF q

\* add_to_pending, for a bundle that exists.
LEMMA AddToPendingFacts ==
    ASSUME TypeInv, NEW i \in 1 .. Len(bundles), add_to_pending(i)
    PROVE  /\ pending' \subseteq 1 .. Len(bundles) /\ stored' = stored \cup {i}
           /\ stored' \subseteq 1 .. Len(bundles)
           /\ pending \subseteq pending' /\ pending' \subseteq pending \cup {i}
           /\ fwdlog[i] # "DELIVERED" => i \in pending' /\ reg' = reg
           /\ reg' \in [queued : SUBSET (1 .. Len(bundles)),
                        out : SUBSET (1 .. Len(bundles))]
           /\ reg'.queued \subseteq reg.queued /\ reg'.out \subseteq reg.out
<1>1. /\ pending \subseteq 1 .. Len(bundles) /\ stored \subseteq 1 .. Len(bundles)
      /\ reg \in [queued : SUBSET (1 .. Len(bundles)), out : SUBSET (1 .. Len(bundles))]
  BY TypeFacts
<1>2. CASE fwdlog[i] = "DELIVERED"
  <2>1. /\ stored' = stored \cup {i} /\ pending' = pending
        /\ reg' = [queued |-> reg.queued \ {i}, out |-> reg.out \ {i}]
    BY <1>2 DEF add_to_pending
  <2>2. reg.queued \subseteq 1 .. Len(bundles) /\ reg.out \subseteq 1 .. Len(bundles)
    BY <1>1
  <2>3. /\ reg' \in [queued : SUBSET (1 .. Len(bundles)),
                     out : SUBSET (1 .. Len(bundles))]
        /\ reg'.queued \subseteq reg.queued /\ reg'.out \subseteq reg.out
    BY <2>1, <2>2
  <2> QED BY <1>1, <1>2, <2>1, <2>3
<1>3. CASE fwdlog[i] # "DELIVERED"
  BY <1>1, <1>3 DEF add_to_pending
<1> QED BY <1>2, <1>3

\* delete_bundle.
LEMMA DeleteBundleFacts ==
    ASSUME TypeInv, NEW ids, delete_bundle(ids)
    PROVE  /\ pending' = pending \ ids /\ pending' \subseteq 1 .. Len(bundles)
           /\ reg' \in [queued : SUBSET (1 .. Len(bundles)),
                        out : SUBSET (1 .. Len(bundles))]
           /\ reg'.queued \subseteq reg.queued /\ reg'.out \subseteq reg.out
           /\ state' \in StateRecord(Len(bundles))
           /\ state'.list = Without(state.list, ids)
           /\ state' # NoState <=> state'.list # <<>>
           /\ state'.list # <<>> => /\ state'.bundle = state.bundle
                                    /\ state'.bundle \in 1 .. Len(bundles)
                                    /\ state.list # <<>>
<1>1. /\ pending \subseteq 1 .. Len(bundles)
      /\ reg \in [queued : SUBSET (1 .. Len(bundles)), out : SUBSET (1 .. Len(bundles))]
      /\ state.list # <<>> => state.bundle \in 1 .. Len(bundles)
  BY TypeFacts
<1>2. state' = delete_fragment(ids) /\ pending' = pending \ ids
      /\ reg' = [queued |-> reg.queued \ ids, out |-> reg.out \ ids]
  BY DEF delete_bundle
<1>3. /\ state' \in StateRecord(Len(bundles))
      /\ state'.list = Without(state.list, ids)
      /\ state' # NoState <=> state'.list # <<>>
      /\ state'.list # <<>> => state'.bundle = state.bundle /\ state.list # <<>>
  BY <1>2, DeleteFragmentFacts
<1>4. /\ reg' \in [queued : SUBSET (1 .. Len(bundles)), out : SUBSET (1 .. Len(bundles))]
      /\ reg'.queued \subseteq reg.queued /\ reg'.out \subseteq reg.out
  BY <1>1, <1>2
<1> QED BY <1>1, <1>2, <1>3, <1>4

\* The remaining types.
LEMMA FlagFacts ==
    ASSUME TypeInv
    PROVE  /\ cache \in BOOLEAN /\ over \in BOOLEAN /\ handovers \in Nat
           /\ console \in 0 .. 1
  BY DEF TypeInv, TypeOK

\* Handlers that take their event, change the pending list, and free.
LEMMA DuplicateType ==
    ASSUME TypeInv, handle_duplicate \/ handle_delivered_gone
    PROVE  /\ TypeInv' /\ eventq # <<>>
           /\ Requeued(1, TRUE, {}, FreeEvents(Unreferenced(Tail(eventq))))
<1>1. /\ eventq # <<>> /\ eventq' = Freed(Tail(eventq))
      /\ UNCHANGED <<bundles, arrivals, pending, state, reg, stored, fwdlog, cache,
                     handovers, over, console, reloaded>>
  BY DEF handle_duplicate, handle_delivered_gone, Handling
<1>2. /\ eventq' \in Seq(EventSet(Len(bundles)))
      /\ Requeued(1, TRUE, {}, FreeEvents(Unreferenced(Tail(eventq))))
  BY <1>1, JustPopFreed
<1>3. TypeInv'
  BY <1>1, <1>2, TypeKept, TypeFacts, FlagFacts
<1> QED BY <1>1, <1>2, <1>3

\* A bundle that only becomes pending.
LEMMA PendingType ==
    ASSUME TypeInv, handle_too_late \/ handle_fragment_reloaded
    PROVE  /\ TypeInv' /\ eventq # <<>>
           /\ Requeued(1, TRUE, {}, FreeEvents(Unreferenced(Tail(eventq))))
<1>1. /\ eventq # <<>> /\ eventq' = Freed(Tail(eventq)) /\ Handling("received")
      /\ add_to_pending(Head(eventq).id)
      /\ UNCHANGED <<bundles, arrivals, state, fwdlog, cache,
                     handovers, over, console, reloaded>>
  BY DEF handle_too_late, handle_fragment_reloaded, Handling
<1>2. /\ eventq' \in Seq(EventSet(Len(bundles)))
      /\ Requeued(1, TRUE, {}, FreeEvents(Unreferenced(Tail(eventq))))
  BY <1>1, JustPopFreed
<1>3. Head(eventq).id \in 1 .. Len(bundles)
  BY <1>1, HeadFacts
<1>4. /\ pending' \subseteq 1 .. Len(bundles)
      /\ stored' \subseteq 1 .. Len(bundles)
      /\ reg' \in [queued : SUBSET (1 .. Len(bundles)),
                   out : SUBSET (1 .. Len(bundles))]
  BY <1>1, <1>3, AddToPendingFacts
<1>5. TypeInv'
  BY <1>1, <1>2, <1>4, TypeKept, TypeFacts, FlagFacts
<1> QED BY <1>1, <1>2, <1>5

\* A delivery.
LEMMA DeliverType ==
    ASSUME TypeInv, handle_deliver_bundle_to_reg
    PROVE  /\ TypeInv' /\ eventq # <<>>
           /\ Requeued(1, TRUE, {}, FreeEvents(Unreferenced(Tail(eventq))))
<1> DEFINE i == Head(eventq).id
           give == fwdlog[i] # "DELIVERED" /\ ~cache
<1>1. /\ eventq # <<>> /\ eventq' = Freed(Tail(eventq)) /\ Handling("deliver")
      /\ UNCHANGED <<bundles, arrivals, pending, state, stored, over, console,
                     reloaded>>
      /\ reg' = (IF give THEN [reg EXCEPT !.queued = @ \cup {i}] ELSE reg)
      /\ fwdlog' = (IF give THEN [fwdlog EXCEPT ![i] = "DELIVERED"] ELSE fwdlog)
      /\ cache' = TRUE
      /\ handovers' = (IF give THEN handovers + 1 ELSE handovers)
  BY DEF handle_deliver_bundle_to_reg, Handling
<1>2. /\ eventq' \in Seq(EventSet(Len(bundles)))
      /\ Requeued(1, TRUE, {}, FreeEvents(Unreferenced(Tail(eventq))))
  BY <1>1, JustPopFreed
<1>3. i \in 1 .. Len(bundles) /\ i \in Ids
  BY <1>1, HeadFacts
<1> HIDE DEF i, give
<1>4. /\ reg \in [queued : SUBSET (1 .. Len(bundles)), out : SUBSET (1 .. Len(bundles))]
      /\ fwdlog \in [Ids -> Log] /\ handovers \in Nat
  BY TypeFacts, FlagFacts
<1>5. reg' \in [queued : SUBSET (1 .. Len(bundles)), out : SUBSET (1 .. Len(bundles))]
  BY <1>1, <1>3, <1>4
<1>6. fwdlog' \in [Ids -> Log]
  BY <1>1, <1>3, <1>4 DEF Log
<1>7. handovers' \in Nat /\ cache' \in BOOLEAN
  BY <1>1, <1>4
<1>8. TypeInv'
  BY <1>1, <1>2, <1>5, <1>6, <1>7, TypeKept, TypeFacts, FlagFacts
<1> QED BY <1>1, <1>2, <1>8

\* A deletion.
LEMMA DeletionType ==
    ASSUME TypeInv, handle_deletion
    PROVE  /\ TypeInv' /\ eventq # <<>>
           /\ Requeued(1, TRUE, {}, FreeEvents(Unreferenced(Tail(eventq))))
<1>1. /\ eventq # <<>> /\ eventq' = Freed(Tail(eventq))
      /\ delete_bundle({Head(eventq).id})
      /\ UNCHANGED <<bundles, arrivals, stored, fwdlog, cache, handovers, over,
                     console, reloaded>>
  BY DEF handle_deletion, Handling
<1>2. /\ eventq' \in Seq(EventSet(Len(bundles)))
      /\ Requeued(1, TRUE, {}, FreeEvents(Unreferenced(Tail(eventq))))
  BY <1>1, JustPopFreed
<1>3. /\ pending' \subseteq 1 .. Len(bundles)
      /\ reg' \in [queued : SUBSET (1 .. Len(bundles)),
                   out : SUBSET (1 .. Len(bundles))]
      /\ state' \in StateRecord(Len(bundles))
      /\ state' # NoState <=> state'.list # <<>>
      /\ state'.list # <<>> => state'.bundle \in 1 .. Len(bundles)
  BY <1>1, DeleteBundleFacts
<1>4. TypeInv'
  BY <1>1, <1>2, <1>3, TypeKept, TypeFacts, FlagFacts
<1> QED BY <1>1, <1>2, <1>4

\* The end of a reassembly.
LEMMA CompletedType ==
    ASSUME TypeInv, handle_reassembly_completed
    PROVE  /\ TypeInv' /\ eventq # <<>>
           /\ Requeued(0, TRUE, {Received(Head(eventq).id, "frag")},
                  FreeEvents(Unreferenced(<<Received(Head(eventq).id, "frag")>>
                                              \o Tail(eventq))))
<1> DEFINE e == Received(Head(eventq).id, "frag")
<1>1. /\ eventq # <<>> /\ eventq' = Freed(<<e>> \o Tail(eventq))
      /\ Handling("completed")
      /\ delete_bundle(Range(Head(eventq).list))
      /\ UNCHANGED <<bundles, arrivals, stored, fwdlog, cache, handovers, over,
                     console, reloaded>>
  BY DEF handle_reassembly_completed, Handling
<1>2. Len(bundles) \in Nat /\ Head(eventq).id \in 1 .. Len(bundles)
  BY <1>1, HeadFacts, TypeFacts
<1>3. e \in EventSet(Len(bundles))
  BY <1>2 DEF Received, Event, EventSet, EventTypes
<1> HIDE DEF e
<1>4. /\ eventq' \in Seq(EventSet(Len(bundles)))
      /\ Requeued(0, TRUE, {e}, FreeEvents(Unreferenced(<<e>> \o Tail(eventq))))
  <2> DEFINE n == Len(bundles)
  <2>1. n \in Nat /\ Len(bundles) <= n /\ e \in EventSet(n)
    BY <1>2, <1>3
  <2> HIDE DEF n
  <2>2. /\ eventq' \in Seq(EventSet(n))
        /\ Requeued(0, TRUE, {e}, FreeEvents(Unreferenced(<<e>> \o Tail(eventq))))
    BY <1>1, <2>1, PushFreed
  <2> QED BY <2>2 DEF n
<1>5. /\ pending' \subseteq 1 .. Len(bundles)
      /\ reg' \in [queued : SUBSET (1 .. Len(bundles)),
                   out : SUBSET (1 .. Len(bundles))]
      /\ state' \in StateRecord(Len(bundles))
      /\ state' # NoState <=> state'.list # <<>>
      /\ state'.list # <<>> => state'.bundle \in 1 .. Len(bundles)
  BY <1>1, DeleteBundleFacts
<1>6. TypeInv'
  BY <1>1, <1>4, <1>5, TypeKept, TypeFacts, FlagFacts
<1> QED BY <1>1, <1>4, <1>6 DEF e

\* NoState is a state.
LEMMA NoStateFacts ==
    ASSUME NEW n \in Nat
    PROVE  NoState \in StateRecord(n) /\ NoState.list = <<>>
  BY DEF NoState, StateRecord

\* The deletions that follow a whole bundle.
Obsoleted == {Post("delete", state.list[k]) : k \in DOMAIN state.list}

\* A whole bundle, received or read back; q is the queue it leaves.
LEMMA WholeType ==
    ASSUME TypeInv, handle_whole_received \/ handle_whole_reloaded
    PROVE  /\ TypeInv' /\ eventq # <<>>
           /\ \E q, D : /\ D \subseteq {Post("deliver", Head(eventq).id)}
                        /\ handle_whole_received => D # {}
                        /\ q \in Seq(EventSet(Len(bundles)))
                        /\ Extended(Tail(eventq), q, Obsoleted \cup D)
                        /\ Requeued(1, TRUE, {}, (Obsoleted \cup D)
                                       \cup FreeEvents(Unreferenced(q)))
<1> DEFINE i == Head(eventq).id
           p == Post("deliver", i)
           t == Tail(eventq)
           o == delete_obsoleted_fragments
           E == EventSet(Len(bundles))
<1>1. /\ eventq # <<>> /\ Handling("received")
      /\ add_to_pending(i) /\ state' = NoState
      /\ UNCHANGED <<bundles, arrivals, cache, handovers, over, console, reloaded>>
  BY DEF handle_whole_received, handle_whole_reloaded, Handling
<1>2. i \in 1 .. Len(bundles) /\ i \in Ids /\ t \in Seq(E)
  BY <1>1, HeadFacts
<1>3. p \in E
  BY <1>2 DEF Post, Event, EventSet, EventTypes
<1>4. o \in Seq(E) /\ Range(o) = Obsoleted
  BY ObsoletedFacts DEF Obsoleted
<1>5. fwdlog' \in [Ids -> Log]
  <2>1. CASE handle_whole_received
    <3>1. fwdlog' = [fwdlog EXCEPT ![i] = "PENDING_DELIVERY"]
      BY <2>1 DEF handle_whole_received
    <3> HIDE DEF i
    <3> QED BY <3>1, TypeFacts DEF Log
  <2>2. CASE handle_whole_reloaded
    BY <2>2, TypeFacts DEF handle_whole_reloaded
  <2> QED BY <2>1, <2>2
<1>6. PICK q, D : /\ D \subseteq {p} /\ (handle_whole_received => D # {})
                  /\ q \in Seq(E) /\ Extended(t, q, Obsoleted \cup D)
                  /\ eventq' = Freed(q)
  <2> HIDE DEF E, t, o, p, i
  <2>1. t \o o \in Seq(E) /\ Extended(t, t \o o, Obsoleted)
    BY <1>2, <1>4, ConcatExtends
  <2>2. CASE handle_whole_received
    <3>1. eventq' = Freed(Append(t \o o, p))
      BY <2>2 DEF handle_whole_received, t, o, p, i
    <3>2. Append(t \o o, p) \in Seq(E) /\ Extended(t \o o, Append(t \o o, p), {p})
      BY <2>1, <1>3, AppendExtends
    <3>3. Extended(t, Append(t \o o, p), Obsoleted \cup {p})
      BY <2>1, <3>2, ExtendedTwice
    <3> QED BY <3>1, <3>2, <3>3
  <2>3. CASE handle_whole_reloaded /\ ~handle_whole_received
    <3> DEFINE x == IF fwdlog[i] = "PENDING_DELIVERY" THEN <<p>> ELSE <<>>
    <3>1. eventq' = Freed((t \o o) \o x)
      BY <2>3 DEF handle_whole_reloaded, t, o, p, i
    <3>2. x \in Seq(E) /\ Range(x) \subseteq {p}
      BY <1>3 DEF Range
    <3> HIDE DEF x
    <3>3. (t \o o) \o x \in Seq(E) /\ Extended(t \o o, (t \o o) \o x, Range(x))
      BY <2>1, <3>2, ConcatExtends
    <3>4. Extended(t, (t \o o) \o x, Obsoleted \cup Range(x))
      BY <2>1, <3>3, ExtendedTwice
    <3> QED BY <2>3, <3>1, <3>2, <3>3, <3>4
  <2> QED BY <2>2, <2>3
<1>7. /\ eventq' \in Seq(E)
      /\ Requeued(1, TRUE, {}, (Obsoleted \cup D) \cup FreeEvents(Unreferenced(q)))
  BY <1>1, <1>6, PopFreed
<1>8. /\ pending' \subseteq 1 .. Len(bundles)
      /\ stored' \subseteq 1 .. Len(bundles)
      /\ reg' \in [queued : SUBSET (1 .. Len(bundles)),
                   out : SUBSET (1 .. Len(bundles))]
  BY <1>1, <1>2, AddToPendingFacts
<1>9. TypeInv'
  <2> HIDE DEF i
  <2>1. state' \in StateRecord(Len(bundles)) /\ state'.list = <<>>
    BY <1>1, TypeFacts, NoStateFacts
  <2> QED BY <1>1, <1>5, <1>7, <1>8, <2>1, TypeKept, TypeFacts, FlagFacts
<1> QED BY <1>1, <1>6, <1>7, <1>9

\* The data of i goes into the bundle w of the reassembly state, which is
\* created if there is none.
CopiedInto(w, i) ==
    /\ w \in 1 .. Len(bundles') /\ bundles' \in Seq(BundleRecord)
    /\ \/ /\ state # NoState /\ w = state.bundle /\ w \in 1 .. Len(bundles)
          /\ Len(bundles') = Len(bundles)
          /\ bundles'[w] = [bundles[w] EXCEPT !.data = @ \cup bundles[i].data]
       \/ /\ state = NoState /\ w = Len(bundles) + 1 /\ Len(bundles') = w
          /\ Len(bundles) - arrivals < MaxStates
          /\ bundles'[w] = [off |-> 0, len |-> OrigLength, frag |-> FALSE,
                            data |-> bundles[i].data]
    /\ \A j \in 1 .. Len(bundles) : j # w => bundles'[j] = bundles[j]

CompletedEvent(w, i) == Event("completed", w, "none", add_fragment(state.list, i))

\* An element of a sequence is replaced.
LEMMA ReplacedElement ==
    ASSUME NEW S, NEW s \in Seq(S), NEW k \in 1 .. Len(s), NEW v \in S
    PROVE  /\ [s EXCEPT ![k] = v] \in Seq(S)
           /\ Len([s EXCEPT ![k] = v]) = Len(s)
           /\ [s EXCEPT ![k] = v][k] = v
           /\ \A j \in 1 .. Len(s) : j # k => [s EXCEPT ![k] = v][j] = s[j]
  OBVIOUS

\* process_for_reassembly, case by case.
LEMMA ProcessFacts ==
    ASSUME TypeInv, NEW i \in 1 .. Len(bundles), process_for_reassembly(i)
    PROVE  \E w : /\ CopiedInto(w, i)
                  /\ \/ /\ check_completed(add_fragment(state.list, i))
                        /\ state' = NoState
                        /\ eventq' = Freed(<<CompletedEvent(w, i)>> \o Tail(eventq))
                     \/ /\ ~check_completed(add_fragment(state.list, i))
                        /\ state' = [bundle |-> w, list |-> add_fragment(state.list, i)]
                        /\ eventq' = Freed(<<>> \o Tail(eventq))
<1> DEFINE fresh == state = NoState
           n == Len(bundles)
           w == IF fresh THEN n + 1 ELSE state.bundle
           list == add_fragment(state.list, i)
           new == [off |-> 0, len |-> OrigLength, frag |-> FALSE, data |-> {}]
           base == IF fresh THEN Append(bundles, new) ELSE bundles
           done == check_completed(list)
           D == bundles[i].data
<1>1. /\ fresh => n - arrivals < MaxStates
      /\ bundles' = [base EXCEPT ![w].data = @ \cup D]
      /\ state' = (IF done THEN NoState ELSE [bundle |-> w, list |-> list])
      /\ eventq' = Freed((IF done THEN <<Event("completed", w, "none", list)>>
                          ELSE <<>>) \o Tail(eventq))
  BY DEF process_for_reassembly
<1>2. /\ bundles \in Seq(BundleRecord) /\ n \in Nat
      /\ ~fresh => w \in 1 .. n
      /\ OrigLength \in Nat
  BY TypeFacts, SentAssumption
<1>3. bundles[i] \in BundleRecord
  BY <1>2
<1>4. D \subseteq Bytes /\ new \in BundleRecord
  BY <1>2, <1>3 DEF BundleRecord
<1> HIDE DEF D, list, done
<1>5. CopiedInto(w, i)
  <2>1. CASE fresh
    <3>1. base = Append(bundles, new) /\ w = n + 1
      BY <2>1
    <3>2. /\ base \in Seq(BundleRecord) /\ Len(base) = n + 1 /\ DOMAIN base = 1 .. n + 1
          /\ base[w] = new /\ \A j \in 1 .. n : base[j] = bundles[j]
      <4> HIDE DEF new
      <4> QED BY <3>1, <1>2, <1>4
    <3> HIDE DEF base, w
    <3> DEFINE v == [base[w] EXCEPT !.data = @ \cup D]
    <3>3. v = [off |-> 0, len |-> OrigLength, frag |-> FALSE, data |-> D]
      <4>0. v = [new EXCEPT !.data = @ \cup D]
        <5>1. base[w] = new
          BY <3>2
        <5> HIDE DEF new
        <5> QED BY <5>1
      <4>1. v = [off |-> 0, len |-> OrigLength, frag |-> FALSE, data |-> {} \cup D]
        <5> HIDE DEF v
        <5> QED BY <4>0
      <4>2. {} \cup D = D
        OBVIOUS
      <4> QED BY <4>1, <4>2
    <3>4. v \in BundleRecord
      <4> HIDE DEF v
      <4> QED BY <3>3, <1>2, <1>4 DEF BundleRecord
    <3>5. bundles' = [base EXCEPT ![w] = v]
      BY <1>1
    <3>6. w \in 1 .. Len(base)
      BY <3>1, <3>2, <1>2
    <3> HIDE DEF v
    <3>7. /\ bundles' \in Seq(BundleRecord) /\ Len(bundles') = n + 1
          /\ bundles'[w] = v
          /\ \A j \in 1 .. n + 1 : j # w => bundles'[j] = base[j]
      BY <3>2, <3>4, <3>5, <3>6, ReplacedElement
    <3>8. \A j \in 1 .. n : j # w => bundles'[j] = bundles[j]
      BY <3>2, <3>7, <1>2
    <3>9. w \in 1 .. Len(bundles') /\ w = Len(bundles) + 1 /\ Len(bundles') = w
      BY <3>1, <3>7, <1>2
    <3> QED BY <2>1, <1>1, <3>3, <3>7, <3>8, <3>9 DEF CopiedInto, D
  <2>2. CASE ~fresh
    <3>1. base = bundles /\ w = state.bundle /\ w \in 1 .. n
      BY <2>2, <1>2
    <3> HIDE DEF base, w
    <3>2. bundles[w] \in BundleRecord
      BY <3>1, <1>2
    <3> DEFINE v == [bundles[w] EXCEPT !.data = @ \cup D]
    <3>3. v \in BundleRecord
      BY <3>2, <1>4 DEF BundleRecord
    <3>4. bundles' = [bundles EXCEPT ![w] = v]
      BY <1>1, <3>1
    <3> HIDE DEF v
    <3>5. /\ bundles' \in Seq(BundleRecord) /\ Len(bundles') = n
          /\ bundles'[w] = v
          /\ \A j \in 1 .. n : j # w => bundles'[j] = bundles[j]
      BY <3>1, <3>3, <3>4, <1>2, ReplacedElement
    <3> QED BY <2>2, <3>1, <3>5 DEF CopiedInto, D, v
  <2> QED BY <2>1, <2>2
<1> HIDE DEF w
<1>6. CASE done
  <2>1. state' = NoState /\ eventq' = Freed(<<CompletedEvent(w, i)>> \o Tail(eventq))
    BY <1>1, <1>6 DEF CompletedEvent, list
  <2> QED BY <1>5, <1>6, <2>1 DEF done, list
<1>7. CASE ~done
  <2>1. state' = [bundle |-> w, list |-> list] /\ eventq' = Freed(<<>> \o Tail(eventq))
    BY <1>1, <1>7
  <2> QED BY <1>5, <1>7, <2>1 DEF done, list
<1> QED BY <1>6, <1>7

\* The queue that a fragment leaves.
AfterFragment(w, i) == IF check_completed(add_fragment(state.list, i))
                       THEN <<CompletedEvent(w, i)>> \o Tail(eventq)
                       ELSE Tail(eventq)

\* A fragment from a peer.
LEMMA FragmentType ==
    ASSUME TypeInv, handle_fragment_received
    PROVE  LET i == Head(eventq).id
               list == add_fragment(state.list, i)
           IN /\ TypeInv' /\ eventq # <<>>
              /\ \E w :
                   /\ CopiedInto(w, i)
                   /\ \/ /\ check_completed(list)
                         /\ state' = NoState
                         /\ Requeued(0, TRUE, {CompletedEvent(w, i)},
                                FreeEvents(Unreferenced(AfterFragment(w, i))))
                      \/ /\ ~check_completed(list)
                         /\ state' = [bundle |-> w, list |-> list]
                         /\ Requeued(1, TRUE, {},
                                FreeEvents(Unreferenced(AfterFragment(w, i))))
<1> DEFINE i == Head(eventq).id
           list == add_fragment(state.list, i)
           n == Len(bundles')
<1>1. /\ Handling("received") /\ eventq # <<>>
      /\ add_to_pending(i) /\ process_for_reassembly(i)
      /\ UNCHANGED <<fwdlog, cache, handovers, arrivals, over, console, reloaded>>
  BY DEF handle_fragment_received, Handling
<1>2. /\ i \in 1 .. Len(bundles) /\ i \in Ids /\ Len(bundles) \in Nat
      /\ Tail(eventq) \in Seq(EventSet(Len(bundles)))
  BY <1>1, HeadFacts, TypeFacts
<1> HIDE DEF i
<1>3. PICK w : /\ CopiedInto(w, i)
               /\ \/ /\ check_completed(list)
                     /\ state' = NoState
                     /\ eventq' = Freed(<<CompletedEvent(w, i)>> \o Tail(eventq))
                  \/ /\ ~check_completed(list)
                     /\ state' = [bundle |-> w, list |-> list]
                     /\ eventq' = Freed(<<>> \o Tail(eventq))
  BY <1>1, <1>2, ProcessFacts
<1>4. /\ n \in Nat /\ n <= MaxArrivals + MaxStates /\ Len(bundles) <= n
      /\ n - arrivals' \in 0 .. MaxStates /\ arrivals' \in 0 .. MaxArrivals
      /\ bundles' \in Seq(BundleRecord) /\ w \in 1 .. n
  <2>1. /\ w \in 1 .. n /\ bundles' \in Seq(BundleRecord)
        /\ \/ n = Len(bundles)
           \/ n = Len(bundles) + 1 /\ Len(bundles) - arrivals < MaxStates
    BY <1>3 DEF CopiedInto
  <2>2. /\ arrivals' = arrivals /\ arrivals \in 0 .. MaxArrivals
        /\ Len(bundles) - arrivals \in 0 .. MaxStates
    BY <1>1, TypeFacts
  <2>3. MaxArrivals \in Nat /\ MaxStates \in Nat
    BY SentAssumption
  <2> HIDE DEF n, list
  <2> QED BY <1>2, <2>1, <2>2, <2>3
<1>5. list \in Seq(1 .. Len(bundles)) /\ list # <<>>
  <2> DEFINE S == 1 .. Len(bundles)
  <2>1. state.list \in Seq(S) /\ \A x \in S : bundles[x].off \in Nat
    <3>1. state.list \in Seq(S)
      BY TypeFacts DEF StateRecord
    <3>2. bundles \in Seq(BundleRecord) /\ DOMAIN bundles = S
      BY TypeFacts
    <3>3. \A x \in S : bundles[x] \in BundleRecord
      BY <3>2
    <3> QED BY <3>1, <3>3 DEF BundleRecord
  <2> HIDE DEF S
  <2>2. list \in Seq(S) /\ list # <<>>
    BY <1>2, <2>1, AddFragmentFacts DEF S
  <2> QED BY <2>2 DEF S
<1> HIDE DEF list
<1>6. 1 .. Len(bundles) \subseteq 1 .. n /\ list \in Seq(1 .. n)
  BY <1>2, <1>4, <1>5
<1>7. CompletedEvent(w, i) \in EventSet(n)
  BY <1>4, <1>6 DEF CompletedEvent, Event, EventSet, EventTypes, list
<1>8. /\ eventq' \in Seq(EventSet(n))
      /\ \/ /\ check_completed(list)
            /\ state' = NoState
            /\ Requeued(0, TRUE, {CompletedEvent(w, i)},
                        FreeEvents(Unreferenced(AfterFragment(w, i))))
         \/ /\ ~check_completed(list)
            /\ state' = [bundle |-> w, list |-> list]
            /\ Requeued(1, TRUE, {}, FreeEvents(Unreferenced(AfterFragment(w, i))))
  <2>1. CASE check_completed(list)
    <3> DEFINE e == CompletedEvent(w, i)
    <3> HIDE DEF n, e
    <3>1. eventq' = Freed(<<e>> \o Tail(eventq)) /\ state' = NoState
      BY <1>3, <2>1 DEF e
    <3>2. AfterFragment(w, i) = <<e>> \o Tail(eventq)
      BY <2>1 DEF AfterFragment, list, e
    <3>3. /\ eventq' \in Seq(EventSet(n))
          /\ Requeued(0, TRUE, {e}, FreeEvents(Unreferenced(<<e>> \o Tail(eventq))))
      BY <1>1, <1>4, <1>7, <3>1, PushFreed DEF e
    <3> QED BY <2>1, <3>1, <3>2, <3>3 DEF e
  <2>2. CASE ~check_completed(list)
    <3>1. eventq' = Freed(<<>> \o Tail(eventq)) /\ state' = [bundle |-> w, list |-> list]
      BY <1>3, <2>2
    <3>2. <<>> \o Tail(eventq) = Tail(eventq)
      BY <1>2
    <3>3. AfterFragment(w, i) = Tail(eventq)
      BY <2>2 DEF AfterFragment, list
    <3>4. /\ eventq' \in Seq(EventSet(Len(bundles)))
          /\ Requeued(1, TRUE, {}, FreeEvents(Unreferenced(Tail(eventq))))
      BY <1>1, <3>1, <3>2, JustPopFreed
    <3>5. eventq' \in Seq(EventSet(n))
      <4> HIDE DEF n
      <4> QED BY <1>2, <1>4, <3>4, MoreEvents
    <3> QED BY <2>2, <3>1, <3>3, <3>4, <3>5
  <2> QED BY <2>1, <2>2
<1>9. /\ pending' \subseteq 1 .. n /\ stored' \subseteq 1 .. n
      /\ reg' \in [queued : SUBSET (1 .. n), out : SUBSET (1 .. n)]
  <2>1. /\ pending' \subseteq 1 .. Len(bundles) /\ stored' \subseteq 1 .. Len(bundles)
        /\ reg' \in [queued : SUBSET (1 .. Len(bundles)),
                     out : SUBSET (1 .. Len(bundles))]
    BY <1>1, <1>2, AddToPendingFacts
  <2> HIDE DEF n
  <2> QED BY <2>1, <1>6
<1>10. /\ state' \in StateRecord(n)
       /\ state' # NoState <=> state'.list # <<>>
       /\ state'.list # <<>> => state'.bundle \in 1 .. n
  <2>1. CASE state' = NoState
    BY <2>1, <1>4, NoStateFacts
  <2>2. CASE state' = [bundle |-> w, list |-> list]
    <3> HIDE DEF n
    <3>1. state' \in StateRecord(n)
      BY <2>2, <1>4, <1>6 DEF StateRecord
    <3>2. state'.list = list /\ state'.bundle = w
      BY <2>2
    <3>3. state' # NoState
      BY <3>2, <1>5 DEF NoState
    <3> QED BY <3>1, <3>2, <3>3, <1>4, <1>5
  <2> QED BY <2>1, <2>2, <1>8
<1>11. reloaded' \subseteq 1 .. n /\ fwdlog' \in [Ids -> Log]
  <2>1. reloaded \subseteq 1 .. Len(bundles) /\ fwdlog \in [Ids -> Log]
    BY TypeFacts
  <2> HIDE DEF n
  <2> QED BY <2>1, <1>1, <1>6
<1>12. TypeInv'
  <2>1. /\ cache' \in BOOLEAN /\ over' \in BOOLEAN /\ handovers' \in Nat
        /\ console' \in 0 .. 1
    BY <1>1, FlagFacts
  <2>2. Len(bundles') = n
    OBVIOUS
  <2>3. eventq' \in Seq(EventSet(n))
    BY <1>8
  <2> HIDE DEF n
  <2> QED BY <1>4, <1>9, <1>10, <1>11, <2>1, <2>2, <2>3, TypeAgain
<1> QED BY <1>1, <1>3, <1>8, <1>12 DEF i, list

\* A freed bundle leaves the store.
LEMMA FreeType ==
    ASSUME TypeInv, handle_bundle_free
    PROVE  TypeInv' /\ eventq # <<>> /\ Requeued(1, TRUE, {}, {})
<1>1. /\ eventq # <<>> /\ eventq' = Tail(eventq) /\ Handling("free")
      /\ stored' = stored \ {Head(eventq).id}
      /\ UNCHANGED <<bundles, pending, fwdlog, state, reg, cache, handovers,
                     arrivals, over, console, reloaded>>
  BY DEF handle_bundle_free, Handling
<1>2. /\ Tail(eventq) \in Seq(EventSet(Len(bundles)))
      /\ stored' \subseteq 1 .. Len(bundles)
      /\ eventq \in Seq(EventSet(Len(bundles))) /\ Len(bundles) \in Nat
  BY <1>1, HeadFacts, TypeFacts
<1>3. Extended(Tail(eventq), eventq', {})
  BY <1>1 DEF Extended
<1>4. Requeued(1, TRUE, {}, {})
  BY <1>1, <1>2, <1>3, PoppedThenExtended
<1>5. TypeInv'
  BY <1>1, <1>2, TypeKept, TypeFacts, FlagFacts
<1> QED BY <1>1, <1>4, <1>5

\* The application takes a bundle.
LEMMA AppReceivesType ==
    ASSUME TypeInv, NEW i \in Ids, AppReceives(i)
    PROVE  TypeInv' /\ Requeued(0, FALSE, {}, {Post("delivered", i)})
<1> DEFINE e == Post("delivered", i)
           n == Len(bundles)
<1>1. /\ i \in reg.queued /\ eventq' = Append(eventq, e)
      /\ reg' = [queued |-> reg.queued \ {i}, out |-> reg.out \cup {i}]
      /\ UNCHANGED <<bundles, pending, stored, fwdlog, state, cache, handovers,
                     arrivals, over, console, reloaded>>
  BY DEF AppReceives
<1>2. /\ reg \in [queued : SUBSET (1 .. n), out : SUBSET (1 .. n)]
      /\ eventq \in Seq(EventSet(n)) /\ n \in Nat
  BY TypeFacts
<1>3. i \in 1 .. n /\ reg' \in [queued : SUBSET (1 .. n), out : SUBSET (1 .. n)]
  <2>1. reg.queued \subseteq 1 .. n /\ reg.out \subseteq 1 .. n
    BY <1>2
  <2> HIDE DEF n
  <2> QED BY <2>1, <1>1
<1>4. e \in EventSet(n)
  BY <1>3 DEF Post, Event, EventSet, EventTypes
<1> HIDE DEF e
<1>5. eventq' \in Seq(EventSet(n)) /\ Extended(eventq, eventq', {e})
  <2> HIDE DEF n
  <2> QED BY <1>1, <1>2, <1>4, AppendExtends
<1>6. Requeued(0, FALSE, {}, {e})
  <2> HIDE DEF n
  <2> QED BY <1>2, <1>5, JustExtended
<1>7. TypeInv'
  BY <1>1, <1>3, <1>5, TypeKept, TypeFacts, FlagFacts
<1> QED BY <1>6, <1>7 DEF e

\* A bundle expires, by its timer or at the console.
LEMMA ExpiredType ==
    ASSUME TypeInv, NEW i \in Ids, ExpirationTimer(i) \/ ConsoleExpire(i)
    PROVE  /\ TypeInv' /\ i \in pending
           /\ Requeued(-1, FALSE, {Post("expired", i)}, {})
<1> DEFINE e == Post("expired", i)
           n == Len(bundles)
<1>1. /\ i \in pending /\ eventq' = <<e>> \o eventq
      /\ UNCHANGED <<bundles, pending, stored, fwdlog, state, reg, cache, handovers,
                     arrivals, over, reloaded>>
      /\ console' = console \/ console' = 1
  BY DEF ExpirationTimer, ConsoleExpire
<1>2. /\ eventq \in Seq(EventSet(n)) /\ n \in Nat /\ i \in 1 .. n
  BY <1>1, TypeFacts
<1>3. e \in EventSet(n)
  BY <1>2 DEF Post, Event, EventSet, EventTypes
<1> HIDE DEF e
<1>4. eventq' \in Seq(EventSet(n)) /\ Requeued(-1, FALSE, {e}, {})
  <2> HIDE DEF n
  <2> QED BY <1>1, <1>2, <1>3, JustPushed
<1>5. console' \in 0 .. 1
  BY <1>1, FlagFacts
<1>6. TypeInv'
  BY <1>1, <1>4, <1>5, TypeKept, TypeFacts, FlagFacts
<1> QED BY <1>1, <1>4, <1>6 DEF e

\* The lifetime ends.
LEMMA LifetimeType ==
    ASSUME TypeInv, LifetimeEnds
    PROVE  TypeInv'
<1>1. /\ over' = TRUE
      /\ UNCHANGED <<bundles, pending, stored, fwdlog, state, reg, cache, handovers,
                     arrivals, eventq, console, reloaded>>
  BY DEF LifetimeEnds
<1> QED BY <1>1, TypeKept, TypeFacts, FlagFacts

\* A sequence over a set is one over a larger set.
LEMMA LargerSeq ==
    ASSUME NEW A, NEW B, A \subseteq B, NEW s \in Seq(A)
    PROVE  s \in Seq(B)
  OBVIOUS

\* What has been received of a transfer.
LEMMA ArriveType ==
    ASSUME TypeInv, NEW s \in Sent, NEW rcvd \in 0 .. s.len, Arrive(s, rcvd)
    PROVE  LET b == try_to_convert_to_fragment(s, rcvd)
           IN /\ TypeInv'
              /\ b.off \in Nat /\ b.len \in Nat /\ b.off + b.len <= OrigLength
              /\ b.frag \in BOOLEAN /\ (~b.frag => b.off = 0 /\ b.len = OrigLength)
              /\ Len(bundles') = Len(bundles) + 1
              /\ \A j \in 1 .. Len(bundles) : bundles'[j] = bundles[j]
              /\ bundles'[Len(bundles) + 1] =
                     [off |-> b.off, len |-> b.len, frag |-> b.frag,
                      data |-> SpanOf(b.off, b.len)]
              /\ Requeued(0, FALSE, {}, {Received(Len(bundles) + 1, "peer")})
<1> DEFINE b == try_to_convert_to_fragment(s, rcvd)
           n == Len(bundles)
           e == Received(n + 1, "peer")
           r == [off |-> b.off, len |-> b.len, frag |-> b.frag,
                 data |-> SpanOf(b.off, b.len)]
<1>1. /\ bundles' = Append(bundles, r)
      /\ eventq' = Append(eventq, e)
      /\ arrivals < MaxArrivals /\ arrivals' = arrivals + 1
      /\ UNCHANGED <<pending, stored, fwdlog, state, reg, cache, handovers, over,
                     console, reloaded>>
  BY DEF Arrive
<1>2. /\ s.off \in Nat /\ s.len \in Nat /\ s.frag \in BOOLEAN
      /\ s.off + s.len <= OrigLength
      /\ ~s.frag => s.off = 0 /\ s.len = OrigLength
      /\ OrigLength \in Nat
  BY SentAssumption
<1>3. /\ b.off \in Nat /\ b.len \in Nat /\ b.off + b.len <= OrigLength
      /\ b.frag \in BOOLEAN /\ (~b.frag => b.off = 0 /\ b.len = OrigLength)
  <2>1. CASE rcvd = s.len
    BY <2>1, <1>2 DEF try_to_convert_to_fragment
  <2>2. CASE rcvd # s.len
    <3>1. b = [off |-> s.off, len |-> rcvd, frag |-> TRUE]
      BY <2>2 DEF try_to_convert_to_fragment
    <3>2. rcvd \in Nat /\ rcvd <= s.len
      BY <1>2
    <3> HIDE DEF b
    <3> QED BY <3>1, <3>2, <1>2
  <2> QED BY <2>1, <2>2
<1> HIDE DEF b
<1>4. SpanOf(b.off, b.len) \subseteq Bytes
  BY <1>2, <1>3 DEF SpanOf, Bytes
<1>5. r \in BundleRecord
  BY <1>3, <1>4 DEF BundleRecord
<1> HIDE DEF r
<1>6. /\ bundles \in Seq(BundleRecord) /\ n \in Nat /\ eventq \in Seq(EventSet(n))
      /\ arrivals \in 0 .. MaxArrivals /\ n - arrivals \in 0 .. MaxStates
  BY TypeFacts
<1>7. /\ bundles' \in Seq(BundleRecord) /\ Len(bundles') = n + 1
      /\ \A j \in 1 .. n : bundles'[j] = bundles[j]
      /\ bundles'[n + 1] = r
  BY <1>1, <1>5, <1>6
<1>8. e \in EventSet(n + 1) /\ n + 1 \in Nat /\ n <= n + 1
  BY <1>6 DEF Received, Event, EventSet, EventTypes
<1> HIDE DEF e
<1>9. /\ eventq \in Seq(EventSet(n + 1)) /\ eventq' \in Seq(EventSet(n + 1))
      /\ Extended(eventq, eventq', {e})
  <2> HIDE DEF n
  <2>1. eventq \in Seq(EventSet(n + 1))
    BY <1>6, <1>8, MoreEvents
  <2> QED BY <1>1, <1>8, <2>1, AppendExtends
<1>10. Requeued(0, FALSE, {}, {e})
  <2> HIDE DEF n
  <2> QED BY <1>8, <1>9, JustExtended
<1>11. TypeInv'
  <2> DEFINE m == n + 1
  <2>1. /\ m \in Nat /\ Len(bundles') = m /\ m <= MaxArrivals + MaxStates
        /\ arrivals' \in 0 .. MaxArrivals /\ m - arrivals' \in 0 .. MaxStates
        /\ 1 .. n \subseteq 1 .. m
    BY <1>1, <1>6, <1>7, SentAssumption
  <2>2. /\ pending \subseteq 1 .. n /\ stored \subseteq 1 .. n /\ reloaded \subseteq 1 .. n
        /\ reg \in [queued : SUBSET (1 .. n), out : SUBSET (1 .. n)]
        /\ fwdlog \in [Ids -> Log] /\ state \in StateRecord(n)
        /\ state # NoState <=> state.list # <<>>
        /\ state.list # <<>> => state.bundle \in 1 .. n
    BY TypeFacts
  <2>3. eventq' \in Seq(EventSet(m))
    BY <1>9
  <2> HIDE DEF n, m
  <2>4. /\ pending' \subseteq 1 .. m /\ stored' \subseteq 1 .. m /\ reloaded' \subseteq 1 .. m
        /\ reg' \in [queued : SUBSET (1 .. m), out : SUBSET (1 .. m)]
    BY <1>1, <2>1, <2>2
  <2>5. state' \in StateRecord(m)
    <3>1. state = [bundle |-> state.bundle, list |-> state.list]
          /\ state.bundle \in {0} \cup 1 .. n /\ state.list \in Seq(1 .. n)
      BY <2>2 DEF StateRecord
    <3>2. state.bundle \in {0} \cup 1 .. m
      BY <3>1, <2>1
    <3>3. state.list \in Seq(1 .. m)
      BY <3>1, <2>1, LargerSeq
    <3> QED BY <1>1, <3>1, <3>2, <3>3 DEF StateRecord
  <2>6. state'.list # <<>> => state'.bundle \in 1 .. m
    BY <1>1, <2>1, <2>2
  <2>7. /\ cache' \in BOOLEAN /\ over' \in BOOLEAN /\ handovers' \in Nat
        /\ console' \in 0 .. 1
        /\ fwdlog' \in [Ids -> Log]
        /\ state' # NoState <=> state'.list # <<>>
    BY <1>1, <2>2, FlagFacts
  <2> QED BY <1>7, <2>1, <2>3, <2>4, <2>5, <2>6, <2>7, TypeAgain
<1> QED BY <1>3, <1>7, <1>10, <1>11 DEF b, e, r

\* A restart: the queue is what was read from the store.
LEMMA CrashType ==
    ASSUME TypeInv, Crash
    PROVE  /\ TypeInv'
           /\ \A k \in DOMAIN eventq' : \E i \in stored : eventq'[k] = Received(i, "store")
           /\ \A i \in stored : \E k \in DOMAIN eventq' : eventq'[k] = Received(i, "store")
<1> DEFINE n == Len(bundles)
           ids == SetToSeq(stored)
<1>1. /\ pending' = {} /\ state' = NoState /\ cache' = FALSE /\ handovers' = 0
      /\ reg' = [queued |-> reg.queued \cap stored, out |-> reg.out \cap stored]
      /\ eventq' = [k \in DOMAIN ids |-> Received(ids[k], "store")]
      /\ reloaded' = stored
      /\ UNCHANGED <<bundles, stored, fwdlog, arrivals, over, console>>
  BY DEF Crash
<1>2. /\ stored \subseteq 1 .. n /\ n \in Nat
      /\ reg \in [queued : SUBSET (1 .. n), out : SUBSET (1 .. n)]
  BY TypeFacts
<1> HIDE DEF n
<1>3. IsFiniteSet(stored)
  <2>1. IsFiniteSet(1 .. n)
    BY <1>2, FS_Interval
  <2> QED BY <1>2, <2>1, FS_Subset
<1>4. /\ ids \in Seq(stored)
      /\ \A x \in stored : \E i \in DOMAIN ids : ids[i] = x
  BY <1>3, SetToSeqFacts
<1> HIDE DEF ids
<1>5. \A i \in stored : Received(i, "store") \in EventSet(n)
  BY <1>2 DEF Received, Event, EventSet, EventTypes
<1>6. DOMAIN ids = 1 .. Len(ids) /\ Len(ids) \in Nat
      /\ \A k \in DOMAIN ids : ids[k] \in stored
  BY <1>4
<1>7. eventq' \in Seq(EventSet(n)) /\ DOMAIN eventq' = DOMAIN ids
      /\ \A k \in DOMAIN ids : eventq'[k] = Received(ids[k], "store")
  BY <1>1, <1>5, <1>6
<1>8. reg' \in [queued : SUBSET (1 .. n), out : SUBSET (1 .. n)]
  BY <1>1, <1>2
<1>9. TypeInv'
  <2>1. state' \in StateRecord(n) /\ state'.list = <<>>
    BY <1>1, <1>2, NoStateFacts
  <2>2. pending' \subseteq 1 .. n /\ cache' \in BOOLEAN /\ handovers' \in Nat
    BY <1>1
  <2> QED BY <1>1, <1>2, <1>7, <1>8, <2>1, <2>2, TypeKept, TypeFacts, FlagFacts DEF n
<1> QED BY <1>4, <1>6, <1>7, <1>9

----------------------------------------------------------------------------
(* Data.                                                                   *)

\* The first n bundles stay what they are; the data of one that is not a
\* fragment may grow.
Grown(n, bs, bt) ==
    \A j \in 1 .. n : /\ bt[j].frag <=> bs[j].frag
                      /\ bt[j].off = bs[j].off /\ bt[j].len = bs[j].len
                      /\ bs[j].frag => bt[j].data = bs[j].data
                      /\ bs[j].data \subseteq bt[j].data
                      /\ bs[j].data = Bytes => bt[j].data = Bytes

\* Sound bundles and events stay sound.
LEMMA SoundKept ==
    ASSUME NEW n \in Nat, NEW bs, NEW bt, Grown(n, bs, bt)
    PROVE  /\ \A i \in 1 .. n : Sound(bs, i) => Sound(bt, i)
           /\ \A e \in EventSet(n) : EventSound(bs, e) => EventSound(bt, e)
           /\ \A i \in 1 .. n : GoodFragment(bs, i) /\ bs[i].frag => GoodFragment(bt, i)
<1>1. \A i \in 1 .. n : Sound(bs, i) => Sound(bt, i)
  BY DEF Grown, Sound
<1>2. ASSUME NEW e \in EventSet(n), EventSound(bs, e)
      PROVE  EventSound(bt, e)
  <2>1. e.id \in 1 .. n /\ e.list \in Seq(1 .. n)
    BY DEF EventSet
  <2>2. \A k \in DOMAIN e.list : e.list[k] \in 1 .. n
    BY <2>1
  <2> QED BY <1>1, <1>2, <2>1, <2>2 DEF EventSound, Grown
<1>3. \A i \in 1 .. n : GoodFragment(bs, i) /\ bs[i].frag => GoodFragment(bt, i)
  BY DEF Grown, GoodFragment
<1> QED BY <1>1, <1>2, <1>3

\* The events after a step are sound if the new ones are.
LEMMA EventsSound ==
    ASSUME TypeInv, DataInv, Grown(Len(bundles), bundles, bundles'),
           NEW s, NEW gone, NEW first, NEW new, Requeued(s, gone, first, new),
           \A e \in first \cup new : EventSound(bundles', e)
    PROVE  \A k \in DOMAIN eventq' : EventSound(bundles', eventq'[k])
<1>1. Len(bundles) \in Nat /\ eventq \in Seq(EventSet(Len(bundles)))
  BY TypeFacts
<1>2. \A m \in DOMAIN eventq : eventq[m] \in EventSet(Len(bundles))
  BY <1>1
<1>3. \A m \in DOMAIN eventq : EventSound(bundles', eventq[m])
  <2>1. \A m \in DOMAIN eventq : EventSound(bundles, eventq[m])
    BY DEF DataInv
  <2> QED BY <1>1, <1>2, <2>1, SoundKept
<1> QED BY <1>3 DEF Requeued

\* A free event is sound.
LEMMA FreeSound ==
    ASSUME TypeInv, DataInv, Grown(Len(bundles), bundles, bundles'), NEW q
    PROVE  \A e \in FreeEvents(Unreferenced(q)) : EventSound(bundles', e)
<1> SUFFICES ASSUME NEW i \in stored PROVE EventSound(bundles', Post("free", i))
  BY DEF FreeEvents, Unreferenced
<1>1. i \in 1 .. Len(bundles) /\ Sound(bundles, i) /\ Len(bundles) \in Nat
  BY TypeFacts DEF DataInv
<1>2. Sound(bundles', i)
  BY <1>1, SoundKept
<1> QED BY <1>2 DEF EventSound, Post, Event

\* The list of a state that does not change.
LEMMA ListKept ==
    ASSUME NEW n \in Nat, NEW bs, NEW bt, Grown(n, bs, bt),
           NEW st \in StateRecord(n), st.list # <<>> => st.bundle \in 1 .. n,
           ListOK(bs, st)
    PROVE  ListOK(bt, st)
<1>1. \A k \in DOMAIN st.list : st.list[k] \in 1 .. n
  <2>1. st.list \in Seq(1 .. n)
    BY DEF StateRecord
  <2> DEFINE S == 1 .. n
  <2> HIDE DEF S
  <2>2. st.list \in Seq(S)
    BY <2>1 DEF S
  <2>3. \A k \in DOMAIN st.list : st.list[k] \in S
    BY <2>2
  <2> QED BY <2>3 DEF S
<1>2. ASSUME NEW k \in DOMAIN st.list PROVE st.list # <<>>
  BY <1>2
<1>3. SortedList(bt, st.list)
  BY <1>1 DEF SortedList, Grown, ListOK
<1>4. \A k \in DOMAIN st.list : bt[st.list[k]].data = bs[st.list[k]].data
                                /\ bt[st.list[k]].frag
  BY <1>1 DEF Grown, ListOK
<1>5. st.list # <<>> => ~Covers(bt, st.list)
  BY <1>4 DEF Covers, ListOK
<1>6. \A k \in DOMAIN st.list : bt[st.list[k]].data \subseteq bt[st.bundle].data
  BY <1>2, <1>4 DEF ListOK, Grown
<1>7. st.list # <<>> => ~bt[st.bundle].frag
  BY DEF ListOK, Grown
<1> QED BY <1>3, <1>4, <1>5, <1>6, <1>7 DEF ListOK

\* A state that is not there.
LEMMA NoList == \A bs : ListOK(bs, NoState)
  BY DEF ListOK, NoState, SortedList

\* A list that fragments are deleted from.
LEMMA ListShrunk ==
    ASSUME NEW n \in Nat, NEW bs, NEW ids, NEW st \in StateRecord(n),
           ListOK(bs, st), NEW tt \in StateRecord(n),
           tt.list = Without(st.list, ids),
           tt.list # <<>> => tt.bundle = st.bundle /\ st.list # <<>>
    PROVE  ListOK(bs, tt)
<1> DEFINE S == 1 .. n
<1>0. st.list \in Seq(S)
  BY DEF StateRecord
<1> HIDE DEF S
<1>1. /\ \A j \in DOMAIN tt.list : \E m \in DOMAIN st.list : tt.list[j] = st.list[m]
      /\ \A j, k \in DOMAIN tt.list : j <= k =>
            \E m, p \in DOMAIN st.list : /\ m <= p /\ tt.list[j] = st.list[m]
                                         /\ tt.list[k] = st.list[p]
      /\ tt.list \in Seq(S)
  <2> DEFINE list == st.list
             left == tt.list
  <2>1. list \in Seq(S) /\ left = Without(list, ids)
    BY <1>0
  <2> HIDE DEF list, left
  <2>2. /\ \A j \in DOMAIN left : \E m \in DOMAIN list : left[j] = list[m]
        /\ \A j, k \in DOMAIN left : j <= k =>
              \E m, p \in DOMAIN list : /\ m <= p /\ left[j] = list[m]
                                        /\ left[k] = list[p]
        /\ left \in Seq(S)
    BY <2>1, WithoutFacts
  <2> QED BY <2>2 DEF list, left
<1>2. ASSUME NEW k \in DOMAIN tt.list PROVE tt.list # <<>>
  BY <1>2, <1>1
<1>3. \A k \in DOMAIN tt.list : /\ bs[tt.list[k]].frag
                                /\ bs[tt.list[k]].data \subseteq bs[tt.bundle].data
  BY <1>1, <1>2 DEF ListOK
<1>4. SortedList(bs, tt.list)
  <2> SUFFICES ASSUME NEW j \in DOMAIN tt.list, NEW k \in DOMAIN tt.list, j <= k
               PROVE  bs[tt.list[j]].off <= bs[tt.list[k]].off
    BY DEF SortedList
  <2>1. PICK m \in DOMAIN st.list, p \in DOMAIN st.list :
            m <= p /\ tt.list[j] = st.list[m] /\ tt.list[k] = st.list[p]
    BY <1>1
  <2> QED BY <2>1 DEF ListOK, SortedList
<1>5. Covers(bs, tt.list) => Covers(bs, st.list)
  BY <1>1 DEF Covers
<1> QED BY <1>3, <1>4, <1>5 DEF ListOK

\* A step that leaves the bundles alone.
LEMMA DataKept ==
    ASSUME TypeInv, DataInv, bundles' = bundles,
           NEW s, NEW gone, NEW first, NEW new, Requeued(s, gone, first, new),
           \A e \in first \cup new : EventSound(bundles, e),
           \A i \in pending' \cup stored' : Sound(bundles, i),
           \A i \in reg'.queued \cup reg'.out :
               ~bundles[i].frag /\ bundles[i].data = Bytes,
           \A i \in Ids : fwdlog'[i] # "none" => /\ i \in 1 .. Len(bundles)
                                                 /\ ~bundles[i].frag,
           ListOK(bundles, state')
    PROVE  DataInv'
<1>1. Grown(Len(bundles), bundles, bundles')
  BY DEF Grown
<1>2. \A k \in DOMAIN eventq' : EventSound(bundles', eventq'[k])
  BY <1>1, EventsSound
<1>3. \A i \in 1 .. Len(bundles) : bundles[i].frag => GoodFragment(bundles, i)
  BY DEF DataInv
<1>4. DeliveredIsWhole'
  BY DEF DeliveredIsWhole
<1> QED BY <1>2, <1>3, <1>4 DEF DataInv

\* DataInv, read off.
LEMMA DataFacts ==
    ASSUME DataInv
    PROVE  /\ \A i \in pending \cup stored : Sound(bundles, i)
           /\ \A i \in reg.queued \cup reg.out :
                  ~bundles[i].frag /\ bundles[i].data = Bytes
           /\ \A i \in Ids : fwdlog[i] # "none" => /\ i \in 1 .. Len(bundles)
                                                   /\ ~bundles[i].frag
           /\ \A k \in DOMAIN eventq : EventSound(bundles, eventq[k])
           /\ ListOK(bundles, state)
           /\ \A i \in 1 .. Len(bundles) : bundles[i].frag => GoodFragment(bundles, i)
  BY DEF DataInv, DeliveredIsWhole

\* The free events of a step that leaves the bundles alone.
LEMMA FreeSoundHere ==
    ASSUME DataInv, NEW q
    PROVE  \A e \in FreeEvents(Unreferenced(q)) : EventSound(bundles, e)
  BY DataFacts DEF FreeEvents, Unreferenced, EventSound, Post, Event

\* Handlers that only free.
LEMMA DuplicateData ==
    ASSUME TypeInv, DataInv, handle_duplicate \/ handle_delivered_gone
    PROVE  DataInv'
<1>1. UNCHANGED <<bundles, pending, state, reg, stored, fwdlog>>
  BY DEF handle_duplicate, handle_delivered_gone
<1>2. Requeued(1, TRUE, {}, FreeEvents(Unreferenced(Tail(eventq))))
  BY DuplicateType
<1>3. \A e \in {} \cup FreeEvents(Unreferenced(Tail(eventq))) : EventSound(bundles, e)
  BY FreeSoundHere
<1> QED BY <1>1, <1>2, <1>3, DataFacts, DataKept

\* A bundle that becomes pending.
LEMMA PendingData ==
    ASSUME TypeInv, DataInv, handle_too_late \/ handle_fragment_reloaded
    PROVE  DataInv'
<1> DEFINE i == Head(eventq).id
<1>1. /\ UNCHANGED <<bundles, state, fwdlog>> /\ Handling("received")
      /\ add_to_pending(i)
  BY DEF handle_too_late, handle_fragment_reloaded
<1>2. Requeued(1, TRUE, {}, FreeEvents(Unreferenced(Tail(eventq))))
  BY PendingType
<1>3. \A e \in {} \cup FreeEvents(Unreferenced(Tail(eventq))) : EventSound(bundles, e)
  BY FreeSoundHere
<1>4. i \in 1 .. Len(bundles) /\ Sound(bundles, i)
  BY <1>1, HeadFacts, DataFacts DEF EventSound
<1> HIDE DEF i
<1>5. /\ pending' \subseteq pending \cup {i} /\ stored' = stored \cup {i}
      /\ reg'.queued \subseteq reg.queued /\ reg'.out \subseteq reg.out
  BY <1>1, <1>4, AddToPendingFacts
<1>6. /\ \A j \in pending' \cup stored' : Sound(bundles, j)
      /\ \A j \in reg'.queued \cup reg'.out : ~bundles[j].frag /\ bundles[j].data = Bytes
  BY <1>4, <1>5, DataFacts
<1> QED BY <1>1, <1>2, <1>3, <1>6, DataFacts, DataKept

\* A delivery.
LEMMA DeliverData ==
    ASSUME TypeInv, DataInv, handle_deliver_bundle_to_reg
    PROVE  DataInv'
<1> DEFINE i == Head(eventq).id
           give == fwdlog[i] # "DELIVERED" /\ ~cache
<1>1. /\ UNCHANGED <<bundles, state, pending, stored>> /\ Handling("deliver")
      /\ reg' = (IF give THEN [reg EXCEPT !.queued = @ \cup {i}] ELSE reg)
      /\ fwdlog' = (IF give THEN [fwdlog EXCEPT ![i] = "DELIVERED"] ELSE fwdlog)
  BY DEF handle_deliver_bundle_to_reg
<1>2. Requeued(1, TRUE, {}, FreeEvents(Unreferenced(Tail(eventq))))
  BY DeliverType
<1>3. \A e \in {} \cup FreeEvents(Unreferenced(Tail(eventq))) : EventSound(bundles, e)
  BY FreeSoundHere
<1>4. i \in 1 .. Len(bundles) /\ i \in Ids /\ ~bundles[i].frag /\ bundles[i].data = Bytes
  BY <1>1, HeadFacts, DataFacts DEF EventSound, Sound
<1> HIDE DEF i, give
<1>5. \A j \in reg'.queued \cup reg'.out : ~bundles[j].frag /\ bundles[j].data = Bytes
  <2>1. reg \in [queued : SUBSET (1 .. Len(bundles)), out : SUBSET (1 .. Len(bundles))]
    BY TypeFacts
  <2>2. reg'.queued \subseteq reg.queued \cup {i} /\ reg'.out = reg.out
    BY <1>1, <2>1
  <2> QED BY <1>4, <2>2, DataFacts
<1>6. \A j \in Ids : fwdlog'[j] # "none" => j \in 1 .. Len(bundles) /\ ~bundles[j].frag
  <2>1. fwdlog \in [Ids -> Log]
    BY TypeFacts
  <2>2. \A j \in Ids : j = i \/ fwdlog'[j] = fwdlog[j]
    BY <1>1, <2>1
  <2> QED BY <1>4, <2>2, DataFacts
<1> QED BY <1>1, <1>2, <1>3, <1>5, <1>6, DataFacts, DataKept

\* A state that fragments are deleted from.
LEMMA DeletedListOK ==
    ASSUME TypeInv, DataInv, NEW ids, delete_bundle(ids)
    PROVE  ListOK(bundles, state')
<1> DEFINE n == Len(bundles)
<1>1. n \in Nat /\ state \in StateRecord(n) /\ ListOK(bundles, state)
  BY TypeFacts, DataFacts
<1>2. /\ state' \in StateRecord(n)
      /\ state'.list = Without(state.list, ids)
      /\ state'.list # <<>> => state'.bundle = state.bundle /\ state.list # <<>>
  BY DeleteBundleFacts
<1> DEFINE tt == state'
<1>3. /\ tt \in StateRecord(n) /\ tt.list = Without(state.list, ids)
      /\ tt.list # <<>> => tt.bundle = state.bundle /\ state.list # <<>>
  BY <1>2
<1> HIDE DEF n, tt
<1>4. ListOK(bundles, tt)
  BY <1>1, <1>3, ListShrunk
<1> QED BY <1>4 DEF tt

\* A deletion.
LEMMA DeletionData ==
    ASSUME TypeInv, DataInv, handle_deletion
    PROVE  DataInv'
<1>1. /\ UNCHANGED <<bundles, stored, fwdlog>>
      /\ delete_bundle({Head(eventq).id})
  BY DEF handle_deletion
<1>2. Requeued(1, TRUE, {}, FreeEvents(Unreferenced(Tail(eventq))))
  BY DeletionType
<1>3. \A e \in {} \cup FreeEvents(Unreferenced(Tail(eventq))) : EventSound(bundles, e)
  BY FreeSoundHere
<1>4. /\ pending' = pending \ {Head(eventq).id}
      /\ reg'.queued \subseteq reg.queued /\ reg'.out \subseteq reg.out
  BY <1>1, DeleteBundleFacts
<1>5. ListOK(bundles, state')
  BY <1>1, DeletedListOK
<1>6. /\ \A j \in pending' \cup stored' : Sound(bundles, j)
      /\ \A j \in reg'.queued \cup reg'.out : ~bundles[j].frag /\ bundles[j].data = Bytes
  BY <1>1, <1>4, DataFacts
<1> QED BY <1>1, <1>2, <1>3, <1>5, <1>6, DataFacts, DataKept

\* The end of a reassembly.
LEMMA CompletedData ==
    ASSUME TypeInv, DataInv, handle_reassembly_completed
    PROVE  DataInv'
<1> DEFINE e == Received(Head(eventq).id, "frag")
           N == FreeEvents(Unreferenced(<<e>> \o Tail(eventq)))
<1>1. /\ UNCHANGED <<bundles, stored, fwdlog>> /\ Handling("completed")
      /\ delete_bundle(Range(Head(eventq).list))
  BY DEF handle_reassembly_completed
<1>2. Requeued(0, TRUE, {e}, N)
  BY CompletedType
<1>3. EventSound(bundles, e)
  <2>1. EventSound(bundles, Head(eventq)) /\ Head(eventq).type = "completed"
    BY <1>1, HeadFacts, DataFacts
  <2> QED BY <2>1 DEF EventSound, Received, Event
<1>4. \A x \in N : EventSound(bundles, x)
  BY FreeSoundHere
<1> HIDE DEF e, N
<1>5. \A x \in {e} \cup N : EventSound(bundles, x)
  BY <1>3, <1>4
<1>6. /\ pending' = pending \ Range(Head(eventq).list)
      /\ reg'.queued \subseteq reg.queued /\ reg'.out \subseteq reg.out
  BY <1>1, DeleteBundleFacts
<1>7. ListOK(bundles, state')
  BY <1>1, DeletedListOK
<1>8. /\ \A j \in pending' \cup stored' : Sound(bundles, j)
      /\ \A j \in reg'.queued \cup reg'.out : ~bundles[j].frag /\ bundles[j].data = Bytes
  BY <1>1, <1>6, DataFacts
<1> QED BY <1>1, <1>2, <1>5, <1>7, <1>8, DataFacts, DataKept

\* A whole bundle.
LEMMA WholeData ==
    ASSUME TypeInv, DataInv, handle_whole_received \/ handle_whole_reloaded
    PROVE  DataInv'
<1> DEFINE i == Head(eventq).id
<1>1. /\ Handling("received") /\ add_to_pending(i) /\ state' = NoState
      /\ ~bundles[i].frag /\ UNCHANGED bundles
      /\ fwdlog' = fwdlog \/ fwdlog' = [fwdlog EXCEPT ![i] = "PENDING_DELIVERY"]
  BY DEF handle_whole_received, handle_whole_reloaded
<1>2. PICK q, D : /\ D \subseteq {Post("deliver", i)}
                  /\ Requeued(1, TRUE, {}, (Obsoleted \cup D)
                                              \cup FreeEvents(Unreferenced(q)))
  BY WholeType
<1>3. i \in 1 .. Len(bundles) /\ Sound(bundles, i) /\ i \in Ids
  BY <1>1, HeadFacts, DataFacts DEF EventSound
<1> HIDE DEF i
<1>4. \A e \in D : EventSound(bundles, e)
  BY <1>1, <1>2, <1>3 DEF EventSound, Post, Event
<1>5. \A e \in Obsoleted : EventSound(bundles, e)
  <2>1. \A k \in DOMAIN state.list : bundles[state.list[k]].frag
    BY DataFacts DEF ListOK
  <2> QED BY <2>1 DEF Obsoleted, EventSound, Post, Event, Sound
<1>6. \A e \in {} \cup ((Obsoleted \cup D) \cup FreeEvents(Unreferenced(q))) :
          EventSound(bundles, e)
  BY <1>4, <1>5, FreeSoundHere
<1>7. /\ pending' \subseteq pending \cup {i} /\ stored' = stored \cup {i}
      /\ reg'.queued \subseteq reg.queued /\ reg'.out \subseteq reg.out
  BY <1>1, <1>3, AddToPendingFacts
<1>8. /\ \A j \in pending' \cup stored' : Sound(bundles, j)
      /\ \A j \in reg'.queued \cup reg'.out : ~bundles[j].frag /\ bundles[j].data = Bytes
  BY <1>3, <1>7, DataFacts
<1>9. \A j \in Ids : fwdlog'[j] # "none" => j \in 1 .. Len(bundles) /\ ~bundles[j].frag
  <2>1. fwdlog \in [Ids -> Log]
    BY TypeFacts
  <2>2. \A j \in Ids : j = i \/ fwdlog'[j] = fwdlog[j]
    BY <1>1, <2>1
  <2> QED BY <1>1, <1>3, <2>2, DataFacts
<1>10. ListOK(bundles, state')
  BY <1>1, NoList
<1> QED BY <1>1, <1>2, <1>6, <1>8, <1>9, <1>10, DataKept

\* Copying a fragment's data changes the state's bundle and no other.
LEMMA CopiedGrows ==
    ASSUME TypeInv, DataInv, NEW i \in 1 .. Len(bundles), bundles[i].frag,
           NEW w, CopiedInto(w, i)
    PROVE  /\ Grown(Len(bundles), bundles, bundles') /\ Len(bundles) <= Len(bundles')
           /\ ~bundles'[w].frag /\ bundles[i].data \subseteq bundles'[w].data
           /\ state # NoState => bundles[w].data \subseteq bundles'[w].data
           /\ \A j \in 1 .. Len(bundles') : j = w \/ j \in 1 .. Len(bundles)
<1> DEFINE n == Len(bundles)
<1>1. /\ n \in Nat /\ bundles \in Seq(BundleRecord)
      /\ state # NoState <=> state.list # <<>>
  BY TypeFacts
<1>2. \A j \in 1 .. n : bundles[j] \in BundleRecord
  BY <1>1
<1>3. \A j \in 1 .. n : j # w => bundles'[j] = bundles[j]
  BY DEF CopiedInto
<1>4. bundles[i].data \subseteq Bytes
  BY <1>2 DEF BundleRecord
<1>5. CASE state # NoState
  <2>1. /\ w = state.bundle /\ w \in 1 .. n /\ Len(bundles') = n
        /\ bundles'[w] = [bundles[w] EXCEPT !.data = @ \cup bundles[i].data]
    BY <1>5 DEF CopiedInto
  <2>2. ~bundles[w].frag
    BY <1>1, <1>5, <2>1, DataFacts DEF ListOK
  <2> DEFINE r == bundles[w]
             x == bundles'[w]
             D == bundles[i].data
  <2>3. r \in BundleRecord /\ x = [r EXCEPT !.data = @ \cup D]
    BY <1>2, <2>1
  <2> HIDE DEF r, x, D
  <2>4. /\ x.frag = r.frag /\ x.off = r.off /\ x.len = r.len
        /\ x.data = r.data \cup D /\ r.data \subseteq Bytes
    BY <2>3 DEF BundleRecord
  <2>5. r.data = Bytes => x.data = Bytes
    BY <2>4, <1>4 DEF D
  <2>6. Grown(n, bundles, bundles')
    <3> SUFFICES ASSUME NEW j \in 1 .. n
                 PROVE  /\ bundles'[j].frag <=> bundles[j].frag
                        /\ bundles'[j].off = bundles[j].off
                        /\ bundles'[j].len = bundles[j].len
                        /\ bundles[j].frag => bundles'[j].data = bundles[j].data
                        /\ bundles[j].data \subseteq bundles'[j].data
                        /\ bundles[j].data = Bytes => bundles'[j].data = Bytes
      BY DEF Grown
    <3>1. CASE j = w
      BY <3>1, <2>2, <2>4, <2>5 DEF r, x
    <3>2. CASE j # w
      BY <3>2, <1>3
    <3> QED BY <3>1, <3>2
  <2> QED BY <1>1, <2>1, <2>2, <2>4, <2>6 DEF r, x, D
<1>6. CASE state = NoState
  <2>1. /\ w = n + 1 /\ Len(bundles') = n + 1
        /\ bundles'[w] = [off |-> 0, len |-> OrigLength, frag |-> FALSE,
                          data |-> bundles[i].data]
    BY <1>6 DEF CopiedInto
  <2>2. \A j \in 1 .. n : bundles'[j] = bundles[j]
    BY <1>1, <1>3, <2>1
  <2>3. Grown(n, bundles, bundles')
    BY <2>2 DEF Grown
  <2>4. ~bundles'[w].frag /\ bundles'[w].data = bundles[i].data
    BY <2>1
  <2> QED BY <1>1, <1>6, <2>1, <2>3, <2>4
<1> QED BY <1>5, <1>6

\* A fragment from a peer.
LEMMA FragmentData ==
    ASSUME TypeInv, DataInv, handle_fragment_received
    PROVE  DataInv'
<1> DEFINE i == Head(eventq).id
           list == add_fragment(state.list, i)
           n == Len(bundles)
<1>1. /\ Handling("received") /\ bundles[i].frag
      /\ add_to_pending(i) /\ UNCHANGED fwdlog
  BY DEF handle_fragment_received
<1>2. /\ i \in 1 .. n /\ i \in Ids /\ n \in Nat /\ n = Len(bundles)
      /\ state \in StateRecord(n)
      /\ state # NoState <=> state.list # <<>>
  BY <1>1, HeadFacts, TypeFacts
<1>3. PICK w :
        /\ CopiedInto(w, i)
        /\ \/ /\ check_completed(list)
              /\ state' = NoState
              /\ Requeued(0, TRUE, {CompletedEvent(w, i)},
                     FreeEvents(Unreferenced(AfterFragment(w, i))))
           \/ /\ ~check_completed(list)
              /\ state' = [bundle |-> w, list |-> list]
              /\ Requeued(1, TRUE, {},
                     FreeEvents(Unreferenced(AfterFragment(w, i))))
  BY FragmentType
<1> HIDE DEF i
<1>4. /\ Grown(n, bundles, bundles') /\ n <= Len(bundles')
      /\ ~bundles'[w].frag /\ bundles[i].data \subseteq bundles'[w].data
      /\ state # NoState => bundles[w].data \subseteq bundles'[w].data
      /\ \A j \in 1 .. Len(bundles') : j = w \/ j \in 1 .. n
  BY <1>1, <1>2, <1>3, CopiedGrows
<1>5. state # NoState => w = state.bundle
  BY <1>3 DEF CopiedInto
<1> HIDE DEF list, n
<1> DEFINE S == {x \in 1 .. n : bundles[x].frag}
<1>6. ListOK(bundles, state) /\ \A x \in S : GoodFragment(bundles, x)
  BY DataFacts DEF n
<1>7. state.list \in Seq(S) /\ i \in S
  <2>1. state.list \in Seq(1 .. n)
    BY <1>2 DEF StateRecord
  <2>2. \A k \in DOMAIN state.list : state.list[k] \in S
    <3> DEFINE A == 1 .. n
               l == state.list
    <3>1. l \in Seq(A)
      BY <2>1
    <3>2. \A k \in DOMAIN l : bundles[l[k]].frag
      BY <1>6 DEF ListOK
    <3> HIDE DEF A, l
    <3>3. \A k \in DOMAIN l : l[k] \in A
      BY <3>1
    <3> QED BY <3>2, <3>3 DEF A, l
  <2>3. i \in S
    BY <1>1, <1>2
  <2> HIDE DEF S
  <2> QED BY <2>1, <2>2, <2>3
<1> HIDE DEF S
<1>8. /\ list \in Seq(S) /\ list # <<>>
      /\ \A k \in DOMAIN list : \/ list[k] = i
                                \/ \E m \in DOMAIN state.list : list[k] = state.list[m]
      /\ SortedList(bundles, list)
  <2>1. \A x \in S : bundles[x].off \in Nat
    BY <1>6 DEF GoodFragment
  <2>2. SortedList(bundles, state.list)
    BY <1>6 DEF ListOK
  <2> DEFINE l == state.list
  <2>3. l \in Seq(S) /\ list = add_fragment(l, i) /\ SortedList(bundles, l)
    BY <1>7, <2>2 DEF list
  <2>4. SUFFICES /\ list \in Seq(S) /\ list # <<>>
                 /\ \A k \in DOMAIN list : \/ list[k] = i
                                           \/ \E m \in DOMAIN l : list[k] = l[m]
                 /\ SortedList(bundles, list)
    OBVIOUS
  <2> HIDE DEF l
  <2> QED BY <1>7, <2>1, <2>3, AddFragmentFacts
<1>9. /\ check_completed(list) => Covers(bundles, list)
      /\ SortedList(bundles, list) /\ Covers(bundles, list) => check_completed(list)
  BY <1>6, <1>8, CheckCompletedIsCoverage
<1>10. \A k \in DOMAIN list : /\ list[k] \in 1 .. n
                              /\ bundles[list[k]].frag /\ bundles'[list[k]].frag
                              /\ bundles'[list[k]].data = bundles[list[k]].data
                              /\ bundles'[list[k]].off = bundles[list[k]].off
  <2>1. \A k \in DOMAIN list : list[k] \in S
    BY <1>8
  <2> QED BY <2>1, <1>4 DEF S, Grown
<1>11. \A k \in DOMAIN list : bundles[list[k]].data \subseteq bundles'[w].data
  <2> SUFFICES ASSUME NEW k \in DOMAIN list
               PROVE  bundles[list[k]].data \subseteq bundles'[w].data
    OBVIOUS
  <2>1. CASE list[k] = i
    BY <2>1, <1>4
  <2>2. CASE list[k] # i
    <3>1. PICK m \in DOMAIN state.list : list[k] = state.list[m]
      BY <2>2, <1>8
    <3>2. state.list # <<>>
      BY <3>1
    <3>3. bundles[state.list[m]].data \subseteq bundles[state.bundle].data
      BY <1>6 DEF ListOK
    <3>4. bundles[state.bundle].data \subseteq bundles'[w].data
      BY <1>2, <1>4, <1>5, <3>2
    <3> QED BY <3>1, <3>3, <3>4
  <2> QED BY <2>1, <2>2
<1>12. Covers(bundles', list) <=> Covers(bundles, list)
  BY <1>10 DEF Covers
<1>13. SortedList(bundles', list)
  BY <1>8, <1>10 DEF SortedList
<1>14. bundles'[w].data \subseteq Bytes
  <2>1. bundles' \in Seq(BundleRecord) /\ w \in 1 .. Len(bundles')
    BY <1>3 DEF CopiedInto
  <2>2. bundles'[w] \in BundleRecord
    BY <2>1
  <2> QED BY <2>2 DEF BundleRecord
<1>15. \A e \in FreeEvents(Unreferenced(AfterFragment(w, i))) : EventSound(bundles', e)
  BY <1>4, FreeSound DEF n
<1>16. /\ \A k \in DOMAIN eventq' : EventSound(bundles', eventq'[k])
       /\ ListOK(bundles', state')
  <2> DEFINE N == FreeEvents(Unreferenced(AfterFragment(w, i)))
             e == CompletedEvent(w, i)
  <2>1. CASE check_completed(list)
    <3>1. state' = NoState /\ Requeued(0, TRUE, {e}, N)
      BY <1>3, <2>1
    <3>2. bundles'[w].data = Bytes
      <4>1. Covers(bundles, list)
        BY <1>9, <2>1
      <4> QED BY <4>1, <1>11, <1>14 DEF Covers
    <3>3. EventSound(bundles', e)
      <4>1. e.type = "completed" /\ e.id = w /\ e.src = "none" /\ e.list = list
        BY DEF CompletedEvent, Event, list
      <4> HIDE DEF e
      <4> QED BY <4>1, <3>2, <1>4, <1>10 DEF EventSound, Sound
    <3>4. \A x \in {e} \cup N : EventSound(bundles', x)
      BY <3>3, <1>15
    <3> HIDE DEF e, N
    <3>5. \A k \in DOMAIN eventq' : EventSound(bundles', eventq'[k])
      BY <1>4, <3>1, <3>4, EventsSound DEF n
    <3> QED BY <3>1, <3>5, NoList
  <2>2. CASE ~check_completed(list)
    <3>1. state' = [bundle |-> w, list |-> list] /\ Requeued(1, TRUE, {}, N)
      BY <1>3, <2>2
    <3>2. \A x \in {} \cup N : EventSound(bundles', x)
      BY <1>15
    <3> HIDE DEF N
    <3>3. \A k \in DOMAIN eventq' : EventSound(bundles', eventq'[k])
      BY <1>4, <3>1, <3>2, EventsSound DEF n
    <3>4. state'.list = list /\ state'.bundle = w
      BY <3>1
    <3>5. ~Covers(bundles', list)
      BY <1>8, <1>9, <1>12, <2>2
    <3>6. ListOK(bundles', state')
      BY <3>4, <3>5, <1>4, <1>10, <1>11, <1>13 DEF ListOK
    <3> QED BY <3>3, <3>6
  <2> QED BY <2>1, <2>2
<1>17. ASSUME NEW j \in 1 .. Len(bundles'), bundles'[j].frag
       PROVE  GoodFragment(bundles', j)
  <2>1. j \in 1 .. n /\ bundles[j].frag
    BY <1>4, <1>17 DEF Grown
  <2>2. GoodFragment(bundles, j)
    BY <2>1, DataFacts DEF n
  <2> QED BY <1>2, <1>4, <2>1, <2>2, SoundKept
<1>18. /\ pending' \subseteq pending \cup {i} /\ stored' = stored \cup {i}
       /\ reg'.queued \subseteq reg.queued /\ reg'.out \subseteq reg.out
  BY <1>1, <1>2, AddToPendingFacts DEF n
<1>19. \A j \in pending' \cup stored' : Sound(bundles', j)
  <2>1. \A j \in pending \cup stored : j \in 1 .. n /\ Sound(bundles, j)
    BY DataFacts, TypeFacts DEF n
  <2>2. Sound(bundles, i)
    BY <1>1 DEF Sound
  <2>3. \A j \in 1 .. n : Sound(bundles, j) => Sound(bundles', j)
    BY <1>2, <1>4, SoundKept
  <2> QED BY <1>2, <1>18, <2>1, <2>2, <2>3
<1>20. DeliveredIsWhole'
  <2>1. \A j \in reg.queued \cup reg.out :
            j \in 1 .. n /\ ~bundles[j].frag /\ bundles[j].data = Bytes
    BY DataFacts, TypeFacts DEF n
  <2> QED BY <1>4, <1>18, <2>1 DEF DeliveredIsWhole, Grown
<1>21. \A j \in Ids : fwdlog'[j] # "none" => j \in 1 .. Len(bundles') /\ ~bundles'[j].frag
  <2>1. \A j \in Ids : fwdlog[j] # "none" => j \in 1 .. n /\ ~bundles[j].frag
    BY DataFacts DEF n
  <2>2. Len(bundles') \in Nat
    BY <1>3 DEF CopiedInto
  <2>3. \A j \in 1 .. n : j \in 1 .. Len(bundles') /\ (bundles'[j].frag <=> bundles[j].frag)
    BY <1>2, <1>4, <2>2 DEF Grown
  <2> QED BY <1>1, <2>1, <2>3
<1> QED BY <1>16, <1>17, <1>19, <1>20, <1>21 DEF DataInv

\* A freed bundle leaves the store.
LEMMA FreeData ==
    ASSUME TypeInv, DataInv, handle_bundle_free
    PROVE  DataInv'
<1>1. /\ UNCHANGED <<bundles, pending, state, reg, fwdlog>>
      /\ stored' \subseteq stored
  BY DEF handle_bundle_free
<1>2. Requeued(1, TRUE, {}, {})
  BY FreeType
<1>3. \A i \in pending' \cup stored' : Sound(bundles, i)
  BY <1>1, DataFacts
<1>4. \A e \in {} \cup {} : EventSound(bundles, e)
  OBVIOUS
<1> QED BY <1>1, <1>2, <1>3, <1>4, DataFacts, DataKept

\* The application takes a bundle.
LEMMA AppReceivesData ==
    ASSUME TypeInv, DataInv, NEW i \in Ids, AppReceives(i)
    PROVE  DataInv'
<1> DEFINE e == Post("delivered", i)
<1>1. /\ UNCHANGED <<bundles, pending, state, stored, fwdlog>> /\ i \in reg.queued
      /\ reg' = [queued |-> reg.queued \ {i}, out |-> reg.out \cup {i}]
  BY DEF AppReceives
<1>2. Requeued(0, FALSE, {}, {e})
  BY AppReceivesType
<1>3. ~bundles[i].frag /\ bundles[i].data = Bytes
  BY <1>1, DataFacts
<1>4. \A x \in {} \cup {e} : EventSound(bundles, x)
  BY <1>3 DEF EventSound, Sound, Post, Event
<1> HIDE DEF e
<1>5. \A j \in reg'.queued \cup reg'.out : ~bundles[j].frag /\ bundles[j].data = Bytes
  <2>1. reg'.queued \subseteq reg.queued /\ reg'.out = reg.out \cup {i}
    BY <1>1
  <2> QED BY <1>3, <2>1, DataFacts
<1> QED BY <1>1, <1>2, <1>4, <1>5, DataFacts, DataKept

\* A bundle expires.
LEMMA ExpiredData ==
    ASSUME TypeInv, DataInv, NEW i \in Ids, ExpirationTimer(i) \/ ConsoleExpire(i)
    PROVE  DataInv'
<1> DEFINE e == Post("expired", i)
<1>1. UNCHANGED <<bundles, pending, state, stored, fwdlog, reg>>
  BY DEF ExpirationTimer, ConsoleExpire
<1>2. Requeued(-1, FALSE, {e}, {}) /\ i \in pending
  BY ExpiredType
<1>3. \A x \in {e} \cup {} : EventSound(bundles, x)
  BY <1>2, DataFacts DEF EventSound, Post, Event
<1> HIDE DEF e
<1> QED BY <1>1, <1>2, <1>3, DataFacts, DataKept

\* A transfer arrives.
LEMMA ArriveData ==
    ASSUME TypeInv, DataInv, NEW s \in Sent, NEW rcvd \in 0 .. s.len, Arrive(s, rcvd)
    PROVE  DataInv'
<1> DEFINE b == try_to_convert_to_fragment(s, rcvd)
           n == Len(bundles)
           e == Received(n + 1, "peer")
<1>1. UNCHANGED <<pending, stored, fwdlog, state, reg>>
  BY DEF Arrive
<1>2. /\ b.off \in Nat /\ b.len \in Nat /\ b.off + b.len <= OrigLength
      /\ b.frag \in BOOLEAN /\ (~b.frag => b.off = 0 /\ b.len = OrigLength)
      /\ Len(bundles') = n + 1
      /\ \A j \in 1 .. n : bundles'[j] = bundles[j]
      /\ bundles'[n + 1] = [off |-> b.off, len |-> b.len, frag |-> b.frag,
                            data |-> SpanOf(b.off, b.len)]
      /\ Requeued(0, FALSE, {}, {e})
  BY ArriveType
<1>3. /\ n \in Nat /\ n = Len(bundles) /\ state \in StateRecord(n)
      /\ state.list # <<>> => state.bundle \in 1 .. n
  BY TypeFacts
<1> HIDE DEF b, n
<1>4. Grown(n, bundles, bundles')
  BY <1>2 DEF Grown
<1>5. /\ bundles'[n + 1].off = b.off /\ bundles'[n + 1].len = b.len
      /\ bundles'[n + 1].frag = b.frag
      /\ bundles'[n + 1].data = SpanOf(b.off, b.len)
  BY <1>2
<1>6. GoodFragment(bundles', n + 1) /\ Sound(bundles', n + 1)
  BY <1>2, <1>5, SentAssumption DEF GoodFragment, Sound, SpanOf, Bytes
<1>7. EventSound(bundles', e)
  BY <1>6 DEF EventSound, Received, Event
<1> HIDE DEF e
<1>8. \A k \in DOMAIN eventq' : EventSound(bundles', eventq'[k])
  <2>1. \A x \in {} \cup {e} : EventSound(bundles', x)
    BY <1>7
  <2> QED BY <1>2, <1>4, <2>1, EventsSound DEF n
<1>9. ListOK(bundles', state')
  <2>1. ListOK(bundles, state)
    BY DataFacts
  <2>2. ListOK(bundles', state)
    BY <1>3, <1>4, <2>1, ListKept
  <2> QED BY <1>1, <2>2
<1>10. ASSUME NEW j \in 1 .. Len(bundles'), bundles'[j].frag
       PROVE  GoodFragment(bundles', j)
  <2>1. CASE j = n + 1
    BY <1>6, <2>1
  <2>2. CASE j # n + 1
    <3>1. j \in 1 .. n
      BY <1>2, <1>3, <2>2
    <3>2. bundles[j].frag
      BY <1>2, <1>10, <3>1
    <3>3. GoodFragment(bundles, j)
      BY <3>1, <3>2, DataFacts DEF n
    <3> QED BY <1>3, <1>4, <3>1, <3>2, <3>3, SoundKept
  <2> QED BY <2>1, <2>2
<1>11. \A j \in pending' \cup stored' : Sound(bundles', j)
  <2>1. \A j \in pending \cup stored : j \in 1 .. n /\ Sound(bundles, j)
    BY DataFacts, TypeFacts DEF n
  <2>2. \A j \in 1 .. n : Sound(bundles, j) => Sound(bundles', j)
    BY <1>3, <1>4, SoundKept
  <2> QED BY <1>1, <2>1, <2>2
<1>12. DeliveredIsWhole'
  <2>1. \A j \in reg.queued \cup reg.out :
            j \in 1 .. n /\ ~bundles[j].frag /\ bundles[j].data = Bytes
    BY DataFacts, TypeFacts DEF n
  <2> QED BY <1>1, <1>4, <2>1 DEF DeliveredIsWhole, Grown
<1>13. \A j \in Ids : fwdlog'[j] # "none" => j \in 1 .. Len(bundles') /\ ~bundles'[j].frag
  <2>1. \A j \in Ids : fwdlog[j] # "none" => j \in 1 .. n /\ ~bundles[j].frag
    BY DataFacts DEF n
  <2>2. \A j \in 1 .. n : j \in 1 .. Len(bundles') /\ bundles'[j] = bundles[j]
    BY <1>2, <1>3
  <2> QED BY <1>1, <2>1, <2>2
<1> QED BY <1>8, <1>9, <1>10, <1>11, <1>12, <1>13 DEF DataInv

\* A restart.
LEMMA CrashData ==
    ASSUME TypeInv, DataInv, Crash
    PROVE  DataInv'
<1>1. /\ UNCHANGED <<bundles, stored, fwdlog>> /\ state' = NoState /\ pending' = {}
      /\ reg' = [queued |-> reg.queued \cap stored, out |-> reg.out \cap stored]
  BY DEF Crash
<1>2. \A k \in DOMAIN eventq' : \E i \in stored : eventq'[k] = Received(i, "store")
  BY CrashType
<1>3. \A i \in stored : EventSound(bundles, Received(i, "store"))
  BY DataFacts DEF EventSound, Received, Event
<1>4. \A k \in DOMAIN eventq' : EventSound(bundles, eventq'[k])
  BY <1>2, <1>3
<1>5. DeliveredIsWhole'
  <2>1. reg'.queued \subseteq reg.queued /\ reg'.out \subseteq reg.out
    BY <1>1
  <2> QED BY <1>1, <2>1, DataFacts DEF DeliveredIsWhole
<1>6. ListOK(bundles, state')
  BY <1>1, NoList
<1> QED BY <1>1, <1>4, <1>5, <1>6, DataFacts DEF DataInv

\* The lifetime ends, or nothing happens.
LEMMA QuietData ==
    ASSUME DataInv, LifetimeEnds \/ UNCHANGED vars
    PROVE  DataInv'
<1>1. UNCHANGED <<bundles, pending, state, stored, fwdlog, reg, eventq>>
  BY DEF LifetimeEnds, vars
<1> QED BY <1>1 DEF DataInv, DeliveredIsWhole

\* The actions, one by one.
LEMMA StepCases ==
    ASSUME [Next]_vars
    PROVE  \/ handle_duplicate \/ handle_delivered_gone
           \/ handle_too_late \/ handle_fragment_reloaded
           \/ handle_fragment_received
           \/ handle_whole_received \/ handle_whole_reloaded
           \/ handle_reassembly_completed
           \/ handle_deliver_bundle_to_reg
           \/ handle_deletion \/ handle_bundle_free
           \/ \E s \in Sent : \E rcvd \in 0 .. s.len : Arrive(s, rcvd)
           \/ \E i \in Ids : AppReceives(i)
           \/ \E i \in Ids : ExpirationTimer(i) \/ ConsoleExpire(i)
           \/ LifetimeEnds \/ UNCHANGED vars
           \/ Crash
  BY DEF Next, Daemon, Environment

\* Types are kept by every step.
LEMMA TypeStep ==
    ASSUME TypeInv, [Next]_vars
    PROVE  TypeInv'
<1>1. CASE handle_duplicate \/ handle_delivered_gone
  BY <1>1, DuplicateType
<1>2. CASE handle_too_late \/ handle_fragment_reloaded
  BY <1>2, PendingType
<1>3. CASE handle_fragment_received
  BY <1>3, FragmentType
<1>4. CASE handle_whole_received \/ handle_whole_reloaded
  BY <1>4, WholeType
<1>5. CASE handle_reassembly_completed
  BY <1>5, CompletedType
<1>6. CASE handle_deliver_bundle_to_reg
  BY <1>6, DeliverType
<1>7. CASE handle_deletion
  BY <1>7, DeletionType
<1>8. CASE handle_bundle_free
  BY <1>8, FreeType
<1>9. CASE \E s \in Sent : \E rcvd \in 0 .. s.len : Arrive(s, rcvd)
  BY <1>9, ArriveType
<1>10. CASE \E i \in Ids : AppReceives(i)
  BY <1>10, AppReceivesType
<1>11. CASE \E i \in Ids : ExpirationTimer(i) \/ ConsoleExpire(i)
  BY <1>11, ExpiredType
<1>12. CASE LifetimeEnds
  BY <1>12, LifetimeType
<1>13. CASE UNCHANGED vars
  BY <1>13 DEF vars, TypeInv, TypeOK
<1>14. CASE Crash
  BY <1>14, CrashType
<1> QED BY <1>1, <1>2, <1>3, <1>4, <1>5, <1>6, <1>7, <1>8, <1>9, <1>10, <1>11,
           <1>12, <1>13, <1>14, StepCases

\* So is what is known of the data.
LEMMA DataStep ==
    ASSUME TypeInv, DataInv, [Next]_vars
    PROVE  DataInv'
<1>1. CASE handle_duplicate \/ handle_delivered_gone
  BY <1>1, DuplicateData
<1>2. CASE handle_too_late \/ handle_fragment_reloaded
  BY <1>2, PendingData
<1>3. CASE handle_fragment_received
  BY <1>3, FragmentData
<1>4. CASE handle_whole_received \/ handle_whole_reloaded
  BY <1>4, WholeData
<1>5. CASE handle_reassembly_completed
  BY <1>5, CompletedData
<1>6. CASE handle_deliver_bundle_to_reg
  BY <1>6, DeliverData
<1>7. CASE handle_deletion
  BY <1>7, DeletionData
<1>8. CASE handle_bundle_free
  BY <1>8, FreeData
<1>9. CASE \E s \in Sent : \E rcvd \in 0 .. s.len : Arrive(s, rcvd)
  BY <1>9, ArriveData
<1>10. CASE \E i \in Ids : AppReceives(i)
  BY <1>10, AppReceivesData
<1>11. CASE \E i \in Ids : ExpirationTimer(i) \/ ConsoleExpire(i)
  BY <1>11, ExpiredData
<1>12. CASE LifetimeEnds \/ UNCHANGED vars
  BY <1>12, QuietData
<1>13. CASE Crash
  BY <1>13, CrashData
<1> QED BY <1>1, <1>2, <1>3, <1>4, <1>5, <1>6, <1>7, <1>8, <1>9, <1>10, <1>11,
           <1>12, <1>13, StepCases

\* Both hold when the node starts for the first time.
LEMMA DataInit == Init => TypeInv /\ DataInv
<1> SUFFICES ASSUME Init PROVE TypeInv /\ DataInv
  OBVIOUS
<1>1. Len(bundles) = 0 /\ bundles = <<>> /\ eventq = <<>> /\ state.list = <<>>
  BY DEF Init, NoState
<1>2. TypeInv
  <2>1. TypeOK
    <3>1. bundles \in Seq([off : Nat, len : Nat, frag : BOOLEAN, data : SUBSET Bytes])
          /\ Len(bundles) \in 0 .. MaxArrivals + MaxStates
      BY <1>1, SentAssumption
    <3>2. state \in [bundle : {0} \cup Ids, list : Seq(Ids)]
      BY DEF Init, NoState
    <3>3. reg \in [queued : SUBSET Ids, out : SUBSET Ids]
      BY DEF Init
    <3>4. arrivals \in 0 .. MaxArrivals
      BY SentAssumption DEF Init
    <3>5. cache \in BOOLEAN /\ over \in BOOLEAN
      BY Zenon DEF Init
    <3>6. fwdlog \in [Ids -> {"none", "PENDING_DELIVERY", "DELIVERED"}]
      BY DEF Init
    <3>7. handovers \in Nat /\ console \in 0 .. 1
      BY DEF Init
    <3>8. pending \subseteq Ids /\ stored \subseteq Ids /\ reloaded \subseteq Ids
      BY DEF Init
    <3> QED BY <3>1, <3>2, <3>3, <3>4, <3>5, <3>6, <3>7, <3>8, Zenon DEF TypeOK
  <2> QED BY <1>1, <2>1, SentAssumption DEF Init, TypeInv, NoState
<1>3. DataInv
  <2>1. ListOK(bundles, state)
    BY NoList DEF Init
  <2> QED BY <1>1, <2>1 DEF Init, DataInv, DeliveredIsWhole
<1> QED BY <1>2, <1>3

\* The two invariants together, for every reachable state.
LEMMA DataAlways == Spec => [](TypeInv /\ DataInv)
<1>1. TypeInv /\ DataInv /\ [Next]_vars => (TypeInv /\ DataInv)'
  BY TypeStep, DataStep
<1> QED BY <1>1, DataInit, PTL DEF Spec

\* The variables have their types: the daemon's lists, the fragment table and
\* the store only ever name bundles that exist.
THEOREM TypeCorrect == Spec => []TypeOK
<1>1. TypeInv => TypeOK
  BY DEF TypeInv
<1> QED BY <1>1, DataAlways, PTL

\* Whatever arrives, is lost again, expires or is read back: what is given to
\* the registration is the whole payload (FragmentState::check_completed,
\* FragmentManager::process_for_reassembly).
THEOREM DeliveredIsAlwaysWhole == Spec => []DeliveredIsWhole
<1>1. DataInv => DeliveredIsWhole
  BY DEF DataInv
<1> QED BY <1>1, DataAlways, PTL

\* Reassembly is noticed at the fragment that completes it
\* (FragmentState::check_completed on the sorted list).
THEOREM CompletionIsNoticed == Spec => []NoCompleteStateWaits
<1>1. TypeInv /\ DataInv => NoCompleteStateWaits
  <2> SUFFICES ASSUME TypeInv, DataInv, state # NoState,
                      Covered(Range(state.list)) = Bytes
               PROVE  FALSE
    BY DEF NoCompleteStateWaits
  <2>1. state.list # <<>> /\ ListOK(bundles, state)
    BY TypeFacts, DataFacts
  <2>2. Covers(bundles, state.list)
    <3> SUFFICES ASSUME NEW p \in Bytes
                 PROVE  \E k \in DOMAIN state.list : p \in bundles[state.list[k]].data
      BY DEF Covers
    <3>1. p \in UNION {bundles[i].data : i \in Range(state.list)}
      BY DEF Covered
    <3>2. PICK i \in Range(state.list) : p \in bundles[i].data
      BY <3>1
    <3> QED BY <3>2 DEF Range
  <2> QED BY <2>1, <2>2 DEF ListOK
<1> QED BY <1>1, DataAlways, PTL

----------------------------------------------------------------------------
(* The fragment table and the pending list.                                *)

\* A step keeps the two in agreement if it puts what it drops from one of them
\* into the other, or posts an event that will.
LEMMA StateKept ==
    ASSUME StateInv,
           NEW s, NEW gone, NEW first, NEW new, Requeued(s, gone, first, new),
           \A i \in pending : bundles'[i].frag => bundles[i].frag,
           \A k \in DOMAIN state'.list : state'.list[k] \in pending',
           \A i \in pending' : i \in pending \/ InList(state'.list, i) \/ Doomed(i)'
                                   \/ i \in reloaded' \/ over' \/ ~bundles'[i].frag,
           \A i \in pending' : InList(state.list, i) =>
                                   InList(state'.list, i) \/ Doomed(i)',
           gone => \A i \in pending' : ~Takes(eventq[1], i),
           \A e \in first \cup new : e.src = "store" => e.id \in reloaded',
           over => over', reloaded \subseteq reloaded'
    PROVE  StateInv'
<1>1. ASSUME NEW i \in pending', Doomed(i)
      PROVE  Doomed(i)'
  <2>1. PICK k \in DOMAIN eventq : Takes(eventq[k], i)
    BY <1>1 DEF Doomed
  <2>2. ~(gone /\ k = 1)
    BY <2>1
  <2>3. k - s \in DOMAIN eventq' /\ eventq'[k - s] = eventq[k]
    BY <2>2 DEF Requeued
  <2>4. Takes(eventq'[k - s], i)
    BY <2>1, <2>3
  <2> QED BY <2>3, <2>4 DEF Doomed
<1>2. ASSUME NEW i \in pending', bundles'[i].frag
      PROVE  InList(state'.list, i) \/ Doomed(i)' \/ i \in reloaded' \/ over'
  <2>1. CASE i \in pending
    <3>1. InList(state.list, i) \/ Doomed(i) \/ i \in reloaded \/ over
      BY <1>2, <2>1 DEF StateInv
    <3> QED BY <3>1, <1>1
  <2> QED BY <2>1, <1>2
<1>3. ASSUME NEW k \in DOMAIN eventq', eventq'[k].src = "store"
      PROVE  eventq'[k].id \in reloaded'
  <2>1. CASE eventq'[k] \in first \cup new
    BY <1>3, <2>1
  <2>2. CASE k + s \in DOMAIN eventq /\ eventq'[k] = eventq[k + s]
    BY <1>3, <2>2 DEF StateInv
  <2> QED BY <2>1, <2>2 DEF Requeued
<1> QED BY <1>2, <1>3 DEF StateInv

\* The free events of a handler come from no source and take nothing.
LEMMA FreeIsPlain ==
    ASSUME NEW S
    PROVE  \A e \in FreeEvents(S) : e.src = "none" /\ e.type = "free"
  BY DEF FreeEvents, Post, Event

\* Erased from a list are the bundles named, and no others.
LEMMA ErasedFromState ==
    ASSUME TypeInv, StateInv, NEW ids, delete_bundle(ids)
    PROVE  /\ \A k \in DOMAIN state'.list : state'.list[k] \in pending'
           /\ \A i \in pending' : InList(state.list, i) => InList(state'.list, i)
           /\ pending' = pending \ ids
<1> DEFINE S == 1 .. Len(bundles)
           l == state.list
           w == Without(l, ids)
<1>1. l \in Seq(S)
  BY TypeFacts DEF StateRecord
<1>2. pending' = pending \ ids /\ state'.list = w
  BY DeleteBundleFacts
<1>3. \A k \in DOMAIN l : l[k] \in pending
  BY DEF StateInv
<1> HIDE DEF S, l
<1>4. /\ \A j \in DOMAIN w : \E m \in DOMAIN l : w[j] = l[m] /\ l[m] \notin ids
      /\ \A m \in DOMAIN l : l[m] \notin ids => \E k \in DOMAIN w : w[k] = l[m]
  BY <1>1, WithoutFacts
<1> HIDE DEF w
<1>5. \A k \in DOMAIN w : w[k] \in pending'
  BY <1>2, <1>3, <1>4
<1>6. \A i \in pending' : InList(l, i) => InList(w, i)
  BY <1>2, <1>4 DEF InList
<1> QED BY <1>2, <1>5, <1>6 DEF l

\* Handlers that only free.
LEMMA DuplicateState ==
    ASSUME TypeInv, StateInv,
           handle_duplicate \/ handle_delivered_gone \/ handle_deliver_bundle_to_reg
    PROVE  StateInv'
<1> DEFINE N == FreeEvents(Unreferenced(Tail(eventq)))
<1>1. UNCHANGED <<bundles, pending, state, reloaded, over>>
  BY DEF handle_duplicate, handle_delivered_gone, handle_deliver_bundle_to_reg
<1>2. Requeued(1, TRUE, {}, N)
  BY DuplicateType, DeliverType
<1>3. \A e \in {} \cup N : e.src = "store" => e.id \in reloaded'
  BY FreeIsPlain
<1> HIDE DEF N
<1>4. Handling("received") \/ Handling("delivered") \/ Handling("deliver")
  BY DEF handle_duplicate, handle_delivered_gone, handle_deliver_bundle_to_reg
<1>5. eventq[1].type \in {"received", "delivered", "deliver"}
  BY <1>4, HeadFacts
<1>6. \A i \in pending' : ~Takes(eventq[1], i)
  BY <1>5 DEF Takes
<1>7. \A k \in DOMAIN state.list : state.list[k] \in pending
  BY DEF StateInv
<1> QED BY <1>1, <1>2, <1>3, <1>6, <1>7, StateKept

\* A bundle becomes pending: it is late, or was read back.
LEMMA PendingState ==
    ASSUME TypeInv, StateInv, handle_too_late \/ handle_fragment_reloaded
    PROVE  StateInv'
<1> DEFINE N == FreeEvents(Unreferenced(Tail(eventq)))
           i == Head(eventq).id
<1>1. /\ UNCHANGED <<bundles, state, reloaded, over>> /\ Handling("received")
      /\ add_to_pending(i) /\ (over \/ Head(eventq).src = "store")
  BY DEF handle_too_late, handle_fragment_reloaded
<1>2. Requeued(1, TRUE, {}, N)
  BY PendingType
<1>3. \A e \in {} \cup N : e.src = "store" => e.id \in reloaded'
  BY FreeIsPlain
<1> HIDE DEF N
<1>4. eventq[1] = Head(eventq) /\ 1 \in DOMAIN eventq /\ eventq[1].type = "received"
      /\ i \in 1 .. Len(bundles)
  BY <1>1, HeadFacts
<1>5. \A j \in pending' : ~Takes(eventq[1], j)
  BY <1>4 DEF Takes
<1>6. over \/ i \in reloaded
  BY <1>1, <1>4 DEF StateInv
<1> HIDE DEF i
<1>7. pending \subseteq pending' /\ pending' \subseteq pending \cup {i}
  BY <1>1, <1>4, AddToPendingFacts
<1>8. \A k \in DOMAIN state'.list : state'.list[k] \in pending'
  BY <1>1, <1>7 DEF StateInv
<1>9. \A j \in pending' : j \in pending \/ j \in reloaded' \/ over'
  BY <1>1, <1>6, <1>7
<1> QED BY <1>1, <1>2, <1>3, <1>5, <1>8, <1>9, StateKept

\* A deletion.
LEMMA DeletionState ==
    ASSUME TypeInv, StateInv, handle_deletion
    PROVE  StateInv'
<1> DEFINE N == FreeEvents(Unreferenced(Tail(eventq)))
<1>1. /\ UNCHANGED <<bundles, reloaded, over>>
      /\ delete_bundle({Head(eventq).id})
      /\ Handling("delivered") \/ Handling("delete") \/ Handling("expired")
  BY DEF handle_deletion
<1>2. Requeued(1, TRUE, {}, N)
  BY DeletionType
<1>3. \A e \in {} \cup N : e.src = "store" => e.id \in reloaded'
  BY FreeIsPlain
<1> HIDE DEF N
<1>4. eventq[1] = Head(eventq) /\ eventq[1].type \in {"delivered", "delete", "expired"}
  BY <1>1, HeadFacts
<1>5. /\ \A k \in DOMAIN state'.list : state'.list[k] \in pending'
      /\ \A i \in pending' : InList(state.list, i) => InList(state'.list, i)
      /\ pending' = pending \ {Head(eventq).id}
  BY <1>1, ErasedFromState
<1>6. \A i \in pending' : ~Takes(eventq[1], i)
  BY <1>4, <1>5 DEF Takes
<1> QED BY <1>1, <1>2, <1>3, <1>5, <1>6, StateKept

\* The end of a reassembly.
LEMMA CompletedState ==
    ASSUME TypeInv, StateInv, handle_reassembly_completed
    PROVE  StateInv'
<1> DEFINE e == Received(Head(eventq).id, "frag")
           N == FreeEvents(Unreferenced(<<e>> \o Tail(eventq)))
<1>1. /\ UNCHANGED <<bundles, reloaded, over>> /\ Handling("completed")
      /\ delete_bundle(Range(Head(eventq).list))
  BY DEF handle_reassembly_completed
<1>2. Requeued(0, TRUE, {e}, N)
  BY CompletedType
<1>3. \A x \in {e} \cup N : x.src = "store" => x.id \in reloaded'
  <2>1. e.src # "store"
    BY DEF Received, Event
  <2> HIDE DEF e
  <2> QED BY <2>1, FreeIsPlain
<1> HIDE DEF e, N
<1>4. eventq[1] = Head(eventq) /\ eventq[1].type = "completed"
  BY <1>1, HeadFacts
<1>5. /\ \A k \in DOMAIN state'.list : state'.list[k] \in pending'
      /\ \A i \in pending' : InList(state.list, i) => InList(state'.list, i)
      /\ pending' = pending \ Range(Head(eventq).list)
  BY <1>1, ErasedFromState
<1>6. \A i \in pending' : ~Takes(eventq[1], i)
  BY <1>4, <1>5 DEF Takes, InList, Range
<1> QED BY <1>1, <1>2, <1>3, <1>5, <1>6, StateKept

\* A whole bundle: the fragments of the state are to be deleted.
LEMMA WholeState ==
    ASSUME TypeInv, StateInv, handle_whole_received \/ handle_whole_reloaded
    PROVE  StateInv'
<1> DEFINE i == Head(eventq).id
<1>1. /\ Handling("received") /\ add_to_pending(i) /\ state' = NoState
      /\ ~bundles[i].frag /\ UNCHANGED <<bundles, over, reloaded>>
  BY DEF handle_whole_received, handle_whole_reloaded
<1>2. PICK q, D : /\ D \subseteq {Post("deliver", i)}
                  /\ Requeued(1, TRUE, {}, (Obsoleted \cup D)
                                              \cup FreeEvents(Unreferenced(q)))
  BY WholeType
<1>3. eventq[1].type = "received" /\ i \in 1 .. Len(bundles)
  BY <1>1, HeadFacts
<1> HIDE DEF i
<1> DEFINE N == (Obsoleted \cup D) \cup FreeEvents(Unreferenced(q))
<1>4. \A e \in {} \cup N : e.src = "store" => e.id \in reloaded'
  <2>1. \A e \in Obsoleted \cup D : e.src = "none"
    BY <1>2 DEF Obsoleted, Post, Event
  <2> QED BY <2>1, FreeIsPlain
<1>5. pending' \subseteq pending \cup {i}
  BY <1>1, <1>3, AddToPendingFacts
<1>6. ASSUME NEW j, InList(state.list, j) PROVE Doomed(j)'
  <2>1. PICK k \in DOMAIN state.list : state.list[k] = j
    BY <1>6 DEF InList
  <2> DEFINE e == Post("delete", j)
  <2>2. e \in N /\ Takes(e, j)
    BY <2>1 DEF Obsoleted, Takes, Post, Event
  <2> HIDE DEF N, e
  <2>3. PICK m \in DOMAIN eventq' : eventq'[m] = e
    BY <1>2, <2>2 DEF Requeued, N
  <2> QED BY <2>2, <2>3 DEF Doomed
<1> HIDE DEF N
<1>7. \A j \in pending' : ~Takes(eventq[1], j)
  BY <1>3 DEF Takes
<1>8. \A k \in DOMAIN state'.list : state'.list[k] \in pending'
  BY <1>1 DEF NoState
<1>9. Requeued(1, TRUE, {}, N)
  BY <1>2 DEF N
<1> QED BY <1>1, <1>4, <1>5, <1>6, <1>7, <1>8, <1>9, StateKept

\* A fragment from a peer joins the state, or completes it and is in the list
\* of the event that takes the fragments away.
LEMMA FragmentJoins ==
    ASSUME TypeInv, DataInv, StateInv, handle_fragment_received
    PROVE  StateInv'
<1> DEFINE i == Head(eventq).id
           list == add_fragment(state.list, i)
           S == 1 .. Len(bundles)
<1>1. /\ Handling("received") /\ bundles[i].frag
      /\ add_to_pending(i) /\ UNCHANGED <<over, reloaded>>
  BY DEF handle_fragment_received
<1>2. /\ i \in S /\ i \in Ids /\ state.list \in Seq(S)
      /\ \A x \in S : bundles[x].off \in Nat
      /\ eventq[1].type = "received" /\ pending \subseteq S
  <2>1. \A x \in S : bundles[x] \in BundleRecord
    BY TypeFacts
  <2>2. \A x \in S : bundles[x].off \in Nat
    BY <2>1 DEF BundleRecord
  <2> QED BY <1>1, <2>2, HeadFacts, TypeFacts DEF StateRecord
<1>3. PICK w :
        /\ CopiedInto(w, i)
        /\ \/ /\ check_completed(list)
              /\ state' = NoState
              /\ Requeued(0, TRUE, {CompletedEvent(w, i)},
                     FreeEvents(Unreferenced(AfterFragment(w, i))))
           \/ /\ ~check_completed(list)
              /\ state' = [bundle |-> w, list |-> list]
              /\ Requeued(1, TRUE, {},
                     FreeEvents(Unreferenced(AfterFragment(w, i))))
  BY FragmentType
<1> HIDE DEF i
<1>4. Grown(Len(bundles), bundles, bundles')
  BY <1>1, <1>2, <1>3, CopiedGrows
<1>5. \A j \in pending : bundles'[j].frag => bundles[j].frag
  BY <1>2, <1>4 DEF Grown
<1>6. pending' = pending \cup {i}
  <2>1. fwdlog[i] # "DELIVERED"
    BY <1>1, <1>2, DataFacts
  <2> QED BY <1>1, <2>1 DEF add_to_pending
<1> DEFINE l == state.list
<1> HIDE DEF S
<1>7. /\ \E k \in DOMAIN list : list[k] = i
      /\ \A k \in DOMAIN list : list[k] = i \/ \E m \in DOMAIN l : list[k] = l[m]
      /\ \A m \in DOMAIN l : \E k \in DOMAIN list : list[k] = l[m]
  <2>1. l \in Seq(S)
    BY <1>2
  <2>2. list = add_fragment(l, i)
    OBVIOUS
  <2>3. i \in S /\ \A x \in S : bundles[x].off \in Nat
    BY <1>2
  <2> HIDE DEF l, list
  <2>4. \E k \in DOMAIN list : list[k] = i
    BY <2>1, <2>2, <2>3, AddFragmentFacts
  <2>5. \A k \in DOMAIN list : list[k] = i \/ \E m \in DOMAIN l : list[k] = l[m]
    BY <2>1, <2>2, <2>3, AddFragmentFacts
  <2>6. \A m \in DOMAIN l : \E k \in DOMAIN list : list[k] = l[m]
    BY <2>1, <2>2, <2>3, AddFragmentFacts
  <2> QED BY <2>4, <2>5, <2>6
<1>8. \A k \in DOMAIN l : l[k] \in pending
  BY DEF StateInv
<1> HIDE DEF l
<1>9. /\ \A k \in DOMAIN list : list[k] \in pending'
      /\ \A j \in pending' : j \in pending \/ InList(list, j)
      /\ \A j : InList(l, j) => InList(list, j)
  <2> HIDE DEF list
  <2> QED BY <1>6, <1>7, <1>8 DEF InList
<1>10. \A j \in pending' : ~Takes(eventq[1], j)
  BY <1>2 DEF Takes
<1> DEFINE N == FreeEvents(Unreferenced(AfterFragment(w, i)))
           e == CompletedEvent(w, i)
<1>11. CASE check_completed(list)
  <2>1. state' = NoState /\ Requeued(0, TRUE, {e}, N)
    BY <1>3, <1>11
  <2>2. e.src = "none" /\ e.type = "completed" /\ e.list = list
    BY DEF CompletedEvent, Event
  <2>3. \A x \in N : x.src = "none"
    BY FreeIsPlain
  <2> HIDE DEF e, N, list
  <2>4. \A x \in {e} \cup N : x.src = "store" => x.id \in reloaded'
    BY <2>2, <2>3
  <2>5. PICK m \in DOMAIN eventq' : eventq'[m] = e
    BY <2>1 DEF Requeued
  <2>6. \A j : InList(list, j) => Doomed(j)'
    BY <2>2, <2>5 DEF Takes, Doomed
  <2>7. \A k \in DOMAIN state'.list : state'.list[k] \in pending'
    BY <2>1 DEF NoState
  <2>8. /\ \A j \in pending' : j \in pending \/ Doomed(j)'
        /\ \A j \in pending' : InList(state.list, j) => Doomed(j)'
    BY <1>9, <2>6 DEF l
  <2> QED BY <1>1, <1>5, <1>10, <2>1, <2>4, <2>7, <2>8, StateKept
<1>12. CASE ~check_completed(list)
  <2>1. state'.list = list /\ Requeued(1, TRUE, {}, N)
    <3>1. state' = [bundle |-> w, list |-> list] /\ Requeued(1, TRUE, {}, N)
      BY <1>3, <1>12
    <3> HIDE DEF list, N
    <3> QED BY <3>1
  <2>2. \A x \in {} \cup N : x.src = "store" => x.id \in reloaded'
    BY FreeIsPlain
  <2> HIDE DEF N, list
  <2>3. /\ \A k \in DOMAIN state'.list : state'.list[k] \in pending'
        /\ \A j \in pending' : j \in pending \/ InList(state'.list, j)
        /\ \A j \in pending' : InList(state.list, j) => InList(state'.list, j)
    BY <1>9, <2>1 DEF l
  <2> QED BY <1>1, <1>5, <1>10, <2>1, <2>2, <2>3, StateKept
<1> QED BY <1>11, <1>12

\* Steps that leave the pending list and the fragment table alone.
LEMMA OtherState ==
    ASSUME TypeInv, StateInv,
           \/ handle_bundle_free
           \/ \E s \in Sent : \E rcvd \in 0 .. s.len : Arrive(s, rcvd)
           \/ \E i \in Ids : AppReceives(i)
           \/ \E i \in Ids : ExpirationTimer(i) \/ ConsoleExpire(i)
           \/ LifetimeEnds \/ UNCHANGED vars
    PROVE  StateInv'
<1>1. UNCHANGED <<pending, state, reloaded>> /\ (over => over')
  <2>1. CASE handle_bundle_free
    BY <2>1 DEF handle_bundle_free
  <2>2. CASE \E s \in Sent : \E rcvd \in 0 .. s.len : Arrive(s, rcvd)
    BY <2>2 DEF Arrive
  <2>3. CASE \E i \in Ids : AppReceives(i)
    BY <2>3 DEF AppReceives
  <2>4. CASE \E i \in Ids : ExpirationTimer(i) \/ ConsoleExpire(i)
    BY <2>4 DEF ExpirationTimer, ConsoleExpire
  <2>5. CASE LifetimeEnds \/ UNCHANGED vars
    BY <2>5 DEF LifetimeEnds, vars
  <2> QED BY <2>1, <2>2, <2>3, <2>4, <2>5
<1>2. \A k \in DOMAIN state'.list : state'.list[k] \in pending'
  BY <1>1 DEF StateInv
<1>3. CASE handle_bundle_free
  <2>1. UNCHANGED bundles /\ Handling("free")
    BY <1>3 DEF handle_bundle_free
  <2>2. Requeued(1, TRUE, {}, {})
    BY <1>3, FreeType
  <2>3. eventq[1].type = "free"
    BY <2>1, HeadFacts
  <2>4. \A i \in pending' : ~Takes(eventq[1], i)
    BY <2>3 DEF Takes
  <2>5. \A e \in {} \cup {} : e.src = "store" => e.id \in reloaded'
    OBVIOUS
  <2> QED BY <1>1, <1>2, <2>1, <2>2, <2>4, <2>5, StateKept
<1>4. ASSUME NEW s \in Sent, NEW rcvd \in 0 .. s.len, Arrive(s, rcvd)
      PROVE  StateInv'
  <2> DEFINE e == Received(Len(bundles) + 1, "peer")
  <2>1. /\ \A j \in 1 .. Len(bundles) : bundles'[j] = bundles[j]
        /\ Requeued(0, FALSE, {}, {e})
    BY <1>4, ArriveType
  <2>2. \A i \in pending : bundles'[i].frag => bundles[i].frag
    BY <2>1, TypeFacts
  <2>3. \A x \in {} \cup {e} : x.src = "store" => x.id \in reloaded'
    BY DEF Received, Event
  <2> HIDE DEF e
  <2> QED BY <1>1, <1>2, <2>1, <2>2, <2>3, StateKept
<1>5. ASSUME NEW i \in Ids, AppReceives(i)
      PROVE  StateInv'
  <2> DEFINE e == Post("delivered", i)
  <2>1. UNCHANGED bundles /\ Requeued(0, FALSE, {}, {e})
    BY <1>5, AppReceivesType DEF AppReceives
  <2>2. \A x \in {} \cup {e} : x.src = "store" => x.id \in reloaded'
    BY DEF Post, Event
  <2> HIDE DEF e
  <2> QED BY <1>1, <1>2, <2>1, <2>2, StateKept
<1>6. ASSUME NEW i \in Ids, ExpirationTimer(i) \/ ConsoleExpire(i)
      PROVE  StateInv'
  <2> DEFINE e == Post("expired", i)
  <2>1. UNCHANGED bundles /\ Requeued(-1, FALSE, {e}, {})
    BY <1>6, ExpiredType DEF ExpirationTimer, ConsoleExpire
  <2>2. \A x \in {e} \cup {} : x.src = "store" => x.id \in reloaded'
    BY DEF Post, Event
  <2> HIDE DEF e
  <2> QED BY <1>1, <1>2, <2>1, <2>2, StateKept
<1>7. CASE LifetimeEnds \/ UNCHANGED vars
  <2>1. UNCHANGED <<bundles, eventq>>
    BY <1>7 DEF LifetimeEnds, vars
  <2> QED BY <1>1, <2>1 DEF StateInv, Doomed
<1> QED BY <1>3, <1>4, <1>5, <1>6, <1>7

\* A restart: nothing is pending, and every event is about a bundle read back.
LEMMA CrashState ==
    ASSUME TypeInv, StateInv, Crash
    PROVE  StateInv'
<1>1. pending' = {} /\ state' = NoState /\ reloaded' = stored
  BY DEF Crash
<1>2. \A k \in DOMAIN eventq' : \E i \in stored : eventq'[k] = Received(i, "store")
  BY CrashType
<1>3. \A k \in DOMAIN eventq' : eventq'[k].id \in reloaded'
  BY <1>1, <1>2 DEF Received, Event
<1> QED BY <1>1, <1>3 DEF StateInv, NoState

\* Every step keeps the agreement.
LEMMA StateStep ==
    ASSUME TypeInv, DataInv, StateInv, [Next]_vars
    PROVE  StateInv'
<1>1. CASE handle_duplicate \/ handle_delivered_gone \/ handle_deliver_bundle_to_reg
  BY <1>1, DuplicateState
<1>2. CASE handle_too_late \/ handle_fragment_reloaded
  BY <1>2, PendingState
<1>3. CASE handle_fragment_received
  BY <1>3, FragmentJoins
<1>4. CASE handle_whole_received \/ handle_whole_reloaded
  BY <1>4, WholeState
<1>5. CASE handle_reassembly_completed
  BY <1>5, CompletedState
<1>6. CASE handle_deletion
  BY <1>6, DeletionState
<1>7. CASE \/ handle_bundle_free
           \/ \E s \in Sent : \E rcvd \in 0 .. s.len : Arrive(s, rcvd)
           \/ \E i \in Ids : AppReceives(i)
           \/ \E i \in Ids : ExpirationTimer(i) \/ ConsoleExpire(i)
           \/ LifetimeEnds \/ UNCHANGED vars
  BY <1>7, OtherState
<1>8. CASE Crash
  BY <1>8, CrashState
<1> QED BY <1>1, <1>2, <1>3, <1>4, <1>5, <1>6, <1>7, <1>8, StepCases

\* The agreement holds in every reachable state.
LEMMA StateAlways == Spec => [](TypeInv /\ DataInv /\ StateInv)
<1>1. TypeInv /\ DataInv /\ StateInv /\ [Next]_vars => (TypeInv /\ DataInv /\ StateInv)'
  BY TypeStep, DataStep, StateStep
<1>2. Init => TypeInv /\ DataInv /\ StateInv
  <2>1. Init => StateInv
    BY DEF Init, StateInv, NoState
  <2> QED BY <2>1, DataInit
<1> QED BY <1>1, <1>2, PTL DEF Spec

\* The fragment table and the pending list agree, whatever is deleted, expires
\* or is read back, and in whatever order (FragmentManager::delete_fragment,
\* delete_obsoleted_fragments, BundleDaemon::handle_bundle_received).
THEOREM StateAlwaysMatchesPending == Spec => []StateMatchesPending
<1>1. TypeInv /\ DataInv /\ StateInv => StateMatchesPending
  <2> SUFFICES ASSUME TypeInv, StateInv PROVE StateMatchesPending
    OBVIOUS
  <2>1. Range(state.list) \subseteq pending
    BY DEF StateInv, Range
  <2>2. state # NoState <=> state.list # <<>>
    BY TypeFacts
  <2>3. ASSUME NEW i \in pending \ reloaded, bundles[i].frag
        PROVE  i \in Range(state.list) \cup Refs(eventq) \/ over
    <3>1. InList(state.list, i) \/ Doomed(i) \/ over
      BY <2>3 DEF StateInv
    <3>2. InList(state.list, i) => i \in Range(state.list)
      BY DEF InList, Range
    <3>3. ASSUME Doomed(i) PROVE i \in Refs(eventq)
      <4>1. PICK k \in DOMAIN eventq : Takes(eventq[k], i)
        BY <3>3 DEF Doomed
      <4>2. i \in {eventq[k].id} \cup Range(eventq[k].list)
        BY <4>1 DEF Takes, InList, Range
      <4> QED BY <4>2 DEF Refs
    <3> QED BY <3>1, <3>2, <3>3
  <2> QED BY <2>1, <2>2, <2>3 DEF StateMatchesPending
<1> QED BY <1>1, StateAlways, PTL

----------------------------------------------------------------------------
(* Bundles the node has not had, and bundles to be freed.                  *)

\* What a step may name: what is in use or stored, and what the event it
\* handles names.
Reach(gone, i) == i \in Used \/ (gone /\ NamedBy(eventq[1], i))

\* A step that posts the events first and new may bring one new bundle w, by an
\* event at the head or in the state.
BringsOnly(w, gone, first, new) ==
    /\ \A i : i \in Used' => Reach(gone, i)
    /\ \A e \in new : /\ ~Brings(e) /\ ~NamedBy(e, w)
                      /\ \A i : NamedBy(e, i) => Reach(gone, i)
    /\ w \notin Used'
    /\ \A m \in DOMAIN eventq : ~(gone /\ m = 1) => ~NamedBy(eventq[m], w)
    /\ \A e \in first : /\ \A i : NamedBy(e, i) => i = w \/ Reach(gone, i)
                        /\ Brings(e) => e.id = w /\ ~InList(e.list, w)
    /\ state' # NoState =>
           \/ state'.bundle = w /\ \A e \in first : ~NamedBy(e, w)
           \/ state # NoState /\ state'.bundle = state.bundle /\ state.bundle # w
    /\ \A e \in first \cup new : e.type # "completed" => e.list = <<>>

\* Such a step names no bundle twice that is new.
LEMMA BirthKept ==
    ASSUME BirthInv,
           NEW s \in Int, NEW gone, NEW first, NEW new, Requeued(s, gone, first, new),
           DOMAIN eventq \subseteq Int, DOMAIN eventq' \subseteq Int,
           gone => 1 \in DOMAIN eventq,
           NEW w, BringsOnly(w, gone, first, new)
    PROVE  BirthInv'
<1> USE DEF BringsOnly
<1>1. ASSUME NEW m \in DOMAIN eventq, ~(gone /\ m = 1), Brings(eventq[m])
      PROVE  ~Reach(gone, eventq[m].id) /\ eventq[m].id # w
  <2>1. /\ eventq[m].id \notin Used
        /\ \A l \in DOMAIN eventq : l # m => ~NamedBy(eventq[l], eventq[m].id)
    BY <1>1 DEF BirthInv
  <2>2. NamedBy(eventq[m], eventq[m].id)
    BY DEF NamedBy
  <2> QED BY <1>1, <2>1, <2>2 DEF Reach
<1>2. ASSUME NEW k \in DOMAIN eventq', Brings(eventq'[k])
      PROVE  /\ eventq'[k].id \notin Used'
             /\ ~InList(eventq'[k].list, eventq'[k].id)
             /\ \A l \in DOMAIN eventq' : l # k => ~NamedBy(eventq'[l], eventq'[k].id)
  <2>1. CASE k = 1 /\ eventq'[k] \in first
    <3>1. eventq'[k].id = w /\ ~InList(eventq'[k].list, w)
      BY <1>2, <2>1
    <3>2. ASSUME NEW l \in DOMAIN eventq', l # k PROVE ~NamedBy(eventq'[l], w)
      <4>1. \/ /\ l + s \in DOMAIN eventq /\ ~(gone /\ l + s = 1)
               /\ eventq'[l] = eventq[l + s]
            \/ eventq'[l] \in new
        BY <2>1, <3>2 DEF Requeued
      <4> QED BY <4>1
    <3> QED BY <3>1, <3>2
  <2>2. CASE /\ k + s \in DOMAIN eventq /\ ~(gone /\ k + s = 1)
             /\ eventq'[k] = eventq[k + s]
    <3> DEFINE x == eventq[k + s].id
    <3>1. ~Reach(gone, x) /\ x # w /\ eventq'[k].id = x
      BY <1>1, <1>2, <2>2
    <3>2. /\ ~InList(eventq[k + s].list, x)
          /\ \A l \in DOMAIN eventq : l # k + s => ~NamedBy(eventq[l], x)
      BY <1>2, <2>2 DEF BirthInv
    <3> HIDE DEF x
    <3>3. ASSUME NEW l \in DOMAIN eventq', l # k PROVE ~NamedBy(eventq'[l], x)
      <4>1. \/ eventq'[l] \in first \/ eventq'[l] \in new
            \/ l + s \in DOMAIN eventq /\ eventq'[l] = eventq[l + s]
        BY DEF Requeued
      <4>2. l + s # k + s
        BY <3>3
      <4> QED BY <3>1, <3>2, <4>1, <4>2
    <3> QED BY <2>2, <3>1, <3>2, <3>3
  <2>3. CASE eventq'[k] \in new
    BY <1>2, <2>3
  <2> QED BY <2>1, <2>2, <2>3 DEF Requeued
<1>3. ASSUME state' # NoState
      PROVE  /\ state'.bundle \notin Used'
             /\ \A l \in DOMAIN eventq' : ~NamedBy(eventq'[l], state'.bundle)
  <2>1. CASE state'.bundle = w /\ \A e \in first : ~NamedBy(e, w)
    <3>1. ASSUME NEW l \in DOMAIN eventq' PROVE ~NamedBy(eventq'[l], w)
      BY <2>1 DEF Requeued
    <3> QED BY <2>1, <3>1
  <2>2. CASE state # NoState /\ state'.bundle = state.bundle /\ state.bundle # w
    <3>1. /\ state.bundle \notin Used
          /\ \A l \in DOMAIN eventq : ~NamedBy(eventq[l], state.bundle)
      BY <2>2 DEF BirthInv
    <3>2. ~Reach(gone, state.bundle)
      BY <3>1 DEF Reach
    <3>3. ASSUME NEW l \in DOMAIN eventq' PROVE ~NamedBy(eventq'[l], state.bundle)
      BY <2>2, <3>1, <3>2 DEF Requeued
    <3> QED BY <2>2, <3>2, <3>3
  <2> QED BY <1>3, <2>1, <2>2
<1>4. ASSUME NEW k \in DOMAIN eventq', eventq'[k].type # "completed"
      PROVE  eventq'[k].list = <<>>
  <2>1. CASE eventq'[k] \in first \cup new
    BY <1>4, <2>1
  <2>2. CASE k + s \in DOMAIN eventq /\ eventq'[k] = eventq[k + s]
    BY <1>4, <2>2 DEF BirthInv
  <2> QED BY <2>1, <2>2 DEF Requeued
<1> QED BY <1>2, <1>3, <1>4 DEF BirthInv

\* Positions in the queue are numbers.
LEMMA Positions ==
    ASSUME TypeInv, TypeInv'
    PROVE  DOMAIN eventq \subseteq Int /\ DOMAIN eventq' \subseteq Int
<1>1. eventq \in Seq(EventSet(Len(bundles))) /\ eventq' \in Seq(EventSet(Len(bundles')))
  BY DEF TypeInv
<1> QED BY <1>1

\* Nothing but the state names its bundle.
LEMMA StateBundleAlone ==
    ASSUME TypeInv, BirthInv
    PROVE  /\ state.bundle \notin Used
           /\ \A m \in DOMAIN eventq : ~NamedBy(eventq[m], state.bundle)
<1>1. CASE state # NoState
  BY <1>1 DEF BirthInv
<1>2. CASE state = NoState
  <2> DEFINE S == 1 .. Len(bundles)
  <2>1. state.bundle = 0 /\ state.list = <<>> /\ 0 \notin S
    BY <1>2 DEF NoState
  <2>2. /\ pending \subseteq S /\ stored \subseteq S
        /\ reg \in [queued : SUBSET S, out : SUBSET S]
    BY TypeFacts
  <2>3. 0 \notin Ids
    BY DEF Ids
  <2>4. \A m \in DOMAIN eventq : eventq[m].id \in S /\ eventq[m].list \in Seq(S)
    <3>1. eventq \in Seq(EventSet(Len(bundles)))
      BY TypeFacts
    <3>2. \A m \in DOMAIN eventq : eventq[m] \in EventSet(Len(bundles))
      BY <3>1
    <3> QED BY <3>2 DEF EventSet
  <2> HIDE DEF S
  <2>5. \A m \in DOMAIN eventq : ~NamedBy(eventq[m], 0)
    <3> SUFFICES ASSUME NEW m \in DOMAIN eventq, NamedBy(eventq[m], 0) PROVE FALSE
      OBVIOUS
    <3> DEFINE l == eventq[m].list
    <3>1. l \in Seq(S) /\ eventq[m].id # 0
      BY <2>1, <2>4
    <3>2. InList(l, 0)
      BY <3>1 DEF NamedBy
    <3> HIDE DEF l
    <3> QED BY <2>1, <3>1, <3>2 DEF InList
  <2> QED BY <2>1, <2>2, <2>3, <2>5 DEF Used, InUse, Range
<1> QED BY <1>1, <1>2

\* A step that brings no bundle.
LEMMA NothingBorn ==
    ASSUME TypeInv, TypeInv', BirthInv,
           NEW s \in Int, NEW gone, NEW first, NEW new, Requeued(s, gone, first, new),
           gone => 1 \in DOMAIN eventq,
           \A i : i \in Used' => Reach(gone, i),
           \A e \in first \cup new : /\ ~Brings(e) /\ e.list = <<>>
                                     /\ Reach(gone, e.id),
           state' # NoState => state'.bundle = state.bundle
    PROVE  BirthInv'
<1> DEFINE w == state.bundle
<1>1. w \notin Used /\ \A m \in DOMAIN eventq : ~NamedBy(eventq[m], w)
  BY StateBundleAlone
<1>2. state' # NoState => state'.bundle = w
  OBVIOUS
<1> HIDE DEF w
<1>3. ~Reach(gone, w)
  BY <1>1 DEF Reach
<1>4. w \notin Used'
  BY <1>3
<1>5. \A e \in first \cup new : \A i : NamedBy(e, i) => Reach(gone, i)
  BY DEF NamedBy, InList
<1>6. \A e \in first \cup new : ~NamedBy(e, w)
  BY <1>3, <1>5
<1>7. BringsOnly(w, gone, first, new)
  BY <1>1, <1>2, <1>4, <1>5, <1>6 DEF BringsOnly
<1> QED BY <1>7, Positions, BirthKept

\* The free events of a handler name what is stored.
LEMMA FreeNames ==
    ASSUME NEW q, NEW gone
    PROVE  \A e \in FreeEvents(Unreferenced(q)) :
               /\ ~Brings(e) /\ e.list = <<>> /\ e.type = "free"
               /\ e.id \in Unreferenced(q) /\ e.id \in stored /\ Reach(gone, e.id)
  BY DEF FreeEvents, Unreferenced, Post, Event, Brings, Reach, Used

\* What is alive after a step: what was in use, and what the event it handles
\* names.
Live(gone, i) == \/ i \in InUse
                 \/ gone /\ eventq[1].type # "free" /\ NamedBy(eventq[1], i)

\* An event that names what is alive, or what no event has named.
NamesLive(gone, e) ==
    \A i : NamedBy(e, i) => Live(gone, i) \/ \A m \in DOMAIN eventq : eventq[m].id # i

\* A free event of a step that posts the events of the set all.
Releases(gone, all, e) ==
    /\ e.id \notin InUse'
    /\ \A m \in DOMAIN eventq :
           ~(gone /\ m = 1) => eventq[m].type = "free" \/ ~NamedBy(eventq[m], e.id)
    /\ \A f \in all : f.type = "free" \/ ~NamedBy(f, e.id)

\* A step keeps what is to be freed apart from what is alive.
LEMMA FreeKept ==
    ASSUME FreeInv,
           NEW s, NEW gone, NEW first, NEW new, Requeued(s, gone, first, new),
           gone => 1 \in DOMAIN eventq,
           \A i \in pending' : i \in stored',
           \A i \in InUse' : Live(gone, i),
           \A e \in first \cup new : e.type # "free" => NamesLive(gone, e),
           \A e \in first \cup new : e.type = "free" => Releases(gone, first \cup new, e)
    PROVE  FreeInv'
<1>1. ASSUME NEW m \in DOMAIN eventq, eventq[m].type = "free"
      PROVE  ~Live(gone, eventq[m].id)
  BY <1>1 DEF Live, FreeInv
<1>2. ASSUME NEW k \in DOMAIN eventq', eventq'[k].type = "free",
             NEW l \in DOMAIN eventq', eventq'[l].type # "free"
      PROVE  eventq'[k].id \notin InUse' /\ ~NamedBy(eventq'[l], eventq'[k].id)
  <2>1. /\ \/ eventq'[l] \in first \cup new
           \/ /\ l + s \in DOMAIN eventq /\ ~(gone /\ l + s = 1)
              /\ eventq'[l] = eventq[l + s]
        /\ \/ eventq'[k] \in first \cup new
           \/ k + s \in DOMAIN eventq /\ eventq'[k] = eventq[k + s]
    BY DEF Requeued
  <2>2. CASE eventq'[k] \in first \cup new
    BY <1>2, <2>1, <2>2 DEF Releases
  <2>3. CASE k + s \in DOMAIN eventq /\ eventq'[k] = eventq[k + s]
    <3>1. ~Live(gone, eventq'[k].id)
      BY <1>1, <1>2, <2>3
    <3>2. CASE eventq'[l] \in first \cup new
      BY <1>2, <2>3, <3>1, <3>2 DEF NamesLive
    <3>3. CASE l + s \in DOMAIN eventq /\ eventq'[l] = eventq[l + s]
      BY <1>2, <2>3, <3>1, <3>3 DEF FreeInv
    <3> QED BY <2>1, <3>2, <3>3
  <2> QED BY <2>1, <2>2, <2>3
<1>3. ASSUME NEW k \in DOMAIN eventq', eventq'[k].type = "free"
      PROVE  eventq'[k].id \notin InUse'
  <2>1. CASE eventq'[k] \in first \cup new
    BY <1>3, <2>1 DEF Releases
  <2>2. CASE k + s \in DOMAIN eventq /\ eventq'[k] = eventq[k + s]
    BY <1>1, <1>3, <2>2
  <2> QED BY <2>1, <2>2 DEF Requeued
<1> QED BY <1>2, <1>3 DEF FreeInv

\* The queue that a handler leaves before it frees: the events behind its own,
\* and its own.
Left(q, own) ==
    /\ \A m \in DOMAIN eventq : m # 1 => \E k \in DOMAIN q : q[k] = eventq[m]
    /\ \A e \in own : \E k \in DOMAIN q : q[k] = e
    /\ \A k \in DOMAIN q :
           q[k] \in own \/ \E m \in DOMAIN eventq : m # 1 /\ q[k] = eventq[m]

\* The queue without the event that is handled.
LEMMA TailLeft ==
    ASSUME TypeInv, eventq # <<>>
    PROVE  Left(Tail(eventq), {})
<1> DEFINE E == EventSet(Len(bundles))
<1>1. eventq \in Seq(E)
  BY TypeFacts
<1> HIDE DEF E
<1>2. /\ \A i \in DOMAIN Tail(eventq) : /\ i + 1 \in DOMAIN eventq
                                        /\ Tail(eventq)[i] = eventq[i + 1]
      /\ \A i \in DOMAIN eventq : i # 1 => /\ i - 1 \in DOMAIN Tail(eventq)
                                           /\ Tail(eventq)[i - 1] = eventq[i]
      /\ DOMAIN Tail(eventq) = 1 .. Len(eventq) - 1
  BY <1>1, TailOf
<1>3. \A i \in DOMAIN Tail(eventq) : i + 1 # 1
  BY <1>2
<1> QED BY <1>2, <1>3 DEF Left

\* An event in its place.
LEMMA PushedLeft ==
    ASSUME TypeInv, eventq # <<>>, NEW n \in Nat, Len(bundles) <= n, NEW e \in EventSet(n)
    PROVE  Left(<<e>> \o Tail(eventq), {e})
<1> DEFINE E == EventSet(n)
           t == Tail(eventq)
           q == <<e>> \o t
<1>1. t \in Seq(E) /\ e \in E
  <2>1. eventq \in Seq(EventSet(Len(bundles))) /\ Len(bundles) \in Nat
    BY TypeFacts
  <2>2. t \in Seq(EventSet(Len(bundles)))
    <3> DEFINE F == EventSet(Len(bundles))
    <3>1. eventq \in Seq(F)
      BY <2>1
    <3> HIDE DEF F
    <3>2. t \in Seq(F)
      BY <3>1, TailOf
    <3> QED BY <3>2 DEF F
  <2> QED BY <2>1, <2>2, MoreEvents
<1>2. /\ \A m \in DOMAIN eventq : m # 1 => \E k \in DOMAIN t : t[k] = eventq[m]
      /\ \A k \in DOMAIN t : \E m \in DOMAIN eventq : m # 1 /\ t[k] = eventq[m]
  BY TailLeft DEF Left
<1> HIDE DEF E, t
<1>3. /\ DOMAIN t = 1 .. Len(t) /\ DOMAIN q = 1 .. Len(t) + 1
      /\ q[1] = e
      /\ \A i \in DOMAIN t : q[i + 1] = t[i]
      /\ \A i \in DOMAIN q : i = 1 \/ (i - 1 \in DOMAIN t /\ q[i] = t[i - 1])
  BY <1>1, ConsOf
<1>4. Len(t) \in Nat
  BY <1>1
<1>5. 1 \in DOMAIN q /\ \A i \in DOMAIN t : i + 1 \in DOMAIN q
  BY <1>3, <1>4
<1> HIDE DEF q
<1>6. Left(q, {e})
  <2>1. ASSUME NEW m \in DOMAIN eventq, m # 1
        PROVE  \E k \in DOMAIN q : q[k] = eventq[m]
    <3>1. PICK k \in DOMAIN t : t[k] = eventq[m]
      BY <1>2, <2>1
    <3> QED BY <1>3, <1>5, <3>1
  <2>2. ASSUME NEW k \in DOMAIN q, q[k] # e
        PROVE  \E m \in DOMAIN eventq : m # 1 /\ q[k] = eventq[m]
    <3>1. k - 1 \in DOMAIN t /\ q[k] = t[k - 1]
      BY <1>3, <2>2
    <3> QED BY <1>2, <3>1
  <2> QED BY <1>3, <1>5, <2>1, <2>2 DEF Left
<1> QED BY <1>6 DEF q, t

\* Events behind it.
LEMMA ExtendedLeft ==
    ASSUME TypeInv, eventq # <<>>, NEW q, NEW own, Extended(Tail(eventq), q, own)
    PROVE  Left(q, own)
<1> DEFINE t == Tail(eventq)
<1>1. /\ \A m \in DOMAIN eventq : m # 1 => \E k \in DOMAIN t : t[k] = eventq[m]
      /\ \A k \in DOMAIN t : \E m \in DOMAIN eventq : m # 1 /\ t[k] = eventq[m]
  BY TailLeft DEF Left
<1>2. Extended(t, q, own)
  OBVIOUS
<1> HIDE DEF t
<1> QED BY <1>1, <1>2 DEF Extended, Left

\* What a handler frees is not in use after it, and nothing else in the queue
\* names it; everything that was stored is in use, named or freed.
LEMMA JustFreed ==
    ASSUME NEW q, NEW own, Left(q, own), NEW s, NEW first, NEW new,
           Requeued(s, TRUE, first, new),
           own \cup FreeEvents(Unreferenced(q)) \subseteq first \cup new
    PROVE  /\ \A i \in Unreferenced(q) :
                  /\ i \notin InUse'
                  /\ \A m \in DOMAIN eventq : m # 1 => ~NamedBy(eventq[m], i)
                  /\ \A e \in own : ~NamedBy(e, i)
           /\ \A i \in stored :
                  \/ i \in InUse'
                  \/ \E l \in DOMAIN eventq' : NamedBy(eventq'[l], i)
<1>1. ASSUME NEW i \in Unreferenced(q)
      PROVE  i \notin InUse' /\ \A k \in DOMAIN q : ~NamedBy(q[k], i)
  <2>1. i \notin Refs(q) /\ i \notin InUse'
    BY DEF Unreferenced, InUse
  <2> QED BY <2>1 DEF Refs, NamedBy, InList, Range
<1>2. ASSUME NEW i \in stored, i \notin InUse'
      PROVE  \E l \in DOMAIN eventq' : NamedBy(eventq'[l], i)
  <2>1. CASE i \in Refs(q)
    <3>1. PICK k \in DOMAIN q : NamedBy(q[k], i)
      BY <2>1 DEF Refs, NamedBy, InList, Range
    <3>2. \E l \in DOMAIN eventq' : eventq'[l] = q[k]
      <4>1. CASE q[k] \in own
        BY <4>1 DEF Requeued
      <4>2. CASE \E m \in DOMAIN eventq : m # 1 /\ q[k] = eventq[m]
        BY <4>2 DEF Requeued
      <4> QED BY <4>1, <4>2 DEF Left
    <3> QED BY <3>1, <3>2
  <2>2. CASE i \notin Refs(q)
    <3>1. i \in Unreferenced(q)
      BY <1>2, <2>2 DEF Unreferenced, InUse
    <3>2. Post("free", i) \in FreeEvents(Unreferenced(q))
      BY <3>1 DEF FreeEvents
    <3>3. PICK l \in DOMAIN eventq' : eventq'[l] = Post("free", i)
      BY <3>2 DEF Requeued
    <3> QED BY <3>3 DEF NamedBy, Post, Event
  <2> QED BY <2>1, <2>2
<1> QED BY <1>1, <1>2 DEF Left

\* A handler puts nothing into use but the bundle h of its event.
Confined(h) ==
    /\ \A i \in InUse' : i \in InUse \/ i = h
    /\ \A i \in Used' : i \in Used \/ i = h
    /\ \A i \in pending' : i \in pending \/ i \in stored'
    /\ stored \subseteq stored'
    /\ state' # NoState => state'.bundle = state.bundle

\* Such a handler keeps both invariants.
LEMMA HandlerKeeps ==
    ASSUME TypeInv, TypeInv', BirthInv, FreeInv, eventq # <<>>,
           Head(eventq).type # "free", Confined(Head(eventq).id),
           NEW q, NEW own, Left(q, own),
           Requeued(1, TRUE, {}, own \cup FreeEvents(Unreferenced(q))),
           \A e \in own : /\ ~Brings(e) /\ e.list = <<>> /\ e.type # "free"
                          /\ e.id \in InUse \/ e.id = Head(eventq).id
    PROVE  BirthInv' /\ FreeInv'
<1> DEFINE h == Head(eventq).id
           N == own \cup FreeEvents(Unreferenced(q))
<1>1. eventq[1].id = h /\ 1 \in DOMAIN eventq /\ eventq[1].type # "free"
  <2> DEFINE E == EventSet(Len(bundles))
  <2>1. eventq \in Seq(E)
    BY TypeFacts
  <2> HIDE DEF E
  <2> QED BY <2>1, TailOf
<1>2. Reach(TRUE, h) /\ Live(TRUE, h) /\ \A i \in InUse : Reach(TRUE, i) /\ Live(TRUE, i)
  BY <1>1 DEF Reach, Live, NamedBy, Used
<1>3. /\ Confined(h) /\ Requeued(1, TRUE, {}, N)
      /\ \A e \in own : /\ ~Brings(e) /\ e.list = <<>> /\ e.type # "free"
                        /\ e.id \in InUse \/ e.id = h
  OBVIOUS
<1>4. \A e \in N : /\ ~Brings(e) /\ e.list = <<>> /\ Reach(TRUE, e.id)
                   /\ e.type = "free" => e.id \in Unreferenced(q)
                   /\ e.type # "free" => e \in own /\ Live(TRUE, e.id)
  BY <1>2, <1>3, FreeNames
<1>5. /\ \A i \in Unreferenced(q) :
             /\ i \notin InUse'
             /\ \A m \in DOMAIN eventq : m # 1 => ~NamedBy(eventq[m], i)
             /\ \A e \in own : ~NamedBy(e, i)
  BY <1>3, JustFreed
<1> HIDE DEF h, N
<1>6. BirthInv'
  <2>1. \A i : i \in Used' => Reach(TRUE, i)
    BY <1>2, <1>3 DEF Confined, Reach
  <2>2. state' # NoState => state'.bundle = state.bundle
    BY <1>3 DEF Confined
  <2>3. \A e \in {} \cup N : ~Brings(e) /\ e.list = <<>> /\ Reach(TRUE, e.id)
    BY <1>4
  <2>4. 1 \in Int /\ (TRUE => 1 \in DOMAIN eventq)
    BY <1>1
  <2> QED BY <1>3, <2>1, <2>2, <2>3, <2>4, NothingBorn, Zenon
<1>7. FreeInv'
  <2>1. \A i \in pending' : i \in stored'
    BY <1>3 DEF Confined, FreeInv
  <2>2. \A i \in InUse' : Live(TRUE, i)
    BY <1>2, <1>3 DEF Confined
  <2>3. \A e \in {} \cup N : e.type # "free" => NamesLive(TRUE, e)
    <3>1. ASSUME NEW e \in N, NEW i, NamedBy(e, i) PROVE e.id = i
      <4>1. e.list = <<>>
        BY <1>4
      <4> QED BY <3>1, <4>1 DEF NamedBy, InList
    <3> QED BY <1>4, <3>1 DEF NamesLive
  <2>4. \A e \in {} \cup N : e.type = "free" => Releases(TRUE, {} \cup N, e)
    BY <1>4, <1>5 DEF Releases
  <2>5. TRUE => 1 \in DOMAIN eventq
    BY <1>1
  <2> QED BY <1>3, <2>1, <2>2, <2>3, <2>4, <2>5, FreeKept, Zenon
<1> QED BY <1>6, <1>7

\* A bundle that becomes pending again confines the step to itself.
LEMMA PendingConfined ==
    ASSUME TypeInv, NEW h \in 1 .. Len(bundles), add_to_pending(h),
           state' = state \/ state' = NoState,
           \A i \in Ids : fwdlog'[i] # fwdlog[i] => i = h
    PROVE  Confined(h)
<1>1. /\ stored' = stored \cup {h} /\ pending' \subseteq pending \cup {h}
      /\ reg'.queued \subseteq reg.queued /\ reg'.out \subseteq reg.out
  BY AddToPendingFacts
<1>2. Range(state'.list) \subseteq Range(state.list)
  BY DEF NoState, Range
<1>3. \A i \in InUse' : i \in InUse \/ i = h
  BY <1>1, <1>2 DEF InUse
<1>4. \A i \in Used' : i \in Used \/ i = h
  BY <1>1, <1>3 DEF Used
<1>5. state' # NoState => state'.bundle = state.bundle
  OBVIOUS
<1> QED BY <1>1, <1>3, <1>4, <1>5 DEF Confined

\* So does a deletion.
LEMMA DeletedConfined ==
    ASSUME TypeInv, NEW ids, delete_bundle(ids), UNCHANGED <<stored, fwdlog>>, NEW h
    PROVE  Confined(h) /\ (\A i \in InUse' : i \in InUse) /\ (\A i \in Used' : i \in Used)
<1> DEFINE S == 1 .. Len(bundles)
           l == state.list
           w == Without(l, ids)
<1>1. l \in Seq(S)
  BY TypeFacts DEF StateRecord
<1>2. /\ pending' \subseteq pending /\ state'.list = w
      /\ reg'.queued \subseteq reg.queued /\ reg'.out \subseteq reg.out
      /\ state' # NoState <=> state'.list # <<>>
      /\ state'.list # <<>> => state'.bundle = state.bundle
  BY DeleteBundleFacts
<1> HIDE DEF S, l
<1>3. \A j \in DOMAIN w : \E m \in DOMAIN l : w[j] = l[m]
  BY <1>1, WithoutFacts
<1> HIDE DEF w
<1>4. Range(state'.list) \subseteq Range(state.list)
  BY <1>2, <1>3 DEF Range, l
<1>5. \A i \in InUse' : i \in InUse
  BY <1>2, <1>4 DEF InUse
<1>6. \A i \in Used' : i \in Used
  BY <1>5 DEF Used
<1> QED BY <1>2, <1>5, <1>6 DEF Confined

\* Handlers that change the lists or nothing, and then free.
LEMMA PlainBirth ==
    ASSUME TypeInv, BirthInv, FreeInv,
           \/ handle_duplicate \/ handle_delivered_gone
           \/ handle_too_late \/ handle_fragment_reloaded
           \/ handle_deliver_bundle_to_reg \/ handle_deletion
    PROVE  BirthInv' /\ FreeInv'
<1> DEFINE h == Head(eventq).id
           q == Tail(eventq)
<1>1. TypeInv' /\ eventq # <<>> /\ Requeued(1, TRUE, {}, FreeEvents(Unreferenced(q)))
  BY DuplicateType, PendingType, DeliverType, DeletionType
<1>2. Requeued(1, TRUE, {}, {} \cup FreeEvents(Unreferenced(q)))
  <2>1. {} \cup FreeEvents(Unreferenced(q)) = FreeEvents(Unreferenced(q))
    OBVIOUS
  <2> QED BY <1>1, <2>1
<1>3. Left(q, {})
  BY <1>1, TailLeft
<1>4. \/ Handling("received") \/ Handling("delivered") \/ Handling("deliver")
      \/ Handling("delete") \/ Handling("expired")
  BY DEF handle_duplicate, handle_delivered_gone, handle_too_late,
         handle_fragment_reloaded, handle_deliver_bundle_to_reg, handle_deletion
<1>5. Head(eventq).type # "free" /\ h \in 1 .. Len(bundles) /\ h \in Ids
  BY <1>4, HeadFacts
<1>6. Confined(h)
  <2>1. CASE handle_duplicate \/ handle_delivered_gone
    <3>1. UNCHANGED <<pending, stored, fwdlog, state, reg>>
      BY <2>1 DEF handle_duplicate, handle_delivered_gone
    <3> QED BY <3>1 DEF Confined, Used, InUse
  <2>2. CASE handle_too_late \/ handle_fragment_reloaded
    <3>1. add_to_pending(h) /\ UNCHANGED <<state, fwdlog>>
      BY <2>2 DEF handle_too_late, handle_fragment_reloaded
    <3> QED BY <1>5, <3>1, PendingConfined
  <2>3. CASE handle_deliver_bundle_to_reg
    <3> DEFINE give == fwdlog[h] # "DELIVERED" /\ ~cache
    <3>1. /\ UNCHANGED <<state, pending, stored>>
          /\ reg' = (IF give THEN [reg EXCEPT !.queued = @ \cup {h}] ELSE reg)
          /\ fwdlog' = (IF give THEN [fwdlog EXCEPT ![h] = "DELIVERED"] ELSE fwdlog)
      BY <2>3 DEF handle_deliver_bundle_to_reg
    <3>2. reg \in [queued : SUBSET (1 .. Len(bundles)), out : SUBSET (1 .. Len(bundles))]
          /\ fwdlog \in [Ids -> Log]
      BY TypeFacts
    <3> HIDE DEF h, give
    <3>3. reg'.queued \subseteq reg.queued \cup {h} /\ reg'.out = reg.out
      BY <3>1, <3>2
    <3>4. \A j \in Ids : j = h \/ fwdlog'[j] = fwdlog[j]
      BY <3>1, <3>2
    <3>5. \A i \in InUse' : i \in InUse \/ i = h
      BY <3>1, <3>3 DEF InUse
    <3>6. \A i \in Used' : i \in Used \/ i = h
      BY <3>1, <3>4, <3>5 DEF Used
    <3> QED BY <3>1, <3>5, <3>6 DEF Confined
  <2>4. CASE handle_deletion
    <3>1. delete_bundle({h}) /\ UNCHANGED <<stored, fwdlog>>
      BY <2>4 DEF handle_deletion
    <3> QED BY <3>1, DeletedConfined
  <2> QED BY <2>1, <2>2, <2>3, <2>4
<1> DEFINE own == {}
<1>7. /\ Left(q, own) /\ Requeued(1, TRUE, {}, own \cup FreeEvents(Unreferenced(q)))
      /\ \A e \in own : /\ ~Brings(e) /\ e.list = <<>> /\ e.type # "free"
                        /\ e.id \in InUse \/ e.id = Head(eventq).id
  BY <1>2, <1>3
<1>8. Confined(Head(eventq).id) /\ Head(eventq).type # "free" /\ eventq # <<>>
  BY <1>1, <1>5, <1>6
<1> HIDE DEF q, own, h
<1> QED BY <1>1, <1>7, <1>8, HandlerKeeps

\* A whole bundle.
LEMMA WholeBirth ==
    ASSUME TypeInv, BirthInv, FreeInv, handle_whole_received \/ handle_whole_reloaded
    PROVE  BirthInv' /\ FreeInv'
<1> DEFINE h == Head(eventq).id
<1>1. /\ Handling("received") /\ add_to_pending(h) /\ state' = NoState
      /\ fwdlog' = fwdlog \/ fwdlog' = [fwdlog EXCEPT ![h] = "PENDING_DELIVERY"]
  BY DEF handle_whole_received, handle_whole_reloaded
<1>2. TypeInv' /\ eventq # <<>>
  BY WholeType
<1>3. PICK q, D : /\ D \subseteq {Post("deliver", h)}
                  /\ Extended(Tail(eventq), q, Obsoleted \cup D)
                  /\ Requeued(1, TRUE, {}, (Obsoleted \cup D)
                                              \cup FreeEvents(Unreferenced(q)))
  BY WholeType
<1>4. Left(q, Obsoleted \cup D)
  BY <1>2, <1>3, ExtendedLeft
<1>5. Head(eventq).type # "free" /\ h \in 1 .. Len(bundles) /\ h \in Ids
  BY <1>1, HeadFacts
<1>6. Confined(h)
  <2>1. fwdlog \in [Ids -> Log]
    BY TypeFacts
  <2> HIDE DEF h
  <2>2. \A i \in Ids : fwdlog'[i] # fwdlog[i] => i = h
    BY <1>1, <2>1
  <2> QED BY <1>1, <1>5, <2>2, PendingConfined
<1>7. \A e \in Obsoleted \cup D :
          /\ ~Brings(e) /\ e.list = <<>> /\ e.type # "free"
          /\ e.id \in InUse \/ e.id = Head(eventq).id
  <2>1. \A e \in D : e = Post("deliver", h)
    BY <1>3
  <2>2. \A k \in DOMAIN state.list : state.list[k] \in InUse
    BY DEF InUse, Range
  <2> QED BY <2>1, <2>2 DEF Obsoleted, Post, Event, Brings
<1> DEFINE own == Obsoleted \cup D
<1>8. /\ Left(q, own) /\ Requeued(1, TRUE, {}, own \cup FreeEvents(Unreferenced(q)))
      /\ \A e \in own : /\ ~Brings(e) /\ e.list = <<>> /\ e.type # "free"
                        /\ e.id \in InUse \/ e.id = Head(eventq).id
  BY <1>3, <1>4, <1>7
<1> HIDE DEF own
<1>9. Confined(Head(eventq).id) /\ Head(eventq).type # "free" /\ eventq # <<>>
  BY <1>2, <1>5, <1>6
<1>10. TypeInv'
  BY <1>2
<1> HIDE DEF h
<1> QED BY <1>8, <1>9, <1>10, HandlerKeeps

\* The end of a reassembly: the event that brought the bundle gives way to
\* another that does.
LEMMA CompletedBirth ==
    ASSUME TypeInv, BirthInv, FreeInv, handle_reassembly_completed
    PROVE  BirthInv' /\ FreeInv'
<1> DEFINE h == Head(eventq).id
           e == Received(h, "frag")
           q == <<e>> \o Tail(eventq)
           N == FreeEvents(Unreferenced(q))
<1>1. /\ UNCHANGED <<stored, fwdlog>> /\ Handling("completed")
      /\ delete_bundle(Range(Head(eventq).list))
  BY DEF handle_reassembly_completed
<1>2. TypeInv' /\ eventq # <<>> /\ Requeued(0, TRUE, {e}, N)
  BY CompletedType
<1>3. /\ h \in 1 .. Len(bundles) /\ eventq[1] = Head(eventq) /\ 1 \in DOMAIN eventq
      /\ Head(eventq).type = "completed" /\ eventq[1].id = h
  BY <1>1, HeadFacts
<1>4. Left(q, {e})
  <2>1. Len(bundles) \in Nat /\ Len(bundles) <= Len(bundles)
    BY TypeFacts
  <2>2. e \in EventSet(Len(bundles))
    BY <1>3 DEF Received, Event, EventSet, EventTypes
  <2> HIDE DEF e
  <2> QED BY <1>2, <2>1, <2>2, PushedLeft
<1>5. /\ e.id = h /\ e.list = <<>> /\ e.type = "received"
      /\ \A i : NamedBy(e, i) => i = h
  BY DEF Received, Event, NamedBy, InList
<1>6. /\ (\A i \in InUse' : i \in InUse) /\ (\A i \in Used' : i \in Used)
      /\ Confined(h)
  BY <1>1, DeletedConfined
<1>7. h \notin Used /\ \A m \in DOMAIN eventq : m # 1 => ~NamedBy(eventq[m], h)
  BY <1>3 DEF BirthInv, Brings
<1>8. \A x \in N : /\ ~Brings(x) /\ x.list = <<>> /\ x.type = "free"
                   /\ x.id \in Unreferenced(q) /\ x.id \in stored
                   /\ \A i : NamedBy(x, i) => i = x.id
  BY FreeNames DEF NamedBy, InList
<1>9. \A i \in Unreferenced(q) :
          /\ i \notin InUse'
          /\ \A m \in DOMAIN eventq : m # 1 => ~NamedBy(eventq[m], i)
          /\ \A f \in {e} : ~NamedBy(f, i)
  <2>1. {e} \cup FreeEvents(Unreferenced(q)) \subseteq {e} \cup N
    OBVIOUS
  <2> HIDE DEF e, q, N
  <2> QED BY <1>2, <1>4, <2>1, JustFreed
<1> HIDE DEF h, e, q, N
<1>10. BirthInv'
  <2>1. \A i : i \in Used' => Reach(TRUE, i)
    BY <1>6 DEF Reach
  <2>2. \A x \in N : ~Brings(x) /\ \A i : NamedBy(x, i) => Reach(TRUE, i)
    BY <1>8 DEF Reach, Used
  <2>3. h \notin Used' /\ \A x \in N : ~NamedBy(x, h)
    BY <1>6, <1>7, <1>8 DEF Used
  <2>4. \A m \in DOMAIN eventq : ~(TRUE /\ m = 1) => ~NamedBy(eventq[m], h)
    BY <1>7
  <2>5. \A x \in {e} : /\ \A i : NamedBy(x, i) => i = h \/ Reach(TRUE, i)
                       /\ Brings(x) => x.id = h /\ ~InList(x.list, h)
    <3>1. ~InList(e.list, h)
      BY <1>5 DEF InList
    <3> QED BY <1>5, <3>1
  <2>6. state' # NoState =>
            \/ state'.bundle = h /\ \A x \in {e} : ~NamedBy(x, h)
            \/ state # NoState /\ state'.bundle = state.bundle /\ state.bundle # h
    <3> SUFFICES ASSUME state' # NoState
                 PROVE  /\ state # NoState /\ state'.bundle = state.bundle
                        /\ state.bundle # h
      OBVIOUS
    <3>1. state' # NoState <=> state'.list # <<>>
      BY <1>1, DeleteBundleFacts
    <3>2. state'.list # <<>> => state'.bundle = state.bundle /\ state.list # <<>>
      BY <1>1, DeleteBundleFacts
    <3>3. state # NoState
      BY <3>1, <3>2 DEF NoState
    <3>4. ~NamedBy(eventq[1], state.bundle)
      BY <1>3, <3>3 DEF BirthInv
    <3> QED BY <1>3, <3>1, <3>2, <3>3, <3>4 DEF NamedBy
  <2>7. \A x \in {e} \cup N : x.type # "completed" => x.list = <<>>
    BY <1>5, <1>8
  <2>8. 0 \in Int /\ (TRUE => 1 \in DOMAIN eventq)
    BY <1>3
  <2>9. DOMAIN eventq \subseteq Int /\ DOMAIN eventq' \subseteq Int
    BY <1>2, Positions
  <2>10. BringsOnly(h, TRUE, {e}, N)
    BY <2>1, <2>2, <2>3, <2>4, <2>5, <2>6, <2>7 DEF BringsOnly
  <2> QED BY <1>2, <2>8, <2>9, <2>10, BirthKept
<1>11. FreeInv'
  <2>1. \A i \in pending' : i \in stored'
    BY <1>6 DEF Confined, FreeInv
  <2>2. \A i \in InUse' : Live(TRUE, i)
    BY <1>6 DEF Live
  <2>3. \A x \in {e} \cup N : x.type # "free" => NamesLive(TRUE, x)
    <3>1. Live(TRUE, h)
      BY <1>3 DEF Live, NamedBy
    <3> QED BY <1>5, <1>8, <3>1 DEF NamesLive
  <2>4. \A x \in {e} \cup N : x.type = "free" => Releases(TRUE, {e} \cup N, x)
    BY <1>5, <1>8, <1>9 DEF Releases
  <2>5. TRUE => 1 \in DOMAIN eventq
    BY <1>3
  <2> QED BY <1>2, <2>1, <2>2, <2>3, <2>4, <2>5, FreeKept, Zenon
<1> QED BY <1>10, <1>11

\* A number that no bundle has yet.
LEMMA NewNumber ==
    ASSUME TypeInv, DataInv
    PROVE  /\ Len(bundles) + 1 \notin Used
           /\ \A m \in DOMAIN eventq : ~NamedBy(eventq[m], Len(bundles) + 1)
<1> DEFINE S == 1 .. Len(bundles)
           w == Len(bundles) + 1
<1>1. w \notin S
  BY TypeFacts
<1>2. /\ pending \subseteq S /\ stored \subseteq S
      /\ reg \in [queued : SUBSET S, out : SUBSET S]
      /\ state.list \in Seq(S)
  BY TypeFacts DEF StateRecord
<1>3. \A j \in Ids : fwdlog[j] # "none" => j \in S
  BY DataFacts
<1>4. \A m \in DOMAIN eventq : eventq[m].id \in S /\ eventq[m].list \in Seq(S)
  <2>1. eventq \in Seq(EventSet(Len(bundles)))
    BY TypeFacts
  <2>2. \A m \in DOMAIN eventq : eventq[m] \in EventSet(Len(bundles))
    BY <2>1
  <2> QED BY <2>2 DEF EventSet
<1> HIDE DEF S, w
<1>5. \A l \in Seq(S) : ~InList(l, w)
  BY <1>1 DEF InList
<1>6. \A m \in DOMAIN eventq : ~NamedBy(eventq[m], w)
  BY <1>1, <1>4, <1>5 DEF NamedBy
<1>7. w \notin Range(state.list)
  BY <1>2, <1>5 DEF InList, Range
<1>8. w \notin reg.queued /\ w \notin reg.out
  BY <1>1, <1>2
<1>9. w \notin Used
  BY <1>1, <1>2, <1>3, <1>7, <1>8 DEF Used, InUse
<1> QED BY <1>6, <1>9 DEF w

\* The bundle that a fragment is copied into is the state's or a new one.
LEMMA CopyAlone ==
    ASSUME TypeInv, DataInv, BirthInv, NEW i, NEW w, CopiedInto(w, i)
    PROVE  w \notin Used /\ \A m \in DOMAIN eventq : ~NamedBy(eventq[m], w)
<1>1. CASE state # NoState /\ w = state.bundle
  BY <1>1, StateBundleAlone
<1>2. CASE w = Len(bundles) + 1
  BY <1>2, NewNumber
<1> QED BY <1>1, <1>2 DEF CopiedInto

\* A fragment from a peer, as the next lemmas use it.
LEMMA FragmentFacts ==
    ASSUME TypeInv, DataInv, BirthInv, handle_fragment_received
    PROVE  LET i == Head(eventq).id
               list == add_fragment(state.list, i)
           IN /\ Handling("received") /\ eventq[1] = Head(eventq) /\ 1 \in DOMAIN eventq
              /\ i \in 1 .. Len(bundles) /\ bundles[i].frag /\ ~over
              /\ Head(eventq).src = "peer"
              /\ pending' = pending \cup {i} /\ stored' = stored \cup {i}
              /\ reg' = reg /\ fwdlog' = fwdlog
              /\ \A j : InList(list, j) <=> (j = i \/ j \in Range(state.list))
<1> DEFINE i == Head(eventq).id
           list == add_fragment(state.list, i)
           S == 1 .. Len(bundles)
           l == state.list
<1>1. /\ Handling("received") /\ bundles[i].frag /\ ~over /\ Head(eventq).src = "peer"
      /\ add_to_pending(i) /\ UNCHANGED fwdlog
  BY DEF handle_fragment_received
<1>2. /\ i \in S /\ i \in Ids /\ eventq[1] = Head(eventq) /\ 1 \in DOMAIN eventq
  BY <1>1, HeadFacts
<1>3. fwdlog[i] # "DELIVERED"
  BY <1>1, <1>2, DataFacts
<1>4. /\ pending' = pending \cup {i} /\ stored' = stored \cup {i} /\ reg' = reg
  BY <1>1, <1>3 DEF add_to_pending
<1>5. \A x \in S : bundles[x].off \in Nat
  <2>1. \A x \in S : bundles[x] \in BundleRecord
    BY TypeFacts
  <2> QED BY <2>1 DEF BundleRecord
<1>6. l \in Seq(S) /\ list = add_fragment(l, i)
  BY TypeFacts DEF StateRecord
<1>7. \A j : InList(list, j) <=> (j = i \/ j \in Range(l))
  <2> HIDE DEF S, l, list, i
  <2>1. \E k \in DOMAIN list : list[k] = i
    BY <1>2, <1>5, <1>6, AddFragmentFacts
  <2>2. \A k \in DOMAIN list : list[k] = i \/ \E m \in DOMAIN l : list[k] = l[m]
    BY <1>2, <1>5, <1>6, AddFragmentFacts
  <2>3. \A m \in DOMAIN l : \E k \in DOMAIN list : list[k] = l[m]
    BY <1>2, <1>5, <1>6, AddFragmentFacts
  <2> QED BY <2>1, <2>2, <2>3 DEF InList, Range
<1> QED BY <1>1, <1>2, <1>4, <1>7

\* The queue that a fragment leaves, before anything is freed.
LEMMA FragmentLeft ==
    ASSUME TypeInv, handle_fragment_received, NEW w, CopiedInto(w, Head(eventq).id)
    PROVE  LET i == Head(eventq).id
           IN Left(AfterFragment(w, i), IF check_completed(add_fragment(state.list, i))
                                        THEN {CompletedEvent(w, i)} ELSE {})
<1> DEFINE i == Head(eventq).id
           list == add_fragment(state.list, i)
           q == AfterFragment(w, i)
           e == CompletedEvent(w, i)
<1>1. Handling("received")
  BY DEF handle_fragment_received
<1>2. eventq # <<>> /\ i \in 1 .. Len(bundles)
  BY <1>1, HeadFacts
<1>3. CopiedInto(w, i)
  OBVIOUS
<1> HIDE DEF list
<1>4. Left(q, IF check_completed(list) THEN {e} ELSE {})
  <2>1. CASE check_completed(list)
    <3>1. q = <<e>> \o Tail(eventq)
      BY <2>1 DEF AfterFragment, list
    <3>2. Len(bundles') \in Nat /\ Len(bundles) <= Len(bundles')
          /\ e \in EventSet(Len(bundles'))
      <4>1. Len(bundles) <= Len(bundles') /\ Len(bundles') \in Nat
            /\ w \in 1 .. Len(bundles')
        BY <1>3, TypeFacts DEF CopiedInto
      <4>2. state.list \in Seq(1 .. Len(bundles))
        BY TypeFacts DEF StateRecord
      <4>3. list \in Seq(1 .. Len(bundles'))
        <5> DEFINE S == 1 .. Len(bundles)
                   l == state.list
        <5>1. l \in Seq(S) /\ i \in S
          BY <1>2, <4>2
        <5>2. \A x \in S : bundles[x].off \in Nat
          <6>1. \A x \in S : bundles[x] \in BundleRecord
            BY TypeFacts
          <6> QED BY <6>1 DEF BundleRecord
        <5>3. S \subseteq 1 .. Len(bundles')
          BY <4>1, TypeFacts
        <5>4. list = add_fragment(l, i)
          BY DEF list
        <5> HIDE DEF S, l, i
        <5>5. list \in Seq(S)
          BY <5>1, <5>2, <5>4, AddFragmentFacts
        <5> DEFINE T == 1 .. Len(bundles')
        <5>6. S \subseteq T
          BY <5>3
        <5> HIDE DEF T
        <5>7. list \in Seq(T)
          BY <5>5, <5>6, LargerSeq
        <5> QED BY <5>7 DEF T
      <4> QED BY <4>1, <4>3 DEF CompletedEvent, Event, EventSet, EventTypes, list
    <3> HIDE DEF e, q
    <3>3. Left(<<e>> \o Tail(eventq), {e})
      BY <1>2, <3>2, PushedLeft
    <3> QED BY <2>1, <3>1, <3>3
  <2>2. CASE ~check_completed(list)
    <3>1. q = Tail(eventq)
      BY <2>2 DEF AfterFragment, list
    <3>2. Left(Tail(eventq), {})
      BY <1>2, TailLeft
    <3> HIDE DEF e, q
    <3> QED BY <2>2, <3>1, <3>2
  <2> QED BY <2>1, <2>2
<1> QED BY <1>4 DEF list

\* A fragment from a peer brings the bundle it starts or completes.
LEMMA FragmentBirth ==
    ASSUME TypeInv, DataInv, BirthInv, FreeInv, handle_fragment_received
    PROVE  BirthInv' /\ FreeInv'
<1> DEFINE i == Head(eventq).id
           list == add_fragment(state.list, i)
<1>1. /\ Handling("received") /\ eventq[1] = Head(eventq) /\ 1 \in DOMAIN eventq
      /\ i \in 1 .. Len(bundles)
      /\ pending' = pending \cup {i} /\ stored' = stored \cup {i}
      /\ reg' = reg /\ fwdlog' = fwdlog
      /\ \A j : InList(list, j) <=> (j = i \/ j \in Range(state.list))
  BY FragmentFacts
<1>2. TypeInv' /\ eventq # <<>> /\ eventq[1].type = "received" /\ eventq[1].id = i
  BY <1>1, FragmentType, HeadFacts
<1>3. PICK w :
        /\ CopiedInto(w, i)
        /\ \/ /\ check_completed(list)
              /\ state' = NoState
              /\ Requeued(0, TRUE, {CompletedEvent(w, i)},
                     FreeEvents(Unreferenced(AfterFragment(w, i))))
           \/ /\ ~check_completed(list)
              /\ state' = [bundle |-> w, list |-> list]
              /\ Requeued(1, TRUE, {},
                     FreeEvents(Unreferenced(AfterFragment(w, i))))
  BY FragmentType
<1> DEFINE q == AfterFragment(w, i)
           N == FreeEvents(Unreferenced(q))
           e == CompletedEvent(w, i)
<1>4. w \notin Used /\ \A m \in DOMAIN eventq : ~NamedBy(eventq[m], w)
  BY <1>3, CopyAlone
<1>5. w # i /\ Reach(TRUE, i) /\ Live(TRUE, i)
  BY <1>1, <1>2, <1>4 DEF NamedBy, Reach, Live
<1>6. e.id = w /\ e.type = "completed" /\ e.list = list
  BY DEF CompletedEvent, Event
<1>7. Range(state'.list) \subseteq Range(state.list) \cup {i}
  <2>1. state'.list = <<>> \/ state'.list = list
    <3>1. state' = NoState \/ state' = [bundle |-> w, list |-> list]
      BY <1>3
    <3> HIDE DEF list
    <3> QED BY <3>1 DEF NoState
  <2> HIDE DEF list
  <2> QED BY <1>1, <2>1 DEF InList, Range
<1> HIDE DEF list
<1>8. Left(q, IF check_completed(list) THEN {e} ELSE {})
  BY <1>1, <1>3, FragmentLeft DEF list
<1>9. \A x \in N : /\ ~Brings(x) /\ x.list = <<>> /\ x.type = "free"
                   /\ x.id \in Unreferenced(q) /\ x.id \in stored
                   /\ \A j : NamedBy(x, j) => j = x.id
  BY FreeNames DEF NamedBy, InList
<1>10. \A j \in InUse' : j \in InUse \/ j = i
  <2> HIDE DEF i
  <2> QED BY <1>1, <1>7 DEF InUse
<1>11. \A j \in Used' : j \in Used \/ j = i
  <2> HIDE DEF i
  <2> QED BY <1>1, <1>10 DEF Used
<1>12. \A j \in pending' : j \in stored'
  <2> HIDE DEF i
  <2> QED BY <1>1 DEF FreeInv
<1>13. /\ DOMAIN eventq \subseteq Int /\ DOMAIN eventq' \subseteq Int
       /\ 0 \in Int /\ 1 \in Int /\ (TRUE => 1 \in DOMAIN eventq)
  BY <1>1, <1>2, Positions
<1> DEFINE first == IF check_completed(list) THEN {e} ELSE {}
           s == IF check_completed(list) THEN 0 ELSE 1
<1>14. /\ Requeued(s, TRUE, first, N) /\ s \in Int
       /\ state' # NoState => state'.bundle = w /\ first = {}
  <2> HIDE DEF e, N
  <2>1. CASE check_completed(list)
    <3>1. state' = NoState /\ Requeued(0, TRUE, {e}, N)
      BY <1>3, <2>1 DEF e, N
    <3>2. s = 0 /\ first = {e}
      BY <2>1
    <3> HIDE DEF s, first
    <3>3. Requeued(s, TRUE, first, N)
      BY <3>1, <3>2, Zenon
    <3>4. s \in Int
      BY <3>2
    <3> QED BY <3>1, <3>3, <3>4, Zenon
  <2>2. CASE ~check_completed(list)
    <3>1. state' = [bundle |-> w, list |-> list] /\ Requeued(1, TRUE, {}, N)
      BY <1>3, <2>2 DEF N
    <3>2. s = 1 /\ first = {}
      BY <2>2
    <3> HIDE DEF s, first, list
    <3>3. Requeued(s, TRUE, first, N)
      BY <3>1, <3>2, Zenon
    <3>4. state'.bundle = w
      BY <3>1
    <3>5. s \in Int
      BY <3>2
    <3> QED BY <3>2, <3>3, <3>4, <3>5, Zenon
  <2> QED BY <2>1, <2>2
<1>15. Left(q, first) /\ \A x \in first : x = e
  BY <1>8
<1> HIDE DEF i, e, q, N, first, s
<1>16. \A j \in Unreferenced(q) :
          /\ j \notin InUse'
          /\ \A m \in DOMAIN eventq : m # 1 => ~NamedBy(eventq[m], j)
          /\ \A f \in first : ~NamedBy(f, j)
  <2>1. first \cup FreeEvents(Unreferenced(q)) \subseteq first \cup N
    BY DEF N
  <2> QED BY <1>14, <1>15, <2>1, JustFreed
<1>17. \A j : NamedBy(e, j) => j = w \/ j = i \/ j \in InUse
  BY <1>1, <1>6 DEF NamedBy, InUse
<1>18. ~InList(list, w)
  <2>1. w \notin Range(state.list)
    BY <1>4 DEF Used, InUse
  <2> QED BY <1>1, <1>5, <2>1
<1>19. BringsOnly(w, TRUE, first, N)
  <2>1. \A j : j \in Used' => Reach(TRUE, j)
    BY <1>5, <1>11 DEF Reach
  <2>2. \A x \in N : /\ ~Brings(x) /\ ~NamedBy(x, w)
                     /\ \A j : NamedBy(x, j) => Reach(TRUE, j)
    BY <1>4, <1>9 DEF Reach, Used
  <2>3. w \notin Used'
    BY <1>4, <1>5, <1>11
  <2>4. \A x \in first : /\ \A j : NamedBy(x, j) => j = w \/ Reach(TRUE, j)
                         /\ Brings(x) => x.id = w /\ ~InList(x.list, w)
    BY <1>5, <1>6, <1>15, <1>17, <1>18 DEF Reach, Used
  <2>5. \A x \in first \cup N : x.type # "completed" => x.list = <<>>
    BY <1>6, <1>9, <1>15
  <2> QED BY <1>4, <1>14, <2>1, <2>2, <2>3, <2>4, <2>5 DEF BringsOnly
<1>20. BirthInv'
  BY <1>13, <1>14, <1>19, BirthKept
<1>21. FreeInv'
  <2>1. \A j \in InUse' : Live(TRUE, j)
    BY <1>5, <1>10 DEF Live
  <2>2. \A x \in first \cup N : x.type # "free" => NamesLive(TRUE, x)
    <3>1. \A m \in DOMAIN eventq : eventq[m].id # w
      BY <1>4 DEF NamedBy
    <3>2. NamesLive(TRUE, e)
      BY <1>5, <1>17, <3>1 DEF NamesLive, Live
    <3> QED BY <1>9, <1>15, <3>2
  <2>3. \A x \in first \cup N : x.type = "free" => Releases(TRUE, first \cup N, x)
    BY <1>6, <1>9, <1>15, <1>16 DEF Releases
  <2> QED BY <1>12, <1>13, <1>14, <2>1, <2>2, <2>3, FreeKept, Zenon
<1> QED BY <1>20, <1>21

\* Steps that bring nothing and free nothing.
LEMMA OtherBirth ==
    ASSUME TypeInv, BirthInv, FreeInv,
           \/ handle_bundle_free
           \/ \E i \in Ids : AppReceives(i)
           \/ \E i \in Ids : ExpirationTimer(i) \/ ConsoleExpire(i)
           \/ LifetimeEnds \/ UNCHANGED vars
    PROVE  BirthInv' /\ FreeInv'
<1>1. CASE handle_bundle_free
  <2>1. /\ UNCHANGED <<pending, fwdlog, state, reg>> /\ Handling("free")
        /\ stored' = stored \ {Head(eventq).id}
    BY <1>1 DEF handle_bundle_free
  <2>2. TypeInv' /\ Requeued(1, TRUE, {}, {})
    BY <1>1, FreeType
  <2>3. 1 \in DOMAIN eventq /\ eventq[1] = Head(eventq) /\ eventq[1].type = "free"
    BY <2>1, HeadFacts
  <2>4. (\A i \in InUse' : i \in InUse) /\ (\A i \in Used' : i \in Used)
    BY <2>1 DEF InUse, Used
  <2>5. \A i \in pending' : i \in stored'
    BY <2>1, <2>3 DEF FreeInv, InUse
  <2>6. \A i : i \in Used' => Reach(TRUE, i)
    BY <2>4 DEF Reach
  <2>7. \A i \in InUse' : Live(TRUE, i)
    BY <2>4 DEF Live
  <2> DEFINE none == {}
  <2>8. /\ Requeued(1, TRUE, none, none) /\ 1 \in Int /\ (TRUE => 1 \in DOMAIN eventq)
        /\ \A e \in none \cup none : ~Brings(e) /\ e.list = <<>> /\ Reach(TRUE, e.id)
        /\ \A e \in none \cup none : e.type # "free" => NamesLive(TRUE, e)
        /\ \A e \in none \cup none : e.type = "free" => Releases(TRUE, none \cup none, e)
    <3>1. Requeued(1, TRUE, none, none)
      BY <2>2, Zenon
    <3>2. \A e : e \notin none \cup none
      OBVIOUS
    <3>3. 1 \in Int
      OBVIOUS
    <3> HIDE DEF none
    <3> QED BY <2>3, <3>1, <3>2, <3>3, Zenon
  <2>9. state' # NoState => state'.bundle = state.bundle
    BY <2>1
  <2> HIDE DEF none
  <2>10. BirthInv'
    BY <2>2, <2>6, <2>8, <2>9, NothingBorn, Zenon
  <2>11. FreeInv'
    BY <2>5, <2>7, <2>8, FreeKept, Zenon
  <2> QED BY <2>10, <2>11
<1>2. ASSUME NEW i \in Ids, NEW s \in Int, NEW first, NEW new,
             TypeInv', Requeued(s, FALSE, first, new), i \in InUse,
             UNCHANGED <<pending, stored, fwdlog, state>>,
             \A j \in InUse' : j \in InUse,
             \A e \in first \cup new : e.id = i /\ e.list = <<>> /\ ~Brings(e)
                                           /\ e.type # "free"
      PROVE  BirthInv' /\ FreeInv'
  <2>1. \A j : j \in Used' => Reach(FALSE, j)
    BY <1>2 DEF Used, Reach
  <2>2. \A j \in InUse' : Live(FALSE, j)
    BY <1>2 DEF Live
  <2>3. \A e \in first \cup new : ~Brings(e) /\ e.list = <<>> /\ Reach(FALSE, e.id)
    BY <1>2 DEF Reach, Used
  <2>4. \A e \in first \cup new : e.type # "free" => NamesLive(FALSE, e)
    <3>1. ASSUME NEW e \in first \cup new, NEW j, NamedBy(e, j) PROVE Live(FALSE, j)
      <4>1. e.id = i /\ e.list = <<>>
        BY <1>2
      <4>2. j = i
        BY <3>1, <4>1 DEF NamedBy, InList
      <4> QED BY <1>2, <4>2 DEF Live
    <3> QED BY <3>1 DEF NamesLive
  <2>5. \A e \in first \cup new : e.type = "free" => Releases(FALSE, first \cup new, e)
    BY <1>2
  <2>6. \A j \in pending' : j \in stored'
    BY <1>2 DEF FreeInv
  <2>7. state' # NoState => state'.bundle = state.bundle
    BY <1>2
  <2>8. FALSE => 1 \in DOMAIN eventq
    OBVIOUS
  <2>9. BirthInv'
    BY <1>2, <2>1, <2>3, <2>7, <2>8, NothingBorn, Zenon
  <2>10. FreeInv'
    BY <1>2, <2>2, <2>4, <2>5, <2>6, <2>8, FreeKept, Zenon
  <2> QED BY <2>9, <2>10
<1>3. ASSUME NEW i \in Ids, AppReceives(i)
      PROVE  BirthInv' /\ FreeInv'
  <2> DEFINE e == Post("delivered", i)
             first == {}
             new == {e}
  <2>1. /\ UNCHANGED <<pending, stored, fwdlog, state>> /\ i \in reg.queued
        /\ reg' = [queued |-> reg.queued \ {i}, out |-> reg.out \cup {i}]
    BY <1>3 DEF AppReceives
  <2>2. TypeInv' /\ Requeued(0, FALSE, first, new)
    BY <1>3, AppReceivesType
  <2>3. \A x \in first \cup new : /\ x.id = i /\ x.list = <<>> /\ ~Brings(x)
                                  /\ x.type # "free"
    BY DEF Post, Event, Brings
  <2>4. reg'.queued \subseteq reg.queued /\ reg'.out = reg.out \cup {i}
    BY <2>1
  <2>5. i \in InUse /\ \A j \in InUse' : j \in InUse
    BY <2>1, <2>4 DEF InUse
  <2>6. 0 \in Int
    OBVIOUS
  <2> HIDE DEF first, new
  <2> QED BY <1>2, <2>1, <2>2, <2>3, <2>5, <2>6
<1>4. ASSUME NEW i \in Ids, ExpirationTimer(i) \/ ConsoleExpire(i)
      PROVE  BirthInv' /\ FreeInv'
  <2> DEFINE e == Post("expired", i)
             first == {e}
             new == {}
  <2>1. UNCHANGED <<pending, stored, fwdlog, state, reg>>
    BY <1>4 DEF ExpirationTimer, ConsoleExpire
  <2>2. TypeInv' /\ i \in pending /\ Requeued(-1, FALSE, first, new)
    BY <1>4, ExpiredType
  <2>3. \A x \in first \cup new : /\ x.id = i /\ x.list = <<>> /\ ~Brings(x)
                                  /\ x.type # "free"
    BY DEF Post, Event, Brings
  <2>4. i \in InUse /\ \A j \in InUse' : j \in InUse
    BY <2>1, <2>2 DEF InUse
  <2>5. -1 \in Int
    OBVIOUS
  <2> HIDE DEF first, new
  <2> QED BY <1>2, <2>1, <2>2, <2>3, <2>4, <2>5
<1>5. CASE LifetimeEnds \/ UNCHANGED vars
  <2>1. UNCHANGED <<pending, stored, fwdlog, state, reg, eventq>>
    BY <1>5 DEF LifetimeEnds, vars
  <2>2. Used' = Used /\ InUse' = InUse
    BY <2>1 DEF Used, InUse
  <2> QED BY <2>1, <2>2 DEF BirthInv, FreeInv
<1> QED BY <1>1, <1>3, <1>4, <1>5

\* A restart.
LEMMA CrashBirth ==
    ASSUME TypeInv, Crash
    PROVE  BirthInv' /\ FreeInv'
<1>1. pending' = {} /\ state' = NoState
  BY DEF Crash
<1>2. \A k \in DOMAIN eventq' : \E i \in stored : eventq'[k] = Received(i, "store")
  BY CrashType
<1>3. \A k \in DOMAIN eventq' : /\ ~Brings(eventq'[k]) /\ eventq'[k].list = <<>>
                                /\ eventq'[k].type = "received"
  BY <1>2 DEF Received, Event, Brings
<1> QED BY <1>1, <1>3 DEF BirthInv, FreeInv

\* A transfer arrives with a number that nothing has.
LEMMA ArriveBirth ==
    ASSUME TypeInv, DataInv, BirthInv, FreeInv,
           NEW s \in Sent, NEW rcvd \in 0 .. s.len, Arrive(s, rcvd)
    PROVE  BirthInv' /\ FreeInv'
<1> DEFINE w == Len(bundles) + 1
           e == Received(w, "peer")
<1>1. UNCHANGED <<pending, stored, fwdlog, state, reg>> /\ eventq' = Append(eventq, e)
  BY DEF Arrive
<1>2. TypeInv' /\ Requeued(0, FALSE, {}, {e})
  BY ArriveType
<1>3. Used' = Used /\ InUse' = InUse
  BY <1>1 DEF Used, InUse
<1>4. w \notin Used /\ \A m \in DOMAIN eventq : ~NamedBy(eventq[m], w)
  BY NewNumber
<1>5. /\ DOMAIN eventq = 1 .. Len(eventq) /\ Len(eventq) \in Nat
      /\ DOMAIN eventq' = 1 .. Len(eventq) + 1
      /\ eventq'[Len(eventq) + 1] = e
      /\ \A k \in DOMAIN eventq : eventq'[k] = eventq[k]
  <2> DEFINE E == EventSet(Len(bundles'))
  <2>1. eventq \in Seq(EventSet(Len(bundles)))
    BY TypeFacts
  <2> HIDE DEF e
  <2> QED BY <1>1, <2>1
<1>6. e.id = w /\ e.list = <<>> /\ e.type = "received"
  BY DEF Received, Event
<1> HIDE DEF w, e
<1>7. \A i : NamedBy(e, i) => i = w
  BY <1>6 DEF NamedBy, InList
<1>8. ~InList(e.list, w)
  BY <1>6 DEF InList
<1>9. w # state.bundle \/ state = NoState
  <2>1. state # NoState => state.bundle \in 1 .. Len(bundles) /\ Len(bundles) \in Nat
    BY TypeFacts
  <2> QED BY <2>1 DEF w
<1>10. BirthInv'
  <2>1. ASSUME NEW k \in DOMAIN eventq', Brings(eventq'[k])
        PROVE  /\ eventq'[k].id \notin Used'
               /\ ~InList(eventq'[k].list, eventq'[k].id)
               /\ \A l \in DOMAIN eventq' : l # k => ~NamedBy(eventq'[l], eventq'[k].id)
    <3>1. CASE k \in DOMAIN eventq
      <4>1. /\ eventq'[k] = eventq[k] /\ eventq[k].id \notin Used
            /\ ~InList(eventq[k].list, eventq[k].id)
            /\ \A l \in DOMAIN eventq : l # k => ~NamedBy(eventq[l], eventq[k].id)
        BY <1>5, <2>1, <3>1 DEF BirthInv
      <4>2. eventq[k].id # w
        BY <1>4, <3>1 DEF NamedBy
      <4>3. \A l \in DOMAIN eventq' : l \in DOMAIN eventq \/ eventq'[l] = e
        BY <1>5
      <4> QED BY <1>3, <1>5, <1>7, <4>1, <4>2, <4>3
    <3>2. CASE k = Len(eventq) + 1
      <4>1. eventq'[k] = e
        BY <1>5, <3>2
      <4>2. \A l \in DOMAIN eventq' : l # k => l \in DOMAIN eventq
        BY <1>5, <3>2
      <4> QED BY <1>3, <1>4, <1>5, <1>6, <1>8, <4>1, <4>2
    <3> QED BY <1>5, <3>1, <3>2
  <2>2. ASSUME state' # NoState
        PROVE  /\ state'.bundle \notin Used'
               /\ \A l \in DOMAIN eventq' : ~NamedBy(eventq'[l], state'.bundle)
    <3>1. /\ state.bundle \notin Used
          /\ \A l \in DOMAIN eventq : ~NamedBy(eventq[l], state.bundle)
      BY <1>1, <2>2 DEF BirthInv
    <3>2. \A l \in DOMAIN eventq' : l \in DOMAIN eventq \/ eventq'[l] = e
      BY <1>5
    <3> QED BY <1>1, <1>3, <1>5, <1>7, <1>9, <2>2, <3>1, <3>2
  <2>3. ASSUME NEW k \in DOMAIN eventq', eventq'[k].type # "completed"
        PROVE  eventq'[k].list = <<>>
    <3>1. k \in DOMAIN eventq \/ eventq'[k] = e
      BY <1>5
    <3> QED BY <1>5, <1>6, <2>3, <3>1 DEF BirthInv
  <2> QED BY <2>1, <2>2, <2>3 DEF BirthInv
<1>11. FreeInv'
  <2> DEFINE first == {}
             new == {e}
  <2>1. \A j \in pending' : j \in stored'
    BY <1>1 DEF FreeInv
  <2>2. \A j \in InUse' : Live(FALSE, j)
    BY <1>3 DEF Live
  <2>3. NamesLive(FALSE, e) /\ e.type # "free"
    BY <1>4, <1>6, <1>7 DEF NamesLive, NamedBy
  <2>4. /\ \A x \in first \cup new : x.type # "free" => NamesLive(FALSE, x)
        /\ \A x \in first \cup new : x.type = "free" => Releases(FALSE, first \cup new, x)
        /\ Requeued(0, FALSE, first, new) /\ (FALSE => 1 \in DOMAIN eventq)
    BY <1>2, <2>3
  <2> HIDE DEF first, new
  <2> QED BY <2>1, <2>2, <2>4, FreeKept, Zenon
<1> QED BY <1>10, <1>11

----------------------------------------------------------------------------
(* The data store.                                                         *)

\* What has been disturbed stays disturbed: a delivery is not forgotten.
LEMMA UndisturbedBefore ==
    ASSUME TypeInv, BirthInv, [Next]_vars, Undisturbed'
    PROVE  Undisturbed
<1>1. fwdlog \in [Ids -> Log] /\ over \in BOOLEAN /\ console \in 0 .. 1
  BY TypeFacts, FlagFacts
<1>2. ~over' /\ console' = 0 /\ \A i \in Ids : fwdlog'[i] # "DELIVERED"
  BY DEF Undisturbed
<1>3. /\ over' = over \/ over' = TRUE
      /\ console' = console \/ console' = 1
      /\ \/ fwdlog' = fwdlog
         \/ handle_whole_received \/ handle_deliver_bundle_to_reg
  <2>1. CASE \/ handle_duplicate \/ handle_delivered_gone \/ handle_too_late
             \/ handle_fragment_reloaded \/ handle_fragment_received
    BY <2>1 DEF handle_duplicate, handle_delivered_gone, handle_too_late,
                handle_fragment_reloaded, handle_fragment_received
  <2>2. CASE \/ handle_whole_received \/ handle_deliver_bundle_to_reg
    BY <2>2 DEF handle_whole_received, handle_deliver_bundle_to_reg
  <2>3. CASE \/ handle_whole_reloaded \/ handle_reassembly_completed
             \/ handle_deletion \/ handle_bundle_free
    BY <2>3 DEF handle_whole_reloaded, handle_reassembly_completed,
                handle_deletion, handle_bundle_free
  <2>4. CASE \E s \in Sent : \E rcvd \in 0 .. s.len : Arrive(s, rcvd)
    BY <2>4 DEF Arrive
  <2>5. CASE \E i \in Ids : AppReceives(i)
    BY <2>5 DEF AppReceives
  <2>6. CASE \E i \in Ids : ExpirationTimer(i) \/ ConsoleExpire(i)
    BY <2>6 DEF ExpirationTimer, ConsoleExpire
  <2>7. CASE LifetimeEnds \/ UNCHANGED vars \/ Crash
    BY <2>7 DEF LifetimeEnds, vars, Crash
  <2> QED BY <2>1, <2>2, <2>3, <2>4, <2>5, <2>6, <2>7, StepCases
<1>4. ~over /\ console = 0
  BY <1>2, <1>3
<1>5. \A i \in Ids : fwdlog[i] # "DELIVERED"
  <2>1. CASE fwdlog' = fwdlog
    BY <1>2, <2>1
  <2>2. CASE handle_whole_received
    <3> DEFINE h == Head(eventq).id
    <3>1. /\ Handling("received") /\ Head(eventq).src # "store"
          /\ fwdlog' = [fwdlog EXCEPT ![h] = "PENDING_DELIVERY"]
      BY <2>2 DEF handle_whole_received
    <3>2. 1 \in DOMAIN eventq /\ eventq[1] = Head(eventq) /\ Brings(eventq[1]) /\ h \in Ids
      BY <3>1, HeadFacts DEF Brings
    <3>3. fwdlog[h] = "none"
      BY <3>2 DEF BirthInv, Used
    <3> HIDE DEF h
    <3> QED BY <1>1, <1>2, <3>1, <3>3
  <2>3. CASE handle_deliver_bundle_to_reg
    <3> DEFINE h == Head(eventq).id
    <3>1. fwdlog' = [fwdlog EXCEPT ![h] = "DELIVERED"] \/ fwdlog' = fwdlog
      BY <2>3 DEF handle_deliver_bundle_to_reg
    <3> HIDE DEF h
    <3> QED BY <1>1, <1>2, <3>1
  <2> QED BY <1>3, <2>1, <2>2, <2>3
<1> QED BY <1>4, <1>5 DEF Undisturbed

\* A step is safe if its events are fine, and those it leaves in the queue.
LEMMA SafeKept ==
    ASSUME Safe, NEW s, NEW gone, NEW first, NEW new, Requeued(s, gone, first, new),
           \A i \in stored' :
               i \in InUse' \/ \E l \in DOMAIN eventq' : NamedBy(eventq'[l], i),
           reg'.queued = {} /\ reg'.out = {},
           \A e \in first \cup new : FineEvent(e)',
           \A e \in new : ~IsFromFrag(e),
           \A m \in DOMAIN eventq : \A e :
               e = eventq[m] /\ ~(gone /\ m = 1) => /\ FineEvent(e)'
                                                    /\ IsFromFrag(e) => m - s = 1,
           DOMAIN eventq' \subseteq Int, s \in Int
    PROVE  Safe'
<1>1. ASSUME NEW k \in DOMAIN eventq', NEW e, e = eventq'[k]
      PROVE  FineEvent(e)' /\ (IsFromFrag(e) => k = 1)
  <2>1. CASE k = 1 /\ e \in first
    BY <2>1
  <2>2. CASE k + s \in DOMAIN eventq /\ ~(gone /\ k + s = 1) /\ e = eventq[k + s]
    <3>1. FineEvent(e)' /\ (IsFromFrag(e) => (k + s) - s = 1)
      BY <2>2
    <3> QED BY <3>1
  <2>3. CASE e \in new
    BY <2>3
  <2> QED BY <1>1, <2>1, <2>2, <2>3 DEF Requeued
<1>2. \A k \in DOMAIN eventq' : FineEvent(eventq[k])' /\ (IsFromFrag(eventq'[k]) => k = 1)
  BY <1>1 DEF FineEvent, Kept, HasWhole
<1> QED BY <1>2 DEF Safe

\* The events of a handler, and those it leaves in the queue, are fine.
AllFine(first, new) ==
    /\ \A e \in first \cup new : FineEvent(e)'
    /\ \A e \in new : ~IsFromFrag(e)
    /\ \A m \in DOMAIN eventq : \A e : e = eventq[m] /\ m # 1 => FineEvent(e)'

\* What it stores is pending, and it delivers nothing.
JustStores ==
    /\ \A i \in stored' : i \in stored \/ i \in pending'
    /\ reg'.queued = {} /\ reg'.out = {}

\* The same for a handler, which frees what it leaves without a reference.
LEMMA SafeHandled ==
    ASSUME TypeInv, TypeInv', Safe, NEW q, NEW own, Left(q, own),
           NEW s \in Int, NEW first, NEW new, Requeued(s, TRUE, first, new),
           own \cup FreeEvents(Unreferenced(q)) \subseteq first \cup new,
           AllFine(first, new), JustStores
    PROVE  Safe'
<1>1. \A i \in stored' :
          i \in InUse' \/ \E l \in DOMAIN eventq' : NamedBy(eventq'[l], i)
  <2>1. \A i \in stored :
            i \in InUse' \/ \E l \in DOMAIN eventq' : NamedBy(eventq'[l], i)
    BY JustFreed
  <2>2. pending' \subseteq InUse'
    BY DEF InUse
  <2> QED BY <2>1, <2>2 DEF JustStores
<1>2. \A m \in DOMAIN eventq : \A e :
          e = eventq[m] /\ ~(TRUE /\ m = 1) => /\ FineEvent(e)'
                                               /\ IsFromFrag(e) => m - s = 1
  BY DEF Safe, AllFine
<1>3. DOMAIN eventq' \subseteq Int
  BY Positions
<1>4. /\ reg'.queued = {} /\ reg'.out = {}
      /\ \A e \in first \cup new : FineEvent(e)'
      /\ \A e \in new : ~IsFromFrag(e)
  BY DEF AllFine, JustStores
<1> QED BY <1>1, <1>2, <1>3, <1>4, SafeKept

\* Once a whole bundle is pending, everything is kept.
LEMMA WholeFine ==
    ASSUME TypeInv', DataInv', HasWhole', NEW e, e.id \in 1 .. Len(bundles'),
           e.type \notin {"delivered", "expired"},
           e.type = "deliver" => e.id \in pending'
    PROVE  FineEvent(e)'
<1>1. PICK i \in pending' : ~bundles'[i].frag
  BY DEF HasWhole
<1>2. bundles'[i].data = Bytes
  BY <1>1 DEF DataInv, Sound
<1>3. bundles'[e.id].data \subseteq Bytes
  <2>1. bundles' \in Seq(BundleRecord)
    BY DEF TypeInv, TypeOK, BundleRecord
  <2>2. bundles'[e.id] \in BundleRecord
    BY <2>1
  <2> QED BY <2>2 DEF BundleRecord
<1>4. Kept(e.id)'
  BY <1>2, <1>3 DEF Kept
<1> QED BY <1>4 DEF FineEvent

\* A whole bundle.
LEMMA WholeSafe ==
    ASSUME TypeInv, DataInv, DataInv', Undisturbed, Safe,
           handle_whole_received \/ handle_whole_reloaded
    PROVE  Safe'
<1> DEFINE h == Head(eventq).id
<1>1. /\ Handling("received") /\ add_to_pending(h) /\ UNCHANGED bundles /\ ~bundles[h].frag
  BY DEF handle_whole_received, handle_whole_reloaded
<1>2. TypeInv' /\ eventq # <<>>
  BY WholeType
<1>3. PICK q, D : /\ D \subseteq {Post("deliver", h)}
                  /\ Extended(Tail(eventq), q, Obsoleted \cup D)
                  /\ Requeued(1, TRUE, {}, (Obsoleted \cup D)
                                              \cup FreeEvents(Unreferenced(q)))
  BY WholeType
<1>4. Left(q, Obsoleted \cup D)
  BY <1>2, <1>3, ExtendedLeft
<1>5. h \in 1 .. Len(bundles) /\ h \in Ids /\ fwdlog[h] # "DELIVERED"
  BY <1>1, HeadFacts DEF Undisturbed
<1>6. pending' = pending \cup {h} /\ stored' = stored \cup {h} /\ reg' = reg
  BY <1>1, <1>5 DEF add_to_pending
<1>7. HasWhole'
  BY <1>1, <1>6 DEF HasWhole
<1> DEFINE own == Obsoleted \cup D
           new == own \cup FreeEvents(Unreferenced(q))
           first == {}
<1>8. ASSUME NEW e \in first \cup new
      PROVE  FineEvent(e)' /\ ~IsFromFrag(e)
  <2>1. CASE e \in Obsoleted
    <3>1. PICK k \in DOMAIN state.list : e = Post("delete", state.list[k])
      BY <2>1 DEF Obsoleted
    <3>2. e.type = "delete"
      BY <3>1 DEF Post, Event
    <3> HIDE DEF h
    <3> QED BY <1>7, <3>2 DEF FineEvent, IsFromFrag
  <2>2. CASE e \in D
    <3>1. e.type = "deliver" /\ e.id = h
      BY <1>3, <2>2 DEF Post, Event
    <3> HIDE DEF h
    <3> QED BY <1>6, <3>1 DEF FineEvent, IsFromFrag
  <2>3. CASE e \in FreeEvents(Unreferenced(q))
    <3>1. e.type = "free" /\ e.id \in stored
      BY <2>3, FreeNames
    <3>2. e.id \in 1 .. Len(bundles')
      BY <1>1, <3>1, TypeFacts
    <3> QED BY <1>2, <1>7, <3>1, <3>2, WholeFine DEF IsFromFrag
  <2> QED BY <1>8, <2>1, <2>2, <2>3
<1>9. ASSUME NEW m \in DOMAIN eventq, NEW e, e = eventq[m], m # 1
      PROVE  FineEvent(e)'
  <2>1. FineEvent(e)
    BY <1>9 DEF Safe
  <2>2. e.id \in 1 .. Len(bundles')
    <3>1. eventq[m] \in EventSet(Len(bundles))
      BY TypeFacts
    <3> QED BY <1>1, <1>9, <3>1 DEF EventSet
  <2> QED BY <1>2, <1>6, <1>7, <2>1, <2>2, WholeFine DEF FineEvent
<1>10. reg'.queued = {} /\ reg'.out = {}
  BY <1>6 DEF Safe
<1>11. \A i \in stored' : i \in stored \/ i \in pending'
  BY <1>6
<1>12. Requeued(1, TRUE, first, new)
  BY <1>3, Zenon
<1>13. Left(q, own)
  BY <1>4
<1>14. own \cup FreeEvents(Unreferenced(q)) \subseteq first \cup new /\ 1 \in Int
  OBVIOUS
<1> HIDE DEF first, new, own
<1>15. AllFine(first, new)
  BY <1>8, <1>9 DEF AllFine
<1>16. JustStores
  BY <1>10, <1>11 DEF JustStores
<1> QED BY <1>2, <1>12, <1>13, <1>14, <1>15, <1>16, SafeHandled

\* The deletion of a fragment.
LEMMA DeletionSafe ==
    ASSUME TypeInv, DataInv, DataInv', Safe, handle_deletion
    PROVE  Safe'
<1> DEFINE h == Head(eventq).id
           q == Tail(eventq)
           own == {}
           first == {}
           new == FreeEvents(Unreferenced(q))
<1>1. /\ UNCHANGED <<bundles, stored, fwdlog>> /\ delete_bundle({h})
      /\ Handling("delivered") \/ Handling("delete") \/ Handling("expired")
  BY DEF handle_deletion
<1>2. TypeInv' /\ eventq # <<>> /\ Requeued(1, TRUE, first, new)
  BY DeletionType
<1>3. Left(q, own)
  BY <1>2, TailLeft
<1>4. 1 \in DOMAIN eventq /\ eventq[1] = Head(eventq) /\ h \in 1 .. Len(bundles)
      /\ eventq[1].type \in {"delivered", "delete", "expired"}
  BY <1>1, HeadFacts
<1>5. eventq[1].type = "delete" /\ HasWhole
  BY <1>4 DEF Safe, FineEvent
<1>6. bundles[h].frag
  BY <1>4, <1>5, DataFacts DEF EventSound
<1>7. /\ pending' = pending \ {h} /\ reg'.queued \subseteq reg.queued
      /\ reg'.out \subseteq reg.out
  BY <1>1, DeleteBundleFacts
<1> HIDE DEF h
<1>8. HasWhole'
  BY <1>1, <1>5, <1>6, <1>7 DEF HasWhole
<1>9. ASSUME NEW e \in first \cup new
      PROVE  FineEvent(e)' /\ ~IsFromFrag(e)
  <2>1. e.type = "free" /\ e.id \in stored
    BY <1>9, FreeNames
  <2>2. e.id \in 1 .. Len(bundles')
    BY <1>1, <2>1, TypeFacts
  <2> QED BY <1>2, <1>8, <2>1, <2>2, WholeFine DEF IsFromFrag
<1>10. ASSUME NEW m \in DOMAIN eventq, NEW e, e = eventq[m], m # 1
       PROVE  FineEvent(e)'
  <2>1. FineEvent(e) /\ EventSound(bundles, e)
    BY <1>10, DataFacts DEF Safe
  <2>2. e.id \in 1 .. Len(bundles')
    <3>1. eventq[m] \in EventSet(Len(bundles))
      BY TypeFacts
    <3> QED BY <1>1, <1>10, <3>1 DEF EventSet
  <2>3. e.type = "deliver" => e.id \in pending'
    BY <1>6, <1>7, <2>1 DEF FineEvent, EventSound
  <2> QED BY <1>2, <1>8, <2>1, <2>2, <2>3, WholeFine DEF FineEvent
<1>11. reg'.queued = {} /\ reg'.out = {}
  BY <1>7 DEF Safe
<1>12. \A i \in stored' : i \in stored \/ i \in pending'
  BY <1>1
<1>13. own \cup FreeEvents(Unreferenced(q)) \subseteq first \cup new /\ 1 \in Int
  OBVIOUS
<1> HIDE DEF first, new, own, q
<1>14. AllFine(first, new)
  BY <1>9, <1>10 DEF AllFine
<1>15. JustStores
  BY <1>11, <1>12 DEF JustStores
<1> QED BY <1>2, <1>3, <1>13, <1>14, <1>15, SafeHandled

\* The end of a reassembly: the bundle is next in the queue.
LEMMA CompletedSafe ==
    ASSUME TypeInv, DataInv, Safe, handle_reassembly_completed
    PROVE  Safe'
<1> DEFINE h == Head(eventq).id
           e0 == Received(h, "frag")
           q == <<e0>> \o Tail(eventq)
           own == {e0}
           first == {e0}
           new == FreeEvents(Unreferenced(q))
<1>1. /\ UNCHANGED <<bundles, stored>> /\ Handling("completed")
      /\ delete_bundle(Range(Head(eventq).list))
  BY DEF handle_reassembly_completed
<1>2. TypeInv' /\ eventq # <<>> /\ Requeued(0, TRUE, first, new)
  BY CompletedType
<1>3. /\ h \in 1 .. Len(bundles) /\ eventq[1] = Head(eventq) /\ 1 \in DOMAIN eventq
      /\ eventq[1].type = "completed"
  BY <1>1, HeadFacts
<1>4. Left(q, own)
  <2>1. Len(bundles) \in Nat /\ Len(bundles) <= Len(bundles)
    BY TypeFacts
  <2>2. e0 \in EventSet(Len(bundles))
    BY <1>3 DEF Received, Event, EventSet, EventTypes
  <2> HIDE DEF e0
  <2> QED BY <1>2, <2>1, <2>2, PushedLeft
<1>5. e0.type = "received" /\ e0.src = "frag"
  BY DEF Received, Event
<1>6. /\ pending' = pending \ Range(Head(eventq).list)
      /\ reg'.queued \subseteq reg.queued /\ reg'.out \subseteq reg.out
  BY <1>1, DeleteBundleFacts
<1>7. \A i \in Range(Head(eventq).list) : bundles[i].frag
  <2>1. EventSound(bundles, eventq[1])
    BY <1>3, DataFacts
  <2> QED BY <1>3, <2>1 DEF EventSound, Range
<1> HIDE DEF h, e0
<1>8. \E l \in DOMAIN eventq' : eventq'[l].type = "received" /\ eventq'[l].src = "frag"
  <2>1. PICK l \in DOMAIN eventq' : eventq'[l] = e0
    BY <1>2 DEF Requeued
  <2> QED BY <1>5, <2>1
<1>9. \A i : Kept(i)'
  BY <1>8 DEF Kept
<1>10. ASSUME NEW e \in first \cup new
       PROVE  FineEvent(e)' /\ (e \in new => ~IsFromFrag(e))
  <2>1. CASE e = e0
    <3>1. e \notin new
      BY <1>5, <2>1, FreeNames
    <3> QED BY <1>5, <2>1, <3>1 DEF FineEvent
  <2>2. CASE e \in new
    <3>1. e.type = "free"
      BY <2>2, FreeNames
    <3> QED BY <1>9, <3>1 DEF FineEvent, IsFromFrag
  <2> QED BY <1>10, <2>1, <2>2
<1>11. ASSUME NEW m \in DOMAIN eventq, NEW e, e = eventq[m], m # 1
       PROVE  FineEvent(e)'
  <2>1. FineEvent(e) /\ EventSound(bundles, e)
    BY <1>11, DataFacts DEF Safe
  <2>2. e.type = "deliver" => e.id \in pending'
    BY <1>6, <1>7, <2>1 DEF FineEvent, EventSound
  <2>3. e.type = "delete" => HasWhole'
    BY <1>1, <1>6, <1>7, <2>1 DEF FineEvent, HasWhole
  <2> QED BY <1>9, <2>1, <2>2, <2>3 DEF FineEvent
<1>12. reg'.queued = {} /\ reg'.out = {}
  BY <1>6 DEF Safe
<1>13. \A i \in stored' : i \in stored \/ i \in pending'
  BY <1>1
<1>14. own \cup FreeEvents(Unreferenced(q)) \subseteq first \cup new /\ 0 \in Int
  OBVIOUS
<1> HIDE DEF first, new, own, q
<1>15. AllFine(first, new)
  BY <1>10, <1>11 DEF AllFine
<1>16. JustStores
  BY <1>12, <1>13 DEF JustStores
<1> QED BY <1>2, <1>4, <1>14, <1>15, <1>16, SafeHandled

\* A handler after which what was in use is in use frees at most the bundle of
\* its own event.
LEMMA OnlyOwnFreed ==
    ASSUME BirthInv, Safe, 1 \in DOMAIN eventq, eventq[1].type # "completed",
           NEW q, NEW own, Left(q, own), NEW s, NEW first, NEW new,
           Requeued(s, TRUE, first, new),
           own \cup FreeEvents(Unreferenced(q)) \subseteq first \cup new,
           \A i \in InUse : i \in InUse'
    PROVE  \A i \in Unreferenced(q) : i = eventq[1].id /\ i \notin InUse'
<1> SUFFICES ASSUME NEW i \in Unreferenced(q)
             PROVE  i = eventq[1].id /\ i \notin InUse'
  OBVIOUS
<1>1. i \notin InUse' /\ \A m \in DOMAIN eventq : m # 1 => ~NamedBy(eventq[m], i)
  BY JustFreed
<1>2. i \in stored
  BY DEF Unreferenced
<1>3. PICK l \in DOMAIN eventq : NamedBy(eventq[l], i)
  BY <1>1, <1>2 DEF Safe
<1>4. l = 1 /\ eventq[1].list = <<>>
  BY <1>1, <1>3 DEF BirthInv
<1> QED BY <1>1, <1>3, <1>4 DEF NamedBy, InList

\* The data of a bundle is in the pending bundles after the step.
CoveredThen(i) == \A p \in bundles'[i].data : \E j \in pending' : p \in bundles'[j].data

\* A handler that deletes nothing and leaves the bundles that the queue names
\* as they are.
Adds ==
    /\ \A i \in pending : i \in pending' /\ bundles'[i].frag = bundles[i].frag
                          /\ bundles[i].data \subseteq bundles'[i].data
    /\ \A i \in InUse : i \in InUse'
    /\ reg' = reg
    /\ \A m \in DOMAIN eventq : bundles'[eventq[m].id].data = bundles[eventq[m].id].data
    /\ CoveredThen(eventq[1].id)
    /\ (eventq[1].type = "received" /\ eventq[1].src = "frag")
           => \A m \in DOMAIN eventq : CoveredThen(eventq[m].id)

\* What it posts: free events, and a completed bundle ahead of the others.
Posts(q, first, new) ==
    /\ \A e \in first : e.type = "completed"
    /\ \A e \in new : e \in FreeEvents(Unreferenced(q))

\* It keeps what is kept.
LEMMA AddingSafe ==
    ASSUME TypeInv, TypeInv', BirthInv, Safe, eventq # <<>>,
           eventq[1].type # "completed",
           NEW q, NEW own, Left(q, own),
           NEW s \in Int, NEW first, NEW new, Requeued(s, TRUE, first, new),
           own \cup FreeEvents(Unreferenced(q)) \subseteq first \cup new,
           \A i \in stored' : i \in stored \/ i \in pending',
           Posts(q, first, new), Adds
    PROVE  Safe'
<1>1. 1 \in DOMAIN eventq
  <2>1. eventq \in Seq(EventSet(Len(bundles)))
    BY TypeFacts
  <2> QED BY <2>1
<1>2. \A i \in Unreferenced(q) : i = eventq[1].id
  BY <1>1, OnlyOwnFreed DEF Adds
<1>3. \A i : CoveredThen(i) => Kept(i)'
  BY DEF Kept, CoveredThen
<1>4. \A e \in new : FineEvent(e)' /\ ~IsFromFrag(e)
  <2> SUFFICES ASSUME NEW e \in new
               PROVE  FineEvent(e)' /\ ~IsFromFrag(e)
    OBVIOUS
  <2>1. e.type = "free" /\ e.id \in Unreferenced(q)
    BY FreeNames DEF Posts
  <2>2. Kept(e.id)'
    BY <1>2, <1>3, <2>1 DEF Adds
  <2> QED BY <2>1, <2>2 DEF FineEvent, IsFromFrag
<1>5. \A e \in first \cup new : FineEvent(e)'
  <2>1. \A e \in first : FineEvent(e)'
    BY DEF FineEvent, Posts
  <2> QED BY <1>4, <2>1
<1>6. ASSUME NEW m \in DOMAIN eventq, NEW e, e = eventq[m], m # 1
      PROVE  FineEvent(e)'
  <2>1. FineEvent(e)
    BY <1>6 DEF Safe
  <2>2. HasWhole => HasWhole'
    BY DEF HasWhole, Adds
  <2>3. ASSUME Kept(e.id) PROVE Kept(e.id)'
    <3>1. CASE \A p \in bundles[e.id].data : \E j \in pending : p \in bundles[j].data
      <4>1. bundles'[e.id].data = bundles[e.id].data
        BY <1>6 DEF Adds
      <4>2. CoveredThen(e.id)
        BY <3>1, <4>1 DEF CoveredThen, Adds
      <4> QED BY <1>3, <4>2
    <3>2. CASE \E l \in DOMAIN eventq : eventq[l].type = "received" /\ eventq[l].src = "frag"
      <4>1. eventq[1].type = "received" /\ eventq[1].src = "frag"
        BY <3>2 DEF Safe, IsFromFrag
      <4>2. CoveredThen(e.id)
        BY <1>6, <4>1 DEF Adds
      <4> QED BY <1>3, <4>2
    <3> QED BY <2>3, <3>1, <3>2 DEF Kept
  <2> QED BY <2>1, <2>2, <2>3 DEF FineEvent, Adds
<1>7. reg'.queued = {} /\ reg'.out = {}
  BY DEF Safe, Adds
<1>8. AllFine(first, new)
  BY <1>4, <1>5, <1>6 DEF AllFine
<1>9. JustStores
  BY <1>7 DEF JustStores
<1> QED BY <1>8, <1>9, SafeHandled

\* Duplicates, reloaded fragments, and deliveries that the cache stops.
LEMMA PlainSafe ==
    ASSUME TypeInv, DataInv, BirthInv, Undisturbed, Undisturbed', Safe,
           handle_duplicate \/ handle_fragment_reloaded \/ handle_deliver_bundle_to_reg
    PROVE  Safe'
<1> DEFINE h == Head(eventq).id
           q == Tail(eventq)
           own == {}
           first == {}
           new == FreeEvents(Unreferenced(q))
<1>1. TypeInv' /\ eventq # <<>> /\ Requeued(1, TRUE, first, new)
  BY DuplicateType, PendingType, DeliverType
<1>2. Left(q, own)
  BY <1>1, TailLeft
<1>3. Handling("received") \/ Handling("deliver")
  BY DEF handle_duplicate, handle_fragment_reloaded, handle_deliver_bundle_to_reg
<1>4. /\ h \in 1 .. Len(bundles) /\ h \in Ids /\ eventq[1] = Head(eventq)
      /\ 1 \in DOMAIN eventq /\ eventq[1].type \in {"received", "deliver"}
  BY <1>3, HeadFacts
<1>5. UNCHANGED <<bundles, state>>
  BY DEF handle_duplicate, handle_fragment_reloaded, handle_deliver_bundle_to_reg
<1>6. ASSUME NEW j \in pending, bundles[h].frag = bundles[j].frag,
             bundles[h].off = bundles[j].off, bundles[h].len = bundles[j].len,
             Sound(bundles, h)
      PROVE  bundles[h].data = bundles[j].data
  <2>1. Sound(bundles, j) /\ j \in 1 .. Len(bundles)
    BY DataFacts, TypeFacts
  <2>2. bundles[h].frag => GoodFragment(bundles, h) /\ GoodFragment(bundles, j)
    BY <1>4, <1>6, <2>1, DataFacts
  <2> QED BY <1>6, <2>1, <2>2 DEF Sound, GoodFragment
<1>7. EventSound(bundles, eventq[1]) /\ Sound(bundles, h)
  BY <1>4, DataFacts DEF EventSound
<1>8. /\ pending' \subseteq pending \cup {h} /\ pending \subseteq pending'
      /\ stored' \subseteq stored \cup {h} /\ (h \in stored' => h \in stored \cup pending')
      /\ reg' = reg
      /\ \/ h \in pending' /\ (eventq[1].type = "received" => eventq[1].src = "store")
         \/ find_duplicate(h)
  <2>1. CASE handle_duplicate
    BY <2>1 DEF handle_duplicate
  <2>2. CASE handle_fragment_reloaded
    <3>1. add_to_pending(h) /\ fwdlog[h] # "DELIVERED" /\ Head(eventq).src = "store"
      BY <1>4, <2>2 DEF handle_fragment_reloaded, Undisturbed
    <3> QED BY <1>4, <3>1 DEF add_to_pending
  <2>3. CASE handle_deliver_bundle_to_reg
    <3> DEFINE give == fwdlog[h] # "DELIVERED" /\ ~cache
    <3>1. /\ UNCHANGED <<state, pending, stored>> /\ Handling("deliver")
          /\ reg' = (IF give THEN [reg EXCEPT !.queued = @ \cup {h}] ELSE reg)
          /\ fwdlog' = (IF give THEN [fwdlog EXCEPT ![h] = "DELIVERED"] ELSE fwdlog)
      BY <2>3 DEF handle_deliver_bundle_to_reg
    <3>2. eventq[1].type = "deliver" /\ fwdlog \in [Ids -> Log]
      BY <1>4, <3>1, TypeFacts DEF Handling
    <3>3. ~give
      BY <1>4, <3>1, <3>2 DEF Undisturbed
    <3>4. h \in pending
      BY <1>4, <3>2 DEF Safe, FineEvent
    <3> HIDE DEF h, give
    <3> QED BY <3>1, <3>2, <3>3, <3>4
  <2> QED BY <2>1, <2>2, <2>3
<1> HIDE DEF h
<1>9. CoveredThen(h)
  BY <1>5, <1>6, <1>7, <1>8 DEF CoveredThen, find_duplicate
<1>10. ASSUME eventq[1].type = "received", eventq[1].src = "frag",
              NEW m \in DOMAIN eventq
       PROVE  CoveredThen(eventq[m].id)
  <2>1. ~bundles[h].frag /\ find_duplicate(h)
    BY <1>4, <1>7, <1>8, <1>10 DEF EventSound, h
  <2>2. PICK j \in pending : ~bundles[j].frag
    BY <2>1 DEF find_duplicate
  <2>3. bundles[j].data = Bytes
    BY <2>2, DataFacts DEF Sound
  <2>4. bundles[eventq[m].id].data \subseteq Bytes
    <3>1. eventq[m] \in EventSet(Len(bundles)) /\ bundles \in Seq(BundleRecord)
      BY TypeFacts
    <3>2. eventq[m].id \in 1 .. Len(bundles)
      BY <3>1 DEF EventSet
    <3>3. bundles[eventq[m].id] \in BundleRecord
      BY <3>1, <3>2
    <3> QED BY <3>3 DEF BundleRecord
  <2> QED BY <1>5, <1>8, <2>3, <2>4 DEF CoveredThen
<1>11. \A i \in InUse : i \in InUse'
  BY <1>5, <1>8 DEF InUse
<1>12. /\ own \cup FreeEvents(Unreferenced(q)) \subseteq first \cup new /\ 1 \in Int
       /\ Posts(q, first, new)
  BY DEF Posts
<1>13. \A i \in pending : i \in pending' /\ bundles'[i].frag = bundles[i].frag
                          /\ bundles[i].data \subseteq bundles'[i].data
  BY <1>5, <1>8
<1>14. \A i \in stored' : i \in stored \/ i \in pending'
  BY <1>8
<1>15. /\ \A m \in DOMAIN eventq : bundles'[eventq[m].id].data = bundles[eventq[m].id].data
       /\ reg' = reg /\ CoveredThen(eventq[1].id) /\ eventq[1].type # "completed"
  BY <1>4, <1>5, <1>8, <1>9 DEF h
<1>16. (eventq[1].type = "received" /\ eventq[1].src = "frag")
           => \A m \in DOMAIN eventq : CoveredThen(eventq[m].id)
  BY <1>10
<1>17. Adds /\ eventq[1].type # "completed"
  BY <1>11, <1>13, <1>15, <1>16 DEF Adds
<1> HIDE DEF first, new, own, q
<1> QED BY <1>1, <1>2, <1>12, <1>14, <1>17, AddingSafe

\* A fragment from a peer.
LEMMA FragmentSafe ==
    ASSUME TypeInv, DataInv, StateInv, BirthInv, Safe, handle_fragment_received
    PROVE  Safe'
<1> DEFINE i == Head(eventq).id
           list == add_fragment(state.list, i)
<1>1. /\ Handling("received") /\ eventq[1] = Head(eventq) /\ 1 \in DOMAIN eventq
      /\ i \in 1 .. Len(bundles) /\ bundles[i].frag /\ Head(eventq).src = "peer"
      /\ pending' = pending \cup {i} /\ stored' = stored \cup {i} /\ reg' = reg
  BY FragmentFacts
<1>2. TypeInv' /\ eventq # <<>> /\ eventq[1].type = "received" /\ eventq[1].id = i
  BY <1>1, FragmentType, HeadFacts
<1>3. PICK w :
        /\ CopiedInto(w, i)
        /\ \/ /\ check_completed(list)
              /\ state' = NoState
              /\ Requeued(0, TRUE, {CompletedEvent(w, i)},
                     FreeEvents(Unreferenced(AfterFragment(w, i))))
           \/ /\ ~check_completed(list)
              /\ state' = [bundle |-> w, list |-> list]
              /\ Requeued(1, TRUE, {},
                     FreeEvents(Unreferenced(AfterFragment(w, i))))
  BY FragmentType
<1> DEFINE q == AfterFragment(w, i)
           new == FreeEvents(Unreferenced(q))
           e == CompletedEvent(w, i)
           first == IF check_completed(list) THEN {e} ELSE {}
           s == IF check_completed(list) THEN 0 ELSE 1
<1>4. w \notin Used /\ \A m \in DOMAIN eventq : ~NamedBy(eventq[m], w)
  BY <1>3, CopyAlone
<1>5. Left(q, first)
  BY <1>3, FragmentLeft
<1>6. Requeued(s, TRUE, first, new) /\ s \in Int
  <2>1. CASE check_completed(list)
    <3>1. s = 0 /\ first = {e}
      BY <2>1
    <3>2. Requeued(0, TRUE, {e}, new)
      BY <1>3, <2>1
    <3>3. s \in Int
      BY <3>1
    <3> HIDE DEF s, first, e, new
    <3> QED BY <3>1, <3>2, <3>3, Zenon
  <2>2. CASE ~check_completed(list)
    <3>1. s = 1 /\ first = {}
      BY <2>2
    <3>2. Requeued(1, TRUE, {}, new)
      BY <1>3, <2>2
    <3>3. s \in Int
      BY <3>1
    <3> HIDE DEF s, first, e, new
    <3> QED BY <3>1, <3>2, <3>3, Zenon
  <2> QED BY <2>1, <2>2
<1>7. Posts(q, first, new)
  <2>1. e.type = "completed"
    BY DEF CompletedEvent, Event
  <2> HIDE DEF e
  <2> QED BY <2>1 DEF Posts
<1>8. \A j \in 1 .. Len(bundles) : j # w => bundles'[j] = bundles[j]
  BY <1>3 DEF CopiedInto
<1> HIDE DEF i
<1>9. \A j \in pending : j \in pending' /\ bundles'[j].frag = bundles[j].frag
                         /\ bundles[j].data \subseteq bundles'[j].data
  <2>1. \A j \in pending : j # w /\ j \in 1 .. Len(bundles)
    BY <1>4, TypeFacts DEF Used, InUse
  <2> QED BY <1>1, <1>8, <2>1
<1>10. \A j \in InUse : j \in InUse'
  <2>1. \A j \in Range(state.list) : j \in pending
    BY DEF StateInv, Range
  <2> QED BY <1>1, <2>1 DEF InUse
<1>11. \A m \in DOMAIN eventq : bundles'[eventq[m].id].data = bundles[eventq[m].id].data
  <2>1. \A m \in DOMAIN eventq : eventq[m].id # w /\ eventq[m].id \in 1 .. Len(bundles)
    <3>1. \A m \in DOMAIN eventq : eventq[m] \in EventSet(Len(bundles))
      BY TypeFacts
    <3> QED BY <1>4, <3>1 DEF NamedBy, EventSet
  <2> QED BY <1>8, <2>1
<1>12. Adds
  <2>1. CoveredThen(eventq[1].id)
    BY <1>1, <1>2 DEF CoveredThen
  <2> QED BY <1>1, <1>9, <1>10, <1>11, <2>1 DEF Adds
<1>13. \A j \in stored' : j \in stored \/ j \in pending'
  BY <1>1
<1>14. first \cup FreeEvents(Unreferenced(q)) \subseteq first \cup new
  OBVIOUS
<1>15. eventq[1].type # "completed"
  BY <1>2
<1> HIDE DEF first, new, q, s
<1> QED BY <1>2, <1>5, <1>6, <1>7, <1>12, <1>13, <1>14, <1>15, AddingSafe

\* A bundle leaves the store.
LEMMA FreeSafe ==
    ASSUME TypeInv, BirthInv, Safe, handle_bundle_free
    PROVE  Safe'
<1> DEFINE h == Head(eventq).id
           none == {}
<1>1. /\ UNCHANGED <<bundles, pending, state, reg>> /\ Handling("free")
      /\ stored' = stored \ {h}
  BY DEF handle_bundle_free
<1>2. TypeInv' /\ Requeued(1, TRUE, none, none)
  BY FreeType
<1>3. 1 \in DOMAIN eventq /\ eventq[1] = Head(eventq) /\ eventq[1].type = "free"
  BY <1>1, HeadFacts
<1>4. \A i \in stored' :
          i \in InUse' \/ \E l \in DOMAIN eventq' : NamedBy(eventq'[l], i)
  <2> SUFFICES ASSUME NEW i \in stored', i \notin InUse'
               PROVE  \E l \in DOMAIN eventq' : NamedBy(eventq'[l], i)
    OBVIOUS
  <2>1. i \in stored /\ i # h /\ i \notin InUse
    BY <1>1 DEF InUse
  <2>2. PICK m \in DOMAIN eventq : NamedBy(eventq[m], i)
    BY <2>1 DEF Safe
  <2>3. CASE m = 1
    <3>1. InList(eventq[1].list, i)
      BY <1>3, <2>1, <2>2, <2>3 DEF NamedBy
    <3> QED BY <1>3, <3>1 DEF BirthInv, InList
  <2>4. CASE m # 1
    <3>1. m - 1 \in DOMAIN eventq' /\ eventq'[m - 1] = eventq[m]
      BY <1>2, <2>4 DEF Requeued
    <3> QED BY <2>2, <3>1
  <2> QED BY <2>3, <2>4
<1>5. ASSUME NEW m \in DOMAIN eventq, NEW e, e = eventq[m], ~(TRUE /\ m = 1)
      PROVE  FineEvent(e)' /\ (IsFromFrag(e) => m - 1 = 1)
  <2>1. FineEvent(e) /\ ~IsFromFrag(e)
    BY <1>5 DEF Safe
  <2>2. Kept(e.id) => Kept(e.id)'
    <3>1. ~\E l \in DOMAIN eventq : eventq[l].type = "received" /\ eventq[l].src = "frag"
      BY <1>3 DEF Safe, IsFromFrag
    <3> QED BY <1>1, <3>1 DEF Kept
  <2> QED BY <1>1, <2>1, <2>2 DEF FineEvent, HasWhole
<1>6. /\ reg'.queued = {} /\ reg'.out = {} /\ 1 \in Int
      /\ \A e \in none \cup none : FineEvent(e)'
      /\ \A e \in none : ~IsFromFrag(e)
  BY <1>1 DEF Safe
<1>7. DOMAIN eventq' \subseteq Int
  BY <1>2, Positions
<1> HIDE DEF none
<1> QED BY <1>2, <1>4, <1>5, <1>6, <1>7, SafeKept

\* A transfer arrives.
LEMMA ArriveSafe ==
    ASSUME TypeInv, Safe, NEW s \in Sent, NEW rcvd \in 0 .. s.len, Arrive(s, rcvd)
    PROVE  Safe'
<1> DEFINE w == Len(bundles) + 1
           e0 == Received(w, "peer")
           none == {}
           new == {e0}
<1>1. UNCHANGED <<pending, stored, state, reg>>
  BY DEF Arrive
<1>2. TypeInv' /\ Requeued(0, FALSE, none, new)
      /\ \A j \in 1 .. Len(bundles) : bundles'[j] = bundles[j]
  BY ArriveType
<1>3. e0.type = "received" /\ e0.src = "peer"
  BY DEF Received, Event
<1>4. \A m \in DOMAIN eventq : m - 0 \in DOMAIN eventq' /\ eventq'[m - 0] = eventq[m]
  BY <1>2 DEF Requeued
<1>5. \A i \in stored' :
          i \in InUse' \/ \E l \in DOMAIN eventq' : NamedBy(eventq'[l], i)
  BY <1>1, <1>4 DEF Safe, InUse
<1>6. pending \subseteq 1 .. Len(bundles)
  BY TypeFacts
<1>7. ASSUME NEW m \in DOMAIN eventq, NEW e, e = eventq[m]
      PROVE  FineEvent(e)' /\ (IsFromFrag(e) => m - 0 = 1)
  <2>1. FineEvent(e) /\ (IsFromFrag(e) => m = 1)
    BY <1>7 DEF Safe
  <2>2. e.id \in 1 .. Len(bundles)
    <3>1. eventq[m] \in EventSet(Len(bundles))
      BY TypeFacts
    <3> QED BY <1>7, <3>1 DEF EventSet
  <2>3. Kept(e.id) => Kept(e.id)'
    BY <1>1, <1>2, <1>4, <1>6, <2>2 DEF Kept
  <2>4. HasWhole => HasWhole'
    BY <1>1, <1>2, <1>6 DEF HasWhole
  <2>5. DOMAIN eventq \subseteq Int
    BY <1>2, Positions
  <2> QED BY <1>1, <2>1, <2>3, <2>4, <2>5 DEF FineEvent
<1> HIDE DEF e0
<1>8. /\ reg'.queued = {} /\ reg'.out = {} /\ 0 \in Int
      /\ \A e \in none \cup new : FineEvent(e)'
      /\ \A e \in new : ~IsFromFrag(e)
  BY <1>1, <1>3 DEF Safe, FineEvent, IsFromFrag
<1>9. DOMAIN eventq' \subseteq Int
  BY <1>2, Positions
<1>10. \A m \in DOMAIN eventq : \A e :
           e = eventq[m] /\ ~(FALSE /\ m = 1) => /\ FineEvent(e)'
                                                 /\ IsFromFrag(e) => m - 0 = 1
  BY <1>7
<1> HIDE DEF none, new
<1> QED BY <1>2, <1>5, <1>8, <1>9, <1>10, SafeKept, Zenon

\* A restart: everything that is stored is read back.
LEMMA CrashSafe ==
    ASSUME TypeInv, Safe, Crash
    PROVE  Safe'
<1>1. /\ stored' = stored
      /\ reg' = [queued |-> reg.queued \cap stored, out |-> reg.out \cap stored]
  BY DEF Crash
<1>2. /\ \A k \in DOMAIN eventq' : \E i \in stored : eventq'[k] = Received(i, "store")
      /\ \A i \in stored : \E k \in DOMAIN eventq' : eventq'[k] = Received(i, "store")
  BY CrashType
<1>3. \A i \in stored' : \E k \in DOMAIN eventq' : NamedBy(eventq'[k], i)
  BY <1>1, <1>2 DEF Received, Event, NamedBy
<1>4. \A k \in DOMAIN eventq' : eventq'[k].type = "received" /\ eventq'[k].src = "store"
  BY <1>2 DEF Received, Event
<1>5. \A k \in DOMAIN eventq' : FineEvent(eventq[k])' /\ ~IsFromFrag(eventq'[k])
  BY <1>4 DEF FineEvent, IsFromFrag
<1>6. reg'.queued = {} /\ reg'.out = {}
  BY <1>1 DEF Safe
<1> QED BY <1>3, <1>5, <1>6 DEF Safe

\* What brings and what frees a bundle, step by step.
LEMMA BirthStep ==
    ASSUME TypeInv, DataInv, BirthInv, FreeInv, [Next]_vars
    PROVE  BirthInv' /\ FreeInv'
<1>1. CASE \/ handle_duplicate \/ handle_delivered_gone
           \/ handle_too_late \/ handle_fragment_reloaded
           \/ handle_deliver_bundle_to_reg \/ handle_deletion
  BY <1>1, PlainBirth
<1>2. CASE handle_fragment_received
  BY <1>2, FragmentBirth
<1>3. CASE handle_whole_received \/ handle_whole_reloaded
  BY <1>3, WholeBirth
<1>4. CASE handle_reassembly_completed
  BY <1>4, CompletedBirth
<1>5. CASE \/ handle_bundle_free
           \/ \E i \in Ids : AppReceives(i)
           \/ \E i \in Ids : ExpirationTimer(i) \/ ConsoleExpire(i)
           \/ LifetimeEnds \/ UNCHANGED vars
  BY <1>5, OtherBirth
<1>6. CASE \E s \in Sent : \E rcvd \in 0 .. s.len : Arrive(s, rcvd)
  BY <1>6, ArriveBirth
<1>7. CASE Crash
  BY <1>7, CrashBirth
<1> QED BY <1>1, <1>2, <1>3, <1>4, <1>5, <1>6, <1>7, StepCases

\* While nothing is disturbed, what the store gives up is kept.
LEMMA StoreStep ==
    ASSUME TypeInv, DataInv, StateInv, BirthInv, StoreInv, [Next]_vars
    PROVE  StoreInv'
<1> SUFFICES ASSUME Undisturbed' PROVE Safe'
  BY DEF StoreInv
<1>1. Undisturbed /\ Safe
  BY UndisturbedBefore DEF StoreInv
<1>2. DataInv'
  BY DataStep
<1>3. CASE handle_duplicate \/ handle_fragment_reloaded \/ handle_deliver_bundle_to_reg
  BY <1>1, <1>3, PlainSafe
<1>4. CASE handle_delivered_gone
  <2>1. Handling("delivered")
    BY <1>4 DEF handle_delivered_gone
  <2>2. 1 \in DOMAIN eventq /\ eventq[1].type = "delivered"
    BY <2>1, HeadFacts
  <2> QED BY <1>1, <2>2 DEF Safe, FineEvent
<1>5. CASE handle_too_late
  BY <1>1, <1>5 DEF handle_too_late, Undisturbed
<1>6. CASE handle_fragment_received
  BY <1>1, <1>6, FragmentSafe
<1>7. CASE handle_whole_received \/ handle_whole_reloaded
  BY <1>1, <1>2, <1>7, WholeSafe
<1>8. CASE handle_reassembly_completed
  BY <1>1, <1>8, CompletedSafe
<1>9. CASE handle_deletion
  BY <1>1, <1>2, <1>9, DeletionSafe
<1>10. CASE handle_bundle_free
  BY <1>1, <1>10, FreeSafe
<1>11. CASE \E s \in Sent : \E rcvd \in 0 .. s.len : Arrive(s, rcvd)
  BY <1>1, <1>11, ArriveSafe
<1>12. CASE \E i \in Ids : AppReceives(i)
  BY <1>1, <1>12 DEF AppReceives, Safe
<1>13. CASE \E i \in Ids : ExpirationTimer(i) \/ ConsoleExpire(i)
  BY <1>1, <1>13 DEF ExpirationTimer, ConsoleExpire, Undisturbed
<1>14. CASE LifetimeEnds
  BY <1>14 DEF LifetimeEnds, Undisturbed
<1>15. CASE UNCHANGED vars
  <2>1. UNCHANGED <<bundles, pending, stored, state, eventq, reg>>
    BY <1>15 DEF vars
  <2> QED BY <1>1, <2>1 DEF Safe, InUse, NamedBy, InList, FineEvent, HasWhole, Kept, IsFromFrag
<1>16. CASE Crash
  BY <1>1, <1>16, CrashSafe
<1> QED BY <1>3, <1>4, <1>5, <1>6, <1>7, <1>8, <1>9, <1>10, <1>11, <1>12, <1>13,
           <1>14, <1>15, <1>16, StepCases

\* Only the handling of a free event takes a bundle out of the store, and no
\* step takes data out of a bundle.
LEMMA StoreGrows ==
    ASSUME TypeInv, DataInv, BirthInv, [Next]_vars, ~handle_bundle_free
    PROVE  stored \subseteq stored' /\ \A i \in stored : bundles[i].data \subseteq bundles'[i].data
<1>1. stored \subseteq 1 .. Len(bundles)
  BY TypeFacts
<1>2. CASE handle_fragment_received
  <2> DEFINE i == Head(eventq).id
  <2>1. i \in 1 .. Len(bundles) /\ bundles[i].frag /\ stored' = stored \cup {i}
    BY <1>2, FragmentFacts
  <2>2. PICK w : CopiedInto(w, i)
    BY <1>2, FragmentType
  <2>3. Grown(Len(bundles), bundles, bundles')
    BY <2>1, <2>2, CopiedGrows
  <2> HIDE DEF i
  <2> QED BY <1>1, <2>1, <2>3 DEF Grown
<1>3. CASE \E s \in Sent : \E rcvd \in 0 .. s.len : Arrive(s, rcvd)
  <2>1. PICK s \in Sent : \E rcvd \in 0 .. s.len : Arrive(s, rcvd)
    BY <1>3
  <2>2. PICK rcvd \in 0 .. s.len : Arrive(s, rcvd)
    BY <2>1
  <2>3. \A j \in 1 .. Len(bundles) : bundles'[j] = bundles[j]
    BY <2>2, ArriveType
  <2>4. stored' = stored
    BY <2>2 DEF Arrive
  <2> QED BY <1>1, <2>3, <2>4
<1>4. CASE \/ handle_too_late \/ handle_fragment_reloaded
           \/ handle_whole_received \/ handle_whole_reloaded
  BY <1>4 DEF handle_too_late, handle_fragment_reloaded, handle_whole_received,
              handle_whole_reloaded, add_to_pending
<1>5. CASE \/ handle_duplicate \/ handle_delivered_gone \/ handle_reassembly_completed
           \/ handle_deliver_bundle_to_reg \/ handle_deletion
  BY <1>5 DEF handle_duplicate, handle_delivered_gone, handle_reassembly_completed,
              handle_deliver_bundle_to_reg, handle_deletion
<1>6. CASE \/ \E i \in Ids : AppReceives(i)
           \/ \E i \in Ids : ExpirationTimer(i) \/ ConsoleExpire(i)
           \/ LifetimeEnds \/ UNCHANGED vars \/ Crash
  BY <1>6 DEF AppReceives, ExpirationTimer, ConsoleExpire, LifetimeEnds, vars, Crash
<1> QED BY <1>2, <1>3, <1>4, <1>5, <1>6, StepCases

\* No undisturbed step takes a byte out of the store.
LEMMA BytesStay ==
    ASSUME TypeInv, DataInv, BirthInv, FreeInv, StoreInv, [Next]_vars, Undisturbed'
    PROVE  Covered(stored) \subseteq Covered(stored)'
<1>1. CASE ~handle_bundle_free
  BY <1>1, StoreGrows DEF Covered
<1>2. CASE handle_bundle_free
  <2> DEFINE h == Head(eventq).id
  <2>1. Safe
    BY UndisturbedBefore DEF StoreInv
  <2>2. UNCHANGED bundles /\ stored' = stored \ {h} /\ Handling("free")
    BY <1>2 DEF handle_bundle_free
  <2>3. 1 \in DOMAIN eventq /\ eventq[1] = Head(eventq) /\ eventq[1].type = "free"
    BY <2>2, HeadFacts
  <2>4. h \notin pending
    BY <2>3 DEF FreeInv, InUse
  <2>5. ~\E l \in DOMAIN eventq : eventq[l].type = "received" /\ eventq[l].src = "frag"
    BY <2>1, <2>3 DEF Safe, IsFromFrag
  <2>6. \A p \in bundles[h].data : \E j \in pending : p \in bundles[j].data
    BY <2>1, <2>3, <2>5 DEF Safe, FineEvent, Kept
  <2> HIDE DEF h
  <2>7. \A i \in stored : \A p \in bundles[i].data : \E j \in stored' : p \in bundles'[j].data
    BY <2>2, <2>4, <2>6 DEF FreeInv
  <2> QED BY <2>7 DEF Covered
<1> QED BY <1>1, <1>2

\* The data outlives the change from fragments to the whole bundle: as long as
\* nothing has expired and nothing has been delivered, no step and no restart
\* takes a byte out of the data store (handle_reassembly_completed posts the
\* whole bundle at the head of the queue, ahead of what frees the fragments).
THEOREM StoreAlwaysKeepsData == Spec => StoreKeepsData
<1> DEFINE I == TypeInv /\ DataInv /\ StateInv /\ BirthInv /\ FreeInv /\ StoreInv
           Keeps == (/\ ~over' /\ console' = 0
                     /\ \A i \in Ids : fwdlog'[i] # "DELIVERED")
                    => Covered(stored) \subseteq Covered(stored)'
<1>1. Init => I
  <2>1. Init => StateInv /\ BirthInv /\ FreeInv
    BY DEF Init, StateInv, BirthInv, FreeInv, NoState
  <2>2. Init => Safe
    BY DEF Init, Safe
  <2> QED BY <2>1, <2>2, DataInit DEF StoreInv
<1>2. I /\ [Next]_vars => I'
  BY TypeStep, DataStep, StateStep, BirthStep, StoreStep
<1>3. I /\ [Next]_vars => [Keeps]_vars
  BY BytesStay DEF Undisturbed
<1> HIDE DEF I, Keeps
<1>4. Spec => [][Keeps]_vars
  BY <1>1, <1>2, <1>3, PTL DEF Spec
<1> QED BY <1>4 DEF StoreKeepsData, Keeps

=============================================================================
