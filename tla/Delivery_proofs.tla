-------------------------- MODULE Delivery_proofs --------------------------
(***************************************************************************)
(* Theorems about Delivery, for any number of registrations of any kinds,  *)
(* any number of bundles, bindings, restarts and expirations, and event    *)
(* queues of any length.                                                   *)
(***************************************************************************)
EXTENDS Delivery, ProofFacts

(***************************************************************************)
(* The parts of the inductive invariant.  What concerns one registration   *)
(* is stated of its object g, its image d in the store, its forwarding log *)
(* entries l and the counts n of what its clients got.                     *)
(***************************************************************************)
Lives == {"none", "adding", "live", "removed", "freed"}
Log   == {"none", "PENDING_DELIVERY", "DELIVERED"}

RegSet == [life : Lives, kind : Kinds, active : BOOLEAN, expired : BOOLEAN,
           timer : BOOLEAN, recv : {"idle", "ready"},
           list : Seq(Bundles), unacked : Seq(Bundles), acked : Seq(Bundles),
           cache : SUBSET Bundles]
ImageSet == [list : Seq(Bundles), unacked : Seq(Bundles), acked : Seq(Bundles),
             stored : BOOLEAN]
LogSet   == [Bundles -> Log]
CountSet == [Bundles -> 0 .. 2]

\* The registration has entered the table and left it again.
Settled(life) == life \notin {"none", "adding", "live"}

\* No bundle is twice on one list of x, an object or an image.  It may be on
\* two lists: an acknowledgement and a binding cross.
Distinct(x) ==
    IsInjective(x.list) /\ IsInjective(x.unacked) /\ IsInjective(x.acked)

Typed(g, d, l, n) == g \in RegSet /\ d \in ImageSet /\ l \in LogSet /\ n \in CountSet

\* The durable entry DELIVERED covers whatever was ever queued.
Logged(g, d, l, n) ==
    \A b \in Bundles : (b \in Held(g) \cup Held(d) \cup g.cache \/ n[b] > 0)
                       => l[b] = "DELIVERED"

\* The store has the registrations of the table, with what they hold.
Saved(g, d) ==
    /\ g.life = "live" <=> d.stored
    /\ ~d.stored => d = NoImage
    /\ g.life = "live" => Owed(g) \subseteq Owed(d)

\* Nothing has happened to a registration that is not yet in the table.
Fresh(g, l, n) ==
    g.life \in {"none", "adding"} =>
        /\ Held(g) = {} /\ g.cache = {}
        /\ \A b \in Bundles : l[b] = "none" /\ n[b] = 0

\* Without acknowledgements nothing is unacknowledged, and without a full
\* replay what was received is queued neither in memory nor in the store.
Once(g, d, n) ==
    ~g.kind.acking =>
        /\ Range(g.unacked) = {} /\ Range(d.unacked) = {}
        /\ g.kind.replay # "ALL" =>
               \A b \in Bundles :
                   /\ n[b] <= 1
                   /\ n[b] > 0 => b \notin Range(g.list) \cup Range(d.list)

RegOK(g, d, l, n) ==
    /\ Typed(g, d, l, n) /\ Distinct(g) /\ Distinct(d)
    /\ Logged(g, d, l, n) /\ Saved(g, d) /\ Fresh(g, l, n) /\ Once(g, d, n)

RegInv ==
    /\ reg \in [Regs -> RegSet] /\ disk \in [Regs -> ImageSet]
    /\ fwdlog \in [Regs -> LogSet] /\ got \in [Regs -> CountSet]
    /\ \A r \in Regs : RegOK(reg[r], disk[r], fwdlog[r], got[r])

\* What is pending or on a list is in the store, and nothing that has not
\* arrived is there or in a log.
StoreInv ==
    /\ early \in BOOLEAN /\ arrived \in 0 .. NBundles /\ over \subseteq Bundles
    /\ pending \subseteq stored /\ stored \subseteq 1 .. arrived
    /\ \A r \in Regs : Held(reg[r]) \subseteq stored
    /\ \A r \in Regs, b \in Bundles : b > arrived => fwdlog[r][b] = "none"
    /\ ackSent \in [Regs -> SUBSET Bundles]
    /\ peeked \in [Regs -> SUBSET Bundles]

BundleTypes == {"deliver", "delivered", "ack", "acking"}
RegTypes    == {"added", "removed", "regexpired", "regdelete"}

EventSet ==
    {Received(b, src) : b \in Bundles, src \in {"peer", "store"}}
    \cup {Event(t, b, r) : t \in BundleTypes, b \in Bundles, r \in Regs}
    \cup {BundleEvent(t, b) : t \in {"expired", "free"}, b \in Bundles}
    \cup {RegEvent(t, r) : t \in RegTypes, r \in Regs}

FromPeer(e)  == e.type = "received" /\ e.src = "peer"
FromStore(e) == e.type = "received" /\ e.src = "store"

\* An application has bundle b of registration r, or r dropped it.
HandedOver(r, b) ==
    \/ got[r][b] > 0
    \/ reg[r].kind.failure = "DROP" /\ fwdlog[r][b] = "DELIVERED"

\* The events that may be queued as things stand.
Good ==
    {e \in EventSet :
        /\ e.b <= arrived
        /\ FromPeer(e) => /\ e.b \notin stored
                          /\ \A r \in Regs : fwdlog[r][e.b] = "none"
        /\ FromStore(e) \/ e.type \in {"deliver", "acking"} => e.b \in stored
        /\ e.type = "acking" => fwdlog[e.r][e.b] = "DELIVERED"
        /\ e.type = "delivered" => HandedOver(e.r, e.b)
        /\ e.type = "expired" => e.b \in over
        /\ e.type = "free" => /\ e.b \notin pending
                              /\ \A r \in Regs : e.b \notin Held(reg[r])
        /\ e.type = "added" => reg[e.r].life = "adding"
        /\ e.type = "regdelete" => Settled(reg[e.r].life)}

\* Two events that are never queued together: a bundle arrives once, it is
\* freed when no other event refers to it, and a registration is added once.
Clash(e, f) ==
    \/ e.b = f.b /\ FromPeer(e) /\ FromPeer(f)
    \/ e.b = f.b /\ e.type = "free" /\ f.type \notin {"free", "ack"}
    \/ e.r = f.r /\ e.type = "added" /\ f.type = "added"

NoClash(q) == \A i, j \in DOMAIN q : i # j => ~Clash(q[i], q[j])

QueueInv == eventq \in Seq(Good) /\ NoClash(eventq)

\* Custody is kept of what is pending or about to be read from the store, and
\* ends as CustodyUntilDelivered says.
Reloading(q, b) == \E e \in Range(q) : FromStore(e) /\ e.b = b

CustodyInv ==
    /\ \A b \in custody : b \in pending \/ Reloading(eventq, b)
    /\ CustodyUntilDelivered

\* What KeptUntilTaken says of one registration, and that its image has the
\* bundle as well; a is what was acknowledged, p what was peeked at and o what
\* may be lost.
Untaken(g, l, n, a, b) ==
    /\ g.life = "live" /\ l[b] = "DELIVERED" /\ g.kind.failure = "DEFER"
    /\ IF g.kind.acking THEN b \notin a ELSE n[b] = 0

KeptOK(g, d, l, n, a, p, o) ==
    \A b \in Bundles \ o : Untaken(g, l, n, a, b)
                           => b \in (Held(g) \cap Held(d)) \cup p

\* The bundles a registration may lose: early deletion spares only those in
\* custody.
Excused == over \cup (IF early THEN Bundles \ custody ELSE {})

KeptInv ==
    \A r \in Regs : KeptOK(reg[r], disk[r], fwdlog[r], got[r], ackSent[r],
                           peeked[r], Excused)

Inv == RegInv /\ StoreInv /\ QueueInv /\ CustodyInv /\ KeptInv

(***************************************************************************)
(* Lists.                                                                  *)
(***************************************************************************)
LEMMA BundlesFinite ==
    /\ Bundles \in SUBSET Nat /\ Regs \in SUBSET Nat /\ 0 \notin Bundles
    /\ IsFiniteSet(Bundles) /\ IsFiniteSet(Regs)
    /\ \A b \in Bundles : b \in Nat /\ b > 0 /\ b <= NBundles
<1>1. NRegs \in Nat /\ NBundles \in Nat
  BY DeliveryAssumption
<1> QED BY <1>1, FS_Interval DEF Bundles, Regs

LEMMA EraseFacts ==
    ASSUME NEW list \in Seq(Bundles), NEW b
    PROVE  /\ Erase(list, b) \in Seq(Bundles)
           /\ Range(Erase(list, b)) = Range(list) \ {b}
           /\ IsInjective(list) => IsInjective(Erase(list, b))
<1>1. Range(list) \subseteq Bundles
  BY DEF Range
<1>2. /\ Erase(list, b) \in Seq(Bundles)
      /\ Range(Erase(list, b)) = Range(list) \cap (Bundles \ {b})
      /\ IsInjective(list) => IsInjective(Erase(list, b))
  BY OnlyInFacts, Zenon DEF Erase
<1> QED BY <1>1, <1>2, Zenon

LEMMA PushBackFacts ==
    ASSUME NEW list \in Seq(Bundles), NEW b \in Bundles
    PROVE  /\ PushBack(list, b) \in Seq(Bundles)
           /\ Range(PushBack(list, b)) = Range(list) \cup {b}
           /\ IsInjective(list) => IsInjective(PushBack(list, b))
<1>1. CASE b \in Range(list)
  BY <1>1, Zenon DEF PushBack
<1>2. CASE b \notin Range(list)
  <2>1. PushBack(list, b) = Append(list, b)
    BY <1>2 DEF PushBack
  <2>2. /\ Append(list, b) \in Seq(Bundles)
        /\ DOMAIN list = 1 .. Len(list) /\ Len(list) \in Nat
        /\ DOMAIN Append(list, b) = 1 .. Len(list) + 1
        /\ Append(list, b)[Len(list) + 1] = b
        /\ \A i \in DOMAIN list : Append(list, b)[i] = list[i]
    OBVIOUS
  <2> DEFINE new == Append(list, b)
  <2> HIDE DEF new
  <2>3. Range(new) = Range(list) \cup {b}
    <3>1. \A i \in 1 .. Len(list) + 1 : i \in 1 .. Len(list) \/ i = Len(list) + 1
      BY <2>2
    <3>2. \A i \in 1 .. Len(list) : i \in 1 .. Len(list) + 1
      BY <2>2
    <3>3. Len(list) + 1 \in 1 .. Len(list) + 1
      BY <2>2
    <3> QED BY <2>2, <3>1, <3>2, <3>3 DEF Range, new
  <2>4. IsInjective(list) => IsInjective(new)
    BY <1>2, <2>2 DEF IsInjective, Range, new
  <2> QED BY <2>1, <2>2, <2>3, <2>4 DEF new
<1> QED BY <1>1, <1>2

LEMMA ConcatRange ==
    ASSUME NEW S, NEW p \in Seq(S), NEW q \in Seq(S)
    PROVE  /\ p \o q \in Seq(S)
           /\ Range(p \o q) = Range(p) \cup Range(q)
           /\ IsInjective(p) /\ IsInjective(q) /\ Range(p) \cap Range(q) = {}
              => IsInjective(p \o q)
<1> DEFINE c == p \o q
<1>1. /\ c \in Seq(S) /\ Len(p) \in Nat /\ Len(q) \in Nat
      /\ DOMAIN p = 1 .. Len(p) /\ DOMAIN q = 1 .. Len(q)
      /\ DOMAIN c = 1 .. Len(p) + Len(q)
  OBVIOUS
<1>2. \A i \in DOMAIN p : i \in DOMAIN c /\ c[i] = p[i]
  BY ConcatOf
<1>3. \A i \in DOMAIN q : Len(p) + i \in DOMAIN c /\ c[Len(p) + i] = q[i]
  BY ConcatOf
<1>4. \A i \in DOMAIN c : \/ i \in DOMAIN p /\ c[i] = p[i]
                          \/ i - Len(p) \in DOMAIN q /\ c[i] = q[i - Len(p)]
  BY ConcatOf
<1> HIDE DEF c
<1>5. Range(c) = Range(p) \cup Range(q)
  BY <1>2, <1>3, <1>4 DEF Range
<1>6. ASSUME IsInjective(p), IsInjective(q), Range(p) \cap Range(q) = {}
      PROVE  IsInjective(c)
  <2> SUFFICES ASSUME NEW i \in DOMAIN c, NEW j \in DOMAIN c, c[i] = c[j]
               PROVE  i = j
    BY DEF IsInjective
  <2>1. \A x \in DOMAIN p, y \in DOMAIN q : p[x] # q[y]
    BY <1>6 DEF Range
  <2>2. i \in Int /\ j \in Int
    BY <1>1
  <2> QED BY <1>1, <1>4, <1>6, <2>1, <2>2 DEF IsInjective
<1> QED BY <1>1, <1>5, <1>6 DEF c

LEMMA TailRange ==
    ASSUME NEW S, NEW q \in Seq(S), q # <<>>
    PROVE  /\ Tail(q) \in Seq(S) /\ Head(q) \in S
           /\ Range(q) = Range(Tail(q)) \cup {Head(q)}
           /\ IsInjective(q) => /\ IsInjective(Tail(q))
                                /\ Head(q) \notin Range(Tail(q))
<1>1. /\ Tail(q) \in Seq(S)
      /\ DOMAIN q = 1 .. Len(q) /\ DOMAIN Tail(q) = 1 .. Len(q) - 1
      /\ Len(q) \in Nat
      /\ Head(q) = q[1] /\ Head(q) \in S /\ 1 \in DOMAIN q
  BY TailOf
<1>2. \A i \in DOMAIN Tail(q) : /\ i + 1 \in DOMAIN q
                                /\ Tail(q)[i] = q[i + 1] /\ i + 1 # 1
  BY <1>1, TailOf
<1>3. \A i \in DOMAIN q : i # 1 => /\ i - 1 \in DOMAIN Tail(q)
                                  /\ Tail(q)[i - 1] = q[i]
  BY TailOf
<1> DEFINE t == Tail(q)
<1>4. Range(q) = Range(t) \cup {Head(q)}
  <2>1. ASSUME NEW x \in Range(q) PROVE x \in Range(t) \cup {Head(q)}
    BY <1>1, <1>3 DEF Range
  <2>2. ASSUME NEW x \in Range(t) PROVE x \in Range(q)
    BY <1>2 DEF Range
  <2>3. Head(q) \in Range(q)
    BY <1>1 DEF Range
  <2> QED BY <2>1, <2>2, <2>3
<1>5. ASSUME IsInjective(q)
      PROVE  IsInjective(t) /\ Head(q) \notin Range(t)
  BY <1>1, <1>2, <1>5 DEF IsInjective, Range
<1> QED BY <1>1, <1>4, <1>5

LEMMA EmptyList ==
    /\ \A S : <<>> \in Seq(S)
    /\ Range(<<>>) = {} /\ IsInjective(<<>>)
  BY DEF Range, IsInjective

(***************************************************************************)
(* The registration object.                                                *)
(***************************************************************************)
LEMMA KindFacts ==
    ASSUME NEW k \in Kinds
    PROVE  /\ k.failure \in {"DROP", "DEFER"} /\ k.replay \in {"NONE", "NEW", "ALL"}
           /\ k.acking \in BOOLEAN /\ k.expires \in BOOLEAN
  BY DeliveryAssumption

LEMMA NoImageFacts ==
    /\ NoImage \in ImageSet /\ ~NoImage.stored /\ Distinct(NoImage)
    /\ Held(NoImage) = {} /\ Owed(NoImage) = {}
    /\ Range(NoImage.list) = {} /\ Range(NoImage.unacked) = {}
  BY EmptyList DEF NoImage, ImageSet, Distinct, Held, Owed

LEMMA ImageFacts ==
    ASSUME NEW g \in RegSet
    PROVE  /\ Image(g) \in ImageSet /\ Image(g).stored
           /\ Distinct(g) => Distinct(Image(g))
           /\ Held(Image(g)) = Held(g) /\ Owed(Image(g)) = Owed(g)
           /\ Image(g).list = g.list /\ Image(g).unacked = g.unacked
           /\ Image(g).acked = g.acked
  BY DEF Image, ImageSet, RegSet, Distinct, Held, Owed

LEMMA NewRegFacts ==
    ASSUME NEW k \in Kinds, NEW a \in BOOLEAN
    PROVE  /\ NewReg(k, a) \in RegSet /\ Distinct(NewReg(k, a))
           /\ Held(NewReg(k, a)) = {} /\ NewReg(k, a).cache = {}
           /\ NewReg(k, a).life = "adding" /\ NewReg(k, a).kind = k
           /\ Range(NewReg(k, a).unacked) = {} /\ Range(NewReg(k, a).list) = {}
  BY EmptyList, KindFacts
     DEF NewReg, RegSet, Lives, Distinct, Held

\* An object of which nothing is left but its kind.
LEMMA NoRegFacts ==
    ASSUME NEW k \in Kinds, NEW life \in Lives
    PROVE  LET g == [NoReg EXCEPT !.life = life, !.kind = k, !.timer = FALSE]
           IN /\ NoReg \in RegSet /\ Distinct(NoReg) /\ Held(NoReg) = {}
              /\ NoReg.cache = {} /\ NoReg.life = "none"
              /\ Range(NoReg.unacked) = {} /\ Range(NoReg.list) = {}
              /\ g \in RegSet /\ Distinct(g) /\ Held(g) = {} /\ g.cache = {}
              /\ g.life = life /\ g.kind = k
              /\ Range(g.unacked) = {} /\ Range(g.list) = {}
<1> DEFINE new == NewReg(CHOOSE x \in Kinds : TRUE, FALSE)
<1>1. (CHOOSE x \in Kinds : TRUE) \in Kinds
  BY DeliveryAssumption
<1>2. /\ new \in RegSet /\ Distinct(new) /\ Held(new) = {} /\ new.cache = {}
      /\ Range(new.unacked) = {} /\ Range(new.list) = {}
  BY <1>1, NewRegFacts
<1>3. NoReg = [new EXCEPT !.life = "none"]
  BY DEF NoReg
<1> HIDE DEF new
<1> QED BY <1>2, <1>3 DEF RegSet, Lives, Distinct, Held

\* Lists of a registration are lists of bundles.
LEMMA ListFacts ==
    ASSUME NEW x, x \in RegSet \/ x \in ImageSet
    PROVE  /\ x.list \in Seq(Bundles) /\ x.unacked \in Seq(Bundles)
           /\ x.acked \in Seq(Bundles) /\ Held(x) \subseteq Bundles
<1>1. /\ x.list \in Seq(Bundles) /\ x.unacked \in Seq(Bundles)
      /\ x.acked \in Seq(Bundles)
  BY DEF RegSet, ImageSet
<1>2. \A s \in Seq(Bundles) : Range(s) \subseteq Bundles
  BY DEF Range
<1> QED BY <1>1, <1>2 DEF Held

\* g2 differs from g in nothing but its lists, its binding and its timer.
Same(g, g2) == g2.kind = g.kind /\ g2.life = g.life /\ g2.cache = g.cache

\* A bundle that no list has is put on one of them, or dropped.
LEMMA DeliverBundle ==
    ASSUME NEW g \in RegSet, Distinct(g), NEW b \in Bundles, b \notin Held(g),
           NEW g2, g2 = deliver_bundle(g, b)
    PROVE  /\ g2 \in RegSet /\ Distinct(g2) /\ Same(g, g2)
           /\ Held(g) \subseteq Held(g2) /\ Held(g2) \subseteq Held(g) \cup {b}
           /\ Range(g2.list) \subseteq Range(g.list) \cup {b}
           /\ g2.unacked = g.unacked
           /\ ~Drops(g) => b \in Held(g2)
<1>1. g.list \in Seq(Bundles) /\ g.acked \in Seq(Bundles)
  BY ListFacts
<1>2. CASE Drops(g)
  BY <1>2 DEF deliver_bundle, Same
<1>3. CASE ~Drops(g) /\ (g.active \/ g.kind.replay = "NEW")
  <2> DEFINE p == PushBack(g.list, b)
  <2>1. g2 = [g EXCEPT !.list = p]
    BY <1>3 DEF deliver_bundle
  <2>2. /\ p \in Seq(Bundles) /\ Range(p) = Range(g.list) \cup {b}
        /\ IsInjective(g.list) => IsInjective(p)
    BY <1>1, PushBackFacts
  <2> HIDE DEF p
  <2>3. /\ g2 \in RegSet /\ g2.list = p /\ g2.unacked = g.unacked
        /\ g2.acked = g.acked /\ Same(g, g2)
    BY <2>1, <2>2 DEF RegSet, Same
  <2> QED BY <2>2, <2>3, Zenon DEF Distinct, Held
<1>4. CASE ~Drops(g) /\ ~(g.active \/ g.kind.replay = "NEW")
  <2> DEFINE p == PushBack(g.acked, b)
  <2>1. g2 = [g EXCEPT !.acked = p]
    BY <1>4 DEF deliver_bundle
  <2>2. /\ p \in Seq(Bundles) /\ Range(p) = Range(g.acked) \cup {b}
        /\ IsInjective(g.acked) => IsInjective(p)
    BY <1>1, PushBackFacts
  <2> HIDE DEF p
  <2>3. /\ g2 \in RegSet /\ g2.acked = p /\ g2.unacked = g.unacked
        /\ g2.list = g.list /\ Same(g, g2)
    BY <2>1, <2>2 DEF RegSet, Same
  <2> QED BY <2>2, <2>3, Zenon DEF Distinct, Held
<1> QED BY <1>2, <1>3, <1>4

\* A deleted bundle leaves at most one list.
LEMMA DeleteBundle ==
    ASSUME NEW g \in RegSet, Distinct(g), NEW b,
           NEW g2, g2 = delete_bundle(g, b)
    PROVE  /\ g2 \in RegSet /\ Distinct(g2) /\ Same(g, g2)
           /\ Held(g) \ {b} \subseteq Held(g2) /\ Held(g2) \subseteq Held(g)
           /\ Range(g2.list) \subseteq Range(g.list)
           /\ Range(g2.unacked) \subseteq Range(g.unacked)
<1>1. /\ g.list \in Seq(Bundles) /\ g.acked \in Seq(Bundles)
      /\ g.unacked \in Seq(Bundles)
  BY ListFacts
<1> DEFINE x == Erase(g.list, b)
           y == Erase(g.unacked, b)
           z == Erase(g.acked, b)
<1>2. /\ x \in Seq(Bundles) /\ Range(x) = Range(g.list) \ {b}
      /\ IsInjective(g.list) => IsInjective(x)
  BY <1>1, EraseFacts
<1>3. /\ y \in Seq(Bundles) /\ Range(y) = Range(g.unacked) \ {b}
      /\ IsInjective(g.unacked) => IsInjective(y)
  BY <1>1, EraseFacts
<1>4. /\ z \in Seq(Bundles) /\ Range(z) = Range(g.acked) \ {b}
      /\ IsInjective(g.acked) => IsInjective(z)
  BY <1>1, EraseFacts
<1>5. g2 = IF b \in Range(g.list) THEN [g EXCEPT !.list = x]
           ELSE IF b \in Range(g.unacked) THEN [g EXCEPT !.unacked = y]
           ELSE [g EXCEPT !.acked = z]
  BY DEF delete_bundle
<1> HIDE DEF x, y, z
<1>6. CASE b \in Range(g.list)
  <2>1. /\ g2 \in RegSet /\ g2.acked = g.acked /\ g2.unacked = g.unacked
        /\ g2.list = x /\ Same(g, g2)
    BY <1>2, <1>5, <1>6 DEF RegSet, Same
  <2> QED BY <1>2, <1>6, <2>1 DEF Distinct, Held
<1>7. CASE b \notin Range(g.list) /\ b \in Range(g.unacked)
  <2>1. /\ g2 \in RegSet /\ g2.acked = g.acked /\ g2.unacked = y
        /\ g2.list = g.list /\ Same(g, g2)
    BY <1>3, <1>5, <1>7 DEF RegSet, Same
  <2> QED BY <1>3, <1>7, <2>1 DEF Distinct, Held
<1>8. CASE b \notin Range(g.list) /\ b \notin Range(g.unacked)
  <2>1. /\ g2 \in RegSet /\ g2.acked = z /\ g2.unacked = g.unacked
        /\ g2.list = g.list /\ Same(g, g2)
    BY <1>4, <1>5, <1>8 DEF RegSet, Same
  <2> QED BY <1>4, <1>8, <2>1 DEF Distinct, Held
<1> QED BY <1>6, <1>7, <1>8

\* What is moved from a list onto another.
LEMMA MoveContents ==
    ASSUME NEW list \in Seq(Bundles), NEW other \in Seq(Bundles)
    PROVE  LET m == move_contents(list, other)
           IN /\ m \in Seq(Bundles) /\ Range(m) = Range(other) \cup Range(list)
              /\ IsInjective(list) /\ IsInjective(other) => IsInjective(m)
<1> DEFINE rest == OnlyIn(list, Bundles \ Range(other))
<1>1. /\ rest \in Seq(Bundles)
      /\ Range(rest) = Range(list) \cap (Bundles \ Range(other))
      /\ IsInjective(list) => IsInjective(rest)
  BY OnlyInFacts
<1>2. Range(list) \subseteq Bundles
  BY DEF Range
<1>3. move_contents(list, other) = other \o rest
  BY DEF move_contents
<1> HIDE DEF rest
<1>4. /\ Range(other) \cap Range(rest) = {}
      /\ Range(other) \cup Range(rest) = Range(other) \cup Range(list)
  BY <1>1, <1>2
<1> QED BY <1>1, <1>3, <1>4, ConcatRange

\* A binding moves bundles back to the list and loses none.
LEMMA SetActive ==
    ASSUME NEW g \in RegSet, Distinct(g),
           NEW g2, g2 = set_active_callback([g EXCEPT !.active = TRUE])
    PROVE  /\ g2 \in RegSet /\ Distinct(g2) /\ Same(g, g2)
           /\ Held(g2) = Held(g) /\ Range(g2.unacked) = {}
           /\ g.kind.replay # "ALL" => Range(g2.list) = Owed(g)
<1>1. /\ g.list \in Seq(Bundles) /\ g.acked \in Seq(Bundles)
      /\ g.unacked \in Seq(Bundles)
  BY ListFacts
<1> DEFINE x == move_contents(g.unacked, g.list)
           y == move_contents(g.acked, x)
<1>2. /\ x \in Seq(Bundles) /\ Range(x) = Owed(g) /\ IsInjective(x)
  BY <1>1, MoveContents DEF Distinct, Owed
<1>3. /\ y \in Seq(Bundles) /\ Range(y) = Held(g) /\ IsInjective(y)
  <2> HIDE DEF x
  <2>1. /\ y \in Seq(Bundles) /\ Range(y) = Range(x) \cup Range(g.acked)
        /\ IsInjective(y)
    BY <1>1, <1>2, MoveContents DEF Distinct
  <2> QED BY <1>2, <2>1 DEF Held, Owed
<1>4. g2 = IF g.kind.replay = "ALL"
           THEN [g EXCEPT !.active = TRUE, !.list = y, !.unacked = <<>>,
                          !.acked = <<>>]
           ELSE [g EXCEPT !.active = TRUE, !.list = x, !.unacked = <<>>]
  BY DEF set_active_callback, RegSet
<1> HIDE DEF x, y
<1>5. CASE g.kind.replay = "ALL"
  <2>1. /\ g2 \in RegSet /\ g2.acked = <<>> /\ g2.unacked = <<>>
        /\ g2.list = y /\ Same(g, g2)
    BY <1>3, <1>4, <1>5, EmptyList DEF RegSet, Same
  <2> QED BY <1>3, <1>5, <2>1, EmptyList DEF Distinct, Held
<1>6. CASE g.kind.replay # "ALL"
  <2>1. /\ g2 \in RegSet /\ g2.acked = g.acked /\ g2.unacked = <<>>
        /\ g2.list = x /\ Same(g, g2)
    BY <1>2, <1>4, <1>6, EmptyList DEF RegSet, Same
  <2> QED BY <1>2, <1>6, <2>1, EmptyList DEF Distinct, Held, Owed
<1> QED BY <1>5, <1>6

\* A receive moves the front bundle to the next list.
LEMMA DeliverFront ==
    ASSUME NEW g \in RegSet, Distinct(g), g.list # <<>>,
           NEW g2, g2 = deliver_front(g)
    PROVE  /\ g2 \in RegSet /\ Distinct(g2) /\ Same(g, g2)
           /\ Head(g.list) \in Bundles /\ Head(g.list) \in Range(g.list)
           /\ Held(g2) = Held(g)
           /\ Range(g2.list) = Range(g.list) \ {Head(g.list)}
           /\ ~g.kind.acking => g2.unacked = g.unacked
<1>1. /\ g.list \in Seq(Bundles) /\ g.acked \in Seq(Bundles)
      /\ g.unacked \in Seq(Bundles)
  BY ListFacts
<1> DEFINE b == Head(g.list)
           t == Tail(g.list)
           u == PushBack(g.unacked, b)
           k == PushBack(g.acked, b)
<1>2. /\ t \in Seq(Bundles) /\ b \in Bundles
      /\ Range(g.list) = Range(t) \cup {b}
      /\ IsInjective(t) /\ b \notin Range(t)
  BY <1>1, TailRange DEF Distinct
<1>3. g2 = IF g.kind.acking
           THEN [g EXCEPT !.list = t, !.recv = "idle", !.unacked = u]
           ELSE [g EXCEPT !.list = t, !.recv = "idle", !.acked = k]
  BY DEF deliver_front, RegSet
<1>4. /\ u \in Seq(Bundles) /\ Range(u) = Range(g.unacked) \cup {b}
      /\ IsInjective(g.unacked) => IsInjective(u)
  BY <1>1, <1>2, PushBackFacts
<1>5. /\ k \in Seq(Bundles) /\ Range(k) = Range(g.acked) \cup {b}
      /\ IsInjective(g.acked) => IsInjective(k)
  BY <1>1, <1>2, PushBackFacts
<1> HIDE DEF b, t, u, k
<1>6. CASE g.kind.acking
  <2>1. /\ g2 \in RegSet /\ g2.acked = g.acked /\ g2.unacked = u
        /\ g2.list = t /\ Same(g, g2)
    BY <1>2, <1>3, <1>4, <1>6 DEF RegSet, Same
  <2>2. /\ Distinct(g2) /\ Held(g2) = Held(g)
        /\ Range(g2.list) = Range(g.list) \ {b}
    BY <1>2, <1>4, <2>1 DEF Distinct, Held
  <2> QED BY <1>2, <1>6, <2>1, <2>2 DEF b
<1>7. CASE ~g.kind.acking
  <2>1. /\ g2 \in RegSet /\ g2.acked = k /\ g2.unacked = g.unacked
        /\ g2.list = t /\ Same(g, g2)
    BY <1>2, <1>3, <1>5, <1>7 DEF RegSet, Same
  <2>2. /\ Distinct(g2) /\ Held(g2) = Held(g)
        /\ Range(g2.list) = Range(g.list) \ {b}
    BY <1>2, <1>5, <2>1 DEF Distinct, Held
  <2> QED BY <1>2, <1>7, <2>1, <2>2 DEF b
<1> QED BY <1>6, <1>7

\* A peek takes the front bundle off the list.
LEMMA PeekFront ==
    ASSUME NEW g \in RegSet, Distinct(g), g.list # <<>>,
           NEW g2, g2 = [g EXCEPT !.list = Tail(@), !.recv = "idle"]
    PROVE  /\ g2 \in RegSet /\ Distinct(g2) /\ Same(g, g2)
           /\ Head(g.list) \in Bundles /\ Held(g2) \subseteq Held(g)
           /\ Held(g) \ {Head(g.list)} \subseteq Held(g2)
           /\ Range(g2.list) \subseteq Range(g.list)
           /\ g2.unacked = g.unacked
<1>1. g.list \in Seq(Bundles)
  BY ListFacts
<1> DEFINE b == Head(g.list)
           t == Tail(g.list)
<1>2. /\ t \in Seq(Bundles) /\ b \in Bundles
      /\ Range(g.list) = Range(t) \cup {b}
      /\ IsInjective(t) /\ b \notin Range(t)
  BY <1>1, TailRange DEF Distinct
<1>3. g2 = [g EXCEPT !.list = t, !.recv = "idle"]
  OBVIOUS
<1> HIDE DEF b, t
<1>4. /\ g2 \in RegSet /\ g2.acked = g.acked /\ g2.unacked = g.unacked
      /\ g2.list = t /\ Same(g, g2)
  BY <1>2, <1>3 DEF RegSet, Same
<1>5. /\ Distinct(g2) /\ Held(g2) \subseteq Held(g)
      /\ Held(g) \ {b} \subseteq Held(g2)
  BY <1>2, <1>4 DEF Distinct, Held
<1> QED BY <1>2, <1>4, <1>5 DEF b

\* An acknowledged bundle is on the list of those whatever list it was on.
AckedOn(g, b) == [g EXCEPT !.acked = PushBack(@, b), !.unacked = Erase(@, b)]

LEMMA BundleAck ==
    ASSUME NEW g \in RegSet, Distinct(g), NEW b \in Bundles,
           NEW g2, g2 = AckedOn(g, b)
    PROVE  /\ g2 \in RegSet /\ Distinct(g2) /\ Same(g, g2)
           /\ Held(g2) = Held(g) \cup {b} /\ g2.list = g.list
           /\ Range(g2.unacked) \subseteq Range(g.unacked)
<1>1. /\ g.list \in Seq(Bundles) /\ g.acked \in Seq(Bundles)
      /\ g.unacked \in Seq(Bundles)
  BY ListFacts
<1> DEFINE k == PushBack(g.acked, b)
           u == Erase(g.unacked, b)
<1>2. /\ k \in Seq(Bundles) /\ Range(k) = Range(g.acked) \cup {b}
      /\ IsInjective(g.acked) => IsInjective(k)
  BY <1>1, PushBackFacts
<1>3. /\ u \in Seq(Bundles) /\ Range(u) = Range(g.unacked) \ {b}
      /\ IsInjective(g.unacked) => IsInjective(u)
  BY <1>1, EraseFacts
<1>4. g2 = [g EXCEPT !.acked = k, !.unacked = u]
  BY DEF AckedOn, RegSet
<1> HIDE DEF k, u
<1>5. /\ g2 \in RegSet /\ g2.acked = k /\ g2.unacked = u
      /\ g2.list = g.list /\ Same(g, g2)
  BY <1>2, <1>3, <1>4 DEF RegSet, Same
<1> QED BY <1>2, <1>3, <1>5 DEF Distinct, Held

(***************************************************************************)
(* What an operation makes of one registration.                            *)
(***************************************************************************)

\* The part of RegOK that is about the object and not about its image.
ObjOK(g, l, n) ==
    /\ g \in RegSet /\ l \in LogSet /\ n \in CountSet /\ Distinct(g)
    /\ \A b \in Bundles : (b \in Held(g) \cup g.cache \/ n[b] > 0)
                          => l[b] = "DELIVERED"
    /\ ~g.kind.acking =>
           /\ Range(g.unacked) = {}
           /\ g.kind.replay # "ALL" =>
                  \A b \in Bundles : n[b] <= 1 /\ (n[b] > 0 => b \notin Range(g.list))

LEMMA ObjectOf ==
    ASSUME NEW g, NEW d, NEW l, NEW n, RegOK(g, d, l, n)
    PROVE  /\ ObjOK(g, l, n) /\ g \in RegSet /\ Distinct(g) /\ g.kind \in Kinds
           /\ d \in ImageSet /\ l \in LogSet /\ n \in CountSet
           /\ g.life # "live" => d = NoImage
<1>1. g \in RegSet /\ g.kind \in Kinds
  BY DEF RegOK, Typed, RegSet
<1> QED BY <1>1, Zenon DEF RegOK, Typed, Logged, Once, Saved, ObjOK

\* The image is written.
LEMMA Written ==
    ASSUME NEW g, NEW l, NEW n, ObjOK(g, l, n), g.life \notin {"none", "adding"},
           NEW d, d = IF g.life = "live" THEN Image(g) ELSE NoImage
    PROVE  RegOK(g, d, l, n)
<1>1. Typed(g, d, l, n) /\ Distinct(g) /\ Distinct(d)
  BY ImageFacts, NoImageFacts DEF ObjOK, Typed
<1>2. g \in RegSet
  BY DEF ObjOK
<1>3. Held(d) \subseteq Held(g) /\ Range(d.list) \subseteq Range(g.list)
      /\ Range(d.unacked) \subseteq Range(g.unacked)
  BY <1>2, ImageFacts, NoImageFacts
<1>4. Saved(g, d)
  BY <1>2, ImageFacts, NoImageFacts DEF Saved
<1>5. Logged(g, d, l, n)
  BY <1>3 DEF Logged, ObjOK
<1>6. Once(g, d, n)
  BY <1>3 DEF Once, ObjOK
<1>7. Fresh(g, l, n)
  BY DEF Fresh
<1> QED BY <1>1, <1>4, <1>5, <1>6, <1>7 DEF RegOK

\* Bundles leave lists, and the image is not written.
LEMMA Shrunk ==
    ASSUME NEW g, NEW d, NEW l, NEW n, RegOK(g, d, l, n),
           NEW g2 \in RegSet, Distinct(g2), Same(g, g2),
           Range(g2.list) \subseteq Range(g.list),
           Range(g2.unacked) \subseteq Range(g.unacked),
           Held(g2) \subseteq Held(g)
    PROVE  RegOK(g2, d, l, n)
<1>1. Typed(g2, d, l, n) /\ Distinct(d)
  BY DEF RegOK, Typed
<1>2. Logged(g2, d, l, n)
  BY DEF RegOK, Logged, Same
<1>3. Saved(g2, d)
  BY DEF RegOK, Saved, Same, Owed
<1>4. Fresh(g2, l, n)
  BY DEF RegOK, Fresh, Same
<1>5. Once(g2, d, n)
  BY DEF RegOK, Once, Same
<1> QED BY <1>1, <1>2, <1>3, <1>4, <1>5 DEF RegOK

\* Of the object nothing is left, or what was is out of the table.
LEMMA Gone ==
    ASSUME NEW g, NEW d, NEW l, NEW n, RegOK(g, d, l, n),
           NEW g2 \in RegSet, Distinct(g2), g2.kind = g.kind,
           g2.life \in {"removed", "freed"}, g2.cache \subseteq g.cache,
           Range(g2.list) \subseteq Range(g.list),
           Range(g2.unacked) \subseteq Range(g.unacked),
           Held(g2) \subseteq Held(g)
    PROVE  RegOK(g2, NoImage, l, n)
<1>1. ObjOK(g, l, n)
  BY ObjectOf
<1>2. ObjOK(g2, l, n)
  BY <1>1 DEF ObjOK
<1> QED BY <1>2, Written

\* Registration g becomes g2 in a step that may give it the bundles of A and
\* takes none that was delivered out of its log.
Moved(g, l, n, g2, l2, n2, A) ==
    /\ Held(g2) \subseteq Held(g) \cup A
    /\ \A b \in Bundles : /\ l[b] = "DELIVERED" => l2[b] = "DELIVERED"
                          /\ b \notin A /\ l[b] = "none" => l2[b] = "none"
                          /\ n[b] > 0 => n2[b] > 0
    /\ g.life # "none" => g2.kind = g.kind
    /\ Settled(g.life) => Settled(g2.life)

LEMMA NotMoved ==
    ASSUME NEW g, NEW l, NEW n, NEW A
    PROVE  Moved(g, l, n, g, l, n, A)
  BY DEF Moved

\* deliver_to_registration; acc is the state of a walk over bundles.
Accs == [reg : RegSet, log : LogSet, posted : Seq(EventSet)]

\* One bundle is delivered: new is what deliver_to_registration makes of acc.
Delivered(acc, n, b, r, new) ==
    /\ new \in Accs /\ ObjOK(new.reg, new.log, n)
    /\ new.reg.kind = acc.reg.kind /\ new.reg.life = acc.reg.life
    /\ Held(acc.reg) \subseteq Held(new.reg)
    /\ Held(new.reg) \subseteq Held(acc.reg) \cup {b}
    /\ \A x \in Bundles : x # b => new.log[x] = acc.log[x]
    /\ new.log[b] = "DELIVERED"
    /\ new.log = acc.log => new = acc
    /\ acc.log[b] # "DELIVERED" /\ acc.reg.kind.failure = "DEFER"
       => b \in Held(new.reg)
    /\ \/ new.posted = acc.posted
       \/ /\ new.posted = Append(acc.posted, Event("delivered", b, r))
          /\ acc.reg.kind.failure = "DROP"

LEMMA DeliverToRegistration ==
    ASSUME NEW acc \in Accs, NEW n, ObjOK(acc.reg, acc.log, n),
           NEW b \in Bundles, NEW r \in Regs
    PROVE  Delivered(acc, n, b, r, deliver_to_registration(acc, b, r))
<1> DEFINE new == deliver_to_registration(acc, b, r)
<1> DEFINE g == acc.reg
           l == acc.log
<1>1. g \in RegSet /\ l \in LogSet /\ Distinct(g) /\ acc.posted \in Seq(EventSet)
  BY DEF Accs, ObjOK
<1>2. CASE l[b] = "DELIVERED"
  BY <1>2 DEF deliver_to_registration, Delivered
<1>3. CASE l[b] # "DELIVERED"
  <2>1. b \notin g.cache /\ b \notin Held(g) /\ ~(n[b] > 0)
    BY <1>3 DEF ObjOK
  <2> DEFINE h  == [g EXCEPT !.cache = @ \cup {b}]
             g2 == deliver_bundle(h, b)
             l2 == [l EXCEPT ![b] = "DELIVERED"]
             p2 == IF ~Drops(g) THEN acc.posted
                   ELSE Append(acc.posted, Event("delivered", b, r))
  <2>2. new = [reg |-> g2, log |-> l2, posted |-> p2]
    BY <1>3, <2>1 DEF deliver_to_registration
  <2>3. /\ h \in RegSet /\ h.list = g.list /\ h.unacked = g.unacked
        /\ h.acked = g.acked /\ h.kind = g.kind /\ h.life = g.life
        /\ h.active = g.active /\ h.cache = g.cache \cup {b}
    BY <1>1 DEF RegSet
  <2> HIDE DEF h
  <2>4. Distinct(h) /\ Held(h) = Held(g) /\ (Drops(h) <=> Drops(g))
    BY <1>1, <2>3 DEF Distinct, Held, Drops
  <2>5. /\ g2 \in RegSet /\ Distinct(g2) /\ Same(h, g2)
        /\ Held(h) \subseteq Held(g2) /\ Held(g2) \subseteq Held(h) \cup {b}
        /\ Range(g2.list) \subseteq Range(h.list) \cup {b}
        /\ g2.unacked = h.unacked
        /\ ~Drops(h) => b \in Held(g2)
    BY <2>1, <2>3, <2>4, DeliverBundle
  <2> HIDE DEF g2
  <2>6. /\ l2 \in LogSet /\ l2[b] = "DELIVERED"
        /\ \A x \in Bundles : x # b => l2[x] = l[x]
    BY <1>1 DEF LogSet, Log
  <2>7. Event("delivered", b, r) \in EventSet
    BY DEF EventSet, BundleTypes
  <2>8. p2 \in Seq(EventSet)
    BY <1>1, <2>7
  <2> HIDE DEF l2, p2
  <2>9. new \in Accs /\ new.reg = g2 /\ new.log = l2 /\ new.posted = p2
    BY <2>2, <2>5, <2>6, <2>8 DEF Accs
  <2>10. ObjOK(g2, l2, n)
    <3>1. n \in CountSet
      BY DEF ObjOK
    <3>2. \A x \in Bundles : (x \in Held(g2) \cup g2.cache \/ n[x] > 0)
                             => l2[x] = "DELIVERED"
      BY <2>3, <2>4, <2>5, <2>6 DEF ObjOK, Same
    <3>3. g2.kind = g.kind /\ g2.unacked = g.unacked
          /\ Range(g2.list) \subseteq Range(g.list) \cup {b}
      BY <2>3, <2>5 DEF Same
    <3>4. ASSUME ~g2.kind.acking
          PROVE  Range(g2.unacked) = {}
      BY <3>3, <3>4 DEF ObjOK
    <3>5. ASSUME ~g2.kind.acking, g2.kind.replay # "ALL", NEW x \in Bundles
          PROVE  n[x] <= 1 /\ (n[x] > 0 => x \notin Range(g2.list))
      BY <2>1, <3>3, <3>5 DEF ObjOK
    <3> QED BY <2>5, <2>6, <3>1, <3>2, <3>4, <3>5 DEF ObjOK
  <2>11. g.kind.failure = "DEFER" => ~Drops(g)
    BY DEF Drops
  <2>12. \/ p2 = acc.posted
         \/ /\ p2 = Append(acc.posted, Event("delivered", b, r))
            /\ g.kind.failure = "DROP"
    BY DEF Drops, p2
  <2>13. l2 # l
    BY <1>3, <2>6
  <2> HIDE DEF new
  <2>14. Delivered(acc, n, b, r, new)
    BY <2>3, <2>4, <2>5, <2>6, <2>9, <2>10, <2>11, <2>12, <2>13
       DEF Same, Delivered
  <2> QED BY <2>14 DEF new
<1> QED BY <1>2, <1>3

\* What no delivery destroys, the walk over the pending bundles keeps: X is the
\* set of the states that have the property.
LEMMA DeliverEachKeeps ==
    ASSUME NEW X, NEW start \in X, NEW bundles \in Seq(Bundles), NEW r,
           \A x \in X, b \in Range(bundles) : deliver_to_registration(x, b, r) \in X
    PROVE  DeliverEach(start, bundles, r) \in X
<1> DEFINE n == Len(bundles)
           F == [i \in 1 .. n |->
                    [x \in X |-> deliver_to_registration(x, bundles[i], r)]]
           after == CHOOSE after : after =
                      [i \in 0 .. n |->
                          IF i = 0 THEN start
                          ELSE deliver_to_registration(after[i - 1], bundles[i], r)]
<1>1. n \in Nat /\ \A i \in 1 .. n : bundles[i] \in Range(bundles)
  BY DEF Range
<1>2. \A x \in X, b \in Range(bundles) : deliver_to_registration(x, b, r) \in X
  OBVIOUS
<1>3. F \in [1 .. n -> [X -> X]]
  BY <1>1, <1>2
<1>4. PICK g \in [0 .. n -> X] : LoopFrom(start, F, n, g)
  <2> HIDE DEF F, n, after
  <2> QED BY <1>1, <1>3, LoopRuns
<1>5. g = [i \in 0 .. n |->
              IF i = 0 THEN start
              ELSE deliver_to_registration(g[i - 1], bundles[i], r)]
  <2>1. ASSUME NEW i \in 0 .. n, i # 0
        PROVE  F[i][g[i - 1]] = deliver_to_registration(g[i - 1], bundles[i], r)
    <3>1. i \in 1 .. n /\ i - 1 \in 0 .. n
      BY <1>1, <2>1
    <3>2. g[i - 1] \in X
      BY <3>1
    <3> QED BY <3>1, <3>2
  <2>2. \A i \in 0 .. n : i # 0 => i \in 1 .. n
    BY <1>1
  <2>3. 0 \in 0 .. n
    BY <1>1
  <2> HIDE DEF F, n
  <2> QED BY <1>4, <2>1, <2>2, <2>3 DEF LoopFrom
<1>6. after = [i \in 0 .. n |->
                  IF i = 0 THEN start
                  ELSE deliver_to_registration(after[i - 1], bundles[i], r)]
  <2> HIDE DEF n, F
  <2> QED BY <1>5, Zenon
<1>7. DeliverEach(start, bundles, r) = after[n]
  BY DEF DeliverEach
<1> HIDE DEF after
<1>8. \A i \in 0 .. n : after[i] \in X
  <2> DEFINE T == {i \in 0 .. n : after[i] \in X}
  <2>1. 0 \in T
    BY <1>1, <1>6
  <2>2. \A i \in 0 .. n - 1 : i \in T => i + 1 \in T
    <3> SUFFICES ASSUME NEW i \in 0 .. n - 1, after[i] \in X
                 PROVE  i + 1 \in 0 .. n /\ after[i + 1] \in X
      OBVIOUS
    <3>1. i + 1 \in 1 .. n /\ i + 1 \in 0 .. n /\ i + 1 # 0 /\ (i + 1) - 1 = i
      BY <1>1
    <3> HIDE DEF n
    <3>2. after[i + 1] = deliver_to_registration(after[i], bundles[i + 1], r)
      BY <1>6, <3>1
    <3> QED BY <3>1, <3>2, <1>1, <1>2
  <2> HIDE DEF n, T
  <2>3. \A i \in 0 .. n : i \in T
    BY <1>1, <2>1, <2>2, UpTo
  <2> QED BY <2>3 DEF T
<1>9. after[n] \in X
  BY <1>1, <1>8
<1> QED BY <1>7, <1>9

\* A new registration gets the bundles of A and no others.
LEMMA DeliverEachFacts ==
    ASSUME NEW g, NEW l, NEW n, ObjOK(g, l, n),
           \A b \in Bundles : l[b] # "DELIVERED",
           NEW bundles \in Seq(Bundles), NEW r \in Regs,
           NEW new, new = DeliverEach([reg |-> g, log |-> l, posted |-> <<>>],
                                      bundles, r)
    PROVE  /\ new \in Accs /\ ObjOK(new.reg, new.log, n)
           /\ new.reg.kind = g.kind /\ new.reg.life = g.life
           /\ Held(new.reg) \subseteq Held(g) \cup Range(bundles)
           /\ \A b \in Bundles :
                 /\ b \notin Range(bundles) => new.log[b] = l[b]
                 /\ new.log[b] = "DELIVERED" /\ g.kind.failure = "DEFER"
                    => b \in Held(new.reg)
           /\ \A i \in DOMAIN new.posted : \E b \in Range(bundles) :
                 /\ new.posted[i] = Event("delivered", b, r)
                 /\ g.kind.failure = "DROP" /\ new.log[b] = "DELIVERED"
<1> DEFINE Posted(acc) == \A i \in DOMAIN acc.posted : \E b \in Range(bundles) :
                 /\ acc.posted[i] = Event("delivered", b, r)
                 /\ g.kind.failure = "DROP" /\ acc.log[b] = "DELIVERED"
           P(acc) ==
              /\ ObjOK(acc.reg, acc.log, n)
              /\ acc.reg.kind = g.kind /\ acc.reg.life = g.life
              /\ Held(acc.reg) \subseteq Held(g) \cup Range(bundles)
              /\ \A b \in Bundles :
                    /\ b \notin Range(bundles) => acc.log[b] = l[b]
                    /\ acc.log[b] = "DELIVERED" /\ g.kind.failure = "DEFER"
                       => b \in Held(acc.reg)
              /\ Posted(acc)
           X == {acc \in Accs : P(acc)}
           start == [reg |-> g, log |-> l, posted |-> <<>>]
<1>1. start \in X
  <2>1. g \in RegSet /\ l \in LogSet
    BY DEF ObjOK
  <2>2. start \in Accs /\ start.reg = g /\ start.log = l /\ DOMAIN start.posted = {}
    BY <2>1, EmptyList DEF Accs
  <2> QED BY <2>2
<1>2. ASSUME NEW x \in X, NEW b \in Range(bundles)
      PROVE  deliver_to_registration(x, b, r) \in X
  <2> DEFINE y == deliver_to_registration(x, b, r)
  <2>1. b \in Bundles
    BY <1>2 DEF Range
  <2>2. x \in Accs /\ P(x)
    OBVIOUS
  <2>3. Delivered(x, n, b, r, y)
    <3>1. ObjOK(x.reg, x.log, n)
      BY <2>2
    <3> HIDE DEF P, X
    <3> QED BY <2>1, <2>2, <3>1, DeliverToRegistration
  <2> HIDE DEF y
  <2>4. Posted(y)
    <3>1. \A z \in Range(bundles) : z \in Bundles /\ (x.log[z] = "DELIVERED"
                                                      => y.log[z] = "DELIVERED")
      BY <2>3 DEF Range, Delivered
    <3>2. CASE y.posted = x.posted
      BY <2>2, <3>1, <3>2
    <3>3. CASE y.posted = Append(x.posted, Event("delivered", b, r))
                /\ x.reg.kind.failure = "DROP"
      <4>1. x.posted \in Seq(EventSet)
        BY <2>2 DEF Accs
      <4>2. Event("delivered", b, r) \in EventSet
        BY <2>1 DEF EventSet, BundleTypes
      <4>3. ASSUME NEW i \in DOMAIN y.posted
            PROVE  (i \in DOMAIN x.posted /\ y.posted[i] = x.posted[i])
                   \/ y.posted[i] = Event("delivered", b, r)
        BY <3>3, <4>1, <4>2, AppendOf
      <4> QED BY <2>2, <2>3, <3>1, <3>3, <4>3 DEF Delivered
    <3> QED BY <2>3, <3>2, <3>3 DEF Delivered
  <2>5. P(y)
    <3>1. Held(y.reg) \subseteq Held(g) \cup Range(bundles)
      BY <2>2, <2>3 DEF Delivered
    <3>2. \A z \in Bundles :
             /\ z \notin Range(bundles) => y.log[z] = l[z]
             /\ y.log[z] = "DELIVERED" /\ g.kind.failure = "DEFER"
                => z \in Held(y.reg)
      BY <2>1, <2>2, <2>3 DEF Delivered
    <3> HIDE DEF Posted
    <3> QED BY <2>2, <2>3, <2>4, <3>1, <3>2 DEF Delivered
  <2> HIDE DEF P
  <2> QED BY <2>3, <2>5 DEF y, Delivered
<1>3. new \in X
  <2> HIDE DEF X, start
  <2>1. new = DeliverEach(start, bundles, r)
    BY DEF start
  <2> QED BY <1>1, <1>2, <2>1, DeliverEachKeeps
<1> QED BY <1>3

(***************************************************************************)
(* The event queue.                                                        *)
(***************************************************************************)
LEMMA EventFacts ==
    ASSUME NEW e \in EventSet
    PROVE  /\ e.b \in Bundles \cup {0} /\ e.r \in Regs \cup {0}
           /\ e.type \in {"received", "expired", "free"} \cup BundleTypes
                         \cup RegTypes
           /\ e.type \notin RegTypes => e.b \in Bundles
           /\ e.type \in BundleTypes \cup RegTypes => e.r \in Regs
           /\ e.type = "received" => e.src \in {"peer", "store"}
           /\ FromPeer(e) => e = Received(e.b, "peer")
<1>1. CASE e \in {Received(b, src) : b \in Bundles, src \in {"peer", "store"}}
  BY <1>1 DEF Received, BundleTypes, RegTypes, FromPeer
<1>2. CASE e \in {Event(t, b, r) : t \in BundleTypes, b \in Bundles, r \in Regs}
  BY <1>2 DEF Event, BundleTypes, RegTypes, FromPeer
<1>3. CASE e \in {BundleEvent(t, b) : t \in {"expired", "free"}, b \in Bundles}
  BY <1>3 DEF BundleEvent, Event, BundleTypes, RegTypes, FromPeer
<1>4. CASE e \in {RegEvent(t, r) : t \in RegTypes, r \in Regs}
  BY <1>4 DEF RegEvent, Event, BundleTypes, RegTypes, FromPeer
<1> QED BY <1>1, <1>2, <1>3, <1>4 DEF EventSet

\* The fields of the events that are posted.
LEMMA EventFields ==
    /\ \A b \in Bundles, s \in {"peer", "store"} :
          LET e == Received(b, s)
          IN e \in EventSet /\ e.type = "received" /\ e.b = b /\ e.src = s
    /\ \A t \in BundleTypes, b \in Bundles, r \in Regs :
          LET e == Event(t, b, r)
          IN e \in EventSet /\ e.type = t /\ e.b = b /\ e.r = r
    /\ \A t \in {"expired", "free"}, b \in Bundles :
          LET e == BundleEvent(t, b)
          IN e \in EventSet /\ e.type = t /\ e.b = b
    /\ \A t \in RegTypes, r \in Regs :
          LET e == RegEvent(t, r)
          IN e \in EventSet /\ e.type = t /\ e.r = r /\ e.b = 0
<1>1. \A b \in Bundles, s \in {"peer", "store"} :
          LET e == Received(b, s)
          IN e \in EventSet /\ e.type = "received" /\ e.b = b /\ e.src = s
  BY DEF EventSet, Received
<1>2. \A t \in BundleTypes, b \in Bundles, r \in Regs :
          LET e == Event(t, b, r)
          IN e \in EventSet /\ e.type = t /\ e.b = b /\ e.r = r
  BY DEF EventSet, Event
<1>3. \A t \in {"expired", "free"}, b \in Bundles :
          LET e == BundleEvent(t, b)
          IN e \in EventSet /\ e.type = t /\ e.b = b
  BY DEF EventSet, BundleEvent, Event
<1>4. \A t \in RegTypes, r \in Regs :
          LET e == RegEvent(t, r)
          IN e \in EventSet /\ e.type = t /\ e.r = r /\ e.b = 0
  <2>1. \A t \in RegTypes, r \in Regs : RegEvent(t, r) \in EventSet
    BY DEF EventSet
  <2>2. \A t, r : LET e == RegEvent(t, r) IN e.type = t /\ e.r = r /\ e.b = 0
    BY DEF RegEvent, Event
  <2> QED BY <2>1, <2>2
<1> QED BY <1>1, <1>2, <1>3, <1>4, Zenon

\* A step that may make bundles of A pending, stored, held or logged, may take
\* those of R out of the store, and may bring registrations of N into the table.
Frame(A, R, N) ==
    /\ \A r \in Regs : Moved(reg[r], fwdlog[r], got[r],
                             reg'[r], fwdlog'[r], got'[r], A)
    /\ over \subseteq over' /\ arrived <= arrived' /\ arrived' \in Nat
    /\ stored \ R \subseteq stored' /\ stored' \subseteq stored \cup A
    /\ pending' \subseteq pending \cup A
    /\ \A r \in Regs \ N : reg[r].life = "adding" => reg'[r].life = "adding"

\* Such a step does not concern event e.
Spared(e, A, R, N) ==
    /\ FromPeer(e) \/ e.type = "free" => e.b \notin A
    /\ FromStore(e) \/ e.type \in {"deliver", "acking"} => e.b \notin R
    /\ e.type = "added" => e.r \notin N

\* What has been handed over stays so.
LEMMA HandedOverKept ==
    ASSUME RegInv, NEW A, NEW R, NEW N, Frame(A, R, N),
           NEW r \in Regs, NEW b \in Bundles, HandedOver(r, b)
    PROVE  HandedOver(r, b)'
<1>1. RegOK(reg[r], disk[r], fwdlog[r], got[r])
  BY DEF RegInv
<1>2. fwdlog[r][b] = "DELIVERED"
  BY <1>1 DEF HandedOver, RegOK, Logged
<1>3. reg[r].life # "none"
  BY <1>1, <1>2 DEF RegOK, Fresh
<1>4. Moved(reg[r], fwdlog[r], got[r], reg'[r], fwdlog'[r], got'[r], A)
  BY DEF Frame
<1>5. \/ got'[r][b] > 0
      \/ reg'[r].kind.failure = "DROP" /\ fwdlog'[r][b] = "DELIVERED"
  BY <1>2, <1>3, <1>4 DEF Moved, HandedOver
<1> QED BY <1>5 DEF HandedOver

LEMMA EventKept ==
    ASSUME RegInv, StoreInv, NEW A, NEW R, NEW N, Frame(A, R, N),
           NEW e \in Good, Spared(e, A, R, N)
    PROVE  e \in Good'
<1>1. e \in EventSet
  BY DEF Good
<1>2. /\ e.b \in Bundles \cup {0} /\ e.b <= arrived
      /\ e.type \notin RegTypes => e.b \in Bundles
      /\ e.type \in BundleTypes \cup RegTypes => e.r \in Regs
  BY <1>1, EventFacts DEF Good
<1>3. arrived \in Nat /\ arrived' \in Nat /\ arrived <= arrived' /\ e.b \in Int
  <2>1. arrived \in 0 .. NBundles /\ NBundles \in Nat
    BY DeliveryAssumption DEF StoreInv
  <2>2. \A b \in Bundles : b \in Nat
    BY BundlesFinite
  <2>3. arrived' \in Nat /\ arrived <= arrived'
    BY DEF Frame
  <2> QED BY <1>2, <2>1, <2>2, <2>3
<1>4. e.b <= arrived'
  BY <1>2, <1>3
<1>5. \A r \in Regs : Moved(reg[r], fwdlog[r], got[r],
                            reg'[r], fwdlog'[r], got'[r], A)
  BY DEF Frame
<1>6. FromPeer(e) => e.b \notin stored' /\ \A r \in Regs : fwdlog'[r][e.b] = "none"
  <2> SUFFICES ASSUME FromPeer(e)
               PROVE  e.b \notin stored' /\ \A r \in Regs : fwdlog'[r][e.b] = "none"
    OBVIOUS
  <2>1. e.b \in Bundles /\ e.b \notin A /\ e.b \notin stored
        /\ \A r \in Regs : fwdlog[r][e.b] = "none"
    BY <1>2 DEF FromPeer, RegTypes, Spared, Good
  <2> QED BY <2>1, <1>5 DEF Moved, Frame
<1>7. /\ FromStore(e) \/ e.type \in {"deliver", "acking"} => e.b \in stored'
      /\ e.type = "acking" => fwdlog'[e.r][e.b] = "DELIVERED"
  <2>1. FromStore(e) \/ e.type \in {"deliver", "acking"} => e.b \in stored'
    BY DEF Spared, Good, Frame
  <2>2. ASSUME e.type = "acking" PROVE fwdlog'[e.r][e.b] = "DELIVERED"
    <3>1. e.r \in Regs /\ e.b \in Bundles /\ fwdlog[e.r][e.b] = "DELIVERED"
      BY <1>2, <2>2 DEF RegTypes, BundleTypes, Good
    <3> QED BY <1>5, <3>1 DEF Moved
  <2> QED BY <2>1, <2>2
<1>8. e.type = "delivered" => HandedOver(e.r, e.b)'
  <2> SUFFICES ASSUME e.type = "delivered" PROVE HandedOver(e.r, e.b)'
    OBVIOUS
  <2>1. e.r \in Regs /\ e.b \in Bundles /\ HandedOver(e.r, e.b)
    BY <1>2 DEF RegTypes, BundleTypes, Good
  <2> QED BY <2>1, HandedOverKept
<1>9. e.type = "expired" => e.b \in over'
  BY DEF Good, Frame
<1>10. e.type = "free" => e.b \notin pending' /\ \A r \in Regs : e.b \notin Held(reg'[r])
  BY <1>5 DEF Good, Frame, Moved, Spared
<1>11. e.type = "added" => reg'[e.r].life = "adding"
  BY <1>2 DEF Good, Frame, Spared, RegTypes
<1>12. e.type = "regdelete" => Settled(reg'[e.r].life)
  BY <1>2, <1>5 DEF Good, Moved, RegTypes
<1> QED BY <1>1, <1>4, <1>6, <1>7, <1>8, <1>9, <1>10, <1>11, <1>12 DEF Good

\* What is on a queue is of the kind its elements are.
LEMMA Retyped ==
    ASSUME NEW S, NEW T, NEW q \in Seq(S), \A e \in Range(q) : e \in T
    PROVE  q \in Seq(T)
<1>1. \A i \in DOMAIN q : q[i] \in Range(q)
  BY DEF Range
<1>2. \A i \in DOMAIN q : q[i] \in T
  BY <1>1
<1> QED BY <1>2

LEMMA QueueKept ==
    ASSUME RegInv, StoreInv, NEW A, NEW R, NEW N, Frame(A, R, N),
           NEW q \in Seq(Good), \A e \in Range(q) : Spared(e, A, R, N)
    PROVE  q \in Seq(Good')
<1>1. \A e \in Range(q) : e \in Good
  BY DEF Range
<1>2. \A e \in Range(q) : e \in Good'
  BY <1>1, EventKept
<1> QED BY <1>2, Retyped

LEMMA Popped ==
    ASSUME NEW S, NEW q \in Seq(S), q # <<>>, NoClash(q)
    PROVE  /\ Tail(q) \in Seq(S) /\ NoClash(Tail(q)) /\ Head(q) \in S
           /\ Range(q) = Range(Tail(q)) \cup {Head(q)}
           /\ \A e \in Range(Tail(q)) : ~Clash(e, Head(q)) /\ ~Clash(Head(q), e)
           /\ Range(Tail(q)) \subseteq S
<1>1. /\ Tail(q) \in Seq(S)
      /\ DOMAIN q = 1 .. Len(q) /\ DOMAIN Tail(q) = 1 .. Len(q) - 1
      /\ Len(q) \in Nat
      /\ Head(q) = q[1] /\ Head(q) \in S /\ 1 \in DOMAIN q
  BY TailOf
<1>2. \A i \in DOMAIN Tail(q) : /\ i + 1 \in DOMAIN q /\ i + 1 # 1
                                /\ Tail(q)[i] = q[i + 1]
  BY <1>1, TailOf
<1> DEFINE t == Tail(q)
           h == Head(q)
<1>3. NoClash(t)
  <2> SUFFICES ASSUME NEW i \in DOMAIN t, NEW j \in DOMAIN t, i # j
               PROVE  ~Clash(t[i], t[j])
    BY DEF NoClash
  <2>1. i + 1 \in DOMAIN q /\ j + 1 \in DOMAIN q /\ i + 1 # j + 1
    BY <1>1, <1>2
  <2> QED BY <1>2, <2>1 DEF NoClash
<1>4. \A i \in DOMAIN t : ~Clash(t[i], h) /\ ~Clash(h, t[i])
  BY <1>1, <1>2 DEF NoClash
<1> HIDE DEF h
<1>5. \A e \in Range(t) : ~Clash(e, h) /\ ~Clash(h, e)
  <2> HIDE DEF t
  <2> QED BY <1>4 DEF Range
<1>6. Range(q) = Range(Tail(q)) \cup {Head(q)}
  BY TailRange
<1>7. Range(t) \subseteq S
  <2>1. t \in Seq(S)
    BY <1>1
  <2> HIDE DEF t
  <2> QED BY <2>1 DEF Range
<1> QED BY <1>1, <1>3, <1>5, <1>6, <1>7 DEF h

LEMMA NoClashConcat ==
    ASSUME NEW S, NEW p \in Seq(S), NEW q \in Seq(S), NoClash(p), NoClash(q),
           \A e \in Range(p), f \in Range(q) : ~Clash(e, f) /\ ~Clash(f, e)
    PROVE  NoClash(p \o q)
<1> DEFINE c == p \o q
<1> SUFFICES ASSUME NEW i \in DOMAIN c, NEW j \in DOMAIN c, i # j
             PROVE  ~Clash(c[i], c[j])
  BY DEF NoClash
<1>1. /\ DOMAIN c = 1 .. Len(p) + Len(q) /\ Len(p) \in Nat /\ Len(q) \in Nat
      /\ i \in Int /\ j \in Int
  OBVIOUS
<1>2. \A k \in DOMAIN c : \/ k \in DOMAIN p /\ c[k] = p[k]
                          \/ k - Len(p) \in DOMAIN q /\ c[k] = q[k - Len(p)]
  BY ConcatOf
<1> HIDE DEF c
<1>3. \A k \in DOMAIN p, m \in DOMAIN q : ~Clash(p[k], q[m]) /\ ~Clash(q[m], p[k])
  BY DEF Range
<1>4. i - Len(p) # j - Len(p)
  BY <1>1
<1> QED BY <1>2, <1>3, <1>4 DEF NoClash

LEMMA NoClashOne ==
    ASSUME NEW S, NEW q \in Seq(S), NEW e \in S, NoClash(q),
           \A f \in Range(q) : ~Clash(e, f) /\ ~Clash(f, e)
    PROVE  /\ Append(q, e) \in Seq(S) /\ NoClash(Append(q, e))
           /\ Range(Append(q, e)) = Range(q) \cup {e}
           /\ <<e>> \o q \in Seq(S) /\ NoClash(<<e>> \o q)
           /\ Range(<<e>> \o q) = Range(q) \cup {e}
<1>1. Append(q, e) = q \o <<e>> /\ <<e>> \in Seq(S)
  OBVIOUS
<1>2. Range(<<e>>) = {e} /\ NoClash(<<e>>)
  BY DEF Range, NoClash
<1>3. NoClash(q \o <<e>>) /\ NoClash(<<e>> \o q)
  BY <1>1, <1>2, NoClashConcat
<1>4. /\ q \o <<e>> \in Seq(S) /\ Range(q \o <<e>>) = Range(q) \cup {e}
      /\ <<e>> \o q \in Seq(S) /\ Range(<<e>> \o q) = {e} \cup Range(q)
  <2> DEFINE one == <<e>>
  <2>1. one \in Seq(S) /\ Range(one) = {e}
    BY <1>1, <1>2
  <2> HIDE DEF one
  <2>2. /\ q \o one \in Seq(S) /\ Range(q \o one) = Range(q) \cup {e}
        /\ one \o q \in Seq(S) /\ Range(one \o q) = {e} \cup Range(q)
    BY <2>1, ConcatRange
  <2> QED BY <2>2 DEF one
<1> QED BY <1>1, <1>3, <1>4



\* Freed posts an event for each stored bundle that nothing refers to.
LEMMA FreedFacts ==
    ASSUME arrived' \in Nat, stored' \subseteq 1 .. arrived', stored' \subseteq Bundles,
           NEW q \in Seq(Good'), NoClash(q)
    PROVE  /\ Freed(q) \in Seq(Good') /\ NoClash(Freed(q))
           /\ Range(q) \subseteq Range(Freed(q))
<1> DEFINE held == pending' \cup (UNION {Held(reg'[r]) : r \in Regs})
                      \cup {q[k].b : k \in {j \in DOMAIN q : q[j].type # "ack"}}
           U == stored' \ held
           free == InOrder(U)
           p == [k \in DOMAIN free |-> BundleEvent("free", free[k])]
<1>1. Freed(q) = q \o p
  BY DEF Freed
<1>2. \A b \in U : /\ b \in Bundles /\ b <= arrived' /\ b \notin pending'
                   /\ \A r \in Regs : b \notin Held(reg'[r])
                   /\ \A k \in DOMAIN q : q[k].type # "ack" => q[k].b # b
  <2> SUFFICES ASSUME NEW b \in U
               PROVE  /\ b \in Bundles /\ b <= arrived' /\ b \notin pending'
                      /\ \A r \in Regs : b \notin Held(reg'[r])
                      /\ \A k \in DOMAIN q : q[k].type # "ack" => q[k].b # b
    OBVIOUS
  <2>1. b \in stored' /\ b \notin held
    OBVIOUS
  <2>2. \A r \in Regs : b \notin Held(reg'[r])
    <3>1. \A r \in Regs : Held(reg'[r]) \subseteq held
      <4> SUFFICES ASSUME NEW r \in Regs, NEW x \in Held(reg'[r])
                   PROVE  x \in UNION {Held(reg'[i]) : i \in Regs}
        OBVIOUS
      <4> QED OBVIOUS
    <3> QED BY <2>1, <3>1
  <2>3. \A k \in DOMAIN q : q[k].type # "ack" => q[k].b # b
    BY <2>1, Zenon
  <2>4. b \in Bundles /\ b \notin pending'
    BY <2>1
  <2>5. b <= arrived'
    <3> HIDE DEF U, held
    <3> QED BY <2>1
  <2> QED BY <2>2, <2>3, <2>4, <2>5
<1>3. U \in SUBSET Nat /\ IsFiniteSet(U)
  <2>1. U \subseteq Bundles
    OBVIOUS
  <2> HIDE DEF U
  <2> QED BY <2>1, BundlesFinite, FS_Subset
<1> HIDE DEF U
<1>4. /\ free \in Seq(U) /\ DOMAIN free = 1 .. Len(free) /\ Len(free) \in Nat
      /\ IsInjective(free)
  BY <1>3, InOrderFacts
<1> HIDE DEF free
<1>5. \A k \in DOMAIN free : free[k] \in U
  BY <1>4
<1>6. \A b \in U : LET e == BundleEvent("free", b)
                   IN e \in Good' /\ e.type = "free" /\ e.b = b
  <2> SUFFICES ASSUME NEW b \in U, NEW e, e = BundleEvent("free", b)
               PROVE  e \in Good' /\ e.type = "free" /\ e.b = b
    BY Zenon
  <2>1. e \in EventSet /\ e.type = "free" /\ e.b = b
    BY <1>2, EventFields
  <2>2. ~FromPeer(e) /\ ~FromStore(e)
    BY <2>1 DEF FromPeer, FromStore
  <2> QED BY <1>2, <2>1, <2>2 DEF Good
<1>7. /\ DOMAIN p = DOMAIN free
      /\ \A k \in DOMAIN p : p[k] \in Good' /\ p[k].type = "free" /\ p[k].b \in U
  BY <1>5, <1>6
<1> HIDE DEF p
<1>8. p \in Seq(Good')
  <2>1. p = [k \in 1 .. Len(free) |-> p[k]]
    BY <1>4, <1>7 DEF p
  <2> QED BY <1>4, <1>7, <2>1
<1>9. \A e \in Range(p) : e.type = "free" /\ e.b \in U
  BY <1>7 DEF Range
<1>10. NoClash(p)
  BY <1>7 DEF NoClash, Clash, FromPeer
<1>11. \A e \in Range(q), f \in Range(p) : ~Clash(e, f) /\ ~Clash(f, e)
  <2> SUFFICES ASSUME NEW e \in Range(q), NEW f \in Range(p)
               PROVE  ~Clash(e, f) /\ ~Clash(f, e)
    OBVIOUS
  <2>1. f.type = "free" /\ (e.type # "ack" => e.b # f.b)
    BY <1>2, <1>9 DEF Range
  <2> QED BY <2>1 DEF Clash, FromPeer
<1>12. NoClash(q \o p)
  BY <1>8, <1>10, <1>11, NoClashConcat
<1>13. q \o p \in Seq(Good') /\ Range(q) \subseteq Range(q \o p)
  BY <1>8, ConcatRange
<1> QED BY <1>1, <1>12, <1>13

(***************************************************************************)
(* A step that concerns one registration and gives it none but stored      *)
(* bundles: everything but the queue.                                      *)
(***************************************************************************)
Calm == UNCHANGED <<early, stored, pending, custody, arrived, over>>

\* Registration r becomes g, its image d, its log l, its counts n, and what was
\* acknowledged and peeked at a and p.
RegStep(r, g, d, l, n, a, p, A) ==
    /\ Calm /\ A \subseteq stored
    /\ reg' = [reg EXCEPT ![r] = g] /\ disk' = [disk EXCEPT ![r] = d]
    /\ fwdlog' = [fwdlog EXCEPT ![r] = l] /\ got' = [got EXCEPT ![r] = n]
    /\ ackSent' = [ackSent EXCEPT ![r] = a] /\ a \subseteq Bundles
    /\ peeked' = [peeked EXCEPT ![r] = p] /\ p \subseteq Bundles
    /\ RegOK(g, d, l, n)
    /\ Moved(reg[r], fwdlog[r], got[r], g, l, n, A)
    /\ KeptOK(reg[r], disk[r], fwdlog[r], got[r], ackSent[r], peeked[r], Excused)
           => KeptOK(g, d, l, n, a, p, Excused)

LEMMA OneRegStep ==
    ASSUME RegInv, StoreInv, KeptInv, NEW r \in Regs, NEW A,
           NEW g, NEW d, NEW l, NEW n, NEW a, NEW p,
           RegStep(r, g, d, l, n, a, p, A)
    PROVE  /\ RegInv' /\ StoreInv' /\ KeptInv'
           /\ Frame(A, {}, {r})
           /\ (reg[r].life = "adding" => g.life = "adding") => Frame(A, {}, {})
<1>0. /\ Calm /\ A \subseteq stored
      /\ reg' = [reg EXCEPT ![r] = g] /\ disk' = [disk EXCEPT ![r] = d]
      /\ fwdlog' = [fwdlog EXCEPT ![r] = l] /\ got' = [got EXCEPT ![r] = n]
      /\ ackSent' = [ackSent EXCEPT ![r] = a] /\ a \in SUBSET Bundles
      /\ peeked' = [peeked EXCEPT ![r] = p] /\ p \in SUBSET Bundles
      /\ RegOK(g, d, l, n)
      /\ Moved(reg[r], fwdlog[r], got[r], g, l, n, A)
  BY DEF RegStep
<1>1. /\ reg \in [Regs -> RegSet] /\ disk \in [Regs -> ImageSet]
      /\ fwdlog \in [Regs -> LogSet] /\ got \in [Regs -> CountSet]
      /\ ackSent \in [Regs -> SUBSET Bundles] /\ peeked \in [Regs -> SUBSET Bundles]
  BY DEF RegInv, StoreInv
<1>2. /\ reg'[r] = g /\ disk'[r] = d /\ fwdlog'[r] = l /\ got'[r] = n
      /\ ackSent'[r] = a /\ peeked'[r] = p
  BY <1>0, <1>1
<1>3. \A x \in Regs : x # r => /\ reg'[x] = reg[x] /\ disk'[x] = disk[x]
                              /\ fwdlog'[x] = fwdlog[x] /\ got'[x] = got[x]
                              /\ ackSent'[x] = ackSent[x] /\ peeked'[x] = peeked[x]
  BY <1>0, <1>1
<1>4. g \in RegSet /\ d \in ImageSet /\ l \in LogSet /\ n \in CountSet
  BY <1>0 DEF RegOK, Typed
<1>5. /\ reg' \in [Regs -> RegSet] /\ disk' \in [Regs -> ImageSet]
      /\ fwdlog' \in [Regs -> LogSet] /\ got' \in [Regs -> CountSet]
      /\ ackSent' \in [Regs -> SUBSET Bundles] /\ peeked' \in [Regs -> SUBSET Bundles]
  BY <1>0, <1>1, <1>4
<1>6. \A x \in Regs : RegOK(reg'[x], disk'[x], fwdlog'[x], got'[x])
  BY <1>0, <1>2, <1>3 DEF RegInv
<1>7. RegInv'
  BY <1>5, <1>6 DEF RegInv
<1>8. \A x \in Regs : Moved(reg[x], fwdlog[x], got[x],
                            reg'[x], fwdlog'[x], got'[x], A)
  <2> SUFFICES ASSUME NEW x \in Regs
               PROVE  Moved(reg[x], fwdlog[x], got[x],
                            reg'[x], fwdlog'[x], got'[x], A)
    OBVIOUS
  <2>1. CASE x = r
    BY <1>0, <1>2, <2>1
  <2>2. CASE x # r
    BY <1>3, <2>2, NotMoved
  <2> QED BY <2>1, <2>2
<1>9. /\ early' = early /\ stored' = stored /\ pending' = pending
      /\ arrived' = arrived /\ over' = over
  BY <1>0 DEF Calm
<1>10. arrived \in Nat /\ stored \subseteq 1 .. arrived
  BY DeliveryAssumption DEF StoreInv
<1>11. StoreInv'
  <2>1. \A x \in Regs : Held(reg'[x]) \subseteq stored
    BY <1>0, <1>8 DEF StoreInv, Moved
  <2>2. \A x \in Regs, b \in Bundles : b > arrived => fwdlog'[x][b] = "none"
    <3> SUFFICES ASSUME NEW x \in Regs, NEW b \in Bundles, b > arrived
                 PROVE  fwdlog'[x][b] = "none"
      OBVIOUS
    <3>1. b \notin stored
      BY <1>10, BundlesFinite
    <3>2. b \notin A /\ fwdlog[x][b] = "none"
      BY <1>0, <3>1 DEF StoreInv
    <3> QED BY <3>2, <1>8 DEF Moved
  <2> QED BY <1>5, <1>9, <2>1, <2>2 DEF StoreInv
<1>12. KeptInv'
  <2>0. Excused' = Excused
    BY <1>0 DEF Calm, Excused
  <2> SUFFICES ASSUME NEW x \in Regs
               PROVE  KeptOK(reg'[x], disk'[x], fwdlog'[x], got'[x],
                             ackSent'[x], peeked'[x], Excused)
    BY <2>0 DEF KeptInv
  <2>1. \A y \in Regs : KeptOK(reg[y], disk[y], fwdlog[y], got[y], ackSent[y],
                               peeked[y], Excused)
    BY DEF KeptInv
  <2>2. CASE x = r
    BY <1>2, <2>1, <2>2 DEF RegStep
  <2>3. CASE x # r
    BY <1>3, <2>1, <2>3
  <2> QED BY <2>2, <2>3
<1>13. \A x \in Regs \ {r} : reg[x].life = "adding" => reg'[x].life = "adding"
  BY <1>3
<1>14. Frame(A, {}, {r})
  BY <1>8, <1>9, <1>10, <1>13 DEF Frame
<1>15. ASSUME reg[r].life = "adding" => g.life = "adding"
       PROVE  Frame(A, {}, {})
  <2>1. \A x \in Regs : reg[x].life = "adding" => reg'[x].life = "adding"
    BY <1>2, <1>13, <1>15
  <2> QED BY <1>8, <1>9, <1>10, <2>1 DEF Frame
<1> QED BY <1>7, <1>11, <1>12, <1>14, <1>15

\* The same with the queue: no event about a stored bundle is lost.
LEMMA CalmCustody ==
    ASSUME RegInv, CustodyInv, StoreInv, Calm, NEW A, NEW N, Frame(A, {}, N),
           \A e \in Range(eventq) : FromStore(e) => e \in Range(eventq')
    PROVE  CustodyInv'
<1>1. /\ stored' = stored /\ pending' = pending /\ custody' = custody
      /\ over' = over
  BY DEF Calm
<1>2. \A b \in custody' : b \in pending' \/ Reloading(eventq', b)
  BY <1>1 DEF CustodyInv, Reloading
<1>3. ASSUME NEW b \in (stored \cap Custodial) \ (custody \cup over)
      PROVE  \E r \in Regs : HandedOver(r, b)'
  <2>1. b \in Bundles
    BY DeliveryAssumption
  <2>2. PICK r \in Regs : HandedOver(r, b)
    BY DEF CustodyInv, CustodyUntilDelivered, HandedOver
  <2> QED BY <2>1, <2>2, HandedOverKept
<1>4. CustodyUntilDelivered'
  BY <1>1, <1>3 DEF CustodyUntilDelivered, HandedOver
<1> QED BY <1>2, <1>4 DEF CustodyInv

LEMMA SparedWhenStored ==
    ASSUME NEW e \in Good, NEW A, A \subseteq stored, NEW N,
           e.type = "free" => e.b \notin A, e.type = "added" => e.r \notin N
    PROVE  Spared(e, A, {}, N)
  BY DEF Spared, Good

\* The head of the queue is handled, and events p are posted behind the rest or
\* in front of it.
Pops(p, A, N) ==
    /\ eventq # <<>> /\ ~FromStore(Head(eventq))
    /\ \A e \in Range(Tail(eventq)) : /\ e.type = "free" => e.b \notin A
                                      /\ e.type = "added" => e.r \notin N
    /\ p \in Seq(Good') /\ NoClash(p)
    /\ \A e \in Range(Tail(eventq)), f \in Range(p) :
           ~Clash(e, f) /\ ~Clash(f, e)
    /\ \/ eventq' = Tail(eventq) \o p \/ eventq' = Freed(Tail(eventq) \o p)
       \/ eventq' = p \o Tail(eventq)

LEMMA CalmPop ==
    ASSUME Inv, Calm, RegInv', StoreInv', KeptInv',
           NEW A, A \subseteq stored, NEW N, Frame(A, {}, N),
           NEW p, Pops(p, A, N)
    PROVE  Inv'
<1> DEFINE t == Tail(eventq)
           q == t \o p
<1>1. eventq \in Seq(Good) /\ NoClash(eventq) /\ eventq # <<>>
  BY DEF Inv, QueueInv, Pops
<1>2. /\ t \in Seq(Good) /\ NoClash(t) /\ Range(t) \subseteq Good
      /\ Range(eventq) = Range(t) \cup {Head(eventq)}
  BY <1>1, Popped
<1>3. \A e \in Range(t) : Spared(e, A, {}, N)
  BY <1>2, SparedWhenStored DEF Pops
<1>4. t \in Seq(Good')
  <2> HIDE DEF t
  <2> QED BY <1>2, <1>3, QueueKept DEF Inv
<1> HIDE DEF t
<1>5. /\ q \in Seq(Good') /\ NoClash(q) /\ Range(t) \subseteq Range(q)
      /\ p \o t \in Seq(Good') /\ NoClash(p \o t) /\ Range(t) \subseteq Range(p \o t)
  <2>1. \A e \in Range(t), f \in Range(p) : ~Clash(e, f) /\ ~Clash(f, e)
    BY DEF t, Pops
  <2>2. p \in Seq(Good') /\ NoClash(p)
    BY DEF Pops
  <2>3. NoClash(q) /\ NoClash(p \o t)
    BY <1>2, <1>4, <2>1, <2>2, NoClashConcat
  <2> QED BY <1>4, <2>2, <2>3, ConcatRange
<1>6. arrived' \in Nat /\ stored' \subseteq 1 .. arrived' /\ stored' \subseteq Bundles
  <2>1. arrived' \in 0 .. NBundles /\ stored' \subseteq 1 .. arrived'
    BY DEF StoreInv
  <2> QED BY <2>1, DeliveryAssumption DEF Bundles
<1> HIDE DEF q
<1>7. Freed(q) \in Seq(Good') /\ NoClash(Freed(q)) /\ Range(q) \subseteq Range(Freed(q))
  BY <1>5, <1>6, FreedFacts
<1>8. eventq' = q \/ eventq' = Freed(q) \/ eventq' = p \o t
  BY DEF q, t, Pops
<1>9. QueueInv' /\ Range(t) \subseteq Range(eventq')
  BY <1>5, <1>7, <1>8 DEF QueueInv
<1>10. \A e \in Range(eventq) : FromStore(e) => e \in Range(eventq')
  BY <1>2, <1>9 DEF Pops
<1>11. CustodyInv'
  BY <1>10, CalmCustody DEF Inv
<1> QED BY <1>9, <1>11 DEF Inv

\* Nothing is handled; the queue stays, or e is posted at its tail or head, or
\* bundles are freed.
Posts(A, N) ==
    /\ \A e \in Range(eventq) : /\ e.type = "free" => e.b \notin A
                                /\ e.type = "added" => e.r \notin N
    /\ \/ eventq' = eventq \/ eventq' = Freed(eventq)
       \/ \E e \in Good' :
             /\ \A f \in Range(eventq) : ~Clash(e, f) /\ ~Clash(f, e)
             /\ eventq' = Append(eventq, e) \/ eventq' = <<e>> \o eventq

LEMMA CalmPost ==
    ASSUME Inv, Calm, RegInv', StoreInv', KeptInv',
           NEW A, A \subseteq stored, NEW N, Frame(A, {}, N), Posts(A, N)
    PROVE  Inv'
<1>1. eventq \in Seq(Good) /\ NoClash(eventq)
  BY DEF Inv, QueueInv
<1>2. Range(eventq) \subseteq Good
  BY <1>1 DEF Range
<1>3. \A e \in Range(eventq) : Spared(e, A, {}, N)
  BY <1>2, SparedWhenStored DEF Posts
<1>4. eventq \in Seq(Good')
  BY <1>1, <1>3, QueueKept DEF Inv
<1>5. arrived' \in Nat /\ stored' \subseteq 1 .. arrived' /\ stored' \subseteq Bundles
  <2>1. arrived' \in 0 .. NBundles /\ stored' \subseteq 1 .. arrived'
    BY DEF StoreInv
  <2> QED BY <2>1, DeliveryAssumption DEF Bundles
<1>6. QueueInv' /\ Range(eventq) \subseteq Range(eventq')
  <2>1. CASE eventq' = eventq
    BY <1>1, <1>4, <2>1 DEF QueueInv
  <2>2. CASE eventq' = Freed(eventq)
    BY <1>1, <1>4, <1>5, <2>2, FreedFacts DEF QueueInv
  <2>3. CASE \E e \in Good' :
               /\ \A f \in Range(eventq) : ~Clash(e, f) /\ ~Clash(f, e)
               /\ eventq' = Append(eventq, e) \/ eventq' = <<e>> \o eventq
    <3>1. PICK e \in Good' :
               /\ \A f \in Range(eventq) : ~Clash(e, f) /\ ~Clash(f, e)
               /\ eventq' = Append(eventq, e) \/ eventq' = <<e>> \o eventq
      BY <2>3
    <3>2. /\ Append(eventq, e) \in Seq(Good') /\ NoClash(Append(eventq, e))
          /\ Range(Append(eventq, e)) = Range(eventq) \cup {e}
          /\ <<e>> \o eventq \in Seq(Good') /\ NoClash(<<e>> \o eventq)
          /\ Range(<<e>> \o eventq) = Range(eventq) \cup {e}
      BY <1>1, <1>4, <3>1, NoClashOne
    <3> QED BY <3>1, <3>2 DEF QueueInv
  <2> QED BY <2>1, <2>2, <2>3 DEF Posts
<1>7. CustodyInv'
  BY <1>6, CalmCustody DEF Inv
<1> QED BY <1>6, <1>7 DEF Inv

(***************************************************************************)
(* Steps of the clients.                                                   *)
(***************************************************************************)
LEMMA Selves ==
    ASSUME RegInv, StoreInv, NEW r \in Regs
    PROVE  /\ reg = [reg EXCEPT ![r] = reg[r]] /\ disk = [disk EXCEPT ![r] = disk[r]]
           /\ fwdlog = [fwdlog EXCEPT ![r] = fwdlog[r]]
           /\ got = [got EXCEPT ![r] = got[r]]
           /\ ackSent = [ackSent EXCEPT ![r] = ackSent[r]]
           /\ peeked = [peeked EXCEPT ![r] = peeked[r]]
           /\ ackSent[r] \in SUBSET Bundles /\ peeked[r] \in SUBSET Bundles
           /\ RegOK(reg[r], disk[r], fwdlog[r], got[r])
           /\ reg[r] \in RegSet /\ Distinct(reg[r]) /\ reg[r].kind \in Kinds
           /\ ObjOK(reg[r], fwdlog[r], got[r])
           /\ Held(reg[r]) \subseteq stored
           /\ reg[r].life # "live" => disk[r] = NoImage
<1>1. /\ reg \in [Regs -> RegSet] /\ disk \in [Regs -> ImageSet]
      /\ fwdlog \in [Regs -> LogSet] /\ got \in [Regs -> CountSet]
      /\ ackSent \in [Regs -> SUBSET Bundles] /\ peeked \in [Regs -> SUBSET Bundles]
  BY DEF RegInv, StoreInv
<1>2. RegOK(reg[r], disk[r], fwdlog[r], got[r])
  BY DEF RegInv
<1>3. Held(reg[r]) \subseteq stored
  BY DEF StoreInv
<1>4. /\ reg = [reg EXCEPT ![r] = reg[r]] /\ disk = [disk EXCEPT ![r] = disk[r]]
      /\ fwdlog = [fwdlog EXCEPT ![r] = fwdlog[r]]
      /\ got = [got EXCEPT ![r] = got[r]]
      /\ ackSent = [ackSent EXCEPT ![r] = ackSent[r]]
      /\ peeked = [peeked EXCEPT ![r] = peeked[r]]
      /\ ackSent[r] \in SUBSET Bundles /\ peeked[r] \in SUBSET Bundles
  BY <1>1
<1> QED BY <1>2, <1>3, <1>4, ObjectOf

\* What a step must not do to the lists for KeptOK to last.
LEMMA KeptWhen ==
    ASSUME NEW g, NEW d, NEW l, NEW n, NEW a, NEW p, NEW o,
           NEW g2, NEW d2, NEW l2, NEW n2, NEW a2, NEW p2,
           KeptOK(g, d, l, n, a, p, o), g2.kind = g.kind,
           g2.life = "live" => g.life = "live", a \subseteq a2, p \subseteq p2,
           \A b \in Bundles : /\ l2[b] = "DELIVERED" => l[b] = "DELIVERED"
                              /\ n2[b] = 0 => n[b] = 0,
           \A b \in Bundles \ o : b \in Held(g) \cap Held(d)
                                  => b \in (Held(g2) \cap Held(d2)) \cup p2
    PROVE  KeptOK(g2, d2, l2, n2, a2, p2, o)
  BY DEF KeptOK, Untaken

\* A step that changes flags of a registration and not its lists.
LEMMA FlagStep ==
    ASSUME Inv, Calm, NEW r \in Regs, NEW g \in RegSet, Same(reg[r], g),
           g.list = reg[r].list, g.unacked = reg[r].unacked,
           g.acked = reg[r].acked,
           NEW a \in SUBSET Bundles, ackSent[r] \subseteq a,
           reg' = [reg EXCEPT ![r] = g], UNCHANGED <<disk, fwdlog, got, peeked>>,
           ackSent' = [ackSent EXCEPT ![r] = a]
    PROVE  RegInv' /\ StoreInv' /\ KeptInv' /\ Frame({}, {}, {})
<1>1. RegInv /\ StoreInv /\ KeptInv
  BY DEF Inv
<1>2. /\ disk' = [disk EXCEPT ![r] = disk[r]]
      /\ fwdlog' = [fwdlog EXCEPT ![r] = fwdlog[r]]
      /\ got' = [got EXCEPT ![r] = got[r]]
      /\ peeked' = [peeked EXCEPT ![r] = peeked[r]]
      /\ peeked[r] \in SUBSET Bundles
      /\ RegOK(reg[r], disk[r], fwdlog[r], got[r]) /\ Distinct(reg[r])
  BY <1>1, Selves
<1>3. Distinct(g) /\ Held(g) = Held(reg[r])
  BY <1>2 DEF Distinct, Held
<1>4. RegOK(g, disk[r], fwdlog[r], got[r])
  BY <1>2, <1>3, Shrunk
<1>5. Moved(reg[r], fwdlog[r], got[r], g, fwdlog[r], got[r], {})
  BY <1>3 DEF Moved, Same
<1>6. KeptOK(reg[r], disk[r], fwdlog[r], got[r], ackSent[r], peeked[r], Excused)
      => KeptOK(g, disk[r], fwdlog[r], got[r], a, peeked[r], Excused)
  BY <1>3, KeptWhen DEF Same
<1>7. reg[r].life = "adding" => g.life = "adding"
  BY DEF Same
<1>8. RegStep(r, g, disk[r], fwdlog[r], got[r], a, peeked[r], {})
  BY <1>2, <1>4, <1>5, <1>6 DEF RegStep
<1> QED BY <1>1, <1>7, <1>8, OneRegStep

\* No event about a registration clashes with one that is not "added".
LEMMA RegEventFits ==
    ASSUME NEW t \in RegTypes \ {"added"}, NEW r \in Regs, NEW f \in EventSet
    PROVE  ~Clash(RegEvent(t, r), f) /\ ~Clash(f, RegEvent(t, r))
<1>1. LET e == RegEvent(t, r) IN e.type = t /\ e.b = 0 /\ e \in EventSet
  BY EventFields
<1>2. f.type = "free" => f.b # 0
  BY EventFacts, BundlesFinite DEF RegTypes
<1> QED BY <1>1, <1>2 DEF Clash, FromPeer, RegTypes

\* The queue holds events.
LEMMA QueueTypes ==
    ASSUME Inv
    PROVE  /\ Range(eventq) \subseteq Good /\ Range(eventq) \subseteq EventSet
           /\ arrived \in Nat
<1>1. eventq \in Seq(Good)
  BY DEF Inv, QueueInv
<1>2. Range(eventq) \subseteq Good
  BY <1>1 DEF Range
<1>3. arrived \in Nat
  BY DeliveryAssumption DEF Inv, StoreInv
<1> QED BY <1>2, <1>3 DEF Good

\* The store as the invariant has it.
LEMMA StoreFacts ==
    ASSUME StoreInv
    PROVE  /\ arrived \in Nat /\ arrived <= NBundles /\ NBundles \in Nat
           /\ stored \subseteq Bundles /\ pending \subseteq stored
           /\ \A b \in stored : b \in Nat /\ b <= arrived
           /\ \A b \in Bundles : b <= arrived => b \in 1 .. arrived
<1>1. /\ pending \subseteq stored /\ stored \subseteq 1 .. arrived
      /\ arrived \in 0 .. NBundles /\ NBundles \in Nat
  BY DeliveryAssumption DEF StoreInv
<1> QED BY <1>1 DEF Bundles

LEMMA RegEventGood ==
    ASSUME NEW t \in {"removed", "regexpired"}, NEW r \in Regs, arrived' \in Nat
    PROVE  RegEvent(t, r) \in Good'
<1> DEFINE e == RegEvent(t, r)
<1>1. e \in EventSet /\ e.type = t /\ e.b = 0
  BY EventFields DEF RegTypes
<1> HIDE DEF e
<1>2. e \in Good'
  BY <1>1 DEF Good, FromPeer, FromStore
<1> QED BY <1>2 DEF e

LEMMA DeliveredGood ==
    ASSUME NEW r \in Regs, NEW b \in Bundles, b <= arrived',
           \/ got'[r][b] > 0
           \/ reg'[r].kind.failure = "DROP" /\ fwdlog'[r][b] = "DELIVERED"
    PROVE  Event("delivered", b, r) \in Good'
<1> DEFINE e == Event("delivered", b, r)
<1>1. e \in EventSet /\ e.type = "delivered" /\ e.b = b /\ e.r = r
  BY EventFields DEF BundleTypes
<1> HIDE DEF e
<1>2. HandedOver(r, b)'
  BY DEF HandedOver
<1>3. e \in Good'
  BY <1>1, <1>2 DEF Good, FromPeer, FromStore
<1> QED BY <1>3 DEF e

\* Such a step with nothing posted, or an event that concerns the registration.
LEMMA FlagStepKeeps ==
    ASSUME Inv, Calm, NEW r \in Regs, NEW g \in RegSet, Same(reg[r], g),
           g.list = reg[r].list, g.unacked = reg[r].unacked,
           g.acked = reg[r].acked,
           reg' = [reg EXCEPT ![r] = g],
           UNCHANGED <<disk, fwdlog, got, peeked, ackSent>>,
           \/ eventq' = eventq
           \/ eventq' = Append(eventq, RegEvent("regexpired", r))
           \/ eventq' = Append(eventq, RegEvent("removed", r))
    PROVE  Inv'
<1>1. RegInv' /\ StoreInv' /\ KeptInv' /\ Frame({}, {}, {})
  <2>1. ackSent' = [ackSent EXCEPT ![r] = ackSent[r]] /\ ackSent[r] \in SUBSET Bundles
    BY Selves DEF Inv
  <2> QED BY <2>1, FlagStep
<1>2. arrived' \in Nat
  BY QueueTypes DEF Calm
<1>3. \A t \in {"removed", "regexpired"} :
         /\ RegEvent(t, r) \in Good'
         /\ \A f \in Range(eventq) : /\ ~Clash(RegEvent(t, r), f)
                                     /\ ~Clash(f, RegEvent(t, r))
  BY <1>2, QueueTypes, RegEventFits, RegEventGood DEF RegTypes
<1>4. \/ eventq' = eventq
      \/ \E e \in Good' :
            /\ \A f \in Range(eventq) : ~Clash(e, f) /\ ~Clash(f, e)
            /\ eventq' = Append(eventq, e)
  BY <1>3
<1>5. Posts({}, {})
  BY <1>4 DEF Posts
<1> QED BY <1>1, <1>5, CalmPost

LEMMA ExpirationTimerKeeps ==
    ASSUME Inv, NEW r \in Regs, ExpirationTimer(r) PROVE Inv'
<1>1. reg[r] \in RegSet
  BY Selves DEF Inv
<1> DEFINE g == [reg[r] EXCEPT !.timer = FALSE, !.expired = TRUE]
<1>2. /\ g \in RegSet /\ Same(reg[r], g) /\ g.list = reg[r].list
      /\ g.unacked = reg[r].unacked /\ g.acked = reg[r].acked
  BY <1>1 DEF RegSet, Same
<1>3. reg' = [reg EXCEPT ![r] = g]
  BY DEF ExpirationTimer, Inv, RegInv
<1> HIDE DEF g
<1>4. Calm /\ UNCHANGED <<disk, fwdlog, got, peeked, ackSent>>
  BY DEF ExpirationTimer, Calm
<1>5. eventq' = eventq \/ eventq' = Append(eventq, RegEvent("regexpired", r))
  BY DEF ExpirationTimer
<1> QED BY <1>2, <1>3, <1>4, <1>5, FlagStepKeeps

LEMMA close_client_Keeps ==
    ASSUME Inv, NEW r \in Regs, close_client(r) PROVE Inv'
<1>1. reg[r] \in RegSet
  BY Selves DEF Inv
<1> DEFINE g == [reg[r] EXCEPT !.active = FALSE]
<1>2. /\ g \in RegSet /\ Same(reg[r], g) /\ g.list = reg[r].list
      /\ g.unacked = reg[r].unacked /\ g.acked = reg[r].acked
  BY <1>1 DEF RegSet, Same
<1>3. reg' = [reg EXCEPT ![r] = g]
  BY DEF close_client, Inv, RegInv
<1> HIDE DEF g
<1>4. Calm /\ UNCHANGED <<disk, fwdlog, got, peeked, ackSent>>
  BY DEF close_client, Calm
<1>5. eventq' = eventq \/ eventq' = Append(eventq, RegEvent("regexpired", r))
  BY DEF close_client
<1> QED BY <1>2, <1>3, <1>4, <1>5, FlagStepKeeps

LEMMA UnregisterBoundKeeps ==
    ASSUME Inv, NEW r \in Regs, UnregisterBound(r) PROVE Inv'
<1>1. reg[r] \in RegSet
  BY Selves DEF Inv
<1> DEFINE g == [reg[r] EXCEPT !.expired = TRUE, !.timer = FALSE]
<1>2. /\ g \in RegSet /\ Same(reg[r], g) /\ g.list = reg[r].list
      /\ g.unacked = reg[r].unacked /\ g.acked = reg[r].acked
  BY <1>1 DEF RegSet, Same
<1>3. reg' = [reg EXCEPT ![r] = g]
  BY DEF UnregisterBound, Inv, RegInv
<1> HIDE DEF g
<1>4. Calm /\ UNCHANGED <<disk, fwdlog, got, peeked, ackSent, eventq>>
  BY DEF UnregisterBound, Calm
<1> QED BY <1>2, <1>3, <1>4, FlagStepKeeps

LEMMA UnregisterPassiveKeeps ==
    ASSUME Inv, NEW r \in Regs, UnregisterPassive(r) PROVE Inv'
<1>1. reg[r] \in RegSet /\ reg' = [reg EXCEPT ![r] = reg[r]]
  BY Selves DEF Inv, UnregisterPassive
<1>2. Calm /\ UNCHANGED <<disk, fwdlog, got, peeked, ackSent>>
  BY DEF UnregisterPassive, Calm
<1>3. eventq' = Append(eventq, RegEvent("removed", r))
  BY DEF UnregisterPassive
<1>4. Same(reg[r], reg[r])
  BY DEF Same
<1> QED BY <1>1, <1>2, <1>3, <1>4, FlagStepKeeps

LEMMA wait_for_notify_Keeps ==
    ASSUME Inv, NEW r \in Regs, wait_for_notify(r) PROVE Inv'
<1>1. reg[r] \in RegSet
  BY Selves DEF Inv
<1> DEFINE g == [reg[r] EXCEPT !.recv = "ready"]
<1>2. /\ g \in RegSet /\ Same(reg[r], g) /\ g.list = reg[r].list
      /\ g.unacked = reg[r].unacked /\ g.acked = reg[r].acked
  BY <1>1 DEF RegSet, Same
<1>3. reg' = [reg EXCEPT ![r] = g]
  BY DEF wait_for_notify, Inv, RegInv
<1> HIDE DEF g
<1>4. Calm /\ UNCHANGED <<disk, fwdlog, got, peeked, ackSent, eventq>>
  BY DEF wait_for_notify, Calm
<1> QED BY <1>2, <1>3, <1>4, FlagStepKeeps

LEMMA handle_ack_Keeps ==
    ASSUME Inv, NEW r \in Regs, NEW b \in Bundles, handle_ack(r, b) PROVE Inv'
<1> DEFINE e == Event("ack", b, r)
<1>1. Calm /\ UNCHANGED <<disk, fwdlog, got, peeked, reg>>
  BY DEF handle_ack, Calm
<1>2. reg[r] \in RegSet /\ reg' = [reg EXCEPT ![r] = reg[r]] /\ Same(reg[r], reg[r])
  BY <1>1, Selves DEF Inv, Same
<1>3. /\ ackSent' = [ackSent EXCEPT ![r] = ackSent[r] \cup {b}]
      /\ ackSent[r] \subseteq ackSent[r] \cup {b}
      /\ ackSent[r] \cup {b} \in SUBSET Bundles
  BY Selves DEF handle_ack, Inv
<1>4. RegInv' /\ StoreInv' /\ KeptInv' /\ Frame({}, {}, {})
  <2> DEFINE a == ackSent[r] \cup {b}
  <2> HIDE DEF a
  <2>1. ackSent' = [ackSent EXCEPT ![r] = a] /\ ackSent[r] \subseteq a
        /\ a \in SUBSET Bundles
    BY <1>3 DEF a
  <2> QED BY <1>1, <1>2, <2>1, FlagStep
<1>5. e \in EventSet /\ e.type = "ack" /\ e.b = b
  BY EventFields DEF BundleTypes
<1>6. b <= arrived'
  <2>1. RegOK(reg[r], disk[r], fwdlog[r], got[r]) /\ got[r][b] > 0
    BY DEF Inv, RegInv, handle_ack
  <2>2. fwdlog[r][b] = "DELIVERED"
    BY <2>1 DEF RegOK, Logged
  <2>3. ~(b > arrived)
    BY <2>2 DEF Inv, StoreInv
  <2> QED BY <2>3, <1>1, QueueTypes, BundlesFinite DEF Calm
<1>7. eventq' = Append(eventq, e)
  BY DEF handle_ack
<1> HIDE DEF e
<1>8. e \in Good'
  BY <1>5, <1>6 DEF Good, FromPeer, FromStore
<1>9. \A f \in Range(eventq) : ~Clash(e, f) /\ ~Clash(f, e)
  BY <1>5 DEF Clash, FromPeer
<1>10. Posts({}, {})
  BY <1>7, <1>8, <1>9 DEF Posts
<1> QED BY <1>1, <1>4, <1>10, CalmPost

LEMMA handle_register_Keeps ==
    ASSUME Inv, NEW r \in Regs, NEW kind \in Kinds, NEW active \in BOOLEAN,
           handle_register(r, kind, active)
    PROVE  Inv'
<1> DEFINE g == NewReg(kind, active)
           e == RegEvent("added", r)
<1>1. Calm /\ UNCHANGED <<disk, fwdlog, got, peeked, ackSent>> /\ reg[r].life = "none"
  BY DEF handle_register, Calm
<1>2. /\ disk' = [disk EXCEPT ![r] = disk[r]]
      /\ fwdlog' = [fwdlog EXCEPT ![r] = fwdlog[r]]
      /\ got' = [got EXCEPT ![r] = got[r]]
      /\ peeked' = [peeked EXCEPT ![r] = peeked[r]] /\ peeked[r] \subseteq Bundles
      /\ ackSent' = [ackSent EXCEPT ![r] = ackSent[r]] /\ ackSent[r] \subseteq Bundles
      /\ RegOK(reg[r], disk[r], fwdlog[r], got[r])
      /\ disk[r] = NoImage
  BY <1>1, Selves DEF Inv
<1>3. /\ g \in RegSet /\ Distinct(g) /\ Held(g) = {} /\ g.cache = {}
      /\ g.life = "adding" /\ g.kind = kind
      /\ Range(g.unacked) = {} /\ Range(g.list) = {}
  BY NewRegFacts
<1>4. reg' = [reg EXCEPT ![r] = g] /\ eventq' = Append(eventq, e)
  BY DEF handle_register
<1> HIDE DEF g
<1>5. \A b \in Bundles : fwdlog[r][b] = "none" /\ got[r][b] = 0
  BY <1>1, <1>2 DEF RegOK, Fresh
<1>6. RegOK(g, disk[r], fwdlog[r], got[r])
  <2>1. Typed(g, disk[r], fwdlog[r], got[r]) /\ Distinct(disk[r])
    BY <1>2, <1>3 DEF RegOK, Typed
  <2>2. Logged(g, disk[r], fwdlog[r], got[r])
    BY <1>2, <1>3, <1>5, NoImageFacts DEF Logged
  <2>3. Saved(g, disk[r])
    BY <1>2, <1>3, NoImageFacts DEF Saved
  <2>4. Fresh(g, fwdlog[r], got[r])
    BY <1>3, <1>5 DEF Fresh
  <2>5. Once(g, disk[r], got[r])
    BY <1>2, <1>3, <1>5, NoImageFacts DEF Once
  <2> QED BY <1>3, <2>1, <2>2, <2>3, <2>4, <2>5 DEF RegOK
<1>7. Moved(reg[r], fwdlog[r], got[r], g, fwdlog[r], got[r], {})
  BY <1>1, <1>3 DEF Moved, Settled
<1>8. KeptOK(g, disk[r], fwdlog[r], got[r], ackSent[r], peeked[r], Excused)
  BY <1>3 DEF KeptOK, Untaken
<1>9. RegStep(r, g, disk[r], fwdlog[r], got[r], ackSent[r], peeked[r], {})
  BY <1>1, <1>2, <1>4, <1>6, <1>7, <1>8 DEF RegStep
<1>10. RegInv' /\ StoreInv' /\ KeptInv' /\ Frame({}, {}, {})
  <2>1. RegInv /\ StoreInv /\ KeptInv
    BY DEF Inv
  <2>2. reg[r].life = "adding" => g.life = "adding"
    BY <1>3
  <2> QED BY <1>9, <2>1, <2>2, OneRegStep
<1>11. e \in EventSet /\ e.type = "added" /\ e.b = 0 /\ e.r = r
  BY EventFields DEF RegTypes
<1> HIDE DEF e
<1>12. e \in Good'
  <2>1. reg'[r].life = "adding"
    BY <1>3, <1>4 DEF Inv, RegInv
  <2>2. 0 <= arrived'
    BY <1>1, QueueTypes DEF Calm
  <2> QED BY <1>11, <2>1, <2>2 DEF Good, FromPeer, FromStore
<1>13. \A f \in Range(eventq) : ~Clash(e, f) /\ ~Clash(f, e)
  <2> SUFFICES ASSUME NEW f \in Range(eventq) PROVE ~Clash(e, f) /\ ~Clash(f, e)
    OBVIOUS
  <2>1. f \in Good /\ f \in EventSet
    BY QueueTypes
  <2>2. f.type = "added" => f.r # r
    BY <1>1, <2>1 DEF Good
  <2>3. f.type = "free" => f.b # 0
    BY <2>1, EventFacts, BundlesFinite DEF RegTypes
  <2> QED BY <1>11, <2>2, <2>3 DEF Clash, FromPeer
<1>14. Posts({}, {})
  BY <1>4, <1>12, <1>13 DEF Posts
<1> QED BY <1>1, <1>10, <1>14, CalmPost

LEMMA handle_bind_Keeps ==
    ASSUME Inv, NEW r \in Regs, handle_bind(r) PROVE Inv'
<1> DEFINE g == set_active_callback([reg[r] EXCEPT !.active = TRUE])
           d == IF Image(g) = Image(reg[r]) THEN disk[r] ELSE Image(g)
<1>1. Calm /\ UNCHANGED <<fwdlog, got, peeked, ackSent, eventq>> /\ InTable(r)
  BY DEF handle_bind, Calm
<1>2. /\ disk = [disk EXCEPT ![r] = disk[r]]
      /\ fwdlog' = [fwdlog EXCEPT ![r] = fwdlog[r]]
      /\ got' = [got EXCEPT ![r] = got[r]]
      /\ peeked' = [peeked EXCEPT ![r] = peeked[r]] /\ peeked[r] \subseteq Bundles
      /\ ackSent' = [ackSent EXCEPT ![r] = ackSent[r]] /\ ackSent[r] \subseteq Bundles
      /\ RegOK(reg[r], disk[r], fwdlog[r], got[r])
      /\ ObjOK(reg[r], fwdlog[r], got[r]) /\ reg[r] \in RegSet /\ Distinct(reg[r])
  BY <1>1, Selves DEF Inv
<1>3. reg' = [reg EXCEPT ![r] = g] /\ disk' = [disk EXCEPT ![r] = d]
  BY <1>1, <1>2 DEF handle_bind, Updated
<1>4. /\ g \in RegSet /\ Distinct(g) /\ Same(reg[r], g)
      /\ Held(g) = Held(reg[r]) /\ Range(g.unacked) = {}
      /\ reg[r].kind.replay # "ALL" => Range(g.list) = Owed(reg[r])
  BY <1>2, SetActive
<1> HIDE DEF g
<1>5. ObjOK(g, fwdlog[r], got[r])
  BY <1>2, <1>4 DEF ObjOK, Same, Owed
<1>6. g.life = "live"
  BY <1>1, <1>4 DEF Same, InTable
<1>7. RegOK(g, d, fwdlog[r], got[r])
  <2>1. CASE Image(g) = Image(reg[r])
    <3>1. g.list = reg[r].list /\ g.unacked = reg[r].unacked
      BY <1>2, <1>4, <2>1, ImageFacts
    <3>2. RegOK(g, disk[r], fwdlog[r], got[r])
      BY <1>2, <1>4, <3>1, Shrunk
    <3> QED BY <2>1, <3>2
  <2>2. CASE Image(g) # Image(reg[r])
    <3>1. RegOK(g, Image(g), fwdlog[r], got[r])
      BY <1>5, <1>6, Written
    <3> QED BY <2>2, <3>1
  <2> QED BY <2>1, <2>2
<1>8. Moved(reg[r], fwdlog[r], got[r], g, fwdlog[r], got[r], {})
  BY <1>4 DEF Moved, Same
<1>9. Held(d) = Held(disk[r]) \/ Held(d) = Held(g)
  BY <1>4, ImageFacts
<1> HIDE DEF d
<1>10. KeptOK(reg[r], disk[r], fwdlog[r], got[r], ackSent[r], peeked[r], Excused)
       => KeptOK(g, d, fwdlog[r], got[r], ackSent[r], peeked[r], Excused)
  BY <1>4, <1>9, KeptWhen DEF Same
<1>11. RegStep(r, g, d, fwdlog[r], got[r], ackSent[r], peeked[r], {})
  BY <1>1, <1>2, <1>3, <1>7, <1>8, <1>10 DEF RegStep
<1>12. RegInv' /\ StoreInv' /\ KeptInv' /\ Frame({}, {}, {})
  <2>1. RegInv /\ StoreInv /\ KeptInv
    BY DEF Inv
  <2>2. reg[r].life = "adding" => g.life = "adding"
    BY <1>4 DEF Same
  <2> QED BY <1>11, <2>1, <2>2, OneRegStep
<1>13. Posts({}, {})
  BY <1>1 DEF Posts
<1> QED BY <1>1, <1>12, <1>13, CalmPost

LEMMA handle_recv_Keeps ==
    ASSUME Inv, NEW r \in Regs, handle_recv(r) PROVE Inv'
<1> DEFINE b == Head(reg[r].list)
           g == deliver_front(reg[r])
           d == IF g.life = "live" THEN Image(g) ELSE NoImage
           n == [got[r] EXCEPT ![b] = IF @ < 2 THEN @ + 1 ELSE @]
           e == Event("delivered", b, r)
<1>1. /\ Calm /\ UNCHANGED <<fwdlog, peeked, ackSent>> /\ reg[r].list # <<>>
      /\ eventq' = Append(eventq, e) /\ reg' = [reg EXCEPT ![r] = g]
      /\ disk' = Updated(r, g)
  BY DEF handle_recv, Calm
<1>2. /\ disk = [disk EXCEPT ![r] = disk[r]]
      /\ fwdlog' = [fwdlog EXCEPT ![r] = fwdlog[r]]
      /\ peeked' = [peeked EXCEPT ![r] = peeked[r]] /\ peeked[r] \subseteq Bundles
      /\ ackSent' = [ackSent EXCEPT ![r] = ackSent[r]] /\ ackSent[r] \subseteq Bundles
      /\ RegOK(reg[r], disk[r], fwdlog[r], got[r])
      /\ ObjOK(reg[r], fwdlog[r], got[r]) /\ reg[r] \in RegSet /\ Distinct(reg[r])
      /\ reg[r].life # "live" => disk[r] = NoImage
      /\ Held(reg[r]) \subseteq stored
  BY <1>1, Selves DEF Inv
<1>3. /\ g \in RegSet /\ Distinct(g) /\ Same(reg[r], g)
      /\ b \in Bundles /\ b \in Range(reg[r].list)
      /\ Held(g) = Held(reg[r])
      /\ Range(g.list) = Range(reg[r].list) \ {b}
      /\ ~reg[r].kind.acking => g.unacked = reg[r].unacked
  BY <1>1, <1>2, DeliverFront
<1>4. got' = [got EXCEPT ![r] = n] /\ got[r] \in CountSet
  BY DEF handle_recv, Inv, RegInv
<1>5. disk' = [disk EXCEPT ![r] = d]
  BY <1>1, <1>2, <1>3 DEF Updated, InTable, Same
<1> HIDE DEF b, g
<1>6. /\ n \in CountSet /\ n[b] > 0
      /\ \A x \in Bundles : x # b => n[x] = got[r][x]
      /\ got[r][b] = 0 => n[b] <= 1
      /\ \A x \in Bundles : got[r][x] > 0 => n[x] > 0
      /\ \A x \in Bundles : n[x] = 0 => got[r][x] = 0
  BY <1>3, <1>4 DEF CountSet
<1> HIDE DEF n
<1>7. b \in Held(reg[r])
  BY <1>3 DEF Held
<1>8. reg[r].life \notin {"none", "adding"}
  BY <1>2, <1>7 DEF RegOK, Fresh
<1>9. fwdlog[r][b] = "DELIVERED"
  BY <1>2, <1>3, <1>7 DEF ObjOK
<1>10. ObjOK(g, fwdlog[r], n)
  <2>1. g.kind = reg[r].kind /\ g.cache = reg[r].cache
    BY <1>3 DEF Same
  <2>2. \A x \in Bundles : (x \in Held(g) \cup g.cache \/ n[x] > 0)
                           => fwdlog[r][x] = "DELIVERED"
    BY <1>2, <1>3, <1>6, <1>9, <2>1 DEF ObjOK
  <2>3. ASSUME ~g.kind.acking PROVE Range(g.unacked) = {}
    BY <1>2, <1>3, <2>1, <2>3 DEF ObjOK
  <2>4. ASSUME ~g.kind.acking, g.kind.replay # "ALL", NEW x \in Bundles
        PROVE  n[x] <= 1 /\ (n[x] > 0 => x \notin Range(g.list))
    <3>1. /\ got[r][x] <= 1
          /\ got[r][x] > 0 => x \notin Range(reg[r].list)
          /\ got[r][b] > 0 => b \notin Range(reg[r].list)
      BY <1>2, <1>3, <2>1, <2>4 DEF ObjOK
    <3>2. got[r][b] = 0
      BY <1>3, <1>4, <3>1 DEF CountSet
    <3> QED BY <1>3, <1>6, <3>1, <3>2
  <2> QED BY <1>2, <1>3, <1>6, <2>2, <2>3, <2>4 DEF ObjOK
<1>11. g.life \notin {"none", "adding"} /\ g.life = reg[r].life
  BY <1>3, <1>8 DEF Same
<1>12. RegOK(g, d, fwdlog[r], n)
  BY <1>10, <1>11, Written
<1>13. Moved(reg[r], fwdlog[r], got[r], g, fwdlog[r], n, {})
  BY <1>3, <1>6 DEF Moved, Same
<1>14. KeptOK(reg[r], disk[r], fwdlog[r], got[r], ackSent[r], peeked[r], Excused)
       => KeptOK(g, d, fwdlog[r], n, ackSent[r], peeked[r], Excused)
  <2>1. CASE g.life = "live"
    <3>1. Held(d) = Held(g)
      BY <1>3, <2>1, ImageFacts
    <3> HIDE DEF d
    <3> QED BY <1>3, <1>6, <1>11, <3>1, KeptWhen DEF Same
  <2>2. CASE g.life # "live"
    BY <2>2 DEF KeptOK, Untaken
  <2> QED BY <2>1, <2>2
<1> HIDE DEF d
<1>15. RegStep(r, g, d, fwdlog[r], n, ackSent[r], peeked[r], {})
  BY <1>1, <1>2, <1>4, <1>5, <1>12, <1>13, <1>14 DEF RegStep
<1>16. RegInv' /\ StoreInv' /\ KeptInv' /\ Frame({}, {}, {})
  <2>1. RegInv /\ StoreInv /\ KeptInv
    BY DEF Inv
  <2> QED BY <1>11, <1>15, <2>1, OneRegStep
<1>17. e \in EventSet /\ e.type = "delivered" /\ e.b = b /\ e.r = r
  BY <1>3, EventFields DEF BundleTypes
<1> HIDE DEF e
<1>18. e \in Good'
  <2>1. got'[r][b] > 0
    BY <1>4, <1>6 DEF Inv, RegInv
  <2>2. b <= arrived'
    BY <1>1, <1>2, <1>7, QueueTypes DEF Inv, StoreInv, Calm
  <2> QED BY <1>3, <2>1, <2>2, DeliveredGood DEF e
<1>19. \A f \in Range(eventq) : ~Clash(e, f) /\ ~Clash(f, e)
  <2> SUFFICES ASSUME NEW f \in Range(eventq) PROVE ~Clash(e, f) /\ ~Clash(f, e)
    OBVIOUS
  <2>1. f \in Good
    BY QueueTypes
  <2>2. f.type = "free" => f.b # b
    BY <1>7, <2>1 DEF Good
  <2> QED BY <1>17, <2>2 DEF Clash, FromPeer
<1>20. Posts({}, {})
  BY <1>1, <1>18, <1>19 DEF Posts
<1> QED BY <1>1, <1>16, <1>20, CalmPost

LEMMA handle_recv_fails_Keeps ==
    ASSUME Inv, NEW r \in Regs, handle_recv_fails(r) PROVE Inv'
<1> DEFINE b == Head(reg[r].list)
           g == deliver_front(reg[r])
           d == IF g.life = "live" THEN Image(g) ELSE NoImage
<1>1. /\ Calm /\ UNCHANGED <<fwdlog, got, peeked, ackSent, eventq>>
      /\ reg[r].list # <<>> /\ reg' = [reg EXCEPT ![r] = g]
      /\ disk' = Updated(r, g)
  BY DEF handle_recv_fails, Calm
<1>2. /\ disk = [disk EXCEPT ![r] = disk[r]]
      /\ fwdlog' = [fwdlog EXCEPT ![r] = fwdlog[r]]
      /\ got' = [got EXCEPT ![r] = got[r]]
      /\ peeked' = [peeked EXCEPT ![r] = peeked[r]] /\ peeked[r] \subseteq Bundles
      /\ ackSent' = [ackSent EXCEPT ![r] = ackSent[r]] /\ ackSent[r] \subseteq Bundles
      /\ RegOK(reg[r], disk[r], fwdlog[r], got[r])
      /\ ObjOK(reg[r], fwdlog[r], got[r]) /\ reg[r] \in RegSet /\ Distinct(reg[r])
      /\ reg[r].life # "live" => disk[r] = NoImage
  BY <1>1, Selves DEF Inv
<1>3. /\ g \in RegSet /\ Distinct(g) /\ Same(reg[r], g)
      /\ b \in Range(reg[r].list) /\ Held(g) = Held(reg[r])
      /\ Range(g.list) = Range(reg[r].list) \ {b}
      /\ ~reg[r].kind.acking => g.unacked = reg[r].unacked
  BY <1>1, <1>2, DeliverFront
<1>4. disk' = [disk EXCEPT ![r] = d]
  BY <1>1, <1>2, <1>3 DEF Updated, InTable, Same
<1> HIDE DEF b, g
<1>5. b \in Held(reg[r])
  BY <1>3 DEF Held
<1>6. reg[r].life \notin {"none", "adding"}
  BY <1>2, <1>5 DEF RegOK, Fresh
<1>7. ObjOK(g, fwdlog[r], got[r])
  BY <1>2, <1>3 DEF ObjOK, Same
<1>8. g.life \notin {"none", "adding"} /\ g.life = reg[r].life
  BY <1>3, <1>6 DEF Same
<1>9. RegOK(g, d, fwdlog[r], got[r])
  BY <1>7, <1>8, Written
<1>10. Moved(reg[r], fwdlog[r], got[r], g, fwdlog[r], got[r], {})
  BY <1>3 DEF Moved, Same
<1>11. KeptOK(reg[r], disk[r], fwdlog[r], got[r], ackSent[r], peeked[r], Excused)
       => KeptOK(g, d, fwdlog[r], got[r], ackSent[r], peeked[r], Excused)
  <2>1. CASE g.life = "live"
    <3>1. Held(d) = Held(g)
      BY <1>3, <2>1, ImageFacts
    <3> HIDE DEF d
    <3> QED BY <1>3, <1>8, <3>1, KeptWhen DEF Same
  <2>2. CASE g.life # "live"
    BY <2>2 DEF KeptOK, Untaken
  <2> QED BY <2>1, <2>2
<1> HIDE DEF d
<1>12. RegStep(r, g, d, fwdlog[r], got[r], ackSent[r], peeked[r], {})
  BY <1>1, <1>2, <1>4, <1>9, <1>10, <1>11 DEF RegStep
<1>13. RegInv' /\ StoreInv' /\ KeptInv' /\ Frame({}, {}, {})
  <2>1. RegInv /\ StoreInv /\ KeptInv
    BY DEF Inv
  <2> QED BY <1>8, <1>12, <2>1, OneRegStep
<1>14. Posts({}, {})
  BY <1>1 DEF Posts
<1> QED BY <1>1, <1>13, <1>14, CalmPost

LEMMA handle_peek_Keeps ==
    ASSUME Inv, NEW r \in Regs, handle_peek(r) PROVE Inv'
<1> DEFINE b == Head(reg[r].list)
           g == [reg[r] EXCEPT !.list = Tail(@), !.recv = "idle"]
           p == peeked[r] \cup {b}
<1>1. /\ Calm /\ UNCHANGED <<disk, fwdlog, got, ackSent>> /\ reg[r].list # <<>>
      /\ eventq' = Freed(eventq)
      /\ peeked' = [peeked EXCEPT ![r] = p]
  BY DEF handle_peek, Calm
<1>2. /\ disk' = [disk EXCEPT ![r] = disk[r]]
      /\ fwdlog' = [fwdlog EXCEPT ![r] = fwdlog[r]]
      /\ got' = [got EXCEPT ![r] = got[r]] /\ peeked[r] \subseteq Bundles
      /\ ackSent' = [ackSent EXCEPT ![r] = ackSent[r]] /\ ackSent[r] \subseteq Bundles
      /\ RegOK(reg[r], disk[r], fwdlog[r], got[r])
      /\ reg[r] \in RegSet /\ Distinct(reg[r])
  BY <1>1, Selves DEF Inv
<1>3. reg' = [reg EXCEPT ![r] = g]
  BY DEF handle_peek, Inv, RegInv
<1>4. /\ g \in RegSet /\ Distinct(g) /\ Same(reg[r], g)
      /\ b \in Bundles /\ Held(g) \subseteq Held(reg[r])
      /\ Held(reg[r]) \ {b} \subseteq Held(g)
      /\ Range(g.list) \subseteq Range(reg[r].list)
      /\ g.unacked = reg[r].unacked
  BY <1>1, <1>2, PeekFront
<1>5. p \subseteq Bundles /\ peeked[r] \subseteq p /\ b \in p
  BY <1>2, <1>4
<1> HIDE DEF b, g, p
<1>6. RegOK(g, disk[r], fwdlog[r], got[r])
  BY <1>2, <1>4, Shrunk
<1>7. Moved(reg[r], fwdlog[r], got[r], g, fwdlog[r], got[r], {})
  BY <1>4 DEF Moved, Same
<1>8. KeptOK(reg[r], disk[r], fwdlog[r], got[r], ackSent[r], peeked[r], Excused)
      => KeptOK(g, disk[r], fwdlog[r], got[r], ackSent[r], p, Excused)
  BY <1>4, <1>5, KeptWhen DEF Same
<1>9. RegStep(r, g, disk[r], fwdlog[r], got[r], ackSent[r], p, {})
  BY <1>1, <1>2, <1>3, <1>5, <1>6, <1>7, <1>8 DEF RegStep
<1>10. RegInv' /\ StoreInv' /\ KeptInv' /\ Frame({}, {}, {})
  <2>1. RegInv /\ StoreInv /\ KeptInv
    BY DEF Inv
  <2>2. reg[r].life = "adding" => g.life = "adding"
    BY <1>4 DEF Same
  <2> QED BY <1>9, <2>1, <2>2, OneRegStep
<1>11. Posts({}, {})
  BY <1>1 DEF Posts
<1> QED BY <1>1, <1>10, <1>11, CalmPost

(***************************************************************************)
(* Steps of the daemon that leave the pending list and the store alone.    *)
(***************************************************************************)
LEMMA HandlingFacts ==
    ASSUME Inv, NEW t, Handling(t)
    PROVE  /\ eventq # <<>> /\ Head(eventq).type = t
           /\ Head(eventq) \in Good /\ Head(eventq) \in EventSet
           /\ t \notin RegTypes => Head(eventq).b \in Bundles
           /\ t \in BundleTypes \cup RegTypes => Head(eventq).r \in Regs
           /\ t # "received" => ~FromStore(Head(eventq))
           /\ Tail(eventq) \in Seq(Good) /\ NoClash(Tail(eventq))
           /\ Range(eventq) = Range(Tail(eventq)) \cup {Head(eventq)}
           /\ \A e \in Range(Tail(eventq)) :
                 /\ e \in Good /\ e \in EventSet
                 /\ ~Clash(e, Head(eventq)) /\ ~Clash(Head(eventq), e)
           /\ Tail(eventq) \o <<>> = Tail(eventq)
<1>1. eventq \in Seq(Good) /\ NoClash(eventq) /\ eventq # <<>>
      /\ Head(eventq).type = t
  BY DEF Inv, QueueInv, Handling
<1> DEFINE q == Tail(eventq)
           h == Head(eventq)
<1>2. /\ q \in Seq(Good) /\ NoClash(q) /\ h \in Good
      /\ Range(eventq) = Range(q) \cup {h}
      /\ \A e \in Range(q) : ~Clash(e, h) /\ ~Clash(h, e)
      /\ Range(q) \subseteq Good
  BY <1>1, Popped
<1>3. q \o <<>> = q
  <2>1. q \in Seq(Good)
    BY <1>2
  <2> HIDE DEF q
  <2> QED BY <2>1
<1> HIDE DEF q, h
<1>4. h \in EventSet
  BY <1>2 DEF Good
<1>5. /\ h.type \notin RegTypes => h.b \in Bundles
      /\ h.type \in BundleTypes \cup RegTypes => h.r \in Regs
  BY <1>4, EventFacts
<1>6. h.type = t
  BY <1>1 DEF h
<1>7. t # "received" => ~FromStore(h)
  BY <1>6 DEF FromStore
<1>8. \A e \in Range(q) : e \in Good /\ e \in EventSet
  BY <1>2 DEF Good
<1>9. eventq # <<>>
  BY <1>1
<1> QED BY <1>2, <1>3, <1>4, <1>5, <1>6, <1>7, <1>8, <1>9 DEF q, h

\* Nothing is posted.
LEMMA PopsNone ==
    ASSUME Inv, NEW t, Handling(t), t # "received", NEW A, NEW N,
           \A e \in Range(Tail(eventq)) : /\ e.type = "free" => e.b \notin A
                                          /\ e.type = "added" => e.r \notin N,
           eventq' = Tail(eventq) \/ eventq' = Freed(Tail(eventq))
    PROVE  Pops(<<>>, A, N)
<1>1. <<>> \in Seq(Good') /\ NoClash(<<>>) /\ Range(<<>>) = {}
  BY EmptyList DEF NoClash
<1>2. /\ eventq # <<>> /\ ~FromStore(Head(eventq))
      /\ Tail(eventq) \o <<>> = Tail(eventq)
  BY HandlingFacts
<1> QED BY <1>1, <1>2 DEF Pops

\* One event is posted.
LEMMA PopsOne ==
    ASSUME Inv, NEW t, Handling(t), t # "received", NEW A, NEW N,
           \A e \in Range(Tail(eventq)) : /\ e.type = "free" => e.b \notin A
                                          /\ e.type = "added" => e.r \notin N,
           NEW e \in Good',
           \A f \in Range(Tail(eventq)) : ~Clash(e, f) /\ ~Clash(f, e),
           \/ eventq' = Append(Tail(eventq), e)
           \/ eventq' = <<e>> \o Tail(eventq)
           \/ eventq' = Freed(Tail(eventq) \o <<e>>)
    PROVE  Pops(<<e>>, A, N)
<1>1. <<e>> \in Seq(Good') /\ NoClash(<<e>>) /\ Range(<<e>>) = {e}
  BY DEF NoClash, Range
<1>2. /\ eventq # <<>> /\ ~FromStore(Head(eventq)) /\ Tail(eventq) \in Seq(Good)
  BY HandlingFacts
<1>3. Append(Tail(eventq), e) = Tail(eventq) \o <<e>>
  BY <1>2
<1> QED BY <1>1, <1>2, <1>3 DEF Pops

\* The bundle is looked up: the acknowledgement goes on, or is ignored.
LEMMA handle_bundle_acknowledged_by_app_Keeps ==
    ASSUME Inv, handle_bundle_acknowledged_by_app PROVE Inv'
<1> DEFINE b == Head(eventq).b
           r == Head(eventq).r
           e == Event("acking", b, r)
<1>1. /\ Calm /\ UNCHANGED <<reg, disk, fwdlog, got, peeked, ackSent>>
      /\ Handling("ack")
      /\ eventq' = IF InTable(r) /\ b \in Range(reg[r].unacked)
                   THEN <<e>> \o Tail(eventq) ELSE Tail(eventq)
  BY DEF handle_bundle_acknowledged_by_app, Calm
<1>2. b \in Bundles /\ r \in Regs
  BY <1>1, HandlingFacts DEF BundleTypes, RegTypes
<1> HIDE DEF b, r
<1>3. /\ reg' = [reg EXCEPT ![r] = reg[r]] /\ Same(reg[r], reg[r])
      /\ ackSent' = [ackSent EXCEPT ![r] = ackSent[r]]
      /\ ackSent[r] \in SUBSET Bundles /\ reg[r] \in RegSet
      /\ ObjOK(reg[r], fwdlog[r], got[r]) /\ Held(reg[r]) \subseteq stored
  BY <1>1, <1>2, Selves DEF Inv, Same
<1>4. RegInv' /\ StoreInv' /\ KeptInv' /\ Frame({}, {}, {})
  BY <1>1, <1>2, <1>3, FlagStep
<1>5. CASE InTable(r) /\ b \in Range(reg[r].unacked)
  <2>1. b \in Held(reg[r])
    BY <1>5 DEF Held
  <2>2. b \in stored /\ fwdlog[r][b] = "DELIVERED"
    BY <1>2, <1>3, <2>1 DEF ObjOK
  <2>3. b <= arrived
    BY <2>2, StoreFacts DEF Inv
  <2>4. e \in EventSet /\ e.type = "acking" /\ e.b = b /\ e.r = r
    BY <1>2, EventFields DEF BundleTypes
  <2> HIDE DEF e
  <2>5. e \in Good'
    <3>1. /\ arrived' = arrived /\ stored' = stored /\ fwdlog' = fwdlog
      BY <1>1 DEF Calm
    <3>2. ~FromPeer(e)
      BY <2>4 DEF FromPeer
    <3> QED BY <2>2, <2>3, <2>4, <3>1, <3>2 DEF Good
  <2>6. \A f \in Range(Tail(eventq)) : ~Clash(e, f) /\ ~Clash(f, e)
    <3> SUFFICES ASSUME NEW f \in Range(Tail(eventq))
                 PROVE  ~Clash(e, f) /\ ~Clash(f, e)
      OBVIOUS
    <3>1. f \in Good
      BY <1>1, HandlingFacts
    <3>2. f.type = "free" => f.b # b
      BY <1>2, <2>1, <3>1 DEF Good
    <3> QED BY <2>4, <3>2 DEF Clash, FromPeer
  <2>7. Pops(<<e>>, {}, {})
    BY <1>1, <1>5, <2>5, <2>6, PopsOne
  <2> QED BY <1>1, <1>4, <2>7, CalmPop
<1>6. CASE ~(InTable(r) /\ b \in Range(reg[r].unacked))
  <2>1. Pops(<<>>, {}, {})
    BY <1>1, <1>6, PopsNone
  <2> QED BY <1>1, <1>4, <2>1, CalmPop
<1> QED BY <1>5, <1>6

LEMMA bundle_ack_Keeps ==
    ASSUME Inv, bundle_ack PROVE Inv'
<1> DEFINE b == Head(eventq).b
           r == Head(eventq).r
           g == [reg[r] EXCEPT !.acked = PushBack(@, b), !.unacked = Erase(@, b)]
           d == IF g.life = "live" THEN Image(g) ELSE NoImage
<1>1. /\ Calm /\ UNCHANGED <<fwdlog, got, peeked, ackSent>> /\ Handling("acking")
      /\ eventq' = Tail(eventq) /\ reg' = [reg EXCEPT ![r] = g]
      /\ disk' = Updated(r, g)
  BY DEF bundle_ack, Calm
<1>2. /\ b \in Bundles /\ r \in Regs /\ Head(eventq) \in Good
      /\ Head(eventq).type = "acking"
      /\ \A f \in Range(Tail(eventq)) : ~Clash(f, Head(eventq))
  BY <1>1, HandlingFacts DEF BundleTypes, RegTypes
<1>3. b \in stored /\ fwdlog[r][b] = "DELIVERED"
  BY <1>2 DEF Good
<1>4. \A f \in Range(Tail(eventq)) : f.type = "free" => f.b \notin {b}
  BY <1>2 DEF Clash
<1> HIDE DEF b, r
<1>5. /\ disk = [disk EXCEPT ![r] = disk[r]]
      /\ fwdlog' = [fwdlog EXCEPT ![r] = fwdlog[r]]
      /\ got' = [got EXCEPT ![r] = got[r]]
      /\ peeked' = [peeked EXCEPT ![r] = peeked[r]] /\ peeked[r] \subseteq Bundles
      /\ ackSent' = [ackSent EXCEPT ![r] = ackSent[r]] /\ ackSent[r] \subseteq Bundles
      /\ RegOK(reg[r], disk[r], fwdlog[r], got[r])
      /\ ObjOK(reg[r], fwdlog[r], got[r])
      /\ reg[r] \in RegSet /\ Distinct(reg[r])
      /\ reg[r].life # "live" => disk[r] = NoImage
  BY <1>1, <1>2, Selves DEF Inv
<1>6. /\ g \in RegSet /\ Distinct(g) /\ Same(reg[r], g)
      /\ Held(g) = Held(reg[r]) \cup {b} /\ g.list = reg[r].list
      /\ Range(g.unacked) \subseteq Range(reg[r].unacked)
  <2> DEFINE g0 == reg[r]
  <2>1. g = AckedOn(g0, b)
    BY DEF AckedOn
  <2>2. g0 \in RegSet /\ Distinct(g0) /\ b \in Bundles
    BY <1>2, <1>5
  <2> HIDE DEF g0, g
  <2>3. /\ g \in RegSet /\ Distinct(g) /\ Same(g0, g)
        /\ Held(g) = Held(g0) \cup {b} /\ g.list = g0.list
        /\ Range(g.unacked) \subseteq Range(g0.unacked)
    BY <2>1, <2>2, BundleAck
  <2> QED BY <2>3 DEF g0
<1>7. disk' = [disk EXCEPT ![r] = d]
  BY <1>1, <1>5, <1>6 DEF Updated, InTable, Same
<1> HIDE DEF g
<1>8. reg[r].life \notin {"none", "adding"}
  BY <1>2, <1>3, <1>5 DEF RegOK, Fresh
<1>9. ObjOK(g, fwdlog[r], got[r])
  BY <1>3, <1>5, <1>6 DEF ObjOK, Same
<1>10. g.life \notin {"none", "adding"} /\ g.life = reg[r].life
  BY <1>6, <1>8 DEF Same
<1>11. RegOK(g, d, fwdlog[r], got[r])
  BY <1>9, <1>10, Written
<1>12. Moved(reg[r], fwdlog[r], got[r], g, fwdlog[r], got[r], {b})
  BY <1>6 DEF Moved, Same
<1>13. KeptOK(reg[r], disk[r], fwdlog[r], got[r], ackSent[r], peeked[r], Excused)
       => KeptOK(g, d, fwdlog[r], got[r], ackSent[r], peeked[r], Excused)
  <2>1. CASE g.life = "live"
    <3>1. Held(d) = Held(g)
      BY <1>6, <2>1, ImageFacts
    <3> HIDE DEF d
    <3> QED BY <1>6, <1>10, <3>1, KeptWhen DEF Same
  <2>2. CASE g.life # "live"
    BY <2>2 DEF KeptOK, Untaken
  <2> QED BY <2>1, <2>2
<1> HIDE DEF d
<1>14. RegStep(r, g, d, fwdlog[r], got[r], ackSent[r], peeked[r], {b})
  BY <1>1, <1>3, <1>5, <1>7, <1>11, <1>12, <1>13 DEF RegStep
<1>15. RegInv' /\ StoreInv' /\ KeptInv' /\ Frame({b}, {}, {})
  <2>1. RegInv /\ StoreInv /\ KeptInv
    BY DEF Inv
  <2> QED BY <1>2, <1>10, <1>14, <2>1, OneRegStep
<1>16. Pops(<<>>, {b}, {})
  BY <1>1, <1>4, PopsNone
<1>17. {b} \subseteq stored
  BY <1>3
<1> QED BY <1>1, <1>15, <1>16, <1>17, CalmPop

LEMMA handle_deliver_nowhere_Keeps ==
    ASSUME Inv, handle_deliver_nowhere PROVE Inv'
<1> DEFINE r == Head(eventq).r
<1>1. /\ Calm /\ UNCHANGED <<reg, disk, fwdlog, got, peeked, ackSent>>
      /\ Handling("deliver") /\ eventq' = Freed(Tail(eventq))
  BY DEF handle_deliver_nowhere, Calm
<1>2. r \in Regs
  BY <1>1, HandlingFacts DEF BundleTypes, RegTypes
<1> HIDE DEF r
<1>3. RegInv' /\ StoreInv' /\ KeptInv' /\ Frame({}, {}, {})
  <2>1. /\ reg' = [reg EXCEPT ![r] = reg[r]]
        /\ ackSent' = [ackSent EXCEPT ![r] = ackSent[r]]
        /\ ackSent[r] \in SUBSET Bundles /\ reg[r] \in RegSet
    BY <1>1, <1>2, Selves DEF Inv
  <2>2. Same(reg[r], reg[r])
    BY DEF Same
  <2> QED BY <1>1, <1>2, <2>1, <2>2, FlagStep
<1>4. Pops(<<>>, {}, {})
  BY <1>1, PopsNone
<1> QED BY <1>1, <1>3, <1>4, CalmPop

LEMMA handle_registration_dead_Keeps ==
    ASSUME Inv, handle_registration_dead PROVE Inv'
<1> DEFINE r == Head(eventq).r
<1>1. /\ Calm /\ UNCHANGED <<reg, disk, fwdlog, got, peeked, ackSent>>
      /\ Handling("regexpired") /\ eventq' = Tail(eventq)
  BY DEF handle_registration_dead, Calm
<1>2. r \in Regs
  BY <1>1, HandlingFacts DEF BundleTypes, RegTypes
<1> HIDE DEF r
<1>3. RegInv' /\ StoreInv' /\ KeptInv' /\ Frame({}, {}, {})
  <2>1. /\ reg' = [reg EXCEPT ![r] = reg[r]]
        /\ ackSent' = [ackSent EXCEPT ![r] = ackSent[r]]
        /\ ackSent[r] \in SUBSET Bundles /\ reg[r] \in RegSet
    BY <1>1, <1>2, Selves DEF Inv
  <2>2. Same(reg[r], reg[r])
    BY DEF Same
  <2> QED BY <1>1, <1>2, <2>1, <2>2, FlagStep
<1>4. Pops(<<>>, {}, {})
  BY <1>1, PopsNone
<1> QED BY <1>1, <1>3, <1>4, CalmPop

\* The registration leaves the table, or what was left of it is freed.
LEMMA LeavesTable ==
    ASSUME Inv, Calm, NEW r \in Regs, NEW g \in RegSet, Distinct(g),
           g.kind = reg[r].kind, g.life \in {"removed", "freed"},
           g.cache \subseteq reg[r].cache,
           Range(g.list) \subseteq Range(reg[r].list),
           Range(g.unacked) \subseteq Range(reg[r].unacked),
           Held(g) \subseteq Held(reg[r]), reg[r].life # "adding",
           reg' = [reg EXCEPT ![r] = g], disk' = [disk EXCEPT ![r] = NoImage],
           UNCHANGED <<fwdlog, got, peeked, ackSent>>
    PROVE  RegInv' /\ StoreInv' /\ KeptInv' /\ Frame({}, {}, {})
<1>1. /\ fwdlog' = [fwdlog EXCEPT ![r] = fwdlog[r]]
      /\ got' = [got EXCEPT ![r] = got[r]]
      /\ peeked' = [peeked EXCEPT ![r] = peeked[r]] /\ peeked[r] \subseteq Bundles
      /\ ackSent' = [ackSent EXCEPT ![r] = ackSent[r]] /\ ackSent[r] \subseteq Bundles
      /\ RegOK(reg[r], disk[r], fwdlog[r], got[r])
  BY Selves DEF Inv
<1>2. RegOK(g, NoImage, fwdlog[r], got[r])
  BY <1>1, Gone
<1>3. Moved(reg[r], fwdlog[r], got[r], g, fwdlog[r], got[r], {})
  BY DEF Moved, Settled
<1>4. KeptOK(g, NoImage, fwdlog[r], got[r], ackSent[r], peeked[r], Excused)
  BY DEF KeptOK, Untaken
<1>5. RegStep(r, g, NoImage, fwdlog[r], got[r], ackSent[r], peeked[r], {})
  BY <1>1, <1>2, <1>3, <1>4 DEF RegStep
<1>6. RegInv /\ StoreInv /\ KeptInv
  BY DEF Inv
<1> QED BY <1>5, <1>6, OneRegStep

LEMMA TableDelStep ==
    ASSUME Inv, Calm, NEW r \in Regs, InTable(r), TableDel(r),
           UNCHANGED <<fwdlog, got, peeked, ackSent>>
    PROVE  /\ RegInv' /\ StoreInv' /\ KeptInv' /\ Frame({}, {}, {})
           /\ RegEvent("regdelete", r) \in Good'
<1> DEFINE g == [reg[r] EXCEPT !.life = "removed"]
<1>1. reg[r] \in RegSet /\ Distinct(reg[r])
  BY Selves DEF Inv
<1>2. /\ g \in RegSet /\ g.kind = reg[r].kind /\ g.life = "removed"
      /\ g.cache = reg[r].cache /\ g.list = reg[r].list
      /\ g.unacked = reg[r].unacked /\ g.acked = reg[r].acked
  BY <1>1 DEF RegSet, Lives
<1>3. reg' = [reg EXCEPT ![r] = g] /\ disk' = [disk EXCEPT ![r] = NoImage]
  BY DEF TableDel, Inv, RegInv
<1> HIDE DEF g
<1>4. Distinct(g) /\ Held(g) = Held(reg[r])
  BY <1>1, <1>2 DEF Distinct, Held
<1>5. reg[r].life # "adding"
  BY DEF InTable
<1>6. RegInv' /\ StoreInv' /\ KeptInv' /\ Frame({}, {}, {})
  BY <1>2, <1>3, <1>4, <1>5, LeavesTable
<1> DEFINE e == RegEvent("regdelete", r)
<1>7. e \in EventSet /\ e.type = "regdelete" /\ e.b = 0 /\ e.r = r
  BY EventFields DEF RegTypes
<1> HIDE DEF e
<1>8. Settled(reg'[r].life)
  BY <1>2, <1>3 DEF Inv, RegInv, Settled
<1>9. 0 <= arrived'
  BY QueueTypes DEF Calm
<1>10. e \in Good'
  BY <1>7, <1>8, <1>9 DEF Good, FromPeer, FromStore
<1> QED BY <1>6, <1>10 DEF e

LEMMA handle_registration_removed_Keeps ==
    ASSUME Inv, handle_registration_removed PROVE Inv'
<1> DEFINE r == Head(eventq).r
           e == RegEvent("regdelete", r)
<1>1. /\ Calm /\ UNCHANGED <<fwdlog, got, peeked, ackSent>> /\ Handling("removed")
      /\ IF InTable(r) THEN TableDel(r) /\ eventq' = Append(Tail(eventq), e)
         ELSE UNCHANGED <<reg, disk>> /\ eventq' = Tail(eventq)
  BY DEF handle_registration_removed, Calm
<1>2. r \in Regs
  BY <1>1, HandlingFacts DEF BundleTypes, RegTypes
<1> HIDE DEF r
<1>3. CASE InTable(r)
  <2>1. RegInv' /\ StoreInv' /\ KeptInv' /\ Frame({}, {}, {}) /\ e \in Good'
    BY <1>1, <1>2, <1>3, TableDelStep
  <2>2. \A f \in Range(Tail(eventq)) : ~Clash(e, f) /\ ~Clash(f, e)
    BY <1>1, <1>2, HandlingFacts, RegEventFits DEF RegTypes
  <2>3. eventq' = Append(Tail(eventq), e)
    BY <1>1, <1>3
  <2> HIDE DEF e
  <2>4. Pops(<<e>>, {}, {})
    BY <1>1, <2>1, <2>2, <2>3, PopsOne
  <2> QED BY <1>1, <2>1, <2>4, CalmPop
<1>4. CASE ~InTable(r)
  <2>1. RegInv' /\ StoreInv' /\ KeptInv' /\ Frame({}, {}, {})
    <3>1. /\ reg' = [reg EXCEPT ![r] = reg[r]]
          /\ ackSent' = [ackSent EXCEPT ![r] = ackSent[r]]
          /\ ackSent[r] \in SUBSET Bundles /\ reg[r] \in RegSet
      BY <1>1, <1>2, <1>4, Selves DEF Inv
    <3>2. Same(reg[r], reg[r]) /\ UNCHANGED <<disk, fwdlog, got, peeked>>
      BY <1>1, <1>4 DEF Same
    <3> QED BY <1>1, <1>2, <3>1, <3>2, FlagStep
  <2>2. Pops(<<>>, {}, {})
    BY <1>1, <1>4, PopsNone
  <2> QED BY <1>1, <2>1, <2>2, CalmPop
<1> QED BY <1>3, <1>4

LEMMA handle_registration_expired_Keeps ==
    ASSUME Inv, handle_registration_expired PROVE Inv'
<1> DEFINE r == Head(eventq).r
           e == RegEvent("regdelete", r)
<1>1. /\ Calm /\ UNCHANGED <<fwdlog, got, peeked, ackSent>> /\ Handling("regexpired")
      /\ InTable(r)
      /\ IF reg[r].active
         THEN /\ reg' = [reg EXCEPT ![r].expired = TRUE] /\ disk' = disk
              /\ eventq' = Tail(eventq)
         ELSE TableDel(r) /\ eventq' = <<e>> \o Tail(eventq)
  BY DEF handle_registration_expired, Calm
<1>2. r \in Regs
  BY <1>1, HandlingFacts DEF BundleTypes, RegTypes
<1> HIDE DEF r
<1>3. CASE ~reg[r].active
  <2>1. RegInv' /\ StoreInv' /\ KeptInv' /\ Frame({}, {}, {}) /\ e \in Good'
    BY <1>1, <1>2, <1>3, TableDelStep
  <2>2. \A f \in Range(Tail(eventq)) : ~Clash(e, f) /\ ~Clash(f, e)
    BY <1>1, <1>2, HandlingFacts, RegEventFits DEF RegTypes
  <2>3. eventq' = <<e>> \o Tail(eventq)
    BY <1>1, <1>3
  <2> HIDE DEF e
  <2>4. Pops(<<e>>, {}, {})
    BY <1>1, <2>1, <2>2, <2>3, PopsOne
  <2> QED BY <1>1, <2>1, <2>4, CalmPop
<1>4. CASE reg[r].active
  <2> DEFINE g == [reg[r] EXCEPT !.expired = TRUE]
  <2>1. reg[r] \in RegSet
    BY <1>2, Selves DEF Inv
  <2>2. /\ g \in RegSet /\ Same(reg[r], g) /\ g.list = reg[r].list
        /\ g.unacked = reg[r].unacked /\ g.acked = reg[r].acked
    BY <2>1 DEF RegSet, Same
  <2>3. reg' = [reg EXCEPT ![r] = g] /\ UNCHANGED <<disk, fwdlog, got, peeked>>
    BY <1>1, <1>2, <1>4 DEF Inv, RegInv
  <2> HIDE DEF g
  <2>4. /\ ackSent' = [ackSent EXCEPT ![r] = ackSent[r]]
        /\ ackSent[r] \in SUBSET Bundles
    BY <1>1, <1>2, Selves DEF Inv
  <2>5. RegInv' /\ StoreInv' /\ KeptInv' /\ Frame({}, {}, {})
    BY <1>1, <1>2, <2>2, <2>3, <2>4, FlagStep
  <2>6. Pops(<<>>, {}, {})
    BY <1>1, <1>4, PopsNone
  <2> QED BY <1>1, <2>5, <2>6, CalmPop
<1> QED BY <1>3, <1>4

LEMMA handle_registration_delete_Keeps ==
    ASSUME Inv, handle_registration_delete PROVE Inv'
<1> DEFINE r == Head(eventq).r
           g == [NoReg EXCEPT !.life = "freed", !.kind = reg[r].kind,
                              !.timer = FALSE]
<1>1. /\ Calm /\ UNCHANGED <<fwdlog, got, peeked, ackSent, disk>>
      /\ Handling("regdelete") /\ reg' = [reg EXCEPT ![r] = g]
      /\ eventq' = Freed(Tail(eventq))
  BY DEF handle_registration_delete, Calm
<1>2. r \in Regs /\ Head(eventq) \in Good /\ Head(eventq).type = "regdelete"
  BY <1>1, HandlingFacts DEF BundleTypes, RegTypes
<1>3. Settled(reg[r].life)
  BY <1>2 DEF Good
<1> HIDE DEF r
<1>4. /\ reg[r].kind \in Kinds /\ disk = [disk EXCEPT ![r] = disk[r]]
      /\ reg[r].life # "live" => disk[r] = NoImage
  BY <1>2, Selves DEF Inv
<1>5. /\ reg[r].life # "live" /\ reg[r].life # "adding"
      /\ disk' = [disk EXCEPT ![r] = NoImage]
  BY <1>1, <1>3, <1>4 DEF Settled
<1>6. /\ g \in RegSet /\ Distinct(g) /\ Held(g) = {} /\ g.cache = {}
      /\ g.life = "freed" /\ g.kind = reg[r].kind
      /\ Range(g.unacked) = {} /\ Range(g.list) = {}
  BY <1>4, NoRegFacts DEF Lives
<1> HIDE DEF g
<1>7. RegInv' /\ StoreInv' /\ KeptInv' /\ Frame({}, {}, {})
  BY <1>1, <1>2, <1>5, <1>6, LeavesTable
<1>8. Pops(<<>>, {}, {})
  BY <1>1, PopsNone
<1> QED BY <1>1, <1>7, <1>8, CalmPop

LEMMA handle_deliver_bundle_to_reg_Keeps ==
    ASSUME Inv, handle_deliver_bundle_to_reg PROVE Inv'
<1> DEFINE b == Head(eventq).b
           r == Head(eventq).r
           acc == [reg |-> reg[r], log |-> fwdlog[r], posted |-> <<>>]
           done == deliver_to_registration(acc, b, r)
           d == IF done.log = fwdlog[r] THEN disk[r] ELSE Image(done.reg)
           e == Event("delivered", b, r)
<1>1. /\ Calm /\ UNCHANGED <<got, peeked, ackSent>>
      /\ Handling("deliver") /\ InTable(r)
      /\ reg' = [reg EXCEPT ![r] = done.reg]
      /\ fwdlog' = [fwdlog EXCEPT ![r] = done.log]
      /\ disk' = IF done.log = fwdlog[r] THEN disk ELSE Updated(r, done.reg)
      /\ eventq' = Freed(Tail(eventq) \o done.posted)
  BY DEF handle_deliver_bundle_to_reg, Calm
<1>2. /\ b \in Bundles /\ r \in Regs
      /\ Head(eventq) \in Good /\ Head(eventq).type = "deliver"
      /\ \A f \in Range(Tail(eventq)) : ~Clash(f, Head(eventq))
  BY <1>1, HandlingFacts DEF BundleTypes, RegTypes
<1>3. b \in stored /\ b <= arrived
  BY <1>2 DEF Good
<1>4. \A f \in Range(Tail(eventq)) : f.type = "free" => f.b # b
  BY <1>2 DEF Clash
<1> HIDE DEF b, r
<1>5. /\ disk = [disk EXCEPT ![r] = disk[r]]
      /\ got' = [got EXCEPT ![r] = got[r]]
      /\ peeked' = [peeked EXCEPT ![r] = peeked[r]] /\ peeked[r] \subseteq Bundles
      /\ ackSent' = [ackSent EXCEPT ![r] = ackSent[r]] /\ ackSent[r] \subseteq Bundles
      /\ RegOK(reg[r], disk[r], fwdlog[r], got[r])
      /\ ObjOK(reg[r], fwdlog[r], got[r])
      /\ reg[r] \in RegSet /\ fwdlog[r] \in LogSet
  BY <1>1, <1>2, Selves DEF Inv, ObjOK
<1>6. /\ acc \in Accs /\ acc.reg = reg[r] /\ acc.log = fwdlog[r]
      /\ acc.posted = <<>>
  BY <1>5, EmptyList DEF Accs
<1> HIDE DEF acc
<1>7. Delivered(acc, got[r], b, r, done)
  BY <1>2, <1>5, <1>6, DeliverToRegistration
<1> HIDE DEF done
<1>8. reg[r].life = "live" /\ done.reg.life = "live" /\ done.reg.kind = reg[r].kind
  BY <1>1, <1>6, <1>7 DEF InTable, Delivered
<1>9. disk' = [disk EXCEPT ![r] = d]
  BY <1>1, <1>5 DEF Updated
<1>10. RegOK(done.reg, d, done.log, got[r])
  <2>1. CASE done.log = fwdlog[r]
    BY <1>5, <1>6, <1>7, <2>1 DEF Delivered
  <2>2. CASE done.log # fwdlog[r]
    <3>1. RegOK(done.reg, Image(done.reg), done.log, got[r])
      BY <1>7, <1>8, Written DEF Delivered
    <3> QED BY <2>2, <3>1
  <2> QED BY <2>1, <2>2
<1>11. Moved(reg[r], fwdlog[r], got[r], done.reg, done.log, got[r], {b})
  BY <1>6, <1>7, <1>8 DEF Moved, Delivered, Settled
<1>12. KeptOK(reg[r], disk[r], fwdlog[r], got[r], ackSent[r], peeked[r], Excused)
       => KeptOK(done.reg, d, done.log, got[r], ackSent[r], peeked[r], Excused)
  <2>1. CASE done.log = fwdlog[r]
    BY <1>6, <1>7, <2>1 DEF Delivered
  <2>2. CASE done.log # fwdlog[r]
    <3>1. fwdlog[r][b] # "DELIVERED"
      <4>1. done.log \in LogSet
        BY <1>7 DEF Delivered, Accs
      <4>2. \A x \in Bundles : x # b => done.log[x] = fwdlog[r][x]
        BY <1>6, <1>7 DEF Delivered
      <4>3. done.log[b] = "DELIVERED"
        BY <1>7 DEF Delivered
      <4> QED BY <1>5, <2>2, <4>1, <4>2, <4>3 DEF LogSet
    <3>2. Held(d) = Held(done.reg)
      <4>1. done.reg \in RegSet
        BY <1>7 DEF Delivered, ObjOK
      <4> QED BY <2>2, <4>1, ImageFacts
    <3>3. /\ Held(reg[r]) \subseteq Held(done.reg)
          /\ \A x \in Bundles : x # b => done.log[x] = fwdlog[r][x]
          /\ reg[r].kind.failure = "DEFER" => b \in Held(done.reg)
      BY <1>6, <1>7, <3>1 DEF Delivered
    <3> HIDE DEF d
    <3> QED BY <1>8, <3>2, <3>3 DEF KeptOK, Untaken
  <2> QED BY <2>1, <2>2
<1> HIDE DEF d
<1>13. RegStep(r, done.reg, d, done.log, got[r], ackSent[r], peeked[r], {b})
  BY <1>1, <1>3, <1>5, <1>9, <1>10, <1>11, <1>12 DEF RegStep
<1>14. RegInv' /\ StoreInv' /\ KeptInv' /\ Frame({b}, {}, {})
  <2>1. RegInv /\ StoreInv /\ KeptInv
    BY DEF Inv
  <2>2. reg[r].life = "adding" => done.reg.life = "adding"
    BY <1>8
  <2> QED BY <1>2, <1>13, <2>1, <2>2, OneRegStep
<1>15. \A f \in Range(Tail(eventq)) : /\ f.type = "free" => f.b \notin {b}
                                      /\ f.type = "added" => f.r \notin {}
  BY <1>4
<1>16. CASE done.posted = <<>>
  <2>1. eventq' = Freed(Tail(eventq))
    BY <1>1, <1>16, HandlingFacts
  <2>2. Pops(<<>>, {b}, {})
    BY <1>1, <1>15, <2>1, PopsNone
  <2> QED BY <1>1, <1>3, <1>14, <2>2, CalmPop
<1>17. CASE done.posted # <<>>
  <2>1. done.posted = Append(<<>>, e) /\ reg[r].kind.failure = "DROP"
    BY <1>6, <1>7, <1>17 DEF Delivered
  <2>2. eventq' = Freed(Tail(eventq) \o <<e>>)
    BY <1>1, <2>1
  <2>3. e \in Good'
    <3>1. reg'[r] = done.reg /\ fwdlog'[r] = done.log /\ arrived' = arrived
      BY <1>1, <1>2 DEF Inv, RegInv, Calm
    <3>2. reg'[r].kind.failure = "DROP" /\ fwdlog'[r][b] = "DELIVERED"
          /\ b <= arrived'
      BY <1>3, <1>7, <1>8, <2>1, <3>1 DEF Delivered
    <3> QED BY <1>2, <3>2, DeliveredGood
  <2>4. e.type = "delivered" /\ e.b = b
    BY DEF Event
  <2> HIDE DEF e
  <2>5. \A f \in Range(Tail(eventq)) : ~Clash(e, f) /\ ~Clash(f, e)
    BY <1>4, <2>4 DEF Clash, FromPeer
  <2>6. Pops(<<e>>, {b}, {})
    BY <1>1, <1>15, <2>2, <2>3, <2>5, PopsOne
  <2> QED BY <1>1, <1>3, <1>14, <2>6, CalmPop
<1> QED BY <1>16, <1>17

LEMMA handle_registration_added_Keeps ==
    ASSUME Inv, handle_registration_added PROVE Inv'
<1> DEFINE r == Head(eventq).r
           g == [reg[r] EXCEPT !.life = "live"]
           walk == InOrder(pending)
           done == DeliverEach([reg |-> g, log |-> fwdlog[r], posted |-> <<>>],
                               walk, r)
<1>1. /\ Calm /\ UNCHANGED <<got, peeked, ackSent>> /\ Handling("added")
      /\ reg' = [reg EXCEPT ![r] = done.reg]
      /\ fwdlog' = [fwdlog EXCEPT ![r] = done.log]
      /\ disk' = [disk EXCEPT ![r] = Image(done.reg)]
      /\ eventq' = Tail(eventq) \o done.posted
  BY DEF handle_registration_added, Calm
<1>2. /\ r \in Regs /\ Head(eventq) \in Good /\ Head(eventq).type = "added"
      /\ eventq # <<>> /\ ~FromStore(Head(eventq))
      /\ \A f \in Range(Tail(eventq)) : f \in Good /\ ~Clash(f, Head(eventq))
  BY <1>1, HandlingFacts DEF BundleTypes, RegTypes
<1>3. reg[r].life = "adding"
  BY <1>2 DEF Good
<1>4. \A f \in Range(Tail(eventq)) : /\ f.type = "free" => f.b \notin pending
                                     /\ f.type = "added" => f.r \notin {r}
  BY <1>2 DEF Clash, Good
<1> HIDE DEF r
<1>5. /\ got' = [got EXCEPT ![r] = got[r]]
      /\ peeked' = [peeked EXCEPT ![r] = peeked[r]] /\ peeked[r] \subseteq Bundles
      /\ ackSent' = [ackSent EXCEPT ![r] = ackSent[r]] /\ ackSent[r] \subseteq Bundles
      /\ RegOK(reg[r], disk[r], fwdlog[r], got[r])
      /\ ObjOK(reg[r], fwdlog[r], got[r]) /\ reg[r] \in RegSet
  BY <1>1, <1>2, Selves DEF Inv
<1>6. Held(reg[r]) = {} /\ \A b \in Bundles : fwdlog[r][b] = "none"
  BY <1>3, <1>5 DEF RegOK, Fresh
<1>7. /\ g \in RegSet /\ g.kind = reg[r].kind /\ g.life = "live"
      /\ g.cache = reg[r].cache /\ g.list = reg[r].list
      /\ g.unacked = reg[r].unacked /\ g.acked = reg[r].acked
  BY <1>5 DEF RegSet, Lives
<1> HIDE DEF g
<1>8. Distinct(g) /\ Held(g) = {}
  BY <1>5, <1>6, <1>7 DEF Distinct, Held, ObjOK
<1>9. ObjOK(g, fwdlog[r], got[r])
  BY <1>5, <1>6, <1>7, <1>8 DEF ObjOK
<1>10. /\ pending \subseteq stored /\ stored \subseteq 1 .. arrived
       /\ pending \subseteq Bundles /\ arrived \in Nat
  <2>1. /\ pending \subseteq stored /\ stored \subseteq 1 .. arrived
        /\ arrived \in 0 .. NBundles /\ NBundles \in Nat
    BY DeliveryAssumption DEF Inv, StoreInv
  <2> QED BY <2>1 DEF Bundles
<1>11. walk \in Seq(Bundles) /\ Range(walk) = pending
  <2>1. pending \in SUBSET Nat /\ IsFiniteSet(pending)
    BY <1>10, BundlesFinite, FS_Subset
  <2>2. walk \in Seq(pending) /\ Range(walk) = pending
    BY <2>1, InOrderFacts
  <2> HIDE DEF walk
  <2> QED BY <1>10, <2>2, Retyped
<1> HIDE DEF walk
<1>12. /\ done \in Accs /\ ObjOK(done.reg, done.log, got[r])
       /\ done.reg.kind = g.kind /\ done.reg.life = g.life
       /\ Held(done.reg) \subseteq Held(g) \cup pending
       /\ \A b \in Bundles :
             /\ b \notin pending => done.log[b] = fwdlog[r][b]
             /\ done.log[b] = "DELIVERED" /\ g.kind.failure = "DEFER"
                => b \in Held(done.reg)
       /\ \A i \in DOMAIN done.posted : \E b \in pending :
             /\ done.posted[i] = Event("delivered", b, r)
             /\ g.kind.failure = "DROP" /\ done.log[b] = "DELIVERED"
  <2>1. \A b \in Bundles : fwdlog[r][b] # "DELIVERED"
    BY <1>6
  <2> QED BY <1>2, <1>9, <1>11, <2>1, DeliverEachFacts
<1> HIDE DEF done
<1>13. done.reg.life = "live" /\ done.reg.kind = reg[r].kind
       /\ done.reg \in RegSet /\ done.posted \in Seq(EventSet)
  BY <1>7, <1>12 DEF Accs
<1>14. RegOK(done.reg, Image(done.reg), done.log, got[r])
  BY <1>12, <1>13, Written
<1>15. Moved(reg[r], fwdlog[r], got[r], done.reg, done.log, got[r], pending)
  BY <1>3, <1>6, <1>8, <1>12, <1>13 DEF Moved, Settled
<1>16. KeptOK(done.reg, Image(done.reg), done.log, got[r], ackSent[r], peeked[r],
              Excused)
  <2>1. Held(Image(done.reg)) = Held(done.reg)
    BY <1>13, ImageFacts
  <2> QED BY <1>12, <1>13, <2>1 DEF KeptOK, Untaken
<1>17. RegStep(r, done.reg, Image(done.reg), done.log, got[r], ackSent[r],
               peeked[r], pending)
  BY <1>1, <1>5, <1>10, <1>14, <1>15, <1>16 DEF RegStep
<1>18. RegInv' /\ StoreInv' /\ KeptInv' /\ Frame(pending, {}, {r})
  <2>1. RegInv /\ StoreInv /\ KeptInv
    BY DEF Inv
  <2> QED BY <1>2, <1>17, <2>1, OneRegStep
<1>19. \A i \in DOMAIN done.posted : /\ done.posted[i] \in Good'
                                     /\ done.posted[i].type = "delivered"
                                     /\ done.posted[i].b \in pending
  <2> SUFFICES ASSUME NEW i \in DOMAIN done.posted
               PROVE  /\ done.posted[i] \in Good'
                      /\ done.posted[i].type = "delivered"
                      /\ done.posted[i].b \in pending
    OBVIOUS
  <2>1. PICK b \in pending : /\ done.posted[i] = Event("delivered", b, r)
                             /\ g.kind.failure = "DROP"
                             /\ done.log[b] = "DELIVERED"
    BY <1>12
  <2>2. b \in Bundles /\ b <= arrived' /\ reg'[r] = done.reg
        /\ fwdlog'[r] = done.log
    BY <1>1, <1>2, <1>10 DEF Calm, Inv, RegInv
  <2>3. Event("delivered", b, r) \in Good'
    BY <1>2, <1>7, <1>13, <2>1, <2>2, DeliveredGood
  <2>4. Event("delivered", b, r).type = "delivered"
        /\ Event("delivered", b, r).b = b
    BY DEF Event
  <2> QED BY <2>1, <2>3, <2>4
<1>20. \A e \in Range(done.posted) : e \in Good' /\ e.type = "delivered"
                                     /\ e.b \in pending
  BY <1>19 DEF Range
<1>21. done.posted \in Seq(Good')
  BY <1>13, <1>20, Retyped
<1>22. NoClash(done.posted)
  BY <1>19 DEF NoClash, Clash, FromPeer
<1>23. \A e \in Range(Tail(eventq)), f \in Range(done.posted) :
           ~Clash(e, f) /\ ~Clash(f, e)
  BY <1>4, <1>20 DEF Clash, FromPeer
<1>24. Pops(done.posted, pending, {r})
  BY <1>1, <1>2, <1>4, <1>21, <1>22, <1>23 DEF Pops
<1> QED BY <1>1, <1>10, <1>18, <1>24, CalmPop

(***************************************************************************)
(* Steps that change the pending list, the store or custody.               *)
(***************************************************************************)

\* The head of the queue is handled and events p are posted behind the rest,
\* before bundles are freed, or in front of it.
Handles(p, A, R, N) ==
    /\ eventq # <<>>
    /\ \A e \in Range(Tail(eventq)) : Spared(e, A, R, N)
    /\ \A f \in Range(p) : f \in Good'
    /\ NoClash(p)
    /\ \A e \in Range(Tail(eventq)), f \in Range(p) :
           ~Clash(e, f) /\ ~Clash(f, e)
    /\ \/ eventq' = Tail(eventq) \o p \/ eventq' = Freed(Tail(eventq) \o p)
       \/ eventq' = p \o Tail(eventq)

LEMMA HandlesQueue ==
    ASSUME Inv, StoreInv', NEW A, NEW R, NEW N, Frame(A, R, N),
           NEW S, NEW p \in Seq(S), Handles(p, A, R, N)
    PROVE  QueueInv' /\ \A e \in Range(Tail(eventq)) : e \in Range(eventq')
<1> DEFINE t == Tail(eventq)
           q == t \o p
<1>1. eventq \in Seq(Good) /\ NoClash(eventq) /\ eventq # <<>>
  BY DEF Inv, QueueInv, Handles
<1>2. t \in Seq(Good) /\ NoClash(t)
  BY <1>1, Popped
<1>3. \A e \in Range(t) : Spared(e, A, R, N)
  BY DEF Handles
<1>4. \A e \in Range(t), f \in Range(p) : ~Clash(e, f) /\ ~Clash(f, e)
  BY DEF Handles
<1>5. eventq' = t \o p \/ eventq' = Freed(t \o p) \/ eventq' = p \o t
  BY DEF Handles
<1> HIDE DEF t
<1>6. t \in Seq(Good')
  BY <1>2, <1>3, QueueKept DEF Inv
<1>7. p \in Seq(Good') /\ NoClash(p)
  BY Retyped DEF Handles
<1>8. /\ q \in Seq(Good') /\ NoClash(q) /\ Range(t) \subseteq Range(q)
      /\ p \o t \in Seq(Good') /\ NoClash(p \o t) /\ Range(t) \subseteq Range(p \o t)
  <2>1. NoClash(q) /\ NoClash(p \o t)
    BY <1>2, <1>4, <1>6, <1>7, NoClashConcat
  <2> QED BY <1>6, <1>7, <2>1, ConcatRange
<1>9. arrived' \in Nat /\ stored' \subseteq 1 .. arrived' /\ stored' \subseteq Bundles
  <2>1. arrived' \in 0 .. NBundles /\ stored' \subseteq 1 .. arrived'
    BY DEF StoreInv
  <2> QED BY <2>1, DeliveryAssumption DEF Bundles
<1>10. eventq' = q \/ eventq' = Freed(q) \/ eventq' = p \o t
  BY <1>5
<1> HIDE DEF q
<1>11. Freed(q) \in Seq(Good') /\ NoClash(Freed(q)) /\ Range(q) \subseteq Range(Freed(q))
  BY <1>8, <1>9, FreedFacts
<1>12. QueueInv' /\ Range(t) \subseteq Range(eventq')
  BY <1>8, <1>10, <1>11 DEF QueueInv
<1> QED BY <1>12 DEF t

\* Custody ends only for what has been handed over or has expired.
LEMMA CustodyKept ==
    ASSUME RegInv, CustodyInv, NEW A, NEW R, NEW N, Frame(A, R, N),
           stored' \subseteq Bundles,
           \A b \in custody' : b \in pending' \/ Reloading(eventq', b),
           \A b \in (stored' \cap Custodial) \ (custody' \cup over') :
              \/ b \in stored /\ b \notin custody \cup over
              \/ \E r \in Regs : HandedOver(r, b)
    PROVE  CustodyInv'
<1>1. ASSUME NEW b \in (stored' \cap Custodial) \ (custody' \cup over')
      PROVE  \E r \in Regs : HandedOver(r, b)'
  <2>1. b \in Bundles
    OBVIOUS
  <2>2. PICK r \in Regs : HandedOver(r, b)
    BY DEF CustodyInv, CustodyUntilDelivered, HandedOver
  <2> QED BY <2>1, <2>2, HandedOverKept
<1>2. CustodyUntilDelivered'
  BY <1>1 DEF CustodyUntilDelivered, HandedOver
<1> QED BY <1>2 DEF CustodyInv

\* What is read from the store by an event behind the head is so afterwards.
LEMMA StillReloading ==
    ASSUME Inv, NEW t, Handling(t),
           \A e \in Range(Tail(eventq)) : e \in Range(eventq')
    PROVE  \A b \in custody : \/ b \in pending \/ Reloading(eventq', b)
                              \/ FromStore(Head(eventq)) /\ b = Head(eventq).b
<1> SUFFICES ASSUME NEW b \in custody, b \notin pending
             PROVE  \/ Reloading(eventq', b)
                    \/ FromStore(Head(eventq)) /\ b = Head(eventq).b
  OBVIOUS
<1>1. PICK e \in Range(eventq) : FromStore(e) /\ e.b = b
  BY DEF Inv, CustodyInv, Reloading
<1>2. e \in Range(Tail(eventq)) \/ e = Head(eventq)
  BY HandlingFacts
<1>3. CASE e = Head(eventq)
  BY <1>1, <1>3
<1>4. CASE e \in Range(Tail(eventq))
  BY <1>1, <1>4 DEF Reloading
<1> QED BY <1>2, <1>3, <1>4

\* A step that leaves the registrations alone.
Quiet == UNCHANGED <<early, reg, disk, fwdlog, got, ackSent, peeked>>

LEMMA QuietStep ==
    ASSUME RegInv, StoreInv, KeptInv, Quiet, over \subseteq over',
           custody' \subseteq custody,
           over' \subseteq Bundles, arrived <= arrived', arrived' \in 0 .. NBundles,
           pending' \subseteq stored', stored' \subseteq 1 .. arrived',
           \A r \in Regs : Held(reg[r]) \subseteq stored',
           NEW A, NEW R, stored \ R \subseteq stored',
           stored' \subseteq stored \cup A, pending' \subseteq pending \cup A
    PROVE  RegInv' /\ StoreInv' /\ KeptInv' /\ Frame(A, R, {})
<1>1. /\ reg' = reg /\ disk' = disk /\ fwdlog' = fwdlog /\ got' = got
      /\ ackSent' = ackSent /\ peeked' = peeked /\ early' = early
  BY DEF Quiet
<1>2. RegInv'
  BY <1>1 DEF RegInv
<1>3. arrived' \in Nat /\ arrived \in Nat
  BY DeliveryAssumption, StoreFacts
<1>4. StoreInv'
  <2>1. \A r \in Regs, b \in Bundles : b > arrived' => fwdlog[r][b] = "none"
    <3> SUFFICES ASSUME NEW r \in Regs, NEW b \in Bundles, b > arrived'
                 PROVE  fwdlog[r][b] = "none"
      OBVIOUS
    <3>1. b > arrived
      BY <1>3, BundlesFinite
    <3> QED BY <3>1 DEF StoreInv
  <2> QED BY <1>1, <2>1 DEF StoreInv
<1>5. KeptInv'
  <2> SUFFICES ASSUME NEW r \in Regs
               PROVE  KeptOK(reg[r], disk[r], fwdlog[r], got[r], ackSent[r],
                             peeked[r], Excused')
    BY <1>1 DEF KeptInv
  <2>1. KeptOK(reg[r], disk[r], fwdlog[r], got[r], ackSent[r], peeked[r], Excused)
    BY DEF KeptInv
  <2>2. Excused \subseteq Excused'
    BY <1>1 DEF Excused
  <2> QED BY <2>1, <2>2 DEF KeptOK
<1>6. \A r \in Regs : Moved(reg[r], fwdlog[r], got[r],
                            reg'[r], fwdlog'[r], got'[r], A)
  BY <1>1, NotMoved
<1>7. Frame(A, R, {})
  BY <1>1, <1>3, <1>6 DEF Frame
<1> QED BY <1>2, <1>4, <1>5, <1>7

\* Nothing is handled; the queue stays, or event e is posted.
LEMMA PostsQueue ==
    ASSUME Inv, Frame({}, {}, {}), NEW e,
           \/ eventq' = eventq
           \/ /\ e \in Good'
              /\ \A f \in Range(eventq) : ~Clash(e, f) /\ ~Clash(f, e)
              /\ eventq' = Append(eventq, e) \/ eventq' = <<e>> \o eventq
    PROVE  QueueInv' /\ Range(eventq) \subseteq Range(eventq')
<1>1. eventq \in Seq(Good) /\ NoClash(eventq)
  BY DEF Inv, QueueInv
<1>2. \A f \in Range(eventq) : Spared(f, {}, {}, {})
  BY DEF Spared
<1>3. eventq \in Seq(Good')
  BY <1>1, <1>2, QueueKept DEF Inv
<1>4. CASE eventq' = eventq
  BY <1>1, <1>3, <1>4 DEF QueueInv
<1>5. CASE eventq' # eventq
  <2>1. /\ e \in Good'
        /\ \A f \in Range(eventq) : ~Clash(e, f) /\ ~Clash(f, e)
        /\ eventq' = Append(eventq, e) \/ eventq' = <<e>> \o eventq
    BY <1>5
  <2>2. /\ Append(eventq, e) \in Seq(Good') /\ NoClash(Append(eventq, e))
        /\ Range(Append(eventq, e)) = Range(eventq) \cup {e}
        /\ <<e>> \o eventq \in Seq(Good') /\ NoClash(<<e>> \o eventq)
        /\ Range(<<e>> \o eventq) = Range(eventq) \cup {e}
    BY <1>1, <1>3, <2>1, NoClashOne
  <2> QED BY <2>1, <2>2 DEF QueueInv
<1> QED BY <1>4, <1>5

LEMMA ArriveKeeps ==
    ASSUME Inv, Arrive PROVE Inv'
<1> DEFINE e == Received(arrived + 1, "peer")
<1>1. /\ Quiet /\ UNCHANGED <<pending, stored, custody, over>>
      /\ arrived < NBundles /\ arrived' = arrived + 1
      /\ eventq' = Append(eventq, e)
  BY DEF Arrive, Quiet
<1>2. RegInv /\ StoreInv /\ KeptInv /\ CustodyInv
  BY DEF Inv
<1>3. /\ arrived \in Nat /\ NBundles \in Nat /\ stored \subseteq Bundles
      /\ \A b \in stored : b \in Nat /\ b <= arrived
  BY <1>2, StoreFacts
<1>4. RegInv' /\ StoreInv' /\ KeptInv' /\ Frame({}, {}, {})
  <2>1. /\ over \subseteq over' /\ over' \subseteq Bundles /\ arrived <= arrived'
        /\ custody' \subseteq custody
        /\ arrived' \in 0 .. NBundles
    BY <1>1, <1>2, <1>3 DEF StoreInv
  <2>2. stored' \subseteq 1 .. arrived'
    <3>1. stored \subseteq 1 .. arrived
      BY <1>2 DEF StoreInv
    <3> QED BY <1>1, <1>3, <3>1
  <2>3. /\ pending' \subseteq stored' /\ stored \ {} \subseteq stored'
        /\ stored' \subseteq stored \cup {} /\ pending' \subseteq pending \cup {}
        /\ \A r \in Regs : Held(reg[r]) \subseteq stored'
    BY <1>1, <1>2 DEF StoreInv
  <2> QED BY <1>1, <1>2, <2>1, <2>2, <2>3, QuietStep
<1>5. arrived + 1 \in Bundles /\ arrived + 1 > arrived
  BY <1>1, <1>3 DEF Bundles
<1>6. e \in EventSet /\ e.type = "received" /\ e.b = arrived + 1 /\ e.src = "peer"
  BY <1>5, EventFields
<1> HIDE DEF e
<1>7. e \in Good'
  <2>1. arrived + 1 \notin stored
    BY <1>3
  <2>2. \A r \in Regs : fwdlog[r][arrived + 1] = "none"
    BY <1>2, <1>5 DEF StoreInv
  <2>3. stored' = stored /\ fwdlog' = fwdlog /\ e.b <= arrived'
    BY <1>1, <1>3, <1>6 DEF Quiet
  <2> QED BY <1>6, <2>1, <2>2, <2>3 DEF Good, FromPeer, FromStore
<1>8. \A f \in Range(eventq) : ~Clash(e, f) /\ ~Clash(f, e)
  <2> SUFFICES ASSUME NEW f \in Range(eventq) PROVE ~Clash(e, f) /\ ~Clash(f, e)
    OBVIOUS
  <2>1. f \in Good /\ f \in EventSet
    BY QueueTypes
  <2>2. f.b <= arrived /\ f.b \in Int
    BY <2>1, EventFacts, BundlesFinite DEF Good
  <2>3. f.b # e.b
    BY <1>3, <1>6, <2>2
  <2> QED BY <1>6, <2>3 DEF Clash
<1>9. QueueInv' /\ Range(eventq) \subseteq Range(eventq')
  BY <1>1, <1>4, <1>7, <1>8, PostsQueue
<1>10. CustodyInv'
  <2>1. \A b \in custody' : b \in pending' \/ Reloading(eventq', b)
    BY <1>1, <1>2, <1>9 DEF CustodyInv, Reloading
  <2>2. stored' \subseteq Bundles
    BY <1>1, <1>3
  <2>3. \A b \in (stored' \cap Custodial) \ (custody' \cup over') :
           b \in stored /\ b \notin custody \cup over
    BY <1>1
  <2> QED BY <1>2, <1>4, <2>1, <2>2, <2>3, CustodyKept
<1> QED BY <1>4, <1>9, <1>10 DEF Inv

LEMMA ExpiredGood ==
    ASSUME NEW b \in Bundles, b <= arrived', b \in over'
    PROVE  BundleEvent("expired", b) \in Good'
<1> DEFINE e == BundleEvent("expired", b)
<1>1. e \in EventSet /\ e.type = "expired" /\ e.b = b
  BY EventFields
<1> HIDE DEF e
<1>2. e \in Good'
  BY <1>1 DEF Good, FromPeer, FromStore
<1> QED BY <1>2 DEF e

LEMMA LifetimeEndsKeeps ==
    ASSUME Inv, NEW b \in Bundles, LifetimeEnds(b) PROVE Inv'
<1> DEFINE e == BundleEvent("expired", b)
<1>1. /\ Quiet /\ UNCHANGED <<pending, stored, custody, arrived>>
      /\ b <= arrived /\ over' = over \cup {b}
      /\ eventq' = IF b \in pending THEN <<e>> \o eventq ELSE eventq
  BY DEF LifetimeEnds, Quiet
<1>2. RegInv /\ StoreInv /\ KeptInv /\ CustodyInv
  BY DEF Inv
<1>3. arrived \in Nat /\ stored \subseteq Bundles
  BY <1>2, StoreFacts
<1>4. RegInv' /\ StoreInv' /\ KeptInv' /\ Frame({}, {}, {})
  <2>1. /\ over \subseteq over' /\ over' \subseteq Bundles /\ arrived <= arrived'
        /\ custody' \subseteq custody
        /\ arrived' \in 0 .. NBundles
    BY <1>1, <1>2, <1>3 DEF StoreInv
  <2>2. /\ pending' \subseteq stored' /\ stored' \subseteq 1 .. arrived'
        /\ stored \ {} \subseteq stored'
        /\ stored' \subseteq stored \cup {} /\ pending' \subseteq pending \cup {}
        /\ \A r \in Regs : Held(reg[r]) \subseteq stored'
    BY <1>1, <1>2 DEF StoreInv
  <2> QED BY <1>1, <1>2, <2>1, <2>2, QuietStep
<1>5. e \in Good'
  BY <1>1, ExpiredGood
<1>6. e.type = "expired" /\ e.b = b
  BY EventFields
<1> HIDE DEF e
<1>7. b \in pending => \A f \in Range(eventq) : ~Clash(e, f) /\ ~Clash(f, e)
  <2> SUFFICES ASSUME b \in pending, NEW f \in Range(eventq)
               PROVE  ~Clash(e, f) /\ ~Clash(f, e)
    OBVIOUS
  <2>1. f \in Good
    BY QueueTypes
  <2>2. f.type = "free" => f.b # b
    BY <2>1 DEF Good
  <2> QED BY <1>6, <2>2 DEF Clash, FromPeer
<1>8. QueueInv' /\ Range(eventq) \subseteq Range(eventq')
  <2>1. CASE b \in pending
    BY <1>1, <1>4, <1>5, <1>7, <2>1, PostsQueue
  <2>2. CASE b \notin pending
    BY <1>1, <1>4, <2>2, PostsQueue
  <2> QED BY <2>1, <2>2
<1>9. CustodyInv'
  <2>1. \A x \in custody' : x \in pending' \/ Reloading(eventq', x)
    BY <1>1, <1>2, <1>8 DEF CustodyInv, Reloading
  <2>2. stored' \subseteq Bundles
    BY <1>1, <1>3
  <2>3. \A x \in (stored' \cap Custodial) \ (custody' \cup over') :
           x \in stored /\ x \notin custody \cup over
    BY <1>1
  <2> QED BY <1>2, <1>4, <2>1, <2>2, <2>3, CustodyKept
<1> QED BY <1>4, <1>8, <1>9 DEF Inv

LEMMA handle_bundle_free_Keeps ==
    ASSUME Inv, handle_bundle_free PROVE Inv'
<1> DEFINE b == Head(eventq).b
<1>1. /\ Quiet /\ UNCHANGED <<pending, custody, arrived, over>>
      /\ Handling("free") /\ stored' = stored \ {b} /\ eventq' = Tail(eventq)
  BY DEF handle_bundle_free, Quiet
<1>2. RegInv /\ StoreInv /\ KeptInv /\ CustodyInv
  BY DEF Inv
<1>3. /\ b \in Bundles /\ Head(eventq) \in Good /\ Head(eventq).type = "free"
      /\ eventq # <<>> /\ ~FromStore(Head(eventq))
      /\ \A f \in Range(Tail(eventq)) : ~Clash(Head(eventq), f)
      /\ Tail(eventq) \o <<>> = Tail(eventq)
  BY <1>1, HandlingFacts DEF RegTypes
<1>4. b \notin pending /\ \A r \in Regs : b \notin Held(reg[r])
  BY <1>3 DEF Good
<1>5. \A f \in Range(Tail(eventq)) : Spared(f, {}, {b}, {})
  BY <1>3 DEF Clash, Spared, FromStore
<1> HIDE DEF b
<1>6. arrived \in Nat /\ stored \subseteq Bundles
  BY <1>2, StoreFacts
<1>7. RegInv' /\ StoreInv' /\ KeptInv' /\ Frame({}, {b}, {})
  <2>1. /\ over \subseteq over' /\ over' \subseteq Bundles /\ arrived <= arrived'
        /\ custody' \subseteq custody
        /\ arrived' \in 0 .. NBundles
    BY <1>1, <1>2, <1>6 DEF StoreInv
  <2>2. /\ pending' \subseteq stored' /\ stored' \subseteq 1 .. arrived'
        /\ stored \ {b} \subseteq stored'
        /\ stored' \subseteq stored \cup {} /\ pending' \subseteq pending \cup {}
        /\ \A r \in Regs : Held(reg[r]) \subseteq stored'
    BY <1>1, <1>2, <1>4 DEF StoreInv
  <2> QED BY <1>1, <1>2, <2>1, <2>2, QuietStep
<1>8. <<>> \in Seq({}) /\ Range(<<>>) = {} /\ NoClash(<<>>)
  BY EmptyList DEF NoClash
<1>9. Handles(<<>>, {}, {b}, {})
  BY <1>1, <1>3, <1>5, <1>8 DEF Handles
<1>10. QueueInv' /\ \A e \in Range(Tail(eventq)) : e \in Range(eventq')
  BY <1>7, <1>8, <1>9, HandlesQueue
<1>11. CustodyInv'
  <2>1. \A x \in custody' : x \in pending' \/ Reloading(eventq', x)
    BY <1>1, <1>3, <1>10, StillReloading
  <2>2. stored' \subseteq Bundles
    BY <1>1, <1>6
  <2>3. \A x \in (stored' \cap Custodial) \ (custody' \cup over') :
           x \in stored /\ x \notin custody \cup over
    BY <1>1
  <2> QED BY <1>2, <1>7, <2>1, <2>2, <2>3, CustodyKept
<1> QED BY <1>7, <1>10, <1>11 DEF Inv

\* The head is the arrival of a bundle, or the bundle read from the store.
LEMMA ReceivedFacts ==
    ASSUME Inv, Handling("received"), NEW b, b = Head(eventq).b
    PROVE  /\ b \in Bundles /\ b <= arrived /\ eventq # <<>>
           /\ FromPeer(Head(eventq)) \/ FromStore(Head(eventq))
           /\ FromPeer(Head(eventq)) => /\ b \notin stored
                                        /\ \A r \in Regs : fwdlog[r][b] = "none"
           /\ FromStore(Head(eventq)) => b \in stored
           /\ \A f \in Range(Tail(eventq)) : /\ Spared(f, {b}, {}, {})
                                             /\ f.type = "free" => f.b # b
<1> DEFINE h == Head(eventq)
<1>1. /\ eventq # <<>> /\ h.type = "received" /\ h \in Good /\ h \in EventSet
      /\ b \in Bundles
      /\ \A e \in Range(Tail(eventq)) : e \in Good /\ ~Clash(e, h)
  BY HandlingFacts DEF RegTypes
<1>2. b = h.b
  OBVIOUS
<1> HIDE DEF h
<1>3. FromPeer(h) \/ FromStore(h)
  BY <1>1, EventFacts DEF FromPeer, FromStore
<1>4. /\ b <= arrived
      /\ FromPeer(h) => b \notin stored /\ \A r \in Regs : fwdlog[r][b] = "none"
      /\ FromStore(h) => b \in stored
  BY <1>1, <1>2 DEF Good
<1>5. ASSUME NEW f \in Range(Tail(eventq))
      PROVE  Spared(f, {b}, {}, {}) /\ (f.type = "free" => f.b # b)
  <2>1. f \in Good /\ ~Clash(f, h)
    BY <1>1
  <2>2. f.type = "free" => f.b # b
    BY <1>1, <1>2, <2>1 DEF Clash
  <2>3. FromPeer(f) => f.b # b
    BY <1>2, <1>3, <1>4, <2>1 DEF Clash, Good
  <2> QED BY <2>2, <2>3 DEF Spared
<1> QED BY <1>1, <1>3, <1>4, <1>5 DEF h

\* Deliveries of bundle b to the registrations of a walk.
LEMMA DeliverEvents ==
    ASSUME NEW b \in Bundles, b <= arrived', b \in stored',
           NEW w \in Seq(Regs),
           NEW p, p = [k \in DOMAIN w |-> Event("deliver", b, w[k])]
    PROVE  /\ p \in Seq(EventSet) /\ NoClash(p)
           /\ \A f \in Range(p) : f \in Good' /\ f.type = "deliver" /\ f.b = b
<1>1. \A r \in Regs : LET e == Event("deliver", b, r)
                      IN e \in EventSet /\ e \in Good' /\ e.type = "deliver"
                         /\ e.b = b
  <2> SUFFICES ASSUME NEW r \in Regs, NEW e, e = Event("deliver", b, r)
               PROVE  e \in EventSet /\ e \in Good' /\ e.type = "deliver"
                      /\ e.b = b
    BY Zenon
  <2>1. e \in EventSet /\ e.type = "deliver" /\ e.b = b
    BY EventFields DEF BundleTypes
  <2> QED BY <2>1 DEF Good, FromPeer, FromStore
<1>2. DOMAIN w = 1 .. Len(w) /\ Len(w) \in Nat /\ \A k \in DOMAIN w : w[k] \in Regs
  OBVIOUS
<1>3. /\ DOMAIN p = 1 .. Len(w)
      /\ \A k \in DOMAIN p : /\ p[k] \in EventSet /\ p[k] \in Good'
                             /\ p[k].type = "deliver" /\ p[k].b = b
  BY <1>1, <1>2
<1>4. p \in Seq(EventSet)
  <2>1. p = [k \in 1 .. Len(w) |-> p[k]]
    BY <1>2, <1>3
  <2> HIDE DEF EventSet
  <2> QED BY <1>2, <1>3, <2>1
<1>5. NoClash(p)
  BY <1>3 DEF NoClash, Clash, FromPeer
<1> QED BY <1>3, <1>4, <1>5 DEF Range

\* A walk over registrations.
LEMMA WalkFacts ==
    ASSUME NEW S \in SUBSET Regs PROVE InOrder(S) \in Seq(Regs)
<1>1. S \in SUBSET Nat /\ IsFiniteSet(S)
  BY BundlesFinite, FS_Subset
<1>2. InOrder(S) \in Seq(S) /\ Range(InOrder(S)) = S
  BY <1>1, InOrderFacts
<1> QED BY <1>2, Retyped

LEMMA handle_received_too_late_Keeps ==
    ASSUME Inv, handle_received_too_late PROVE Inv'
<1> DEFINE b == Head(eventq).b
           e == BundleEvent("expired", b)
<1>1. /\ Quiet /\ UNCHANGED <<custody, arrived, over>>
      /\ Handling("received") /\ b \in over /\ pending' = pending \cup {b}
      /\ stored' = stored \cup {b} /\ eventq' = <<e>> \o Tail(eventq)
  BY DEF handle_received_too_late, Quiet
<1>2. RegInv /\ StoreInv /\ KeptInv /\ CustodyInv
  BY DEF Inv
<1>3. /\ b \in Bundles /\ b <= arrived /\ eventq # <<>>
      /\ \A f \in Range(Tail(eventq)) : /\ Spared(f, {b}, {}, {})
                                        /\ f.type = "free" => f.b # b
  BY <1>1, ReceivedFacts
<1>4. /\ arrived \in Nat /\ stored \subseteq Bundles
      /\ \A x \in Bundles : x <= arrived => x \in 1 .. arrived
  BY <1>2, StoreFacts
<1>5. RegInv' /\ StoreInv' /\ KeptInv' /\ Frame({b}, {}, {})
  <2>1. /\ over \subseteq over' /\ over' \subseteq Bundles /\ arrived <= arrived'
        /\ custody' \subseteq custody
        /\ arrived' \in 0 .. NBundles
    BY <1>1, <1>2, <1>4 DEF StoreInv
  <2>2. /\ pending' \subseteq stored' /\ stored' \subseteq 1 .. arrived'
        /\ stored \ {} \subseteq stored'
        /\ stored' \subseteq stored \cup {b} /\ pending' \subseteq pending \cup {b}
        /\ \A r \in Regs : Held(reg[r]) \subseteq stored'
    BY <1>1, <1>2, <1>3, <1>4 DEF StoreInv
  <2> HIDE DEF b
  <2> QED BY <1>1, <1>2, <2>1, <2>2, QuietStep
<1>6. e \in Good'
  BY <1>1, <1>3, ExpiredGood
<1>7. e.type = "expired" /\ e.b = b
  BY <1>3, EventFields
<1>8. Range(<<e>>) = {e} /\ NoClash(<<e>>) /\ <<e>> \in Seq({e})
  <2> HIDE DEF e
  <2> QED BY DEF Range, NoClash
<1>9. Handles(<<e>>, {b}, {}, {})
  <2>1. \A f \in Range(Tail(eventq)) : ~Clash(e, f) /\ ~Clash(f, e)
    BY <1>3, <1>7 DEF Clash, FromPeer
  <2> HIDE DEF e, b
  <2> QED BY <1>1, <1>3, <1>6, <1>8, <2>1 DEF Handles
<1>10. QueueInv' /\ \A f \in Range(Tail(eventq)) : f \in Range(eventq')
  <2> HIDE DEF b, e
  <2> QED BY <1>5, <1>8, <1>9, HandlesQueue
<1>11. CustodyInv'
  <2>1. \A x \in custody' : x \in pending' \/ Reloading(eventq', x)
    BY <1>1, <1>10, StillReloading
  <2>2. stored' \subseteq Bundles
    BY <1>1, <1>3, <1>4
  <2>3. \A x \in (stored' \cap Custodial) \ (custody' \cup over') :
           x \in stored /\ x \notin custody \cup over
    BY <1>1
  <2> HIDE DEF b
  <2> QED BY <1>2, <1>5, <2>1, <2>2, <2>3, CustodyKept
<1> QED BY <1>5, <1>10, <1>11 DEF Inv

MarkedIn(l, b) == [l EXCEPT ![b] = "PENDING_DELIVERY"]

\* A bundle that a registration has not seen is marked for it.
LEMMA Marked ==
    ASSUME NEW g, NEW d, NEW l, NEW n, RegOK(g, d, l, n), g.life = "live",
           NEW b \in Bundles, l[b] = "none",
           NEW l2, l2 = MarkedIn(l, b), NEW o, NEW o2, o \ {b} \subseteq o2
    PROVE  /\ RegOK(g, d, l2, n) /\ Moved(g, l, n, g, l2, n, {b})
           /\ \A a, p : KeptOK(g, d, l, n, a, p, o) => KeptOK(g, d, l2, n, a, p, o2)
<1>1. l \in LogSet
  BY DEF RegOK, Typed
<1>2. /\ l2 \in LogSet /\ l2[b] = "PENDING_DELIVERY"
      /\ \A x \in Bundles : x # b => l2[x] = l[x]
  BY <1>1 DEF LogSet, Log, MarkedIn
<1> HIDE DEF LogSet
<1>3. \A x \in Bundles : /\ l[x] = "DELIVERED" <=> l2[x] = "DELIVERED"
                         /\ x \notin {b} /\ l[x] = "none" => l2[x] = "none"
  BY <1>2
<1>4. Typed(g, d, l2, n)
  BY <1>2 DEF RegOK, Typed
<1>5. Logged(g, d, l2, n)
  BY <1>3 DEF RegOK, Logged
<1>6. Fresh(g, l2, n)
  BY DEF Fresh
<1>7. RegOK(g, d, l2, n)
  BY <1>4, <1>5, <1>6 DEF RegOK
<1>8. Moved(g, l, n, g, l2, n, {b})
  BY <1>3 DEF Moved
<1>9. ASSUME NEW a, NEW p, KeptOK(g, d, l, n, a, p, o)
      PROVE  KeptOK(g, d, l2, n, a, p, o2)
  <2> SUFFICES ASSUME NEW x \in Bundles \ o2, Untaken(g, l2, n, a, x)
               PROVE  x \in (Held(g) \cap Held(d)) \cup p
    BY DEF KeptOK
  <2>1. x # b
    BY <1>2 DEF Untaken
  <2>2. x \in Bundles \ o /\ Untaken(g, l, n, a, x)
    BY <1>3, <1>9, <2>1 DEF Untaken
  <2> QED BY <1>9, <2>2 DEF KeptOK
<1> QED BY <1>7, <1>8, <1>9

LEMMA handle_bundle_received_Keeps ==
    ASSUME Inv, handle_bundle_received PROVE Inv'
<1> DEFINE b == Head(eventq).b
           p == [k \in DOMAIN Table |-> Event("deliver", b, Table[k])]
<1>1. /\ UNCHANGED <<early, reg, disk, arrived, over, got, ackSent, peeked>>
      /\ Handling("received") /\ FromPeer(Head(eventq))
      /\ pending' = pending \cup {b} /\ stored' = stored \cup {b}
      /\ custody' = custody \cup ({b} \cap Custodial)
      /\ fwdlog' = [r \in Regs |-> IF InTable(r)
                                   THEN [fwdlog[r] EXCEPT ![b] = "PENDING_DELIVERY"]
                                   ELSE fwdlog[r]]
      /\ eventq' = Tail(eventq) \o p
  BY DEF handle_bundle_received, check_local_delivery, Handling, FromPeer
<1>2. RegInv /\ StoreInv /\ KeptInv /\ CustodyInv
  BY DEF Inv
<1>3. /\ b \in Bundles /\ b <= arrived /\ eventq # <<>>
      /\ \A r \in Regs : fwdlog[r][b] = "none"
      /\ \A f \in Range(Tail(eventq)) : /\ Spared(f, {b}, {}, {})
                                        /\ f.type = "free" => f.b # b
  BY <1>1, ReceivedFacts
<1>4. /\ arrived \in Nat /\ stored \subseteq Bundles
      /\ \A x \in Bundles : x <= arrived => x \in 1 .. arrived
  BY <1>2, StoreFacts
<1>5. ~FromStore(Head(eventq))
  BY <1>1 DEF FromPeer, FromStore
<1>6. /\ p \in Seq(EventSet) /\ NoClash(p)
      /\ \A f \in Range(p) : f \in Good' /\ f.type = "deliver" /\ f.b = b
  <2>1. Table \in Seq(Regs)
    BY WalkFacts DEF Table
  <2>2. b <= arrived' /\ b \in stored'
    BY <1>1, <1>3
  <2> HIDE DEF b
  <2> QED BY <1>3, <2>1, <2>2, DeliverEvents
<1> HIDE DEF p, b
<1>0. Excused \ {b} \subseteq Excused'
  BY <1>1 DEF Excused
<1>7. \A r \in Regs :
         /\ reg'[r] = reg[r] /\ disk'[r] = disk[r] /\ got'[r] = got[r]
         /\ ackSent'[r] = ackSent[r] /\ peeked'[r] = peeked[r] /\ over' = over
         /\ RegOK(reg[r], disk[r], fwdlog'[r], got[r])
         /\ Moved(reg[r], fwdlog[r], got[r], reg[r], fwdlog'[r], got[r], {b})
         /\ KeptOK(reg[r], disk[r], fwdlog[r], got[r], ackSent[r], peeked[r], Excused)
            => KeptOK(reg[r], disk[r], fwdlog'[r], got[r], ackSent[r], peeked[r],
                      Excused')
  <2> SUFFICES ASSUME NEW r \in Regs
               PROVE  /\ RegOK(reg[r], disk[r], fwdlog'[r], got[r])
                      /\ Moved(reg[r], fwdlog[r], got[r],
                               reg[r], fwdlog'[r], got[r], {b})
                      /\ KeptOK(reg[r], disk[r], fwdlog[r], got[r], ackSent[r],
                                peeked[r], Excused)
                         => KeptOK(reg[r], disk[r], fwdlog'[r], got[r],
                                   ackSent[r], peeked[r], Excused')
    BY <1>1
  <2>1. RegOK(reg[r], disk[r], fwdlog[r], got[r])
    BY <1>2 DEF RegInv
  <2>2. CASE InTable(r)
    <3>1. fwdlog'[r] = [fwdlog[r] EXCEPT ![b] = "PENDING_DELIVERY"]
      BY <1>1, <2>2
    <3>2. reg[r].life = "live" /\ fwdlog[r][b] = "none"
      BY <1>3, <2>2 DEF InTable
    <3> DEFINE g == reg[r]
               d == disk[r]
               l == fwdlog[r]
               l2 == fwdlog'[r]
               n == got[r]
               o == Excused
               o2 == Excused'
    <3>3. /\ l2 = MarkedIn(l, b) /\ g.life = "live"
          /\ l[b] = "none" /\ RegOK(g, d, l, n) /\ o \ {b} \subseteq o2
          /\ b \in Bundles
      BY <1>0, <1>3, <2>1, <3>1, <3>2 DEF MarkedIn
    <3> HIDE DEF g, d, l, l2, n, o, o2
    <3>4. /\ RegOK(g, d, l2, n) /\ Moved(g, l, n, g, l2, n, {b})
          /\ \A a, p1 : KeptOK(g, d, l, n, a, p1, o) => KeptOK(g, d, l2, n, a, p1, o2)
      BY <3>3, Marked
    <3> QED BY <3>4 DEF g, d, l, l2, n, o, o2
  <2>3. CASE ~InTable(r)
    <3>1. fwdlog'[r] = fwdlog[r]
      BY <1>1, <2>3
    <3>2. KeptOK(reg[r], disk[r], fwdlog'[r], got[r], ackSent[r], peeked[r],
                 Excused')
      BY <2>3 DEF InTable, KeptOK, Untaken
    <3> QED BY <2>1, <3>1, <3>2, NotMoved
  <2> QED BY <2>2, <2>3
<1>8. RegInv'
  <2>1. \A r \in Regs : fwdlog'[r] \in LogSet
    BY <1>7 DEF RegOK, Typed
  <2>2. fwdlog' \in [Regs -> LogSet]
    BY <1>1, <2>1
  <2> QED BY <1>1, <1>2, <1>7, <2>2 DEF RegInv
<1>9. KeptInv'
  BY <1>1, <1>2, <1>7 DEF KeptInv
<1>10. Frame({b}, {}, {})
  <2>1. \A r \in Regs : Moved(reg[r], fwdlog[r], got[r],
                              reg'[r], fwdlog'[r], got'[r], {b})
    BY <1>7
  <2>2. \A r \in Regs \ {} : reg[r].life = "adding" => reg'[r].life = "adding"
    BY <1>7
  <2>3. /\ over \subseteq over' /\ arrived <= arrived' /\ arrived' \in Nat
        /\ stored \ {} \subseteq stored' /\ stored' \subseteq stored \cup {b}
        /\ pending' \subseteq pending \cup {b}
    BY <1>1, <1>4
  <2> QED BY <2>1, <2>2, <2>3 DEF Frame
<1>11. StoreInv'
  <2>1. \A r \in Regs, x \in Bundles : x > arrived => fwdlog'[r][x] = "none"
    <3> SUFFICES ASSUME NEW r \in Regs, NEW x \in Bundles, x > arrived
                 PROVE  fwdlog'[r][x] = "none"
      OBVIOUS
    <3>1. x \notin {b} /\ fwdlog[r][x] = "none"
      BY <1>2, <1>3, <1>4, BundlesFinite DEF StoreInv
    <3> QED BY <1>7, <3>1 DEF Moved
  <2>2. stored' \subseteq 1 .. arrived
    BY <1>1, <1>2, <1>3, <1>4 DEF StoreInv
  <2> QED BY <1>1, <1>2, <2>1, <2>2 DEF StoreInv
<1>12. Handles(p, {b}, {}, {})
  <2>1. \A e \in Range(Tail(eventq)), f \in Range(p) :
           ~Clash(e, f) /\ ~Clash(f, e)
    BY <1>3, <1>6 DEF Clash, FromPeer
  <2> QED BY <1>1, <1>3, <1>6, <2>1 DEF Handles
<1>13. QueueInv' /\ \A f \in Range(Tail(eventq)) : f \in Range(eventq')
  BY <1>6, <1>10, <1>11, <1>12, HandlesQueue
<1>14. CustodyInv'
  <2>1. \A x \in custody' : x \in pending' \/ Reloading(eventq', x)
    BY <1>1, <1>5, <1>13, StillReloading
  <2>2. stored' \subseteq Bundles
    BY <1>1, <1>3, <1>4
  <2>3. \A x \in (stored' \cap Custodial) \ (custody' \cup over') :
           x \in stored /\ x \notin custody \cup over
    BY <1>1
  <2> QED BY <1>2, <1>10, <2>1, <2>2, <2>3, CustodyKept
<1> QED BY <1>8, <1>9, <1>11, <1>13, <1>14 DEF Inv

\* A bundle leaves the lists of a live registration.
LEMMA DeletedFrom ==
    ASSUME RegInv, StoreInv, NEW r \in Regs, InTable(r), NEW b,
           NEW g, g = delete_bundle(reg[r], b), NEW d, d = DeletedImage(r, b)
    PROVE  /\ RegOK(g, d, fwdlog[r], got[r]) /\ g.life = reg[r].life
           /\ Moved(reg[r], fwdlog[r], got[r], g, fwdlog[r], got[r], {})
           /\ \A o : b \in o
                     /\ KeptOK(reg[r], disk[r], fwdlog[r], got[r], ackSent[r],
                               peeked[r], o)
                     => KeptOK(g, d, fwdlog[r], got[r], ackSent[r], peeked[r], o)
<1>1. /\ RegOK(reg[r], disk[r], fwdlog[r], got[r])
      /\ ObjOK(reg[r], fwdlog[r], got[r]) /\ reg[r] \in RegSet /\ Distinct(reg[r])
  BY Selves
<1>2. /\ g \in RegSet /\ Distinct(g) /\ Same(reg[r], g)
      /\ Held(reg[r]) \ {b} \subseteq Held(g) /\ Held(g) \subseteq Held(reg[r])
      /\ Range(g.list) \subseteq Range(reg[r].list)
      /\ Range(g.unacked) \subseteq Range(reg[r].unacked)
  BY <1>1, DeleteBundle
<1>3. reg[r].life = "live" /\ g.life = "live" /\ g.kind = reg[r].kind
      /\ Held(g) \subseteq Held(reg[r])
  BY <1>2 DEF InTable, Same
<1>4. CASE b \in Held(reg[r])
  <2>1. d = disk[r]
    BY <1>4 DEF DeletedImage
  <2>2. RegOK(g, d, fwdlog[r], got[r])
    BY <1>1, <1>2, <1>3, <2>1, Shrunk
  <2>3. ASSUME NEW o, b \in o, KeptOK(reg[r], disk[r], fwdlog[r], got[r],
                                      ackSent[r], peeked[r], o)
        PROVE  KeptOK(g, d, fwdlog[r], got[r], ackSent[r], peeked[r], o)
    BY <1>2, <1>3, <2>1, <2>3, KeptWhen
  <2> QED BY <1>3, <2>2, <2>3 DEF Moved
<1>5. CASE b \notin Held(reg[r])
  <2>1. d = Image(reg[r])
    BY <1>5 DEF DeletedImage
  <2>2. RegOK(reg[r], d, fwdlog[r], got[r])
    BY <1>1, <1>3, <2>1, Written
  <2>3. RegOK(g, d, fwdlog[r], got[r])
    BY <1>2, <1>3, <2>2, Shrunk
  <2>4. Held(d) = Held(reg[r])
    BY <1>1, <2>1, ImageFacts
  <2>5. ASSUME NEW o, b \in o, KeptOK(reg[r], disk[r], fwdlog[r], got[r],
                                      ackSent[r], peeked[r], o)
        PROVE  KeptOK(g, d, fwdlog[r], got[r], ackSent[r], peeked[r], o)
    BY <1>2, <1>3, <2>4, <2>5, KeptWhen
  <2> QED BY <1>3, <2>3, <2>5 DEF Moved
<1> QED BY <1>4, <1>5

LEMMA DeletedStep ==
    ASSUME Inv, NEW b \in Bundles, Deleted(b), early \/ b \in over,
           UNCHANGED <<early, stored, fwdlog, arrived, over, got, ackSent, peeked>>
    PROVE  RegInv' /\ StoreInv' /\ KeptInv' /\ Frame({}, {}, {})
<1>1. RegInv /\ StoreInv /\ KeptInv
  BY DEF Inv
<1>0. Excused \subseteq Excused' /\ b \in Excused'
  BY DEF Excused, Deleted
<1>2. \A r \in Regs :
         /\ RegOK(reg'[r], disk'[r], fwdlog[r], got[r])
         /\ reg[r].life = "adding" => reg'[r].life = "adding"
         /\ Moved(reg[r], fwdlog[r], got[r], reg'[r], fwdlog[r], got[r], {})
         /\ KeptOK(reg'[r], disk'[r], fwdlog[r], got[r], ackSent[r], peeked[r],
                   Excused')
  <2> SUFFICES ASSUME NEW r \in Regs
               PROVE  /\ RegOK(reg'[r], disk'[r], fwdlog[r], got[r])
                      /\ reg[r].life = "adding" => reg'[r].life = "adding"
                      /\ Moved(reg[r], fwdlog[r], got[r],
                               reg'[r], fwdlog[r], got[r], {})
                      /\ KeptOK(reg'[r], disk'[r], fwdlog[r], got[r],
                                ackSent[r], peeked[r], Excused')
    OBVIOUS
  <2>0. KeptOK(reg[r], disk[r], fwdlog[r], got[r], ackSent[r], peeked[r],
               Excused')
    <3>1. KeptOK(reg[r], disk[r], fwdlog[r], got[r], ackSent[r], peeked[r], Excused)
      BY <1>1 DEF KeptInv
    <3> QED BY <1>0, <3>1 DEF KeptOK
  <2>1. CASE InTable(r)
    <3>1. reg'[r] = delete_bundle(reg[r], b) /\ disk'[r] = DeletedImage(r, b)
      BY <2>1 DEF Deleted
    <3> QED BY <1>0, <1>1, <2>0, <2>1, <3>1, DeletedFrom
  <2>2. CASE ~InTable(r)
    <3>1. reg'[r] = reg[r] /\ disk'[r] = disk[r]
      BY <2>2 DEF Deleted
    <3>2. RegOK(reg[r], disk[r], fwdlog[r], got[r])
      BY <1>1 DEF RegInv
    <3> QED BY <2>0, <3>1, <3>2, NotMoved
  <2> QED BY <2>1, <2>2
<1>3. RegInv'
  <2>1. \A r \in Regs : reg'[r] \in RegSet /\ disk'[r] \in ImageSet
    BY <1>2 DEF RegOK, Typed
  <2>2. reg' = [r \in Regs |-> reg'[r]] /\ disk' = [r \in Regs |-> disk'[r]]
    BY DEF Deleted
  <2>3. reg' \in [Regs -> RegSet] /\ disk' \in [Regs -> ImageSet]
    BY <2>1, <2>2
  <2> QED BY <1>1, <1>2, <2>3 DEF RegInv
<1>4. KeptInv'
  BY <1>1, <1>2 DEF KeptInv
<1>5. \A r \in Regs : Held(reg'[r]) \subseteq Held(reg[r])
  BY <1>2 DEF Moved
<1>6. pending' \subseteq pending
  BY DEF Deleted
<1>7. StoreInv'
  BY <1>1, <1>5, <1>6 DEF StoreInv
<1>8. Frame({}, {}, {})
  <2>1. arrived \in Nat
    BY <1>1, StoreFacts
  <2> QED BY <1>2, <1>6, <2>1 DEF Frame
<1> QED BY <1>3, <1>4, <1>7, <1>8

LEMMA handle_bundle_reloaded_Keeps ==
    ASSUME Inv, handle_bundle_reloaded PROVE Inv'
<1> DEFINE b == Head(eventq).b
           p == generate_delivery_events(b)
           removed == early /\ can_delete_bundle(b, custody)
<1>1. /\ UNCHANGED <<early, stored, fwdlog, arrived, over, got, ackSent, peeked>>
      /\ Handling("received") /\ FromStore(Head(eventq))
      /\ IF removed THEN Deleted(b)
         ELSE /\ pending' = pending \cup {b} /\ UNCHANGED <<custody, reg, disk>>
      /\ eventq' = Freed(Tail(eventq) \o p)
  BY DEF handle_bundle_reloaded, Handling, FromStore
<1>2. RegInv /\ StoreInv /\ KeptInv /\ CustodyInv
  BY DEF Inv
<1>3. /\ b \in Bundles /\ b <= arrived /\ eventq # <<>> /\ b \in stored
      /\ \A f \in Range(Tail(eventq)) : /\ Spared(f, {b}, {}, {})
                                        /\ f.type = "free" => f.b # b
  BY <1>1, ReceivedFacts
<1>4. arrived \in Nat /\ stored \subseteq Bundles
  BY <1>2, StoreFacts
<1>5. /\ p \in Seq(EventSet) /\ NoClash(p)
      /\ \A f \in Range(p) : f \in Good' /\ f.type = "deliver" /\ f.b = b
  <2> DEFINE w == InOrder({r \in Regs : fwdlog[r][b] = "PENDING_DELIVERY"})
  <2>1. w \in Seq(Regs)
    BY WalkFacts
  <2>2. p = [k \in DOMAIN w |-> Event("deliver", b, w[k])]
    BY DEF generate_delivery_events
  <2>3. b <= arrived' /\ b \in stored'
    BY <1>1, <1>3
  <2> HIDE DEF b, w, p
  <2> QED BY <1>3, <2>1, <2>2, <2>3, DeliverEvents
<1>6. \A e \in Range(Tail(eventq)), f \in Range(p) : ~Clash(e, f) /\ ~Clash(f, e)
  BY <1>3, <1>5 DEF Clash, FromPeer
<1> HIDE DEF p, b
<1>7. CASE removed
  <2>1. Deleted(b) /\ early /\ b \notin custody
    BY <1>1, <1>7 DEF can_delete_bundle
  <2>2. RegInv' /\ StoreInv' /\ KeptInv' /\ Frame({}, {}, {})
    BY <1>1, <1>3, <2>1, DeletedStep
  <2>3. pending' = pending \ {b} /\ custody' = custody
    BY <2>1 DEF Deleted
  <2>4. Handles(p, {}, {}, {})
    <3>1. \A e \in Range(Tail(eventq)) : Spared(e, {}, {}, {})
      BY DEF Spared
    <3> QED BY <1>1, <1>3, <1>5, <1>6, <3>1 DEF Handles
  <2>5. QueueInv' /\ \A f \in Range(Tail(eventq)) : f \in Range(eventq')
    BY <1>5, <2>2, <2>4, HandlesQueue
  <2>6. CustodyInv'
    <3>1. \A x \in custody' : x \in pending' \/ Reloading(eventq', x)
      BY <1>1, <2>1, <2>3, <2>5, StillReloading DEF b
    <3>2. stored' \subseteq Bundles
      BY <1>1, <1>4
    <3>3. \A x \in (stored' \cap Custodial) \ (custody' \cup over') :
             x \in stored /\ x \notin custody \cup over
      BY <1>1, <2>3
    <3> QED BY <1>2, <2>2, <3>1, <3>2, <3>3, CustodyKept
  <2> QED BY <2>2, <2>5, <2>6 DEF Inv
<1>8. CASE ~removed
  <2>1. /\ pending' = pending \cup {b} /\ UNCHANGED <<custody, reg, disk>>
        /\ Quiet
    BY <1>1, <1>8 DEF Quiet
  <2>2. RegInv' /\ StoreInv' /\ KeptInv' /\ Frame({b}, {}, {})
    <3>1. /\ over \subseteq over' /\ over' \subseteq Bundles /\ arrived <= arrived'
          /\ custody' \subseteq custody
          /\ arrived' \in 0 .. NBundles
      BY <1>1, <1>2, <1>4, <2>1 DEF StoreInv
    <3>2. /\ pending' \subseteq stored' /\ stored' \subseteq 1 .. arrived'
          /\ stored \ {} \subseteq stored'
          /\ stored' \subseteq stored \cup {b} /\ pending' \subseteq pending \cup {b}
          /\ \A r \in Regs : Held(reg[r]) \subseteq stored'
      BY <1>1, <1>2, <1>3, <2>1 DEF StoreInv
    <3> QED BY <1>2, <2>1, <3>1, <3>2, QuietStep
  <2>3. Handles(p, {b}, {}, {})
    BY <1>1, <1>3, <1>5, <1>6 DEF Handles
  <2>4. QueueInv' /\ \A f \in Range(Tail(eventq)) : f \in Range(eventq')
    BY <1>5, <2>2, <2>3, HandlesQueue
  <2>5. CustodyInv'
    <3>1. \A x \in custody' : x \in pending' \/ Reloading(eventq', x)
      BY <1>1, <2>1, <2>4, StillReloading DEF b
    <3>2. stored' \subseteq Bundles
      BY <1>1, <1>4
    <3>3. \A x \in (stored' \cap Custodial) \ (custody' \cup over') :
             x \in stored /\ x \notin custody \cup over
      BY <1>1, <2>1
    <3> QED BY <1>2, <2>2, <3>1, <3>2, <3>3, CustodyKept
  <2> QED BY <2>2, <2>4, <2>5 DEF Inv
<1> QED BY <1>7, <1>8

\* The end of an event that may have deleted its bundle: nothing is posted but
\* what is freed.
LEMMA DeletingKeeps ==
    ASSUME Inv, NEW t, Handling(t), t # "received",
           RegInv', StoreInv', KeptInv', Frame({}, {}, {}),
           UNCHANGED <<stored, over>>, eventq' = Freed(Tail(eventq)),
           NEW b, custody' = custody \ {b}, pending \ {b} \subseteq pending',
           b \in over \/ \E r \in Regs : HandedOver(r, b)
    PROVE  Inv'
<1>1. /\ eventq # <<>> /\ ~FromStore(Head(eventq))
      /\ Tail(eventq) \o <<>> = Tail(eventq)
  BY HandlingFacts
<1>2. <<>> \in Seq({}) /\ Range(<<>>) = {} /\ NoClash(<<>>)
  BY EmptyList DEF NoClash
<1>3. Handles(<<>>, {}, {}, {})
  <2>1. \A e \in Range(Tail(eventq)) : Spared(e, {}, {}, {})
    BY DEF Spared
  <2> QED BY <1>1, <1>2, <2>1 DEF Handles
<1>4. QueueInv' /\ \A f \in Range(Tail(eventq)) : f \in Range(eventq')
  BY <1>2, <1>3, HandlesQueue
<1>5. CustodyInv'
  <2>1. \A x \in custody' : x \in pending' \/ Reloading(eventq', x)
    BY <1>1, <1>4, StillReloading
  <2>2. stored' \subseteq Bundles /\ RegInv /\ CustodyInv
    BY StoreFacts DEF Inv
  <2>3. ASSUME NEW x \in (stored' \cap Custodial) \ (custody' \cup over')
        PROVE  \/ x \in stored /\ x \notin custody \cup over
               \/ \E r \in Regs : HandedOver(r, x)
    OBVIOUS
  <2> QED BY <2>1, <2>2, <2>3, CustodyKept
<1> QED BY <1>4, <1>5 DEF Inv

LEMMA handle_bundle_expired_Keeps ==
    ASSUME Inv, handle_bundle_expired PROVE Inv'
<1> DEFINE b == Head(eventq).b
<1>1. /\ UNCHANGED <<early, stored, fwdlog, arrived, over, got, ackSent, peeked>>
      /\ Handling("expired") /\ Deleted(b) /\ eventq' = Freed(Tail(eventq))
  BY DEF handle_bundle_expired
<1>2. b \in Bundles /\ Head(eventq) \in Good /\ Head(eventq).type = "expired"
  BY <1>1, HandlingFacts DEF RegTypes
<1>3. b \in over
  BY <1>2 DEF Good
<1> HIDE DEF b
<1>4. RegInv' /\ StoreInv' /\ KeptInv' /\ Frame({}, {}, {})
  BY <1>1, <1>2, <1>3, DeletedStep
<1>5. pending' = pending \ {b} /\ custody' = custody \ {b}
  BY <1>1 DEF Deleted
<1> QED BY <1>1, <1>3, <1>4, <1>5, DeletingKeeps

LEMMA handle_bundle_delivered_Keeps ==
    ASSUME Inv, handle_bundle_delivered PROVE Inv'
<1> DEFINE b == Head(eventq).b
<1>1. /\ UNCHANGED <<early, stored, fwdlog, arrived, over, got, ackSent, peeked>>
      /\ Handling("delivered") /\ eventq' = Freed(Tail(eventq))
      /\ \/ early /\ Deleted(b)
         \/ custody' = custody \ {b} /\ UNCHANGED <<pending, reg, disk>>
  BY DEF handle_bundle_delivered
<1>2. /\ b \in Bundles /\ Head(eventq).r \in Regs
      /\ Head(eventq) \in Good /\ Head(eventq).type = "delivered"
  BY <1>1, HandlingFacts DEF RegTypes, BundleTypes
<1>3. \E r \in Regs : HandedOver(r, b)
  BY <1>2 DEF Good
<1> HIDE DEF b
<1>4. CASE early /\ Deleted(b)
  <2>1. RegInv' /\ StoreInv' /\ KeptInv' /\ Frame({}, {}, {})
    BY <1>1, <1>2, <1>4, DeletedStep
  <2>2. pending' = pending \ {b} /\ custody' = custody \ {b}
    BY <1>4 DEF Deleted
  <2> QED BY <1>1, <1>3, <2>1, <2>2, DeletingKeeps
<1>5. CASE custody' = custody \ {b} /\ UNCHANGED <<pending, reg, disk>>
  <2>1. RegInv /\ StoreInv /\ KeptInv /\ Quiet
    BY <1>1, <1>5 DEF Quiet, Inv
  <2>2. arrived \in Nat
    BY <2>1, StoreFacts
  <2>3. RegInv' /\ StoreInv' /\ KeptInv' /\ Frame({}, {}, {})
    <3>1. /\ over \subseteq over' /\ over' \subseteq Bundles /\ arrived <= arrived'
          /\ custody' \subseteq custody
          /\ arrived' \in 0 .. NBundles
      BY <1>1, <1>5, <2>1, <2>2 DEF StoreInv
    <3>2. /\ pending' \subseteq stored' /\ stored' \subseteq 1 .. arrived'
          /\ stored \ {} \subseteq stored'
          /\ stored' \subseteq stored \cup {} /\ pending' \subseteq pending \cup {}
          /\ \A r \in Regs : Held(reg[r]) \subseteq stored'
      BY <1>1, <1>5, <2>1 DEF StoreInv
    <3> QED BY <2>1, <3>1, <3>2, QuietStep
  <2>4. pending \ {b} \subseteq pending'
    BY <1>5
  <2> QED BY <1>1, <1>3, <1>5, <2>3, <2>4, DeletingKeeps
<1> QED BY <1>1, <1>4, <1>5

(***************************************************************************)
(* Restarts.                                                               *)
(***************************************************************************)

\* What becomes of a registration: it is read from its image, or is gone.
LEMMA ReloadedFacts ==
    ASSUME RegInv, StoreInv, NEW r \in Regs, NEW g, g = Reloaded(r)
    PROVE  /\ RegOK(g, disk[r], fwdlog[r], got[r]) /\ Held(g) \subseteq stored
           /\ Moved(reg[r], fwdlog[r], got[r], g, fwdlog[r], got[r], stored)
           /\ KeptOK(reg[r], disk[r], fwdlog[r], got[r], ackSent[r], peeked[r], Excused)
              => KeptOK(g, disk[r], fwdlog[r], got[r], ackSent[r], peeked[r], Excused)
<1> DEFINE d == disk[r]
<1>1. /\ RegOK(reg[r], disk[r], fwdlog[r], got[r]) /\ reg[r].kind \in Kinds
      /\ reg[r] \in RegSet /\ Held(reg[r]) \subseteq stored
      /\ reg[r].life # "live" => disk[r] = NoImage
  BY Selves
<1>2. CASE disk[r].stored
  <2> DEFINE x == OnlyIn(d.list, stored)
             y == OnlyIn(d.unacked, stored)
             z == OnlyIn(d.acked, stored)
             new == NewReg(reg[r].kind, FALSE)
  <2>1. g = [new EXCEPT !.life = "live", !.list = x, !.unacked = y, !.acked = z]
    BY <1>2 DEF Reloaded
  <2>2. d \in ImageSet /\ Distinct(d)
    BY <1>1 DEF RegOK, Typed
  <2>3. /\ d.list \in Seq(Bundles) /\ d.unacked \in Seq(Bundles)
        /\ d.acked \in Seq(Bundles)
    BY <2>2, ListFacts
  <2>4. /\ x \in Seq(Bundles) /\ Range(x) = Range(d.list) \cap stored
        /\ IsInjective(d.list) => IsInjective(x)
        /\ y \in Seq(Bundles) /\ Range(y) = Range(d.unacked) \cap stored
        /\ IsInjective(d.unacked) => IsInjective(y)
        /\ z \in Seq(Bundles) /\ Range(z) = Range(d.acked) \cap stored
        /\ IsInjective(d.acked) => IsInjective(z)
    BY <2>3, OnlyInFacts
  <2> HIDE DEF x, y, z
  <2>5. new \in RegSet /\ new.cache = {} /\ new.kind = reg[r].kind
    BY <1>1, NewRegFacts
  <2> HIDE DEF new
  <2>6. /\ g \in RegSet /\ g.life = "live" /\ g.kind = reg[r].kind /\ g.cache = {}
        /\ g.list = x /\ g.unacked = y /\ g.acked = z
    BY <2>1, <2>4, <2>5 DEF RegSet, Lives
  <2>7. Distinct(g)
    BY <2>2, <2>4, <2>6 DEF Distinct
  <2>8. Held(g) = Held(d) \cap stored
    BY <2>4, <2>6 DEF Held
  <2>9. reg[r].life = "live" /\ d.stored
    BY <1>1, <1>2 DEF RegOK, Saved
  <2>10. RegOK(g, d, fwdlog[r], got[r])
    <3>1. Typed(g, d, fwdlog[r], got[r])
      BY <1>1, <2>6 DEF RegOK, Typed
    <3>2. Logged(g, d, fwdlog[r], got[r])
      BY <1>1, <2>6, <2>8 DEF RegOK, Logged
    <3>3. Saved(g, d)
      BY <2>4, <2>6, <2>9 DEF Saved, Owed
    <3>4. Fresh(g, fwdlog[r], got[r])
      BY <2>6 DEF Fresh
    <3>5. Once(g, d, got[r])
      BY <1>1, <2>4, <2>6 DEF RegOK, Once
    <3> QED BY <2>2, <2>7, <3>1, <3>2, <3>3, <3>4, <3>5 DEF RegOK
  <2>11. Moved(reg[r], fwdlog[r], got[r], g, fwdlog[r], got[r], stored)
    BY <2>6, <2>8, <2>9 DEF Moved, Settled
  <2>12. KeptOK(reg[r], d, fwdlog[r], got[r], ackSent[r], peeked[r], Excused)
         => KeptOK(g, d, fwdlog[r], got[r], ackSent[r], peeked[r], Excused)
    BY <1>1, <2>6, <2>8, <2>9, KeptWhen
  <2> QED BY <2>8, <2>10, <2>11, <2>12
<1>3. CASE ~disk[r].stored
  <2> DEFINE life == IF reg[r].life = "none" THEN "none" ELSE "freed"
  <2>1. g = [NoReg EXCEPT !.life = life, !.kind = reg[r].kind, !.timer = FALSE]
    BY <1>3 DEF Reloaded
  <2>2. life \in Lives
    BY DEF Lives
  <2>3. /\ g \in RegSet /\ Distinct(g) /\ Held(g) = {} /\ g.cache = {}
        /\ g.life = life /\ g.kind = reg[r].kind
        /\ Range(g.unacked) = {} /\ Range(g.list) = {}
    <3> HIDE DEF life
    <3> DEFINE h == [NoReg EXCEPT !.life = life, !.kind = reg[r].kind,
                                  !.timer = FALSE]
    <3>1. /\ h \in RegSet /\ Distinct(h) /\ Held(h) = {} /\ h.cache = {}
          /\ h.life = life /\ h.kind = reg[r].kind
          /\ Range(h.unacked) = {} /\ Range(h.list) = {}
      BY <1>1, <2>2, NoRegFacts
    <3>2. g = h
      BY <2>1
    <3> HIDE DEF h
    <3> QED BY <3>1, <3>2
  <2>4. d = NoImage /\ ~d.stored /\ Distinct(d)
    BY <1>1, <1>3 DEF RegOK, Saved
  <2>5. g.life # "live" /\ g.life # "adding" /\ (g.life = "none" => reg[r].life = "none")
    BY <2>3
  <2>6. RegOK(g, d, fwdlog[r], got[r])
    <3>1. Typed(g, d, fwdlog[r], got[r])
      BY <1>1, <2>3 DEF RegOK, Typed
    <3>2. Logged(g, d, fwdlog[r], got[r])
      BY <1>1, <2>3 DEF RegOK, Logged
    <3>3. Saved(g, d)
      BY <2>4, <2>5 DEF Saved
    <3>4. Fresh(g, fwdlog[r], got[r])
      BY <1>1, <2>3, <2>5 DEF RegOK, Fresh
    <3>5. Once(g, d, got[r])
      BY <1>1, <2>3 DEF RegOK, Once
    <3> QED BY <2>3, <2>4, <3>1, <3>2, <3>3, <3>4, <3>5 DEF RegOK
  <2>7. Moved(reg[r], fwdlog[r], got[r], g, fwdlog[r], got[r], stored)
    BY <2>3 DEF Moved, Settled
  <2>8. KeptOK(g, d, fwdlog[r], got[r], ackSent[r], peeked[r], Excused)
    BY <2>5 DEF KeptOK, Untaken
  <2> QED BY <2>3, <2>6, <2>7, <2>8
<1> QED BY <1>2, <1>3

LEMMA RestartKeeps ==
    ASSUME Inv, Restart PROVE Inv'
<1>1. /\ UNCHANGED <<early, disk, stored, fwdlog, custody, arrived, over, got,
                     ackSent, peeked>>
      /\ reg' = [r \in Regs |-> Reloaded(r)] /\ pending' = {}
  BY DEF Restart
<1>2. RegInv /\ StoreInv /\ KeptInv /\ CustodyInv
  BY DEF Inv
<1>3. /\ arrived \in Nat /\ stored \subseteq Bundles
      /\ \A b \in stored : b \in Nat /\ b <= arrived
  BY <1>2, StoreFacts
<1>4. \A r \in Regs :
         /\ RegOK(reg'[r], disk[r], fwdlog[r], got[r]) /\ Held(reg'[r]) \subseteq stored
         /\ Moved(reg[r], fwdlog[r], got[r], reg'[r], fwdlog[r], got[r], stored)
         /\ KeptOK(reg[r], disk[r], fwdlog[r], got[r], ackSent[r], peeked[r], Excused)
            => KeptOK(reg'[r], disk[r], fwdlog[r], got[r], ackSent[r], peeked[r],
                      Excused)
  <2> SUFFICES ASSUME NEW r \in Regs, NEW g, g = reg'[r]
               PROVE  /\ RegOK(g, disk[r], fwdlog[r], got[r]) /\ Held(g) \subseteq stored
                      /\ Moved(reg[r], fwdlog[r], got[r], g, fwdlog[r], got[r],
                               stored)
                      /\ KeptOK(reg[r], disk[r], fwdlog[r], got[r], ackSent[r],
                                peeked[r], Excused)
                         => KeptOK(g, disk[r], fwdlog[r], got[r], ackSent[r],
                                   peeked[r], Excused)
    OBVIOUS
  <2>1. g = Reloaded(r)
    BY <1>1
  <2> QED BY <1>2, <2>1, ReloadedFacts
<1>5. RegInv'
  <2>1. \A r \in Regs : reg'[r] \in RegSet
    BY <1>4 DEF RegOK, Typed
  <2>2. reg' \in [Regs -> RegSet]
    BY <1>1, <2>1
  <2> QED BY <1>1, <1>2, <1>4, <2>2 DEF RegInv
<1>6. KeptInv'
  <2>1. Excused' = Excused
    BY <1>1 DEF Excused
  <2> QED BY <1>1, <1>2, <1>4, <2>1 DEF KeptInv
<1>7. StoreInv'
  BY <1>1, <1>2, <1>4 DEF StoreInv
<1>8. Frame(stored, {}, Regs)
  BY <1>1, <1>3, <1>4 DEF Frame
<1> DEFINE ids == InOrder(stored)
           q == [k \in DOMAIN ids |-> Received(ids[k], "store")]
<1>9. eventq' = q
  BY DEF Restart
<1>10. ids \in Seq(stored) /\ Range(ids) = stored
  <2>1. stored \in SUBSET Nat /\ IsFiniteSet(stored)
    BY <1>3, BundlesFinite, FS_Subset
  <2> QED BY <2>1, InOrderFacts
<1> HIDE DEF ids
<1>11. \A b \in stored : LET e == Received(b, "store")
                         IN /\ e \in EventSet /\ e \in Good' /\ FromStore(e)
                            /\ e.b = b /\ e.type = "received" /\ e.src = "store"
  <2> SUFFICES ASSUME NEW b \in stored, NEW e, e = Received(b, "store")
               PROVE  /\ e \in EventSet /\ e \in Good' /\ FromStore(e)
                      /\ e.b = b /\ e.type = "received" /\ e.src = "store"
    BY Zenon
  <2>1. e \in EventSet /\ e.type = "received" /\ e.b = b /\ e.src = "store"
    BY <1>3, EventFields
  <2>2. FromStore(e) /\ ~FromPeer(e) /\ e.b <= arrived' /\ e.b \in stored'
    BY <1>1, <1>3, <2>1 DEF FromStore, FromPeer
  <2> QED BY <2>1, <2>2 DEF Good
<1>12. DOMAIN ids = 1 .. Len(ids) /\ Len(ids) \in Nat
       /\ \A k \in DOMAIN ids : ids[k] \in stored
  BY <1>10
<1>13. /\ DOMAIN q = 1 .. Len(ids)
       /\ \A k \in DOMAIN q : /\ q[k] \in Good' /\ FromStore(q[k])
                              /\ q[k].type = "received" /\ q[k].src = "store"
                              /\ q[k].b = ids[k]
  BY <1>11, <1>12
<1>14. q \in Seq(Good')
  <2>1. q = [k \in 1 .. Len(ids) |-> q[k]]
    BY <1>12
  <2> HIDE DEF q
  <2> QED BY <1>12, <1>13, <2>1
<1> HIDE DEF q
<1>15. NoClash(q)
  BY <1>13 DEF NoClash, Clash, FromPeer
<1>16. QueueInv'
  BY <1>9, <1>14, <1>15 DEF QueueInv
<1>17. \A b \in stored : Reloading(eventq', b)
  <2> SUFFICES ASSUME NEW b \in stored PROVE Reloading(q, b)
    BY <1>9
  <2>1. PICK k \in DOMAIN ids : ids[k] = b
    BY <1>10 DEF Range
  <2>2. q[k] \in Range(q) /\ FromStore(q[k]) /\ q[k].b = b
    BY <1>12, <1>13, <2>1 DEF Range
  <2> QED BY <2>2 DEF Reloading
<1>18. custody \subseteq stored
  <2> SUFFICES ASSUME NEW b \in custody, b \notin pending PROVE b \in stored
    BY <1>2 DEF StoreInv
  <2>1. PICK e \in Range(eventq) : FromStore(e) /\ e.b = b
    BY <1>2 DEF CustodyInv, Reloading
  <2> QED BY <2>1, QueueTypes DEF Good
<1>19. CustodyInv'
  <2>1. \A b \in custody' : Reloading(eventq', b)
    BY <1>1, <1>17, <1>18
  <2>2. stored' \subseteq Bundles
    BY <1>1, <1>3
  <2>3. \A b \in (stored' \cap Custodial) \ (custody' \cup over') :
           b \in stored /\ b \notin custody \cup over
    BY <1>1
  <2> QED BY <1>2, <1>8, <2>1, <2>2, <2>3, CustodyKept
<1> QED BY <1>5, <1>6, <1>7, <1>16, <1>19 DEF Inv

(***************************************************************************)
(* The invariant, and what follows from it.                                *)
(***************************************************************************)
LEMMA InitHolds == Init => Inv
<1> SUFFICES ASSUME Init PROVE Inv
  OBVIOUS
<1> DEFINE none == [b \in Bundles |-> "none"]
           zero == [b \in Bundles |-> 0]
<1>1. /\ early \in EarlyDeletion
      /\ reg = [r \in Regs |-> NoReg] /\ disk = [r \in Regs |-> NoImage]
      /\ pending = {} /\ stored = {} /\ custody = {} /\ over = {}
      /\ fwdlog = [r \in Regs |-> none] /\ eventq = <<>> /\ arrived = 0
      /\ got = [r \in Regs |-> zero] /\ ackSent = [r \in Regs |-> {}]
      /\ peeked = [r \in Regs |-> {}]
  BY DEF Init
<1>2. /\ NoReg \in RegSet /\ Distinct(NoReg) /\ Held(NoReg) = {}
      /\ NoReg.cache = {} /\ NoReg.life = "none"
      /\ Range(NoReg.unacked) = {} /\ Range(NoReg.list) = {}
  <2>1. PICK k \in Kinds : TRUE
    BY DeliveryAssumption
  <2>2. "none" \in Lives
    BY DEF Lives
  <2> QED BY <2>1, <2>2, NoRegFacts
<1>3. none \in LogSet /\ zero \in CountSet
  BY DEF LogSet, CountSet, Log
<1>4. \A b \in Bundles : none[b] = "none" /\ zero[b] = 0
  OBVIOUS
<1> HIDE DEF none, zero
<1>5. RegOK(NoReg, NoImage, none, zero)
  <2>1. Typed(NoReg, NoImage, none, zero) /\ Distinct(NoImage)
    BY <1>2, <1>3, NoImageFacts DEF Typed
  <2>2. Logged(NoReg, NoImage, none, zero)
    BY <1>2, <1>4, NoImageFacts DEF Logged
  <2>3. Saved(NoReg, NoImage) /\ Fresh(NoReg, none, zero)
    BY <1>2, <1>4, NoImageFacts DEF Saved, Fresh
  <2>4. Once(NoReg, NoImage, zero)
    BY <1>2, <1>4, NoImageFacts DEF Once
  <2> QED BY <1>2, <2>1, <2>2, <2>3, <2>4 DEF RegOK
<1>6. RegInv
  BY <1>1, <1>2, <1>3, <1>5, NoImageFacts DEF RegInv
<1>7. StoreInv
  BY <1>1, <1>2, <1>4, DeliveryAssumption DEF StoreInv
<1>8. QueueInv
  BY <1>1, EmptyList DEF QueueInv, NoClash
<1>9. CustodyInv
  BY <1>1 DEF CustodyInv, CustodyUntilDelivered
<1>10. KeptInv
  BY <1>1, <1>2 DEF KeptInv, KeptOK, Untaken
<1> QED BY <1>6, <1>7, <1>8, <1>9, <1>10 DEF Inv

LEMMA DaemonKeeps == ASSUME Inv, Daemon PROVE Inv'
<1>1. CASE handle_bundle_received        BY <1>1, handle_bundle_received_Keeps
<1>2. CASE handle_received_too_late      BY <1>2, handle_received_too_late_Keeps
<1>3. CASE handle_bundle_reloaded        BY <1>3, handle_bundle_reloaded_Keeps
<1>4. CASE handle_deliver_bundle_to_reg  BY <1>4, handle_deliver_bundle_to_reg_Keeps
<1>5. CASE handle_deliver_nowhere        BY <1>5, handle_deliver_nowhere_Keeps
<1>6. CASE handle_bundle_delivered       BY <1>6, handle_bundle_delivered_Keeps
<1>7. CASE handle_bundle_expired         BY <1>7, handle_bundle_expired_Keeps
<1>8. CASE handle_bundle_free            BY <1>8, handle_bundle_free_Keeps
<1>9. CASE handle_bundle_acknowledged_by_app
  BY <1>9, handle_bundle_acknowledged_by_app_Keeps
<1>15. CASE bundle_ack                   BY <1>15, bundle_ack_Keeps
<1>10. CASE handle_registration_added    BY <1>10, handle_registration_added_Keeps
<1>11. CASE handle_registration_removed  BY <1>11, handle_registration_removed_Keeps
<1>12. CASE handle_registration_expired  BY <1>12, handle_registration_expired_Keeps
<1>13. CASE handle_registration_dead     BY <1>13, handle_registration_dead_Keeps
<1>14. CASE handle_registration_delete   BY <1>14, handle_registration_delete_Keeps
<1> QED BY <1>1, <1>2, <1>3, <1>4, <1>5, <1>6, <1>7, <1>8, <1>9, <1>10, <1>11,
           <1>12, <1>13, <1>14, <1>15 DEF Daemon

LEMMA ClientsKeep == ASSUME Inv, NEW r \in Regs, Clients(r) PROVE Inv'
<1>1. CASE \E kind \in Kinds, active \in BOOLEAN : handle_register(r, kind, active)
  BY <1>1, handle_register_Keeps
<1>2. CASE handle_bind(r)                BY <1>2, handle_bind_Keeps
<1>3. CASE close_client(r)               BY <1>3, close_client_Keeps
<1>4. CASE UnregisterBound(r)            BY <1>4, UnregisterBoundKeeps
<1>5. CASE UnregisterPassive(r)          BY <1>5, UnregisterPassiveKeeps
<1>6. CASE wait_for_notify(r)            BY <1>6, wait_for_notify_Keeps
<1>7. CASE handle_recv(r)                BY <1>7, handle_recv_Keeps
<1>8. CASE handle_peek(r)                BY <1>8, handle_peek_Keeps
<1>10. CASE handle_recv_fails(r)         BY <1>10, handle_recv_fails_Keeps
<1>9. CASE \E b \in Bundles : handle_ack(r, b)
  BY <1>9, handle_ack_Keeps
<1> QED BY <1>1, <1>2, <1>3, <1>4, <1>5, <1>6, <1>7, <1>8, <1>9, <1>10
        DEF Clients

LEMMA NextKeeps == Inv /\ [Next]_vars => Inv'
<1> SUFFICES ASSUME Inv, [Next]_vars PROVE Inv'
  OBVIOUS
<1>1. CASE Daemon                        BY <1>1, DaemonKeeps
<1>2. CASE \E r \in Regs : Clients(r)    BY <1>2, ClientsKeep
<1>3. CASE \E r \in Regs : ExpirationTimer(r)
  BY <1>3, ExpirationTimerKeeps
<1>4. CASE \E r \in Regs : AssertFails(r)
  BY <1>4, RestartKeeps DEF AssertFails
<1>5. CASE \E b \in Bundles : LifetimeEnds(b)
  BY <1>5, LifetimeEndsKeeps
<1>6. CASE Arrive                        BY <1>6, ArriveKeeps
<1>7. CASE Crash                         BY <1>7, RestartKeeps DEF Crash
<1>8. CASE UNCHANGED vars
  <2>1. /\ early' = early /\ reg' = reg /\ disk' = disk /\ pending' = pending
        /\ stored' = stored /\ fwdlog' = fwdlog /\ custody' = custody
        /\ eventq' = eventq /\ arrived' = arrived /\ over' = over /\ got' = got
        /\ ackSent' = ackSent /\ peeked' = peeked
    BY <1>8 DEF vars
  <2>2. RegInv' /\ StoreInv' /\ KeptInv'
    BY <2>1 DEF Inv, RegInv, StoreInv, KeptInv, Excused
  <2>3. Good' = Good
    BY <2>1 DEF Good, HandedOver
  <2>4. QueueInv' /\ CustodyInv'
    BY <2>1, <2>3 DEF Inv, QueueInv, CustodyInv, CustodyUntilDelivered
  <2> QED BY <2>2, <2>4 DEF Inv
<1> QED BY <1>1, <1>2, <1>3, <1>4, <1>5, <1>6, <1>7, <1>8 DEF Next

\* Everything that the runs check follows from Inv.
LEMMA SpecKeepsInv == Spec => []Inv
<1>1. Init => Inv
  BY InitHolds
<1>2. Inv /\ [Next]_vars => Inv'
  BY NextKeeps
<1> QED BY <1>1, <1>2, PTL DEF Spec

\* Type correctness: in particular no list of a registration ever has a bundle
\* twice (BundleList::push_back in deliver_bundle, move_contents, deliver_front
\* and bundle_ack), and custody is kept only of stored bundles.
THEOREM TypeCorrect == Spec => []TypeOK
<1>1. Inv => TypeOK
  <2> SUFFICES ASSUME Inv PROVE TypeOK
    OBVIOUS
  <2>1. RegInv /\ StoreInv /\ CustodyInv
    BY DEF Inv
  <2>2. ASSUME NEW r \in Regs
        PROVE  /\ reg[r].life \in {"none", "adding", "live", "removed", "freed"}
               /\ {reg[r].active, reg[r].expired, reg[r].timer} \subseteq BOOLEAN
               /\ reg[r].recv \in {"idle", "ready"}
               /\ Held(reg[r]) \subseteq Bundles
               /\ \A list \in {reg[r].list, reg[r].unacked, reg[r].acked} :
                      IsInjective(list)
    <3>1. reg[r] \in RegSet /\ Distinct(reg[r])
      BY <2>1, Selves
    <3>2. /\ reg[r].life \in {"none", "adding", "live", "removed", "freed"}
          /\ {reg[r].active, reg[r].expired, reg[r].timer} \subseteq BOOLEAN
          /\ reg[r].recv \in {"idle", "ready"}
      BY <3>1 DEF RegSet, Lives
    <3>3. /\ reg[r].list \in Seq(Bundles) /\ reg[r].unacked \in Seq(Bundles)
          /\ reg[r].acked \in Seq(Bundles) /\ Held(reg[r]) \subseteq Bundles
      BY <3>1, ListFacts
    <3>4. \A list \in {reg[r].list, reg[r].unacked, reg[r].acked} :
             IsInjective(list)
      BY <3>1 DEF Distinct
    <3> QED BY <3>2, <3>3, <3>4
  <2>3. pending \subseteq stored /\ stored \subseteq Bundles /\ early \in BOOLEAN
    BY <2>1, StoreFacts DEF StoreInv
  <2>4. custody \subseteq stored
    <3> SUFFICES ASSUME NEW b \in custody, b \notin pending PROVE b \in stored
      BY <2>3
    <3>1. PICK e \in Range(eventq) : FromStore(e) /\ e.b = b
      BY <2>1 DEF CustodyInv, Reloading
    <3> QED BY <3>1, QueueTypes DEF Good
  <2>5. /\ fwdlog \in [Regs -> [Bundles -> {"none", "PENDING_DELIVERY", "DELIVERED"}]]
        /\ got \in [Regs -> [Bundles -> 0 .. 2]]
    BY <2>1 DEF RegInv, LogSet, Log, CountSet
  <2> QED BY <2>2, <2>3, <2>4, <2>5 DEF TypeOK
<1> QED BY <1>1, SpecKeepsInv, PTL

\* A restart at any moment reads back every registration of the table with
\* all that was queued or unacknowledged in memory: it was in the stored image,
\* and its bundle in the store (APIRegistration::update after every change of
\* the lists; bundles that a list refers to are not freed).
THEOREM ReadBack == Spec => RestartReadsBack
<1>1. ASSUME Inv, Restart, NEW r \in Regs, InTable(r)
      PROVE  reg'[r].life = "live" /\ Owed(reg[r]) \subseteq Owed(reg'[r])
  <2> DEFINE d == disk[r]
  <2>1. RegOK(reg[r], d, fwdlog[r], got[r]) /\ Held(reg[r]) \subseteq stored
    BY <1>1 DEF Inv, RegInv, StoreInv
  <2>2. d.stored /\ Owed(reg[r]) \subseteq Owed(d) /\ d \in ImageSet
        /\ reg[r].kind \in Kinds
    BY <1>1, <2>1 DEF RegOK, Saved, InTable, Typed, RegSet
  <2>3. Owed(reg[r]) \subseteq stored
    BY <2>1 DEF Owed, Held
  <2> DEFINE x == OnlyIn(d.list, stored)
             y == OnlyIn(d.unacked, stored)
             z == OnlyIn(d.acked, stored)
             new == NewReg(reg[r].kind, FALSE)
  <2>4. reg'[r] = [new EXCEPT !.life = "live", !.list = x, !.unacked = y,
                              !.acked = z]
    BY <1>1, <2>2 DEF Restart, Reloaded
  <2>5. /\ Range(x) = Range(d.list) \cap stored
        /\ Range(y) = Range(d.unacked) \cap stored
    BY <2>2, ListFacts, OnlyInFacts
  <2>6. new \in RegSet
    BY <2>2, NewRegFacts
  <2> HIDE DEF x, y, z, new, d
  <2>7. reg'[r].life = "live" /\ reg'[r].list = x /\ reg'[r].unacked = y
    BY <2>4, <2>6 DEF RegSet
  <2> QED BY <2>2, <2>3, <2>5, <2>7 DEF Owed
<1>2. Inv => [Restart => \A r \in Regs : InTable(r) =>
                 /\ reg'[r].life = "live"
                 /\ Owed(reg[r]) \subseteq Owed(reg'[r])]_vars
  BY <1>1
<1> QED BY <1>2, SpecKeepsInv, PTL DEF RestartReadsBack

\* Without acknowledgements and without a full replay an application gets a
\* bundle at most once, across bindings and restarts: the durable DELIVERED
\* entry, the delivery cache and the image written with each receive.
THEOREM GotOnce == Spec => []AutoAckOnce
<1>1. Inv => AutoAckOnce
  <2> SUFFICES ASSUME Inv, NEW r \in Regs, NEW b \in Bundles,
                      ~reg[r].kind.acking, reg[r].kind.replay # "ALL"
               PROVE  got[r][b] <= 1
    BY DEF AutoAckOnce
  <2>1. RegOK(reg[r], disk[r], fwdlog[r], got[r])
    BY DEF Inv, RegInv
  <2> QED BY <2>1 DEF RegOK, Once
<1> QED BY <1>1, SpecKeepsInv, PTL

\* A deferred bundle stays on a list of its live registration until the
\* application has taken it (acknowledged it, where it acknowledges), peeked at
\* it, or its lifetime is over; restarts and bindings that cross an
\* acknowledgement included.  With early deletion this is so while the node has
\* custody of the bundle, and without it always.
THEOREM KeptForApplication == Spec => []KeptUntilTaken
<1>1. Inv => KeptUntilTaken
  <2> SUFFICES ASSUME Inv, NEW r \in Regs, NEW b \in Bundles,
                      ~early \/ b \in custody,
                      InTable(r), b \notin over, fwdlog[r][b] = "DELIVERED",
                      reg[r].kind.failure = "DEFER",
                      IF reg[r].kind.acking THEN b \notin ackSent[r]
                      ELSE got[r][b] = 0
               PROVE  b \in Held(reg[r]) \cup peeked[r]
    BY DEF KeptUntilTaken
  <2>1. KeptOK(reg[r], disk[r], fwdlog[r], got[r], ackSent[r], peeked[r], Excused)
    BY DEF Inv, KeptInv
  <2>2. Untaken(reg[r], fwdlog[r], got[r], ackSent[r], b)
    BY DEF Untaken, InTable
  <2>3. b \notin Excused
    BY DEF Excused
  <2> QED BY <2>1, <2>2, <2>3 DEF KeptOK
<1> QED BY <1>1, SpecKeepsInv, PTL

\* Custody of a bundle ends only when an application has it, a passive
\* registration dropped it or its lifetime is over (release_custody in
\* handle_bundle_delivered and delete_bundle).
THEOREM CustodyHonoured == Spec => []CustodyUntilDelivered
<1>1. Inv => CustodyUntilDelivered
  BY DEF Inv, CustodyInv
<1> QED BY <1>1, SpecKeepsInv, PTL
=============================================================================
