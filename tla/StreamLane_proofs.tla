------------------------- MODULE StreamLane_proofs --------------------------
(***************************************************************************)
(* What two connections of StreamCL have in common, proved for any bundles *)
(* of any lengths, any segment length and sizes of buffers, and any        *)
(* parameters of the two ends: the types, the lane of units from one end   *)
(* to the other, and what a connection that sends, cancels or closes does  *)
(* to the lanes.  StreamCL_proofs has what one that reads does, and the    *)
(* theorems.                                                               *)
(***************************************************************************)
EXTENDS StreamCL, ProofFacts, SequenceTheorems

(***************************************************************************)
(* The types of the two connections.                                       *)
(***************************************************************************)
UnitSet ==
    {Hdr(p) : p \in AllParams} \cup {Seg(x, y) : x, y \in BOOLEAN}
    \cup {SegLen(n) : n \in Nat} \cup {Data(b, i) : b \in Bundles, i \in Nat}
    \cup {Ack(n) : n \in Nat} \cup {Keepalive, Shutdown}

\* The events that a connection posts.
EventSet ==
    {Transmitted(b, m, n) : b \in Bundles, m, n \in Nat}
    \cup {SendCancelled(b) : b \in Bundles} \cup {CloseRequest}

\* What is in flight, and what is coming in.
FlightSet   == [b : Bundles, sent : Nat, acked : Nat, posted : BOOLEAN]
IncomingSet == [data : Seq(UnitSet), ack : SUBSET Nat, acked : Nat, total : Nat]

\* A connection.
ConnSet ==
    [contact : BOOLEAN, par : AllParams, old : {NoParams}, initiated : BOOLEAN,
     up : BOOLEAN, broken : Reasons \cup {"no"}, closed : BOOLEAN, ok : BOOLEAN,
     sendbuf : Seq(UnitSet), wire : Seq(UnitSet), recvbuf : Seq(UnitSet),
     stall : BOOLEAN, inflight : Seq(FlightSet), current : BOOLEAN, todo : Nat,
     incoming : Seq(IncomingSet), rcvTodo : Nat,
     events : Seq(EventSet), rcvd : Seq(Seq(UnitSet))]

(***************************************************************************)
(* The lane from one end to the other: what has been written and not yet   *)
(* been handled, the receiver's state before it and the sender's after it. *)
(*                                                                         *)
(* A lane has a position: whether the contact header is past (up), how     *)
(* many bundles are (j) and how much of the next one is (n), what the      *)
(* segment still has to bring (t), whether a segment's length is to come   *)
(* (seg), and how many bundles of the other lane are acknowledged (aj) and *)
(* how much of the next one (an).  The lane is about the bundles h that    *)
(* its sender began and the bundles g that the other end did; "own" is     *)
(* what its header asks for, "acks" what the two ends agree on.            *)
(***************************************************************************)
Position == [up : BOOLEAN, j : Nat, n : Nat, t : Nat, seg : {"no", "more", "last"},
             aj : Nat, an : Nat]

LaneOf(h, g, own, other) ==
    [h |-> h, g |-> g, own |-> own, acks |-> own /\ other]

\* One list begins with the other; one place in a list of bundles is before
\* another, or the same.
Extends(h, h2) == Len(h) <= Len(h2) /\ \A i \in 1 .. Len(h) : h2[i] = h[i]
Below(m, n, i, j) == m < i \/ (m = i /\ n <= j)

Resting(x) == x.t = 0 /\ x.seg = "no"

\* Unit u leads from position x to position y.
HdrMove(k, x, u, y) ==
    /\ u.unit = "hdr" /\ ~x.up /\ Resting(x)
    /\ u.acks = k.own
    /\ y = [x EXCEPT !.up = TRUE]

SegMove(k, x, u, y) ==
    /\ u.unit = "seg" /\ x.up /\ Resting(x) /\ x.j < Len(k.h)
    /\ u.start <=> x.n = 0
    /\ y = [x EXCEPT !.seg = IF u.end THEN "last" ELSE "more"]

LenMove(k, x, u, y) ==
    /\ u.unit = "len" /\ x.up /\ x.t = 0 /\ x.seg # "no" /\ x.j < Len(k.h)
    /\ u.n \in 1 .. SegmentLength
    /\ x.n + u.n <= Length[k.h[x.j + 1]]
    /\ x.seg = "last" <=> x.n + u.n = Length[k.h[x.j + 1]]
    /\ y = [x EXCEPT !.seg = "no", !.t = u.n]

DataMove(k, x, u, y) ==
    /\ x.up /\ x.t > 0 /\ x.seg = "no" /\ x.j < Len(k.h)
    /\ u = Data(k.h[x.j + 1], x.n + 1)
    /\ y = IF x.n + 1 = Length[k.h[x.j + 1]]
           THEN [x EXCEPT !.j = @ + 1, !.n = 0, !.t = @ - 1]
           ELSE [x EXCEPT !.n = @ + 1, !.t = @ - 1]

AckMove(k, x, u, y) ==
    /\ u.unit = "ack" /\ x.up /\ Resting(x) /\ k.acks /\ x.aj < Len(k.g)
    /\ u.n \in x.an + 1 .. Length[k.g[x.aj + 1]]
    /\ y = IF u.n = Length[k.g[x.aj + 1]]
           THEN [x EXCEPT !.aj = @ + 1, !.an = 0] ELSE [x EXCEPT !.an = u.n]

RestMove(k, x, u, y) ==
    u.unit \in {"keepalive", "shutdown"} /\ x.up /\ Resting(x) /\ y = x

Move(k, x, u, y) ==
    \/ HdrMove(k, x, u, y) \/ SegMove(k, x, u, y) \/ LenMove(k, x, u, y)
    \/ DataMove(k, x, u, y) \/ AckMove(k, x, u, y) \/ RestMove(k, x, u, y)

\* The units of s lead from x to y.
Run(k, x, s, y) ==
    \E p \in [1 .. Len(s) + 1 -> Position] :
        /\ p[1] = x /\ p[Len(s) + 1] = y
        /\ \A i \in 1 .. Len(s) : Move(k, p[i], s[i], p[i + 1])

(***************************************************************************)
(* Where the two ends of a lane are.  What an end has under way as a       *)
(* sender and as a receiver:                                               *)
(***************************************************************************)
SendSide(c) == [inflight |-> c.inflight, current |-> c.current, todo |-> c.todo]
RecvSide(c) == [incoming |-> c.incoming, rcvTodo |-> c.rcvTodo, rcvd |-> c.rcvd]

\* The bundle being sent, whether it is started and no segment of it is, and
\* whether some of it is on its way.
Newest(s)  == s.inflight[Len(s.inflight)]
Unbegun(s) == s.current /\ Newest(s).sent = 0 /\ s.todo = 0
Half(s) == /\ s.current /\ Newest(s).sent < Length[Newest(s).b]
           /\ Newest(s).sent > 0 \/ s.todo > 0
SentJ(s, h) == IF Half(s) THEN Len(h) - 1 ELSE Len(h)
SentN(s)    == IF Half(s) THEN Newest(s).sent ELSE 0

\* How many of the bundles h the end has done with, and what is acknowledged.
Popped(s, h) == (Len(h) + (IF Unbegun(s) THEN 1 ELSE 0)) - Len(s.inflight)
AllAcked(s) == s.inflight # <<>> /\ s.inflight[1].acked = Length[s.inflight[1].b]
AckedJ(s, h) == Popped(s, h) + (IF AllAcked(s) THEN 1 ELSE 0)
AckedN(s) == IF s.inflight = <<>> \/ AllAcked(s) THEN 0 ELSE s.inflight[1].acked

\* The last incoming bundle is not complete; how much of it there is; how many
\* were begun; and what the end has acknowledged.
Newcomer(r) == r.incoming[Len(r.incoming)]
Partial(r) == /\ r.incoming # <<>>
              /\ Newcomer(r).total = 0 \/ Len(Newcomer(r).data) < Newcomer(r).total
RecvN(r) == IF Partial(r) THEN Len(Newcomer(r).data) ELSE 0
Begun(r) == Len(r.rcvd) + (IF Partial(r) THEN 1 ELSE 0)
GaveJ(r) == Begun(r) - Len(r.incoming)
GaveN(r) == IF r.incoming = <<>> THEN 0 ELSE r.incoming[1].acked

SenderAt(up, s, r, k) ==
    [up |-> up, j |-> SentJ(s, k.h), n |-> SentN(s), t |-> s.todo, seg |-> "no",
     aj |-> IF k.acks THEN GaveJ(r) ELSE 0, an |-> IF k.acks THEN GaveN(r) ELSE 0]

ReceiverAt(up, s, r, k) ==
    [up |-> up, j |-> Len(r.rcvd), n |-> RecvN(r), t |-> r.rcvTodo, seg |-> "no",
     aj |-> IF k.acks THEN AckedJ(s, k.g) ELSE 0,
     an |-> IF k.acks THEN AckedN(s) ELSE 0]

\* What an end wrote and its peer did not read; the position after what an end
\* wrote; the one before what it reads.
Out(c) == c.wire \o c.sendbuf
WroteTo(c, k) == SenderAt(c.initiated, SendSide(c), RecvSide(c), k)
ReadsFrom(c, k) == ReceiverAt(c.up, SendSide(c), RecvSide(c), k)

(***************************************************************************)
(* One end: the bundles it is sending are the last of those it began ...   *)
(***************************************************************************)
FlightOK(s, acks, h, i) ==
    LET f == s.inflight[i] IN
    /\ Popped(s, h) + i <= Len(h) => f.b = h[Popped(s, h) + i]
    /\ f.sent <= Length[f.b] /\ f.acked <= f.sent
    /\ i < Len(s.inflight) \/ ~s.current => f.sent = Length[f.b]
    /\ i > 1 \/ ~acks => f.acked = 0
    /\ f.posted <=> f.acked = Length[f.b]
    /\ f.posted => s.current /\ Len(s.inflight) = 1

SendOK(s, acks, h) ==
    /\ Popped(s, h) >= 0
    /\ \A i \in DOMAIN s.inflight : FlightOK(s, acks, h, i)
    /\ s.current => s.inflight # <<>>
    /\ s.todo # 0 => s.current /\ Newest(s).sent + s.todo <= Length[Newest(s).b]
    /\ s.todo <= SegmentLength
    /\ ~acks /\ s.inflight # <<>> => s.current /\ Len(s.inflight) = 1

(***************************************************************************)
(* ... and those it is receiving the last of those its peer began, of      *)
(* which the daemon has all but the one that is not complete.              *)
(***************************************************************************)
Coming(r, i) == i = Len(r.incoming) /\ Partial(r)
SegEnd(r, i) == Len(r.incoming[i].data) + (IF Coming(r, i) THEN r.rcvTodo ELSE 0)

IncomingOK(r, g, i) ==
    LET f == r.incoming[i]
        b == g[GaveJ(r) + i]
    IN /\ Len(f.data) <= Length[b]
       /\ \A m \in 1 .. Len(f.data) : f.data[m] = Data(b, m)
       /\ Coming(r, i) <=> Len(f.data) < Length[b]
       /\ SegEnd(r, i) <= Length[b]
       /\ f.total = IF SegEnd(r, i) = Length[b] THEN Length[b] ELSE 0
       /\ f.ack \subseteq f.acked + 1 .. SegEnd(r, i)
       /\ f.total # 0 => f.total \in f.ack
       /\ Coming(r, i) /\ r.rcvTodo # 0 => SegEnd(r, i) \in f.ack
       /\ f.acked <= Len(f.data)
       /\ i > 1 => f.acked = 0

RecvOK(r, g) ==
    /\ Begun(r) <= Len(g) /\ GaveJ(r) >= 0
    /\ \A i \in DOMAIN r.rcvd : r.rcvd[i] = Whole[g[i]]
    /\ \A i \in DOMAIN r.incoming : IncomingOK(r, g, i)
    /\ r.rcvTodo # 0 => Partial(r)
    /\ r.rcvTodo <= SegmentLength

\* What the daemon was given: bundles of the peer, in order; when the
\* connection is closed the last may be cut off.
CutOff(x, b) ==
    /\ Len(x) > HeaderLen /\ Len(x) < Length[b]
    /\ \A m \in 1 .. Len(x) : x[m] = Data(b, m)

RcvdOK(rcvd, closed, g) ==
    /\ Len(rcvd) <= Len(g)
    /\ \A i \in DOMAIN rcvd : \/ rcvd[i] = Whole[g[i]]
                              \/ closed /\ i = Len(rcvd) /\ CutOff(rcvd[i], g[i])

EndOK(c, h, g, own, other) ==
    /\ c \in ConnSet
    /\ c.ok /\ c.broken # "CL_ERROR"
    /\ c.par.acks = IF c.up THEN own /\ other ELSE own
    /\ c.up => c.initiated /\ c.contact
    /\ c.broken # "no" => c.initiated
    /\ c.closed => /\ c.broken # "no" /\ c.inflight = <<>> /\ c.incoming = <<>>
                   /\ c.todo = 0 /\ c.rcvTodo = 0
    /\ ~c.initiated => c.sendbuf = <<>>
    /\ ~c.up => /\ h = <<>> /\ c.inflight = <<>> /\ ~c.current /\ c.todo = 0
                /\ c.incoming = <<>> /\ c.rcvd = <<>> /\ c.rcvTodo = 0
    /\ ~c.closed => SendOK(SendSide(c), c.par.acks, h) /\ RecvOK(RecvSide(c), g)
    /\ RcvdOK(c.rcvd, c.closed, g)

\* What the lane from c acknowledges is with the daemon of c, and was sent by d.
AcksOK(y, k, c, d) ==
    /\ y.aj <= Len(c.rcvd) /\ \A i \in 1 .. y.aj : c.rcvd[i] = Whole[k.g[i]]
    /\ Below(y.aj, y.an, SentJ(SendSide(d), k.g), SentN(SendSide(d)))

\* The lane from c to d.
LaneOK(k, c, d) ==
    d.broken = "no" =>
        \E y \in Position :
            /\ Run(k, ReadsFrom(d, k), d.recvbuf \o Out(c), y)
            /\ AcksOK(y, k, c, d)
            /\ c.broken = "no" => y = WroteTo(c, k)

\* The two ends of a connection, of which c began the bundles h and asked for
\* acknowledgements if own, and d those of g and if other.
PairOK(c, d, h, g, own, other) ==
    /\ h \in Seq(Bundles) /\ g \in Seq(Bundles)
    /\ own \in BOOLEAN /\ other \in BOOLEAN
    /\ EndOK(c, h, g, own, other) /\ EndOK(d, g, h, other, own)
    /\ LaneOK(LaneOf(h, g, own, other), c, d)
    /\ LaneOK(LaneOf(g, h, other, own), d, c)

(***************************************************************************)
(* Runs.                                                                   *)
(***************************************************************************)

\* Nothing leads nowhere.
LEMMA RunEmpty ==
    ASSUME NEW k, NEW x \in Position
    PROVE  Run(k, x, <<>>, x)
<1> DEFINE p == [i \in 1 .. 1 |-> x]
<1>1. p \in [1 .. Len(<<>>) + 1 -> Position] /\ p[1] = x /\ p[Len(<<>>) + 1] = x
  OBVIOUS
<1>2. \A i \in 1 .. Len(<<>>) : Move(k, p[i], <<>>[i], p[i + 1])
  OBVIOUS
<1> HIDE DEF p
<1> QED BY <1>1, <1>2 DEF Run

\* One unit.
LEMMA RunOne ==
    ASSUME NEW k, NEW u, NEW x \in Position, NEW y \in Position, Move(k, x, u, y)
    PROVE  Run(k, x, <<u>>, y)
<1> DEFINE p == [i \in 1 .. 2 |-> IF i = 1 THEN x ELSE y]
<1>1. p \in [1 .. Len(<<u>>) + 1 -> Position] /\ p[1] = x /\ p[Len(<<u>>) + 1] = y
  OBVIOUS
<1>2. \A i \in 1 .. Len(<<u>>) : Move(k, p[i], <<u>>[i], p[i + 1])
  BY <1>1
<1> HIDE DEF p
<1> QED BY <1>1, <1>2 DEF Run

\* One run after the other.
LEMMA RunJoin ==
    ASSUME NEW k, NEW s \in Seq(UnitSet), NEW t \in Seq(UnitSet), NEW x, NEW y, NEW z,
           Run(k, x, s, y), Run(k, y, t, z)
    PROVE  Run(k, x, s \o t, z)
<1> DEFINE m == Len(s)
           n == Len(t)
<1>0. m \in Nat /\ n \in Nat
  OBVIOUS
<1>1. PICK p \in [1 .. m + 1 -> Position] :
        /\ p[1] = x /\ p[m + 1] = y
        /\ \A i \in 1 .. m : Move(k, p[i], s[i], p[i + 1])
  BY DEF Run
<1>2. PICK q \in [1 .. n + 1 -> Position] :
        /\ q[1] = y /\ q[n + 1] = z
        /\ \A i \in 1 .. n : Move(k, q[i], t[i], q[i + 1])
  BY DEF Run
<1> DEFINE r == [i \in 1 .. (m + n) + 1 |-> IF i <= m + 1 THEN p[i] ELSE q[i - m]]
<1>3. Len(s \o t) = m + n
  OBVIOUS
<1>4. \A i \in 1 .. m + n : (s \o t)[i] = IF i <= m THEN s[i] ELSE t[i - m]
  OBVIOUS
<1> HIDE DEF m, n
<1>5. r \in [1 .. (m + n) + 1 -> Position]
  BY <1>0
<1>6. r[1] = x
  BY <1>0, <1>1
<1>7. r[(m + n) + 1] = z
  <2>1. CASE n = 0
    BY <1>0, <1>1, <1>2, <2>1
  <2>2. CASE n # 0
    BY <1>0, <1>2, <2>2
  <2> QED BY <2>1, <2>2
<1>8. ASSUME NEW i \in 1 .. m + n
      PROVE  Move(k, r[i], (s \o t)[i], r[i + 1])
  <2>1. CASE i <= m
    <3>1. i \in 1 .. m /\ i \in 1 .. (m + n) + 1 /\ i + 1 \in 1 .. (m + n) + 1
          /\ i <= m + 1 /\ i + 1 <= m + 1
      BY <1>0, <2>1
    <3>2. r[i] = p[i] /\ r[i + 1] = p[i + 1]
      BY <3>1
    <3>3. (s \o t)[i] = s[i]
      BY <1>4, <2>1
    <3> HIDE DEF r
    <3> QED BY <1>1, <3>1, <3>2, <3>3
  <2>2. CASE i > m
    <3>1. i - m \in 1 .. n /\ (i - m) + 1 \in 1 .. n + 1 /\ (i + 1) - m = (i - m) + 1
      BY <1>0, <2>2
    <3>2. r[i + 1] = q[(i - m) + 1]
      BY <1>0, <2>2, <3>1
    <3>3. r[i] = q[i - m]
      <4>1. CASE i = m + 1
        BY <1>0, <1>1, <1>2, <4>1
      <4>2. CASE i # m + 1
        BY <1>0, <2>2, <4>2
      <4> QED BY <4>1, <4>2
    <3>4. (s \o t)[i] = t[i - m]
      <4>1. ~(i <= m)
        BY <1>0, <2>2
      <4> QED BY <1>4, <4>1
    <3> HIDE DEF r
    <3> QED BY <1>2, <3>1, <3>2, <3>3, <3>4
  <2>3. i <= m \/ i > m
    BY <1>0
  <2> QED BY <2>1, <2>2, <2>3
<1> HIDE DEF r
<1> QED BY <1>3, <1>5, <1>6, <1>7, <1>8 DEF Run

\* A run can be cut in two.
LEMMA RunSplit ==
    ASSUME NEW k, NEW s \in Seq(UnitSet), NEW t \in Seq(UnitSet), NEW x, NEW z,
           Run(k, x, s \o t, z)
    PROVE  \E y \in Position : Run(k, x, s, y) /\ Run(k, y, t, z)
<1> DEFINE m == Len(s)
           n == Len(t)
<1>0. m \in Nat /\ n \in Nat
  OBVIOUS
<1>3. Len(s \o t) = m + n
  OBVIOUS
<1>4. \A i \in 1 .. m + n : (s \o t)[i] = IF i <= m THEN s[i] ELSE t[i - m]
  OBVIOUS
<1>1. PICK p \in [1 .. (m + n) + 1 -> Position] :
        /\ p[1] = x /\ p[(m + n) + 1] = z
        /\ \A i \in 1 .. m + n : Move(k, p[i], (s \o t)[i], p[i + 1])
  BY <1>3 DEF Run
<1> DEFINE q == [i \in 1 .. m + 1 |-> p[i]]
           r == [i \in 1 .. n + 1 |-> p[m + i]]
<1>5. p[m + 1] \in Position
  BY <1>0
<1>6. Run(k, x, s, p[m + 1])
  <2>1. q \in [1 .. m + 1 -> Position] /\ q[1] = x /\ q[m + 1] = p[m + 1]
    <3> HIDE DEF m, n
    <3> QED BY <1>0, <1>1
  <2>2. ASSUME NEW i \in 1 .. m
        PROVE  Move(k, q[i], s[i], q[i + 1])
    <3>1. i \in 1 .. m + n /\ i <= m /\ i \in 1 .. m + 1 /\ i + 1 \in 1 .. m + 1
      <4> HIDE DEF m, n
      <4> QED BY <1>0
    <3>2. q[i] = p[i] /\ q[i + 1] = p[i + 1]
      <4> HIDE DEF m, n
      <4> QED BY <3>1
    <3>3. (s \o t)[i] = s[i]
      <4> HIDE DEF m, n
      <4> QED BY <1>4, <3>1
    <3> HIDE DEF q
    <3> QED BY <1>1, <3>1, <3>2, <3>3
  <2> HIDE DEF q
  <2> QED BY <2>1, <2>2 DEF Run
<1>7. Run(k, p[m + 1], t, z)
  <2>1. r \in [1 .. n + 1 -> Position] /\ r[1] = p[m + 1] /\ r[n + 1] = z
    <3> HIDE DEF m, n
    <3> QED BY <1>0, <1>1
  <2>2. ASSUME NEW i \in 1 .. n
        PROVE  Move(k, r[i], t[i], r[i + 1])
    <3>1. /\ m + i \in 1 .. m + n /\ i \in 1 .. n + 1 /\ i + 1 \in 1 .. n + 1
          /\ m + (i + 1) = (m + i) + 1 /\ (m + i) - m = i /\ ~(m + i <= m)
      <4> HIDE DEF m, n
      <4> QED BY <1>0
    <3>2. r[i] = p[m + i] /\ r[i + 1] = p[(m + i) + 1]
      <4> HIDE DEF m, n
      <4> QED BY <3>1
    <3>3. (s \o t)[m + i] = t[i]
      <4> HIDE DEF m, n
      <4> QED BY <1>4, <3>1
    <3> HIDE DEF r
    <3> QED BY <1>1, <3>1, <3>2, <3>3
  <2> HIDE DEF r
  <2> QED BY <2>1, <2>2 DEF Run
<1> QED BY <1>5, <1>6, <1>7

\* What the first unit of a run does.
LEMMA RunFirst ==
    ASSUME NEW k, NEW u \in UnitSet, NEW s \in Seq(UnitSet), NEW x, NEW z,
           Run(k, x, <<u>> \o s, z)
    PROVE  \E y \in Position : Move(k, x, u, y) /\ Run(k, y, s, z)
<1>1. <<u>> \in Seq(UnitSet)
  OBVIOUS
<1>2. PICK y \in Position : Run(k, x, <<u>>, y) /\ Run(k, y, s, z)
  BY <1>1, RunSplit
<1>3. Move(k, x, u, y)
  <2>1. PICK p \in [1 .. Len(<<u>>) + 1 -> Position] :
          /\ p[1] = x /\ p[Len(<<u>>) + 1] = y
          /\ \A i \in 1 .. Len(<<u>>) : Move(k, p[i], <<u>>[i], p[i + 1])
    BY <1>2 DEF Run
  <2>2. Len(<<u>>) = 1 /\ <<u>>[1] = u
    OBVIOUS
  <2> QED BY <2>1, <2>2
<1> QED BY <1>2, <1>3

\* Positions only grow along a run.
LEMMA MoveGrows ==
    ASSUME NEW k, NEW u, NEW x \in Position, NEW y \in Position, Move(k, x, u, y)
    PROVE  Below(x.j, x.n, y.j, y.n) /\ Below(x.aj, x.an, y.aj, y.an)
<1>0. x.j \in Nat /\ x.n \in Nat /\ x.aj \in Nat /\ x.an \in Nat
  BY DEF Position
<1>1. CASE HdrMove(k, x, u, y)
  BY <1>0, <1>1 DEF HdrMove, Below, Position
<1>2. CASE SegMove(k, x, u, y)
  BY <1>0, <1>2 DEF SegMove, Below, Position
<1>3. CASE LenMove(k, x, u, y)
  BY <1>0, <1>3 DEF LenMove, Below, Position
<1>4. CASE DataMove(k, x, u, y)
  BY <1>0, <1>4 DEF DataMove, Below, Position
<1>5. CASE AckMove(k, x, u, y)
  <2>1. u.n > x.an
    BY <1>0, <1>5 DEF AckMove
  <2> QED BY <1>0, <1>5, <2>1, SMTT(30) DEF AckMove, Below, Position
<1>6. CASE RestMove(k, x, u, y)
  BY <1>0, <1>6 DEF RestMove, Below
<1> QED BY <1>1, <1>2, <1>3, <1>4, <1>5, <1>6 DEF Move

\* Places in a list of bundles are ordered.
LEMMA BelowTransitive ==
    ASSUME NEW a \in Nat, NEW b \in Nat, NEW c \in Nat, NEW d \in Nat,
           NEW e \in Nat, NEW f \in Nat, Below(a, b, c, d), Below(c, d, e, f)
    PROVE  Below(a, b, e, f)
BY DEF Below

\* A lane only moves on.
LEMMA RunGrows ==
    ASSUME NEW k, NEW s \in Seq(UnitSet), NEW x, NEW y, Run(k, x, s, y)
    PROVE  Below(x.j, x.n, y.j, y.n) /\ Below(x.aj, x.an, y.aj, y.an)
<1> DEFINE n == Len(s)
<1>1. PICK p \in [1 .. n + 1 -> Position] :
        /\ p[1] = x /\ p[n + 1] = y
        /\ \A i \in 1 .. n : Move(k, p[i], s[i], p[i + 1])
  BY DEF Run
<1>2. n \in Nat
  OBVIOUS
<1> DEFINE After(i) == /\ Below(x.j, x.n, p[i + 1].j, p[i + 1].n)
                       /\ Below(x.aj, x.an, p[i + 1].aj, p[i + 1].an)
           T == {i \in 0 .. n : After(i)}
<1> HIDE DEF n
<1>3. x \in Position /\ \A i \in 0 .. n : i + 1 \in 1 .. n + 1 /\ p[i + 1] \in Position
  BY <1>1, <1>2
<1>4. \A z \in Position : z.j \in Nat /\ z.n \in Nat /\ z.aj \in Nat /\ z.an \in Nat
  BY DEF Position
<1>5. 0 \in T
  <2>1. p[0 + 1] = x
    BY <1>1
  <2> QED BY <1>2, <1>3, <1>4, <2>1 DEF Below
<1>6. ASSUME NEW i \in 0 .. n - 1, i \in T
      PROVE  i + 1 \in T
  <2>1. i + 1 \in 1 .. n /\ i + 1 \in 0 .. n /\ i \in 0 .. n
    BY <1>2
  <2>2. p[i + 1] \in Position /\ p[(i + 1) + 1] \in Position
    BY <2>1, <1>3
  <2>3. /\ Below(p[i + 1].j, p[i + 1].n, p[(i + 1) + 1].j, p[(i + 1) + 1].n)
        /\ Below(p[i + 1].aj, p[i + 1].an, p[(i + 1) + 1].aj, p[(i + 1) + 1].an)
    BY <1>1, <2>1, <2>2, MoveGrows
  <2>4. After(i)
    BY <1>6
  <2>5. After(i + 1)
    <3> DEFINE a == p[i + 1]
               b == p[(i + 1) + 1]
    <3>1. /\ x.j \in Nat /\ x.n \in Nat /\ x.aj \in Nat /\ x.an \in Nat
          /\ a.j \in Nat /\ a.n \in Nat /\ a.aj \in Nat /\ a.an \in Nat
          /\ b.j \in Nat /\ b.n \in Nat /\ b.aj \in Nat /\ b.an \in Nat
      BY <1>3, <1>4, <2>2
    <3>2. /\ Below(x.j, x.n, a.j, a.n) /\ Below(x.aj, x.an, a.aj, a.an)
          /\ Below(a.j, a.n, b.j, b.n) /\ Below(a.aj, a.an, b.aj, b.an)
      BY <2>3, <2>4
    <3> HIDE DEF a, b
    <3>3. Below(x.j, x.n, b.j, b.n) /\ Below(x.aj, x.an, b.aj, b.an)
      BY <3>1, <3>2, BelowTransitive
    <3> QED BY <3>3 DEF b
  <2> QED BY <2>1, <2>5
<1>7. n \in T
  <2> HIDE DEF T
  <2>1. \A i \in 0 .. n : i \in T
    BY <1>2, <1>5, <1>6, UpTo
  <2> QED BY <1>2, <2>1
<1> QED BY <1>1, <1>7

\* A run is still one when more bundles were begun.
LEMMA ExtendsAt ==
    ASSUME NEW h \in Seq(Bundles), NEW h2 \in Seq(Bundles), Extends(h, h2),
           NEW j \in Nat, j < Len(h)
    PROVE  j < Len(h2) /\ h2[j + 1] = h[j + 1]
<1>1. Len(h) \in Nat /\ Len(h2) \in Nat
  OBVIOUS
<1>2. j + 1 \in 1 .. Len(h)
  BY <1>1
<1> QED BY <1>1, <1>2 DEF Extends

\* What leads from one place to another still does when more bundles are begun.
LEMMA RunExtends ==
    ASSUME NEW h \in Seq(Bundles), NEW h2 \in Seq(Bundles),
           NEW g \in Seq(Bundles), NEW g2 \in Seq(Bundles), NEW own, NEW other,
           Extends(h, h2), Extends(g, g2),
           NEW s \in Seq(UnitSet), NEW x, NEW y, Run(LaneOf(h, g, own, other), x, s, y)
    PROVE  Run(LaneOf(h2, g2, own, other), x, s, y)
<1> DEFINE k == LaneOf(h, g, own, other)
           k2 == LaneOf(h2, g2, own, other)
<1>1. /\ k.h = h /\ k.g = g /\ k2.h = h2 /\ k2.g = g2 /\ k2.own = k.own /\ k2.acks = k.acks
  BY DEF LaneOf
<1>2. ASSUME NEW a \in Position, NEW u, NEW b \in Position, Move(k, a, u, b)
      PROVE  Move(k2, a, u, b)
  <2> HIDE DEF k, k2
  <2>1. a.j \in Nat /\ a.aj \in Nat
    BY DEF Position
  <2>2. a.j < Len(h) => a.j < Len(h2) /\ h2[a.j + 1] = h[a.j + 1]
    BY <2>1, ExtendsAt
  <2>3. a.aj < Len(g) => a.aj < Len(g2) /\ g2[a.aj + 1] = g[a.aj + 1]
    BY <2>1, ExtendsAt
  <2>4. HdrMove(k, a, u, b) => HdrMove(k2, a, u, b)
    BY <1>1 DEF HdrMove
  <2>5. SegMove(k, a, u, b) => SegMove(k2, a, u, b)
    BY <1>1, <2>2 DEF SegMove
  <2>6. LenMove(k, a, u, b) => LenMove(k2, a, u, b)
    BY <1>1, <2>2 DEF LenMove
  <2>7. DataMove(k, a, u, b) => DataMove(k2, a, u, b)
    BY <1>1, <2>2 DEF DataMove
  <2>8. AckMove(k, a, u, b) => AckMove(k2, a, u, b)
    BY <1>1, <2>3 DEF AckMove
  <2>9. RestMove(k, a, u, b) => RestMove(k2, a, u, b)
    BY DEF RestMove
  <2> QED BY <1>2, <2>4, <2>5, <2>6, <2>7, <2>8, <2>9 DEF Move
<1> HIDE DEF k, k2
<1>3. PICK p \in [1 .. Len(s) + 1 -> Position] :
        /\ p[1] = x /\ p[Len(s) + 1] = y
        /\ \A i \in 1 .. Len(s) : Move(k, p[i], s[i], p[i + 1])
  BY DEF Run, k
<1>4. ASSUME NEW i \in 1 .. Len(s)
      PROVE  Move(k2, p[i], s[i], p[i + 1])
  <2>1. p[i] \in Position /\ p[i + 1] \in Position
    <3>1. i \in 1 .. Len(s) + 1 /\ i + 1 \in 1 .. Len(s) + 1
      OBVIOUS
    <3> QED BY <3>1
  <2> QED BY <1>2, <1>3, <2>1
<1> QED BY <1>3, <1>4 DEF Run, k2

(***************************************************************************)
(* Constants, sequences and numbers.                                       *)
(***************************************************************************)
LEMMA Constants ==
    /\ \A b \in Bundles : Length[b] \in Nat /\ Length[b] > HeaderLen /\ Length[b] > 0
    /\ HeaderLen \in Nat /\ HeaderLen > 0
    /\ SegmentLength \in Nat /\ SegmentLength > 0
    /\ SendbufLen \in Nat /\ SendbufLen > 1 /\ WireLen \in Nat /\ WireLen > 0
BY StreamAssumption

\* The smaller of two numbers.
LEMMA MinOf ==
    ASSUME NEW a \in Int, NEW b \in Int
    PROVE  Min({a, b}) = IF a <= b THEN a ELSE b
<1> DEFINE m == IF a <= b THEN a ELSE b
<1>1. m \in {a, b} /\ \A y \in {a, b} : m <= y
  OBVIOUS
<1>2. \A x \in {a, b} : (\A y \in {a, b} : x <= y) => x = m
  OBVIOUS
<1> HIDE DEF m
<1>3. Min({a, b}) = m
  BY <1>1, <1>2, Zenon DEF Min
<1> QED BY <1>3 DEF m

\* A sequence in two parts.
LEMMA SplitAt ==
    ASSUME NEW S, NEW s \in Seq(S), NEW n \in 0 .. Len(s)
    PROVE  /\ SubSeq(s, 1, n) \in Seq(S) /\ Len(SubSeq(s, 1, n)) = n
           /\ SubSeq(s, n + 1, Len(s)) \in Seq(S)
           /\ Len(SubSeq(s, n + 1, Len(s))) = Len(s) - n
           /\ SubSeq(s, 1, n) \o SubSeq(s, n + 1, Len(s)) = s
<1> DEFINE a == SubSeq(s, 1, n)
           b == SubSeq(s, n + 1, Len(s))
<1>1. /\ a \in Seq(S) /\ Len(a) = n
      /\ \A i \in 1 .. n : a[i] = s[i]
  OBVIOUS
<1>2. /\ b \in Seq(S) /\ Len(b) = Len(s) - n
      /\ \A i \in 1 .. Len(s) - n : b[i] = s[n + i]
  OBVIOUS
<1> HIDE DEF a, b
<1>3. Len(a \o b) = Len(s) /\ a \o b \in Seq(S)
  BY <1>1, <1>2, SMTT(30)
<1>4. ASSUME NEW i \in 1 .. Len(s)
      PROVE  (a \o b)[i] = s[i]
  <2>1. CASE i <= n
    BY <1>1, <1>2, <2>1
  <2>2. CASE i > n
    <3>1. i - n \in 1 .. Len(s) - n /\ n + (i - n) = i
      BY <2>2
    <3>2. (a \o b)[i] = b[i - n]
      BY <1>1, <1>2, <2>2
    <3> QED BY <1>2, <3>1, <3>2
  <2>3. i \in Int /\ n \in Int
    OBVIOUS
  <2>4. i <= n \/ i > n
    BY <2>3
  <2> QED BY <2>1, <2>2, <2>4
<1>5. a \o b = s
  BY <1>3, <1>4, SeqEqual
<1> QED BY <1>1, <1>2, <1>5 DEF a, b

\* Moving part of one sequence to the end of another.
LEMMA Moved ==
    ASSUME NEW v \in Seq(UnitSet), NEW s \in Seq(UnitSet), Len(v) <= WireLen,
           NEW n, n = Min({Len(s), WireLen - Len(v)})
    PROVE  LET w == v \o SubSeq(s, 1, n)
               b == SubSeq(s, n + 1, Len(s))
           IN  /\ w \in Seq(UnitSet) /\ b \in Seq(UnitSet)
               /\ w \o b = v \o s
               /\ Len(w) <= WireLen /\ Len(b) <= Len(s)
               /\ Len(b) <= (Len(s) + Len(v)) - WireLen \/ Len(b) = 0
<1> DEFINE a == SubSeq(s, 1, n)
           b == SubSeq(s, n + 1, Len(s))
           w == v \o a
<1>1. Len(s) \in Nat /\ Len(v) \in Nat /\ WireLen \in Nat
  BY Constants
<1>2. n = IF Len(s) <= WireLen - Len(v) THEN Len(s) ELSE WireLen - Len(v)
  <2>1. WireLen - Len(v) \in Int /\ Len(s) \in Int
    BY <1>1
  <2> QED BY <2>1, MinOf
<1>3. n \in 0 .. Len(s) /\ n <= WireLen - Len(v) /\ (n = Len(s) \/ n = WireLen - Len(v))
  BY <1>1, <1>2
<1>4. /\ a \in Seq(UnitSet) /\ Len(a) = n
      /\ b \in Seq(UnitSet) /\ Len(b) = Len(s) - n /\ a \o b = s
  BY <1>3, SplitAt
<1> HIDE DEF a, b
<1>5. w \in Seq(UnitSet) /\ Len(w) = Len(v) + n
  BY <1>4, ConcatProperties
<1>6. w \o b = v \o s
  <2>0. a \in Seq(UnitSet) /\ b \in Seq(UnitSet)
    BY <1>4
  <2>1. (v \o a) \o b = v \o (a \o b)
    BY <2>0, ConcatAssociative
  <2> QED BY <1>4, <2>1
<1> HIDE DEF w
<1>7. /\ Len(w) <= WireLen /\ Len(b) <= Len(s)
      /\ Len(b) <= (Len(s) + Len(v)) - WireLen \/ Len(b) = 0
  <2> DEFINE x == Len(w)
             y == Len(b)
             ls == Len(s)
             lv == Len(v)
  <2>1. ls \in Nat /\ lv \in Nat /\ n \in Int /\ WireLen \in Nat /\ 0 <= n
        /\ x = lv + n /\ y = ls - n /\ n <= WireLen - lv /\ (n = ls \/ n = WireLen - lv)
    BY <1>1, <1>3, <1>4, <1>5
  <2> HIDE DEF x, y, ls, lv
  <2>2. x <= WireLen /\ y <= ls /\ (y <= (ls + lv) - WireLen \/ y = 0)
    BY <2>1
  <2> QED BY <2>2 DEF x, y, ls, lv
<1> QED BY <1>4, <1>5, <1>6, <1>7 DEF a, b, w

\* Units joined to units.
LEMMA JoinedLen ==
    \A x, y \in Seq(UnitSet) : x \o y \in Seq(UnitSet) /\ Len(x \o y) = Len(x) + Len(y)
OBVIOUS

\* Joining is associative.
LEMMA Joined ==
    \A x, y, z \in Seq(UnitSet) : x \o (y \o z) = (x \o y) \o z
BY ConcatAssociative

(***************************************************************************)
(* The socket.                                                             *)
(***************************************************************************)
BufOK(c) == Len(c.wire) <= WireLen /\ Len(c.sendbuf) <= SendbufLen

\* A write leaves the stream as it is.
LEMMA SendDataFacts ==
    ASSUME NEW c \in ConnSet, Len(c.wire) <= WireLen
    PROVE  \E w, b \in Seq(UnitSet) :
              /\ send_data(c) = [c EXCEPT !.wire = w, !.sendbuf = b]
              /\ w \o b = c.wire \o c.sendbuf
              /\ Len(w) <= WireLen
              /\ Len(b) <= Len(c.sendbuf)
              /\ Len(b) <= (Len(c.sendbuf) + Len(c.wire)) - WireLen \/ Len(b) = 0
<1> DEFINE s == c.sendbuf
           v == c.wire
           n == Min({Len(s), WireLen - Len(v)})
           w == v \o SubSeq(s, 1, n)
           b == SubSeq(s, n + 1, Len(s))
<1>1. s \in Seq(UnitSet) /\ v \in Seq(UnitSet) /\ WireLen \in Nat /\ Len(v) <= WireLen
  BY Constants DEF ConnSet
<1>2. send_data(c) = [c EXCEPT !.wire = w, !.sendbuf = b]
  BY DEF send_data
<1>4. n = Min({Len(s), WireLen - Len(v)})
  OBVIOUS
<1> HIDE DEF s, v, n
<1>3. /\ w \in Seq(UnitSet) /\ b \in Seq(UnitSet)
      /\ w \o b = v \o s
      /\ Len(w) <= WireLen /\ Len(b) <= Len(s)
      /\ Len(b) <= (Len(s) + Len(v)) - WireLen \/ Len(b) = 0
  BY <1>1, <1>4, Moved, Zenon
<1> HIDE DEF w, b
<1> QED BY <1>2, <1>3 DEF s, v

\* Units come behind what the stream has.
LEMMA SendFacts ==
    ASSUME NEW c \in ConnSet, BufOK(c), NEW u \in Seq(UnitSet)
    PROVE  \E w, b \in Seq(UnitSet) :
              /\ Send(c, u) = [c EXCEPT !.wire = w, !.sendbuf = b]
              /\ w \o b = (c.wire \o c.sendbuf) \o u
              /\ Len(w) <= WireLen
              /\ Len(u) <= Room(c) + (WireLen - Len(c.wire)) => Len(b) <= SendbufLen
<1> DEFINE s == c.sendbuf
           v == c.wire
           z == s \o u
           d == [c EXCEPT !.sendbuf = z]
<1>1. s \in Seq(UnitSet) /\ v \in Seq(UnitSet)
  BY DEF ConnSet
<1>5. Send(c, u) = send_data(d)
  BY DEF Send
<1>8. Room(c) = SendbufLen - Len(s) /\ Len(v) <= WireLen /\ Len(s) <= SendbufLen
  BY DEF Room, BufOK
<1>9. z \in Seq(UnitSet) /\ Len(z) = Len(s) + Len(u)
  <2> HIDE DEF s
  <2> QED BY <1>1, ConcatProperties
<1>3. d \in ConnSet /\ d.wire = v /\ d.sendbuf = z
  <2> HIDE DEF z
  <2> QED BY <1>9 DEF ConnSet
<1>6. \A w, b : [d EXCEPT !.wire = w, !.sendbuf = b] = [c EXCEPT !.wire = w, !.sendbuf = b]
  <2> HIDE DEF z
  <2> QED BY DEF ConnSet
<1> HIDE DEF d
<1>4. PICK w, b \in Seq(UnitSet) :
          /\ send_data(d) = [d EXCEPT !.wire = w, !.sendbuf = b]
          /\ w \o b = d.wire \o d.sendbuf
          /\ Len(w) <= WireLen
          /\ Len(b) <= (Len(d.sendbuf) + Len(d.wire)) - WireLen \/ Len(b) = 0
  BY <1>3, <1>8, SendDataFacts
<1>7. w \o b = (v \o s) \o u
  <2>1. w \o b = v \o (s \o u)
    BY <1>3, <1>4
  <2> HIDE DEF v, s, z
  <2>2. v \o (s \o u) = (v \o s) \o u
    BY <1>1, Joined, Zenon
  <2> QED BY <2>1, <2>2
<1>10. Len(u) <= Room(c) + (WireLen - Len(v)) => Len(b) <= SendbufLen
  <2> DEFINE x == Len(b)
             ls == Len(s)
             lv == Len(v)
             lu == Len(u)
  <2>1. x \in Nat /\ ls \in Nat /\ lv \in Nat /\ lu \in Nat
    BY <1>1
  <2>2. SendbufLen \in Nat /\ WireLen \in Nat
    BY Constants
  <2>3. x <= ((ls + lu) + lv) - WireLen \/ x = 0
    BY <1>3, <1>4, <1>9
  <2> HIDE DEF x, ls, lv, lu
  <2>4. lu <= (SendbufLen - ls) + (WireLen - lv) => x <= SendbufLen
    BY <2>1, <2>2, <2>3
  <2> QED BY <2>4, <1>8 DEF x, ls, lv, lu
<1>11. Send(c, u) = [c EXCEPT !.wire = w, !.sendbuf = b]
  BY <1>4, <1>5, <1>6
<1> HIDE DEF v, s, z
<1> QED BY <1>4, <1>7, <1>10, <1>11 DEF s, v

(***************************************************************************)
(* A run of bundle data.                                                   *)
(***************************************************************************)
LEMMA DataMoves ==
    ASSUME NEW k, k.h \in Seq(Bundles),
           NEW x \in Position, x.up, x.seg = "no", x.t > 0, x.j < Len(k.h),
           NEW b, b = k.h[x.j + 1], x.n + 1 <= Length[b],
           NEW y, y = IF x.n + 1 = Length[b]
                      THEN [x EXCEPT !.j = x.j + 1, !.n = 0, !.t = x.t - 1]
                      ELSE [x EXCEPT !.n = x.n + 1, !.t = x.t - 1]
    PROVE  y \in Position /\ Move(k, x, Data(b, x.n + 1), y)
<1>1. x.t - 1 \in Nat /\ x.j + 1 \in Nat /\ x.n + 1 \in Nat
  BY DEF Position
<1>2. y \in Position
  BY <1>1 DEF Position
<1>3. DataMove(k, x, Data(b, x.n + 1), y)
  BY DEF DataMove
<1> QED BY <1>2, <1>3 DEF Move

\* A position is what its parts are.
LEMMA SamePosition ==
    ASSUME NEW x \in Position, NEW y \in Position, x.up = y.up, x.j = y.j, x.n = y.n, x.t = y.t,
           x.seg = y.seg, x.aj = y.aj, x.an = y.an
    PROVE  x = y
BY DEF Position

\* The next n units of bundle b.
NextUnits(k, x, s, y, b, n) ==
    /\ k.h \in Seq(Bundles) /\ x \in Position /\ x.up /\ x.seg = "no" /\ x.j < Len(k.h)
    /\ b = k.h[x.j + 1] /\ n \in 1 .. x.t /\ x.n + n <= Length[b]
    /\ s \in Seq(UnitSet) /\ Len(s) = n /\ \A i \in 1 .. n : s[i] = Data(b, x.n + i)
    /\ y \in Position /\ y.up = x.up /\ y.seg = "no" /\ y.t = x.t - n
    /\ y.aj = x.aj /\ y.an = x.an
    /\ x.n + n = Length[b] => y.j = x.j + 1 /\ y.n = 0
    /\ x.n + n # Length[b] => y.j = x.j /\ y.n = x.n + n

\* The next units of a bundle lead over them.
LEMMA DataRun ==
    ASSUME NEW k, NEW x, NEW s, NEW y, NEW b, NEW n, NextUnits(k, x, s, y, b, n)
    PROVE  Run(k, x, s, y)
<1> USE DEF NextUnits
<1> DEFINE L == Length[b]
           F(m) == IF x.n + m = L
                   THEN [x EXCEPT !.j = x.j + 1, !.n = 0, !.t = x.t - m]
                   ELSE [x EXCEPT !.n = x.n + m, !.t = x.t - m]
           p == [i \in 1 .. n + 1 |-> F(i - 1)]
<1>1. /\ x.j \in Nat /\ x.n \in Nat /\ x.t \in Nat /\ n \in Nat /\ n > 0 /\ n <= x.t
  BY DEF Position
<1>2. b \in Bundles /\ L \in Nat
  <2>1. x.j + 1 \in 1 .. Len(k.h)
    BY <1>1
  <2> QED BY <2>1, Constants
<1>3. s \in Seq(UnitSet) /\ Len(s) = n /\ \A i \in 1 .. n : s[i] = Data(b, x.n + i)
  OBVIOUS
<1>4. F(0) = x
  <2>1. x.n + 0 # L /\ x.n + 0 = x.n /\ x.t - 0 = x.t
    BY <1>1, <1>2
  <2> QED BY <2>1 DEF Position
<1>6. \A m \in 0 .. n : F(m) \in Position
  <2> SUFFICES ASSUME NEW m \in 0 .. n
               PROVE  F(m) \in Position
    OBVIOUS
  <2>1. x.n + m \in Nat /\ x.t - m \in Nat /\ x.j + 1 \in Nat
    <3> HIDE DEF NextUnits
    <3> QED BY <1>1
  <2> QED BY <2>1 DEF Position
<1>5. F(n) = y
  <2> DEFINE z == F(n)
             T == x.t - n
             N == x.n + n
             J == x.j + 1
  <2>1. z \in Position
    <3>1. n \in 0 .. n
      BY <1>1
    <3> HIDE DEF F
    <3> QED BY <1>6, <3>1
  <2>2. T \in Nat /\ N \in Nat /\ J \in Nat
    BY <1>1
  <2>3. z = IF N = L THEN [x EXCEPT !.j = J, !.n = 0, !.t = T] ELSE [x EXCEPT !.n = N, !.t = T]
    OBVIOUS
  <2>4. /\ y.t = T /\ (N = L => y.j = J /\ y.n = 0) /\ (N # L => y.j = x.j /\ y.n = N)
    OBVIOUS
  <2> HIDE DEF z, T, N, J, L
  <2>5. /\ z.up = x.up /\ z.seg = x.seg /\ z.t = T /\ z.aj = x.aj /\ z.an = x.an
        /\ N = L => z.j = J /\ z.n = 0
        /\ N # L => z.j = x.j /\ z.n = N
    BY <2>2, <2>3 DEF Position
  <2>6. z = y
    BY <2>1, <2>4, <2>5, SamePosition
  <2> QED BY <2>6 DEF z
<1>7. ASSUME NEW i \in 1 .. n
      PROVE  Move(k, F(i - 1), s[i], F(i))
  <2> DEFINE m == i - 1
             z == [x EXCEPT !.n = x.n + m, !.t = x.t - m]
  <2>1. /\ m \in Nat /\ m < n /\ x.n + m < L /\ x.n + m # L /\ x.n + m \in Nat
        /\ x.t - m \in Nat /\ x.t - m > 0 /\ (x.n + m) + 1 = x.n + i
        /\ (x.t - m) - 1 = x.t - i /\ x.n + i <= L
    <3> DEFINE a == x.n
               t == x.t
    <3>1. a \in Nat /\ t \in Nat /\ L \in Nat /\ i \in Int /\ n \in Int
          /\ 1 <= i /\ i <= n /\ n <= t /\ a + n <= L
      BY <1>1, <1>2
    <3> HIDE DEF a, t, L
    <3>2. /\ m \in Nat /\ m < n /\ a + m < L /\ a + m # L /\ a + m \in Nat
          /\ t - m \in Nat /\ t - m > 0 /\ (a + m) + 1 = a + i
          /\ (t - m) - 1 = t - i /\ a + i <= L
      BY <3>1
    <3> QED BY <3>2 DEF a, t
  <2>2. F(m) = z
    BY <2>1
  <2> HIDE DEF m
  <2>3. /\ z \in Position /\ z.up /\ z.seg = "no" /\ z.t = x.t - m /\ z.j = x.j /\ z.n = x.n + m
    BY <2>1 DEF Position
  <2>4. F(i) = IF z.n + 1 = L THEN [z EXCEPT !.j = z.j + 1, !.n = 0, !.t = z.t - 1]
                              ELSE [z EXCEPT !.n = z.n + 1, !.t = z.t - 1]
    <3>1. z.n + 1 = x.n + i /\ z.t - 1 = x.t - i
      BY <2>1, <2>3
    <3>2. [z EXCEPT !.j = z.j + 1, !.n = 0, !.t = x.t - i]
          = [x EXCEPT !.j = x.j + 1, !.n = 0, !.t = x.t - i]
      BY <2>3 DEF Position
    <3>3. [z EXCEPT !.n = x.n + i, !.t = x.t - i] = [x EXCEPT !.n = x.n + i, !.t = x.t - i]
      BY <2>3 DEF Position
    <3> HIDE DEF z
    <3> QED BY <3>1, <3>2, <3>3
  <2>5. s[i] = Data(b, z.n + 1)
    BY <1>3, <2>1, <2>3
  <2> HIDE DEF z, F
  <2>6. Move(k, z, Data(b, z.n + 1), F(i))
    <3>1. b = k.h[z.j + 1] /\ z.j < Len(k.h) /\ z.t > 0 /\ z.n + 1 <= Length[b]
      BY <2>1, <2>3
    <3> QED BY <2>3, <2>4, <3>1, DataMoves
  <2> QED BY <2>2, <2>5, <2>6 DEF m
<1>8. p \in [1 .. Len(s) + 1 -> Position] /\ p[1] = x /\ p[Len(s) + 1] = y
  <2>1. \A i \in 1 .. n + 1 : i - 1 \in 0 .. n
    BY <1>1
  <2>2. 1 \in 1 .. n + 1 /\ n + 1 \in 1 .. n + 1 /\ 1 - 1 = 0 /\ (n + 1) - 1 = n
    BY <1>1
  <2> HIDE DEF F
  <2> QED BY <1>3, <1>4, <1>5, <1>6, <2>1, <2>2
<1>9. \A i \in 1 .. Len(s) : Move(k, p[i], s[i], p[i + 1])
  <2>1. \A i \in 1 .. n : i \in 1 .. n + 1 /\ i + 1 \in 1 .. n + 1 /\ (i + 1) - 1 = i
    BY <1>1
  <2> HIDE DEF F
  <2> QED BY <1>3, <1>7, <2>1
<1> HIDE DEF p, F
<1> QED BY <1>8, <1>9 DEF Run

(***************************************************************************)
(* The sender.                                                             *)
(***************************************************************************)
SendSet == [inflight : Seq(FlightSet), current : BOOLEAN, todo : Nat]

\* The types of the sending side.
LEMMA FlightTypes ==
    ASSUME NEW s \in SendSet
    PROVE  /\ s.inflight \in Seq(FlightSet) /\ s.current \in BOOLEAN /\ s.todo \in Nat
           /\ Len(s.inflight) \in Nat /\ DOMAIN s.inflight = 1 .. Len(s.inflight)
           /\ s.inflight # <<>> <=> Len(s.inflight) > 0
           /\ \A i \in 1 .. Len(s.inflight) :
                 LET f == s.inflight[i]
                 IN  /\ f \in FlightSet /\ f.b \in Bundles /\ f.sent \in Nat
                     /\ f.acked \in Nat /\ f.posted \in BOOLEAN
                     /\ Length[f.b] \in Nat /\ Length[f.b] > 0
<1> DEFINE q == s.inflight
<1>1. q \in Seq(FlightSet) /\ s.current \in BOOLEAN /\ s.todo \in Nat
  BY DEF SendSet
<1> HIDE DEF q
<1>2. /\ Len(q) \in Nat /\ DOMAIN q = 1 .. Len(q) /\ (q # <<>> <=> Len(q) > 0)
      /\ \A i \in 1 .. Len(q) : q[i] \in FlightSet
  BY <1>1
<1>3. \A i \in 1 .. Len(q) :
         LET f == q[i]
         IN  /\ f \in FlightSet /\ f.b \in Bundles /\ f.sent \in Nat
             /\ f.acked \in Nat /\ f.posted \in BOOLEAN
             /\ Length[f.b] \in Nat /\ Length[f.b] > 0
  BY <1>2, Constants DEF FlightSet
<1> QED BY <1>1, <1>2, <1>3 DEF q

\* The bundle being sent.
LEMMA NewestFacts ==
    ASSUME NEW s \in SendSet, NEW acks \in BOOLEAN, NEW h \in Seq(Bundles),
           SendOK(s, acks, h), s.current
    PROVE  /\ Len(s.inflight) \in 1 .. Len(s.inflight) /\ Newest(s) = s.inflight[Len(s.inflight)]
           /\ Newest(s) \in FlightSet /\ Newest(s).b \in Bundles
           /\ Newest(s).sent \in Nat /\ Length[Newest(s).b] \in Nat
           /\ Length[Newest(s).b] > 0
           /\ Newest(s).sent <= Length[Newest(s).b]
           /\ s.todo # 0 => Newest(s).sent + s.todo <= Length[Newest(s).b]
<1>1. s.inflight # <<>>
  BY DEF SendOK
<1>2. Len(s.inflight) \in 1 .. Len(s.inflight)
  BY <1>1, FlightTypes
<1>3. FlightOK(s, acks, h, Len(s.inflight))
  BY <1>2, FlightTypes DEF SendOK
<1>4. Newest(s).sent <= Length[Newest(s).b]
  BY <1>3 DEF FlightOK, Newest
<1>5. s.todo # 0 => Newest(s).sent + s.todo <= Length[Newest(s).b]
  BY DEF SendOK
<1> QED BY <1>2, <1>4, <1>5, FlightTypes DEF Newest

\* The counters of the sending side, and what they say of the newest bundle.
LEMMA SendNumbers ==
    ASSUME NEW s \in SendSet, NEW acks \in BOOLEAN, NEW h \in Seq(Bundles),
           SendOK(s, acks, h)
    PROVE  /\ Popped(s, h) \in Nat /\ AckedJ(s, h) \in Nat /\ AckedN(s) \in Nat
           /\ Popped(s, h) + Len(s.inflight) = Len(h) + (IF Unbegun(s) THEN 1 ELSE 0)
           /\ SentJ(s, h) \in Nat /\ SentN(s) \in Nat
           /\ Unbegun(s) => ~Half(s)
           /\ Half(s) => /\ Len(h) > 0 /\ Newest(s).b = h[Len(h)] /\ Newest(s).b \in Bundles
                         /\ SentJ(s, h) = Len(h) - 1 /\ SentN(s) = Newest(s).sent
           /\ ~Half(s) => SentJ(s, h) = Len(h) /\ SentN(s) = 0
<1> DEFINE m == Len(s.inflight)
           lh == Len(h)
           un == IF Unbegun(s) THEN 1 ELSE 0
<1>1. m \in Nat /\ lh \in Nat /\ un \in {0, 1}
  BY FlightTypes
<1>2. Popped(s, h) = (lh + un) - m /\ Popped(s, h) >= 0
  BY DEF Popped, SendOK
<1>3. Popped(s, h) \in Nat /\ Popped(s, h) + m = lh + un
  <2> HIDE DEF m, lh, un
  <2> QED BY <1>1, <1>2
<1>4. AckedJ(s, h) \in Nat
  BY <1>3 DEF AckedJ
<1>5. AckedN(s) \in Nat
  <2>1. CASE s.inflight = <<>>
    BY <2>1 DEF AckedN
  <2>2. CASE s.inflight # <<>>
    <3>1. s.inflight[1].acked \in Nat
      BY <2>2, FlightTypes
    <3> QED BY <3>1 DEF AckedN
  <2> QED BY <2>1, <2>2
<1>6. Unbegun(s) => ~Half(s)
  <2>1. CASE s.current
    <3>1. Newest(s).sent \in Nat /\ s.todo \in Nat
      BY <2>1, NewestFacts, FlightTypes
    <3> QED BY <3>1 DEF Unbegun, Half
  <2> QED BY <2>1 DEF Unbegun
<1>7. ASSUME Half(s)
      PROVE  /\ lh > 0 /\ Newest(s).b = h[lh] /\ Newest(s).b \in Bundles
             /\ SentJ(s, h) = lh - 1 /\ SentN(s) = Newest(s).sent
  <2>1. s.current /\ un = 0
    BY <1>6, <1>7 DEF Half
  <2>2. m \in 1 .. m /\ Newest(s) = s.inflight[m] /\ Newest(s).b \in Bundles
    BY <2>1, NewestFacts
  <2>3. Popped(s, h) + m = lh /\ lh > 0 /\ lh <= lh
    <3> HIDE DEF un, lh, m
    <3> QED BY <1>1, <1>3, <2>1, <2>2
  <2>4. FlightOK(s, acks, h, m)
    BY <2>2, FlightTypes DEF SendOK
  <2>5. Newest(s).b = h[lh]
    <3>1. Popped(s, h) + m = Len(h) /\ Popped(s, h) + m <= Len(h)
      BY <1>1, <2>3
    <3> HIDE DEF m
    <3> QED BY <2>2, <2>4, <3>1 DEF FlightOK
  <2>6. SentJ(s, h) = lh - 1 /\ SentN(s) = Newest(s).sent
    BY <1>7 DEF SentJ, SentN
  <2> QED BY <2>2, <2>3, <2>5, <2>6
<1>8. ~Half(s) => SentJ(s, h) = lh /\ SentN(s) = 0
  BY DEF SentJ, SentN
<1>9. SentJ(s, h) \in Nat /\ SentN(s) \in Nat
  <2>1. CASE Half(s)
    <3>1. Newest(s).sent \in Nat
      BY <2>1, NewestFacts DEF Half
    <3> HIDE DEF lh
    <3> QED BY <1>1, <1>7, <2>1, <3>1
  <2>2. CASE ~Half(s)
    <3> HIDE DEF lh
    <3> QED BY <1>1, <1>8, <2>2
  <2> QED BY <2>1, <2>2
<1> QED BY <1>3, <1>4, <1>5, <1>6, <1>7, <1>8, <1>9

\* A position that differs from x in what is sent.
Onward(x, y, s2, h2) ==
    /\ y \in Position /\ y.up = x.up /\ y.seg = "no" /\ y.aj = x.aj /\ y.an = x.an
    /\ y.j = SentJ(s2, h2) /\ y.n = SentN(s2) /\ y.t = s2.todo

\* Part of the segment under way is sent.
SendsData(s, s2, n, V) ==
    /\ n \in 1 .. s.todo
    /\ s2 \in SendSet /\ s2.current = s.current /\ s2.todo = s.todo - n
    /\ Len(s2.inflight) = Len(s.inflight)
    /\ \A i \in 1 .. Len(s.inflight) :
           i # Len(s.inflight) => s2.inflight[i] = s.inflight[i]
    /\ Newest(s2).b = Newest(s).b /\ Newest(s2).sent = Newest(s).sent + n
    /\ Newest(s2).acked = Newest(s).acked /\ Newest(s2).posted = Newest(s).posted
    /\ V \in Seq(UnitSet) /\ Len(V) = n
    /\ \A i \in 1 .. n : V[i] = Data(Newest(s).b, Newest(s).sent + i)

\* send_data_todo on the sending side: the units it writes lead to its new
\* place.
LEMMA DataSent ==
    ASSUME NEW s \in SendSet, NEW acks \in BOOLEAN, NEW h \in Seq(Bundles),
           SendOK(s, acks, h), NEW n, NEW s2, NEW V, SendsData(s, s2, n, V),
           NEW k, k.h = h, NEW x \in Position, x.up, x.seg = "no",
           x.j = SentJ(s, h), x.n = SentN(s), x.t = s.todo
    PROVE  /\ SendOK(s2, acks, h)
           /\ AckedJ(s2, h) = AckedJ(s, h) /\ AckedN(s2) = AckedN(s)
           /\ Below(SentJ(s, h), SentN(s), SentJ(s2, h), SentN(s2))
           /\ \A y : Onward(x, y, s2, h) => Run(k, x, V, y)
<1> USE DEF SendsData
<1> DEFINE m == Len(s.inflight)
           f == Newest(s)
           f2 == Newest(s2)
           L == Length[f.b]
           q == s2.inflight
<1>1. s.todo \in Nat /\ s.todo # 0 /\ n \in Nat /\ n > 0 /\ n <= s.todo /\ s.current
  BY FlightTypes DEF SendOK
<1>2. /\ m \in 1 .. m /\ f = s.inflight[m] /\ f \in FlightSet /\ f.b \in Bundles
      /\ f.sent \in Nat /\ L \in Nat /\ L > 0 /\ f.sent + s.todo <= L
  BY <1>1, NewestFacts
<1>3. f2 \in FlightSet /\ f2.sent = f.sent + n /\ f2.b = f.b /\ f2.acked = f.acked /\ f2.posted = f.posted
  <2>1. s2.inflight[m] \in FlightSet
    BY <1>2, FlightTypes
  <2> QED BY <2>1 DEF Newest
<1>4. s2.inflight = q /\ s2.current = s.current /\ s2.todo = s.todo - n
  OBVIOUS
<1>5. /\ s.inflight \in Seq(FlightSet) /\ m \in Nat /\ m >= 1
      /\ q \in Seq(FlightSet) /\ Len(q) = m
      /\ \A j \in 1 .. m : q[j] = IF j = m THEN f2 ELSE s.inflight[j]
  <2>1. s.inflight \in Seq(FlightSet) /\ m \in Nat
    BY FlightTypes
  <2>2. q \in Seq(FlightSet) /\ Len(q) = m
    BY FlightTypes
  <2>3. m >= 1
    <3> HIDE DEF m
    <3> QED BY <1>2, <2>1
  <2>4. \A j \in 1 .. m : q[j] = IF j = m THEN f2 ELSE s.inflight[j]
    BY DEF Newest
  <2> QED BY <2>1, <2>2, <2>3, <2>4
<1> HIDE DEF f, f2, L, q, m
<1>6. s.todo - n \in Nat /\ s.todo - n <= s.todo
  BY <1>1
<1>8. Newest(s2) = f2 /\ Len(s2.inflight) = m /\ s2.inflight # <<>>
  BY <1>2, <1>4, <1>5, FlightTypes DEF f2
<1>9. f = Newest(s) /\ L = Length[Newest(s).b] /\ m = Len(s.inflight)
  BY DEF f, L, m
<1>10. Half(s) /\ ~Unbegun(s) /\ ~Unbegun(s2)
  <2>1. f.sent < L /\ f2.sent # 0
    <3> DEFINE a == f.sent
               t == s.todo
               a2 == f2.sent
    <3>1. a \in Nat /\ t \in Nat /\ t # 0 /\ a + t <= L /\ L \in Nat /\ a2 = a + n /\ n \in Nat /\ n > 0
      BY <1>1, <1>2, <1>3
    <3> HIDE DEF a, t, a2
    <3>2. a < L /\ a2 # 0
      BY <3>1
    <3> QED BY <3>2 DEF a, a2
  <2> QED BY <1>1, <1>8, <1>9, <2>1 DEF Half, Unbegun
<1>11. Popped(s2, h) = Popped(s, h)
  BY <1>8, <1>9, <1>10 DEF Popped
<1>12. \A j \in 1 .. m : /\ q[j].b = s.inflight[j].b /\ q[j].acked = s.inflight[j].acked
                         /\ q[j].posted = s.inflight[j].posted
  BY <1>2, <1>3, <1>5
<1>13. AllAcked(s2) <=> AllAcked(s)
  <2>1. s.inflight # <<>> /\ 1 \in 1 .. m
    BY <1>5, <1>9, FlightTypes
  <2> QED BY <1>4, <1>8, <1>12, <2>1 DEF AllAcked
<1>14. AckedJ(s2, h) = AckedJ(s, h)
  BY <1>11, <1>13 DEF AckedJ
<1>15. AckedN(s2) = AckedN(s)
  <2>1. s.inflight # <<>> /\ 1 \in 1 .. m
    BY <1>5, <1>9, FlightTypes
  <2> QED BY <1>4, <1>8, <1>12, <1>13, <2>1 DEF AckedN
<1>16. f2.sent <= L /\ f2.sent + s2.todo <= L /\ f.sent <= f2.sent /\ f2.sent \in Nat
       /\ f2.sent > 0
  <2> DEFINE a == f.sent
             t == s.todo
             a2 == f2.sent
             t2 == s2.todo
  <2>1. a \in Nat /\ t \in Nat /\ a + t <= L /\ L \in Nat /\ a2 = a + n /\ n \in Nat /\ n <= t
        /\ t2 = t - n /\ n > 0
    BY <1>1, <1>2, <1>3, <1>4
  <2> HIDE DEF a, t, a2, t2
  <2>2. a2 <= L /\ a2 + t2 <= L /\ a <= a2 /\ a2 \in Nat /\ a2 > 0
    BY <2>1
  <2> QED BY <2>2 DEF a, a2, t2
<1>17. ASSUME NEW i \in DOMAIN s2.inflight
       PROVE  FlightOK(s2, acks, h, i)
  <2>1. i \in 1 .. m
    BY <1>4, <1>5
  <2>2. FlightOK(s, acks, h, i)
    BY <1>9, <2>1, FlightTypes DEF SendOK
  <2>3. CASE i = m
    <3>1. s2.inflight[i] = f2 /\ s.inflight[i] = f
      BY <1>2, <1>4, <1>5, <2>3
    <3>2. ~(i < m) /\ s2.current
      BY <1>1, <1>4, <1>5, <2>3
    <3>3. f.acked <= f2.sent
      <4>1. f.acked <= f.sent /\ f.acked \in Nat
        BY <1>2, <2>2, <3>1 DEF FlightOK, FlightSet
      <4> QED BY <1>2, <1>16, <4>1
    <3>4. /\ Popped(s, h) + i <= Len(h) => f.b = h[Popped(s, h) + i]
          /\ i > 1 \/ ~acks => f.acked = 0
          /\ f.posted <=> f.acked = L
          /\ f.posted => s.current /\ m = 1
      BY <1>9, <2>2, <3>1 DEF FlightOK
    <3> QED BY <1>3, <1>4, <1>8, <1>9, <1>11, <1>16, <3>1, <3>2, <3>3, <3>4 DEF FlightOK
  <2>4. CASE i # m
    <3>1. s2.inflight[i] = s.inflight[i]
      BY <1>4, <1>5, <2>1, <2>4
    <3> QED BY <1>4, <1>8, <1>9, <1>11, <2>2, <3>1 DEF FlightOK
  <2> QED BY <2>3, <2>4
<1>18. SendOK(s2, acks, h)
  <2>1. Popped(s2, h) >= 0
    BY <1>11 DEF SendOK
  <2>2. s2.current => s2.inflight # <<>>
    BY <1>8
  <2>3. s2.todo # 0 => s2.current /\ Newest(s2).sent + s2.todo <= Length[Newest(s2).b]
    BY <1>1, <1>3, <1>4, <1>8, <1>9, <1>16
  <2>4. s2.todo <= SegmentLength
    <3>1. s.todo <= SegmentLength
      BY DEF SendOK
    <3> QED BY <1>1, <1>4, <1>6, <3>1, Constants
  <2>5. ~acks /\ s2.inflight # <<>> => s2.current /\ Len(s2.inflight) = 1
    <3>1. ~acks /\ s.inflight # <<>> => s.current /\ m = 1
      BY <1>9 DEF SendOK
    <3>2. s.inflight # <<>>
      BY <1>5, <1>9, FlightTypes
    <3> QED BY <1>4, <1>8, <3>1, <3>2
  <2> QED BY <1>17, <2>1, <2>2, <2>3, <2>4, <2>5 DEF SendOK
<1>19. /\ Len(h) > 0 /\ f.b = h[Len(h)] /\ SentJ(s, h) = Len(h) - 1 /\ SentN(s) = f.sent
       /\ Len(h) \in Nat
  BY <1>9, <1>10, SendNumbers
<1>20. IF f.sent + n = L THEN SentJ(s2, h) = Len(h) /\ SentN(s2) = 0
                         ELSE SentJ(s2, h) = Len(h) - 1 /\ SentN(s2) = f.sent + n
  <2>1. s2.current /\ Newest(s2).sent = f.sent + n /\ Newest(s2).b = f.b /\ f.sent + n > 0
        /\ f.sent + n <= L /\ f.sent + n \in Nat
    BY <1>1, <1>3, <1>4, <1>8, <1>16
  <2>2. CASE f.sent + n = L
    <3>1. ~Half(s2)
      BY <1>2, <1>9, <2>1, <2>2 DEF Half
    <3> QED BY <2>2, <3>1 DEF SentJ, SentN
  <2>3. CASE f.sent + n # L
    <3>1. Half(s2)
      <4>1. f.sent + n < L
        BY <1>2, <2>1, <2>3
      <4> QED BY <1>9, <2>1, <4>1 DEF Half
    <3> QED BY <2>1, <2>3, <3>1 DEF SentJ, SentN
  <2> QED BY <2>2, <2>3
<1>21. Below(SentJ(s, h), SentN(s), SentJ(s2, h), SentN(s2))
  BY <1>1, <1>2, <1>19, <1>20 DEF Below
<1>22. ASSUME NEW y, Onward(x, y, s2, h)
       PROVE  Run(k, x, V, y)
  <2>1. /\ x.j < Len(k.h) /\ f.b = k.h[x.j + 1] /\ x.n = f.sent /\ n \in 1 .. x.t
        /\ x.n + n <= Length[f.b] /\ x.j + 1 = Len(h)
    BY <1>1, <1>3, <1>9, <1>16, <1>19
  <2>2. /\ y \in Position /\ y.up = x.up /\ y.seg = "no" /\ y.aj = x.aj /\ y.an = x.an
        /\ y.j = SentJ(s2, h) /\ y.n = SentN(s2) /\ y.t = x.t - n
    BY <1>4, <1>22 DEF Onward
  <2>3. /\ x.n + n = Length[f.b] => y.j = x.j + 1 /\ y.n = 0
        /\ x.n + n # Length[f.b] => y.j = x.j /\ y.n = x.n + n
    BY <1>9, <1>19, <1>20, <2>1, <2>2
  <2>4. k.h \in Seq(Bundles) /\ \A i \in 1 .. n : V[i] = Data(f.b, x.n + i)
    BY <1>9, <2>1
  <2> DEFINE b == f.b
  <2>5. /\ b = k.h[x.j + 1] /\ x.n + n <= Length[b] /\ \A i \in 1 .. n : V[i] = Data(b, x.n + i)
        /\ x.n + n = Length[b] => y.j = x.j + 1 /\ y.n = 0
        /\ x.n + n # Length[b] => y.j = x.j /\ y.n = x.n + n
    BY <2>1, <2>3, <2>4
  <2> HIDE DEF b
  <2>6. k.h \in Seq(Bundles) /\ x.j < Len(k.h) /\ n \in 1 .. x.t
    BY <2>1, <2>4
  <2>7. NextUnits(k, x, V, y, b, n)
    BY <2>2, <2>5, <2>6 DEF NextUnits
  <2> QED BY <2>7, DataRun
<1> QED BY <1>9, <1>14, <1>15, <1>18, <1>21, <1>22

\* The two units of a segment's header.
LEMMA TwoUnits ==
    ASSUME NEW u \in UnitSet, NEW v \in UnitSet
    PROVE  /\ <<u>> \in Seq(UnitSet) /\ <<u, v>> \in Seq(UnitSet)
           /\ <<u>> \o <<v>> = <<u, v>>
<1>1. <<u>> \in Seq(UnitSet) /\ <<v>> \in Seq(UnitSet) /\ <<u, v>> \in Seq(UnitSet)
  OBVIOUS
<1>2. <<u>> \o <<v>> \in Seq(UnitSet) /\ Len(<<u>> \o <<v>>) = 2 /\ Len(<<u, v>>) = 2
  BY <1>1
<1>3. (<<u>> \o <<v>>)[1] = u /\ (<<u>> \o <<v>>)[2] = v
  BY <1>1
<1>4. \A i \in 1 .. 2 : (<<u>> \o <<v>>)[i] = <<u, v>>[i]
  BY <1>3
<1> QED BY <1>1, <1>2, <1>4, SeqEqual

\* A segment header is a unit.
LEMMA SegUnits == \A x, y \in BOOLEAN : Seg(x, y) \in UnitSet
BY DEF UnitSet

\* A segment header and its length lead to the segment's data.
LEMMA HeaderRun ==
    ASSUME NEW k, k.h \in Seq(Bundles),
           NEW x \in Position, x.up, Resting(x), x.j < Len(k.h),
           NEW L, L = Length[k.h[x.j + 1]], NEW n \in 1 .. SegmentLength,
           x.n + n <= L, NEW u \in UnitSet, u.unit = "seg",
           u.start <=> x.n = 0, u.end <=> x.n + n = L
    PROVE  /\ <<u, SegLen(n)>> \in Seq(UnitSet)
           /\ Run(k, x, <<u, SegLen(n)>>, [x EXCEPT !.t = n])
<1> DEFINE v == SegLen(n)
           y == [x EXCEPT !.seg = IF u.end THEN "last" ELSE "more"]
           z == [x EXCEPT !.t = n]
<1>0. n \in Nat
  BY Constants
<1>1. v \in UnitSet
  BY <1>0 DEF UnitSet
<1>2. y \in Position /\ z \in Position
  BY <1>0 DEF Position
<1>3. SegMove(k, x, u, y)
  BY DEF SegMove
<1>4. y.up /\ y.t = 0 /\ y.seg # "no" /\ y.j = x.j /\ y.n = x.n
      /\ (y.seg = "last" <=> u.end) /\ z = [y EXCEPT !.seg = "no", !.t = n]
  BY DEF Position, Resting
<1>5. LenMove(k, y, v, z)
  <2>1. v.unit = "len" /\ v.n = n
    BY DEF SegLen
  <2> HIDE DEF y, z, v
  <2> QED BY <1>4, <2>1 DEF LenMove
<1> HIDE DEF y, z, v
<1>6. Run(k, x, <<u>>, y) /\ Run(k, y, <<v>>, z)
  BY <1>2, <1>3, <1>5, RunOne DEF Move
<1>7. <<u>> \in Seq(UnitSet) /\ <<v>> \in Seq(UnitSet) /\ <<u>> \o <<v>> = <<u, v>>
      /\ <<u, v>> \in Seq(UnitSet)
  BY <1>1, TwoUnits
<1>8. Run(k, x, <<u>> \o <<v>>, z)
  BY <1>6, <1>7, RunJoin
<1>9. Run(k, x, <<u, v>>, z)
  BY <1>7, <1>8
<1> QED BY <1>7, <1>9 DEF v, z

\* A segment of the bundle that is being sent begins.
BeginsSegment(s, s2, h, h2, n, u, V, rest) ==
    /\ V = <<u, SegLen(n)>>
    /\ s.current /\ s.todo = 0
    /\ rest = Length[Newest(s).b] - Newest(s).sent /\ rest > 0
    /\ n = (IF rest <= SegmentLength THEN rest ELSE SegmentLength)
    /\ s2 \in SendSet /\ s2.inflight = s.inflight /\ s2.current = s.current /\ s2.todo = n
    /\ Newest(s).sent = 0 => h2 = Append(h, Newest(s).b)
    /\ Newest(s).sent # 0 => h2 = h
    /\ u \in UnitSet /\ u.unit = "seg" /\ (u.start <=> Newest(s).sent = 0)
    /\ u.end <=> SegmentLength >= rest

\* send_next_segment on the sending side, up to the data.
LEMMA SegmentBegun ==
    ASSUME NEW s \in SendSet, NEW acks \in BOOLEAN, NEW h \in Seq(Bundles),
           SendOK(s, acks, h), NEW s2, NEW h2, NEW n, NEW u, NEW V, NEW rest,
           BeginsSegment(s, s2, h, h2, n, u, V, rest),
           NEW k, k.h = h2, NEW x \in Position, x.up, Resting(x),
           x.j = SentJ(s, h), x.n = SentN(s)
    PROVE  /\ n \in Nat /\ n > 0 /\ h2 \in Seq(Bundles) /\ Extends(h, h2)
           /\ SendOK(s2, acks, h2)
           /\ AckedJ(s2, h2) = AckedJ(s, h) /\ AckedN(s2) = AckedN(s)
           /\ SentJ(s2, h2) = SentJ(s, h) /\ SentN(s2) = SentN(s)
           /\ \A y : Onward(x, y, s2, h2) => Run(k, x, V, y)
<1> USE DEF BeginsSegment
<1> DEFINE m == Len(s.inflight)
           f == Newest(s)
           L == Length[f.b]
           lh == Len(h)
<1>1. /\ m \in 1 .. m /\ m \in Nat /\ f = s.inflight[m] /\ f \in FlightSet /\ f.b \in Bundles
      /\ f.sent \in Nat /\ L \in Nat /\ L > 0 /\ lh \in Nat
  BY NewestFacts, FlightTypes
<1>2. rest = L - f.sent /\ rest \in Nat /\ f.sent < L
  <2> DEFINE a == f.sent
  <2>1. rest = L - a /\ a \in Nat /\ L \in Nat /\ rest > 0
    BY <1>1
  <2> HIDE DEF a, L
  <2>2. rest \in Nat /\ a < L
    BY <2>1
  <2> QED BY <2>1, <2>2 DEF a, L
<1>3. n \in 1 .. SegmentLength /\ n \in Nat /\ n > 0 /\ f.sent + n <= L
      /\ (f.sent + n = L <=> SegmentLength >= rest)
  <2> DEFINE a == f.sent
  <2>1. rest = L - a /\ a \in Nat /\ L \in Nat /\ rest > 0 /\ SegmentLength \in Nat
        /\ SegmentLength > 0
        /\ n = IF rest <= SegmentLength THEN rest ELSE SegmentLength
    BY <1>1, <1>2, Constants
  <2> HIDE DEF a, L
  <2>2. n \in 1 .. SegmentLength /\ n \in Nat /\ n > 0 /\ a + n <= L
      /\ (a + n = L <=> SegmentLength >= rest)
    BY <2>1
  <2> QED BY <2>2 DEF a, L
<1>4. s2.inflight = s.inflight /\ s2.current = s.current /\ s2.todo = n
  OBVIOUS
<1>5. /\ h2 \in Seq(Bundles) /\ Extends(h, h2) /\ Len(h2) \in Nat
      /\ f.sent = 0 => Len(h2) = lh + 1 /\ h2[lh + 1] = f.b
      /\ f.sent # 0 => h2 = h
  <2>1. CASE f.sent = 0
    <3>1. h2 = Append(h, f.b)
      BY <2>1
    <3> HIDE DEF f
    <3>2. /\ h2 \in Seq(Bundles) /\ Len(h2) = Len(h) + 1 /\ h2[Len(h) + 1] = f.b
          /\ \A i \in 1 .. Len(h) : h2[i] = h[i]
      BY <1>1, <3>1
    <3> QED BY <2>1, <3>2 DEF Extends
  <2>2. CASE f.sent # 0
    BY <2>2 DEF Extends
  <2> QED BY <2>1, <2>2
<1>6. Newest(s2) = f
  BY <1>4 DEF Newest
<1>7. f = Newest(s) /\ L = Length[f.b] /\ m = Len(s.inflight) /\ lh = Len(h)
  OBVIOUS
<1> HIDE DEF f, m, L, lh
<1>8. ~Unbegun(s2) /\ Half(s2) /\ (f.sent = 0 => Unbegun(s) /\ ~Half(s))
      /\ (f.sent # 0 => ~Unbegun(s) /\ Half(s))
  BY <1>1, <1>2, <1>3, <1>4, <1>6, <1>7 DEF Unbegun, Half
<1>9. Popped(s2, h2) = Popped(s, h)
  <2>1. CASE f.sent = 0
    BY <1>1, <1>4, <1>5, <1>7, <1>8, <2>1 DEF Popped
  <2>2. CASE f.sent # 0
    BY <1>4, <1>5, <1>7, <1>8, <2>2 DEF Popped
  <2> QED BY <2>1, <2>2
<1>10. AckedJ(s2, h2) = AckedJ(s, h) /\ AckedN(s2) = AckedN(s)
  BY <1>4, <1>9 DEF AckedJ, AckedN, AllAcked
<1>11. /\ SentJ(s2, h2) = SentJ(s, h) /\ SentN(s2) = SentN(s) /\ SentN(s) = f.sent
       /\ SentJ(s, h) < Len(h2) /\ f.b = h2[SentJ(s, h) + 1]
  <2>1. CASE f.sent = 0
    <3>1. SentJ(s, h) = lh /\ SentN(s) = 0 /\ SentJ(s2, h2) = Len(h2) - 1 /\ SentN(s2) = 0
      BY <1>6, <1>7, <1>8, <2>1 DEF SentJ, SentN
    <3> QED BY <1>1, <1>5, <2>1, <3>1
  <2>2. CASE f.sent # 0
    <3>1. /\ lh > 0 /\ f.b = h[lh] /\ SentJ(s, h) = lh - 1 /\ SentN(s) = f.sent
      BY <1>7, <1>8, <2>2, SendNumbers
    <3>2. SentJ(s2, h2) = Len(h2) - 1 /\ SentN(s2) = f.sent
      BY <1>6, <1>8 DEF SentJ, SentN
    <3> QED BY <1>1, <1>5, <1>7, <2>2, <3>1, <3>2
  <2> QED BY <2>1, <2>2
<1>12. ASSUME NEW i \in DOMAIN s2.inflight
       PROVE  FlightOK(s2, acks, h2, i)
  <2>1. FlightOK(s, acks, h, i) /\ i \in 1 .. m
    BY <1>4, <1>7, FlightTypes DEF SendOK
  <2>2. Popped(s, h) \in Nat /\ Popped(s, h) + m = lh + (IF Unbegun(s) THEN 1 ELSE 0)
    BY <1>7, SendNumbers
  <2>3. Popped(s, h) + i <= Len(h2) => s.inflight[i].b = h2[Popped(s, h) + i]
    <3>1. CASE f.sent = 0
      <4>1. Popped(s, h) + m = lh + 1
        BY <1>8, <2>2, <3>1
      <4>2. CASE i = m
        BY <1>1, <1>5, <3>1, <4>1, <4>2
      <4>3. CASE i # m
        <5>1. Popped(s, h) + i <= lh /\ Popped(s, h) + i \in 1 .. lh
          BY <1>1, <2>1, <2>2, <4>1, <4>3
        <5> QED BY <1>5, <1>7, <2>1, <5>1 DEF FlightOK, Extends
      <4> QED BY <4>2, <4>3
    <3>2. CASE f.sent # 0
      BY <1>5, <2>1, <3>2 DEF FlightOK
    <3> QED BY <3>1, <3>2
  <2> QED BY <1>4, <1>9, <2>1, <2>3 DEF FlightOK
<1>13. SendOK(s2, acks, h2)
  <2>1. Popped(s2, h2) >= 0 /\ s.inflight # <<>>
    BY <1>9 DEF SendOK
  <2>2. s2.todo # 0 => s2.current /\ Newest(s2).sent + s2.todo <= Length[Newest(s2).b]
    BY <1>3, <1>4, <1>6, <1>7
  <2>3. s2.todo <= SegmentLength
    BY <1>3, <1>4
  <2>4. ~acks /\ s2.inflight # <<>> => s2.current /\ Len(s2.inflight) = 1
    BY <1>4 DEF SendOK
  <2> QED BY <1>4, <1>12, <2>1, <2>2, <2>3, <2>4 DEF SendOK
<1>14. <<u, SegLen(n)>> \in Seq(UnitSet) /\ Run(k, x, <<u, SegLen(n)>>, [x EXCEPT !.t = n])
  <2>1. k.h \in Seq(Bundles) /\ x.j < Len(k.h) /\ L = Length[k.h[x.j + 1]] /\ x.n = f.sent
    BY <1>5, <1>7, <1>11
  <2>2. x.n + n <= L /\ (u.start <=> x.n = 0) /\ (u.end <=> x.n + n = L)
    BY <1>3, <1>7, <2>1
  <2> QED BY <1>3, <2>1, <2>2, HeaderRun
<1>15. ASSUME NEW y, Onward(x, y, s2, h2)
       PROVE  Run(k, x, V, y)
  <2> DEFINE z == [x EXCEPT !.t = n]
  <2>1. /\ y \in Position /\ y.up = x.up /\ y.j = x.j /\ y.n = x.n /\ y.t = n /\ y.seg = x.seg
        /\ y.aj = x.aj /\ y.an = x.an
    BY <1>4, <1>11, <1>15 DEF Onward, Resting
  <2>2. /\ z \in Position /\ z.up = x.up /\ z.j = x.j /\ z.n = x.n /\ z.t = n /\ z.seg = x.seg
        /\ z.aj = x.aj /\ z.an = x.an
    BY <1>3 DEF Position
  <2> HIDE DEF z
  <2>3. y = z
    BY <2>1, <2>2, SamePosition
  <2> QED BY <1>14, <2>3 DEF z
<1> QED BY <1>3, <1>4, <1>5, <1>7, <1>10, <1>11, <1>13, <1>14, <1>15

\* The next bundle becomes the one being sent.
LEMMA BundleStarted ==
    ASSUME NEW s \in SendSet, NEW acks \in BOOLEAN, NEW h \in Seq(Bundles),
           SendOK(s, acks, h), ~s.current, s.todo = 0, NEW b \in Bundles,
           NEW s2 \in SendSet, s2.inflight = Append(s.inflight, InFlightBundle(b)),
           s2.current, s2.todo = s.todo
    PROVE  /\ SendOK(s2, acks, h) /\ Newest(s2) = InFlightBundle(b)
           /\ AckedJ(s2, h) = AckedJ(s, h) /\ AckedN(s2) = AckedN(s)
           /\ SentJ(s2, h) = SentJ(s, h) /\ SentN(s2) = SentN(s)
<1> DEFINE q == s.inflight
           m == Len(q)
           f == InFlightBundle(b)
           q2 == Append(q, f)
<1>1. q \in Seq(FlightSet) /\ m \in Nat /\ DOMAIN q = 1 .. m /\ s.todo \in Nat
  BY FlightTypes
<1>2. /\ f \in FlightSet /\ f.b = b /\ f.sent = 0 /\ f.acked = 0 /\ f.posted = FALSE
      /\ Length[b] \in Nat /\ Length[b] > 0
  BY Constants DEF InFlightBundle, FlightSet
<1>3. s2.inflight = q2 /\ s2.current /\ s2.todo = 0
  OBVIOUS
<1>6. \A i \in 1 .. m : q[i] = s.inflight[i]
  OBVIOUS
<1>7. q = s.inflight /\ m = Len(q)
  OBVIOUS
<1> HIDE DEF f, q
<1>4. /\ q2 \in Seq(FlightSet) /\ Len(q2) = m + 1 /\ q2[m + 1] = f /\ q2 # <<>>
      /\ \A i \in 1 .. m : q2[i] = q[i]
  BY <1>1, <1>2
<1>5. DOMAIN q2 = 1 .. m + 1
  BY <1>1, <1>4
<1> HIDE DEF q2
<1>9. Newest(s2) = f /\ Len(s2.inflight) = m + 1
  BY <1>3, <1>4 DEF Newest
<1> HIDE DEF m
<1>10. Unbegun(s2) /\ ~Unbegun(s) /\ ~Half(s2) /\ ~Half(s)
  BY <1>2, <1>3, <1>9 DEF Unbegun, Half
<1>11. Popped(s2, h) = Popped(s, h) /\ Popped(s, h) + m = Len(h) /\ Len(h) \in Nat
       /\ Popped(s, h) \in Nat
  <2>1. Popped(s, h) = (Len(h) + 0) - m /\ Popped(s2, h) = (Len(h) + 1) - (m + 1)
    BY <1>7, <1>9, <1>10 DEF Popped
  <2>2. Popped(s, h) \in Nat /\ Len(h) \in Nat
    BY SendNumbers
  <2> QED BY <1>1, <2>1, <2>2
<1>12. SentJ(s2, h) = SentJ(s, h) /\ SentN(s2) = SentN(s)
  BY <1>10 DEF SentJ, SentN
<1>13. (AllAcked(s2) <=> AllAcked(s)) /\ AckedN(s2) = AckedN(s)
  <2>1. CASE m = 0
    <3>1. s.inflight = <<>> /\ s2.inflight[1] = f /\ s2.inflight # <<>>
      BY <1>1, <1>3, <1>4, <1>7, <2>1, FlightTypes
    <3> QED BY <1>2, <3>1 DEF AllAcked, AckedN
  <2>2. CASE m # 0
    <3>1. s.inflight # <<>> /\ s2.inflight[1] = s.inflight[1] /\ s2.inflight # <<>>
      BY <1>1, <1>3, <1>4, <1>7, <2>2, FlightTypes
    <3> QED BY <3>1 DEF AllAcked, AckedN
  <2> QED BY <2>1, <2>2
<1>14. AckedJ(s2, h) = AckedJ(s, h)
  BY <1>11, <1>13 DEF AckedJ
<1>15. ~acks => m = 0
  BY <1>1, <1>7, FlightTypes DEF SendOK
<1>16. ASSUME NEW i \in DOMAIN s2.inflight
       PROVE  FlightOK(s2, acks, h, i)
  <2>1. i \in 1 .. m + 1
    BY <1>3, <1>5
  <2>2. CASE i = m + 1
    <3>1. s2.inflight[i] = f
      BY <1>3, <1>4, <2>2
    <3>2. ~(Popped(s2, h) + i <= Len(h)) /\ ~(i < Len(s2.inflight))
      BY <1>1, <1>9, <1>11, <2>2
    <3> QED BY <1>2, <1>3, <3>1, <3>2 DEF FlightOK
  <2>3. CASE i # m + 1
    <3>1. i \in 1 .. m
      BY <1>1, <2>1, <2>3
    <3>2. FlightOK(s, acks, h, i)
      BY <1>1, <1>7, <3>1 DEF SendOK
    <3>3. s2.inflight[i] = s.inflight[i]
      BY <1>3, <1>4, <1>7, <3>1
    <3>4. s.inflight[i].sent = Length[s.inflight[i].b] /\ ~s.inflight[i].posted
      BY <3>2 DEF FlightOK
    <3> QED BY <1>3, <1>11, <3>2, <3>3, <3>4 DEF FlightOK
  <2> QED BY <2>2, <2>3
<1>17. SendOK(s2, acks, h)
  <2>1. Popped(s2, h) >= 0
    BY <1>11
  <2>2. s2.inflight # <<>>
    BY <1>3, <1>4
  <2>3. s2.todo <= SegmentLength
    BY <1>3, Constants
  <2>4. ~acks /\ s2.inflight # <<>> => s2.current /\ Len(s2.inflight) = 1
    BY <1>3, <1>9, <1>15
  <2> QED BY <1>3, <1>16, <2>1, <2>2, <2>3, <2>4 DEF SendOK
<1> QED BY <1>9, <1>12, <1>13, <1>14, <1>17 DEF f

\* All of the bundle being sent is sent, and nothing or all of it is
\* acknowledged.
EndsBundle(s, s2, acks, done) ==
    /\ s.current /\ s.todo = 0 /\ Newest(s).sent = Length[Newest(s).b]
    /\ done <=> ~acks \/ Newest(s).acked >= Length[Newest(s).b]
    /\ s2 \in SendSet /\ ~s2.current /\ s2.todo = 0
    /\ done => s2.inflight = Tail(s.inflight)
    /\ ~done => s2.inflight = s.inflight

\* finish_bundle on the sending side.
LEMMA BundleFinished ==
    ASSUME NEW s \in SendSet, NEW acks \in BOOLEAN, NEW h \in Seq(Bundles),
           SendOK(s, acks, h), NEW s2, NEW done, EndsBundle(s, s2, acks, done)
    PROVE  /\ SendOK(s2, acks, h) /\ (done => Len(s.inflight) = 1)
           /\ acks => AckedJ(s2, h) = AckedJ(s, h) /\ AckedN(s2) = AckedN(s)
           /\ SentJ(s2, h) = SentJ(s, h) /\ SentN(s2) = SentN(s)
           /\ ~Unbegun(s) /\ ~Unbegun(s2) /\ (done => s2.inflight = <<>>)
           /\ Newest(s).b \in Bundles /\ Newest(s).b = h[Len(h)] /\ Len(h) > 0
<1> USE DEF EndsBundle
<1> DEFINE m == Len(s.inflight)
           f == Newest(s)
<1>1. /\ m \in 1 .. m /\ f = s.inflight[m] /\ f \in FlightSet
      /\ f.sent \in Nat /\ Length[f.b] \in Nat /\ Length[f.b] > 0 /\ f.sent = Length[f.b]
  BY NewestFacts
<1>2. /\ s.inflight \in Seq(FlightSet) /\ m \in Nat /\ DOMAIN s.inflight = 1 .. m
      /\ f.acked \in Nat /\ s.inflight # <<>> /\ m >= 1
  <2>1. f.acked \in Nat
    <3> HIDE DEF f
    <3> QED BY <1>1 DEF FlightSet
  <2>2. s.inflight \in Seq(FlightSet) /\ m \in Nat /\ DOMAIN s.inflight = 1 .. m
        /\ (s.inflight # <<>> <=> m > 0)
    BY FlightTypes
  <2>3. m >= 1 /\ m > 0
    <3> HIDE DEF m
    <3> QED BY <1>1, <2>2
  <2> QED BY <2>1, <2>2, <2>3
<1>3. FlightOK(s, acks, h, m)
  BY <1>1, <1>2 DEF SendOK
<1>4. ~s2.current /\ s2.todo = 0
  OBVIOUS
<1>5. ~Unbegun(s) /\ ~Half(s) /\ ~Unbegun(s2) /\ ~Half(s2)
  BY <1>1, <1>4 DEF Unbegun, Half
<1>6. SentJ(s2, h) = SentJ(s, h) /\ SentN(s2) = SentN(s)
  BY <1>5 DEF SentJ, SentN
<1>7. Popped(s, h) + m = Len(h) /\ Popped(s, h) \in Nat /\ Len(h) \in Nat
  BY <1>5, SendNumbers
<1>10. f.b \in Bundles /\ f.b = h[Len(h)] /\ Len(h) > 0
  <2>1. Popped(s, h) + m <= Len(h) /\ Len(h) > 0
    <3> HIDE DEF m
    <3> QED BY <1>2, <1>7
  <2>2. f.b \in Bundles
    BY NewestFacts
  <2> QED BY <1>1, <1>3, <1>7, <2>1, <2>2 DEF FlightOK
<1>8. CASE done
  <2>1. m = 1
    <3>1. CASE ~acks
      BY <1>2, <3>1 DEF SendOK
    <3>2. CASE acks
      <4>1. f.acked = Length[f.b]
        <5>1. f.acked >= Length[f.b] /\ f.acked <= f.sent
          BY <1>1, <1>3, <1>8, <3>2 DEF FlightOK
        <5> QED BY <1>1, <1>2, <5>1
      <4> QED BY <1>1, <1>3, <4>1 DEF FlightOK
    <3> QED BY <3>1, <3>2
  <2>2. s2.inflight = Tail(s.inflight) /\ Tail(s.inflight) \in Seq(FlightSet)
        /\ Len(Tail(s.inflight)) = 0 /\ Tail(s.inflight) = <<>>
    <3> DEFINE q == s.inflight
    <3>1. q \in Seq(FlightSet) /\ Len(q) = 1 /\ q # <<>> /\ s2.inflight = Tail(q)
      BY <1>2, <1>8, <2>1
    <3> HIDE DEF q
    <3>2. Tail(q) \in Seq(FlightSet) /\ Len(Tail(q)) = 0 /\ Tail(q) = <<>>
      BY <3>1
    <3> QED BY <3>1, <3>2 DEF q
  <2>3. s2.inflight = <<>> /\ DOMAIN s2.inflight = {} /\ Len(s2.inflight) = 0
    <3>1. s2.inflight = <<>>
      BY <2>2
    <3>2. DOMAIN <<>> = {} /\ Len(<<>>) = 0
      OBVIOUS
    <3> QED BY <3>1, <3>2, Zenon
  <2>5. Popped(s2, h) = Popped(s, h) + 1 /\ Popped(s2, h) >= 0
    <3>1. Popped(s2, h) = (Len(h) + 0) - 0
      BY <1>5, <2>3 DEF Popped
    <3> QED BY <1>7, <2>1, <3>1
  <2>6. SendOK(s2, acks, h)
    <3>1. s2.todo <= SegmentLength
      BY <1>4, Constants
    <3> QED BY <1>4, <2>3, <2>5, <3>1 DEF SendOK
  <2>7. acks => AckedJ(s2, h) = AckedJ(s, h) /\ AckedN(s2) = AckedN(s)
    <3> SUFFICES ASSUME acks
                 PROVE  AckedJ(s2, h) = AckedJ(s, h) /\ AckedN(s2) = AckedN(s)
      OBVIOUS
    <3>1. f.acked = Length[f.b]
      <4>1. f.acked >= Length[f.b] /\ f.acked <= f.sent
        BY <1>1, <1>3, <1>8 DEF FlightOK
      <4> QED BY <1>1, <1>2, <4>1
    <3>2. AllAcked(s) /\ ~AllAcked(s2)
      BY <1>1, <1>2, <2>1, <2>3, <3>1 DEF AllAcked
    <3>3. AckedN(s) = 0 /\ AckedN(s2) = 0
      BY <2>3, <3>2 DEF AckedN
    <3>4. AckedJ(s, h) = Popped(s, h) + 1 /\ AckedJ(s2, h) = Popped(s2, h) + 0
      BY <3>2 DEF AckedJ
    <3> QED BY <1>7, <2>5, <3>3, <3>4
  <2> QED BY <1>5, <1>6, <1>10, <2>1, <2>3, <2>6, <2>7
<1>9. CASE ~done
  <2>1. s2.inflight = s.inflight
    BY <1>9
  <2>2. Popped(s2, h) = Popped(s, h)
    BY <1>5, <2>1 DEF Popped
  <2>3. AckedJ(s2, h) = AckedJ(s, h) /\ AckedN(s2) = AckedN(s)
    BY <2>1, <2>2 DEF AckedJ, AckedN, AllAcked
  <2>4. acks /\ f.acked # Length[f.b]
    BY <1>1, <1>2, <1>9
  <2>5. ASSUME NEW i \in 1 .. m
        PROVE  FlightOK(s2, acks, h, i)
    <3>1. FlightOK(s, acks, h, i)
      BY <1>2 DEF SendOK
    <3>2. ~s.inflight[i].posted
      <4>1. CASE i = m
        BY <1>1, <2>4, <3>1, <4>1 DEF FlightOK
      <4>2. CASE i # m
        <5>1. m # 1
          <6> HIDE DEF m
          <6> QED BY <4>2
        <5> QED BY <3>1, <5>1 DEF FlightOK
      <4> QED BY <4>1, <4>2
    <3>3. s.inflight[i].sent = Length[s.inflight[i].b]
      <4>1. CASE i = m
        BY <1>1, <4>1
      <4>2. CASE i # m
        <5>1. i < m
          BY <1>2, <4>2
        <5> QED BY <3>1, <5>1 DEF FlightOK
      <4> QED BY <4>1, <4>2
    <3> QED BY <1>4, <2>1, <2>2, <3>1, <3>2, <3>3 DEF FlightOK
  <2>6. SendOK(s2, acks, h)
    <3>1. s2.todo <= SegmentLength
      BY <1>4, Constants
    <3>2. Popped(s2, h) >= 0
      BY <1>7, <2>2
    <3> QED BY <1>2, <1>4, <2>1, <2>4, <2>5, <3>1, <3>2 DEF SendOK
  <2> QED BY <1>5, <1>6, <1>9, <1>10, <2>1, <2>3, <2>6
<1> QED BY <1>8, <1>9

\* An acknowledgement that is in order is about the first bundle in flight.
AckInOrder(s, h, j, L, n) ==
    /\ j = AckedJ(s, h) /\ j < Len(h) /\ L = Length[h[j + 1]] /\ n \in AckedN(s) + 1 .. L
    /\ Below(IF n = L THEN j + 1 ELSE j, IF n = L THEN 0 ELSE n, SentJ(s, h), SentN(s))

\* An acknowledgement in order is about the first bundle in flight and within
\* what was sent of it.
LEMMA AckFits ==
    ASSUME NEW s \in SendSet, NEW acks \in BOOLEAN, NEW h \in Seq(Bundles),
           SendOK(s, acks, h), acks, NEW j, NEW L, NEW n, AckInOrder(s, h, j, L, n)
    PROVE  LET f == s.inflight[1] IN
           /\ s.inflight # <<>> /\ Len(s.inflight) >= 1 /\ f \in FlightSet
           /\ f.b = h[j + 1] /\ f.acked < n /\ n <= f.sent /\ n \in Nat /\ L = Length[f.b]
           /\ ~AllAcked(s) /\ Popped(s, h) = j /\ f.posted = FALSE /\ ~(Unbegun(s) /\ Len(s.inflight) = 1)
<1> USE DEF AckInOrder
<1> DEFINE m == Len(s.inflight)
           f == s.inflight[1]
           P == Popped(s, h)
           lh == Len(h)
           un == IF Unbegun(s) THEN 1 ELSE 0
<1>1. /\ P \in Nat /\ j \in Nat /\ AckedN(s) \in Nat /\ lh \in Nat /\ m \in Nat
      /\ P + m = lh + un /\ un \in {0, 1}
      /\ SentJ(s, h) \in Nat /\ SentN(s) \in Nat
  <2>1. un \in {0, 1} /\ lh \in Nat
    OBVIOUS
  <2>2. m \in Nat
    BY FlightTypes
  <2>3. AckedJ(s, h) \in Nat
    BY SendNumbers, Zenon
  <2>4. P \in Nat /\ AckedN(s) \in Nat /\ P + m = lh + un
        /\ SentJ(s, h) \in Nat /\ SentN(s) \in Nat
    BY SendNumbers, Zenon
  <2> QED BY <2>1, <2>2, <2>3, <2>4
<1>2. j = P + (IF AllAcked(s) THEN 1 ELSE 0)
  BY DEF AckedJ
<1>3. n \in Nat /\ L \in Nat /\ n > 0 /\ n <= L /\ L > 0
  <2>1. h[j + 1] \in Bundles
    <3>1. j + 1 \in 1 .. lh
      BY <1>1
    <3> QED BY <3>1
  <2>2. L \in Nat
    BY <2>1, Constants
  <2> QED BY <1>1, <2>2
<1>4. j < lh
  OBVIOUS
<1>5. s.inflight # <<>>
  <2> SUFFICES ASSUME s.inflight = <<>>
               PROVE  FALSE
    OBVIOUS
  <2>1. ~s.current /\ m = 0
    BY DEF SendOK
  <2>2. ~Unbegun(s) /\ ~AllAcked(s)
    BY <2>1 DEF Unbegun, AllAcked
  <2>3. un = 0 /\ j = P
    BY <1>1, <1>2, <2>2
  <2> HIDE DEF P, lh, un, m
  <2> QED BY <1>1, <1>4, <2>1, <2>3
<1>6. /\ m >= 1 /\ 1 \in 1 .. m /\ f \in FlightSet /\ f.sent \in Nat /\ f.acked \in Nat
      /\ Length[f.b] \in Nat /\ Length[f.b] > 0 /\ f.posted \in BOOLEAN
  BY <1>5, FlightTypes
<1>7. FlightOK(s, acks, h, 1)
  BY <1>6, FlightTypes DEF SendOK
<1>8. ~AllAcked(s)
  <2> SUFFICES ASSUME AllAcked(s)
               PROVE  FALSE
    OBVIOUS
  <2>1. f.acked = Length[f.b]
    BY DEF AllAcked
  <2>2. f.posted /\ s.current /\ m = 1
    BY <1>7, <2>1 DEF FlightOK
  <2>3. Newest(s) = f
    BY <2>2 DEF Newest
  <2>4. f.sent # 0
    <3>1. f.acked <= f.sent
      BY <1>7 DEF FlightOK
    <3> QED BY <1>6, <2>1, <3>1
  <2>5. un = 0
    BY <2>3, <2>4 DEF Unbegun
  <2> HIDE DEF P, lh, un, m
  <2> QED BY <1>1, <1>2, <1>4, <2>2, <2>5
<1>9. j = P /\ f.posted = FALSE /\ AckedN(s) = f.acked
  <2>1. j = P
    BY <1>1, <1>2, <1>8
  <2>2. f.acked # Length[f.b]
    BY <1>5, <1>8 DEF AllAcked
  <2>3. f.posted = FALSE
    BY <1>6, <1>7, <2>2 DEF FlightOK
  <2>4. AckedN(s) = f.acked
    BY <1>5, <1>8 DEF AckedN
  <2> QED BY <2>1, <2>3, <2>4
<1>10. f.b = h[j + 1]
  <2>1. P + 1 <= Len(h)
    <3> HIDE DEF P
    <3> QED BY <1>1, <1>4, <1>9
  <2> QED BY <1>7, <1>9, <2>1 DEF FlightOK
<1>11. ~(Unbegun(s) /\ m = 1)
  <2> HIDE DEF P, lh, m
  <2> QED BY <1>1, <1>4, <1>9
<1>12. n <= f.sent
  <2>1. CASE f.sent = Length[f.b]
    BY <1>3, <1>10, <2>1
  <2>2. CASE f.sent # Length[f.b]
    <3>1. ~(1 < m) /\ s.current
      BY <1>7, <2>2 DEF FlightOK
    <3>2. m = 1
      <4> HIDE DEF m
      <4> QED BY <1>1, <1>6, <3>1
    <3>3. Newest(s) = f
      BY <3>2 DEF Newest
    <3>4. ~Unbegun(s) /\ f.sent < Length[f.b]
      <4>1. f.sent <= Length[f.b]
        BY <1>7 DEF FlightOK
      <4> QED BY <1>6, <1>11, <2>2, <3>2, <4>1
    <3>5. Half(s)
      <4>1. f.sent > 0 \/ s.todo > 0
        BY <1>6, <3>1, <3>3, <3>4, FlightTypes DEF Unbegun
      <4> QED BY <3>1, <3>3, <3>4, <4>1 DEF Half
    <3>6. SentJ(s, h) = lh - 1 /\ SentN(s) = f.sent
      BY <3>3, <3>5, SendNumbers
    <3>7. lh = j + 1
      <4>1. un = 0
        BY <3>4
      <4> HIDE DEF P, lh, un, m
      <4> QED BY <1>1, <1>9, <3>2, <4>1
    <3>8. SentJ(s, h) = j
      <4> HIDE DEF lh
      <4> QED BY <1>1, <3>6, <3>7
    <3> QED BY <1>1, <1>3, <3>6, <3>8 DEF Below
  <2> QED BY <2>1, <2>2
<1>13. f.acked < n
  BY <1>6, <1>9
<1> QED BY <1>3, <1>5, <1>6, <1>8, <1>9, <1>10, <1>11, <1>12, <1>13

\* Arithmetic for a list without one entry.
LEMMA Predecessor ==
    ASSUME NEW m \in Nat, m >= 1
    PROVE  /\ m - 1 \in Nat
           /\ m # 1 => m > 1 /\ 1 \in 1 .. m - 1 /\ m - 1 > 0 /\ 2 \in 2 .. m /\ m \in 2 .. m /\ m > 0
           /\ m - 1 > 0 <=> m # 1
           /\ \A i \in 1 .. m - 1 : i \in 1 .. m /\ i < m /\ m # 1 /\ i + 1 \in 2 .. m
OBVIOUS

\* An acknowledgement of part of the first bundle in flight, or of all of it
\* while it is still being sent.
NotesAck(s, s2, m, n) ==
    /\ m = Len(s.inflight) /\ m >= 1 /\ n \in Nat
    /\ s2 \in SendSet /\ s2.current = s.current /\ s2.todo = s.todo /\ Len(s2.inflight) = m
    /\ \A i \in 2 .. m : s2.inflight[i] = s.inflight[i]
    /\ s2.inflight[1].b = s.inflight[1].b /\ s2.inflight[1].sent = s.inflight[1].sent
    /\ s2.inflight[1].acked = n /\ n <= s.inflight[1].sent
    /\ s2.inflight[1].posted <=> n = Length[s.inflight[1].b]
    /\ s2.inflight[1].posted => s.current /\ m = 1

\* What an acknowledgement of n of L units leaves.
AckLeaves(s, s2, h, n, L) ==
    /\ n = L => AckedJ(s2, h) = AckedJ(s, h) + 1 /\ AckedN(s2) = 0
    /\ n # L => AckedJ(s2, h) = AckedJ(s, h) /\ AckedN(s2) = n
    /\ SentJ(s2, h) = SentJ(s, h) /\ SentN(s2) = SentN(s)
    /\ Unbegun(s2) <=> Unbegun(s)
    /\ Unbegun(s) => Newest(s2).b = Newest(s).b

\* handle_ack_segment on the sending side: the bundle stays in flight.
LEMMA AckNoted ==
    ASSUME NEW s \in SendSet, NEW acks \in BOOLEAN, NEW h \in Seq(Bundles),
           SendOK(s, acks, h), acks, NEW m, NEW n, NEW s2, NotesAck(s, s2, m, n), ~AllAcked(s)
    PROVE  SendOK(s2, acks, h) /\ AckLeaves(s, s2, h, n, Length[s.inflight[1].b])
<1> USE DEF NotesAck
<1>1. /\ m \in Nat /\ 1 \in 1 .. m /\ m \in 1 .. m
      /\ DOMAIN s2.inflight = 1 .. m /\ DOMAIN s.inflight = 1 .. m
      /\ s2.inflight # <<>> /\ s.inflight # <<>>
  BY FlightTypes
<1>2. \A i \in 1 .. m : /\ s2.inflight[i].b = s.inflight[i].b
                        /\ s2.inflight[i].sent = s.inflight[i].sent
  <2> SUFFICES ASSUME NEW i \in 1 .. m
               PROVE  /\ s2.inflight[i].b = s.inflight[i].b
                      /\ s2.inflight[i].sent = s.inflight[i].sent
    OBVIOUS
  <2>1. i = 1 \/ i \in 2 .. m
    BY <1>1
  <2> QED BY <2>1
<1>3. Newest(s2).b = Newest(s).b /\ Newest(s2).sent = Newest(s).sent
  BY <1>1, <1>2 DEF Newest
<1>4. (Unbegun(s2) <=> Unbegun(s)) /\ (Half(s2) <=> Half(s))
  BY <1>3 DEF Unbegun, Half
<1>5. Popped(s2, h) = Popped(s, h) /\ Popped(s, h) \in Nat
  BY <1>4, SendNumbers DEF Popped
<1>6. SentJ(s2, h) = SentJ(s, h) /\ SentN(s2) = SentN(s)
  BY <1>3, <1>4 DEF SentJ, SentN
<1>7. AllAcked(s2) <=> n = Length[s.inflight[1].b]
  BY <1>1 DEF AllAcked
<1>8. AckedJ(s2, h) = AckedJ(s, h) + (IF n = Length[s.inflight[1].b] THEN 1 ELSE 0)
  BY <1>5, <1>7 DEF AckedJ
<1>9. AckedN(s2) = (IF n = Length[s.inflight[1].b] THEN 0 ELSE n)
  BY <1>1, <1>7 DEF AckedN
<1>10. ASSUME NEW i \in 1 .. m
       PROVE  FlightOK(s2, acks, h, i)
  <2>1. FlightOK(s, acks, h, i)
    BY <1>1 DEF SendOK
  <2>2. CASE i = 1
    <3>1. ~(i > 1)
      BY <2>2
    <3> QED BY <1>1, <1>5, <2>1, <2>2, <3>1 DEF FlightOK
  <2>3. CASE i # 1
    <3>1. s2.inflight[i] = s.inflight[i]
      <4>1. i \in 2 .. m
        BY <2>3
      <4> QED BY <4>1
    <3> QED BY <1>5, <2>1, <3>1 DEF FlightOK
  <2> QED BY <2>2, <2>3
<1>11. SendOK(s2, acks, h)
  <2>1. Popped(s2, h) >= 0
    BY <1>5
  <2> QED BY <1>1, <1>3, <1>10, <2>1 DEF SendOK
<1>12. AckedJ(s, h) \in Nat
  BY SendNumbers, Zenon
<1> DEFINE L == Length[s.inflight[1].b]
           aj == AckedJ(s, h)
           aj2 == AckedJ(s2, h)
<1>13. aj2 = aj + (IF n = L THEN 1 ELSE 0) /\ AckedN(s2) = (IF n = L THEN 0 ELSE n) /\ aj \in Nat
  BY <1>8, <1>9, <1>12
<1>14. AckLeaves(s, s2, h, n, L)
  <2> HIDE DEF L, aj, aj2, NotesAck
  <2>1. /\ n = L => aj2 = aj + 1 /\ AckedN(s2) = 0
        /\ n # L => aj2 = aj /\ AckedN(s2) = n
    BY <1>13
  <2> QED BY <1>3, <1>4, <1>6, <2>1 DEF AckLeaves, aj, aj2
<1> QED BY <1>11, <1>14

\* An acknowledgement of all of a bundle that has been sent.
PopsFirst(s, s2, m) ==
    /\ m = Len(s.inflight) /\ m >= 1 /\ ~(s.current /\ m = 1)
    /\ s2 \in SendSet /\ s2.current = s.current /\ s2.todo = s.todo
    /\ Len(s2.inflight) = m - 1
    /\ \A i \in 1 .. m - 1 : s2.inflight[i] = s.inflight[i + 1]

\* handle_ack_segment on the sending side: the bundle is complete and leaves.
LEMMA AckPops ==
    ASSUME NEW s \in SendSet, NEW acks \in BOOLEAN, NEW h \in Seq(Bundles),
           SendOK(s, acks, h), acks, NEW m, NEW s2, PopsFirst(s, s2, m), ~AllAcked(s), NEW L
    PROVE  SendOK(s2, acks, h) /\ AckLeaves(s, s2, h, L, L)
<1> USE DEF PopsFirst
<1>1. /\ m \in Nat /\ m - 1 \in Nat /\ DOMAIN s2.inflight = 1 .. m - 1
      /\ DOMAIN s.inflight = 1 .. m /\ (s2.inflight # <<>> <=> m - 1 > 0)
  BY FlightTypes
<1>2. m > 1 => Newest(s2) = Newest(s)
  <2> SUFFICES ASSUME m > 1
               PROVE  Newest(s2) = Newest(s)
    OBVIOUS
  <2>1. m - 1 \in 1 .. m - 1 /\ (m - 1) + 1 = m
    BY <1>1
  <2> QED BY <2>1 DEF Newest
<1>3. s.current => m > 1
  BY <1>1, Predecessor
<1>4. (Unbegun(s2) <=> Unbegun(s)) /\ (Half(s2) <=> Half(s))
  BY <1>2, <1>3 DEF Unbegun, Half
<1>5. Popped(s2, h) = Popped(s, h) + 1 /\ Popped(s, h) \in Nat
  <2>1. /\ Popped(s2, h) = (Len(h) + (IF Unbegun(s) THEN 1 ELSE 0)) - (m - 1)
        /\ Popped(s, h) = (Len(h) + (IF Unbegun(s) THEN 1 ELSE 0)) - m
    BY <1>4 DEF Popped
  <2>2. (IF Unbegun(s) THEN 1 ELSE 0) \in Nat /\ Len(h) \in Nat /\ Popped(s, h) \in Nat
    <3>1. Popped(s, h) \in Nat
      BY SendNumbers, Zenon
    <3>2. (IF Unbegun(s) THEN 1 ELSE 0) \in Nat /\ Len(h) \in Nat
      OBVIOUS
    <3> QED BY <3>1, <3>2
  <2> QED BY <1>1, <2>1, <2>2
<1>6. SentJ(s2, h) = SentJ(s, h) /\ SentN(s2) = SentN(s)
  BY <1>2, <1>3, <1>4 DEF SentJ, SentN, Half
<1>7. \A i \in 2 .. m : FlightOK(s, acks, h, i) /\ s.inflight[i].acked = 0 /\ ~s.inflight[i].posted
  <2> SUFFICES ASSUME NEW i \in 2 .. m
               PROVE  FlightOK(s, acks, h, i) /\ s.inflight[i].acked = 0 /\ ~s.inflight[i].posted
    OBVIOUS
  <2>1. i \in 1 .. m /\ i > 1 /\ m # 1
    BY <1>1
  <2>2. FlightOK(s, acks, h, i)
    BY <1>1, <2>1 DEF SendOK
  <2> QED BY <2>1, <2>2 DEF FlightOK
<1>8. ~AllAcked(s2) /\ AckedN(s2) = 0
  <2>1. CASE m = 1
    BY <1>1, <2>1 DEF AllAcked, AckedN
  <2>2. CASE m # 1
    <3>1. 1 \in 1 .. m - 1 /\ 1 + 1 = 2 /\ 2 \in 2 .. m
      <4>1. 1 \in 1 .. m - 1 /\ 2 \in 2 .. m
        BY <1>1, <2>2, Predecessor, Zenon
      <4> QED BY <4>1
    <3>2. s2.inflight[1].acked = 0
      BY <1>7, <3>1
    <3>3. Length[s2.inflight[1].b] # 0
      BY <3>1, FlightTypes
    <3> QED BY <3>2, <3>3 DEF AllAcked, AckedN
  <2> QED BY <2>1, <2>2
<1>9. AckedJ(s2, h) = AckedJ(s, h) + 1
  BY <1>5, <1>8 DEF AckedJ
<1>10. ASSUME NEW i \in 1 .. m - 1
       PROVE  FlightOK(s2, acks, h, i)
  <2>1. i + 1 \in 2 .. m /\ (i < m - 1 => i + 1 < m) /\ i + 1 > 1 /\ i \in Nat
    BY <1>1
  <2>2. FlightOK(s, acks, h, i + 1) /\ s.inflight[i + 1].acked = 0 /\ ~s.inflight[i + 1].posted
    BY <1>7, <2>1
  <2>3. s2.inflight[i] = s.inflight[i + 1]
    OBVIOUS
  <2>4. Popped(s2, h) + i = Popped(s, h) + (i + 1)
    BY <1>5, <2>1
  <2> QED BY <2>1, <2>2, <2>3, <2>4 DEF FlightOK
<1>11. SendOK(s2, acks, h)
  <2>1. Popped(s2, h) >= 0
    BY <1>5
  <2>2. s2.current => s2.inflight # <<>>
    BY <1>1, <1>3
  <2>3. s2.todo # 0 => s2.current /\ Newest(s2).sent + s2.todo <= Length[Newest(s2).b]
    BY <1>2, <1>3 DEF SendOK
  <2>4. s2.todo <= SegmentLength
    BY DEF SendOK
  <2> QED BY <1>1, <1>10, <2>1, <2>2, <2>3, <2>4 DEF SendOK
<1>12. Unbegun(s) => Newest(s2).b = Newest(s).b
  BY <1>2, <1>3 DEF Unbegun
<1> HIDE DEF PopsFirst
<1> QED BY <1>4, <1>6, <1>8, <1>9, <1>11, <1>12 DEF AckLeaves

\* The bundle being sent is taken back before anything of it was sent.
TakenBack(s, s2, m) ==
    /\ m = Len(s.inflight) /\ ~s2.current /\ s2.todo = 0 /\ Len(s2.inflight) = m - 1
    /\ \A i \in 1 .. m - 1 : s2.inflight[i] = s.inflight[i]

\* A bundle of which nothing was sent is cancelled.
LEMMA BundleCancelled ==
    ASSUME NEW s \in SendSet, NEW acks \in BOOLEAN, NEW h \in Seq(Bundles),
           SendOK(s, acks, h), Unbegun(s), NEW m, NEW s2 \in SendSet, TakenBack(s, s2, m)
    PROVE  /\ SendOK(s2, acks, h)
           /\ AckedJ(s2, h) = AckedJ(s, h) /\ AckedN(s2) = AckedN(s)
           /\ SentJ(s2, h) = SentJ(s, h) /\ SentN(s2) = SentN(s)
<1> USE DEF TakenBack
<1>1. s.current /\ s.todo = 0 /\ Newest(s).sent = 0
  BY DEF Unbegun
<1>2. /\ m \in Nat /\ m >= 1 /\ m - 1 \in Nat /\ DOMAIN s2.inflight = 1 .. m - 1
      /\ DOMAIN s.inflight = 1 .. m /\ (s2.inflight # <<>> <=> m - 1 > 0)
      /\ (s.inflight # <<>> <=> m > 0)
  <2>1. m \in Nat /\ m \in 1 .. m
    BY <1>1, NewestFacts, FlightTypes
  <2>2. DOMAIN s2.inflight = 1 .. m - 1 /\ DOMAIN s.inflight = 1 .. m
        /\ (s2.inflight # <<>> <=> m - 1 > 0) /\ (s.inflight # <<>> <=> m > 0)
    BY FlightTypes
  <2> QED BY <2>1, <2>2
<1>3. ~Unbegun(s2) /\ ~Half(s2) /\ ~Half(s)
  BY <1>1, SendNumbers DEF Unbegun, Half
<1>4. Popped(s2, h) = Popped(s, h) /\ Popped(s, h) \in Nat
  <2>1. /\ Popped(s2, h) = (Len(h) + 0) - (m - 1)
        /\ Popped(s, h) = (Len(h) + 1) - m
    BY <1>3 DEF Popped
  <2>2. Len(h) \in Nat /\ Popped(s, h) \in Nat
    BY SendNumbers
  <2> QED BY <1>2, <2>1, <2>2
<1>5. SentJ(s2, h) = SentJ(s, h) /\ SentN(s2) = SentN(s)
  BY <1>3 DEF SentJ, SentN
<1>6. ASSUME NEW i \in 1 .. m - 1
      PROVE  FlightOK(s, acks, h, i) /\ i < m /\ ~s.inflight[i].posted /\ s2.inflight[i] = s.inflight[i]
  <2>1. i \in 1 .. m /\ i < m /\ m # 1
    BY <1>2, Predecessor
  <2>2. FlightOK(s, acks, h, i)
    BY <1>2, <2>1 DEF SendOK
  <2> QED BY <2>1, <2>2 DEF FlightOK
<1>7. AckedN(s2) = AckedN(s) /\ (AllAcked(s2) <=> AllAcked(s))
  <2>1. CASE m = 1
    <3>1. s2.inflight = <<>> /\ s.inflight # <<>> /\ Newest(s) = s.inflight[1]
      BY <1>2, <2>1 DEF Newest
    <3>2. s.inflight[1].acked = 0 /\ Length[s.inflight[1].b] # 0
      <4>1. FlightOK(s, acks, h, 1)
        BY <1>2, <2>1 DEF SendOK
      <4>2. s.inflight[1].acked <= 0 /\ s.inflight[1].acked \in Nat
            /\ Length[s.inflight[1].b] > 0 /\ Length[s.inflight[1].b] \in Nat
        BY <1>1, <1>2, <2>1, <3>1, <4>1, FlightTypes DEF FlightOK
      <4> QED BY <4>2
    <3> QED BY <3>1, <3>2 DEF AllAcked, AckedN
  <2>2. CASE m # 1
    <3>1. s2.inflight # <<>> /\ s.inflight # <<>> /\ s2.inflight[1] = s.inflight[1]
      <4>1. 1 \in 1 .. m - 1 /\ m - 1 > 0 /\ m > 0
        BY <1>2, <2>2, Predecessor
      <4> QED BY <1>2, <4>1
    <3> QED BY <3>1 DEF AllAcked, AckedN
  <2> QED BY <2>1, <2>2
<1>8. AckedJ(s2, h) = AckedJ(s, h)
  BY <1>4, <1>7 DEF AckedJ
<1>9. ASSUME NEW i \in 1 .. m - 1
      PROVE  FlightOK(s2, acks, h, i)
  BY <1>4, <1>6, SMTT(30) DEF FlightOK
<1>10. SendOK(s2, acks, h)
  <2>1. Popped(s2, h) >= 0 /\ s2.todo <= SegmentLength
    BY <1>4, Constants
  <2>2. ~acks => s2.inflight = <<>>
    <3>1. ~acks => m = 1
      BY <1>2 DEF SendOK
    <3>2. m = 1 => ~(m - 1 > 0)
      OBVIOUS
    <3> QED BY <1>2, <3>1, <3>2, Zenon
  <2> QED BY <1>2, <1>9, <2>1, <2>2 DEF SendOK
<1> QED BY <1>5, <1>7, <1>8, <1>10

(***************************************************************************)
(* The receiver.                                                           *)
(***************************************************************************)
RecvSet == [incoming : Seq(IncomingSet), rcvTodo : Nat, rcvd : Seq(Seq(UnitSet))]

\* The types of the receiving side.
LEMMA IncomingTypes ==
    ASSUME NEW r \in RecvSet
    PROVE  /\ r.incoming \in Seq(IncomingSet) /\ r.rcvTodo \in Nat /\ r.rcvd \in Seq(Seq(UnitSet))
           /\ Len(r.incoming) \in Nat /\ DOMAIN r.incoming = 1 .. Len(r.incoming)
           /\ r.incoming # <<>> <=> Len(r.incoming) > 0
           /\ Len(r.rcvd) \in Nat /\ DOMAIN r.rcvd = 1 .. Len(r.rcvd)
           /\ \A i \in 1 .. Len(r.incoming) :
                 LET f == r.incoming[i]
                 IN  /\ f \in IncomingSet /\ f.data \in Seq(UnitSet) /\ Len(f.data) \in Nat
                     /\ f.ack \in SUBSET Nat /\ f.acked \in Nat /\ f.total \in Nat
<1> DEFINE q == r.incoming
           d == r.rcvd
<1>1. q \in Seq(IncomingSet) /\ r.rcvTodo \in Nat /\ d \in Seq(Seq(UnitSet))
  BY DEF RecvSet
<1> HIDE DEF q, d
<1>2. /\ Len(q) \in Nat /\ DOMAIN q = 1 .. Len(q) /\ (q # <<>> <=> Len(q) > 0)
      /\ \A i \in 1 .. Len(q) : q[i] \in IncomingSet
  BY <1>1
<1>3. Len(d) \in Nat /\ DOMAIN d = 1 .. Len(d)
  BY <1>1
<1>4. \A f \in IncomingSet : /\ f.data \in Seq(UnitSet) /\ Len(f.data) \in Nat
                             /\ f.ack \in SUBSET Nat /\ f.acked \in Nat /\ f.total \in Nat
  <2> SUFFICES ASSUME NEW f \in IncomingSet
               PROVE  /\ f.data \in Seq(UnitSet) /\ Len(f.data) \in Nat
                      /\ f.ack \in SUBSET Nat /\ f.acked \in Nat /\ f.total \in Nat
    OBVIOUS
  <2>1. f.data \in Seq(UnitSet) /\ f.ack \in SUBSET Nat /\ f.acked \in Nat /\ f.total \in Nat
    BY DEF IncomingSet
  <2> QED BY <2>1
<1> QED BY <1>1, <1>2, <1>3, <1>4 DEF q, d

\* The incoming bundles are the last of those that the peer began.
LEMMA RecvNumbers ==
    ASSUME NEW r \in RecvSet, NEW g \in Seq(Bundles), RecvOK(r, g)
    PROVE  /\ GaveJ(r) \in Nat /\ GaveN(r) \in Nat /\ RecvN(r) \in Nat /\ Begun(r) \in Nat
           /\ GaveJ(r) + Len(r.incoming) = Len(r.rcvd) + (IF Partial(r) THEN 1 ELSE 0)
           /\ \A i \in 1 .. Len(r.incoming) :
                 /\ GaveJ(r) + i \in 1 .. Len(g) /\ g[GaveJ(r) + i] \in Bundles
                 /\ Length[g[GaveJ(r) + i]] \in Nat /\ Length[g[GaveJ(r) + i]] > 0
           /\ Len(r.rcvd) <= Len(g)
<1> DEFINE m == Len(r.incoming)
           lr == Len(r.rcvd)
           p == IF Partial(r) THEN 1 ELSE 0
           G == GaveJ(r)
           lg == Len(g)
<1>1. m \in Nat /\ lr \in Nat /\ p \in {0, 1} /\ lg \in Nat
  BY IncomingTypes
<1>2. Begun(r) = lr + p /\ G = Begun(r) - m /\ G >= 0 /\ Begun(r) <= lg
  BY DEF Begun, GaveJ, RecvOK
<1>3. GaveN(r) \in Nat
  <2>1. CASE r.incoming = <<>>
    BY <2>1 DEF GaveN
  <2>2. CASE r.incoming # <<>>
    <3>1. 1 \in 1 .. Len(r.incoming)
      BY <2>2, IncomingTypes
    <3>2. r.incoming[1].acked \in Nat
      BY <3>1, IncomingTypes
    <3> QED BY <2>2, <3>2 DEF GaveN
  <2> QED BY <2>1, <2>2
<1>4. RecvN(r) \in Nat
  <2>1. CASE Partial(r)
    <3>1. r.incoming # <<>>
      BY <2>1 DEF Partial
    <3>2. Len(r.incoming) \in 1 .. Len(r.incoming)
      BY <3>1, IncomingTypes
    <3>3. Len(Newcomer(r).data) \in Nat
      BY <3>2, IncomingTypes DEF Newcomer
    <3> QED BY <2>1, <3>3 DEF RecvN
  <2>2. CASE ~Partial(r)
    BY <2>2 DEF RecvN
  <2> QED BY <2>1, <2>2
<1>5. \A i \in 1 .. m : /\ G + i \in 1 .. lg /\ g[G + i] \in Bundles
                        /\ Length[g[G + i]] \in Nat /\ Length[g[G + i]] > 0
  <2> SUFFICES ASSUME NEW i \in 1 .. m
               PROVE  /\ G + i \in 1 .. lg /\ g[G + i] \in Bundles
                      /\ Length[g[G + i]] \in Nat /\ Length[g[G + i]] > 0
    OBVIOUS
  <2>1. G + i \in 1 .. lg
    <3> HIDE DEF m, lr, p, G, lg
    <3> QED BY <1>1, <1>2
  <2>2. g[G + i] \in Bundles
    BY <2>1
  <2> QED BY <2>1, <2>2, Constants
<1>6. G \in Nat /\ Begun(r) \in Nat /\ G + m = lr + p /\ lr <= lg
  <2> HIDE DEF m, lr, p, G, lg
  <2> QED BY <1>1, <1>2
<1> QED BY <1>3, <1>4, <1>5, <1>6

\* The bundle that is coming in.
LEMMA NewcomerFacts ==
    ASSUME NEW r \in RecvSet, NEW g \in Seq(Bundles), RecvOK(r, g), Partial(r)
    PROVE  LET m == Len(r.incoming)
               f == r.incoming[m]
               b == g[Len(r.rcvd) + 1]
           IN  /\ m \in 1 .. m /\ Newcomer(r) = f /\ r.incoming # <<>>
               /\ f \in IncomingSet /\ RecvN(r) = Len(f.data)
               /\ Len(f.data) \in Nat /\ f.acked \in Nat /\ f.total \in Nat /\ f.ack \in SUBSET Nat
               /\ Len(r.rcvd) + 1 \in 1 .. Len(g) /\ b \in Bundles /\ Length[b] \in Nat
               /\ GaveJ(r) + m = Len(r.rcvd) + 1
               /\ Len(f.data) < Length[b]
               /\ \A i \in 1 .. Len(f.data) : f.data[i] = Data(b, i)
               /\ SegEnd(r, m) = Len(f.data) + r.rcvTodo
               /\ Len(f.data) + r.rcvTodo <= Length[b]
               /\ f.total = IF Len(f.data) + r.rcvTodo = Length[b] THEN Length[b] ELSE 0
               /\ f.ack \subseteq f.acked + 1 .. Len(f.data) + r.rcvTodo
               /\ f.total # 0 => f.total \in f.ack
               /\ r.rcvTodo # 0 => Len(f.data) + r.rcvTodo \in f.ack
               /\ f.acked <= Len(f.data) /\ (m > 1 => f.acked = 0)
<1> DEFINE m == Len(r.incoming)
           f == r.incoming[m]
           b == g[Len(r.rcvd) + 1]
<1>1. r.incoming # <<>> /\ m \in 1 .. m /\ m \in Nat /\ m > 0
  BY IncomingTypes DEF Partial
<1>2. Newcomer(r) = f /\ RecvN(r) = Len(f.data)
  BY DEF Newcomer, RecvN
<1>3. /\ f \in IncomingSet /\ Len(f.data) \in Nat /\ f.acked \in Nat /\ f.total \in Nat
      /\ f.ack \in SUBSET Nat
  BY <1>1, IncomingTypes
<1>4. GaveJ(r) + m = Len(r.rcvd) + 1
  BY RecvNumbers
<1>5. Len(r.rcvd) + 1 \in 1 .. Len(g) /\ b \in Bundles /\ Length[b] \in Nat
  BY <1>1, <1>4, RecvNumbers
<1>6. Coming(r, m) /\ SegEnd(r, m) = Len(f.data) + r.rcvTodo
  BY DEF Coming, SegEnd
<1>7. IncomingOK(r, g, m)
  BY <1>1, IncomingTypes DEF RecvOK
<1>8. /\ Len(f.data) < Length[b]
      /\ \A i \in 1 .. Len(f.data) : f.data[i] = Data(b, i)
  BY <1>4, <1>6, <1>7 DEF IncomingOK
<1>9. /\ Len(f.data) + r.rcvTodo <= Length[b]
      /\ f.total = IF Len(f.data) + r.rcvTodo = Length[b] THEN Length[b] ELSE 0
      /\ f.ack \subseteq f.acked + 1 .. Len(f.data) + r.rcvTodo
      /\ f.total # 0 => f.total \in f.ack
      /\ r.rcvTodo # 0 => Len(f.data) + r.rcvTodo \in f.ack
      /\ f.acked <= Len(f.data) /\ (m > 1 => f.acked = 0)
  BY <1>4, <1>6, <1>7, Zenon DEF IncomingOK
<1> QED BY <1>1, <1>2, <1>3, <1>4, <1>5, <1>6, <1>8, <1>9

\* A bundle that is where it was, or one place further on.
LEMMA IncomingSame ==
    ASSUME NEW r, NEW r2, NEW g, NEW i, NEW j, IncomingOK(r, g, j),
           r2.incoming[i] = r.incoming[j], GaveJ(r2) + i = GaveJ(r) + j,
           Coming(r2, i) <=> Coming(r, j),
           Coming(r, j) => r2.rcvTodo = r.rcvTodo,
           i > 1 => j > 1
    PROVE  IncomingOK(r2, g, i)
<1>1. SegEnd(r2, i) = SegEnd(r, j)
  BY DEF SegEnd
<1> QED BY <1>1, Zenon DEF IncomingOK

\* A bundle begins to come in.
BeginsIncoming(r, r2, g, m) ==
    /\ ~Partial(r) /\ r.rcvTodo = 0 /\ Len(r.rcvd) < Len(g) /\ m = Len(r.incoming)
    /\ r2 \in RecvSet /\ r2.rcvTodo = 0 /\ r2.rcvd = r.rcvd /\ Len(r2.incoming) = m + 1
    /\ \A i \in 1 .. m : r2.incoming[i] = r.incoming[i]
    /\ r2.incoming[m + 1] = IncomingBundle

\* A start segment on the receiving side.
LEMMA BundleBegins ==
    ASSUME NEW r \in RecvSet, NEW g \in Seq(Bundles), RecvOK(r, g),
           NEW m, NEW r2, BeginsIncoming(r, r2, g, m)
    PROVE  /\ RecvOK(r2, g) /\ Partial(r2) /\ RecvN(r2) = 0 /\ RecvN(r) = 0
           /\ GaveJ(r2) = GaveJ(r) /\ GaveN(r2) = GaveN(r)
<1> USE DEF BeginsIncoming
<1>1. /\ m \in Nat /\ DOMAIN r2.incoming = 1 .. m + 1 /\ DOMAIN r.incoming = 1 .. m
      /\ r2.incoming # <<>> /\ (r.incoming # <<>> <=> m > 0)
  BY IncomingTypes
<1>2. Newcomer(r2) = IncomingBundle
  BY DEF Newcomer
<1>3. /\ IncomingBundle.data = <<>> /\ IncomingBundle.total = 0 /\ IncomingBundle.ack = {}
      /\ IncomingBundle.acked = 0 /\ Len(<<>>) = 0
  BY DEF IncomingBundle
<1>4. Partial(r2)
  BY <1>1, <1>2, <1>3 DEF Partial
<1>5. RecvN(r2) = 0 /\ RecvN(r) = 0
  BY <1>2, <1>3, <1>4 DEF RecvN
<1>6. Begun(r2) = Len(r.rcvd) + 1 /\ Begun(r) = Len(r.rcvd) + 0 /\ Len(r.rcvd) \in Nat
  BY <1>4, IncomingTypes DEF Begun
<1>7. GaveJ(r2) = GaveJ(r) /\ GaveJ(r) \in Nat /\ GaveJ(r) + m = Len(r.rcvd)
  <2>1. GaveJ(r) \in Nat
    BY RecvNumbers
  <2>2. GaveJ(r2) = (Len(r.rcvd) + 1) - (m + 1) /\ GaveJ(r) = (Len(r.rcvd) + 0) - m
    BY <1>6 DEF GaveJ
  <2> QED BY <1>1, <1>6, <2>1, <2>2
<1>8. GaveN(r2) = GaveN(r)
  <2>1. CASE m = 0
    <3>1. r2.incoming[1] = IncomingBundle
      BY <2>1
    <3> QED BY <1>1, <1>3, <2>1, <3>1 DEF GaveN
  <2>2. CASE m # 0
    <3>1. 1 \in 1 .. m /\ m > 0
      BY <1>1, <2>2
    <3>2. r2.incoming[1] = r.incoming[1]
      BY <3>1
    <3> QED BY <1>1, <3>1, <3>2 DEF GaveN
  <2> QED BY <2>1, <2>2
<1>9. ASSUME NEW i \in 1 .. m + 1
      PROVE  IncomingOK(r2, g, i)
  <2>1. CASE i = m + 1
    <3> DEFINE b == g[GaveJ(r2) + i]
    <3>1. Coming(r2, i) /\ SegEnd(r2, i) = 0
      BY <1>3, <1>4, <2>1 DEF Coming, SegEnd
    <3>2. GaveJ(r2) + i \in 1 .. Len(g)
      BY <1>1, <1>6, <1>7, <2>1, SMTT(30)
    <3>3. Length[b] \in Nat /\ Length[b] > 0
      BY <3>2, Constants
    <3>4. r2.incoming[i] = IncomingBundle
      BY <2>1
    <3> HIDE DEF b
    <3>5. \A n \in 1 .. 0 : <<>>[n] = Data(b, n)
      OBVIOUS
    <3>6. b = g[GaveJ(r2) + i]
      BY DEF b
    <3> QED BY <1>3, <3>1, <3>3, <3>4, <3>5, <3>6 DEF IncomingOK
  <2>2. CASE i # m + 1
    <3>1. i \in 1 .. m /\ ~(i = m + 1)
      BY <1>1, <2>2
    <3>2. ~Coming(r2, i) /\ ~Coming(r, i)
      BY <2>2 DEF Coming
    <3>3. IncomingOK(r, g, i)
      BY <1>1, <3>1 DEF RecvOK
    <3> QED BY <1>7, <3>1, <3>2, <3>3, IncomingSame
  <2> QED BY <2>1, <2>2
<1>10. RecvOK(r2, g)
  <2>1. Begun(r2) <= Len(g)
    BY <1>6
  <2>2. GaveJ(r2) >= 0
    BY <1>7
  <2>3. r2.rcvTodo <= SegmentLength
    BY Constants
  <2>4. \A i \in DOMAIN r2.rcvd : r2.rcvd[i] = Whole[g[i]]
    BY DEF RecvOK
  <2> QED BY <1>1, <1>9, <2>1, <2>2, <2>3, <2>4 DEF RecvOK
<1> QED BY <1>4, <1>5, <1>7, <1>8, <1>10

\* A segment's length arrives.
Announces(r, r2, g, n, L, m) ==
    /\ Partial(r) /\ r.rcvTodo = 0 /\ n \in 1 .. SegmentLength
    /\ L = Length[g[Len(r.rcvd) + 1]] /\ RecvN(r) + n <= L /\ m = Len(r.incoming)
    /\ r2 \in RecvSet /\ r2.rcvTodo = n /\ r2.rcvd = r.rcvd /\ Len(r2.incoming) = m
    /\ \A i \in 1 .. m : i # m => r2.incoming[i] = r.incoming[i]
    /\ r2.incoming[m].data = r.incoming[m].data
    /\ r2.incoming[m].acked = r.incoming[m].acked
    /\ r2.incoming[m].ack = r.incoming[m].ack \cup {RecvN(r) + n}
    /\ r2.incoming[m].total = IF RecvN(r) + n = L THEN RecvN(r) + n ELSE r.incoming[m].total

\* A segment's length on the receiving side.
LEMMA SegmentAnnounced ==
    ASSUME NEW r \in RecvSet, NEW g \in Seq(Bundles), RecvOK(r, g),
           NEW n, NEW L, NEW m, NEW r2, Announces(r, r2, g, n, L, m)
    PROVE  /\ RecvOK(r2, g) /\ Partial(r2) /\ RecvN(r2) = RecvN(r)
           /\ GaveJ(r2) = GaveJ(r) /\ GaveN(r2) = GaveN(r)
<1> USE DEF Announces
<1> DEFINE f == r.incoming[m]
           f2 == r2.incoming[m]
           b == g[Len(r.rcvd) + 1]
           N == RecvN(r)
<1>1. /\ m \in 1 .. m /\ m \in Nat /\ Newcomer(r) = f /\ r.incoming # <<>>
      /\ N = Len(f.data) /\ N \in Nat /\ f.acked \in Nat
      /\ Len(r.rcvd) + 1 \in 1 .. Len(g) /\ L \in Nat
      /\ GaveJ(r) + m = Len(r.rcvd) + 1
      /\ N < L /\ L = Length[b]
      /\ \A i \in 1 .. N : f.data[i] = Data(b, i)
  <2>1. /\ m \in 1 .. m /\ Newcomer(r) = f /\ r.incoming # <<>>
        /\ N = Len(f.data) /\ Len(f.data) \in Nat /\ f.acked \in Nat
        /\ Len(r.rcvd) + 1 \in 1 .. Len(g) /\ Length[b] \in Nat
        /\ GaveJ(r) + m = Len(r.rcvd) + 1
        /\ Len(f.data) < Length[b]
        /\ \A i \in 1 .. Len(f.data) : f.data[i] = Data(b, i)
    BY NewcomerFacts
  <2>2. m \in Nat
    BY IncomingTypes
  <2> QED BY <2>1, <2>2, Zenon
<1>2. /\ f.total = IF N + 0 = L THEN L ELSE 0
      /\ f.ack \subseteq f.acked + 1 .. N + 0
      /\ f.acked <= N /\ (m > 1 => f.acked = 0)
  BY <1>1, NewcomerFacts
<1>3. f.total = 0 /\ f.ack \subseteq f.acked + 1 .. N
  BY <1>1, <1>2
<1>4. /\ DOMAIN r2.incoming = 1 .. m /\ DOMAIN r.incoming = 1 .. m /\ r2.incoming # <<>>
  BY <1>1, IncomingTypes
<1>5. n \in Nat /\ n > 0 /\ N + n \in Nat /\ N + n <= L /\ N < N + n
  <2>1. N \in Nat /\ N + n <= L /\ n \in 1 .. SegmentLength
    BY <1>1
  <2> HIDE DEF N
  <2> QED BY <2>1, Constants
<1>6. /\ f2.data = f.data /\ f2.acked = f.acked /\ f2.ack = f.ack \cup {N + n}
      /\ f2.total = IF N + n = L THEN L ELSE 0
  BY <1>3
<1> HIDE DEF f, f2, b, N
<1>7. Newcomer(r2) = f2
  BY DEF Newcomer, f2
<1>8. Partial(r2) /\ RecvN(r2) = N
  <2>1. f2.total = 0 \/ Len(f2.data) < f2.total
    BY <1>1, <1>5, <1>6
  <2>2. Partial(r2)
    BY <1>4, <1>7, <2>1 DEF Partial
  <2> QED BY <1>1, <1>6, <1>7, <2>2 DEF RecvN
<1>9. Begun(r2) = Begun(r)
  BY <1>8 DEF Begun
<1>10. GaveJ(r2) = GaveJ(r)
  BY <1>9 DEF GaveJ
<1>11. GaveN(r2) = GaveN(r)
  <2>1. r2.incoming[1].acked = r.incoming[1].acked
    <3>1. CASE m = 1
      BY <1>6, <3>1 DEF f, f2
    <3>2. CASE m # 1
      <4>1. 1 \in 1 .. m /\ 1 # m
        BY <1>1, <3>2
      <4> QED BY <4>1
    <3> QED BY <3>1, <3>2
  <2> QED BY <1>1, <1>4, <2>1 DEF GaveN
<1>12. Coming(r2, m) /\ SegEnd(r2, m) = N + n
  BY <1>1, <1>6, <1>8 DEF Coming, SegEnd, f2
<1>13. ASSUME NEW i \in 1 .. m
       PROVE  IncomingOK(r2, g, i)
  <2>1. CASE i = m
    <3>1. g[GaveJ(r2) + i] = b
      BY <1>1, <1>10, <2>1 DEF b
    <3>2. r2.incoming[i] = f2
      BY <2>1 DEF f2
    <3>3. f2.ack \subseteq f2.acked + 1 .. N + n
      <4>1. \A y \in f.ack : y \in f.acked + 1 .. N + n
        <5> SUFFICES ASSUME NEW y \in f.ack
                     PROVE  y \in f.acked + 1 .. N + n
          OBVIOUS
        <5>1. y \in f.acked + 1 .. N
          BY <1>3
        <5> QED BY <1>1, <1>5, <5>1
      <4>2. N + n \in f.acked + 1 .. N + n
        BY <1>1, <1>2, <1>5
      <4> QED BY <1>6, <4>1, <4>2
    <3>4. f2.total # 0 => f2.total \in f2.ack
      BY <1>6
    <3>5. N + n \in f2.ack
      BY <1>6
    <3>6. /\ Len(f2.data) = N /\ N <= L /\ f2.acked <= Len(f2.data) /\ (i > 1 => f2.acked = 0)
      BY <1>1, <1>2, <1>6, <2>1
    <3>7. \A l \in 1 .. Len(f2.data) : f2.data[l] = Data(b, l)
      BY <1>1, <1>6
    <3> QED BY <1>1, <1>5, <1>6, <1>12, <2>1, <3>1, <3>2, <3>3, <3>4, <3>5, <3>6, <3>7 DEF IncomingOK
  <2>2. CASE i # m
    <3>1. ~Coming(r2, i) /\ ~Coming(r, i)
      BY <2>2 DEF Coming
    <3>2. IncomingOK(r, g, i)
      BY <1>4 DEF RecvOK
    <3> QED BY <1>10, <2>2, <3>1, <3>2, IncomingSame
  <2> QED BY <2>1, <2>2
<1>14. RecvOK(r2, g)
  <2>1. Begun(r2) <= Len(g) /\ GaveJ(r2) >= 0
    BY <1>9, <1>10 DEF RecvOK
  <2>2. r2.rcvTodo <= SegmentLength
    BY Constants
  <2>3. \A i \in DOMAIN r2.rcvd : r2.rcvd[i] = Whole[g[i]]
    BY DEF RecvOK
  <2> QED BY <1>4, <1>8, <1>13, <2>1, <2>2, <2>3 DEF RecvOK
<1> QED BY <1>8, <1>10, <1>11, <1>14 DEF N


\* The next unit of the bundle arrives.
TakesData(r, r2, g, b, N, L, m) ==
    /\ r.rcvTodo # 0 /\ b = g[Len(r.rcvd) + 1] /\ N = RecvN(r) /\ L = Length[b]
    /\ m = Len(r.incoming)
    /\ r2 \in RecvSet /\ r2.rcvTodo = r.rcvTodo - 1 /\ Len(r2.incoming) = m
    /\ \A i \in 1 .. m : i # m => r2.incoming[i] = r.incoming[i]
    /\ r2.incoming[m].data = Append(r.incoming[m].data, Data(b, N + 1))
    /\ r2.incoming[m].acked = r.incoming[m].acked
    /\ r2.incoming[m].ack = r.incoming[m].ack
    /\ r2.incoming[m].total = r.incoming[m].total
    /\ N + 1 # L => r2.rcvd = r.rcvd
    /\ N + 1 = L => r2.rcvd = Append(r.rcvd, r2.incoming[m].data)

TookData(r, r2, N, L) ==
    /\ Len(r2.rcvd) = Len(r.rcvd) + (IF N + 1 = L THEN 1 ELSE 0)
    /\ RecvN(r2) = IF N + 1 = L THEN 0 ELSE N + 1

\* A unit of a bundle on the receiving side, with check_completed.
LEMMA DataTaken ==
    ASSUME NEW r \in RecvSet, NEW g \in Seq(Bundles), RecvOK(r, g),
           NEW b, NEW N, NEW L, NEW m, NEW r2, TakesData(r, r2, g, b, N, L, m)
    PROVE  /\ RecvOK(r2, g) /\ GaveJ(r2) = GaveJ(r) /\ GaveN(r2) = GaveN(r)
           /\ TookData(r, r2, N, L)
<1> USE DEF TakesData
<1> DEFINE f == r.incoming[m]
           f2 == r2.incoming[m]
           t == r.rcvTodo
           v == r.rcvd
           v2 == r2.rcvd
           lr == Len(v)
<1>0. Partial(r)
  BY DEF RecvOK
<1>1. /\ m \in 1 .. m /\ m \in Nat /\ Newcomer(r) = f /\ r.incoming # <<>>
      /\ N = Len(f.data) /\ N \in Nat /\ f.acked \in Nat /\ f.data \in Seq(UnitSet)
      /\ lr + 1 \in 1 .. Len(g) /\ L \in Nat /\ lr \in Nat /\ t \in Nat /\ b \in Bundles
      /\ GaveJ(r) + m = lr + 1
      /\ N < L
  BY <1>0, NewcomerFacts, IncomingTypes
<1>2. \A i \in 1 .. N : f.data[i] = Data(b, i)
  <2>1. \A i \in 1 .. Len(f.data) : f.data[i] = Data(b, i)
    BY <1>0, NewcomerFacts, ZenonT(40)
  <2> QED BY <1>1, <2>1
<1>3. /\ f.total = IF N + t = L THEN L ELSE 0
      /\ N + t <= L
      /\ f.ack \subseteq f.acked + 1 .. N + t
      /\ f.total # 0 => f.total \in f.ack
      /\ N + t \in f.ack
      /\ f.acked <= N /\ (m > 1 => f.acked = 0)
  <2>1. /\ f.total = IF Len(f.data) + t = L THEN L ELSE 0
        /\ Len(f.data) + t <= L
        /\ f.ack \subseteq f.acked + 1 .. Len(f.data) + t
        /\ f.total # 0 => f.total \in f.ack
        /\ Len(f.data) + t \in f.ack
        /\ f.acked <= Len(f.data) /\ (m > 1 => f.acked = 0)
    BY <1>0, NewcomerFacts, Zenon
  <2> QED BY <1>1, <2>1, Zenon
<1>4. /\ DOMAIN r2.incoming = 1 .. m /\ DOMAIN r.incoming = 1 .. m /\ r2.incoming # <<>>
  BY <1>1, IncomingTypes
<1>5. t # 0 /\ r2.rcvTodo = t - 1
  OBVIOUS
<1>6. f2.acked = f.acked /\ f2.ack = f.ack /\ f2.total = f.total /\ f2.data = Append(f.data, Data(b, N + 1))
  OBVIOUS
<1>7. v \in Seq(Seq(UnitSet)) /\ f2.data \in Seq(UnitSet)
  BY <1>1, IncomingTypes
<1>7a. (N + 1 # L => v2 = v) /\ (N + 1 = L => v2 = Append(v, f2.data))
  OBVIOUS
<1>7b. Begun(r2) = Len(v2) + (IF Partial(r2) THEN 1 ELSE 0) /\ Begun(r) = lr + 1
  BY <1>0 DEF Begun
<1> HIDE DEF f, f2, t, lr, v, v2
<1>8. Len(f2.data) = N + 1 /\ \A i \in 1 .. N + 1 : f2.data[i] = Data(b, i)
  BY <1>1, <1>2, <1>6
<1>9. t - 1 \in Nat /\ (N + 1) + (t - 1) = N + t /\ N + 1 <= L /\ N + 1 \in Nat
  BY <1>1, <1>3, <1>5
<1>10. Newcomer(r2) = f2
  BY DEF Newcomer, f2
<1>11. Partial(r2) <=> N + 1 # L
  <2>1. (f2.total = 0 \/ Len(f2.data) < f2.total) <=> N + 1 # L
    BY <1>1, <1>3, <1>5, <1>6, <1>8, SMTT(30)
  <2> QED BY <1>4, <1>10, <2>1 DEF Partial
<1>12. (N + 1 # L => Len(v2) = lr) /\ (N + 1 = L => Len(v2) = lr + 1)
  BY <1>1, <1>7, <1>7a DEF lr
<1>13. RecvN(r2) = IF N + 1 = L THEN 0 ELSE N + 1
  BY <1>8, <1>10, <1>11 DEF RecvN
<1>14. Begun(r2) = lr + 1 /\ Begun(r) = lr + 1
  BY <1>1, <1>7b, <1>11, <1>12
<1>15. GaveJ(r2) = GaveJ(r)
  BY <1>14 DEF GaveJ
<1>16. GaveN(r2) = GaveN(r)
  <2>1. r2.incoming[1].acked = r.incoming[1].acked
    <3>1. CASE m = 1
      BY <1>6, <3>1 DEF f, f2
    <3>2. CASE m # 1
      <4>1. 1 \in 1 .. m /\ 1 # m
        BY <1>1, <3>2
      <4> QED BY <4>1
    <3> QED BY <3>1, <3>2
  <2> QED BY <1>1, <1>4, <2>1 DEF GaveN
<1>17. (Coming(r2, m) <=> N + 1 # L) /\ SegEnd(r2, m) = N + t
  <2>1. Coming(r2, m) <=> N + 1 # L
    BY <1>11 DEF Coming
  <2>2. CASE N + 1 = L
    <3>1. N + t = N + 1
      BY <1>1, <1>3, <1>5, <2>2
    <3>2. SegEnd(r2, m) = (N + 1) + 0
      BY <1>8, <2>1, <2>2 DEF SegEnd, f2
    <3> QED BY <1>1, <2>1, <3>1, <3>2
  <2>3. CASE N + 1 # L
    <3>1. SegEnd(r2, m) = (N + 1) + (t - 1)
      BY <1>5, <1>8, <2>1, <2>3 DEF SegEnd, f2
    <3> QED BY <1>9, <2>1, <3>1
  <2> QED BY <2>2, <2>3
<1>18. ASSUME NEW i \in 1 .. m
       PROVE  IncomingOK(r2, g, i)
  <2>1. CASE i = m
    <3>1. g[GaveJ(r2) + i] = b
      BY <1>1, <1>15, <2>1 DEF lr, v
    <3>2. r2.incoming[i] = f2
      BY <2>1 DEF f2
    <3>3. f2.ack \subseteq f2.acked + 1 .. N + t
      BY <1>3, <1>6
    <3>4. (f2.total # 0 => f2.total \in f2.ack) /\ N + t \in f2.ack
      BY <1>3, <1>6
    <3>5. /\ Len(f2.data) <= L /\ f2.acked <= Len(f2.data) /\ (i > 1 => f2.acked = 0)
      BY <1>1, <1>3, <1>6, <1>8, <1>9, <2>1
    <3>6. \A l \in 1 .. Len(f2.data) : f2.data[l] = Data(b, l)
      BY <1>8
    <3>7. Coming(r2, i) <=> Len(f2.data) < L
      BY <1>1, <1>8, <1>9, <1>17, <2>1
    <3>8. f2.total = IF N + t = L THEN L ELSE 0
      BY <1>3, <1>6
    <3>9. SegEnd(r2, i) = N + t /\ N + t <= L
      BY <1>3, <1>17, <2>1
    <3> QED BY <3>1, <3>2, <3>3, <3>4, <3>5, <3>6, <3>7, <3>8, <3>9, Zenon DEF IncomingOK
  <2>2. CASE i # m
    <3>1. ~Coming(r2, i) /\ ~Coming(r, i)
      BY <2>2 DEF Coming
    <3>2. IncomingOK(r, g, i)
      BY <1>4 DEF RecvOK
    <3> QED BY <1>15, <2>2, <3>1, <3>2, IncomingSame
  <2> QED BY <2>1, <2>2
<1>19. \A i \in DOMAIN v2 : v2[i] = Whole[g[i]]
  <2>1. \A i \in 1 .. lr : v[i] = Whole[g[i]]
    <3>1. DOMAIN v = 1 .. lr
      BY <1>7 DEF lr
    <3> QED BY <3>1 DEF RecvOK, v
  <2>2. CASE N + 1 # L
    <3>1. v2 = v /\ DOMAIN v = 1 .. lr
      BY <1>7, <1>7a, <2>2 DEF lr
    <3> QED BY <2>1, <3>1
  <2>3. CASE N + 1 = L
    <3>1. Whole[b] = [k \in 1 .. L |-> Data(b, k)]
      BY <1>1 DEF Whole
    <3>2. f2.data = [k \in 1 .. L |-> Data(b, k)]
      <4> DEFINE e == f2.data
      <4>1. e \in Seq(UnitSet) /\ Len(e) = L /\ \A i \in 1 .. L : e[i] = Data(b, i)
        BY <1>7, <1>8, <2>3
      <4> HIDE DEF e
      <4>2. e = [k \in 1 .. L |-> Data(b, k)]
        BY <4>1
      <4> QED BY <4>2 DEF e
    <3>3. v2 = Append(v, f2.data)
      BY <1>7a, <2>3
    <3>4. v2[lr + 1] = Whole[g[lr + 1]]
      <4>1. v2[lr + 1] = f2.data
        BY <1>7, <3>3 DEF lr
      <4> QED BY <3>1, <3>2, <4>1 DEF lr, v
    <3>5. ASSUME NEW i \in 1 .. lr + 1
          PROVE  v2[i] = Whole[g[i]]
      <4>1. CASE i = lr + 1
        BY <3>4, <4>1
      <4>2. CASE i # lr + 1
        <5>1. i \in 1 .. lr
          BY <1>1, <4>2
        <5>2. v2[i] = v[i]
          BY <1>7, <3>3, <5>1 DEF lr
        <5> QED BY <2>1, <5>1, <5>2
      <4> QED BY <4>1, <4>2
    <3>6. DOMAIN v2 = 1 .. lr + 1
      BY <1>7, <3>3 DEF lr
    <3> QED BY <3>5, <3>6
  <2> QED BY <2>2, <2>3
<1>20. RecvOK(r2, g)
  <2>1. Begun(r2) <= Len(g) /\ GaveJ(r2) >= 0
    BY <1>14, <1>15 DEF RecvOK
  <2>2. r2.rcvTodo <= SegmentLength
    <3>1. t <= SegmentLength
      BY DEF RecvOK, t
    <3> QED BY <1>1, <1>5, <3>1, Constants
  <2>3. r2.rcvTodo # 0 => Partial(r2)
    <3>1. t - 1 # 0 => N + 1 # L
      BY <1>1, <1>3, <1>5, SMTT(30)
    <3> QED BY <1>5, <1>11, <3>1
  <2> QED BY <1>4, <1>18, <1>19, <2>1, <2>2, <2>3 DEF RecvOK, v2
<1>21. Len(r2.rcvd) = lr + (IF N + 1 = L THEN 1 ELSE 0)
  BY <1>1, <1>12 DEF v2
<1> QED BY <1>13, <1>15, <1>16, <1>20, <1>21 DEF lr, v, TookData


\* At position x the segments "out" of a bundle of length L are to be
\* acknowledged with the units s.
AcksOf(k, x, L, out, l, s) ==
    /\ k.acks /\ k.g \in Seq(Bundles) /\ x.up /\ Resting(x) /\ x.aj < Len(k.g)
    /\ L = Length[k.g[x.aj + 1]] /\ L \in Nat
    /\ out \in Seq(Nat) /\ l = Len(out) /\ l > 0
    /\ \A i \in 1 .. l : out[i] \in x.an + 1 .. L
    /\ \A i, j \in 1 .. l : i < j => out[i] < out[j]
    /\ s = [i \in 1 .. l |-> Ack(out[i])]

\* That leads to y, where the last of them is a.
AckedTo(x, y, L, a) ==
    /\ y \in Position /\ y.up = x.up /\ y.j = x.j /\ y.n = x.n /\ y.t = x.t /\ y.seg = x.seg
    /\ a = L => y.aj = x.aj + 1 /\ y.an = 0
    /\ a # L => y.aj = x.aj /\ y.an = a

\* The acknowledgements of the segments of one bundle, in order.
LEMMA AckRun ==
    ASSUME NEW k, NEW x \in Position, NEW L, NEW out, NEW l, NEW s, AcksOf(k, x, L, out, l, s),
           NEW y, AckedTo(x, y, L, out[l])
    PROVE  s \in Seq(UnitSet) /\ Run(k, x, s, y)
<1> USE DEF AcksOf
<1>0. y = IF out[l] = L THEN [x EXCEPT !.aj = x.aj + 1, !.an = 0] ELSE [x EXCEPT !.an = out[l]]
  <2> DEFINE v == [x EXCEPT !.aj = x.aj + 1, !.an = 0]
             w == [x EXCEPT !.an = out[l]]
  <2>1. x.aj + 1 \in Nat /\ out[l] \in Nat
    BY SMTT(30) DEF Position
  <2>2. v \in Position /\ w \in Position
    BY <2>1 DEF Position
  <2>3. /\ v.up = x.up /\ v.j = x.j /\ v.n = x.n /\ v.t = x.t /\ v.seg = x.seg /\ v.aj = x.aj + 1 /\ v.an = 0
        /\ w.up = x.up /\ w.j = x.j /\ w.n = x.n /\ w.t = x.t /\ w.seg = x.seg /\ w.aj = x.aj /\ w.an = out[l]
    BY DEF Position
  <2> HIDE DEF v, w
  <2>4. y \in Position /\ (out[l] = L => y = v) /\ (out[l] # L => y = w)
    BY <2>2, <2>3, SamePosition, ZenonT(40) DEF AckedTo
  <2> QED BY <2>4 DEF v, w
<1> DEFINE z(n) == [x EXCEPT !.an = n]
           p == [i \in 1 .. l + 1 |-> IF i = 1 THEN x ELSE IF i = l + 1 THEN y ELSE z(out[i - 1])]
<1>1. l \in Nat /\ \A i \in 1 .. l : out[i] \in Nat
  OBVIOUS
<1>2. x.aj \in Nat /\ x.an \in Nat
  BY DEF Position
<1>3. y \in Position /\ \A n \in Nat : z(n) \in Position
  <2>1. y \in Position
    BY DEF AckedTo
  <2> QED BY <2>1 DEF Position
<1>4. s \in Seq(UnitSet) /\ Len(s) = l
  <2>1. \A i \in 1 .. l : Ack(out[i]) \in UnitSet
    BY <1>1 DEF UnitSet
  <2>2. s \in [1 .. l -> UnitSet]
    BY <2>1
  <2> QED BY <1>1, <2>2, SMTT(30)
<1>5. p \in [1 .. l + 1 -> Position]
  <2>1. ASSUME NEW i \in 1 .. l + 1, i # 1, i # l + 1
        PROVE  i - 1 \in 1 .. l
    BY <1>1, <2>1
  <2> HIDE DEF z
  <2> QED BY <1>1, <1>3, <2>1
<1>6. p[1] = x /\ p[l + 1] = y
  BY <1>1
<1>7. ASSUME NEW i \in 1 .. l
      PROVE  AckMove(k, p[i], s[i], p[i + 1])
  <2> DEFINE u == s[i]
             v == p[i]
             w == p[i + 1]
  <2>1. u.unit = "ack" /\ u.n = out[i]
    BY DEF Ack
  <2>2. v.up /\ Resting(v) /\ v.aj = x.aj /\ v = [x EXCEPT !.an = v.an] /\ v.an \in Nat /\ v.an < out[i]
    <3>1. CASE i = 1
      <4>1. v = x
        BY <1>1, <3>1
      <4>2. x = [x EXCEPT !.an = x.an]
        BY DEF Position
      <4>3. x.an < out[i]
        BY <1>2, <1>1
      <4> HIDE DEF v
      <4> QED BY <1>2, <4>1, <4>2, <4>3
    <3>2. CASE i # 1
      <4>1. i - 1 \in 1 .. l /\ i - 1 < i /\ i # l + 1 /\ i \in 1 .. l + 1
        BY <1>1, <3>2
      <4>2. v = z(out[i - 1])
        BY <3>2, <4>1
      <4>3. out[i - 1] \in Nat /\ out[i - 1] < out[i]
        BY <1>1, <4>1
      <4> HIDE DEF v
      <4> QED BY <4>2, <4>3 DEF Position, Resting
    <3> QED BY <3>1, <3>2
  <2>3. out[i] \in Nat /\ out[i] <= L
    BY <1>1, <1>2
  <2>4. CASE i = l
    <3>1. w = y
      BY <1>1, <2>4
    <3>2. y = IF out[i] = L THEN [v EXCEPT !.aj = @ + 1, !.an = 0] ELSE [v EXCEPT !.an = out[i]]
      <4> HIDE DEF v
      <4> QED BY <1>0, <2>2, <2>4 DEF Position
    <3> HIDE DEF u, v, w
    <3>3. u.n \in v.an + 1 .. L
      BY <2>1, <2>2, <2>3
    <3>4. AckMove(k, v, u, w)
      BY <2>1, <2>2, <3>1, <3>2, <3>3 DEF AckMove
    <3> QED BY <3>4 DEF u, v, w
  <2>5. CASE i # l
    <3>1. i + 1 \in 1 .. l /\ i < i + 1 /\ i + 1 # 1 /\ i + 1 # l + 1 /\ i + 1 \in 1 .. l + 1 /\ (i + 1) - 1 = i
      BY <1>1, <2>5
    <3>2. w = z(out[i])
      BY <3>1
    <3>3. out[i] < out[i + 1] /\ out[i + 1] <= L /\ out[i + 1] \in Nat
      BY <1>1, <1>2, <3>1
    <3>4. out[i] # L
      BY <2>3, <3>3
    <3>5. z(out[i]) = [v EXCEPT !.an = out[i]]
      <4> HIDE DEF v
      <4> QED BY <2>2 DEF Position
    <3> HIDE DEF u, v, w, z
    <3>6. u.n \in v.an + 1 .. L
      BY <2>1, <2>2, <2>3
    <3>7. AckMove(k, v, u, w)
      BY <2>1, <2>2, <3>2, <3>4, <3>5, <3>6 DEF AckMove
    <3> QED BY <3>7 DEF u, v, w
  <2> QED BY <2>4, <2>5
<1> HIDE DEF p
<1>8. Run(k, x, s, y)
  BY <1>4, <1>5, <1>6, <1>7 DEF Run, Move
<1> QED BY <1>4, <1>8

\* Some of the segments of the oldest bundle are acknowledged, and not all.
AcksSome(r, r2, m, f, A, a) ==
    /\ m = Len(r.incoming) /\ m >= 1 /\ f = r.incoming[1]
    /\ A \subseteq f.ack /\ a \in A
    /\ \A y \in A : y <= a /\ y <= Len(f.data)
    /\ \A y \in f.ack \ A : a < y
    /\ f.total = 0 \/ f.total # a
    /\ r2.rcvTodo = r.rcvTodo /\ r2.rcvd = r.rcvd /\ Len(r2.incoming) = m
    /\ \A i \in 2 .. m : r2.incoming[i] = r.incoming[i]
    /\ r2.incoming[1].data = f.data /\ r2.incoming[1].total = f.total
    /\ r2.incoming[1].acked = a /\ r2.incoming[1].ack = f.ack \ A

\* send_pending_acks on the receiving side: the bundle stays.
LEMMA SegmentsAcked ==
    ASSUME NEW r \in RecvSet, NEW g \in Seq(Bundles), RecvOK(r, g), NEW r2 \in RecvSet,
           NEW m, NEW f, NEW A, NEW a, AcksSome(r, r2, m, f, A, a)
    PROVE  /\ RecvOK(r2, g) /\ GaveJ(r2) = GaveJ(r) /\ GaveN(r2) = a /\ RecvN(r2) = RecvN(r)
           /\ a # Length[g[GaveJ(r) + 1]]
<1> USE DEF AcksSome
<1> DEFINE f2 == r2.incoming[1]
           L == Length[g[GaveJ(r) + 1]]
           N == Len(f.data)
           E == SegEnd(r, 1)
<1>1. /\ m \in Nat /\ 1 \in 1 .. m /\ DOMAIN r.incoming = 1 .. m /\ DOMAIN r2.incoming = 1 .. m
      /\ r.incoming # <<>> /\ r2.incoming # <<>>
      /\ N \in Nat /\ f.total \in Nat /\ f.ack \in SUBSET Nat /\ f.acked \in Nat
      /\ r.rcvTodo \in Nat
  <2>1. /\ m \in Nat /\ DOMAIN r.incoming = 1 .. m /\ (r.incoming # <<>> <=> m > 0)
        /\ Len(r2.incoming) \in Nat /\ DOMAIN r2.incoming = 1 .. Len(r2.incoming)
        /\ (r2.incoming # <<>> <=> Len(r2.incoming) > 0) /\ r.rcvTodo \in Nat
    BY IncomingTypes
  <2>2. 1 \in 1 .. m
    BY <2>1
  <2>3. N \in Nat /\ f.total \in Nat /\ f.ack \in SUBSET Nat /\ f.acked \in Nat
    BY <2>2, IncomingTypes
  <2> QED BY <2>1, <2>2, <2>3
<1>2. L \in Nat /\ L > 0
  BY <1>1, RecvNumbers
<1>3. IncomingOK(r, g, 1)
  BY <1>1 DEF RecvOK
<1>4. /\ N <= L /\ (Coming(r, 1) <=> N < L) /\ E <= L /\ (f.total = IF E = L THEN L ELSE 0)
      /\ f.ack \subseteq f.acked + 1 .. E /\ (f.total # 0 => f.total \in f.ack)
      /\ (Coming(r, 1) /\ r.rcvTodo # 0 => E \in f.ack)
  BY <1>3, Zenon DEF IncomingOK
<1>5. E = N + (IF Coming(r, 1) THEN r.rcvTodo ELSE 0)
  BY DEF SegEnd
<1>6. a \in Nat /\ a <= N /\ a # L
  <2>1. a \in Nat /\ a <= N
    BY <1>1
  <2>2. a = L => E = L /\ f.total = L
    BY <1>1, <1>2, <1>4, <1>5, <2>1
  <2> QED BY <1>2, <2>1, <2>2
<1>7. Newcomer(r2).data = Newcomer(r).data /\ Newcomer(r2).total = Newcomer(r).total
  <2>1. CASE m = 1
    BY <2>1 DEF Newcomer
  <2>2. CASE m # 1
    <3>1. m \in 2 .. m
      <4> HIDE DEF f2, L, N, E
      <4>1. m \in Nat /\ m >= 1 /\ m # 1
        BY <1>1, <2>2
      <4> QED BY <4>1, Predecessor, Zenon
    <3> QED BY <3>1 DEF Newcomer
  <2> QED BY <2>1, <2>2
<1>8. (Partial(r2) <=> Partial(r)) /\ RecvN(r2) = RecvN(r)
  BY <1>1, <1>7 DEF Partial, RecvN
<1>9. Begun(r2) = Begun(r)
  BY <1>8 DEF Begun
<1>10. GaveJ(r2) = GaveJ(r) /\ GaveN(r2) = a
  BY <1>1, <1>9 DEF GaveJ, GaveN
<1>11. \A i \in 1 .. m : Coming(r2, i) <=> Coming(r, i)
  BY <1>8 DEF Coming
<1>12. ASSUME NEW i \in 1 .. m
       PROVE  IncomingOK(r2, g, i)
  <2>1. CASE i = 1
    <3>1. SegEnd(r2, 1) = E
      BY <1>1, <1>11 DEF SegEnd
    <3>2. f2.ack \subseteq a + 1 .. E
      <4> SUFFICES ASSUME NEW y \in f.ack \ A
                   PROVE  y \in a + 1 .. E
        OBVIOUS
      <4>1. y \in f.acked + 1 .. E /\ a < y
        BY <1>4
      <4>2. E \in Nat
        BY <1>1, <1>5, SMTT(30)
      <4> HIDE DEF E
      <4> QED BY <1>1, <1>6, <4>1, <4>2
    <3>3. f.total # 0 => f.total \in f2.ack
      <4> SUFFICES ASSUME f.total # 0, f.total \in A
                   PROVE  FALSE
        BY <1>4
      <4>1. f.total <= a /\ f.total = L
        BY <1>4
      <4> QED BY <1>2, <1>4, <1>6, <1>1, <4>1
    <3>4. Coming(r2, 1) /\ r2.rcvTodo # 0 => E \in f2.ack
      <4> SUFFICES ASSUME Coming(r, 1), r.rcvTodo # 0, E \in A
                   PROVE  FALSE
        BY <1>1, <1>4, <1>11
      <4>1. E <= N
        OBVIOUS
      <4> HIDE DEF N
      <4> QED BY <1>1, <1>5, <4>1
    <3>5. f2.data = f.data /\ f2.total = f.total /\ f2.acked = a /\ r2.incoming[1] = f2
      OBVIOUS
    <3>6. g[GaveJ(r2) + 1] = g[GaveJ(r) + 1]
      BY <1>10
    <3>7. \A n \in 1 .. N : f.data[n] = Data(g[GaveJ(r) + 1], n)
      BY <1>3, Zenon DEF IncomingOK
    <3>8. Coming(r2, 1) <=> N < L
      BY <1>1, <1>4, <1>11
    <3>9. ~(1 > 1)
      OBVIOUS
    <3> HIDE DEF f2, E, N
    <3>10. IncomingOK(r2, g, 1)
      <4>1. Len(f2.data) = N
        BY <3>5 DEF N
      <4> QED BY <1>4, <1>6, <3>1, <3>2, <3>3, <3>4, <3>5, <3>6, <3>7, <3>8, <3>9, <4>1, Zenon DEF IncomingOK
    <3> QED BY <2>1, <3>10
  <2>2. CASE i # 1
    <3>1. i \in 2 .. m
      BY <1>1, <2>2
    <3>2. r2.incoming[i] = r.incoming[i]
      BY <3>1
    <3>3. IncomingOK(r, g, i)
      BY <1>1 DEF RecvOK
    <3> QED BY <1>10, <1>11, <3>2, <3>3, IncomingSame
  <2> QED BY <2>1, <2>2
<1>13. RecvOK(r2, g)
  <2>1. /\ Begun(r2) <= Len(g) /\ GaveJ(r2) >= 0 /\ r2.rcvTodo <= SegmentLength
        /\ \A i \in DOMAIN r2.rcvd : r2.rcvd[i] = Whole[g[i]]
    BY <1>9, <1>10 DEF RecvOK
  <2>2. r2.rcvTodo # 0 => Partial(r2)
    BY <1>8 DEF RecvOK
  <2> QED BY <1>1, <1>12, <2>1, <2>2 DEF RecvOK
<1> QED BY <1>6, <1>8, <1>10, <1>13

\* All of the oldest bundle is acknowledged.
AcksAll(r, r2, m, f) ==
    /\ m = Len(r.incoming) /\ m >= 1 /\ f = r.incoming[1]
    /\ f.total # 0 /\ f.total <= Len(f.data)
    /\ r2.rcvTodo = r.rcvTodo /\ r2.rcvd = r.rcvd /\ Len(r2.incoming) = m - 1
    /\ \A i \in 1 .. m - 1 : r2.incoming[i] = r.incoming[i + 1]

\* send_pending_acks on the receiving side: all of the bundle is acknowledged
\* and it leaves.
LEMMA BundleAcked ==
    ASSUME NEW r \in RecvSet, NEW g \in Seq(Bundles), RecvOK(r, g), NEW r2 \in RecvSet,
           NEW m, NEW f, AcksAll(r, r2, m, f)
    PROVE  /\ RecvOK(r2, g) /\ GaveJ(r2) = GaveJ(r) + 1 /\ GaveN(r2) = 0 /\ RecvN(r2) = RecvN(r)
           /\ f.total = Length[g[GaveJ(r) + 1]]
<1> USE DEF AcksAll
<1> DEFINE L == Length[g[GaveJ(r) + 1]]
           N == Len(f.data)
<1>1. /\ m \in Nat /\ 1 \in 1 .. m /\ DOMAIN r.incoming = 1 .. m /\ DOMAIN r2.incoming = 1 .. m - 1
      /\ r.incoming # <<>> /\ (r2.incoming # <<>> <=> m # 1)
      /\ N \in Nat /\ f.total \in Nat /\ r.rcvTodo \in Nat
  <2>1. /\ m \in Nat /\ DOMAIN r.incoming = 1 .. m /\ (r.incoming # <<>> <=> m > 0)
        /\ Len(r2.incoming) \in Nat /\ DOMAIN r2.incoming = 1 .. Len(r2.incoming)
        /\ (r2.incoming # <<>> <=> Len(r2.incoming) > 0) /\ r.rcvTodo \in Nat
    BY IncomingTypes
  <2>2. 1 \in 1 .. m /\ (m - 1 > 0 <=> m # 1)
    <3>1. 1 \in 1 .. m
      BY <2>1
    <3> QED BY <2>1, <3>1, Predecessor, Zenon
  <2>3. N \in Nat /\ f.total \in Nat
    BY <2>2, IncomingTypes
  <2> QED BY <2>1, <2>2, <2>3
<1>2. L \in Nat /\ L > 0
  BY <1>1, RecvNumbers
<1>3. IncomingOK(r, g, 1)
  BY <1>1 DEF RecvOK
<1>4. f.total = L /\ N = L /\ ~Coming(r, 1)
  <2>1. /\ N <= L /\ (Coming(r, 1) <=> N < L) /\ (f.total = IF SegEnd(r, 1) = L THEN L ELSE 0)
    BY <1>3, Zenon DEF IncomingOK
  <2> QED BY <1>1, <1>2, <2>1
<1>5. m = 1 => ~Partial(r)
  BY <1>4 DEF Coming
<1>6. m # 1 => Newcomer(r2) = Newcomer(r)
  <2> SUFFICES ASSUME m # 1
               PROVE  Newcomer(r2) = Newcomer(r)
    OBVIOUS
  <2>1. m - 1 \in 1 .. m - 1 /\ (m - 1) + 1 = m
    BY <1>1
  <2>2. r2.incoming[m - 1] = r.incoming[(m - 1) + 1]
    BY <2>1
  <2> QED BY <2>1, <2>2 DEF Newcomer
<1>7. Partial(r2) <=> Partial(r)
  <2>1. CASE m = 1
    BY <1>1, <1>5, <2>1 DEF Partial
  <2>2. CASE m # 1
    BY <1>1, <1>6, <2>2 DEF Partial
  <2> QED BY <2>1, <2>2
<1>8. RecvN(r2) = RecvN(r)
  BY <1>5, <1>6, <1>7 DEF RecvN
<1>9. Begun(r2) = Begun(r) /\ Begun(r) \in Nat
  BY <1>7, RecvNumbers DEF Begun
<1>10. GaveJ(r2) = GaveJ(r) + 1 /\ GaveJ(r) \in Nat
  <2>1. GaveJ(r2) = Begun(r) - (m - 1) /\ GaveJ(r) = Begun(r) - m /\ GaveJ(r) \in Nat
    BY <1>9, RecvNumbers DEF GaveJ
  <2> QED BY <1>1, <1>9, <2>1
<1>11. ASSUME NEW i \in 1 .. m - 1
       PROVE  IncomingOK(r2, g, i) /\ r2.incoming[i].acked = 0
  <2>1. i + 1 \in 1 .. m /\ i + 1 > 1 /\ (i = m - 1 <=> i + 1 = m)
    BY <1>1
  <2>2. r2.incoming[i] = r.incoming[i + 1]
    OBVIOUS
  <2>3. IncomingOK(r, g, i + 1)
    BY <1>1, <2>1 DEF RecvOK
  <2>4. Coming(r2, i) <=> Coming(r, i + 1)
    BY <1>7, <2>1 DEF Coming
  <2>5. GaveJ(r2) + i = GaveJ(r) + (i + 1)
    BY <1>1, <1>10
  <2>6. IncomingOK(r2, g, i)
    BY <2>1, <2>2, <2>3, <2>4, <2>5, IncomingSame
  <2>7. r.incoming[i + 1].acked = 0
    BY <2>1, <2>3, Zenon DEF IncomingOK
  <2> QED BY <2>2, <2>6, <2>7
<1>12. GaveN(r2) = 0
  <2>1. CASE m = 1
    BY <1>1, <2>1 DEF GaveN
  <2>2. CASE m # 1
    <3>1. 1 \in 1 .. m - 1
      BY <1>1, <2>2
    <3> QED BY <1>11, <3>1 DEF GaveN
  <2> QED BY <2>1, <2>2
<1>13. RecvOK(r2, g)
  <2>1. /\ Begun(r2) <= Len(g) /\ r2.rcvTodo <= SegmentLength
        /\ \A i \in DOMAIN r2.rcvd : r2.rcvd[i] = Whole[g[i]]
    BY <1>9 DEF RecvOK
  <2>2. r2.rcvTodo # 0 => Partial(r2)
    BY <1>7 DEF RecvOK
  <2>3. GaveJ(r2) >= 0
    BY <1>10
  <2> QED BY <1>1, <1>11, <2>1, <2>2, <2>3 DEF RecvOK
<1> QED BY <1>4, <1>8, <1>10, <1>12, <1>13

\* An end acknowledges no more than it has.
LEMMA GaveBelowReceived ==
    ASSUME NEW r \in RecvSet, NEW g \in Seq(Bundles), RecvOK(r, g)
    PROVE  GaveJ(r) <= Len(r.rcvd) /\ Below(GaveJ(r), GaveN(r), Len(r.rcvd), RecvN(r))
<1> DEFINE m == Len(r.incoming)
           G == GaveJ(r)
           lr == Len(r.rcvd)
<1>1. m \in Nat /\ G \in Nat /\ lr \in Nat /\ (G + m = lr + (IF Partial(r) THEN 1 ELSE 0))
      /\ (Partial(r) => m > 0) /\ (m = 0 <=> r.incoming = <<>>)
  <2>1. m \in Nat /\ lr \in Nat /\ (r.incoming # <<>> <=> m > 0)
    BY IncomingTypes
  <2>2. G \in Nat /\ G + m = lr + (IF Partial(r) THEN 1 ELSE 0)
    BY RecvNumbers
  <2>3. Partial(r) => r.incoming # <<>>
    BY DEF Partial
  <2> HIDE DEF m, G, lr
  <2> QED BY <2>1, <2>2, <2>3
<1>2. CASE m = 0
  <2>1. G = lr /\ GaveN(r) = 0 /\ RecvN(r) = 0
    <3>1. GaveN(r) = 0 /\ RecvN(r) = 0
      BY <1>1, <1>2 DEF GaveN, RecvN, Partial
    <3> HIDE DEF m, G, lr
    <3> QED BY <1>1, <1>2, <3>1
  <2> QED BY <1>1, <2>1 DEF Below
<1>3. CASE m = 1 /\ Partial(r)
  <2>1. GaveN(r) = r.incoming[1].acked /\ RecvN(r) = Len(r.incoming[1].data)
    BY <1>1, <1>3 DEF GaveN, RecvN, Newcomer
  <2>2. r.incoming[1].acked <= Len(r.incoming[1].data)
    BY <1>3, NewcomerFacts
  <2>3. G = lr
    <3> HIDE DEF m, G, lr
    <3> QED BY <1>1, <1>3
  <2> QED BY <1>1, <2>1, <2>2, <2>3 DEF Below
<1>4. CASE m > 0 /\ ~(m = 1 /\ Partial(r))
  <2>1. G < lr
    <3> HIDE DEF m, G, lr
    <3> QED BY <1>1, <1>4
  <2> QED BY <1>1, <2>1 DEF Below
<1> QED BY <1>1, <1>2, <1>3, <1>4


(***************************************************************************)
(* The two ends.                                                           *)
(***************************************************************************)
\* What an operation on a running connection leaves alone.
Alike(c, c2) ==
    /\ c2.contact = c.contact /\ c2.par = c.par /\ c2.initiated = c.initiated
    /\ c2.up = c.up /\ c2.broken = c.broken /\ c2.closed = c.closed /\ c2.ok = c.ok

\* The two sides of a connection.
LEMMA SideTypes ==
    ASSUME NEW c \in ConnSet
    PROVE  /\ SendSide(c) \in SendSet /\ RecvSide(c) \in RecvSet
           /\ SendSide(c).inflight = c.inflight /\ SendSide(c).current = c.current
           /\ SendSide(c).todo = c.todo /\ RecvSide(c).incoming = c.incoming
           /\ RecvSide(c).rcvTodo = c.rcvTodo /\ RecvSide(c).rcvd = c.rcvd
           /\ c.wire \in Seq(UnitSet) /\ c.sendbuf \in Seq(UnitSet) /\ c.recvbuf \in Seq(UnitSet)
           /\ Out(c) \in Seq(UnitSet)
           /\ c.up \in BOOLEAN /\ c.initiated \in BOOLEAN /\ c.par.acks \in BOOLEAN
           /\ c.closed \in BOOLEAN
<1>1. c.wire \in Seq(UnitSet) /\ c.sendbuf \in Seq(UnitSet) /\ c.recvbuf \in Seq(UnitSet)
  BY DEF ConnSet
<1>2. Out(c) \in Seq(UnitSet)
  <2> DEFINE v == c.wire
             w == c.sendbuf
  <2>1. v \in Seq(UnitSet) /\ w \in Seq(UnitSet)
    BY <1>1
  <2> HIDE DEF v, w
  <2>2. v \o w \in Seq(UnitSet)
    BY <2>1
  <2> QED BY <2>2 DEF Out, v, w
<1>3. SendSide(c) \in SendSet /\ RecvSide(c) \in RecvSet
  BY DEF ConnSet, SendSide, RecvSide, SendSet, RecvSet
<1>4. /\ SendSide(c).inflight = c.inflight /\ SendSide(c).current = c.current
      /\ SendSide(c).todo = c.todo /\ RecvSide(c).incoming = c.incoming
      /\ RecvSide(c).rcvTodo = c.rcvTodo /\ RecvSide(c).rcvd = c.rcvd
  BY DEF SendSide, RecvSide
<1>5. c.up \in BOOLEAN /\ c.initiated \in BOOLEAN /\ c.par \in AllParams /\ c.closed \in BOOLEAN
  BY DEF ConnSet
<1>6. c.par.acks \in BOOLEAN
  BY <1>5 DEF AllParams
<1> QED BY <1>1, <1>2, <1>3, <1>4, <1>5, <1>6

\* The parts of a lane.
LEMMA LaneFields ==
    ASSUME NEW h, NEW g, NEW own, NEW other
    PROVE  /\ LaneOf(h, g, own, other).h = h /\ LaneOf(h, g, own, other).g = g
           /\ LaneOf(h, g, own, other).own = own
           /\ LaneOf(h, g, own, other).acks <=> own /\ other
           /\ LaneOf(h, g, own, other).acks \in BOOLEAN
BY DEF LaneOf

\* An end that runs stays as it should be when its two sides do.
LEMMA EndRuns ==
    ASSUME NEW c, NEW h, NEW g \in Seq(Bundles), NEW own, NEW other, EndOK(c, h, g, own, other),
           c.up, c.broken = "no", NEW c2 \in ConnSet, Alike(c, c2), NEW h2,
           SendOK(SendSide(c2), c.par.acks, h2), RecvOK(RecvSide(c2), g)
    PROVE  EndOK(c2, h2, g, own, other)
<1>1. ~c2.closed /\ c2.up /\ c2.broken = "no" /\ c2.par = c.par /\ c2.initiated /\ c2.contact /\ c2.ok
  <2>1. c \in ConnSet /\ ~c.closed
    BY DEF EndOK
  <2>2. c.initiated /\ c.contact /\ c.ok
    BY DEF EndOK
  <2> QED BY <2>1, <2>2, SideTypes DEF Alike
<1>2. c2.par.acks = IF c2.up THEN own /\ other ELSE own
  BY <1>1 DEF EndOK
<1>3. RcvdOK(c2.rcvd, c2.closed, g)
  <2> DEFINE r == RecvSide(c2)
  <2>1. r \in RecvSet /\ r.rcvd = c2.rcvd
    BY SideTypes
  <2>2. Len(r.rcvd) <= Len(g)
    BY <2>1, RecvNumbers
  <2>3. \A i \in DOMAIN r.rcvd : r.rcvd[i] = Whole[g[i]]
    BY DEF RecvOK
  <2> HIDE DEF r
  <2> QED BY <2>1, <2>2, <2>3 DEF RcvdOK
<1> QED BY <1>1, <1>2, <1>3 DEF EndOK

\* More bundles of the peer change nothing for what was received.
LEMMA RecvExtends ==
    ASSUME NEW r \in RecvSet, NEW g \in Seq(Bundles), NEW g2 \in Seq(Bundles),
           RecvOK(r, g), Extends(g, g2)
    PROVE  RecvOK(r, g2)
<1>1. \A i \in DOMAIN r.incoming : IncomingOK(r, g2, i)
  <2> SUFFICES ASSUME NEW i \in DOMAIN r.incoming
               PROVE  IncomingOK(r, g2, i)
    OBVIOUS
  <2>1. i \in 1 .. Len(r.incoming)
    BY IncomingTypes
  <2>2. GaveJ(r) + i \in 1 .. Len(g)
    BY <2>1, RecvNumbers
  <2>3. g2[GaveJ(r) + i] = g[GaveJ(r) + i]
    BY <2>2 DEF Extends
  <2>4. IncomingOK(r, g, i)
    BY DEF RecvOK
  <2> QED BY <2>3, <2>4, Zenon DEF IncomingOK
<1>2. \A i \in DOMAIN r.rcvd : r.rcvd[i] = Whole[g2[i]]
  <2> SUFFICES ASSUME NEW i \in DOMAIN r.rcvd
               PROVE  r.rcvd[i] = Whole[g2[i]]
    OBVIOUS
  <2>1. i \in 1 .. Len(g)
    <3>1. i \in 1 .. Len(r.rcvd) /\ Len(r.rcvd) \in Nat
      BY IncomingTypes
    <3>2. Len(r.rcvd) <= Len(g)
      BY RecvNumbers, Zenon
    <3>3. Len(g) \in Nat
      OBVIOUS
    <3> QED BY <3>1, <3>2, <3>3
  <2>2. g2[i] = g[i]
    BY <2>1 DEF Extends
  <2> QED BY <2>2 DEF RecvOK
<1>3. Begun(r) <= Len(g2)
  <2>1. Begun(r) \in Nat /\ Begun(r) <= Len(g)
    BY RecvNumbers DEF RecvOK
  <2>2. Len(g) \in Nat /\ Len(g2) \in Nat /\ Len(g) <= Len(g2)
    BY DEF Extends
  <2> QED BY <2>1, <2>2
<1> QED BY <1>1, <1>2, <1>3 DEF RecvOK

\* An end stays as it should be when its peer begins more bundles.
LEMMA EndExtends ==
    ASSUME NEW d, NEW h, NEW g \in Seq(Bundles), NEW g2 \in Seq(Bundles), NEW own, NEW other,
           EndOK(d, h, g, own, other), Extends(g, g2)
    PROVE  EndOK(d, h, g2, own, other)
<1>1. d \in ConnSet
  BY DEF EndOK
<1>2. ~d.closed => RecvOK(RecvSide(d), g2)
  BY <1>1, SideTypes, RecvExtends DEF EndOK
<1>3. RcvdOK(d.rcvd, d.closed, g2)
  <2> DEFINE v == d.rcvd
  <2>1. v \in Seq(Seq(UnitSet)) /\ RcvdOK(v, d.closed, g)
    BY <1>1 DEF EndOK, ConnSet
  <2> HIDE DEF v
  <2>2. /\ Len(v) \in Nat /\ DOMAIN v = 1 .. Len(v) /\ Len(v) <= Len(g) /\ Len(g) \in Nat /\ Len(g2) \in Nat
        /\ Len(g) <= Len(g2)
    BY <2>1 DEF RcvdOK, Extends
  <2>3. \A i \in DOMAIN v : g2[i] = g[i]
    BY <2>2 DEF Extends
  <2>4. Len(v) <= Len(g2)
    BY <2>2
  <2>5. RcvdOK(v, d.closed, g2)
    BY <2>1, <2>3, <2>4 DEF RcvdOK
  <2> QED BY <2>5 DEF v
<1> QED BY <1>2, <1>3 DEF EndOK


\* Everything is said of both ends.
LEMMA PairSwap ==
    ASSUME NEW c, NEW d, NEW h, NEW g, NEW own, NEW other, PairOK(c, d, h, g, own, other)
    PROVE  PairOK(d, c, g, h, other, own)
BY DEF PairOK

\* The place after what an end wrote.
LEMMA WroteFields ==
    ASSUME NEW c, NEW h, NEW g, NEW own, NEW other
    PROVE  LET k == LaneOf(h, g, own, other) IN
           /\ WroteTo(c, k).up = c.initiated /\ WroteTo(c, k).seg = "no"
           /\ WroteTo(c, k).j = SentJ(SendSide(c), h) /\ WroteTo(c, k).n = SentN(SendSide(c))
           /\ WroteTo(c, k).t = c.todo
           /\ own /\ other => /\ WroteTo(c, k).aj = GaveJ(RecvSide(c))
                              /\ WroteTo(c, k).an = GaveN(RecvSide(c))
           /\ ~(own /\ other) => WroteTo(c, k).aj = 0 /\ WroteTo(c, k).an = 0
BY DEF WroteTo, SenderAt, LaneOf, SendSide

\* The place before what an end reads.
LEMMA ReadsFields ==
    ASSUME NEW c, NEW h, NEW g, NEW own, NEW other
    PROVE  LET k == LaneOf(h, g, own, other) IN
           /\ ReadsFrom(c, k).up = c.up /\ ReadsFrom(c, k).seg = "no"
           /\ ReadsFrom(c, k).j = Len(c.rcvd) /\ ReadsFrom(c, k).n = RecvN(RecvSide(c))
           /\ ReadsFrom(c, k).t = c.rcvTodo
           /\ own /\ other => /\ ReadsFrom(c, k).aj = AckedJ(SendSide(c), g)
                              /\ ReadsFrom(c, k).an = AckedN(SendSide(c))
           /\ ~(own /\ other) => ReadsFrom(c, k).aj = 0 /\ ReadsFrom(c, k).an = 0
BY DEF ReadsFrom, ReceiverAt, LaneOf, RecvSide

\* They are positions, and the same when what they are made of is.
LEMMA WroteIs ==
    ASSUME NEW c \in ConnSet, NEW h \in Seq(Bundles), NEW g \in Seq(Bundles),
           NEW own \in BOOLEAN, NEW other \in BOOLEAN, NEW acks \in BOOLEAN,
           SendOK(SendSide(c), acks, h), RecvOK(RecvSide(c), g)
    PROVE  WroteTo(c, LaneOf(h, g, own, other)) \in Position
<1> DEFINE k == LaneOf(h, g, own, other)
           s == SendSide(c)
           r == RecvSide(c)
<1>1. /\ s \in SendSet /\ r \in RecvSet /\ c.initiated \in BOOLEAN /\ s.todo \in Nat
  BY SideTypes, FlightTypes
<1>2. SentJ(s, h) \in Nat /\ SentN(s) \in Nat /\ GaveJ(r) \in Nat /\ GaveN(r) \in Nat
  BY <1>1, SendNumbers, RecvNumbers
<1>3. (IF k.acks THEN GaveJ(r) ELSE 0) \in Nat /\ (IF k.acks THEN GaveN(r) ELSE 0) \in Nat
  BY <1>2
<1>4. k.h = h
  BY LaneFields
<1> HIDE DEF k, s, r
<1>5. SenderAt(c.initiated, s, r, k) \in Position
  BY <1>1, <1>2, <1>3, <1>4 DEF SenderAt, Position
<1> QED BY <1>5 DEF WroteTo, k, s, r

\* The place before what an end reads is one.
LEMMA ReadsIs ==
    ASSUME NEW c \in ConnSet, NEW h \in Seq(Bundles), NEW g \in Seq(Bundles),
           NEW own \in BOOLEAN, NEW other \in BOOLEAN, NEW acks \in BOOLEAN,
           SendOK(SendSide(c), acks, g), RecvOK(RecvSide(c), h)
    PROVE  ReadsFrom(c, LaneOf(h, g, own, other)) \in Position
<1> DEFINE k == LaneOf(h, g, own, other)
           s == SendSide(c)
           r == RecvSide(c)
<1>1. /\ s \in SendSet /\ r \in RecvSet /\ c.up \in BOOLEAN /\ r.rcvTodo \in Nat /\ Len(r.rcvd) \in Nat
  BY SideTypes, IncomingTypes
<1>2. AckedJ(s, g) \in Nat /\ AckedN(s) \in Nat /\ RecvN(r) \in Nat
  BY <1>1, SendNumbers, RecvNumbers
<1>3. (IF k.acks THEN AckedJ(s, g) ELSE 0) \in Nat /\ (IF k.acks THEN AckedN(s) ELSE 0) \in Nat
  BY <1>2
<1>4. k.g = g
  BY LaneFields
<1> HIDE DEF k, s, r
<1>5. ReceiverAt(c.up, s, r, k) \in Position
  BY <1>1, <1>2, <1>3, <1>4 DEF ReceiverAt, Position
<1> QED BY <1>5 DEF ReadsFrom, k, s, r

\* A running end, as PairOK has it.
LEMMA EndFacts ==
    ASSUME NEW c, NEW d, NEW h, NEW g, NEW own, NEW other, PairOK(c, d, h, g, own, other),
           c.broken = "no"
    PROVE  /\ c \in ConnSet /\ d \in ConnSet /\ h \in Seq(Bundles) /\ g \in Seq(Bundles)
           /\ own \in BOOLEAN /\ other \in BOOLEAN /\ ~c.closed
           /\ SendOK(SendSide(c), c.par.acks, h) /\ RecvOK(RecvSide(c), g)
           /\ WroteTo(c, LaneOf(h, g, own, other)) \in Position
           /\ ReadsFrom(c, LaneOf(g, h, other, own)) \in Position
           /\ c.par.acks = (IF c.up THEN own /\ other ELSE own) /\ c.par.acks \in BOOLEAN
           /\ c.ok /\ (c.up => c.initiated /\ c.contact)
<1>1. EndOK(c, h, g, own, other) /\ EndOK(d, g, h, other, own)
  BY DEF PairOK
<1>2. h \in Seq(Bundles) /\ g \in Seq(Bundles) /\ own \in BOOLEAN /\ other \in BOOLEAN
  BY DEF PairOK
<1>3. c \in ConnSet /\ d \in ConnSet /\ ~c.closed
  BY <1>1 DEF EndOK
<1>4. /\ SendOK(SendSide(c), c.par.acks, h) /\ RecvOK(RecvSide(c), g)
      /\ c.par.acks = (IF c.up THEN own /\ other ELSE own)
      /\ c.ok /\ (c.up => c.initiated /\ c.contact)
  BY <1>1, <1>3 DEF EndOK
<1>5. c.par.acks \in BOOLEAN
  BY <1>3, SideTypes
<1>6. WroteTo(c, LaneOf(h, g, own, other)) \in Position
  BY <1>2, <1>3, <1>4, <1>5, WroteIs
<1>7. ReadsFrom(c, LaneOf(g, h, other, own)) \in Position
  BY <1>2, <1>3, <1>4, <1>5, ReadsIs
<1> QED BY <1>2, <1>3, <1>4, <1>5, <1>6, <1>7


\* What has arrived was sent.
LEMMA ReceivedBelowSent ==
    ASSUME NEW c, NEW d, NEW h, NEW g, NEW own, NEW other, PairOK(c, d, h, g, own, other),
           c.broken = "no", d.broken = "no"
    PROVE  Below(Len(c.rcvd), RecvN(RecvSide(c)), SentJ(SendSide(d), g), SentN(SendSide(d)))
<1> DEFINE k == LaneOf(g, h, other, own)
<1>1. LaneOK(k, d, c)
  BY DEF PairOK
<1>2. PICK y \in Position : Run(k, ReadsFrom(c, k), c.recvbuf \o Out(d), y) /\ y = WroteTo(d, k)
  BY <1>1 DEF LaneOK
<1>3. c.recvbuf \in Seq(UnitSet) /\ Out(d) \in Seq(UnitSet)
  BY EndFacts, SideTypes
<1>4. c.recvbuf \o Out(d) \in Seq(UnitSet)
  BY <1>3
<1>5. Below(ReadsFrom(c, k).j, ReadsFrom(c, k).n, y.j, y.n)
  BY <1>2, <1>4, RunGrows
<1>6. ReadsFrom(c, k).j = Len(c.rcvd) /\ ReadsFrom(c, k).n = RecvN(RecvSide(c))
  BY ReadsFields
<1>7. y.j = SentJ(SendSide(d), g) /\ y.n = SentN(SendSide(d))
  BY <1>2, WroteFields
<1> QED BY <1>5, <1>6, <1>7

\* What an end acknowledges it was given, and its peer sent.
LEMMA GivenOK ==
    ASSUME NEW c \in ConnSet, NEW d \in ConnSet, NEW h \in Seq(Bundles), NEW g \in Seq(Bundles),
           NEW own \in BOOLEAN, NEW other \in BOOLEAN, NEW acks \in BOOLEAN,
           RecvOK(RecvSide(c), g), SendOK(SendSide(d), acks, g),
           Below(Len(c.rcvd), RecvN(RecvSide(c)), SentJ(SendSide(d), g), SentN(SendSide(d)))
    PROVE  AcksOK(WroteTo(c, LaneOf(h, g, own, other)), LaneOf(h, g, own, other), c, d)
<1> DEFINE k == LaneOf(h, g, own, other)
           r == RecvSide(c)
           s == SendSide(d)
           y == WroteTo(c, k)
<1>1. r \in RecvSet /\ r.rcvd = c.rcvd /\ s \in SendSet /\ k.g = g
  BY SideTypes, LaneFields
<1>2. /\ SentJ(s, g) \in Nat /\ SentN(s) \in Nat
      /\ GaveJ(r) \in Nat /\ GaveN(r) \in Nat /\ RecvN(r) \in Nat /\ Len(c.rcvd) \in Nat
  BY <1>1, SendNumbers, RecvNumbers, IncomingTypes
<1>3. /\ own /\ other => y.aj = GaveJ(r) /\ y.an = GaveN(r)
      /\ ~(own /\ other) => y.aj = 0 /\ y.an = 0
  BY WroteFields
<1>4. \A i \in 1 .. Len(c.rcvd) : c.rcvd[i] = Whole[g[i]]
  <2>1. DOMAIN r.rcvd = 1 .. Len(r.rcvd)
    BY <1>1, IncomingTypes
  <2> QED BY <1>1, <2>1 DEF RecvOK
<1>5. GaveJ(r) <= Len(c.rcvd) /\ Below(GaveJ(r), GaveN(r), Len(c.rcvd), RecvN(r))
  BY <1>1, GaveBelowReceived
<1> HIDE DEF k, r, s, y
<1>6. Below(Len(c.rcvd), RecvN(r), SentJ(s, g), SentN(s))
  BY DEF r, s
<1>7. Below(GaveJ(r), GaveN(r), SentJ(s, g), SentN(s))
  BY <1>2, <1>5, <1>6, BelowTransitive
<1>8. Below(0, 0, SentJ(s, g), SentN(s))
  BY <1>2 DEF Below
<1>9. y.aj <= Len(c.rcvd) /\ y.aj \in Nat
  BY <1>2, <1>3, <1>5
<1>10. Below(y.aj, y.an, SentJ(s, g), SentN(s))
  BY <1>3, <1>7, <1>8
<1>11. \A i \in 1 .. y.aj : c.rcvd[i] = Whole[k.g[i]]
  <2> DEFINE l == Len(c.rcvd)
             a == y.aj
  <2>1. l \in Nat /\ a \in Nat /\ a <= l
    BY <1>2, <1>9
  <2> HIDE DEF l, a
  <2>2. \A i \in 1 .. a : i \in 1 .. l
    BY <2>1
  <2> QED BY <1>1, <1>4, <2>2 DEF a, l
<1> QED BY <1>1, <1>9, <1>10, <1>11 DEF AcksOK, k, s, y

\* The one end writes, and what it reads is where it was.
LEMMA SendStep ==
    ASSUME NEW c, NEW d, NEW h, NEW g, NEW own, NEW other, PairOK(c, d, h, g, own, other),
           c.broken = "no",
           NEW c2, NEW h2 \in Seq(Bundles), Extends(h, h2), EndOK(c2, h2, g, own, other),
           c2.broken = "no", c2.recvbuf = c.recvbuf, c2.rcvd = c.rcvd,
           RecvN(RecvSide(c2)) = RecvN(RecvSide(c)),
           NEW V \in Seq(UnitSet), Out(c2) = Out(c) \o V,
           Run(LaneOf(h2, g, own, other), WroteTo(c, LaneOf(h, g, own, other)), V,
               WroteTo(c2, LaneOf(h2, g, own, other))),
           ReadsFrom(c2, LaneOf(g, h2, other, own)) = ReadsFrom(c, LaneOf(g, h, other, own)),
           Below(SentJ(SendSide(c), h), SentN(SendSide(c)),
                 SentJ(SendSide(c2), h2), SentN(SendSide(c2)))
    PROVE  PairOK(c2, d, h2, g, own, other)
<1> DEFINE k == LaneOf(h, g, own, other)
           k2 == LaneOf(h2, g, own, other)
           kb == LaneOf(g, h, other, own)
           kb2 == LaneOf(g, h2, other, own)
<1>1. /\ c \in ConnSet /\ d \in ConnSet /\ h \in Seq(Bundles) /\ g \in Seq(Bundles)
      /\ own \in BOOLEAN /\ other \in BOOLEAN
      /\ SendOK(SendSide(c), c.par.acks, h) /\ c.par.acks \in BOOLEAN
  BY EndFacts
<1>2. EndOK(d, g, h2, other, own)
  BY <1>1, EndExtends DEF PairOK
<1>3. /\ c2 \in ConnSet /\ ~c2.closed /\ SendOK(SendSide(c2), c2.par.acks, h2)
      /\ RecvOK(RecvSide(c2), g) /\ c2.par.acks \in BOOLEAN
  BY SideTypes DEF EndOK
<1>4. /\ Out(c) \in Seq(UnitSet) /\ Out(d) \in Seq(UnitSet) /\ c.recvbuf \in Seq(UnitSet)
      /\ d.recvbuf \in Seq(UnitSet)
  BY <1>1, SideTypes
<1>5. Extends(g, g)
  BY <1>1 DEF Extends
<1>6. LaneOK(k2, c2, d)
  <2> SUFFICES ASSUME d.broken = "no"
               PROVE  LaneOK(k2, c2, d)
    BY DEF LaneOK
  <2>1. LaneOK(k, c, d)
    BY DEF PairOK
  <2>2. Run(k, ReadsFrom(d, k), d.recvbuf \o Out(c), WroteTo(c, k))
    BY <2>1 DEF LaneOK
  <2>3. d.recvbuf \o Out(c) \in Seq(UnitSet)
    BY <1>4
  <2>4. Run(k2, ReadsFrom(d, k), d.recvbuf \o Out(c), WroteTo(c, k))
    <3> DEFINE x == ReadsFrom(d, k)
               y == WroteTo(c, k)
               q == d.recvbuf \o Out(c)
    <3>1. Run(LaneOf(h, g, own, other), x, q, y) /\ q \in Seq(UnitSet)
      BY <2>2, <2>3
    <3> HIDE DEF x, y, q
    <3>2. Run(LaneOf(h2, g, own, other), x, q, y)
      BY <1>1, <1>5, <3>1, RunExtends
    <3> QED BY <3>2 DEF x, y, q
  <2>5. Run(k2, ReadsFrom(d, k), (d.recvbuf \o Out(c)) \o V, WroteTo(c2, k2))
    BY <2>3, <2>4, RunJoin
  <2>6. (d.recvbuf \o Out(c)) \o V = d.recvbuf \o Out(c2)
    <3>1. (d.recvbuf \o Out(c)) \o V = d.recvbuf \o (Out(c) \o V)
      BY <1>4, Joined, Zenon
    <3> QED BY <3>1, Zenon
  <2>7. ReadsFrom(d, k2) = ReadsFrom(d, k)
    BY DEF ReadsFrom, ReceiverAt, LaneOf
  <2>8. SendOK(SendSide(d), d.par.acks, g) /\ d.par.acks \in BOOLEAN
    BY <1>1, PairSwap, EndFacts
  <2>9. Below(Len(c2.rcvd), RecvN(RecvSide(c2)), SentJ(SendSide(d), g), SentN(SendSide(d)))
    BY ReceivedBelowSent
  <2>10. AcksOK(WroteTo(c2, k2), k2, c2, d)
    BY <1>1, <1>3, <2>8, <2>9, GivenOK
  <2>11. WroteTo(c2, k2) \in Position
    BY <1>1, <1>3, WroteIs
  <2>12. Run(k2, ReadsFrom(d, k2), d.recvbuf \o Out(c2), WroteTo(c2, k2))
    BY <2>5, <2>6, <2>7
  <2> HIDE DEF k2
  <2> QED BY <2>10, <2>11, <2>12 DEF LaneOK
<1>7. LaneOK(kb2, d, c2)
  <2>1. LaneOK(kb, d, c)
    BY DEF PairOK
  <2>2. PICK y \in Position :
            /\ Run(kb, ReadsFrom(c, kb), c.recvbuf \o Out(d), y)
            /\ AcksOK(y, kb, d, c)
            /\ d.broken = "no" => y = WroteTo(d, kb)
    BY <2>1 DEF LaneOK
  <2>3. c.recvbuf \o Out(d) \in Seq(UnitSet)
    BY <1>4
  <2>4. Run(kb2, ReadsFrom(c, kb), c.recvbuf \o Out(d), y)
    <3> DEFINE x == ReadsFrom(c, kb)
               q == c.recvbuf \o Out(d)
    <3>1. Run(LaneOf(g, h, other, own), x, q, y) /\ q \in Seq(UnitSet)
      BY <2>2, <2>3
    <3> HIDE DEF x, q
    <3>2. Run(LaneOf(g, h2, other, own), x, q, y)
      BY <1>1, <1>5, <3>1, RunExtends
    <3> QED BY <3>2 DEF x, q
  <2>5. WroteTo(d, kb2) = WroteTo(d, kb)
    BY DEF WroteTo, SenderAt, LaneOf
  <2>6. kb.g = h /\ kb2.g = h2
    BY LaneFields
  <2>7. AcksOK(y, kb2, d, c2)
    <3> DEFINE a == y.aj
               l == Len(d.rcvd)
    <3>1. y.aj \in Nat /\ y.an \in Nat
      BY DEF Position
    <3>2. y.aj <= Len(d.rcvd) /\ \A i \in 1 .. y.aj : d.rcvd[i] = Whole[h[i]]
      BY <2>2, <2>6 DEF AcksOK
    <3>3. a \in Nat /\ a <= l /\ l \in Nat /\ l <= Len(h) /\ Len(h) \in Nat
      <4>1. RcvdOK(d.rcvd, d.closed, h) /\ d.rcvd \in Seq(Seq(UnitSet))
        BY <1>1 DEF PairOK, EndOK, ConnSet
      <4> QED BY <1>1, <3>1, <3>2, <4>1 DEF RcvdOK
    <3> HIDE DEF a, l
    <3>4. \A i \in 1 .. a : i \in 1 .. Len(h)
      BY <3>3
    <3>5. \A i \in 1 .. y.aj : d.rcvd[i] = Whole[h2[i]]
      BY <3>2, <3>4 DEF Extends, a
    <3>6. Below(y.aj, y.an, SentJ(SendSide(c), h), SentN(SendSide(c)))
      BY <2>2, <2>6 DEF AcksOK
    <3>7. /\ SentJ(SendSide(c), h) \in Nat /\ SentN(SendSide(c)) \in Nat
          /\ SentJ(SendSide(c2), h2) \in Nat /\ SentN(SendSide(c2)) \in Nat
      BY <1>1, <1>3, SideTypes, SendNumbers
    <3>8. Below(y.aj, y.an, SentJ(SendSide(c2), h2), SentN(SendSide(c2)))
      BY <3>1, <3>6, <3>7, BelowTransitive
    <3> QED BY <2>6, <3>2, <3>5, <3>8 DEF AcksOK
  <2>8. Run(kb2, ReadsFrom(c2, kb2), c2.recvbuf \o Out(d), y)
    BY <2>4
  <2>9. d.broken = "no" => y = WroteTo(d, kb2)
    BY <2>2, <2>5
  <2> HIDE DEF kb2
  <2> QED BY <2>7, <2>8, <2>9 DEF LaneOK
<1> QED BY <1>1, <1>2, <1>6, <1>7 DEF PairOK


\* What is on its way from an end is no part of its state.
LEMMA WireSwap ==
    ASSUME NEW d, NEW h, NEW g, NEW own, NEW other, EndOK(d, h, g, own, other),
           NEW W \in Seq(UnitSet), NEW d2, d2 = [d EXCEPT !.wire = W]
    PROVE  /\ EndOK(d2, h, g, own, other) /\ SendSide(d2) = SendSide(d) /\ RecvSide(d2) = RecvSide(d)
           /\ d2.broken = d.broken /\ d2.recvbuf = d.recvbuf /\ d2.rcvd = d.rcvd
           /\ d2.wire = W /\ d2.sendbuf = d.sendbuf
           /\ \A k : WroteTo(d2, k) = WroteTo(d, k) /\ ReadsFrom(d2, k) = ReadsFrom(d, k)
<1>1. d \in ConnSet
  BY DEF EndOK
<1>2. /\ d2 \in ConnSet /\ d2.wire = W /\ d2.sendbuf = d.sendbuf /\ d2.recvbuf = d.recvbuf
      /\ d2.rcvd = d.rcvd /\ d2.broken = d.broken /\ d2.initiated = d.initiated /\ d2.up = d.up
      /\ d2.ok = d.ok /\ d2.par = d.par /\ d2.contact = d.contact /\ d2.closed = d.closed
      /\ d2.inflight = d.inflight /\ d2.current = d.current /\ d2.todo = d.todo
      /\ d2.incoming = d.incoming /\ d2.rcvTodo = d.rcvTodo
  BY <1>1 DEF ConnSet
<1>3. SendSide(d2) = SendSide(d) /\ RecvSide(d2) = RecvSide(d)
  BY <1>2 DEF SendSide, RecvSide
<1>4. EndOK(d2, h, g, own, other)
  BY <1>2, <1>3 DEF EndOK
<1>5. \A k : WroteTo(d2, k) = WroteTo(d, k) /\ ReadsFrom(d2, k) = ReadsFrom(d, k)
  BY <1>2, <1>3 DEF WroteTo, ReadsFrom
<1> QED BY <1>2, <1>3, <1>4, <1>5

\* More given to the daemon leaves what was acknowledged as it was.
LEMMA AcksKept ==
    ASSUME NEW y \in Position, NEW k, NEW c, NEW c2, NEW d, NEW d2, AcksOK(y, k, c, d),
           c.rcvd \in Seq(Seq(UnitSet)), c2.rcvd \in Seq(Seq(UnitSet)), Extends(c.rcvd, c2.rcvd),
           SentJ(SendSide(d2), k.g) = SentJ(SendSide(d), k.g),
           SentN(SendSide(d2)) = SentN(SendSide(d))
    PROVE  AcksOK(y, k, c2, d2)
<1> DEFINE a == y.aj
           l == Len(c.rcvd)
           l2 == Len(c2.rcvd)
<1>1. a \in Nat /\ l \in Nat /\ l2 \in Nat /\ a <= l /\ l <= l2
  BY DEF Position, AcksOK, Extends
<1>2. \A i \in 1 .. l : c2.rcvd[i] = c.rcvd[i]
  BY DEF Extends
<1>3. \A i \in 1 .. a : c.rcvd[i] = Whole[k.g[i]]
  BY DEF AcksOK
<1> HIDE DEF a, l, l2
<1>4. a <= l2 /\ \A i \in 1 .. a : i \in 1 .. l
  BY <1>1
<1>5. \A i \in 1 .. a : c2.rcvd[i] = Whole[k.g[i]]
  BY <1>2, <1>3, <1>4
<1> QED BY <1>4, <1>5 DEF AcksOK, a, l2

\* The one end reads, and what it wrote is where it was.
LEMMA RecvStep ==
    ASSUME NEW c, NEW d, NEW h, NEW g, NEW own, NEW other, PairOK(c, d, h, g, own, other),
           c.broken = "no",
           NEW c2, EndOK(c2, h, g, own, other), c2.broken = "no", Out(c2) = Out(c),
           WroteTo(c2, LaneOf(h, g, own, other)) = WroteTo(c, LaneOf(h, g, own, other)),
           Extends(c.rcvd, c2.rcvd),
           NEW W \in Seq(UnitSet), NEW d2, d2 = [d EXCEPT !.wire = W],
           \A y \in Position :
               Run(LaneOf(g, h, other, own), ReadsFrom(c, LaneOf(g, h, other, own)),
                   c.recvbuf \o Out(d), y) =>
               Run(LaneOf(g, h, other, own), ReadsFrom(c2, LaneOf(g, h, other, own)),
                   c2.recvbuf \o Out(d2), y)
    PROVE  PairOK(c2, d2, h, g, own, other)
<1> DEFINE k == LaneOf(h, g, own, other)
           kb == LaneOf(g, h, other, own)
<1>1. EndOK(d, g, h, other, own)
  BY DEF PairOK
<1>2. /\ EndOK(d2, g, h, other, own) /\ SendSide(d2) = SendSide(d)
      /\ d2.broken = d.broken /\ d2.recvbuf = d.recvbuf /\ d2.rcvd = d.rcvd
      /\ WroteTo(d2, kb) = WroteTo(d, kb) /\ ReadsFrom(d2, k) = ReadsFrom(d, k)
  BY <1>1, WireSwap
<1>3. c \in ConnSet /\ c2 \in ConnSet /\ d \in ConnSet /\ d2 \in ConnSet
  BY <1>1, <1>2 DEF PairOK, EndOK
<1>4. /\ c.rcvd \in Seq(Seq(UnitSet)) /\ c2.rcvd \in Seq(Seq(UnitSet))
      /\ d.rcvd \in Seq(Seq(UnitSet)) /\ d2.rcvd \in Seq(Seq(UnitSet))
  BY <1>3 DEF ConnSet
<1>5. LaneOK(k, c2, d2)
  <2> SUFFICES ASSUME d.broken = "no"
               PROVE  LaneOK(k, c2, d2)
    BY <1>2 DEF LaneOK
  <2>1. LaneOK(k, c, d)
    BY DEF PairOK
  <2>2. PICK y \in Position :
            /\ Run(k, ReadsFrom(d, k), d.recvbuf \o Out(c), y)
            /\ AcksOK(y, k, c, d) /\ y = WroteTo(c, k)
    BY <2>1 DEF LaneOK
  <2>3. AcksOK(y, k, c2, d2)
    BY <1>2, <1>4, <2>2, AcksKept
  <2>4. Run(k, ReadsFrom(d2, k), d2.recvbuf \o Out(c2), y) /\ y = WroteTo(c2, k)
    BY <1>2, <2>2
  <2> HIDE DEF k
  <2> QED BY <2>3, <2>4 DEF LaneOK
<1>6. LaneOK(kb, d2, c2)
  <2>1. LaneOK(kb, d, c)
    BY DEF PairOK
  <2>2. PICK y \in Position :
            /\ Run(kb, ReadsFrom(c, kb), c.recvbuf \o Out(d), y)
            /\ AcksOK(y, kb, d, c) /\ (d.broken = "no" => y = WroteTo(d, kb))
    BY <2>1 DEF LaneOK
  <2>3. SentJ(SendSide(c2), h) = SentJ(SendSide(c), h) /\ SentN(SendSide(c2)) = SentN(SendSide(c))
    <3>1. /\ WroteTo(c, k).j = SentJ(SendSide(c), h) /\ WroteTo(c, k).n = SentN(SendSide(c))
          /\ WroteTo(c2, k).j = SentJ(SendSide(c2), h) /\ WroteTo(c2, k).n = SentN(SendSide(c2))
      BY WroteFields
    <3> QED BY <3>1
  <2>4. kb.g = h
    BY LaneFields
  <2>5. Extends(d.rcvd, d2.rcvd)
    BY <1>2, <1>4 DEF Extends
  <2>6. AcksOK(y, kb, d2, c2)
    BY <1>4, <2>2, <2>3, <2>4, <2>5, AcksKept
  <2>7. Run(kb, ReadsFrom(c2, kb), c2.recvbuf \o Out(d2), y)
    BY <2>2
  <2>8. d2.broken = "no" => y = WroteTo(d2, kb)
    BY <1>2, <2>2
  <2> HIDE DEF kb
  <2> QED BY <2>6, <2>7, <2>8 DEF LaneOK
<1> QED BY <1>2, <1>5, <1>6 DEF PairOK

\* What a connection that is broken was sent does not matter.
LEMMA Unread ==
    ASSUME NEW c, NEW d, NEW h, NEW g, NEW own, NEW other, PairOK(c, d, h, g, own, other),
           c.broken # "no", NEW W \in Seq(UnitSet), NEW d2, d2 = [d EXCEPT !.wire = W]
    PROVE  PairOK(c, d2, h, g, own, other)
<1> DEFINE k == LaneOf(h, g, own, other)
           kb == LaneOf(g, h, other, own)
<1>1. EndOK(d, g, h, other, own)
  BY DEF PairOK
<1>2. /\ EndOK(d2, g, h, other, own) /\ SendSide(d2) = SendSide(d)
      /\ d2.broken = d.broken /\ d2.recvbuf = d.recvbuf
      /\ ReadsFrom(d2, k) = ReadsFrom(d, k)
  BY <1>1, WireSwap
<1>3. LaneOK(k, c, d)
  BY DEF PairOK
<1>4. \A y : AcksOK(y, k, c, d) => AcksOK(y, k, c, d2)
  BY <1>2 DEF AcksOK
<1>5. LaneOK(k, c, d2)
  <2> HIDE DEF k
  <2> QED BY <1>2, <1>3, <1>4 DEF LaneOK
<1>6. LaneOK(kb, d2, c)
  BY DEF LaneOK
<1> QED BY <1>2, <1>5, <1>6 DEF PairOK

\* An end gives up, and says no more than that.
LEMMA BreakStep ==
    ASSUME NEW c, NEW d, NEW h, NEW g, NEW own, NEW other, PairOK(c, d, h, g, own, other),
           c.broken = "no",
           NEW c2, EndOK(c2, h, g, own, other), c2.broken # "no", c2.rcvd = c.rcvd,
           NEW V \in Seq(UnitSet), Out(c2) = Out(c) \o V,
           Run(LaneOf(h, g, own, other), WroteTo(c, LaneOf(h, g, own, other)), V,
               WroteTo(c, LaneOf(h, g, own, other)))
    PROVE  PairOK(c2, d, h, g, own, other)
<1> DEFINE k == LaneOf(h, g, own, other)
           kb == LaneOf(g, h, other, own)
<1>1. c \in ConnSet /\ d \in ConnSet
  BY EndFacts
<1>2. Out(c) \in Seq(UnitSet) /\ d.recvbuf \in Seq(UnitSet)
  BY <1>1, SideTypes
<1>3. LaneOK(k, c2, d)
  <2> SUFFICES ASSUME d.broken = "no"
               PROVE  LaneOK(k, c2, d)
    BY DEF LaneOK
  <2>1. LaneOK(k, c, d)
    BY DEF PairOK
  <2>2. PICK y \in Position :
            /\ Run(k, ReadsFrom(d, k), d.recvbuf \o Out(c), y)
            /\ AcksOK(y, k, c, d) /\ y = WroteTo(c, k)
    BY <2>1 DEF LaneOK
  <2>3. Run(k, y, V, y)
    BY <2>2
  <2>4. d.recvbuf \o Out(c) \in Seq(UnitSet)
    BY <1>2
  <2>5. Run(k, ReadsFrom(d, k), (d.recvbuf \o Out(c)) \o V, y)
    BY <2>2, <2>3, <2>4, RunJoin
  <2>6. (d.recvbuf \o Out(c)) \o V = d.recvbuf \o Out(c2)
    <3>1. (d.recvbuf \o Out(c)) \o V = d.recvbuf \o (Out(c) \o V)
      BY <1>2, Joined, Zenon
    <3> QED BY <3>1, Zenon
  <2>7. AcksOK(y, k, c2, d)
    BY <2>2 DEF AcksOK
  <2> HIDE DEF k
  <2> QED BY <2>5, <2>6, <2>7 DEF LaneOK
<1>4. LaneOK(kb, d, c2)
  BY DEF LaneOK
<1> QED BY <1>3, <1>4 DEF PairOK

\* A broken connection is closed: what was not written is never sent.
LEMMA CloseStep ==
    ASSUME NEW c, NEW d, NEW h, NEW g, NEW own, NEW other, PairOK(c, d, h, g, own, other),
           c.broken # "no",
           NEW c2, EndOK(c2, h, g, own, other), c2.broken # "no",
           c2.wire = c.wire, c2.sendbuf = <<>>, Extends(c.rcvd, c2.rcvd)
    PROVE  PairOK(c2, d, h, g, own, other)
<1> DEFINE k == LaneOf(h, g, own, other)
           kb == LaneOf(g, h, other, own)
<1>1. c \in ConnSet /\ d \in ConnSet /\ c2 \in ConnSet
  BY DEF PairOK, EndOK
<1>2. /\ c.wire \in Seq(UnitSet) /\ c.sendbuf \in Seq(UnitSet) /\ d.recvbuf \in Seq(UnitSet)
  BY <1>1, SideTypes
<1>3. LaneOK(k, c2, d)
  <2> SUFFICES ASSUME d.broken = "no"
               PROVE  LaneOK(k, c2, d)
    BY DEF LaneOK
  <2>1. LaneOK(k, c, d)
    BY DEF PairOK
  <2>2. PICK y \in Position :
            /\ Run(k, ReadsFrom(d, k), d.recvbuf \o Out(c), y)
            /\ AcksOK(y, k, c, d)
    BY <2>1 DEF LaneOK
  <2> DEFINE q == d.recvbuf \o c.wire
  <2>3. d.recvbuf \o Out(c) = q \o c.sendbuf
    BY <1>2, Joined, Zenon DEF Out
  <2>4. q \in Seq(UnitSet)
    BY <1>2
  <2>5. d.recvbuf \o Out(c2) = q
    <3> DEFINE w == c.wire
    <3>1. Out(c2) = w \o <<>> /\ w \in Seq(UnitSet)
      BY <1>2 DEF Out
    <3> HIDE DEF w
    <3>2. w \o <<>> = w
      BY <3>1
    <3> QED BY <3>1, <3>2 DEF w
  <2> HIDE DEF q
  <2>6. PICK z \in Position : Run(k, ReadsFrom(d, k), q, z) /\ Run(k, z, c.sendbuf, y)
    BY <1>2, <2>2, <2>3, <2>4, RunSplit
  <2>7. Below(z.aj, z.an, y.aj, y.an)
    BY <1>2, <2>6, RunGrows
  <2>8. z.aj \in Nat /\ z.an \in Nat /\ y.aj \in Nat /\ y.an \in Nat /\ z.aj <= y.aj
    <3>1. z.aj \in Nat /\ z.an \in Nat /\ y.aj \in Nat /\ y.an \in Nat
      BY DEF Position
    <3> QED BY <2>7, <3>1 DEF Below
  <2>9. c.rcvd \in Seq(Seq(UnitSet)) /\ c2.rcvd \in Seq(Seq(UnitSet))
    BY <1>1 DEF ConnSet
  <2>10. AcksOK(z, k, c, d)
    <3>1. /\ y.aj <= Len(c.rcvd) /\ \A i \in 1 .. y.aj : c.rcvd[i] = Whole[k.g[i]]
          /\ Below(y.aj, y.an, SentJ(SendSide(d), k.g), SentN(SendSide(d)))
      BY <2>2 DEF AcksOK
    <3> DEFINE l == Len(c.rcvd)
    <3>2. l \in Nat
      BY <2>9
    <3>3. z.aj <= Len(c.rcvd) /\ \A i \in 1 .. z.aj : i \in 1 .. y.aj
      <4> HIDE DEF l
      <4>1. z.aj <= l /\ \A i \in 1 .. z.aj : i \in 1 .. y.aj
        BY <2>8, <3>1, <3>2 DEF l
      <4> QED BY <4>1 DEF l
    <3>4. \A i \in 1 .. z.aj : c.rcvd[i] = Whole[k.g[i]]
      BY <3>1, <3>3
    <3>5. SendOK(SendSide(d), d.par.acks, g) /\ d.par.acks \in BOOLEAN /\ g \in Seq(Bundles) /\ k.g = g
      BY PairSwap, EndFacts, LaneFields
    <3>6. SentJ(SendSide(d), k.g) \in Nat /\ SentN(SendSide(d)) \in Nat
      BY <1>1, <3>5, SideTypes, SendNumbers
    <3>7. Below(z.aj, z.an, SentJ(SendSide(d), k.g), SentN(SendSide(d)))
      <4> DEFINE J == SentJ(SendSide(d), k.g)
                 N == SentN(SendSide(d))
      <4>1. J \in Nat /\ N \in Nat /\ Below(y.aj, y.an, J, N)
        BY <3>1, <3>6
      <4> HIDE DEF J, N
      <4>2. Below(z.aj, z.an, J, N)
        BY <2>7, <2>8, <4>1, BelowTransitive
      <4> QED BY <4>2 DEF J, N
    <3> QED BY <3>3, <3>4, <3>7 DEF AcksOK
  <2>11. AcksOK(z, k, c2, d)
    BY <2>9, <2>10, AcksKept
  <2> HIDE DEF k
  <2> QED BY <2>5, <2>6, <2>11 DEF LaneOK
<1>4. LaneOK(kb, d, c2)
  BY DEF LaneOK
<1> QED BY <1>3, <1>4 DEF PairOK

(***************************************************************************)
(* What the sending operations do to the pair.                             *)
(***************************************************************************)
\* Units V are written, and nothing else happens.
Wrote(c, c2, V) ==
    /\ c2 \in ConnSet /\ Alike(c, c2) /\ c2.recvbuf = c.recvbuf /\ c2.stall = c.stall
    /\ c2.events = c.events /\ SendSide(c2) = SendSide(c) /\ RecvSide(c2) = RecvSide(c)
    /\ Out(c2) = Out(c) \o V /\ Len(c2.wire) <= WireLen

\* Only the buffers are others.
Buffers(c, c2) ==
    /\ c2 \in ConnSet /\ Alike(c, c2)
    /\ c2.recvbuf = c.recvbuf /\ c2.events = c.events /\ c2.stall = c.stall
    /\ c2.current = c.current /\ c2.inflight = c.inflight /\ c2.todo = c.todo
    /\ c2.incoming = c.incoming /\ c2.rcvTodo = c.rcvTodo /\ c2.rcvd = c.rcvd

\* What went into the send buffer or on the wire was written.
LEMMA WroteAs ==
    ASSUME NEW c \in ConnSet, NEW c2, Buffers(c, c2), NEW V,
           c2.wire \o c2.sendbuf = (c.wire \o c.sendbuf) \o V, Len(c2.wire) <= WireLen
    PROVE  Wrote(c, c2, V)
<1>2. SendSide(c2) = SendSide(c) /\ RecvSide(c2) = RecvSide(c)
  BY DEF Buffers, SendSide, RecvSide
<1>3. Out(c2) = Out(c) \o V
  BY DEF Out
<1> QED BY <1>2, <1>3 DEF Wrote, Buffers

\* What Send does.
LEMMA SendEffect ==
    ASSUME NEW c \in ConnSet, BufOK(c), NEW V \in Seq(UnitSet)
    PROVE  /\ Wrote(c, Send(c, V), V)
           /\ Len(V) <= Room(c) + (WireLen - Len(c.wire)) => BufOK(Send(c, V))
<1>1. PICK w, b \in Seq(UnitSet) :
              /\ Send(c, V) = [c EXCEPT !.wire = w, !.sendbuf = b]
              /\ w \o b = (c.wire \o c.sendbuf) \o V
              /\ Len(w) <= WireLen
              /\ Len(V) <= Room(c) + (WireLen - Len(c.wire)) => Len(b) <= SendbufLen
  BY SendFacts
<1> DEFINE c2 == [c EXCEPT !.wire = w, !.sendbuf = b]
<1>2. Wrote(c, c2, V) /\ c2.sendbuf = b
  <2>1. Buffers(c, c2) /\ c2.wire = w /\ c2.sendbuf = b
    BY DEF ConnSet, Alike, Buffers
  <2> HIDE DEF c2
  <2>2. c2.wire \o c2.sendbuf = (c.wire \o c.sendbuf) \o V /\ Len(c2.wire) <= WireLen
    BY <1>1, <2>1
  <2> QED BY <2>1, <2>2, WroteAs
<1> HIDE DEF c2
<1>3. Len(V) <= Room(c) + (WireLen - Len(c.wire)) => BufOK(c2)
  BY <1>1, <1>2 DEF BufOK, Wrote
<1> QED BY <1>1, <1>2, <1>3 DEF c2

\* What send_data does.
LEMMA WriteEffect ==
    ASSUME NEW c \in ConnSet, BufOK(c)
    PROVE  Wrote(c, send_data(c), <<>>) /\ BufOK(send_data(c))
<1>1. PICK w, b \in Seq(UnitSet) :
              /\ send_data(c) = [c EXCEPT !.wire = w, !.sendbuf = b]
              /\ w \o b = c.wire \o c.sendbuf
              /\ Len(w) <= WireLen
              /\ Len(b) <= Len(c.sendbuf)
  <2>1. Len(c.wire) <= WireLen
    BY DEF BufOK
  <2> QED BY <2>1, SendDataFacts
<1> DEFINE c2 == [c EXCEPT !.wire = w, !.sendbuf = b]
<1>0. w \o b = (c.wire \o c.sendbuf) \o <<>>
  <2> DEFINE q == c.wire \o c.sendbuf
  <2>1. Out(c) \in Seq(UnitSet)
    BY SideTypes
  <2>2. q \in Seq(UnitSet)
    BY <2>1 DEF Out
  <2> HIDE DEF q
  <2>3. q \o <<>> = q
    BY <2>2
  <2> QED BY <1>1, <2>3 DEF q
<1>2. Wrote(c, c2, <<>>) /\ c2.sendbuf = b
  <2>1. Buffers(c, c2) /\ c2.wire = w /\ c2.sendbuf = b
    BY DEF ConnSet, Alike, Buffers
  <2> HIDE DEF c2
  <2>2. c2.wire \o c2.sendbuf = (c.wire \o c.sendbuf) \o <<>> /\ Len(c2.wire) <= WireLen
    BY <1>0, <1>1, <2>1
  <2> QED BY <2>1, <2>2, WroteAs
<1> HIDE DEF c2
<1>4. Len(b) <= SendbufLen
  <2>1. Len(c.sendbuf) \in Nat /\ Len(b) \in Nat /\ Len(c.sendbuf) <= SendbufLen /\ SendbufLen \in Nat
    BY SideTypes, Constants DEF BufOK
  <2> QED BY <1>1, <2>1
<1>3. BufOK(c2)
  BY <1>1, <1>2, <1>4 DEF BufOK, Wrote
<1> QED BY <1>1, <1>2, <1>3 DEF c2

\* Where the lane goes when only the sending side changes.
LEMMA WroteOnward ==
    ASSUME NEW c, NEW d, NEW h, NEW g, NEW own, NEW other, PairOK(c, d, h, g, own, other),
           c.broken = "no",
           NEW c2 \in ConnSet, Alike(c, c2), NEW h2 \in Seq(Bundles),
           RecvSide(c2) = RecvSide(c), SendOK(SendSide(c2), c.par.acks, h2)
    PROVE  Onward(WroteTo(c, LaneOf(h, g, own, other)), WroteTo(c2, LaneOf(h2, g, own, other)),
                  SendSide(c2), h2)
<1> DEFINE x == WroteTo(c, LaneOf(h, g, own, other))
           y == WroteTo(c2, LaneOf(h2, g, own, other))
           s2 == SendSide(c2)
<1>1. /\ c \in ConnSet /\ g \in Seq(Bundles) /\ RecvOK(RecvSide(c), g)
      /\ own \in BOOLEAN /\ other \in BOOLEAN /\ c.par.acks \in BOOLEAN
  BY EndFacts
<1>2. y \in Position
  BY <1>1, WroteIs
<1>3. s2.todo = c2.todo /\ c2.initiated = c.initiated
  BY SideTypes DEF Alike
<1>4. /\ y.up = c2.initiated /\ y.seg = "no" /\ y.j = SentJ(s2, h2) /\ y.n = SentN(s2) /\ y.t = c2.todo
      /\ own /\ other => y.aj = GaveJ(RecvSide(c2)) /\ y.an = GaveN(RecvSide(c2))
      /\ ~(own /\ other) => y.aj = 0 /\ y.an = 0
  BY WroteFields
<1>5. /\ x.up = c.initiated /\ x.seg = "no"
      /\ own /\ other => x.aj = GaveJ(RecvSide(c)) /\ x.an = GaveN(RecvSide(c))
      /\ ~(own /\ other) => x.aj = 0 /\ x.an = 0
  BY WroteFields
<1> HIDE DEF x, y, s2
<1>6. Onward(x, y, s2, h2)
  BY <1>2, <1>3, <1>4, <1>5 DEF Onward
<1> QED BY <1>6 DEF x, y, s2

\* An end that writes what leads from its old place to its new one.
LEMMA Sends ==
    ASSUME NEW c, NEW d, NEW h, NEW g, NEW own, NEW other, PairOK(c, d, h, g, own, other),
           c.broken = "no", c.up,
           NEW c2 \in ConnSet, Alike(c, c2), NEW h2 \in Seq(Bundles), Extends(h, h2),
           c2.recvbuf = c.recvbuf, RecvSide(c2) = RecvSide(c),
           NEW s2, s2 = SendSide(c2), SendOK(s2, c.par.acks, h2),
           c.par.acks => AckedJ(s2, h2) = AckedJ(SendSide(c), h) /\ AckedN(s2) = AckedN(SendSide(c)),
           Below(SentJ(SendSide(c), h), SentN(SendSide(c)), SentJ(s2, h2), SentN(s2)),
           NEW V \in Seq(UnitSet), Out(c2) = Out(c) \o V,
           Run(LaneOf(h2, g, own, other), WroteTo(c, LaneOf(h, g, own, other)), V,
               WroteTo(c2, LaneOf(h2, g, own, other)))
    PROVE  PairOK(c2, d, h2, g, own, other)
<1> DEFINE kb == LaneOf(g, h, other, own)
           kb2 == LaneOf(g, h2, other, own)
<1>1. /\ c \in ConnSet /\ g \in Seq(Bundles) /\ RecvOK(RecvSide(c), g)
      /\ c.par.acks <=> own /\ other
  BY EndFacts
<1>2. EndOK(c2, h2, g, own, other)
  BY <1>1, EndRuns DEF PairOK
<1>3. c2.broken = "no" /\ c2.initiated = c.initiated /\ c2.up = c.up
  BY DEF Alike
<1>4. RecvSide(c2).rcvd = RecvSide(c).rcvd /\ c2.rcvd = c.rcvd
  BY DEF RecvSide
<1>6. ReadsFrom(c2, kb2) = ReadsFrom(c, kb)
  BY <1>1, <1>3 DEF ReadsFrom, ReceiverAt, LaneOf
<1> QED BY <1>2, <1>3, <1>4, <1>6, SendStep

\* What sending more of what is in flight leaves alone.
SameFlight(c, c2) ==
    /\ c2.current = c.current /\ Len(c2.inflight) = Len(c.inflight)
    /\ \A i \in 1 .. Len(c.inflight) : c2.inflight[i].b = c.inflight[i].b

Keeps(c, c2) ==
    /\ Alike(c, c2) /\ c2.recvbuf = c.recvbuf /\ c2.stall = c.stall
    /\ c2.events = c.events /\ RecvSide(c2) = RecvSide(c)

\* Some of the last bundle in flight is sent.
Sent(q, m, t, q2) == q2 = [q EXCEPT ![m].sent = t]

\* More of the newest bundle was sent.
LEMMA NewestSent ==
    ASSUME NEW q \in Seq(FlightSet), NEW m, m = Len(q), m > 0, NEW t \in Nat,
           NEW q2, Sent(q, m, t, q2)
    PROVE  /\ q2 \in Seq(FlightSet) /\ Len(q2) = m
           /\ \A i \in 1 .. m : i # m => q2[i] = q[i]
           /\ \A i \in 1 .. m : q2[i].b = q[i].b
           /\ q2[m].b = q[m].b /\ q2[m].sent = t /\ q2[m].acked = q[m].acked
           /\ q2[m].posted = q[m].posted
<1> DEFINE f == [q[m] EXCEPT !.sent = t]
<1>1. m \in Nat /\ m \in 1 .. m
  OBVIOUS
<1>2. q[m] \in FlightSet
  BY <1>1
<1>3. f \in FlightSet /\ f.b = q[m].b /\ f.sent = t /\ f.acked = q[m].acked /\ f.posted = q[m].posted
  BY <1>2 DEF FlightSet
<1>4. q2 = [q EXCEPT ![m] = f]
  BY <1>1 DEF Sent
<1> HIDE DEF f
<1>5. /\ q2 \in Seq(FlightSet) /\ Len(q2) = m
      /\ \A i \in 1 .. m : q2[i] = IF i = m THEN f ELSE q[i]
  BY <1>1, <1>3, <1>4, ExceptSeq
<1> QED BY <1>1, <1>3, <1>5

\* How much of a segment goes out at a time.
LEMMA HowMuch ==
    ASSUME NEW c \in ConnSet, BufOK(c), NEW n,
           n = IF Room(c) = 0 THEN 0 ELSE Min({c.todo, Room(c) + WireLen - Len(c.wire)})
    PROVE  /\ n \in Nat /\ n <= c.todo /\ n <= Room(c) + (WireLen - Len(c.wire))
           /\ c.todo \in Nat
<1> DEFINE R == Room(c)
           l == Len(c.wire)
           T == c.todo
<1>1. c.wire \in Seq(UnitSet) /\ c.sendbuf \in Seq(UnitSet) /\ c.todo \in Nat
  BY DEF ConnSet
<1>2. R \in Nat /\ l \in Nat /\ T \in Nat /\ WireLen \in Nat /\ WireLen - l \in Nat
  <2>1. Len(c.wire) \in Nat /\ Len(c.sendbuf) \in Nat
    BY <1>1
  <2> QED BY <1>1, <2>1, Constants DEF Room, BufOK
<1>3. n = IF R = 0 THEN 0 ELSE Min({T, R + WireLen - l})
  OBVIOUS
<1> HIDE DEF R, l, T
<1>4. Min({T, R + WireLen - l}) = IF T <= R + WireLen - l THEN T ELSE R + WireLen - l
  BY <1>2, MinOf
<1>5. n \in Nat /\ n <= T /\ n <= R + (WireLen - l) /\ T \in Nat
  BY <1>2, <1>3, <1>4
<1> QED BY <1>5 DEF R, l, T

\* send_data_todo.
LEMMA DataTodo ==
    ASSUME NEW c, NEW d, NEW h, NEW g, NEW own, NEW other, PairOK(c, d, h, g, own, other),
           c.broken = "no", c.up, BufOK(c), c.todo # 0
    PROVE  LET c2 == send_data_todo(c) IN
           /\ PairOK(c2, d, h, g, own, other) /\ BufOK(c2) /\ Keeps(c, c2) /\ SameFlight(c, c2)
           /\ ~Unbegun(SendSide(c2))
<1> DEFINE s == SendSide(c)
           m == Len(c.inflight)
           f == Sending(c)
           n == IF Room(c) = 0 THEN 0 ELSE Min({c.todo, Room(c) + WireLen - Len(c.wire)})
           I == [c.inflight EXCEPT ![m].sent = f.sent + n]
           t == c.todo - n
           e == [c EXCEPT !.todo = t, !.inflight = I]
           V == [i \in 1 .. n |-> Data(f.b, f.sent + i)]
           c2 == Send(e, V)
<1>1. /\ c \in ConnSet /\ d \in ConnSet /\ h \in Seq(Bundles) /\ g \in Seq(Bundles)
      /\ own \in BOOLEAN /\ other \in BOOLEAN /\ c.par.acks \in BOOLEAN
      /\ SendOK(s, c.par.acks, h) /\ RecvOK(RecvSide(c), g) /\ c.initiated
      /\ WroteTo(c, LaneOf(h, g, own, other)) \in Position
  BY EndFacts
<1>2. /\ s \in SendSet /\ s.inflight = c.inflight /\ s.current = c.current /\ s.todo = c.todo
      /\ c.wire \in Seq(UnitSet) /\ c.sendbuf \in Seq(UnitSet)
  BY <1>1, SideTypes
<1>3. c.inflight \in Seq(FlightSet) /\ c.todo \in Nat /\ s.current
  BY <1>1, <1>2, FlightTypes DEF SendOK
<1>4. /\ f = Newest(s) /\ m \in 1 .. m /\ f \in FlightSet /\ f.b \in Bundles /\ f.sent \in Nat
      /\ f = c.inflight[m]
  BY <1>1, <1>2, <1>3, NewestFacts DEF Sending, Newest
<1>5. m > 0
  <2>1. m \in Nat
    BY <1>3
  <2> HIDE DEF m
  <2> QED BY <1>4, <2>1
<1>6. /\ n \in Nat /\ n <= c.todo /\ n <= Room(c) + (WireLen - Len(c.wire))
  BY <1>1, HowMuch
<1>7. send_data_todo(c) = IF n = 0 THEN c ELSE c2
  <2>1. e = [c EXCEPT !.todo = @ - n, !.inflight[Len(c.inflight)].sent = @ + n]
    <3>1. I = [c.inflight EXCEPT ![Len(c.inflight)].sent = @ + n]
      BY <1>4
    <3> HIDE DEF n, f
    <3> QED BY <1>1, <3>1 DEF ConnSet
  <2> HIDE DEF e, n, V
  <2> QED BY <2>1 DEF send_data_todo, c2, n, V
<1>8. CASE n = 0
  <2>2. ~Unbegun(s)
    BY <1>2 DEF Unbegun
  <2>3. Keeps(c, c) /\ SameFlight(c, c)
    BY DEF Keeps, Alike, SameFlight
  <2> QED BY <1>7, <1>8, <2>2, <2>3
<1>9. CASE n # 0
  <2> DEFINE k == LaneOf(h, g, own, other)
             x == WroteTo(c, k)
             s2 == SendSide(c2)
  <2>1. n \in 1 .. s.todo /\ n > 0
    BY <1>2, <1>3, <1>6, <1>9
  <2>2. x.up /\ x.seg = "no" /\ x.j = SentJ(s, h) /\ x.n = SentN(s) /\ x.t = s.todo /\ x \in Position
    BY <1>1, <1>2, WroteFields
  <2>3. k.h = h
    BY LaneFields
  <2> HIDE DEF n
  <2>4. /\ V \in Seq(UnitSet) /\ Len(V) = n
        /\ \A i \in 1 .. n : V[i] = Data(Newest(s).b, Newest(s).sent + i)
    <3> DEFINE a == f.sent
               b == f.b
    <3>1. a \in Nat /\ b \in Bundles /\ V = [i \in 1 .. n |-> Data(b, a + i)]
      BY <1>4
    <3> HIDE DEF a, b, V
    <3>2. \A i \in 1 .. n : Data(b, a + i) \in UnitSet
      <4>1. \A i \in 1 .. n : a + i \in Nat
        BY <1>6, <3>1
      <4> QED BY <3>1, <4>1 DEF UnitSet
    <3>3. V \in Seq(UnitSet) /\ Len(V) = n /\ \A i \in 1 .. n : V[i] = Data(b, a + i)
      BY <1>6, <3>1, <3>2
    <3> QED BY <1>4, <3>3 DEF a, b
  <2>5. f.sent + n \in Nat
    <3> DEFINE a == f.sent
    <3> HIDE DEF a
    <3>1. a + n \in Nat
      BY <1>4, <1>6 DEF a
    <3> QED BY <3>1 DEF a
  <2>6. t \in Nat
    BY <1>3, <1>6
  <2>7. /\ I \in Seq(FlightSet) /\ Len(I) = m
        /\ \A i \in 1 .. m : i # m => I[i] = c.inflight[i]
        /\ \A i \in 1 .. m : I[i].b = c.inflight[i].b
        /\ I[m].b = f.b /\ I[m].sent = f.sent + n /\ I[m].acked = f.acked
        /\ I[m].posted = f.posted
    <3> DEFINE q == c.inflight
               a == f.sent + n
    <3>1. q \in Seq(FlightSet) /\ m = Len(q) /\ m > 0 /\ a \in Nat /\ Sent(q, m, a, I)
          /\ f = q[m]
      BY <1>3, <1>4, <1>5, <2>5 DEF Sent
    <3> HIDE DEF q, a, I, m, f
    <3>2. /\ I \in Seq(FlightSet) /\ Len(I) = m
          /\ \A i \in 1 .. m : i # m => I[i] = q[i]
          /\ \A i \in 1 .. m : I[i].b = q[i].b
          /\ I[m].b = f.b /\ I[m].sent = a /\ I[m].acked = f.acked
          /\ I[m].posted = f.posted
      BY <3>1, NewestSent
    <3> QED BY <3>2 DEF q, a
  <2> HIDE DEF I, t, V
  <2>9. /\ e \in ConnSet /\ e.wire = c.wire /\ e.sendbuf = c.sendbuf
        /\ Alike(c, e) /\ e.recvbuf = c.recvbuf /\ e.events = c.events /\ e.stall = c.stall
        /\ e.current = c.current /\ e.inflight = I /\ e.todo = t
        /\ e.incoming = c.incoming /\ e.rcvTodo = c.rcvTodo /\ e.rcvd = c.rcvd
    BY <1>1, <2>6, <2>7 DEF ConnSet, Alike
  <2> HIDE DEF e
  <2>10. BufOK(e) /\ Room(e) = Room(c)
    BY <2>9 DEF BufOK, Room
  <2>11. Wrote(e, c2, V) /\ BufOK(c2)
    BY <1>6, <2>4, <2>9, <2>10, SendEffect
  <2> HIDE DEF c2
  <2>12. /\ c2 \in ConnSet /\ Alike(c, c2) /\ Keeps(c, c2) /\ SendSide(c2) = SendSide(e)
         /\ RecvSide(c2) = RecvSide(c) /\ Out(c2) = Out(c) \o V
    <3>1. RecvSide(e) = RecvSide(c) /\ Out(e) = Out(c)
      BY <2>9 DEF RecvSide, Out
    <3>2. Alike(c, c2)
      BY <2>9, <2>11 DEF Wrote, Alike
    <3> QED BY <2>9, <2>11, <3>1, <3>2 DEF Wrote, Keeps
  <2>13. s2 \in SendSet /\ s2.inflight = I /\ s2.current = s.current /\ s2.todo = s.todo - n
    <3>1. SendSide(e).inflight = I /\ SendSide(e).current = c.current /\ SendSide(e).todo = t
      BY <2>9, SideTypes
    <3> QED BY <1>2, <2>12, <3>1, SideTypes DEF t
  <2>14. c2.inflight = I /\ c2.current = c.current
    BY <1>2, <2>12, <2>13, SideTypes
  <2>15. /\ Len(s2.inflight) = Len(s.inflight)
         /\ \A i \in 1 .. Len(s.inflight) : i # Len(s.inflight) => s2.inflight[i] = s.inflight[i]
         /\ Newest(s2).b = Newest(s).b /\ Newest(s2).sent = Newest(s).sent + n
         /\ Newest(s2).acked = Newest(s).acked /\ Newest(s2).posted = Newest(s).posted
    BY <1>2, <1>4, <2>7, <2>13 DEF Newest
  <2> HIDE DEF s2, s, x, k
  <2>16. /\ SendOK(s2, c.par.acks, h)
         /\ AckedJ(s2, h) = AckedJ(s, h) /\ AckedN(s2) = AckedN(s)
         /\ Below(SentJ(s, h), SentN(s), SentJ(s2, h), SentN(s2))
         /\ \A y : Onward(x, y, s2, h) => Run(k, x, V, y)
    <3>1. SendsData(s, s2, n, V)
      BY <2>1, <2>4, <2>13, <2>15 DEF SendsData
    <3> QED BY <1>1, <1>2, <2>2, <2>3, <3>1, DataSent
  <2>17. Onward(x, WroteTo(c2, k), s2, h)
    BY <1>1, <2>12, <2>16, WroteOnward DEF x, k, s2
  <2>18. PairOK(c2, d, h, g, own, other)
    <3>1. Extends(h, h)
      BY <1>1 DEF Extends
    <3>2. Run(k, x, V, WroteTo(c2, k))
      BY <2>16, <2>17
    <3>3. c2.recvbuf = c.recvbuf
      BY <2>12 DEF Keeps
    <3> QED BY <1>1, <2>4, <2>12, <2>16, <3>1, <3>2, <3>3, Sends DEF s, s2, x, k
  <2>19. SameFlight(c, c2)
    BY <2>7, <2>14 DEF SameFlight
  <2>20. ~Unbegun(SendSide(c2))
    <3>1. Newest(s2).sent # 0
      <4> DEFINE a == f.sent
      <4>1. Newest(s2).sent = a + n /\ a \in Nat
        BY <1>4, <2>15
      <4> HIDE DEF a
      <4> QED BY <1>6, <1>9, <4>1
    <3> QED BY <3>1 DEF Unbegun, s2
  <2> QED BY <1>7, <1>9, <2>11, <2>12, <2>18, <2>19, <2>20
<1> QED BY <1>8, <1>9

\* The sending side changes and nothing is written.
LEMMA SendsNothing ==
    ASSUME NEW c, NEW d, NEW h, NEW g, NEW own, NEW other, PairOK(c, d, h, g, own, other),
           c.broken = "no", c.up,
           NEW c2 \in ConnSet, Alike(c, c2), c2.recvbuf = c.recvbuf, RecvSide(c2) = RecvSide(c),
           Out(c2) = Out(c), NEW s2, s2 = SendSide(c2), SendOK(s2, c.par.acks, h),
           c.par.acks => AckedJ(s2, h) = AckedJ(SendSide(c), h) /\ AckedN(s2) = AckedN(SendSide(c)),
           SentJ(s2, h) = SentJ(SendSide(c), h), SentN(s2) = SentN(SendSide(c)), s2.todo = c.todo
    PROVE  PairOK(c2, d, h, g, own, other)
<1> DEFINE k == LaneOf(h, g, own, other)
           x == WroteTo(c, k)
           y == WroteTo(c2, k)
<1>1. /\ c \in ConnSet /\ h \in Seq(Bundles) /\ x \in Position /\ c.par.acks \in BOOLEAN
      /\ SendOK(SendSide(c), c.par.acks, h)
  BY EndFacts
<1>2. Onward(x, y, s2, h)
  BY <1>1, WroteOnward
<1>3. x.seg = "no" /\ x.j = SentJ(SendSide(c), h) /\ x.n = SentN(SendSide(c)) /\ x.t = c.todo
  BY WroteFields
<1>4. y = x
  <2> HIDE DEF x, y
  <2>1. /\ y \in Position /\ y.up = x.up /\ y.j = x.j /\ y.n = x.n /\ y.t = x.t /\ y.seg = x.seg
        /\ y.aj = x.aj /\ y.an = x.an
    BY <1>2, <1>3 DEF Onward
  <2> QED BY <1>1, <2>1, SamePosition
<1>5. Run(k, x, <<>>, y)
  <2> HIDE DEF x, y, k
  <2> QED BY <1>1, <1>4, RunEmpty
<1>6. <<>> \in Seq(UnitSet) /\ Out(c2) = Out(c) \o <<>>
  <2> DEFINE q == Out(c)
  <2>1. q \in Seq(UnitSet)
    BY <1>1, SideTypes
  <2> HIDE DEF q
  <2>2. q \o <<>> = q
    BY <2>1
  <2> QED BY <2>2 DEF q
<1>7. Below(SentJ(SendSide(c), h), SentN(SendSide(c)), SentJ(s2, h), SentN(s2))
  <2>1. SentJ(SendSide(c), h) \in Nat /\ SentN(SendSide(c)) \in Nat
    BY <1>1, SideTypes, SendNumbers
  <2> QED BY <2>1 DEF Below
<1>8. Extends(h, h)
  BY <1>1 DEF Extends
<1> QED BY <1>1, <1>5, <1>6, <1>7, <1>8, Sends

\* start_next_bundle.
LEMMA StartBundle ==
    ASSUME NEW c, NEW d, NEW h, NEW g, NEW own, NEW other, PairOK(c, d, h, g, own, other),
           c.broken = "no", c.up, BufOK(c), ~c.current, NEW b \in Bundles
    PROVE  LET c2 == start_next_bundle(c, b) IN
           /\ PairOK(c2, d, h, g, own, other) /\ BufOK(c2) /\ Keeps(c, c2)
           /\ Unbegun(SendSide(c2)) /\ c2.current /\ c2.todo = 0
           /\ c2.inflight = Append(c.inflight, InFlightBundle(b))
           /\ Newest(SendSide(c2)).b = b
<1> DEFINE I == Append(c.inflight, InFlightBundle(b))
           c2 == [c EXCEPT !.inflight = I, !.current = TRUE]
           s == SendSide(c)
           s2 == SendSide(c2)
<1>1. /\ c \in ConnSet /\ h \in Seq(Bundles) /\ c.par.acks \in BOOLEAN
      /\ SendOK(s, c.par.acks, h)
  BY EndFacts
<1>2. s \in SendSet /\ s.inflight = c.inflight /\ s.current = c.current /\ s.todo = c.todo
  BY <1>1, SideTypes
<1>3. c.todo = 0
  BY <1>1, <1>2 DEF SendOK
<1>4. c.inflight \in Seq(FlightSet) /\ InFlightBundle(b) \in FlightSet
  BY <1>1 DEF ConnSet, InFlightBundle, FlightSet
<1>5. I \in Seq(FlightSet)
  BY <1>4
<1>6. c2 = start_next_bundle(c, b)
  <2> QED BY <1>1 DEF start_next_bundle, ConnSet
<1> HIDE DEF I
<1>7. /\ c2 \in ConnSet /\ Alike(c, c2) /\ c2.recvbuf = c.recvbuf /\ c2.stall = c.stall
      /\ c2.events = c.events /\ c2.incoming = c.incoming /\ c2.rcvTodo = c.rcvTodo
      /\ c2.rcvd = c.rcvd /\ c2.wire = c.wire /\ c2.sendbuf = c.sendbuf
      /\ c2.inflight = I /\ c2.current = TRUE /\ c2.todo = c.todo
  BY <1>1, <1>5 DEF ConnSet, Alike
<1> HIDE DEF c2
<1>8. Keeps(c, c2) /\ Out(c2) = Out(c) /\ BufOK(c2)
  BY <1>7 DEF Keeps, RecvSide, Out, BufOK
<1>9. s2 \in SendSet /\ s2.inflight = Append(s.inflight, InFlightBundle(b)) /\ s2.current
      /\ s2.todo = s.todo
  BY <1>2, <1>7, SideTypes DEF I
<1> HIDE DEF s2, s
<1>10. /\ SendOK(s2, c.par.acks, h) /\ Newest(s2) = InFlightBundle(b)
       /\ AckedJ(s2, h) = AckedJ(s, h) /\ AckedN(s2) = AckedN(s)
       /\ SentJ(s2, h) = SentJ(s, h) /\ SentN(s2) = SentN(s)
  BY <1>1, <1>2, <1>3, <1>9, BundleStarted
<1>11. PairOK(c2, d, h, g, own, other)
  BY <1>2, <1>7, <1>8, <1>9, <1>10, SendsNothing DEF s, s2, Keeps
<1>12. Newest(s2).b = b /\ Newest(s2).sent = 0
  BY <1>10 DEF InFlightBundle
<1>13. Unbegun(s2)
  BY <1>2, <1>3, <1>9, <1>12 DEF Unbegun
<1> QED BY <1>3, <1>6, <1>7, <1>8, <1>11, <1>12, <1>13 DEF s2, I

\* The bundle that was being sent is out.
Finished(c, c2) ==
    /\ Alike(c, c2) /\ c2.recvbuf = c.recvbuf /\ c2.stall = c.stall
    /\ RecvSide(c2) = RecvSide(c) /\ ~c2.current
    /\ \/ c.par.acks /\ c2.events = c.events /\ c2.inflight \in {c.inflight, <<>>}
       \/ /\ ~c.par.acks /\ c2.inflight = <<>>
          /\ LET b == Newest(SendSide(c)).b
             IN  c2.events = Append(c.events, Transmitted(b, Length[b], Length[b]))

\* finish_bundle.
LEMMA FinishBundle ==
    ASSUME NEW c, NEW d, NEW h, NEW g, NEW own, NEW other, PairOK(c, d, h, g, own, other),
           c.broken = "no", c.up, BufOK(c), c.current, c.todo = 0,
           Sending(c).sent = Length[Sending(c).b]
    PROVE  LET c2 == finish_bundle(c) IN
           /\ PairOK(c2, d, h, g, own, other) /\ BufOK(c2) /\ Finished(c, c2)
           /\ ~Unbegun(SendSide(c2)) /\ ~Unbegun(SendSide(c))
           /\ Len(h) > 0 /\ Newest(SendSide(c)).b = h[Len(h)]
<1> DEFINE f == Sending(c)
           m == Len(c.inflight)
           done == ~c.par.acks \/ f.acked >= Length[f.b]
           E == IF c.par.acks THEN c.events ELSE Append(c.events, Transmitted(f.b, f.sent, f.sent))
           c2 == IF done THEN [c EXCEPT !.current = FALSE, !.events = E, !.ok = c.ok /\ m = 1,
                                        !.inflight = Tail(c.inflight)]
                 ELSE [c EXCEPT !.current = FALSE]
           s == SendSide(c)
           s2 == SendSide(c2)
<1>1. /\ c \in ConnSet /\ h \in Seq(Bundles) /\ c.par.acks \in BOOLEAN
      /\ SendOK(s, c.par.acks, h) /\ c.ok
  BY EndFacts
<1>2. s \in SendSet /\ s.inflight = c.inflight /\ s.current = c.current /\ s.todo = c.todo
  BY <1>1, SideTypes
<1>3. /\ f = Newest(s) /\ m \in 1 .. m /\ f \in FlightSet /\ f.b \in Bundles /\ f.sent \in Nat
      /\ f = c.inflight[m]
  BY <1>1, <1>2, NewestFacts DEF Sending, Newest
<1>4. c.inflight \in Seq(FlightSet) /\ c.inflight # <<>> /\ c.events \in Seq(EventSet)
  <2>1. c.inflight # <<>>
    BY <1>1, <1>2 DEF SendOK
  <2> QED BY <1>1, <2>1 DEF ConnSet
<1>5. Tail(c.inflight) \in Seq(FlightSet)
  <2> DEFINE q == c.inflight
  <2> HIDE DEF q
  <2>1. Tail(q) \in Seq(FlightSet)
    BY <1>4 DEF q
  <2> QED BY <2>1 DEF q
<1>6. E \in Seq(EventSet)
  <2>1. Transmitted(f.b, f.sent, f.sent) \in EventSet
    BY <1>3 DEF EventSet
  <2> QED BY <1>4, <2>1
<1>7. c2 = finish_bundle(c)
  <2> DEFINE e == [c EXCEPT !.current = FALSE]
  <2>1. /\ e.inflight = c.inflight /\ e.par = c.par /\ e.events = c.events /\ ~e.current /\ e.ok = c.ok
        /\ e \in ConnSet
    BY <1>1 DEF ConnSet
  <2>2. finish_bundle(c) = check_sent(e, m)
    BY DEF finish_bundle
  <2>3. check_sent(e, m) =
          IF ~NeedsNoAck(e, f) THEN e
          ELSE [(IF e.par.acks THEN e ELSE [e EXCEPT !.events = Append(@, Transmitted(f.b, f.sent, f.sent))])
                EXCEPT !.ok = @ /\ m = 1, !.inflight = Tail(@)]
    <3> HIDE DEF e, f, m
    <3> QED BY <1>3, <2>1 DEF check_sent
  <2>4. NeedsNoAck(e, f) <=> done
    BY <2>1 DEF NeedsNoAck
  <2> HIDE DEF f, done, m
  <2>5. CASE ~done
    BY <2>2, <2>3, <2>4, <2>5
  <2>6. CASE done /\ c.par.acks
    <3>1. check_sent(e, m) = [e EXCEPT !.ok = @ /\ m = 1, !.inflight = Tail(@)]
      BY <2>1, <2>3, <2>4, <2>6
    <3>2. c2 = [c EXCEPT !.current = FALSE, !.events = c.events, !.ok = c.ok /\ m = 1,
                                        !.inflight = Tail(c.inflight)]
      BY <2>6
    <3> HIDE DEF c2
    <3>3. [e EXCEPT !.ok = @ /\ m = 1, !.inflight = Tail(@)]
          = [c EXCEPT !.current = FALSE, !.events = c.events, !.ok = c.ok /\ m = 1,
                                        !.inflight = Tail(c.inflight)]
      BY <1>1 DEF ConnSet
    <3> QED BY <2>2, <3>1, <3>2, <3>3
  <2>7. CASE done /\ ~c.par.acks
    <3> DEFINE A == Append(c.events, Transmitted(f.b, f.sent, f.sent))
    <3>1. check_sent(e, m) = [[e EXCEPT !.events = Append(@, Transmitted(f.b, f.sent, f.sent))]
                                EXCEPT !.ok = @ /\ m = 1, !.inflight = Tail(@)]
      BY <2>1, <2>3, <2>4, <2>7
    <3>2. c2 = [c EXCEPT !.current = FALSE, !.events = A, !.ok = c.ok /\ m = 1,
                                        !.inflight = Tail(c.inflight)]
      BY <2>7
    <3> HIDE DEF c2
    <3>3. [[e EXCEPT !.events = Append(@, Transmitted(f.b, f.sent, f.sent))]
                                EXCEPT !.ok = @ /\ m = 1, !.inflight = Tail(@)]
          = [c EXCEPT !.current = FALSE, !.events = A, !.ok = c.ok /\ m = 1,
                                        !.inflight = Tail(c.inflight)]
      BY <1>1 DEF ConnSet
    <3> QED BY <2>2, <3>1, <3>2, <3>3
  <2> QED BY <2>5, <2>6, <2>7
<1>8. done \in BOOLEAN
  OBVIOUS
<1> HIDE DEF E, f, m, done
<1>9. /\ c2 \in ConnSet /\ c2.recvbuf = c.recvbuf /\ c2.stall = c.stall
      /\ c2.contact = c.contact /\ c2.par = c.par /\ c2.initiated = c.initiated
      /\ c2.up = c.up /\ c2.broken = c.broken /\ c2.closed = c.closed
      /\ c2.incoming = c.incoming /\ c2.rcvTodo = c.rcvTodo
      /\ c2.rcvd = c.rcvd /\ c2.wire = c.wire /\ c2.sendbuf = c.sendbuf
      /\ c2.current = FALSE /\ c2.todo = c.todo
      /\ done => c2.inflight = Tail(c.inflight) /\ c2.ok = (c.ok /\ m = 1) /\ c2.events = E
      /\ ~done => c2.inflight = c.inflight /\ c2.ok = c.ok /\ c2.events = c.events
  BY <1>1, <1>5, <1>6 DEF ConnSet
<1> HIDE DEF c2
<1>10. RecvSide(c2) = RecvSide(c) /\ Out(c2) = Out(c) /\ BufOK(c2)
  BY <1>9 DEF RecvSide, Out, BufOK
<1>11. EndsBundle(s, s2, c.par.acks, done)
  <2>1. s2 \in SendSet /\ s2.current = FALSE /\ s2.todo = 0 /\ s2.inflight = c2.inflight
    BY <1>9, SideTypes
  <2>2. Newest(s).sent = Length[Newest(s).b]
    BY <1>3 DEF f
  <2>3. done <=> ~c.par.acks \/ Newest(s).acked >= Length[Newest(s).b]
    BY <1>3 DEF done
  <2> QED BY <1>2, <1>9, <2>1, <2>2, <2>3 DEF EndsBundle
<1> HIDE DEF s2, s
<1>12. /\ SendOK(s2, c.par.acks, h) /\ (done => Len(s.inflight) = 1)
       /\ c.par.acks => AckedJ(s2, h) = AckedJ(s, h) /\ AckedN(s2) = AckedN(s)
       /\ SentJ(s2, h) = SentJ(s, h) /\ SentN(s2) = SentN(s)
       /\ ~Unbegun(s) /\ ~Unbegun(s2) /\ (done => s2.inflight = <<>>)
       /\ Newest(s).b = h[Len(h)] /\ Len(h) > 0
  BY <1>1, <1>2, <1>11, BundleFinished
<1>13. Alike(c, c2)
  <2>1. done => m = 1
    BY <1>2, <1>12 DEF m
  <2>2. c2.ok = c.ok
    BY <1>1, <1>9, <2>1
  <2> QED BY <1>9, <2>2 DEF Alike
<1>14. s2.todo = c.todo /\ s2.inflight = c2.inflight
  BY <1>9, SideTypes DEF s2
<1>15. PairOK(c2, d, h, g, own, other)
  BY <1>9, <1>10, <1>12, <1>13, <1>14, SendsNothing DEF s, s2
<1>16. Finished(c, c2)
  <2>1. CASE c.par.acks
    <3>1. c2.events = c.events
      BY <1>9, <2>1 DEF E
    <3>2. c2.inflight \in {c.inflight, <<>>}
      BY <1>9, <1>12, <1>14
    <3> QED BY <1>9, <1>10, <1>13, <2>1, <3>1, <3>2 DEF Finished
  <2>2. CASE ~c.par.acks
    <3>1. done
      BY <2>2 DEF done
    <3>2. c2.events = Append(c.events, Transmitted(f.b, f.sent, f.sent)) /\ c2.inflight = <<>>
      BY <1>9, <1>12, <1>14, <2>2, <3>1 DEF E
    <3>3. f.sent = Length[f.b] /\ f.b = Newest(s).b
      BY <1>3 DEF f
    <3>4. c2.events = LET b == Newest(SendSide(c)).b
                      IN  Append(c.events, Transmitted(b, Length[b], Length[b]))
      BY <3>2, <3>3 DEF s
    <3> QED BY <1>9, <1>10, <1>13, <2>2, <3>2, <3>4 DEF Finished
  <2> QED BY <2>1, <2>2
<1> QED BY <1>7, <1>10, <1>12, <1>15, <1>16 DEF s, s2

\* A segment's header goes into the buffer.
SegmentOf(c, rest, n, u) ==
    /\ rest = Length[Sending(c).b] - Sending(c).sent /\ rest > 0
    /\ n = Min({rest, SegmentLength})
    /\ u = Seg(Sending(c).sent = 0, SegmentLength >= rest)

PutsHeader(c, n, u, e) == e = [c EXCEPT !.sendbuf = @ \o <<u, SegLen(n)>>, !.todo = n]

BundlesBegun(s, h) == IF Unbegun(s) THEN Append(h, Newest(s).b) ELSE h

\* send_next_segment has put the header into the buffer.
LEMMA HeaderWritten ==
    ASSUME NEW c, NEW d, NEW h, NEW g, NEW own, NEW other, PairOK(c, d, h, g, own, other),
           c.broken = "no", c.up, BufOK(c), c.current, c.todo = 0, HeaderFits(c),
           NEW rest, NEW n, NEW u, SegmentOf(c, rest, n, u), NEW e, PutsHeader(c, n, u, e),
           NEW h2, h2 = BundlesBegun(SendSide(c), h)
    PROVE  /\ PairOK(e, d, h2, g, own, other) /\ BufOK(e) /\ Keeps(c, e) /\ SameFlight(c, e)
           /\ e.todo # 0
<1> DEFINE f == Sending(c)
           s == SendSide(c)
           s2 == SendSide(e)
           V == <<u, SegLen(n)>>
           b == c.sendbuf \o V
           k == LaneOf(h, g, own, other)
           k2 == LaneOf(h2, g, own, other)
           x == WroteTo(c, k)
<1>1. /\ c \in ConnSet /\ h \in Seq(Bundles) /\ c.par.acks \in BOOLEAN
      /\ SendOK(s, c.par.acks, h) /\ x \in Position /\ c.initiated
  BY EndFacts
<1>2. /\ s \in SendSet /\ s.inflight = c.inflight /\ s.current = c.current /\ s.todo = c.todo
      /\ c.wire \in Seq(UnitSet) /\ c.sendbuf \in Seq(UnitSet)
  BY <1>1, SideTypes
<1>3. f = Newest(s) /\ f.sent \in Nat /\ Length[f.b] \in Nat /\ f.b \in Bundles
  BY <1>1, <1>2, NewestFacts DEF Sending, Newest
<1>4. rest \in Int
  <2> DEFINE a == f.sent
             L == Length[f.b]
  <2>1. a \in Nat /\ L \in Nat /\ rest = L - a
    BY <1>3 DEF SegmentOf
  <2> HIDE DEF a, L
  <2> QED BY <2>1
<1>5. n = (IF rest <= SegmentLength THEN rest ELSE SegmentLength) /\ n \in Nat /\ n # 0
  <2>1. n = Min({rest, SegmentLength}) /\ rest > 0
    BY DEF SegmentOf
  <2> QED BY <1>4, <2>1, MinOf, Constants
<1>6. u \in UnitSet
  <2>1. (Sending(c).sent = 0) \in BOOLEAN /\ (SegmentLength >= rest) \in BOOLEAN
    OBVIOUS
  <2> QED BY <2>1, SegUnits, Zenon DEF SegmentOf
<1>7. u.unit = "seg" /\ (u.start <=> f.sent = 0) /\ (u.end <=> SegmentLength >= rest)
  BY DEF Seg, SegmentOf
<1>8. SegLen(n) \in UnitSet
  BY <1>5 DEF UnitSet
<1>9. V \in Seq(UnitSet) /\ Len(V) = 2
  BY <1>6, <1>8
<1>10. b \in Seq(UnitSet) /\ Len(b) = Len(c.sendbuf) + 2
  <2> DEFINE q == c.sendbuf
  <2>1. q \in Seq(UnitSet)
    BY <1>2
  <2> HIDE DEF q, V
  <2>2. q \o V \in Seq(UnitSet) /\ Len(q \o V) = Len(q) + 2
    BY <1>9, <2>1, JoinedLen
  <2> QED BY <2>2 DEF q
<1> HIDE DEF V
<1>11. e = [c EXCEPT !.sendbuf = b, !.todo = n]
  BY <1>1 DEF ConnSet, V, PutsHeader
<1> HIDE DEF b
<1>12. /\ e \in ConnSet /\ Alike(c, e) /\ e.recvbuf = c.recvbuf /\ e.stall = c.stall
      /\ e.events = c.events /\ e.incoming = c.incoming /\ e.rcvTodo = c.rcvTodo
      /\ e.rcvd = c.rcvd /\ e.wire = c.wire /\ e.sendbuf = b
      /\ e.inflight = c.inflight /\ e.current = c.current /\ e.todo = n
  BY <1>1, <1>5, <1>10, <1>11 DEF ConnSet, Alike
<1>13. RecvSide(e) = RecvSide(c) /\ Keeps(c, e) /\ SameFlight(c, e)
  BY <1>12 DEF RecvSide, Keeps, SameFlight
<1>14. BufOK(e)
  <2>1. Len(c.sendbuf) + 2 <= SendbufLen
    <3>1. Len(c.sendbuf) \in Nat
      BY <1>2
    <3> QED BY <3>1, Constants DEF HeaderFits, Room
  <2> QED BY <1>10, <1>12, <2>1 DEF BufOK
<1>15. Out(e) = Out(c) \o V
  <2> DEFINE w == c.wire
             q == c.sendbuf
  <2>1. Out(e) = w \o (q \o V) /\ Out(c) = w \o q
    BY <1>12 DEF Out, b
  <2>2. w \in Seq(UnitSet) /\ q \in Seq(UnitSet)
    BY <1>2
  <2> HIDE DEF w, q
  <2>3. w \o (q \o V) = (w \o q) \o V
    BY <1>9, <2>2, Joined
  <2> QED BY <2>1, <2>3
<1>16. s2 \in SendSet /\ s2.inflight = s.inflight /\ s2.current = s.current /\ s2.todo = n
  BY <1>2, <1>12, SideTypes
<1>17. x.up /\ Resting(x) /\ x.j = SentJ(s, h) /\ x.n = SentN(s)
  BY <1>1, <1>2, WroteFields DEF Resting
<1>18. Unbegun(s) <=> f.sent = 0
  BY <1>2, <1>3 DEF Unbegun
<1>19. BeginsSegment(s, s2, h, h2, n, u, V, rest)
  <2>1. s.current /\ s.todo = 0
    BY <1>2
  <2>2. rest = Length[Newest(s).b] - Newest(s).sent /\ rest > 0
    BY <1>3 DEF SegmentOf
  <2>3. Newest(s).sent = 0 => h2 = Append(h, Newest(s).b)
    BY <1>3, <1>18 DEF BundlesBegun
  <2>4. Newest(s).sent # 0 => h2 = h
    BY <1>3, <1>18 DEF BundlesBegun
  <2>5. u.start <=> Newest(s).sent = 0
    BY <1>3, <1>7
  <2> HIDE DEF s, s2
  <2> QED BY <1>5, <1>6, <1>7, <1>16, <2>1, <2>2, <2>3, <2>4, <2>5 DEF BeginsSegment, V
<1>20. k2.h = h2
  BY LaneFields
<1> HIDE DEF s, s2, x, k, k2
<1>21. /\ h2 \in Seq(Bundles) /\ Extends(h, h2)
       /\ SendOK(s2, c.par.acks, h2)
       /\ AckedJ(s2, h2) = AckedJ(s, h) /\ AckedN(s2) = AckedN(s)
       /\ SentJ(s2, h2) = SentJ(s, h) /\ SentN(s2) = SentN(s)
       /\ \A y : Onward(x, y, s2, h2) => Run(k2, x, V, y)
  BY <1>1, <1>2, <1>17, <1>19, <1>20, SegmentBegun
<1>22. Onward(x, WroteTo(e, k2), s2, h2)
  BY <1>12, <1>13, <1>21, WroteOnward DEF x, k, k2, s2
<1>23. Run(k2, x, V, WroteTo(e, k2))
  BY <1>21, <1>22
<1>24. Below(SentJ(s, h), SentN(s), SentJ(s2, h2), SentN(s2))
  <2>1. SentJ(s, h) \in Nat /\ SentN(s) \in Nat
    BY <1>1, <1>2, SendNumbers
  <2> QED BY <1>21, <2>1 DEF Below
<1>25. PairOK(e, d, h2, g, own, other)
  BY <1>9, <1>12, <1>13, <1>15, <1>21, <1>23, <1>24, Sends DEF s, s2, x, k, k2
<1> QED BY <1>5, <1>12, <1>13, <1>14, <1>25

\* Keeping the other side is transitive.
LEMMA KeepsOn ==
    ASSUME NEW c, NEW c2, NEW c3, Keeps(c, c2), SameFlight(c, c2), Keeps(c2, c3), SameFlight(c2, c3)
    PROVE  Keeps(c, c3) /\ SameFlight(c, c3)
BY DEF Keeps, SameFlight, Alike

\* send_next_segment.
LEMMA NextSegment ==
    ASSUME NEW c, NEW d, NEW h, NEW g, NEW own, NEW other, PairOK(c, d, h, g, own, other),
           c.broken = "no", c.up, BufOK(c), c.current, c.todo = 0
    PROVE  LET c2 == send_next_segment(c) IN
           /\ BufOK(c2)
           /\ \/ PairOK(c2, d, h, g, own, other) /\ c2 = c
              \/ /\ PairOK(c2, d, h, g, own, other) /\ Finished(c, c2)
                 /\ ~Unbegun(SendSide(c)) /\ ~Unbegun(SendSide(c2))
                 /\ Len(h) > 0 /\ Newest(SendSide(c)).b = h[Len(h)]
              \/ /\ PairOK(c2, d, BundlesBegun(SendSide(c), h), g, own, other)
                 /\ Keeps(c, c2) /\ SameFlight(c, c2) /\ ~Unbegun(SendSide(c2))
<1> DEFINE f == Sending(c)
           s == SendSide(c)
           rest == Length[f.b] - f.sent
           n == Min({rest, SegmentLength})
           u == Seg(f.sent = 0, SegmentLength >= rest)
           e == [c EXCEPT !.sendbuf = @ \o <<u, SegLen(n)>>, !.todo = n]
           h2 == BundlesBegun(s, h)
<1>1. /\ c \in ConnSet /\ h \in Seq(Bundles) /\ c.par.acks \in BOOLEAN
      /\ SendOK(s, c.par.acks, h)
  BY EndFacts
<1>2. /\ s \in SendSet /\ s.inflight = c.inflight /\ s.current = c.current /\ s.todo = c.todo
      /\ c.sendbuf \in Seq(UnitSet)
  BY <1>1, SideTypes
<1>3. f = Newest(s) /\ f.sent \in Nat /\ Length[f.b] \in Nat /\ f.sent <= Length[f.b]
  BY <1>1, <1>2, NewestFacts DEF Sending, Newest
<1>4. rest \in Nat /\ (rest = 0 => f.sent = Length[f.b])
  <2> DEFINE a == f.sent
             L == Length[f.b]
  <2>1. a \in Nat /\ L \in Nat /\ a <= L /\ rest = L - a
    BY <1>3
  <2> HIDE DEF a, L, rest
  <2>2. rest \in Nat /\ (rest = 0 => a = L)
    BY <2>1
  <2> QED BY <2>2 DEF a, L
<1>5. Room(c) \in Nat
  <2>1. Len(c.sendbuf) \in Nat
    BY <1>2
  <2> QED BY <2>1, Constants DEF Room, BufOK
<1>6. send_next_segment(c) =
        CASE Room(c) = 0 -> c
          [] Room(c) > 0 /\ rest = 0 -> finish_bundle(c)
          [] Room(c) > 0 /\ rest > 0 /\ ~HeaderFits(c) -> c
          [] OTHER -> send_data_todo(e)
  BY DEF send_next_segment
<1> HIDE DEF rest, e
<1>7. CASE Room(c) = 0
  <2>1. send_next_segment(c) = c
    BY <1>6, <1>7
  <2> QED BY <2>1
<1>8. CASE Room(c) # 0 /\ rest = 0
  <2>1. send_next_segment(c) = finish_bundle(c)
    BY <1>5, <1>6, <1>8
  <2>2. f.sent = Length[f.b]
    BY <1>4, <1>8
  <2> QED BY <2>1, <2>2, FinishBundle
<1>9. CASE Room(c) # 0 /\ rest # 0 /\ ~HeaderFits(c)
  <2>1. send_next_segment(c) = c
    BY <1>4, <1>5, <1>6, <1>9
  <2> QED BY <2>1
<1>10. CASE Room(c) # 0 /\ rest # 0 /\ HeaderFits(c)
  <2>1. send_next_segment(c) = send_data_todo(e)
    BY <1>4, <1>5, <1>6, <1>10
  <2>2. rest > 0
    BY <1>4, <1>10
  <2>3. /\ PairOK(e, d, h2, g, own, other) /\ BufOK(e) /\ Keeps(c, e) /\ SameFlight(c, e)
        /\ e.todo # 0
    <3>1. SegmentOf(c, rest, n, u)
      BY <2>2 DEF SegmentOf, rest
    <3>2. PutsHeader(c, n, u, e)
      BY DEF PutsHeader, e
    <3> HIDE DEF n, u
    <3> QED BY <1>10, <3>1, <3>2, HeaderWritten
  <2>4. e.broken = "no" /\ e.up
    BY <2>3 DEF Keeps, Alike
  <2> DEFINE c2 == send_data_todo(e)
  <2>5. /\ PairOK(c2, d, h2, g, own, other) /\ BufOK(c2) /\ Keeps(e, c2) /\ SameFlight(e, c2)
        /\ ~Unbegun(SendSide(c2))
    BY <2>3, <2>4, DataTodo
  <2> HIDE DEF c2
  <2>6. Keeps(c, c2) /\ SameFlight(c, c2)
    BY <2>3, <2>5, KeepsOn
  <2> QED BY <2>1, <2>5, <2>6 DEF c2
<1> QED BY <1>7, <1>8, <1>9, <1>10

\* The segments of f that are acknowledged at once: "out" in order, of which a
\* is the last.
Acknowledges(f, out, l, a) ==
    /\ out \in Seq(Nat) /\ l = Len(out) /\ l \in Nat /\ l > 0 /\ a = out[l] /\ Last(out) = a
    /\ \A i \in 1 .. l : out[i] \in f.ack
    /\ \A i, j \in 1 .. l : i < j => out[i] < out[j]
    /\ ToSet(out) \subseteq f.ack /\ a \in ToSet(out)
    /\ \A y \in ToSet(out) : y <= a /\ y <= Len(f.data)
    /\ \A y \in f.ack \ ToSet(out) : a < y

\* The segments that have arrived, in order.
LEMMA ReadyFacts ==
    ASSUME NEW f \in IncomingSet
    PROVE  LET T == ArrivedSegments(f)
               R == InOrder(T)
           IN  /\ R \in Seq(Nat) /\ DOMAIN R = 1 .. Len(R) /\ Len(R) \in Nat
               /\ \A i \in 1 .. Len(R) : R[i] \in T
               /\ \A y \in T : \E i \in 1 .. Len(R) : y = R[i]
               /\ \A i, j \in 1 .. Len(R) : i < j => R[i] < R[j]
               /\ \A y \in T : y \in Nat /\ y \in f.ack /\ y <= Len(f.data)
               /\ \A y \in f.ack \ T : y \in Nat /\ Len(f.data) < y
<1> DEFINE T == ArrivedSegments(f)
           R == InOrder(T)
           N == Len(f.data)
<1>1. N \in Nat /\ f.ack \in SUBSET Nat
  <2> DEFINE q == f.data
  <2>1. q \in Seq(UnitSet) /\ f.ack \in SUBSET Nat
    BY DEF IncomingSet
  <2> HIDE DEF q
  <2>2. Len(q) \in Nat
    BY <2>1
  <2> QED BY <2>1, <2>2 DEF q
<1>2. T \in SUBSET Nat /\ IsFiniteSet(T)
  <2>1. T \subseteq 0 .. N
    BY <1>1 DEF ArrivedSegments
  <2>2. IsFiniteSet(0 .. N)
    BY <1>1, FS_Interval
  <2>3. T \in SUBSET Nat
    BY <1>1 DEF ArrivedSegments
  <2> QED BY <2>1, <2>2, <2>3, FS_Subset
<1>3. /\ \A y \in T : y \in Nat /\ y \in f.ack /\ y <= N
      /\ \A y \in f.ack \ T : y \in Nat /\ N < y
  <2> HIDE DEF N
  <2>1. T = {n \in f.ack : n <= N}
    BY DEF ArrivedSegments, N
  <2> QED BY <1>1, <2>1
<1> HIDE DEF T, N
<1>4. /\ R \in Seq(T) /\ Range(R) = T
      /\ \A i, j \in DOMAIN R : i < j => R[i] < R[j]
  BY <1>2, InOrderFacts
<1> HIDE DEF R
<1>5. DOMAIN R = 1 .. Len(R) /\ Len(R) \in Nat /\ \A i \in 1 .. Len(R) : R[i] \in T
  BY <1>4
<1>6. R \in Seq(Nat)
  <2>1. \A i \in 1 .. Len(R) : R[i] \in Nat
    BY <1>2, <1>5
  <2>2. R = [i \in 1 .. Len(R) |-> R[i]]
    BY <1>4, <1>5
  <2>3. R \in [1 .. Len(R) -> Nat]
    BY <2>1, <2>2
  <2> QED BY <1>5, <2>3
<1>7. \A y \in T : \E i \in 1 .. Len(R) : y = R[i]
  BY <1>4, <1>5 DEF Range
<1> QED BY <1>3, <1>4, <1>5, <1>6, <1>7 DEF R, T, N

\* Any beginning of that list may be acknowledged.
LEMMA AcknowledgesFirst ==
    ASSUME NEW f \in IncomingSet, NEW p \in 1 .. Len(InOrder(ArrivedSegments(f))),
           NEW out, out = SubSeq(InOrder(ArrivedSegments(f)), 1, p)
    PROVE  Acknowledges(f, out, p, out[p])
<1> DEFINE T == ArrivedSegments(f)
           R == InOrder(T)
           N == Len(f.data)
<1>1. /\ R \in Seq(Nat) /\ DOMAIN R = 1 .. Len(R) /\ Len(R) \in Nat
      /\ \A i \in 1 .. Len(R) : R[i] \in T
      /\ \A y \in T : \E i \in 1 .. Len(R) : y = R[i]
      /\ \A i, j \in 1 .. Len(R) : i < j => R[i] < R[j]
      /\ \A y \in T : y \in Nat /\ y \in f.ack /\ y <= N
      /\ \A y \in f.ack \ T : y \in Nat /\ N < y
  BY ReadyFacts
<1>2. p \in 1 .. Len(R) /\ out = SubSeq(R, 1, p)
  OBVIOUS
<1>0. N \in Nat
  <2> DEFINE q == f.data
  <2>1. q \in Seq(UnitSet)
    BY DEF IncomingSet
  <2> HIDE DEF q
  <2>2. Len(q) \in Nat
    BY <2>1
  <2> QED BY <2>2 DEF q
<1> HIDE DEF R, T, N
<1>3. /\ out \in Seq(Nat) /\ Len(out) = p /\ p \in Nat /\ p > 0 /\ DOMAIN out = 1 .. p
      /\ \A i \in 1 .. p : out[i] = R[i] /\ i \in 1 .. Len(R)
  BY <1>1, <1>2
<1>4. Last(out) = out[p]
  BY <1>3 DEF Last
<1>5. \A i \in 1 .. p : out[i] \in T /\ out[i] \in f.ack /\ out[i] \in Nat /\ out[i] <= N
  BY <1>1, <1>3
<1>6. \A i, j \in 1 .. p : i < j => out[i] < out[j]
  BY <1>1, <1>3
<1>7. ToSet(out) = {out[i] : i \in 1 .. p}
  BY <1>3 DEF ToSet
<1>8. p \in 1 .. p
  BY <1>3
<1>9. \A i \in 1 .. p : out[i] <= out[p]
  BY <1>3, <1>5, <1>6, <1>8
<1>10. ASSUME NEW y \in f.ack, y \notin ToSet(out)
       PROVE  out[p] < y
  <2>1. CASE y \in T
    <3>1. PICK i \in 1 .. Len(R) : y = R[i]
      BY <1>1, <2>1
    <3>2. i \notin 1 .. p
      BY <1>3, <1>7, <1>10, <3>1
    <3>3. p < i
      BY <1>1, <1>3, <3>2
    <3>4. R[p] < R[i]
      BY <1>1, <1>2, <3>3
    <3> QED BY <1>3, <1>8, <3>1, <3>4
  <2>2. CASE y \notin T
    <3>1. y \in Nat /\ N < y
      BY <1>1, <1>10, <2>2
    <3> QED BY <1>0, <1>5, <1>8, <3>1
  <2> QED BY <2>1, <2>2
<1>11. /\ ToSet(out) \subseteq f.ack /\ out[p] \in ToSet(out)
       /\ \A y \in ToSet(out) : y <= out[p] /\ y <= N
  BY <1>5, <1>7, <1>8, <1>9
<1> QED BY <1>3, <1>4, <1>5, <1>6, <1>10, <1>11 DEF Acknowledges, N

\* An end acknowledges the segments "out" of the oldest incoming bundle f, with
\* the units V.
AcksNow(c, c2, f, out, l, a, V) ==
    /\ c2 \in ConnSet /\ Alike(c, c2) /\ SendSide(c2) = SendSide(c) /\ c2.recvbuf = c.recvbuf
    /\ c.incoming # <<>> /\ f = c.incoming[1] /\ Out(c2) = Out(c) \o V
    /\ c.par.acks => V = [i \in 1 .. l |-> Ack(out[i])]
    /\ ~c.par.acks => V = <<>>
    /\ f.total # 0 /\ f.total = a => AcksAll(RecvSide(c), RecvSide(c2), Len(c.incoming), f)
    /\ ~(f.total # 0 /\ f.total = a) =>
           AcksSome(RecvSide(c), RecvSide(c2), Len(c.incoming), f, ToSet(out), a)

\* Where the acknowledgements come from and go to.
FirstIs(r, f) == r.incoming # <<>> /\ f = r.incoming[1]

AcksFit(r, g, f, out, l, a) ==
    LET L == Length[g[GaveJ(r) + 1]] IN
    /\ GaveJ(r) < Len(g) /\ L \in Nat
    /\ \A i \in 1 .. l : out[i] \in GaveN(r) + 1 .. L
    /\ f.total # 0 /\ f.total = a => a = L

\* Acknowledging it takes the receiving side to the next place.
LEMMA AcksPlace ==
    ASSUME NEW r \in RecvSet, NEW g \in Seq(Bundles), RecvOK(r, g),
           NEW f, FirstIs(r, f), NEW out, NEW l, NEW a, Acknowledges(f, out, l, a)
    PROVE  AcksFit(r, g, f, out, l, a)
<1> USE DEF FirstIs
<1> DEFINE G == GaveJ(r)
           L == Length[g[G + 1]]
           m == Len(r.incoming)
           E == SegEnd(r, 1)
<1>1. m \in Nat /\ 1 \in 1 .. m /\ 1 \in DOMAIN r.incoming
  <2>1. m \in Nat /\ m > 0 /\ DOMAIN r.incoming = 1 .. m
    BY IncomingTypes
  <2> HIDE DEF m
  <2> QED BY <2>1
<1>2. G \in Nat /\ G + 1 \in 1 .. Len(g) /\ L \in Nat /\ L > 0
  BY <1>1, RecvNumbers
<1>3. G < Len(g)
  <2> HIDE DEF G
  <2> QED BY <1>2
<1>4. GaveN(r) = f.acked
  BY DEF GaveN
<1>5. IncomingOK(r, g, 1)
  BY <1>1 DEF RecvOK
<1>6. f.ack \subseteq f.acked + 1 .. E /\ E <= L /\ (f.total = IF E = L THEN L ELSE 0)
  BY <1>5, Zenon DEF IncomingOK
<1>7. f.acked \in Nat /\ E \in Nat
  <2>1. f.acked \in Nat /\ Len(f.data) \in Nat /\ r.rcvTodo \in Nat
    BY <1>1, IncomingTypes
  <2> QED BY <2>1 DEF SegEnd
<1>8. ASSUME NEW i \in 1 .. l
      PROVE  out[i] \in f.acked + 1 .. L
  <2>1. out[i] \in f.ack
    BY DEF Acknowledges
  <2>2. out[i] \in f.acked + 1 .. E
    BY <1>6, <2>1
  <2> HIDE DEF E, L
  <2> QED BY <1>2, <1>6, <1>7, <2>2
<1>9. f.total # 0 => f.total = L
  BY <1>6
<1> QED BY <1>2, <1>3, <1>4, <1>8, <1>9 DEF AcksFit

\* An end that acknowledges some of the first incoming bundle.
LEMMA AcksStep ==
    ASSUME NEW c, NEW d, NEW h, NEW g, NEW own, NEW other, PairOK(c, d, h, g, own, other),
           c.broken = "no", c.up, c.todo = 0,
           NEW c2, NEW f, NEW out, NEW l, NEW a, NEW V,
           Acknowledges(f, out, l, a), AcksNow(c, c2, f, out, l, a, V)
    PROVE  PairOK(c2, d, h, g, own, other) /\ c2.rcvd = c.rcvd
<1> DEFINE k == LaneOf(h, g, own, other)
           kb == LaneOf(g, h, other, own)
           x == WroteTo(c, k)
           y == WroteTo(c2, k)
           r == RecvSide(c)
           r2 == RecvSide(c2)
           L == Length[g[GaveJ(r) + 1]]
<1>1. /\ c \in ConnSet /\ h \in Seq(Bundles) /\ g \in Seq(Bundles) /\ x \in Position
      /\ own \in BOOLEAN /\ other \in BOOLEAN
      /\ SendOK(SendSide(c), c.par.acks, h) /\ RecvOK(r, g) /\ c.initiated
      /\ (c.par.acks <=> own /\ other) /\ c.par.acks \in BOOLEAN
  BY EndFacts
<1>2. c2 \in ConnSet /\ Alike(c, c2) /\ SendSide(c2) = SendSide(c) /\ c2.recvbuf = c.recvbuf
  BY DEF AcksNow
<1>3. r \in RecvSet /\ r2 \in RecvSet /\ r.incoming = c.incoming /\ r.rcvd = c.rcvd
      /\ r2.rcvd = c2.rcvd /\ r2.incoming = c2.incoming /\ r.rcvTodo = c.rcvTodo
      /\ r2.rcvTodo = c2.rcvTodo /\ SendSide(c).todo = c.todo /\ SendSide(c2).todo = c2.todo
  BY <1>1, <1>2, SideTypes
<1>4. r.incoming # <<>> /\ f = r.incoming[1]
  BY <1>3 DEF AcksNow
<1>5. /\ GaveJ(r) < Len(g) /\ L \in Nat
      /\ \A i \in 1 .. l : out[i] \in GaveN(r) + 1 .. L
      /\ (f.total # 0 /\ f.total = a => a = L)
  <2> HIDE DEF r
  <2>1. FirstIs(r, f)
    BY <1>4 DEF FirstIs
  <2>2. AcksFit(r, g, f, out, l, a)
    BY <1>1, <1>3, <2>1, AcksPlace
  <2> QED BY <2>2 DEF AcksFit
<1>6. /\ RecvOK(r2, g) /\ RecvN(r2) = RecvN(r) /\ r2.rcvd = r.rcvd /\ r2.rcvTodo = r.rcvTodo
      /\ (a = L => GaveJ(r2) = GaveJ(r) + 1 /\ GaveN(r2) = 0)
      /\ (a # L => GaveJ(r2) = GaveJ(r) /\ GaveN(r2) = a)
  <2>1. CASE f.total # 0 /\ f.total = a
    <3>1. AcksAll(r, r2, Len(c.incoming), f)
      BY <2>1 DEF AcksNow
    <3>2. RecvOK(r2, g) /\ GaveJ(r2) = GaveJ(r) + 1 /\ GaveN(r2) = 0 /\ RecvN(r2) = RecvN(r)
      BY <1>1, <1>3, <3>1, BundleAcked
    <3>3. r2.rcvd = r.rcvd /\ r2.rcvTodo = r.rcvTodo
      BY <3>1 DEF AcksAll
    <3> QED BY <1>5, <2>1, <3>2, <3>3
  <2>2. CASE ~(f.total # 0 /\ f.total = a)
    <3>1. AcksSome(r, r2, Len(c.incoming), f, ToSet(out), a)
      BY <2>2 DEF AcksNow
    <3>2. RecvOK(r2, g) /\ GaveJ(r2) = GaveJ(r) /\ GaveN(r2) = a /\ RecvN(r2) = RecvN(r) /\ a # L
      BY <1>1, <1>3, <3>1, SegmentsAcked
    <3>3. r2.rcvd = r.rcvd /\ r2.rcvTodo = r.rcvTodo
      BY <3>1 DEF AcksSome
    <3> QED BY <3>2, <3>3
  <2> QED BY <2>1, <2>2
<1>7. EndOK(c2, h, g, own, other)
  <2>1. EndOK(c, h, g, own, other)
    BY DEF PairOK
  <2> QED BY <1>1, <1>2, <1>6, <2>1, EndRuns
<1>8. c2.broken = "no" /\ c2.initiated = c.initiated /\ c2.up = c.up /\ c2.todo = 0 /\ c2.rcvd = c.rcvd
  BY <1>2, <1>3, <1>6 DEF Alike
<1>9. ReadsFrom(c2, kb) = ReadsFrom(c, kb)
  BY <1>2, <1>6, <1>8 DEF ReadsFrom, ReceiverAt
<1>10. /\ x.up = c.initiated /\ x.seg = "no" /\ x.j = SentJ(SendSide(c), h)
       /\ x.n = SentN(SendSide(c)) /\ x.t = 0
       /\ (own /\ other => x.aj = GaveJ(r) /\ x.an = GaveN(r))
       /\ (~(own /\ other) => x.aj = 0 /\ x.an = 0)
  BY WroteFields
<1>11. /\ y.up = c2.initiated /\ y.seg = "no" /\ y.j = SentJ(SendSide(c2), h)
       /\ y.n = SentN(SendSide(c2)) /\ y.t = c2.todo
       /\ (own /\ other => y.aj = GaveJ(r2) /\ y.an = GaveN(r2))
       /\ (~(own /\ other) => y.aj = 0 /\ y.an = 0)
  BY WroteFields
<1>12. y \in Position
  BY <1>1, <1>2, <1>6, WroteIs
<1>13. k.acks = (own /\ other) /\ k.g = g
  BY LaneFields DEF LaneOf
<1>14. Out(c2) = Out(c) \o V
  BY DEF AcksNow
<1>15. V \in Seq(UnitSet) /\ Run(k, x, V, y)
  <2> HIDE DEF x, y, k, r, r2, L
  <2>1. CASE c.par.acks
    <3>1. V = [i \in 1 .. l |-> Ack(out[i])]
      BY <2>1 DEF AcksNow
    <3>2. /\ out \in Seq(Nat) /\ l = Len(out) /\ l > 0 /\ a = out[l]
          /\ \A i, j \in 1 .. l : i < j => out[i] < out[j]
      BY DEF Acknowledges
    <3>3. Resting(x)
      BY <1>10 DEF Resting
    <3>4. L = Length[k.g[x.aj + 1]] /\ x.aj < Len(k.g) /\ k.acks /\ x.up
      BY <1>1, <1>5, <1>10, <1>13, <2>1 DEF L
    <3>5. \A i \in 1 .. l : out[i] \in x.an + 1 .. L
      BY <1>1, <1>5, <1>10, <2>1
    <3>6. AcksOf(k, x, L, out, l, V)
      BY <1>1, <1>5, <1>13, <3>1, <3>2, <3>3, <3>4, <3>5 DEF AcksOf
    <3>7. AckedTo(x, y, L, out[l])
      BY <1>1, <1>2, <1>6, <1>8, <1>10, <1>11, <1>12, <2>1, <3>2 DEF AckedTo
    <3> QED BY <1>1, <3>6, <3>7, AckRun
  <2>2. CASE ~c.par.acks
    <3>1. V = <<>>
      BY <2>2 DEF AcksNow
    <3>2. y = x
      <4>1. /\ x.up = y.up /\ x.j = y.j /\ x.n = y.n /\ x.t = y.t
            /\ x.seg = y.seg /\ x.aj = y.aj /\ x.an = y.an
        BY <1>1, <1>2, <1>8, <1>10, <1>11, <2>2
      <4> QED BY <1>1, <1>12, <4>1, SamePosition
    <3> QED BY <1>1, <3>1, <3>2, RunEmpty
  <2> QED BY <2>1, <2>2
<1>16. Below(SentJ(SendSide(c), h), SentN(SendSide(c)), SentJ(SendSide(c2), h), SentN(SendSide(c2)))
  <2>1. SentJ(SendSide(c), h) \in Nat /\ SentN(SendSide(c)) \in Nat
    BY <1>1, SideTypes, SendNumbers
  <2> QED BY <1>2, <2>1 DEF Below
<1>17. Extends(h, h)
  BY <1>1 DEF Extends
<1>18. PairOK(c2, d, h, g, own, other)
  BY <1>1, <1>2, <1>6, <1>7, <1>8, <1>9, <1>14, <1>15, <1>16, <1>17, SendStep
<1> QED BY <1>8, <1>18

\* A list with another first entry.
LEMMA NewFirst ==
    ASSUME NEW S, NEW q \in Seq(S), q # <<>>, NEW e \in S, NEW t, t = <<e>> \o Tail(q)
    PROVE  /\ t \in Seq(S) /\ Len(t) = Len(q) /\ t[1] = e
           /\ \A i \in 2 .. Len(q) : t[i] = q[i]
           /\ e = q[1] => t = q
<1>1. t \in Seq(S) /\ Len(t) = Len(q) /\ t[1] = e /\ \A i \in 2 .. Len(q) : t[i] = q[i]
  OBVIOUS
<1>2. ASSUME e = q[1]
      PROVE  t = q
  <2>1. \A i \in 1 .. Len(q) : t[i] = q[i]
    BY <1>1, <1>2
  <2> QED BY <1>1, <2>1
<1> QED BY <1>1, <1>2

\* A list without its first entry.
LEMMA WithoutFirst ==
    ASSUME NEW S, NEW q \in Seq(S), q # <<>>
    PROVE  /\ Tail(q) \in Seq(S) /\ Len(Tail(q)) = Len(q) - 1
           /\ \A i \in 1 .. Len(q) - 1 : Tail(q)[i] = q[i + 1]
OBVIOUS

\* Which of the arrived segments are acknowledged now.
Chosen(c, f, out) ==
    LET ready == InOrder(ArrivedSegments(f))
    IN  out = IF c.par.acks THEN SubSeq(ready, 1, Min({Len(ready), Room(c)})) ELSE ready

\* What send_pending_acks chooses to acknowledge has room in the buffer.
LEMMA ChosenFacts ==
    ASSUME NEW c \in ConnSet, BufOK(c), NEW f \in IncomingSet, NEW out, Chosen(c, f, out), out # <<>>
    PROVE  /\ Acknowledges(f, out, Len(out), out[Len(out)])
           /\ c.par.acks => Len(out) <= Room(c)
<1> DEFINE R == InOrder(ArrivedSegments(f))
<1>1. R \in Seq(Nat) /\ Len(R) \in Nat
  BY ReadyFacts
<1>2. Room(c) \in Nat
  <2>1. Len(c.sendbuf) \in Nat /\ Len(c.sendbuf) <= SendbufLen /\ SendbufLen \in Nat
    BY SideTypes, Constants DEF BufOK
  <2> QED BY <2>1 DEF Room
<1>3. CASE c.par.acks
  <2> DEFINE n == Min({Len(R), Room(c)})
  <2>1. n = IF Len(R) <= Room(c) THEN Len(R) ELSE Room(c)
    BY <1>1, <1>2, MinOf
  <2>2. out = SubSeq(R, 1, n)
    BY <1>3 DEF Chosen
  <2> HIDE DEF n
  <2>3. n \in 0 .. Len(R) /\ n <= Room(c)
    <3> HIDE DEF R
    <3> QED BY <1>1, <1>2, <2>1
  <2>4. Len(out) = n /\ n # 0
    <3> HIDE DEF R
    <3> QED BY <1>1, <2>2, <2>3
  <2>5. n \in 1 .. Len(R)
    <3> HIDE DEF R
    <3> QED BY <1>1, <2>3, <2>4
  <2>6. Acknowledges(f, out, n, out[n])
    BY <2>2, <2>5, AcknowledgesFirst
  <2> QED BY <2>3, <2>4, <2>6
<1>4. CASE ~c.par.acks
  <2>1. out = R
    BY <1>4 DEF Chosen
  <2>2. out = SubSeq(R, 1, Len(R)) /\ Len(R) \in 1 .. Len(R)
    <3> HIDE DEF R
    <3>1. R # <<>>
      BY <2>1
    <3>2. Len(R) \in 1 .. Len(R)
      BY <1>1, <3>1
    <3>3. SubSeq(R, 1, Len(R)) = R
      BY <1>1
    <3> QED BY <2>1, <3>2, <3>3
  <2>3. Acknowledges(f, out, Len(R), out[Len(R)])
    BY <2>2, AcknowledgesFirst
  <2> QED BY <1>4, <2>1, <2>3
<1> QED BY <1>3, <1>4

\* Nothing but what it keeps of the incoming bundles and the buffers is another.
Gave(c, c2) ==
    /\ Alike(c, c2) /\ c2.recvbuf = c.recvbuf /\ c2.stall = c.stall /\ c2.events = c.events
    /\ SendSide(c2) = SendSide(c) /\ c2.rcvd = c.rcvd

\* The connection when the first incoming bundle is replaced by j.
NowFirst(d, j, c2) ==
    c2 = [d EXCEPT !.incoming = IF j.total # 0 /\ j.total = j.acked
                                THEN Tail(@) ELSE <<j>> \o Tail(@)]

\* No segment is acknowledged: nothing changes.
LEMMA NoneGiven ==
    ASSUME NEW c \in ConnSet, NEW g \in Seq(Bundles), RecvOK(RecvSide(c), g), c.incoming # <<>>,
           NEW c2, NowFirst(c, c.incoming[1], c2)
    PROVE  c2 = c
<1> DEFINE q == c.incoming
           f == q[1]
           r == RecvSide(c)
<1>1. r \in RecvSet /\ r.incoming = q
  BY SideTypes
<1>2. q \in Seq(IncomingSet) /\ 1 \in DOMAIN q /\ f \in IncomingSet /\ f.acked \in Nat /\ f.total \in Nat
  <2>1. q \in Seq(IncomingSet) /\ Len(q) \in Nat /\ Len(q) > 0 /\ DOMAIN q = 1 .. Len(q)
    BY <1>1, IncomingTypes
  <2>2. 1 \in 1 .. Len(q)
    <3> HIDE DEF q
    <3> QED BY <2>1
  <2> QED BY <1>1, <2>1, <2>2, IncomingTypes
<1>3. ~(f.total # 0 /\ f.total = f.acked)
  <2>1. IncomingOK(r, g, 1)
    BY <1>1, <1>2 DEF RecvOK
  <2>2. f.ack \subseteq f.acked + 1 .. SegEnd(r, 1) /\ (f.total # 0 => f.total \in f.ack)
    BY <1>1, <2>1, Zenon DEF IncomingOK
  <2> SUFFICES ASSUME f.total # 0, f.total = f.acked
               PROVE  FALSE
    OBVIOUS
  <2>3. f.acked \in f.acked + 1 .. SegEnd(r, 1)
    BY <2>2
  <2> HIDE DEF f
  <2> QED BY <1>2, <2>3
<1>4. <<f>> \o Tail(q) = q
  <2> HIDE DEF q, f
  <2>1. q # <<>> /\ f = q[1]
    BY DEF q, f
  <2> QED BY <1>2, <2>1, NewFirst
<1>5. c2 = [c EXCEPT !.incoming = q]
  BY <1>3, <1>4 DEF NowFirst
<1> QED BY <1>5 DEF ConnSet

\* Some are: V is written and the first incoming bundle is marked or dropped.
AcksAs(c, f, out, l, a, V, j) ==
    /\ c.incoming # <<>> /\ f = c.incoming[1]
    /\ c.par.acks => V = [i \in 1 .. l |-> Ack(out[i])]
    /\ ~c.par.acks => V = <<>>
    /\ j = [f EXCEPT !.acked = a, !.ack = @ \ ToSet(out)]

\* What send_pending_acks does to the connection.
LEMMA SomeGiven ==
    ASSUME NEW c \in ConnSet, NEW f, NEW out, NEW l, NEW a, Acknowledges(f, out, l, a),
           NEW V, NEW j, AcksAs(c, f, out, l, a, V, j),
           NEW e, Wrote(c, e, V), NEW c2, NowFirst(e, j, c2)
    PROVE  AcksNow(c, c2, f, out, l, a, V) /\ Gave(c, c2) /\ c2.wire = e.wire /\ c2.sendbuf = e.sendbuf
<1> USE DEF AcksAs
<1> DEFINE q == c.incoming
           r == RecvSide(c)
           r2 == RecvSide(c2)
           drop == f.total # 0 /\ f.total = a
           J == IF drop THEN Tail(q) ELSE <<j>> \o Tail(q)
<1>1. r \in RecvSet /\ r.incoming = q /\ r.rcvTodo = c.rcvTodo /\ r.rcvd = c.rcvd
  BY SideTypes
<1>2. q \in Seq(IncomingSet) /\ 1 \in 1 .. Len(q) /\ f \in IncomingSet /\ Len(q) \in Nat /\ Len(q) >= 1 /\ q # <<>>
  <2>1. q \in Seq(IncomingSet) /\ Len(q) \in Nat /\ Len(q) > 0
    BY <1>1, IncomingTypes
  <2>2. 1 \in 1 .. Len(q) /\ Len(q) >= 1
    <3> HIDE DEF q
    <3> QED BY <2>1
  <2> QED BY <1>1, <2>1, <2>2, IncomingTypes
<1>3. a \in Nat /\ ToSet(out) \subseteq f.ack /\ a \in ToSet(out)
  BY DEF Acknowledges
<1>4. /\ j \in IncomingSet /\ j.data = f.data /\ j.total = f.total /\ j.acked = a
      /\ j.ack = f.ack \ ToSet(out)
  <2>1. f \in IncomingSet /\ f.ack \in SUBSET Nat
    BY <1>2 DEF IncomingSet
  <2> QED BY <1>3, <2>1 DEF IncomingSet
<1> HIDE DEF q
<1>5. J \in Seq(IncomingSet)
  <2>1. Tail(q) \in Seq(IncomingSet) /\ <<j>> \o Tail(q) \in Seq(IncomingSet)
    BY <1>2, <1>4, NewFirst, WithoutFirst
  <2> QED BY <2>1
<1>6. /\ e \in ConnSet /\ Alike(c, e) /\ e.recvbuf = c.recvbuf /\ e.stall = c.stall
      /\ e.events = c.events /\ SendSide(e) = SendSide(c) /\ RecvSide(e) = RecvSide(c)
      /\ Out(e) = Out(c) \o V
  BY DEF Wrote
<1>7. e.incoming = q /\ e.rcvTodo = c.rcvTodo /\ e.rcvd = c.rcvd
  BY <1>1, <1>6, SideTypes
<1>8. c2 = [e EXCEPT !.incoming = J]
  BY <1>4, <1>7 DEF NowFirst
<1> HIDE DEF J
<1>9. /\ c2 \in ConnSet /\ Alike(e, c2) /\ c2.recvbuf = e.recvbuf /\ c2.stall = e.stall
      /\ c2.events = e.events /\ c2.rcvTodo = e.rcvTodo /\ c2.rcvd = e.rcvd /\ c2.incoming = J
      /\ c2.wire = e.wire /\ c2.sendbuf = e.sendbuf /\ c2.inflight = e.inflight
      /\ c2.current = e.current /\ c2.todo = e.todo
  BY <1>5, <1>6, <1>8 DEF ConnSet, Alike
<1>10. SendSide(c2) = SendSide(c) /\ Out(c2) = Out(c) \o V
  <2>1. SendSide(c2) = SendSide(e) /\ Out(c2) = Out(e)
    BY <1>9 DEF SendSide, Out
  <2> QED BY <1>6, <2>1
<1>11. Alike(c, c2)
  BY <1>6, <1>9 DEF Alike
<1>12. r2 \in RecvSet /\ r2.incoming = J /\ r2.rcvTodo = r.rcvTodo /\ r2.rcvd = r.rcvd
  BY <1>1, <1>7, <1>9, SideTypes
<1> HIDE DEF r, r2
<1>13. drop => AcksAll(r, r2, Len(q), f)
  <2> SUFFICES ASSUME drop
               PROVE  AcksAll(r, r2, Len(q), f)
    OBVIOUS
  <2>1. J = Tail(q)
    BY DEF J
  <2>2. Len(J) = Len(q) - 1 /\ \A i \in 1 .. Len(q) - 1 : J[i] = q[i + 1]
    BY <1>2, <2>1, WithoutFirst
  <2>3. f.total <= Len(f.data)
    BY DEF Acknowledges
  <2>4. f = q[1]
    BY DEF q
  <2> QED BY <1>1, <1>2, <1>12, <2>2, <2>3, <2>4 DEF AcksAll
<1>14. ~drop => AcksSome(r, r2, Len(q), f, ToSet(out), a)
  <2> SUFFICES ASSUME ~drop
               PROVE  AcksSome(r, r2, Len(q), f, ToSet(out), a)
    OBVIOUS
  <2>1. J = <<j>> \o Tail(q)
    BY DEF J
  <2>2. Len(J) = Len(q) /\ J[1] = j /\ \A i \in 2 .. Len(q) : J[i] = q[i]
    BY <1>2, <1>4, <2>1, NewFirst
  <2>3. f = q[1]
    BY DEF q
  <2>4. /\ \A y \in ToSet(out) : y <= a /\ y <= Len(f.data)
        /\ \A y \in f.ack \ ToSet(out) : a < y
    BY DEF Acknowledges
  <2>5. f.total = 0 \/ f.total # a
    OBVIOUS
  <2> HIDE DEF drop
  <2>6. r.incoming = q /\ r2.incoming = J
    BY <1>1, <1>12
  <2> QED BY <1>2, <1>3, <1>4, <1>12, <2>2, <2>3, <2>4, <2>5, <2>6 DEF AcksSome
<1>15. AcksNow(c, c2, f, out, l, a, V)
  <2>1. Len(q) = Len(c.incoming)
    BY DEF q
  <2> QED BY <1>6, <1>9, <1>10, <1>11, <1>13, <1>14, <2>1 DEF AcksNow, r, r2
<1> QED BY <1>6, <1>7, <1>9, <1>10, <1>11, <1>15 DEF Gave

\* send_pending_acks.
LEMMA AcksSent ==
    ASSUME NEW c, NEW d, NEW h, NEW g, NEW own, NEW other, PairOK(c, d, h, g, own, other),
           c.broken = "no", c.todo = 0, BufOK(c)
    PROVE  LET c2 == send_pending_acks(c) IN
           PairOK(c2, d, h, g, own, other) /\ BufOK(c2) /\ Gave(c, c2)
<1> DEFINE f == c.incoming[1]
           R == InOrder(ArrivedSegments(f))
           out == IF c.par.acks THEN SubSeq(R, 1, Min({Len(R), Room(c)})) ELSE R
           j == IF out = <<>> THEN f
                ELSE [f EXCEPT !.acked = Last(out), !.ack = @ \ ToSet(out)]
           e == IF c.par.acks /\ out # <<>>
                THEN Send(c, [i \in 1 .. Len(out) |-> Ack(out[i])]) ELSE c
           c2 == send_pending_acks(c)
<1> SUFFICES PairOK(c2, d, h, g, own, other) /\ BufOK(c2) /\ Gave(c, c2)
  OBVIOUS
<1>1. c \in ConnSet /\ g \in Seq(Bundles) /\ RecvOK(RecvSide(c), g) /\ EndOK(c, h, g, own, other)
  BY EndFacts DEF PairOK
<1>2. Gave(c, c)
  BY DEF Gave, Alike
<1>3. CASE c.incoming = <<>>
  <2>1. c2 = c
    BY <1>3 DEF send_pending_acks
  <2> HIDE DEF c2
  <2> QED BY <1>2, <2>1
<1>4. CASE c.incoming # <<>>
  <2>1. NowFirst(e, j, c2)
    BY <1>4 DEF send_pending_acks, NowFirst
  <2>2. Chosen(c, f, out)
    BY DEF Chosen
  <2>3. c.up
    BY <1>1, <1>4 DEF EndOK
  <2>4. f \in IncomingSet
    <3> DEFINE q == c.incoming
    <3>1. q \in Seq(IncomingSet) /\ q # <<>>
      BY <1>1, <1>4 DEF ConnSet
    <3> HIDE DEF q
    <3>2. q[1] \in IncomingSet
      BY <3>1
    <3> QED BY <3>2 DEF q
  <2> HIDE DEF c2
  <2>5. CASE out = <<>>
    <3>1. NowFirst(c, f, c2)
      BY <2>1, <2>5
    <3>2. c2 = c
      BY <1>1, <1>4, <3>1, NoneGiven
    <3> QED BY <1>2, <3>2
  <2>6. CASE out # <<>>
    <3> DEFINE l == Len(out)
               a == out[l]
               A == [i \in 1 .. l |-> Ack(out[i])]
               V == IF c.par.acks THEN A ELSE <<>>
    <3>1. j = [f EXCEPT !.acked = Last(out), !.ack = @ \ ToSet(out)]
      BY <2>6
    <3>2. e = IF c.par.acks THEN Send(c, A) ELSE c
      BY <2>6
    <3> HIDE DEF out, e, j
    <3>3. Acknowledges(f, out, l, a) /\ (c.par.acks => l <= Room(c))
      BY <1>1, <2>2, <2>4, <2>6, ChosenFacts
    <3>4. Last(out) = a /\ l \in Nat /\ l > 0 /\ out \in Seq(Nat) /\ \A i \in 1 .. l : out[i] \in Nat
      BY <3>3 DEF Acknowledges
    <3>5. A \in Seq(UnitSet) /\ Len(A) = l
      <4>1. \A i \in 1 .. l : Ack(out[i]) \in UnitSet
        BY <3>4 DEF UnitSet
      <4>2. A \in [1 .. l -> UnitSet]
        BY <4>1
      <4> HIDE DEF A
      <4> QED BY <3>4, <4>2
    <3>6. Wrote(c, e, V) /\ BufOK(e)
      <4>1. CASE c.par.acks
        <5> HIDE DEF A
        <5>1. Len(A) <= Room(c) + (WireLen - Len(c.wire))
          <6>1. Len(c.wire) \in Nat /\ Len(c.wire) <= WireLen /\ WireLen \in Nat /\ Room(c) \in Int
            BY <1>1, SideTypes, Constants DEF BufOK, Room
          <6> QED BY <3>3, <3>4, <3>5, <4>1, <6>1
        <5>2. Wrote(c, Send(c, A), A) /\ BufOK(Send(c, A))
          BY <1>1, <3>5, <5>1, SendEffect
        <5> QED BY <3>2, <4>1, <5>2
      <4>2. CASE ~c.par.acks
        <5>1. Buffers(c, c)
          BY <1>1 DEF Buffers, Alike
        <5>2. c.wire \o c.sendbuf = (c.wire \o c.sendbuf) \o <<>> /\ Len(c.wire) <= WireLen
          <6> DEFINE w == c.wire \o c.sendbuf
          <6>1. w \in Seq(UnitSet)
            BY <1>1, SideTypes DEF Out
          <6> HIDE DEF w
          <6>2. w = w \o <<>>
            BY <6>1
          <6> QED BY <6>2 DEF w, BufOK
        <5>3. Wrote(c, c, <<>>)
          BY <1>1, <5>1, <5>2, WroteAs
        <5> QED BY <3>2, <4>2, <5>3
      <4> QED BY <4>1, <4>2
    <3>7. (c.par.acks => V = [i \in 1 .. l |-> Ack(out[i])]) /\ (~c.par.acks => V = <<>>)
      OBVIOUS
    <3>8. j = [f EXCEPT !.acked = a, !.ack = @ \ ToSet(out)]
      BY <3>1, <3>4
    <3> HIDE DEF V, A, l, a
    <3>9. /\ AcksNow(c, c2, f, out, l, a, V) /\ Gave(c, c2)
          /\ c2.wire = e.wire /\ c2.sendbuf = e.sendbuf
      <4> HIDE DEF f
      <4>1. f = c.incoming[1]
        BY DEF f
      <4>2. AcksAs(c, f, out, l, a, V, j)
        BY <1>4, <3>7, <3>8, <4>1 DEF AcksAs
      <4> QED BY <1>1, <2>1, <3>3, <3>6, <4>2, SomeGiven
    <3>10. PairOK(c2, d, h, g, own, other)
      BY <2>3, <3>3, <3>9, AcksStep
    <3>11. BufOK(c2)
      BY <3>6, <3>9 DEF BufOK
    <3> QED BY <3>9, <3>10, <3>11
  <2> QED BY <2>5, <2>6
<1> QED BY <1>3, <1>4

(***************************************************************************)
(* Units that change nothing, the contact header, and the end of it all.   *)
(***************************************************************************)
\* Between two messages a keepalive or a shutdown leads back to where it came from.
LEMMA AtRest ==
    ASSUME NEW c, NEW d, NEW h, NEW g, NEW own, NEW other, PairOK(c, d, h, g, own, other),
           c.broken = "no", c.initiated, c.todo = 0, NEW u \in {Keepalive, Shutdown}
    PROVE  LET k == LaneOf(h, g, own, other) IN
           <<u>> \in Seq(UnitSet) /\ Run(k, WroteTo(c, k), <<u>>, WroteTo(c, k))
<1> DEFINE k == LaneOf(h, g, own, other)
           x == WroteTo(c, k)
<1>1. x \in Position
  BY EndFacts
<1>2. x.up /\ x.seg = "no" /\ x.t = 0
  BY DEF WroteTo, SenderAt, SendSide
<1> HIDE DEF x, k
<1>3. u.unit \in {"keepalive", "shutdown"} /\ u \in UnitSet
  BY DEF Keepalive, Shutdown, UnitSet
<1>4. RestMove(k, x, u, x)
  BY <1>2, <1>3 DEF RestMove, Resting
<1>5. Run(k, x, <<u>>, x)
  BY <1>1, <1>4, RunOne DEF Move
<1>6. <<u>> \in Seq(UnitSet)
  BY <1>3
<1> QED BY <1>5, <1>6 DEF x, k

\* Nothing else changes when something is written.
LEMMA WroteEnd ==
    ASSUME NEW c, NEW h, NEW g, NEW own, NEW other, EndOK(c, h, g, own, other), c.initiated,
           NEW c2, NEW V, Wrote(c, c2, V)
    PROVE  /\ EndOK(c2, h, g, own, other) /\ c2.broken = c.broken /\ c2.rcvd = c.rcvd
           /\ c2.recvbuf = c.recvbuf /\ c2.initiated /\ c2.contact = c.contact
           /\ \A k : WroteTo(c2, k) = WroteTo(c, k) /\ ReadsFrom(c2, k) = ReadsFrom(c, k)
<1>1. /\ c2 \in ConnSet /\ Alike(c, c2) /\ c2.recvbuf = c.recvbuf
      /\ SendSide(c2) = SendSide(c) /\ RecvSide(c2) = RecvSide(c)
  BY DEF Wrote
<1>2. c \in ConnSet
  BY DEF EndOK
<1>3. /\ c2.inflight = c.inflight /\ c2.current = c.current /\ c2.todo = c.todo
      /\ c2.incoming = c.incoming /\ c2.rcvTodo = c.rcvTodo /\ c2.rcvd = c.rcvd
  BY <1>1, <1>2, SideTypes
<1>4. /\ c2.contact = c.contact /\ c2.par = c.par /\ c2.initiated = c.initiated
      /\ c2.up = c.up /\ c2.broken = c.broken /\ c2.closed = c.closed /\ c2.ok = c.ok
  BY <1>1 DEF Alike
<1>5. EndOK(c2, h, g, own, other)
  BY <1>1, <1>3, <1>4 DEF EndOK
<1>6. \A k : WroteTo(c2, k) = WroteTo(c, k) /\ ReadsFrom(c2, k) = ReadsFrom(c, k)
  BY <1>1, <1>4 DEF WroteTo, ReadsFrom
<1> QED BY <1>1, <1>3, <1>4, <1>5, <1>6

\* A write that leads nowhere: a keepalive or a shutdown.
LEMMA WritesOnly ==
    ASSUME NEW c, NEW d, NEW h, NEW g, NEW own, NEW other, PairOK(c, d, h, g, own, other),
           c.broken = "no", c.initiated,
           NEW c2, NEW V \in Seq(UnitSet), Wrote(c, c2, V),
           Run(LaneOf(h, g, own, other), WroteTo(c, LaneOf(h, g, own, other)), V,
               WroteTo(c, LaneOf(h, g, own, other)))
    PROVE  PairOK(c2, d, h, g, own, other)
<1> DEFINE k == LaneOf(h, g, own, other)
           kb == LaneOf(g, h, other, own)
<1>1. EndOK(c, h, g, own, other) /\ h \in Seq(Bundles)
  BY DEF PairOK
<1>2. /\ EndOK(c2, h, g, own, other) /\ c2.broken = c.broken /\ c2.rcvd = c.rcvd
      /\ c2.recvbuf = c.recvbuf /\ WroteTo(c2, k) = WroteTo(c, k) /\ ReadsFrom(c2, kb) = ReadsFrom(c, kb)
  BY <1>1, WroteEnd
<1>3. SendSide(c2) = SendSide(c) /\ RecvSide(c2) = RecvSide(c) /\ Out(c2) = Out(c) \o V
  BY DEF Wrote
<1>4. SentJ(SendSide(c), h) \in Nat /\ SentN(SendSide(c)) \in Nat
  BY EndFacts, SideTypes, SendNumbers
<1>5. Below(SentJ(SendSide(c), h), SentN(SendSide(c)), SentJ(SendSide(c2), h), SentN(SendSide(c2)))
  BY <1>3, <1>4 DEF Below
<1>6. Extends(h, h)
  BY <1>1 DEF Extends
<1>7. Run(k, WroteTo(c, k), V, WroteTo(c2, k))
  BY <1>2
<1>8. RecvN(RecvSide(c2)) = RecvN(RecvSide(c))
  BY <1>3
<1> QED BY <1>1, <1>2, <1>3, <1>5, <1>6, <1>7, <1>8, SendStep

\* handle_poll_activity: more of the send buffer is written.
LEMMA MoreWritten ==
    ASSUME NEW c, NEW d, NEW h, NEW g, NEW own, NEW other, PairOK(c, d, h, g, own, other),
           c.broken = "no", c.initiated, BufOK(c)
    PROVE  LET c2 == send_data(c) IN
           PairOK(c2, d, h, g, own, other) /\ BufOK(c2) /\ Wrote(c, c2, <<>>)
<1> DEFINE k == LaneOf(h, g, own, other)
<1>1. c \in ConnSet /\ WroteTo(c, k) \in Position
  BY EndFacts
<1>2. Wrote(c, send_data(c), <<>>) /\ BufOK(send_data(c))
  BY <1>1, WriteEffect
<1>3. Run(k, WroteTo(c, k), <<>>, WroteTo(c, k)) /\ <<>> \in Seq(UnitSet)
  BY <1>1, RunEmpty
<1>4. PairOK(send_data(c), d, h, g, own, other)
  BY <1>2, <1>3, WritesOnly
<1> QED BY <1>2, <1>4

\* send_keepalive.
LEMMA KeepaliveSent ==
    ASSUME NEW c, NEW d, NEW h, NEW g, NEW own, NEW other, PairOK(c, d, h, g, own, other),
           c.broken = "no", c.initiated, BufOK(c), BetweenMessages(c)
    PROVE  LET c2 == Send(c, <<Keepalive>>) IN
           PairOK(c2, d, h, g, own, other) /\ BufOK(c2) /\ Wrote(c, c2, <<Keepalive>>)
<1> DEFINE k == LaneOf(h, g, own, other)
           V == <<Keepalive>>
<1>1. c \in ConnSet
  BY EndFacts
<1>2. V \in Seq(UnitSet) /\ Run(k, WroteTo(c, k), V, WroteTo(c, k))
  BY AtRest DEF BetweenMessages
<1>3. Len(V) <= Room(c) + (WireLen - Len(c.wire))
  <2>1. /\ Len(V) = 1 /\ Room(c) = SendbufLen /\ SendbufLen \in Nat /\ SendbufLen > 1
        /\ Len(c.wire) \in Nat /\ Len(c.wire) <= WireLen /\ WireLen \in Nat
    BY <1>1, SideTypes, Constants DEF BufOK, Room, BetweenMessages
  <2> QED BY <2>1
<1> HIDE DEF V
<1>4. Wrote(c, Send(c, V), V) /\ BufOK(Send(c, V))
  BY <1>1, <1>2, <1>3, SendEffect
<1>5. PairOK(Send(c, V), d, h, g, own, other)
  BY <1>2, <1>4, WritesOnly
<1> QED BY <1>4, <1>5 DEF V

\* initiate_contact.
Initiates(c, c0) == c0 = [c EXCEPT !.initiated = TRUE]

\* initiate_contact keeps the pair.
LEMMA HeaderSent ==
    ASSUME NEW c, NEW d, NEW h, NEW g, NEW own, NEW other, PairOK(c, d, h, g, own, other),
           c.broken = "no", ~c.initiated, BufOK(c),
           NEW c0, Initiates(c, c0)
    PROVE  LET c2 == Send(c0, <<Hdr(c.par)>>) IN
           /\ PairOK(c2, d, h, g, own, other) /\ BufOK(c2) /\ Wrote(c0, c2, <<Hdr(c.par)>>)
           /\ ~c.up /\ c0 \in ConnSet
<1> DEFINE k == LaneOf(h, g, own, other)
           kb == LaneOf(g, h, other, own)
           u == Hdr(c.par)
           V == <<u>>
           c2 == Send(c0, V)
           x == WroteTo(c, k)
           y == WroteTo(c2, k)
<1>1. /\ c \in ConnSet /\ EndOK(c, h, g, own, other) /\ x \in Position /\ ~c.up
      /\ h \in Seq(Bundles) /\ own \in BOOLEAN /\ SendOK(SendSide(c), c.par.acks, h)
      /\ c.par.acks \in BOOLEAN
  BY EndFacts DEF PairOK
<1>2. c.sendbuf = <<>> /\ c.todo = 0 /\ c.par.acks = own
  BY <1>1 DEF EndOK
<1>3. /\ c0 \in ConnSet /\ c0.initiated /\ c0.contact = c.contact /\ c0.par = c.par /\ c0.up = c.up
      /\ c0.broken = c.broken /\ c0.closed = c.closed /\ c0.ok = c.ok
      /\ c0.inflight = c.inflight /\ c0.current = c.current /\ c0.todo = c.todo
      /\ c0.incoming = c.incoming /\ c0.rcvTodo = c.rcvTodo /\ c0.rcvd = c.rcvd
      /\ c0.wire = c.wire /\ c0.sendbuf = c.sendbuf /\ c0.recvbuf = c.recvbuf
  BY <1>1 DEF ConnSet, Initiates
<1>4. SendSide(c0) = SendSide(c) /\ RecvSide(c0) = RecvSide(c) /\ Out(c0) = Out(c)
  BY <1>3 DEF SendSide, RecvSide, Out
<1>5. EndOK(c0, h, g, own, other)
  BY <1>1, <1>3, <1>4 DEF EndOK
<1>6. u \in UnitSet /\ u.unit = "hdr" /\ u.acks = own /\ V \in Seq(UnitSet) /\ Len(V) = 1
  <2>1. c.par \in AllParams
    BY <1>1 DEF ConnSet
  <2>2. u \in UnitSet
    BY <2>1 DEF UnitSet
  <2>3. u.unit = "hdr" /\ u.acks = own
    BY <1>2 DEF Hdr
  <2> HIDE DEF u
  <2> QED BY <2>2, <2>3
<1>7. BufOK(c0) /\ Len(V) <= Room(c0) + (WireLen - Len(c0.wire))
  <2>1. BufOK(c0)
    BY <1>3 DEF BufOK
  <2>2. /\ Room(c0) = SendbufLen /\ SendbufLen \in Nat /\ SendbufLen > 1
        /\ Len(c0.wire) \in Nat /\ Len(c0.wire) <= WireLen /\ WireLen \in Nat
    BY <1>2, <1>3, <2>1, SideTypes, Constants DEF BufOK, Room
  <2> QED BY <1>6, <2>1, <2>2
<1> HIDE DEF u
<1>8. Wrote(c0, c2, V) /\ BufOK(c2)
  <2> HIDE DEF V
  <2> QED BY <1>3, <1>6, <1>7, SendEffect
<1> HIDE DEF c2
<1>9. /\ EndOK(c2, h, g, own, other) /\ c2.broken = c0.broken /\ c2.rcvd = c0.rcvd
      /\ c2.recvbuf = c0.recvbuf /\ WroteTo(c2, k) = WroteTo(c0, k) /\ ReadsFrom(c2, kb) = ReadsFrom(c0, kb)
  BY <1>3, <1>5, <1>8, WroteEnd
<1>10. ReadsFrom(c2, kb) = ReadsFrom(c, kb)
  BY <1>3, <1>4, <1>9 DEF ReadsFrom
<1>11. SendSide(c2) = SendSide(c) /\ RecvSide(c2) = RecvSide(c) /\ Out(c2) = Out(c) \o V
  BY <1>4, <1>8 DEF Wrote
<1>12. /\ x.up = FALSE /\ x.t = 0 /\ x.seg = "no" /\ y = [x EXCEPT !.up = TRUE] /\ y \in Position
  <2>1. c0.initiated = TRUE /\ c.initiated = FALSE
    BY <1>1, <1>3 DEF ConnSet
  <2>2. x.up = FALSE /\ x.t = 0 /\ x.seg = "no"
    BY <1>2, <2>1 DEF WroteTo, SenderAt, SendSide
  <2>3. y = [x EXCEPT !.up = TRUE]
    <3>1. x = SenderAt(FALSE, SendSide(c), RecvSide(c), k)
      BY <2>1 DEF WroteTo
    <3>2. y = SenderAt(TRUE, SendSide(c), RecvSide(c), k)
      BY <1>4, <1>9, <2>1 DEF WroteTo
    <3>3. c2 \in ConnSet /\ g \in Seq(Bundles) /\ other \in BOOLEAN /\ RecvOK(RecvSide(c2), g)
      BY <1>9, <1>11, EndFacts DEF EndOK
    <3>4. y \in Position
      BY <1>1, <1>11, <3>3, WroteIs
    <3> DEFINE z == [x EXCEPT !.up = TRUE]
    <3> HIDE DEF x, y
    <3>5. /\ z \in Position /\ z.up = TRUE /\ z.j = x.j /\ z.n = x.n /\ z.t = x.t /\ z.seg = x.seg
          /\ z.aj = x.aj /\ z.an = x.an
      BY <1>1 DEF Position
    <3> HIDE DEF z
    <3>6. /\ y.up = TRUE /\ y.j = x.j /\ y.n = x.n /\ y.t = x.t /\ y.seg = x.seg
          /\ y.aj = x.aj /\ y.an = x.an
      BY <3>1, <3>2 DEF SenderAt
    <3>7. y = z
      BY <3>4, <3>5, <3>6, SamePosition
    <3> QED BY <3>7 DEF z
  <2> HIDE DEF x, y
  <2> QED BY <1>1, <2>2, <2>3 DEF Position
<1>13. k.own = own
  BY LaneFields
<1> HIDE DEF x, y, k
<1>14. HdrMove(k, x, u, y)
  BY <1>6, <1>12, <1>13 DEF HdrMove, Resting
<1>15. Run(k, x, V, y)
  BY <1>1, <1>12, <1>14, RunOne DEF Move
<1>16. Below(SentJ(SendSide(c), h), SentN(SendSide(c)), SentJ(SendSide(c2), h), SentN(SendSide(c2)))
  <2>1. SentJ(SendSide(c), h) \in Nat /\ SentN(SendSide(c)) \in Nat
    BY <1>1, SideTypes, SendNumbers
  <2> QED BY <1>11, <2>1 DEF Below
<1>17. Extends(h, h)
  BY <1>1 DEF Extends
<1>18. PairOK(c2, d, h, g, own, other)
  <2> HIDE DEF V, kb
  <2>1. V \in Seq(UnitSet)
    BY <1>6
  <2>2. Run(LaneOf(h, g, own, other), WroteTo(c, LaneOf(h, g, own, other)), V,
            WroteTo(c2, LaneOf(h, g, own, other)))
    BY <1>15 DEF x, y, k
  <2>3. ReadsFrom(c2, LaneOf(g, h, other, own)) = ReadsFrom(c, LaneOf(g, h, other, own))
    BY <1>10 DEF kb
  <2>4. c2.broken = "no" /\ c2.recvbuf = c.recvbuf /\ c2.rcvd = c.rcvd
    BY <1>3, <1>9
  <2>5. RecvN(RecvSide(c2)) = RecvN(RecvSide(c))
    BY <1>11
  <2> QED BY <1>1, <1>9, <1>11, <1>16, <1>17, <2>1, <2>2, <2>3, <2>4, <2>5, SendStep
<1> QED BY <1>1, <1>3, <1>8, <1>18 DEF c2, V, u

\* An end gives the connection up.
Broke(c, c2, reason) ==
    /\ c2 \in ConnSet /\ c2.broken = reason /\ c2.closed = ~c.contact
    /\ c2.contact = c.contact /\ c2.par = c.par /\ c2.initiated = c.initiated
    /\ c2.up = c.up /\ c2.ok = c.ok /\ c2.recvbuf = c.recvbuf /\ c2.stall = c.stall
    /\ SendSide(c2) = SendSide(c) /\ RecvSide(c2) = RecvSide(c)
    /\ c2.events = IF reason # "USER" /\ c.contact THEN Append(c.events, CloseRequest)
                   ELSE c.events

\* An end that was given up stays as it should be.
LEMMA BrokeEnd ==
    ASSUME NEW c, NEW h, NEW g, NEW own, NEW other, EndOK(c, h, g, own, other),
           c.broken = "no", c.initiated, NEW c2, NEW reason \in Reasons \ {"CL_ERROR"},
           Broke(c, c2, reason)
    PROVE  EndOK(c2, h, g, own, other) /\ c2.broken # "no" /\ c2.rcvd = c.rcvd
<1>1. c \in ConnSet /\ c2 \in ConnSet /\ SendSide(c2) = SendSide(c) /\ RecvSide(c2) = RecvSide(c)
  BY DEF EndOK, Broke
<1>2. /\ c2.inflight = c.inflight /\ c2.current = c.current /\ c2.todo = c.todo
      /\ c2.incoming = c.incoming /\ c2.rcvTodo = c.rcvTodo /\ c2.rcvd = c.rcvd
  BY <1>1, SideTypes
<1>3. c2.broken \notin {"no", "CL_ERROR"} /\ c2.initiated /\ c2.up = c.up /\ c2.par = c.par /\ c2.ok = c.ok
      /\ c2.contact = c.contact
  BY DEF Broke, Reasons
<1>4. c2.closed => ~c.up
  BY DEF Broke, EndOK
<1>5. ~c.closed
  BY DEF EndOK
<1>6. c2.closed => c.rcvd = <<>>
  BY <1>4 DEF EndOK
<1>7. RcvdOK(c2.rcvd, c2.closed, g)
  <2>1. RcvdOK(c.rcvd, c.closed, g)
    BY DEF EndOK
  <2> QED BY <1>2, <1>5, <2>1 DEF RcvdOK
<1> QED BY <1>1, <1>2, <1>3, <1>4, <1>5, <1>7 DEF EndOK

\* break_contact.
LEMMA BreakContact ==
    ASSUME NEW c, NEW d, NEW h, NEW g, NEW own, NEW other, PairOK(c, d, h, g, own, other),
           c.broken = "no", c.initiated, BufOK(c), NEW reason \in Reasons \ {"CL_ERROR"}
    PROVE  LET c2 == break_contact(c, reason) IN
           PairOK(c2, d, h, g, own, other) /\ BufOK(c2) /\ Broke(c, c2, reason)
<1> DEFINE k == LaneOf(h, g, own, other)
           says == reason \in {"USER", "IDLE", "SHUTDOWN"} /\ BetweenMessages(c)
           V == IF says THEN <<Shutdown>> ELSE <<>>
           e == IF says THEN Send(c, <<Shutdown>>) ELSE c
           c2 == break_contact(c, reason)
<1> SUFFICES PairOK(c2, d, h, g, own, other) /\ BufOK(c2) /\ Broke(c, c2, reason)
  OBVIOUS
<1>1. c \in ConnSet /\ EndOK(c, h, g, own, other) /\ WroteTo(c, k) \in Position
  BY EndFacts DEF PairOK
<1>2. V \in Seq(UnitSet) /\ Run(k, WroteTo(c, k), V, WroteTo(c, k))
  <2>1. CASE says
    BY <2>1, AtRest DEF BetweenMessages
  <2>2. CASE ~says
    <3>1. Run(k, WroteTo(c, k), <<>>, WroteTo(c, k)) /\ <<>> \in Seq(UnitSet)
      BY <1>1, RunEmpty
    <3> QED BY <2>2, <3>1
  <2> QED BY <2>1, <2>2
<1>3. Wrote(c, e, V) /\ BufOK(e)
  <2>1. CASE says
    <3> DEFINE W == <<Shutdown>>
    <3>1. W \in Seq(UnitSet) /\ V = W
      BY <1>2, <2>1
    <3>2. Len(W) <= Room(c) + (WireLen - Len(c.wire))
      <4>1. /\ Len(W) = 1 /\ Room(c) = SendbufLen /\ SendbufLen \in Nat /\ SendbufLen > 1
            /\ Len(c.wire) \in Nat /\ Len(c.wire) <= WireLen /\ WireLen \in Nat
        BY <1>1, <2>1, SideTypes, Constants DEF BufOK, Room, BetweenMessages
      <4> QED BY <4>1
    <3>3. e = Send(c, W)
      BY <2>1
    <3> HIDE DEF W
    <3>4. Wrote(c, Send(c, W), W) /\ BufOK(Send(c, W))
      BY <1>1, <3>1, <3>2, SendEffect
    <3> QED BY <3>1, <3>3, <3>4
  <2>2. CASE ~says
    <3>1. Buffers(c, c)
      BY <1>1 DEF Buffers, Alike
    <3>2. c.wire \o c.sendbuf = (c.wire \o c.sendbuf) \o <<>> /\ Len(c.wire) <= WireLen
      <4> DEFINE w == c.wire \o c.sendbuf
      <4>1. w \in Seq(UnitSet)
        BY <1>1, SideTypes DEF Out
      <4> HIDE DEF w
      <4>2. w = w \o <<>>
        BY <4>1
      <4> QED BY <4>2 DEF w, BufOK
    <3>3. Wrote(c, c, <<>>)
      BY <1>1, <3>1, <3>2, WroteAs
    <3> QED BY <2>2, <3>3
  <2> QED BY <2>1, <2>2
<1>4. c2 = [e EXCEPT !.broken = reason, !.closed = ~c.contact,
                     !.events = IF AsksToClose(c, reason) THEN Append(@, CloseRequest) ELSE @]
  BY DEF break_contact
<1> HIDE DEF c2, e, V
<1>5. /\ e \in ConnSet /\ Alike(c, e) /\ e.recvbuf = c.recvbuf /\ e.stall = c.stall
      /\ e.events = c.events /\ SendSide(e) = SendSide(c) /\ RecvSide(e) = RecvSide(c)
      /\ Out(e) = Out(c) \o V
  BY <1>3 DEF Wrote
<1>6. c.events \in Seq(EventSet) /\ Append(c.events, CloseRequest) \in Seq(EventSet) /\ c.contact \in BOOLEAN
  <2> DEFINE q == c.events
  <2>1. q \in Seq(EventSet) /\ CloseRequest \in EventSet /\ c.contact \in BOOLEAN
    BY <1>1 DEF ConnSet, EventSet
  <2> HIDE DEF q
  <2>2. Append(q, CloseRequest) \in Seq(EventSet)
    BY <2>1
  <2> QED BY <2>1, <2>2 DEF q
<1> DEFINE E == IF AsksToClose(c, reason) THEN Append(c.events, CloseRequest) ELSE c.events
<1>7. E \in Seq(EventSet) /\ c2 = [e EXCEPT !.broken = reason, !.closed = ~c.contact, !.events = E]
  BY <1>4, <1>5, <1>6
<1>8. E = IF reason # "USER" /\ c.contact THEN Append(c.events, CloseRequest) ELSE c.events
  BY DEF AsksToClose
<1> HIDE DEF E
<1>9. /\ c2 \in ConnSet /\ c2.broken = reason /\ c2.closed = ~c.contact /\ c2.events = E
      /\ c2.contact = e.contact /\ c2.par = e.par /\ c2.initiated = e.initiated
      /\ c2.up = e.up /\ c2.ok = e.ok /\ c2.recvbuf = e.recvbuf /\ c2.stall = e.stall
      /\ c2.inflight = e.inflight /\ c2.current = e.current /\ c2.todo = e.todo
      /\ c2.incoming = e.incoming /\ c2.rcvTodo = e.rcvTodo /\ c2.rcvd = e.rcvd
      /\ c2.wire = e.wire /\ c2.sendbuf = e.sendbuf
  BY <1>5, <1>6, <1>7 DEF ConnSet
<1>10. SendSide(c2) = SendSide(c) /\ RecvSide(c2) = RecvSide(c) /\ Out(c2) = Out(c) \o V /\ BufOK(c2)
  <2>1. SendSide(c2) = SendSide(e) /\ RecvSide(c2) = RecvSide(e) /\ Out(c2) = Out(e)
    BY <1>9 DEF SendSide, RecvSide, Out
  <2> QED BY <1>3, <1>5, <1>9, <2>1 DEF BufOK
<1>11. Broke(c, c2, reason)
  BY <1>5, <1>8, <1>9, <1>10 DEF Broke, Alike
<1>12. EndOK(c2, h, g, own, other) /\ c2.broken # "no" /\ c2.rcvd = c.rcvd
  BY <1>1, <1>11, BrokeEnd
<1>13. PairOK(c2, d, h, g, own, other)
  BY <1>2, <1>10, <1>12, BreakStep
<1> QED BY <1>10, <1>11, <1>13

\* A list without its last entry.
LEMMA RemoveLast ==
    ASSUME NEW S, NEW q \in Seq(S), NEW m, m = Len(q), m >= 1
    PROVE  /\ RemoveAt(q, m) \in Seq(S) /\ Len(RemoveAt(q, m)) = m - 1
           /\ \A i \in 1 .. m - 1 : RemoveAt(q, m)[i] = q[i]
<1> DEFINE v == SubSeq(q, 1, m - 1)
           w == SubSeq(q, m + 1, Len(q))
<1>1. v \in Seq(S) /\ Len(v) = m - 1 /\ \A i \in 1 .. m - 1 : v[i] = q[i]
  OBVIOUS
<1>2. w = <<>>
  OBVIOUS
<1> HIDE DEF v, w
<1>3. v \o <<>> = v
  BY <1>1
<1>4. RemoveAt(q, m) = v
  BY <1>2, <1>3 DEF RemoveAt, v, w
<1> QED BY <1>1, <1>4

\* handle_cancel_bundle of the i-th bundle in flight.
Cancels(c, i, c2) ==
    LET last == c.current /\ i = Len(c.inflight) IN
    /\ i \in 1 .. Len(c.inflight) /\ c.inflight[i].sent = 0 /\ ~(last /\ c.todo # 0)
    /\ c2 = [c EXCEPT !.current = @ /\ ~last, !.inflight = RemoveAt(@, i),
                      !.events = Append(@, SendCancelled(c.inflight[i].b))]

\* It was the last one, of which nothing was sent.
Cancelled(c, c2) ==
    /\ c2 \in ConnSet /\ Alike(c, c2) /\ c2.recvbuf = c.recvbuf /\ c2.stall = c.stall
    /\ RecvSide(c2) = RecvSide(c) /\ TakenBack(SendSide(c), SendSide(c2), Len(c.inflight))
    /\ Unbegun(SendSide(c)) /\ c2.wire = c.wire /\ c2.sendbuf = c.sendbuf
    /\ c2.events = Append(c.events, SendCancelled(Newest(SendSide(c)).b))

\* Only the newest bundle can have nothing sent, so that it is the one
\* cancelled.
LEMMA CancelledAs ==
    ASSUME NEW c \in ConnSet, NEW acks \in BOOLEAN, NEW h \in Seq(Bundles), SendOK(SendSide(c), acks, h),
           NEW i, NEW c2, Cancels(c, i, c2)
    PROVE  Cancelled(c, c2)
<1> DEFINE q == c.inflight
           m == Len(q)
           f == q[i]
           s == SendSide(c)
           I == RemoveAt(q, m)
           E == Append(c.events, SendCancelled(f.b))
<1>1. s \in SendSet /\ s.inflight = q /\ s.current = c.current /\ s.todo = c.todo
  BY SideTypes
<1>2. /\ q \in Seq(FlightSet) /\ m \in Nat /\ i \in 1 .. m /\ DOMAIN q = 1 .. m
      /\ f.b \in Bundles /\ Length[f.b] \in Nat /\ Length[f.b] > 0 /\ f.sent = 0
  <2>1. i \in 1 .. m /\ f.sent = 0
    BY DEF Cancels
  <2> QED BY <1>1, <2>1, FlightTypes
<1>3. FlightOK(s, acks, h, i)
  BY <1>1, <1>2 DEF SendOK
<1>4. i < m \/ ~c.current => f.sent = Length[f.b]
  BY <1>1, <1>3, Zenon DEF FlightOK
<1>5. i = m /\ c.current /\ c.todo = 0
  <2>1. ~(i < m) /\ c.current
    BY <1>2, <1>4
  <2>2. i = m
    <3> HIDE DEF m
    <3> QED BY <1>2, <2>1
  <2> QED BY <2>1, <2>2 DEF Cancels
<1>6. c2 = [c EXCEPT !.current = FALSE, !.inflight = I, !.events = E]
  <2>1. (c.current /\ ~(c.current /\ i = Len(c.inflight))) = FALSE
    BY <1>5
  <2>2. c.current = TRUE
    BY <1>5 DEF ConnSet
  <2> QED BY <1>5, <2>1, <2>2 DEF Cancels
<1>7. I \in Seq(FlightSet) /\ Len(I) = m - 1 /\ \A n \in 1 .. m - 1 : I[n] = q[n]
  <2>1. m >= 1
    <3> HIDE DEF m
    <3> QED BY <1>2
  <2> HIDE DEF q
  <2> QED BY <1>2, <2>1, RemoveLast, ZenonT(40)
<1>8. E \in Seq(EventSet)
  <2> DEFINE v == c.events
  <2>1. v \in Seq(EventSet) /\ SendCancelled(f.b) \in EventSet
    BY <1>2 DEF ConnSet, EventSet
  <2> HIDE DEF v
  <2>2. Append(v, SendCancelled(f.b)) \in Seq(EventSet)
    BY <2>1
  <2> QED BY <2>2 DEF v
<1>9. Newest(s) = f /\ Unbegun(s)
  <2>1. Newest(s) = f
    BY <1>1, <1>5 DEF Newest
  <2> QED BY <1>1, <1>2, <1>5, <2>1 DEF Unbegun
<1> HIDE DEF I, E
<1>10. /\ c2 \in ConnSet /\ Alike(c, c2) /\ c2.recvbuf = c.recvbuf /\ c2.stall = c.stall
       /\ c2.incoming = c.incoming /\ c2.rcvTodo = c.rcvTodo /\ c2.rcvd = c.rcvd
       /\ c2.wire = c.wire /\ c2.sendbuf = c.sendbuf /\ c2.events = E
       /\ c2.inflight = I /\ c2.current = FALSE /\ c2.todo = c.todo
  BY <1>6, <1>7, <1>8 DEF ConnSet, Alike
<1>11. RecvSide(c2) = RecvSide(c)
  BY <1>10 DEF RecvSide
<1>12. SendSide(c2).inflight = I /\ SendSide(c2).current = FALSE /\ SendSide(c2).todo = c.todo
  BY <1>10, SideTypes
<1> HIDE DEF s
<1>13. TakenBack(s, SendSide(c2), m)
  BY <1>1, <1>5, <1>7, <1>12 DEF TakenBack
<1> QED BY <1>9, <1>10, <1>11, <1>13 DEF Cancelled, s, E

\* handle_cancel_bundle keeps the pair.
LEMMA CancelStep ==
    ASSUME NEW c, NEW d, NEW h, NEW g, NEW own, NEW other, PairOK(c, d, h, g, own, other),
           c.broken = "no", BufOK(c), NEW i, NEW c2, Cancels(c, i, c2)
    PROVE  PairOK(c2, d, h, g, own, other) /\ BufOK(c2) /\ Cancelled(c, c2)
<1> DEFINE s == SendSide(c)
           s2 == SendSide(c2)
<1>1. /\ c \in ConnSet /\ h \in Seq(Bundles) /\ SendOK(s, c.par.acks, h) /\ c.par.acks \in BOOLEAN
      /\ EndOK(c, h, g, own, other)
  BY EndFacts DEF PairOK
<1>2. Cancelled(c, c2)
  BY <1>1, CancelledAs
<1>3. /\ c2 \in ConnSet /\ Alike(c, c2) /\ c2.recvbuf = c.recvbuf /\ RecvSide(c2) = RecvSide(c)
      /\ TakenBack(s, s2, Len(c.inflight)) /\ Unbegun(s) /\ c2.wire = c.wire /\ c2.sendbuf = c.sendbuf
  BY <1>2 DEF Cancelled
<1>4. s \in SendSet /\ s2 \in SendSet /\ s.todo = c.todo /\ s.current = c.current /\ s2.todo = c2.todo
  BY <1>1, <1>3, SideTypes
<1>5. /\ SendOK(s2, c.par.acks, h) /\ AckedJ(s2, h) = AckedJ(s, h) /\ AckedN(s2) = AckedN(s)
      /\ SentJ(s2, h) = SentJ(s, h) /\ SentN(s2) = SentN(s)
  BY <1>1, <1>3, <1>4, BundleCancelled
<1>6. c.up /\ s2.todo = c.todo
  <2>1. c.current /\ c.todo = 0
    BY <1>3, <1>4 DEF Unbegun
  <2>2. s2.todo = 0
    BY <1>3 DEF TakenBack
  <2> QED BY <1>1, <2>1, <2>2 DEF EndOK
<1>7. Out(c2) = Out(c) /\ BufOK(c2)
  BY <1>3 DEF Out, BufOK
<1>8. PairOK(c2, d, h, g, own, other)
  BY <1>3, <1>5, <1>6, <1>7, SendsNothing
<1> QED BY <1>2, <1>7, <1>8

\* close_contact: what it leaves of the connection. "some" is whether the
\* beginning of a bundle counts as received.
SomeReceived(c) ==
    /\ c.incoming # <<>> /\ Last(c.incoming).total = 0
    /\ c.par.reactive /\ Len(Last(c.incoming).data) > HeaderLen

Closes(c, E, c2) ==
    c2 = [c EXCEPT !.closed = TRUE, !.inflight = <<>>, !.incoming = <<>>,
                   !.sendbuf = <<>>, !.recvbuf = <<>>, !.current = FALSE,
                   !.todo = 0, !.rcvTodo = 0, !.events = E,
                   !.rcvd = IF SomeReceived(c) THEN Append(@, Last(c.incoming).data) ELSE @]

\* What the peer's bundle brought before it was cut off.
LEMMA CutOffFacts ==
    ASSUME NEW r \in RecvSet, NEW g \in Seq(Bundles), RecvOK(r, g), r.incoming # <<>>,
           Last(r.incoming).total = 0, Len(Last(r.incoming).data) > HeaderLen,
           NEW R, R = Append(r.rcvd, Last(r.incoming).data)
    PROVE  R \in Seq(Seq(UnitSet)) /\ RcvdOK(R, TRUE, g) /\ Extends(r.rcvd, R)
<1> DEFINE m == Len(r.incoming)
           f == r.incoming[m]
           v == f.data
           q == r.rcvd
           l == Len(q)
           b == g[l + 1]
<1>1. Last(r.incoming) = f
  BY DEF Last
<1>2. Partial(r)
  BY <1>1 DEF Partial, Newcomer
<1>3. /\ m \in 1 .. m /\ l + 1 \in 1 .. Len(g) /\ Len(v) < Length[b]
      /\ \A i \in 1 .. Len(v) : v[i] = Data(b, i)
  BY <1>2, NewcomerFacts
<1>4. v \in Seq(UnitSet) /\ q \in Seq(Seq(UnitSet)) /\ l \in Nat /\ DOMAIN q = 1 .. l
  BY <1>3, IncomingTypes
<1>5. \A i \in 1 .. l : q[i] = Whole[g[i]]
  BY <1>4 DEF RecvOK
<1>6. CutOff(v, b)
  BY <1>1, <1>3 DEF CutOff
<1>7. R = Append(q, v)
  BY <1>1
<1>8. l + 1 <= Len(g)
  <2> HIDE DEF l
  <2> QED BY <1>3, <1>4
<1> HIDE DEF v, q
<1>9. R \in Seq(Seq(UnitSet)) /\ Len(R) = l + 1 /\ R[l + 1] = v /\ \A i \in 1 .. l : R[i] = q[i]
  BY <1>4, <1>7
<1>10. ASSUME NEW i \in DOMAIN R
       PROVE  R[i] = Whole[g[i]] \/ (i = Len(R) /\ CutOff(R[i], g[i]))
  <2>1. i \in 1 .. l \/ i = l + 1
    BY <1>4, <1>9, <1>10
  <2> QED BY <1>5, <1>6, <1>9, <2>1
<1>11. RcvdOK(R, TRUE, g)
  BY <1>8, <1>9, <1>10 DEF RcvdOK
<1>12. Extends(q, R)
  BY <1>4, <1>9 DEF Extends
<1> QED BY <1>9, <1>11, <1>12 DEF q

\* Closed(c, c2): nothing is under way any more.
Closed(c, E, c2) ==
    /\ c2 \in ConnSet /\ c2.contact = c.contact /\ c2.par = c.par /\ c2.initiated = c.initiated
    /\ c2.up = c.up /\ c2.broken = c.broken /\ c2.closed /\ c2.ok = c.ok
    /\ c2.inflight = <<>> /\ c2.incoming = <<>> /\ c2.todo = 0 /\ c2.rcvTodo = 0 /\ ~c2.current
    /\ c2.sendbuf = <<>> /\ c2.wire = c.wire /\ c2.recvbuf = <<>> /\ c2.events = E
    /\ Extends(c.rcvd, c2.rcvd) /\ c2.stall = c.stall

\* close_contact keeps the pair.
LEMMA ContactClosed ==
    ASSUME NEW c, NEW d, NEW h, NEW g, NEW own, NEW other, PairOK(c, d, h, g, own, other),
           c.broken # "no", ~c.closed, BufOK(c), NEW E \in Seq(EventSet), NEW c2, Closes(c, E, c2)
    PROVE  PairOK(c2, d, h, g, own, other) /\ BufOK(c2) /\ Closed(c, E, c2)
<1> DEFINE r == RecvSide(c)
           R == IF SomeReceived(c) THEN Append(c.rcvd, Last(c.incoming).data) ELSE c.rcvd
<1>1. c \in ConnSet /\ EndOK(c, h, g, own, other) /\ g \in Seq(Bundles)
  BY DEF PairOK, EndOK
<1>2. r \in RecvSet /\ r.incoming = c.incoming /\ r.rcvd = c.rcvd /\ c.rcvd \in Seq(Seq(UnitSet))
  BY <1>1, SideTypes, IncomingTypes
<1>3. RecvOK(r, g) /\ RcvdOK(c.rcvd, c.closed, g)
  BY <1>1 DEF EndOK
<1>4. R \in Seq(Seq(UnitSet)) /\ RcvdOK(R, TRUE, g) /\ Extends(c.rcvd, R)
  <2>1. CASE SomeReceived(c)
    <3>1. R = Append(r.rcvd, Last(r.incoming).data)
      BY <1>2, <2>1
    <3>2. r.incoming # <<>> /\ Last(r.incoming).total = 0 /\ Len(Last(r.incoming).data) > HeaderLen
      BY <1>2, <2>1 DEF SomeReceived
    <3> HIDE DEF R, r
    <3>3. R \in Seq(Seq(UnitSet)) /\ RcvdOK(R, TRUE, g) /\ Extends(r.rcvd, R)
      BY <1>1, <1>2, <1>3, <3>1, <3>2, CutOffFacts
    <3> QED BY <1>2, <3>3
  <2>2. CASE ~SomeReceived(c)
    <3>1. R = c.rcvd
      BY <2>2
    <3>2. Extends(c.rcvd, c.rcvd)
      <4> DEFINE q == c.rcvd
      <4>1. Extends(q, q)
        <5>1. Len(q) \in Nat
          BY <1>2
        <5> HIDE DEF q
        <5> QED BY <5>1 DEF Extends
      <4> QED BY <4>1
    <3>3. RcvdOK(c.rcvd, TRUE, g)
      BY <1>3 DEF RcvdOK
    <3> QED BY <1>2, <3>1, <3>2, <3>3
  <2> QED BY <2>1, <2>2
<1>5. c2 = [c EXCEPT !.closed = TRUE, !.inflight = <<>>, !.incoming = <<>>,
                     !.sendbuf = <<>>, !.recvbuf = <<>>, !.current = FALSE,
                     !.todo = 0, !.rcvTodo = 0, !.events = E, !.rcvd = R]
  BY DEF Closes
<1>6. ~c.up => R = <<>>
  BY <1>1 DEF EndOK, SomeReceived
<1> HIDE DEF R
<1>7. /\ c2 \in ConnSet /\ c2.contact = c.contact /\ c2.par = c.par /\ c2.initiated = c.initiated
      /\ c2.up = c.up /\ c2.broken = c.broken /\ c2.closed /\ c2.ok = c.ok
      /\ c2.inflight = <<>> /\ c2.incoming = <<>> /\ c2.todo = 0 /\ c2.rcvTodo = 0 /\ ~c2.current
      /\ c2.sendbuf = <<>> /\ c2.wire = c.wire /\ c2.recvbuf = <<>> /\ c2.events = E
      /\ c2.rcvd = R /\ c2.stall = c.stall
  <2> DEFINE F == <<>>
  <2>1. F \in Seq(FlightSet) /\ F \in Seq(IncomingSet) /\ F \in Seq(UnitSet)
    OBVIOUS
  <2>2. c2 = [c EXCEPT !.closed = TRUE, !.inflight = F, !.incoming = F,
                       !.sendbuf = F, !.recvbuf = F, !.current = FALSE,
                       !.todo = 0, !.rcvTodo = 0, !.events = E, !.rcvd = R]
    BY <1>5
  <2> HIDE DEF F
  <2>3. c2 \in ConnSet
    BY <1>1, <1>4, <2>1, <2>2 DEF ConnSet
  <2>4. /\ c2.contact = c.contact /\ c2.par = c.par /\ c2.initiated = c.initiated
        /\ c2.up = c.up /\ c2.broken = c.broken /\ c2.closed = TRUE /\ c2.ok = c.ok
        /\ c2.inflight = F /\ c2.incoming = F /\ c2.todo = 0 /\ c2.rcvTodo = 0 /\ c2.current = FALSE
        /\ c2.sendbuf = F /\ c2.wire = c.wire /\ c2.recvbuf = F /\ c2.events = E
        /\ c2.rcvd = R /\ c2.stall = c.stall
    BY <1>1, <2>2 DEF ConnSet
  <2> QED BY <2>3, <2>4 DEF F
<1>8. Closed(c, E, c2)
  BY <1>4, <1>7 DEF Closed
<1>9. EndOK(c2, h, g, own, other)
  BY <1>1, <1>4, <1>6, <1>7 DEF EndOK
<1>10. PairOK(c2, d, h, g, own, other)
  BY <1>4, <1>7, <1>9, CloseStep
<1>11. BufOK(c2)
  BY <1>7, Constants DEF BufOK
<1> QED BY <1>8, <1>10, <1>11

(***************************************************************************)
(* send_pending_data.                                                      *)
(***************************************************************************)
\* The bundles that an end has started: the ones it began, and the one that is
\* waiting for its first segment.
Started(c, h) == BundlesBegun(SendSide(c), h)

SendsPending(c, q, starts, c2) ==
    LET d == IF c.todo # 0 THEN send_data_todo(c) ELSE c
        a == send_pending_acks(d)
        go == d.todo = 0 /\ ~a.current /\ a.up /\ q # <<>>
        s == IF go THEN start_next_bundle(a, Head(q)) ELSE a
        n == IF s.current THEN send_next_segment(s) ELSE s
    IN  starts = go /\ c2 = IF d.todo # 0 THEN d ELSE n

\* What that comes to for the daemon.
Same(c, c2) ==
    Alike(c, c2) /\ c2.recvbuf = c.recvbuf /\ c2.stall = c.stall /\ c2.rcvd = c.rcvd

Reports(c, c2, h) ==
    \/ c2.events = c.events
    \/ /\ ~c.par.acks /\ Len(h) > 0
       /\ c2.events = Append(c.events, Transmitted(h[Len(h)], Length[h[Len(h)]], Length[h[Len(h)]]))

Progress(c, c2, h, h2, starts, b) ==
    /\ Same(c, c2) /\ Reports(c, c2, h) /\ h2 \in Seq(Bundles) /\ Extends(h, h2)
    /\ starts => Started(c2, h2) = Append(Started(c, h), b)
    /\ ~starts => Started(c2, h2) = Started(c, h)

\* The segment that is under way, and the acknowledgements.
LEMMA FirstPart ==
    ASSUME NEW c, NEW d, NEW h, NEW g, NEW own, NEW other, PairOK(c, d, h, g, own, other),
           c.broken = "no", BufOK(c)
    PROVE  LET e == IF c.todo # 0 THEN send_data_todo(c) ELSE c IN
           /\ PairOK(e, d, h, g, own, other) /\ BufOK(e) /\ Same(c, e) /\ e.events = c.events
           /\ Started(e, h) = Started(c, h)
<1> DEFINE e == IF c.todo # 0 THEN send_data_todo(c) ELSE c
<1> SUFFICES /\ PairOK(e, d, h, g, own, other) /\ BufOK(e) /\ Same(c, e) /\ e.events = c.events
             /\ Started(e, h) = Started(c, h)
  OBVIOUS
<1>1. c \in ConnSet /\ EndOK(c, h, g, own, other)
  BY DEF PairOK, EndOK
<1>2. CASE c.todo = 0
  <2>1. e = c
    BY <1>2
  <2> HIDE DEF e
  <2> QED BY <2>1 DEF Same, Alike
<1>3. CASE c.todo # 0
  <2>1. e = send_data_todo(c)
    BY <1>3
  <2>2. c.up
    BY <1>1, <1>3 DEF EndOK
  <2> HIDE DEF e
  <2>3. /\ PairOK(e, d, h, g, own, other) /\ BufOK(e) /\ Keeps(c, e)
        /\ ~Unbegun(SendSide(e))
    BY <1>3, <2>1, <2>2, DataTodo
  <2>4. ~Unbegun(SendSide(c))
    BY <1>1, <1>3, SideTypes DEF Unbegun
  <2>5. Started(e, h) = h /\ Started(c, h) = h
    BY <2>3, <2>4 DEF Started, BundlesBegun
  <2>6. e.rcvd = c.rcvd
    <3>1. e \in ConnSet
      BY <2>3 DEF PairOK, EndOK
    <3> QED BY <1>1, <2>3, <3>1, SideTypes DEF Keeps
  <2> QED BY <2>3, <2>5, <2>6 DEF Same, Keeps
<1> QED BY <1>2, <1>3

\* Then the acknowledgements.
LEMMA SecondPart ==
    ASSUME NEW c, NEW d, NEW h, NEW g, NEW own, NEW other, PairOK(c, d, h, g, own, other),
           c.broken = "no", BufOK(c), c.todo = 0
    PROVE  LET a == send_pending_acks(c) IN
           /\ PairOK(a, d, h, g, own, other) /\ BufOK(a) /\ Same(c, a) /\ a.events = c.events
           /\ Started(a, h) = Started(c, h) /\ a.todo = 0
<1> DEFINE a == send_pending_acks(c)
<1>1. PairOK(a, d, h, g, own, other) /\ BufOK(a) /\ Gave(c, a)
  BY AcksSent
<1> HIDE DEF a
<1>2. Same(c, a) /\ a.events = c.events /\ Started(a, h) = Started(c, h)
  BY <1>1 DEF Same, Gave, Started
<1>3. a.todo = 0
  <2>1. c \in ConnSet /\ a \in ConnSet /\ SendSide(a) = SendSide(c)
    BY <1>1 DEF PairOK, EndOK, Gave
  <2> QED BY <2>1, SideTypes
<1> QED BY <1>1, <1>2, <1>3 DEF a

\* The next segment, of the bundle that is being sent or of the next one.
ThirdPart(a, q, starts, c2) ==
    /\ starts <=> ~a.current /\ a.up /\ q # <<>>
    /\ starts => c2 = send_next_segment(start_next_bundle(a, Head(q)))
    /\ ~starts => c2 = IF a.current THEN send_next_segment(a) ELSE a

\* What a pair says of its first end.
LEMMA ConnFields ==
    ASSUME NEW c, NEW d, NEW h, NEW g, NEW own, NEW other, PairOK(c, d, h, g, own, other)
    PROVE  c \in ConnSet /\ c.rcvd = RecvSide(c).rcvd /\ h \in Seq(Bundles) /\ EndOK(c, h, g, own, other)
           /\ Extends(h, h)
<1>1. c \in ConnSet /\ h \in Seq(Bundles) /\ EndOK(c, h, g, own, other)
  BY DEF PairOK, EndOK
<1>2. c.rcvd = RecvSide(c).rcvd
  BY <1>1, SideTypes
<1>3. Extends(h, h)
  BY <1>1 DEF Extends
<1> QED BY <1>1, <1>2, <1>3

\* send_next_segment: what it comes to.
LEMMA SegmentProgress ==
    ASSUME NEW c, NEW d, NEW h, NEW g, NEW own, NEW other, PairOK(c, d, h, g, own, other),
           c.broken = "no", c.up, BufOK(c), c.current, c.todo = 0,
           NEW c2, c2 = send_next_segment(c)
    PROVE  \E h2 : /\ PairOK(c2, d, h2, g, own, other) /\ BufOK(c2)
                   /\ Progress(c, c2, h, h2, FALSE, 0)
                   /\ Unbegun(SendSide(c)) => c2.events = c.events
<1> DEFINE H == BundlesBegun(SendSide(c), h)
<1>1. c \in ConnSet /\ c.rcvd = RecvSide(c).rcvd /\ h \in Seq(Bundles) /\ Extends(h, h)
  BY ConnFields
<1>2. /\ BufOK(c2)
      /\ \/ PairOK(c2, d, h, g, own, other) /\ c2 = c
         \/ /\ PairOK(c2, d, h, g, own, other) /\ Finished(c, c2)
            /\ ~Unbegun(SendSide(c)) /\ ~Unbegun(SendSide(c2))
            /\ Len(h) > 0 /\ Newest(SendSide(c)).b = h[Len(h)]
         \/ /\ PairOK(c2, d, H, g, own, other)
            /\ Keeps(c, c2) /\ SameFlight(c, c2) /\ ~Unbegun(SendSide(c2))
  BY NextSegment
<1>3. CASE PairOK(c2, d, h, g, own, other) /\ c2 = c
  <2>1. Progress(c, c2, h, h, FALSE, 0)
    BY <1>1, <1>3 DEF Progress, Same, Alike, Reports
  <2> QED BY <1>2, <1>3, <2>1
<1>4. CASE /\ PairOK(c2, d, h, g, own, other) /\ Finished(c, c2)
           /\ ~Unbegun(SendSide(c)) /\ ~Unbegun(SendSide(c2))
           /\ Len(h) > 0 /\ Newest(SendSide(c)).b = h[Len(h)]
  <2>1. c2.rcvd = RecvSide(c2).rcvd
    BY <1>4, ConnFields
  <2>2. Same(c, c2)
    BY <1>1, <1>4, <2>1 DEF Same, Finished
  <2>3. Reports(c, c2, h)
    BY <1>4 DEF Finished, Reports
  <2>4. Started(c2, h) = Started(c, h)
    BY <1>4 DEF Started, BundlesBegun
  <2>5. Progress(c, c2, h, h, FALSE, 0)
    BY <1>1, <2>2, <2>3, <2>4 DEF Progress
  <2> QED BY <1>2, <1>4, <2>5
<1>5. CASE /\ PairOK(c2, d, H, g, own, other)
           /\ Keeps(c, c2) /\ SameFlight(c, c2) /\ ~Unbegun(SendSide(c2))
  <2>1. c2.rcvd = RecvSide(c2).rcvd /\ H \in Seq(Bundles)
    BY <1>5, ConnFields
  <2>2. Same(c, c2) /\ c2.events = c.events
    BY <1>1, <1>5, <2>1 DEF Same, Keeps
  <2>3. Started(c2, H) = Started(c, h)
    BY <1>5 DEF Started, BundlesBegun
  <2>4. Extends(h, H)
    <3>1. CASE Unbegun(SendSide(c))
      <4> DEFINE x == Newest(SendSide(c)).b
      <4>1. H = Append(h, x)
        BY <3>1 DEF BundlesBegun
      <4> HIDE DEF H, x
      <4> QED BY <1>1, <4>1 DEF Extends
    <3>2. CASE ~Unbegun(SendSide(c))
      BY <1>1, <3>2 DEF BundlesBegun
    <3> QED BY <3>1, <3>2
  <2> HIDE DEF H
  <2>5. Progress(c, c2, h, H, FALSE, 0)
    BY <2>1, <2>2, <2>3, <2>4 DEF Progress, Reports
  <2> QED BY <1>2, <1>5, <2>2, <2>5
<1> QED BY <1>2, <1>3, <1>4, <1>5

\* Last, a segment of the bundle being sent or of the next one.
LEMMA LastPart ==
    ASSUME NEW a, NEW d, NEW h, NEW g, NEW own, NEW other, PairOK(a, d, h, g, own, other),
           a.broken = "no", BufOK(a), a.todo = 0, NEW q \in Seq(Bundles),
           NEW starts, NEW c2, ThirdPart(a, q, starts, c2)
    PROVE  \E h2 : /\ PairOK(c2, d, h2, g, own, other) /\ BufOK(c2)
                   /\ Progress(a, c2, h, h2, starts, Head(q))
<1>1. /\ a \in ConnSet /\ a.rcvd = RecvSide(a).rcvd /\ h \in Seq(Bundles) /\ Extends(h, h)
      /\ EndOK(a, h, g, own, other)
  BY ConnFields
<1>2. CASE starts
  <2> DEFINE b == Head(q)
             s == start_next_bundle(a, b)
  <2>1. ~a.current /\ a.up /\ q # <<>> /\ c2 = send_next_segment(s)
    BY <1>2 DEF ThirdPart
  <2>2. b \in Bundles
    BY <2>1
  <2> HIDE DEF b
  <2>3. /\ PairOK(s, d, h, g, own, other) /\ BufOK(s) /\ Keeps(a, s)
        /\ Unbegun(SendSide(s)) /\ s.current /\ s.todo = 0 /\ Newest(SendSide(s)).b = b
    BY <2>1, <2>2, StartBundle
  <2> HIDE DEF s
  <2>4. s.broken = "no" /\ s.up
    BY <2>1, <2>3 DEF Keeps, Alike
  <2>5. PICK h2 : /\ PairOK(c2, d, h2, g, own, other) /\ BufOK(c2)
                  /\ Progress(s, c2, h, h2, FALSE, 0) /\ c2.events = s.events
    BY <2>1, <2>3, <2>4, SegmentProgress
  <2>6. Started(a, h) = h /\ Started(s, h) = Append(h, b)
    <3>1. ~Unbegun(SendSide(a))
      BY <1>1, <2>1, SideTypes DEF Unbegun
    <3> QED BY <2>3, <3>1 DEF Started, BundlesBegun
  <2>7. Same(s, c2) /\ h2 \in Seq(Bundles) /\ Extends(h, h2) /\ Started(c2, h2) = Started(s, h)
    BY <2>5 DEF Progress
  <2>8. Same(a, c2) /\ c2.events = a.events
    <3>1. s.rcvd = a.rcvd
      <4>1. s.rcvd = RecvSide(s).rcvd
        BY <2>3, ConnFields
      <4> QED BY <1>1, <2>3, <4>1 DEF Keeps
    <3> QED BY <2>3, <2>5, <2>7, <3>1 DEF Same, Alike, Keeps
  <2>9. Progress(a, c2, h, h2, starts, b)
    BY <1>2, <2>6, <2>7, <2>8 DEF Progress, Reports
  <2> QED BY <2>5, <2>9 DEF b
<1>3. CASE ~starts /\ a.current
  <2>1. c2 = send_next_segment(a)
    BY <1>3 DEF ThirdPart
  <2>2. a.up
    BY <1>1, <1>3 DEF EndOK
  <2>3. PICK h2 : /\ PairOK(c2, d, h2, g, own, other) /\ BufOK(c2)
                  /\ Progress(a, c2, h, h2, FALSE, 0)
    BY <1>3, <2>1, <2>2, SegmentProgress
  <2>4. Progress(a, c2, h, h2, starts, Head(q))
    BY <1>3, <2>3 DEF Progress
  <2> QED BY <2>3, <2>4
<1>4. CASE ~starts /\ ~a.current
  <2>1. c2 = a
    BY <1>4 DEF ThirdPart
  <2>2. Progress(a, c2, h, h, starts, Head(q))
    BY <1>1, <1>4, <2>1 DEF Progress, Same, Alike, Reports
  <2> QED BY <2>1, <2>2
<1> QED BY <1>2, <1>3, <1>4

\* The first two parts are no progress for the daemon.
LEMMA ProgressFrom ==
    ASSUME NEW c, NEW a, NEW c2, NEW h, NEW h2, NEW starts, NEW b,
           Same(c, a), a.events = c.events, Started(a, h) = Started(c, h),
           Progress(a, c2, h, h2, starts, b)
    PROVE  Progress(c, c2, h, h2, starts, b)
<1>1. Same(a, c2) /\ Reports(a, c2, h)
  BY DEF Progress
<1>2. Same(c, c2)
  BY <1>1 DEF Same, Alike
<1>3. Reports(c, c2, h)
  BY <1>1 DEF Reports, Same, Alike
<1> QED BY <1>2, <1>3 DEF Progress

\* send_pending_data keeps the pair.
LEMMA PendingSent ==
    ASSUME NEW c, NEW d, NEW h, NEW g, NEW own, NEW other, PairOK(c, d, h, g, own, other),
           c.broken = "no", BufOK(c), NEW q \in Seq(Bundles),
           NEW starts, NEW c2, SendsPending(c, q, starts, c2)
    PROVE  \E h2 : /\ PairOK(c2, d, h2, g, own, other) /\ BufOK(c2)
                   /\ Progress(c, c2, h, h2, starts, Head(q))
                   /\ starts => q # <<>>
<1> DEFINE e == IF c.todo # 0 THEN send_data_todo(c) ELSE c
           a == send_pending_acks(e)
           go == e.todo = 0 /\ ~a.current /\ a.up /\ q # <<>>
           s == IF go THEN start_next_bundle(a, Head(q)) ELSE a
           n == IF s.current THEN send_next_segment(s) ELSE s
<1>1. starts = go /\ c2 = IF e.todo # 0 THEN e ELSE n
  BY DEF SendsPending
<1>2. /\ PairOK(e, d, h, g, own, other) /\ BufOK(e) /\ Same(c, e) /\ e.events = c.events
      /\ Started(e, h) = Started(c, h)
  BY FirstPart
<1>3. h \in Seq(Bundles) /\ Extends(h, h)
  BY ConnFields
<1> HIDE DEF e
<1>4. CASE e.todo # 0
  <2>1. ~starts /\ c2 = e
    BY <1>1, <1>4
  <2> HIDE DEF n, s, a, go
  <2>2. Progress(c, c2, h, h, starts, Head(q))
    BY <1>2, <1>3, <2>1 DEF Progress, Reports
  <2> QED BY <1>2, <2>1, <2>2
<1>5. CASE e.todo = 0
  <2>1. e.broken = "no"
    BY <1>2 DEF Same, Alike
  <2>2. /\ PairOK(a, d, h, g, own, other) /\ BufOK(a) /\ Same(e, a) /\ a.events = e.events
        /\ Started(a, h) = Started(e, h) /\ a.todo = 0
    BY <1>2, <1>5, <2>1, SecondPart
  <2> HIDE DEF a
  <2>3. ThirdPart(a, q, starts, c2)
    <3>1. CASE go
      <4>1. starts /\ ~a.current /\ a.up /\ q # <<>> /\ s = start_next_bundle(a, Head(q))
            /\ c2 = IF s.current THEN send_next_segment(s) ELSE s
        BY <1>1, <1>5, <3>1
      <4>2. s.current
        <5>1. a \in ConnSet
          BY <2>2, ConnFields
        <5>2. start_next_bundle(a, Head(q)).current
          BY <5>1 DEF start_next_bundle, ConnSet
        <5> QED BY <4>1, <5>2
      <4> HIDE DEF go, s, n
      <4> QED BY <4>1, <4>2 DEF ThirdPart
    <3>2. CASE ~go
      <4>1. ~starts /\ c2 = IF a.current THEN send_next_segment(a) ELSE a
        BY <1>1, <1>5, <3>2
      <4>2. ~(~a.current /\ a.up /\ q # <<>>)
        BY <1>5, <3>2
      <4> HIDE DEF go, s, n
      <4> QED BY <4>1, <4>2 DEF ThirdPart
    <3> QED BY <3>1, <3>2
  <2>4. a.broken = "no"
    BY <2>1, <2>2 DEF Same, Alike
  <2> HIDE DEF go, s, n
  <2>5. PICK h2 : /\ PairOK(c2, d, h2, g, own, other) /\ BufOK(c2)
                  /\ Progress(a, c2, h, h2, starts, Head(q))
    BY <2>2, <2>3, <2>4, LastPart
  <2>6. Same(c, a) /\ a.events = c.events /\ Started(a, h) = Started(c, h)
    BY <1>2, <2>2 DEF Same, Alike
  <2>7. Progress(c, c2, h, h2, starts, Head(q))
    BY <2>5, <2>6, ProgressFrom
  <2>8. starts => q # <<>>
    BY <2>3 DEF ThirdPart
  <2> QED BY <2>5, <2>7, <2>8
<1> QED BY <1>4, <1>5

=============================================================================
