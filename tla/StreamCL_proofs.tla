-------------------------- MODULE StreamCL_proofs ---------------------------
(***************************************************************************)
(* Theorems about StreamCL, for any bundles of any lengths, any segment    *)
(* length and sizes of buffers, and any parameters of the two ends, when   *)
(* the accepting end's link is new: the links and the connections are      *)
(* consistent, no end sees a protocol error, what arrives is what was      *)
(* sent, nothing is sent again that was confirmed, and the whole           *)
(* implements BundleTransfer.                                              *)
(***************************************************************************)
EXTENDS StreamLane_proofs

(***************************************************************************)
(* Reading: what a unit does.                                              *)
(***************************************************************************)
\* The unit u is the next one on the wire from d, and R comes after it.
Unread1(d, u, R, d2) ==
    /\ u \in UnitSet /\ R \in Seq(UnitSet) /\ d.wire = <<u>> \o R
    /\ d2 = [d EXCEPT !.wire = R]

\* An end that handles a unit writes nothing.
ReadsAs(c, c2, h, g, own, other) ==
    /\ EndOK(c2, h, g, own, other) /\ c2.broken = "no" /\ Out(c2) = Out(c)
    /\ WroteTo(c2, LaneOf(h, g, own, other)) = WroteTo(c, LaneOf(h, g, own, other))
    /\ Extends(c.rcvd, c2.rcvd)

\* The stream before and after the unit is taken off the wire, seen from an end
\* that has B in its buffer.
TakenOff(d, d2, u) ==
    /\ Out(d) = <<u>> \o Out(d2) /\ Out(d2) \in Seq(UnitSet) /\ <<u>> \in Seq(UnitSet)
    /\ u \in UnitSet /\ Out(d) \in Seq(UnitSet)

KeptBack(B, d, d2, u) == B \o Out(d) = Append(B, u) \o Out(d2)

\* A unit is taken off the wire.
LEMMA UnitTaken ==
    ASSUME NEW d \in ConnSet, NEW u, NEW R, NEW d2, Unread1(d, u, R, d2)
    PROVE  /\ TakenOff(d, d2, u)
           /\ \A B \in Seq(UnitSet) : KeptBack(B, d, d2, u)
<1> DEFINE w == d.wire
           b == d.sendbuf
<1>1. b \in Seq(UnitSet) /\ w = <<u>> \o R /\ u \in UnitSet /\ R \in Seq(UnitSet)
  BY SideTypes DEF Unread1
<1>2. Out(d2) = R \o b
  BY DEF Out, Unread1, ConnSet
<1>3. Out(d) = w \o b
  BY DEF Out
<1> HIDE DEF w, b
<1>4. <<u>> \in Seq(UnitSet) /\ R \o b \in Seq(UnitSet)
  BY <1>1
<1>5. Out(d) = <<u>> \o (R \o b)
  BY <1>1, <1>3, <1>4, Joined
<1> DEFINE O == R \o b
<1> HIDE DEF O
<1>6. O \in Seq(UnitSet) /\ Out(d) = <<u>> \o O /\ Out(d2) = O
  BY <1>2, <1>4, <1>5 DEF O
<1>7. ASSUME NEW B \in Seq(UnitSet)
      PROVE  KeptBack(B, d, d2, u)
  <2>1. B \o (<<u>> \o O) = (B \o <<u>>) \o O
    BY <1>4, <1>6, Joined
  <2>2. B \o <<u>> = Append(B, u)
    BY <1>1
  <2> QED BY <1>6, <2>1, <2>2 DEF KeptBack
<1>8. <<u>> \o O \in Seq(UnitSet)
  BY <1>4, <1>6
<1> QED BY <1>1, <1>4, <1>6, <1>7, <1>8 DEF TakenOff

\* What the next unit is.
LEMMA NextUnit ==
    ASSUME NEW c, NEW d, NEW h, NEW g, NEW own, NEW other, PairOK(c, d, h, g, own, other),
           c.broken = "no", NEW u, NEW R, NEW d2, Unread1(d, u, R, d2), c.recvbuf = <<>>
    PROVE  LET k == LaneOf(g, h, other, own) IN
           \E z, y \in Position : /\ Move(k, ReadsFrom(c, k), u, z) /\ Below(z.aj, z.an, y.aj, y.an)
                                  /\ AcksOK(y, k, d, c)
<1> DEFINE k == LaneOf(g, h, other, own)
<1>1. LaneOK(k, d, c) /\ d \in ConnSet
  BY DEF PairOK, EndOK
<1>2. PICK y \in Position : /\ Run(k, ReadsFrom(c, k), c.recvbuf \o Out(d), y)
                            /\ AcksOK(y, k, d, c)
  BY <1>1 DEF LaneOK
<1>3. Out(d) = <<u>> \o Out(d2) /\ Out(d2) \in Seq(UnitSet) /\ <<u>> \in Seq(UnitSet) /\ u \in UnitSet
  <2>1. TakenOff(d, d2, u)
    BY <1>1, UnitTaken
  <2> QED BY <2>1 DEF TakenOff
<1>4. c.recvbuf \o Out(d) = <<u>> \o Out(d2)
  <2> DEFINE O == Out(d)
  <2>1. O \in Seq(UnitSet)
    BY <1>1, SideTypes
  <2> HIDE DEF O
  <2>2. <<>> \o O = O
    BY <2>1
  <2> QED BY <1>3, <2>2 DEF O
<1> HIDE DEF k
<1>5. PICK z \in Position : Move(k, ReadsFrom(c, k), u, z) /\ Run(k, z, Out(d2), y)
  BY <1>2, <1>3, <1>4, RunFirst
<1>6. Below(z.aj, z.an, y.aj, y.an)
  BY <1>3, <1>5, RunGrows
<1> QED BY <1>2, <1>5, <1>6 DEF k

\* A unit is handled and gone.
LEMMA UnitRead ==
    ASSUME NEW c, NEW d, NEW h, NEW g, NEW own, NEW other, PairOK(c, d, h, g, own, other),
           c.broken = "no", NEW u, NEW R, NEW d2, Unread1(d, u, R, d2), c.recvbuf = <<>>,
           NEW c2, ReadsAs(c, c2, h, g, own, other), c2.recvbuf = <<>>,
           \A z \in Position :
               Move(LaneOf(g, h, other, own), ReadsFrom(c, LaneOf(g, h, other, own)), u, z) =>
               z = ReadsFrom(c2, LaneOf(g, h, other, own))
    PROVE  PairOK(c2, d2, h, g, own, other)
<1> DEFINE k == LaneOf(g, h, other, own)
<1>1. d \in ConnSet
  BY DEF PairOK, EndOK
<1>2. Out(d) = <<u>> \o Out(d2) /\ Out(d2) \in Seq(UnitSet) /\ <<u>> \in Seq(UnitSet) /\ u \in UnitSet
  <2>1. TakenOff(d, d2, u)
    BY <1>1, UnitTaken
  <2> QED BY <2>1 DEF TakenOff
<1>3. c.recvbuf \o Out(d) = <<u>> \o Out(d2) /\ c2.recvbuf \o Out(d2) = Out(d2)
  <2> DEFINE O == Out(d)
             P == Out(d2)
  <2>1. O \in Seq(UnitSet) /\ P \in Seq(UnitSet)
    BY <1>1, <1>2, SideTypes
  <2> HIDE DEF O, P
  <2>2. <<>> \o O = O /\ <<>> \o P = P
    BY <2>1
  <2> QED BY <1>2, <2>2 DEF O, P
<1>4. ASSUME NEW y \in Position, Run(k, ReadsFrom(c, k), c.recvbuf \o Out(d), y)
      PROVE  Run(k, ReadsFrom(c2, k), c2.recvbuf \o Out(d2), y)
  <2>0. \A z \in Position : Move(k, ReadsFrom(c, k), u, z) => z = ReadsFrom(c2, k)
    OBVIOUS
  <2> HIDE DEF k
  <2>1. PICK z \in Position : Move(k, ReadsFrom(c, k), u, z) /\ Run(k, z, Out(d2), y)
    BY <1>2, <1>3, <1>4, RunFirst
  <2>2. z = ReadsFrom(c2, k)
    BY <2>0, <2>1
  <2> QED BY <1>3, <2>1, <2>2
<1>5. /\ EndOK(c2, h, g, own, other) /\ c2.broken = "no" /\ Out(c2) = Out(c)
      /\ WroteTo(c2, LaneOf(h, g, own, other)) = WroteTo(c, LaneOf(h, g, own, other))
      /\ Extends(c.rcvd, c2.rcvd) /\ R \in Seq(UnitSet) /\ d2 = [d EXCEPT !.wire = R]
  BY DEF ReadsAs, Unread1
<1> QED BY <1>4, <1>5, RecvStep

\* A unit stays in the buffer.
LEMMA UnitKept ==
    ASSUME NEW c, NEW d, NEW h, NEW g, NEW own, NEW other, PairOK(c, d, h, g, own, other),
           c.broken = "no", NEW u, NEW R, NEW d2, Unread1(d, u, R, d2),
           NEW c2, ReadsAs(c, c2, h, g, own, other), c2.recvbuf = Append(c.recvbuf, u),
           ReadsFrom(c2, LaneOf(g, h, other, own)) = ReadsFrom(c, LaneOf(g, h, other, own))
    PROVE  PairOK(c2, d2, h, g, own, other)
<1> DEFINE k == LaneOf(g, h, other, own)
<1>1. c \in ConnSet /\ d \in ConnSet
  BY DEF PairOK, EndOK
<1>2. c.recvbuf \in Seq(UnitSet)
  BY <1>1, SideTypes
<1>3. c.recvbuf \o Out(d) = c2.recvbuf \o Out(d2)
  <2> DEFINE B == c.recvbuf
  <2>1. B \in Seq(UnitSet) /\ c2.recvbuf = Append(B, u)
    BY <1>2
  <2> HIDE DEF B
  <2>2. B \o Out(d) = Append(B, u) \o Out(d2)
    BY <1>1, <2>1, UnitTaken DEF KeptBack
  <2> QED BY <2>1, <2>2 DEF B
<1>4. \A y \in Position : Run(k, ReadsFrom(c, k), c.recvbuf \o Out(d), y) =>
                          Run(k, ReadsFrom(c2, k), c2.recvbuf \o Out(d2), y)
  BY <1>3
<1>5. /\ EndOK(c2, h, g, own, other) /\ c2.broken = "no" /\ Out(c2) = Out(c)
      /\ WroteTo(c2, LaneOf(h, g, own, other)) = WroteTo(c, LaneOf(h, g, own, other))
      /\ Extends(c.rcvd, c2.rcvd) /\ R \in Seq(UnitSet) /\ d2 = [d EXCEPT !.wire = R]
  BY DEF ReadsAs, Unread1
<1> QED BY <1>4, <1>5, RecvStep

\* The unit in the buffer and the next one are handled together.
LEMMA SecondUnit ==
    ASSUME NEW c, NEW d, NEW h, NEW g, NEW own, NEW other, PairOK(c, d, h, g, own, other),
           c.broken = "no", NEW u, NEW R, NEW d2, Unread1(d, u, R, d2), NEW s \in UnitSet, c.recvbuf = <<s>>
    PROVE  LET k == LaneOf(g, h, other, own) IN
           \E x, z \in Position : Move(k, ReadsFrom(c, k), s, x) /\ Move(k, x, u, z)
<1> DEFINE k == LaneOf(g, h, other, own)
<1>1. LaneOK(k, d, c) /\ d \in ConnSet
  BY DEF PairOK, EndOK
<1>2. PICK y \in Position : Run(k, ReadsFrom(c, k), c.recvbuf \o Out(d), y)
  BY <1>1 DEF LaneOK
<1>3. /\ Out(d) = <<u>> \o Out(d2) /\ Out(d2) \in Seq(UnitSet) /\ <<u>> \in Seq(UnitSet)
      /\ u \in UnitSet /\ Out(d) \in Seq(UnitSet)
  <2>1. TakenOff(d, d2, u)
    BY <1>1, UnitTaken
  <2> QED BY <2>1 DEF TakenOff
<1> HIDE DEF k
<1>4. PICK x \in Position : Move(k, ReadsFrom(c, k), s, x) /\ Run(k, x, Out(d), y)
  BY <1>2, <1>3, RunFirst
<1>5. \E z \in Position : Move(k, x, u, z)
  BY <1>3, <1>4, RunFirst
<1> QED BY <1>4, <1>5 DEF k

\* A segment header that was kept back is handled with its length.
LEMMA BothRead ==
    ASSUME NEW c, NEW d, NEW h, NEW g, NEW own, NEW other, PairOK(c, d, h, g, own, other),
           c.broken = "no", NEW u, NEW R, NEW d2, Unread1(d, u, R, d2), NEW s \in UnitSet, c.recvbuf = <<s>>,
           NEW c2, ReadsAs(c, c2, h, g, own, other), c2.recvbuf = <<>>,
           \A x, z \in Position :
               /\ Move(LaneOf(g, h, other, own), ReadsFrom(c, LaneOf(g, h, other, own)), s, x)
               /\ Move(LaneOf(g, h, other, own), x, u, z)
               => z = ReadsFrom(c2, LaneOf(g, h, other, own))
    PROVE  PairOK(c2, d2, h, g, own, other)
<1> DEFINE k == LaneOf(g, h, other, own)
<1>1. d \in ConnSet
  BY DEF PairOK, EndOK
<1>2. /\ Out(d) = <<u>> \o Out(d2) /\ Out(d2) \in Seq(UnitSet) /\ <<u>> \in Seq(UnitSet)
      /\ u \in UnitSet /\ Out(d) \in Seq(UnitSet)
  <2>1. TakenOff(d, d2, u)
    BY <1>1, UnitTaken
  <2> QED BY <2>1 DEF TakenOff
<1>3. c2.recvbuf \o Out(d2) = Out(d2)
  <2> DEFINE P == Out(d2)
  <2>1. P \in Seq(UnitSet)
    BY <1>2
  <2> HIDE DEF P
  <2>2. <<>> \o P = P
    BY <2>1
  <2> QED BY <2>2 DEF P
<1>4. ASSUME NEW y \in Position, Run(k, ReadsFrom(c, k), c.recvbuf \o Out(d), y)
      PROVE  Run(k, ReadsFrom(c2, k), c2.recvbuf \o Out(d2), y)
  <2>0. \A x, z \in Position : Move(k, ReadsFrom(c, k), s, x) /\ Move(k, x, u, z) => z = ReadsFrom(c2, k)
    OBVIOUS
  <2> HIDE DEF k
  <2>1. PICK x \in Position : Move(k, ReadsFrom(c, k), s, x) /\ Run(k, x, Out(d), y)
    BY <1>2, <1>4, RunFirst
  <2>2. PICK z \in Position : Move(k, x, u, z) /\ Run(k, z, Out(d2), y)
    BY <1>2, <2>1, RunFirst
  <2>3. z = ReadsFrom(c2, k)
    BY <2>0, <2>1, <2>2
  <2> QED BY <1>3, <2>2, <2>3
<1>5. /\ EndOK(c2, h, g, own, other) /\ c2.broken = "no" /\ Out(c2) = Out(c)
      /\ WroteTo(c2, LaneOf(h, g, own, other)) = WroteTo(c, LaneOf(h, g, own, other))
      /\ Extends(c.rcvd, c2.rcvd) /\ R \in Seq(UnitSet) /\ d2 = [d EXCEPT !.wire = R]
  BY DEF ReadsAs, Unread1
<1> QED BY <1>4, <1>5, RecvStep

\* An event that reading posts: the request to close, or the end of a bundle that
\* the peer's daemon was given.
ReadEvent(ev, c2, d, h) ==
    \/ ev = CloseRequest /\ c2.broken # "no"
    \/ \E m \in 1 .. Len(h), n \in Nat :
           /\ ev = Transmitted(h[m], n, Length[h[m]]) /\ c2.up /\ c2.par.acks
           /\ m \in DOMAIN d.rcvd /\ d.rcvd[m] = Whole[h[m]]

Took(c, c2, d, h) ==
    /\ c2.closed = c.closed /\ c2.initiated = c.initiated /\ Started(c2, h) = Started(c, h)
    /\ c.up => c2.up /\ c2.par = c.par
    /\ c.broken # "no" => c2.broken # "no"
    /\ Extends(c.rcvd, c2.rcvd) /\ Extends(c.events, c2.events)
    /\ \A i \in DOMAIN c2.events : i > Len(c.events) => ReadEvent(c2.events[i], c2, d, h)

\* Between two units: a segment's first byte may be in the buffer.
Waiting(c) ==
    /\ c.initiated /\ BufOK(c)
    /\ c.broken = "no" /\ ~c.stall /\ c.recvbuf # <<>> =>
           /\ c.up /\ c.rcvTodo = 0 /\ Partial(RecvSide(c))
           /\ \E s \in UnitSet : s.unit = "seg" /\ c.recvbuf = <<s>>

\* A list begins with itself.
LEMMA ExtendsSelf ==
    ASSUME NEW q, Len(q) \in Nat
    PROVE  Extends(q, q)
  BY DEF Extends

\* What is left when nothing is posted and nothing of the sending changes.
LEMMA TookNothing ==
    ASSUME NEW c \in ConnSet, NEW c2 \in ConnSet, NEW d, NEW h,
           c2.closed = c.closed, c2.initiated = c.initiated, SendSide(c2) = SendSide(c),
           c.up => c2.up /\ c2.par = c.par, c.broken # "no" => c2.broken # "no", Extends(c.rcvd, c2.rcvd), c2.events = c.events
    PROVE  Took(c, c2, d, h)
<1> DEFINE E == c.events
<1>1. E \in Seq(EventSet) /\ c2.events = E
  BY DEF ConnSet
<1>2. Started(c2, h) = Started(c, h)
  BY DEF Started
<1>3. Extends(E, E) /\ \A i \in DOMAIN E : ~(i > Len(E))
  <2> HIDE DEF E
  <2> QED BY <1>1, ExtendsSelf
<1> QED BY <1>1, <1>2, <1>3 DEF Took

\* Only the receive buffer changes.
Buffered(c, B, c2) == c2 = [c EXCEPT !.recvbuf = B]

OnlyBuffer(c, B, c2) ==
    /\ SendSide(c2) = SendSide(c) /\ RecvSide(c2) = RecvSide(c)
    /\ c2.recvbuf = B /\ Out(c2) = Out(c) /\ Alike(c, c2) /\ c2.events = c.events
    /\ c2.stall = c.stall /\ c2.rcvd = c.rcvd /\ c2.wire = c.wire /\ c2.sendbuf = c.sendbuf
    /\ c2 \in ConnSet /\ c \in ConnSet /\ c2.incoming = c.incoming /\ c2.rcvTodo = c.rcvTodo
    /\ \A k : WroteTo(c2, k) = WroteTo(c, k) /\ ReadsFrom(c2, k) = ReadsFrom(c, k)

\* The receive buffer changes, and nothing else.
LEMMA BufferSwap ==
    ASSUME NEW c, NEW h, NEW g, NEW own, NEW other, EndOK(c, h, g, own, other),
           NEW B \in Seq(UnitSet), NEW c2, Buffered(c, B, c2)
    PROVE  EndOK(c2, h, g, own, other) /\ OnlyBuffer(c, B, c2)
<1>1. c \in ConnSet
  BY DEF EndOK
<1>2. c2 \in ConnSet /\ Alike(c, c2)
  BY <1>1 DEF ConnSet, Buffered, Alike
<1>3. SendSide(c2) = SendSide(c) /\ RecvSide(c2) = RecvSide(c)
  BY <1>1 DEF ConnSet, Buffered, SendSide, RecvSide
<1>4. /\ c2.recvbuf = B /\ c2.events = c.events /\ c2.stall = c.stall /\ c2.rcvd = c.rcvd
      /\ c2.wire = c.wire /\ c2.sendbuf = c.sendbuf /\ c2.inflight = c.inflight
      /\ c2.current = c.current /\ c2.todo = c.todo /\ c2.incoming = c.incoming
      /\ c2.rcvTodo = c.rcvTodo
  BY <1>1 DEF ConnSet, Buffered
<1>5. Out(c2) = Out(c)
  BY <1>4 DEF Out
<1>6. EndOK(c2, h, g, own, other)
  BY <1>2, <1>3, <1>4 DEF EndOK, Alike
<1>7. \A k : WroteTo(c2, k) = WroteTo(c, k) /\ ReadsFrom(c2, k) = ReadsFrom(c, k)
  BY <1>2, <1>3 DEF WroteTo, ReadsFrom, Alike
<1> QED BY <1>1, <1>2, <1>3, <1>4, <1>5, <1>6, <1>7 DEF OnlyBuffer

\* Once the contact has come up the rest waits.
LEMMA Stalled ==
    ASSUME NEW c, NEW d, NEW h, NEW g, NEW own, NEW other, PairOK(c, d, h, g, own, other),
           c.broken = "no", Waiting(c), NEW u, NEW R, NEW d2, Unread1(d, u, R, d2), c.stall,
           NEW c2, Buffered(c, Append(c.recvbuf, u), c2)
    PROVE  PairOK(c2, d2, h, g, own, other) /\ Waiting(c2) /\ Took(c, c2, d, h)
<1> DEFINE B == Append(c.recvbuf, u)
<1>1. EndOK(c, h, g, own, other) /\ c \in ConnSet
  BY DEF PairOK, EndOK
<1>2. B \in Seq(UnitSet)
  <2>1. c.recvbuf \in Seq(UnitSet) /\ u \in UnitSet
    BY <1>1, SideTypes DEF Unread1
  <2> QED BY <2>1
<1>3. Buffered(c, B, c2)
  OBVIOUS
<1> HIDE DEF B
<1>4. /\ EndOK(c2, h, g, own, other) /\ SendSide(c2) = SendSide(c)
      /\ c2.recvbuf = B /\ Out(c2) = Out(c) /\ Alike(c, c2) /\ c2.events = c.events
      /\ c2.stall = c.stall /\ c2.rcvd = c.rcvd /\ c2.wire = c.wire /\ c2.sendbuf = c.sendbuf
      /\ c2 \in ConnSet
      /\ \A k : WroteTo(c2, k) = WroteTo(c, k) /\ ReadsFrom(c2, k) = ReadsFrom(c, k)
  <2>1. EndOK(c2, h, g, own, other) /\ OnlyBuffer(c, B, c2)
    BY <1>1, <1>2, <1>3, BufferSwap
  <2> QED BY <2>1 DEF OnlyBuffer
<1>5. Extends(c.rcvd, c2.rcvd)
  <2>1. Len(c.rcvd) \in Nat
    BY <1>1, SideTypes, IncomingTypes
  <2> QED BY <1>4, <2>1, ExtendsSelf
<1>6. ReadsAs(c, c2, h, g, own, other)
  BY <1>4, <1>5 DEF ReadsAs, Alike
<1>7. PairOK(c2, d2, h, g, own, other)
  BY <1>4, <1>6, UnitKept DEF B
<1>8. Waiting(c2)
  BY <1>4 DEF Waiting, BufOK, Alike
<1>9. Took(c, c2, d, h)
  BY <1>1, <1>4, <1>5, TookNothing DEF Alike
<1> QED BY <1>7, <1>8, <1>9

\* Which units there are.
LEMMA UnitKinds ==
    ASSUME NEW u \in UnitSet
    PROVE  /\ u.unit = "hdr" => u.acks \in BOOLEAN /\ u.reactive \in BOOLEAN
           /\ u.unit = "seg" => u.start \in BOOLEAN /\ u.end \in BOOLEAN /\ u = Seg(u.start, u.end)
           /\ u.unit = "len" => u.n \in Nat
           /\ u.unit = "ack" => u.n \in Nat
  BY DEF UnitSet, AllParams, Hdr, Seg, SegLen, Data, Ack, Keepalive, Shutdown

\* handle_contact_initiation, when the contact header comes.
CameUp(c, u, c2) ==
    /\ c2 \in ConnSet /\ c2.contact = TRUE /\ c2.up = TRUE /\ c2.stall = TRUE
    /\ c2.par.acks = (c.par.acks /\ u.acks)
    /\ c2.initiated = c.initiated /\ c2.broken = c.broken /\ c2.closed = c.closed /\ c2.ok = c.ok
    /\ c2.recvbuf = c.recvbuf /\ c2.wire = c.wire /\ c2.sendbuf = c.sendbuf
    /\ c2.events = c.events /\ SendSide(c2) = SendSide(c) /\ RecvSide(c2) = RecvSide(c)
    /\ c2.rcvd = c.rcvd

\* What handle_contact_initiation does.
LEMMA ComesUp ==
    ASSUME NEW c \in ConnSet, NEW u \in UnitSet, u.unit = "hdr"
    PROVE  CameUp(c, u, handle_contact_initiation(c, u))
<1> DEFINE p == [c.par EXCEPT !.acks = @ /\ u.acks, !.reactive = @ /\ u.reactive]
           c2 == [c EXCEPT !.contact = TRUE, !.par = p, !.up = TRUE, !.stall = TRUE]
<1>1. c.old = NoParams /\ c.par \in AllParams
  BY DEF ConnSet
<1>2. handle_contact_initiation(c, u) = c2
  <2>1. find_contact(c, p) = [c EXCEPT !.contact = TRUE, !.par = p]
    BY <1>1 DEF find_contact
  <2> HIDE DEF p
  <2>2. [[c EXCEPT !.contact = TRUE, !.par = p] EXCEPT !.up = TRUE, !.stall = TRUE] = c2
    BY DEF ConnSet
  <2> QED BY <2>1, <2>2 DEF handle_contact_initiation, p
<1>3. u.acks \in BOOLEAN /\ u.reactive \in BOOLEAN
  BY UnitKinds
<1>4. p \in AllParams /\ p.acks = (c.par.acks /\ u.acks)
  BY <1>1, <1>3 DEF AllParams
<1> HIDE DEF p
<1>5. c2 \in ConnSet
  BY <1>4 DEF ConnSet
<1>6. CameUp(c, u, c2)
  BY <1>4, <1>5 DEF ConnSet, CameUp, SendSide, RecvSide
<1> QED BY <1>2, <1>6

\* Position z is the one before what c2 reads next.
ReadAs(z, c2, h, own, other) ==
    /\ z.up = c2.up /\ z.seg = "no" /\ z.j = Len(c2.rcvd) /\ z.n = RecvN(RecvSide(c2))
    /\ z.t = c2.rcvTodo
    /\ own /\ other => z.aj = AckedJ(SendSide(c2), h) /\ z.an = AckedN(SendSide(c2))
    /\ ~(own /\ other) => z.aj = 0 /\ z.an = 0

\* The place that a unit leads to is the receiver's next.
LEMMA ReadsTo ==
    ASSUME NEW c2 \in ConnSet, NEW h \in Seq(Bundles), NEW g \in Seq(Bundles),
           NEW own \in BOOLEAN, NEW other \in BOOLEAN, NEW acks \in BOOLEAN,
           SendOK(SendSide(c2), acks, h), RecvOK(RecvSide(c2), g),
           NEW z \in Position, ReadAs(z, c2, h, own, other)
    PROVE  z = ReadsFrom(c2, LaneOf(g, h, other, own))
<1> DEFINE y == ReadsFrom(c2, LaneOf(g, h, other, own))
<1>1. y \in Position
  BY ReadsIs
<1>2. /\ y.up = c2.up /\ y.seg = "no" /\ y.j = Len(c2.rcvd) /\ y.n = RecvN(RecvSide(c2))
      /\ y.t = c2.rcvTodo
      /\ own /\ other => y.aj = AckedJ(SendSide(c2), h) /\ y.an = AckedN(SendSide(c2))
      /\ ~(own /\ other) => y.aj = 0 /\ y.an = 0
  BY ReadsFields
<1> HIDE DEF y
<1>3. /\ z.up = y.up /\ z.seg = y.seg /\ z.j = y.j /\ z.n = y.n /\ z.t = y.t
      /\ z.aj = y.aj /\ z.an = y.an
  BY <1>2 DEF ReadAs
<1>4. z = y
  BY <1>1, <1>3, SamePosition
<1> QED BY <1>4 DEF y

\* A contact header is handled.
LEMMA HeaderRead ==
    ASSUME NEW c, NEW d, NEW h, NEW g, NEW own, NEW other, PairOK(c, d, h, g, own, other),
           c.broken = "no", Waiting(c), NEW u, NEW R, NEW d2, Unread1(d, u, R, d2), ~c.stall, ~c.up,
           NEW c2, c2 = handle_contact_initiation(c, u)
    PROVE  PairOK(c2, d2, h, g, own, other) /\ Waiting(c2) /\ Took(c, c2, d, h)
<1> DEFINE k == LaneOf(g, h, other, own)
           x == ReadsFrom(c, k)
<1>1. EndOK(c, h, g, own, other) /\ c \in ConnSet /\ u \in UnitSet
  BY DEF PairOK, EndOK, Unread1
<1>2. /\ SendOK(SendSide(c), c.par.acks, h) /\ RecvOK(RecvSide(c), g) /\ ~c.closed
      /\ c.par.acks = own /\ x \in Position /\ h \in Seq(Bundles) /\ g \in Seq(Bundles)
      /\ own \in BOOLEAN /\ other \in BOOLEAN
  BY EndFacts
<1>3. c.recvbuf = <<>>
  BY DEF Waiting
<1>4. x.up = c.up /\ k.own = other
  BY ReadsFields, LaneFields
<1>5. \A z \in Position : Move(k, x, u, z) => /\ u.unit = "hdr" /\ u.acks = other
                                               /\ z = [x EXCEPT !.up = TRUE]
  BY <1>4 DEF Move, HdrMove, SegMove, LenMove, DataMove, AckMove, RestMove
<1>6. \E z \in Position : Move(k, x, u, z)
  BY <1>3, NextUnit
<1>7. u.unit = "hdr" /\ u.acks = other
  BY <1>5, <1>6
<1>8. CameUp(c, u, c2)
  BY <1>1, <1>7, ComesUp
<1>9. c2.par.acks = (own /\ other) /\ c2.par.acks \in BOOLEAN
  BY <1>2, <1>7, <1>8 DEF CameUp
<1>10. c2 \in ConnSet /\ SendSide(c2) = SendSide(c) /\ RecvSide(c2) = RecvSide(c) /\ c2.rcvd = c.rcvd
       /\ c2.up = TRUE /\ c2.contact = TRUE /\ c2.broken = "no" /\ c2.initiated /\ c2.closed = c.closed
       /\ c2.ok = c.ok /\ c2.events = c.events /\ c2.recvbuf = c.recvbuf /\ c2.initiated = c.initiated
  BY <1>8 DEF CameUp, Waiting
<1>11. SendOK(SendSide(c), c2.par.acks, h)
  <2>1. h = <<>> /\ c.inflight = <<>> /\ ~c.current /\ c.todo = 0
    BY <1>1 DEF EndOK
  <2>2. SendSide(c).inflight = <<>> /\ ~SendSide(c).current /\ SendSide(c).todo = 0
    BY <1>1, <2>1, SideTypes
  <2> DEFINE s == SendSide(c)
  <2>3. s.inflight = <<>> /\ ~s.current /\ s.todo = 0 /\ Popped(s, h) >= 0
    BY <1>2, <2>2 DEF SendOK
  <2> HIDE DEF s
  <2>4. DOMAIN s.inflight = {} /\ s.todo <= SegmentLength
    BY <2>3, Constants
  <2>5. SendOK(s, c2.par.acks, h)
    BY <2>3, <2>4 DEF SendOK
  <2> QED BY <2>5 DEF s
<1>12. EndOK(c2, h, g, own, other)
  <2>1. RcvdOK(c.rcvd, c.closed, g) /\ c.ok
    BY <1>1 DEF EndOK
  <2> QED BY <1>2, <1>9, <1>10, <1>11, <2>1 DEF EndOK
<1>13. Out(c2) = Out(c) /\ c2.wire = c.wire /\ c2.sendbuf = c.sendbuf /\ c2.stall
  BY <1>8 DEF CameUp, Out
<1>14. WroteTo(c2, LaneOf(h, g, own, other)) = WroteTo(c, LaneOf(h, g, own, other))
  BY <1>10 DEF WroteTo
<1>15. Extends(c.rcvd, c2.rcvd)
  <2>1. Len(c.rcvd) \in Nat
    BY <1>1, SideTypes, IncomingTypes
  <2> QED BY <1>10, <2>1, ExtendsSelf
<1>16. ReadsAs(c, c2, h, g, own, other)
  BY <1>10, <1>12, <1>13, <1>14, <1>15 DEF ReadsAs
<1>18. ASSUME NEW z \in Position, Move(k, x, u, z)
       PROVE  z = ReadsFrom(c2, k)
  <2>1. ReadAs(z, c2, h, own, other)
    <3>1. z = [x EXCEPT !.up = TRUE]
      BY <1>5, <1>18
    <3>2. /\ x.seg = "no" /\ x.j = Len(c.rcvd) /\ x.n = RecvN(RecvSide(c)) /\ x.t = c.rcvTodo
          /\ own /\ other => x.aj = AckedJ(SendSide(c), h) /\ x.an = AckedN(SendSide(c))
          /\ ~(own /\ other) => x.aj = 0 /\ x.an = 0
      BY ReadsFields
    <3>3. c2.rcvTodo = c.rcvTodo
      <4>1. c.rcvTodo = RecvSide(c).rcvTodo /\ c2.rcvTodo = RecvSide(c2).rcvTodo
        BY <1>1, <1>10, SideTypes
      <4> QED BY <1>10, <4>1
    <3> HIDE DEF x
    <3>4. /\ z.up = TRUE /\ z.seg = x.seg /\ z.j = x.j /\ z.n = x.n /\ z.t = x.t
          /\ z.aj = x.aj /\ z.an = x.an
      BY <1>2, <3>1 DEF Position
    <3> QED BY <1>10, <3>2, <3>3, <3>4 DEF ReadAs
  <2> QED BY <1>2, <1>9, <1>10, <1>11, <2>1, ReadsTo
<1> HIDE DEF x
<1>19. PairOK(c2, d2, h, g, own, other)
  BY <1>3, <1>10, <1>16, <1>18, UnitRead DEF x
<1>20. Waiting(c2)
  BY <1>10, <1>13 DEF Waiting, BufOK
<1>21. Took(c, c2, d, h)
  BY <1>1, <1>10, <1>15, TookNothing
<1> QED BY <1>19, <1>20, <1>21

\* The place of an end that is up.
LEMMA ReadsFresh ==
    ASSUME NEW c, NEW h, NEW g, NEW own, NEW other, c.up
    PROVE  LET x == ReadsFrom(c, LaneOf(g, h, other, own)) IN
           x.up /\ x.seg = "no" /\ x.t = c.rcvTodo
  BY DEF ReadsFrom, ReceiverAt, RecvSide

\* What a running end may read next.
LEMMA NextKinds ==
    ASSUME NEW c, NEW d, NEW h, NEW g, NEW own, NEW other, PairOK(c, d, h, g, own, other),
           c.broken = "no", c.up, c.recvbuf = <<>>, c.rcvTodo = 0,
           NEW u, NEW R, NEW d2, Unread1(d, u, R, d2)
    PROVE  u.unit \in {"seg", "ack", "keepalive", "shutdown"} /\ u \in UnitSet
<1> DEFINE k == LaneOf(g, h, other, own)
           x == ReadsFrom(c, k)
<1>1. x.up /\ x.seg = "no" /\ x.t = 0
  BY ReadsFresh
<1>2. \E z \in Position : Move(k, x, u, z)
  BY NextUnit
<1>3. u.unit \in {"seg", "ack", "keepalive", "shutdown"}
  BY <1>1, <1>2 DEF Move, HdrMove, SegMove, LenMove, DataMove, AckMove, RestMove
<1> QED BY <1>3 DEF Unread1

\* A keepalive is handled.
LEMMA KeepaliveRead ==
    ASSUME NEW c, NEW d, NEW h, NEW g, NEW own, NEW other, PairOK(c, d, h, g, own, other),
           c.broken = "no", Waiting(c), c.recvbuf = <<>>,
           NEW u, NEW R, NEW d2, Unread1(d, u, R, d2), u.unit = "keepalive"
    PROVE  PairOK(c, d2, h, g, own, other) /\ Took(c, c, d, h)
<1> DEFINE k == LaneOf(g, h, other, own)
           x == ReadsFrom(c, k)
<1>1. EndOK(c, h, g, own, other) /\ c \in ConnSet /\ u \in UnitSet
  BY DEF PairOK, EndOK, Unread1
<1>2. Extends(c.rcvd, c.rcvd)
  <2>1. Len(c.rcvd) \in Nat
    BY <1>1, SideTypes, IncomingTypes
  <2> QED BY <2>1, ExtendsSelf
<1>3. ReadsAs(c, c, h, g, own, other)
  BY <1>1, <1>2 DEF ReadsAs
<1>4. u # Data(k.h[x.j + 1], x.n + 1)
  BY DEF Data
<1>5. \A z \in Position : Move(k, x, u, z) => z = x
  BY <1>4 DEF Move, HdrMove, SegMove, LenMove, DataMove, AckMove, RestMove
<1> HIDE DEF x
<1>6. PairOK(c, d2, h, g, own, other)
  BY <1>3, <1>5, UnitRead DEF x
<1>7. Took(c, c, d, h)
  BY <1>1, <1>2, TookNothing
<1> QED BY <1>6, <1>7

\* A shutdown is handled.
LEMMA ShutdownRead ==
    ASSUME NEW c, NEW d, NEW h, NEW g, NEW own, NEW other, PairOK(c, d, h, g, own, other),
           c.broken = "no", Waiting(c), c.up,
           NEW u, NEW R, NEW d2, Unread1(d, u, R, d2), NEW c2, c2 = break_contact(c, "SHUTDOWN")
    PROVE  PairOK(c2, d2, h, g, own, other) /\ Waiting(c2) /\ Took(c, c2, d, h)
<1>1. EndOK(c, h, g, own, other) /\ c \in ConnSet
  BY DEF PairOK, EndOK
<1>2. /\ c.contact /\ c.initiated /\ ~c.closed /\ c.closed \in BOOLEAN /\ c.contact \in BOOLEAN
  BY <1>1, EndFacts DEF ConnSet
<1>3. PairOK(c2, d, h, g, own, other) /\ BufOK(c2) /\ Broke(c, c2, "SHUTDOWN")
  <2>1. "SHUTDOWN" \in Reasons \ {"CL_ERROR"} /\ BufOK(c) /\ c.initiated
    BY DEF Reasons, Waiting
  <2> QED BY <2>1, BreakContact
<1>4. c2.broken = "SHUTDOWN"
  BY <1>3 DEF Broke
<1>5. PairOK(c2, d2, h, g, own, other)
  BY <1>3, <1>4, Unread DEF Unread1
<1>6. /\ c2.closed = c.closed /\ c2.initiated = c.initiated /\ SendSide(c2) = SendSide(c)
      /\ RecvSide(c2) = RecvSide(c) /\ c2.up = c.up /\ c2.par = c.par /\ c2 \in ConnSet
      /\ c2.events = Append(c.events, CloseRequest)
  BY <1>2, <1>3 DEF Broke
<1>7. Waiting(c2)
  BY <1>2, <1>3, <1>4, <1>6 DEF Waiting
<1>8. Extends(c.rcvd, c2.rcvd)
  <2>1. Len(c.rcvd) \in Nat /\ c2.rcvd = c.rcvd
    BY <1>1, <1>6, SideTypes, IncomingTypes
  <2> QED BY <2>1, ExtendsSelf
<1>9. /\ Extends(c.events, c2.events)
      /\ \A i \in DOMAIN c2.events : i > Len(c.events) => ReadEvent(c2.events[i], c2, d, h)
  <2> DEFINE E == c.events
             F == c2.events
  <2>1. E \in Seq(EventSet) /\ F = Append(E, CloseRequest)
    BY <1>1, <1>6 DEF ConnSet
  <2> HIDE DEF E, F
  <2>2. Extends(E, F) /\ \A i \in DOMAIN F : i > Len(E) => F[i] = CloseRequest
    BY <2>1 DEF Extends
  <2>3. c2.broken # "no"
    BY <1>4
  <2> QED BY <2>2, <2>3 DEF E, F, ReadEvent
<1>10. Started(c2, h) = Started(c, h)
  BY <1>6 DEF Started
<1>11. Took(c, c2, d, h)
  BY <1>6, <1>8, <1>9, <1>10 DEF Took
<1> QED BY <1>5, <1>7, <1>11

\* The sending side stays as it is.
LEMMA Receives ==
    ASSUME NEW c, NEW d, NEW h, NEW g, NEW own, NEW other, PairOK(c, d, h, g, own, other),
           c.broken = "no", c.up, NEW c2 \in ConnSet, Alike(c, c2), Out(c2) = Out(c),
           SendSide(c2) = SendSide(c), RecvOK(RecvSide(c2), g),
           GaveJ(RecvSide(c2)) = GaveJ(RecvSide(c)), GaveN(RecvSide(c2)) = GaveN(RecvSide(c)),
           Extends(c.rcvd, c2.rcvd)
    PROVE  ReadsAs(c, c2, h, g, own, other)
<1>1. EndOK(c, h, g, own, other) /\ g \in Seq(Bundles) /\ SendOK(SendSide(c), c.par.acks, h)
  BY EndFacts DEF PairOK
<1>2. EndOK(c2, h, g, own, other)
  BY <1>1, EndRuns
<1>3. WroteTo(c2, LaneOf(h, g, own, other)) = WroteTo(c, LaneOf(h, g, own, other))
  BY DEF WroteTo, SenderAt, Alike
<1> QED BY <1>2, <1>3 DEF ReadsAs, Alike

\* handle_data_todo.
TakesUnit(c, u, e) ==
    e = [c EXCEPT !.rcvTodo = @ - 1, !.incoming[Len(c.incoming)].data = Append(@, u)]

\* The connection after the unit: the daemon is given the bundle with the last.
Unit1(c, e, u, m) ==
    /\ e \in ConnSet /\ Alike(c, e) /\ SendSide(e) = SendSide(c) /\ e.rcvTodo = c.rcvTodo - 1
    /\ e.wire = c.wire /\ e.sendbuf = c.sendbuf /\ e.recvbuf = c.recvbuf /\ e.stall = c.stall
    /\ e.events = c.events /\ e.rcvd = c.rcvd /\ Len(e.incoming) = m
    /\ \A i \in 1 .. m : i # m => e.incoming[i] = c.incoming[i]
    /\ e.incoming[m].data = Append(c.incoming[m].data, u)
    /\ e.incoming[m].acked = c.incoming[m].acked
    /\ e.incoming[m].ack = c.incoming[m].ack
    /\ e.incoming[m].total = c.incoming[m].total

\* The last incoming bundle is replaced.
Replaced(q, m, f, q2) == q2 = [q EXCEPT ![m] = f]

\* A list with another last entry.
LEMMA LastReplaced ==
    ASSUME NEW q \in Seq(IncomingSet), NEW m, m = Len(q), m > 0, NEW f \in IncomingSet,
           NEW q2, Replaced(q, m, f, q2)
    PROVE  /\ q2 \in Seq(IncomingSet) /\ Len(q2) = m /\ q2[m] = f
           /\ \A i \in 1 .. m : i # m => q2[i] = q[i]
  BY DEF Replaced

\* The unit is added to the last incoming bundle.
LEMMA UnitAdded ==
    ASSUME NEW c \in ConnSet, NEW m, m = Len(c.incoming), m > 0, c.rcvTodo # 0,
           NEW u \in UnitSet, NEW e, TakesUnit(c, u, e)
    PROVE  Unit1(c, e, u, m)
<1> DEFINE q == c.incoming
           f == [q[m] EXCEPT !.data = Append(@, u)]
           q2 == [q EXCEPT ![m] = f]
<1>1. q \in Seq(IncomingSet) /\ q[m] \in IncomingSet
  BY DEF ConnSet
<1>2. /\ f \in IncomingSet /\ f.data = Append(q[m].data, u) /\ f.acked = q[m].acked
      /\ f.ack = q[m].ack /\ f.total = q[m].total
  <2> DEFINE p == q[m]
  <2>1. p \in IncomingSet /\ f = [p EXCEPT !.data = Append(p.data, u)]
    BY <1>1
  <2>2. p.data \in Seq(UnitSet)
    BY <2>1 DEF IncomingSet
  <2> HIDE DEF p
  <2>3. Append(p.data, u) \in Seq(UnitSet)
    BY <2>2
  <2> HIDE DEF f
  <2> QED BY <2>1, <2>3 DEF IncomingSet, p
<1>3. q2 = [q EXCEPT ![m].data = Append(@, u)]
  BY <1>1
<1>4. e = [c EXCEPT !.rcvTodo = c.rcvTodo - 1, !.incoming = q2]
  BY <1>3 DEF TakesUnit
<1>5. q # <<>>
  OBVIOUS
<1> HIDE DEF f
<1>6. /\ q2 \in Seq(IncomingSet) /\ Len(q2) = m /\ q2[m] = f
      /\ \A i \in 1 .. m : i # m => q2[i] = q[i]
  <2>1. Replaced(q, m, f, q2)
    BY DEF Replaced
  <2>2. m = Len(q)
    OBVIOUS
  <2> HIDE DEF q, q2
  <2> QED BY <1>1, <1>2, <2>1, <2>2, LastReplaced
<1> HIDE DEF q2
<1>7. c.rcvTodo - 1 \in Nat
  BY DEF ConnSet
<1>8. e \in ConnSet
  BY <1>4, <1>6, <1>7 DEF ConnSet
<1>9. /\ Alike(c, e) /\ SendSide(e) = SendSide(c) /\ e.rcvTodo = c.rcvTodo - 1
      /\ e.wire = c.wire /\ e.sendbuf = c.sendbuf /\ e.recvbuf = c.recvbuf /\ e.stall = c.stall
      /\ e.events = c.events /\ e.rcvd = c.rcvd /\ e.incoming = q2
  BY <1>4 DEF ConnSet, Alike, SendSide
<1> QED BY <1>2, <1>6, <1>8, <1>9 DEF Unit1

\* check_completed(IncomingBundle*).
ToCheck(e, m, b, L, n) ==
    /\ m = Len(e.incoming) /\ m > 0 /\ b \in Bundles /\ L = Length[b] /\ n \in Nat /\ n > 0
    /\ Len(e.incoming[m].data) = n /\ e.incoming[m].data[1] = Data(b, 1) /\ n <= L
    /\ e.incoming[m].total = IF n = L THEN L ELSE 0

AsChecked(e, e2, m, L, n) ==
    /\ n = L => e2 = [e EXCEPT !.rcvd = Append(@, e.incoming[m].data)]
    /\ n # L => e2 = e

\* What check_completed does to it.
LEMMA Checked ==
    ASSUME NEW e \in ConnSet, NEW m, NEW b, NEW L, NEW n, ToCheck(e, m, b, L, n)
    PROVE  AsChecked(e, check_received(e), m, L, n)
<1> USE DEF ToCheck, AsChecked
<1>1. L \in Nat /\ L > 0
  BY Constants
<1> DEFINE i == e.incoming[m]
<1>2. CASE n # L
  <2>1. i.total = 0
    BY <1>2
  <2> QED BY <1>2, <2>1 DEF check_received
<1>3. CASE n = L
  <2>1. i.total = L /\ Len(i.data) = L
    BY <1>3
  <2>2. FormattedLength(i.data) = L
    BY DEF FormattedLength, Data
  <2> HIDE DEF i
  <2>3. /\ ~(i.total = 0 \/ Len(i.data) < i.total)
        /\ ~(i.total # 0 /\ (Len(i.data) > i.total \/ i.total # FormattedLength(i.data)))
    BY <1>1, <2>1, <2>2
  <2>4. check_received(e) = [e EXCEPT !.rcvd = Append(@, i.data)]
    BY <2>3, Zenon DEF check_received, i
  <2> QED BY <1>3, <2>4 DEF i
<1> QED BY <1>2, <1>3

\* A unit of a bundle leads one place on.
OneOn(k, x, u, z) ==
    /\ x.j < Len(k.h) /\ u = Data(k.h[x.j + 1], x.n + 1)
    /\ z.up = x.up /\ z.seg = "no" /\ z.t = x.t - 1 /\ z.aj = x.aj /\ z.an = x.an
    /\ x.n + 1 = Length[k.h[x.j + 1]] => z.j = x.j + 1 /\ z.n = 0
    /\ x.n + 1 # Length[k.h[x.j + 1]] => z.j = x.j /\ z.n = x.n + 1

\* Within a segment only data may follow.
LEMMA DataMoved ==
    ASSUME NEW k, NEW x \in Position, x.t # 0, x.seg = "no", x.up, NEW u, NEW z \in Position, Move(k, x, u, z)
    PROVE  OneOn(k, x, u, z)
<1> USE DEF OneOn
<1>1. DataMove(k, x, u, z)
  BY DEF Move, HdrMove, SegMove, LenMove, DataMove, AckMove, RestMove, Resting
<1>2. /\ x.j < Len(k.h) /\ u = Data(k.h[x.j + 1], x.n + 1)
      /\ z = IF x.n + 1 = Length[k.h[x.j + 1]]
             THEN [x EXCEPT !.j = x.j + 1, !.n = 0, !.t = x.t - 1]
             ELSE [x EXCEPT !.n = x.n + 1, !.t = x.t - 1]
  BY <1>1 DEF DataMove
<1>3. CASE x.n + 1 = Length[k.h[x.j + 1]]
  <2>1. z = [x EXCEPT !.j = x.j + 1, !.n = 0, !.t = x.t - 1]
    BY <1>2, <1>3
  <2>2. /\ z.up = x.up /\ z.seg = x.seg /\ z.t = x.t - 1 /\ z.aj = x.aj /\ z.an = x.an
        /\ z.j = x.j + 1 /\ z.n = 0
    BY <2>1 DEF Position
  <2> QED BY <1>2, <1>3, <2>2
<1>4. CASE x.n + 1 # Length[k.h[x.j + 1]]
  <2>1. z = [x EXCEPT !.n = x.n + 1, !.t = x.t - 1]
    BY <1>2, <1>4
  <2>2. /\ z.up = x.up /\ z.seg = x.seg /\ z.t = x.t - 1 /\ z.aj = x.aj /\ z.an = x.an
        /\ z.j = x.j /\ z.n = x.n + 1
    BY <2>1 DEF Position
  <2> QED BY <1>2, <1>4, <2>2
<1> QED BY <1>3, <1>4

\* What handle_data_todo makes of the receiving side.
LEMMA DataEffect ==
    ASSUME NEW c \in ConnSet, NEW g \in Seq(Bundles), RecvOK(RecvSide(c), g), c.rcvTodo # 0,
           NEW b, b = g[Len(c.rcvd) + 1], NEW N, N = RecvN(RecvSide(c)), NEW L, L = Length[b],
           NEW u, u = Data(b, N + 1), NEW c2, c2 = handle_data_todo(c, u)
    PROVE  /\ c2 \in ConnSet /\ Alike(c, c2) /\ SendSide(c2) = SendSide(c) /\ c2.recvbuf = c.recvbuf
           /\ c2.wire = c.wire /\ c2.sendbuf = c.sendbuf /\ c2.stall = c.stall /\ c2.events = c.events
           /\ Extends(c.rcvd, c2.rcvd) /\ c2.rcvTodo = c.rcvTodo - 1
           /\ TakesData(RecvSide(c), RecvSide(c2), g, b, N, L, Len(c.incoming))
<1> DEFINE r == RecvSide(c)
           m == Len(c.incoming)
           e == [c EXCEPT !.rcvTodo = @ - 1, !.incoming[Len(c.incoming)].data = Append(@, u)]
           D == e.incoming[m].data
<1>1. /\ r \in RecvSet /\ r.incoming = c.incoming /\ r.rcvTodo = c.rcvTodo /\ r.rcvd = c.rcvd
  BY SideTypes
<1>2. Partial(r)
  BY <1>1 DEF RecvOK
<1>3. /\ m \in 1 .. m /\ m \in Nat /\ b \in Bundles /\ L \in Nat /\ N \in Nat /\ N < L
      /\ N = Len(c.incoming[m].data) /\ c.rcvTodo \in Nat
      /\ c.incoming[m].total = (IF N + c.rcvTodo = L THEN L ELSE 0) /\ N + c.rcvTodo <= L
      /\ \A i \in 1 .. N : c.incoming[m].data[i] = Data(b, i)
  BY <1>1, <1>2, NewcomerFacts, IncomingTypes
<1>4. u \in UnitSet
  BY <1>3 DEF UnitSet
<1>5. Unit1(c, e, u, m)
  <2>1. TakesUnit(c, u, e)
    BY DEF TakesUnit
  <2>2. m > 0
    BY <1>3
  <2> HIDE DEF e
  <2> QED BY <1>4, <2>1, <2>2, UnitAdded
<1>6. c2 = IF e.rcvTodo = 0 THEN check_received(e) ELSE e
  BY DEF handle_data_todo
<1> HIDE DEF e
<1>7. /\ e \in ConnSet /\ e.rcvTodo = c.rcvTodo - 1 /\ Len(e.incoming) = m
      /\ D = Append(c.incoming[m].data, u) /\ e.incoming[m].total = c.incoming[m].total
      /\ e.rcvd = c.rcvd
  BY <1>5 DEF Unit1
<1>8. Len(D) = N + 1 /\ D[1] = Data(b, 1) /\ D \in Seq(UnitSet)
  <2> DEFINE A == c.incoming[m].data
  <2>1. A \in Seq(UnitSet) /\ Len(A) = N /\ \A i \in 1 .. N : A[i] = Data(b, i)
    BY <1>1, <1>3, IncomingTypes
  <2>2. D = Append(A, u)
    BY <1>7
  <2> HIDE DEF A, D
  <2>3. Len(D) = N + 1 /\ D \in Seq(UnitSet) /\ D[N + 1] = u /\ \A i \in 1 .. N : D[i] = A[i]
    <3>1. Len(D) = Len(A) + 1 /\ D \in Seq(UnitSet) /\ D[Len(A) + 1] = u /\ \A i \in 1 .. Len(A) : D[i] = A[i]
      BY <1>4, <2>1, <2>2
    <3> QED BY <2>1, <3>1
  <2>4. D[1] = Data(b, 1)
    <3>1. CASE N = 0
      BY <2>3, <3>1
    <3>2. CASE N # 0
      <4>1. 1 \in 1 .. N
        BY <1>3, <3>2
      <4> QED BY <2>1, <2>3, <4>1
    <3> QED BY <3>1, <3>2
  <2> QED BY <2>3, <2>4
<1>9. /\ N + 1 = L => c2 = [e EXCEPT !.rcvd = Append(@, D)]
      /\ N + 1 # L => c2 = e
  <2> DEFINE t == c.rcvTodo
  <2>0. t \in Nat /\ t # 0 /\ N + t <= L /\ e.rcvTodo = t - 1
        /\ e.incoming[m].total = IF N + t = L THEN L ELSE 0
    BY <1>3, <1>7
  <2> HIDE DEF t
  <2>1. CASE t = 1
    <3>1. c2 = check_received(e)
      BY <1>6, <2>0, <2>1
    <3>2. N + 1 \in Nat /\ N + 1 > 0 /\ N + 1 <= L /\ m > 0
          /\ e.incoming[m].total = IF N + 1 = L THEN L ELSE 0
      BY <1>3, <2>0, <2>1
    <3>3. /\ N + 1 = L => check_received(e) = [e EXCEPT !.rcvd = Append(@, e.incoming[m].data)]
          /\ N + 1 # L => check_received(e) = e
      <4>1. ToCheck(e, m, b, L, N + 1)
        BY <1>3, <1>7, <1>8, <3>2 DEF ToCheck
      <4>2. AsChecked(e, check_received(e), m, L, N + 1)
        BY <1>7, <4>1, Checked
      <4> QED BY <4>2 DEF AsChecked
    <3> QED BY <3>1, <3>3
  <2>2. CASE t # 1
    <3>1. N + 1 # L /\ e.rcvTodo # 0
      BY <1>3, <2>0, <2>2
    <3> QED BY <1>6, <3>1
  <2> QED BY <2>1, <2>2
<1> HIDE DEF D
<1>10. c.rcvd \in Seq(Seq(UnitSet))
  BY DEF ConnSet
<1>11. Append(c.rcvd, D) \in Seq(Seq(UnitSet)) /\ Extends(c.rcvd, Append(c.rcvd, D)) /\ Extends(c.rcvd, c.rcvd)
  <2> DEFINE v == c.rcvd
  <2> HIDE DEF v
  <2>1. v \in Seq(Seq(UnitSet))
    BY <1>10 DEF v
  <2>2. Append(v, D) \in Seq(Seq(UnitSet)) /\ Extends(v, Append(v, D)) /\ Extends(v, v)
    BY <1>8, <2>1 DEF Extends
  <2> QED BY <2>2 DEF v
<1>12. /\ c2 \in ConnSet /\ Alike(e, c2) /\ SendSide(c2) = SendSide(e) /\ c2.recvbuf = e.recvbuf
       /\ c2.wire = e.wire /\ c2.sendbuf = e.sendbuf /\ c2.stall = e.stall /\ c2.events = e.events
       /\ c2.rcvTodo = e.rcvTodo /\ c2.incoming = e.incoming
       /\ N + 1 = L => c2.rcvd = Append(c.rcvd, D)
       /\ N + 1 # L => c2.rcvd = c.rcvd
  <2>1. CASE N + 1 = L
    <3>1. c2 = [e EXCEPT !.rcvd = Append(c.rcvd, D)]
      BY <1>7, <1>9, <2>1
    <3> QED BY <1>7, <1>11, <2>1, <3>1 DEF ConnSet, Alike, SendSide
  <2>2. CASE N + 1 # L
    BY <1>7, <1>9, <2>2 DEF Alike
  <2> QED BY <2>1, <2>2
<1>13. Extends(c.rcvd, c2.rcvd)
  BY <1>11, <1>12
<1>14. /\ Alike(c, c2) /\ SendSide(c2) = SendSide(c) /\ c2.recvbuf = c.recvbuf
       /\ c2.wire = c.wire /\ c2.sendbuf = c.sendbuf /\ c2.stall = c.stall /\ c2.events = c.events
       /\ c2.rcvTodo = c.rcvTodo - 1
  BY <1>5, <1>12 DEF Unit1, Alike
<1>15. TakesData(r, RecvSide(c2), g, b, N, L, m)
  <2>1. /\ RecvSide(c2) \in RecvSet /\ RecvSide(c2).incoming = e.incoming
        /\ RecvSide(c2).rcvTodo = c.rcvTodo - 1 /\ RecvSide(c2).rcvd = c2.rcvd
    BY <1>12, <1>14, SideTypes
  <2>2. /\ \A i \in 1 .. m : i # m => e.incoming[i] = c.incoming[i]
        /\ e.incoming[m].data = Append(c.incoming[m].data, u)
        /\ e.incoming[m].acked = c.incoming[m].acked
        /\ e.incoming[m].ack = c.incoming[m].ack
        /\ e.incoming[m].total = c.incoming[m].total
    BY <1>5 DEF Unit1
  <2>3. /\ r.rcvTodo # 0 /\ b = g[Len(r.rcvd) + 1] /\ N = RecvN(r) /\ m = Len(r.incoming)
    BY <1>1
  <2>4. /\ N + 1 # L => RecvSide(c2).rcvd = r.rcvd
        /\ N + 1 = L => RecvSide(c2).rcvd = Append(r.rcvd, e.incoming[m].data)
    BY <1>1, <1>12, <2>1 DEF D
  <2> DEFINE r2 == RecvSide(c2)
             t == c.rcvTodo
             q == c.incoming
  <2>5. /\ r2 \in RecvSet /\ r2.rcvTodo = r.rcvTodo - 1 /\ Len(r2.incoming) = m
        /\ r2.incoming = e.incoming /\ r.incoming = q
    BY <1>1, <1>7, <2>1
  <2>6. e.incoming[m].data = Append(q[m].data, Data(b, N + 1))
    BY <2>2
  <2> HIDE DEF m, r, r2, q, t
  <2> QED BY <2>2, <2>3, <2>4, <2>5, <2>6 DEF TakesData, q, r2
<1> QED BY <1>12, <1>13, <1>14, <1>15

\* A unit of a bundle is handled.
LEMMA DataRead ==
    ASSUME NEW c, NEW d, NEW h, NEW g, NEW own, NEW other, PairOK(c, d, h, g, own, other),
           c.broken = "no", Waiting(c), c.up, ~c.stall, c.rcvTodo # 0,
           NEW u, NEW R, NEW d2, Unread1(d, u, R, d2), NEW c2, c2 = handle_data_todo(c, u)
    PROVE  PairOK(c2, d2, h, g, own, other) /\ Waiting(c2) /\ Took(c, c2, d, h)
<1> DEFINE k == LaneOf(g, h, other, own)
           x == ReadsFrom(c, k)
           r == RecvSide(c)
           b == g[Len(c.rcvd) + 1]
           N == RecvN(r)
           L == Length[b]
           m == Len(c.incoming)
<1>1. EndOK(c, h, g, own, other) /\ c \in ConnSet
  BY DEF PairOK, EndOK
<1>2. /\ SendOK(SendSide(c), c.par.acks, h) /\ RecvOK(RecvSide(c), g) /\ ~c.closed
      /\ x \in Position /\ h \in Seq(Bundles) /\ g \in Seq(Bundles)
      /\ own \in BOOLEAN /\ other \in BOOLEAN /\ c.par.acks \in BOOLEAN
  BY EndFacts
<1>3. c.recvbuf = <<>>
  BY DEF Waiting
<1>4. x.up /\ x.seg = "no" /\ x.t = c.rcvTodo
  BY ReadsFresh
<1>5. x.j = Len(c.rcvd) /\ x.n = N /\ k.h = g
  BY ReadsFields, LaneFields
<1>6. PICK z0 \in Position : Move(k, x, u, z0)
  BY <1>3, NextUnit
<1>7. \A z \in Position : Move(k, x, u, z) => OneOn(k, x, u, z)
  <2> HIDE DEF k, x
  <2>1. x.t # 0
    BY <1>4
  <2> QED BY <1>2, <1>4, <2>1, DataMoved
<1>8. u = Data(b, N + 1)
  BY <1>5, <1>6, <1>7 DEF OneOn
<1>9. /\ c2 \in ConnSet /\ Alike(c, c2) /\ SendSide(c2) = SendSide(c) /\ c2.recvbuf = c.recvbuf
      /\ c2.wire = c.wire /\ c2.sendbuf = c.sendbuf /\ c2.stall = c.stall /\ c2.events = c.events
      /\ Extends(c.rcvd, c2.rcvd) /\ c2.rcvTodo = c.rcvTodo - 1
      /\ TakesData(r, RecvSide(c2), g, b, N, L, m)
  <2> HIDE DEF k, x
  <2> QED BY <1>1, <1>2, <1>8, DataEffect
<1>10. /\ RecvOK(RecvSide(c2), g) /\ GaveJ(RecvSide(c2)) = GaveJ(r) /\ GaveN(RecvSide(c2)) = GaveN(r)
       /\ TookData(r, RecvSide(c2), N, L)
  <2>1. r \in RecvSet
    BY <1>1, SideTypes
  <2>2. RecvOK(r, g) /\ TakesData(r, RecvSide(c2), g, b, N, L, m)
    BY <1>2, <1>9
  <2> HIDE DEF r, b, N, L, m
  <2> QED BY <1>2, <2>1, <2>2, DataTaken
<1>11. Out(c2) = Out(c)
  BY <1>9 DEF Out
<1>12. ReadsAs(c, c2, h, g, own, other)
  BY <1>9, <1>10, <1>11, Receives
<1>13. ASSUME NEW z \in Position, Move(k, x, u, z)
       PROVE  z = ReadsFrom(c2, k)
  <2>1. /\ z.up = x.up /\ z.seg = "no" /\ z.t = x.t - 1 /\ z.aj = x.aj /\ z.an = x.an
        /\ N + 1 = L => z.j = Len(c.rcvd) + 1 /\ z.n = 0
        /\ N + 1 # L => z.j = Len(c.rcvd) /\ z.n = N + 1
    BY <1>5, <1>7, <1>13 DEF OneOn
  <2>2. /\ N + 1 = L => Len(c2.rcvd) = Len(c.rcvd) + 1 /\ RecvN(RecvSide(c2)) = 0
        /\ N + 1 # L => Len(c2.rcvd) = Len(c.rcvd) /\ RecvN(RecvSide(c2)) = N + 1
    <3>1. RecvSide(c2).rcvd = c2.rcvd /\ r.rcvd = c.rcvd /\ Len(c.rcvd) \in Nat
      BY <1>1, <1>9, SideTypes, IncomingTypes
    <3>2. TookData(r, RecvSide(c2), N, L)
      BY <1>10
    <3> DEFINE l == Len(c.rcvd)
               l2 == Len(c2.rcvd)
               n2 == RecvN(RecvSide(c2))
    <3>3. l2 = l + (IF N + 1 = L THEN 1 ELSE 0) /\ n2 = (IF N + 1 = L THEN 0 ELSE N + 1) /\ l \in Nat
      BY <3>1, <3>2 DEF TookData
    <3> HIDE DEF l, l2, n2, N, L
    <3>4. /\ N + 1 = L => l2 = l + 1 /\ n2 = 0
          /\ N + 1 # L => l2 = l /\ n2 = N + 1
      BY <3>3
    <3> QED BY <3>4 DEF l, l2, n2
  <2>3. c2.up = c.up /\ x.up = c.up /\ z.t = c2.rcvTodo
    <3>1. x.up = c.up
      BY ReadsFields
    <3> QED BY <1>4, <1>9, <2>1, <3>1 DEF Alike
  <2>4. /\ own /\ other => x.aj = AckedJ(SendSide(c), h) /\ x.an = AckedN(SendSide(c))
        /\ ~(own /\ other) => x.aj = 0 /\ x.an = 0
    BY ReadsFields
  <2> HIDE DEF k, x, r, N, L, b, m
  <2>5. ReadAs(z, c2, h, own, other)
    BY <1>9, <2>1, <2>2, <2>3, <2>4 DEF ReadAs
  <2> QED BY <1>2, <1>9, <1>10, <2>5, ReadsTo DEF k
<1> HIDE DEF x, r, N, L, b, m
<1>14. PairOK(c2, d2, h, g, own, other)
  BY <1>3, <1>9, <1>12, <1>13, UnitRead DEF x
<1>15. Waiting(c2)
  BY <1>3, <1>9 DEF Waiting, BufOK, Alike
<1>16. Took(c, c2, d, h)
  BY <1>1, <1>9, TookNothing DEF Alike
<1> QED BY <1>14, <1>15, <1>16

\* handle_data_segment: what it finds.
LEMMA WithinBundle ==
    ASSUME NEW r \in RecvSet, NEW g \in Seq(Bundles), RecvOK(r, g), r.rcvTodo = 0
    PROVE  /\ Partial(r) <=> r.incoming # <<>> /\ Last(r.incoming).total = 0
           /\ Partial(r) /\ RecvN(r) = 0 => Last(r.incoming).data = <<>> /\ Last(r.incoming).ack = {}
           /\ ~Partial(r) /\ r.incoming # <<>> => Last(r.incoming).data # <<>>
           /\ ~Partial(r) => RecvN(r) = 0
<1> DEFINE m == Len(r.incoming)
           f == r.incoming[m]
<1>1. Last(r.incoming) = f
  BY DEF Last
<1>2. CASE Partial(r)
  <2>1. /\ m \in 1 .. m /\ Newcomer(r) = f /\ r.incoming # <<>> /\ f \in IncomingSet
        /\ RecvN(r) = Len(f.data) /\ Len(f.data) \in Nat /\ f.acked \in Nat
        /\ Length[g[Len(r.rcvd) + 1]] \in Nat /\ Len(f.data) < Length[g[Len(r.rcvd) + 1]]
        /\ f.total = (IF Len(f.data) + 0 = Length[g[Len(r.rcvd) + 1]] THEN Length[g[Len(r.rcvd) + 1]] ELSE 0)
        /\ f.ack \subseteq f.acked + 1 .. Len(f.data) + 0
    BY <1>2, NewcomerFacts
  <2>2. f.data \in Seq(UnitSet)
    BY <2>1 DEF IncomingSet
  <2> HIDE DEF f, m
  <2>3. f.total = 0
    BY <2>1
  <2>4. Len(f.data) = 0 => f.data = <<>> /\ f.ack = {}
    BY <2>1, <2>2
  <2> QED BY <1>1, <1>2, <2>1, <2>3, <2>4
<1>3. CASE ~Partial(r) /\ r.incoming # <<>>
  <2>1. m \in Nat /\ m > 0 /\ DOMAIN r.incoming = 1 .. m /\ f.total \in Nat /\ Len(f.data) \in Nat
    <3>1. m \in Nat /\ m > 0 /\ DOMAIN r.incoming = 1 .. m
      BY <1>3, IncomingTypes
    <3>2. m \in 1 .. Len(r.incoming)
      BY <3>1
    <3>3. f.total \in Nat /\ Len(f.data) \in Nat
      BY <3>2, IncomingTypes
    <3> QED BY <3>1, <3>3
  <2>2. Newcomer(r) = f
    BY DEF Newcomer
  <2>3. f.total # 0 /\ ~(Len(f.data) < f.total)
    BY <1>3, <2>2 DEF Partial
  <2>4. Len(f.data) # 0
    BY <2>1, <2>3
  <2>5. f.data # <<>>
    BY <2>4
  <2>6. RecvN(r) = 0
    BY <1>3 DEF RecvN
  <2> QED BY <1>1, <1>3, <2>3, <2>5, <2>6
<1>4. CASE ~Partial(r) /\ r.incoming = <<>>
  BY <1>4 DEF RecvN
<1> QED BY <1>2, <1>3, <1>4

\* The two things it does.
BeginsOne(c, u, c2) ==
    c2 = [c EXCEPT !.recvbuf = <<u>>, !.incoming = Append(@, IncomingBundle)]

\* What handle_data_segment does with a header that is in order.
LEMMA SegmentFound ==
    ASSUME NEW c \in ConnSet, NEW g \in Seq(Bundles), RecvOK(RecvSide(c), g), c.rcvTodo = 0,
           NEW u, u.start \in BOOLEAN, u.start <=> RecvN(RecvSide(c)) = 0,
           NEW c2, c2 = handle_data_segment(c, u)
    PROVE  /\ Partial(RecvSide(c)) => Buffered(c, <<u>>, c2)
           /\ ~Partial(RecvSide(c)) => BeginsOne(c, u, c2)
<1> DEFINE r == RecvSide(c)
           within == c.incoming # <<>> /\ Last(c.incoming).total = 0
           e == [c EXCEPT !.recvbuf = <<u>>]
<1>1. r \in RecvSet /\ r.incoming = c.incoming /\ r.rcvTodo = 0
  BY SideTypes
<1>2. /\ Partial(r) <=> within
      /\ Partial(r) /\ RecvN(r) = 0 => Last(c.incoming).data = <<>> /\ Last(c.incoming).ack = {}
      /\ ~Partial(r) /\ c.incoming # <<>> => Last(c.incoming).data # <<>>
      /\ ~Partial(r) => RecvN(r) = 0
  BY <1>1, WithinBundle
<1>3. c2 = CASE u.start /\ ~CalledAgain(c) /\ within -> break_contact(c, "CL_ERROR")
             [] u.start /\ ~CalledAgain(c) /\ ~within -> [e EXCEPT !.incoming = Append(@, IncomingBundle)]
             [] ~u.start /\ c.incoming = <<>> -> break_contact(c, "CL_ERROR")
             [] OTHER -> e
  BY DEF handle_data_segment
<1>4. CASE Partial(r)
  <2>1. within /\ c.incoming # <<>> /\ (u.start => CalledAgain(c))
    BY <1>2, <1>4 DEF CalledAgain
  <2> HIDE DEF e, within
  <2>2. c2 = e
    BY <1>3, <2>1
  <2> QED BY <1>4, <2>2 DEF Buffered, e
<1>5. CASE ~Partial(r)
  <2>1. ~within /\ u.start /\ ~CalledAgain(c)
    BY <1>2, <1>5 DEF CalledAgain
  <2> HIDE DEF e, within
  <2>2. c2 = [e EXCEPT !.incoming = Append(@, IncomingBundle)]
    BY <1>3, <2>1
  <2>3. c2 = [c EXCEPT !.recvbuf = <<u>>, !.incoming = Append(@, IncomingBundle)]
    BY <2>2 DEF ConnSet, e
  <2> QED BY <1>5, <2>3 DEF BeginsOne
<1> QED BY <1>4, <1>5

\* The connection when a bundle begins.
OneMore(c, u, c2, m) ==
    /\ c2 \in ConnSet /\ Alike(c, c2) /\ SendSide(c2) = SendSide(c) /\ c2.rcvTodo = c.rcvTodo
    /\ c2.wire = c.wire /\ c2.sendbuf = c.sendbuf /\ c2.recvbuf = <<u>> /\ c2.stall = c.stall
    /\ c2.events = c.events /\ c2.rcvd = c.rcvd /\ Len(c2.incoming) = m + 1
    /\ \A i \in 1 .. m : c2.incoming[i] = c.incoming[i]
    /\ c2.incoming[m + 1] = IncomingBundle

\* It begins an incoming bundle.
LEMMA OneBegins ==
    ASSUME NEW c \in ConnSet, NEW u \in UnitSet, NEW c2, BeginsOne(c, u, c2)
    PROVE  OneMore(c, u, c2, Len(c.incoming))
<1> DEFINE q == c.incoming
           f == IncomingBundle
           q2 == Append(q, f)
           B == <<u>>
           m == Len(q)
<1>1. q \in Seq(IncomingSet)
  BY DEF ConnSet
<1>2. f \in IncomingSet
  <2> DEFINE F == <<>>
  <2>1. F \in Seq(UnitSet) /\ f = [data |-> F, ack |-> {}, acked |-> 0, total |-> 0]
    BY DEF IncomingBundle
  <2> HIDE DEF F, f
  <2> QED BY <2>1 DEF IncomingSet
<1>3. B \in Seq(UnitSet)
  OBVIOUS
<1>4. c2 = [c EXCEPT !.recvbuf = B, !.incoming = q2]
  BY DEF BeginsOne
<1> HIDE DEF q, f, B
<1>5. /\ q2 \in Seq(IncomingSet) /\ Len(q2) = m + 1 /\ \A i \in 1 .. m : q2[i] = q[i]
      /\ q2[m + 1] = f
  BY <1>1, <1>2
<1> HIDE DEF q2
<1>6. c2 \in ConnSet
  BY <1>3, <1>4, <1>5 DEF ConnSet
<1>7. /\ Alike(c, c2) /\ SendSide(c2) = SendSide(c) /\ c2.rcvTodo = c.rcvTodo
      /\ c2.wire = c.wire /\ c2.sendbuf = c.sendbuf /\ c2.recvbuf = B /\ c2.stall = c.stall
      /\ c2.events = c.events /\ c2.rcvd = c.rcvd /\ c2.incoming = q2
  BY <1>4 DEF ConnSet, Alike, SendSide
<1> QED BY <1>5, <1>6, <1>7 DEF OneMore, q, f, B

\* A segment's first byte.
LEMMA SegMoved ==
    ASSUME NEW k, NEW x \in Position, x.seg = "no", NEW u, u.unit = "seg", NEW z, Move(k, x, u, z)
    PROVE  /\ x.j < Len(k.h) /\ (u.start <=> x.n = 0)
           /\ z = [x EXCEPT !.seg = IF u.end THEN "last" ELSE "more"]
<1>1. u # Data(k.h[x.j + 1], x.n + 1)
  BY DEF Data
<1>2. SegMove(k, x, u, z)
  BY <1>1 DEF Move, HdrMove, LenMove, DataMove, AckMove, RestMove
<1> QED BY <1>2 DEF SegMove

\* A segment header is handled.
LEMMA SegRead ==
    ASSUME NEW c, NEW d, NEW h, NEW g, NEW own, NEW other, PairOK(c, d, h, g, own, other),
           c.broken = "no", Waiting(c), c.up, ~c.stall, c.rcvTodo = 0, c.recvbuf = <<>>,
           NEW u, NEW R, NEW d2, Unread1(d, u, R, d2), u.unit = "seg",
           NEW c2, c2 = handle_data_segment(c, u)
    PROVE  PairOK(c2, d2, h, g, own, other) /\ Waiting(c2) /\ Took(c, c2, d, h)
<1> DEFINE k == LaneOf(g, h, other, own)
           x == ReadsFrom(c, k)
           r == RecvSide(c)
           r2 == RecvSide(c2)
<1>1. EndOK(c, h, g, own, other) /\ c \in ConnSet /\ u \in UnitSet
  BY DEF PairOK, EndOK, Unread1
<1>2. /\ SendOK(SendSide(c), c.par.acks, h) /\ RecvOK(RecvSide(c), g) /\ ~c.closed
      /\ x \in Position /\ h \in Seq(Bundles) /\ g \in Seq(Bundles)
      /\ own \in BOOLEAN /\ other \in BOOLEAN /\ c.par.acks \in BOOLEAN
  BY EndFacts
<1>3. x.up /\ x.seg = "no"
  BY ReadsFresh
<1>4. x.j = Len(c.rcvd) /\ x.n = RecvN(r) /\ k.h = g
  BY ReadsFields, LaneFields
<1>5. PICK z0 \in Position : Move(k, x, u, z0)
  BY NextUnit
<1>6. Len(c.rcvd) < Len(g) /\ (u.start <=> RecvN(r) = 0)
  <2>1. x.j < Len(k.h) /\ (u.start <=> x.n = 0)
    <3> HIDE DEF x, k
    <3> QED BY <1>2, <1>3, <1>5, SegMoved
  <2> QED BY <1>4, <2>1
<1>7. /\ Partial(r) => Buffered(c, <<u>>, c2)
      /\ ~Partial(r) => BeginsOne(c, u, c2)
  <2>1. u.start \in BOOLEAN
    BY <1>1, UnitKinds
  <2> HIDE DEF x, k
  <2> QED BY <1>1, <1>2, <1>6, <2>1, SegmentFound
<1>8. Extends(c.rcvd, c.rcvd) /\ Append(c.recvbuf, u) = <<u>> /\ <<u>> \in Seq(UnitSet)
  <2>1. Len(c.rcvd) \in Nat
    BY <1>1, SideTypes, IncomingTypes
  <2>2. Append(<<>>, u) = <<u>> /\ <<u>> \in Seq(UnitSet)
    BY <1>1
  <2> QED BY <2>1, <2>2, ExtendsSelf
<1> DEFINE B == <<u>>
<1>9. B \in Seq(UnitSet) /\ (Partial(r) => Buffered(c, B, c2)) /\ Append(c.recvbuf, u) = B
  BY <1>7, <1>8
<1>10. CASE Partial(r)
  <2> HIDE DEF B
  <2>1. EndOK(c2, h, g, own, other) /\ OnlyBuffer(c, B, c2)
    BY <1>1, <1>9, <1>10, BufferSwap
  <2>2. /\ SendSide(c2) = SendSide(c) /\ RecvSide(c2) = RecvSide(c)
        /\ c2.recvbuf = B /\ Out(c2) = Out(c) /\ Alike(c, c2) /\ c2.events = c.events
        /\ c2.stall = c.stall /\ c2.rcvd = c.rcvd /\ c2.wire = c.wire /\ c2.sendbuf = c.sendbuf
        /\ c2 \in ConnSet /\ c2.rcvTodo = c.rcvTodo
        /\ WroteTo(c2, LaneOf(h, g, own, other)) = WroteTo(c, LaneOf(h, g, own, other))
        /\ ReadsFrom(c2, k) = x
    BY <2>1 DEF OnlyBuffer
  <2>3. ReadsAs(c, c2, h, g, own, other)
    BY <1>8, <2>1, <2>2 DEF ReadsAs, Alike
  <2>4. PairOK(c2, d2, h, g, own, other)
    BY <1>9, <2>2, <2>3, UnitKept
  <2>5. Waiting(c2)
    BY <1>1, <1>10, <2>2 DEF Waiting, BufOK, Alike, B
  <2>6. Took(c, c2, d, h)
    BY <1>1, <1>8, <2>2, TookNothing DEF Alike
  <2> QED BY <2>4, <2>5, <2>6
<1>11. CASE ~Partial(r)
  <2> DEFINE m == Len(c.incoming)
  <2>1. OneMore(c, u, c2, m)
    BY <1>1, <1>7, <1>11, OneBegins
  <2>2. /\ c2 \in ConnSet /\ Alike(c, c2) /\ SendSide(c2) = SendSide(c) /\ c2.rcvTodo = 0
        /\ c2.wire = c.wire /\ c2.sendbuf = c.sendbuf /\ c2.recvbuf = <<u>> /\ c2.stall = c.stall
        /\ c2.events = c.events /\ c2.rcvd = c.rcvd
    BY <2>1 DEF OneMore
  <2>3. /\ r \in RecvSet /\ r.incoming = c.incoming /\ r.rcvTodo = c.rcvTodo /\ r.rcvd = c.rcvd
        /\ r2 \in RecvSet /\ r2.incoming = c2.incoming /\ r2.rcvTodo = c2.rcvTodo /\ r2.rcvd = c2.rcvd
    BY <1>1, <2>2, SideTypes
  <2>4. BeginsIncoming(r, r2, g, m)
    <3> HIDE DEF r, r2, x, k
    <3> QED BY <1>6, <1>11, <2>1, <2>2, <2>3 DEF BeginsIncoming, OneMore
  <2>5. /\ RecvOK(r2, g) /\ Partial(r2) /\ RecvN(r2) = 0 /\ RecvN(r) = 0
        /\ GaveJ(r2) = GaveJ(r) /\ GaveN(r2) = GaveN(r)
    <3>1. RecvOK(r, g)
      BY <1>2
    <3> HIDE DEF r, r2, x, k
    <3> QED BY <1>2, <2>3, <2>4, <3>1, BundleBegins
  <2>6. Out(c2) = Out(c)
    BY <2>2 DEF Out
  <2>7. ReadsAs(c, c2, h, g, own, other)
    BY <1>8, <2>2, <2>5, <2>6, Receives
  <2>8. ReadsFrom(c2, k) = x
    BY <2>2, <2>5 DEF ReadsFrom, ReceiverAt, Alike, RecvSide
  <2>9. PairOK(c2, d2, h, g, own, other)
    BY <1>8, <2>2, <2>7, <2>8, UnitKept
  <2>10. Waiting(c2)
    BY <1>1, <2>2, <2>5 DEF Waiting, BufOK, Alike
  <2>11. Took(c, c2, d, h)
    BY <1>1, <1>8, <2>2, TookNothing DEF Alike
  <2> QED BY <2>9, <2>10, <2>11
<1> QED BY <1>10, <1>11

\* A segment's length, after its first byte.
LenMoved(k, x, s, u, z) ==
    /\ x.j < Len(k.h) /\ u.unit = "len" /\ u.n \in 1 .. SegmentLength
    /\ x.n + u.n <= Length[k.h[x.j + 1]]
    /\ s.end <=> x.n + u.n = Length[k.h[x.j + 1]]
    /\ z.up = x.up /\ z.j = x.j /\ z.n = x.n /\ z.t = u.n /\ z.seg = "no"
    /\ z.aj = x.aj /\ z.an = x.an

\* After a segment header only its length may follow.
LEMMA HeaderMoved ==
    ASSUME NEW k, NEW x \in Position, x.seg = "no", NEW s \in UnitSet, s.unit = "seg", NEW u,
           NEW y \in Position, Move(k, x, s, y), NEW z \in Position, Move(k, y, u, z)
    PROVE  LenMoved(k, x, s, u, z)
<1>1. y = [x EXCEPT !.seg = IF s.end THEN "last" ELSE "more"] /\ s.end \in BOOLEAN
  BY SegMoved, UnitKinds
<1>2. /\ y.up = x.up /\ y.j = x.j /\ y.n = x.n /\ y.t = x.t /\ y.aj = x.aj /\ y.an = x.an
      /\ y.seg = IF s.end THEN "last" ELSE "more"
  BY <1>1 DEF Position
<1>3. y.seg # "no" /\ (y.seg = "last" <=> s.end)
  BY <1>1, <1>2
<1>4. LenMove(k, y, u, z)
  BY <1>3 DEF Move, HdrMove, SegMove, DataMove, AckMove, RestMove, Resting
<1>5. /\ u.unit = "len" /\ y.j < Len(k.h) /\ u.n \in 1 .. SegmentLength
      /\ y.n + u.n <= Length[k.h[y.j + 1]]
      /\ y.seg = "last" <=> y.n + u.n = Length[k.h[y.j + 1]]
      /\ z = [y EXCEPT !.seg = "no", !.t = u.n]
  BY <1>4 DEF LenMove
<1>6. /\ z.up = y.up /\ z.j = y.j /\ z.n = y.n /\ z.t = u.n /\ z.seg = "no"
      /\ z.aj = y.aj /\ z.an = y.an
  BY <1>5 DEF Position
<1> QED BY <1>2, <1>3, <1>5, <1>6 DEF LenMoved

\* handle_segment_length.
TakesLength(c, s, u, N, c2, m) ==
    /\ c2 \in ConnSet /\ Alike(c, c2) /\ SendSide(c2) = SendSide(c) /\ c2.rcvTodo = u.n
    /\ c2.wire = c.wire /\ c2.sendbuf = c.sendbuf /\ c2.recvbuf = <<>> /\ c2.stall = c.stall
    /\ c2.events = c.events /\ c2.rcvd = c.rcvd /\ Len(c2.incoming) = m
    /\ \A i \in 1 .. m : i # m => c2.incoming[i] = c.incoming[i]
    /\ c2.incoming[m].data = c.incoming[m].data
    /\ c2.incoming[m].acked = c.incoming[m].acked
    /\ c2.incoming[m].ack = c.incoming[m].ack \cup {N + u.n}
    /\ c2.incoming[m].total = IF s.end THEN N + u.n ELSE c.incoming[m].total

\* What handle_segment_length does.
LEMMA LengthTaken ==
    ASSUME NEW c \in ConnSet, NEW m, m = Len(c.incoming), m > 0, NEW s \in UnitSet, c.recvbuf = <<s>>,
           NEW u, u.n \in Nat, u.n # 0, NEW N, N = Len(c.incoming[m].data),
           NEW c2, c2 = handle_segment_length(c, u)
    PROVE  TakesLength(c, s, u, N, c2, m)
<1> DEFINE q == c.incoming
           end == N + u.n
           p == q[m]
           T == IF s.end THEN end ELSE p.total
           f == [p EXCEPT !.ack = @ \cup {end}, !.total = T]
           q2 == [q EXCEPT ![m] = f]
<1>1. q \in Seq(IncomingSet) /\ p \in IncomingSet /\ m \in Nat
  BY DEF ConnSet
<1>2. N \in Nat /\ end \in Nat
  <2>1. p.data \in Seq(UnitSet) /\ N = Len(p.data)
    BY <1>1 DEF IncomingSet
  <2> HIDE DEF p
  <2>2. N \in Nat
    BY <2>1
  <2> QED BY <2>2
<1>3. c.recvbuf[1] = s
  OBVIOUS
<1>4. c2 = [c EXCEPT !.recvbuf = <<>>, !.incoming = q2, !.rcvTodo = u.n]
  BY <1>3 DEF handle_segment_length
<1>5. /\ f \in IncomingSet /\ f.data = p.data /\ f.acked = p.acked
      /\ f.ack = p.ack \cup {end} /\ f.total = T
  <2>1. T \in Nat
    BY <1>1, <1>2 DEF IncomingSet
  <2> HIDE DEF p, T, end
  <2> QED BY <1>1, <1>2, <2>1 DEF IncomingSet
<1>6. /\ q2 \in Seq(IncomingSet) /\ Len(q2) = m /\ q2[m] = f
      /\ \A i \in 1 .. m : i # m => q2[i] = q[i]
  <2>1. Replaced(q, m, f, q2)
    BY DEF Replaced
  <2>2. m = Len(q)
    OBVIOUS
  <2> HIDE DEF q, q2, f
  <2> QED BY <1>1, <1>5, <2>1, <2>2, LastReplaced
<1> HIDE DEF q2
<1> DEFINE F == <<>>
<1>7. F \in Seq(UnitSet) /\ c2 = [c EXCEPT !.recvbuf = F, !.incoming = q2, !.rcvTodo = u.n]
  BY <1>4
<1> HIDE DEF F
<1>8. c2 \in ConnSet
  BY <1>6, <1>7 DEF ConnSet
<1>9. /\ Alike(c, c2) /\ SendSide(c2) = SendSide(c) /\ c2.rcvTodo = u.n
      /\ c2.wire = c.wire /\ c2.sendbuf = c.sendbuf /\ c2.recvbuf = F /\ c2.stall = c.stall
      /\ c2.events = c.events /\ c2.rcvd = c.rcvd /\ c2.incoming = q2
  BY <1>7 DEF ConnSet, Alike, SendSide
<1>10. c2.recvbuf = <<>>
  BY <1>9 DEF F
<1> HIDE DEF f
<1> QED BY <1>5, <1>6, <1>8, <1>9, <1>10 DEF TakesLength

\* A segment's length is handled.
LEMMA LenRead ==
    ASSUME NEW c, NEW d, NEW h, NEW g, NEW own, NEW other, PairOK(c, d, h, g, own, other),
           c.broken = "no", Waiting(c), ~c.stall, c.recvbuf # <<>>,
           NEW u, NEW R, NEW d2, Unread1(d, u, R, d2),
           NEW c2, c2 = handle_segment_length(c, u)
    PROVE  /\ u.unit = "len" /\ c.up /\ c.rcvTodo = 0
           /\ PairOK(c2, d2, h, g, own, other) /\ Waiting(c2) /\ Took(c, c2, d, h)
<1> DEFINE k == LaneOf(g, h, other, own)
           x == ReadsFrom(c, k)
           r == RecvSide(c)
           r2 == RecvSide(c2)
           m == Len(c.incoming)
           N == RecvN(r)
           L == Length[g[Len(r.rcvd) + 1]]
<1>1. EndOK(c, h, g, own, other) /\ c \in ConnSet /\ u \in UnitSet
  BY DEF PairOK, EndOK, Unread1
<1>2. /\ SendOK(SendSide(c), c.par.acks, h) /\ RecvOK(RecvSide(c), g) /\ ~c.closed
      /\ x \in Position /\ h \in Seq(Bundles) /\ g \in Seq(Bundles)
      /\ own \in BOOLEAN /\ other \in BOOLEAN /\ c.par.acks \in BOOLEAN
  BY EndFacts
<1>3. c.up /\ c.rcvTodo = 0 /\ Partial(r)
  BY DEF Waiting
<1>4. PICK s \in UnitSet : s.unit = "seg" /\ c.recvbuf = <<s>>
  BY DEF Waiting
<1>5. x.up /\ x.seg = "no"
  BY <1>3, ReadsFresh
<1>6. /\ r \in RecvSet /\ r.incoming = c.incoming /\ r.rcvTodo = c.rcvTodo /\ r.rcvd = c.rcvd
  BY <1>1, SideTypes
<1>7. x.j = Len(r.rcvd) /\ x.n = N /\ k.h = g
  BY <1>6, ReadsFields, LaneFields
<1>8. ASSUME NEW y \in Position, NEW z \in Position, Move(k, x, s, y), Move(k, y, u, z)
      PROVE  /\ u.unit = "len" /\ u.n \in 1 .. SegmentLength /\ N + u.n <= L /\ (s.end <=> N + u.n = L)
             /\ z.up = x.up /\ z.j = x.j /\ z.n = x.n /\ z.t = u.n /\ z.seg = "no"
             /\ z.aj = x.aj /\ z.an = x.an
  <2>1. LenMoved(k, x, s, u, z)
    <3> HIDE DEF x, k
    <3> QED BY <1>2, <1>4, <1>5, <1>8, HeaderMoved
  <2> QED BY <1>7, <2>1 DEF LenMoved
<1>9. \E y, z \in Position : Move(k, x, s, y) /\ Move(k, y, u, z)
  BY <1>4, SecondUnit
<1>10. u.unit = "len" /\ u.n \in 1 .. SegmentLength /\ N + u.n <= L /\ (s.end <=> N + u.n = L)
  BY <1>8, <1>9
<1>11. m \in Nat /\ m > 0 /\ N = Len(c.incoming[m].data) /\ u.n \in Nat /\ u.n # 0 /\ s.end \in BOOLEAN
  <2>1. /\ Len(r.incoming) \in 1 .. Len(r.incoming) /\ RecvN(r) = Len(r.incoming[Len(r.incoming)].data)
        /\ Len(r.incoming) \in Nat
    BY <1>2, <1>3, <1>6, NewcomerFacts, IncomingTypes
  <2>2. SegmentLength \in Nat /\ s.end \in BOOLEAN
    BY <1>4, Constants, UnitKinds
  <2> QED BY <1>6, <1>10, <2>1, <2>2
<1>12. TakesLength(c, s, u, N, c2, m)
  <2> HIDE DEF N, m, x, k, r, r2, L
  <2> QED BY <1>1, <1>4, <1>11, LengthTaken DEF m
<1>13. /\ c2 \in ConnSet /\ Alike(c, c2) /\ SendSide(c2) = SendSide(c) /\ c2.rcvTodo = u.n
       /\ c2.wire = c.wire /\ c2.sendbuf = c.sendbuf /\ c2.recvbuf = <<>> /\ c2.stall = c.stall
       /\ c2.events = c.events /\ c2.rcvd = c.rcvd
  BY <1>12 DEF TakesLength
<1>14. /\ r2 \in RecvSet /\ r2.incoming = c2.incoming /\ r2.rcvTodo = c2.rcvTodo /\ r2.rcvd = c2.rcvd
  BY <1>13, SideTypes
<1>15. Announces(r, r2, g, u.n, L, m)
  <2>1. /\ Len(c2.incoming) = m
        /\ \A i \in 1 .. m : i # m => c2.incoming[i] = c.incoming[i]
        /\ c2.incoming[m].data = c.incoming[m].data
        /\ c2.incoming[m].acked = c.incoming[m].acked
        /\ c2.incoming[m].ack = c.incoming[m].ack \cup {N + u.n}
        /\ c2.incoming[m].total = IF s.end THEN N + u.n ELSE c.incoming[m].total
    BY <1>12 DEF TakesLength
  <2>2. c2.incoming[m].total = IF N + u.n = L THEN N + u.n ELSE c.incoming[m].total
    <3> HIDE DEF N, L
    <3> QED BY <1>10, <1>11, <2>1
  <2>3. L = Length[g[Len(r.rcvd) + 1]] /\ N = RecvN(r) /\ m = Len(r.incoming)
    BY <1>6
  <2> HIDE DEF N, m, x, k, r, r2, L
  <2> QED BY <1>3, <1>6, <1>10, <1>13, <1>14, <2>1, <2>2, <2>3 DEF Announces
<1>16. /\ RecvOK(r2, g) /\ Partial(r2) /\ RecvN(r2) = RecvN(r)
       /\ GaveJ(r2) = GaveJ(r) /\ GaveN(r2) = GaveN(r)
  <2>1. RecvOK(r, g)
    BY <1>2
  <2> HIDE DEF N, m, x, k, r, r2, L
  <2> QED BY <1>2, <1>6, <1>15, <2>1, SegmentAnnounced
<1>17. Out(c2) = Out(c) /\ Extends(c.rcvd, c2.rcvd)
  <2>1. Len(c.rcvd) \in Nat
    BY <1>1, SideTypes, IncomingTypes
  <2> QED BY <1>13, <2>1, ExtendsSelf DEF Out
<1>18. ReadsAs(c, c2, h, g, own, other)
  <2>1. RecvOK(RecvSide(c2), g) /\ GaveJ(RecvSide(c2)) = GaveJ(RecvSide(c)) /\ GaveN(RecvSide(c2)) = GaveN(RecvSide(c))
    BY <1>16
  <2> HIDE DEF N, m, x, k, r, r2, L
  <2> QED BY <1>3, <1>13, <1>17, <2>1, Receives
<1>19. ASSUME NEW y \in Position, NEW z \in Position, Move(k, x, s, y), Move(k, y, u, z)
       PROVE  z = ReadsFrom(c2, k)
  <2>1. /\ z.up = x.up /\ z.j = Len(r.rcvd) /\ z.n = N /\ z.t = u.n /\ z.seg = "no"
        /\ z.aj = x.aj /\ z.an = x.an
    BY <1>7, <1>8, <1>19
  <2>2. /\ x.up = c.up
        /\ own /\ other => x.aj = AckedJ(SendSide(c), h) /\ x.an = AckedN(SendSide(c))
        /\ ~(own /\ other) => x.aj = 0 /\ x.an = 0
    BY ReadsFields
  <2>3. Len(c2.rcvd) = Len(r.rcvd) /\ RecvN(RecvSide(c2)) = N /\ RecvOK(RecvSide(c2), g)
    BY <1>6, <1>13, <1>16
  <2> HIDE DEF k, x, r, N, L, m
  <2>4. ReadAs(z, c2, h, own, other)
    BY <1>13, <2>1, <2>2, <2>3 DEF ReadAs, Alike
  <2> QED BY <1>2, <1>13, <2>3, <2>4, ReadsTo DEF k
<1> HIDE DEF x, r, N, L, m
<1>20. PairOK(c2, d2, h, g, own, other)
  BY <1>4, <1>13, <1>18, <1>19, BothRead DEF x
<1>21. Waiting(c2)
  BY <1>13 DEF Waiting, BufOK, Alike
<1>22. Took(c, c2, d, h)
  BY <1>1, <1>13, <1>17, TookNothing DEF Alike
<1> QED BY <1>3, <1>10, <1>20, <1>21, <1>22

\* The first bundle in flight is changed.
LEMMA FirstReplaced ==
    ASSUME NEW q \in Seq(FlightSet), q # <<>>, NEW f \in FlightSet, NEW q2, q2 = [q EXCEPT ![1] = f]
    PROVE  /\ q2 \in Seq(FlightSet) /\ Len(q2) = Len(q) /\ Len(q) \in Nat /\ Len(q) >= 1
           /\ q2[1] = f /\ \A i \in 2 .. Len(q) : q2[i] = q[i]
<1>1. Len(q) \in Nat /\ Len(q) >= 1 /\ 1 \in 1 .. Len(q)
  OBVIOUS
<1>2. /\ q2 \in Seq(FlightSet) /\ Len(q2) = Len(q)
      /\ \A i \in 1 .. Len(q) : q2[i] = IF i = 1 THEN f ELSE q[i]
  BY <1>1, ExceptSeq
<1>3. \A i \in 2 .. Len(q) : i \in 1 .. Len(q) /\ i # 1
  OBVIOUS
<1> QED BY <1>1, <1>2, <1>3

\* handle_ack_segment: n units of the first bundle in flight.
TakesAck(c, n, c2) ==
    LET f == c.inflight[1] IN
    /\ c2 \in ConnSet /\ Alike(c, c2) /\ RecvSide(c2) = RecvSide(c) /\ c2.rcvd = c.rcvd
    /\ c2.wire = c.wire /\ c2.sendbuf = c.sendbuf /\ c2.recvbuf = c.recvbuf /\ c2.stall = c.stall
    /\ \/ NotesAck(SendSide(c), SendSide(c2), Len(c.inflight), n)
       \/ n = Length[f.b] /\ PopsFirst(SendSide(c), SendSide(c2), Len(c.inflight))
    /\ n # Length[f.b] => c2.events = c.events
    /\ n = Length[f.b] => c2.events = Append(c.events, Transmitted(f.b, f.sent, n))

\* What handle_ack_segment does with an acknowledgement in order.
LEMMA AckTaken ==
    ASSUME NEW c \in ConnSet, c.inflight # <<>>, c.par.acks, NEW u, NEW n \in Nat, u.n = n,
           c.inflight[1].acked < n, n <= c.inflight[1].sent, c.inflight[1].posted = FALSE,
           NEW c2, c2 = handle_ack_segment(c, u)
    PROVE  TakesAck(c, n, c2)
<1> DEFINE q == c.inflight
           f == q[1]
           L == Length[f.b]
           f1 == [f EXCEPT !.acked = n]
           f2 == [f1 EXCEPT !.posted = TRUE]
           q1 == [q EXCEPT ![1] = f1]
           q2 == [q EXCEPT ![1] = f2]
           E == Append(c.events, Transmitted(f.b, f.sent, n))
           m == Len(q)
<1>1. q \in Seq(FlightSet) /\ q # <<>> /\ f \in FlightSet /\ c.events \in Seq(EventSet)
  BY DEF ConnSet
<1>2. /\ f1 \in FlightSet /\ f1.b = f.b /\ f1.sent = f.sent /\ f1.acked = n /\ f1.posted = FALSE
      /\ f2 \in FlightSet /\ f2.b = f.b /\ f2.sent = f.sent /\ f2.acked = n /\ f2.posted = TRUE
      /\ f.b \in Bundles /\ f.sent \in Nat /\ f.acked \in Nat /\ L \in Nat
  <2>1. f.b \in Bundles
    BY <1>1 DEF FlightSet
  <2>2. L \in Nat
    BY <2>1, Constants
  <2> QED BY <1>1, <2>1, <2>2 DEF FlightSet
<1>3. E \in Seq(EventSet)
  <2> DEFINE v == c.events
             t == Transmitted(f.b, f.sent, n)
  <2>1. v \in Seq(EventSet) /\ t \in EventSet
    BY <1>1, <1>2 DEF EventSet
  <2> HIDE DEF v, t
  <2>2. Append(v, t) \in Seq(EventSet)
    BY <2>1
  <2> QED BY <2>2 DEF v, t
<1>4. /\ q1 \in Seq(FlightSet) /\ Len(q1) = m /\ m \in Nat /\ m >= 1
      /\ q1[1] = f1 /\ \A i \in 2 .. m : q1[i] = q[i]
  <2> HIDE DEF q, f1
  <2> QED BY <1>1, <1>2, FirstReplaced
<1>5. /\ q2 \in Seq(FlightSet) /\ Len(q2) = m
      /\ q2[1] = f2 /\ \A i \in 2 .. m : q2[i] = q[i]
  <2> HIDE DEF q, f2
  <2> QED BY <1>1, <1>2, FirstReplaced
<1>6. [c EXCEPT !.inflight[1].acked = u.n] = [c EXCEPT !.inflight = q1]
  BY <1>1 DEF ConnSet
<1>7. [[c EXCEPT !.inflight = q1] EXCEPT !.inflight[1].posted = TRUE,
                  !.events = Append(@, Transmitted(f.b, f.sent, u.n))]
      = [c EXCEPT !.inflight = q2, !.events = E]
  <2>1. [q1 EXCEPT ![1] = f2] = q2
    <3>1. DOMAIN q = 1 .. m /\ DOMAIN q1 = 1 .. m
      BY <1>1, <1>4
    <3> HIDE DEF f1, f2, q
    <3> QED BY <1>1, <1>4, <3>1
  <2>2. [q1 EXCEPT ![1].posted = TRUE] = q2
    <3> HIDE DEF q1, q2
    <3>1. [q1 EXCEPT ![1].posted = TRUE] = [q1 EXCEPT ![1] = f2]
      BY <1>4
    <3> QED BY <2>1, <3>1
  <2> HIDE DEF q1, q2
  <2> QED BY <2>2 DEF ConnSet
<1> DEFINE e == [c EXCEPT !.inflight = q2, !.events = E]
           p == [c EXCEPT !.inflight = Tail(q2), !.events = E]
<1>8. c2 = IF n = L THEN check_sent(e, 1) ELSE [c EXCEPT !.inflight = q1]
  <2> DEFINE d0 == [c EXCEPT !.inflight = q1]
  <2>1. n >= f.acked /\ ~(n < f.acked)
    BY <1>2
  <2>2. c2 = IF n = L THEN check_sent([d0 EXCEPT !.inflight[1].posted = TRUE,
                  !.events = Append(@, Transmitted(f.b, f.sent, u.n))], 1) ELSE d0
    <3> HIDE DEF d0
    <3> QED BY <1>1, <1>6, <2>1 DEF handle_ack_segment, d0
  <2> QED BY <1>7, <2>2
<1>9. n = L => c2 = IF c.current /\ m = 1 THEN e ELSE p
  <2> SUFFICES ASSUME n = L
               PROVE  c2 = IF c.current /\ m = 1 THEN e ELSE p
    OBVIOUS
  <2>1. e.inflight = q2 /\ e.current = c.current /\ e.par = c.par /\ e.ok = c.ok
    BY DEF ConnSet
  <2>2. q2[1].acked >= Length[q2[1].b]
    BY <1>2, <1>5
  <2>3. [e EXCEPT !.ok = @ /\ 1 = 1, !.inflight = Tail(@)] = p
    <3>1. (e.ok /\ 1 = 1) = c.ok
      BY <2>1 DEF ConnSet
    <3> HIDE DEF q2, E
    <3> QED BY <3>1 DEF ConnSet
  <2>4. check_sent(e, 1) = IF c.current /\ 1 = m THEN e ELSE [e EXCEPT !.ok = @ /\ 1 = 1, !.inflight = Tail(@)]
    <3> HIDE DEF e, q2
    <3> QED BY <1>5, <2>1, <2>2 DEF check_sent, NeedsNoAck
  <2> HIDE DEF e, p
  <2> QED BY <1>8, <2>3, <2>4
<1>10. m \in Nat /\ m >= 1 /\ Len(SendSide(c).inflight) = m
       /\ SendSide(c).inflight = q /\ SendSide(c).current = c.current /\ SendSide(c).todo = c.todo
  BY <1>4, SideTypes
<1>11. CASE n # L
  <2> HIDE DEF q1
  <2>1. c2 = [c EXCEPT !.inflight = q1]
    BY <1>8, <1>11
  <2>2. /\ c2 \in ConnSet /\ Alike(c, c2) /\ c2.recvbuf = c.recvbuf /\ c2.stall = c.stall
        /\ c2.incoming = c.incoming /\ c2.rcvTodo = c.rcvTodo /\ c2.rcvd = c.rcvd
        /\ c2.wire = c.wire /\ c2.sendbuf = c.sendbuf /\ c2.events = c.events
        /\ c2.inflight = q1 /\ c2.current = c.current /\ c2.todo = c.todo
    <3>1. q1 \in Seq(FlightSet)
      BY <1>4
    <3> QED BY <2>1, <3>1 DEF ConnSet, Alike
  <2>3. RecvSide(c2) = RecvSide(c)
    BY <2>2 DEF RecvSide
  <2>4. /\ SendSide(c2) \in SendSet /\ SendSide(c2).inflight = q1 /\ SendSide(c2).current = c.current
        /\ SendSide(c2).todo = c.todo
    BY <2>2, SideTypes
  <2>5. NotesAck(SendSide(c), SendSide(c2), m, n)
    <3> HIDE DEF q, f1, L
    <3>1. n # Length[q[1].b]
      BY <1>11 DEF L
    <3> QED BY <1>2, <1>4, <1>10, <2>4, <3>1 DEF NotesAck, q
  <2> QED BY <1>11, <2>2, <2>3, <2>5 DEF TakesAck
<1>12. CASE n = L /\ c.current /\ m = 1
  <2>1. c2 = [c EXCEPT !.inflight = q2, !.events = E]
    BY <1>9, <1>12
  <2> HIDE DEF q2, E
  <2>2. /\ c2 \in ConnSet /\ Alike(c, c2) /\ c2.recvbuf = c.recvbuf /\ c2.stall = c.stall
        /\ c2.incoming = c.incoming /\ c2.rcvTodo = c.rcvTodo /\ c2.rcvd = c.rcvd
        /\ c2.wire = c.wire /\ c2.sendbuf = c.sendbuf /\ c2.events = E
        /\ c2.inflight = q2 /\ c2.current = c.current /\ c2.todo = c.todo
    <3>1. q2 \in Seq(FlightSet)
      BY <1>5
    <3> QED BY <1>3, <2>1, <3>1 DEF ConnSet, Alike
  <2>3. RecvSide(c2) = RecvSide(c)
    BY <2>2 DEF RecvSide
  <2>4. /\ SendSide(c2) \in SendSet /\ SendSide(c2).inflight = q2 /\ SendSide(c2).current = c.current
        /\ SendSide(c2).todo = c.todo
    BY <2>2, SideTypes
  <2>5. NotesAck(SendSide(c), SendSide(c2), m, n)
    <3> HIDE DEF q, f2, L
    <3>1. n = Length[q[1].b]
      BY <1>12 DEF L
    <3> QED BY <1>2, <1>4, <1>5, <1>10, <1>12, <2>4, <3>1 DEF NotesAck, q
  <2> QED BY <1>12, <2>2, <2>3, <2>5 DEF TakesAck, E
<1>13. CASE n = L /\ ~(c.current /\ m = 1)
  <2> DEFINE t == Tail(q2)
  <2>1. c2 = [c EXCEPT !.inflight = t, !.events = E]
    BY <1>9, <1>13
  <2>2. t \in Seq(FlightSet) /\ Len(t) = m - 1 /\ \A i \in 1 .. m - 1 : t[i] = q[i + 1]
    <3> HIDE DEF q2, m
    <3>1. q2 # <<>>
      BY <1>4, <1>5
    <3>2. t \in Seq(FlightSet) /\ Len(t) = m - 1 /\ \A i \in 1 .. m - 1 : t[i] = q2[i + 1]
      BY <1>4, <1>5, <3>1
    <3>3. \A i \in 1 .. m - 1 : i + 1 \in 2 .. m
      BY <1>4
    <3> QED BY <1>5, <3>2, <3>3
  <2> HIDE DEF t, E
  <2>3. /\ c2 \in ConnSet /\ Alike(c, c2) /\ c2.recvbuf = c.recvbuf /\ c2.stall = c.stall
        /\ c2.incoming = c.incoming /\ c2.rcvTodo = c.rcvTodo /\ c2.rcvd = c.rcvd
        /\ c2.wire = c.wire /\ c2.sendbuf = c.sendbuf /\ c2.events = E
        /\ c2.inflight = t /\ c2.current = c.current /\ c2.todo = c.todo
    BY <1>3, <2>1, <2>2, ZenonT(40) DEF ConnSet, Alike
  <2>4. RecvSide(c2) = RecvSide(c)
    BY <2>3 DEF RecvSide
  <2>5. /\ SendSide(c2) \in SendSet /\ SendSide(c2).inflight = t /\ SendSide(c2).current = c.current
        /\ SendSide(c2).todo = c.todo
    BY <2>3, SideTypes
  <2>6. PopsFirst(SendSide(c), SendSide(c2), m)
    <3> HIDE DEF q, m
    <3> QED BY <1>4, <1>10, <1>13, <2>2, <2>5 DEF PopsFirst
  <2> QED BY <1>13, <2>3, <2>4, <2>6 DEF TakesAck, E
<1> QED BY <1>11, <1>12, <1>13

\* What an acknowledgement of n of the next bundle's L units says.
Acks(k, x, n, L, z) ==
    /\ k.acks /\ x.aj < Len(k.g) /\ L = Length[k.g[x.aj + 1]] /\ n \in x.an + 1 .. L
    /\ z.up = x.up /\ z.j = x.j /\ z.n = x.n /\ z.t = x.t /\ z.seg = x.seg
    /\ z.aj = (IF n = L THEN x.aj + 1 ELSE x.aj) /\ z.an = (IF n = L THEN 0 ELSE n)

\* An acknowledgement leads to the place that it names.
LEMMA AckMoved ==
    ASSUME NEW k, NEW x \in Position, x.seg = "no", NEW u, u.unit = "ack", NEW z, Move(k, x, u, z)
    PROVE  Acks(k, x, u.n, Length[k.g[x.aj + 1]], z)
<1>1. u # Data(k.h[x.j + 1], x.n + 1)
  BY DEF Data
<1>2. AckMove(k, x, u, z)
  BY <1>1 DEF Move, HdrMove, SegMove, LenMove, DataMove, RestMove
<1> DEFINE L == Length[k.g[x.aj + 1]]
<1>3. /\ k.acks /\ x.aj < Len(k.g) /\ u.n \in x.an + 1 .. L
      /\ z = IF u.n = L THEN [x EXCEPT !.aj = @ + 1, !.an = 0] ELSE [x EXCEPT !.an = u.n]
  BY <1>2 DEF AckMove
<1> HIDE DEF L
<1>4. /\ z.up = x.up /\ z.j = x.j /\ z.n = x.n /\ z.t = x.t /\ z.seg = x.seg
      /\ z.aj = (IF u.n = L THEN x.aj + 1 ELSE x.aj) /\ z.an = (IF u.n = L THEN 0 ELSE u.n)
  BY <1>3 DEF Position
<1> QED BY <1>3, <1>4 DEF Acks, L

\* The acknowledgement is about the first bundle in flight.
AckFound(c, d, h, n, L) ==
    LET s == SendSide(c)
        f == c.inflight[1]
    IN  /\ c.inflight # <<>> /\ n \in Nat /\ f.acked < n /\ n <= f.sent /\ f.posted = FALSE
        /\ f.sent \in Nat /\ L = Length[f.b] /\ ~AllAcked(s)
        /\ \E m \in 1 .. Len(h) : /\ f.b = h[m]
                                  /\ n = L => m \in DOMAIN d.rcvd /\ d.rcvd[m] = Whole[h[m]]

\* The acknowledgement that is read is about the first bundle in flight.
LEMMA AckFinds ==
    ASSUME NEW c, NEW d, NEW h, NEW g, NEW own, NEW other, PairOK(c, d, h, g, own, other),
           c.broken = "no", c.up, NEW k, k = LaneOf(g, h, other, own), NEW x, x = ReadsFrom(c, k),
           NEW n, NEW L, NEW z, z \in Position, Acks(k, x, n, L, z), NEW y \in Position,
           Below(z.aj, z.an, y.aj, y.an), AcksOK(y, k, d, c)
    PROVE  AckFound(c, d, h, n, L) /\ c.par.acks
<1> DEFINE s == SendSide(c)
           j == AckedJ(s, h)
<1>1. /\ c \in ConnSet /\ d \in ConnSet /\ SendOK(s, c.par.acks, h) /\ h \in Seq(Bundles)
      /\ c.par.acks \in BOOLEAN /\ c.par.acks = (IF c.up THEN own /\ other ELSE own)
  BY EndFacts
<1>2. s \in SendSet /\ s.inflight = c.inflight
  BY <1>1, SideTypes
<1>3. k.g = h /\ (k.acks <=> other /\ own)
  BY LaneFields
<1>4. own /\ other /\ c.par.acks
  BY <1>1, <1>3 DEF Acks
<1>5. x.aj = j /\ x.an = AckedN(s)
  BY <1>4, ReadsFields
<1>6. /\ j < Len(h) /\ L = Length[h[j + 1]] /\ n \in AckedN(s) + 1 .. L
      /\ z.aj = (IF n = L THEN j + 1 ELSE j) /\ z.an = (IF n = L THEN 0 ELSE n)
  BY <1>3, <1>5 DEF Acks
<1>7. /\ y.aj <= Len(d.rcvd) /\ (\A i \in 1 .. y.aj : d.rcvd[i] = Whole[h[i]])
      /\ Below(y.aj, y.an, SentJ(s, h), SentN(s))
  BY <1>3 DEF AcksOK
<1>8. j \in Nat /\ AckedN(s) \in Nat /\ SentJ(s, h) \in Nat /\ SentN(s) \in Nat
  <2> HIDE DEF s
  <2> QED BY <1>1, <1>2, SendNumbers
<1>9. z.aj \in Nat /\ z.an \in Nat /\ y.aj \in Nat /\ y.an \in Nat
  BY DEF Position
<1>10. Below(z.aj, z.an, SentJ(s, h), SentN(s))
  <2> HIDE DEF s
  <2> QED BY <1>7, <1>8, <1>9, BelowTransitive
<1>11. /\ s.inflight # <<>> /\ Len(s.inflight) >= 1 /\ s.inflight[1] \in FlightSet
       /\ s.inflight[1].b = h[j + 1] /\ s.inflight[1].acked < n /\ n <= s.inflight[1].sent
       /\ n \in Nat /\ L = Length[s.inflight[1].b]
       /\ ~AllAcked(s) /\ s.inflight[1].posted = FALSE
  <2>1. AckInOrder(s, h, j, L, n)
    BY <1>6, <1>10 DEF AckInOrder
  <2>2. c.par.acks = TRUE
    BY <1>1, <1>4
  <2>3. SendOK(s, TRUE, h) /\ s \in SendSet /\ h \in Seq(Bundles)
    BY <1>1, <1>2, <2>2
  <2> HIDE DEF s, j
  <2> QED BY <2>1, <2>3, AckFits
<1>12. \E m \in 1 .. Len(h) : /\ s.inflight[1].b = h[m]
                              /\ n = L => m \in DOMAIN d.rcvd /\ d.rcvd[m] = Whole[h[m]]
  <2>1. j + 1 \in 1 .. Len(h)
    <3> HIDE DEF j
    <3> QED BY <1>1, <1>6, <1>8
  <2>2. ASSUME n = L
        PROVE  j + 1 \in DOMAIN d.rcvd /\ d.rcvd[j + 1] = Whole[h[j + 1]]
    <3>1. z.aj = j + 1
      BY <1>6, <2>2
    <3>2. z.aj <= y.aj
      BY <1>9 DEF Below
    <3>3. Len(d.rcvd) \in Nat /\ DOMAIN d.rcvd = 1 .. Len(d.rcvd)
      BY <1>1, SideTypes, IncomingTypes
    <3>4. j + 1 \in 1 .. y.aj /\ j + 1 \in 1 .. Len(d.rcvd)
      <4> HIDE DEF j
      <4> QED BY <1>7, <1>8, <1>9, <3>1, <3>2, <3>3
    <3> QED BY <1>7, <3>3, <3>4
  <2> QED BY <1>11, <2>1, <2>2
<1>13. s.inflight[1].sent \in Nat
  BY <1>11 DEF FlightSet
<1> QED BY <1>2, <1>4, <1>11, <1>12, <1>13 DEF AckFound

\* What that leaves.
LEMMA AckEffect ==
    ASSUME NEW c \in ConnSet, NEW h \in Seq(Bundles), SendOK(SendSide(c), TRUE, h),
           NEW n, NEW L, NEW d, AckFound(c, d, h, n, L), NEW c2, TakesAck(c, n, c2)
    PROVE  /\ SendOK(SendSide(c2), TRUE, h) /\ AckLeaves(SendSide(c), SendSide(c2), h, n, L)
           /\ SendSide(c2).todo = SendSide(c).todo
<1> DEFINE s == SendSide(c)
           s2 == SendSide(c2)
           m == Len(c.inflight)
<1>1. s \in SendSet /\ s.inflight = c.inflight /\ SendOK(s, TRUE, h)
  BY SideTypes
<1>2. ~AllAcked(s) /\ L = Length[s.inflight[1].b]
  BY <1>1 DEF AckFound
<1>3. NotesAck(s, s2, m, n) \/ (n = L /\ PopsFirst(s, s2, m))
  BY <1>1, <1>2 DEF TakesAck
<1> HIDE DEF s, s2, m
<1>4. CASE NotesAck(s, s2, m, n)
  <2>1. s2.todo = s.todo
    BY <1>4 DEF NotesAck
  <2>2. SendOK(s2, TRUE, h) /\ AckLeaves(s, s2, h, n, Length[s.inflight[1].b])
    BY <1>1, <1>2, <1>4, AckNoted
  <2> QED BY <1>2, <2>1, <2>2 DEF s, s2
<1>5. CASE n = L /\ PopsFirst(s, s2, m)
  <2>1. s2.todo = s.todo
    BY <1>5 DEF PopsFirst
  <2>2. SendOK(s2, TRUE, h) /\ AckLeaves(s, s2, h, L, L)
    BY <1>1, <1>2, <1>5, AckPops
  <2> QED BY <1>5, <2>1, <2>2 DEF s, s2
<1> QED BY <1>3, <1>4, <1>5

\* One more event.
LEMMA OneEvent ==
    ASSUME NEW E \in Seq(EventSet), NEW ev, NEW E2, E2 = Append(E, ev)
    PROVE  Extends(E, E2) /\ \A i \in DOMAIN E2 : i > Len(E) => E2[i] = ev
<1>1. Len(E) \in Nat /\ Len(E2) = Len(E) + 1 /\ DOMAIN E2 = 1 .. Len(E) + 1
      /\ \A i \in 1 .. Len(E) : E2[i] = E[i]
  OBVIOUS
<1>2. E2[Len(E) + 1] = ev
  OBVIOUS
<1>3. \A i \in DOMAIN E2 : i > Len(E) => i = Len(E) + 1
  BY <1>1
<1> QED BY <1>1, <1>2, <1>3 DEF Extends

\* What that means for the daemon: all of a bundle is only acknowledged when
\* the peer's daemon has it.
LEMMA TookAck ==
    ASSUME NEW c \in ConnSet, NEW h \in Seq(Bundles), NEW n, NEW L, NEW d, AckFound(c, d, h, n, L),
           c.up, c.par.acks, NEW c2, TakesAck(c, n, c2), AckLeaves(SendSide(c), SendSide(c2), h, n, L)
    PROVE  Took(c, c2, d, h)
<1> DEFINE f == c.inflight[1]
           ev == Transmitted(f.b, f.sent, n)
<1>1. /\ c2 \in ConnSet /\ Alike(c, c2) /\ c2.rcvd = c.rcvd
      /\ n # L => c2.events = c.events
      /\ n = L => c2.events = Append(c.events, ev)
  BY DEF TakesAck, AckFound
<1>2. Started(c2, h) = Started(c, h)
  BY DEF AckLeaves, Started, BundlesBegun
<1>3. Extends(c.rcvd, c2.rcvd)
  <2>1. Len(c.rcvd) \in Nat
    BY SideTypes, IncomingTypes
  <2> QED BY <1>1, <2>1, ExtendsSelf
<1>4. c.events \in Seq(EventSet) /\ Len(c.events) \in Nat
  <2>1. c.events \in Seq(EventSet)
    BY DEF ConnSet
  <2> QED BY <2>1
<1>5. n = L => ReadEvent(ev, c2, d, h)
  <2> SUFFICES ASSUME n = L
               PROVE  ReadEvent(ev, c2, d, h)
    OBVIOUS
  <2>1. PICK m \in 1 .. Len(h) : f.b = h[m] /\ m \in DOMAIN d.rcvd /\ d.rcvd[m] = Whole[h[m]]
    BY DEF AckFound
  <2>2. f.sent \in Nat /\ L = Length[f.b]
    BY DEF AckFound
  <2>3. ev = Transmitted(h[m], f.sent, Length[h[m]])
    BY <2>1, <2>2
  <2>4. c2.up /\ c2.par.acks
    BY <1>1 DEF Alike
  <2> HIDE DEF ev
  <2> QED BY <2>1, <2>2, <2>3, <2>4 DEF ReadEvent
<1>6. /\ Extends(c.events, c2.events)
      /\ \A i \in DOMAIN c2.events : i > Len(c.events) => ReadEvent(c2.events[i], c2, d, h)
  <2> DEFINE E == c.events
             E2 == c2.events
  <2>1. E \in Seq(EventSet) /\ Len(E) \in Nat /\ (n # L => E2 = E) /\ (n = L => E2 = Append(E, ev))
    BY <1>1, <1>4
  <2> HIDE DEF E, E2, ev
  <2>2. CASE n = L
    BY <1>5, <2>1, <2>2, OneEvent DEF E, E2
  <2>3. CASE n # L
    <3>1. \A i \in DOMAIN E : ~(i > Len(E))
      BY <2>1
    <3> QED BY <2>1, <2>3, <3>1, ExtendsSelf DEF E, E2
  <2> QED BY <2>2, <2>3
<1> QED BY <1>1, <1>2, <1>3, <1>6 DEF Took, Alike

\* An acknowledgement is handled.
LEMMA AckRead ==
    ASSUME NEW c, NEW d, NEW h, NEW g, NEW own, NEW other, PairOK(c, d, h, g, own, other),
           c.broken = "no", Waiting(c), c.up, c.recvbuf = <<>>,
           NEW u, NEW R, NEW d2, Unread1(d, u, R, d2), u.unit = "ack",
           NEW c2, c2 = handle_ack_segment(c, u)
    PROVE  PairOK(c2, d2, h, g, own, other) /\ Waiting(c2) /\ Took(c, c2, d, h)
<1> DEFINE k == LaneOf(g, h, other, own)
           x == ReadsFrom(c, k)
           n == u.n
           L == Length[k.g[x.aj + 1]]
           s == SendSide(c)
           s2 == SendSide(c2)
<1>0. /\ x.up = c.up /\ x.j = Len(c.rcvd) /\ x.n = RecvN(RecvSide(c)) /\ x.t = c.rcvTodo
      /\ other /\ own => x.aj = AckedJ(s, h) /\ x.an = AckedN(s)
  <2>1. x.up = c.up
    BY ReadsFields
  <2>2. x.j = Len(c.rcvd)
    BY ReadsFields
  <2>3. x.n = RecvN(RecvSide(c))
    BY ReadsFields
  <2>4. x.t = c.rcvTodo
    BY ReadsFields
  <2>5. other /\ own => x.aj = AckedJ(s, h) /\ x.an = AckedN(s)
    BY ReadsFields
  <2> QED BY <2>1, <2>2, <2>3, <2>4, <2>5
<1>1. EndOK(c, h, g, own, other) /\ c \in ConnSet
  BY DEF PairOK, EndOK
<1>2. /\ SendOK(s, c.par.acks, h) /\ RecvOK(RecvSide(c), g) /\ ~c.closed
      /\ x \in Position /\ h \in Seq(Bundles) /\ g \in Seq(Bundles)
      /\ own \in BOOLEAN /\ other \in BOOLEAN /\ c.par.acks \in BOOLEAN
  BY EndFacts
<1>3. x.up /\ x.seg = "no"
  BY ReadsFresh
<1>4. \A z \in Position : Move(k, x, u, z) => Acks(k, x, n, L, z)
  <2> HIDE DEF k, x
  <2> QED BY <1>2, <1>3, AckMoved
<1>5. PICK z0 \in Position, y \in Position :
         Move(k, x, u, z0) /\ Below(z0.aj, z0.an, y.aj, y.an) /\ AcksOK(y, k, d, c)
  BY NextUnit
<1>6. Acks(k, x, n, L, z0)
  BY <1>4, <1>5
<1> HIDE DEF n, L
<1>7. AckFound(c, d, h, n, L) /\ c.par.acks
  BY <1>5, <1>6, AckFinds
<1>8. c.par.acks = TRUE /\ own /\ other
  BY <1>1, <1>2, <1>7 DEF EndOK
<1>9. TakesAck(c, n, c2)
  <2>1. c.inflight # <<>> /\ n \in Nat /\ c.inflight[1].acked < n /\ n <= c.inflight[1].sent
        /\ c.inflight[1].posted = FALSE
    BY <1>7 DEF AckFound
  <2> QED BY <1>1, <1>8, <2>1, AckTaken DEF n
<1>10. /\ c2 \in ConnSet /\ Alike(c, c2) /\ RecvSide(c2) = RecvSide(c) /\ c2.rcvd = c.rcvd
       /\ c2.wire = c.wire /\ c2.sendbuf = c.sendbuf /\ c2.recvbuf = c.recvbuf /\ c2.stall = c.stall
  BY <1>9 DEF TakesAck
<1>11. SendOK(s2, TRUE, h) /\ AckLeaves(s, s2, h, n, L) /\ s2.todo = s.todo
  <2>1. SendOK(SendSide(c), TRUE, h)
    BY <1>2, <1>8
  <2> QED BY <1>1, <1>2, <1>7, <1>9, <2>1, AckEffect
<1>12. Extends(c.rcvd, c2.rcvd) /\ Out(c2) = Out(c)
  <2>1. Len(c.rcvd) \in Nat
    BY <1>1, SideTypes, IncomingTypes
  <2> QED BY <1>10, <2>1, ExtendsSelf DEF Out
<1>13. ReadsAs(c, c2, h, g, own, other)
  <2>1. SendOK(SendSide(c2), c.par.acks, h) /\ RecvOK(RecvSide(c2), g)
    BY <1>2, <1>8, <1>10, <1>11
  <2>2. EndOK(c2, h, g, own, other)
    BY <1>1, <1>2, <1>10, <2>1, EndRuns
  <2>3. WroteTo(c2, LaneOf(h, g, own, other)) = WroteTo(c, LaneOf(h, g, own, other))
    <3>1. SentJ(s2, h) = SentJ(s, h) /\ SentN(s2) = SentN(s) /\ s2.todo = s.todo
      BY <1>11 DEF AckLeaves
    <3>2. LaneOf(h, g, own, other).h = h
      BY LaneFields
    <3> QED BY <1>10, <3>1, <3>2 DEF WroteTo, SenderAt, Alike
  <2> QED BY <1>10, <1>12, <2>2, <2>3 DEF ReadsAs, Alike
<1>14. ASSUME NEW z \in Position, Move(k, x, u, z)
       PROVE  z = ReadsFrom(c2, k)
  <2>1. Acks(k, x, n, L, z)
    BY <1>4, <1>14
  <2>2. /\ z.up = x.up /\ z.j = x.j /\ z.n = x.n /\ z.t = x.t /\ z.seg = x.seg
        /\ z.aj = (IF n = L THEN x.aj + 1 ELSE x.aj) /\ z.an = (IF n = L THEN 0 ELSE n)
    BY <2>1 DEF Acks
  <2>3. /\ x.up = c.up /\ x.j = Len(c.rcvd) /\ x.n = RecvN(RecvSide(c)) /\ x.t = c.rcvTodo
        /\ x.aj = AckedJ(s, h) /\ x.an = AckedN(s)
    <3>1. other /\ own
      BY <1>8
    <3>2. x.aj = AckedJ(s, h) /\ x.an = AckedN(s)
      BY <1>0, <3>1
    <3>3. x.up = c.up /\ x.j = Len(c.rcvd) /\ x.n = RecvN(RecvSide(c)) /\ x.t = c.rcvTodo
      BY <1>0
    <3> QED BY <3>2, <3>3
  <2>4. /\ n = L => AckedJ(s2, h) = AckedJ(s, h) + 1 /\ AckedN(s2) = 0
        /\ n # L => AckedJ(s2, h) = AckedJ(s, h) /\ AckedN(s2) = n
    BY <1>11 DEF AckLeaves
  <2>5. c2.up = c.up /\ c2.rcvTodo = c.rcvTodo
    <3>1. RecvSide(c2).rcvTodo = RecvSide(c).rcvTodo
      BY <1>10
    <3> QED BY <1>1, <1>10, <3>1, SideTypes DEF Alike
  <2>6. SendOK(SendSide(c2), c.par.acks, h) /\ RecvOK(RecvSide(c2), g)
    BY <1>2, <1>8, <1>10, <1>11
  <2>7. z.aj = AckedJ(s2, h) /\ z.an = AckedN(s2)
    <3> DEFINE aj == AckedJ(s, h)
               aj2 == AckedJ(s2, h)
               an2 == AckedN(s2)
    <3>1. /\ z.aj = (IF n = L THEN aj + 1 ELSE aj) /\ z.an = (IF n = L THEN 0 ELSE n)
          /\ n = L => aj2 = aj + 1 /\ an2 = 0
          /\ n # L => aj2 = aj /\ an2 = n
      BY <2>2, <2>3, <2>4
    <3> HIDE DEF aj, aj2, an2
    <3>2. z.aj = aj2 /\ z.an = an2
      BY <3>1
    <3> QED BY <3>2 DEF aj2, an2
  <2>8. ReadAs(z, c2, h, own, other)
    <3> HIDE DEF x, k, s
    <3> QED BY <1>3, <1>8, <1>10, <2>2, <2>3, <2>5, <2>7 DEF ReadAs
  <2> HIDE DEF x, k, s, s2
  <2> QED BY <1>2, <1>10, <2>6, <2>8, ReadsTo DEF k
<1> HIDE DEF x
<1>15. PairOK(c2, d2, h, g, own, other)
  BY <1>10, <1>13, <1>14, UnitRead DEF x
<1>16. Waiting(c2)
  BY <1>10 DEF Waiting, BufOK, Alike
<1>17. Took(c, c2, d, h)
  BY <1>1, <1>2, <1>7, <1>9, <1>11, TookAck
<1> QED BY <1>15, <1>16, <1>17

\* What handling a unit leaves.
Handled(c, c2, d, d2, h, g, own, other) ==
    PairOK(c2, d2, h, g, own, other) /\ Waiting(c2) /\ Took(c, c2, d, h)

\* A unit in its place.
LEMMA UnitHandled ==
    ASSUME NEW c, NEW d, NEW h, NEW g, NEW own, NEW other, PairOK(c, d, h, g, own, other),
           Waiting(c), NEW u, NEW R, NEW d2, Unread1(d, u, R, d2), NEW c2, c2 = HandleUnit(c, u)
    PROVE  Handled(c, c2, d, d2, h, g, own, other)
<1>1. EndOK(c, h, g, own, other) /\ c \in ConnSet
  BY DEF PairOK, EndOK
<1>2. c.up \in BOOLEAN /\ c.stall \in BOOLEAN
  BY <1>1 DEF ConnSet
<1>3. CASE c.broken # "no"
  <2>1. c2 = c
    BY <1>3 DEF HandleUnit
  <2>2. PairOK(c, d2, h, g, own, other)
    BY <1>3, Unread DEF Unread1
  <2>3. Took(c, c, d, h)
    <3>1. Len(c.rcvd) \in Nat
      BY <1>1, SideTypes, IncomingTypes
    <3>2. Extends(c.rcvd, c.rcvd)
      BY <3>1, ExtendsSelf
    <3> QED BY <1>1, <3>2, TookNothing
  <2> QED BY <2>1, <2>2, <2>3 DEF Handled
<1>4. CASE c.broken = "no" /\ c.stall
  <2>1. Buffered(c, Append(c.recvbuf, u), c2)
    BY <1>4 DEF HandleUnit, Buffered
  <2> QED BY <1>4, <2>1, Stalled DEF Handled
<1>5. CASE c.broken = "no" /\ ~c.stall /\ ~c.up
  <2>1. c2 = handle_contact_initiation(c, u)
    BY <1>5 DEF HandleUnit
  <2> QED BY <1>5, <2>1, HeaderRead DEF Handled
<1>6. CASE c.broken = "no" /\ ~c.stall /\ c.up /\ c.rcvTodo # 0
  <2>1. c2 = handle_data_todo(c, u)
    BY <1>6 DEF HandleUnit
  <2> QED BY <1>6, <2>1, DataRead DEF Handled
<1>7. CASE c.broken = "no" /\ ~c.stall /\ c.up /\ c.rcvTodo = 0
  <2>1. c2 = CASE u.unit = "seg" -> handle_data_segment(c, u)
               [] u.unit = "len" -> handle_segment_length(c, u)
               [] u.unit = "ack" -> handle_ack_segment(c, u)
               [] u.unit = "keepalive" -> c
               [] u.unit = "shutdown" -> break_contact(c, "SHUTDOWN")
               [] OTHER -> break_contact(c, "CL_ERROR")
    BY <1>7 DEF HandleUnit
  <2>2. CASE c.recvbuf # <<>>
    <3>1. u.unit = "len"
      BY <1>7, <2>2, LenRead
    <3>2. c2 = handle_segment_length(c, u)
      BY <2>1, <3>1
    <3> QED BY <1>7, <2>2, <3>2, LenRead DEF Handled
  <2>3. CASE c.recvbuf = <<>>
    <3>1. u.unit \in {"seg", "ack", "keepalive", "shutdown"}
      BY <1>7, <2>3, NextKinds
    <3>2. CASE u.unit = "seg"
      <4>1. c2 = handle_data_segment(c, u)
        BY <2>1, <3>2
      <4> QED BY <1>7, <2>3, <3>2, <4>1, SegRead DEF Handled
    <3>3. CASE u.unit = "ack"
      <4>1. c2 = handle_ack_segment(c, u)
        BY <2>1, <3>3
      <4> QED BY <1>7, <2>3, <3>3, <4>1, AckRead DEF Handled
    <3>4. CASE u.unit = "keepalive"
      <4>1. c2 = c
        BY <2>1, <3>4
      <4> QED BY <1>7, <2>3, <3>4, <4>1, KeepaliveRead DEF Handled
    <3>5. CASE u.unit = "shutdown"
      <4>1. c2 = break_contact(c, "SHUTDOWN")
        BY <2>1, <3>5
      <4> QED BY <1>7, <2>3, <4>1, ShutdownRead DEF Handled
    <3> QED BY <3>1, <3>2, <3>3, <3>4, <3>5
  <2> QED BY <2>2, <2>3
<1> QED BY <1>2, <1>3, <1>4, <1>5, <1>6, <1>7

\* One list begins with another that begins with a third.
LEMMA ExtendsFurther ==
    ASSUME NEW S, NEW p \in Seq(S), NEW q \in Seq(S), NEW r \in Seq(S), Extends(p, q), Extends(q, r)
    PROVE  Extends(p, r)
<1>1. Len(p) \in Nat /\ Len(q) \in Nat /\ Len(r) \in Nat
  OBVIOUS
<1>2. Len(p) <= Len(q) /\ Len(q) <= Len(r)
  BY DEF Extends
<1>3. \A i \in 1 .. Len(p) : i \in 1 .. Len(q)
  BY <1>1, <1>2
<1>4. Len(p) <= Len(r)
  BY <1>1, <1>2
<1> QED BY <1>3, <1>4 DEF Extends

\* Steps of a read add up.
LEMMA TookFurther ==
    ASSUME NEW c \in ConnSet, NEW c1 \in ConnSet, NEW c2 \in ConnSet, NEW d, NEW d1, NEW h,
           Took(c, c1, d, h), Took(c1, c2, d1, h), d1.rcvd = d.rcvd
    PROVE  Took(c, c2, d, h)
<1> DEFINE E == c.events
           E1 == c1.events
           E2 == c2.events
<1>1. /\ E \in Seq(EventSet) /\ E1 \in Seq(EventSet) /\ E2 \in Seq(EventSet)
      /\ c.rcvd \in Seq(Seq(UnitSet)) /\ c1.rcvd \in Seq(Seq(UnitSet)) /\ c2.rcvd \in Seq(Seq(UnitSet))
  BY DEF ConnSet
<1>2. /\ Extends(E, E1) /\ Extends(E1, E2)
      /\ \A i \in DOMAIN E1 : i > Len(E) => ReadEvent(E1[i], c1, d, h)
      /\ \A i \in DOMAIN E2 : i > Len(E1) => ReadEvent(E2[i], c2, d1, h)
      /\ c1.up => c2.up /\ c2.par = c1.par
      /\ c1.broken # "no" => c2.broken # "no"
  BY DEF Took
<1>3. Extends(c.rcvd, c2.rcvd)
  <2>1. Extends(c.rcvd, c1.rcvd) /\ Extends(c1.rcvd, c2.rcvd)
    BY DEF Took
  <2> QED BY <1>1, <2>1, ExtendsFurther
<1>4. /\ c2.closed = c.closed /\ c2.initiated = c.initiated /\ Started(c2, h) = Started(c, h)
      /\ c.up => c2.up /\ c2.par = c.par
  BY DEF Took
<1>5. \A ev : ReadEvent(ev, c1, d, h) => ReadEvent(ev, c2, d, h)
  BY <1>2 DEF ReadEvent
<1>6. \A ev : ReadEvent(ev, c2, d1, h) => ReadEvent(ev, c2, d, h)
  BY DEF ReadEvent
<1> HIDE DEF E, E1, E2
<1>7. Extends(E, E2)
  BY <1>1, <1>2, ExtendsFurther
<1>8. ASSUME NEW i \in DOMAIN E2, i > Len(E)
      PROVE  ReadEvent(E2[i], c2, d, h)
  <2>1. CASE i > Len(E1)
    BY <1>2, <1>6, <1>8, <2>1
  <2>2. CASE ~(i > Len(E1))
    <3>1. i \in 1 .. Len(E1) /\ i \in DOMAIN E1
      BY <1>1, <1>8, <2>2
    <3>2. E2[i] = E1[i]
      BY <1>2, <3>1 DEF Extends
    <3>3. ReadEvent(E1[i], c1, d, h)
      BY <1>2, <1>8, <3>1
    <3> QED BY <1>5, <3>2, <3>3
  <2> QED BY <2>1, <2>2
<1> QED BY <1>3, <1>4, <1>7, <1>8 DEF Took, E, E2

(***************************************************************************)
(* process_data.                                                           *)
(***************************************************************************)

\* What is left when i of the units are done and W comes after them.
Remaining(q, i, W) == SubSeq(q, i + 1, Len(q)) \o W

\* What remains of a read.
LEMMA RemainingFacts ==
    ASSUME NEW q \in Seq(UnitSet), NEW W \in Seq(UnitSet)
    PROVE  /\ Remaining(q, 0, W) = q \o W /\ Remaining(q, Len(q), W) = W
           /\ \A i \in 0 .. Len(q) : Remaining(q, i, W) \in Seq(UnitSet)
           /\ \A i \in 0 .. Len(q) - 1 : /\ q[i + 1] \in UnitSet
                                         /\ Remaining(q, i, W) = <<q[i + 1]>> \o Remaining(q, i + 1, W)
<1> DEFINE n == Len(q)
<1>1. n \in Nat
  OBVIOUS
<1>2. \A i \in 0 .. n : SubSeq(q, i + 1, n) \in Seq(UnitSet)
  BY SplitAt
<1>3. SubSeq(q, 0 + 1, n) = q /\ SubSeq(q, n + 1, n) = <<>>
  OBVIOUS
<1>4. <<>> \o W = W
  OBVIOUS
<1>5. ASSUME NEW i \in 0 .. n - 1
      PROVE  /\ q[i + 1] \in UnitSet
             /\ Remaining(q, i, W) = <<q[i + 1]>> \o Remaining(q, i + 1, W)
  <2>1. i + 1 \in 1 .. n /\ i + 1 \in 0 .. n /\ i \in 0 .. n
    BY <1>1
  <2>2. q[i + 1] \in UnitSet
    BY <2>1
  <2> DEFINE u == q[i + 1]
             t == SubSeq(q, i + 1 + 1, n)
  <2>3. t \in Seq(UnitSet) /\ <<u>> \in Seq(UnitSet)
    BY <1>2, <2>1, <2>2
  <2>4. SubSeq(q, i + 1, n) = <<u>> \o t
    <3>1. Len(SubSeq(q, i + 1, n)) = n - i /\ Len(t) = n - (i + 1)
      BY <2>1, SplitAt
    <3>2. Len(<<u>> \o t) = n - i
      <4>1. Len(<<u>> \o t) = 1 + Len(t)
        BY <2>3
      <4>2. 1 + (n - (i + 1)) = n - i
        BY <1>1
      <4> HIDE DEF t, u, n
      <4> QED BY <3>1, <4>1, <4>2
    <3>3. \A k \in 1 .. n - i : SubSeq(q, i + 1, n)[k] = q[i + k]
      BY <1>1, <2>1
    <3>4. \A k \in 1 .. n - i : (<<u>> \o t)[k] = IF k = 1 THEN u ELSE t[k - 1]
      <4> HIDE DEF t, u, n
      <4> QED BY <1>1, <2>1, <2>3, <3>1
    <3>5. \A k \in 1 .. n - (i + 1) : t[k] = q[i + 1 + k]
      BY <1>1, <2>1
    <3>6. ASSUME NEW k \in 1 .. n - i
          PROVE  SubSeq(q, i + 1, n)[k] = (<<u>> \o t)[k]
      <4>1. CASE k = 1
        BY <3>3, <3>4, <4>1
      <4>2. CASE k # 1
        <5>1. k - 1 \in 1 .. n - (i + 1) /\ i + 1 + (k - 1) = i + k
          BY <1>1, <2>1, <4>2
        <5>2. t[k - 1] = q[i + k]
          BY <3>5, <5>1
        <5> QED BY <3>3, <3>4, <4>2, <5>2
      <4> QED BY <4>1, <4>2
    <3> DEFINE a == SubSeq(q, i + 1, n)
               b == <<u>> \o t
    <3>7. a \in Seq(UnitSet) /\ b \in Seq(UnitSet) /\ Len(a) = n - i /\ Len(b) = n - i
          /\ \A k \in 1 .. n - i : a[k] = b[k]
      <4>1. b \in Seq(UnitSet)
        BY <2>3
      <4> QED BY <1>2, <2>1, <3>1, <3>2, <3>6, <4>1
    <3> HIDE DEF a, b, n
    <3>8. a = b
      BY <3>7
    <3> QED BY <3>8 DEF a, b
  <2> HIDE DEF u, t
  <2>5. (<<u>> \o t) \o W = <<u>> \o (t \o W)
    BY <2>3, Joined
  <2> QED BY <2>2, <2>4, <2>5 DEF Remaining, t, u
<1>6. \A i \in 0 .. n : Remaining(q, i, W) \in Seq(UnitSet)
  BY <1>2, JoinedLen DEF Remaining
<1> QED BY <1>3, <1>4, <1>5, <1>6 DEF Remaining

\* An end's peer with w on the wire.
OnWire(d, w, d2) == d2 = [d EXCEPT !.wire = w]

\* The wire changes, and nothing else.
LEMMA WireChanged ==
    ASSUME NEW d, NEW h, NEW g, NEW own, NEW other, EndOK(d, h, g, own, other),
           NEW W \in Seq(UnitSet), NEW d2, OnWire(d, W, d2)
    PROVE  /\ EndOK(d2, h, g, own, other) /\ SendSide(d2) = SendSide(d) /\ RecvSide(d2) = RecvSide(d)
           /\ d2.broken = d.broken /\ d2.recvbuf = d.recvbuf /\ d2.rcvd = d.rcvd
           /\ d2.wire = W /\ d2.sendbuf = d.sendbuf
           /\ \A k : WroteTo(d2, k) = WroteTo(d, k) /\ ReadsFrom(d2, k) = ReadsFrom(d, k)
BY WireSwap DEF OnWire

\* Whatever is in the buffer could as well still be on the wire.
LEMMA PutBack ==
    ASSUME NEW c, NEW d, NEW h, NEW g, NEW own, NEW other, PairOK(c, d, h, g, own, other),
           c.broken = "no", NEW read \in Seq(UnitSet), NEW W \in Seq(UnitSet), d.wire = read \o W,
           NEW c0, Buffered(c, <<>>, c0), NEW d0, OnWire(d, (c.recvbuf \o read) \o W, d0)
    PROVE  PairOK(c0, d0, h, g, own, other)
<1> DEFINE k == LaneOf(h, g, own, other)
           kb == LaneOf(g, h, other, own)
           w0 == (c.recvbuf \o read) \o W
<1>1. EndOK(c, h, g, own, other) /\ EndOK(d, g, h, other, own) /\ c \in ConnSet /\ d \in ConnSet
  BY DEF PairOK, EndOK
<1>2. c.recvbuf \in Seq(UnitSet) /\ d.sendbuf \in Seq(UnitSet) /\ d.wire \in Seq(UnitSet)
      /\ Out(d) \in Seq(UnitSet)
  BY <1>1, SideTypes
<1>3. w0 \in Seq(UnitSet) /\ w0 = c.recvbuf \o d.wire
  <2> DEFINE B == c.recvbuf
  <2> HIDE DEF B
  <2>1. B \in Seq(UnitSet)
    BY <1>2 DEF B
  <2>2. (B \o read) \o W \in Seq(UnitSet) /\ (B \o read) \o W = B \o (read \o W)
    BY <2>1, Joined, JoinedLen
  <2> QED BY <2>2 DEF B
<1>4. EndOK(c0, h, g, own, other) /\ OnlyBuffer(c, <<>>, c0)
  <2>1. <<>> \in Seq(UnitSet)
    OBVIOUS
  <2> QED BY <1>1, <2>1, BufferSwap
<1> HIDE DEF w0
<1>5. /\ EndOK(d0, g, h, other, own) /\ SendSide(d0) = SendSide(d) /\ RecvSide(d0) = RecvSide(d)
      /\ d0.broken = d.broken /\ d0.recvbuf = d.recvbuf /\ d0.rcvd = d.rcvd
      /\ d0.wire = w0 /\ d0.sendbuf = d.sendbuf
      /\ \A l : WroteTo(d0, l) = WroteTo(d, l) /\ ReadsFrom(d0, l) = ReadsFrom(d, l)
  <2>1. OnWire(d, w0, d0)
    BY DEF w0
  <2>2. EndOK(d, g, h, other, own) /\ w0 \in Seq(UnitSet)
    BY <1>1, <1>3
  <2> QED BY <2>1, <2>2, WireChanged
<1>6. Out(d0) = c.recvbuf \o Out(d) /\ Out(d0) \in Seq(UnitSet)
  <2> DEFINE B == c.recvbuf
             a == d.wire
             b == d.sendbuf
  <2>1. B \in Seq(UnitSet) /\ a \in Seq(UnitSet) /\ b \in Seq(UnitSet)
    BY <1>2
  <2> HIDE DEF a, b, B
  <2>2. (B \o a) \o b = B \o (a \o b) /\ (B \o a) \o b \in Seq(UnitSet)
    BY <2>1, Joined, JoinedLen, SMTT(30)
  <2> QED BY <1>3, <1>5, <2>2 DEF Out, a, b, B
<1>7. c0.recvbuf \o Out(d0) = c.recvbuf \o Out(d)
  <2> DEFINE o == Out(d0)
  <2>1. o \in Seq(UnitSet) /\ o = c.recvbuf \o Out(d)
    BY <1>6
  <2> HIDE DEF o
  <2>2. <<>> \o o = o
    BY <2>1
  <2> QED BY <1>4, <2>1, <2>2 DEF OnlyBuffer, o
<1>8. LaneOK(kb, d0, c0)
  <2>1. LaneOK(kb, d, c)
    BY DEF PairOK
  <2>2. c0.broken = c.broken /\ SendSide(c0) = SendSide(c) /\ ReadsFrom(c0, kb) = ReadsFrom(c, kb)
    BY <1>4 DEF OnlyBuffer, Alike
  <2>3. \A y : AcksOK(y, kb, d, c) => AcksOK(y, kb, d0, c0)
    BY <1>5, <2>2 DEF AcksOK
  <2> HIDE DEF kb
  <2> QED BY <1>5, <1>7, <2>1, <2>2, <2>3 DEF LaneOK
<1>9. LaneOK(k, c0, d0)
  <2>1. LaneOK(k, c, d)
    BY DEF PairOK
  <2>2. c0.broken = c.broken /\ Out(c0) = Out(c) /\ WroteTo(c0, k) = WroteTo(c, k) /\ c0.rcvd = c.rcvd
    BY <1>4 DEF OnlyBuffer, Alike
  <2>3. \A y : AcksOK(y, k, c, d) => AcksOK(y, k, c0, d0)
    BY <1>5, <2>2 DEF AcksOK
  <2> HIDE DEF k
  <2> QED BY <1>5, <2>1, <2>2, <2>3 DEF LaneOK
<1> QED BY <1>4, <1>5, <1>8, <1>9 DEF PairOK

\* The stall is over.
Resumes(c, c2) == c2 = [c EXCEPT !.stall = FALSE]

\* Data that had to wait for room is handled again.
LEMMA StallOver ==
    ASSUME NEW c, NEW d, NEW h, NEW g, NEW own, NEW other, PairOK(c, d, h, g, own, other),
           NEW c2, Resumes(c, c2)
    PROVE  /\ PairOK(c2, d, h, g, own, other) /\ Took(c, c2, d, h) /\ c2.stall = FALSE
           /\ BufOK(c) => BufOK(c2)
<1> DEFINE k == LaneOf(h, g, own, other)
           kb == LaneOf(g, h, other, own)
<1>1. EndOK(c, h, g, own, other) /\ c \in ConnSet
  BY DEF PairOK, EndOK
<1>2. /\ c2 \in ConnSet /\ c2.wire = c.wire /\ c2.sendbuf = c.sendbuf /\ c2.recvbuf = c.recvbuf
      /\ c2.rcvd = c.rcvd /\ c2.broken = c.broken /\ c2.initiated = c.initiated /\ c2.up = c.up
      /\ c2.ok = c.ok /\ c2.par = c.par /\ c2.contact = c.contact /\ c2.closed = c.closed
      /\ c2.inflight = c.inflight /\ c2.current = c.current /\ c2.todo = c.todo
      /\ c2.incoming = c.incoming /\ c2.rcvTodo = c.rcvTodo /\ c2.events = c.events
      /\ c2.stall = FALSE
  BY <1>1 DEF ConnSet, Resumes
<1>3. SendSide(c2) = SendSide(c) /\ RecvSide(c2) = RecvSide(c) /\ Out(c2) = Out(c)
  BY <1>2 DEF SendSide, RecvSide, Out
<1>4. \A l : WroteTo(c2, l) = WroteTo(c, l) /\ ReadsFrom(c2, l) = ReadsFrom(c, l)
  BY <1>2, <1>3 DEF WroteTo, ReadsFrom
<1>5. EndOK(c2, h, g, own, other)
  BY <1>1, <1>2, <1>3 DEF EndOK
<1>6. LaneOK(k, c2, d)
  <2>1. LaneOK(k, c, d)
    BY DEF PairOK
  <2>2. \A y : AcksOK(y, k, c, d) => AcksOK(y, k, c2, d)
    BY <1>2 DEF AcksOK
  <2> HIDE DEF k
  <2> QED BY <1>2, <1>3, <1>4, <2>1, <2>2 DEF LaneOK
<1>7. LaneOK(kb, d, c2)
  <2>1. LaneOK(kb, d, c)
    BY DEF PairOK
  <2>2. \A y : AcksOK(y, kb, d, c) => AcksOK(y, kb, d, c2)
    BY <1>3 DEF AcksOK
  <2> HIDE DEF kb
  <2> QED BY <1>2, <1>3, <1>4, <2>1, <2>2 DEF LaneOK
<1>8. Took(c, c2, d, h)
  <2>1. Len(c.rcvd) \in Nat
    BY <1>1, SideTypes, IncomingTypes
  <2>2. Extends(c.rcvd, c2.rcvd)
    BY <1>2, <2>1, ExtendsSelf
  <2> QED BY <1>1, <1>2, <1>3, <2>2, TookNothing
<1> QED BY <1>2, <1>5, <1>6, <1>7, <1>8 DEF PairOK, BufOK

\* One unit after the others.
TakesOne(d, q, W, i, d1, d2, x, x2) ==
    /\ i \in 0 .. Len(q) - 1
    /\ OnWire(d, Remaining(q, i, W), d1) /\ OnWire(d, Remaining(q, i + 1, W), d2)
    /\ x2 = HandleUnit(x, q[i + 1])

\* One more unit of a read is handled.
LEMMA OneMoreHandled ==
    ASSUME NEW d \in ConnSet, NEW q \in Seq(UnitSet), NEW W \in Seq(UnitSet), NEW i,
           NEW d1, NEW d2, NEW c0 \in ConnSet, NEW x, NEW h, NEW g, NEW own, NEW other,
           Handled(c0, x, d, d1, h, g, own, other), NEW x2, TakesOne(d, q, W, i, d1, d2, x, x2)
    PROVE  Handled(c0, x2, d, d2, h, g, own, other)
<1> DEFINE u == q[i + 1]
           R == Remaining(q, i + 1, W)
           Q == Remaining(q, i, W)
<1>1. u \in UnitSet /\ R \in Seq(UnitSet) /\ Q = <<u>> \o R
  <2>1. i \in 0 .. Len(q) - 1 /\ i + 1 \in 0 .. Len(q)
    BY DEF TakesOne
  <2> QED BY <2>1, RemainingFacts
<1>2. OnWire(d, Q, d1) /\ OnWire(d, R, d2) /\ x2 = HandleUnit(x, u)
  BY DEF TakesOne
<1> HIDE DEF u, R, Q
<1>3. d1.wire = Q /\ d1.rcvd = d.rcvd
  BY <1>2 DEF OnWire, ConnSet
<1>4. d2 = [d1 EXCEPT !.wire = R]
  BY <1>2 DEF OnWire, ConnSet
<1>5. Unread1(d1, u, R, d2)
  BY <1>1, <1>3, <1>4 DEF Unread1
<1>6. PairOK(x, d1, h, g, own, other) /\ Waiting(x) /\ Took(c0, x, d, h)
  BY DEF Handled
<1>7. Handled(x, x2, d1, d2, h, g, own, other)
  BY <1>2, <1>5, <1>6, UnitHandled
<1>8. PairOK(x2, d2, h, g, own, other) /\ Waiting(x2) /\ Took(x, x2, d1, h)
  BY <1>7 DEF Handled
<1>9. x \in ConnSet /\ x2 \in ConnSet
  BY <1>6, <1>8 DEF PairOK, EndOK
<1>10. Took(c0, x2, d, h)
  BY <1>3, <1>6, <1>8, <1>9, TookFurther
<1> QED BY <1>8, <1>10 DEF Handled

\* All of them.
LEMMA AllHandled ==
    ASSUME NEW d \in ConnSet, NEW q \in Seq(UnitSet), NEW W \in Seq(UnitSet),
           NEW d0, OnWire(d, q \o W, d0), NEW d2, OnWire(d, W, d2),
           NEW c0, NEW h, NEW g, NEW own, NEW other, PairOK(c0, d0, h, g, own, other), Waiting(c0),
           NEW after, after = CHOOSE f : f = [n \in 0 .. Len(q) |-> IF n = 0 THEN c0
                                                                    ELSE HandleUnit(f[n - 1], q[n])]
    PROVE  Handled(c0, after[Len(q)], d, d2, h, g, own, other)
<1> DEFINE n == Len(q)
           X == ConnSet
           K(x, i) == HandleUnit(x, q[i])
           F == [i \in 1 .. n |-> [x \in X |-> IF K(x, i) \in X THEN K(x, i) ELSE x]]
           D(i) == [d EXCEPT !.wire = Remaining(q, i, W)]
           Good(i, x) == Handled(c0, x, d, D(i), h, g, own, other)
<1>1. n \in Nat
  OBVIOUS
<1>2. c0 \in ConnSet
  BY DEF PairOK, EndOK
<1>3. F \in [1 .. n -> [X -> X]]
  <2> HIDE DEF K, X, n
  <2> QED OBVIOUS
<1>4. PICK G \in [0 .. n -> X] : LoopFrom(c0, F, n, G)
  <2> HIDE DEF F, n
  <2> QED BY <1>1, <1>2, <1>3, LoopRuns
<1>5. Good(0, c0)
  <2>1. D(0) = d0
    BY RemainingFacts DEF OnWire
  <2>2. Took(c0, c0, d, h)
    <3>1. Len(c0.rcvd) \in Nat
      BY <1>2, SideTypes, IncomingTypes
    <3>2. Extends(c0.rcvd, c0.rcvd)
      BY <3>1, ExtendsSelf
    <3> QED BY <1>2, <3>2, TookNothing
  <2> HIDE DEF D
  <2> QED BY <2>1, <2>2 DEF Handled
<1>6. ASSUME NEW i \in 0 .. n - 1, NEW x, Good(i, x)
      PROVE  Good(i + 1, K(x, i + 1)) /\ K(x, i + 1) \in X
  <2>1. OnWire(d, Remaining(q, i, W), D(i)) /\ OnWire(d, Remaining(q, i + 1, W), D(i + 1))
    BY DEF OnWire
  <2>2. Good(i + 1, K(x, i + 1))
    <3> DEFINE d1 == D(i)
               d3 == D(i + 1)
               x2 == K(x, i + 1)
    <3>1. Handled(c0, x, d, d1, h, g, own, other) /\ TakesOne(d, q, W, i, d1, d3, x, x2)
      BY <1>6, <2>1 DEF TakesOne
    <3> HIDE DEF d1, d3, x2
    <3>2. Handled(c0, x2, d, d3, h, g, own, other)
      BY <1>2, <3>1, OneMoreHandled
    <3> QED BY <3>2 DEF d3, x2
  <2> HIDE DEF D, K
  <2>3. PairOK(K(x, i + 1), D(i + 1), h, g, own, other)
    BY <2>2 DEF Handled
  <2> QED BY <2>2, <2>3 DEF PairOK, EndOK
<1> HIDE DEF Good
<1>7. \A i \in 0 .. n : Good(i, G[i])
  <2> DEFINE S == {i \in 0 .. n : Good(i, G[i])}
  <2>1. 0 \in S
    BY <1>1, <1>4, <1>5 DEF LoopFrom
  <2>2. ASSUME NEW i \in 0 .. n - 1, i \in S
        PROVE  i + 1 \in S
    <3>1. i + 1 \in 1 .. n /\ i + 1 \in 0 .. n /\ (i + 1) - 1 = i /\ i \in 0 .. n
      BY <1>1
    <3>2. G[i + 1] = F[i + 1][G[i]] /\ G[i] \in X
      BY <1>4, <3>1 DEF LoopFrom
    <3>3. Good(i + 1, K(G[i], i + 1)) /\ K(G[i], i + 1) \in X
      BY <1>6, <2>2
    <3> HIDE DEF K, X
    <3>4. F[i + 1][G[i]] = K(G[i], i + 1)
      BY <3>1, <3>2, <3>3
    <3> QED BY <3>1, <3>2, <3>3, <3>4
  <2> HIDE DEF S
  <2>3. \A i \in 0 .. n : i \in S
    BY <1>1, <2>1, <2>2, UpTo
  <2> QED BY <2>3 DEF S
<1>8. G[0] = c0 /\ \A i \in 0 .. n : i # 0 => G[i] = HandleUnit(G[i - 1], q[i])
  <2>1. G[0] = c0
    BY <1>4 DEF LoopFrom
  <2>2. ASSUME NEW i \in 0 .. n, i # 0
        PROVE  G[i] = HandleUnit(G[i - 1], q[i])
    <3>1. i \in 1 .. n /\ i - 1 \in 0 .. n - 1 /\ (i - 1) + 1 = i /\ i - 1 \in 0 .. n
      BY <1>1, <2>2
    <3>2. G[i] = F[i][G[i - 1]] /\ G[i - 1] \in X
      BY <1>4, <3>1 DEF LoopFrom
    <3>3. K(G[i - 1], i) \in X
      <4>1. Good(i - 1, G[i - 1])
        BY <1>7, <3>1
      <4>2. K(G[i - 1], (i - 1) + 1) \in X
        BY <1>6, <3>1, <4>1
      <4> QED BY <3>1, <4>2
    <3>4. F[i][G[i - 1]] = K(G[i - 1], i)
      <4> HIDE DEF K, X
      <4> QED BY <3>1, <3>2, <3>3
    <3> QED BY <3>2, <3>4
  <2> QED BY <2>1, <2>2
<1>9. G = [i \in 0 .. n |-> IF i = 0 THEN c0 ELSE HandleUnit(G[i - 1], q[i])]
  <2> HIDE DEF n, X
  <2> QED BY <1>8
<1>10. after = [i \in 0 .. n |-> IF i = 0 THEN c0 ELSE HandleUnit(after[i - 1], q[i])]
  BY <1>9, Zenon
<1>11. \A i \in 0 .. n : after[i] = G[i]
  <2> DEFINE S == {i \in 0 .. n : after[i] = G[i]}
  <2> HIDE DEF n
  <2>0. after[0] = c0 /\ \A i \in 0 .. n : i # 0 => after[i] = HandleUnit(after[i - 1], q[i])
    <3>1. 0 \in 0 .. n
      BY <1>1
    <3> QED BY <1>10, <3>1
  <2>1. 0 \in S
    BY <1>1, <1>8, <2>0
  <2>2. ASSUME NEW i \in 0 .. n - 1, i \in S
        PROVE  i + 1 \in S
    <3>1. i + 1 \in 0 .. n /\ (i + 1) - 1 = i /\ i + 1 # 0
      BY <1>1
    <3> QED BY <1>8, <2>0, <2>2, <3>1, SMTT(30)
  <2> HIDE DEF S
  <2>3. \A i \in 0 .. n : i \in S
    BY <1>1, <2>1, <2>2, UpTo
  <2> QED BY <2>3 DEF S
<1>12. Good(n, after[n])
  <2>1. n \in 0 .. n
    BY <1>1
  <2> QED BY <1>7, <1>11, <2>1
<1>13. D(n) = d2
  BY RemainingFacts DEF OnWire
<1> HIDE DEF D
<1> QED BY <1>12, <1>13 DEF Good

\* process_data of what was read.
LEMMA DataProcessed ==
    ASSUME NEW c, NEW d, NEW h, NEW g, NEW own, NEW other, PairOK(c, d, h, g, own, other),
           c.broken = "no", c.initiated, BufOK(c), NEW read \in Seq(UnitSet), NEW W \in Seq(UnitSet),
           d.wire = read \o W, NEW d2, OnWire(d, W, d2), NEW c2, c2 = process_data(c, read)
    PROVE  PairOK(c2, d2, h, g, own, other) /\ BufOK(c2) /\ Took(c, c2, d, h) /\ c2.stall = FALSE
<1> DEFINE units == c.recvbuf \o read
           c0 == [c EXCEPT !.recvbuf = <<>>]
           d0 == [d EXCEPT !.wire = units \o W]
           after == CHOOSE f : f = [n \in 0 .. Len(units) |-> IF n = 0 THEN c0
                                                              ELSE HandleUnit(f[n - 1], units[n])]
           x == after[Len(units)]
<1>1. EndOK(c, h, g, own, other) /\ c \in ConnSet /\ d \in ConnSet
  BY DEF PairOK, EndOK
<1>2. c2 = [x EXCEPT !.stall = FALSE]
  BY DEF process_data
<1>3. Buffered(c, <<>>, c0) /\ OnWire(d, units \o W, d0)
  BY DEF Buffered, OnWire
<1>4. units \in Seq(UnitSet)
  <2>1. c.recvbuf \in Seq(UnitSet)
    BY <1>1, SideTypes
  <2> QED BY <2>1, JoinedLen
<1>5. after = CHOOSE f : f = [n \in 0 .. Len(units) |-> IF n = 0 THEN c0
                                                        ELSE HandleUnit(f[n - 1], units[n])]
  OBVIOUS
<1> HIDE DEF c0, d0, after
<1>6. PairOK(c0, d0, h, g, own, other)
  BY <1>3, PutBack
<1>7. OnlyBuffer(c, <<>>, c0)
  <2>1. <<>> \in Seq(UnitSet)
    OBVIOUS
  <2> QED BY <1>1, <1>3, <2>1, BufferSwap
<1>8. Waiting(c0) /\ Took(c, c0, d, h)
  <2>1. /\ c0 \in ConnSet /\ c0.initiated /\ BufOK(c0) /\ c0.recvbuf = <<>> /\ c0.rcvd = c.rcvd
        /\ c0.closed = c.closed /\ c0.initiated = c.initiated /\ SendSide(c0) = SendSide(c)
        /\ (c.up => c0.up /\ c0.par = c.par) /\ c0.events = c.events
    BY <1>7 DEF OnlyBuffer, Alike, BufOK
  <2>2. Len(c.rcvd) \in Nat
    BY <1>1, SideTypes, IncomingTypes
  <2>3. Extends(c.rcvd, c0.rcvd)
    BY <2>1, <2>2, ExtendsSelf
  <2>4. Waiting(c0)
    BY <2>1 DEF Waiting
  <2> QED BY <1>1, <2>1, <2>3, <2>4, TookNothing
<1> HIDE DEF units
<1>9. Handled(c0, x, d, d2, h, g, own, other)
  BY <1>1, <1>3, <1>4, <1>5, <1>6, <1>8, AllHandled
<1> HIDE DEF x
<1>10. PairOK(x, d2, h, g, own, other) /\ BufOK(x) /\ Took(c0, x, d, h)
  BY <1>9 DEF Handled, Waiting
<1>11. PairOK(c2, d2, h, g, own, other) /\ BufOK(c2) /\ c2.stall = FALSE /\ Took(x, c2, d2, h)
  BY <1>2, <1>10, StallOver DEF Resumes
<1>12. c0 \in ConnSet /\ x \in ConnSet /\ c2 \in ConnSet /\ d2.rcvd = d.rcvd
  <2>1. d2.rcvd = d.rcvd
    BY <1>1 DEF OnWire, ConnSet
  <2> QED BY <1>6, <1>10, <1>11, <2>1 DEF PairOK, EndOK
<1>13. Took(c, x, d, h)
  BY <1>1, <1>8, <1>10, <1>12, TookFurther
<1>14. Took(c, c2, d, h)
  BY <1>1, <1>11, <1>12, <1>13, TookFurther
<1> QED BY <1>11, <1>14

(***************************************************************************)
(* The link of an end, as its daemon sees it.                              *)
(***************************************************************************)
LinkSet == [queue : Seq(Bundles), flight : SUBSET Bundles,
            done : SUBSET [b : Bundles, n : Nat], cancelled : SUBSET Bundles]

\* The bundles of the events of a kind.
Named(E, kind) == {E[i].b : i \in {j \in DOMAIN E : E[j].event = kind}}

DoneOf(l) == {x.b : x \in l.done}

\* Where the bundles O of an end are: it started those of S and began those of
\* H; Q are queued, F in flight and D done with on the link; events about T
\* being transmitted and W being cancelled wait for the daemon, which knows
\* that those of K are cancelled. Those of W and K stay in flight on the link.
ListsOK(S, H, Q, F, D, T, W, K, O) ==
    /\ S \subseteq O /\ Q \subseteq O /\ F \subseteq O /\ D \subseteq H /\ T \subseteq H /\ H \subseteq S
    /\ S \subseteq F \cup Q \cup D /\ O \subseteq S \cup Q \cup W \cup K
    /\ F \subseteq S \cup W \cup K /\ W \subseteq F /\ K \subseteq F
    /\ W \cap S = {} /\ K \cap S = {} /\ W \cap K = {}
    /\ D \cap Q = {} /\ D \cap F = {} /\ Q \cap F = {}

LinkListsOK(c, l, h, out) ==
    ListsOK(ToSet(Started(c, h)), ToSet(h), ToSet(l.queue), l.flight, DoneOf(l),
            Named(c.events, "transmitted"), Named(c.events, "cancelled"),
            l.cancelled, ToSet(out))

\* A bundle is cancelled once and done once; it is only reported when the
\* contact has come up, and only a connection that was given up asks to close.
OncePerBundle(c, l) ==
    /\ \A i, j \in DOMAIN c.events :
           /\ c.events[i].event = "cancelled" /\ c.events[j].event = "cancelled"
           /\ c.events[i].b = c.events[j].b
           => i = j
    /\ \A x, y \in l.done : x.b = y.b => x = y
    /\ ~c.up => l.done = {} /\ \A i \in DOMAIN c.events : c.events[i].event # "transmitted"
    /\ c.broken = "no" => \A i \in DOMAIN c.events : c.events[i].event # "close"

\* What is reported as acknowledged to its end is with the peer's daemon.
ConfirmedOK(c, l, rcvd) ==
    c.par.acks =>
        /\ \A i \in DOMAIN c.events :
               c.events[i].event = "transmitted" /\ c.events[i].acked = Length[c.events[i].b] =>
                   Whole[c.events[i].b] \in ToSet(rcvd)
        /\ c.par.reliable => \A x \in l.done : x.n = Length[x.b] => Whole[x.b] \in ToSet(rcvd)

LinkOK(c, d, l, h, out) ==
    /\ l \in LinkSet
    /\ Started(c, h) \in Seq(Bundles) /\ IsInjective(Started(c, h))
    /\ c.closed => ~c.current
    /\ ~c.closed => IsInjective(l.queue) /\ ToSet(l.queue) \cap ToSet(Started(c, h)) = {}
    /\ LinkListsOK(c, l, h, out) /\ OncePerBundle(c, l) /\ ConfirmedOK(c, l, d.rcvd)

(***************************************************************************)
(* Steps that leave the link's lists alone.                                *)
(***************************************************************************)
\* An event that may be posted at any time: a request to close, or that a
\* bundle of h was transmitted.
NewEvent(ev, c2, rcvd, h) ==
    \/ ev = CloseRequest /\ c2.broken # "no"
    \/ \E b \in ToSet(h), m, n \in Nat :
           /\ ev = Transmitted(b, m, n) /\ c2.up
           /\ c2.par.acks /\ n = Length[b] => Whole[b] \in ToSet(rcvd)

\* What a step of a connection means for the link: the contact may have come up
\* and events may have been posted ...
Posts(c, c2, h2, rcvd) ==
    /\ c \in ConnSet /\ c2 \in ConnSet /\ h2 \in Seq(Bundles)
    /\ c.up => c2.up /\ c2.par = c.par
    /\ c.broken # "no" => c2.broken # "no"
    /\ Extends(c.events, c2.events)
    /\ \A i \in DOMAIN c2.events : i > Len(c.events) => NewEvent(c2.events[i], c2, rcvd, h2)

\* ... and no other bundle was started.
Continues(c, c2, h, h2, rcvd) ==
    /\ Posts(c, c2, h2, rcvd) /\ h \in Seq(Bundles)
    /\ Extends(h, h2) /\ ToSet(h2) \subseteq ToSet(Started(c, h))
    /\ Started(c2, h2) = Started(c, h)
    /\ c.closed => c2.closed
    /\ c2.closed => ~c2.current

\* What a list begins with is in it.
LEMMA ExtendsSet ==
    ASSUME NEW S, NEW q \in Seq(S), NEW q2 \in Seq(S), Extends(q, q2)
    PROVE  ToSet(q) \subseteq ToSet(q2)
  BY DEF Extends, ToSet

\* The events are the old ones, and new ones about bundles that were begun.
LEMMA EventsContinue ==
    ASSUME NEW c, NEW c2, NEW h2, NEW rcvd, Posts(c, c2, h2, rcvd),
           NEW i \in DOMAIN c2.events
    PROVE  \/ i \in DOMAIN c.events /\ c2.events[i] = c.events[i]
           \/ i \notin DOMAIN c.events /\ NewEvent(c2.events[i], c2, rcvd, h2)
  <1>1. c.events \in Seq(EventSet) /\ c2.events \in Seq(EventSet)
    BY DEF Posts, ConnSet
  <1>2. Extends(c.events, c2.events)
        /\ (i > Len(c.events) => NewEvent(c2.events[i], c2, rcvd, h2))
    BY DEF Posts
  <1> QED
    BY <1>1, <1>2 DEF Extends

\* What a new event says.
LEMMA NewEventKind ==
    ASSUME NEW ev, NEW c, NEW rcvd, NEW h, NewEvent(ev, c, rcvd, h)
    PROVE  /\ ev.event # "cancelled" /\ (ev.event = "close" => c.broken # "no")
           /\ ev.event = "transmitted" =>
                  /\ ev.b \in ToSet(h) /\ c.up
                  /\ c.par.acks /\ ev.acked = Length[ev.b] => Whole[ev.b] \in ToSet(rcvd)
  BY DEF NewEvent, CloseRequest, Transmitted

\* The bundles that the events name.
LEMMA NamesContinue ==
    ASSUME NEW c, NEW c2, NEW h2, NEW rcvd, Posts(c, c2, h2, rcvd)
    PROVE  /\ Named(c2.events, "cancelled") = Named(c.events, "cancelled")
           /\ Named(c2.events, "transmitted") \subseteq Named(c.events, "transmitted") \cup ToSet(h2)
  <1>1. c.events \in Seq(EventSet) /\ c2.events \in Seq(EventSet)
    BY DEF Posts, ConnSet
  <1>2. Extends(c.events, c2.events)
    BY DEF Posts
  <1>3. \A i \in DOMAIN c.events : i \in DOMAIN c2.events /\ c2.events[i] = c.events[i]
    BY <1>1, <1>2 DEF Extends
  <1>4. \A i \in DOMAIN c2.events :
            \/ i \in DOMAIN c.events /\ c2.events[i] = c.events[i]
            \/ /\ i \notin DOMAIN c.events /\ c2.events[i].event # "cancelled"
               /\ c2.events[i].event = "transmitted" => c2.events[i].b \in ToSet(h2)
    BY EventsContinue, NewEventKind
  <1> QED
    BY <1>3, <1>4, Zenon DEF Named

\* More bundles were begun.
LEMMA ListsContinue ==
    ASSUME NEW S, NEW H, NEW Q, NEW F, NEW D, NEW T, NEW W, NEW K, NEW O,
           ListsOK(S, H, Q, F, D, T, W, K, O), NEW H2, NEW T2, H \subseteq H2, H2 \subseteq S,
           T2 \subseteq T \cup H2
    PROVE  ListsOK(S, H2, Q, F, D, T2, W, K, O)
  BY Zenon DEF ListsOK

\* The peer's daemon keeps what it was given.
LEMMA ExtendsKeeps ==
    ASSUME NEW r \in Seq(Seq(UnitSet)), NEW r2 \in Seq(Seq(UnitSet)), Extends(r, r2)
    PROVE  ToSet(r) \subseteq ToSet(r2)
  BY ExtendsSet, Zenon

\* A bundle is still reported once.
LEMMA OnceContinues ==
    ASSUME NEW c, NEW c2, NEW l, NEW h2, NEW rcvd, Posts(c, c2, h2, rcvd),
           OncePerBundle(c, l)
    PROVE  OncePerBundle(c2, l)
  <1>4. \A i \in DOMAIN c2.events :
            \/ i \in DOMAIN c.events /\ c2.events[i] = c.events[i]
            \/ /\ c2.events[i].event # "cancelled"
               /\ c2.events[i].event = "transmitted" => c2.up
               /\ c2.events[i].event = "close" => c2.broken # "no"
    BY EventsContinue, NewEventKind
  <1>5. (c.up => c2.up) /\ (c.broken # "no" => c2.broken # "no")
    BY DEF Posts
  <1> QED
    BY <1>4, <1>5, Zenon DEF OncePerBundle

\* What is reported as acknowledged is still with the peer's daemon.
LEMMA ConfirmedContinues ==
    ASSUME NEW c, NEW c2, NEW l, NEW h2, NEW rcvd, NEW r2, Posts(c, c2, h2, rcvd),
           OncePerBundle(c, l), ConfirmedOK(c, l, rcvd), ToSet(rcvd) \subseteq ToSet(r2)
    PROVE  ConfirmedOK(c2, l, r2)
  <1>4. \A i \in DOMAIN c2.events :
            \/ i \in DOMAIN c.events /\ c2.events[i] = c.events[i]
            \/ c2.events[i].event = "transmitted" =>
                  (c2.par.acks /\ c2.events[i].acked = Length[c2.events[i].b] =>
                       Whole[c2.events[i].b] \in ToSet(rcvd))
    BY EventsContinue, NewEventKind
  <1>5. c.up => c2.up /\ c2.par = c.par
    BY DEF Posts
  <1>6. CASE c.up
    BY <1>4, <1>5, <1>6, Zenon DEF ConfirmedOK
  <1>7. CASE ~c.up
    <2>1. l.done = {} /\ \A i \in DOMAIN c.events : c.events[i].event # "transmitted"
      BY <1>7, Zenon DEF OncePerBundle
    <2> QED
      BY <1>4, <2>1, Zenon DEF ConfirmedOK
  <1> QED
    BY <1>6, <1>7

\* A step that leaves the link's lists alone keeps the link.
LEMMA LinkKept ==
    ASSUME NEW c, NEW c2, NEW d, NEW d2, NEW l, NEW h, NEW h2, NEW out, LinkOK(c, d, l, h, out),
           Continues(c, c2, h, h2, d.rcvd), ToSet(d.rcvd) \subseteq ToSet(d2.rcvd)
    PROVE  LinkOK(c2, d2, l, h2, out)
  <1>1. /\ h \in Seq(Bundles) /\ h2 \in Seq(Bundles) /\ Extends(h, h2)
        /\ ToSet(h2) \subseteq ToSet(Started(c, h)) /\ Started(c2, h2) = Started(c, h)
        /\ c.closed => c2.closed
        /\ c2.closed => ~c2.current
        /\ Posts(c, c2, h2, d.rcvd)
    BY DEF Continues, Posts
  <1>2. ToSet(h) \subseteq ToSet(h2)
    BY <1>1, ExtendsSet
  <1>3. LinkListsOK(c2, l, h2, out)
    <2>1. LinkListsOK(c, l, h, out)
      BY DEF LinkOK
    <2>2. Named(c2.events, "transmitted") \subseteq Named(c.events, "transmitted") \cup ToSet(h2)
      BY <1>1, NamesContinue
    <2>3. ListsOK(ToSet(Started(c, h)), ToSet(h2), ToSet(l.queue), l.flight, DoneOf(l),
            Named(c2.events, "transmitted"), Named(c.events, "cancelled"),
            l.cancelled, ToSet(out))
      BY <1>1, <1>2, <2>1, <2>2, ListsContinue DEF LinkListsOK
    <2> QED
      BY <1>1, <2>3, NamesContinue DEF LinkListsOK
  <1>4. OncePerBundle(c2, l)
    BY <1>1, OnceContinues DEF LinkOK
  <1>5. ConfirmedOK(c2, l, d2.rcvd)
    BY <1>1, ConfirmedContinues DEF LinkOK
  <1> QED
    BY <1>1, <1>3, <1>4, <1>5, Zenon DEF LinkOK

\* What was begun was started.
LEMMA StartedHas ==
    ASSUME NEW c, NEW h \in Seq(Bundles)
    PROVE  ToSet(h) \subseteq ToSet(Started(c, h))
  <1>1. CASE Unbegun(SendSide(c))
    <2>1. PICK x : Started(c, h) = Append(h, x)
      BY <1>1, Zenon DEF Started, BundlesBegun
    <2>2. h \in Seq(Bundles \cup {x})
      OBVIOUS
    <2> QED
      BY <2>1, <2>2 DEF ToSet
  <1>2. CASE ~Unbegun(SendSide(c))
    BY <1>2 DEF Started, BundlesBegun
  <1> QED
    BY <1>1, <1>2

\* The next bundle moves from the link's queue to those in flight.
StartsOn(l, l2, b) ==
    /\ l.queue # <<>> /\ b = Head(l.queue)
    /\ l2 = [l EXCEPT !.queue = Tail(@), !.flight = @ \cup {b}]

\* A bundle is started.
LEMMA ListsStart ==
    ASSUME NEW S, NEW H, NEW Q, NEW F, NEW D, NEW T, NEW W, NEW K, NEW O,
           ListsOK(S, H, Q, F, D, T, W, K, O), NEW b \in Q, NEW H2, NEW T2,
           H \subseteq H2, H2 \subseteq S \cup {b}, T2 \subseteq T \cup H2
    PROVE  ListsOK(S \cup {b}, H2, Q \ {b}, F \cup {b}, D, T2, W, K, O)
  BY Zenon DEF ListsOK

\* A queue without its first bundle.
LEMMA QueuePopped ==
    ASSUME NEW q \in Seq(Bundles), q # <<>>, IsInjective(q), NEW b, b = Head(q)
    PROVE  /\ Tail(q) \in Seq(Bundles) /\ IsInjective(Tail(q)) /\ b \in ToSet(q) /\ b \in Bundles
           /\ ToSet(Tail(q)) = ToSet(q) \ {b}
  <1> DEFINE t == Tail(q)
  <1>1. /\ t \in Seq(Bundles) /\ DOMAIN q = 1 .. Len(q) /\ DOMAIN t = 1 .. Len(q) - 1 /\ Len(q) \in Nat
        /\ b = q[1] /\ b \in Bundles /\ 1 \in DOMAIN q
        /\ \A i \in DOMAIN t : i + 1 \in DOMAIN q /\ t[i] = q[i + 1]
        /\ \A i \in DOMAIN q : i # 1 => i - 1 \in DOMAIN t /\ t[i - 1] = q[i]
    BY TailOf
  <1> HIDE DEF t
  <1>2. \A i, j \in DOMAIN q : q[i] = q[j] => i = j
    BY DEF IsInjective
  <1>3. IsInjective(t)
    BY <1>1, <1>2 DEF IsInjective
  <1>4. ToSet(t) \subseteq ToSet(q) \ {b}
    <2> SUFFICES ASSUME NEW i \in DOMAIN t
                 PROVE  t[i] \in ToSet(q) \ {b}
      BY DEF ToSet
    <2>1. i + 1 \in DOMAIN q /\ t[i] = q[i + 1] /\ i + 1 # 1
      BY <1>1
    <2> QED
      BY <1>1, <1>2, <2>1 DEF ToSet
  <1>5. ToSet(q) \ {b} \subseteq ToSet(t)
    BY <1>1 DEF ToSet
  <1>6. b \in ToSet(q)
    BY <1>1 DEF ToSet
  <1> QED
    BY <1>1, <1>3, <1>4, <1>5, <1>6 DEF t

\* A list and another bundle.
LEMMA OneAppended ==
    ASSUME NEW q \in Seq(Bundles), NEW b \in Bundles \ ToSet(q), IsInjective(q)
    PROVE  /\ Append(q, b) \in Seq(Bundles) /\ IsInjective(Append(q, b))
           /\ ToSet(Append(q, b)) = ToSet(q) \cup {b}
  BY AppendOf DEF IsInjective, ToSet

\* send_pending_data starts a bundle.
LEMMA LinkStarts ==
    ASSUME NEW c, NEW c2, NEW d, NEW l, NEW l2, NEW h, NEW h2, NEW out, NEW b, LinkOK(c, d, l, h, out),
           Posts(c, c2, h2, d.rcvd), h \in Seq(Bundles), Extends(h, h2), ~c.closed, ~c2.closed,
           StartsOn(l, l2, b), Started(c2, h2) = Append(Started(c, h), b)
    PROVE  LinkOK(c2, d, l2, h2, out)
  <1> DEFINE S == ToSet(Started(c, h))
             Q == ToSet(l.queue)
  <1>1. /\ l \in LinkSet /\ Started(c, h) \in Seq(Bundles) /\ IsInjective(Started(c, h))
        /\ IsInjective(l.queue) /\ Q \cap S = {} /\ LinkListsOK(c, l, h, out)
    BY Zenon DEF LinkOK
  <1>2. /\ l.queue \in Seq(Bundles) /\ l.flight \in SUBSET Bundles /\ l2.queue = Tail(l.queue)
        /\ l2.flight = l.flight \cup {b} /\ l2.done = l.done /\ l2.cancelled = l.cancelled
        /\ l.queue # <<>> /\ b = Head(l.queue)
    BY <1>1 DEF StartsOn, LinkSet
  <1>3. /\ l2.queue \in Seq(Bundles) /\ IsInjective(l2.queue) /\ b \in Q /\ b \in Bundles
        /\ ToSet(l2.queue) = Q \ {b}
    BY <1>1, <1>2, QueuePopped
  <1>4. l2 \in LinkSet
    BY <1>1, <1>2, <1>3 DEF StartsOn, LinkSet
  <1>5. b \notin S
    BY <1>1, <1>3
  <1>6. /\ Started(c2, h2) \in Seq(Bundles) /\ IsInjective(Started(c2, h2))
        /\ ToSet(Started(c2, h2)) = S \cup {b}
    BY <1>1, <1>3, <1>5, OneAppended
  <1>7. LinkListsOK(c2, l2, h2, out)
    <2>1. ToSet(h) \subseteq ToSet(h2)
      BY ExtendsSet DEF Posts
    <2>2. ToSet(h2) \subseteq S \cup {b}
      BY <1>6, StartedHas DEF Posts
    <2>3. /\ Named(c2.events, "transmitted") \subseteq Named(c.events, "transmitted") \cup ToSet(h2)
          /\ Named(c2.events, "cancelled") = Named(c.events, "cancelled")
      BY NamesContinue
    <2>4. DoneOf(l2) = DoneOf(l)
      BY <1>2 DEF DoneOf
    <2>5. ListsOK(S \cup {b}, ToSet(h2), Q \ {b}, l.flight \cup {b}, DoneOf(l),
                  Named(c2.events, "transmitted"), Named(c.events, "cancelled"), l.cancelled, ToSet(out))
      BY <1>1, <1>3, <2>1, <2>2, <2>3, ListsStart DEF LinkListsOK
    <2> QED
      BY <1>2, <1>3, <1>6, <2>3, <2>4, <2>5 DEF LinkListsOK
  <1>8. OncePerBundle(c2, l2)
    <2>1. OncePerBundle(c2, l)
      BY OnceContinues DEF LinkOK
    <2> QED
      BY <1>2, <2>1, Zenon DEF OncePerBundle
  <1>9. ConfirmedOK(c2, l2, d.rcvd)
    <2>1. ConfirmedOK(c2, l, d.rcvd)
      BY ConfirmedContinues DEF LinkOK
    <2> QED
      BY <1>2, <2>1, Zenon DEF ConfirmedOK
  <1>10. ToSet(l2.queue) \cap ToSet(Started(c2, h2)) = {}
    BY <1>1, <1>3, <1>6, Zenon
  <1> QED
    BY <1>3, <1>4, <1>6, <1>7, <1>8, <1>9, <1>10, Zenon DEF LinkOK

\* The bundle that waits for its first segment is the last one that was started.
LEMMA StartedLast ==
    ASSUME NEW c, NEW h \in Seq(Bundles), Unbegun(SendSide(c)), NEW b, b = Newest(SendSide(c)).b,
           Started(c, h) \in Seq(Bundles), IsInjective(Started(c, h))
    PROVE  /\ Started(c, h) = Append(h, b) /\ b \in Bundles /\ b \notin ToSet(h) /\ IsInjective(h)
           /\ ToSet(Started(c, h)) = ToSet(h) \cup {b}
  <1>1. Started(c, h) = Append(h, b)
    BY DEF Started, BundlesBegun
  <1>2. h \in Seq(Bundles \cup {b})
    OBVIOUS
  <1>3. /\ DOMAIN h = 1 .. Len(h) /\ DOMAIN Append(h, b) = 1 .. Len(h) + 1 /\ Len(h) \in Nat
        /\ Append(h, b)[Len(h) + 1] = b /\ \A i \in DOMAIN h : Append(h, b)[i] = h[i]
    BY <1>2
  <1>4. b \in Bundles
    BY <1>1, <1>3
  <1>5. b \notin ToSet(h) /\ IsInjective(h)
    BY <1>1, <1>3 DEF IsInjective, ToSet
  <1> QED
    BY <1>1, <1>4, <1>5, OneAppended

\* A bundle is cancelled that was not begun.
LEMMA ListsCancel ==
    ASSUME NEW S, NEW H, NEW Q, NEW F, NEW D, NEW T, NEW W, NEW K, NEW O,
           ListsOK(S, H, Q, F, D, T, W, K, O), NEW b, b \notin H, S = H \cup {b}, Q \cap S = {}
    PROVE  ListsOK(H, H, Q, F, D, T, W \cup {b}, K, O) /\ b \notin W
  BY ZenonT(40) DEF ListsOK

\* An event is posted.
LEMMA NamesPosted ==
    ASSUME NEW E \in Seq(EventSet), NEW b \in Bundles
    PROVE  LET E2 == Append(E, SendCancelled(b)) IN
           /\ Named(E2, "transmitted") = Named(E, "transmitted")
           /\ Named(E2, "cancelled") = Named(E, "cancelled") \cup {b}
  <1> DEFINE ev == SendCancelled(b)
             E2 == Append(E, ev)
  <1>1. ev \in EventSet /\ ev.event = "cancelled" /\ ev.b = b
    BY DEF EventSet, SendCancelled
  <1>2. /\ DOMAIN E2 = 1 .. Len(E) + 1 /\ E2[Len(E) + 1] = ev /\ Len(E) \in Nat
        /\ \A i \in DOMAIN E : i \in DOMAIN E2 /\ E2[i] = E[i]
        /\ \A i \in DOMAIN E2 : i \in DOMAIN E \/ i = Len(E) + 1
    BY <1>1, AppendOf
  <1>3. Len(E) + 1 \in DOMAIN E2
    BY <1>2
  <1> HIDE DEF E2, ev
  <1>4. Named(E2, "transmitted") = Named(E, "transmitted")
    BY <1>1, <1>2, <1>3, Zenon DEF Named
  <1>5. Named(E2, "cancelled") \subseteq Named(E, "cancelled") \cup {b}
    BY <1>1, <1>2, <1>3, Zenon DEF Named
  <1>6. Named(E, "cancelled") \cup {b} \subseteq Named(E2, "cancelled")
    BY <1>1, <1>2, <1>3, Zenon DEF Named
  <1> QED
    BY <1>4, <1>5, <1>6 DEF E2, ev

\* handle_cancel_bundle.
LEMMA LinkCancels ==
    ASSUME NEW c \in ConnSet, NEW c2, NEW d, NEW l, NEW h \in Seq(Bundles), NEW out,
           LinkOK(c, d, l, h, out), ~c.closed, Cancelled(c, c2)
    PROVE  LinkOK(c2, d, l, h, out)
  <1> DEFINE b == Newest(SendSide(c)).b
             S == ToSet(Started(c, h))
             Q == ToSet(l.queue)
  <1>1. /\ l \in LinkSet /\ Started(c, h) \in Seq(Bundles) /\ IsInjective(Started(c, h))
        /\ IsInjective(l.queue) /\ Q \cap S = {} /\ LinkListsOK(c, l, h, out)
        /\ OncePerBundle(c, l) /\ ConfirmedOK(c, l, d.rcvd)
    BY Zenon DEF LinkOK
  <1>2. /\ Unbegun(SendSide(c)) /\ ~c2.closed /\ c2.up = c.up /\ c2.par = c.par /\ c2.broken = c.broken
        /\ c2.events = Append(c.events, SendCancelled(b)) /\ ~c2.current
    <2>1. ~SendSide(c2).current
      BY DEF Cancelled, TakenBack
    <2>2. ~c2.current
      BY <2>1 DEF SendSide
    <2> QED
      BY <2>2, Zenon DEF Cancelled, Alike
  <1>3. b \in Bundles /\ b \notin ToSet(h) /\ IsInjective(h) /\ S = ToSet(h) \cup {b}
    BY <1>1, <1>2, StartedLast
  <1>4. Started(c2, h) = h
    BY <1>2 DEF Started, BundlesBegun, Unbegun, SendSide
  <1>5. c.events \in Seq(EventSet)
    BY DEF ConnSet
  <1>6. /\ Named(c2.events, "transmitted") = Named(c.events, "transmitted")
        /\ Named(c2.events, "cancelled") = Named(c.events, "cancelled") \cup {b}
    BY <1>2, <1>3, <1>5, NamesPosted
  <1> HIDE DEF b, S, Q
  <1>7. /\ ListsOK(ToSet(h), ToSet(h), Q, l.flight, DoneOf(l), Named(c.events, "transmitted"),
                  Named(c.events, "cancelled") \cup {b}, l.cancelled, ToSet(out))
        /\ b \notin Named(c.events, "cancelled")
    BY <1>1, <1>3, ListsCancel DEF LinkListsOK, S, Q
  <1>8. LinkListsOK(c2, l, h, out)
    BY <1>4, <1>6, <1>7 DEF LinkListsOK, Q
  <1>9. /\ DOMAIN c.events = 1 .. Len(c.events) /\ Len(c.events) \in Nat
        /\ \A i \in DOMAIN c2.events : \/ i \in DOMAIN c.events /\ c2.events[i] = c.events[i]
                                       \/ i = Len(c.events) + 1 /\ c2.events[i] = SendCancelled(b)
    <2>1. SendCancelled(b) \in EventSet
      BY <1>3 DEF EventSet
    <2> QED
      BY <1>2, <1>5, <2>1, AppendOf
  <1>10. SendCancelled(b).event = "cancelled" /\ SendCancelled(b).b = b /\ "cancelled" # "close"
    BY DEF SendCancelled
  <1>11. \A i \in DOMAIN c.events : c.events[i].event = "cancelled" => c.events[i].b # b
    BY <1>7 DEF Named
  <1>12. OncePerBundle(c2, l)
    BY <1>1, <1>2, <1>9, <1>10, <1>11, ZenonT(40) DEF OncePerBundle
  <1>13. ConfirmedOK(c2, l, d.rcvd)
    BY <1>1, <1>2, <1>9, <1>10 DEF ConfirmedOK
  <1>14. Q \cap ToSet(h) = {}
    BY <1>1, <1>3, Zenon DEF S
  <1> QED
    BY <1>1, <1>2, <1>3, <1>4, <1>8, <1>12, <1>13, <1>14, Zenon DEF LinkOK, Q

(***************************************************************************)
(* The daemon handles an event.                                            *)
(***************************************************************************)
TakesEvent(c, c2) == c.events # <<>> /\ c2 = [c EXCEPT !.events = Tail(@)]

\* Only the events change.
OnlyEvents(c, c2) ==
    /\ c2 \in ConnSet /\ c \in ConnSet /\ c2.events = Tail(c.events)
    /\ SendSide(c2) = SendSide(c) /\ RecvSide(c2) = RecvSide(c) /\ Alike(c, c2)
    /\ c2.rcvd = c.rcvd /\ c2.current = c.current /\ c2.inflight = c.inflight
    /\ c2.wire = c.wire /\ c2.sendbuf = c.sendbuf /\ c2.recvbuf = c.recvbuf

\* Taking an event keeps the pair.
LEMMA EventTaken ==
    ASSUME NEW c, NEW d, NEW h, NEW g, NEW own, NEW other, PairOK(c, d, h, g, own, other),
           BufOK(c), NEW c2, TakesEvent(c, c2)
    PROVE  PairOK(c2, d, h, g, own, other) /\ BufOK(c2) /\ OnlyEvents(c, c2)
  <1>1. c \in ConnSet
    BY DEF PairOK, EndOK
  <1> DEFINE E == Tail(c.events)
  <1>2. E \in Seq(EventSet) /\ c2 = [c EXCEPT !.events = E]
    <2>1. c.events \in Seq(EventSet) /\ c.events # <<>>
      BY <1>1 DEF ConnSet, TakesEvent
    <2> QED
      BY <2>1 DEF TakesEvent
  <1> HIDE DEF E
  <1>3. c2 \in ConnSet /\ Alike(c, c2) /\ c2.events = E
    BY <1>1, <1>2 DEF ConnSet, Alike
  <1>4. SendSide(c2) = SendSide(c) /\ RecvSide(c2) = RecvSide(c)
    BY <1>1, <1>2 DEF ConnSet, SendSide, RecvSide
  <1>5. /\ c2.recvbuf = c.recvbuf /\ c2.rcvd = c.rcvd
        /\ c2.wire = c.wire /\ c2.sendbuf = c.sendbuf /\ c2.inflight = c.inflight
        /\ c2.current = c.current /\ c2.todo = c.todo /\ c2.incoming = c.incoming
        /\ c2.rcvTodo = c.rcvTodo
    BY <1>1, <1>2 DEF ConnSet
  <1>6. OnlyEvents(c, c2)
    BY <1>1, <1>3, <1>4, <1>5 DEF OnlyEvents, E
  <1>7. EndOK(c2, h, g, own, other)
    <2>1. EndOK(c, h, g, own, other)
      BY DEF PairOK
    <2> QED
      BY <2>1, <1>3, <1>4, <1>5 DEF EndOK, Alike
  <1>8. /\ Out(c2) = Out(c) /\ c2.broken = c.broken
        /\ \A k : WroteTo(c2, k) = WroteTo(c, k) /\ ReadsFrom(c2, k) = ReadsFrom(c, k)
    BY <1>3, <1>4, <1>5 DEF Out, Alike, WroteTo, ReadsFrom
  <1>9. LaneOK(LaneOf(h, g, own, other), c2, d)
    <2> DEFINE k == LaneOf(h, g, own, other)
    <2>1. LaneOK(k, c, d)
      BY DEF PairOK
    <2> HIDE DEF k
    <2>2. LaneOK(k, c2, d)
      BY <2>1, <1>5, <1>8 DEF LaneOK, AcksOK
    <2> QED
      BY <2>2 DEF k
  <1>10. LaneOK(LaneOf(g, h, other, own), d, c2)
    <2> DEFINE k == LaneOf(g, h, other, own)
    <2>1. LaneOK(k, d, c)
      BY DEF PairOK
    <2> HIDE DEF k
    <2>2. LaneOK(k, d, c2)
      BY <2>1, <1>4, <1>5, <1>8 DEF LaneOK, AcksOK
    <2> QED
      BY <2>2 DEF k
  <1>11. PairOK(c2, d, h, g, own, other)
    BY <1>7, <1>9, <1>10 DEF PairOK
  <1> QED
    BY <1>5, <1>6, <1>11 DEF BufOK

\* The names of what is left.
LEMMA NamesTaken ==
    ASSUME NEW E \in Seq(EventSet), E # <<>>, NEW kind
    PROVE  /\ Named(Tail(E), kind) \subseteq Named(E, kind)
           /\ Named(E, kind) \subseteq Named(Tail(E), kind) \cup {Head(E).b}
           /\ Head(E).event # kind => Named(Tail(E), kind) = Named(E, kind)
           /\ Head(E).event = kind => Head(E).b \in Named(E, kind)
  <1> DEFINE t == Tail(E)
  <1>1. /\ DOMAIN E = 1 .. Len(E) /\ DOMAIN t = 1 .. Len(E) - 1 /\ Len(E) \in Nat
        /\ Head(E) = E[1] /\ 1 \in DOMAIN E
        /\ \A i \in DOMAIN t : i + 1 \in DOMAIN E /\ t[i] = E[i + 1]
        /\ \A i \in DOMAIN E : i # 1 => i - 1 \in DOMAIN t /\ t[i - 1] = E[i]
    BY TailOf
  <1> HIDE DEF t
  <1>a. \A i \in DOMAIN t : \E j \in DOMAIN E : t[i] = E[j]
    BY <1>1
  <1>b. \A i \in DOMAIN E : E[i] = Head(E) \/ \E j \in DOMAIN t : t[j] = E[i]
    BY <1>1
  <1>2. Named(t, kind) \subseteq Named(E, kind)
    BY <1>a, Zenon DEF Named
  <1>3. Named(E, kind) \subseteq Named(t, kind) \cup {Head(E).b}
    BY <1>b, Zenon DEF Named
  <1>4. Head(E).event # kind => Named(E, kind) \subseteq Named(t, kind)
    BY <1>b, Zenon DEF Named
  <1>5. Head(E).event = kind => Head(E).b \in Named(E, kind)
    BY <1>1, Zenon DEF Named
  <1> QED
    BY <1>2, <1>3, <1>4, <1>5 DEF t

\* A cancelled bundle has one event, so that none is left.
LEMMA CancelledOnce ==
    ASSUME NEW c \in ConnSet, NEW l, OncePerBundle(c, l), c.events # <<>>,
           Head(c.events).event = "cancelled", NEW b, b = Head(c.events).b
    PROVE  Named(Tail(c.events), "cancelled") = Named(c.events, "cancelled") \ {b}
  <1> DEFINE E == c.events
             t == Tail(E)
  <1>1. E \in Seq(EventSet)
    BY DEF ConnSet
  <1>2. /\ DOMAIN E = 1 .. Len(E) /\ DOMAIN t = 1 .. Len(E) - 1 /\ Len(E) \in Nat
        /\ Head(E) = E[1] /\ 1 \in DOMAIN E
        /\ \A i \in DOMAIN t : i + 1 \in DOMAIN E /\ t[i] = E[i + 1]
    BY <1>1, TailOf
  <1>3. \A i, j \in DOMAIN E :
           E[i].event = "cancelled" /\ E[j].event = "cancelled" /\ E[i].b = E[j].b => i = j
    BY Zenon DEF OncePerBundle
  <1>4. /\ Named(t, "cancelled") \subseteq Named(E, "cancelled")
        /\ Named(E, "cancelled") \subseteq Named(t, "cancelled") \cup {b}
    BY <1>1, NamesTaken
  <1> HIDE DEF t, E
  <1>5. b \notin Named(t, "cancelled")
    <2> SUFFICES ASSUME NEW i \in DOMAIN t, t[i].event = "cancelled", t[i].b = b
                 PROVE  FALSE
      BY DEF Named
    <2>1. i + 1 \in DOMAIN E /\ t[i] = E[i + 1] /\ i + 1 # 1
      BY <1>2
    <2>2. E[1].event = "cancelled" /\ E[1].b = b
      BY <1>2 DEF E
    <2> QED
      BY <2>1, <2>2, <1>2, <1>3
  <1> QED
    BY <1>4, <1>5 DEF t, E

\* A bundle is still reported once when an event was taken.
LEMMA OnceTaken ==
    ASSUME NEW c, NEW c2, NEW l, OncePerBundle(c, l), OnlyEvents(c, c2), c.events # <<>>
    PROVE  OncePerBundle(c2, l)
  <1>1. c.events \in Seq(EventSet) /\ c2.events = Tail(c.events) /\ c2.up = c.up
        /\ c2.broken = c.broken
    BY DEF OnlyEvents, ConnSet, Alike
  <1>2. /\ DOMAIN c2.events = 1 .. Len(c.events) - 1 /\ Len(c.events) \in Nat
        /\ \A i \in DOMAIN c2.events : i + 1 \in DOMAIN c.events /\ c2.events[i] = c.events[i + 1]
    BY <1>1, TailOf
  <1>3. \A i, j \in DOMAIN c2.events :
           /\ c2.events[i].event = "cancelled" /\ c2.events[j].event = "cancelled"
           /\ c2.events[i].b = c2.events[j].b
           => i = j
    <2> SUFFICES ASSUME NEW i \in DOMAIN c2.events, NEW j \in DOMAIN c2.events,
                        c2.events[i].event = "cancelled", c2.events[j].event = "cancelled",
                        c2.events[i].b = c2.events[j].b
                 PROVE  i = j
      OBVIOUS
    <2>1. i + 1 = j + 1
      BY <1>2, Zenon DEF OncePerBundle
    <2> QED
      BY <2>1, <1>2
  <1> QED
    BY <1>1, <1>2, <1>3, Zenon DEF OncePerBundle

\* And what is confirmed stays confirmed.
LEMMA ConfirmedTaken ==
    ASSUME NEW c, NEW c2, NEW l, NEW rcvd, ConfirmedOK(c, l, rcvd), OnlyEvents(c, c2), c.events # <<>>
    PROVE  ConfirmedOK(c2, l, rcvd)
  <1>1. c.events \in Seq(EventSet) /\ c2.events = Tail(c.events) /\ c2.par = c.par
    BY DEF OnlyEvents, ConnSet, Alike
  <1>2. \A i \in DOMAIN c2.events : \E j \in DOMAIN c.events : c2.events[i] = c.events[j]
    BY <1>1, TailOf
  <1>3. ASSUME c.par.acks, NEW i \in DOMAIN c2.events, c2.events[i].event = "transmitted",
               c2.events[i].acked = Length[c2.events[i].b]
        PROVE  Whole[c2.events[i].b] \in ToSet(rcvd)
    <2>1. PICK j \in DOMAIN c.events : c2.events[i] = c.events[j]
      BY <1>2
    <2> QED
      BY <1>3, <2>1 DEF ConfirmedOK
  <1> QED
    BY <1>1, <1>3, Zenon DEF ConfirmedOK

\* A stale event: nothing changes on the link.
LEMMA LinkIgnores ==
    ASSUME NEW c, NEW c2, NEW d, NEW l, NEW h, NEW out, LinkOK(c, d, l, h, out),
           OnlyEvents(c, c2), c.events # <<>>, Head(c.events).event # "cancelled"
    PROVE  LinkOK(c2, d, l, h, out)
  <1>1. c.events \in Seq(EventSet) /\ c2.events = Tail(c.events) /\ c2.closed = c.closed
        /\ c2.current = c.current
    BY DEF OnlyEvents, ConnSet, Alike
  <1>2. Started(c2, h) = Started(c, h)
    BY DEF Started, OnlyEvents
  <1>3. /\ Named(c2.events, "transmitted") \subseteq Named(c.events, "transmitted")
        /\ Named(c2.events, "cancelled") = Named(c.events, "cancelled")
    BY <1>1, NamesTaken
  <1>4. LinkListsOK(c2, l, h, out)
    BY <1>2, <1>3 DEF LinkOK, LinkListsOK, ListsOK
  <1>5. OncePerBundle(c2, l) /\ ConfirmedOK(c2, l, d.rcvd)
    BY OnceTaken, ConfirmedTaken DEF LinkOK
  <1> QED
    BY <1>1, <1>2, <1>4, <1>5, Zenon DEF LinkOK

\* handle_bundle_transmitted of a bundle that the daemon did not know about.
Settles(c, l, l2, ev) ==
    /\ ev.b \notin DoneOf(l) \cup l.cancelled
    /\ l2 = [l EXCEPT !.flight = @ \ {ev.b}, !.queue = OnlyIn(@, Bundles \ {ev.b}),
                      !.done = @ \cup {[b |-> ev.b, n |-> IF c.par.reliable THEN ev.acked ELSE ev.sent]}]

\* handle_bundle_cancelled.
TakesBack(l, l2, ev) == l2 = [l EXCEPT !.cancelled = @ \cup {ev.b}]

\* A queue without a bundle.
LEMMA QueueWithout ==
    ASSUME NEW q \in Seq(Bundles), NEW b, NEW q2, q2 = OnlyIn(q, Bundles \ {b})
    PROVE  /\ q2 \in Seq(Bundles) /\ ToSet(q2) = ToSet(q) \ {b}
           /\ IsInjective(q) => IsInjective(q2)
  <1>1. /\ q2 \in Seq(Bundles) /\ Range(q2) = Range(q) \cap (Bundles \ {b})
        /\ IsInjective(q) => IsInjective(q2)
    BY OnlyInFacts
  <1>2. Range(q) \subseteq Bundles
    BY DEF Range
  <1> QED
    BY <1>1, <1>2 DEF Range, ToSet

\* The daemon learns that a bundle was transmitted.
LEMMA ListsSettle ==
    ASSUME NEW S, NEW H, NEW Q, NEW F, NEW D, NEW T, NEW W, NEW K, NEW O,
           ListsOK(S, H, Q, F, D, T, W, K, O), NEW b \in T, NEW T2, T2 \subseteq T, b \notin K
    PROVE  ListsOK(S, H, Q \ {b}, F \ {b}, D \cup {b}, T2, W, K, O)
  BY Zenon DEF ListsOK

\* The daemon learns that a bundle was cancelled.
LEMMA ListsTakeBack ==
    ASSUME NEW S, NEW H, NEW Q, NEW F, NEW D, NEW T, NEW W, NEW K, NEW O,
           ListsOK(S, H, Q, F, D, T, W, K, O), NEW b \in W
    PROVE  ListsOK(S, H, Q, F, D, T, W \ {b}, K \cup {b}, O)
  BY Zenon DEF ListsOK

\* handle_bundle_transmitted keeps the link.
LEMMA LinkSettles ==
    ASSUME NEW c, NEW c2, NEW d, NEW l, NEW l2, NEW h, NEW out, LinkOK(c, d, l, h, out),
           OnlyEvents(c, c2), c.events # <<>>, NEW ev, ev = Head(c.events),
           ev.event = "transmitted", Settles(c, l, l2, ev)
    PROVE  LinkOK(c2, d, l2, h, out)
  <1>1. c.events \in Seq(EventSet) /\ c2.events = Tail(c.events) /\ c2.closed = c.closed
        /\ c2.current = c.current /\ c2.up = c.up /\ c2.par = c.par
    BY DEF OnlyEvents, ConnSet, Alike
  <1>2. Started(c2, h) = Started(c, h)
    BY DEF Started, OnlyEvents
  <1>3. /\ Named(c2.events, "transmitted") \subseteq Named(c.events, "transmitted")
        /\ Named(c2.events, "cancelled") = Named(c.events, "cancelled")
        /\ ev.b \in Named(c.events, "transmitted")
    BY <1>1, NamesTaken
  <1>4. /\ ev \in EventSet /\ ev.b \in Bundles /\ ev.sent \in Nat /\ ev.acked \in Nat
        /\ 1 \in DOMAIN c.events /\ ev = c.events[1]
    <2>1. ev \in EventSet /\ 1 \in DOMAIN c.events /\ ev = c.events[1]
      BY <1>1, TailOf
    <2>2. ev.event = "transmitted" => ev.b \in Bundles /\ ev.sent \in Nat /\ ev.acked \in Nat
      BY <2>1 DEF EventSet, Transmitted, SendCancelled, CloseRequest
    <2> QED
      BY <2>1, <2>2
  <1> DEFINE b == ev.b
             x == [b |-> b, n |-> IF c.par.reliable THEN ev.acked ELSE ev.sent]
  <1>5. x \in [b : Bundles, n : Nat] /\ x.b = b /\ x.n = IF c.par.reliable THEN ev.acked ELSE ev.sent
    BY <1>4
  <1>6. /\ l \in LinkSet /\ l.queue \in Seq(Bundles) /\ l.flight \in SUBSET Bundles
        /\ l.done \in SUBSET [b : Bundles, n : Nat]
    BY DEF LinkOK, LinkSet
  <1>7. /\ l2.flight = l.flight \ {b} /\ l2.queue = OnlyIn(l.queue, Bundles \ {b})
        /\ l2.done = l.done \cup {x} /\ l2.cancelled = l.cancelled
        /\ b \notin DoneOf(l) /\ b \notin l.cancelled
    BY <1>6 DEF Settles, LinkSet
  <1>8. /\ l2.queue \in Seq(Bundles) /\ ToSet(l2.queue) = ToSet(l.queue) \ {b}
        /\ IsInjective(l.queue) => IsInjective(l2.queue)
    BY <1>6, <1>7, QueueWithout
  <1>9. l2 \in LinkSet
    <2>1. OnlyIn(l.queue, Bundles \ {b}) \in Seq(Bundles)
      BY <1>7, <1>8
    <2> DEFINE q == OnlyIn(l.queue, Bundles \ {b})
    <2>2. l2 = [l EXCEPT !.flight = @ \ {b}, !.queue = q, !.done = @ \cup {x}]
      BY DEF Settles
    <2> HIDE DEF q, x
    <2>3. q \in Seq(Bundles)
      BY <2>1 DEF q
    <2> QED
      BY <1>5, <1>6, <2>2, <2>3 DEF LinkSet
  <1> HIDE DEF x
  <1>10. DoneOf(l2) = DoneOf(l) \cup {b}
    BY <1>5, <1>7 DEF DoneOf
  <1>11. LinkListsOK(c2, l2, h, out)
    <2>1. LinkListsOK(c, l, h, out)
      BY DEF LinkOK
    <2>2. ListsOK(ToSet(Started(c, h)), ToSet(h), ToSet(l.queue) \ {b}, l.flight \ {b},
                  DoneOf(l) \cup {b}, Named(c2.events, "transmitted"),
                  Named(c.events, "cancelled"), l.cancelled, ToSet(out))
      BY <2>1, <1>3, <1>7, ListsSettle DEF LinkListsOK
    <2> QED
      BY <2>2, <1>2, <1>3, <1>7, <1>8, <1>10 DEF LinkListsOK
  <1>12. OncePerBundle(c2, l2)
    <2>1. OncePerBundle(c2, l)
      BY OnceTaken DEF LinkOK
    <2>2. \A y \in l.done : y.b # b
      BY <1>7 DEF DoneOf
    <2>3. c.up
      BY <1>4, Zenon DEF LinkOK, OncePerBundle
    <2> QED
      BY <1>1, <1>5, <1>7, <2>1, <2>2, <2>3, ZenonT(40) DEF OncePerBundle
  <1>13. ConfirmedOK(c2, l2, d.rcvd)
    <2>1. ConfirmedOK(c2, l, d.rcvd)
      BY ConfirmedTaken DEF LinkOK
    <2>2. c2.par.acks /\ c2.par.reliable /\ x.n = Length[x.b] => Whole[x.b] \in ToSet(d.rcvd)
      BY <1>1, <1>4, <1>5 DEF LinkOK, ConfirmedOK
    <2> QED
      BY <1>7, <2>1, <2>2 DEF ConfirmedOK
  <1>14. ~c2.closed => IsInjective(l2.queue) /\ ToSet(l2.queue) \cap ToSet(Started(c2, h)) = {}
    <2>1. ~c.closed => IsInjective(l.queue) /\ ToSet(l.queue) \cap ToSet(Started(c, h)) = {}
      BY DEF LinkOK
    <2> QED
      BY <2>1, <1>1, <1>2, <1>8
  <1> QED
    BY <1>1, <1>2, <1>9, <1>11, <1>12, <1>13, <1>14, Zenon DEF LinkOK

\* handle_bundle_cancelled keeps the link.
LEMMA LinkTakesBack ==
    ASSUME NEW c, NEW c2, NEW d, NEW l, NEW l2, NEW h, NEW out, LinkOK(c, d, l, h, out),
           OnlyEvents(c, c2), c.events # <<>>, NEW ev, ev = Head(c.events),
           ev.event = "cancelled", TakesBack(l, l2, ev)
    PROVE  LinkOK(c2, d, l2, h, out) /\ ev.b \in Named(c.events, "cancelled")
  <1>1. c.events \in Seq(EventSet) /\ c2.events = Tail(c.events) /\ c2.closed = c.closed
        /\ c2.current = c.current /\ c2.up = c.up /\ c2.par = c.par /\ c \in ConnSet
    BY DEF OnlyEvents, ConnSet, Alike
  <1>2. Started(c2, h) = Started(c, h)
    BY DEF Started, OnlyEvents
  <1> DEFINE b == ev.b
  <1>3. /\ Named(c2.events, "transmitted") = Named(c.events, "transmitted")
        /\ Named(c2.events, "cancelled") = Named(c.events, "cancelled") \ {b}
        /\ b \in Named(c.events, "cancelled")
    <2>1. OncePerBundle(c, l)
      BY DEF LinkOK
    <2> QED
      BY <2>1, <1>1, NamesTaken, CancelledOnce, ZenonT(40)
  <1>4. b \in Bundles
    <2>1. ev \in EventSet
      BY <1>1, TailOf
    <2> QED
      BY <2>1 DEF EventSet, Transmitted, SendCancelled, CloseRequest
  <1>6. /\ l \in LinkSet /\ l.queue \in Seq(Bundles) /\ l.flight \in SUBSET Bundles
        /\ l.cancelled \in SUBSET Bundles
    BY DEF LinkOK, LinkSet
  <1>7. /\ l2.flight = l.flight /\ l2.queue = l.queue
        /\ l2.done = l.done /\ l2.cancelled = l.cancelled \cup {b}
    BY <1>6 DEF TakesBack, LinkSet
  <1>9. l2 \in LinkSet
    <2>1. l2 = [l EXCEPT !.cancelled = @ \cup {b}]
      BY DEF TakesBack
    <2> HIDE DEF b
    <2> QED
      BY <1>4, <1>6, <2>1 DEF LinkSet
  <1>10. DoneOf(l2) = DoneOf(l)
    BY <1>7 DEF DoneOf
  <1>11. LinkListsOK(c2, l2, h, out)
    <2>1. LinkListsOK(c, l, h, out)
      BY DEF LinkOK
    <2>2. ListsOK(ToSet(Started(c, h)), ToSet(h), ToSet(l.queue), l.flight,
                  DoneOf(l), Named(c.events, "transmitted"),
                  Named(c.events, "cancelled") \ {b}, l.cancelled \cup {b}, ToSet(out))
      BY <2>1, <1>3, ListsTakeBack DEF LinkListsOK
    <2> QED
      BY <2>2, <1>2, <1>3, <1>7, <1>10 DEF LinkListsOK
  <1>12. OncePerBundle(c2, l2)
    <2>1. OncePerBundle(c2, l)
      BY OnceTaken DEF LinkOK
    <2> QED
      BY <1>7, <2>1, Zenon DEF OncePerBundle
  <1>13. ConfirmedOK(c2, l2, d.rcvd)
    <2>1. ConfirmedOK(c2, l, d.rcvd)
      BY ConfirmedTaken DEF LinkOK
    <2> QED
      BY <1>7, <2>1, Zenon DEF ConfirmedOK
  <1>14. ~c2.closed => IsInjective(l2.queue) /\ ToSet(l2.queue) \cap ToSet(Started(c2, h)) = {}
    <2>1. ~c.closed => IsInjective(l.queue) /\ ToSet(l.queue) \cap ToSet(Started(c, h)) = {}
      BY DEF LinkOK
    <2> QED
      BY <2>1, <1>1, <1>2, <1>7
  <1> QED
    BY <1>1, <1>2, <1>3, <1>9, <1>11, <1>12, <1>13, <1>14, Zenon DEF LinkOK

\* The event that a bundle was cancelled is the first one about it, and the
\* bundle is in flight on the link.
LEMMA CancelledUnknown ==
    ASSUME NEW c \in ConnSet, NEW d, NEW l, NEW h, NEW out, LinkOK(c, d, l, h, out),
           c.events # <<>>, NEW ev, ev = Head(c.events), ev.event = "cancelled"
    PROVE  ev.b \notin DoneOf(l) \cup l.cancelled /\ ev.b \in l.flight
  <1>1. c.events \in Seq(EventSet)
    BY DEF ConnSet
  <1>2. ev.b \in Named(c.events, "cancelled")
    BY <1>1, NamesTaken
  <1>3. ListsOK(ToSet(Started(c, h)), ToSet(h), ToSet(l.queue), l.flight, DoneOf(l),
                Named(c.events, "transmitted"), Named(c.events, "cancelled"),
                l.cancelled, ToSet(out))
    BY DEF LinkOK, LinkListsOK
  <1> QED
    BY <1>2, <1>3, Zenon DEF ListsOK

(***************************************************************************)
(* close_contact.                                                          *)
(***************************************************************************)
GoesBack(c, f) == \/ ~c.par.reactive \/ f.sent = 0
                  \/ c.par.reliable /\ f.acked = 0

\* The bundles that go back to the queue, and those of which part counts as
\* transmitted.
Again(c, l) == OnlyIn(c.inflight, {f \in ToSet(c.inflight) : GoesBack(c, f) /\ f.b \in l.flight})
Part(c) == OnlyIn(c.inflight, {f \in ToSet(c.inflight) : ~GoesBack(c, f) /\ ~f.posted})

NamesOf(q) == [i \in DOMAIN q |-> q[i].b]
PartEvents(q) == [i \in DOMAIN q |-> Transmitted(q[i].b, q[i].sent, q[i].acked)]

GivesBack(c, l, l2) ==
    l2 = [l EXCEPT !.flight = @ \ ToSet(NamesOf(Again(c, l))),
                   !.queue = @ \o NamesOf(Again(c, l))]

\* A bundle in flight was started, and begun if some of it was sent.
LEMMA FlightStarted ==
    ASSUME NEW c \in ConnSet, NEW acks \in BOOLEAN, NEW h \in Seq(Bundles),
           SendOK(SendSide(c), acks, h), Started(c, h) \in Seq(Bundles),
           NEW f \in ToSet(c.inflight)
    PROVE  /\ f \in FlightSet /\ f.b \in ToSet(Started(c, h))
           /\ f.sent # 0 => f.b \in ToSet(h)
           /\ f.posted <=> f.acked = Length[f.b]
  <1> DEFINE s == SendSide(c)
  <1>1. /\ s.inflight = c.inflight /\ s.current = c.current /\ s.todo = c.todo
        /\ c.inflight \in Seq(FlightSet) /\ Len(c.inflight) \in Nat /\ Len(h) \in Nat
    BY DEF SendSide, ConnSet
  <1>2. PICK i \in 1 .. Len(c.inflight) : f = c.inflight[i]
    BY <1>1 DEF ToSet
  <1>3. FlightOK(s, acks, h, i) /\ Popped(s, h) >= 0
    BY <1>1, <1>2 DEF SendOK
  <1>4. f \in FlightSet
    BY <1>1, <1>2
  <1>5. f.posted <=> f.acked = Length[f.b]
    BY <1>1, <1>2, <1>3 DEF FlightOK
  <1>6. Popped(s, h) + i <= Len(h) => f.b \in ToSet(h)
    <2> DEFINE p == Popped(s, h) + i
    <2>1. p \in Int /\ p >= 1
      BY <1>1, <1>3 DEF Popped
    <2>2. p <= Len(h) => f.b = h[p]
      BY <1>1, <1>2, <1>3 DEF FlightOK
    <2> HIDE DEF p
    <2>3. p <= Len(h) => f.b \in ToSet(h)
      BY <2>1, <2>2 DEF ToSet
    <2> QED
      BY <2>3 DEF p
  <1>7. CASE ~Unbegun(s) \/ i < Len(c.inflight)
    <2>1. Popped(s, h) + i <= Len(h)
      BY <1>1, <1>7 DEF Popped
    <2> QED
      BY <2>1, <1>4, <1>5, <1>6, StartedHas
  <1>8. CASE Unbegun(s) /\ i = Len(c.inflight)
    <2>1. f = Newest(s) /\ f.sent = 0
      BY <1>1, <1>2, <1>8 DEF Unbegun, Newest
    <2>2. Started(c, h) = Append(h, f.b)
      BY <1>8, <2>1 DEF Started, BundlesBegun
    <2>3. f.b \in ToSet(Started(c, h))
      <3>1. f.b \in Bundles
        BY <1>4 DEF FlightSet
      <3> QED
        BY <2>2, <3>1 DEF ToSet
    <2> QED
      BY <2>1, <2>3, <1>4, <1>5
  <1> QED
    BY <1>7, <1>8, <1>1

\* What close_contact collects.
LEMMA AgainFacts ==
    ASSUME NEW c \in ConnSet, NEW acks \in BOOLEAN, NEW h \in Seq(Bundles), NEW l,
           SendOK(SendSide(c), acks, h), Started(c, h) \in Seq(Bundles)
    PROVE  LET N == NamesOf(Again(c, l)) IN
           /\ N \in Seq(Bundles) /\ ToSet(N) \subseteq ToSet(Started(c, h)) \cap l.flight
           /\ Unbegun(SendSide(c)) /\ Newest(SendSide(c)).b \in l.flight =>
                  Newest(SendSide(c)).b \in ToSet(N)
  <1> DEFINE X == {f \in ToSet(c.inflight) : GoesBack(c, f) /\ f.b \in l.flight}
             A == Again(c, l)
             N == NamesOf(A)
  <1>1. c.inflight \in Seq(FlightSet)
    BY DEF ConnSet
  <1>2. A \in Seq(FlightSet) /\ ToSet(A) = X
    <2>1. A \in Seq(FlightSet) /\ Range(A) = Range(c.inflight) \cap X
      BY <1>1, OnlyInFacts DEF Again
    <2>2. Range(A) = ToSet(A) /\ Range(c.inflight) = ToSet(c.inflight)
      BY DEF Range, ToSet
    <2> QED
      BY <2>1, <2>2
  <1> HIDE DEF A
  <1>3. N \in Seq(Bundles) /\ DOMAIN N = DOMAIN A /\ \A i \in DOMAIN A : N[i] = A[i].b
    <2>1. N = [i \in DOMAIN A |-> A[i].b]
      BY DEF NamesOf
    <2>a. A \in Seq(FlightSet)
      BY <1>2
    <2>b. \A i \in DOMAIN A : A[i] \in FlightSet
      BY <2>a
    <2>2. \A i \in DOMAIN A : A[i].b \in Bundles
      BY <2>b DEF FlightSet
    <2> HIDE DEF N
    <2> QED
      BY <1>2, <2>1, <2>2
  <1> HIDE DEF N, X
  <1>4. ToSet(N) = {f.b : f \in X}
    BY <1>2, <1>3, Zenon DEF ToSet
  <1>5. \A f \in X : f.b \in ToSet(Started(c, h)) /\ f.b \in l.flight
    BY FlightStarted DEF X
  <1>6. ASSUME Unbegun(SendSide(c)), Newest(SendSide(c)).b \in l.flight
        PROVE  Newest(SendSide(c)) \in X
    <2>1. c.current /\ Newest(SendSide(c)) = c.inflight[Len(c.inflight)] /\ Newest(SendSide(c)).sent = 0
      BY <1>6 DEF Unbegun, Newest, SendSide
    <2>2. c.inflight # <<>>
      BY <2>1 DEF SendOK, SendSide
    <2>3. Newest(SendSide(c)) \in ToSet(c.inflight)
      BY <1>1, <2>1, <2>2 DEF ToSet
    <2> QED
      BY <1>6, <2>1, <2>3 DEF X, GoesBack
  <1> QED
    BY <1>3, <1>4, <1>5, <1>6 DEF N, A

\* A bundle of which part counts as transmitted was begun and is not
\* acknowledged.
LEMMA PartFacts ==
    ASSUME NEW c \in ConnSet, NEW acks \in BOOLEAN, NEW h \in Seq(Bundles),
           SendOK(SendSide(c), acks, h), Started(c, h) \in Seq(Bundles), NEW P, P = PartEvents(Part(c))
    PROVE  /\ P \in Seq(EventSet)
           /\ \A i \in DOMAIN P : /\ P[i].event = "transmitted" /\ P[i].b \in ToSet(h)
                                  /\ P[i].acked # Length[P[i].b] /\ c.inflight # <<>>
  <1> DEFINE X == {f \in ToSet(c.inflight) : ~GoesBack(c, f) /\ ~f.posted}
             A == Part(c)
  <1>1. c.inflight \in Seq(FlightSet)
    BY DEF ConnSet
  <1>2. A \in Seq(FlightSet) /\ ToSet(A) = X
    <2>1. A \in Seq(FlightSet) /\ Range(A) = Range(c.inflight) \cap X
      BY <1>1, OnlyInFacts DEF Part
    <2>2. Range(A) = ToSet(A) /\ Range(c.inflight) = ToSet(c.inflight)
      BY DEF Range, ToSet
    <2> QED
      BY <2>1, <2>2
  <1>3. \A f \in X : f.b \in ToSet(h) /\ f.acked # Length[f.b] /\ c.inflight # <<>>
    <2> SUFFICES ASSUME NEW f \in X
                 PROVE  f.b \in ToSet(h) /\ f.acked # Length[f.b] /\ c.inflight # <<>>
      OBVIOUS
    <2>1. f.sent # 0 /\ ~f.posted /\ f \in ToSet(c.inflight)
      BY DEF GoesBack
    <2>2. c.inflight # <<>>
      BY <2>1 DEF ToSet
    <2> QED
      BY <2>1, <2>2, FlightStarted
  <1> HIDE DEF A, X
  <1>4. \A i \in DOMAIN A : A[i] \in X /\ A[i] \in FlightSet
    BY <1>2 DEF ToSet
  <1>5. P = [i \in DOMAIN A |-> Transmitted(A[i].b, A[i].sent, A[i].acked)]
    BY DEF PartEvents, A
  <1>6. \A f \in FlightSet : LET ev == Transmitted(f.b, f.sent, f.acked) IN
            ev \in EventSet /\ ev.event = "transmitted" /\ ev.b = f.b /\ ev.acked = f.acked
    BY DEF EventSet, Transmitted, FlightSet
  <1>7. \A i \in DOMAIN A : P[i] \in EventSet /\ P[i].event = "transmitted" /\ P[i].b = A[i].b
                            /\ P[i].acked = A[i].acked
    BY <1>4, <1>5, <1>6
  <1>8. P \in Seq(EventSet) /\ DOMAIN P = DOMAIN A
    BY <1>2, <1>5, <1>7
  <1> QED
    BY <1>3, <1>4, <1>7, <1>8

\* What was started goes back, or was begun.
LEMMA ListsClose ==
    ASSUME NEW S, NEW H, NEW Q, NEW F, NEW D, NEW T, NEW W, NEW K, NEW O,
           ListsOK(S, H, Q, F, D, T, W, K, O), Q \cap S = {}, NEW A, A \subseteq S \cap F,
           \A b \in S \cap F : b \notin H => b \in A, NEW T2, T2 \subseteq T \cup H
    PROVE  ListsOK(H, H, Q \cup A, F \ A, D, T2, W, K, O)
  <1>1. \A b \in S : b \notin H => b \in A
    BY Zenon DEF ListsOK
  <1> QED
    BY <1>1, Zenon DEF ListsOK

\* A queue and the bundles that go back to it.
LEMMA JoinedSet ==
    ASSUME NEW q \in Seq(Bundles), NEW N \in Seq(Bundles)
    PROVE  q \o N \in Seq(Bundles) /\ ToSet(q \o N) = ToSet(q) \cup ToSet(N)
  <1> DEFINE r == q \o N
  <1>1. /\ r \in Seq(Bundles)
        /\ \A i \in DOMAIN q : i \in DOMAIN r /\ r[i] = q[i]
        /\ \A i \in DOMAIN N : Len(q) + i \in DOMAIN r /\ r[Len(q) + i] = N[i]
        /\ \A i \in DOMAIN r : \/ i \in DOMAIN q /\ r[i] = q[i]
                               \/ i - Len(q) \in DOMAIN N /\ r[i] = N[i - Len(q)]
    BY ConcatOf
  <1> HIDE DEF r
  <1>2. ToSet(r) = ToSet(q) \cup ToSet(N)
    <2>1. ToSet(r) \subseteq ToSet(q) \cup ToSet(N)
      BY <1>1 DEF ToSet
    <2>2. ToSet(q) \subseteq ToSet(r)
      BY <1>1 DEF ToSet
    <2>3. ToSet(N) \subseteq ToSet(r)
      BY <1>1 DEF ToSet
    <2> QED
      BY <2>1, <2>2, <2>3
  <1> QED
    BY <1>1, <1>2 DEF r

\* The daemon closes the contact of a connection that was given up.
LEMMA LinkCloses ==
    ASSUME NEW c \in ConnSet, NEW c2, NEW d, NEW l, NEW l2, NEW h \in Seq(Bundles), NEW out,
           NEW acks \in BOOLEAN, LinkOK(c, d, l, h, out), ~c.closed, SendOK(SendSide(c), acks, h),
           c.inflight # <<>> => c.up, GivesBack(c, l, l2), NEW P, P = PartEvents(Part(c)),
           Closed(c, c.events \o P, c2)
    PROVE  LinkOK(c2, d, l2, h, out)
  <1> DEFINE N == NamesOf(Again(c, l))
             A == ToSet(N)
             S == ToSet(Started(c, h))
             Q == ToSet(l.queue)
             E == c.events \o P
  <1>1. /\ l \in LinkSet /\ Started(c, h) \in Seq(Bundles) /\ IsInjective(Started(c, h))
        /\ IsInjective(l.queue) /\ Q \cap S = {} /\ LinkListsOK(c, l, h, out)
        /\ OncePerBundle(c, l) /\ ConfirmedOK(c, l, d.rcvd)
    BY Zenon DEF LinkOK
  <1>2. /\ N \in Seq(Bundles) /\ A \subseteq S \cap l.flight
        /\ Unbegun(SendSide(c)) /\ Newest(SendSide(c)).b \in l.flight => Newest(SendSide(c)).b \in A
    BY <1>1, AgainFacts
  <1>3. /\ P \in Seq(EventSet)
        /\ \A i \in DOMAIN P : /\ P[i].event = "transmitted" /\ P[i].b \in ToSet(h)
                               /\ P[i].acked # Length[P[i].b] /\ c.inflight # <<>>
    BY <1>1, PartFacts
  <1>4. /\ c2.closed /\ ~c2.current /\ c2.up = c.up /\ c2.par = c.par /\ c2.events = E
        /\ c2.broken = c.broken
    BY DEF Closed
  <1>5. c.events \in Seq(EventSet)
    BY DEF ConnSet
  <1>6. /\ \A i \in DOMAIN E : \/ i \in DOMAIN c.events /\ E[i] = c.events[i]
                               \/ \E j \in DOMAIN P : E[i] = P[j]
        /\ \A i \in DOMAIN c.events : i \in DOMAIN E /\ E[i] = c.events[i]
    BY <1>3, <1>5, ConcatOf
  <1>7. Started(c2, h) = h
    BY <1>4 DEF Started, BundlesBegun, Unbegun, SendSide
  <1> HIDE DEF N, A, S, Q, E
  <1>8. /\ l.queue \in Seq(Bundles) /\ l2.queue = l.queue \o N /\ l2.flight = l.flight \ A
        /\ l2.done = l.done /\ l2.cancelled = l.cancelled /\ l2 \in LinkSet
    <2>1. l.queue \in Seq(Bundles) /\ l.flight \in SUBSET Bundles
      BY <1>1 DEF LinkSet
    <2>2. l2 = [l EXCEPT !.flight = @ \ A, !.queue = @ \o N]
      BY DEF GivesBack, N, A
    <2>3. l.queue \o N \in Seq(Bundles)
      BY <1>2, <2>1, JoinedSet
    <2> QED
      BY <1>1, <2>1, <2>2, <2>3 DEF LinkSet
  <1>9. ToSet(l2.queue) = Q \cup A
    BY <1>2, <1>8, JoinedSet DEF A, Q
  <1>10. /\ Named(E, "cancelled") = Named(c.events, "cancelled")
         /\ Named(E, "transmitted") \subseteq Named(c.events, "transmitted") \cup ToSet(h)
    <2>1. \A i \in DOMAIN E : \/ i \in DOMAIN c.events /\ E[i] = c.events[i]
                              \/ E[i].event = "transmitted" /\ E[i].b \in ToSet(h)
      BY <1>3, <1>6
    <2>2. "transmitted" # "cancelled" /\ \A i \in DOMAIN c.events : i \in DOMAIN E /\ E[i] = c.events[i]
      BY <1>6
    <2>3. Named(E, "cancelled") \subseteq Named(c.events, "cancelled")
      BY <2>1, <2>2, Zenon DEF Named
    <2>4. Named(c.events, "cancelled") \subseteq Named(E, "cancelled")
      BY <2>2, Zenon DEF Named
    <2>5. Named(E, "transmitted") \subseteq Named(c.events, "transmitted") \cup ToSet(h)
      BY <2>1, Zenon DEF Named
    <2> QED
      BY <2>3, <2>4, <2>5
  <1>11. \A b \in S \cap l.flight : b \notin ToSet(h) => b \in A
    <2>1. CASE Unbegun(SendSide(c))
      <3>1. S = ToSet(h) \cup {Newest(SendSide(c)).b}
        BY <1>1, <2>1, StartedLast DEF S
      <3> QED
        BY <1>2, <2>1, <3>1
    <2>2. CASE ~Unbegun(SendSide(c))
      BY <2>2 DEF S, Started, BundlesBegun
    <2> QED
      BY <2>1, <2>2
  <1>12. IsInjective(h)
    BY <1>1, StartedLast DEF Started, BundlesBegun
  <1>13. LinkListsOK(c2, l2, h, out)
    <2>1. ListsOK(ToSet(h), ToSet(h), Q \cup A, l.flight \ A, DoneOf(l), Named(E, "transmitted"),
                  Named(c.events, "cancelled"), l.cancelled, ToSet(out))
      BY <1>1, <1>2, <1>10, <1>11, ListsClose DEF LinkListsOK, S, Q
    <2>2. DoneOf(l2) = DoneOf(l)
      BY <1>8 DEF DoneOf
    <2> QED
      BY <2>1, <2>2, <1>4, <1>7, <1>8, <1>9, <1>10 DEF LinkListsOK
  <1>14. OncePerBundle(c2, l2)
    <2>1. \A i \in DOMAIN E : \/ i \in DOMAIN c.events /\ E[i] = c.events[i]
                              \/ E[i].event = "transmitted" /\ c.up
      BY <1>3, <1>6
    <2>2. "transmitted" # "cancelled" /\ "transmitted" # "close"
      OBVIOUS
    <2>3. \A i, j \in DOMAIN E :
             E[i].event = "cancelled" /\ E[j].event = "cancelled" /\ E[i].b = E[j].b => i = j
      BY <2>1, <2>2, <1>1, Zenon DEF OncePerBundle
    <2>4. ~c.up => l.done = {} /\ \A i \in DOMAIN E : E[i].event # "transmitted"
      BY <2>1, <1>1, Zenon DEF OncePerBundle
    <2>5. c.broken = "no" => \A i \in DOMAIN E : E[i].event # "close"
      BY <2>1, <2>2, <1>1, Zenon DEF OncePerBundle
    <2>6. \A x, y \in l.done : x.b = y.b => x = y
      BY <1>1, Zenon DEF OncePerBundle
    <2> QED
      BY <2>3, <2>4, <2>5, <2>6, <1>4, <1>8, Zenon DEF OncePerBundle
  <1>15. ConfirmedOK(c2, l2, d.rcvd)
    <2>1. \A i \in DOMAIN E : \/ i \in DOMAIN c.events /\ E[i] = c.events[i]
                              \/ E[i].acked # Length[E[i].b]
      BY <1>3, <1>6
    <2> QED
      BY <2>1, <1>1, <1>4, <1>8 DEF ConfirmedOK
  <1> QED
    BY <1>4, <1>7, <1>8, <1>12, <1>13, <1>14, <1>15, Zenon DEF LinkOK

(***************************************************************************)
(* The invariant.                                                          *)
(***************************************************************************)
LEMMA TheEnds ==
    ASSUME NEW e \in Ends
    PROVE  Peer(e) \in Ends /\ Peer(e) # e /\ Peer(Peer(e)) = e /\ Ends = {e, Peer(e)}
  BY DEF Ends, Peer

\* The two ends, seen from e, which began the bundles h.
EndsOK(e, h, g, own, other) ==
    LET c == conn[e]
        d == conn[Peer(e)]
    IN  /\ PairOK(c, d, h, g, own, other) /\ BufOK(c) /\ BufOK(d)
        /\ LinkOK(c, d, link[e], h, Outgoing[e]) /\ LinkOK(d, c, link[Peer(e)], g, Outgoing[Peer(e)])

StreamInv ==
    /\ conn \in [Ends -> ConnSet] /\ link \in [Ends -> LinkSet] /\ faults \in 0 .. MaxFaults
    /\ \E h, g, own, other : EndsOK("active", h, g, own, other)

\* Either end can be looked at first.
LEMMA EndsSwap ==
    ASSUME NEW e \in Ends, NEW h, NEW g, NEW own, NEW other, EndsOK(e, h, g, own, other)
    PROVE  EndsOK(Peer(e), g, h, other, own)
  BY TheEnds, PairSwap DEF EndsOK

\* The invariant, seen from an end.
LEMMA FromEitherEnd ==
    ASSUME StreamInv, NEW e \in Ends
    PROVE  \E h, g, own, other : EndsOK(e, h, g, own, other)
  <1>1. PICK h, g, own, other : EndsOK("active", h, g, own, other)
    BY DEF StreamInv
  <1>2. CASE e = "active"
    BY <1>1, <1>2
  <1>3. CASE e = "passive"
    <2>1. EndsOK(Peer("active"), g, h, other, own)
      BY <1>1, EndsSwap DEF Ends
    <2> QED
      BY <1>3, <2>1 DEF Peer
  <1> QED
    BY <1>2, <1>3 DEF Ends

\* What a step of end e does not do: to take back what a daemon was given, to
\* change what was negotiated, or to touch the link of the other end.
Calm(e) ==
    /\ Extends(conn[e].rcvd, conn'[e].rcvd)
    /\ conn[e].up => conn'[e].up /\ conn'[e].par = conn[e].par
    /\ conn'[Peer(e)].rcvd = conn[Peer(e)].rcvd /\ conn'[Peer(e)].up = conn[Peer(e)].up
    /\ conn'[Peer(e)].par = conn[Peer(e)].par /\ link'[Peer(e)] = link[Peer(e)]

\* The connection of an end from whose wire the other one reads.
Untouched(d, d2) ==
    /\ d \in ConnSet /\ d2 \in ConnSet /\ SendSide(d2) = SendSide(d)
    /\ d2.up = d.up /\ d2.par = d.par /\ d2.closed = d.closed /\ d2.broken = d.broken
    /\ d2.rcvd = d.rcvd /\ d2.events = d.events /\ d2.current = d.current

\* The link of the other end is kept.
LEMMA UntouchedContinues ==
    ASSUME NEW d, NEW d2, NEW g \in Seq(Bundles), NEW rcvd, Untouched(d, d2), d.closed => ~d.current
    PROVE  Continues(d, d2, g, g, rcvd)
  <1>1. Started(d2, g) = Started(d, g) /\ ToSet(g) \subseteq ToSet(Started(d, g))
    BY StartedHas DEF Started, Untouched
  <1>2. Extends(g, g) /\ Extends(d.events, d2.events)
    BY DEF Extends, Untouched, ConnSet
  <1>3. \A i \in DOMAIN d2.events : ~(i > Len(d.events))
    BY SMTT(30) DEF Untouched, ConnSet
  <1>4. d \in ConnSet /\ d2 \in ConnSet /\ d2.up = d.up /\ d2.par = d.par /\ d2.closed = d.closed
        /\ d2.broken = d.broken /\ d2.current = d.current
    BY DEF Untouched
  <1>5. Posts(d, d2, g, rcvd)
    BY <1>2, <1>3, <1>4 DEF Posts
  <1> QED
    BY <1>1, <1>2, <1>4, <1>5 DEF Continues

\* The new state of the two connections and of the link of e.
Becomes(e, c2, d2, l2) ==
    /\ conn' \in [Ends -> ConnSet] /\ link' \in [Ends -> LinkSet]
    /\ conn'[e] = c2 /\ conn'[Peer(e)] = d2 /\ link'[e] = l2 /\ link'[Peer(e)] = link[Peer(e)]

\* A step that takes one end to a new state that is as it should be.
LEMMA StepDone ==
    ASSUME NEW e \in Ends, NEW h, NEW g, NEW own, NEW other, EndsOK(e, h, g, own, other),
           NEW c2, NEW d2, NEW l2, Becomes(e, c2, d2, l2), NEW h2, faults' \in 0 .. MaxFaults,
           PairOK(c2, d2, h2, g, own, other), BufOK(c2), BufOK(d2),
           LinkOK(c2, d2, l2, h2, Outgoing[e]), Untouched(conn[Peer(e)], d2),
           Extends(conn[e].rcvd, c2.rcvd), conn[e].up => c2.up /\ c2.par = conn[e].par
    PROVE  StreamInv' /\ Calm(e)
  <1> DEFINE c == conn[e]
             d == conn[Peer(e)]
             m == link[Peer(e)]
  <1>1. /\ PairOK(c, d, h, g, own, other) /\ LinkOK(d, c, m, g, Outgoing[Peer(e)])
        /\ c \in ConnSet /\ c2 \in ConnSet /\ g \in Seq(Bundles)
    BY DEF EndsOK, PairOK, EndOK
  <1>2. ToSet(c.rcvd) \subseteq ToSet(c2.rcvd)
    BY <1>1, ExtendsKeeps DEF ConnSet
  <1>3. d.closed => ~d.current
    BY <1>1 DEF LinkOK
  <1> HIDE DEF c, d, m
  <1>4. Continues(d, d2, g, g, c.rcvd)
    BY <1>1, <1>3, UntouchedContinues DEF d
  <1>5. LinkOK(d2, c2, m, g, Outgoing[Peer(e)])
    BY <1>1, <1>2, <1>4, LinkKept
  <1>6. EndsOK(e, h2, g, own, other)'
    BY <1>5 DEF EndsOK, Becomes, m
  <1>7. StreamInv'
    <2>1. conn' \in [Ends -> ConnSet] /\ link' \in [Ends -> LinkSet]
      BY DEF Becomes
    <2>2. CASE e = "active"
      BY <1>6, <2>1, <2>2 DEF StreamInv
    <2>3. CASE e = "passive"
      <3>1. EndsOK(Peer(e), g, h2, other, own)'
        BY <1>6, TheEnds, PairSwap DEF EndsOK
      <3>2. Peer(e) = "active"
        BY <2>3 DEF Peer
      <3> QED
        BY <2>1, <3>1, <3>2 DEF StreamInv
    <2> QED
      BY <2>2, <2>3 DEF Ends
  <1>8. Calm(e)
    BY DEF Calm, Becomes, Untouched
  <1> QED
    BY <1>7, <1>8

(***************************************************************************)
(* What the steps of a connection mean for the link.                       *)
(***************************************************************************)
LEMMA WroteContinues ==
    ASSUME NEW c \in ConnSet, NEW c0, NEW c2, NEW V, Wrote(c0, c2, V), NEW h \in Seq(Bundles), NEW rcvd,
           Initiates(c, c0) \/ c0 = c, c.closed => ~c.current
    PROVE  Continues(c, c2, h, h, rcvd) /\ Untouched(c, c2)
  <1>1. /\ SendSide(c0) = SendSide(c) /\ RecvSide(c0) = RecvSide(c) /\ c0.up = c.up /\ c0.par = c.par
        /\ c0.closed = c.closed /\ c0.events = c.events /\ c0.broken = c.broken
    BY DEF Initiates, ConnSet, SendSide, RecvSide
  <1>2. /\ c2 \in ConnSet /\ SendSide(c2) = SendSide(c) /\ RecvSide(c2) = RecvSide(c) /\ c2.up = c.up
        /\ c2.par = c.par /\ c2.closed = c.closed /\ c2.events = c.events /\ c2.broken = c.broken
    BY <1>1 DEF Wrote, Alike
  <1>3. c2.current = c.current /\ c2.rcvd = c.rcvd
    BY <1>2, SideTypes
  <1>4. Untouched(c, c2)
    BY <1>2, <1>3 DEF Untouched
  <1> QED
    BY <1>4, UntouchedContinues

\* One event is posted.
LEMMA OnePosted ==
    ASSUME NEW E \in Seq(EventSet), NEW E2 \in Seq(EventSet), NEW ev, E2 = Append(E, ev)
    PROVE  Extends(E, E2) /\ \A i \in DOMAIN E2 : i > Len(E) => E2[i] = ev
  <1>1. E \in Seq(EventSet \cup {ev})
    OBVIOUS
  <1> QED
    BY <1>1 DEF Extends

\* No event was posted.
LEMMA NonePosted ==
    ASSUME NEW E \in Seq(EventSet), NEW E2, E2 = E
    PROVE  Extends(E, E2) /\ \A i \in DOMAIN E2 : ~(i > Len(E))
  BY DEF Extends

\* break_contact, for the link.
LEMMA BrokeContinues ==
    ASSUME NEW c, NEW c2, NEW h, NEW g, NEW own, NEW other, NEW reason, NEW rcvd,
           EndOK(c, h, g, own, other), EndOK(c2, h, g, own, other), h \in Seq(Bundles),
           Broke(c, c2, reason), c.broken = "no", reason # "no"
    PROVE  Continues(c, c2, h, h, rcvd) /\ c2.rcvd = c.rcvd /\ c2.up = c.up /\ c2.par = c.par
  <1>1. /\ c \in ConnSet /\ c2 \in ConnSet /\ ~c.closed /\ (c.up => c.contact)
        /\ ~c2.up => ~c2.current
    BY DEF EndOK
  <1>2. /\ SendSide(c2) = SendSide(c) /\ RecvSide(c2) = RecvSide(c) /\ c2.up = c.up /\ c2.par = c.par
        /\ c2.closed = ~c.contact /\ c2.contact = c.contact /\ c2.broken # "no"
        /\ c2.events = c.events \/ c2.events = Append(c.events, CloseRequest)
    BY DEF Broke
  <1>3. c2.closed => ~c2.current
    <2>1. c2.up => c2.contact
      BY DEF EndOK
    <2> QED
      BY <2>1, <1>1, <1>2
  <1>4. Started(c2, h) = Started(c, h) /\ ToSet(h) \subseteq ToSet(Started(c, h))
    BY <1>2, StartedHas DEF Started
  <1>5. c.events \in Seq(EventSet) /\ c2.events \in Seq(EventSet)
    BY <1>1 DEF ConnSet
  <1>6. /\ Extends(c.events, c2.events)
        /\ \A i \in DOMAIN c2.events : i > Len(c.events) => c2.events[i] = CloseRequest
    BY <1>2, <1>5, OnePosted, NonePosted
  <1>7. Posts(c, c2, h, rcvd)
    BY <1>1, <1>2, <1>6 DEF Posts, NewEvent
  <1>8. Extends(h, h) /\ c2.rcvd = c.rcvd
    BY <1>1, <1>2, SideTypes DEF Extends
  <1>9. c.closed => c2.closed
    BY DEF EndOK
  <1> QED
    BY <1>2, <1>3, <1>4, <1>7, <1>8, <1>9 DEF Continues

\* A read, for the link.
LEMMA TookContinues ==
    ASSUME NEW c, NEW c2, NEW d, NEW h \in Seq(Bundles), c \in ConnSet, c2 \in ConnSet,
           Took(c, c2, d, h), ~c.closed
    PROVE  Continues(c, c2, h, h, d.rcvd)
  <1>1. /\ c2.closed = c.closed /\ Started(c2, h) = Started(c, h)
        /\ c.up => c2.up /\ c2.par = c.par
        /\ c.broken # "no" => c2.broken # "no"
        /\ Extends(c.events, c2.events)
        /\ \A i \in DOMAIN c2.events : i > Len(c.events) => ReadEvent(c2.events[i], c2, d, h)
    BY DEF Took
  <1>2. ASSUME NEW ev, ReadEvent(ev, c2, d, h)
        PROVE  NewEvent(ev, c2, d.rcvd, h)
    <2>1. CASE ev = CloseRequest
      <3>1. ev.event # "transmitted" /\ \A b, m, n : Transmitted(b, m, n) # ev
        BY <2>1 DEF CloseRequest, Transmitted
      <3> QED
        BY <1>2, <2>1, <3>1 DEF NewEvent, ReadEvent
    <2>2. CASE ev # CloseRequest
      <3>1. PICK m \in 1 .. Len(h), n \in Nat :
               /\ ev = Transmitted(h[m], n, Length[h[m]]) /\ c2.up
               /\ m \in DOMAIN d.rcvd /\ d.rcvd[m] = Whole[h[m]]
        BY <1>2, <2>2 DEF ReadEvent
      <3>2. h[m] \in ToSet(h) /\ h[m] \in Bundles /\ Whole[h[m]] \in ToSet(d.rcvd)
        BY <3>1 DEF ToSet
      <3>3. Length[h[m]] \in Nat
        BY <3>2, Constants
      <3> QED
        BY <3>1, <3>2, <3>3 DEF NewEvent
    <2> QED
      BY <2>1, <2>2
  <1>3. Posts(c, c2, h, d.rcvd)
    BY <1>1, <1>2 DEF Posts
  <1>4. Extends(h, h) /\ ToSet(h) \subseteq ToSet(Started(c, h))
    BY StartedHas DEF Extends
  <1> QED
    BY <1>1, <1>3, <1>4 DEF Continues

\* send_pending_data, for the link.
LEMMA ProgressPosts ==
    ASSUME NEW c, NEW c2, NEW h, NEW g, NEW own, NEW other, NEW h2, NEW starts, NEW b, NEW rcvd,
           EndOK(c, h, g, own, other), h \in Seq(Bundles), c2 \in ConnSet,
           Progress(c, c2, h, h2, starts, b)
    PROVE  Posts(c, c2, h2, rcvd)
  <1>1. c \in ConnSet /\ (Len(h) > 0 => c.up)
    BY DEF EndOK
  <1>2. /\ h2 \in Seq(Bundles) /\ Extends(h, h2) /\ Reports(c, c2, h) /\ c2.up = c.up /\ c2.par = c.par
        /\ c2.broken = c.broken
    BY DEF Progress, Same, Alike
  <1>3. c.events \in Seq(EventSet) /\ c2.events \in Seq(EventSet)
    BY <1>1 DEF ConnSet
  <1>4. CASE c2.events = c.events
    <2>1. Extends(c.events, c2.events) /\ \A i \in DOMAIN c2.events : ~(i > Len(c.events))
      BY <1>3, <1>4, NonePosted
    <2> QED
      BY <1>1, <1>2, <2>1 DEF Posts
  <1>5. CASE c2.events # c.events
    <2> DEFINE x == h[Len(h)]
               ev == Transmitted(x, Length[x], Length[x])
    <2>1. ~c.par.acks /\ Len(h) > 0 /\ c2.events = Append(c.events, ev)
      BY <1>2, <1>5 DEF Reports
    <2>2. x \in ToSet(h2) /\ x \in Bundles
      <3>1. x \in ToSet(h) /\ x \in Bundles
        BY <2>1 DEF ToSet
      <3> QED
        BY <3>1, <1>2, ExtendsSet
    <2>3. Length[x] \in Nat
      BY <2>2, Constants
    <2> HIDE DEF x
    <2>4. NewEvent(ev, c2, rcvd, h2)
      BY <1>1, <1>2, <2>1, <2>2, <2>3 DEF NewEvent
    <2> HIDE DEF ev
    <2>5. Extends(c.events, c2.events) /\ \A i \in DOMAIN c2.events : i > Len(c.events) => c2.events[i] = ev
      BY <1>3, <2>1, OnePosted
    <2> QED
      BY <1>1, <1>2, <2>4, <2>5 DEF Posts
  <1> QED
    BY <1>4, <1>5

(***************************************************************************)
(* The actions.                                                            *)
(***************************************************************************)
LEMMA EndsFacts ==
    ASSUME NEW e \in Ends, NEW h, NEW g, NEW own, NEW other, EndsOK(e, h, g, own, other),
           NEW c, NEW d, NEW l, c = conn[e], d = conn[Peer(e)], l = link[e]
    PROVE  /\ PairOK(c, d, h, g, own, other) /\ BufOK(c) /\ BufOK(d) /\ LinkOK(c, d, l, h, Outgoing[e])
           /\ EndOK(c, h, g, own, other) /\ c \in ConnSet /\ d \in ConnSet
           /\ h \in Seq(Bundles) /\ g \in Seq(Bundles) /\ Untouched(d, d)
           /\ (c.broken = "no" => ~c.closed) /\ (c.closed => ~c.current) /\ l \in LinkSet
  <1>1. PairOK(c, d, h, g, own, other) /\ BufOK(c) /\ BufOK(d) /\ LinkOK(c, d, l, h, Outgoing[e])
    BY DEF EndsOK
  <1>2. /\ EndOK(c, h, g, own, other) /\ EndOK(d, g, h, other, own)
        /\ h \in Seq(Bundles) /\ g \in Seq(Bundles)
    BY <1>1 DEF PairOK
  <1>3. c \in ConnSet /\ d \in ConnSet /\ (c.broken = "no" => ~c.closed)
    BY <1>2 DEF EndOK
  <1>4. Untouched(d, d)
    BY <1>3 DEF Untouched
  <1>5. (c.closed => ~c.current) /\ l \in LinkSet
    BY <1>1 DEF LinkOK
  <1> QED
    BY <1>1, <1>2, <1>3, <1>4, <1>5

\* A step changes the connection of e, and its link.
LEMMA EndReplaced ==
    ASSUME StreamInv, NEW e \in Ends, NEW c2 \in ConnSet, NEW l2 \in LinkSet,
           conn' = [conn EXCEPT ![e] = c2],
           link' = [link EXCEPT ![e] = l2] \/ (link' = link /\ l2 = link[e])
    PROVE  Becomes(e, c2, conn[Peer(e)], l2)
  BY TheEnds DEF StreamInv, Becomes

\* A step after which the connection of e is c2, and the link as before.
LEMMA ConnectionStep ==
    ASSUME StreamInv, NEW e \in Ends, NEW h, NEW g, NEW own, NEW other, EndsOK(e, h, g, own, other),
           NEW c2, conn' = [conn EXCEPT ![e] = c2], link' = link, faults' \in 0 .. MaxFaults,
           PairOK(c2, conn[Peer(e)], h, g, own, other), BufOK(c2),
           Continues(conn[e], c2, h, h, conn[Peer(e)].rcvd), Extends(conn[e].rcvd, c2.rcvd)
    PROVE  StreamInv' /\ Calm(e)
  <1> DEFINE c == conn[e]
             d == conn[Peer(e)]
             l == link[e]
  <1>1. /\ BufOK(d) /\ LinkOK(c, d, l, h, Outgoing[e]) /\ Untouched(d, d) /\ l \in LinkSet
    BY EndsFacts
  <1>2. c2 \in ConnSet
    BY DEF PairOK, EndOK
  <1>3. Becomes(e, c2, d, l)
    BY <1>1, <1>2, EndReplaced
  <1>4. LinkOK(c2, d, l, h, Outgoing[e])
    BY <1>1, LinkKept
  <1>5. c.up => c2.up /\ c2.par = c.par
    BY DEF Continues, Posts
  <1> QED
    BY <1>1, <1>3, <1>4, <1>5, StepDone

\* initiate_contact keeps the invariant.
LEMMA InitiateStep ==
    ASSUME StreamInv, NEW e \in Ends, initiate_contact(e)
    PROVE  StreamInv' /\ Calm(e)
  <1>1. PICK h, g, own, other : EndsOK(e, h, g, own, other)
    BY FromEitherEnd
  <1> DEFINE c == conn[e]
             d == conn[Peer(e)]
             c0 == [c EXCEPT !.initiated = TRUE]
             c2 == Send(c0, <<Hdr(c.par)>>)
  <1>2. /\ PairOK(c, d, h, g, own, other) /\ BufOK(c) /\ c \in ConnSet /\ h \in Seq(Bundles)
        /\ c.closed => ~c.current
    BY <1>1, EndsFacts
  <1>3. c.broken = "no" /\ ~c.initiated
    BY DEF initiate_contact
  <1>4. Initiates(c, c0)
    BY DEF Initiates
  <1>5. conn' = [conn EXCEPT ![e] = c2] /\ link' = link /\ faults' \in 0 .. MaxFaults
    BY DEF initiate_contact, StreamInv
  <1> HIDE DEF c, d, c0
  <1>6. PairOK(c2, d, h, g, own, other) /\ BufOK(c2) /\ Wrote(c0, c2, <<Hdr(c.par)>>)
    BY <1>2, <1>3, <1>4, HeaderSent
  <1> HIDE DEF c2
  <1>7. Continues(c, c2, h, h, d.rcvd) /\ Untouched(c, c2)
    BY <1>2, <1>4, <1>6, WroteContinues
  <1>8. Extends(c.rcvd, c2.rcvd)
    BY <1>2, <1>7 DEF Untouched, Extends, ConnSet
  <1> QED
    BY <1>1, <1>5, <1>6, <1>7, <1>8, ConnectionStep DEF c, d

\* Steps that only write.
LEMMA WriteStep ==
    ASSUME StreamInv, NEW e \in Ends, WriteReady(e) \/ send_keepalive(e)
    PROVE  StreamInv' /\ Calm(e)
  <1>1. PICK h, g, own, other : EndsOK(e, h, g, own, other)
    BY FromEitherEnd
  <1> DEFINE c == conn[e]
             d == conn[Peer(e)]
  <1>2. /\ PairOK(c, d, h, g, own, other) /\ BufOK(c) /\ c \in ConnSet /\ h \in Seq(Bundles)
        /\ c.closed => ~c.current
    BY <1>1, EndsFacts
  <1>3. c.broken = "no" /\ c.initiated
    BY DEF WriteReady, send_keepalive, Running
  <1>4. link' = link /\ faults' \in 0 .. MaxFaults
    BY DEF WriteReady, send_keepalive, StreamInv
  <1>5. \E c2, V : /\ conn' = [conn EXCEPT ![e] = c2] /\ Wrote(c, c2, V)
                   /\ PairOK(c2, d, h, g, own, other) /\ BufOK(c2)
    <2>1. CASE WriteReady(e)
      <3>1. conn' = [conn EXCEPT ![e] = send_data(c)]
        BY <2>1 DEF WriteReady
      <3> HIDE DEF c, d
      <3> QED
        BY <1>2, <1>3, <3>1, MoreWritten
    <2>2. CASE send_keepalive(e)
      <3>1. conn' = [conn EXCEPT ![e] = Send(c, <<Keepalive>>)] /\ BetweenMessages(c)
        BY <2>2 DEF send_keepalive
      <3> HIDE DEF c, d
      <3> QED
        BY <1>2, <1>3, <3>1, KeepaliveSent
    <2> QED
      BY <2>1, <2>2
  <1>6. PICK c2, V : /\ conn' = [conn EXCEPT ![e] = c2] /\ Wrote(c, c2, V)
                     /\ PairOK(c2, d, h, g, own, other) /\ BufOK(c2)
    BY <1>5
  <1> HIDE DEF c, d
  <1>7. Continues(c, c2, h, h, d.rcvd) /\ Untouched(c, c2)
    BY <1>2, <1>6, WroteContinues
  <1>8. Extends(c.rcvd, c2.rcvd)
    BY <1>2, <1>7 DEF Untouched, Extends, ConnSet
  <1> QED
    BY <1>1, <1>4, <1>6, <1>7, <1>8, ConnectionStep DEF c, d

\* The connection is given up.
LEMMA GivenUpStep ==
    ASSUME StreamInv, NEW e \in Ends, PeerGone(e) \/ Break(e) \/ Idle(e)
    PROVE  StreamInv' /\ Calm(e)
  <1>1. PICK h, g, own, other : EndsOK(e, h, g, own, other)
    BY FromEitherEnd
  <1> DEFINE c == conn[e]
             d == conn[Peer(e)]
  <1>2. /\ PairOK(c, d, h, g, own, other) /\ BufOK(c) /\ c \in ConnSet /\ h \in Seq(Bundles)
        /\ EndOK(c, h, g, own, other)
    BY <1>1, EndsFacts
  <1>3. c.broken = "no" /\ c.initiated
    BY DEF PeerGone, Break, Idle, Running
  <1>4. link' = link /\ faults' \in 0 .. MaxFaults
    <2>1. faults \in 0 .. MaxFaults /\ MaxFaults \in Nat
      BY StreamAssumption DEF StreamInv
    <2>2. faults' = faults \/ (faults < MaxFaults /\ faults' = faults + 1)
      BY DEF PeerGone, Break, Idle, Fault
    <2> QED
      BY <2>1, <2>2 DEF PeerGone, Break, Idle
  <1>5. PICK reason \in {"BROKEN", "IDLE"} : conn' = [conn EXCEPT ![e] = break_contact(c, reason)]
    BY DEF PeerGone, Break, Idle
  <1> DEFINE c2 == break_contact(c, reason)
  <1> HIDE DEF c, d
  <1>6. PairOK(c2, d, h, g, own, other) /\ BufOK(c2) /\ Broke(c, c2, reason)
    <2>1. reason \in Reasons \ {"CL_ERROR"}
      BY DEF Reasons
    <2> QED
      BY <1>2, <1>3, <2>1, BreakContact
  <1>7. conn' = [conn EXCEPT ![e] = c2]
    BY <1>5
  <1> HIDE DEF c2
  <1>8. Continues(c, c2, h, h, d.rcvd) /\ c2.rcvd = c.rcvd
    <2>1. EndOK(c2, h, g, own, other)
      BY <1>6 DEF PairOK
    <2> QED
      BY <1>2, <1>3, <1>6, <2>1, BrokeContinues
  <1>9. Extends(c.rcvd, c2.rcvd)
    BY <1>2, <1>8 DEF Extends, ConnSet
  <1> QED
    BY <1>1, <1>4, <1>6, <1>7, <1>8, <1>9, ConnectionStep DEF c, d

\* What is read is taken from the wire.
LEMMA WireUntouched ==
    ASSUME NEW d \in ConnSet, NEW W \in Seq(UnitSet), NEW d2, OnWire(d, W, d2), Len(W) <= Len(d.wire), BufOK(d)
    PROVE  Untouched(d, d2) /\ BufOK(d2)
  <1>1. /\ d2 \in ConnSet /\ SendSide(d2) = SendSide(d) /\ d2.up = d.up /\ d2.par = d.par
        /\ d2.closed = d.closed /\ d2.broken = d.broken /\ d2.rcvd = d.rcvd /\ d2.events = d.events /\ d2.current = d.current
        /\ d2.wire = W /\ d2.sendbuf = d.sendbuf
    BY DEF OnWire, ConnSet, SendSide
  <1>2. Len(W) \in Nat /\ Len(d.wire) \in Nat /\ WireLen \in Nat
    BY Constants DEF ConnSet
  <1> QED
    BY <1>1, <1>2 DEF Untouched, BufOK

\* A read and process_data keep the invariant.
LEMMA ReadStep ==
    ASSUME StreamInv, NEW e \in Ends, ReadReady(e)
    PROVE  StreamInv' /\ Calm(e)
  <1>1. PICK h, g, own, other : EndsOK(e, h, g, own, other)
    BY FromEitherEnd
  <1> DEFINE c == conn[e]
             d == conn[Peer(e)]
             l == link[e]
             w == d.wire
  <1>2. /\ PairOK(c, d, h, g, own, other) /\ BufOK(c) /\ BufOK(d) /\ LinkOK(c, d, l, h, Outgoing[e])
        /\ c \in ConnSet /\ d \in ConnSet /\ h \in Seq(Bundles) /\ (c.broken = "no" => ~c.closed)
        /\ l \in LinkSet
    BY <1>1, EndsFacts
  <1>3. c.broken = "no" /\ c.initiated /\ link' = link /\ faults' \in 0 .. MaxFaults
    BY DEF ReadReady, CanRead, Running, StreamInv
  <1>4. PICK k \in 1 .. Len(w) :
           conn' = [conn EXCEPT ![e] = process_data(c, SubSeq(w, 1, k)),
                                ![Peer(e)].wire = SubSeq(w, k + 1, Len(w))]
    BY DEF ReadReady
  <1> DEFINE read == SubSeq(w, 1, k)
             W == SubSeq(w, k + 1, Len(w))
             c2 == process_data(c, read)
             d2 == [d EXCEPT !.wire = W]
  <1>5. w \in Seq(UnitSet)
    BY <1>2 DEF ConnSet
  <1>6. /\ read \in Seq(UnitSet) /\ W \in Seq(UnitSet) /\ w = read \o W /\ Len(W) <= Len(w)
    <2>1. k \in 0 .. Len(w) /\ Len(w) \in Nat
      BY <1>5
    <2> HIDE DEF w
    <2> QED
      BY <1>5, <2>1, SplitAt
  <1>7. OnWire(d, W, d2)
    BY DEF OnWire
  <1>8. conn' \in [Ends -> ConnSet] /\ conn'[e] = c2 /\ conn'[Peer(e)] = d2
    <2>1. conn \in [Ends -> ConnSet]
      BY DEF StreamInv
    <2> HIDE DEF read, W
    <2>2. d2 \in ConnSet
      BY <1>2, <1>6 DEF ConnSet
    <2>3. conn' = [conn EXCEPT ![e] = c2, ![Peer(e)] = d2]
      BY <1>4, <2>1, TheEnds DEF read, W
    <2> HIDE DEF c, d2, d
    <2>4. c2 \in ConnSet
      <3>1. PairOK(c2, d2, h, g, own, other)
        BY <1>2, <1>3, <1>6, <1>7, DataProcessed
      <3> QED
        BY <3>1 DEF PairOK, EndOK
    <2> HIDE DEF c2
    <2> QED
      BY <2>1, <2>2, <2>3, <2>4, TheEnds
  <1>9. Becomes(e, c2, d2, l)
    <2> HIDE DEF c2, d2
    <2> QED
      BY <1>3, <1>8 DEF Becomes, StreamInv
  <1> HIDE DEF c, d, w, read, W, d2
  <1>10. PairOK(c2, d2, h, g, own, other) /\ BufOK(c2) /\ Took(c, c2, d, h)
    BY <1>2, <1>3, <1>6, <1>7, DataProcessed DEF w
  <1>11. Untouched(d, d2) /\ BufOK(d2)
    BY <1>2, <1>6, <1>7, WireUntouched DEF w
  <1> HIDE DEF c2
  <1>12. c2 \in ConnSet
    BY <1>10 DEF PairOK, EndOK
  <1>13. Continues(c, c2, h, h, d.rcvd)
    BY <1>2, <1>3, <1>10, <1>12, TookContinues
  <1>14. LinkOK(c2, d2, l, h, Outgoing[e])
    <2>1. ToSet(d.rcvd) \subseteq ToSet(d2.rcvd)
      BY <1>11 DEF Untouched
    <2> QED
      BY <1>2, <1>13, <2>1, LinkKept
  <1>15. Extends(c.rcvd, c2.rcvd) /\ (c.up => c2.up /\ c2.par = c.par)
    BY <1>10 DEF Took
  <1> QED
    BY <1>1, <1>3, <1>9, <1>10, <1>11, <1>14, <1>15, StepDone DEF c, d

\* send_pending_data keeps the invariant.
LEMMA PendingStep ==
    ASSUME StreamInv, NEW e \in Ends, send_pending_data(e)
    PROVE  StreamInv' /\ Calm(e)
  <1>1. PICK h, g, own, other : EndsOK(e, h, g, own, other)
    BY FromEitherEnd
  <1> DEFINE c == conn[e]
             d == conn[Peer(e)]
             l == link[e]
             b == Head(l.queue)
             starts == SendPending(e).starts
             c2 == SendPending(e).conn
  <1>2. /\ PairOK(c, d, h, g, own, other) /\ BufOK(c) /\ BufOK(d) /\ LinkOK(c, d, l, h, Outgoing[e])
        /\ c \in ConnSet /\ d \in ConnSet /\ h \in Seq(Bundles) /\ (c.broken = "no" => ~c.closed)
        /\ l \in LinkSet /\ Untouched(d, d) /\ EndOK(c, h, g, own, other)
    BY <1>1, EndsFacts
  <1>3. /\ c.broken = "no" /\ conn' = [conn EXCEPT ![e] = c2] /\ faults' \in 0 .. MaxFaults
        /\ link' = IF starts THEN [link EXCEPT ![e].queue = Tail(@), ![e].flight = @ \cup {b}] ELSE link
    BY DEF send_pending_data, CanSend, Running, StreamInv
  <1>4. SendsPending(c, l.queue, starts, c2)
    BY DEF SendPending, SendsPending
  <1>5. l.queue \in Seq(Bundles)
    BY <1>2 DEF LinkSet
  <1> HIDE DEF c, d, l, starts, c2
  <1>6. PICK h2 : /\ PairOK(c2, d, h2, g, own, other) /\ BufOK(c2)
                  /\ Progress(c, c2, h, h2, starts, Head(l.queue)) /\ (starts => l.queue # <<>>)
    BY <1>2, <1>3, <1>4, <1>5, PendingSent
  <1>7. c2 \in ConnSet
    BY <1>6 DEF PairOK, EndOK
  <1>8. Posts(c, c2, h2, d.rcvd)
    BY <1>2, <1>6, <1>7, ProgressPosts
  <1>9. /\ h2 \in Seq(Bundles) /\ Extends(h, h2) /\ c2.closed = c.closed /\ c2.rcvd = c.rcvd
        /\ c2.up = c.up /\ c2.par = c.par
        /\ (starts => Started(c2, h2) = Append(Started(c, h), b))
        /\ (~starts => Started(c2, h2) = Started(c, h))
    BY <1>6 DEF Progress, Same, Alike
  <1>10. Extends(c.rcvd, c2.rcvd) /\ (c.up => c2.up /\ c2.par = c.par)
    BY <1>2, <1>9 DEF Extends, ConnSet
  <1>11. CASE starts
    <2> DEFINE l2 == [l EXCEPT !.queue = Tail(@), !.flight = @ \cup {b}]
    <2>1. StartsOn(l, l2, b)
      BY <1>6, <1>11 DEF StartsOn
    <2>2. link' = [link EXCEPT ![e] = l2]
      BY <1>3, <1>11 DEF l, StreamInv
    <2> HIDE DEF l2, b
    <2>3. LinkOK(c2, d, l2, h2, Outgoing[e])
      BY <1>2, <1>3, <1>8, <1>9, <1>11, <2>1, LinkStarts
    <2>4. l2 \in LinkSet
      BY <2>3 DEF LinkOK
    <2>5. Becomes(e, c2, d, l2)
      BY <1>3, <1>7, <2>2, <2>4, EndReplaced DEF d
    <2> QED
      BY <1>1, <1>2, <1>3, <1>6, <1>10, <2>3, <2>5, StepDone DEF c, d
  <1>12. CASE ~starts
    <2>1. link' = link
      BY <1>3, <1>12
    <2>2. ToSet(h2) \subseteq ToSet(Started(c, h))
      BY <1>9, <1>12, StartedHas
    <2>3. Continues(c, c2, h, h2, d.rcvd)
      BY <1>2, <1>3, <1>8, <1>9, <1>12, <2>2 DEF Continues
    <2>4. LinkOK(c2, d, l, h2, Outgoing[e])
      BY <1>2, <2>3, LinkKept
    <2>5. Becomes(e, c2, d, l)
      BY <1>2, <1>3, <1>7, <2>1, EndReplaced DEF d, l
    <2> QED
      BY <1>1, <1>2, <1>3, <1>6, <1>10, <2>4, <2>5, StepDone DEF c, d
  <1> QED
    BY <1>11, <1>12

\* handle_cancel_bundle keeps the invariant.
LEMMA CancelBundleStep ==
    ASSUME StreamInv, NEW e \in Ends, handle_cancel_bundle(e)
    PROVE  StreamInv' /\ Calm(e)
  <1>1. PICK h, g, own, other : EndsOK(e, h, g, own, other)
    BY FromEitherEnd
  <1> DEFINE c == conn[e]
             d == conn[Peer(e)]
             l == link[e]
  <1>2. /\ PairOK(c, d, h, g, own, other) /\ BufOK(c) /\ BufOK(d) /\ LinkOK(c, d, l, h, Outgoing[e])
        /\ c \in ConnSet /\ d \in ConnSet /\ h \in Seq(Bundles) /\ (c.broken = "no" => ~c.closed)
        /\ l \in LinkSet /\ Untouched(d, d)
    BY <1>1, EndsFacts
  <1>3. c.broken = "no" /\ link' = link
    BY DEF handle_cancel_bundle, Running
  <1>4. faults' \in 0 .. MaxFaults
    <2>1. faults \in 0 .. MaxFaults /\ MaxFaults \in Nat
      BY StreamAssumption DEF StreamInv
    <2>2. faults < MaxFaults /\ faults' = faults + 1
      BY DEF handle_cancel_bundle, Fault
    <2> QED
      BY <2>1, <2>2
  <1>a. PICK i \in 1 .. Len(c.inflight) :
           /\ c.inflight[i].sent = 0 /\ ~((c.current /\ i = Len(c.inflight)) /\ c.todo # 0)
           /\ conn' = [conn EXCEPT ![e] =
                 [c EXCEPT !.current = @ /\ ~(c.current /\ i = Len(c.inflight)),
                           !.inflight = RemoveAt(@, i),
                           !.events = Append(@, SendCancelled(c.inflight[i].b))]]
    BY Zenon DEF handle_cancel_bundle, NothingSent, IsCurrent
  <1> DEFINE c2 == [c EXCEPT !.current = @ /\ ~(c.current /\ i = Len(c.inflight)),
                             !.inflight = RemoveAt(@, i),
                             !.events = Append(@, SendCancelled(c.inflight[i].b))]
  <1>5. conn' = [conn EXCEPT ![e] = c2] /\ Cancels(c, i, c2)
    <2>1. conn' = [conn EXCEPT ![e] = c2]
      BY <1>a
    <2>2. Cancels(c, i, c2)
      <3>1. /\ c.inflight[i].sent = 0 /\ ~((c.current /\ i = Len(c.inflight)) /\ c.todo # 0)
            /\ i \in 1 .. Len(c.inflight)
        BY <1>a
      <3> HIDE DEF c
      <3> QED
        BY <3>1, Zenon DEF Cancels
    <2> QED
      BY <2>1, <2>2
  <1> HIDE DEF c, d, l, c2
  <1>6. PairOK(c2, d, h, g, own, other) /\ BufOK(c2) /\ Cancelled(c, c2)
    BY <1>2, <1>3, <1>5, CancelStep
  <1>7. LinkOK(c2, d, l, h, Outgoing[e])
    BY <1>2, <1>3, <1>6, LinkCancels
  <1>8. c2 \in ConnSet
    BY <1>6 DEF PairOK, EndOK
  <1>9. Becomes(e, c2, d, l)
    BY <1>2, <1>3, <1>5, <1>8, EndReplaced DEF d, l
  <1>10. Extends(c.rcvd, c2.rcvd) /\ (c.up => c2.up /\ c2.par = c.par)
    <2>1. RecvSide(c2) = RecvSide(c) /\ c2.up = c.up /\ c2.par = c.par
      BY <1>6 DEF Cancelled, Alike
    <2>2. c2.rcvd = c.rcvd
      BY <1>2, <1>8, <2>1, SideTypes
    <2> QED
      BY <1>2, <2>1, <2>2 DEF Extends, ConnSet
  <1> QED
    BY <1>1, <1>2, <1>4, <1>6, <1>7, <1>9, <1>10, StepDone DEF c, d

\* What close_contact does to the connection and to the link.
LEMMA ClosedFields ==
    ASSUME NEW e, NEW c1, close_contact(e, c1), NEW l, l = link[e]
    PROVE  \E c2, l2 : /\ conn' = [conn EXCEPT ![e] = c2] /\ link' = [link EXCEPT ![e] = l2]
                       /\ Closes(c1, c1.events \o PartEvents(Part(c1)), c2) /\ GivesBack(c1, l, l2)
  <1> DEFINE back(f) == \/ ~c1.par.reactive \/ f.sent = 0
                        \/ c1.par.reliable /\ f.acked = 0
             all == ToSet(c1.inflight)
             again == OnlyIn(c1.inflight, {f \in all : back(f) /\ StillInFlight(e, f)})
             part == OnlyIn(c1.inflight, {f \in all : ~back(f) /\ ~f.posted})
             some == c1.incoming # <<>> /\ Last(c1.incoming).total = 0
                     /\ c1.par.reactive /\ Len(Last(c1.incoming).data) > HeaderLen
             old == {again[i].b : i \in DOMAIN again}
             P == [i \in DOMAIN part |-> Transmitted(part[i].b, part[i].sent, part[i].acked)]
             N == [i \in DOMAIN again |-> again[i].b]
             E == c1.events \o P
             c2 == [c1 EXCEPT !.closed = TRUE, !.inflight = <<>>, !.incoming = <<>>,
                        !.sendbuf = <<>>, !.recvbuf = <<>>, !.current = FALSE,
                        !.todo = 0, !.rcvTodo = 0, !.events = E,
                        !.rcvd = IF some THEN Append(@, Last(c1.incoming).data) ELSE @]
             l2 == [l EXCEPT !.flight = @ \ old, !.queue = @ \o N]
  <1>1. again = Again(c1, l) /\ part = Part(c1)
    BY DEF Again, Part, GoesBack, StillInFlight
  <1>2. N = NamesOf(Again(c1, l)) /\ P = PartEvents(Part(c1))
    BY <1>1 DEF NamesOf, PartEvents
  <1>3. old = ToSet(N)
    BY DEF ToSet
  <1>4. conn' = [conn EXCEPT ![e] = c2]
    BY DEF close_contact
  <1>5. link' = [link EXCEPT ![e].flight = @ \ old, ![e].queue = @ \o N]
    BY DEF close_contact
  <1>6. link' = [link EXCEPT ![e] = l2]
    <2> HIDE DEF old, N
    <2> QED
      BY <1>5
  <1>7. some = SomeReceived(c1)
    BY DEF SomeReceived
  <1>8. Closes(c1, c1.events \o PartEvents(Part(c1)), c2)
    <2> HIDE DEF some, P, part
    <2> QED
      BY <1>2, <1>7 DEF Closes
  <1>9. GivesBack(c1, l, l2)
    <2> HIDE DEF old, N
    <2> QED
      BY <1>2, <1>3 DEF GivesBack
  <1> QED
    BY <1>4, <1>6, <1>8, <1>9

\* The contact of a connection that was given up is closed; c1 is the connection
\* before that, in the same step.
LEMMA ClosesStep ==
    ASSUME StreamInv, NEW e \in Ends, NEW h, NEW g, NEW own, NEW other, EndsOK(e, h, g, own, other),
           NEW c1, close_contact(e, c1), PairOK(c1, conn[Peer(e)], h, g, own, other), BufOK(c1),
           c1.broken # "no", ~c1.closed, LinkOK(c1, conn[Peer(e)], link[e], h, Outgoing[e]),
           c1.rcvd = conn[e].rcvd, c1.up = conn[e].up, c1.par = conn[e].par,
           faults' \in 0 .. MaxFaults
    PROVE  StreamInv' /\ Calm(e)
  <1> DEFINE c == conn[e]
             d == conn[Peer(e)]
             l == link[e]
             P == PartEvents(Part(c1))
             E == c1.events \o P
  <1>1. BufOK(d) /\ Untouched(d, d) /\ c \in ConnSet
    BY EndsFacts
  <1>2. PICK c2, l2 : /\ conn' = [conn EXCEPT ![e] = c2] /\ link' = [link EXCEPT ![e] = l2]
                      /\ Closes(c1, E, c2) /\ GivesBack(c1, l, l2)
    BY ClosedFields
  <1>3. /\ c1 \in ConnSet /\ h \in Seq(Bundles) /\ c1.par.acks \in BOOLEAN
        /\ SendOK(SendSide(c1), c1.par.acks, h) /\ (c1.inflight # <<>> => c1.up)
    <2>1. EndOK(c1, h, g, own, other) /\ h \in Seq(Bundles)
      BY DEF PairOK
    <2>2. c1 \in ConnSet /\ SendOK(SendSide(c1), c1.par.acks, h) /\ (c1.inflight # <<>> => c1.up)
      BY <2>1 DEF EndOK
    <2> QED
      BY <2>1, <2>2 DEF ConnSet, AllParams
  <1>4. E \in Seq(EventSet)
    <2>1. Started(c1, h) \in Seq(Bundles)
      BY DEF LinkOK
    <2>2. P \in Seq(EventSet)
      BY <1>3, <2>1, PartFacts
    <2>3. c1.events \in Seq(EventSet)
      BY <1>3 DEF ConnSet
    <2> HIDE DEF P
    <2> QED
      BY <2>2, <2>3
  <1> HIDE DEF E, d, l, c
  <1>5. PairOK(c2, d, h, g, own, other) /\ BufOK(c2) /\ Closed(c1, E, c2)
    BY <1>2, <1>4, ContactClosed DEF d
  <1>6. LinkOK(c2, d, l2, h, Outgoing[e])
    BY <1>2, <1>3, <1>5, LinkCloses DEF d, l, E
  <1>7. c2 \in ConnSet /\ l2 \in LinkSet
    BY <1>5, <1>6 DEF LinkOK, Closed
  <1>8. Becomes(e, c2, d, l2)
    BY <1>2, <1>7, EndReplaced DEF d
  <1>9. Extends(c.rcvd, c2.rcvd) /\ (c.up => c2.up /\ c2.par = c.par)
    BY <1>5 DEF Closed, c
  <1> QED
    BY <1>1, <1>5, <1>6, <1>8, <1>9, StepDone DEF c, d

\* The daemon's closing the link keeps the invariant.
LEMMA UserCloseStep ==
    ASSUME StreamInv, NEW e \in Ends, UserClose(e)
    PROVE  StreamInv' /\ Calm(e)
  <1>1. PICK h, g, own, other : EndsOK(e, h, g, own, other)
    BY FromEitherEnd
  <1> DEFINE c == conn[e]
             d == conn[Peer(e)]
             l == link[e]
             c1 == break_contact(c, "USER")
  <1>2. /\ PairOK(c, d, h, g, own, other) /\ BufOK(c) /\ LinkOK(c, d, l, h, Outgoing[e])
        /\ c \in ConnSet /\ d \in ConnSet /\ h \in Seq(Bundles) /\ EndOK(c, h, g, own, other)
    BY <1>1, EndsFacts
  <1>3. /\ c.contact /\ c.initiated /\ ~c.closed /\ close_contact(e, c1)
    BY DEF UserClose
  <1>4. faults' \in 0 .. MaxFaults
    <2>1. faults \in 0 .. MaxFaults /\ MaxFaults \in Nat
      BY StreamAssumption DEF StreamInv
    <2>2. faults' = faults \/ (faults < MaxFaults /\ faults' = faults + 1)
      BY DEF UserClose, Fault
    <2> QED
      BY <2>1, <2>2
  <1>5. CASE c.broken # "no"
    <2>1. c1 = c
      BY <1>5 DEF break_contact
    <2> HIDE DEF c1
    <2> QED
      BY <1>1, <1>2, <1>3, <1>4, <1>5, <2>1, ClosesStep
  <1>6. CASE c.broken = "no"
    <2> HIDE DEF c, d, l
    <2>1. PairOK(c1, d, h, g, own, other) /\ BufOK(c1) /\ Broke(c, c1, "USER")
      <3>1. "USER" \in Reasons \ {"CL_ERROR"}
        BY DEF Reasons
      <3> QED
        BY <1>2, <1>3, <1>6, <3>1, BreakContact
    <2> HIDE DEF c1
    <2>2. EndOK(c1, h, g, own, other)
      BY <2>1 DEF PairOK
    <2>3. Continues(c, c1, h, h, d.rcvd) /\ c1.rcvd = c.rcvd /\ c1.up = c.up /\ c1.par = c.par
      BY <1>2, <1>6, <2>1, <2>2, BrokeContinues
    <2>4. LinkOK(c1, d, l, h, Outgoing[e])
      BY <1>2, <2>3, LinkKept
    <2>5. c1.broken # "no" /\ ~c1.closed
      BY <1>3, <2>1 DEF Broke
    <2> QED
      BY <1>1, <1>3, <1>4, <2>1, <2>3, <2>4, <2>5, ClosesStep DEF c, d, l
  <1> QED
    BY <1>5, <1>6

\* The daemon's handling of an event keeps the invariant.
LEMMA EventStep ==
    ASSUME StreamInv, NEW e \in Ends, HandleEvent(e)
    PROVE  StreamInv' /\ Calm(e)
  <1>1. PICK h, g, own, other : EndsOK(e, h, g, own, other)
    BY FromEitherEnd
  <1> DEFINE c == conn[e]
             d == conn[Peer(e)]
             l == link[e]
             ev == Head(c.events)
             c1 == [c EXCEPT !.events = Tail(@)]
  <1>2. /\ PairOK(c, d, h, g, own, other) /\ BufOK(c) /\ BufOK(d) /\ LinkOK(c, d, l, h, Outgoing[e])
        /\ c \in ConnSet /\ d \in ConnSet /\ h \in Seq(Bundles) /\ EndOK(c, h, g, own, other)
        /\ Untouched(d, d) /\ l \in LinkSet
    BY <1>1, EndsFacts
  <1>3. c.events # <<>> /\ faults' \in 0 .. MaxFaults
    BY DEF HandleEvent, StreamInv
  <1>4. \/ /\ ev.event = "transmitted" /\ conn' = [conn EXCEPT ![e] = c1]
           /\ handle_bundle_transmitted(e, ev)
        \/ /\ ev.event = "cancelled" /\ conn' = [conn EXCEPT ![e] = c1]
           /\ handle_bundle_cancelled(e, ev)
        \/ ev.event = "close" /\ conn' = [conn EXCEPT ![e] = c1] /\ link' = link
        \/ ev.event = "close" /\ ~c.closed /\ close_contact(e, c1)
    BY Zenon DEF HandleEvent
  <1>5. TakesEvent(c, c1)
    BY <1>3 DEF TakesEvent
  <1> HIDE DEF c1
  <1>6. PairOK(c1, d, h, g, own, other) /\ BufOK(c1) /\ OnlyEvents(c, c1)
    BY <1>2, <1>5, EventTaken
  <1>7. /\ c1 \in ConnSet /\ c1.rcvd = c.rcvd /\ c1.up = c.up /\ c1.par = c.par
        /\ c1.broken = c.broken /\ c1.closed = c.closed
    BY <1>6 DEF OnlyEvents, Alike
  <1>8. Extends(c.rcvd, c1.rcvd)
    BY <1>2, <1>7 DEF Extends, ConnSet
  <1>9. ASSUME NEW l2, conn' = [conn EXCEPT ![e] = c1],
               link' = [link EXCEPT ![e] = l2] \/ (link' = link /\ l2 = l),
               LinkOK(c1, d, l2, h, Outgoing[e])
        PROVE  StreamInv' /\ Calm(e)
    <2>1. l2 \in LinkSet
      BY <1>9 DEF LinkOK
    <2>2. Becomes(e, c1, d, l2)
      BY <1>7, <1>9, <2>1, EndReplaced
    <2> QED
      BY <1>1, <1>2, <1>3, <1>6, <1>7, <1>8, <1>9, <2>2, StepDone
  <1>10. CASE ev.event = "transmitted" /\ conn' = [conn EXCEPT ![e] = c1] /\ handle_bundle_transmitted(e, ev)
    <2>1. CASE ev.b \in DoneOf(l) \cup l.cancelled
      <3>1. link' = link
        BY <1>10, <2>1 DEF handle_bundle_transmitted, Redundant, DoneOf
      <3>2. LinkOK(c1, d, l, h, Outgoing[e])
        BY <1>2, <1>3, <1>6, <1>10, LinkIgnores
      <3> QED
        BY <1>9, <1>10, <3>1, <3>2
    <2>2. CASE ev.b \notin DoneOf(l) \cup l.cancelled
      <3> DEFINE l2 == [l EXCEPT !.flight = @ \ {ev.b}, !.queue = OnlyIn(@, Bundles \ {ev.b}),
                  !.done = @ \cup {[b |-> ev.b, n |-> IF c.par.reliable THEN ev.acked ELSE ev.sent]}]
      <3>1. Settles(c, l, l2, ev)
        BY <2>2 DEF Settles
      <3>2. link' = [link EXCEPT ![e] = l2]
        <4>1. link' = [link EXCEPT ![e].flight = @ \ {ev.b},
                                   ![e].queue = OnlyIn(@, Bundles \ {ev.b}),
                                   ![e].done = @ \cup {[b |-> ev.b, n |-> Counted(e, ev)]}]
          BY <1>10, <2>2 DEF handle_bundle_transmitted, Redundant, DoneOf
        <4>2. Counted(e, ev) = IF c.par.reliable THEN ev.acked ELSE ev.sent
          BY DEF Counted
        <4> HIDE DEF ev
        <4> QED
          BY <4>1, <4>2 DEF StreamInv
      <3> HIDE DEF l2
      <3>3. LinkOK(c1, d, l2, h, Outgoing[e])
        BY <1>2, <1>3, <1>6, <1>10, <3>1, LinkSettles
      <3> QED
        BY <1>9, <1>10, <3>2, <3>3
    <2> QED
      BY <2>1, <2>2
  <1>11. CASE ev.event = "cancelled" /\ conn' = [conn EXCEPT ![e] = c1] /\ handle_bundle_cancelled(e, ev)
    <2> DEFINE l2 == [l EXCEPT !.cancelled = @ \cup {ev.b}]
    <2>1. TakesBack(l, l2, ev)
      BY DEF TakesBack
    <2>2. link' = [link EXCEPT ![e] = l2]
      <3>1. ev.b \notin DoneOf(l) \cup l.cancelled
        BY <1>2, <1>3, <1>11, CancelledUnknown
      <3>2. link' = [link EXCEPT ![e].cancelled = @ \cup {ev.b}]
        BY <1>11, <3>1 DEF handle_bundle_cancelled, Redundant, DoneOf
      <3> HIDE DEF ev
      <3> QED
        BY <3>2 DEF StreamInv
    <2> HIDE DEF l2
    <2>3. LinkOK(c1, d, l2, h, Outgoing[e])
      BY <1>2, <1>3, <1>6, <1>11, <2>1, LinkTakesBack
    <2> QED
      BY <1>9, <1>11, <2>2, <2>3
  <1>12. CASE ev.event = "close" /\ conn' = [conn EXCEPT ![e] = c1] /\ link' = link
    <2>1. LinkOK(c1, d, l, h, Outgoing[e])
      BY <1>2, <1>3, <1>6, <1>12, LinkIgnores
    <2> QED
      BY <1>9, <1>12, <2>1
  <1>13. CASE ev.event = "close" /\ ~c.closed /\ close_contact(e, c1)
    <2>1. LinkOK(c1, d, l, h, Outgoing[e])
      BY <1>2, <1>3, <1>6, <1>13, LinkIgnores
    <2>2. c.broken # "no"
      <3>1. c.events \in Seq(EventSet)
        BY <1>2 DEF ConnSet
      <3>2. 1 \in DOMAIN c.events /\ ev = c.events[1]
        BY <1>3, <3>1, TailOf
      <3>3. OncePerBundle(c, l)
        BY <1>2 DEF LinkOK
      <3> QED
        BY <1>13, <3>2, <3>3, Zenon DEF OncePerBundle
    <2> QED
      BY <1>1, <1>3, <1>6, <1>7, <1>13, <2>1, <2>2, ClosesStep
  <1> QED
    BY <1>4, <1>10, <1>11, <1>12, <1>13

\* So does every step of an end.
LEMMA NextStep ==
    ASSUME StreamInv, NEW e \in Ends,
           \/ initiate_contact(e) \/ send_pending_data(e)
           \/ WriteReady(e) \/ ReadReady(e) \/ send_keepalive(e)
           \/ PeerGone(e) \/ Break(e) \/ Idle(e)
           \/ handle_cancel_bundle(e) \/ UserClose(e) \/ HandleEvent(e)
    PROVE  StreamInv' /\ Calm(e)
  BY InitiateStep, PendingStep, WriteStep, ReadStep, GivenUpStep, CancelBundleStep,
     UserCloseStep, EventStep

\* Every step keeps the invariant.
LEMMA StreamStep == StreamInv /\ [Next]_vars => StreamInv'
  <1> SUFFICES ASSUME StreamInv, [Next]_vars
               PROVE  StreamInv'
    OBVIOUS
  <1>1. CASE UNCHANGED vars
    BY <1>1 DEF vars, StreamInv, EndsOK
  <1>2. CASE Next
    BY <1>2, NextStep DEF Next
  <1> QED
    BY <1>1, <1>2

(***************************************************************************)
(* The start.                                                              *)
(***************************************************************************)
LEMMA FreshFields ==
    ASSUME NEW e \in Ends, NEW p \in AllParams, NEW c, c = NewConnection(e, p, NoParams)
    PROVE  /\ c \in ConnSet /\ c.par = p /\ c.ok /\ c.broken = "no" /\ ~c.up /\ ~c.initiated /\ ~c.closed
           /\ c.sendbuf = <<>> /\ c.wire = <<>> /\ c.recvbuf = <<>> /\ c.inflight = <<>>
           /\ ~c.current /\ c.todo = 0 /\ c.incoming = <<>> /\ c.rcvTodo = 0
           /\ c.events = <<>> /\ c.rcvd = <<>>
  <1>1. c = [contact |-> e = "active", par |-> p, old |-> NoParams, initiated |-> FALSE,
             up |-> FALSE, broken |-> "no", closed |-> FALSE, ok |-> TRUE,
             sendbuf |-> <<>>, wire |-> <<>>, recvbuf |-> <<>>, stall |-> FALSE,
             inflight |-> <<>>, current |-> FALSE, todo |-> 0,
             incoming |-> <<>>, rcvTodo |-> 0, events |-> <<>>, rcvd |-> <<>>]
    BY DEF NewConnection
  <1>2. (e = "active") \in BOOLEAN /\ "no" \in Reasons \cup {"no"}
    OBVIOUS
  <1>3. /\ <<>> \in Seq(UnitSet) /\ <<>> \in Seq(FlightSet) /\ <<>> \in Seq(IncomingSet)
        /\ <<>> \in Seq(EventSet) /\ <<>> \in Seq(Seq(UnitSet))
    OBVIOUS
  <1>4. c \in ConnSet
    BY <1>1, <1>2, <1>3 DEF ConnSet
  <1> QED
    BY <1>1, <1>4

\* A new connection is as it should be.
LEMMA FreshEnd ==
    ASSUME NEW e \in Ends, NEW p \in AllParams, NEW c, c = NewConnection(e, p, NoParams), NEW own, NEW other,
           own = p.acks
    PROVE  /\ EndOK(c, <<>>, <<>>, own, other)
           /\ SentJ(SendSide(c), <<>>) = 0 /\ SentN(SendSide(c)) = 0
           /\ AckedJ(SendSide(c), <<>>) = 0 /\ AckedN(SendSide(c)) = 0
           /\ GaveJ(RecvSide(c)) = 0 /\ GaveN(RecvSide(c)) = 0 /\ RecvN(RecvSide(c)) = 0
  <1> DEFINE s == SendSide(c)
             r == RecvSide(c)
             F == <<>>
  <1>1. /\ c \in ConnSet /\ c.par = p /\ c.ok /\ c.broken = "no" /\ ~c.up /\ ~c.initiated /\ ~c.closed
        /\ c.sendbuf = F /\ c.wire = F /\ c.recvbuf = F /\ c.inflight = F
        /\ ~c.current /\ c.todo = 0 /\ c.incoming = F /\ c.rcvTodo = 0
        /\ c.events = F /\ c.rcvd = F
    BY FreshFields
  <1>2. s.inflight = F /\ ~s.current /\ s.todo = 0 /\ r.incoming = F /\ r.rcvTodo = 0 /\ r.rcvd = F
    BY <1>1 DEF SendSide, RecvSide
  <1>3. Len(F) = 0 /\ DOMAIN F = {}
    OBVIOUS
  <1> HIDE DEF s, r, F
  <1>4. ~Unbegun(s) /\ ~Half(s) /\ ~AllAcked(s) /\ Popped(s, F) = 0 /\ SentJ(s, F) = 0 /\ SentN(s) = 0
        /\ AckedJ(s, F) = 0 /\ AckedN(s) = 0
    <2>1. ~Unbegun(s) /\ ~Half(s)
      BY <1>2 DEF Unbegun, Half
    <2>2. ~AllAcked(s)
      BY <1>2 DEF AllAcked, F
    <2>3. Popped(s, F) = 0
      BY <1>2, <1>3, <2>1 DEF Popped
    <2> QED
      BY <1>2, <1>3, <2>1, <2>2, <2>3 DEF SentJ, SentN, AckedJ, AckedN, F
  <1>5. ~Partial(r) /\ Begun(r) = 0 /\ GaveJ(r) = 0 /\ GaveN(r) = 0 /\ RecvN(r) = 0
    <2>1. ~Partial(r)
      BY <1>2 DEF Partial, F
    <2> QED
      BY <1>2, <1>3, <2>1 DEF Begun, GaveJ, GaveN, RecvN, F
  <1>6. SegmentLength \in Nat
    BY Constants
  <1>7. SendOK(s, p.acks, F)
    BY <1>2, <1>3, <1>4, <1>6 DEF SendOK, F
  <1>8. RecvOK(r, F)
    BY <1>2, <1>3, <1>5, <1>6 DEF RecvOK
  <1>9. RcvdOK(F, c.closed, F)
    BY <1>3 DEF RcvdOK
  <1>10. EndOK(c, F, F, own, other)
    BY <1>1, <1>7, <1>8, <1>9 DEF EndOK, F, s, r
  <1> QED
    BY <1>4, <1>5, <1>10 DEF s, r, F

\* Nothing is on a new lane.
LEMMA FreshLane ==
    ASSUME NEW e1 \in Ends, NEW p1 \in AllParams, NEW c, c = NewConnection(e1, p1, NoParams),
           NEW e2 \in Ends, NEW p2 \in AllParams, NEW d, d = NewConnection(e2, p2, NoParams),
           NEW k, k = LaneOf(<<>>, <<>>, p1.acks, p2.acks)
    PROVE  LaneOK(k, c, d)
  <1> DEFINE y == [up |-> FALSE, j |-> 0, n |-> 0, t |-> 0, seg |-> "no", aj |-> 0, an |-> 0]
  <1>1. y \in Position
    BY DEF Position
  <1>2. k.h = <<>> /\ k.g = <<>>
    BY DEF LaneOf
  <1>3. /\ c.initiated = FALSE /\ c.todo = 0 /\ c.rcvd = <<>> /\ c.wire = <<>> /\ c.sendbuf = <<>>
        /\ d.up = FALSE /\ d.rcvTodo = 0 /\ d.rcvd = <<>> /\ d.recvbuf = <<>>
        /\ c \in ConnSet /\ d \in ConnSet
    <2>1. /\ ~c.initiated /\ c.todo = 0 /\ c.rcvd = <<>> /\ c.wire = <<>> /\ c.sendbuf = <<>>
          /\ c \in ConnSet
      BY FreshFields
    <2>2. ~d.up /\ d.rcvTodo = 0 /\ d.rcvd = <<>> /\ d.recvbuf = <<>> /\ d \in ConnSet
      BY FreshFields
    <2> QED
      BY <2>1, <2>2 DEF ConnSet
  <1>4. WroteTo(c, k) = y
    <2>1. /\ SentJ(SendSide(c), <<>>) = 0 /\ SentN(SendSide(c)) = 0
          /\ GaveJ(RecvSide(c)) = 0 /\ GaveN(RecvSide(c)) = 0
      BY FreshEnd
    <2>2. SendSide(c).todo = 0
      BY <1>3 DEF SendSide
    <2> QED
      BY <1>2, <1>3, <2>1, <2>2 DEF WroteTo, SenderAt
  <1>5. ReadsFrom(d, k) = y
    <2>1. /\ AckedJ(SendSide(d), <<>>) = 0 /\ AckedN(SendSide(d)) = 0 /\ RecvN(RecvSide(d)) = 0
      BY FreshEnd
    <2>2. RecvSide(d).rcvTodo = 0 /\ Len(RecvSide(d).rcvd) = 0
      BY <1>3 DEF RecvSide
    <2> QED
      BY <1>2, <1>3, <2>1, <2>2 DEF ReadsFrom, ReceiverAt
  <1>6. d.recvbuf \o Out(c) = <<>>
    BY <1>3 DEF Out
  <1> HIDE DEF y
  <1>7. Run(k, ReadsFrom(d, k), d.recvbuf \o Out(c), y)
    BY <1>1, <1>5, <1>6, RunEmpty
  <1>8. AcksOK(y, k, c, d)
    <2>1. SentJ(SendSide(d), <<>>) = 0 /\ SentN(SendSide(d)) = 0
      BY FreshEnd
    <2>2. y.aj = 0 /\ y.an = 0
      BY DEF y
    <2> QED
      BY <1>2, <1>3, <2>1, <2>2 DEF AcksOK, Below
  <1> QED
    BY <1>1, <1>4, <1>7, <1>8 DEF LaneOK

\* A link that nothing was sent on yet.
FreshLink(c, l, out) ==
    /\ c.events = <<>> /\ ~c.current /\ ~c.up /\ ~c.closed /\ c.inflight = <<>>
    /\ out \in Seq(Bundles) /\ IsInjective(out)
    /\ l = [queue |-> out, flight |-> {}, done |-> {}, cancelled |-> {}]

\* A new link is as it should be.
LEMMA FreshLinkOK ==
    ASSUME NEW c, NEW d, NEW l, NEW out, FreshLink(c, l, out)
    PROVE  LinkOK(c, d, l, <<>>, out)
  <1>1. /\ c.events = <<>> /\ ~c.current /\ ~c.up /\ ~c.closed
        /\ out \in Seq(Bundles) /\ IsInjective(out)
        /\ l.queue = out /\ l.flight = {} /\ l.done = {} /\ l.cancelled = {}
    BY DEF FreshLink
  <1>2. l \in LinkSet
    BY DEF LinkSet, FreshLink
  <1>3. Started(c, <<>>) = <<>>
    BY <1>1 DEF Started, BundlesBegun, Unbegun, SendSide
  <1>4. ToSet(<<>>) = {} /\ DOMAIN <<>> = {} /\ <<>> \in Seq(Bundles)
    BY DEF ToSet
  <1>5. IsInjective(<<>>)
    BY <1>4 DEF IsInjective
  <1>6. /\ Named(c.events, "transmitted") = {} /\ Named(c.events, "cancelled") = {}
        /\ DoneOf(l) = {}
    BY <1>1, <1>4 DEF Named, DoneOf
  <1>7. LinkListsOK(c, l, <<>>, out)
    <2>1. ListsOK({}, {}, ToSet(out), {}, {}, {}, {}, {}, ToSet(out))
      BY Zenon DEF ListsOK
    <2> QED
      BY <1>1, <1>3, <1>4, <1>6, <2>1 DEF LinkListsOK
  <1>8. OncePerBundle(c, l)
    BY <1>1, <1>4 DEF OncePerBundle
  <1>9. ConfirmedOK(c, l, d.rcvd)
    BY <1>1, <1>4 DEF ConfirmedOK
  <1> QED
    BY <1>1, <1>2, <1>3, <1>4, <1>5, <1>7, <1>8, <1>9, Zenon DEF LinkOK

\* Two new connections.
LEMMA FreshPair ==
    ASSUME NEW pa \in AllParams, NEW pp \in AllParams,
           NEW c, c = NewConnection("active", pa, NoParams),
           NEW d, d = NewConnection("passive", pp, NoParams)
    PROVE  PairOK(c, d, <<>>, <<>>, pa.acks, pp.acks) /\ BufOK(c) /\ BufOK(d)
  <1>1. "active" \in Ends /\ "passive" \in Ends
    BY DEF Ends
  <1>2. EndOK(c, <<>>, <<>>, pa.acks, pp.acks)
    BY <1>1, FreshEnd
  <1>3. EndOK(d, <<>>, <<>>, pp.acks, pa.acks)
    BY <1>1, FreshEnd
  <1>4. LaneOK(LaneOf(<<>>, <<>>, pa.acks, pp.acks), c, d)
    BY <1>1, FreshLane
  <1>5. LaneOK(LaneOf(<<>>, <<>>, pp.acks, pa.acks), d, c)
    BY <1>1, FreshLane
  <1>6. <<>> \in Seq(Bundles) /\ pa.acks \in BOOLEAN /\ pp.acks \in BOOLEAN
    BY DEF AllParams
  <1>7. c.wire = <<>> /\ c.sendbuf = <<>> /\ d.wire = <<>> /\ d.sendbuf = <<>>
    BY <1>1, FreshFields
  <1>8. BufOK(c) /\ BufOK(d)
    BY <1>7, Constants DEF BufOK
  <1> QED
    BY <1>2, <1>3, <1>4, <1>5, <1>6, <1>8 DEF PairOK

\* The invariant holds at the start.
LEMMA StreamInit == OldLinks = {NoParams} /\ Init => StreamInv
  <1> SUFFICES ASSUME OldLinks = {NoParams}, Init
               PROVE  StreamInv
    OBVIOUS
  <1>1. PICK pa \in Params["active"], pp \in Params["passive"] :
            conn = [e \in Ends |-> IF e = "active"
                                   THEN NewConnection(e, pa, NoParams)
                                   ELSE NewConnection(e, pp, NoParams)]
    BY DEF Init
  <1>2. pa \in AllParams /\ pp \in AllParams
    BY StreamAssumption DEF Ends
  <1> DEFINE c == NewConnection("active", pa, NoParams)
             d == NewConnection("passive", pp, NoParams)
             l(e) == [queue |-> Outgoing[e], flight |-> {}, done |-> {}, cancelled |-> {}]
  <1>3. conn["active"] = c /\ conn["passive"] = d /\ DOMAIN conn = Ends
    BY <1>1 DEF Ends
  <1>4. link["active"] = l("active") /\ link["passive"] = l("passive")
        /\ link = [e \in Ends |-> l(e)]
    BY DEF Init, Ends
  <1>5. /\ c \in ConnSet /\ d \in ConnSet
        /\ c.events = <<>> /\ ~c.current /\ ~c.up /\ ~c.closed /\ c.inflight = <<>>
        /\ d.events = <<>> /\ ~d.current /\ ~d.up /\ ~d.closed /\ d.inflight = <<>>
    <2>1. "active" \in Ends /\ "passive" \in Ends
      BY DEF Ends
    <2> HIDE DEF c, d
    <2>2. c = NewConnection("active", pa, NoParams) /\ d = NewConnection("passive", pp, NoParams)
      BY DEF c, d
    <2> QED
      BY <1>2, <2>1, <2>2, FreshFields
  <1>6. PairOK(c, d, <<>>, <<>>, pa.acks, pp.acks) /\ BufOK(c) /\ BufOK(d)
    BY <1>2, FreshPair
  <1>7. \A e \in Ends : Outgoing[e] \in Seq(Bundles) /\ IsInjective(Outgoing[e])
    BY StreamAssumption
  <1>8. \A e \in Ends : l(e) \in LinkSet
    BY <1>7 DEF LinkSet
  <1>9. Ends = {"active", "passive"} /\ Peer("active") = "passive"
    BY DEF Ends, Peer
  <1> HIDE DEF c, d
  <1>10. FreshLink(c, l("active"), Outgoing["active"])
         /\ FreshLink(d, l("passive"), Outgoing["passive"])
    BY <1>5, <1>7, <1>9 DEF FreshLink
  <1>11. conn \in [Ends -> ConnSet]
    BY <1>1, <1>3, <1>5, <1>9
  <1>12. link \in [Ends -> LinkSet]
    BY <1>4, <1>8
  <1> HIDE DEF l
  <1>13. LinkOK(c, d, l("active"), <<>>, Outgoing["active"])
         /\ LinkOK(d, c, l("passive"), <<>>, Outgoing["passive"])
    BY <1>10, FreshLinkOK
  <1>14. EndsOK("active", <<>>, <<>>, pa.acks, pp.acks)
    BY <1>3, <1>4, <1>6, <1>9, <1>13 DEF EndsOK
  <1>15. faults \in 0 .. MaxFaults
    BY StreamAssumption DEF Init
  <1> QED
    BY <1>11, <1>12, <1>14, <1>15 DEF StreamInv

(***************************************************************************)
(* What follows from the invariant.                                        *)
(***************************************************************************)
LEMMA StreamOf ==
    ASSUME NEW s \in Seq(UnitSet)
    PROVE  IsStream(s)
  <1>1. \A u \in UnitSet : u.unit \in Units
    BY DEF UnitSet, Units, Hdr, Seg, SegLen, Data, Ack, Keepalive, Shutdown
  <1> QED
    BY <1>1 DEF IsStream

\* The kinds of events.
LEMMA KindOf ==
    ASSUME NEW ev \in EventSet
    PROVE  ev.event \in {"transmitted", "cancelled", "close"}
  BY DEF EventSet, Transmitted, SendCancelled, CloseRequest

\* What is in flight is counted.
LEMMA FlightCounts ==
    ASSUME NEW c, NEW h, NEW g, NEW own, NEW other, EndOK(c, h, g, own, other),
           NEW i \in DOMAIN c.inflight
    PROVE  /\ c.inflight[i].sent \in 0 .. Length[c.inflight[i].b]
           /\ c.inflight[i].acked \in 0 .. c.inflight[i].sent
  <1>1. c.inflight \in Seq(FlightSet) /\ (c.closed => c.inflight = <<>>)
        /\ (~c.closed => SendOK(SendSide(c), c.par.acks, h))
    BY DEF EndOK, ConnSet
  <1>2. FlightOK(SendSide(c), c.par.acks, h, i)
    BY <1>1 DEF SendOK, SendSide
  <1>3. /\ c.inflight[i].sent <= Length[c.inflight[i].b]
        /\ c.inflight[i].acked <= c.inflight[i].sent
    BY <1>2 DEF FlightOK, SendSide
  <1>4. c.inflight[i] \in FlightSet
    BY <1>1
  <1>5. c.inflight[i].sent \in Nat /\ c.inflight[i].acked \in Nat /\ c.inflight[i].b \in Bundles
    BY <1>4 DEF FlightSet
  <1>6. Length[c.inflight[i].b] \in Nat
    BY <1>5, Constants
  <1> QED
    BY <1>3, <1>5, <1>6

\* What is left of a segment.
LEMMA SegmentCounts ==
    ASSUME NEW c, NEW h, NEW g, NEW own, NEW other, EndOK(c, h, g, own, other)
    PROVE  c.todo \in 0 .. SegmentLength /\ c.rcvTodo \in 0 .. SegmentLength
  <1>1. /\ c.todo \in Nat /\ c.rcvTodo \in Nat /\ SegmentLength \in Nat
        /\ (c.closed => c.todo = 0 /\ c.rcvTodo = 0)
    BY Constants DEF EndOK, ConnSet
  <1>2. ~c.closed => SendOK(SendSide(c), c.par.acks, h) /\ RecvOK(RecvSide(c), g)
    BY DEF EndOK
  <1>3. ~c.closed => c.todo <= SegmentLength /\ c.rcvTodo <= SegmentLength
    BY <1>2 DEF SendOK, RecvOK, SendSide, RecvSide
  <1> QED
    BY <1>1, <1>3

\* The invariant implies the types.
LEMMA InvTypeOK == StreamInv => TypeOK
  <1> SUFFICES ASSUME StreamInv
               PROVE  TypeOK
    OBVIOUS
  <1>1. faults \in 0 .. MaxFaults
    BY DEF StreamInv
  <1>2. ASSUME NEW e \in Ends, NEW c, c = conn[e]
        PROVE  /\ c.par \in AllParams /\ c.broken \in Reasons \cup {"no"}
               /\ \A f \in {"contact", "initiated", "up", "closed", "stall", "current"} :
                      c[f] \in BOOLEAN
               /\ IsStream(c.sendbuf) /\ Len(c.sendbuf) <= SendbufLen
               /\ IsStream(c.wire) /\ Len(c.wire) <= WireLen
               /\ IsStream(c.recvbuf)
               /\ c.todo \in 0 .. SegmentLength /\ c.rcvTodo \in 0 .. SegmentLength
               /\ \A i \in DOMAIN c.inflight :
                      /\ c.inflight[i].sent \in 0 .. Length[c.inflight[i].b]
                      /\ c.inflight[i].acked \in 0 .. c.inflight[i].sent
               /\ \A i \in DOMAIN c.incoming : IsStream(c.incoming[i].data)
               /\ \A i \in DOMAIN c.events :
                      c.events[i].event \in {"transmitted", "cancelled", "close"}
               /\ link[e].flight \subseteq Bundles /\ link[e].cancelled \subseteq Bundles
               /\ ToSet(link[e].queue) \subseteq Bundles
    <2>1. PICK h, g, own, other : EndsOK(e, h, g, own, other)
      BY FromEitherEnd
    <2>2. EndOK(c, h, g, own, other) /\ BufOK(c) /\ c \in ConnSet /\ link[e] \in LinkSet
      BY <1>2, <2>1, EndsFacts
    <2>3. c.par \in AllParams /\ c.broken \in Reasons \cup {"no"}
      BY <2>2 DEF ConnSet
    <2>4. \A f \in {"contact", "initiated", "up", "closed", "stall", "current"} : c[f] \in BOOLEAN
      BY <2>2 DEF ConnSet
    <2>5. /\ c.sendbuf \in Seq(UnitSet) /\ c.wire \in Seq(UnitSet) /\ c.recvbuf \in Seq(UnitSet)
          /\ c.incoming \in Seq(IncomingSet) /\ c.events \in Seq(EventSet)
      BY <2>2 DEF ConnSet
    <2>6. \A i \in DOMAIN c.incoming : IsStream(c.incoming[i].data)
      <3>1. \A i \in DOMAIN c.incoming : c.incoming[i] \in IncomingSet
        BY <2>5
      <3>2. \A f \in IncomingSet : f.data \in Seq(UnitSet)
        BY DEF IncomingSet
      <3> QED
        BY <3>1, <3>2, StreamOf
    <2>7. \A i \in DOMAIN c.events : c.events[i].event \in {"transmitted", "cancelled", "close"}
      <3>1. \A i \in DOMAIN c.events : c.events[i] \in EventSet
        BY <2>5
      <3> QED
        BY <3>1, KindOf
    <2>8. /\ link[e].flight \subseteq Bundles /\ link[e].cancelled \subseteq Bundles
          /\ ToSet(link[e].queue) \subseteq Bundles
      BY <2>2 DEF LinkSet, ToSet
    <2>9. IsStream(c.sendbuf) /\ IsStream(c.wire) /\ IsStream(c.recvbuf)
      BY <2>5, StreamOf
    <2>10. Len(c.sendbuf) <= SendbufLen /\ Len(c.wire) <= WireLen
      BY <2>2 DEF BufOK
    <2>11. c.todo \in 0 .. SegmentLength /\ c.rcvTodo \in 0 .. SegmentLength
      BY <2>2, SegmentCounts
    <2>12. \A i \in DOMAIN c.inflight :
              /\ c.inflight[i].sent \in 0 .. Length[c.inflight[i].b]
              /\ c.inflight[i].acked \in 0 .. c.inflight[i].sent
      BY <2>2, FlightCounts
    <2> QED
      BY <2>3, <2>4, <2>6, <2>7, <2>8, <2>9, <2>10, <2>11, <2>12
  <1> QED
    BY <1>1, <1>2, Zenon DEF TypeOK

\* No end finds fault with the other.
LEMMA InvNoProtocolError == StreamInv => NoProtocolError
  <1>1. ASSUME StreamInv, NEW e \in Ends
        PROVE  conn[e].ok /\ conn[e].broken # "CL_ERROR"
    <2>1. PICK h, g, own, other : EndsOK(e, h, g, own, other)
      BY <1>1, FromEitherEnd
    <2>2. EndOK(conn[e], h, g, own, other)
      BY <2>1 DEF EndsOK, PairOK
    <2> QED
      BY <2>2 DEF EndOK
  <1> QED
    BY <1>1 DEF NoProtocolError

\* What is done with is neither queued nor in flight.
LEMMA InvNotSentAgain == StreamInv => NotSentAgain
  <1>1. ASSUME StreamInv, NEW e \in Ends, NEW x \in link[e].done
        PROVE  x.b \notin ToSet(link[e].queue) \cup link[e].flight
    <2>1. PICK h, g, own, other : EndsOK(e, h, g, own, other)
      BY <1>1, FromEitherEnd
    <2>2. LinkListsOK(conn[e], link[e], h, Outgoing[e])
      BY <2>1 DEF EndsOK, LinkOK
    <2>3. DoneOf(link[e]) \cap ToSet(link[e].queue) = {} /\ DoneOf(link[e]) \cap link[e].flight = {}
      BY <2>2, Zenon DEF LinkListsOK, ListsOK
    <2>4. x.b \in DoneOf(link[e])
      BY <1>1 DEF DoneOf
    <2> QED
      BY <2>3, <2>4
  <1> QED
    BY <1>1 DEF NotSentAgain

\* A bundle is the sequence of its units.
LEMMA WholeIs ==
    ASSUME NEW b \in Bundles
    PROVE  /\ Whole[b] \in Seq(UnitSet) /\ Len(Whole[b]) = Length[b] /\ Length[b] \in Nat /\ Length[b] > 0
           /\ \A m \in 1 .. Length[b] : Whole[b][m] = Data(b, m)
  <1>1. Length[b] \in Nat /\ Length[b] > 0
    BY Constants
  <1>2. Whole[b] = [k \in 1 .. Length[b] |-> Data(b, k)]
    BY DEF Whole
  <1>3. \A k \in 1 .. Length[b] : Data(b, k) \in UnitSet
    BY <1>1 DEF UnitSet
  <1>4. Whole[b] \in [1 .. Length[b] -> UnitSet]
    BY <1>2, <1>3
  <1>5. Whole[b] \in Seq(UnitSet)
    BY <1>1, <1>4
  <1>6. Len(Whole[b]) = Length[b]
    BY <1>1, <1>2, <1>5
  <1> QED
    BY <1>1, <1>2, <1>5, <1>6

\* What was received, whole or cut off, is the beginning of its bundle.
LEMMA Beginning ==
    ASSUME NEW b \in Bundles, NEW x \in Seq(UnitSet), x = Whole[b] \/ CutOff(x, b)
    PROVE  /\ Len(x) <= Length[b] /\ x = SubSeq(Whole[b], 1, Len(x))
           /\ Len(x) > 0 /\ x[1] = Data(b, 1)
           /\ (Len(x) < Length[b] => CutOff(x, b))
           /\ (CutOff(x, b) => x # Whole[b])
  <1> DEFINE n == Len(x)
             w == Whole[b]
             u(m) == Data(b, m)
             L == Length[b]
  <1>1. /\ w \in Seq(UnitSet) /\ Len(w) = L /\ L \in Nat /\ L > 0
        /\ \A m \in 1 .. L : w[m] = u(m)
    BY WholeIs
  <1>2. n \in Nat /\ n > 0 /\ n <= L /\ (n < L => CutOff(x, b)) /\ (CutOff(x, b) => n < L)
        /\ \A m \in 1 .. n : x[m] = u(m)
    BY <1>1, Constants DEF CutOff
  <1> HIDE DEF w, u, L
  <1>3. SubSeq(w, 1, n) \in Seq(UnitSet) /\ Len(SubSeq(w, 1, n)) = n
        /\ \A m \in 1 .. n : SubSeq(w, 1, n)[m] = w[m]
    BY <1>1, <1>2
  <1>4. x = SubSeq(w, 1, n)
    <2>1. \A m \in 1 .. n : x[m] = SubSeq(w, 1, n)[m]
      BY <1>1, <1>2, <1>3
    <2> QED
      BY <1>3, <2>1, SeqEqual
  <1>5. CutOff(x, b) => x # w
    BY <1>1, <1>2
  <1>6. x[1] = u(1)
    BY <1>2
  <1> QED
    BY <1>2, <1>4, <1>5, <1>6 DEF w, u, L

\* Of an end's daemon: what it was given, in terms of what the peer began.
LEMMA ReceivedFrom ==
    ASSUME NEW e \in Ends, NEW h, NEW g, NEW own, NEW other, EndsOK(e, h, g, own, other),
           NEW i \in DOMAIN conn[e].rcvd
    PROVE  /\ i \in DOMAIN g /\ g[i] \in ToSet(Outgoing[Peer(e)]) /\ g[i] \in Bundles
           /\ conn[e].rcvd[i] \in Seq(UnitSet)
           /\ \/ conn[e].rcvd[i] = Whole[g[i]]
              \/ conn[e].closed /\ i = Len(conn[e].rcvd) /\ CutOff(conn[e].rcvd[i], g[i])
  <1> DEFINE r == conn[e].rcvd
  <1>1. /\ EndOK(conn[e], h, g, own, other) /\ g \in Seq(Bundles) /\ conn[e] \in ConnSet
        /\ LinkOK(conn[Peer(e)], conn[e], link[Peer(e)], g, Outgoing[Peer(e)])
    BY DEF EndsOK, PairOK, EndOK
  <1>2. RcvdOK(r, conn[e].closed, g) /\ r \in Seq(Seq(UnitSet))
    BY <1>1 DEF EndOK, ConnSet
  <1>3. i \in DOMAIN g /\ r[i] \in Seq(UnitSet) /\ g[i] \in Bundles
    BY <1>1, <1>2 DEF RcvdOK
  <1>4. ToSet(Started(conn[Peer(e)], g)) \subseteq ToSet(Outgoing[Peer(e)])
    BY <1>1 DEF LinkOK, LinkListsOK, ListsOK
  <1>5. ToSet(g) \subseteq ToSet(Started(conn[Peer(e)], g))
    BY <1>1, StartedHas
  <1>6. g[i] \in ToSet(g)
    BY <1>3 DEF ToSet
  <1> QED
    BY <1>2, <1>3, <1>4, <1>5, <1>6 DEF RcvdOK

\* The bundles that an end began are different ones.
LEMMA BegunOnce ==
    ASSUME NEW e \in Ends, NEW h, NEW g, NEW own, NEW other, EndsOK(e, h, g, own, other)
    PROVE  \A i, j \in DOMAIN g : g[i] = g[j] => i = j
  <1> DEFINE d == conn[Peer(e)]
             s == Started(d, g)
  <1>1. g \in Seq(Bundles) /\ s \in Seq(Bundles) /\ IsInjective(s)
    BY DEF EndsOK, PairOK, LinkOK
  <1>2. \A i \in DOMAIN g : i \in DOMAIN s /\ s[i] = g[i]
    <2>1. CASE Unbegun(SendSide(d))
      <3>1. PICK x : s = Append(g, x)
        BY <2>1, Zenon DEF Started, BundlesBegun
      <3>2. g \in Seq(Bundles \cup {x})
        BY <1>1
      <3> HIDE DEF s
      <3> QED
        BY <3>1, <3>2
    <2>2. CASE ~Unbegun(SendSide(d))
      <3>1. s = g
        BY <2>2, Zenon DEF Started, BundlesBegun
      <3> QED
        BY <3>1
    <2> QED
      BY <2>1, <2>2
  <1> HIDE DEF s
  <1> QED
    BY <1>1, <1>2 DEF IsInjective

\* What a daemon was given is what its peer sent.
LEMMA InvReceivedIntact == StreamInv => ReceivedIntact
  <1>1. ASSUME StreamInv, NEW e \in Ends, NEW r, r = conn[e].rcvd
        PROVE  /\ \A i \in DOMAIN r : \E b \in ToSet(Outgoing[Peer(e)]) :
                     /\ Len(r[i]) <= Length[b]
                     /\ r[i] = SubSeq(Whole[b], 1, Len(r[i]))
                     /\ Len(r[i]) < Length[b] =>
                            i = Len(r) /\ conn[e].closed /\ Len(r[i]) > HeaderLen
               /\ \A i, j \in DOMAIN r : i # j => r[i] # r[j]
    <2>1. PICK h, g, own, other : EndsOK(e, h, g, own, other)
      BY <1>1, FromEitherEnd
    <2>2. \A i \in DOMAIN r :
              /\ i \in DOMAIN g /\ g[i] \in ToSet(Outgoing[Peer(e)]) /\ g[i] \in Bundles
              /\ r[i] \in Seq(UnitSet)
              /\ \/ r[i] = Whole[g[i]]
                 \/ conn[e].closed /\ i = Len(r) /\ CutOff(r[i], g[i])
      BY <1>1, <2>1, ReceivedFrom
    <2>3. ASSUME NEW i \in DOMAIN r
          PROVE  /\ Len(r[i]) <= Length[g[i]]
                 /\ r[i] = SubSeq(Whole[g[i]], 1, Len(r[i]))
                 /\ (Len(r[i]) < Length[g[i]] =>
                        i = Len(r) /\ conn[e].closed /\ Len(r[i]) > HeaderLen)
                 /\ r[i][1] = Data(g[i], 1)
      <3>1. /\ Len(r[i]) <= Length[g[i]] /\ r[i] = SubSeq(Whole[g[i]], 1, Len(r[i]))
            /\ r[i][1] = Data(g[i], 1)
            /\ (Len(r[i]) < Length[g[i]] => CutOff(r[i], g[i]))
            /\ (CutOff(r[i], g[i]) => r[i] # Whole[g[i]])
        BY <2>2, Beginning
      <3>2. CutOff(r[i], g[i]) => Len(r[i]) > HeaderLen
        BY DEF CutOff
      <3> QED
        BY <2>2, <3>1, <3>2
    <2>4. \A i, j \in DOMAIN r : i # j => r[i] # r[j]
      <3>1. SUFFICES ASSUME NEW i \in DOMAIN r, NEW j \in DOMAIN r, r[i] = r[j]
                     PROVE  i = j
        OBVIOUS
      <3>2. Data(g[i], 1) = Data(g[j], 1)
        BY <2>3, <3>1
      <3>3. g[i] = g[j]
        BY <3>2 DEF Data
      <3>4. i \in DOMAIN g /\ j \in DOMAIN g
        BY <2>2
      <3> QED
        BY <2>1, <3>3, <3>4, BegunOnce
    <2> QED
      BY <2>2, <2>3, <2>4
  <1> QED
    BY <1>1, Zenon DEF ReceivedIntact

\* What a daemon was given of a bundle is made of that bundle's units.
LEMMA UnitsOf ==
    ASSUME NEW b \in Bundles, NEW x \in Seq(UnitSet), x = Whole[b] \/ CutOff(x, b), NEW u \in ToSet(x)
    PROVE  u.b = b
  <1>1. PICK m \in 1 .. Len(x) : u = x[m]
    BY DEF ToSet
  <1>2. x[m] = Data(b, m)
    BY WholeIs DEF CutOff
  <1> QED
    BY <1>1, <1>2 DEF Data

\* Nothing of a cancelled bundle arrives.
LEMMA InvCancelledNeverArrives == StreamInv => CancelledNeverArrives
  <1>1. ASSUME StreamInv, NEW e \in Ends, NEW b \in link[e].cancelled,
               NEW r \in ToSet(conn[Peer(e)].rcvd), Data(b, 1) \in ToSet(r)
        PROVE  FALSE
    <2> DEFINE f == Peer(e)
    <2>1. f \in Ends /\ Peer(f) = e
      BY DEF Ends, Peer
    <2> HIDE DEF f
    <2>2. PICK h, g, own, other : EndsOK(f, h, g, own, other)
      BY <1>1, <2>1, FromEitherEnd
    <2>3. PICK i \in DOMAIN conn[f].rcvd : r = conn[f].rcvd[i]
      BY <1>1 DEF ToSet, f
    <2>4. /\ i \in DOMAIN g /\ g[i] \in Bundles /\ r \in Seq(UnitSet)
          /\ r = Whole[g[i]] \/ CutOff(r, g[i])
      BY <2>1, <2>2, <2>3, ReceivedFrom
    <2>5. b = g[i]
      <3>1. Data(b, 1).b = g[i]
        BY <1>1, <2>4, UnitsOf
      <3> QED
        BY <3>1 DEF Data
    <2>6. LinkOK(conn[e], conn[f], link[e], g, Outgoing[e]) /\ g \in Seq(Bundles)
      BY <2>1, <2>2 DEF EndsOK, PairOK
    <2>7. b \in ToSet(Started(conn[e], g))
      <3>1. b \in ToSet(g)
        BY <2>4, <2>5 DEF ToSet
      <3>2. ToSet(g) \subseteq ToSet(Started(conn[e], g))
        BY <2>6, StartedHas
      <3> QED
        BY <3>1, <3>2
    <2>8. link[e].cancelled \cap ToSet(Started(conn[e], g)) = {}
      BY <2>6, Zenon DEF LinkOK, LinkListsOK, ListsOK
    <2> QED
      BY <1>1, <2>7, <2>8
  <1> QED
    BY <1>1 DEF CancelledNeverArrives

\* A bundle that counts as sent to its end on a reliable link, with
\* acknowledgements, was given whole to the peer's daemon.
ConfirmedHasArrived ==
    \A e \in Ends : conn[e].par.acks /\ conn[e].par.reliable =>
        \A d \in link[e].done : d.n = Length[d.b] => Got(Peer(e), d.b)

LEMMA InvConfirmedHasArrived == StreamInv => ConfirmedHasArrived
  <1>1. ASSUME StreamInv, NEW e \in Ends, conn[e].par.acks, conn[e].par.reliable,
               NEW d \in link[e].done, d.n = Length[d.b]
        PROVE  Got(Peer(e), d.b)
    <2>1. PICK h, g, own, other : EndsOK(e, h, g, own, other)
      BY <1>1, FromEitherEnd
    <2>2. ConfirmedOK(conn[e], link[e], conn[Peer(e)].rcvd)
      BY <2>1 DEF EndsOK, LinkOK
    <2>3. Whole[d.b] \in ToSet(conn[Peer(e)].rcvd)
      BY <1>1, <2>2 DEF ConfirmedOK
    <2> QED
      BY <2>3 DEF Got, ToSet
  <1> QED
    BY <1>1 DEF ConfirmedHasArrived

(***************************************************************************)
(* The theorems.                                                           *)
(***************************************************************************)
\* The invariant holds in every behaviour in which the accepting end's link is
\* new (it finds no parameters to take over).
THEOREM StreamInvariant ==
    ASSUME OldLinks = {NoParams}
    PROVE  Spec => []StreamInv
  <1>1. Init => StreamInv
    BY StreamInit
  <1>2. StreamInv /\ [Next]_vars => StreamInv'
    BY StreamStep
  <1> QED
    BY <1>1, <1>2, PTL DEF Spec

\* The types of the state and the sizes of the buffers: send_data and
\* send_next_segment never write past a buffer, and no counter of a segment or
\* of a bundle passes its end.
THEOREM StreamTypeOK ==
    ASSUME OldLinks = {NoParams}
    PROVE  Spec => []TypeOK
  <1>1. StreamInv => TypeOK
    BY InvTypeOK
  <1> QED
    BY <1>1, StreamInvariant, PTL

\* Two ends that follow the protocol never find fault with each other, whatever
\* is interleaved with a message and wherever a write or a read is cut: none of
\* the error paths of process_data is taken, and check_completed's assertion
\* holds.
THEOREM StreamNoProtocolError ==
    ASSUME OldLinks = {NoParams}
    PROVE  Spec => []NoProtocolError
  <1>1. StreamInv => NoProtocolError
    BY InvNoProtocolError
  <1> QED
    BY <1>1, StreamInvariant, PTL

\* What a daemon is given is a bundle as its peer sent it, or the beginning of
\* one that the end of the connection cut off, and none of them twice.
THEOREM StreamReceivedIntact ==
    ASSUME OldLinks = {NoParams}
    PROVE  Spec => []ReceivedIntact
  <1>1. StreamInv => ReceivedIntact
    BY InvReceivedIntact
  <1> QED
    BY <1>1, StreamInvariant, PTL

\* A bundle whose transmission was reported is not sent again, though
\* close_contact puts back what it finds in flight.
THEOREM StreamNotSentAgain ==
    ASSUME OldLinks = {NoParams}
    PROVE  Spec => []NotSentAgain
  <1>1. StreamInv => NotSentAgain
    BY InvNotSentAgain
  <1> QED
    BY <1>1, StreamInvariant, PTL

\* Nothing of a bundle that the sender's daemon has noted as cancelled is given
\* to the peer's daemon: handle_cancel_bundle gives up only what nothing was
\* sent of, and close_contact does not put it back.
THEOREM StreamCancelledNeverArrives ==
    ASSUME OldLinks = {NoParams}
    PROVE  Spec => []CancelledNeverArrives
  <1>1. StreamInv => CancelledNeverArrives
    BY InvCancelledNeverArrives
  <1> QED
    BY <1>1, StreamInvariant, PTL

\* What the daemon counts as sent to its end, on a reliable link with
\* acknowledgements, is with the peer's daemon, whole.
THEOREM StreamConfirmedHasArrived ==
    ASSUME OldLinks = {NoParams}
    PROVE  Spec => []ConfirmedHasArrived
  <1>1. StreamInv => ConfirmedHasArrived
    BY InvConfirmedHasArrived
  <1> QED
    BY <1>1, StreamInvariant, PTL

(***************************************************************************)
(* The transfer of bundles that the two connections implement: what a step *)
(* of an end does to the link and to what its daemon was given.            *)
(***************************************************************************)
\* The same whole bundles.
SameWhole(r, r2) == \A b \in Bundles : Whole[b] \in ToSet(r2) <=> Whole[b] \in ToSet(r)

\* close_contact gives the bundles N back to the queue.
HandsBack(l, l2, N) ==
    /\ ToSet(N) \subseteq l.flight \ l.cancelled
    /\ l2 = [l EXCEPT !.flight = @ \ ToSet(N), !.queue = @ \o N]

Effect(e) ==
    \/ link'[e] = link[e]
    \/ conn'[e].rcvd = conn[e].rcvd /\ \E b : StartsOn(link[e], link'[e], b)
    \/ /\ conn'[e].rcvd = conn[e].rcvd
       /\ \E ev : ev.b \in Bundles /\ Settles(conn[e], link[e], link'[e], ev)
    \/ /\ conn'[e].rcvd = conn[e].rcvd
       /\ \E ev : ev.b \in link[e].flight \ link[e].cancelled /\ TakesBack(link[e], link'[e], ev)
    \/ /\ SameWhole(conn[e].rcvd, conn'[e].rcvd)
       /\ \E N \in Seq(Bundles) : HandsBack(link[e], link'[e], N)

\* send_pending_data starts a bundle, or leaves the link alone.
LEMMA PendingEffect ==
    ASSUME StreamInv, NEW e \in Ends, send_pending_data(e)
    PROVE  Effect(e)
  <1>1. PICK h, g, own, other : EndsOK(e, h, g, own, other)
    BY FromEitherEnd
  <1> DEFINE c == conn[e]
             d == conn[Peer(e)]
             l == link[e]
             b == Head(l.queue)
             starts == SendPending(e).starts
             c2 == SendPending(e).conn
  <1>2. /\ PairOK(c, d, h, g, own, other) /\ BufOK(c)
        /\ c \in ConnSet /\ l \in LinkSet
    BY <1>1, EndsFacts
  <1>3. /\ c.broken = "no" /\ conn' = [conn EXCEPT ![e] = c2]
        /\ link' = IF starts THEN [link EXCEPT ![e].queue = Tail(@), ![e].flight = @ \cup {b}] ELSE link
    BY DEF send_pending_data, CanSend, Running, StreamInv
  <1>4. SendsPending(c, l.queue, starts, c2)
    BY DEF SendPending, SendsPending
  <1>5. l.queue \in Seq(Bundles) /\ DOMAIN conn = Ends /\ DOMAIN link = Ends
    BY <1>2 DEF LinkSet, StreamInv
  <1> HIDE DEF c, d, l, starts, c2
  <1>6. PICK h2 : /\ PairOK(c2, d, h2, g, own, other) /\ BufOK(c2)
                  /\ Progress(c, c2, h, h2, starts, Head(l.queue)) /\ (starts => l.queue # <<>>)
    BY <1>2, <1>3, <1>4, <1>5, PendingSent
  <1>7. c2.rcvd = c.rcvd
    BY <1>6 DEF Progress, Same
  <1>8. conn'[e].rcvd = conn[e].rcvd
    BY <1>3, <1>5, <1>7 DEF c
  <1>9. CASE starts
    <2>1. link'[e] = [l EXCEPT !.queue = Tail(@), !.flight = @ \cup {b}]
      BY <1>3, <1>5, <1>9 DEF l
    <2>2. StartsOn(l, link'[e], b)
      BY <1>6, <1>9, <2>1 DEF StartsOn
    <2> QED
      BY <1>8, <2>2 DEF Effect, l
  <1>10. CASE ~starts
    BY <1>3, <1>10 DEF Effect
  <1> QED
    BY <1>9, <1>10

\* What a closing connection hands up is never a whole bundle.
LEMMA NothingWhole ==
    ASSUME NEW c, NEW h, NEW g, NEW own, NEW other, EndOK(c, h, g, own, other), g \in Seq(Bundles),
           ~c.closed, SomeReceived(c), NEW b \in Bundles
    PROVE  Last(c.incoming).data # Whole[b] /\ Last(c.incoming).data \in Seq(UnitSet)
  <1> DEFINE r == RecvSide(c)
             i == Len(c.incoming)
             f == c.incoming[i]
             x == g[GaveJ(r) + i]
  <1>1. c.incoming \in Seq(IncomingSet) /\ c.incoming # <<>> /\ Last(c.incoming).total = 0
        /\ Len(Last(c.incoming).data) > HeaderLen
    BY DEF SomeReceived, EndOK, ConnSet
  <1>2. i \in DOMAIN c.incoming /\ Last(c.incoming) = f /\ f \in IncomingSet
    BY <1>1 DEF Last
  <1>3. RecvOK(r, g) /\ r.incoming = c.incoming
    BY DEF EndOK, RecvSide
  <1>4. IncomingOK(r, g, i)
    BY <1>2, <1>3 DEF RecvOK
  <1> DEFINE dat == f.data
  <1>5. dat \in Seq(UnitSet) /\ f.total = 0 /\ Len(dat) > HeaderLen
    BY <1>1, <1>2 DEF IncomingSet
  <1>6. Coming(r, i)
    BY <1>1, <1>2, <1>3 DEF Coming, Partial, Newcomer
  <1>7. Len(dat) < Length[x] /\ \A m \in 1 .. Len(dat) : dat[m] = Data(x, m)
    BY <1>3, <1>4, <1>6 DEF IncomingOK
  <1>8. dat # Whole[b]
    <2> HIDE DEF dat, x
    <2>1. SUFFICES ASSUME dat = Whole[b]
                   PROVE  FALSE
      OBVIOUS
    <2>2. Len(dat) = Length[b] /\ Length[b] \in Nat /\ Length[b] > 0 /\ dat[1] = Data(b, 1)
      BY <2>1, WholeIs
    <2>3. Data(b, 1) = Data(x, 1)
      BY <1>7, <2>2
    <2>4. b = x
      BY <2>3 DEF Data
    <2> QED
      BY <1>7, <2>2, <2>4
  <1> QED
    BY <1>2, <1>5, <1>8

\* close_contact gives bundles back.
LEMMA ClosesEffect ==
    ASSUME StreamInv, NEW e \in Ends, NEW h, NEW g, NEW own, NEW other, NEW c1, close_contact(e, c1),
           EndOK(c1, h, g, own, other), h \in Seq(Bundles), g \in Seq(Bundles), ~c1.closed,
           Started(c1, h) \in Seq(Bundles), c1.rcvd = conn[e].rcvd,
           link[e].cancelled \cap ToSet(Started(c1, h)) = {}
    PROVE  Effect(e)
  <1> DEFINE l == link[e]
             N == NamesOf(Again(c1, l))
             R == conn[e].rcvd
             x == Last(c1.incoming).data
  <1>1. PICK c2, l2 : /\ conn' = [conn EXCEPT ![e] = c2] /\ link' = [link EXCEPT ![e] = l2]
                      /\ Closes(c1, c1.events \o PartEvents(Part(c1)), c2) /\ GivesBack(c1, l, l2)
    BY ClosedFields
  <1>2. DOMAIN conn = Ends /\ DOMAIN link = Ends
    BY DEF StreamInv
  <1>3. conn'[e] = c2 /\ link'[e] = l2
    BY <1>1, <1>2
  <1>4. /\ c1 \in ConnSet /\ c1.par.acks \in BOOLEAN /\ SendOK(SendSide(c1), c1.par.acks, h)
        /\ c1.rcvd \in Seq(Seq(UnitSet))
    <2>1. c1 \in ConnSet /\ SendOK(SendSide(c1), c1.par.acks, h)
      BY DEF EndOK
    <2> QED
      BY <2>1 DEF ConnSet, AllParams
  <1>5. N \in Seq(Bundles) /\ ToSet(N) \subseteq l.flight \ l.cancelled
    <2>1. N \in Seq(Bundles) /\ ToSet(N) \subseteq ToSet(Started(c1, h)) \cap l.flight
      BY <1>4, AgainFacts
    <2> QED
      BY <2>1
  <1>6. l2 = [l EXCEPT !.flight = @ \ ToSet(N), !.queue = @ \o N]
    BY <1>1 DEF GivesBack
  <1>7. c2.rcvd = IF SomeReceived(c1) THEN Append(R, x) ELSE R
    <2>1. c2.rcvd = IF SomeReceived(c1) THEN Append(c1.rcvd, Last(c1.incoming).data) ELSE c1.rcvd
      <3> DEFINE Y == IF SomeReceived(c1) THEN Append(c1.rcvd, Last(c1.incoming).data) ELSE c1.rcvd
      <3>1. c2 = [c1 EXCEPT !.closed = TRUE, !.inflight = <<>>, !.incoming = <<>>,
                   !.sendbuf = <<>>, !.recvbuf = <<>>, !.current = FALSE,
                   !.todo = 0, !.rcvTodo = 0, !.events = c1.events \o PartEvents(Part(c1)), !.rcvd = Y]
        BY <1>1 DEF Closes
      <3> HIDE DEF Y
      <3>2. "rcvd" \in DOMAIN c1
        BY <1>4 DEF ConnSet
      <3>3. c2.rcvd = Y
        BY <3>1, <3>2
      <3> QED
        BY <3>3 DEF Y
    <2> QED
      BY <2>1
  <1>8. SameWhole(R, c2.rcvd)
    <2>1. CASE ~SomeReceived(c1)
      BY <1>7, <2>1 DEF SameWhole
    <2>2. CASE SomeReceived(c1)
      <3>1. \A b \in Bundles : x # Whole[b] /\ x \in Seq(UnitSet)
        BY <2>2, NothingWhole
      <3>2. c2.rcvd = Append(R, x) /\ R \in Seq(Seq(UnitSet))
        BY <1>4, <1>7, <2>2
      <3> HIDE DEF R, x
      <3>3. ASSUME NEW b \in Bundles
            PROVE  Whole[b] \in ToSet(Append(R, x)) <=> Whole[b] \in ToSet(R)
        <4>1. x # Whole[b] /\ x \in Seq(UnitSet)
          BY <3>1
        <4>2. ToSet(Append(R, x)) = ToSet(R) \cup {x}
          <5> DEFINE Q == Append(R, x)
          <5>1. /\ DOMAIN R = 1 .. Len(R) /\ Len(R) + 1 \in DOMAIN Q /\ Q[Len(R) + 1] = x
                /\ (\A i \in DOMAIN R : i \in DOMAIN Q /\ Q[i] = R[i])
                /\ (\A i \in DOMAIN Q : i \in DOMAIN R \/ i = Len(R) + 1)
            <6>1. Len(R) \in Nat
              BY <3>2
            <6> QED
              BY <3>2, <4>1, <6>1, AppendOf
          <5> HIDE DEF Q
          <5>2. \E j : j \in DOMAIN Q /\ Q[j] = x /\ \A i \in DOMAIN Q : i \in DOMAIN R \/ i = j
            BY <5>1
          <5>3. ToSet(Q) = ToSet(R) \cup {x}
            BY <5>1, <5>2, Zenon DEF ToSet
          <5> QED
            BY <5>3 DEF Q
        <4> QED
          BY <4>1, <4>2
      <3> QED
        BY <3>2, <3>3 DEF SameWhole
    <2> QED
      BY <2>1, <2>2
  <1> HIDE DEF N
  <1> QED
    BY <1>3, <1>5, <1>6, <1>8 DEF Effect, HandsBack

\* So it does when the daemon closes the link.
LEMMA UserCloseEffect ==
    ASSUME StreamInv, NEW e \in Ends, UserClose(e)
    PROVE  Effect(e)
  <1>1. PICK h, g, own, other : EndsOK(e, h, g, own, other)
    BY FromEitherEnd
  <1> DEFINE c == conn[e]
             d == conn[Peer(e)]
             l == link[e]
             c1 == break_contact(c, "USER")
  <1>2. /\ PairOK(c, d, h, g, own, other) /\ BufOK(c) /\ LinkOK(c, d, l, h, Outgoing[e])
        /\ c \in ConnSet /\ d \in ConnSet /\ h \in Seq(Bundles) /\ g \in Seq(Bundles)
        /\ EndOK(c, h, g, own, other)
    BY <1>1, EndsFacts
  <1>3. c.contact /\ c.initiated /\ ~c.closed /\ close_contact(e, c1)
    BY DEF UserClose
  <1>4. Started(c, h) \in Seq(Bundles) /\ l.cancelled \cap ToSet(Started(c, h)) = {}
    BY <1>2, Zenon DEF LinkOK, LinkListsOK, ListsOK
  <1>5. CASE c.broken # "no"
    <2>1. c1 = c
      BY <1>5 DEF break_contact
    <2> HIDE DEF c1
    <2> QED
      BY <1>2, <1>3, <1>4, <2>1, ClosesEffect
  <1>6. CASE c.broken = "no"
    <2> HIDE DEF c, d, l
    <2>1. PairOK(c1, d, h, g, own, other) /\ BufOK(c1) /\ Broke(c, c1, "USER")
      <3>1. "USER" \in Reasons \ {"CL_ERROR"}
        BY DEF Reasons
      <3> QED
        BY <1>2, <1>3, <1>6, <3>1, BreakContact
    <2> HIDE DEF c1
    <2>2. EndOK(c1, h, g, own, other)
      BY <2>1 DEF PairOK
    <2>3. Started(c1, h) = Started(c, h) /\ c1.rcvd = c.rcvd
      BY <1>2, <1>6, <2>1, <2>2, BrokeContinues DEF Continues
    <2>4. ~c1.closed
      BY <1>3, <2>1 DEF Broke
    <2> QED
      BY <1>2, <1>3, <1>4, <2>2, <2>3, <2>4, ClosesEffect DEF c, l
  <1> QED
    BY <1>5, <1>6

\* An event settles a bundle, takes one back, closes the contact or is stale.
LEMMA EventEffect ==
    ASSUME StreamInv, NEW e \in Ends, HandleEvent(e)
    PROVE  Effect(e)
  <1>1. PICK h, g, own, other : EndsOK(e, h, g, own, other)
    BY FromEitherEnd
  <1> DEFINE c == conn[e]
             d == conn[Peer(e)]
             l == link[e]
             ev == Head(c.events)
             c1 == [c EXCEPT !.events = Tail(@)]
  <1>2. /\ PairOK(c, d, h, g, own, other) /\ BufOK(c) /\ LinkOK(c, d, l, h, Outgoing[e])
        /\ c \in ConnSet /\ h \in Seq(Bundles) /\ g \in Seq(Bundles)
        /\ DOMAIN conn = Ends /\ DOMAIN link = Ends
    BY <1>1, EndsFacts DEF StreamInv
  <1>3. c.events # <<>>
    BY DEF HandleEvent
  <1>4. \/ /\ ev.event = "transmitted" /\ conn' = [conn EXCEPT ![e] = c1]
           /\ handle_bundle_transmitted(e, ev)
        \/ /\ ev.event = "cancelled" /\ conn' = [conn EXCEPT ![e] = c1]
           /\ handle_bundle_cancelled(e, ev)
        \/ ev.event = "close" /\ conn' = [conn EXCEPT ![e] = c1] /\ link' = link
        \/ ev.event = "close" /\ ~c.closed /\ close_contact(e, c1)
    BY Zenon DEF HandleEvent
  <1>5. TakesEvent(c, c1)
    BY <1>3 DEF TakesEvent
  <1> HIDE DEF c1
  <1>6. PairOK(c1, d, h, g, own, other) /\ BufOK(c1) /\ OnlyEvents(c, c1)
    BY <1>2, <1>5, EventTaken
  <1>7. c1 \in ConnSet /\ c1.rcvd = c.rcvd /\ c1.closed = c.closed
    BY <1>6 DEF OnlyEvents, Alike
  <1>8. conn' = [conn EXCEPT ![e] = c1] => conn'[e].rcvd = conn[e].rcvd
    BY <1>2, <1>7
  <1>9. c.events \in Seq(EventSet) /\ 1 \in DOMAIN c.events /\ ev = c.events[1] /\ ev \in EventSet
    <2>1. c.events \in Seq(EventSet)
      BY <1>2 DEF ConnSet
    <2> QED
      BY <1>3, <2>1, TailOf
  <1>10. CASE ev.event = "transmitted" /\ conn' = [conn EXCEPT ![e] = c1] /\ handle_bundle_transmitted(e, ev)
    <2>1. CASE ev.b \in DoneOf(l) \cup l.cancelled
      <3>1. link' = link
        BY <1>10, <2>1 DEF handle_bundle_transmitted, Redundant, DoneOf
      <3> QED
        BY <3>1 DEF Effect
    <2>2. CASE ev.b \notin DoneOf(l) \cup l.cancelled
      <3>1. link' = [link EXCEPT ![e].flight = @ \ {ev.b},
                                 ![e].queue = OnlyIn(@, Bundles \ {ev.b}),
                                 ![e].done = @ \cup {[b |-> ev.b, n |-> Counted(e, ev)]}]
        BY <1>10, <2>2 DEF handle_bundle_transmitted, Redundant, DoneOf
      <3>2. Counted(e, ev) = IF c.par.reliable THEN ev.acked ELSE ev.sent
        BY DEF Counted
      <3>3. ev.b \in Bundles
        BY <1>9, <1>10 DEF EventSet, Transmitted, SendCancelled, CloseRequest
      <3> HIDE DEF ev
      <3>4. link'[e] = [l EXCEPT !.flight = @ \ {ev.b}, !.queue = OnlyIn(@, Bundles \ {ev.b}),
                  !.done = @ \cup {[b |-> ev.b, n |-> IF c.par.reliable THEN ev.acked ELSE ev.sent]}]
        BY <1>2, <3>1, <3>2
      <3>5. Settles(c, l, link'[e], ev)
        BY <2>2, <3>4 DEF Settles
      <3> QED
        BY <1>8, <1>10, <3>3, <3>5 DEF Effect
    <2> QED
      BY <2>1, <2>2
  <1>11. CASE ev.event = "cancelled" /\ conn' = [conn EXCEPT ![e] = c1] /\ handle_bundle_cancelled(e, ev)
    <2>1. ev.b \notin DoneOf(l) \cup l.cancelled /\ ev.b \in l.flight \ l.cancelled
      BY <1>2, <1>3, <1>11, CancelledUnknown
    <2>2. link' = [link EXCEPT ![e].cancelled = @ \cup {ev.b}]
      BY <1>11, <2>1 DEF handle_bundle_cancelled, Redundant, DoneOf
    <2> HIDE DEF ev
    <2>3. TakesBack(l, link'[e], ev)
      BY <1>2, <2>2 DEF TakesBack
    <2> QED
      BY <1>8, <1>11, <2>1, <2>3 DEF Effect
  <1>12. CASE ev.event = "close" /\ conn' = [conn EXCEPT ![e] = c1] /\ link' = link
    BY <1>12 DEF Effect
  <1>13. CASE ev.event = "close" /\ ~c.closed /\ close_contact(e, c1)
    <2>1. LinkOK(c1, d, l, h, Outgoing[e])
      BY <1>2, <1>3, <1>6, <1>13, LinkIgnores
    <2>2. Started(c1, h) \in Seq(Bundles) /\ l.cancelled \cap ToSet(Started(c1, h)) = {}
      BY <2>1, Zenon DEF LinkOK, LinkListsOK, ListsOK
    <2>3. EndOK(c1, h, g, own, other)
      BY <1>6 DEF PairOK
    <2> QED
      BY <1>2, <1>7, <1>13, <2>2, <2>3, ClosesEffect
  <1> QED
    BY <1>4, <1>10, <1>11, <1>12, <1>13

\* Every step of an end.
LEMMA StepEffect ==
    ASSUME StreamInv, NEW e \in Ends,
           \/ initiate_contact(e) \/ send_pending_data(e)
           \/ WriteReady(e) \/ ReadReady(e) \/ send_keepalive(e)
           \/ PeerGone(e) \/ Break(e) \/ Idle(e)
           \/ handle_cancel_bundle(e) \/ UserClose(e) \/ HandleEvent(e)
    PROVE  Effect(e)
  <1>1. ASSUME \/ initiate_contact(e) \/ WriteReady(e) \/ ReadReady(e) \/ send_keepalive(e)
               \/ PeerGone(e) \/ Break(e) \/ Idle(e) \/ handle_cancel_bundle(e)
        PROVE  Effect(e)
    <2>1. link' = link
      BY <1>1 DEF initiate_contact, WriteReady, ReadReady, send_keepalive, PeerGone, Break, Idle,
                  handle_cancel_bundle
    <2> QED
      BY <2>1 DEF Effect
  <1> QED
    BY <1>1, PendingEffect, UserCloseEffect, EventEffect

(***************************************************************************)
(* What the sender's daemon knows of a bundle.                             *)
(***************************************************************************)
FateAt(p, x) ==
    CASE x.n < Length[x.b] -> "part"
      [] x.n = Length[x.b] /\ p.acks /\ p.reliable -> "confirmed"
      [] OTHER -> "assumed"

HeldAt(p, l, b) ==
    CASE b \in ToSet(l.queue) -> "queued"
      [] b \in l.cancelled \ ToSet(l.queue) -> "cancelled"
      [] b \in l.flight \ (l.cancelled \cup ToSet(l.queue)) -> "sending"
      [] OTHER -> FateAt(p, CHOOSE d \in l.done : d.b = b)

\* Every bundle is one end's.
LEMMA Senders ==
    /\ \A b \in Bundles : SenderOf[b] \in Ends /\ b \in ToSet(Outgoing[SenderOf[b]])
    /\ \A e \in Ends : \A b \in ToSet(Outgoing[e]) : b \in Bundles /\ SenderOf[b] = e
  <1>1. /\ ToSet(Outgoing["active"]) \cap ToSet(Outgoing["passive"]) = {}
        /\ ToSet(Outgoing["active"]) \cup ToSet(Outgoing["passive"]) = Bundles
    BY StreamAssumption
  <1>2. \A b \in Bundles : \E e \in Ends : b \in ToSet(Outgoing[e])
    BY <1>1 DEF Ends
  <1>3. \A b \in Bundles : SenderOf[b] = CHOOSE e \in Ends : b \in ToSet(Outgoing[e])
    BY DEF SenderOf
  <1>4. \A b \in Bundles : SenderOf[b] \in Ends /\ b \in ToSet(Outgoing[SenderOf[b]])
    BY <1>2, <1>3
  <1>5. \A e \in Ends : \A b \in ToSet(Outgoing[e]) : b \in Bundles
    BY <1>1 DEF Ends
  <1>6. \A d, e \in Ends : \A b : b \in ToSet(Outgoing[d]) /\ b \in ToSet(Outgoing[e]) => d = e
    BY <1>1 DEF Ends
  <1> QED
    BY <1>4, <1>5, <1>6

\* What the mapping says of a bundle is up to its sender.
LEMMA HeldIs ==
    ASSUME NEW e \in Ends, NEW b \in ToSet(Outgoing[e])
    PROVE  /\ Held(b) = HeldAt(conn[e].par, link[e], b)
           /\ Held(b)' = HeldAt(conn'[e].par, link'[e], b)
  <1>1. SenderOf[b] = e
    BY Senders
  <1>2. Held(b) = HeldAt(conn[e].par, link[e], b)
    BY <1>1 DEF Held, FateOf, HeldAt, FateAt
  <1>3. Held(b)' = HeldAt(conn'[e].par, link'[e], b)
    BY <1>1 DEF Held, FateOf, HeldAt, FateAt
  <1> QED
    BY <1>2, <1>3

\* The link's lists say it.
LEMMA HeldFacts ==
    ASSUME NEW c, NEW d, NEW l, NEW h, NEW out, LinkOK(c, d, l, h, out), h \in Seq(Bundles),
           NEW p, NEW b \in ToSet(out)
    PROVE  /\ b \in l.flight \ l.cancelled => HeldAt(p, l, b) = "sending"
           /\ b \in ToSet(l.queue) => HeldAt(p, l, b) = "queued"
           /\ b \in l.cancelled => HeldAt(p, l, b) = "cancelled"
           /\ \A x \in l.done : x.b = b => HeldAt(p, l, b) = FateAt(p, x)
           /\ b \in l.flight \/ b \in ToSet(l.queue) \/ b \in l.cancelled \/ b \in DoneOf(l)
  <1>1. LinkListsOK(c, l, h, out) /\ OncePerBundle(c, l)
    BY DEF LinkOK
  <1> DEFINE F == l.flight
             Q == ToSet(l.queue)
             K == l.cancelled
             D == DoneOf(l)
             S == ToSet(Started(c, h))
  <1>2. /\ ~(b \in Q /\ b \in F) /\ ~(b \in K /\ b \in Q)
        /\ ~(b \in D /\ (b \in F \/ b \in Q \/ b \in K))
        /\ b \in F \/ b \in Q \/ b \in K \/ b \in D
    <2>1. ListsOK(S, ToSet(h), Q, F, D, Named(c.events, "transmitted"), Named(c.events, "cancelled"), K, ToSet(out))
      BY <1>1 DEF LinkListsOK
    <2> HIDE DEF S, Q, F, K, D
    <2> QED
      BY <2>1, Zenon DEF ListsOK
  <1>3. \A x \in l.done : x.b = b => b \in D
    BY DEF DoneOf
  <1>4. \A x, y \in l.done : x.b = y.b => x = y
    BY <1>1 DEF OncePerBundle
  <1>5. ASSUME NEW x \in l.done, x.b = b
        PROVE  HeldAt(p, l, b) = FateAt(p, x)
    <2>1. (CHOOSE y \in l.done : y.b = b) = x
      <3>1. \A y \in l.done : y.b = b => y = x
        BY <1>4, <1>5
      <3> QED
        BY <1>5, <3>1
    <2>2. ~(b \in F \/ b \in Q \/ b \in K)
      BY <1>2, <1>3, <1>5
    <2>3. HeldAt(p, l, b) = FateAt(p, CHOOSE y \in l.done : y.b = b)
      BY <2>2 DEF HeldAt
    <2> QED
      BY <2>1, <2>3
  <1>6. b \in F \ K => HeldAt(p, l, b) = "sending"
    BY <1>2 DEF HeldAt
  <1>7. b \in Q => HeldAt(p, l, b) = "queued"
    BY <1>2 DEF HeldAt
  <1>8. b \in K => HeldAt(p, l, b) = "cancelled"
    BY <1>2 DEF HeldAt
  <1> QED
    BY <1>2, <1>5, <1>6, <1>7, <1>8

\* Two links that say the same of a bundle.
SameOf(l, l2, b) ==
    /\ b \in l2.flight <=> b \in l.flight
    /\ b \in ToSet(l2.queue) <=> b \in ToSet(l.queue)
    /\ b \in l2.cancelled <=> b \in l.cancelled
    /\ \A x : x.b = b => (x \in l2.done <=> x \in l.done)

\* If the link says the same of a bundle, so does the mapping.
LEMMA HeldSame ==
    ASSUME NEW c, NEW d, NEW l, NEW h, NEW out, LinkOK(c, d, l, h, out), h \in Seq(Bundles),
           NEW c2, NEW d2, NEW l2, NEW h2, LinkOK(c2, d2, l2, h2, out), h2 \in Seq(Bundles),
           c.up => c2.par = c.par, NEW b \in ToSet(out), SameOf(l, l2, b)
    PROVE  HeldAt(c2.par, l2, b) = HeldAt(c.par, l, b)
  <1> DEFINE v == HeldAt(c.par, l, b)
             w == HeldAt(c2.par, l2, b)
  <1>1. /\ b \in l.flight \ l.cancelled => v = "sending"
        /\ b \in ToSet(l.queue) => v = "queued"
        /\ b \in l.cancelled => v = "cancelled"
        /\ \A x \in l.done : x.b = b => v = FateAt(c.par, x)
        /\ b \in l.flight \/ b \in ToSet(l.queue) \/ b \in l.cancelled \/ b \in DoneOf(l)
    BY HeldFacts
  <1>2. /\ b \in l2.flight \ l2.cancelled => w = "sending"
        /\ b \in ToSet(l2.queue) => w = "queued"
        /\ b \in l2.cancelled => w = "cancelled"
        /\ \A x \in l2.done : x.b = b => w = FateAt(c2.par, x)
    BY HeldFacts
  <1> HIDE DEF v, w
  <1>3. CASE b \in DoneOf(l)
    <2>1. PICK x \in l.done : x.b = b
      BY <1>3 DEF DoneOf
    <2>2. x \in l2.done
      BY <2>1 DEF SameOf
    <2>3. c.up
      BY <2>1 DEF LinkOK, OncePerBundle
    <2>4. c2.par = c.par
      BY <2>3
    <2> QED
      BY <1>1, <1>2, <2>1, <2>2, <2>4 DEF v, w
  <1>4. CASE b \in l.flight \/ b \in ToSet(l.queue) \/ b \in l.cancelled
    BY <1>1, <1>2, <1>4 DEF SameOf, v, w
  <1> QED
    BY <1>1, <1>3, <1>4 DEF v, w

(***************************************************************************)
(* The refinement mapping, and the steps of the transfer in its terms.     *)
(***************************************************************************)
HeldMap == [b \in Bundles |-> Held(b)]
GotSet  == {b \in Bundles : Got(Peer(SenderOf[b]), b)}

\* Bundles arrive.
LEMMA ArriveStep ==
    ASSUME HeldMap' = HeldMap, GotSet \subseteq GotSet', GotSet' \subseteq Bundles
    PROVE  Transfer!Next
  <1> DEFINE B == GotSet' \ GotSet
  <1>1. B \in SUBSET Bundles /\ B \cap GotSet = {} /\ GotSet' = GotSet \cup B
    OBVIOUS
  <1>2. Transfer!Arrive(B)
    BY <1>1 DEF Transfer!Arrive, HeldMap, GotSet
  <1> HIDE DEF B
  <1> QED
    BY <1>1, <1>2 DEF Transfer!Next

\* A bundle is started.
LEMMA StartStep ==
    ASSUME NEW b \in Bundles, HeldMap[b] = "queued",
           HeldMap' = [HeldMap EXCEPT ![b] = "sending"], GotSet' = GotSet
    PROVE  Transfer!Next
  <1>1. Transfer!Start(b)
    BY DEF Transfer!Start, HeldMap, GotSet
  <1> QED
    BY <1>1 DEF Transfer!Next

\* The fate of a bundle is known.
LEMMA SettleStep ==
    ASSUME NEW b \in Bundles, NEW fate \in {"confirmed", "assumed", "part", "cancelled"},
           HeldMap[b] \in {"queued", "sending"}, fate = "confirmed" => b \in GotSet,
           HeldMap' = [HeldMap EXCEPT ![b] = fate], GotSet' = GotSet
    PROVE  Transfer!Next
  <1>1. fate \in Transfer!Fates /\ HeldMap[b] \notin Transfer!Fates
    BY DEF Transfer!Fates
  <1>2. Transfer!Settle(b, fate)
    BY <1>1 DEF Transfer!Settle, HeldMap, GotSet
  <1> QED
    BY <1>1, <1>2 DEF Transfer!Next

\* Bundles are given back.
LEMMA GiveBackStep ==
    ASSUME NEW B \in SUBSET Bundles, \A b \in B : HeldMap[b] = "sending", B # {},
           HeldMap' = [b \in Bundles |-> IF b \in B THEN "queued" ELSE HeldMap[b]], GotSet' = GotSet
    PROVE  Transfer!Next
  <1>1. B \in SUBSET {b \in Bundles : HeldMap[b] = "sending"}
    OBVIOUS
  <1>2. Transfer!GiveBack(B)
    BY DEF Transfer!GiveBack, HeldMap, GotSet
  <1> QED
    BY <1>1, <1>2 DEF Transfer!Next, HeldMap

\* What has arrived stays.
LEMMA GotGrows ==
    ASSUME StreamInv, StreamInv', NEW e \in Ends, Calm(e)
    PROVE  GotSet \subseteq GotSet' /\ GotSet' \subseteq Bundles
  <1>1. ASSUME NEW b \in Bundles, Got(Peer(SenderOf[b]), b)
        PROVE  Got(Peer(SenderOf[b]), b)'
    <2> DEFINE f == Peer(SenderOf[b])
    <2>1. f \in Ends /\ (f = e \/ f = Peer(e))
      BY Senders, TheEnds
    <2> HIDE DEF f
    <2>2. PICK i \in DOMAIN conn[f].rcvd : conn[f].rcvd[i] = Whole[b]
      BY <1>1 DEF Got, f
    <2>3. CASE f = e
      <3>1. Extends(conn[e].rcvd, conn'[e].rcvd)
        BY DEF Calm
      <3>2. conn[e].rcvd \in Seq(Seq(UnitSet)) /\ conn'[e].rcvd \in Seq(Seq(UnitSet))
        BY DEF StreamInv, ConnSet
      <3>3. ToSet(conn[e].rcvd) \subseteq ToSet(conn'[e].rcvd)
        BY <3>1, <3>2, ExtendsSet
      <3>4. Whole[b] \in ToSet(conn[e].rcvd)
        BY <2>2, <2>3 DEF ToSet
      <3>5. Whole[b] \in ToSet(conn'[e].rcvd)
        BY <3>3, <3>4
      <3> QED
        BY <2>3, <3>5 DEF Got, f, ToSet
    <2>4. CASE f = Peer(e)
      <3>1. conn'[f].rcvd = conn[f].rcvd
        BY <2>4 DEF Calm
      <3> QED
        BY <2>2, <3>1 DEF Got, f
    <2> QED
      BY <2>1, <2>3, <2>4
  <1> QED
    BY <1>1 DEF GotSet

\* Nothing arrives.
LEMMA GotStays ==
    ASSUME NEW e \in Ends, Calm(e), SameWhole(conn[e].rcvd, conn'[e].rcvd)
    PROVE  GotSet' = GotSet
  <1>1. ASSUME NEW b \in Bundles
        PROVE  Got(Peer(SenderOf[b]), b)' <=> Got(Peer(SenderOf[b]), b)
    <2> DEFINE f == Peer(SenderOf[b])
    <2>1. f = e \/ f = Peer(e)
      BY Senders, TheEnds
    <2>2. (Got(f, b) <=> Whole[b] \in ToSet(conn[f].rcvd))
          /\ (Got(f, b)' <=> Whole[b] \in ToSet(conn'[f].rcvd))
      BY DEF Got, ToSet
    <2> HIDE DEF f
    <2>3. CASE f = e
      <3>1. Whole[b] \in ToSet(conn[e].rcvd) <=> Whole[b] \in ToSet(conn'[e].rcvd)
        BY DEF SameWhole
      <3> QED
        BY <2>2, <2>3, <3>1 DEF f
    <2>4. CASE f = Peer(e)
      <3>1. conn'[f].rcvd = conn[f].rcvd
        BY <2>4 DEF Calm
      <3> QED
        BY <2>2, <3>1 DEF f
    <2> QED
      BY <2>1, <2>3, <2>4
  <1> QED
    BY <1>1 DEF GotSet

\* The step changes what one end knows of its own bundles.
LEMMA OtherHeld ==
    ASSUME NEW e \in Ends, Calm(e), NEW b \in Bundles, b \notin ToSet(Outgoing[e])
    PROVE  Held(b)' = Held(b)
  <1>1. Peer(e) \in Ends /\ b \in ToSet(Outgoing[Peer(e)])
    BY Senders, TheEnds
  <1> DEFINE f == Peer(e)
  <1> HIDE DEF f
  <1>2. f \in Ends /\ b \in ToSet(Outgoing[f]) /\ conn'[f].par = conn[f].par /\ link'[f] = link[f]
    BY <1>1 DEF Calm, f
  <1> QED
    BY <1>2, HeldIs

\* The links of an end before and after the step.
LEMMA BeforeAndAfter ==
    ASSUME StreamInv, StreamInv', NEW e \in Ends
    PROVE  /\ \E h \in Seq(Bundles) : LinkOK(conn[e], conn[Peer(e)], link[e], h, Outgoing[e])
           /\ \E h \in Seq(Bundles) : LinkOK(conn'[e], conn'[Peer(e)], link'[e], h, Outgoing[e])
  <1>1. PICK h, g, own, other : EndsOK(e, h, g, own, other)
    BY FromEitherEnd
  <1>2. LinkOK(conn[e], conn[Peer(e)], link[e], h, Outgoing[e]) /\ h \in Seq(Bundles)
    BY <1>1 DEF EndsOK, PairOK
  <1>3. PICK x, y, own2, other2 : EndsOK("active", x, y, own2, other2)'
    BY DEF StreamInv
  <1>4. /\ LinkOK(conn'["active"], conn'["passive"], link'["active"], x, Outgoing["active"])
        /\ LinkOK(conn'["passive"], conn'["active"], link'["passive"], y, Outgoing["passive"])
        /\ x \in Seq(Bundles) /\ y \in Seq(Bundles)
    BY <1>3 DEF EndsOK, PairOK, Peer
  <1>5. \E k \in Seq(Bundles) : LinkOK(conn'[e], conn'[Peer(e)], link'[e], k, Outgoing[e])
    <2>1. CASE e = "active"
      BY <1>4, <2>1 DEF Peer
    <2>2. CASE e = "passive"
      BY <1>4, <2>2 DEF Peer
    <2> QED
      BY <2>1, <2>2 DEF Ends
  <1> QED
    BY <1>2, <1>5

(***************************************************************************)
(* Every step is one of the transfer's, or none.                           *)
(***************************************************************************)
\* What an end knows of its bundles before and after a step.
HeldBy(e, b) == HeldAt(conn[e].par, link[e], b)

\* A step of end e that leaves the link alone.
LEMMA QuietRefines ==
    ASSUME StreamInv, StreamInv', NEW e \in Ends, Calm(e),
           \A b \in ToSet(Outgoing[e]) : SameOf(link[e], link'[e], b)
    PROVE  Transfer!Next
  <1>1. PICK h \in Seq(Bundles) : LinkOK(conn[e], conn[Peer(e)], link[e], h, Outgoing[e])
    BY BeforeAndAfter
  <1>2. PICK h2 \in Seq(Bundles) : LinkOK(conn'[e], conn'[Peer(e)], link'[e], h2, Outgoing[e])
    BY BeforeAndAfter
  <1>3. conn[e].up => conn'[e].par = conn[e].par
    BY DEF Calm
  <1>4. \A b \in ToSet(Outgoing[e]) : HeldBy(e, b)' = HeldBy(e, b)
    BY <1>1, <1>2, <1>3, HeldSame DEF HeldBy
  <1>5. \A b \in Bundles : Held(b)' = Held(b)
    <2>1. \A b \in ToSet(Outgoing[e]) : Held(b)' = Held(b)
      BY <1>4, HeldIs DEF HeldBy
    <2> QED
      BY <2>1, OtherHeld
  <1>6. HeldMap' = HeldMap
    BY <1>5 DEF HeldMap
  <1> QED
    BY <1>6, GotGrows, ArriveStep

\* What the step says of each bundle: a fate for those of B, and nothing new of
\* the others.
SaysOf(e, B, v) ==
    /\ B \subseteq ToSet(Outgoing[e]) /\ \A b \in B : HeldBy(e, b)' = v
    /\ \A b \in ToSet(Outgoing[e]) \ B : SameOf(link[e], link'[e], b)

\* The mapping after such a step.
LEMMA MapAfter ==
    ASSUME StreamInv, StreamInv', NEW e \in Ends, Calm(e), NEW B, NEW v, SaysOf(e, B, v)
    PROVE  HeldMap' = [b \in Bundles |-> IF b \in B THEN v ELSE HeldMap[b]]
  <1>1. PICK h \in Seq(Bundles) : LinkOK(conn[e], conn[Peer(e)], link[e], h, Outgoing[e])
    BY BeforeAndAfter
  <1>2. PICK h2 \in Seq(Bundles) : LinkOK(conn'[e], conn'[Peer(e)], link'[e], h2, Outgoing[e])
    BY BeforeAndAfter
  <1>3. conn[e].up => conn'[e].par = conn[e].par
    BY DEF Calm
  <1>a. /\ B \subseteq ToSet(Outgoing[e]) /\ \A b \in B : HeldBy(e, b)' = v
        /\ \A b \in ToSet(Outgoing[e]) \ B : SameOf(link[e], link'[e], b)
    BY DEF SaysOf
  <1>4. \A b \in ToSet(Outgoing[e]) \ B : HeldBy(e, b)' = HeldBy(e, b)
    BY <1>1, <1>2, <1>3, <1>a, HeldSame DEF HeldBy
  <1>5. ASSUME NEW b \in Bundles
        PROVE  Held(b)' = IF b \in B THEN v ELSE Held(b)
    <2>1. CASE b \in B
      BY <1>a, <2>1, HeldIs DEF HeldBy
    <2>2. CASE b \in ToSet(Outgoing[e]) \ B
      BY <1>4, <2>2, HeldIs DEF HeldBy
    <2>3. CASE b \notin ToSet(Outgoing[e])
      BY <1>a, <2>3, OtherHeld
    <2> QED
      BY <2>1, <2>2, <2>3
  <1> QED
    BY <1>5 DEF HeldMap

\* The same, for one bundle.
LEMMA OneAfter ==
    ASSUME StreamInv, StreamInv', NEW e \in Ends, Calm(e), NEW b \in ToSet(Outgoing[e]),
           NEW v, HeldBy(e, b)' = v,
           \A x \in ToSet(Outgoing[e]) : x # b => SameOf(link[e], link'[e], x)
    PROVE  HeldMap' = [HeldMap EXCEPT ![b] = v]
  <1> DEFINE B == {b}
  <1>1. B \subseteq ToSet(Outgoing[e]) /\ (\A x \in B : HeldBy(e, x)' = v)
    OBVIOUS
  <1>a. \A x \in ToSet(Outgoing[e]) \ B : SameOf(link[e], link'[e], x)
    OBVIOUS
  <1>2. HeldMap' = [x \in Bundles |-> IF x \in B THEN v ELSE HeldMap[x]]
    <2>1. SaysOf(e, B, v)
      BY <1>1, <1>a DEF SaysOf
    <2> HIDE DEF B
    <2> QED
      BY <2>1, MapAfter
  <1>3. b \in Bundles
    BY Senders
  <1> QED
    BY <1>2, <1>3 DEF HeldMap

\* A step that gives the daemon nothing.
LEMMA NoneArrives ==
    ASSUME NEW e \in Ends, conn'[e].rcvd = conn[e].rcvd
    PROVE  SameWhole(conn[e].rcvd, conn'[e].rcvd)
  BY DEF SameWhole

\* send_pending_data is the start of a bundle.
LEMMA StartRefines ==
    ASSUME StreamInv, StreamInv', NEW e \in Ends, Calm(e), conn'[e].rcvd = conn[e].rcvd,
           NEW b, StartsOn(link[e], link'[e], b)
    PROVE  Transfer!Next
  <1> DEFINE l == link[e]
             m == link'[e]
  <1>1. PICK h \in Seq(Bundles) : LinkOK(conn[e], conn[Peer(e)], l, h, Outgoing[e])
    BY BeforeAndAfter
  <1>2. PICK h2 \in Seq(Bundles) : LinkOK(conn'[e], conn'[Peer(e)], m, h2, Outgoing[e])
    BY BeforeAndAfter
  <1>3. l \in LinkSet /\ ToSet(l.queue) \subseteq ToSet(Outgoing[e])
    BY <1>1 DEF LinkOK, LinkListsOK, ListsOK
  <1>4. /\ l.queue \in Seq(Bundles) /\ l.queue # <<>> /\ b = Head(l.queue)
        /\ m.queue = Tail(l.queue) /\ m.flight = l.flight \cup {b}
        /\ m.done = l.done /\ m.cancelled = l.cancelled
    BY <1>3 DEF StartsOn, LinkSet
  <1> HIDE DEF l, m
  <1>5. b \in ToSet(l.queue) /\ \A x : x # b => (x \in ToSet(m.queue) <=> x \in ToSet(l.queue))
    <2>1. ASSUME NEW q \in Seq(Bundles), q # <<>>
          PROVE  Head(q) \in ToSet(q) /\ ToSet(q) = ToSet(Tail(q)) \cup {Head(q)}
      <3>1. /\ DOMAIN q = 1 .. Len(q) /\ Len(q) \in Nat /\ Len(q) > 0 /\ Head(q) = q[1]
            /\ Tail(q) \in Seq(Bundles) /\ DOMAIN Tail(q) = 1 .. Len(q) - 1
            /\ \A i \in 1 .. Len(q) - 1 : Tail(q)[i] = q[i + 1]
        BY <2>1
      <3>2. \A x \in ToSet(q) : x \in ToSet(Tail(q)) \cup {Head(q)}
        <4>1. SUFFICES ASSUME NEW i \in DOMAIN q
                       PROVE  q[i] \in ToSet(Tail(q)) \cup {Head(q)}
          BY DEF ToSet
        <4>2. CASE i = 1
          BY <3>1, <4>2
        <4>3. CASE i # 1
          <5>1. i - 1 \in DOMAIN Tail(q) /\ Tail(q)[i - 1] = q[i]
            BY <3>1, <4>3
          <5> QED
            BY <5>1 DEF ToSet
        <4> QED
          BY <4>2, <4>3
      <3>3. \A x \in ToSet(Tail(q)) \cup {Head(q)} : x \in ToSet(q)
        <4>1. 1 \in DOMAIN q /\ \A i \in DOMAIN Tail(q) : i + 1 \in DOMAIN q /\ q[i + 1] = Tail(q)[i]
          BY <3>1
        <4> QED
          BY <3>1, <4>1 DEF ToSet
      <3> QED
        BY <3>2, <3>3
    <2> QED
      BY <1>4, <2>1
  <1>6. b \in ToSet(Outgoing[e]) /\ b \in Bundles
    BY <1>3, <1>5, Senders
  <1>7. \A x \in ToSet(Outgoing[e]) : x # b => SameOf(l, m, x)
    BY <1>4, <1>5 DEF SameOf
  <1>8. HeldBy(e, b) = "queued"
    BY <1>1, <1>5, <1>6, HeldFacts DEF HeldBy, l
  <1>9. HeldBy(e, b)' = "sending"
    <2>1. b \in m.flight \ m.cancelled
      <3>1. b \notin l.cancelled
        BY <1>1, <1>5, Zenon DEF LinkOK, LinkListsOK, ListsOK
      <3> QED
        BY <1>4, <3>1
    <2> QED
      BY <1>2, <1>6, <2>1, HeldFacts DEF HeldBy, m
  <1>10. HeldMap' = [HeldMap EXCEPT ![b] = "sending"]
    BY <1>6, <1>7, <1>9, OneAfter DEF l, m
  <1>11. HeldMap[b] = "queued"
    BY <1>6, <1>8, HeldIs DEF HeldBy, HeldMap
  <1>12. GotSet' = GotSet
    BY NoneArrives, GotStays
  <1> QED
    BY <1>6, <1>10, <1>11, <1>12, StartStep

\* handle_bundle_transmitted settles a bundle, as confirmed only if its peer
\* has it.
LEMMA SettleRefines ==
    ASSUME StreamInv, StreamInv', NEW e \in Ends, Calm(e), conn'[e].rcvd = conn[e].rcvd,
           NEW ev, ev.b \in Bundles, Settles(conn[e], link[e], link'[e], ev)
    PROVE  Transfer!Next
  <1> DEFINE l == link[e]
             m == link'[e]
             b == ev.b
             p == conn'[e].par
             n == IF conn[e].par.reliable THEN ev.acked ELSE ev.sent
             x == [b |-> b, n |-> n]
  <1>1. PICK h \in Seq(Bundles) : LinkOK(conn[e], conn[Peer(e)], l, h, Outgoing[e])
    BY BeforeAndAfter
  <1>2. PICK h2 \in Seq(Bundles) : LinkOK(conn'[e], conn'[Peer(e)], m, h2, Outgoing[e])
    BY BeforeAndAfter
  <1>3. l \in LinkSet
    BY <1>1 DEF LinkOK
  <1>4. /\ l.queue \in Seq(Bundles) /\ b \notin DoneOf(l) /\ b \notin l.cancelled
        /\ m.queue = OnlyIn(l.queue, Bundles \ {b}) /\ m.flight = l.flight \ {b}
        /\ m.done = l.done \cup {x} /\ m.cancelled = l.cancelled /\ x.b = b /\ x.n = n
    BY <1>3 DEF Settles, LinkSet
  <1> HIDE DEF l, m, b, n, x
  <1>5. ToSet(m.queue) = ToSet(l.queue) \ {b}
    <2>1. l.queue \in Seq(Bundles) /\ m.queue = OnlyIn(l.queue, Bundles \ {b})
      BY <1>4
    <2> QED
      BY <2>1, QueueWithout
  <1>6. b \in ToSet(Outgoing[e]) /\ b \in Bundles
    <2>1. DoneOf(m) \subseteq ToSet(h2) /\ ToSet(h2) \subseteq ToSet(Started(conn'[e], h2))
          /\ ToSet(Started(conn'[e], h2)) \subseteq ToSet(Outgoing[e])
      BY <1>2, Zenon DEF LinkOK, LinkListsOK, ListsOK
    <2>2. b \in DoneOf(m)
      BY <1>4 DEF DoneOf
    <2> QED
      BY <2>1, <2>2 DEF b
  <1>7. \A y \in ToSet(Outgoing[e]) : y # b => SameOf(l, m, y)
    BY <1>4, <1>5 DEF SameOf
  <1>8. HeldBy(e, b) \in {"queued", "sending"}
    <2>1. b \in l.flight \ l.cancelled \/ b \in ToSet(l.queue)
      BY <1>1, <1>4, <1>6, HeldFacts
    <2> QED
      BY <1>1, <1>6, <2>1, HeldFacts DEF HeldBy, l
  <1>9. HeldBy(e, b)' = FateAt(p, x)
    <2>1. x \in m.done /\ x.b = b
      BY <1>4
    <2> QED
      BY <1>2, <1>6, <2>1, HeldFacts DEF HeldBy, m
  <1>10. PICK v \in {"confirmed", "assumed", "part", "cancelled"} :
            v = FateAt(p, x) /\ (v = "confirmed" => x.n = Length[x.b] /\ p.acks /\ p.reliable)
    BY DEF FateAt
  <1>11. HeldMap' = [HeldMap EXCEPT ![b] = v]
    BY <1>6, <1>7, <1>9, <1>10, OneAfter DEF l, m
  <1>12. HeldMap[b] \in {"queued", "sending"}
    BY <1>6, <1>8, HeldIs DEF HeldBy, HeldMap
  <1>13. GotSet' = GotSet
    BY NoneArrives, GotStays
  <1>14. v = "confirmed" => b \in GotSet
    <2>1. SUFFICES ASSUME v = "confirmed"
                   PROVE  b \in GotSet
      OBVIOUS
    <2>2. ConfirmedOK(conn'[e], m, conn'[Peer(e)].rcvd)
      BY <1>2 DEF LinkOK
    <2>3. x \in m.done /\ x.n = Length[x.b] /\ conn'[e].par.acks /\ conn'[e].par.reliable
      BY <1>4, <1>10, <2>1
    <2>4. Whole[x.b] \in ToSet(conn'[Peer(e)].rcvd)
      BY <2>2, <2>3 DEF ConfirmedOK
    <2>5. Whole[b] \in ToSet(conn[Peer(e)].rcvd)
      BY <1>4, <2>4 DEF Calm
    <2>6. SenderOf[b] = e
      BY <1>6, Senders
    <2>7. Got(Peer(SenderOf[b]), b)
      BY <2>5, <2>6 DEF Got, ToSet
    <2> QED
      BY <1>6, <2>7 DEF GotSet
  <1> QED
    BY <1>6, <1>11, <1>12, <1>13, <1>14, SettleStep

\* handle_bundle_cancelled settles a bundle as cancelled.
LEMMA TakeBackRefines ==
    ASSUME StreamInv, StreamInv', NEW e \in Ends, Calm(e), conn'[e].rcvd = conn[e].rcvd,
           NEW ev, ev.b \in link[e].flight \ link[e].cancelled, TakesBack(link[e], link'[e], ev)
    PROVE  Transfer!Next
  <1> DEFINE l == link[e]
             m == link'[e]
             b == ev.b
  <1>1. PICK h \in Seq(Bundles) : LinkOK(conn[e], conn[Peer(e)], l, h, Outgoing[e])
    BY BeforeAndAfter
  <1>2. PICK h2 \in Seq(Bundles) : LinkOK(conn'[e], conn'[Peer(e)], m, h2, Outgoing[e])
    BY BeforeAndAfter
  <1>3. l \in LinkSet /\ LinkListsOK(conn[e], l, h, Outgoing[e])
    BY <1>1 DEF LinkOK
  <1>4. /\ b \in l.flight \ l.cancelled /\ m.queue = l.queue /\ m.flight = l.flight
        /\ m.done = l.done /\ m.cancelled = l.cancelled \cup {b}
    BY <1>3 DEF TakesBack, LinkSet
  <1> HIDE DEF l, m, b
  <1>6. b \in ToSet(Outgoing[e]) /\ b \in Bundles
    <2>1. l.flight \subseteq Bundles
      BY <1>3 DEF LinkSet
    <2>2. b \in Bundles
      BY <1>4, <2>1
    <2>3. ListsOK(ToSet(Started(conn[e], h)), ToSet(h), ToSet(l.queue), l.flight, DoneOf(l),
            Named(conn[e].events, "transmitted"), Named(conn[e].events, "cancelled"),
            l.cancelled, ToSet(Outgoing[e]))
      BY <1>3 DEF LinkListsOK
    <2>4. l.flight \subseteq ToSet(Outgoing[e])
      BY <2>3, Zenon DEF ListsOK
    <2> QED
      BY <1>4, <2>2, <2>4
  <1>7. \A y \in ToSet(Outgoing[e]) : y # b => SameOf(l, m, y)
    BY <1>4 DEF SameOf
  <1>8. HeldBy(e, b) = "sending"
    BY <1>1, <1>4, <1>6, HeldFacts DEF HeldBy, l
  <1>9. HeldBy(e, b)' = "cancelled"
    <2>1. b \in m.cancelled
      BY <1>4
    <2> QED
      BY <1>2, <1>6, <2>1, HeldFacts DEF HeldBy, m
  <1>10. HeldMap' = [HeldMap EXCEPT ![b] = "cancelled"]
    BY <1>6, <1>7, <1>9, OneAfter DEF l, m
  <1>11. HeldMap[b] = "sending"
    BY <1>6, <1>8, HeldIs DEF HeldBy, HeldMap
  <1>12. GotSet' = GotSet
    BY NoneArrives, GotStays
  <1> QED
    BY <1>6, <1>10, <1>11, <1>12, SettleStep

\* close_contact gives bundles back.
LEMMA GiveBackRefines ==
    ASSUME StreamInv, StreamInv', NEW e \in Ends, Calm(e), SameWhole(conn[e].rcvd, conn'[e].rcvd),
           NEW N \in Seq(Bundles), HandsBack(link[e], link'[e], N)
    PROVE  Transfer!Next
  <1> DEFINE l == link[e]
             m == link'[e]
             B == ToSet(N)
  <1>1. PICK h \in Seq(Bundles) : LinkOK(conn[e], conn[Peer(e)], l, h, Outgoing[e])
    BY BeforeAndAfter
  <1>2. PICK h2 \in Seq(Bundles) : LinkOK(conn'[e], conn'[Peer(e)], m, h2, Outgoing[e])
    BY BeforeAndAfter
  <1>3. l \in LinkSet /\ LinkListsOK(conn[e], l, h, Outgoing[e])
    BY <1>1 DEF LinkOK
  <1>4. /\ l.queue \in Seq(Bundles) /\ m.queue = l.queue \o N /\ m.flight = l.flight \ B
        /\ m.done = l.done /\ m.cancelled = l.cancelled
    BY <1>3 DEF LinkSet, HandsBack
  <1> HIDE DEF l, m, B
  <1>5. ToSet(m.queue) = ToSet(l.queue) \cup B
    BY <1>4, JoinedSet DEF B
  <1>6. B \subseteq ToSet(Outgoing[e]) /\ B \in SUBSET Bundles /\ B \subseteq l.flight \ l.cancelled
    <2>1. l.flight \subseteq ToSet(Outgoing[e])
      BY <1>3, Zenon DEF LinkListsOK, ListsOK
    <2>2. B \subseteq l.flight \ l.cancelled
      BY DEF B, l, HandsBack
    <2> QED
      BY <2>1, <2>2, Senders
  <1>7. \A y \in ToSet(Outgoing[e]) \ B : SameOf(l, m, y)
    BY <1>4, <1>5 DEF SameOf
  <1>8. CASE B = {}
    BY <1>7, <1>8, QuietRefines DEF l, m
  <1>9. CASE B # {}
    <2>1. \A b \in B : HeldBy(e, b) = "sending"
      BY <1>1, <1>6, HeldFacts DEF HeldBy, l
    <2>2. \A b \in B : HeldBy(e, b)' = "queued"
      <3>1. SUFFICES ASSUME NEW b \in B
                     PROVE  HeldBy(e, b)' = "queued"
        OBVIOUS
      <3>2. b \in ToSet(m.queue) /\ b \in ToSet(Outgoing[e])
        BY <1>5, <1>6
      <3>3. HeldAt(conn'[e].par, m, b) = "queued"
        BY <1>2, <3>2, HeldFacts
      <3> QED
        BY <3>3 DEF HeldBy, m
    <2>3. HeldMap' = [b \in Bundles |-> IF b \in B THEN "queued" ELSE HeldMap[b]]
      <3>1. \A b \in ToSet(Outgoing[e]) \ B : SameOf(link[e], link'[e], b)
        BY <1>7 DEF l, m
      <3>2. B \subseteq ToSet(Outgoing[e])
        BY <1>6
      <3>3. SaysOf(e, B, "queued")
        BY <2>2, <3>1, <3>2, Zenon DEF SaysOf
      <3> QED
        BY <3>3, MapAfter
    <2>4. \A b \in B : HeldMap[b] = "sending"
      BY <1>6, <2>1, HeldIs DEF HeldBy, HeldMap
    <2>5. GotSet' = GotSet
      BY GotStays
    <2> QED
      BY <1>6, <1>9, <2>3, <2>4, <2>5, GiveBackStep
  <1> QED
    BY <1>8, <1>9

\* A step of the two connections is a step of the transfer.
LEMMA StepRefines ==
    ASSUME StreamInv, StreamInv', NEW e \in Ends, Calm(e), Effect(e)
    PROVE  Transfer!Next
  <1>1. CASE link'[e] = link[e]
    <2>1. \A b \in ToSet(Outgoing[e]) : SameOf(link[e], link'[e], b)
      BY <1>1 DEF SameOf
    <2> QED
      BY <2>1, QuietRefines
  <1>2. CASE conn'[e].rcvd = conn[e].rcvd /\ \E b : StartsOn(link[e], link'[e], b)
    BY <1>2, StartRefines
  <1>3. CASE /\ conn'[e].rcvd = conn[e].rcvd
             /\ \E ev : ev.b \in Bundles /\ Settles(conn[e], link[e], link'[e], ev)
    BY <1>3, SettleRefines
  <1>4. CASE /\ conn'[e].rcvd = conn[e].rcvd
             /\ \E ev : ev.b \in link[e].flight \ link[e].cancelled /\ TakesBack(link[e], link'[e], ev)
    BY <1>4, TakeBackRefines
  <1>5. CASE /\ SameWhole(conn[e].rcvd, conn'[e].rcvd)
             /\ \E N \in Seq(Bundles) : HandsBack(link[e], link'[e], N)
    BY <1>5, GiveBackRefines
  <1> QED
    BY <1>1, <1>2, <1>3, <1>4, <1>5 DEF Effect

\* Every step is a step of the transfer or leaves it alone.
LEMMA NextRefines == StreamInv /\ StreamInv' /\ [Next]_vars => [Transfer!Next]_(Transfer!vars)
  <1> SUFFICES ASSUME StreamInv, StreamInv', [Next]_vars
               PROVE  [Transfer!Next]_(Transfer!vars)
    OBVIOUS
  <1>1. CASE UNCHANGED vars
    <2>1. HeldMap' = HeldMap /\ GotSet' = GotSet
      BY <1>1 DEF vars, HeldMap, GotSet, Held, FateOf, Got
    <2> QED
      BY <2>1 DEF Transfer!vars, HeldMap, GotSet
  <1>2. CASE Next
    <2>1. PICK e \in Ends :
              \/ initiate_contact(e) \/ send_pending_data(e)
              \/ WriteReady(e) \/ ReadReady(e) \/ send_keepalive(e)
              \/ PeerGone(e) \/ Break(e) \/ Idle(e)
              \/ handle_cancel_bundle(e) \/ UserClose(e) \/ HandleEvent(e)
      BY <1>2 DEF Next
    <2>2. Calm(e)
      BY <2>1, NextStep
    <2>3. Effect(e)
      BY <2>1, StepEffect
    <2>4. Transfer!Next
      BY <2>2, <2>3, StepRefines
    <2> QED
      BY <2>4
  <1> QED
    BY <1>1, <1>2

\* The transfer starts as it should.
LEMMA InitRefines == Init => Transfer!Init
  <1> SUFFICES ASSUME Init
               PROVE  Transfer!Init
    OBVIOUS
  <1>1. ASSUME NEW b \in Bundles
        PROVE  Held(b) = "queued" /\ ~Got(Peer(SenderOf[b]), b)
    <2> DEFINE e == SenderOf[b]
               f == Peer(e)
    <2>1. e \in Ends /\ b \in ToSet(Outgoing[e]) /\ f \in Ends
      BY Senders, TheEnds
    <2>2. link[e] = [queue |-> Outgoing[e], flight |-> {}, done |-> {}, cancelled |-> {}]
      BY <2>1 DEF Init
    <2>3. conn[f].rcvd = <<>>
      BY <2>1 DEF Init, NewConnection
    <2>4. Held(b) = "queued"
      <3>1. b \notin link[e].flight /\ b \in ToSet(link[e].queue) /\ b \notin link[e].cancelled
        BY <2>1, <2>2
      <3> QED
        BY <3>1 DEF Held
    <2>5. ~Got(f, b)
      BY <2>3 DEF Got
    <2> QED
      BY <2>4, <2>5
  <1> QED
    BY <1>1 DEF Transfer!Init

(***************************************************************************)
(* The two connections, their sockets and the daemons' lists implement the *)
(* transfer of bundles.                                                    *)
(***************************************************************************)
THEOREM StreamImplementsTransfer ==
    ASSUME OldLinks = {NoParams}
    PROVE  Spec => ImplementsTransfer
  <1>1. Init => Transfer!Init
    BY InitRefines
  <1>2. StreamInv /\ StreamInv' /\ [Next]_vars => [Transfer!Next]_(Transfer!vars)
    BY NextRefines
  <1> QED
    BY <1>1, <1>2, StreamInvariant, PTL DEF Spec, ImplementsTransfer, Transfer!Spec

\* A fate is final: no step of the connections or the daemons changes what the
\* sender's daemon knows of a bundle that was confirmed, assumed to be sent,
\* sent in part or cancelled.
FatesAreFinal ==
    [][\A b \in Bundles : Held(b) \in Transfer!Fates => Held(b)' = Held(b)]_vars

LEMMA FateStep ==
    [Transfer!Next]_(Transfer!vars) =>
        \A b \in Bundles : Held(b) \in Transfer!Fates => Held(b)' = Held(b)
  <1> SUFFICES ASSUME [Transfer!Next]_(Transfer!vars), NEW b \in Bundles, Held(b) \in Transfer!Fates
               PROVE  Held(b)' = Held(b)
    OBVIOUS
  <1>1. HeldMap[b] = Held(b) /\ HeldMap'[b] = Held(b)' /\ DOMAIN HeldMap = Bundles
    BY DEF HeldMap
  <1>2. "queued" \notin Transfer!Fates /\ "sending" \notin Transfer!Fates
    BY DEF Transfer!Fates
  <1>3. HeldMap'[b] = HeldMap[b]
    <2>1. CASE UNCHANGED Transfer!vars
      BY <2>1 DEF Transfer!vars, HeldMap
    <2>2. ASSUME NEW x \in Bundles, Transfer!Start(x)
          PROVE  HeldMap'[b] = HeldMap[b]
      <3>1. HeldMap[x] = "queued" /\ HeldMap' = [HeldMap EXCEPT ![x] = "sending"]
        BY <2>2 DEF Transfer!Start, HeldMap
      <3> QED
        BY <1>1, <1>2, <3>1
    <2>3. ASSUME NEW x \in Bundles, NEW v, Transfer!Settle(x, v)
          PROVE  HeldMap'[b] = HeldMap[b]
      <3>1. HeldMap[x] \notin Transfer!Fates /\ HeldMap' = [HeldMap EXCEPT ![x] = v]
        BY <2>3 DEF Transfer!Settle, HeldMap
      <3> QED
        BY <1>1, <3>1
    <2>4. ASSUME NEW B, Transfer!Arrive(B)
          PROVE  HeldMap'[b] = HeldMap[b]
      BY <2>4 DEF Transfer!Arrive, HeldMap
    <2>5. ASSUME NEW B \in SUBSET {x \in Bundles : HeldMap[x] = "sending"}, Transfer!GiveBack(B)
          PROVE  HeldMap'[b] = HeldMap[b]
      <3>1. HeldMap' = [x \in Bundles |-> IF x \in B THEN "queued" ELSE HeldMap[x]]
        BY <2>5 DEF Transfer!GiveBack, HeldMap
      <3> QED
        BY <1>1, <1>2, <3>1
    <2> QED
      BY <2>1, <2>2, <2>3, <2>4, <2>5, Zenon DEF Transfer!Next, HeldMap
  <1> QED
    BY <1>1, <1>3

\* What the sender's daemon has once learnt of a bundle stands, although
\* close_contact puts bundles back, an event about a bundle may come twice and
\* a cancelled bundle stays on the link's in-flight list.
THEOREM StreamFatesAreFinal ==
    ASSUME OldLinks = {NoParams}
    PROVE  Spec => FatesAreFinal
  <1>1. StreamInv /\ StreamInv' /\ [Next]_vars =>
            [\A b \in Bundles : Held(b) \in Transfer!Fates => Held(b)' = Held(b)]_vars
    BY NextRefines, FateStep
  <1> QED
    BY <1>1, StreamInvariant, PTL DEF Spec, FatesAreFinal

=============================================================================
