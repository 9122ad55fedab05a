------------------------------ MODULE StreamCL ------------------------------
(***************************************************************************)
(* One connection of the stream convergence layer over TCP, seen from both *)
(* ends (StreamConvergenceLayer.cc, TCPConvergenceLayer.cc,                *)
(* CLConnection.cc) together with the daemon's part in it: closing the     *)
(* contact (ConnectionConvergenceLayer.cc) and handling what the           *)
(* connection reports (BundleDaemon.cc).                                   *)
(*                                                                         *)
(* An end has one connection thread. An iteration of its main loop sends   *)
(* what it can and then polls; the two halves are the actions              *)
(* send_pending_data and handle_poll_activity below. The stream is a       *)
(* sequence of units: a contact header, the two halves of a segment        *)
(* header, one unit of a bundle, an acknowledgement, a keepalive, a        *)
(* shutdown. A write takes what the socket has room for, a read returns    *)
(* any part of what was written. Both ends speak the same protocol version.*)
(***************************************************************************)
EXTENDS Integers, Sequences, FiniteSets, SequencesExt, Lists

CONSTANTS
    Outgoing,       \* the bundles on each end's link queue, in order
    Length,         \* the formatted length of a bundle
    HeaderLen,      \* how much of it precedes the payload
    SegmentLength,  \* params_->segment_length_
    SendbufLen,     \* the size of a send buffer
    WireLen,        \* what the sockets and the network hold in one direction
    Params,         \* for each end, how it may be set up: [acks, reactive, reliable]
    OldLinks,       \* what an accepting end's link may have kept, or NoParams
    Keepalives,     \* BOOLEAN: the keepalive interval is not zero
    Faults,         \* a subset of {"break", "user", "idle", "cancel"}
    MaxFaults       \* bound: how many of them

Ends == {"active", "passive"}
Peer(e) == IF e = "active" THEN "passive" ELSE "active"
Bundles == DOMAIN Length
NoParams == [none |-> TRUE]
AllParams == [acks : BOOLEAN, reactive : BOOLEAN, reliable : BOOLEAN]
Reasons == {"USER", "IDLE", "SHUTDOWN", "BROKEN", "CL_ERROR"}

ASSUME StreamAssumption ==
    /\ \A e \in Ends : Outgoing[e] \in Seq(Bundles) /\ IsInjective(Outgoing[e])
    /\ ToSet(Outgoing["active"]) \cap ToSet(Outgoing["passive"]) = {}
    /\ ToSet(Outgoing["active"]) \cup ToSet(Outgoing["passive"]) = Bundles
    /\ \A b \in Bundles : Length[b] \in Nat /\ Length[b] > HeaderLen
    /\ HeaderLen \in Nat \ {0} /\ SegmentLength \in Nat \ {0}
    /\ SendbufLen \in Nat \ {0, 1} /\ WireLen \in Nat \ {0}
    /\ \A e \in Ends : Params[e] \subseteq AllParams
    /\ OldLinks \subseteq AllParams \cup {NoParams}
    /\ Keepalives \in BOOLEAN /\ MaxFaults \in Nat

VARIABLES
    conn,           \* the connection object of each end and its socket
    link,           \* the link of each end, as its daemon sees it
    faults          \* how many faults there were

vars == <<conn, link, faults>>

\* What travels on the stream.
Hdr(p) == [unit |-> "hdr", acks |-> p.acks, reactive |-> p.reactive]
Seg(start, end) == [unit |-> "seg", start |-> start, end |-> end]
SegLen(n) == [unit |-> "len", n |-> n]
Data(b, i) == [unit |-> "data", b |-> b, i |-> i]
Ack(n) == [unit |-> "ack", n |-> n]
Keepalive == [unit |-> "keepalive"]
Shutdown == [unit |-> "shutdown"]

\* What the connection posts to the daemon about a bundle of its own.
Transmitted(b, sent, acked) ==
    [event |-> "transmitted", b |-> b, sent |-> sent, acked |-> acked]
SendCancelled(b) == [event |-> "cancelled", b |-> b]
CloseRequest == [event |-> "close"]

InFlightBundle(b) == [b |-> b, sent |-> 0, acked |-> 0, posted |-> FALSE]
IncomingBundle == [data |-> <<>>, ack |-> {}, acked |-> 0, total |-> 0]

\* A connection; "contact" says that it has a contact to tell the daemon about,
\* "old" what the link that it is going to find has for its parameters.
NewConnection(e, p, old) ==
    [contact |-> e = "active", par |-> p, old |-> old, initiated |-> FALSE,
     up |-> FALSE, broken |-> "no", closed |-> FALSE, ok |-> TRUE,
     sendbuf |-> <<>>, wire |-> <<>>, recvbuf |-> <<>>, stall |-> FALSE,
     inflight |-> <<>>, current |-> FALSE, todo |-> 0,
     incoming |-> <<>>, rcvTodo |-> 0,
     events |-> <<>>, rcvd |-> <<>>]

Init ==
    /\ \E pa \in Params["active"], pp \in Params["passive"], old \in OldLinks :
           conn = [e \in Ends |-> IF e = "active"
                                  THEN NewConnection(e, pa, NoParams)
                                  ELSE NewConnection(e, pp, old)]
    /\ link = [e \in Ends |-> [queue |-> Outgoing[e], flight |-> {},
                               done |-> {}, cancelled |-> {}]]
    /\ faults = 0

-----------------------------------------------------------------------------
(* The socket. *)

Room(c) == SendbufLen - Len(c.sendbuf)

\* A write moves as much of the send buffer as the socket takes.
send_data(c) ==
    LET n == Min({Len(c.sendbuf), WireLen - Len(c.wire)})
    IN  [c EXCEPT !.wire = @ \o SubSeq(c.sendbuf, 1, n),
                  !.sendbuf = SubSeq(@, n + 1, Len(@))]

Send(c, units) == send_data([c EXCEPT !.sendbuf = @ \o units])

\* The stream is between two messages.
BufferIsEmpty(c) == c.sendbuf = <<>>                               \* mutant
BetweenMessages(c) == c.sendbuf = <<>> /\ c.todo = 0

\* Whether the daemon is asked to close the link.
AsksUnlessIdle(c, reason) == reason \notin {"USER", "IDLE"} /\ c.contact  \* mutant
AsksToClose(c, reason) == reason # "USER" /\ c.contact

\* A shutdown is only sent where the stream is between two messages. The
\* daemon is asked to close the link, unless it is the one who breaks it.
break_contact(c, reason) ==
    LET says == /\ reason \in {"USER", "IDLE", "SHUTDOWN"}
                /\ BetweenMessages(c)
        d == IF says THEN Send(c, <<Shutdown>>) ELSE c
    IN  IF c.broken # "no" THEN c
        ELSE [d EXCEPT !.broken = reason,
                       !.closed = ~c.contact,
                       !.events = IF AsksToClose(c, reason)
                                   THEN Append(@, CloseRequest) ELSE @]

-----------------------------------------------------------------------------
(* Sending. *)

\* The last bundle in flight is the one being sent while "current" is set.
Sending(c) == c.inflight[Len(c.inflight)]

\* Nothing more is expected about a bundle that was sent.
NeedsNoAck(c, f) == ~c.par.acks \/ f.acked >= Length[f.b]

\* check_completed(InFlightBundle*) of the i-th bundle in flight.
check_sent(c, i) ==
    LET f == c.inflight[i]
        d == IF c.par.acks THEN c
             ELSE [c EXCEPT !.events = Append(@, Transmitted(f.b, f.sent, f.sent))]
    IN  IF (c.current /\ i = Len(c.inflight)) \/ ~NeedsNoAck(c, f) THEN c
        ELSE [d EXCEPT !.ok = @ /\ i = 1, !.inflight = Tail(@)]

finish_bundle(c) == check_sent([c EXCEPT !.current = FALSE], Len(c.inflight))

\* Fill the buffer and write, until the segment is out or the socket is full.
send_data_todo(c) ==
    LET f == Sending(c)
        n == IF Room(c) = 0 THEN 0
             ELSE Min({c.todo, Room(c) + WireLen - Len(c.wire)})
        d == [c EXCEPT !.todo = @ - n, !.inflight[Len(c.inflight)].sent = @ + n]
    IN  IF n = 0 THEN c
        ELSE Send(d, [k \in 1 .. n |-> Data(f.b, f.sent + k)])

\* There is room for the header of a segment.
SomethingFits(c) == Room(c) > 0                                    \* mutant
HeaderFits(c) == Room(c) >= 2

send_next_segment(c) ==
    LET f == Sending(c)
        rest == Length[f.b] - f.sent
        n == Min({rest, SegmentLength})
        head == <<Seg(f.sent = 0, SegmentLength >= rest), SegLen(n)>>
    IN  CASE Room(c) = 0 -> c
          [] Room(c) > 0 /\ rest = 0 -> finish_bundle(c)
          [] Room(c) > 0 /\ rest > 0 /\ ~HeaderFits(c) -> c
          [] OTHER -> send_data_todo([c EXCEPT !.sendbuf = @ \o head, !.todo = n])

start_next_bundle(c, b) ==
    [c EXCEPT !.inflight = Append(@, InFlightBundle(b)), !.current = TRUE]

\* The ends of the segments that have arrived and are not acknowledged yet.
ArrivedSegments(i) == {n \in i.ack : n <= Len(i.data)}

\* Acknowledge what has arrived of the oldest incoming bundle, segment by
\* segment, and drop it when all of it is acknowledged.
send_pending_acks(c) ==
    LET i == c.incoming[1]
        ready == InOrder(ArrivedSegments(i))
        out == IF c.par.acks THEN SubSeq(ready, 1, Min({Len(ready), Room(c)}))
               ELSE ready
        j == IF out = <<>> THEN i
             ELSE [i EXCEPT !.acked = Last(out), !.ack = @ \ ToSet(out)]
        d == IF c.par.acks /\ out # <<>>
             THEN Send(c, [k \in 1 .. Len(out) |-> Ack(out[k])])
             ELSE c
    IN  IF c.incoming = <<>> THEN c
        ELSE [d EXCEPT !.incoming = IF j.total # 0 /\ j.total = j.acked
                                    THEN Tail(@) ELSE <<j>> \o Tail(@)]

-----------------------------------------------------------------------------
(* Receiving: what a unit at the head of the receive buffer does. *)

\* The accepting end negotiates on the convergence layer's default parameters
\* and then takes those of its link: a copy of the defaults if the link is new.
find_contact(c, negotiated) ==
    [c EXCEPT !.contact = TRUE,
              !.par = IF c.old = NoParams THEN negotiated ELSE c.old]

handle_contact_initiation(c, u) ==
    LET p == [c.par EXCEPT !.acks = @ /\ u.acks, !.reactive = @ /\ u.reactive]
    IN  IF u.unit # "hdr" THEN break_contact(c, "CL_ERROR")
        ELSE [find_contact(c, p) EXCEPT !.up = TRUE, !.stall = TRUE]

\* The incoming bundle was made when the first byte of this segment was looked
\* at before, and its length had not arrived.
NotCalledAgain(c) == FALSE                                         \* mutant
CalledAgain(c) ==
    c.incoming # <<>> /\ Last(c.incoming).data = <<>> /\ Last(c.incoming).ack = {}

\* A segment's first byte: a new bundle may only begin when the last one ended.
\* The byte stays in the buffer until the length is there.
handle_data_segment(c, u) ==
    LET within == c.incoming # <<>> /\ Last(c.incoming).total = 0
        d == [c EXCEPT !.recvbuf = <<u>>]
    IN  CASE u.start /\ ~CalledAgain(c) /\ within -> break_contact(c, "CL_ERROR")
          [] u.start /\ ~CalledAgain(c) /\ ~within ->
                 [d EXCEPT !.incoming = Append(@, IncomingBundle)]
          [] ~u.start /\ c.incoming = <<>> -> break_contact(c, "CL_ERROR")
          [] OTHER -> d

\* A segment's length: from here on its end is known, and the bundle's if it
\* is the last one.
handle_segment_length(c, u) ==
    LET k == Len(c.incoming)
        i == c.incoming[k]
        end == Len(i.data) + u.n
        j == [i EXCEPT !.ack = @ \cup {end},
                       !.total = IF c.recvbuf[1].end THEN end ELSE @]
    IN  IF u.n = 0 THEN break_contact([c EXCEPT !.recvbuf = <<>>], "CL_ERROR")
        ELSE [c EXCEPT !.recvbuf = <<>>, !.incoming[k] = j, !.rcvTodo = u.n]

\* The length that the bundle protocol finds in the received blocks.
FormattedLength(data) == IF data[1].unit = "data" THEN Length[data[1].b] ELSE 0

\* check_completed(IncomingBundle*) at the end of a segment.
check_received(c) ==
    LET k == Len(c.incoming)
        i == c.incoming[k]
    IN  CASE i.total = 0 \/ Len(i.data) < i.total -> c
          [] i.total # 0 /\ (Len(i.data) > i.total \/ i.total # FormattedLength(i.data)) ->
                 break_contact([c EXCEPT !.incoming[k].data = <<>>], "CL_ERROR")
          [] OTHER -> [c EXCEPT !.rcvd = Append(@, i.data)]

handle_data_todo(c, u) ==
    LET d == [c EXCEPT !.rcvTodo = @ - 1,
                       !.incoming[Len(c.incoming)].data = Append(@, u)]
    IN  IF d.rcvTodo = 0 THEN check_received(d) ELSE d

handle_ack_segment(c, u) ==
    LET f == c.inflight[1]
        d == [c EXCEPT !.inflight[1].acked = u.n]
        e == [d EXCEPT !.inflight[1].posted = TRUE,
                       !.events = Append(@, Transmitted(f.b, f.sent, u.n))]
    IN  CASE c.inflight = <<>> -> break_contact(c, "CL_ERROR")
          [] c.inflight # <<>> /\ u.n < f.acked -> break_contact(c, "CL_ERROR")
          [] c.inflight # <<>> /\ u.n >= f.acked /\ u.n = Length[f.b] -> check_sent(e, 1)
          [] OTHER -> d

\* Dispatch on the type of the message. Once the contact has come up the rest
\* of the buffer waits for the next call.
HandleUnit(c, u) ==
    CASE c.broken # "no" -> c
      [] c.broken = "no" /\ c.stall -> [c EXCEPT !.recvbuf = Append(@, u)]
      [] c.broken = "no" /\ ~c.stall /\ ~c.up -> handle_contact_initiation(c, u)
      [] c.broken = "no" /\ ~c.stall /\ c.up /\ c.rcvTodo # 0 -> handle_data_todo(c, u)
      [] OTHER ->
           CASE u.unit = "seg" -> handle_data_segment(c, u)
             [] u.unit = "len" -> handle_segment_length(c, u)
             [] u.unit = "ack" -> handle_ack_segment(c, u)
             [] u.unit = "keepalive" -> c
             [] u.unit = "shutdown" -> break_contact(c, "SHUTDOWN")
             [] OTHER -> break_contact(c, "CL_ERROR")

\* What was left in the buffer and what was read, unit by unit: after[n] is
\* the connection when n of them are done.
process_data(c, read) ==
    LET units == c.recvbuf \o read
        after[n \in 0 .. Len(units)] ==
            IF n = 0 THEN [c EXCEPT !.recvbuf = <<>>]
            ELSE HandleUnit(after[n - 1], units[n])
    IN  [after[Len(units)] EXCEPT !.stall = FALSE]

-----------------------------------------------------------------------------
(* The connection thread. *)

Running(e) == conn[e].initiated /\ conn[e].broken = "no"

\* The socket is connected, or was accepted: send the contact header.
initiate_contact(e) ==
    /\ ~conn[e].initiated /\ conn[e].broken = "no"
    /\ conn' = [conn EXCEPT ![e] = Send([@ EXCEPT !.initiated = TRUE],
                                        <<Hdr(conn[e].par)>>)]
    /\ UNCHANGED <<link, faults>>

\* Finish the segment that is under way, then send acknowledgements, then the
\* next segment or the first one of the next bundle.
SendPending(e) ==
    LET c == conn[e]
        l == link[e]
        d == IF c.todo # 0 THEN send_data_todo(c) ELSE c
        a == send_pending_acks(d)
        starts == d.todo = 0 /\ ~a.current /\ a.up /\ l.queue # <<>>
        s == IF starts THEN start_next_bundle(a, Head(l.queue)) ELSE a
        n == IF s.current THEN send_next_segment(s) ELSE s
    IN  [starts |-> starts, conn |-> IF d.todo # 0 THEN d ELSE n]

CanSend(e) ==
    Running(e) /\ Room(conn[e]) # 0 /\ SendPending(e).conn # conn[e]

send_pending_data(e) ==
    LET p == SendPending(e)
        b == Head(link[e].queue)
    IN  /\ CanSend(e)
        /\ conn' = [conn EXCEPT ![e] = p.conn]
        /\ link' = IF p.starts
                   THEN [link EXCEPT ![e].queue = Tail(@), ![e].flight = @ \cup {b}]
                   ELSE link
        /\ UNCHANGED faults

\* handle_poll_activity: the socket takes more of the send buffer ...
WriteReady(e) ==
    /\ Running(e)
    /\ conn[e].sendbuf # <<>> /\ Len(conn[e].wire) < WireLen
    /\ conn' = [conn EXCEPT ![e] = send_data(@)]
    /\ UNCHANGED <<link, faults>>

\* ... or has something to read.
CanRead(e) == Running(e) /\ conn[Peer(e)].wire # <<>>

ReadReady(e) ==
    LET w == conn[Peer(e)].wire
    IN  /\ CanRead(e)
        /\ \E k \in 1 .. Len(w) :
              conn' = [conn EXCEPT ![e] = process_data(@, SubSeq(w, 1, k)),
                                   ![Peer(e)].wire = SubSeq(w, k + 1, Len(w))]
        /\ UNCHANGED <<link, faults>>

\* check_keepalive: whether the connection sends keepalives.
KeepaliveBeforeUp(c) == Keepalives /\ c.contact /\ ~c.up           \* mutant
SendsKeepalives(c) == Keepalives /\ c.contact

\* handle_poll_timeout: nothing was sent for a while. Bound: a keepalive is
\* sent when the peer has read all there was.
send_keepalive(e) ==
    LET c == conn[e]
    IN  /\ Running(e) /\ SendsKeepalives(c)
        /\ BetweenMessages(c)
        /\ c.wire = <<>>
        /\ conn' = [conn EXCEPT ![e] = Send(c, <<Keepalive>>)]
        /\ UNCHANGED <<link, faults>>

\* The peer's socket is closed: a read ends or the poll reports an error,
\* whether or not there was something left to read.
PeerGone(e) ==
    LET p == conn[Peer(e)]
    IN  /\ Running(e)
        /\ p.closed \/ p.broken \notin {"no", "BROKEN"}
        /\ conn' = [conn EXCEPT ![e] = break_contact(@, "BROKEN")]
        /\ UNCHANGED <<link, faults>>

Fault(f) == f \in Faults /\ faults < MaxFaults /\ faults' = faults + 1

\* The network fails, or nothing was heard for the data timeout.
Break(e) ==
    /\ Fault("break") /\ Running(e)
    /\ conn' = [conn EXCEPT ![e] = break_contact(@, "BROKEN")]
    /\ UNCHANGED link

\* handle_poll_timeout on an ONDEMAND link, which only the connecting end has:
\* idle for too long.
Idle(e) ==
    /\ e = "active"
    /\ Fault("idle") /\ Running(e) /\ conn[e].contact
    /\ conn' = [conn EXCEPT ![e] = break_contact(@, "IDLE")]
    /\ UNCHANGED link

\* The i-th bundle in flight is the one being sent.
IsCurrent(c, i) == c.current /\ i = Len(c.inflight)

\* Nothing of the i-th bundle in flight was sent, not even a header.
NoSegmentOpen(c, i) == ~(IsCurrent(c, i) /\ c.todo # 0)             \* mutant
NothingSent(c, i) == c.inflight[i].sent = 0 /\ ~(IsCurrent(c, i) /\ c.todo # 0)

\* A bundle can be cancelled while nothing of it was sent.
handle_cancel_bundle(e) ==
    LET c == conn[e]
    IN  /\ Fault("cancel") /\ Running(e)
        /\ \E i \in 1 .. Len(c.inflight) :
              /\ NothingSent(c, i)
              /\ conn' = [conn EXCEPT ![e] =
                        [c EXCEPT !.current = @ /\ ~IsCurrent(c, i),
                                  !.inflight = RemoveAt(@, i),
                                  !.events = Append(@, SendCancelled(c.inflight[i].b))]]
        /\ UNCHANGED link

-----------------------------------------------------------------------------
(* The daemon. *)

\* del_from_inflight: the link still has the bundle in flight.
AnyInFlight(e, f) == TRUE                                          \* mutant
StillInFlight(e, f) == f.b \in link[e].flight

\* The thread has stopped: bundles that got nowhere go back to the queue, part
\* of a bundle counts as transmitted, and so does part of one as received.
close_contact(e, c) ==
    LET back(f) == \/ ~c.par.reactive \/ f.sent = 0
                   \/ c.par.reliable /\ f.acked = 0
        all == ToSet(c.inflight)
        again == OnlyIn(c.inflight, {f \in all : back(f) /\ StillInFlight(e, f)})
        part == OnlyIn(c.inflight, {f \in all : ~back(f) /\ ~f.posted})
        some == c.incoming # <<>> /\ Last(c.incoming).total = 0
                /\ c.par.reactive /\ Len(Last(c.incoming).data) > HeaderLen
        old == {again[i].b : i \in DOMAIN again}
    IN  /\ conn' = [conn EXCEPT ![e] =
              [c EXCEPT !.closed = TRUE, !.inflight = <<>>, !.incoming = <<>>,
                        !.sendbuf = <<>>, !.recvbuf = <<>>, !.current = FALSE,
                        !.todo = 0, !.rcvTodo = 0,
                        !.events = @ \o [i \in DOMAIN part |->
                            Transmitted(part[i].b, part[i].sent, part[i].acked)],
                        !.rcvd = IF some THEN Append(@, Last(c.incoming).data)
                                 ELSE @]]
        /\ link' = [link EXCEPT ![e].flight = @ \ old,
                                ![e].queue = @ \o [i \in DOMAIN again |-> again[i].b]]

\* The daemon closes the link: it tells the thread, unless that has stopped by
\* itself, waits for it to stop and cleans up. What the thread posted before is
\* handled afterwards; its request to close is then stale. Bound: only the close
\* of a connection that still runs counts as a fault.
UserClose(e) ==
    /\ conn[e].contact /\ conn[e].initiated /\ ~conn[e].closed
    /\ \/ Running(e) /\ Fault("user")
       \/ ~Running(e) /\ "user" \in Faults /\ UNCHANGED faults
    /\ close_contact(e, break_contact(conn[e], "USER"))

\* How much of a bundle counts as transmitted.
CountsSent(e, ev) == ev.sent                                       \* mutant
Counted(e, ev) == IF conn[e].par.reliable THEN ev.acked ELSE ev.sent

\* The first event about a bundle deletes its blocks; another one finds none.
Redundant(e, ev) == ev.b \in {d.b : d \in link[e].done} \cup link[e].cancelled

handle_bundle_transmitted(e, ev) ==
    link' = IF Redundant(e, ev) THEN link
            ELSE [link EXCEPT ![e].flight = @ \ {ev.b},
                              ![e].queue = OnlyIn(@, Bundles \ {ev.b}),
                              ![e].done = @ \cup {[b |-> ev.b, n |-> Counted(e, ev)]}]

\* The forwarding log says CANCELLED. The bundle is still on the link's
\* in-flight list, as it was when the connection gave it up: the handler only
\* warns about that.
handle_bundle_cancelled(e, ev) ==
    link' = IF Redundant(e, ev) THEN link
            ELSE [link EXCEPT ![e].cancelled = @ \cup {ev.b}]

HandleEvent(e) ==
    LET c == conn[e]
        ev == Head(c.events)
        d == [c EXCEPT !.events = Tail(@)]
        rest == conn' = [conn EXCEPT ![e] = d]
    IN  /\ c.events # <<>>
        /\ \/ ev.event = "transmitted" /\ rest /\ handle_bundle_transmitted(e, ev)
           \/ ev.event = "cancelled" /\ rest /\ handle_bundle_cancelled(e, ev)
           \/ ev.event = "close" /\ c.closed /\ rest /\ UNCHANGED link
           \/ ev.event = "close" /\ ~c.closed /\ close_contact(e, d)
        /\ UNCHANGED faults

Next ==
    \E e \in Ends :
        \/ initiate_contact(e) \/ send_pending_data(e)
        \/ WriteReady(e) \/ ReadReady(e) \/ send_keepalive(e)
        \/ PeerGone(e) \/ Break(e) \/ Idle(e)
        \/ handle_cancel_bundle(e) \/ UserClose(e) \/ HandleEvent(e)

\* The threads keep running, a poll that can return does, and the daemon
\* handles what it is sent. The first two are weak fairness of an action that
\* CanSend and CanRead say is enabled.
Fairness ==
    \A e \in Ends :
        /\ []<>~CanSend(e) \/ []<><<send_pending_data(e)>>_vars
        /\ []<>~CanRead(e) \/ []<><<ReadReady(e)>>_vars
        /\ WF_vars(initiate_contact(e)) /\ WF_vars(WriteReady(e))
        /\ WF_vars(send_keepalive(e)) /\ WF_vars(PeerGone(e))
        /\ WF_vars(HandleEvent(e))

Spec == Init /\ [][Next]_vars /\ Fairness

-----------------------------------------------------------------------------
(* Properties. *)

Units == {"hdr", "seg", "len", "data", "ack", "keepalive", "shutdown"}
IsStream(s) == \A i \in DOMAIN s : s[i].unit \in Units

\* The types of the connection's and the link's state, and the buffers'
\* sizes.
TypeOK ==
    /\ faults \in 0 .. MaxFaults
    /\ \A e \in Ends :
         LET c == conn[e] IN
         /\ c.par \in AllParams /\ c.broken \in Reasons \cup {"no"}
         /\ \A f \in {"contact", "initiated", "up", "closed", "stall", "current"} :
                c[f] \in BOOLEAN
         /\ IsStream(c.sendbuf) /\ Len(c.sendbuf) <= SendbufLen
         /\ IsStream(c.wire) /\ Len(c.wire) <= WireLen
         /\ IsStream(c.recvbuf)
         /\ c.todo \in 0 .. SegmentLength /\ c.rcvTodo \in 0 .. SegmentLength
         /\ \A i \in DOMAIN c.inflight :
                /\ c.inflight[i].sent \in 0 .. Length[c.inflight[i].b]
                /\ c.inflight[i].acked \in 0 .. c.inflight[i].sent
         /\ \A i \in DOMAIN c.incoming : IsStream(c.incoming[i].data)
         /\ \A i \in DOMAIN c.events :
                c.events[i].event \in {"transmitted", "cancelled", "close"}
         /\ link[e].flight \subseteq Bundles /\ link[e].cancelled \subseteq Bundles
         /\ ToSet(link[e].queue) \subseteq Bundles

Whole == [b \in Bundles |-> [k \in 1 .. Length[b] |-> Data(b, k)]]
Got(e, b) == \E i \in DOMAIN conn[e].rcvd : conn[e].rcvd[i] = Whole[b]

\* Two ends that follow the protocol never find fault with each other: no
\* message is out of place whatever is interleaved with it, and the bundle that
\* is complete is always the first in flight (the assertion in check_completed).
NoProtocolError == \A e \in Ends : conn[e].ok /\ conn[e].broken # "CL_ERROR"

\* Once both ends are up they agree on what handle_contact_initiation
\* negotiates.
NegotiatedAgree ==
    (conn["active"].up /\ conn["passive"].up) =>
        /\ conn["active"].par.acks = conn["passive"].par.acks
        /\ conn["active"].par.reactive = conn["passive"].par.reactive

\* What the daemon is given is a bundle as it was sent, or the beginning of one
\* that was cut off, and each bundle comes whole at most once in a connection.
ReceivedIntact ==
    \A e \in Ends :
        LET r == conn[e].rcvd IN
        /\ \A i \in DOMAIN r : \E b \in ToSet(Outgoing[Peer(e)]) :
                /\ Len(r[i]) <= Length[b]
                /\ r[i] = SubSeq(Whole[b], 1, Len(r[i]))
                /\ Len(r[i]) < Length[b] =>
                       i = Len(r) /\ conn[e].closed /\ Len(r[i]) > HeaderLen
        /\ \A i, j \in DOMAIN r : i # j => r[i] # r[j]

\* The payload that the sender's daemon keeps of a bundle of which n units
\* count as sent: the rest as a fragment (try_to_reactively_fragment).
Remainder(b, n) ==
    IF n <= HeaderLen \/ Length[b] - HeaderLen <= 1 THEN {} ELSE n + 1 .. Length[b]

\* With reactive fragmentation on a reliable link, the payload that was
\* acknowledged is with the peer's daemon once both ends are closed.
AckedIsKept ==
    \A e \in Ends :
        LET p == conn[Peer(e)]
        IN  (/\ conn[e].closed /\ p.closed
             /\ conn[e].par.acks /\ conn[e].par.reliable) =>
                \A d \in link[e].done : \A i \in HeaderLen + 1 .. Length[d.b] :
                    \/ i \in Remainder(d.b, d.n)
                    \/ \E r \in ToSet(p.rcvd) : Data(d.b, i) \in ToSet(r)

\* A bundle whose transmission was reported is not on the link's queue to be
\* sent again, though close_contact puts back what it finds in flight.
NotSentAgain ==
    \A e \in Ends : \A d \in link[e].done :
        d.b \notin ToSet(link[e].queue) \cup link[e].flight

\* Nothing of a bundle that the sender's daemon has noted as cancelled is ever
\* given to the peer's daemon, whole or as the beginning of a bundle that was
\* cut off (the tests of handle_cancel_bundle).
CancelledNeverArrives ==
    \A e \in Ends : \A b \in link[e].cancelled :
        \A r \in ToSet(conn[Peer(e)].rcvd) : Data(b, 1) \notin ToSet(r)

-----------------------------------------------------------------------------
(* What the connection promises to the daemons at its two ends. *)

SenderOf == [b \in Bundles |-> CHOOSE e \in Ends : b \in ToSet(Outgoing[e])]

\* On a reliable link with acknowledgements a bundle that counts as sent to its
\* end is confirmed.
FateOf(e, d) ==
    CASE d.n < Length[d.b] -> "part"
      [] d.n = Length[d.b] /\ conn[e].par.acks /\ conn[e].par.reliable -> "confirmed"
      [] OTHER -> "assumed"

\* What the sender's daemon knows of a bundle. A cancelled one has its entry in
\* the forwarding log, although it stays on the link's in-flight list.
Held(b) ==
    LET e == SenderOf[b]
        l == link[e]
    IN  CASE b \in ToSet(l.queue) -> "queued"
          [] b \in l.cancelled \ ToSet(l.queue) -> "cancelled"
          [] b \in l.flight \ (l.cancelled \cup ToSet(l.queue)) -> "sending"
          [] OTHER -> FateOf(e, CHOOSE d \in l.done : d.b = b)

Transfer == INSTANCE BundleTransfer WITH
    held <- [b \in Bundles |-> Held(b)],
    got <- {b \in Bundles : Got(Peer(SenderOf[b]), b)}

\* The two connections, their sockets and the daemons' lists implement the
\* transfer of bundles: in particular a transmission is confirmed to the
\* sender's daemon only after the peer's daemon was given the whole bundle.
ImplementsTransfer == Transfer!Spec

\* Bundles get through: each one is transmitted, unless the contact is broken
\* or the bundle cancelled.
EventuallyTransmitted ==
    \A e \in Ends : \A b \in ToSet(Outgoing[e]) :
        <>(\/ b \in {d.b : d \in link[e].done} \cup link[e].cancelled
           \/ conn[e].broken # "no")

\* When one end gives the connection up, both contacts are closed in the end.
BothClose ==
    \A e \in Ends : conn[e].broken # "no" ~>
        \A d \in Ends : conn[d].closed \/ ~conn[d].initiated

=============================================================================
