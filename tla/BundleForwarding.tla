-------------------------- MODULE BundleForwarding --------------------------
(***************************************************************************)
(* One bundle on its way out of a node: reception, the table based         *)
(* router's decision, the queues of the links it may leave on, the stream  *)
(* convergence layer's connection threads that send it, custody, expiry,   *)
(* cancellation and early deletion.                                        *)
(*                                                                         *)
(* The daemon thread handles one event at a time: the daemon's handler,    *)
(* then the router's, then event_handlers_completed. The connection        *)
(* threads run concurrently with it and move the bundle from a link's      *)
(* queue to its in-flight list under the queue's lock. Timers run in the   *)
(* daemon thread between two events.                                       *)
(*                                                                         *)
(* Other bundles are seen as the room they leave in a link's queue. All    *)
(* routes forward (FORWARD_ACTION), and the links lead to different nodes. *)
(* The life of a link is the one of module LinkContact, with one queued    *)
(* request to close a contact at a time, so that no request is stale.      *)
(***************************************************************************)
EXTENDS Naturals, Sequences, SequencesExt

CONSTANTS
    Links,            \* the links with a route to the bundle's destination
    NoLink,
    Routes,           \* the links by priority (TableBasedRouter::sort_routes)
    Singleton,        \* Bundle::singleton_dest()
    CustodyRequested, \* Bundle::custody_requested() and Params::accept_custody_
    Reliable,         \* Link::is_reliable(): segment acks are enabled
    ReactiveFrag,     \* LinkParams::reactive_frag_enabled_
    Commands,         \* which faults and requests happen
    MaxFaults         \* bound: how many of them

AllCommands == {"break", "idle", "close", "congest", "link_cancel", "delete",
                "expire", "custody_signal", "custody_timeout"}

ASSUME ForwardingAssumption ==
    /\ NoLink \notin Links
    /\ Routes \in Seq(Links) /\ Range(Routes) = Links
    /\ \A i, j \in DOMAIN Routes : Routes[i] = Routes[j] => i = j
    /\ {Singleton, CustodyRequested, Reliable, ReactiveFrag} \subseteq BOOLEAN
    /\ Commands \subseteq AllCommands
    /\ MaxFaults \in Nat

VARIABLES
    status,       \* "new", "pending" (on pending_bundles_) or "deleted"
    expiration,   \* Bundle::expiration_timer_ is not NULL
    custody,      \* Bundle::local_custody_, and on custody_bundles_
    custodyTimer, \* Bundle::custody_timers_, by link
    link,         \* each link, and what it and the bundle know of each other
    room,         \* the room other bundles leave in each link's queue
    conn,         \* each link's connection thread
    cl,           \* the bundle in each connection's InFlightList
    cancelMsg,    \* a CLMSG_CANCEL_BUNDLE is on the connection's cmdqueue_
    reroute,      \* TableBasedRouter::reroute_timers_
    closing,      \* the request whose close_contact() the daemon waits in
    eventq,       \* BundleDaemon::eventq_
    faults        \* history: faults so far

vars == <<status, expiration, custody, custodyTimer, link, room, conn, cl,
          cancelMsg, reroute, closing, eventq, faults>>
bundleVars == <<status, expiration, custody, custodyTimer>>
clVars     == <<conn, cl, cancelMsg>>

LinkStates == {"UNAVAILABLE", "AVAILABLE", "OPENING", "OPEN"}
FwdStates  == {"NONE", "QUEUED", "TRANSMITTED", "CANCELLED", "CUSTODY_TIMEOUT"}
LinkRecord == [state: LinkStates, log: FwdStates, blocks: BOOLEAN,
               queue: BOOLEAN, inflight: BOOLEAN, deferred: BOOLEAN]
EventTypes == {"BUNDLE_RECEIVED", "BUNDLE_TRANSMITTED", "BUNDLE_CANCELLED",
               "BUNDLE_EXPIRED", "BUNDLE_DELETE", "BUNDLE_CANCEL",
               "CUSTODY_SIGNAL", "CUSTODY_TIMEOUT", "CONTACT_UP",
               "OPEN", "CLOSED"}
Reasons    == {"-", "BROKEN", "IDLE", "USER"}
Event      == [type: EventTypes, link: Links \cup {NoLink}, reason: Reasons]
LinkEvent(t, l) == [type |-> t, link |-> l, reason |-> "-"]
CloseRequest(l, r) == [type |-> "CLOSED", link |-> l, reason |-> r]
None       == LinkEvent("CLOSED", NoLink)

post(q, e)         == Append(q, e)
post_at_head(q, e) == <<e>> \o q
Queued(t, l) == \E i \in DOMAIN eventq : eventq[i].type = t /\ eventq[i].link = l

Init ==
    /\ status = "new"
    /\ expiration = FALSE
    /\ custody = FALSE
    /\ custodyTimer = [l \in Links |-> "none"]
    /\ link \in [Links -> {r \in LinkRecord :
                              /\ r.state \in {"AVAILABLE", "UNAVAILABLE"}
                              /\ r.log = "NONE"
                              /\ ~r.blocks /\ ~r.queue
                              /\ ~r.inflight /\ ~r.deferred}]
    /\ room = [l \in Links |-> "space"]
    /\ conn = [l \in Links |-> "none"]
    /\ cl = [l \in Links |-> "none"]
    /\ cancelMsg = [l \in Links |-> FALSE]
    /\ reroute = [l \in Links |-> "none"]
    /\ closing = None
    /\ eventq = <<LinkEvent("BUNDLE_RECEIVED", NoLink)>>
    /\ faults = 0

(***************************************************************************)
(* The router's decision, as functions of the links' state lk.             *)
(***************************************************************************)
Sent(r)   == r.log \in {"QUEUED", "TRANSMITTED"}
queue_is_full(l)   == room[l] = "full"
queue_has_space(l) == room[l] = "space"

SkipsThisLinkOnly(lk, l) == ~Sent(lk[l])                          \* mutant
should_fwd(lk, l) ==
    /\ ~Sent(lk[l])
    /\ Singleton => \A k \in Links : ~Sent(lk[k])

\* BundleActions::queue_bundle: the bundle's blocks are generated before it
\* turns out that the bundle is already on one of the link's lists.
queue_bundle(lk, l) ==
    IF lk[l].blocks THEN lk
    ELSE IF lk[l].log = "QUEUED" \/ lk[l].queue \/ lk[l].inflight
    THEN [lk EXCEPT ![l].blocks = TRUE]
    ELSE [lk EXCEPT ![l].blocks = TRUE, ![l].log = "QUEUED", ![l].queue = TRUE]

pull_deferred(lk, l) ==
    IF lk[l].state = "OPEN" /\ lk[l].deferred /\ should_fwd(lk, l)
    THEN queue_bundle([lk EXCEPT ![l].deferred = FALSE], l)
    ELSE lk
LeavesDeferred(lk, l) == lk                                       \* mutant
check_next_hop(lk, l) == IF queue_has_space(l) THEN pull_deferred(lk, l) ELSE lk

DropsIfClosed(lk, l) == lk                                        \* mutant
defer(lk, l) == [lk EXCEPT ![l].deferred = TRUE]
fwd_to_nexthop(lk, l) ==
    LET opened == IF lk[l].state = "AVAILABLE"
                  THEN [lk EXCEPT ![l].state = "OPENING"] ELSE lk
    IN  IF opened[l].state = "OPEN" /\ ~queue_is_full(l)
        THEN queue_bundle(opened, l)
        ELSE defer(opened, l)

RouteOver(lk, l) ==
    IF should_fwd(lk, l) /\ ~lk[l].deferred
    THEN fwd_to_nexthop(check_next_hop(lk, l), l)
    ELSE lk
\* The loop over the routes: after[i] is the state once i of them are done.
route_bundle(lk) ==
    LET after[i \in 0 .. Len(Routes)] ==
            IF i = 0 THEN lk ELSE RouteOver(after[i - 1], Routes[i])
    IN  after[Len(Routes)]

remove_from_deferred(lk) == [l \in Links |-> [lk[l] EXCEPT !.deferred = FALSE]]
can_delete_bundle(lk, mine) == ~mine /\ \E l \in Links : lk[l].log = "TRANSMITTED"

\* A link the router opened has a connection thread that connects.
Connects == conn' = [l \in Links |-> IF link'[l].state = "OPENING"
                                        /\ link[l].state # "OPENING"
                                     THEN "connecting" ELSE conn[l]]

(***************************************************************************)
(* Deletion: the daemon cancels the bundle on every link that has it.      *)
(***************************************************************************)
InQueue(lk, l)    == lk[l].blocks /\ lk[l].queue
InFlight(lk, l)   == lk[l].blocks /\ ~lk[l].queue /\ lk[l].inflight
\* A cancellation that ends here posts the event; one of a bundle in flight on
\* an open link is left to the connection thread.
EndsInFlight(lk, l) == InQueue(lk, l) \/ InFlight(lk, l)           \* mutant
EndsUnposted(lk, l) == InFlight(lk, l) /\ lk[l].state # "OPEN"    \* mutant
EndsHere(lk, l)   == InQueue(lk, l) \/ (InFlight(lk, l) /\ lk[l].state # "OPEN")
LeftToCL(lk, l)   == InFlight(lk, l) /\ lk[l].state = "OPEN"
Cancelled(lk, S)  == [l \in Links |-> IF l \in S /\ InQueue(lk, l)
                                      THEN [lk[l] EXCEPT !.queue = FALSE]
                                      ELSE lk[l]]
CancelEvents(lk, S) ==
    LET ends == SetToSeq({l \in S : EndsHere(lk, l)})
    IN  [i \in DOMAIN ends |-> LinkEvent("BUNDLE_CANCELLED", ends[i])]
CancelMessages(lk, S) ==
    [l \in Links |-> cancelMsg[l] \/ (l \in S /\ LeftToCL(lk, l))]

TimersKept == custodyTimer                                        \* mutant
TimersCancelled == [l \in Links |-> "none"]
release_custody ==
    /\ custody' = FALSE
    /\ custodyTimer' = IF custody THEN TimersCancelled ELSE custodyTimer

KeepsExpiration == expiration                                     \* mutant
ExpirationCancelled == FALSE
Delete(lk, q) ==
    LET left == remove_from_deferred(lk)
    IN  /\ status' = "deleted"
        /\ expiration' = ExpirationCancelled
        /\ link' = Cancelled(left, Links)
        /\ eventq' = q \o CancelEvents(left, Links)
        /\ cancelMsg' = CancelMessages(left, Links)
delete_bundle == release_custody /\ Delete(link, Tail(eventq))

try_to_delete(lk, mine, q) ==
    IF status = "pending" /\ can_delete_bundle(lk, mine)
    THEN Delete(lk, q)
    ELSE /\ link' = lk
         /\ eventq' = q
         /\ UNCHANGED <<status, expiration, cancelMsg>>

(***************************************************************************)
(* The daemon thread's events about the bundle.                            *)
(***************************************************************************)
Idle == closing = None
Handles(t) == Idle /\ eventq # <<>> /\ Head(eventq).type = t
On == Head(eventq).link

handle_bundle_received ==
    /\ Handles("BUNDLE_RECEIVED")
    /\ status' = "pending"
    /\ expiration' = TRUE
    /\ \/ /\ custody' = CustodyRequested
          /\ link' = route_bundle(link)
       \/ /\ "expire" \in Commands           \* it has already expired
          /\ UNCHANGED <<custody, link>>
    /\ Connects
    /\ eventq' = Tail(eventq)
    /\ UNCHANGED <<custodyTimer, room, cl, cancelMsg, reroute, closing, faults>>

\* The router gets a redundant event too.
Transmitted(r) == IF r.blocks
                  THEN [r EXCEPT !.inflight = FALSE, !.queue = FALSE,
                                 !.log = "TRANSMITTED", !.blocks = FALSE]
                  ELSE r
handle_bundle_transmitted ==
    /\ Handles("BUNDLE_TRANSMITTED")
    /\ custodyTimer' = IF link[On].blocks /\ custody
                       THEN [custodyTimer EXCEPT ![On] = "pending"]
                       ELSE custodyTimer
    /\ UNCHANGED custody
    /\ try_to_delete(
          check_next_hop(remove_from_deferred(
                [link EXCEPT ![On] = Transmitted(@)]), On),
          custody, Tail(eventq))
    /\ UNCHANGED <<room, conn, cl, reroute, closing, faults>>

\* Deleted bundles have no expiration timer: they count as expired.
handle_bundle_cancelled ==
    /\ Handles("BUNDLE_CANCELLED")
    /\ LET lk == IF link[On].blocks
                 THEN [link EXCEPT ![On].blocks = FALSE,
                                   ![On].log = "CANCELLED"]
                 ELSE link
       IN  link' = IF expiration THEN route_bundle(lk) ELSE lk
    /\ Connects
    /\ eventq' = Tail(eventq)
    /\ UNCHANGED <<bundleVars, room, cl, cancelMsg, reroute, closing, faults>>

handle_bundle_expired ==
    /\ Handles("BUNDLE_EXPIRED") \/ Handles("BUNDLE_DELETE")
    /\ delete_bundle
    /\ UNCHANGED <<room, conn, cl, reroute, closing, faults>>

\* The console's "bundle cancel <id> <link>".
handle_bundle_cancel ==
    /\ Handles("BUNDLE_CANCEL")
    /\ link' = Cancelled(link, {On})
    /\ eventq' = Tail(eventq) \o CancelEvents(link, {On})
    /\ cancelMsg' = CancelMessages(link, {On})
    /\ UNCHANGED <<bundleVars, room, conn, cl, reroute, closing, faults>>

\* A signal that does not release custody changes nothing.
handle_custody_signal ==
    /\ Handles("CUSTODY_SIGNAL")
    /\ IF custody
       THEN release_custody /\ try_to_delete(link, FALSE, Tail(eventq))
       ELSE /\ eventq' = Tail(eventq)
            /\ UNCHANGED <<bundleVars, link, cancelMsg>>
    /\ UNCHANGED <<room, conn, cl, reroute, closing, faults>>

\* The timer of an event that is handled too late is gone from the bundle; the
\* router routes the bundle all the same.
TimedOut(l) == [link EXCEPT ![l].log = "CUSTODY_TIMEOUT"]
handle_custody_timeout ==
    /\ Handles("CUSTODY_TIMEOUT")
    /\ IF custodyTimer[On] = "fired"
       THEN /\ custodyTimer' = [custodyTimer EXCEPT ![On] = "none"]
            /\ link' = route_bundle(TimedOut(On))
       ELSE /\ link' = route_bundle(link)
            /\ UNCHANGED custodyTimer
    /\ Connects
    /\ eventq' = Tail(eventq)
    /\ UNCHANGED <<status, expiration, custody, room, cl, cancelMsg, reroute,
                   closing, faults>>

(***************************************************************************)
(* The daemon thread's events about links.                                 *)
(***************************************************************************)
RequestOpen ==
    /\ Handles("OPEN")
    /\ link' = [link EXCEPT ![On].state = "OPENING"]
    /\ Connects
    /\ eventq' = Tail(eventq)
    /\ UNCHANGED <<bundleVars, room, cl, cancelMsg, reroute, closing, faults>>

handle_contact_up ==
    /\ Handles("CONTACT_UP")
    /\ link' = check_next_hop([link EXCEPT ![On].state = "OPEN"], On)
    /\ reroute' = [reroute EXCEPT ![On] = "none"]
    /\ eventq' = Tail(eventq)
    /\ UNCHANGED <<bundleVars, room, clVars, closing, faults>>

\* The daemon waits in close_contact() until the connection thread has ended.
RequestClosed ==
    /\ Handles("CLOSED")
    /\ closing' = Head(eventq)
    /\ eventq' = Tail(eventq)
    /\ UNCHANGED <<bundleVars, link, room, clVars, reroute, faults>>

\* What close_contact() does with a bundle that is in flight: it goes back to
\* the queue, or what the peer has of it counts as transmitted.
PutBack(l) == /\ cl[l] # "none"
              /\ \/ ~ReactiveFrag
                 \/ cl[l] = "started"
                 \/ Reliable /\ cl[l] = "sent"
SentInPart(l) == ~PutBack(l) /\ cl[l] \in {"sent", "acked"}
BackOnQueue(r) == IF r.inflight
                  THEN [r EXCEPT !.inflight = FALSE, !.queue = TRUE] ELSE r
ForgetsPart(q, l) == q                                            \* mutant
PostIfInPart(q, l) == IF SentInPart(l)
                      THEN post(q, LinkEvent("BUNDLE_TRANSMITTED", l)) ELSE q

ClosedState(reason) == "CLOSED"                                   \* mutant
StateOnceClosed(reason) == IF reason = "IDLE" THEN "AVAILABLE" ELSE "UNAVAILABLE"
NeedsRerouteTimer(l) == link'[l].queue /\ reroute[l] = "none"
CloseCompleted ==
    LET l == closing.link
        r == IF PutBack(l) THEN BackOnQueue(link[l]) ELSE link[l]
    IN  /\ closing # None
        /\ conn[l] = "broken"
        /\ closing' = None
        /\ conn' = [conn EXCEPT ![l] = "none"]
        /\ cl' = [cl EXCEPT ![l] = "none"]
        /\ cancelMsg' = [cancelMsg EXCEPT ![l] = FALSE]
        /\ link' = [link EXCEPT ![l] =
                      [r EXCEPT !.state = StateOnceClosed(closing.reason)]]
        /\ eventq' = PostIfInPart(eventq, l)
        \* The ContactDownEvent at the queue's head is handled next.
        /\ reroute' = IF link[l].state = "OPEN" /\ NeedsRerouteTimer(l)
                      THEN [reroute EXCEPT ![l] = "pending"] ELSE reroute
        /\ UNCHANGED <<bundleVars, room, faults>>

(***************************************************************************)
(* Timers, run by the daemon thread between two events.                    *)
(***************************************************************************)
ExpirationTimeout ==
    /\ Idle
    /\ "expire" \in Commands
    /\ expiration
    /\ expiration' = FALSE
    /\ eventq' = post_at_head(eventq, LinkEvent("BUNDLE_EXPIRED", NoLink))
    /\ UNCHANGED <<status, custody, custodyTimer, link, room, clVars, reroute,
                   closing, faults>>

CustodyTimeout(l) ==
    /\ Idle
    /\ "custody_timeout" \in Commands
    /\ custodyTimer[l] = "pending"
    /\ custodyTimer' = [custodyTimer EXCEPT ![l] = "fired"]
    /\ eventq' = post(eventq, LinkEvent("CUSTODY_TIMEOUT", l))
    /\ UNCHANGED <<status, expiration, custody, link, room, clVars, reroute,
                   closing, faults>>

\* A timer that fired keeps its entry in reroute_timers_.
reroute_bundles(l) ==
    /\ Idle
    /\ reroute[l] = "pending"
    /\ reroute' = [reroute EXCEPT ![l] = "fired"]
    /\ IF link[l].state = "UNAVAILABLE" /\ link[l].queue
       THEN /\ link' = Cancelled(link, {l})
            /\ eventq' = eventq \o CancelEvents(link, {l})
       ELSE UNCHANGED <<link, eventq>>
    /\ UNCHANGED <<bundleVars, room, clVars, closing, faults>>

(***************************************************************************)
(* The connection thread of link l.                                        *)
(***************************************************************************)
contact_up(l) ==
    /\ conn[l] = "connecting"
    /\ conn' = [conn EXCEPT ![l] = "up"]
    /\ eventq' = post(eventq, LinkEvent("CONTACT_UP", l))
    /\ UNCHANGED <<bundleVars, link, room, cl, cancelMsg, reroute, closing,
                   faults>>

start_next_bundle(l) ==
    /\ conn[l] = "up"
    /\ link[l].queue
    /\ cl' = [cl EXCEPT ![l] = "started"]
    /\ link' = [link EXCEPT ![l].inflight = TRUE, ![l].queue = FALSE]
    /\ UNCHANGED <<bundleVars, room, conn, cancelMsg, reroute, closing, eventq,
                   faults>>

CLMoves(l, from, to) ==
    /\ conn[l] = "up"
    /\ cl[l] \in from
    /\ cl' = [cl EXCEPT ![l] = to]
    /\ UNCHANGED <<bundleVars, link, room, conn, cancelMsg, reroute, closing,
                   faults>>
send_next_segment(l) == CLMoves(l, {"started"}, "sent") /\ UNCHANGED eventq
PartialAck(l) == /\ Reliable
                 /\ CLMoves(l, {"sent"}, "acked")
                 /\ UNCHANGED eventq
\* The last acknowledgement may come before finish_bundle().
handle_ack_segment(l) ==
    /\ \/ CLMoves(l, {"sent", "acked"}, "none")
       \/ Reliable /\ CLMoves(l, {"sent", "acked"}, "posted")
    /\ eventq' = post(eventq, LinkEvent("BUNDLE_TRANSMITTED", l))
finish_bundle(l) == CLMoves(l, {"posted"}, "none") /\ UNCHANGED eventq

\* A bundle of which nothing was sent is taken off the connection's list, not
\* off the link's; unless the header of its first segment has been sent.
handle_cancel_bundle(l) ==
    /\ conn[l] = "up"
    /\ cancelMsg[l]
    /\ cancelMsg' = [cancelMsg EXCEPT ![l] = FALSE]
    /\ \/ /\ cl[l] = "started"
          /\ cl' = [cl EXCEPT ![l] = "none"]
          /\ eventq' = post(eventq, LinkEvent("BUNDLE_CANCELLED", l))
       \/ UNCHANGED <<cl, eventq>>
    /\ UNCHANGED <<bundleVars, link, room, conn, reroute, closing, faults>>

\* The CLMSG_BREAK_CONTACT of close_contact().
process_command(l) ==
    /\ closing.link = l
    /\ conn[l] \in {"connecting", "up"}
    /\ conn' = [conn EXCEPT ![l] = "broken"]
    /\ UNCHANGED <<bundleVars, link, room, cl, cancelMsg, reroute, closing,
                   eventq, faults>>

(***************************************************************************)
(* Faults and requests.                                                    *)
(***************************************************************************)
Happens(cmd) == /\ cmd \in Commands
                /\ faults < MaxFaults
                /\ faults' = faults + 1

break_contact(l, reason) ==
    /\ conn[l] \in {"connecting", "up"}
    /\ closing.link # l
    /\ ~Queued("CLOSED", l)
    /\ conn' = [conn EXCEPT ![l] = "broken"]
    /\ eventq' = post(eventq, CloseRequest(l, reason))
    /\ UNCHANGED <<bundleVars, link, room, cl, cancelMsg, reroute, closing>>
ConnectionBroken(l) == Happens("break") /\ break_contact(l, "BROKEN")
ConnectionIdle(l) == Happens("idle") /\ break_contact(l, "IDLE")

UserClose(l) ==
    /\ Happens("close")
    /\ link[l].state = "OPEN"
    /\ closing.link # l
    /\ ~Queued("CLOSED", l)
    /\ eventq' = post(eventq, CloseRequest(l, "USER"))
    /\ UNCHANGED <<bundleVars, link, room, clVars, reroute, closing>>

\* The retry timer of a link that is down, or a user, opens it.
LinkReopens(l) ==
    /\ Idle
    /\ link[l].state = "UNAVAILABLE"
    /\ ~Queued("OPEN", l)
    /\ eventq' = post(eventq, LinkEvent("OPEN", l))
    /\ UNCHANGED <<bundleVars, link, room, clVars, reroute, closing, faults>>

\* Events of other bundles on the link.
OtherQueued(l) ==
    /\ Idle
    /\ Happens("congest")
    /\ link[l].state = "OPEN"
    /\ room[l] # "full"
    /\ room' = [room EXCEPT ![l] = IF room[l] = "space" THEN "some" ELSE "full"]
    /\ UNCHANGED <<bundleVars, link, clVars, reroute, closing, eventq>>
OtherTransmitted(l) ==
    /\ Idle
    /\ link[l].state = "OPEN"
    /\ room[l] # "space"
    /\ room' = [room EXCEPT ![l] = IF room[l] = "full" THEN "some" ELSE "space"]
    /\ link' = IF room[l] = "some" THEN pull_deferred(link, l) ELSE link
    /\ UNCHANGED <<bundleVars, clVars, reroute, closing, eventq, faults>>

UserRequest(cmd, q) ==
    /\ Happens(cmd)
    /\ eventq' = q
    /\ UNCHANGED <<bundleVars, link, room, clVars, reroute, closing>>
UserCancel(l) == /\ status = "pending"
                 /\ UserRequest("link_cancel", post_at_head(eventq,
                                     LinkEvent("BUNDLE_CANCEL", l)))
UserDelete == /\ status = "pending"
              /\ UserRequest("delete", post(eventq,
                                     LinkEvent("BUNDLE_DELETE", NoLink)))
CustodySignalArrives ==
    /\ \E l \in Links : link[l].log \in {"TRANSMITTED", "CUSTODY_TIMEOUT"}
    /\ UserRequest("custody_signal", post(eventq,
                                     LinkEvent("CUSTODY_SIGNAL", NoLink)))

Daemon ==
    \/ handle_bundle_received
    \/ handle_bundle_transmitted
    \/ handle_bundle_cancelled
    \/ handle_bundle_expired
    \/ handle_bundle_cancel
    \/ handle_custody_signal
    \/ handle_custody_timeout
    \/ RequestOpen
    \/ handle_contact_up
    \/ RequestClosed
    \/ CloseCompleted

Sends(l) ==
    \/ contact_up(l)
    \/ start_next_bundle(l)
    \/ send_next_segment(l)
    \/ handle_ack_segment(l)
    \/ finish_bundle(l)

Next ==
    \/ Daemon
    \/ ExpirationTimeout
    \/ UserDelete
    \/ CustodySignalArrives
    \/ \E l \in Links :
          \/ Sends(l)
          \/ PartialAck(l)
          \/ handle_cancel_bundle(l)
          \/ process_command(l)
          \/ CustodyTimeout(l)
          \/ reroute_bundles(l)
          \/ ConnectionBroken(l)
          \/ ConnectionIdle(l)
          \/ UserClose(l)
          \/ LinkReopens(l)
          \/ OtherQueued(l)
          \/ OtherTransmitted(l)
          \/ UserCancel(l)

(***************************************************************************)
(* The daemon thread never stops popping events and running timers, and a  *)
(* connection thread goes on sending while its connection stands. A link   *)
(* that is down is opened again: by the retry timer of module LinkContact. *)
(***************************************************************************)
Fairness ==
    /\ WF_vars(Daemon)
    /\ \A l \in Links : /\ WF_vars(Sends(l))
                        /\ WF_vars(process_command(l))
                        /\ WF_vars(LinkReopens(l))
                        /\ WF_vars(OtherTransmitted(l))

Spec == Init /\ [][Next]_vars
FairSpec == Spec /\ Fairness

(***************************************************************************)
(* Properties.                                                             *)
(***************************************************************************)

\* The variables keep the types their C++ declarations give them.
TypeOK ==
    /\ status \in {"new", "pending", "deleted"}
    /\ expiration \in BOOLEAN
    /\ custody \in BOOLEAN
    /\ custodyTimer \in [Links -> {"none", "pending", "fired"}]
    /\ link \in [Links -> LinkRecord]
    /\ room \in [Links -> {"space", "some", "full"}]
    /\ conn \in [Links -> {"none", "connecting", "up", "broken"}]
    /\ cl \in [Links -> {"none", "started", "sent", "acked", "posted"}]
    /\ cancelMsg \in [Links -> BOOLEAN]
    /\ reroute \in [Links -> {"none", "pending", "fired"}]
    /\ closing \in Event
    /\ eventq \in Seq(Event)
    /\ faults \in 0 .. MaxFaults

\* The formatted blocks of a bundle outlive their use by a connection thread:
\* a queued bundle has them (ASSERT(inflight->blocks_ != NULL) in
\* start_next_bundle), and they are not freed while they are being sent.
BlocksOutliveUse ==
    \A l \in Links : link[l].queue \/ cl[l] \in {"started", "sent", "acked"}
                     => link[l].blocks

\* A QUEUED entry of the forwarding log, which keeps the router from sending
\* the bundle anywhere else, stands for a transmission that has not ended or
\* for an event that will end it.
QueuedIsUnderWay ==
    \A l \in Links : link[l].log = "QUEUED"
        => \/ link[l].queue
           \/ cl[l] \in {"started", "sent", "acked"}
           \/ Queued("BUNDLE_TRANSMITTED", l)
           \/ Queued("BUNDLE_CANCELLED", l)

\* A bundle on a link's in-flight list is in the hands of that link's
\* connection, or the event that takes it off the list is queued: "there
\* should never have been any in flight since the link is unavailable"
\* (TableBasedRouter::reroute_bundles).
InFlightIsServed ==
    \A l \in Links : link[l].inflight
        => cl[l] # "none" \/ Queued("BUNDLE_TRANSMITTED", l)

\* A bundle for a singleton endpoint is in the hands of one link at a time.
OneLinkAtATime ==
    Singleton => \A l, k \in Links :
        /\ link[l].queue \/ link[l].inflight
        /\ link[k].queue \/ link[k].inflight
        => l = k

\* A bundle the router has seen is never stranded: it is waiting for a link,
\* being sent, sent (and, while this node is its custodian, the timer that
\* will send it again is set), or an event about it is queued.
NeverStranded ==
    status = "pending" /\ expiration
    => \/ \E i \in DOMAIN eventq :
             eventq[i].type \notin {"OPEN", "CLOSED", "CONTACT_UP"}
       \/ \E l \in Links :
             \/ link[l].deferred
             \/ link[l].log = "QUEUED"
             \/ /\ link[l].log = "TRANSMITTED"
                /\ custody => custodyTimer[l] # "none"

\* A custody timer belongs to a bundle this node is the custodian of, and to
\* a transmission that is still recorded: no timer outlives the custody that
\* set it, and none is left behind when the bundle is sent again.
CustodyTimersMatch ==
    \A l \in Links : custodyTimer[l] # "none"
        => custody /\ status = "pending" /\ link[l].log = "TRANSMITTED"

\* A deleted bundle is never put on a link's queue by the router again,
\* whatever events about it are still queued.
NotQueuedOnceDeleted ==
    [][status = "deleted" => \A l \in Links :
           link'[l].log = "QUEUED" => link[l].log = "QUEUED"]_vars

\* Once faults cease, a pending bundle is sent or deleted.
EventuallySent ==
    (status = "pending") ~> \/ status = "deleted"
                            \/ \E l \in Links : link[l].log = "TRANSMITTED"

=============================================================================
