---------------------------- MODULE LinkContact ----------------------------
(***************************************************************************)
(* One link of the bundle daemon, its contact, the convergence layer's     *)
(* connection thread that serves the contact, and the daemon's event       *)
(* queue as far as it concerns the link.                                   *)
(*                                                                         *)
(* Threads: the daemon thread (BundleDaemon::run) pops one event at a time *)
(* and runs the daemon's, the router's and the contact manager's handler   *)
(* for it; expired timers run in the same thread between two events. One   *)
(* connection thread per contact (CLConnection::run), a listening thread   *)
(* that accepts inbound connections, the console and the discovery         *)
(* threads post events.                                                    *)
(*                                                                         *)
(* The convergence layer is a connection oriented one                      *)
(* (ConnectionConvergenceLayer), the router a table based one.             *)
(* Links do not share state, so one link is modelled; its type is a        *)
(* parameter.                                                              *)
(***************************************************************************)
EXTENDS Naturals, Sequences

CONSTANTS
    Contacts,      \* identities of Contact objects
    NoContact,     \* the NULL contact
    LinkType,      \* Link::type()
    Commands,      \* which requests the other threads may make
    MinRetry,      \* Link::Params::min_retry_interval_
    MaxRetry,      \* Link::Params::max_retry_interval_
    QueueBound     \* requests are made only while the queue is shorter

LinkTypes    == {"ALWAYSON", "ONDEMAND", "OPPORTUNISTIC"}
LinkStates   == {"UNAVAILABLE", "AVAILABLE", "OPENING", "OPEN"}
AllCommands  == {"open", "close", "delete", "set_available",
                 "set_unavailable", "discovered", "beacon_lost", "bundle",
                 "inbound"}
ConnStates   == {"none", "connecting", "accepted", "up", "broken"}
\* BROKEN stands for every reason the handlers do not tell apart from it.
Reasons      == {"NO_INFO", "USER", "DISCOVERY", "BROKEN", "RECONNECT", "IDLE"}
EventTypes   == {"LINK_CREATED", "LINK_AVAILABLE", "LINK_UNAVAILABLE",
                 "LINK_STATE_CHANGE_REQUEST", "LINK_DELETE", "LINK_DELETED",
                 "CONTACT_UP", "CONTACT_DOWN", "BUNDLE"}
AssertSites  == {"none", "handle_link_available", "handle_link_unavailable",
                 "router_contact_down", "cl_delete_link", "find_contact"}

ASSUME ConstantsAssumption ==
    /\ NoContact \notin Contacts
    /\ LinkType \in LinkTypes
    /\ Commands \subseteq AllCommands
    /\ MinRetry \in Nat \ {0}
    /\ MaxRetry \in Nat \ {0}
    /\ QueueBound \in Nat

VARIABLES
    state,         \* Link::state_
    deleted,       \* Link::deleted_
    known,         \* the link is in ContactManager::links_
    clInfo,        \* Link::cl_info_ is allocated
    contact,       \* Link::contact_
    conn,          \* the connection thread of each Contact (its cl_info)
    eventq,        \* BundleDaemon::eventq_
    timer,         \* the link is in ContactManager::availability_timers_
    retryInterval, \* Link::retry_interval_
    closing,       \* reason of the close_contact() the daemon waits in, or "no"
    accepting,     \* an inbound connection is inside find_contact()
    aborted,       \* the ASSERT that stopped the process
    downReason     \* history: why the link last became UNAVAILABLE

vars == <<state, deleted, known, clInfo, contact, conn, eventq, timer,
          retryInterval, closing, accepting, aborted, downReason>>

ContactOrNone == Contacts \cup {NoContact}
Event == [type: EventTypes, to: LinkStates \cup {"CLOSED", "-"},
          reason: Reasons, contact: ContactOrNone]

(***************************************************************************)
(* Events. A LinkStateChangeRequest records the link's contact when it is  *)
(* constructed.                                                            *)
(***************************************************************************)
LinkEvent(t, r)    == [type |-> t, to |-> "-", reason |-> r,
                       contact |-> NoContact]
ContactEvent(t, r, c) == [type |-> t, to |-> "-", reason |-> r, contact |-> c]
LinkStateChangeRequest(s, r) ==
    [type |-> "LINK_STATE_CHANGE_REQUEST", to |-> s, reason |-> r,
     contact |-> contact]

post(q, e)         == Append(q, e)
PostedBehind(q, e) == Append(q, e)                                \* mutant
post_at_head(q, e) == <<e>> \o q

isopen      == state = "OPEN"
isopening   == state = "OPENING"
isavailable == state # "UNAVAILABLE"
Retried     == LinkType \in {"ALWAYSON", "ONDEMAND"}

\* Contact objects are reference counted: one that nothing names is free.
Unreferenced == {c \in Contacts :
                    /\ c # contact
                    /\ conn[c] = "none"
                    /\ \A i \in DOMAIN eventq : eventq[i].contact # c}

Init ==
    /\ state = IF LinkType = "ONDEMAND" THEN "AVAILABLE" ELSE "UNAVAILABLE"
    /\ deleted = FALSE
    /\ known = TRUE
    /\ clInfo = TRUE
    /\ contact = NoContact
    /\ conn = [c \in Contacts |-> "none"]
    /\ eventq = <<LinkEvent("LINK_CREATED", "NO_INFO")>>
    /\ timer = FALSE
    /\ retryInterval = 0
    /\ closing = "no"
    /\ accepting = FALSE
    /\ aborted = "none"
    /\ downReason = "USER"

(***************************************************************************)
(* The daemon thread handles the event at the head of its queue.           *)
(***************************************************************************)
Running     == aborted = "none"
Handles(t)  == /\ Running
               /\ closing = "no"
               /\ eventq # <<>>
               /\ Head(eventq).type = t
\* find_contact() holds the contact manager's lock. Handlers that take the lock
\* before they look at the link wait for it; the router takes no lock, and what
\* the contact manager does after it never concerns an opportunistic link.
CMLockFree  == ~accepting

Fails(site) ==
    /\ aborted' = site
    /\ UNCHANGED <<state, deleted, known, clInfo, contact, conn, eventq,
                   timer, retryInterval, closing, accepting, downReason>>

\* BundleActions::open_link and Link::open on a link whose state is s.
MayOpenDeleted(s) == contact = NoContact /\ s = "AVAILABLE"       \* mutant
MayOpen(s) == ~deleted /\ contact = NoContact /\ s = "AVAILABLE"
open_link(s) ==
    IF MayOpen(s)
    THEN \E c \in Unreferenced :
            /\ state' = "OPENING"
            /\ contact' = c
            /\ conn' = [conn EXCEPT ![c] = "connecting"]
    ELSE /\ state' = s
         /\ UNCHANGED <<contact, conn>>

\* The router opens an available link a bundle is intended for.
fwd_to_nexthop ==
    \/ open_link(state)
    \/ UNCHANGED <<state, contact, conn>>     \* no bundle for this link

handle_link_created ==
    /\ Handles("LINK_CREATED")
    /\ IF deleted
       THEN /\ eventq' = Tail(eventq)
            /\ UNCHANGED <<state, contact, conn>>
       ELSE /\ fwd_to_nexthop
            /\ eventq' =
                 IF ~known THEN Tail(eventq)
                 ELSE CASE LinkType = "ALWAYSON" ->
                             post_at_head(Tail(eventq),
                                [LinkStateChangeRequest("OPEN", "USER")
                                    EXCEPT !.contact = contact'])
                        [] LinkType = "ONDEMAND" ->
                             post(Tail(eventq),
                                  LinkEvent("LINK_AVAILABLE", "NO_INFO"))
                        [] OTHER -> Tail(eventq)
    /\ UNCHANGED <<deleted, known, clInfo, timer, retryInterval, closing,
                   accepting, aborted, downReason>>

handle_link_available ==
    /\ Handles("LINK_AVAILABLE")
    /\ IF ~isavailable THEN Fails("handle_link_available")
       ELSE /\ eventq' = Tail(eventq)
            /\ IF /\ ~deleted
                  /\ LinkType = "OPPORTUNISTIC"
                  /\ ~isopen
                  /\ Head(eventq).reason = "DISCOVERY"
               THEN open_link(state)
               ELSE UNCHANGED <<state, contact, conn>>
            /\ timer' = (timer /\ (deleted \/ ~known))
            /\ UNCHANGED <<deleted, known, clInfo, retryInterval, closing,
                           accepting, aborted, downReason>>

\* The retry timer's exponential backoff.
ThisInterval  == IF retryInterval = 0 THEN MinRetry ELSE retryInterval
NextInterval  ==
    IF 2 * ThisInterval > MaxRetry THEN MaxRetry ELSE 2 * ThisInterval

handle_link_unavailable ==
    /\ Handles("LINK_UNAVAILABLE")
    /\ IF isavailable THEN Fails("handle_link_unavailable")
       ELSE /\ eventq' = Tail(eventq)
            /\ IF /\ known /\ ~deleted /\ Retried
                  /\ Head(eventq).reason \notin {"USER", "IDLE"}
               THEN /\ retryInterval' = NextInterval
                    /\ timer' = TRUE
               ELSE UNCHANGED <<retryInterval, timer>>
            /\ UNCHANGED <<state, deleted, known, clInfo, contact, conn,
                           closing, accepting, aborted, downReason>>

(***************************************************************************)
(* BundleDaemon::handle_link_state_change_request, one action per case.    *)
(***************************************************************************)
Request(s) == /\ Handles("LINK_STATE_CHANGE_REQUEST")
              /\ Head(eventq).to = s
Stale      == \/ deleted /\ Head(eventq).to # "CLOSED"
              \/ contact # Head(eventq).contact

RequestDropped ==
    /\ Handles("LINK_STATE_CHANGE_REQUEST")
    /\ \/ Stale
       \/ Head(eventq).to = "UNAVAILABLE" /\ state # "AVAILABLE"
       \/ Head(eventq).to = "AVAILABLE" /\ state # "UNAVAILABLE"
       \/ Head(eventq).to = "CLOSED" /\ ~isopen /\ ~isopening
    /\ eventq' = Tail(eventq)
    /\ UNCHANGED <<state, deleted, known, clInfo, contact, conn, timer,
                   retryInterval, closing, accepting, aborted, downReason>>

RequestUnavailable ==
    /\ Request("UNAVAILABLE")
    /\ ~Stale
    /\ state = "AVAILABLE"
    /\ state' = "UNAVAILABLE"
    /\ downReason' = Head(eventq).reason
    /\ eventq' = post_at_head(Tail(eventq),
                    LinkEvent("LINK_UNAVAILABLE", Head(eventq).reason))
    /\ UNCHANGED <<deleted, known, clInfo, contact, conn, timer,
                   retryInterval, closing, accepting, aborted>>

RequestAvailable ==
    /\ Request("AVAILABLE")
    /\ ~Stale
    /\ state = "UNAVAILABLE"
    /\ state' = "AVAILABLE"
    /\ eventq' = post_at_head(Tail(eventq),
                    LinkEvent("LINK_AVAILABLE", Head(eventq).reason))
    /\ UNCHANGED <<deleted, known, clInfo, contact, conn, timer,
                   retryInterval, closing, accepting, aborted, downReason>>

RequestOpen ==
    /\ Request("OPEN")
    /\ ~Stale
    /\ CMLockFree
    /\ open_link(IF state = "UNAVAILABLE" THEN "AVAILABLE" ELSE state)
    /\ eventq' = Tail(eventq)
    /\ UNCHANGED <<deleted, known, clInfo, timer, retryInterval, closing,
                   accepting, aborted, downReason>>

\* close_contact() waits for the connection thread: the handler ends in
\* CloseCompleted, and the other threads run meanwhile.
RequestClosed ==
    /\ Request("CLOSED")
    /\ ~Stale
    /\ isopen \/ isopening
    /\ eventq' = IF isopen
                 THEN post_at_head(Tail(eventq),
                        ContactEvent("CONTACT_DOWN", Head(eventq).reason,
                                     contact))
                 ELSE Tail(eventq)
    /\ closing' = Head(eventq).reason
    /\ UNCHANGED <<state, deleted, known, clInfo, contact, conn, timer,
                   retryInterval, accepting, aborted, downReason>>

ThreadStopped == conn[contact] = "broken"
ClosedState == "CLOSED"                                           \* mutant
StateOnceClosed == IF closing = "IDLE" THEN "AVAILABLE" ELSE "UNAVAILABLE"
CloseCompleted ==
    /\ Running
    /\ closing # "no"
    /\ ThreadStopped
    /\ contact' = NoContact
    /\ conn' = [conn EXCEPT ![contact] = "none"]
    /\ clInfo' = (clInfo /\ ~deleted)
    /\ closing' = "no"
    /\ state' = StateOnceClosed
    /\ IF closing = "IDLE"
       THEN UNCHANGED <<eventq, downReason>>
       ELSE /\ downReason' = closing
            /\ eventq' = post_at_head(eventq,
                            LinkEvent("LINK_UNAVAILABLE", closing))
    /\ UNCHANGED <<deleted, known, timer, retryInterval, accepting, aborted>>

(***************************************************************************)
(* Contacts, deletion, bundles, the availability timer.                    *)
(***************************************************************************)
\* A stale event leaves the link alone, but still reaches the contact manager.
AnyContact(c) == TRUE                                             \* mutant
IsCurrent(c) == contact = c
handle_contact_up ==
    /\ Handles("CONTACT_UP")
    /\ CMLockFree
    /\ state' = IF ~deleted /\ IsCurrent(Head(eventq).contact)
                THEN "OPEN" ELSE state
    /\ retryInterval' = IF ~deleted /\ known /\ Retried
                        THEN MinRetry ELSE retryInterval
    /\ eventq' = Tail(eventq)
    /\ UNCHANGED <<deleted, known, clInfo, contact, conn, timer, closing,
                   accepting, aborted, downReason>>

handle_contact_down ==
    /\ Handles("CONTACT_DOWN")
    /\ IF deleted THEN Fails("router_contact_down")
       ELSE /\ eventq' = Tail(eventq)
            /\ UNCHANGED <<state, deleted, known, clInfo, contact, conn,
                           timer, retryInterval, closing, accepting, aborted,
                           downReason>>

\* A link that is open or being opened is closed when it is deleted.
ClosesIfOpen == isopen                                            \* mutant
ClosesOnDelete == isopen \/ isopening
handle_link_delete ==
    /\ Handles("LINK_DELETE")
    /\ CMLockFree
    /\ CASE deleted \/ ~known ->
              /\ eventq' = Tail(eventq)
              /\ UNCHANGED <<state, deleted, known, clInfo, contact, conn,
                             timer, retryInterval, closing, accepting,
                             aborted, downReason>>
         [] ~(deleted \/ ~known) /\ ~isopen /\ ~isopening
                                 /\ contact # NoContact ->
              Fails("cl_delete_link")
         [] OTHER ->
              /\ deleted' = TRUE
              /\ known' = FALSE
              /\ timer' = FALSE
              /\ clInfo' = (isopen \/ isopening)
              /\ eventq' =
                   post(IF ClosesOnDelete
                        THEN post(Tail(eventq),
                                  LinkStateChangeRequest("CLOSED", "NO_INFO"))
                        ELSE Tail(eventq),
                        LinkEvent("LINK_DELETED", "NO_INFO"))
              /\ UNCHANGED <<state, contact, conn, retryInterval, closing,
                             accepting, aborted, downReason>>

handle_link_deleted ==
    /\ Handles("LINK_DELETED")
    /\ eventq' = Tail(eventq)
    /\ UNCHANGED <<state, deleted, known, clInfo, contact, conn, timer,
                   retryInterval, closing, accepting, aborted, downReason>>

handle_bundle ==
    /\ Handles("BUNDLE")
    /\ fwd_to_nexthop
    /\ eventq' = Tail(eventq)
    /\ UNCHANGED <<deleted, known, clInfo, timer, retryInterval, closing,
                   accepting, aborted, downReason>>

\* LinkAvailabilityTimer::timeout, run by the daemon thread between events.
ReopensIfAvailable == known /\ isavailable                        \* mutant
Reopens == known /\ state = "UNAVAILABLE"
Reschedules ==                                                    \* mutant
    Running /\ closing = "no" /\ CMLockFree /\ timer /\ UNCHANGED vars
reopen_link ==
    /\ Running
    /\ closing = "no"
    /\ CMLockFree
    /\ timer
    /\ timer' = FALSE
    /\ eventq' = IF Reopens
                 THEN post(eventq, LinkStateChangeRequest("OPEN", "RECONNECT"))
                 ELSE eventq
    /\ UNCHANGED <<state, deleted, known, clInfo, contact, conn,
                   retryInterval, closing, accepting, aborted, downReason>>

(***************************************************************************)
(* The connection thread of contact c.                                     *)
(***************************************************************************)
contact_up(c) ==
    /\ Running
    /\ conn[c] \in {"connecting", "accepted"}
    /\ conn' = [conn EXCEPT ![c] = "up"]
    /\ eventq' = post(eventq, ContactEvent("CONTACT_UP", "NO_INFO", c))
    /\ UNCHANGED <<state, deleted, known, clInfo, contact, timer,
                   retryInterval, closing, accepting, aborted, downReason>>

ReportsIfUp(c, reason) == reason # "USER" /\ conn[c] = "up"       \* mutant
Reports(c, reason) == reason # "USER"
break_contact(c, reason) ==
    /\ Running
    /\ conn[c] \in {"connecting", "up"}
    /\ conn' = [conn EXCEPT ![c] = "broken"]
    /\ eventq' = IF Reports(c, reason)
                 THEN post(eventq, LinkStateChangeRequest("CLOSED", reason))
                 ELSE eventq
    /\ UNCHANGED <<state, deleted, known, clInfo, contact, timer,
                   retryInterval, closing, accepting, aborted, downReason>>

\* The connection fails, cannot be made, or its peer shuts it down.
ConnectionBroken(c) == break_contact(c, "BROKEN")

\* An ONDEMAND connection is idle for too long: the contact was initiated, and
\* need not have come up.
ConnectionIdle(c) ==
    /\ LinkType = "ONDEMAND"
    /\ CMLockFree
    /\ break_contact(c, "IDLE")

\* The thread gets the CLMSG_BREAK_CONTACT that close_contact() pushed.
ListensUntilUp(c) == conn[c] = "connecting"                       \* mutant
Listens(c) == conn[c] \in {"connecting", "up"}
process_command(c) ==
    /\ closing # "no"
    /\ c = contact
    /\ Listens(c)
    /\ break_contact(c, "USER")

\* CLConnection::find_contact for an inbound connection: an idle
\* opportunistic link is looked up under the contact manager's lock ...
FindIdleLink ==
    /\ Running
    /\ "inbound" \in Commands
    /\ LinkType = "OPPORTUNISTIC"
    /\ ~accepting
    /\ known
    /\ state \in {"AVAILABLE", "UNAVAILABLE"}
    /\ contact = NoContact
    /\ accepting' = TRUE
    /\ UNCHANGED <<state, deleted, known, clInfo, contact, conn, eventq,
                   timer, retryInterval, closing, aborted, downReason>>

\* ... and given a contact under the link's lock.
Unattachable == deleted                                           \* mutant
NotIdle == contact # NoContact \/ deleted \/ ~clInfo \/ isopen
AttachContact ==
    /\ Running
    /\ accepting
    /\ IF NotIdle THEN Fails("find_contact")
       ELSE \E c \in Unreferenced :
              /\ contact' = c
              /\ conn' = [conn EXCEPT ![c] = "accepted"]
              /\ accepting' = FALSE
              /\ UNCHANGED <<state, deleted, known, clInfo, eventq, timer,
                             retryInterval, closing, aborted, downReason>>

(***************************************************************************)
(* Requests of the console (LinkCommand::exec) and of discovery.           *)
(***************************************************************************)
Requests(cmd, e) ==
    /\ Running
    /\ cmd \in Commands
    /\ Len(eventq) < QueueBound
    /\ eventq' = post(eventq, e)
    /\ UNCHANGED <<state, deleted, known, clInfo, contact, conn, timer,
                   retryInterval, closing, accepting, aborted, downReason>>

UserOpen == known /\ ~isopen
            /\ Requests("open", LinkStateChangeRequest("OPEN", "USER"))
UserClose == known /\ (isopen \/ isopening)
             /\ Requests("close", LinkStateChangeRequest("CLOSED", "USER"))
UserDelete == known /\ Requests("delete", LinkEvent("LINK_DELETE", "USER"))
UserSetAvailable == known /\ state = "UNAVAILABLE"
    /\ Requests("set_available", LinkStateChangeRequest("AVAILABLE", "USER"))
UserSetUnavailable == known /\ state = "AVAILABLE"
    /\ Requests("set_unavailable",
                LinkStateChangeRequest("UNAVAILABLE", "USER"))
handle_neighbor_discovered == known /\ ~isavailable
    /\ Requests("discovered", LinkStateChangeRequest("AVAILABLE", "DISCOVERY"))
handle_missing_beacon == known /\ isopen
    /\ Requests("beacon_lost", LinkStateChangeRequest("CLOSED", "DISCOVERY"))
BundleArrives == Requests("bundle", LinkEvent("BUNDLE", "NO_INFO"))

Daemon ==
    \/ handle_link_created
    \/ handle_link_available
    \/ handle_link_unavailable
    \/ RequestDropped
    \/ RequestUnavailable
    \/ RequestAvailable
    \/ RequestOpen
    \/ RequestClosed
    \/ CloseCompleted
    \/ handle_contact_up
    \/ handle_contact_down
    \/ handle_link_delete
    \/ handle_link_deleted
    \/ handle_bundle

Connection(c) ==
    \/ contact_up(c)
    \/ ConnectionBroken(c)
    \/ ConnectionIdle(c)
    \/ process_command(c)

Environment ==
    \/ UserOpen
    \/ UserClose
    \/ UserDelete
    \/ UserSetAvailable
    \/ UserSetUnavailable
    \/ handle_neighbor_discovered
    \/ handle_missing_beacon
    \/ BundleArrives

Next ==
    \/ Daemon
    \/ reopen_link
    \/ \E c \in Contacts : Connection(c)
    \/ FindIdleLink
    \/ AttachContact
    \/ Environment

(***************************************************************************)
(* The daemon thread never stops popping events and running timers; a      *)
(* connection thread gives a connection attempt up or establishes it, and  *)
(* looks at its command queue on every turn of its loop. Nothing is        *)
(* assumed of the users, of discovery, or of an established connection.    *)
(***************************************************************************)
Fairness ==
    /\ WF_vars(Daemon)
    /\ WF_vars(reopen_link)
    /\ WF_vars(AttachContact)
    /\ \A c \in Contacts :
          /\ WF_vars(process_command(c))
          /\ WF_vars(conn[c] # "up" /\ (contact_up(c) \/ ConnectionBroken(c)))

Spec == Init /\ [][Next]_vars
FairSpec == Spec /\ Fairness
(***************************************************************************)
(* Properties.                                                             *)
(***************************************************************************)

\* The variables keep the types their C++ declarations give them, and a
\* connection thread in close_contact() always has a contact to close.
TypeOK ==
    /\ state \in LinkStates
    /\ deleted \in BOOLEAN
    /\ known \in BOOLEAN
    /\ clInfo \in BOOLEAN
    /\ contact \in ContactOrNone
    /\ conn \in [Contacts -> ConnStates]
    /\ eventq \in Seq(Event)
    /\ timer \in BOOLEAN
    /\ retryInterval \in Nat
    /\ closing \in Reasons \cup {"no"}
    /\ accepting \in BOOLEAN
    /\ aborted \in AssertSites
    /\ downReason \in Reasons

\* A connection thread never outlives its contact: a thread that runs, or
\* whose CLConnection object has not been deleted by close_contact(), serves
\* the link's current contact. Hence a link has one connection at a time.
OneConnection == \A c \in Contacts : conn[c] # "none" => contact = c

\* "All links in the OPEN state have an associated contact that represents an
\* actual connection" (contacts/Link.h), although the state is set by the
\* daemon thread when it gets to the ContactUpEvent, and a link being opened
\* has the contact that the attempt is made for.
OpenIsServed ==
    /\ isopen => contact # NoContact /\ conn[contact] \in {"up", "broken"}
    /\ isopening => contact # NoContact

\* A contact whose connection thread has ended is never forgotten: the request
\* that will close it is still queued, and is not stale.
DeadContactWillClose ==
    Running /\ closing = "no" /\ contact # NoContact /\ conn[contact] = "broken"
    => \E i \in DOMAIN eventq : /\ eventq[i].type = "LINK_STATE_CHANGE_REQUEST"
                                /\ eventq[i].to = "CLOSED"
                                /\ eventq[i].contact = contact

\* Retries are not lost: an ALWAYSON or ONDEMAND link that went down for a
\* reason other than a user's wish has its retry timer set, or a request to
\* reopen it that is not stale, or the event that will set the timer.
RetryPending ==
    Retried /\ known /\ state = "UNAVAILABLE" /\ downReason \notin {"USER", "IDLE"}
    => \/ timer
       \/ \E i \in DOMAIN eventq :
             \/ /\ eventq[i].type = "LINK_STATE_CHANGE_REQUEST"
                /\ eventq[i].to = "OPEN"
                /\ eventq[i].contact = NoContact
             \/ /\ eventq[i].type = "LINK_UNAVAILABLE"
                /\ eventq[i].reason \notin {"USER", "IDLE"}

\* A deleted link gets no new contact, whatever is still queued for it.
NoNewContactOnceDeleted ==
    [][deleted => contact' \in {contact, NoContact}]_vars

\* The daemon's own assertions and those of the code it calls.
\* ASSERT(!link->isavailable()) in BundleDaemon::handle_link_unavailable: no
\* other event changes the state between the close and its notification.
UnavailableAssertHolds == aborted # "handle_link_unavailable"
\* A link that went down for a reason other than a user's wish leaves the
\* UNAVAILABLE state again, unless it is deleted.
ReopenedAfterBreak ==
    (Retried /\ state = "UNAVAILABLE" /\ downReason \notin {"USER", "IDLE"})
    ~> (state # "UNAVAILABLE" \/ ~known \/ downReason = "USER")

\* The daemon thread, which waits for the connection thread in
\* close_contact() while every other event waits for the daemon, gets out.
CloseCompletes == (closing # "no") ~> (closing = "no")

\* The contact of a deleted link is closed in the end.
DeletedLinkReleased == deleted ~> (contact = NoContact)
============================================================================
