------------------------- MODULE LinkContact_proofs -------------------------
(***************************************************************************)
(* Theorems about LinkContact, for every set of contacts, every link type, *)
(* every choice of commands and every length of the event queue.           *)
(***************************************************************************)
EXTENDS LinkContact, TLAPS

(***************************************************************************)
(* Facts about the three ways the event queue changes.                     *)
(***************************************************************************)

\* Popping an event (BundleDaemon::run) leaves the others, one place forward.
LEMMA TailFacts ==
    ASSUME NEW S, NEW q \in Seq(S), q # <<>>
    PROVE  /\ Tail(q) \in Seq(S)
           /\ Len(Tail(q)) = Len(q) - 1
           /\ Head(q) = q[1]
           /\ Head(q) \in S
           /\ 1 \in 1 .. Len(q)
           /\ \A i \in 1 .. Len(Tail(q)) :
                 i + 1 \in 1 .. Len(q) /\ Tail(q)[i] = q[i + 1]
  OBVIOUS

\* Posting an event puts it behind the others.
LEMMA AppendFacts ==
    ASSUME NEW S, NEW q \in Seq(S), NEW e \in S
    PROVE  /\ post(q, e) \in Seq(S)
           /\ Len(post(q, e)) = Len(q) + 1
           /\ post(q, e)[Len(q) + 1] = e
           /\ \A i \in 1 .. Len(q) : post(q, e)[i] = q[i]
  BY DEF post

\* Posting an event at the head moves the others one place back.
LEMMA ConsFacts ==
    ASSUME NEW S, NEW q \in Seq(S), NEW e \in S
    PROVE  /\ post_at_head(q, e) \in Seq(S)
           /\ Len(post_at_head(q, e)) = Len(q) + 1
           /\ post_at_head(q, e)[1] = e
           /\ \A i \in 2 .. Len(q) + 1 : i - 1 \in 1 .. Len(q)
                                         /\ post_at_head(q, e)[i] = q[i - 1]
  BY DEF post_at_head

\* The events the handlers construct are events.
LEMMA EventsTyped ==
    ASSUME TypeOK
    PROVE  /\ \A t \in EventTypes, r \in Reasons : LinkEvent(t, r) \in Event
           /\ \A t \in EventTypes, r \in Reasons, c \in ContactOrNone :
                 ContactEvent(t, r, c) \in Event
           /\ \A s \in LinkStates \cup {"CLOSED", "-"}, r \in Reasons :
                 LinkStateChangeRequest(s, r) \in Event
  BY DEF TypeOK, LinkEvent, ContactEvent, LinkStateChangeRequest, Event,
         ContactOrNone, EventTypes

(***************************************************************************)
(* Type correctness.                                                       *)
(***************************************************************************)

\* Opening a link (Link::open) gives it a free contact or leaves it alone.
LEMMA OpenLinkTyped ==
    ASSUME TypeOK, NEW s \in LinkStates, open_link(s)
    PROVE  /\ state' \in LinkStates
           /\ contact' \in ContactOrNone
           /\ conn' \in [Contacts -> ConnStates]
  <1>1. CASE MayOpen(s)
    <2>1. PICK c \in Contacts : /\ state' = "OPENING"
                                /\ contact' = c
                                /\ conn' = [conn EXCEPT ![c] = "connecting"]
      BY <1>1 DEF open_link, Unreferenced
    <2> QED
      BY <2>1 DEF TypeOK, LinkStates, ContactOrNone, ConnStates
  <1>2. CASE ~MayOpen(s)
    BY <1>2 DEF open_link, TypeOK
  <1> QED
    BY <1>1, <1>2

\* The same for the router's choice whether to open it (fwd_to_nexthop).
LEMMA ForwardTyped ==
    ASSUME TypeOK, fwd_to_nexthop
    PROVE  /\ state' \in LinkStates
           /\ contact' \in ContactOrNone
           /\ conn' \in [Contacts -> ConnStates]
  <1>1. CASE open_link(state)
    BY <1>1, OpenLinkTyped DEF TypeOK
  <1>2. CASE UNCHANGED <<state, contact, conn>>
    BY <1>2 DEF TypeOK
  <1> QED
    BY <1>1, <1>2 DEF fwd_to_nexthop

\* What every handler of the daemon thread finds at the head of the queue.
LEMMA Popped ==
    ASSUME TypeOK, NEW t, Handles(t)
    PROVE  /\ Head(eventq) \in Event
           /\ Head(eventq).reason \in Reasons
           /\ Head(eventq).contact \in ContactOrNone
           /\ Tail(eventq) \in Seq(Event)
           /\ Head(eventq).type = t
  <1>1. eventq \in Seq(Event) /\ eventq # <<>>
    BY DEF TypeOK, Handles
  <1>2. Head(eventq) \in Event /\ Tail(eventq) \in Seq(Event)
    BY <1>1, TailFacts
  <1> QED
    BY <1>2 DEF Event, Handles

\* Every step of the daemon thread keeps the types.
LEMMA DaemonTyped == ASSUME TypeOK, Daemon PROVE TypeOK'
  <1> USE DEF LinkStates, ConnStates, Reasons, AssertSites
  <1> USE ConstantsAssumption
  <1>1. CASE handle_link_created
    <2>1. Tail(eventq) \in Seq(Event)
      BY <1>1, Popped DEF handle_link_created
    <2>2. state' \in LinkStates /\ contact' \in ContactOrNone
          /\ conn' \in [Contacts -> ConnStates]
      BY <1>1, ForwardTyped DEF handle_link_created, TypeOK
    <2>3. [LinkStateChangeRequest("OPEN", "USER") EXCEPT !.contact = contact']
             \in Event
      BY <2>2 DEF LinkStateChangeRequest, Event, EventTypes
    <2>4. LinkEvent("LINK_AVAILABLE", "NO_INFO") \in Event
      BY EventsTyped DEF EventTypes
    <2>5. eventq' \in {Tail(eventq),
             post_at_head(Tail(eventq), [LinkStateChangeRequest("OPEN", "USER")
                                            EXCEPT !.contact = contact']),
             post(Tail(eventq), LinkEvent("LINK_AVAILABLE", "NO_INFO"))}
      BY <1>1 DEF handle_link_created, LinkTypes
    <2>6. post_at_head(Tail(eventq), [LinkStateChangeRequest("OPEN", "USER")
                                         EXCEPT !.contact = contact'])
             \in Seq(Event)
      BY <2>1, <2>3, ConsFacts
    <2>7. post(Tail(eventq), LinkEvent("LINK_AVAILABLE", "NO_INFO"))
             \in Seq(Event)
      BY <2>1, <2>4, AppendFacts
    <2>8. eventq' \in Seq(Event)
      BY <2>1, <2>5, <2>6, <2>7
    <2> QED
      BY <1>1, <2>2, <2>8 DEF handle_link_created, TypeOK
  <1>2. CASE handle_link_available
    <2>1. CASE ~isavailable
      BY <1>2, <2>1 DEF handle_link_available, Fails, TypeOK
    <2>2. CASE isavailable
      <3>1. eventq' \in Seq(Event)
        BY <1>2, <2>2, Popped DEF handle_link_available
      <3>2. state' \in LinkStates /\ contact' \in ContactOrNone
            /\ conn' \in [Contacts -> ConnStates]
        BY <1>2, <2>2, OpenLinkTyped DEF handle_link_available, TypeOK
      <3> QED
        BY <1>2, <2>2, <3>1, <3>2 DEF handle_link_available, TypeOK
    <2> QED
      BY <2>1, <2>2
  <1>3. CASE handle_link_unavailable
    <2>1. CASE isavailable
      BY <1>3, <2>1 DEF handle_link_unavailable, Fails, TypeOK
    <2>2. CASE ~isavailable
      <3>1. eventq' \in Seq(Event)
        BY <1>3, <2>2, Popped DEF handle_link_unavailable
      <3>2. NextInterval \in Nat
        BY DEF NextInterval, ThisInterval, TypeOK
      <3>3. retryInterval' \in {retryInterval, NextInterval}
            /\ timer' \in {timer, TRUE}
        BY <1>3, <2>2 DEF handle_link_unavailable
      <3>4. retryInterval' \in Nat /\ timer' \in BOOLEAN
        BY <3>2, <3>3 DEF TypeOK
      <3>5. UNCHANGED <<state, deleted, known, clInfo, contact, conn, closing,
                        accepting, aborted, downReason>>
        BY <1>3, <2>2 DEF handle_link_unavailable
      <3> QED
        BY <3>1, <3>4, <3>5 DEF TypeOK
    <2> QED
      BY <2>1, <2>2
  <1>4. CASE RequestDropped
    BY <1>4, Popped DEF RequestDropped, TypeOK
  <1>5. CASE RequestUnavailable
    <2>1. LinkEvent("LINK_UNAVAILABLE", Head(eventq).reason) \in Event
      BY <1>5, Popped, EventsTyped DEF RequestUnavailable, Request, EventTypes
    <2>2. eventq' \in Seq(Event)
      BY <1>5, <2>1, Popped, ConsFacts DEF RequestUnavailable, Request
    <2> QED
      BY <1>5, <2>2, Popped DEF RequestUnavailable, Request, TypeOK
  <1>6. CASE RequestAvailable
    <2>1. LinkEvent("LINK_AVAILABLE", Head(eventq).reason) \in Event
      BY <1>6, Popped, EventsTyped DEF RequestAvailable, Request, EventTypes
    <2>2. eventq' \in Seq(Event)
      BY <1>6, <2>1, Popped, ConsFacts DEF RequestAvailable, Request
    <2> QED
      BY <1>6, <2>2 DEF RequestAvailable, TypeOK
  <1>7. CASE RequestOpen
    <2>1. state' \in LinkStates /\ contact' \in ContactOrNone
          /\ conn' \in [Contacts -> ConnStates]
      BY <1>7, OpenLinkTyped DEF RequestOpen, TypeOK
    <2> QED
      BY <1>7, <2>1, Popped DEF RequestOpen, Request, TypeOK
  <1>8. CASE RequestClosed
    <2>1. ContactEvent("CONTACT_DOWN", Head(eventq).reason, contact) \in Event
      BY <1>8, Popped, EventsTyped
      DEF RequestClosed, Request, EventTypes, TypeOK
    <2>2. eventq' \in Seq(Event)
      BY <1>8, <2>1, Popped, ConsFacts DEF RequestClosed, Request
    <2> QED
      BY <1>8, <2>2, Popped DEF RequestClosed, Request, TypeOK
  <1>9. CASE CloseCompleted
    <2>1. CASE closing = "IDLE"
      BY <1>9, <2>1 DEF CloseCompleted, StateOnceClosed, TypeOK, ContactOrNone
    <2>2. CASE closing # "IDLE"
      <3>1. closing \in Reasons
        BY <1>9 DEF CloseCompleted, TypeOK
      <3>2. LinkEvent("LINK_UNAVAILABLE", closing) \in Event
        BY <3>1, EventsTyped DEF EventTypes
      <3>3. eventq' \in Seq(Event)
        BY <1>9, <2>2, <3>2, ConsFacts DEF CloseCompleted, TypeOK
      <3> QED
        BY <1>9, <2>2, <3>1, <3>3
        DEF CloseCompleted, StateOnceClosed, TypeOK, ContactOrNone
    <2> QED
      BY <2>1, <2>2
  <1>10. CASE handle_contact_up
    BY <1>10, Popped DEF handle_contact_up, TypeOK
  <1>11. CASE handle_contact_down
    BY <1>11, Popped DEF handle_contact_down, Fails, TypeOK
  <1>12. CASE handle_link_delete
    <2>1. CASE deleted \/ ~known
      <3>1. /\ eventq' = Tail(eventq)
            /\ UNCHANGED <<state, deleted, known, clInfo, contact, conn, timer,
                           retryInterval, closing, accepting, aborted,
                           downReason>>
        BY <1>12, <2>1 DEF handle_link_delete
      <3> QED
        BY <1>12, <3>1, Popped DEF handle_link_delete, TypeOK
    <2>2. CASE /\ ~(deleted \/ ~known)
               /\ ~isopen /\ ~isopening /\ contact # NoContact
      <3>1. Fails("cl_delete_link")
        BY <1>12, <2>2 DEF handle_link_delete
      <3> QED
        BY <3>1 DEF Fails, TypeOK
    <2>3. CASE /\ ~(deleted \/ ~known)
               /\ isopen \/ isopening \/ contact = NoContact
      <3> DEFINE q == IF ClosesOnDelete
                      THEN post(Tail(eventq),
                                LinkStateChangeRequest("CLOSED", "NO_INFO"))
                      ELSE Tail(eventq)
      <3>1. /\ deleted' = TRUE
            /\ known' = FALSE
            /\ timer' = FALSE
            /\ clInfo' = (isopen \/ isopening)
            /\ eventq' = post(q, LinkEvent("LINK_DELETED", "NO_INFO"))
            /\ UNCHANGED <<state, contact, conn, retryInterval, closing,
                           accepting, aborted, downReason>>
        BY <1>12, <2>3 DEF handle_link_delete
      <3>2. /\ Tail(eventq) \in Seq(Event)
            /\ LinkStateChangeRequest("CLOSED", "NO_INFO") \in Event
            /\ LinkEvent("LINK_DELETED", "NO_INFO") \in Event
        BY <1>12, Popped, EventsTyped DEF handle_link_delete, EventTypes
      <3>3. q \in Seq(Event)
        BY <3>2, AppendFacts
      <3>4. eventq' \in Seq(Event)
        BY <3>1, <3>2, <3>3, AppendFacts
      <3> QED
        BY <3>1, <3>4 DEF TypeOK, isopen, isopening
    <2> QED
      BY <2>1, <2>2, <2>3
  <1>13. CASE handle_link_deleted
    BY <1>13, Popped DEF handle_link_deleted, TypeOK
  <1>14. CASE handle_bundle
    BY <1>14, Popped, ForwardTyped DEF handle_bundle, TypeOK
  <1> QED
    BY <1>1, <1>2, <1>3, <1>4, <1>5, <1>6, <1>7, <1>8, <1>9, <1>10, <1>11,
       <1>12, <1>13, <1>14 DEF Daemon

\* So do the connection threads, the inbound connections, the retry timer and
\* the requests of other threads.
LEMMA OthersTyped ==
    ASSUME TypeOK, \/ reopen_link
                   \/ \E c \in Contacts : Connection(c)
                   \/ FindIdleLink
                   \/ AttachContact
                   \/ Environment
    PROVE  TypeOK'
  <1> USE DEF LinkStates, ConnStates, Reasons, AssertSites
  <1>1. ASSUME NEW s \in {"OPEN", "CLOSED", "AVAILABLE", "UNAVAILABLE"},
               NEW r \in Reasons
        PROVE  post(eventq, LinkStateChangeRequest(s, r)) \in Seq(Event)
    <2>1. LinkStateChangeRequest(s, r) \in Event
      BY EventsTyped
    <2> QED
      BY <2>1, AppendFacts DEF TypeOK
  <1>2. CASE reopen_link
    <2>1. eventq' \in Seq(Event)
      BY <1>2, <1>1 DEF reopen_link, TypeOK
    <2> QED
      BY <1>2, <2>1 DEF reopen_link, TypeOK
  <1>3. CASE FindIdleLink
    BY <1>3 DEF FindIdleLink, TypeOK
  <1>4. CASE AttachContact
    <2>1. CASE NotIdle
      BY <1>4, <2>1 DEF AttachContact, Fails, TypeOK
    <2>2. CASE ~NotIdle
      <3>1. PICK c \in Contacts :
                /\ contact' = c
                /\ conn' = [conn EXCEPT ![c] = "accepted"]
                /\ accepting' = FALSE
                /\ UNCHANGED <<state, deleted, known, clInfo, eventq, timer,
                               retryInterval, closing, aborted, downReason>>
        BY <1>4, <2>2 DEF AttachContact, Unreferenced
      <3>2. conn' \in [Contacts -> ConnStates] /\ contact' \in ContactOrNone
        BY <3>1 DEF ContactOrNone, TypeOK
      <3>3. accepting' \in BOOLEAN
        BY <3>1
      <3>4. UNCHANGED <<state, deleted, known, clInfo, eventq, timer,
                        retryInterval, closing, aborted, downReason>>
        BY <3>1
      <3> QED
        BY <3>2, <3>3, <3>4 DEF TypeOK
    <2> QED
      BY <2>1, <2>2
  <1>5. ASSUME NEW c \in Contacts, NEW r \in Reasons, break_contact(c, r)
        PROVE  TypeOK'
    <2>1. eventq' \in Seq(Event)
      BY <1>5, <1>1 DEF break_contact, TypeOK
    <2> QED
      BY <1>5, <2>1 DEF break_contact, TypeOK
  <1>6. ASSUME NEW c \in Contacts, contact_up(c)
        PROVE  TypeOK'
    <2>1. ContactEvent("CONTACT_UP", "NO_INFO", c) \in Event
      BY EventsTyped DEF EventTypes, ContactOrNone
    <2>2. eventq' \in Seq(Event)
      BY <1>6, <2>1, AppendFacts DEF contact_up, TypeOK
    <2> QED
      BY <1>6, <2>2 DEF contact_up, TypeOK
  <1>7. ASSUME NEW c \in Contacts, Connection(c)
        PROVE  TypeOK'
    BY <1>5, <1>6, <1>7
    DEF Connection, ConnectionBroken, ConnectionIdle, process_command
  <1>8. ASSUME NEW cmd, NEW e, Requests(cmd, e),
               post(eventq, e) \in Seq(Event)
        PROVE  TypeOK'
    BY <1>8 DEF Requests, TypeOK
  <1>9. ASSUME NEW t \in EventTypes, NEW r \in Reasons
        PROVE  post(eventq, LinkEvent(t, r)) \in Seq(Event)
    <2>1. LinkEvent(t, r) \in Event
      BY EventsTyped
    <2> QED
      BY <2>1, AppendFacts DEF TypeOK
  <1>10. CASE Environment
    <2>1. CASE UserOpen \/ UserClose \/ UserSetAvailable \/ UserSetUnavailable
               \/ handle_neighbor_discovered \/ handle_missing_beacon
      BY <1>1, <1>8, <2>1
      DEF UserOpen, UserClose, UserSetAvailable, UserSetUnavailable,
          handle_neighbor_discovered, handle_missing_beacon
    <2>2. CASE UserDelete \/ BundleArrives
      BY <1>8, <1>9, <2>2 DEF UserDelete, BundleArrives, EventTypes
    <2> QED
      BY <1>10, <2>1, <2>2 DEF Environment
  <1> QED
    BY <1>2, <1>3, <1>4, <1>7, <1>10

\* Every step keeps the types.
LEMMA StepTyped == ASSUME TypeOK, [Next]_vars PROVE TypeOK'
  <1>1. CASE Next
    BY <1>1, DaemonTyped, OthersTyped DEF Next
  <1>2. CASE UNCHANGED vars
    BY <1>2 DEF vars, TypeOK
  <1> QED
    BY <1>1, <1>2

\* Every variable keeps its type in every behaviour of the link, whichever of
\* its threads runs: LinkContact's TypeOK is an invariant.
THEOREM TypeCorrect == Spec => []TypeOK
  <1>1. Init => TypeOK
    <2> SUFFICES ASSUME Init PROVE TypeOK
      OBVIOUS
    <2>1. LinkEvent("LINK_CREATED", "NO_INFO") \in Event
      BY DEF LinkEvent, Event, EventTypes, Reasons, ContactOrNone
    <2>2. eventq \in Seq(Event)
      BY <2>1 DEF Init
    <2> QED
      BY <2>2 DEF Init, TypeOK, LinkStates, ConnStates, Reasons, AssertSites,
                  ContactOrNone
  <1>2. TypeOK /\ [Next]_vars => TypeOK'
    BY StepTyped
  <1> QED
    BY <1>1, <1>2, PTL DEF Spec

(***************************************************************************)
(* The event queue as seen by the invariants: which kinds of event it      *)
(* holds, and in which order.                                              *)
(***************************************************************************)
SomeIn(q, S)        == \E i \in 1 .. Len(q) : q[i] \in S
Behind(q, S)        == \E i \in 2 .. Len(q) : q[i] \in S
Preceded(q, S, T)   == \A j \in 1 .. Len(q) : q[j] \in S
                          => \E i \in 1 .. Len(q) : i < j /\ q[i] \in T

Ups(c)       == {e \in Event : e.type = "CONTACT_UP" /\ e.contact = c}
Closes(c)    == {e \in Event : /\ e.type = "LINK_STATE_CHANGE_REQUEST"
                               /\ e.to = "CLOSED"
                               /\ e.contact = c}
Notifications == {e \in Event : e.type = "LINK_UNAVAILABLE"}

\* What popping an event does to the kinds of event queued.
LEMMA TailKinds ==
    ASSUME NEW q \in Seq(Event), q # <<>>, NEW S, NEW T
    PROVE  /\ SomeIn(Tail(q), S) => SomeIn(q, S)
           /\ SomeIn(Tail(q), S) => Behind(q, S)
           /\ SomeIn(q, S) /\ Head(q) \notin S => SomeIn(Tail(q), S)
           /\ Behind(Tail(q), S) => Behind(q, S)
           /\ Preceded(q, S, T) /\ Head(q) \notin T => Preceded(Tail(q), S, T)
           /\ Preceded(q, S, T) => Head(q) \notin S
  <1> DEFINE t == Tail(q)
  <1>1. /\ Len(t) = Len(q) - 1
        /\ Len(q) \in Nat
        /\ Head(q) = q[1]
        /\ 1 \in 1 .. Len(q)
        /\ \A i \in 1 .. Len(t) : i + 1 \in 1 .. Len(q) /\ t[i] = q[i + 1]
    BY TailFacts
  <1>2. \A i \in 2 .. Len(q) : i - 1 \in 1 .. Len(t) /\ t[i - 1] = q[i]
    BY <1>1
  <1> HIDE DEF t
  <1>3. SomeIn(t, S) => SomeIn(q, S) /\ Behind(q, S)
    BY <1>1 DEF SomeIn, Behind
  <1>4. SomeIn(q, S) /\ Head(q) \notin S => SomeIn(t, S)
    BY <1>1, <1>2 DEF SomeIn
  <1>5. Behind(t, S) => Behind(q, S)
    BY <1>1 DEF Behind
  <1>6. ASSUME Preceded(q, S, T), Head(q) \notin T
        PROVE  Preceded(t, S, T)
    <2> SUFFICES ASSUME NEW j \in 1 .. Len(t), t[j] \in S
                 PROVE  \E i \in 1 .. Len(t) : i < j /\ t[i] \in T
      BY DEF Preceded
    <2>1. j + 1 \in 1 .. Len(q) /\ q[j + 1] \in S
      BY <1>1
    <2>2. PICK i \in 1 .. Len(q) : i < j + 1 /\ q[i] \in T
      BY <1>6, <2>1 DEF Preceded
    <2>3. i \in 2 .. Len(q)
      BY <1>1, <1>6, <2>2
    <2> QED
      BY <1>2, <2>2, <2>3
  <1>7. Preceded(q, S, T) => Head(q) \notin S
    BY <1>1 DEF Preceded
  <1> QED
    BY <1>3, <1>4, <1>5, <1>6, <1>7 DEF t

\* What posting an event does to the kinds of event queued.
LEMMA AppendKinds ==
    ASSUME NEW q \in Seq(Event), NEW e \in Event, NEW S, NEW T
    PROVE  /\ SomeIn(post(q, e), S) <=> SomeIn(q, S) \/ e \in S
           /\ Behind(post(q, e), S) => Behind(q, S) \/ e \in S
           /\ Preceded(q, S, T) /\ (e \in S => SomeIn(q, T))
                 => Preceded(post(q, e), S, T)
  <1> DEFINE p == post(q, e)
  <1>1. /\ Len(p) = Len(q) + 1
        /\ Len(q) \in Nat
        /\ p[Len(q) + 1] = e
        /\ \A i \in 1 .. Len(q) : p[i] = q[i]
    BY DEF post
  <1> HIDE DEF p
  <1>2. SomeIn(p, S) <=> SomeIn(q, S) \/ e \in S
    BY <1>1 DEF SomeIn
  <1>3. Behind(p, S) => Behind(q, S) \/ e \in S
    BY <1>1 DEF Behind
  <1>4. ASSUME Preceded(q, S, T), e \in S => SomeIn(q, T)
        PROVE  Preceded(p, S, T)
    BY <1>1, <1>4 DEF Preceded, SomeIn
  <1> QED
    BY <1>2, <1>3, <1>4 DEF p

\* What posting an event at the head does to the kinds of event queued.
LEMMA ConsKinds ==
    ASSUME NEW q \in Seq(Event), NEW e \in Event, NEW S, NEW T
    PROVE  /\ SomeIn(post_at_head(q, e), S) <=> SomeIn(q, S) \/ e \in S
           /\ Behind(post_at_head(q, e), S) <=> SomeIn(q, S)
           /\ Preceded(q, S, T) /\ e \notin S
                 => Preceded(post_at_head(q, e), S, T)
  <1> DEFINE p == post_at_head(q, e)
  <1>1. /\ Len(p) = Len(q) + 1
        /\ Len(q) \in Nat
        /\ p[1] = e
        /\ \A i \in 2 .. Len(p) : i - 1 \in 1 .. Len(q) /\ p[i] = q[i - 1]
    BY DEF post_at_head
  <1>2. \A i \in 1 .. Len(q) : i + 1 \in 2 .. Len(p) /\ p[i + 1] = q[i]
    BY <1>1
  <1> HIDE DEF p
  <1>3. SomeIn(p, S) <=> SomeIn(q, S) \/ e \in S
    <2>1. 1 \in 1 .. Len(p)
      BY <1>1
    <2>2. \A i \in 1 .. Len(p) : i = 1 \/ i \in 2 .. Len(p)
      BY <1>1
    <2>3. \A i \in 2 .. Len(p) : i \in 1 .. Len(p)
      BY <1>1
    <2> QED
      BY <1>1, <1>2, <2>1, <2>2, <2>3 DEF SomeIn
  <1>4. Behind(p, S) <=> SomeIn(q, S)
    BY <1>1, <1>2 DEF SomeIn, Behind
  <1>5. ASSUME Preceded(q, S, T), e \notin S
        PROVE  Preceded(p, S, T)
    <2> SUFFICES ASSUME NEW j \in 1 .. Len(p), p[j] \in S
                 PROVE  \E i \in 1 .. Len(p) : i < j /\ p[i] \in T
      BY DEF Preceded
    <2>1. j \in 2 .. Len(p)
      BY <1>1, <1>5
    <2>2. j - 1 \in 1 .. Len(q) /\ q[j - 1] \in S
      BY <1>1, <2>1
    <2>3. PICK i \in 1 .. Len(q) : i < j - 1 /\ q[i] \in T
      BY <1>5, <2>2 DEF Preceded
    <2> QED
      BY <1>1, <1>2, <2>3
  <1> QED
    BY <1>3, <1>4, <1>5 DEF p

(***************************************************************************)
(* The kinds of step. The invariants concern the link's state, its         *)
(* contact, the connection threads, deletion, a close under way and the    *)
(* event queue; every step of Next changes these in one of twelve ways.    *)
(***************************************************************************)
Serving  == isopen \/ isopening
Attached == contact # NoContact
linkVars == <<state, contact, conn, deleted, closing>>

\* Events that neither bring a contact up, nor close it, nor notify of a close.
PlainEvents == {e \in Event :
    /\ e.type \notin {"CONTACT_UP", "LINK_UNAVAILABLE"}
    /\ e.type = "LINK_STATE_CHANGE_REQUEST" => e.to # "CLOSED"}

\* A queue to which at most one plain event has been added, at either end.
Extends(q, q2) ==
    \/ q2 = q
    \/ \E e \in PlainEvents : q2 = post(q, e) \/ q2 = post_at_head(q, e)

\* A thread that is not the daemon's posts a plain event, or nothing happens.
Stays == /\ UNCHANGED linkVars
         /\ \/ eventq' = eventq
            \/ \E e \in PlainEvents : eventq' = post(eventq, e)
\* A request to close the contact of a link that is open, or, when the console
\* makes it, opening.
AsksClose == /\ UNCHANGED linkVars
             /\ Serving
             /\ isopen \/ "close" \in Commands
             /\ \E e \in Closes(contact) : eventq' = post(eventq, e)
\* The daemon handles an event and leaves the link alone.
Pops == /\ UNCHANGED linkVars
        /\ closing = "no"
        /\ eventq # <<>>
        /\ Head(eventq) \in Ups(contact) => deleted
        /\ Head(eventq) \in Closes(contact) => ~Serving
        /\ Extends(Tail(eventq), eventq')
\* The daemon, while it handles a plain event, opens the link ...
Opens == /\ contact = NoContact
         /\ closing = "no"
         /\ ~deleted
         /\ eventq # <<>>
         /\ Head(eventq) \in PlainEvents
         /\ Extends(Tail(eventq), eventq')
         /\ state' = "OPENING"
         /\ \E c \in Unreferenced : /\ contact' = c
                                    /\ conn' = [conn EXCEPT ![c] = "connecting"]
         /\ UNCHANGED <<deleted, closing>>
\* ... or makes it available or unavailable.
Toggles == /\ {state, state'} \subseteq {"AVAILABLE", "UNAVAILABLE"}
           /\ UNCHANGED <<contact, conn, deleted, closing>>
           /\ closing = "no"
           /\ eventq # <<>>
           /\ Head(eventq) \in PlainEvents
           /\ \/ Extends(Tail(eventq), eventq')
              \/ /\ state' = "UNAVAILABLE"
                 /\ \E e \in Notifications :
                       eventq' = post_at_head(Tail(eventq), e)
\* The daemon begins to close the contact and waits for its thread.
BeginsClose == /\ closing = "no"
               /\ closing' # "no"
               /\ Serving
               /\ eventq # <<>>
               /\ Head(eventq) \in Closes(contact)
               /\ Extends(Tail(eventq), eventq')
               /\ UNCHANGED <<state, contact, conn, deleted>>
\* The contact's thread has ended and the contact is gone.
EndsClose == /\ closing # "no"
             /\ closing' = "no"
             /\ contact' = NoContact
             /\ conn' = [conn EXCEPT ![contact] = "none"]
             /\ UNCHANGED deleted
             /\ \/ state' = "AVAILABLE" /\ eventq' = eventq
                \/ /\ state' = "UNAVAILABLE"
                   /\ \E e \in Notifications : eventq' = post_at_head(eventq, e)
\* The contact's ContactUpEvent makes the link OPEN.
GoesUp == /\ closing = "no"
          /\ eventq # <<>>
          /\ Head(eventq) \in Ups(contact)
          /\ state' = "OPEN"
          /\ eventq' = Tail(eventq)
          /\ UNCHANGED <<contact, conn, deleted, closing>>
\* The link is deleted, and a close requested if it has a contact.
Deletes == /\ closing = "no"
           /\ eventq # <<>>
           /\ Head(eventq) \in PlainEvents
           /\ ~Serving => contact = NoContact
           /\ deleted'
           /\ UNCHANGED <<state, contact, conn, closing>>
           /\ \E e \in PlainEvents :
                 \/ eventq' = post(Tail(eventq), e)
                 \/ \E r \in Closes(contact) :
                       eventq' = post(post(Tail(eventq), r), e)
\* An inbound connection gives an idle link its contact.
Attaches == /\ contact = NoContact
            /\ ~deleted
            /\ \E c \in Unreferenced : /\ contact' = c
                                       /\ conn' = [conn EXCEPT ![c] = "accepted"]
            /\ UNCHANGED <<state, deleted, closing, eventq>>
\* A connection is established ...
ComesUp(c) == /\ conn[c] \in {"connecting", "accepted"}
              /\ conn' = [conn EXCEPT ![c] = "up"]
              /\ \E e \in Ups(c) : eventq' = post(eventq, e)
              /\ UNCHANGED <<state, contact, deleted, closing>>
\* ... or ends, and says so unless it was told to.
Breaks(c) == /\ conn[c] \in {"connecting", "up"}
             /\ conn' = [conn EXCEPT ![c] = "broken"]
             /\ \/ \E e \in Closes(contact) : eventq' = post(eventq, e)
                \/ eventq' = eventq /\ closing # "no"
             /\ UNCHANGED <<state, contact, deleted, closing>>

Kinds == \/ Stays \/ AsksClose \/ Pops \/ Opens \/ Toggles \/ BeginsClose
         \/ EndsClose \/ GoesUp \/ Deletes \/ Attaches
         \/ \E c \in Contacts : ComesUp(c) \/ Breaks(c)

\* What a handler of the daemon thread finds, in terms of the kinds of event.
LEMMA HeadKind ==
    ASSUME TypeOK, NEW t, Handles(t)
    PROVE  /\ closing = "no"
           /\ eventq # <<>>
           /\ Head(eventq) \in Event
           /\ Head(eventq).type = t
           /\ Head(eventq).contact \in ContactOrNone
           /\ t \notin {"CONTACT_UP", "LINK_UNAVAILABLE",
                         "LINK_STATE_CHANGE_REQUEST"}
                 => Head(eventq) \in PlainEvents
  BY Popped DEF Handles, PlainEvents

\* Opening the link, or not, while a plain event is handled.
LEMMA OpenKind ==
    ASSUME TypeOK, NEW s, open_link(s), closing = "no", eventq # <<>>,
           Head(eventq) \in PlainEvents, Extends(Tail(eventq), eventq'),
           UNCHANGED <<deleted, closing>>
    PROVE  Opens \/ (state' = s /\ UNCHANGED <<contact, conn>>)
  BY DEF open_link, MayOpen, Opens

\* The router opens the link, or not, while a plain event is handled.
LEMMA ForwardKind ==
    ASSUME TypeOK, fwd_to_nexthop, closing = "no", eventq # <<>>,
           Head(eventq) \in PlainEvents, Extends(Tail(eventq), eventq'),
           UNCHANGED <<deleted, closing>>
    PROVE  Opens \/ Pops
  <1>1. Opens \/ UNCHANGED <<state, contact, conn>>
    BY OpenKind DEF fwd_to_nexthop
  <1>2. Head(eventq) \notin Ups(contact) /\ Head(eventq) \notin Closes(contact)
    BY DEF PlainEvents, Ups, Closes
  <1> QED
    BY <1>1, <1>2 DEF Pops, linkVars

\* A daemon step that pops a plain event and touches nothing else.
LEMMA PopKind ==
    ASSUME TypeOK, closing = "no", eventq # <<>>, Head(eventq) \in PlainEvents,
           UNCHANGED linkVars, Extends(Tail(eventq), eventq')
    PROVE  Pops
  BY DEF PlainEvents, Ups, Closes, Pops

\* The daemon thread's steps are of the twelve kinds.
LEMMA DaemonKinds == ASSUME TypeOK, Daemon PROVE Kinds
  <1> USE DEF Kinds
  <1>1. CASE handle_link_created
    <2>1. /\ closing = "no"
          /\ eventq # <<>>
          /\ Head(eventq) \in PlainEvents
      BY <1>1, HeadKind DEF handle_link_created
    <2>2. CASE deleted
      BY <1>1, <2>1, <2>2, PopKind
      DEF handle_link_created, linkVars, Extends
    <2>3. CASE ~deleted
      <3>1. contact' \in ContactOrNone
        BY <1>1, <2>3, ForwardTyped DEF handle_link_created
      <3>2. [LinkStateChangeRequest("OPEN", "USER") EXCEPT !.contact = contact']
               \in PlainEvents
        BY <3>1 DEF PlainEvents, LinkStateChangeRequest, Event, EventTypes,
                    LinkStates, Reasons
      <3>3. LinkEvent("LINK_AVAILABLE", "NO_INFO") \in PlainEvents
        BY EventsTyped DEF PlainEvents, LinkEvent, EventTypes, Reasons
      <3>4. eventq' \in {Tail(eventq),
               post_at_head(Tail(eventq),
                            [LinkStateChangeRequest("OPEN", "USER")
                                EXCEPT !.contact = contact']),
               post(Tail(eventq), LinkEvent("LINK_AVAILABLE", "NO_INFO"))}
        BY <1>1, <2>3, ConstantsAssumption DEF handle_link_created, LinkTypes
      <3>5. Extends(Tail(eventq), eventq')
        BY <3>2, <3>3, <3>4 DEF Extends
      <3>6. fwd_to_nexthop /\ UNCHANGED <<deleted, closing>>
        BY <1>1, <2>3 DEF handle_link_created
      <3> QED
        BY <2>1, <3>5, <3>6, ForwardKind
    <2> QED
      BY <2>2, <2>3
  <1>2. CASE handle_link_available
    <2>1. CASE ~isavailable
      BY <1>2, <2>1 DEF handle_link_available, Fails, Stays, linkVars
    <2>2. CASE isavailable
      <3>1. /\ closing = "no"
            /\ eventq # <<>>
            /\ Head(eventq) \in PlainEvents
        BY <1>2, HeadKind DEF handle_link_available
      <3>2. /\ Extends(Tail(eventq), eventq')
            /\ UNCHANGED <<deleted, closing>>
        BY <1>2, <2>2 DEF handle_link_available, Extends
      <3>3. fwd_to_nexthop
        BY <1>2, <2>2 DEF handle_link_available, fwd_to_nexthop
      <3> QED
        BY <3>1, <3>2, <3>3, ForwardKind
    <2> QED
      BY <2>1, <2>2
  <1>3. CASE handle_link_unavailable
    <2>1. CASE isavailable
      BY <1>3, <2>1 DEF handle_link_unavailable, Fails, Stays, linkVars
    <2>2. CASE ~isavailable
      <3>1. /\ closing = "no"
            /\ eventq # <<>>
            /\ Head(eventq) \notin Ups(contact)
            /\ Head(eventq) \notin Closes(contact)
        BY <1>3, HeadKind DEF handle_link_unavailable, Ups, Closes
      <3> QED
        BY <1>3, <2>2, <3>1
        DEF handle_link_unavailable, Pops, linkVars, Extends
    <2> QED
      BY <2>1, <2>2
  <1>4. ASSUME NEW s, Request(s)
        PROVE  /\ closing = "no"
               /\ eventq # <<>>
               /\ Head(eventq) \in Event
               /\ Head(eventq) \notin Ups(contact)
               /\ s # "CLOSED" => Head(eventq) \in PlainEvents
    BY <1>4, HeadKind DEF Request, PlainEvents, Ups
  <1>5. CASE RequestDropped
    <2>1. /\ closing = "no"
          /\ eventq # <<>>
          /\ Head(eventq) \notin Ups(contact)
          /\ Head(eventq).type = "LINK_STATE_CHANGE_REQUEST"
      BY <1>5, HeadKind DEF RequestDropped, Ups
    <2>2. Head(eventq) \in Closes(contact) => ~Serving
      BY <1>5 DEF RequestDropped, Stale, Closes, Serving
    <2> QED
      BY <1>5, <2>1, <2>2 DEF RequestDropped, Pops, linkVars, Extends
  <1>6. CASE RequestUnavailable
    <2>1. LinkEvent("LINK_UNAVAILABLE", Head(eventq).reason) \in Notifications
      BY <1>6, Popped, EventsTyped
      DEF RequestUnavailable, Request, EventTypes, LinkEvent, Notifications
    <2>2. /\ closing = "no"
          /\ eventq # <<>>
          /\ Head(eventq) \in PlainEvents
      BY <1>6, <1>4 DEF RequestUnavailable
    <2> QED
      BY <1>6, <2>1, <2>2 DEF RequestUnavailable, Toggles
  <1>7. CASE RequestAvailable
    <2>1. LinkEvent("LINK_AVAILABLE", Head(eventq).reason) \in PlainEvents
      BY <1>7, Popped, EventsTyped
      DEF RequestAvailable, Request, EventTypes, LinkEvent, PlainEvents
    <2>2. /\ closing = "no"
          /\ eventq # <<>>
          /\ Head(eventq) \in PlainEvents
      BY <1>7, <1>4 DEF RequestAvailable
    <2> QED
      BY <1>7, <2>1, <2>2 DEF RequestAvailable, Toggles, Extends
  <1>8. CASE RequestOpen
    <2>1. /\ closing = "no"
          /\ eventq # <<>>
          /\ Head(eventq) \in PlainEvents
      BY <1>8, <1>4 DEF RequestOpen
    <2>2. /\ Extends(Tail(eventq), eventq')
          /\ UNCHANGED <<deleted, closing>>
      BY <1>8 DEF RequestOpen, Extends
    <2>3. Opens \/ (/\ state' = IF state = "UNAVAILABLE" THEN "AVAILABLE"
                                                         ELSE state
                    /\ UNCHANGED <<contact, conn>>)
      BY <1>8, <2>1, <2>2, OpenKind DEF RequestOpen
    <2>4. CASE state \in {"AVAILABLE", "UNAVAILABLE"}
      BY <2>1, <2>2, <2>3, <2>4 DEF Toggles
    <2>5. CASE state \notin {"AVAILABLE", "UNAVAILABLE"}
      BY <2>1, <2>2, <2>3, <2>5, PopKind DEF linkVars
    <2> QED
      BY <2>4, <2>5
  <1>9. CASE RequestClosed
    <2>1. ContactEvent("CONTACT_DOWN", Head(eventq).reason, contact)
             \in PlainEvents
      BY <1>9, Popped, EventsTyped
      DEF RequestClosed, Request, EventTypes, ContactEvent, PlainEvents, TypeOK
    <2>2. /\ closing = "no"
          /\ eventq # <<>>
          /\ Head(eventq) \in Event
      BY <1>9, <1>4 DEF RequestClosed
    <2>3. Head(eventq) \in Closes(contact)
      BY <1>9, <2>2 DEF RequestClosed, Request, Handles, Stale, Closes
    <2>4. closing' # "no"
      BY <1>9, Popped DEF RequestClosed, Request, Reasons
    <2> QED
      BY <1>9, <2>1, <2>2, <2>3, <2>4
      DEF RequestClosed, BeginsClose, Extends, Serving
  <1>10. CASE CloseCompleted
    <2>1. closing # "IDLE" =>
             LinkEvent("LINK_UNAVAILABLE", closing) \in Notifications
      BY <1>10, EventsTyped
      DEF CloseCompleted, TypeOK, LinkEvent, Notifications, EventTypes
    <2> QED
      BY <1>10, <2>1 DEF CloseCompleted, StateOnceClosed, EndsClose
  <1>11. CASE handle_contact_up
    <2>1. /\ closing = "no"
          /\ eventq # <<>>
          /\ Head(eventq) \in Event
          /\ Head(eventq).type = "CONTACT_UP"
      BY <1>11, HeadKind DEF handle_contact_up
    <2>2. CASE ~deleted /\ contact = Head(eventq).contact
      <3>1. Head(eventq) \in Ups(contact)
        BY <2>1, <2>2 DEF Ups
      <3> QED
        BY <1>11, <2>1, <2>2, <3>1 DEF handle_contact_up, IsCurrent, GoesUp
    <2>3. CASE ~(~deleted /\ contact = Head(eventq).contact)
      <3>1. Head(eventq) \in Ups(contact) => deleted
        BY <2>3 DEF Ups
      <3>2. Head(eventq) \notin Closes(contact)
        BY <2>1 DEF Closes
      <3>3. UNCHANGED linkVars
        BY <1>11, <2>3 DEF handle_contact_up, IsCurrent, linkVars
      <3> QED
        BY <1>11, <2>1, <3>1, <3>2, <3>3
        DEF handle_contact_up, Pops, Extends
    <2> QED
      BY <2>2, <2>3
  <1>12. CASE handle_contact_down
    <2>1. CASE deleted
      BY <1>12, <2>1 DEF handle_contact_down, Fails, Stays, linkVars
    <2>2. CASE ~deleted
      BY <1>12, <2>2, HeadKind, PopKind
      DEF handle_contact_down, linkVars, Extends
    <2> QED
      BY <2>1, <2>2
  <1>13. CASE handle_link_delete
    <2>1. /\ closing = "no"
          /\ eventq # <<>>
          /\ Head(eventq) \in PlainEvents
      BY <1>13, HeadKind DEF handle_link_delete
    <2>2. CASE deleted \/ ~known
      BY <1>13, <2>1, <2>2, PopKind DEF handle_link_delete, linkVars, Extends
    <2>3. CASE /\ ~(deleted \/ ~known)
               /\ ~isopen /\ ~isopening /\ contact # NoContact
      BY <1>13, <2>3 DEF handle_link_delete, Fails, Stays, linkVars
    <2>4. CASE /\ ~(deleted \/ ~known)
               /\ isopen \/ isopening \/ contact = NoContact
      <3>1. LinkEvent("LINK_DELETED", "NO_INFO") \in PlainEvents
        BY EventsTyped DEF LinkEvent, PlainEvents, EventTypes, Reasons
      <3>2. LinkStateChangeRequest("CLOSED", "NO_INFO") \in Closes(contact)
        BY EventsTyped
        DEF LinkStateChangeRequest, Closes, EventTypes, Reasons, LinkStates
      <3>3. /\ deleted'
            /\ UNCHANGED <<state, contact, conn, closing>>
            /\ eventq' = post(IF ClosesOnDelete
                        THEN post(Tail(eventq),
                                  LinkStateChangeRequest("CLOSED", "NO_INFO"))
                        ELSE Tail(eventq),
                        LinkEvent("LINK_DELETED", "NO_INFO"))
        BY <1>13, <2>4 DEF handle_link_delete
      <3>4. \/ eventq' = post(Tail(eventq), LinkEvent("LINK_DELETED", "NO_INFO"))
            \/ eventq' = post(post(Tail(eventq),
                                   LinkStateChangeRequest("CLOSED", "NO_INFO")),
                              LinkEvent("LINK_DELETED", "NO_INFO"))
        BY <3>3
      <3> QED
        BY <2>1, <2>4, <3>1, <3>2, <3>3, <3>4 DEF Deletes, Serving
    <2> QED
      BY <2>2, <2>3, <2>4
  <1>14. CASE handle_link_deleted
    BY <1>14, HeadKind, PopKind DEF handle_link_deleted, linkVars, Extends
  <1>15. CASE handle_bundle
    <2>1. /\ closing = "no"
          /\ eventq # <<>>
          /\ Head(eventq) \in PlainEvents
      BY <1>15, HeadKind DEF handle_bundle
    <2> QED
      BY <1>15, <2>1, ForwardKind DEF handle_bundle, Extends
  <1> QED
    BY <1>1, <1>2, <1>3, <1>5, <1>6, <1>7, <1>8, <1>9, <1>10, <1>11, <1>12,
       <1>13, <1>14, <1>15 DEF Daemon

\* So are the steps of the other threads.
LEMMA OthersKinds ==
    ASSUME TypeOK, \/ reopen_link
                   \/ \E c \in Contacts : Connection(c)
                   \/ FindIdleLink
                   \/ AttachContact
                   \/ Environment
    PROVE  Kinds
  <1> USE DEF Kinds
  <1>1. ASSUME NEW s \in {"OPEN", "AVAILABLE", "UNAVAILABLE"},
               NEW r \in Reasons
        PROVE  LinkStateChangeRequest(s, r) \in PlainEvents
    BY EventsTyped DEF LinkStates, LinkStateChangeRequest, PlainEvents
  <1>2. ASSUME NEW r \in Reasons
        PROVE  LinkStateChangeRequest("CLOSED", r) \in Closes(contact)
    BY EventsTyped DEF LinkStates, LinkStateChangeRequest, Closes
  <1>3. CASE reopen_link
    BY <1>1, <1>3 DEF reopen_link, Stays, linkVars, Reasons
  <1>4. CASE FindIdleLink
    BY <1>4 DEF FindIdleLink, Stays, linkVars
  <1>5. CASE AttachContact
    <2>1. CASE NotIdle
      BY <1>5, <2>1 DEF AttachContact, Fails, Stays, linkVars
    <2>2. CASE ~NotIdle
      BY <1>5, <2>2 DEF AttachContact, NotIdle, Attaches
    <2> QED
      BY <2>1, <2>2
  <1>6. ASSUME NEW c \in Contacts, contact_up(c)
        PROVE  ComesUp(c)
    <2>1. ContactEvent("CONTACT_UP", "NO_INFO", c) \in Ups(c)
      BY EventsTyped DEF ContactEvent, Ups, EventTypes, Reasons, ContactOrNone
    <2> QED
      BY <1>6, <2>1 DEF contact_up, ComesUp
  <1>7. ASSUME NEW c \in Contacts, NEW r \in Reasons, break_contact(c, r),
               r # "USER" \/ closing # "no"
        PROVE  Breaks(c)
    BY <1>2, <1>7 DEF break_contact, Reports, Breaks
  <1>8. ASSUME NEW c \in Contacts, Connection(c)
        PROVE  ComesUp(c) \/ Breaks(c)
    BY <1>6, <1>7, <1>8
    DEF Connection, ConnectionBroken, ConnectionIdle, process_command, Reasons
  <1>9. ASSUME NEW cmd, NEW e \in PlainEvents, Requests(cmd, e)
        PROVE  Stays
    BY <1>9 DEF Requests, Stays, linkVars
  <1>10. ASSUME NEW cmd, NEW e \in Closes(contact), Requests(cmd, e), Serving,
                isopen \/ cmd = "close"
         PROVE  AsksClose
    BY <1>10 DEF Requests, AsksClose, linkVars
  <1>11. CASE Environment
    <2>1. CASE UserOpen \/ UserSetAvailable \/ UserSetUnavailable
               \/ handle_neighbor_discovered
      BY <1>1, <1>9, <2>1
      DEF UserOpen, UserSetAvailable, UserSetUnavailable,
          handle_neighbor_discovered, Reasons
    <2>2. CASE UserClose \/ handle_missing_beacon
      BY <1>2, <1>10, <2>2
      DEF UserClose, handle_missing_beacon, Serving, Reasons
    <2>3. CASE UserDelete \/ BundleArrives
      <3>1. /\ LinkEvent("LINK_DELETE", "USER") \in PlainEvents
            /\ LinkEvent("BUNDLE", "NO_INFO") \in PlainEvents
        BY EventsTyped DEF LinkEvent, PlainEvents, EventTypes, Reasons
      <3> QED
        BY <1>9, <2>3, <3>1 DEF UserDelete, BundleArrives
    <2> QED
      BY <1>11, <2>1, <2>2, <2>3 DEF Environment
  <1> QED
    BY <1>3, <1>4, <1>5, <1>8, <1>11

\* Every step is of one of the kinds.
LEMMA StepKinds == ASSUME TypeOK, [Next]_vars PROVE Kinds
  <1>1. CASE Next
    BY <1>1, DaemonKinds, OthersKinds DEF Next
  <1>2. CASE UNCHANGED vars
    BY <1>2 DEF vars, Kinds, Stays, linkVars
  <1> QED
    BY <1>1, <1>2

(***************************************************************************)
(* One connection, and a served link.                                      *)
(***************************************************************************)

\* OneConnection and OpenIsServed are not inductive by themselves: a
\* ContactUpEvent makes the link OPEN, so none may be queued for a contact
\* that is not up; a contact that is still connecting keeps its link OPENING;
\* and a close under way has a contact to close.
ConnInv ==
    /\ OneConnection
    /\ OpenIsServed
    /\ Attached /\ conn[contact] = "connecting" => isopening
    /\ closing # "no" => Attached
    /\ ~SomeIn(eventq, Ups(NoContact))
    /\ Attached /\ conn[contact] \notin {"up", "broken"}
          => ~SomeIn(eventq, Ups(contact))

\* No event in the queue names a contact that is free to be used.
LEMMA FreeContact ==
    ASSUME TypeOK, NEW c \in Unreferenced
    PROVE  /\ c \in Contacts
           /\ c # NoContact
           /\ ~SomeIn(eventq, Ups(c))
           /\ ~SomeIn(eventq, Closes(c))
  <1>1. DOMAIN eventq = 1 .. Len(eventq)
    BY DEF TypeOK
  <1> QED
    BY <1>1, ConstantsAssumption DEF Unreferenced, SomeIn, Ups, Closes

\* An event of one kind is not of another.
LEMMA KindsDisjoint ==
    ASSUME NEW c, NEW d, NEW e
    PROVE  /\ e \in PlainEvents => /\ e \in Event
                                   /\ e \notin Ups(c)
                                   /\ e \notin Closes(c)
                                   /\ e \notin Notifications
           /\ e \in Notifications => /\ e \in Event
                                     /\ e \notin Ups(c)
                                     /\ e \notin Closes(c)
           /\ e \in Closes(c) => /\ e \in Event
                                 /\ e \notin Ups(d)
                                 /\ e \notin Notifications
           /\ e \in Ups(c) => /\ e \in Event
                              /\ e \notin Closes(d)
                              /\ e \notin Notifications
                              /\ e \in Ups(d) => c = d
  BY DEF PlainEvents, Notifications, Ups, Closes

\* A queue that only got a plain event has the other kinds it had.
LEMMA ExtendsKinds ==
    ASSUME NEW q \in Seq(Event), NEW q2, Extends(q, q2), NEW S, NEW T,
           S \cap PlainEvents = {}
    PROVE  /\ SomeIn(q2, S) <=> SomeIn(q, S)
           /\ Behind(q2, S) => SomeIn(q, S)
           /\ Preceded(q, S, T) => Preceded(q2, S, T)
  <1>1. Behind(q, S) => SomeIn(q, S)
    BY DEF Behind, SomeIn
  <1>2. CASE q2 = q
    BY <1>1, <1>2
  <1>3. ASSUME NEW e \in PlainEvents, q2 = post(q, e)
        PROVE  /\ SomeIn(q2, S) <=> SomeIn(q, S)
               /\ Behind(q2, S) => SomeIn(q, S)
               /\ Preceded(q, S, T) => Preceded(q2, S, T)
    <2>1. e \in Event /\ e \notin S
      BY DEF PlainEvents
    <2> QED
      BY <1>1, <1>3, <2>1, AppendKinds
  <1>4. ASSUME NEW e \in PlainEvents, q2 = post_at_head(q, e)
        PROVE  /\ SomeIn(q2, S) <=> SomeIn(q, S)
               /\ Behind(q2, S) => SomeIn(q, S)
               /\ Preceded(q, S, T) => Preceded(q2, S, T)
    <2>1. e \in Event /\ e \notin S
      BY DEF PlainEvents
    <2> QED
      BY <1>4, <2>1, ConsKinds
  <1> QED
    BY <1>2, <1>3, <1>4 DEF Extends

\* Popping an event and posting a plain one makes no event of another kind.
LEMMA PoppedKinds ==
    ASSUME TypeOK, eventq # <<>>, Extends(Tail(eventq), eventq'), NEW S, NEW T,
           S \cap PlainEvents = {}
    PROVE  /\ SomeIn(eventq', S) => SomeIn(eventq, S)
           /\ SomeIn(eventq, S) /\ Head(eventq) \notin S => SomeIn(eventq', S)
           /\ SomeIn(eventq', S) => Behind(eventq, S)
           /\ Behind(eventq', S) => Behind(eventq, S)
           /\ Preceded(eventq, S, T) /\ Head(eventq) \notin T
                 => Preceded(eventq', S, T)
  <1>1. eventq \in Seq(Event) /\ Tail(eventq) \in Seq(Event)
    BY TailFacts DEF TypeOK
  <1>2. /\ SomeIn(eventq', S) <=> SomeIn(Tail(eventq), S)
        /\ Behind(eventq', S) => SomeIn(Tail(eventq), S)
        /\ Preceded(Tail(eventq), S, T) => Preceded(eventq', S, T)
    BY <1>1, ExtendsKinds
  <1>3. /\ SomeIn(Tail(eventq), S) => SomeIn(eventq, S) /\ Behind(eventq, S)
        /\ SomeIn(eventq, S) /\ Head(eventq) \notin S
              => SomeIn(Tail(eventq), S)
        /\ Preceded(eventq, S, T) /\ Head(eventq) \notin T
              => Preceded(Tail(eventq), S, T)
    BY <1>1, TailKinds
  <1> QED
    BY <1>2, <1>3

\* The special kinds of event are none of them plain.
LEMMA NotPlain ==
    ASSUME NEW c
    PROVE  /\ Ups(c) \cap PlainEvents = {}
           /\ Closes(c) \cap PlainEvents = {}
           /\ Notifications \cap PlainEvents = {}
  BY DEF Ups, Closes, Notifications, PlainEvents

\* The ContactUpEvents queued after a step were queued before it, except the
\* one that an established connection posts.
LEMMA UpsAfter ==
    ASSUME TypeOK, Kinds, NEW c, SomeIn(eventq', Ups(c))
    PROVE  SomeIn(eventq, Ups(c)) \/ (c \in Contacts /\ ComesUp(c))
  <1>1. eventq \in Seq(Event)
    BY DEF TypeOK
  <1>2. ASSUME NEW e \in Event, e \notin Ups(c),
               eventq' = post(eventq, e) \/ eventq' = post_at_head(eventq, e)
        PROVE  SomeIn(eventq, Ups(c))
    BY <1>1, <1>2, AppendKinds, ConsKinds
  <1>3. CASE Stays \/ AsksClose
    BY <1>2, <1>3, KindsDisjoint DEF Stays, AsksClose
  <1>4. CASE eventq # <<>> /\ Extends(Tail(eventq), eventq')
    BY <1>4, PoppedKinds, NotPlain
  <1>5. CASE Pops \/ Opens \/ BeginsClose
    BY <1>4, <1>5 DEF Pops, Opens, BeginsClose
  <1>6. ASSUME eventq # <<>>, NEW e \in Event, e \notin Ups(c),
               eventq' = post(Tail(eventq), e)
                  \/ eventq' = post_at_head(Tail(eventq), e)
        PROVE  SomeIn(eventq, Ups(c))
    <2>1. Tail(eventq) \in Seq(Event)
      BY <1>1, <1>6, TailFacts
    <2>2. /\ SomeIn(post(Tail(eventq), e), Ups(c))
                => SomeIn(Tail(eventq), Ups(c))
          /\ SomeIn(post_at_head(Tail(eventq), e), Ups(c))
                => SomeIn(Tail(eventq), Ups(c))
      BY <1>6, <2>1, AppendKinds, ConsKinds
    <2>3. SomeIn(Tail(eventq), Ups(c))
      BY <1>6, <2>2
    <2> QED
      BY <1>1, <1>6, <2>3, TailKinds
  <1>7. CASE Toggles
    BY <1>4, <1>6, <1>7, KindsDisjoint DEF Toggles
  <1>8. CASE EndsClose
    BY <1>2, <1>8, KindsDisjoint DEF EndsClose
  <1>9. CASE GoesUp
    BY <1>1, <1>9, TailKinds DEF GoesUp
  <1>10. CASE Deletes
    <2>1. eventq # <<>>
      BY <1>10 DEF Deletes
    <2>2. PICK e \in PlainEvents :
             \/ eventq' = post(Tail(eventq), e)
             \/ \E r \in Closes(contact) :
                   eventq' = post(post(Tail(eventq), r), e)
      BY <1>10 DEF Deletes
    <2>3. CASE eventq' = post(Tail(eventq), e)
      BY <1>6, <2>1, <2>3, KindsDisjoint
    <2>4. ASSUME NEW r \in Closes(contact),
                 eventq' = post(post(Tail(eventq), r), e)
          PROVE  SomeIn(eventq, Ups(c))
      <3>1. Tail(eventq) \in Seq(Event) /\ r \in Event /\ r \notin Ups(c)
            /\ e \in Event /\ e \notin Ups(c)
        BY <1>1, <2>1, TailFacts, KindsDisjoint
      <3>2. post(Tail(eventq), r) \in Seq(Event)
        BY <3>1, AppendFacts
      <3>3. SomeIn(post(Tail(eventq), r), Ups(c))
        BY <2>4, <3>1, <3>2, AppendKinds
      <3>4. SomeIn(Tail(eventq), Ups(c))
        BY <3>1, <3>3, AppendKinds
      <3> QED
        BY <1>1, <2>1, <3>4, TailKinds
    <2> QED
      BY <2>2, <2>3, <2>4
  <1>11. CASE Attaches
    BY <1>11 DEF Attaches
  <1>12. ASSUME NEW d \in Contacts, Breaks(d)
         PROVE  SomeIn(eventq, Ups(c))
    BY <1>2, <1>12, KindsDisjoint DEF Breaks
  <1>13. ASSUME NEW d \in Contacts, ComesUp(d), d # c
         PROVE  SomeIn(eventq, Ups(c))
    BY <1>2, <1>13, KindsDisjoint DEF ComesUp
  <1> QED
    BY <1>3, <1>5, <1>7, <1>8, <1>9, <1>10, <1>11, <1>12, <1>13 DEF Kinds

\* Every kind of step keeps ConnInv.
LEMMA ConnStep == ASSUME TypeOK, ConnInv, Kinds PROVE ConnInv'
  <1> DEFINE Conn1 == /\ OneConnection
                      /\ OpenIsServed
                      /\ Attached /\ conn[contact] = "connecting" => isopening
                      /\ closing # "no" => Attached
             Below(c) == conn[c] \notin {"up", "broken"}
  <1>1. /\ conn \in [Contacts -> ConnStates]
        /\ contact \in Contacts \cup {NoContact}
        /\ NoContact \notin Contacts
        /\ state \in LinkStates
        /\ eventq \in Seq(Event)
    BY ConstantsAssumption DEF TypeOK, ContactOrNone
  <1> USE DEF OneConnection, OpenIsServed, Attached, isopen, isopening
  <1>2. ~SomeIn(eventq', Ups(NoContact))
    BY <1>1, UpsAfter DEF ConnInv
  <1>3. ASSUME UNCHANGED <<contact, conn>>,
               state' = state \/ state' \in {"AVAILABLE", "UNAVAILABLE"},
               state' # state => ~Serving,
               closing' = closing \/ Serving
        PROVE  Conn1' /\ (Below(contact)' /\ Attached' =>
                             contact' = contact /\ Below(contact))
    BY <1>3 DEF ConnInv, Serving
  <1>4. CASE Stays \/ AsksClose \/ Pops \/ BeginsClose \/ Deletes \/ Toggles
    <2>1. /\ UNCHANGED <<contact, conn>>
          /\ state' = state \/ state' \in {"AVAILABLE", "UNAVAILABLE"}
          /\ state' # state => ~Serving
          /\ closing' = closing \/ Serving
      BY <1>4 DEF Stays, AsksClose, Pops, BeginsClose, Deletes, Toggles,
                  linkVars, Serving
    <2>2. Conn1' /\ (Below(contact)' /\ Attached' =>
                        contact' = contact /\ Below(contact))
      BY <1>3, <2>1
    <2>3. Below(contact)' /\ Attached' => ~SomeIn(eventq', Ups(contact'))
      <3> SUFFICES ASSUME Below(contact)', Attached',
                          SomeIn(eventq', Ups(contact'))
                   PROVE  FALSE
        OBVIOUS
      <3>1. contact' = contact /\ Below(contact) /\ Attached
        BY <2>2
      <3>2. ~ComesUp(contact)
        BY <1>1, <2>1, <3>1 DEF ComesUp
      <3> QED
        BY <3>1, <3>2, UpsAfter DEF ConnInv
    <2> QED
      BY <1>2, <2>2, <2>3 DEF ConnInv
  <1>5. CASE GoesUp
    <2>1. SomeIn(eventq, Ups(contact))
      <3>1. Head(eventq) = eventq[1] /\ 1 \in 1 .. Len(eventq)
        BY <1>1, <1>5, TailFacts DEF GoesUp
      <3> QED
        BY <1>5, <3>1 DEF GoesUp, SomeIn
    <2>2. contact # NoContact /\ conn[contact] \in {"up", "broken"}
      BY <2>1 DEF ConnInv
    <2>3. Conn1' /\ ~Below(contact)'
      BY <1>5, <2>2 DEF GoesUp, ConnInv
    <2> QED
      BY <1>2, <2>3 DEF ConnInv
  <1>6. ASSUME contact = NoContact,
               NEW c \in Unreferenced, contact' = c,
               \/ state' = "OPENING" /\ conn' = [conn EXCEPT ![c] = "connecting"]
               \/ state' = state /\ conn' = [conn EXCEPT ![c] = "accepted"],
               UNCHANGED closing
        PROVE  ConnInv'
    <2>1. c \in Contacts /\ c # NoContact /\ ~SomeIn(eventq, Ups(c))
      BY <1>6, FreeContact
    <2>2. \A d \in Contacts : conn[d] = "none"
      BY <1>1, <1>6 DEF ConnInv
    <2>3. /\ conn'[c] \in {"connecting", "accepted"}
          /\ \A d \in Contacts : d # c => conn'[d] = "none"
      BY <1>1, <1>6, <2>1, <2>2
    <2>4. state # "OPEN" /\ state # "OPENING"
      BY <1>6 DEF ConnInv
    <2>5. Conn1'
      BY <1>1, <1>6, <2>1, <2>2, <2>3, <2>4 DEF ConnInv
    <2>6. ~SomeIn(eventq', Ups(c))
      <3>1. ~ComesUp(c)
        BY <2>1, <2>2 DEF ComesUp
      <3> QED
        BY <2>1, <3>1, UpsAfter
    <2> QED
      BY <1>2, <1>6, <2>5, <2>6 DEF ConnInv
  <1>7. CASE Opens
    BY <1>6, <1>7 DEF Opens
  <1>8. CASE Attaches
    BY <1>6, <1>8 DEF Attaches
  <1>9. CASE EndsClose
    <2>1. contact \in Contacts
      BY <1>1, <1>9 DEF EndsClose, ConnInv
    <2>2. \A d \in Contacts : conn'[d] = "none"
      BY <1>1, <1>9, <2>1 DEF EndsClose, ConnInv
    <2>3. Conn1'
      BY <1>9, <2>2 DEF EndsClose
    <2> QED
      BY <1>2, <1>9, <2>3 DEF EndsClose, ConnInv
  <1>10. ASSUME NEW c \in Contacts, ComesUp(c) \/ Breaks(c)
         PROVE  ConnInv'
    <2>1. contact = c /\ contact' = c /\ UNCHANGED <<state, closing>>
      BY <1>1, <1>10 DEF ComesUp, Breaks, ConnInv
    <2>2. /\ conn'[c] \in {"up", "broken"}
          /\ \A d \in Contacts : d # c => conn'[d] = conn[d]
      BY <1>1, <1>10 DEF ComesUp, Breaks
    <2>3. Conn1'
      BY <1>1, <2>1, <2>2 DEF ConnInv
    <2> QED
      BY <1>2, <2>1, <2>2, <2>3 DEF ConnInv
  <1> QED
    BY <1>4, <1>5, <1>7, <1>8, <1>9, <1>10 DEF Kinds

\* ConnInv is an invariant.
THEOREM ConnInvariant == Spec => []ConnInv
  <1>1. Init => ConnInv
    <2> SUFFICES ASSUME Init PROVE ConnInv
      OBVIOUS
    <2>1. ~SomeIn(eventq, Ups(NoContact))
      BY DEF Init, SomeIn, Ups, LinkEvent
    <2> QED
      BY <2>1, ConstantsAssumption
      DEF Init, ConnInv, OneConnection, OpenIsServed, Attached, isopen,
          isopening
  <1>2. TypeOK /\ ConnInv /\ [Next]_vars => ConnInv'
    BY StepKinds, ConnStep
  <1> QED
    BY <1>1, <1>2, TypeCorrect, PTL DEF Spec

\* A link has one connection at a time: no connection thread outlives the
\* contact it serves, whatever the console, discovery and peers do.
THEOREM OneConnectionHolds == Spec => []OneConnection
  <1>1. ConnInv => OneConnection
    BY DEF ConnInv
  <1> QED
    BY <1>1, ConnInvariant, PTL

\* "All links in the OPEN state have an associated contact that represents an
\* actual connection", and a link being opened has the contact of the attempt.
THEOREM OpenIsServedHolds == Spec => []OpenIsServed
  <1>1. ConnInv => OpenIsServed
    BY DEF ConnInv
  <1> QED
    BY <1>1, ConnInvariant, PTL

(***************************************************************************)
(* The notification of a close finds the state the close left.             *)
(***************************************************************************)

\* A LinkUnavailableEvent is only ever at the head of the queue, with the link
\* still UNAVAILABLE and no close under way: nothing the other threads post
\* gets between the change of state and its notification.
NotifyInv ==
    /\ ~Behind(eventq, Notifications)
    /\ SomeIn(eventq, Notifications)
          => state = "UNAVAILABLE" /\ closing = "no"

\* Every kind of step keeps NotifyInv.
LEMMA NotifyStep == ASSUME TypeOK, NotifyInv, Kinds PROVE NotifyInv'
  <1> DEFINE N == Notifications
  <1>1. eventq \in Seq(Event)
    BY DEF TypeOK
  <1>2. Behind(eventq, N) = FALSE /\ N \cap PlainEvents = {}
    BY NotPlain DEF NotifyInv, Behind
  <1>3. ASSUME NEW e \in Event, e \notin N, eventq' = post(eventq, e)
        PROVE  /\ ~Behind(eventq', N)
               /\ SomeIn(eventq', N) => SomeIn(eventq, N)
    BY <1>1, <1>2, <1>3, AppendKinds
  <1>4. ASSUME eventq # <<>>, Extends(Tail(eventq), eventq')
        PROVE  ~Behind(eventq', N) /\ ~SomeIn(eventq', N)
    BY <1>2, <1>4, PoppedKinds
  <1>5. CASE Stays \/ AsksClose
    <2>1. UNCHANGED <<state, closing>>
      BY <1>5 DEF Stays, AsksClose, linkVars
    <2>2. /\ ~Behind(eventq', N)
          /\ SomeIn(eventq', N) => SomeIn(eventq, N)
      BY <1>2, <1>3, <1>5, KindsDisjoint DEF Stays, AsksClose
    <2> QED
      BY <2>1, <2>2 DEF NotifyInv
  <1>6. CASE Pops \/ Opens \/ BeginsClose
    BY <1>4, <1>6 DEF Pops, Opens, BeginsClose, NotifyInv
  <1>7. CASE Toggles
    <2>1. CASE Extends(Tail(eventq), eventq')
      BY <1>4, <1>7, <2>1 DEF Toggles, NotifyInv
    <2>2. ASSUME state' = "UNAVAILABLE", NEW e \in N,
                 eventq' = post_at_head(Tail(eventq), e)
          PROVE  NotifyInv'
      <3>1. Tail(eventq) \in Seq(Event) /\ e \in Event
        BY <1>1, <1>7, TailFacts, KindsDisjoint DEF Toggles
      <3>2. ~SomeIn(Tail(eventq), N)
        BY <1>1, <1>2, <1>7, TailKinds DEF Toggles
      <3>3. ~Behind(eventq', N)
        BY <2>2, <3>1, <3>2, ConsKinds
      <3> QED
        BY <1>7, <2>2, <3>3 DEF Toggles, NotifyInv
    <2> QED
      BY <1>7, <2>1, <2>2 DEF Toggles
  <1>8. CASE EndsClose
    <2>1. ~SomeIn(eventq, N)
      BY <1>8 DEF EndsClose, NotifyInv
    <2>2. CASE eventq' = eventq
      BY <1>2, <2>1, <2>2 DEF NotifyInv
    <2>3. ASSUME state' = "UNAVAILABLE", NEW e \in N,
                 eventq' = post_at_head(eventq, e)
          PROVE  NotifyInv'
      <3>1. ~Behind(eventq', N)
        BY <1>1, <2>1, <2>3, ConsKinds, KindsDisjoint
      <3> QED
        BY <1>8, <2>3, <3>1 DEF EndsClose, NotifyInv
    <2> QED
      BY <1>8, <2>2, <2>3 DEF EndsClose
  <1>9. CASE GoesUp
    BY <1>4, <1>9 DEF GoesUp, Extends, NotifyInv
  <1>10. CASE Deletes
    <2>1. eventq # <<>> /\ Tail(eventq) \in Seq(Event)
      BY <1>1, <1>10, TailFacts DEF Deletes
    <2>2. ~SomeIn(Tail(eventq), N) /\ ~Behind(Tail(eventq), N)
      BY <1>1, <1>2, <2>1, TailKinds
    <2>3. ASSUME NEW q \in Seq(Event), ~SomeIn(q, N), ~Behind(q, N),
                 NEW e \in Event, e \notin N
          PROVE  /\ post(q, e) \in Seq(Event)
                 /\ ~SomeIn(post(q, e), N)
                 /\ ~Behind(post(q, e), N)
      BY <2>3, AppendKinds, AppendFacts
    <2>4. PICK e \in PlainEvents :
             \/ eventq' = post(Tail(eventq), e)
             \/ \E r \in Closes(contact) :
                   eventq' = post(post(Tail(eventq), r), e)
      BY <1>10 DEF Deletes
    <2>5. e \in Event /\ e \notin N
      BY KindsDisjoint
    <2>6. CASE eventq' = post(Tail(eventq), e)
      BY <2>1, <2>2, <2>3, <2>5, <2>6 DEF NotifyInv
    <2>7. ASSUME NEW r \in Closes(contact),
                 eventq' = post(post(Tail(eventq), r), e)
          PROVE  NotifyInv'
      <3>1. r \in Event /\ r \notin N
        BY KindsDisjoint
      <3>2. /\ post(Tail(eventq), r) \in Seq(Event)
            /\ ~SomeIn(post(Tail(eventq), r), N)
            /\ ~Behind(post(Tail(eventq), r), N)
        BY <2>1, <2>2, <2>3, <3>1
      <3> QED
        BY <2>3, <2>5, <2>7, <3>2 DEF NotifyInv
    <2> QED
      BY <2>4, <2>6, <2>7
  <1>11. CASE Attaches
    BY <1>11 DEF Attaches, NotifyInv
  <1>12. ASSUME NEW c \in Contacts, ComesUp(c) \/ Breaks(c)
         PROVE  NotifyInv'
    <2>1. UNCHANGED <<state, closing>>
      BY <1>12 DEF ComesUp, Breaks
    <2>2. /\ ~Behind(eventq', N)
          /\ SomeIn(eventq', N) => SomeIn(eventq, N)
      BY <1>2, <1>3, <1>12, KindsDisjoint DEF ComesUp, Breaks
    <2> QED
      BY <2>1, <2>2 DEF NotifyInv
  <1> QED
    BY <1>5, <1>6, <1>7, <1>8, <1>9, <1>10, <1>11, <1>12 DEF Kinds

\* Only the handler of a LinkUnavailableEvent that finds the link available
\* fails that handler's assertion.
LEMMA AssertFails ==
    ASSUME Next, aborted' = "handle_link_unavailable", aborted' # aborted
    PROVE  handle_link_unavailable /\ isavailable
  <1>1. CASE Daemon
    BY <1>1
    DEF Daemon, handle_link_created, handle_link_available,
        handle_link_unavailable, RequestDropped, RequestUnavailable,
        RequestAvailable, RequestOpen, RequestClosed, CloseCompleted,
        handle_contact_up, handle_contact_down, handle_link_delete,
        handle_link_deleted, handle_bundle, Fails
  <1>2. CASE reopen_link \/ FindIdleLink \/ AttachContact
    BY <1>2 DEF reopen_link, FindIdleLink, AttachContact, Fails
  <1>3. ASSUME NEW c \in Contacts, Connection(c) PROVE FALSE
    BY <1>3 DEF Connection, contact_up, ConnectionBroken, ConnectionIdle,
                process_command, break_contact
  <1>4. CASE Environment
    BY <1>4
    DEF Environment, UserOpen, UserClose, UserDelete, UserSetAvailable,
        UserSetUnavailable, handle_neighbor_discovered, handle_missing_beacon,
        BundleArrives, Requests
  <1> QED
    BY <1>1, <1>2, <1>3, <1>4 DEF Next

\* ASSERT(!link->isavailable()) in BundleDaemon::handle_link_unavailable never
\* fails, although the state changes and its notification are separate steps.
THEOREM UnavailableAssertion == Spec => []UnavailableAssertHolds
  <1> DEFINE Inv == NotifyInv /\ UnavailableAssertHolds
  <1>1. Init => Inv
    BY DEF Init, NotifyInv, UnavailableAssertHolds, Behind, SomeIn,
           Notifications, LinkEvent
  <1>2. TypeOK /\ Inv /\ [Next]_vars => Inv'
    <2> SUFFICES ASSUME TypeOK, Inv, [Next]_vars PROVE Inv'
      OBVIOUS
    <2>1. NotifyInv'
      BY StepKinds, NotifyStep
    <2>2. CASE aborted' = aborted
      BY <2>1, <2>2 DEF UnavailableAssertHolds
    <2>3. CASE aborted' # aborted /\ aborted' = "handle_link_unavailable"
      <3>1. handle_link_unavailable /\ isavailable
        BY <2>3, AssertFails DEF vars
      <3>2. Head(eventq) \in Notifications /\ eventq # <<>>
        BY <3>1, HeadKind DEF handle_link_unavailable, Notifications
      <3>3. SomeIn(eventq, Notifications)
        BY <3>2, TailFacts DEF SomeIn, TypeOK
      <3> QED
        BY <3>1, <3>3 DEF NotifyInv, isavailable
    <2> QED
      BY <2>1, <2>2, <2>3 DEF UnavailableAssertHolds
  <1> QED
    BY <1>1, <1>2, TypeCorrect, PTL DEF Spec

(***************************************************************************)
(* A dead contact is never forgotten.                                      *)
(***************************************************************************)

\* A request to close a contact is dropped when the link is neither open nor
\* opening. DeadContactWillClose needs that this does not happen to the
\* contact's last request: while the link of an inbound connection has not
\* seen its ContactUpEvent, that event is queued before every request to
\* close the contact. A deleted link never gets into that situation.
CloseInv ==
    /\ deleted /\ Attached => Serving
    /\ Attached /\ ~Serving
          => Preceded(eventq, Closes(contact), Ups(contact))
    /\ Attached /\ ~Serving /\ conn[contact] \in {"up", "broken"}
          => SomeIn(eventq, Ups(contact))
    /\ Attached /\ closing = "no" /\ conn[contact] = "broken"
          => SomeIn(eventq, Closes(contact))

\* Every kind of step keeps CloseInv.
LEMMA CloseStep ==
    ASSUME TypeOK, ConnInv, CloseInv, Kinds PROVE CloseInv'
  <1>1. /\ conn \in [Contacts -> ConnStates]
        /\ contact \in Contacts \cup {NoContact}
        /\ NoContact \notin Contacts
        /\ eventq \in Seq(Event)
    BY ConstantsAssumption DEF TypeOK, ContactOrNone
  <1> DEFINE U == Ups(contact)
             C == Closes(contact)
  <1> USE DEF Serving, Attached, isopen, isopening
  \* The queue's share of CloseInv, for steps that leave the contact alone.
  <1>2. ASSUME UNCHANGED <<state, contact, conn, closing>>,
               Attached => (deleted' => Serving),
               Attached /\ ~Serving /\ Preceded(eventq, C, U)
                  => Preceded(eventq', C, U),
               Attached /\ ~Serving /\ SomeIn(eventq, U) => SomeIn(eventq', U),
               Attached /\ closing = "no" /\ SomeIn(eventq, C)
                  => SomeIn(eventq', C)
        PROVE  CloseInv'
    BY <1>2 DEF CloseInv
  <1>3. CASE Stays
    <2>1. ASSUME NEW e \in PlainEvents, eventq' = post(eventq, e)
          PROVE  /\ Preceded(eventq, C, U) => Preceded(eventq', C, U)
                 /\ SomeIn(eventq, U) => SomeIn(eventq', U)
                 /\ SomeIn(eventq, C) => SomeIn(eventq', C)
      <3>1. e \in Event /\ e \notin C
        BY KindsDisjoint
      <3>2. /\ Preceded(eventq, C, U) => Preceded(post(eventq, e), C, U)
            /\ SomeIn(eventq, U) => SomeIn(post(eventq, e), U)
            /\ SomeIn(eventq, C) => SomeIn(post(eventq, e), C)
        BY <1>1, <3>1, AppendKinds
      <3> QED
        BY <2>1, <3>2
    <2>2. /\ Preceded(eventq, C, U) => Preceded(eventq', C, U)
          /\ SomeIn(eventq, U) => SomeIn(eventq', U)
          /\ SomeIn(eventq, C) => SomeIn(eventq', C)
      BY <1>3, <2>1 DEF Stays
    <2> QED
      BY <1>2, <1>3, <2>2 DEF Stays, linkVars, CloseInv
  <1>4. CASE AsksClose
    <2>1. PICK e \in C : eventq' = post(eventq, e)
      BY <1>4 DEF AsksClose
    <2>2. SomeIn(eventq', C)
      BY <1>1, <2>1, AppendKinds, KindsDisjoint
    <2> QED
      BY <1>4, <2>2 DEF AsksClose, linkVars, CloseInv
  <1>5. CASE Pops
    <2>1. eventq # <<>> /\ Extends(Tail(eventq), eventq')
      BY <1>5 DEF Pops
    <2>2. Attached /\ ~Serving => Head(eventq) \notin U
      BY <1>5 DEF Pops, CloseInv
    <2>3. Attached => Head(eventq) \notin C
      <3>1. CASE Serving
        BY <1>5, <3>1 DEF Pops
      <3>2. CASE Attached /\ ~Serving
        BY <1>1, <2>1, <3>2, TailKinds DEF CloseInv
      <3> QED
        BY <3>1, <3>2
    <2>4. /\ Preceded(eventq, C, U) /\ Head(eventq) \notin U
                => Preceded(eventq', C, U)
          /\ SomeIn(eventq, U) /\ Head(eventq) \notin U => SomeIn(eventq', U)
          /\ SomeIn(eventq, C) /\ Head(eventq) \notin C => SomeIn(eventq', C)
      BY <2>1, PoppedKinds, NotPlain
    <2>5. UNCHANGED <<state, contact, conn, closing, deleted>>
      BY <1>5 DEF Pops, linkVars
    <2> QED
      BY <1>2, <2>2, <2>3, <2>4, <2>5 DEF CloseInv
  <1>6. CASE Opens
    <2>1. PICK c \in Unreferenced : /\ contact' = c
                                    /\ conn' = [conn EXCEPT ![c] = "connecting"]
      BY <1>6 DEF Opens
    <2>2. c \in Contacts
      BY <2>1, FreeContact
    <2>3. conn'[contact'] = "connecting"
      BY <1>1, <2>1, <2>2
    <2> QED
      BY <1>6, <2>3 DEF Opens, CloseInv
  <1>7. CASE Toggles
    <2>1. eventq # <<>> /\ Head(eventq) \in PlainEvents
      BY <1>7 DEF Toggles
    <2>2. Head(eventq) \notin U /\ Head(eventq) \notin C
      BY <2>1, KindsDisjoint
    <2>3. CASE Extends(Tail(eventq), eventq')
      BY <2>1, <2>2, <2>3, PoppedKinds, NotPlain, <1>7 DEF Toggles, CloseInv
    <2>4. ASSUME NEW e \in Notifications,
                 eventq' = post_at_head(Tail(eventq), e)
          PROVE  CloseInv'
      <3>1. /\ Tail(eventq) \in Seq(Event)
            /\ e \in Event /\ e \notin U /\ e \notin C
        BY <1>1, <2>1, TailFacts, KindsDisjoint
      <3>2. /\ Preceded(eventq, C, U) => Preceded(Tail(eventq), C, U)
            /\ SomeIn(eventq, U) => SomeIn(Tail(eventq), U)
            /\ SomeIn(eventq, C) => SomeIn(Tail(eventq), C)
        BY <1>1, <2>1, <2>2, TailKinds
      <3>3. /\ Preceded(Tail(eventq), C, U) => Preceded(eventq', C, U)
            /\ SomeIn(Tail(eventq), U) => SomeIn(eventq', U)
            /\ SomeIn(Tail(eventq), C) => SomeIn(eventq', C)
        BY <2>4, <3>1, ConsKinds
      <3> QED
        BY <1>7, <3>2, <3>3 DEF Toggles, CloseInv
    <2> QED
      BY <1>7, <2>3, <2>4 DEF Toggles
  <1>8. CASE BeginsClose
    BY <1>8 DEF BeginsClose, CloseInv
  <1>9. CASE EndsClose
    BY <1>9 DEF EndsClose, CloseInv
  <1>10. CASE GoesUp
    <2>1. Head(eventq) \notin C /\ eventq # <<>>
      BY <1>10, KindsDisjoint DEF GoesUp
    <2>2. SomeIn(eventq, C) => SomeIn(eventq', C)
      BY <1>1, <1>10, <2>1, TailKinds DEF GoesUp
    <2> QED
      BY <1>10, <2>2 DEF GoesUp, CloseInv
  <1>11. CASE Deletes
    <2>1. CASE ~Attached
      BY <1>11, <2>1 DEF Deletes, CloseInv
    <2>2. CASE Attached
      <3>1. Serving
        BY <1>11, <2>2 DEF Deletes
      <3>2. /\ eventq # <<>>
            /\ Head(eventq) \notin C
            /\ Tail(eventq) \in Seq(Event)
        BY <1>1, <1>11, TailFacts, KindsDisjoint DEF Deletes
      <3>3. SomeIn(eventq, C) => SomeIn(Tail(eventq), C)
        BY <1>1, <3>2, TailKinds
      <3>4. PICK e \in PlainEvents :
               \/ eventq' = post(Tail(eventq), e)
               \/ \E r \in C : eventq' = post(post(Tail(eventq), r), e)
        BY <1>11 DEF Deletes
      <3>5. e \in Event
        BY KindsDisjoint
      <3>6. CASE eventq' = post(Tail(eventq), e)
        <4>1. SomeIn(Tail(eventq), C) => SomeIn(eventq', C)
          BY <3>2, <3>5, <3>6, AppendKinds
        <4> QED
          BY <1>11, <3>1, <3>3, <4>1 DEF Deletes, CloseInv
      <3>7. ASSUME NEW r \in C, eventq' = post(post(Tail(eventq), r), e)
            PROVE  CloseInv'
        <4>1. r \in Event
          BY KindsDisjoint
        <4>2. post(Tail(eventq), r) \in Seq(Event)
          BY <3>2, <4>1, AppendFacts
        <4>3. SomeIn(post(Tail(eventq), r), C)
          BY <3>2, <4>1, AppendKinds
        <4>4. SomeIn(eventq', C)
          BY <3>5, <3>7, <4>2, <4>3, AppendKinds
        <4> QED
          BY <1>11, <3>1, <4>4 DEF Deletes, CloseInv
      <3> QED
        BY <3>4, <3>6, <3>7
    <2> QED
      BY <2>1, <2>2
  <1>12. CASE Attaches
    <2>1. PICK c \in Unreferenced : /\ contact' = c
                                    /\ conn' = [conn EXCEPT ![c] = "accepted"]
      BY <1>12 DEF Attaches
    <2>2. c \in Contacts /\ ~SomeIn(eventq, Closes(c))
      BY <2>1, FreeContact
    <2>3. conn'[contact'] = "accepted"
      BY <1>1, <2>1, <2>2
    <2>4. Preceded(eventq', Closes(c), Ups(c))
      BY <1>12, <2>2 DEF Attaches, Preceded, SomeIn
    <2> QED
      BY <1>12, <2>1, <2>3, <2>4 DEF Attaches, CloseInv
  <1>13. ASSUME NEW c \in Contacts, ComesUp(c)
         PROVE  CloseInv'
    <2>1. contact = c /\ contact' = c /\ UNCHANGED <<state, deleted, closing>>
      BY <1>13 DEF ComesUp, ConnInv, OneConnection
    <2>2. conn'[contact'] = "up"
      BY <1>1, <1>13, <2>1 DEF ComesUp
    <2>3. PICK e \in U : eventq' = post(eventq, e)
      BY <1>13, <2>1 DEF ComesUp
    <2>4. e \in Event /\ e \notin C
      BY KindsDisjoint
    <2>5. /\ SomeIn(eventq', U)
          /\ Preceded(eventq, C, U) => Preceded(eventq', C, U)
      BY <1>1, <2>3, <2>4, AppendKinds
    <2> QED
      BY <2>1, <2>2, <2>5 DEF CloseInv
  <1>14. ASSUME NEW c \in Contacts, Breaks(c)
         PROVE  CloseInv'
    <2>1. contact = c /\ contact' = c /\ UNCHANGED <<state, deleted, closing>>
      BY <1>14 DEF Breaks, ConnInv, OneConnection
    <2>2. Attached /\ ~Serving => SomeIn(eventq, U)
      BY <1>14, <2>1 DEF Breaks, ConnInv, CloseInv
    <2>3. CASE eventq' = eventq /\ closing # "no"
      BY <2>1, <2>2, <2>3 DEF CloseInv
    <2>4. ASSUME NEW e \in C, eventq' = post(eventq, e)
          PROVE  CloseInv'
      <3>1. e \in Event
        BY KindsDisjoint
      <3>2. /\ SomeIn(eventq', C)
            /\ SomeIn(eventq, U) => SomeIn(eventq', U)
            /\ Preceded(eventq, C, U) /\ SomeIn(eventq, U)
                  => Preceded(eventq', C, U)
        BY <1>1, <2>4, <3>1, AppendKinds
      <3> QED
        BY <2>1, <2>2, <3>2 DEF CloseInv
    <2> QED
      BY <1>14, <2>3, <2>4 DEF Breaks
  <1> QED
    BY <1>3, <1>4, <1>5, <1>6, <1>7, <1>8, <1>9, <1>10, <1>11, <1>12, <1>13,
       <1>14 DEF Kinds

\* A contact whose connection thread has ended is closed by a request that is
\* still queued and will not be dropped: break_contact() reports the end of
\* every connection it was not told to end.
THEOREM DeadContactHolds == Spec => []DeadContactWillClose
  <1>1. Init => CloseInv
    BY DEF Init, CloseInv, Attached
  <1>2. TypeOK /\ ConnInv /\ CloseInv /\ [Next]_vars => CloseInv'
    BY StepKinds, CloseStep
  <1>3. TypeOK /\ CloseInv => DeadContactWillClose
    <2> SUFFICES ASSUME TypeOK, CloseInv, closing = "no", contact # NoContact,
                        conn[contact] = "broken"
                 PROVE  \E i \in DOMAIN eventq :
                            /\ eventq[i].type = "LINK_STATE_CHANGE_REQUEST"
                            /\ eventq[i].to = "CLOSED"
                            /\ eventq[i].contact = contact
      BY DEF DeadContactWillClose
    <2>1. SomeIn(eventq, Closes(contact))
      BY DEF CloseInv, Attached
    <2>2. DOMAIN eventq = 1 .. Len(eventq)
      BY DEF TypeOK
    <2> QED
      BY <2>1, <2>2 DEF SomeIn, Closes
  <1> QED
    BY <1>1, <1>2, <1>3, TypeCorrect, ConnInvariant, PTL DEF Spec

\* A deleted link gets no new contact: neither a queued request, nor the
\* router, nor an inbound connection opens it again.
THEOREM NoNewContact == Spec => NoNewContactOnceDeleted
  <1>1. TypeOK /\ [Next]_vars => [deleted => contact' \in {contact, NoContact}]_vars
    <2> SUFFICES ASSUME TypeOK, [Next]_vars, deleted
                 PROVE  contact' \in {contact, NoContact}
      OBVIOUS
    <2>1. Kinds
      BY StepKinds
    <2> QED
      BY <2>1
      DEF Kinds, Stays, AsksClose, Pops, Opens, Toggles, BeginsClose,
          EndsClose, GoesUp, Deletes, Attaches, ComesUp, Breaks, linkVars
  <1> QED
    BY <1>1, TypeCorrect, PTL DEF Spec, NoNewContactOnceDeleted

(***************************************************************************)
(* Retries.                                                                *)
(***************************************************************************)

\* The events that lead to another attempt to open the link: a request for it
\* that is not stale once the contact is gone, and the notification that makes
\* the contact manager set the retry timer.
Promises == {e \in Event :
    \/ /\ e.type = "LINK_STATE_CHANGE_REQUEST"
       /\ e.to = "OPEN"
       /\ e.contact = NoContact
    \/ /\ e.type = "LINK_UNAVAILABLE"
       /\ e.reason \notin {"USER", "IDLE"}}

WantsRetry == /\ known
              /\ state = "UNAVAILABLE"
              /\ downReason \notin {"USER", "IDLE"}

\* RetryPending is not inductive by itself: a request to reopen the link would
\* be stale if an UNAVAILABLE link could have a contact, so an inbound
\* connection may not give it one, and it would be dropped if a link that is
\* still known to the contact manager could be deleted.
RetryInv ==
    /\ known => ~deleted
    /\ Retried => /\ ~accepting
                  /\ Attached => Serving
                  /\ WantsRetry => timer \/ SomeIn(eventq, Promises)

\* A step keeps the invariant if it leaves a retried link that wants a retry
\* with its timer or with a promise.
LEMMA RetryKept ==
    ASSUME RetryInv,
           known' => known /\ deleted' = deleted,
           Retried /\ ~accepting => ~accepting',
           Retried => (Attached' => Serving'),
           Retried /\ WantsRetry' => timer' \/ SomeIn(eventq', Promises)
    PROVE  RetryInv'
  BY DEF RetryInv, Retried

\* Popping an event that is no promise, and posting events, keeps the promises.
LEMMA PromisesKept ==
    ASSUME TypeOK
    PROVE  /\ SomeIn(eventq, Promises)
                 => \A e \in Event : /\ SomeIn(post(eventq, e), Promises)
                                     /\ SomeIn(post_at_head(eventq, e), Promises)
           /\ eventq # <<>> /\ Head(eventq) \notin Promises
              /\ SomeIn(eventq, Promises)
                 => /\ SomeIn(Tail(eventq), Promises)
                    /\ \A e \in Event :
                          /\ SomeIn(post(Tail(eventq), e), Promises)
                          /\ SomeIn(post_at_head(Tail(eventq), e), Promises)
           /\ \A e \in Promises :
                 /\ e \in Event
                 /\ SomeIn(post(eventq, e), Promises)
                 /\ SomeIn(post_at_head(eventq, e), Promises)
                 /\ eventq # <<>> => SomeIn(post_at_head(Tail(eventq), e), Promises)
  <1>1. eventq \in Seq(Event)
    BY DEF TypeOK
  <1>2. eventq # <<>> => Tail(eventq) \in Seq(Event)
    BY <1>1, TailFacts
  <1>3. \A e \in Event :
           /\ SomeIn(post(eventq, e), Promises)
                 <=> SomeIn(eventq, Promises) \/ e \in Promises
           /\ SomeIn(post_at_head(eventq, e), Promises)
                 <=> SomeIn(eventq, Promises) \/ e \in Promises
    BY <1>1, AppendKinds, ConsKinds
  <1>4. eventq # <<>> => \A e \in Event :
           /\ SomeIn(post(Tail(eventq), e), Promises)
                 <=> SomeIn(Tail(eventq), Promises) \/ e \in Promises
           /\ SomeIn(post_at_head(Tail(eventq), e), Promises)
                 <=> SomeIn(Tail(eventq), Promises) \/ e \in Promises
    BY <1>2, AppendKinds, ConsKinds
  <1>5. eventq # <<>> /\ Head(eventq) \notin Promises
           /\ SomeIn(eventq, Promises) => SomeIn(Tail(eventq), Promises)
    BY <1>1, TailKinds
  <1>6. \A e \in Promises : e \in Event
    BY DEF Promises
  <1> QED
    BY <1>3, <1>4, <1>5, <1>6

\* What an event handler pops that is of neither kind is no promise.
LEMMA NoPromise ==
    ASSUME TypeOK, NEW t, Handles(t),
           t \notin {"LINK_STATE_CHANGE_REQUEST", "LINK_UNAVAILABLE"}
    PROVE  eventq # <<>> /\ Head(eventq) \notin Promises
  BY DEF Handles, Promises

\* Opening a link leaves it open or opening if it has a contact, and
\* UNAVAILABLE only if that was the state it was opened in.
LEMMA OpenRetry ==
    ASSUME TypeOK, RetryInv, NEW s, open_link(s), s = state \/ ~Serving
    PROVE  /\ Retried => (Attached' => Serving')
           /\ state' = "UNAVAILABLE" => s = "UNAVAILABLE"
  <1>1. CASE MayOpen(s)
    BY <1>1 DEF open_link, Serving, isopen, isopening
  <1>2. CASE ~MayOpen(s)
    <2>1. state' = s /\ contact' = contact
      BY <1>2 DEF open_link
    <2> QED
      BY <2>1 DEF RetryInv, Serving, Attached, isopen, isopening, Retried
  <1> QED
    BY <1>1, <1>2

\* The same when the router decides.
LEMMA ForwardRetry ==
    ASSUME TypeOK, RetryInv, fwd_to_nexthop
    PROVE  /\ Retried => (Attached' => Serving')
           /\ state' = "UNAVAILABLE" => state = "UNAVAILABLE"
  <1>1. CASE open_link(state)
    BY <1>1, OpenRetry
  <1>2. CASE UNCHANGED <<state, contact, conn>>
    BY <1>2 DEF RetryInv, Serving, Attached, isopen, isopening, Retried
  <1> QED
    BY <1>1, <1>2 DEF fwd_to_nexthop

\* A step that leaves the link alone and loses no promise.
LEMMA RetryIdle ==
    ASSUME TypeOK, RetryInv,
           UNCHANGED <<state, deleted, known, contact, timer, accepting,
                       downReason>>,
           Retried /\ WantsRetry /\ SomeIn(eventq, Promises)
              => SomeIn(eventq', Promises)
    PROVE  RetryInv'
  <1>1. Retried /\ WantsRetry' => timer' \/ SomeIn(eventq', Promises)
    BY DEF RetryInv, WantsRetry, Retried
  <1>2. Retried => (Attached' => Serving')
    BY DEF RetryInv, Attached, Serving, isopen, isopening, Retried
  <1> QED
    BY <1>1, <1>2, RetryKept

\* A step of the daemon thread keeps RetryInv.
LEMMA RetryDaemon == ASSUME TypeOK, RetryInv, Daemon PROVE RetryInv'
  <1>1. CASE handle_link_created
    <2>1. eventq # <<>> /\ Head(eventq) \notin Promises
      BY <1>1, NoPromise DEF handle_link_created
    <2>2. CASE deleted
      BY <1>1, <2>1, <2>2, RetryIdle, PromisesKept DEF handle_link_created
    <2>3. CASE ~deleted
      <3>1. /\ fwd_to_nexthop
            /\ UNCHANGED <<deleted, known, timer, accepting, downReason>>
        BY <1>1, <2>3 DEF handle_link_created
      <3>2. contact' \in ContactOrNone
        BY <3>1, ForwardTyped
      <3>3. [LinkStateChangeRequest("OPEN", "USER") EXCEPT !.contact = contact']
               \in Event
        BY <3>2 DEF LinkStateChangeRequest, Event, EventTypes, LinkStates, Reasons
      <3>4. LinkEvent("LINK_AVAILABLE", "NO_INFO") \in Event
        BY EventsTyped DEF EventTypes, Reasons
      <3>5. eventq' \in {Tail(eventq),
               post_at_head(Tail(eventq),
                            [LinkStateChangeRequest("OPEN", "USER")
                                EXCEPT !.contact = contact']),
               post(Tail(eventq), LinkEvent("LINK_AVAILABLE", "NO_INFO"))}
        BY <1>1, <2>3, ConstantsAssumption DEF handle_link_created, LinkTypes
      <3>6. SomeIn(eventq, Promises) => SomeIn(eventq', Promises)
        BY <2>1, <3>3, <3>4, <3>5, PromisesKept
      <3>7. Retried /\ WantsRetry' => timer' \/ SomeIn(eventq', Promises)
        BY <3>1, <3>6, ForwardRetry DEF WantsRetry, RetryInv, Retried
      <3> QED
        BY <3>1, <3>7, ForwardRetry, RetryKept
    <2> QED
      BY <2>2, <2>3
  <1>2. CASE handle_link_available
    <2>1. CASE ~isavailable
      BY <1>2, <2>1, RetryIdle DEF handle_link_available, Fails
    <2>2. CASE isavailable
      <3>1. /\ fwd_to_nexthop
            /\ UNCHANGED <<deleted, known, accepting>>
        BY <1>2, <2>2 DEF handle_link_available, fwd_to_nexthop
      <3>2. state' # "UNAVAILABLE"
        BY <2>2, <3>1, ForwardRetry DEF isavailable
      <3> QED
        BY <3>1, <3>2, ForwardRetry, RetryKept DEF WantsRetry
    <2> QED
      BY <2>1, <2>2
  <1>3. CASE handle_link_unavailable
    <2>1. CASE isavailable
      BY <1>3, <2>1, RetryIdle DEF handle_link_unavailable, Fails
    <2>2. CASE ~isavailable
      <3>1. /\ UNCHANGED <<state, deleted, known, contact, accepting, downReason>>
            /\ eventq' = Tail(eventq)
            /\ eventq # <<>>
            /\ Head(eventq).type = "LINK_UNAVAILABLE"
        BY <1>3, <2>2 DEF handle_link_unavailable, Handles
      <3>2. CASE /\ known /\ ~deleted /\ Retried
                 /\ Head(eventq).reason \notin {"USER", "IDLE"}
        <4>1. timer'
          BY <1>3, <2>2, <3>2 DEF handle_link_unavailable
        <4> QED
          BY <3>1, <4>1, RetryKept
          DEF RetryInv, Attached, Serving, isopen, isopening, Retried
      <3>3. CASE ~(/\ known /\ ~deleted /\ Retried
                   /\ Head(eventq).reason \notin {"USER", "IDLE"})
        <4>1. timer' = timer
          BY <1>3, <2>2, <3>3 DEF handle_link_unavailable
        <4>2. Retried /\ WantsRetry => Head(eventq) \notin Promises
          BY <3>1, <3>3 DEF WantsRetry, RetryInv, Promises
        <4> QED
          BY <3>1, <4>1, <4>2, RetryIdle, PromisesKept
      <3> QED
        BY <3>2, <3>3
    <2> QED
      BY <2>1, <2>2
  <1>4. CASE RequestDropped
    <2>1. /\ eventq # <<>>
          /\ eventq' = Tail(eventq)
          /\ UNCHANGED <<state, deleted, known, contact, timer, accepting,
                         downReason>>
      BY <1>4 DEF RequestDropped, Handles
    <2>2. Retried /\ WantsRetry => ~deleted /\ contact = NoContact
      BY DEF RetryInv, WantsRetry, Attached, Serving, isopen, isopening
    <2>3. Retried /\ WantsRetry => Head(eventq) \notin Promises
      BY <1>4, <2>2 DEF RequestDropped, Handles, Stale, Promises
    <2> QED
      BY <2>1, <2>3, RetryIdle, PromisesKept
  <1>5. CASE RequestUnavailable
    <2>1. /\ Head(eventq).reason \in Reasons
          /\ eventq # <<>>
      BY <1>5, Popped DEF RequestUnavailable, Request, Handles
    <2>2. /\ downReason' = Head(eventq).reason
          /\ eventq' = post_at_head(Tail(eventq),
                          LinkEvent("LINK_UNAVAILABLE", Head(eventq).reason))
          /\ state = "AVAILABLE"
          /\ UNCHANGED <<deleted, known, contact, timer, accepting>>
      BY <1>5 DEF RequestUnavailable
    <2>3. Head(eventq).reason \notin {"USER", "IDLE"}
             => LinkEvent("LINK_UNAVAILABLE", Head(eventq).reason) \in Promises
      BY <2>1, EventsTyped DEF LinkEvent, Promises, EventTypes
    <2>4. WantsRetry' => SomeIn(eventq', Promises)
      BY <2>1, <2>2, <2>3, PromisesKept DEF WantsRetry
    <2>5. Retried => ~Attached /\ ~Attached'
      BY <2>2 DEF RetryInv, Serving, isopen, isopening, Attached, Retried
    <2> QED
      BY <2>2, <2>4, <2>5, RetryKept
  <1>6. CASE RequestAvailable
    <2>1. /\ state = "UNAVAILABLE"
          /\ state' = "AVAILABLE"
          /\ UNCHANGED <<deleted, known, contact, accepting>>
      BY <1>6 DEF RequestAvailable
    <2>2. Retried => ~Attached /\ ~Attached'
      BY <2>1 DEF RetryInv, Serving, isopen, isopening, Attached, Retried
    <2> QED
      BY <2>1, <2>2, RetryKept DEF WantsRetry
  <1>7. CASE RequestOpen
    <2> DEFINE s == IF state = "UNAVAILABLE" THEN "AVAILABLE" ELSE state
    <2>1. open_link(s) /\ UNCHANGED <<deleted, known, accepting>>
      BY <1>7 DEF RequestOpen
    <2>2. s = state \/ ~Serving
      BY DEF Serving, isopen, isopening
    <2>3. s # "UNAVAILABLE"
      OBVIOUS
    <2> HIDE DEF s
    <2>4. /\ Retried => (Attached' => Serving')
          /\ state' # "UNAVAILABLE"
      BY <2>1, <2>2, <2>3, OpenRetry
    <2> QED
      BY <2>1, <2>4, RetryKept DEF WantsRetry
  <1>8. CASE RequestClosed
    <2>1. /\ eventq # <<>>
          /\ Head(eventq) \notin Promises
          /\ Head(eventq).reason \in Reasons
      BY <1>8, Popped DEF RequestClosed, Request, Handles, Promises
    <2>2. ContactEvent("CONTACT_DOWN", Head(eventq).reason, contact) \in Event
      BY <2>1, EventsTyped DEF EventTypes, TypeOK
    <2> QED
      BY <1>8, <2>1, <2>2, RetryIdle, PromisesKept DEF RequestClosed
  <1>9. CASE CloseCompleted
    <2>1. /\ ~Attached'
          /\ UNCHANGED <<deleted, known, accepting>>
          /\ state' = StateOnceClosed
      BY <1>9 DEF CloseCompleted, Attached
    <2>2. CASE closing = "IDLE"
      BY <2>1, <2>2, RetryKept DEF WantsRetry, StateOnceClosed
    <2>3. CASE closing # "IDLE"
      <3>1. /\ downReason' = closing
            /\ eventq' = post_at_head(eventq,
                            LinkEvent("LINK_UNAVAILABLE", closing))
            /\ closing \in Reasons
        BY <1>9, <2>3 DEF CloseCompleted, TypeOK
      <3>2. closing # "USER" => LinkEvent("LINK_UNAVAILABLE", closing) \in Promises
        BY <2>3, <3>1, EventsTyped DEF LinkEvent, Promises, EventTypes
      <3>3. WantsRetry' => SomeIn(eventq', Promises)
        BY <3>1, <3>2, PromisesKept DEF WantsRetry
      <3> QED
        BY <2>1, <3>3, RetryKept
    <2> QED
      BY <2>2, <2>3
  <1>10. CASE handle_contact_up
    <2>1. /\ eventq # <<>> /\ Head(eventq) \notin Promises
      BY <1>10, NoPromise DEF handle_contact_up
    <2>2. /\ eventq' = Tail(eventq)
          /\ UNCHANGED <<deleted, known, contact, timer, accepting, downReason>>
          /\ state' \in {"OPEN", state}
      BY <1>10 DEF handle_contact_up
    <2>3. CASE state' = state
      BY <2>1, <2>2, <2>3, RetryIdle, PromisesKept
    <2>4. CASE state' = "OPEN"
      BY <2>2, <2>4, RetryKept DEF WantsRetry, Serving, isopen
    <2> QED
      BY <2>2, <2>3, <2>4
  <1>11. CASE handle_contact_down
    <2>1. CASE deleted
      BY <1>11, <2>1, RetryIdle DEF handle_contact_down, Fails
    <2>2. CASE ~deleted
      <3>1. eventq # <<>> /\ Head(eventq) \notin Promises
        BY <1>11, NoPromise DEF handle_contact_down
      <3> QED
        BY <1>11, <2>2, <3>1, RetryIdle, PromisesKept DEF handle_contact_down
    <2> QED
      BY <2>1, <2>2
  <1>12. CASE handle_link_delete
    <2>1. eventq # <<>> /\ Head(eventq) \notin Promises
      BY <1>12, NoPromise DEF handle_link_delete
    <2>2. CASE deleted \/ ~known
      <3>1. /\ eventq' = Tail(eventq)
            /\ UNCHANGED <<state, deleted, known, contact, timer, accepting,
                           downReason>>
        BY <1>12, <2>2 DEF handle_link_delete
      <3> QED
        BY <2>1, <3>1, RetryIdle, PromisesKept
    <2>3. CASE /\ ~(deleted \/ ~known)
               /\ ~isopen /\ ~isopening /\ contact # NoContact
      <3>1. Fails("cl_delete_link")
        BY <1>12, <2>3 DEF handle_link_delete
      <3> QED
        BY <3>1, RetryIdle DEF Fails
    <2>4. CASE /\ ~(deleted \/ ~known)
               /\ isopen \/ isopening \/ contact = NoContact
      <3>1. ~known' /\ UNCHANGED <<state, contact, accepting>>
        BY <1>12, <2>4 DEF handle_link_delete
      <3> QED
        BY <3>1, RetryKept
        DEF RetryInv, WantsRetry, Attached, Serving, isopen, isopening, Retried
    <2> QED
      BY <2>2, <2>3, <2>4
  <1>13. CASE handle_link_deleted
    BY <1>13, NoPromise, RetryIdle, PromisesKept DEF handle_link_deleted
  <1>14. CASE handle_bundle
    <2>1. /\ eventq # <<>> /\ Head(eventq) \notin Promises
          /\ eventq' = Tail(eventq)
          /\ fwd_to_nexthop
          /\ UNCHANGED <<deleted, known, timer, accepting, downReason>>
      BY <1>14, NoPromise DEF handle_bundle
    <2>2. Retried /\ WantsRetry' => timer' \/ SomeIn(eventq', Promises)
      BY <2>1, ForwardRetry, PromisesKept DEF WantsRetry, RetryInv, Retried
    <2> QED
      BY <2>1, <2>2, ForwardRetry, RetryKept
  <1> QED
    BY <1>1, <1>2, <1>3, <1>4, <1>5, <1>6, <1>7, <1>8, <1>9, <1>10, <1>11,
       <1>12, <1>13, <1>14 DEF Daemon

\* So do the steps of the other threads and the retry timer.
LEMMA RetryOthers ==
    ASSUME TypeOK, RetryInv, \/ reopen_link
                             \/ \E c \in Contacts : Connection(c)
                             \/ FindIdleLink
                             \/ AttachContact
                             \/ Environment
    PROVE  RetryInv'
  <1>1. ASSUME NEW e \in Event, eventq' = post(eventq, e) \/ eventq' = eventq,
               UNCHANGED <<state, deleted, known, contact, timer, accepting,
                           downReason>>
        PROVE  RetryInv'
    BY <1>1, RetryIdle, PromisesKept
  <1>2. ASSUME NEW s \in {"OPEN", "CLOSED", "AVAILABLE", "UNAVAILABLE"},
               NEW r \in Reasons
        PROVE  LinkStateChangeRequest(s, r) \in Event
    BY EventsTyped DEF LinkStates
  <1>3. CASE reopen_link
    <2>1. /\ UNCHANGED <<state, deleted, known, contact, accepting, downReason>>
          /\ Reopens => eventq' =
                post(eventq, LinkStateChangeRequest("OPEN", "RECONNECT"))
      BY <1>3 DEF reopen_link
    <2>2. Retried /\ WantsRetry => Reopens /\ contact = NoContact
      BY DEF RetryInv, WantsRetry, Reopens, Attached, Serving, isopen, isopening
    <2>3. contact = NoContact
             => LinkStateChangeRequest("OPEN", "RECONNECT") \in Promises
      BY <1>2 DEF LinkStateChangeRequest, Promises, Reasons
    <2>4. Retried /\ WantsRetry => SomeIn(eventq', Promises)
      BY <2>1, <2>2, <2>3, PromisesKept
    <2>5. Retried /\ WantsRetry' => SomeIn(eventq', Promises)
      BY <2>1, <2>4 DEF WantsRetry
    <2>6. Retried => (Attached' => Serving')
      BY <2>1 DEF RetryInv, Attached, Serving, isopen, isopening, Retried
    <2> QED
      BY <2>1, <2>5, <2>6, RetryKept
  <1>4. CASE FindIdleLink
    <2>1. ~Retried
      BY <1>4 DEF FindIdleLink, Retried
    <2> QED
      BY <1>4, <2>1, RetryKept DEF FindIdleLink
  <1>5. CASE AttachContact
    <2>1. ~Retried
      BY <1>5 DEF AttachContact, RetryInv
    <2>2. UNCHANGED <<deleted, known>>
      BY <1>5 DEF AttachContact, Fails
    <2> QED
      BY <2>1, <2>2, RetryKept
  <1>6. ASSUME NEW c \in Contacts, NEW r \in Reasons, break_contact(c, r)
        PROVE  RetryInv'
    BY <1>6, <1>1, <1>2 DEF break_contact
  <1>7. ASSUME NEW c \in Contacts, contact_up(c)
        PROVE  RetryInv'
    <2>1. ContactEvent("CONTACT_UP", "NO_INFO", c) \in Event
      BY EventsTyped DEF EventTypes, ContactOrNone, Reasons
    <2> QED
      BY <1>7, <1>1, <2>1 DEF contact_up
  <1>8. ASSUME NEW c \in Contacts, Connection(c)
        PROVE  RetryInv'
    BY <1>6, <1>7, <1>8
    DEF Connection, ConnectionBroken, ConnectionIdle, process_command, Reasons
  <1>9. ASSUME NEW cmd, NEW e \in Event, Requests(cmd, e)
        PROVE  RetryInv'
    BY <1>1, <1>9 DEF Requests
  <1>10. CASE Environment
    <2>1. CASE UserOpen \/ UserClose \/ UserSetAvailable \/ UserSetUnavailable
               \/ handle_neighbor_discovered \/ handle_missing_beacon
      BY <1>2, <1>9, <2>1
      DEF UserOpen, UserClose, UserSetAvailable, UserSetUnavailable,
          handle_neighbor_discovered, handle_missing_beacon, Reasons
    <2>2. CASE UserDelete \/ BundleArrives
      BY <1>9, <2>2, EventsTyped DEF UserDelete, BundleArrives, EventTypes, Reasons
    <2> QED
      BY <1>10, <2>1, <2>2 DEF Environment
  <1> QED
    BY <1>3, <1>4, <1>5, <1>8, <1>10

\* The retry of a link that broke is never lost: while an ALWAYSON or ONDEMAND
\* link is down for another reason than a user's wish or idleness, the contact
\* manager's timer, a reopen request that is not stale, or the event that sets
\* the timer is always there, whatever other requests come in between.
THEOREM RetryIsNeverLost == Spec => []RetryPending
  <1>1. Init => RetryInv
    BY DEF Init, RetryInv, WantsRetry, Attached
  <1>2. TypeOK /\ RetryInv /\ [Next]_vars => RetryInv'
    <2> SUFFICES ASSUME TypeOK, RetryInv, [Next]_vars PROVE RetryInv'
      OBVIOUS
    <2>1. CASE UNCHANGED vars
      BY <2>1, RetryIdle DEF vars
    <2> QED
      BY <2>1, RetryDaemon, RetryOthers DEF Next
  <1>3. TypeOK /\ RetryInv => RetryPending
    <2> SUFFICES ASSUME TypeOK, RetryInv, Retried, WantsRetry, ~timer
                 PROVE  \E i \in DOMAIN eventq :
                            \/ /\ eventq[i].type = "LINK_STATE_CHANGE_REQUEST"
                               /\ eventq[i].to = "OPEN"
                               /\ eventq[i].contact = NoContact
                            \/ /\ eventq[i].type = "LINK_UNAVAILABLE"
                               /\ eventq[i].reason \notin {"USER", "IDLE"}
      BY DEF RetryPending, WantsRetry
    <2>1. SomeIn(eventq, Promises)
      BY DEF RetryInv
    <2>2. DOMAIN eventq = 1 .. Len(eventq)
      BY DEF TypeOK
    <2> QED
      BY <2>1, <2>2 DEF SomeIn, Promises
  <1> QED
    BY <1>1, <1>2, <1>3, TypeCorrect, PTL DEF Spec
=============================================================================
