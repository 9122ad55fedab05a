------------------------------ MODULE Delivery ------------------------------
(***************************************************************************)
(* Delivery of bundles to applications: registrations with their lists of  *)
(* queued, unacknowledged and acknowledged bundles (Registration.cc,       *)
(* APIRegistration.cc), the clients of the API server that bind them and   *)
(* receive from them (APIServer.cc), the daemon's handlers                 *)
(* (BundleDaemon.cc), the data store and a restart from it.                *)
(*                                                                         *)
(* The daemon's thread handles one event at a time and commits what the    *)
(* handler wrote to the store as one transaction; timers run on the same   *)
(* thread. Clients have threads of their own: a receive looks for a ready  *)
(* registration first and takes the bundle in a second step. A             *)
(* registration that runs a script (EXEC) queues bundles as one that       *)
(* spools them does. All bundles and registrations share one endpoint;     *)
(* bundle and registration numbers are handed out in increasing order.     *)
(***************************************************************************)
EXTENDS Integers, Sequences, FiniteSets, Functions, Lists

CONSTANTS
    NRegs,          \* registrations that may be made
    NBundles,       \* bundles that arrive
    Custodial,      \* those that request custody
    Kinds,          \* registrations: [failure, replay, acking, expires]
    EarlyDeletion,  \* the values of the early_deletion parameter
    Calls,          \* optional: of {"peek", "unregister", "error", "crash"}
    MaxBinds,       \* bound: calls of dtn_bind
    MaxFaults       \* bound: crashes, failed receives, lifetimes that end

Regs == 1 .. NRegs
Bundles == 1 .. NBundles

ASSUME DeliveryAssumption ==
    /\ NRegs \in Nat /\ NBundles \in Nat /\ Custodial \subseteq Bundles
    /\ Kinds # {}
    /\ Kinds \subseteq [failure : {"DROP", "DEFER"},
                        replay : {"NONE", "NEW", "ALL"},
                        acking : BOOLEAN, expires : BOOLEAN]
    /\ EarlyDeletion \subseteq BOOLEAN

VARIABLES
    early,          \* params_.early_deletion_
    reg,            \* the registration objects
    disk,           \* their images in the registration store
    pending,        \* pending_bundles_
    stored,         \* the bundle store
    fwdlog,         \* durable: the latest entry of a bundle for a registration
    custody,        \* durable: bundles in local custody
    eventq,         \* the daemon's event queue
    arrived,        \* how many bundles have arrived
    over,           \* bundles whose lifetime has ended
    binds,          \* calls of dtn_bind
    crashes,        \* restarts and receives that failed
    got,            \* history: how often a registration's clients got a bundle
    ackSent,        \* history: acknowledgements its clients sent
    peeked          \* history: bundles its clients peeked at

vars == <<early, reg, disk, pending, stored, fwdlog, custody, eventq, arrived,
          over, binds, crashes, got, ackSent, peeked>>

NoImage == [list |-> <<>>, unacked |-> <<>>, acked |-> <<>>, stored |-> FALSE]

Image(g) == [list |-> g.list, unacked |-> g.unacked, acked |-> g.acked,
             stored |-> TRUE]

\* A new registration; one that never expires by itself counts as expired, so
\* that it goes when its client does (init_expiration_timer).
NewReg(kind, active) ==
    [life |-> "adding", kind |-> kind, active |-> active,
     expired |-> ~kind.expires, timer |-> kind.expires, recv |-> "idle",
     list |-> <<>>, unacked |-> <<>>, acked |-> <<>>, cache |-> {}]

NoReg == [NewReg(CHOOSE k \in Kinds : TRUE, FALSE) EXCEPT !.life = "none"]

Event(type, b, r) == [type |-> type, b |-> b, r |-> r, src |-> "none"]
BundleEvent(type, b) == Event(type, b, 0)
RegEvent(type, r) == Event(type, 0, r)
Received(b, src) == [type |-> "received", b |-> b, r |-> 0, src |-> src]

Init ==
    /\ early \in EarlyDeletion
    /\ reg = [r \in Regs |-> NoReg]
    /\ disk = [r \in Regs |-> NoImage]
    /\ pending = {} /\ stored = {} /\ custody = {} /\ over = {}
    /\ fwdlog = [r \in Regs |-> [b \in Bundles |-> "none"]]
    /\ eventq = <<>>
    /\ arrived = 0 /\ binds = 0 /\ crashes = 0
    /\ got = [r \in Regs |-> [b \in Bundles |-> 0]]
    /\ ackSent = [r \in Regs |-> {}]
    /\ peeked = [r \in Regs |-> {}]

\* RegistrationTable: the registrations an event or a request can find.
InTable(r) == reg[r].life = "live"
Table == InOrder({r \in Regs : InTable(r)})

\* Mutant: the image is never written.
NeverUpdated(r, g) == disk

\* update(): a registration that has left the table has no image to write.
Updated(r, g) == IF InTable(r) THEN [disk EXCEPT ![r] = Image(g)] ELSE disk

----------------------------------------------------------------------------
(* References.  A stored bundle nothing refers to any more is freed by an  *)
(* event at the tail of the queue; an acknowledgement only names its       *)
(* bundle.                                                                 *)

Held(g) == Range(g.list) \cup Range(g.unacked) \cup Range(g.acked)

Freed(q) ==
    LET held == pending' \cup (UNION {Held(reg'[r]) : r \in Regs})
                    \cup {q[k].b : k \in {j \in DOMAIN q : q[j].type # "ack"}}
        free == InOrder(stored' \ held)
    IN q \o [k \in DOMAIN free |-> BundleEvent("free", free[k])]

----------------------------------------------------------------------------
(* The registration object.                                                *)

\* A bundle list never holds a bundle twice.
PushBack(list, b) == IF b \in Range(list) THEN list ELSE Append(list, b)

Erase(list, b) == OnlyIn(list, Bundles \ {b})

Drops(g) == ~g.active /\ g.kind.failure = "DROP"

\* Queue the bundle for the application, now or when it binds again; without
\* a replay a bundle for a passive registration counts as acknowledged.
deliver_bundle(g, b) ==
    IF Drops(g) THEN g
    ELSE IF g.active \/ g.kind.replay = "NEW"
    THEN [g EXCEPT !.list = PushBack(@, b)]
    ELSE [g EXCEPT !.acked = PushBack(@, b)]

\* deliver_to_registration, on the registration, its forwarding log entries
\* and the events posted so far.
deliver_to_registration(acc, b, r) ==
    LET g == acc.reg
        known == b \in g.cache
    IN IF acc.log[b] = "DELIVERED" THEN acc
       ELSE [reg |-> IF known THEN g
                     ELSE deliver_bundle([g EXCEPT !.cache = @ \cup {b}], b),
             log |-> IF known /\ acc.log[b] = "PENDING_DELIVERY" THEN acc.log
                     ELSE [acc.log EXCEPT ![b] = "DELIVERED"],
             posted |-> IF known \/ ~Drops(g) THEN acc.posted
                        ELSE Append(acc.posted, Event("delivered", b, r))]

\* The walk over the pending list when a registration is new: after[n] is the
\* state once n of the bundles are done.
DeliverEach(start, bundles, r) ==
    LET after[n \in 0 .. Len(bundles)] ==
            IF n = 0 THEN start
            ELSE deliver_to_registration(after[n - 1], bundles[n], r)
    IN after[Len(bundles)]

\* Mutant: what was handed out counts as received.
ForgetsUnacked(g) == [g EXCEPT !.unacked = <<>>]

\* BundleList::move_contents, onto a list that may have some of the bundles.
move_contents(list, other) == other \o OnlyIn(list, Bundles \ Range(other))

\* set_active(true): what was handed out and not acknowledged is queued again,
\* and with a full replay everything that was.
set_active_callback(g) ==
    LET again == [g EXCEPT !.list = move_contents(g.unacked, @),
                           !.unacked = <<>>]
    IN IF g.kind.replay = "ALL"
       THEN [again EXCEPT !.list = move_contents(g.acked, @), !.acked = <<>>]
       ELSE again

\* The bundle leaves the first list that has it.
delete_bundle(g, b) ==
    IF b \in Range(g.list) THEN [g EXCEPT !.list = Erase(@, b)]
    ELSE IF b \in Range(g.unacked) THEN [g EXCEPT !.unacked = Erase(@, b)]
    ELSE [g EXCEPT !.acked = Erase(@, b)]

\* Its image is written only when no list had the bundle.
DeletedImage(r, b) ==
    IF b \in Held(reg[r]) THEN disk[r] ELSE Image(reg[r])

\* Mutant: custody of a deleted bundle is not given up.
DeletedInCustody(b) ==
    /\ pending' = pending \ {b}
    /\ custody' = custody
    /\ reg' = [r \in Regs |-> IF InTable(r) THEN delete_bundle(reg[r], b)
                              ELSE reg[r]]
    /\ disk' = [r \in Regs |-> IF InTable(r) THEN DeletedImage(r, b)
                               ELSE disk[r]]

\* BundleDaemon::delete_bundle, for a bundle without links.
Deleted(b) ==
    /\ pending' = pending \ {b}
    /\ custody' = custody \ {b}
    /\ reg' = [r \in Regs |-> IF InTable(r) THEN delete_bundle(reg[r], b)
                              ELSE reg[r]]
    /\ disk' = [r \in Regs |-> IF InTable(r) THEN DeletedImage(r, b)
                               ELSE disk[r]]

\* Mutant: custody does not keep a bundle.
CanDeleteInCustody(b, inCustody) == \E r \in Regs : fwdlog[r][b] = "DELIVERED"

\* The router lets a bundle go that any registration has been given, unless
\* it is in local custody.
can_delete_bundle(b, inCustody) ==
    /\ \E r \in Regs : fwdlog[r][b] = "DELIVERED"
    /\ b \notin inCustody

----------------------------------------------------------------------------
(* The daemon's handlers of bundle events.                                 *)

Handling(type) == eventq # <<>> /\ Head(eventq).type = type

\* Marks the bundle for every registration in the table and posts deliveries.
check_local_delivery(b) ==
    /\ fwdlog' = [r \in Regs |-> IF InTable(r)
                                 THEN [fwdlog[r] EXCEPT ![b] = "PENDING_DELIVERY"]
                                 ELSE fwdlog[r]]
    /\ eventq' = Tail(eventq) \o
                 [k \in DOMAIN Table |-> Event("deliver", b, Table[k])]

handle_bundle_received ==
    /\ Handling("received") /\ Head(eventq).src = "peer"
    /\ Head(eventq).b \notin over
    /\ LET b == Head(eventq).b
       IN /\ pending' = pending \cup {b}
          /\ stored' = stored \cup {b}
          /\ custody' = custody \cup ({b} \cap Custodial)
          /\ check_local_delivery(b)
    /\ UNCHANGED <<early, reg, disk, arrived, over, binds, crashes, got,
                   ackSent, peeked>>

\* A bundle whose lifetime is over is not delivered; its timer fires at once.
handle_received_too_late ==
    /\ Handling("received")
    /\ Head(eventq).b \in over
    /\ LET b == Head(eventq).b
       IN /\ pending' = pending \cup {b}
          /\ stored' = stored \cup {b}
          /\ eventq' = <<BundleEvent("expired", b)>> \o Tail(eventq)
    /\ UNCHANGED <<early, reg, disk, fwdlog, custody, arrived, over, binds,
                   crashes, got, ackSent, peeked>>

\* Mutant: marks are not looked at after a restart.
NoDeliveryEvents(b) == <<>>

\* The deliveries that are marked and were not made.
generate_delivery_events(b) ==
    LET marked == InOrder({r \in Regs : fwdlog[r][b] = "PENDING_DELIVERY"})
    IN [k \in DOMAIN marked |-> Event("deliver", b, marked[k])]

\* A bundle read from the store: its marked deliveries are posted again, and
\* it may be found to be no longer needed (event_handlers_completed).
handle_bundle_reloaded ==
    /\ Handling("received") /\ Head(eventq).src = "store"
    /\ Head(eventq).b \notin over
    /\ UNCHANGED stored
    /\ LET b == Head(eventq).b
       IN /\ IF early /\ can_delete_bundle(b, custody) THEN Deleted(b)
             ELSE /\ pending' = pending \cup {b}
                  /\ UNCHANGED <<custody, reg, disk>>
          /\ eventq' = Freed(Tail(eventq) \o generate_delivery_events(b))
    /\ UNCHANGED <<early, fwdlog, arrived, over, binds, crashes, got, ackSent,
                   peeked>>

handle_deliver_bundle_to_reg ==
    /\ Handling("deliver")
    /\ LET b == Head(eventq).b
           r == Head(eventq).r
           done == deliver_to_registration(
                       [reg |-> reg[r], log |-> fwdlog[r], posted |-> <<>>],
                       b, r)
       IN /\ InTable(r)
          /\ reg' = [reg EXCEPT ![r] = done.reg]
          /\ fwdlog' = [fwdlog EXCEPT ![r] = done.log]
          /\ disk' = IF done.log = fwdlog[r] THEN disk
                     ELSE Updated(r, done.reg)
          /\ UNCHANGED <<pending, stored>>
          /\ eventq' = Freed(Tail(eventq) \o done.posted)
    /\ UNCHANGED <<early, custody, arrived, over, binds, crashes, got, ackSent,
                   peeked>>

\* The registration has left the table meanwhile.
handle_deliver_nowhere ==
    /\ Handling("deliver")
    /\ ~InTable(Head(eventq).r)
    /\ UNCHANGED <<reg, pending, stored>>
    /\ eventq' = Freed(Tail(eventq))
    /\ UNCHANGED <<early, disk, fwdlog, custody, arrived, over, binds, crashes,
                   got, ackSent, peeked>>

\* Custody ends with the first delivery, and the bundle may no longer be
\* needed.  The event's registration is only named in a log message.
handle_bundle_delivered ==
    /\ Handling("delivered")
    /\ UNCHANGED stored
    /\ LET b == Head(eventq).b
       IN IF b \in pending /\ early /\ can_delete_bundle(b, {}) THEN Deleted(b)
          ELSE /\ custody' = custody \ {b}
               /\ UNCHANGED <<pending, reg, disk>>
    /\ eventq' = Freed(Tail(eventq))
    /\ UNCHANGED <<early, fwdlog, arrived, over, binds, crashes, got, ackSent,
                   peeked>>

handle_bundle_expired ==
    /\ Handling("expired")
    /\ UNCHANGED stored
    /\ Deleted(Head(eventq).b)
    /\ eventq' = Freed(Tail(eventq))
    /\ UNCHANGED <<early, fwdlog, arrived, over, binds, crashes, got, ackSent,
                   peeked>>

handle_bundle_free ==
    /\ Handling("free")
    /\ stored' = stored \ {Head(eventq).b}
    /\ eventq' = Tail(eventq)
    /\ UNCHANGED <<early, reg, disk, pending, fwdlog, custody, arrived, over,
                   binds, crashes, got, ackSent, peeked>>

\* An acknowledgement is handled in two steps: bundle_ack looks the bundle up
\* before it takes the registration's lock, and a client may bind in between.
\* An acknowledgement of an unknown bundle is ignored; of another it goes on,
\* as the event "acking", which refers to its bundle.
handle_bundle_acknowledged_by_app ==
    /\ Handling("ack")
    /\ LET b == Head(eventq).b
           r == Head(eventq).r
       IN eventq' = IF InTable(r) /\ b \in Range(reg[r].unacked)
                    THEN <<Event("acking", b, r)>> \o Tail(eventq)
                    ELSE Tail(eventq)
    /\ UNCHANGED <<early, reg, disk, pending, stored, fwdlog, custody, arrived,
                   over, binds, crashes, got, ackSent, peeked>>

\* With the lock: the bundle counts as acknowledged wherever it is by now.
bundle_ack ==
    /\ Handling("acking")
    /\ LET b == Head(eventq).b
           r == Head(eventq).r
           g == [reg[r] EXCEPT !.acked = PushBack(@, b), !.unacked = Erase(@, b)]
       IN /\ reg' = [reg EXCEPT ![r] = g]
          /\ disk' = Updated(r, g)
    /\ eventq' = Tail(eventq)
    /\ UNCHANGED <<early, pending, stored, fwdlog, custody, arrived, over,
                   binds, crashes, got, ackSent, peeked>>

----------------------------------------------------------------------------
(* The daemon's handlers of registration events.                           *)

\* The registration enters the table and the store, and gets every pending
\* bundle, in the order of the pending list.
handle_registration_added ==
    /\ Handling("added")
    /\ LET r == Head(eventq).r
           g == [reg[r] EXCEPT !.life = "live"]
           done == DeliverEach(
                       [reg |-> g, log |-> fwdlog[r], posted |-> <<>>],
                       InOrder(pending), r)
       IN /\ reg' = [reg EXCEPT ![r] = done.reg]
          /\ fwdlog' = [fwdlog EXCEPT ![r] = done.log]
          /\ disk' = [disk EXCEPT ![r] = Image(done.reg)]
          /\ eventq' = Tail(eventq) \o done.posted
    /\ UNCHANGED <<early, pending, stored, custody, arrived, over, binds,
                   crashes, got, ackSent, peeked>>

\* reg_table_->del: out of the table and of the store.
TableDel(r) ==
    /\ reg' = [reg EXCEPT ![r].life = "removed"]
    /\ disk' = [disk EXCEPT ![r] = NoImage]

handle_registration_removed ==
    /\ Handling("removed")
    /\ LET r == Head(eventq).r
       IN IF InTable(r)
          THEN /\ TableDel(r)
               /\ eventq' = Append(Tail(eventq), RegEvent("regdelete", r))
          ELSE /\ UNCHANGED <<reg, disk>>
               /\ eventq' = Tail(eventq)
    /\ UNCHANGED <<early, pending, stored, fwdlog, custody, arrived, over,
                   binds, crashes, got, ackSent, peeked>>

\* A bound registration stays until its binding clears.
handle_registration_expired ==
    /\ Handling("regexpired")
    /\ InTable(Head(eventq).r)
    /\ LET r == Head(eventq).r
       IN IF reg[r].active
          THEN /\ reg' = [reg EXCEPT ![r].expired = TRUE]
               /\ disk' = disk
               /\ eventq' = Tail(eventq)
          ELSE /\ TableDel(r)
               /\ eventq' = <<RegEvent("regdelete", r)>> \o Tail(eventq)
    /\ UNCHANGED <<early, pending, stored, fwdlog, custody, arrived, over,
                   binds, crashes, got, ackSent, peeked>>

\* The event's registration is gone: a dead regid, if its memory still tells.
handle_registration_dead ==
    /\ Handling("regexpired")
    /\ ~InTable(Head(eventq).r)
    /\ eventq' = Tail(eventq)
    /\ UNCHANGED <<early, reg, disk, pending, stored, fwdlog, custody, arrived,
                   over, binds, crashes, got, ackSent, peeked>>

handle_registration_delete ==
    /\ Handling("regdelete")
    /\ LET r == Head(eventq).r
       IN reg' = [reg EXCEPT ![r] = [NoReg EXCEPT !.life = "freed",
                                                  !.kind = reg[r].kind,
                                                  !.timer = FALSE]]
    /\ UNCHANGED <<pending, stored>>
    /\ eventq' = Freed(Tail(eventq))
    /\ UNCHANGED <<early, disk, fwdlog, custody, arrived, over, binds, crashes,
                   got, ackSent, peeked>>

\* Registration::ExpirationTimer, on the daemon's thread.
ExpirationTimer(r) ==
    /\ ~Handling("acking")
    /\ reg[r].timer
    /\ reg[r].life \in {"adding", "live", "removed"}
    /\ reg' = [reg EXCEPT ![r].timer = FALSE, ![r].expired = TRUE]
    /\ eventq' = IF reg[r].active THEN eventq
                 ELSE Append(eventq, RegEvent("regexpired", r))
    /\ UNCHANGED <<early, disk, pending, stored, fwdlog, custody, arrived,
                   over, binds, crashes, got, ackSent, peeked>>

----------------------------------------------------------------------------
(* The API server's clients.                                               *)

\* Its client waits until the daemon has handled the event.
handle_register(r, kind, active) ==
    /\ reg[r].life = "none"
    /\ \A q \in 1 .. r - 1 : reg[q].life # "none"
    /\ reg' = [reg EXCEPT ![r] = NewReg(kind, active)]
    /\ eventq' = Append(eventq, RegEvent("added", r))
    /\ UNCHANGED <<early, disk, pending, stored, fwdlog, custody, arrived,
                   over, binds, crashes, got, ackSent, peeked>>

handle_bind(r) ==
    /\ InTable(r) /\ ~reg[r].active
    /\ binds < MaxBinds
    /\ LET g == set_active_callback([reg[r] EXCEPT !.active = TRUE])
       IN /\ reg' = [reg EXCEPT ![r] = g]
          /\ disk' = IF Image(g) = Image(reg[r]) THEN disk ELSE Updated(r, g)
    /\ binds' = binds + 1
    /\ UNCHANGED <<early, pending, stored, fwdlog, custody, eventq, arrived,
                   over, crashes, got, ackSent, peeked>>

\* Mutant: a registration that expired while it was bound is forgotten.
ClosesOnly(r) ==
    /\ reg[r].life \in {"live", "removed"}
    /\ reg[r].active /\ reg[r].recv = "idle"
    /\ reg' = [reg EXCEPT ![r].active = FALSE]
    /\ UNCHANGED <<early, disk, pending, stored, fwdlog, custody, eventq,
                   arrived, over, binds, crashes, got, ackSent, peeked>>

\* dtn_unbind, and close_client when the application leaves or dies: an
\* expired registration goes with its binding.
close_client(r) ==
    /\ reg[r].life \in {"live", "removed"}
    /\ reg[r].active /\ reg[r].recv = "idle"
    /\ reg' = [reg EXCEPT ![r].active = FALSE]
    /\ eventq' = IF reg[r].expired
                 THEN Append(eventq, RegEvent("regexpired", r))
                 ELSE eventq
    /\ UNCHANGED <<early, disk, pending, stored, fwdlog, custody, arrived,
                   over, binds, crashes, got, ackSent, peeked>>

\* dtn_unregister of a registration the client is bound to: force_expire.
UnregisterBound(r) ==
    /\ "unregister" \in Calls
    /\ InTable(r) /\ reg[r].active /\ reg[r].recv = "idle" /\ ~reg[r].expired
    /\ reg' = [reg EXCEPT ![r].expired = TRUE, ![r].timer = FALSE]
    /\ UNCHANGED <<early, disk, pending, stored, fwdlog, custody, eventq,
                   arrived, over, binds, crashes, got, ackSent, peeked>>

\* dtn_unregister of one nobody is bound to; the client waits for the daemon.
UnregisterPassive(r) ==
    /\ "unregister" \in Calls
    /\ InTable(r) /\ ~reg[r].active
    /\ RegEvent("removed", r) \notin Range(eventq)
    /\ eventq' = Append(eventq, RegEvent("removed", r))
    /\ UNCHANGED <<early, reg, disk, pending, stored, fwdlog, custody, arrived,
                   over, binds, crashes, got, ackSent, peeked>>

\* dtn_recv and dtn_peek: the client sees a bundle on the list ...
wait_for_notify(r) ==
    /\ reg[r].life \in {"live", "removed"}
    /\ reg[r].active /\ reg[r].recv = "idle" /\ reg[r].list # <<>>
    /\ reg' = [reg EXCEPT ![r].recv = "ready"]
    /\ UNCHANGED <<early, disk, pending, stored, fwdlog, custody, eventq,
                   arrived, over, binds, crashes, got, ackSent, peeked>>

deliver_front(g) ==
    LET b == Head(g.list)
        taken == [g EXCEPT !.list = Tail(@), !.recv = "idle"]
    IN IF g.kind.acking THEN [taken EXCEPT !.unacked = PushBack(@, b)]
       ELSE [taken EXCEPT !.acked = PushBack(@, b)]

\* Mutant: the bundle goes out before the image is written.
RecvUnsaved(r) ==
    /\ reg[r].recv = "ready" /\ reg[r].list # <<>>
    /\ LET b == Head(reg[r].list)
       IN /\ reg' = [reg EXCEPT ![r] = deliver_front(reg[r])]
          /\ eventq' = Append(eventq, Event("delivered", b, r))
          /\ got' = [got EXCEPT ![r][b] = IF @ < 2 THEN @ + 1 ELSE @]
    /\ UNCHANGED <<early, disk, pending, stored, fwdlog, custody, arrived,
                   over, binds, crashes, ackSent, peeked>>

\* ... and takes it in a second step.
handle_recv(r) ==
    /\ reg[r].recv = "ready" /\ reg[r].list # <<>>
    /\ LET g == deliver_front(reg[r])
           b == Head(reg[r].list)
       IN /\ reg' = [reg EXCEPT ![r] = g]
          /\ disk' = Updated(r, g)
          /\ eventq' = Append(eventq, Event("delivered", b, r))
          /\ got' = [got EXCEPT ![r][b] = IF @ < 2 THEN @ + 1 ELSE @]
    /\ UNCHANGED <<early, pending, stored, fwdlog, custody, arrived, over,
                   binds, crashes, ackSent, peeked>>

\* What the runs bound.
FaultCount == Cardinality(over) + crashes

\* The bundle has been moved as in a receive but cannot be handed over (no
\* temporary file, an unknown location, an encoding error): the client gets an
\* error and the daemon hears of nothing.
handle_recv_fails(r) ==
    /\ "error" \in Calls /\ FaultCount < MaxFaults
    /\ crashes' = crashes + 1
    /\ reg[r].recv = "ready" /\ reg[r].list # <<>>
    /\ LET g == deliver_front(reg[r])
       IN /\ reg' = [reg EXCEPT ![r] = g]
          /\ disk' = Updated(r, g)
    /\ UNCHANGED <<early, pending, stored, fwdlog, custody, eventq, arrived,
                   over, binds, got, ackSent, peeked>>

\* The front bundle is popped as in a receive, and that is all.
handle_peek(r) ==
    /\ "peek" \in Calls
    /\ reg[r].recv = "ready" /\ reg[r].list # <<>>
    /\ reg' = [reg EXCEPT ![r].list = Tail(@), ![r].recv = "idle"]
    /\ peeked' = [peeked EXCEPT ![r] = @ \cup {Head(reg[r].list)}]
    /\ UNCHANGED <<pending, stored>>
    /\ eventq' = Freed(eventq)
    /\ UNCHANGED <<early, disk, fwdlog, custody, arrived, over, binds, crashes,
                   got, ackSent>>

handle_ack(r, b) ==
    /\ reg[r].kind.acking /\ reg[r].active /\ reg[r].recv = "idle"
    /\ reg[r].life \in {"live", "removed"}
    /\ got[r][b] > 0 /\ b \notin ackSent[r]
    /\ eventq' = Append(eventq, Event("ack", b, r))
    /\ ackSent' = [ackSent EXCEPT ![r] = @ \cup {b}]
    /\ UNCHANGED <<early, reg, disk, pending, stored, fwdlog, custody, arrived,
                   over, binds, crashes, got, peeked>>

----------------------------------------------------------------------------
(* Bundles that come and go, and restarts.                                 *)

Arrive ==
    /\ arrived < NBundles
    /\ arrived' = arrived + 1
    /\ eventq' = Append(eventq, Received(arrived + 1, "peer"))
    /\ UNCHANGED <<early, reg, disk, pending, stored, fwdlog, custody, over,
                   binds, crashes, got, ackSent, peeked>>

\* The bundle's timer, on the daemon's thread, posts at the head of the queue.
LifetimeEnds(b) ==
    /\ ~Handling("acking")
    /\ b <= arrived /\ b \notin over
    /\ FaultCount < MaxFaults
    /\ over' = over \cup {b}
    /\ eventq' = IF b \in pending THEN <<BundleEvent("expired", b)>> \o eventq
                 ELSE eventq
    /\ UNCHANGED <<early, reg, disk, pending, stored, fwdlog, custody, arrived,
                   binds, crashes, got, ackSent, peeked>>

\* A registration read from the store has those of its bundles that were.
Reloaded(r) ==
    LET Known(list) == OnlyIn(list, stored)
    IN IF disk[r].stored
       THEN [NewReg(reg[r].kind, FALSE) EXCEPT
                 !.life = "live",
                 !.list = Known(disk[r].list),
                 !.unacked = Known(disk[r].unacked),
                 !.acked = Known(disk[r].acked)]
       ELSE [NoReg EXCEPT !.life = IF reg[r].life = "none" THEN "none"
                                   ELSE "freed",
                          !.kind = reg[r].kind, !.timer = FALSE]

\* load_bundles and load_registrations.
Restart ==
    /\ reg' = [r \in Regs |-> Reloaded(r)]
    /\ pending' = {}
    /\ LET ids == InOrder(stored)
       IN eventq' = [k \in DOMAIN ids |-> Received(ids[k], "store")]
    /\ UNCHANGED <<early, disk, stored, fwdlog, custody, arrived, over, binds,
                   got, ackSent, peeked>>

Crash ==
    /\ "crash" \in Calls
    /\ FaultCount < MaxFaults
    /\ crashes' = crashes + 1
    /\ Restart

\* The list went empty after wait_for_notify: ASSERT(b != NULL) stops the
\* daemon, which is started again.
AssertFails(r) ==
    /\ reg[r].recv = "ready" /\ reg[r].list = <<>>
    /\ UNCHANGED crashes
    /\ Restart

----------------------------------------------------------------------------
Daemon ==
    \/ handle_bundle_received \/ handle_received_too_late
    \/ handle_bundle_reloaded
    \/ handle_deliver_bundle_to_reg \/ handle_deliver_nowhere
    \/ handle_bundle_delivered \/ handle_bundle_expired \/ handle_bundle_free
    \/ handle_bundle_acknowledged_by_app \/ bundle_ack
    \/ handle_registration_added \/ handle_registration_removed
    \/ handle_registration_expired \/ handle_registration_dead
    \/ handle_registration_delete

Clients(r) ==
    \/ \E kind \in Kinds, active \in BOOLEAN : handle_register(r, kind, active)
    \/ handle_bind(r) \/ close_client(r)
    \/ UnregisterBound(r) \/ UnregisterPassive(r)
    \/ wait_for_notify(r) \/ handle_recv(r) \/ handle_recv_fails(r)
    \/ handle_peek(r)
    \/ \E b \in Bundles : handle_ack(r, b)

Next ==
    \/ Daemon
    \/ \E r \in Regs : Clients(r) \/ ExpirationTimer(r) \/ AssertFails(r)
    \/ \E b \in Bundles : LifetimeEnds(b)
    \/ Arrive
    \/ Crash

Timers == \E r \in Regs : ExpirationTimer(r)

Spec == Init /\ [][Next]_vars /\ WF_vars(Daemon) /\ WF_vars(Timers)
----------------------------------------------------------------------------
(* Properties.                                                             *)

\* Types of the variables (the registration's lists, the table, the log).
TypeOK ==
    /\ early \in BOOLEAN
    /\ \A r \in Regs :
        /\ reg[r].life \in {"none", "adding", "live", "removed", "freed"}
        /\ {reg[r].active, reg[r].expired, reg[r].timer} \subseteq BOOLEAN
        /\ reg[r].recv \in {"idle", "ready"}
        /\ Held(reg[r]) \subseteq Bundles
        /\ \A list \in {reg[r].list, reg[r].unacked, reg[r].acked} :
               IsInjective(list)
    /\ pending \subseteq stored /\ stored \subseteq Bundles
    /\ fwdlog \in [Regs -> [Bundles -> {"none", "PENDING_DELIVERY", "DELIVERED"}]]
    /\ custody \subseteq stored
    /\ got \in [Regs -> [Bundles -> 0 .. 2]]

\* What a live registration has been given and its application has not taken,
\* or taken and not acknowledged, is still on one of its lists, until the
\* bundle's lifetime ends; bindings, races with an acknowledgement and restarts
\* included.  Two things do not respect this: a peek, which loses the bundle
\* it looks at, and early deletion, from which only custody protects a bundle
\* (deliver_front, bundle_ack, set_active_callback, try_to_delete).
KeptUntilTaken ==
    \A r \in Regs, b \in Bundles :
        (/\ ~early \/ b \in custody
         /\ InTable(r) /\ b \notin over
         /\ fwdlog[r][b] = "DELIVERED"
         /\ reg[r].kind.failure = "DEFER"
         /\ IF reg[r].kind.acking THEN b \notin ackSent[r]
            ELSE got[r][b] = 0)
        => b \in Held(reg[r]) \cup peeked[r]

Owed(g) == Range(g.list) \cup Range(g.unacked)

\* A restart, wherever it comes, reads back every registration of the table,
\* with everything that was queued or unacknowledged in memory when the node
\* went down (update() after a change of the lists; the bundles outlive their
\* registration's references).  What becomes of it then is another matter: the
\* reload of a bundle may delete it (see KeptUntilTaken).
RestartReadsBack ==
    [][Restart => \A r \in Regs : InTable(r) =>
                      /\ reg'[r].life = "live"
                      /\ Owed(reg[r]) \subseteq Owed(reg'[r])]_vars

\* Without acknowledgements and without a full replay an application gets a
\* bundle at most once, across bindings and restarts (delivery_cache_, the
\* durable DELIVERED entry, and the image written before the bundle goes out).
AutoAckOnce ==
    \A r \in Regs, b \in Bundles :
        (~reg[r].kind.acking /\ reg[r].kind.replay # "ALL") => got[r][b] <= 1

\* Custody of a bundle ends only when an application has it, a passive
\* registration dropped it, or its lifetime ended (release_custody).
CustodyUntilDelivered ==
    \A b \in (stored \cap Custodial) \ (custody \cup over) :
        \E r \in Regs : \/ got[r][b] > 0
                        \/ /\ reg[r].kind.failure = "DROP"
                           /\ fwdlog[r][b] = "DELIVERED"

\* A delivery that was marked is made, also when the node restarts between
\* the two, unless the registration goes or the bundle's lifetime ends.
MarkedIsDelivered ==
    \A r \in Regs, b \in Bundles :
        (fwdlog[r][b] = "PENDING_DELIVERY")
            ~> (fwdlog[r][b] = "DELIVERED" \/ ~InTable(r) \/ b \in over)

\* A registration with an expiration time that has expired and that no client
\* is bound to goes, whichever of timer, unbinding and unregistering came
\* first (handle_registration_expired).
ExpiredGoes ==
    \A r \in Regs :
        (InTable(r) /\ reg[r].expired /\ ~reg[r].active /\ reg[r].kind.expires)
            ~> (~InTable(r) \/ reg[r].active)

\* A bundle that the application received and did not acknowledge is kept for
\* the next binding.
UnackedIsKept ==
    \A r \in Regs, b \in Bundles :
        (/\ InTable(r) /\ reg[r].kind.acking
         /\ got[r][b] > 0 /\ b \notin ackSent[r] \cup over)
        => b \in Held(reg[r])
=============================================================================
