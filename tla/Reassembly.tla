----------------------------- MODULE Reassembly -----------------------------
(***************************************************************************)
(* Reassembly at the destination of one bundle: the fragment manager       *)
(* (FragmentManager.cc, FragmentState.cc) and the daemon's handlers that   *)
(* feed it (BundleDaemon.cc), with the data store and a restart.           *)
(*                                                                         *)
(* Peers transmit the original bundle or fragments of it, in any order and *)
(* as often as they like; a transfer that breaks off leaves a shorter      *)
(* reactive fragment.  The handlers run one at a time on the daemon's      *)
(* thread and talk to each other through its event queue, at whose head or *)
(* tail they post.  All fragments carry one source, destination and        *)
(* creation timestamp, hence one hash key, one reassembly state and one    *)
(* expiration time.                                                        *)
(*                                                                         *)
(* Duplicates are suppressed and bundles deleted early, as configured by   *)
(* default.  The payload is the set of the byte positions that hold data.  *)
(***************************************************************************)
EXTENDS Integers, Sequences, FiniteSets, SequencesExt

CONSTANTS
    OrigLength,     \* payload bytes of the original bundle
    Sent,           \* what peers transmit: records [off, len, frag]
    Faults,         \* subset of {"expire", "console", "crash"}
    MaxArrivals,    \* bound: transfers that reach this node
    MaxWaiting,     \* bound: arrivals waiting in the event queue
    MaxFaults,      \* bound: faults that happen
    MaxStates       \* bound: reassembly states created

Bytes == 0 .. OrigLength - 1

\* Mutant: the last byte is one past the end.
SpanOfTooFar(off, len) == off .. off + len

SpanOf(off, len) == off .. off + len - 1

ASSUME SentAssumption ==
    /\ OrigLength \in Nat \ {0}
    /\ MaxArrivals \in Nat /\ MaxStates \in Nat
    /\ \A s \in Sent : /\ s.off \in Nat /\ s.len \in Nat /\ s.frag \in BOOLEAN
                       /\ s.off + s.len <= OrigLength
                       /\ ~s.frag => s.off = 0 /\ s.len = OrigLength

Ids == 1 .. MaxArrivals + MaxStates

VARIABLES
    bundles,        \* the bundle objects, numbered by bundleid_
    pending,        \* pending_bundles_
    stored,         \* the data store's bundles
    fwdlog,         \* per bundle, its durable entry for the registration
    state,          \* fragment_table_'s entry for the key
    eventq,         \* the daemon's event queue
    reg,            \* the registration's bundles: queued and handed out
    cache,          \* its delivery_cache_ knows the original bundle
    handovers,      \* bundles given to the registration since the start
    arrivals,       \* transfers that have arrived
    over,           \* the bundle's lifetime has ended
    console,        \* the console has expired a bundle
    reloaded        \* the bundles read back at the restart

vars == <<bundles, pending, stored, fwdlog, state, eventq, reg, cache,
          handovers, arrivals, over, console, reloaded>>

NoState == [bundle |-> 0, list |-> <<>>]

Event(type, id, src, list) ==
    [type |-> type, id |-> id, src |-> src, list |-> list]

Received(id, src) == Event("received", id, src, <<>>)
Post(type, id) == Event(type, id, "none", <<>>)

Spread(list, type) == [k \in DOMAIN list |-> Post(type, list[k])]

Init ==
    /\ bundles = <<>> /\ pending = {} /\ stored = {}
    /\ fwdlog = [i \in Ids |-> "none"]
    /\ state = NoState /\ eventq = <<>>
    /\ reg = [queued |-> {}, out |-> {}]
    /\ cache = FALSE /\ handovers = 0
    /\ arrivals = 0 /\ over = FALSE /\ console = 0 /\ reloaded = {}

----------------------------------------------------------------------------
(* FragmentState.                                                          *)

\* insert_sorted by offset: before the first fragment with a larger offset.
add_fragment(list, b) ==
    LET after == {k \in DOMAIN list : bundles[list[k]].off > bundles[b].off}
        pos == IF after = {} THEN Len(list) + 1
               ELSE CHOOSE k \in after : \A j \in after : k <= j
    IN InsertAt(list, pos, b)

\* Mutant: a gap before a fragment is taken for an overlap.
CompletedWithHole(list) ==
    LET Scan(acc, b) ==
            LET end == bundles[b].off + bundles[b].len
            IN IF acc > end THEN acc ELSE end
    IN FoldLeft(Scan, 0, list) = OrigLength

\* Mutant: a fragment that overlaps is skipped as redundant.
CompletedIfAdjacent(list) ==
    LET Scan(acc, b) ==
            IF acc = bundles[b].off THEN acc + bundles[b].len ELSE acc
    IN FoldLeft(Scan, 0, list) = OrigLength

\* The value of done_up_to behind the fragment b: the first byte not covered
\* by it and those before it, or Hole where the scan gives up.
Hole == -1
DoneUpTo(done, b) ==
    LET off == bundles[b].off
        end == off + bundles[b].len
    IN IF done = Hole \/ done < off THEN Hole
       ELSE IF done > end THEN done ELSE end

\* The scan of the sorted list.
check_completed(list) ==
    LET scan[k \in 0 .. Len(list)] ==
            IF k = 0 THEN 0 ELSE DoneUpTo(scan[k - 1], list[k])
    IN scan[Len(list)] = OrigLength

----------------------------------------------------------------------------
(* References.  A stored bundle to which nothing refers any more is freed, *)
(* and deleted from the store, by an event posted at the tail.             *)

Refs(q) == UNION {{q[k].id} \cup Range(q[k].list) : k \in DOMAIN q}

\* The queue after a handler: what it left there, then a free event for
\* each stored bundle whose last reference has just gone.
Freed(q) ==
    LET held == pending' \cup Range(state'.list) \cup Refs(q)
                    \cup reg'.queued \cup reg'.out
        free == SetToSeq(stored \ held)
    IN q \o Spread(free, "free")

\* A list that the bundles ids have been erased from.
Without(list, ids) ==
    LET left[k \in 0 .. Len(list)] ==
            IF k = 0 THEN <<>>
            ELSE IF list[k] \in ids THEN left[k - 1]
            ELSE Append(left[k - 1], list[k])
    IN left[Len(list)]

\* delete_bundle: out of the reassembly list, whose state goes with its last
\* fragment, out of the pending list, and out of the registration.
delete_fragment(ids) ==
    LET left == Without(state.list, ids)
    IN IF left = state.list THEN state
       ELSE IF left = <<>> THEN NoState
       ELSE [state EXCEPT !.list = left]

delete_bundle(ids) ==
    /\ state' = delete_fragment(ids)
    /\ pending' = pending \ ids
    /\ reg' = [queued |-> reg.queued \ ids, out |-> reg.out \ ids]

----------------------------------------------------------------------------
(* Arrivals.                                                               *)

\* try_to_convert_to_fragment: a transfer that stopped after some bytes of
\* the payload becomes a fragment, unless the payload is a single byte.
try_to_convert_to_fragment(s, rcvd) ==
    IF rcvd = s.len THEN s
    ELSE [off |-> s.off, len |-> rcvd, frag |-> TRUE]

\* A convergence layer posts what it has received of a transfer.
Arrive(s, rcvd) ==
    /\ arrivals < MaxArrivals
    /\ Cardinality({k \in DOMAIN eventq : eventq[k].src = "peer"}) < MaxWaiting
    /\ rcvd = s.len \/ s.len > 1
    /\ LET b == try_to_convert_to_fragment(s, rcvd)
           id == Len(bundles) + 1
       IN /\ bundles' = Append(bundles,
                 [off |-> b.off, len |-> b.len, frag |-> b.frag,
                  data |-> SpanOf(b.off, b.len)])
          /\ eventq' = Append(eventq, Received(id, "peer"))
    /\ arrivals' = arrivals + 1
    /\ UNCHANGED <<pending, stored, fwdlog, state, reg, cache, handovers, over,
                   console, reloaded>>

----------------------------------------------------------------------------
(* Handlers.                                                               *)

Handling(type) == eventq # <<>> /\ Head(eventq).type = type

find_duplicate(i) ==
    \E j \in pending : /\ bundles[i].frag = bundles[j].frag
                       /\ bundles[i].off = bundles[j].off
                       /\ bundles[i].len = bundles[j].len

\* add_to_pending, and the try_to_delete that ends the event: a bundle already
\* given to the registration, which only a reload can bring, is deleted again.
add_to_pending(i) ==
    /\ stored' = stored \cup {i}
    /\ IF fwdlog[i] = "DELIVERED"
       THEN /\ pending' = pending
            /\ reg' = [queued |-> reg.queued \ {i}, out |-> reg.out \ {i}]
       ELSE /\ pending' = pending \cup {i}
            /\ reg' = reg

\* A duplicate of a pending bundle is dropped.
handle_duplicate ==
    /\ Handling("received")
    /\ find_duplicate(Head(eventq).id)
    /\ UNCHANGED <<pending, state, reg>>
    /\ eventq' = Freed(Tail(eventq))
    /\ UNCHANGED <<bundles, stored, fwdlog, cache, handovers, arrivals, over,
                   console, reloaded>>

\* A bundle that arrives after its lifetime is pending until its timer fires.
handle_too_late ==
    /\ Handling("received")
    /\ over
    /\ ~find_duplicate(Head(eventq).id)
    /\ add_to_pending(Head(eventq).id)
    /\ UNCHANGED state
    /\ eventq' = Freed(Tail(eventq))
    /\ UNCHANGED <<bundles, fwdlog, cache, handovers, arrivals, over, console,
                   reloaded>>

\* process_for_reassembly: find or create the state, add the fragment, copy
\* its data, and post the completed bundle at the head of the queue.
process_for_reassembly(i) ==
    LET fresh == state = NoState
        whole == IF fresh THEN Len(bundles) + 1 ELSE state.bundle
        list == add_fragment(state.list, i)
        base == IF fresh
                THEN Append(bundles, [off |-> 0, len |-> OrigLength,
                                      frag |-> FALSE, data |-> {}])
                ELSE bundles
        done == check_completed(list)
    IN /\ fresh => Len(bundles) - arrivals < MaxStates
       /\ bundles' = [base EXCEPT ![whole].data = @ \cup bundles[i].data]
       /\ state' = IF done THEN NoState ELSE [bundle |-> whole, list |-> list]
       /\ eventq' = Freed((IF done
                           THEN <<Event("completed", whole, "none", list)>>
                           ELSE <<>>) \o Tail(eventq))

\* A fragment that a peer sent is stored and given to the fragment manager.
handle_fragment_received ==
    /\ Handling("received")
    /\ Head(eventq).src = "peer"
    /\ LET i == Head(eventq).id
       IN /\ ~over /\ ~find_duplicate(i) /\ bundles[i].frag
          /\ add_to_pending(i)
          /\ process_for_reassembly(i)
    /\ UNCHANGED <<fwdlog, cache, handovers, arrivals, over, console, reloaded>>

\* A fragment that was read back from the data store only becomes pending:
\* for that source the handler looks for pending deliveries and no more.
handle_fragment_reloaded ==
    /\ Handling("received")
    /\ Head(eventq).src = "store"
    /\ LET i == Head(eventq).id
       IN /\ ~over /\ ~find_duplicate(i) /\ bundles[i].frag
          /\ add_to_pending(i)
    /\ UNCHANGED state
    /\ eventq' = Freed(Tail(eventq))
    /\ UNCHANGED <<bundles, fwdlog, cache, handovers, arrivals, over, console,
                   reloaded>>

\* Mutant: the state goes and its fragments stay.
ForgetsFragments == <<>>

\* delete_obsoleted_fragments: the state goes, and its fragments are deleted
\* by requests at the tail, the last of the list first.
delete_obsoleted_fragments == Spread(Reverse(state.list), "delete")

\* Mutant: a bundle that reassembly produced is not marked for delivery.
WholeReceivedFromPeer ==
    /\ Handling("received")
    /\ Head(eventq).src # "store"
    /\ LET i == Head(eventq).id
       IN /\ ~over /\ ~find_duplicate(i) /\ ~bundles[i].frag
          /\ add_to_pending(i)
          /\ state' = NoState
          /\ fwdlog' = [fwdlog EXCEPT ![i] = IF Head(eventq).src = "frag"
                                             THEN "none" ELSE "PENDING_DELIVERY"]
          /\ eventq' = Freed(Tail(eventq) \o delete_obsoleted_fragments \o
                             (IF Head(eventq).src = "frag"
                              THEN <<>> ELSE <<Post("deliver", i)>>))
    /\ UNCHANGED <<bundles, cache, handovers, arrivals, over, console,
                   reloaded>>

\* A whole bundle is stored, obsoletes the fragments, and is marked for
\* delivery in the same transaction.
handle_whole_received ==
    /\ Handling("received")
    /\ Head(eventq).src # "store"
    /\ LET i == Head(eventq).id
       IN /\ ~over /\ ~find_duplicate(i) /\ ~bundles[i].frag
          /\ add_to_pending(i)
          /\ state' = NoState
          /\ fwdlog' = [fwdlog EXCEPT ![i] = "PENDING_DELIVERY"]
          /\ eventq' = Freed(Append(Tail(eventq) \o delete_obsoleted_fragments,
                                    Post("deliver", i)))
    /\ UNCHANGED <<bundles, cache, handovers, arrivals, over, console,
                   reloaded>>

\* A whole bundle read back from the store is delivered if it was marked, and
\* deleted at once if it had already been given to the registration.
handle_whole_reloaded ==
    /\ Handling("received")
    /\ Head(eventq).src = "store"
    /\ LET i == Head(eventq).id
       IN /\ ~over /\ ~find_duplicate(i) /\ ~bundles[i].frag
          /\ add_to_pending(i)
          /\ state' = NoState
          /\ eventq' = Freed(Tail(eventq) \o delete_obsoleted_fragments \o
                             (IF fwdlog[i] = "PENDING_DELIVERY"
                              THEN <<Post("deliver", i)>> ELSE <<>>))
    /\ UNCHANGED <<bundles, fwdlog, cache, handovers, arrivals, over, console,
                   reloaded>>

\* Mutant: the reassembled bundle waits behind the freeing of its fragments.
CompletedBehind ==
    /\ Handling("completed")
    /\ delete_bundle(Range(Head(eventq).list))
    /\ eventq' = Append(Freed(Tail(eventq)), Received(Head(eventq).id, "frag"))
    /\ UNCHANGED <<bundles, stored, fwdlog, cache, handovers, arrivals, over,
                   console, reloaded>>

\* The fragments leave the system, and the reassembled bundle is received
\* before anything else happens.
handle_reassembly_completed ==
    /\ Handling("completed")
    /\ delete_bundle(Range(Head(eventq).list))
    /\ eventq' = Freed(<<Received(Head(eventq).id, "frag")>> \o Tail(eventq))
    /\ UNCHANGED <<bundles, stored, fwdlog, cache, handovers, arrivals, over,
                   console, reloaded>>

\* deliver_to_registration, unless the registration's cache has the bundle.
handle_deliver_bundle_to_reg ==
    /\ Handling("deliver")
    /\ LET i == Head(eventq).id
           give == fwdlog[i] # "DELIVERED" /\ ~cache
       IN /\ reg' = IF give THEN [reg EXCEPT !.queued = @ \cup {i}] ELSE reg
          /\ fwdlog' = IF give THEN [fwdlog EXCEPT ![i] = "DELIVERED"]
                       ELSE fwdlog
          /\ cache' = TRUE
          /\ handovers' = IF give THEN handovers + 1 ELSE handovers
    /\ UNCHANGED <<pending, state>>
    /\ eventq' = Freed(Tail(eventq))
    /\ UNCHANGED <<bundles, stored, arrivals, over, console, reloaded>>

\* The application takes the bundle; the daemon learns of it by an event.
AppReceives(i) ==
    /\ i \in reg.queued
    /\ reg' = [queued |-> reg.queued \ {i}, out |-> reg.out \cup {i}]
    /\ eventq' = Append(eventq, Post("delivered", i))
    /\ UNCHANGED <<bundles, pending, stored, fwdlog, state, cache, handovers,
                   arrivals, over, console, reloaded>>

\* A delivered bundle that is still pending is deleted early; an expired one
\* and one whose deletion was requested are deleted in any case.
handle_deletion ==
    /\ \/ Handling("delivered") /\ Head(eventq).id \in pending
       \/ Handling("delete")
       \/ Handling("expired")
    /\ delete_bundle({Head(eventq).id})
    /\ eventq' = Freed(Tail(eventq))
    /\ UNCHANGED <<bundles, stored, fwdlog, cache, handovers, arrivals, over,
                   console, reloaded>>

handle_delivered_gone ==
    /\ Handling("delivered")
    /\ Head(eventq).id \notin pending
    /\ UNCHANGED <<pending, state, reg>>
    /\ eventq' = Freed(Tail(eventq))
    /\ UNCHANGED <<bundles, stored, fwdlog, cache, handovers, arrivals, over,
                   console, reloaded>>

handle_bundle_free ==
    /\ Handling("free")
    /\ stored' = stored \ {Head(eventq).id}
    /\ eventq' = Tail(eventq)
    /\ UNCHANGED <<bundles, pending, fwdlog, state, reg, cache, handovers,
                   arrivals, over, console, reloaded>>

----------------------------------------------------------------------------
(* Faults.                                                                 *)

\* How many faults have happened.
FaultCount ==
    (IF over THEN 1 ELSE 0) + console + (IF reloaded # {} THEN 1 ELSE 0)

LifetimeEnds ==
    /\ "expire" \in Faults /\ ~over /\ FaultCount < MaxFaults
    /\ over' = TRUE
    /\ UNCHANGED <<bundles, pending, stored, fwdlog, state, eventq, reg, cache,
                   handovers, arrivals, console, reloaded>>

\* An expiration timer posts its event at the head of the queue.
ExpirationTimer(i) ==
    /\ over /\ i \in pending
    /\ Post("expired", i) \notin Range(eventq)
    /\ eventq' = <<Post("expired", i)>> \o eventq
    /\ UNCHANGED <<bundles, pending, stored, fwdlog, state, reg, cache,
                   handovers, arrivals, over, console, reloaded>>

\* bundle expire <id>, at the console.
ConsoleExpire(i) ==
    /\ "console" \in Faults /\ console = 0 /\ FaultCount < MaxFaults
    /\ i \in pending
    /\ console' = 1
    /\ eventq' = <<Post("expired", i)>> \o eventq
    /\ UNCHANGED <<bundles, pending, stored, fwdlog, state, reg, cache,
                   handovers, arrivals, over, reloaded>>

\* The daemon dies and starts again from its data store (load_bundles).
Crash ==
    /\ "crash" \in Faults /\ reloaded = {} /\ FaultCount < MaxFaults
    /\ stored # {}
    /\ pending' = {}
    /\ state' = NoState
    /\ reg' = [queued |-> reg.queued \cap stored, out |-> reg.out \cap stored]
    /\ cache' = FALSE
    /\ handovers' = 0
    /\ eventq' = LET ids == SetToSeq(stored)
                 IN [k \in DOMAIN ids |-> Received(ids[k], "store")]
    /\ reloaded' = stored
    /\ UNCHANGED <<bundles, stored, fwdlog, arrivals, over, console>>

----------------------------------------------------------------------------
Daemon ==
    \/ handle_duplicate \/ handle_too_late
    \/ handle_fragment_received \/ handle_fragment_reloaded
    \/ handle_whole_received \/ handle_whole_reloaded
    \/ handle_reassembly_completed
    \/ handle_deliver_bundle_to_reg
    \/ handle_deletion \/ handle_delivered_gone \/ handle_bundle_free

Environment ==
    \/ \E s \in Sent : \E rcvd \in 0 .. s.len : Arrive(s, rcvd)
    \/ \E i \in Ids : AppReceives(i) \/ ExpirationTimer(i) \/ ConsoleExpire(i)
    \/ LifetimeEnds
    \/ Crash

Next == Daemon \/ Environment

Spec == Init /\ [][Next]_vars /\ WF_vars(Daemon)
----------------------------------------------------------------------------
(* Properties.                                                             *)

Covered(ids) == UNION {bundles[i].data : i \in ids}

\* Types of the variables (BundleDaemon's lists, the fragment table).
TypeOK ==
    /\ bundles \in Seq([off : Nat, len : Nat, frag : BOOLEAN,
                        data : SUBSET Bytes])
    /\ Len(bundles) \in 0 .. MaxArrivals + MaxStates
    /\ pending \subseteq Ids /\ stored \subseteq Ids
    /\ fwdlog \in [Ids -> {"none", "PENDING_DELIVERY", "DELIVERED"}]
    /\ state \in [bundle : {0} \cup Ids, list : Seq(Ids)]
    /\ reg \in [queued : SUBSET Ids, out : SUBSET Ids]
    /\ cache \in BOOLEAN /\ over \in BOOLEAN
    /\ handovers \in Nat /\ arrivals \in 0 .. MaxArrivals
    /\ console \in 0 .. 1 /\ reloaded \subseteq Ids

\* What the registration gets is the whole payload: a reassembled bundle never
\* has a hole, however its fragments overlapped, were lost again by expiry or
\* by the console, or came twice (FragmentState::check_completed).
DeliveredIsWhole ==
    \A i \in reg.queued \cup reg.out :
        ~bundles[i].frag /\ bundles[i].data = Bytes

\* Reassembly is noticed at the fragment that completes it: no state is left
\* waiting although its fragments cover the payload (check_completed).
NoCompleteStateWaits ==
    state # NoState => Covered(Range(state.list)) # Bytes

\* The fragment table and the pending list agree.  A deleted fragment leaves its
\* state, and the state goes with its last one (delete_fragment); conversely a
\* pending fragment is tracked or about to be deleted, unless it was read back
\* at a restart (handle_bundle_received, EVENTSRC_STORE) or its time is over.
StateMatchesPending ==
    /\ Range(state.list) \subseteq pending
    /\ state # NoState <=> state.list # <<>>
    /\ \A i \in pending \ reloaded :
           bundles[i].frag => \/ i \in Range(state.list) \cup Refs(eventq)
                              \/ over

\* The data outlives the change from fragments to the whole bundle: no step,
\* and no crash after it, takes a byte out of the data store before the bundle
\* was given to the registration (the order in which the completed bundle and
\* the freed fragments are queued).
StoreKeepsData ==
    [][(/\ ~over' /\ console' = 0
        /\ \A i \in Ids : fwdlog'[i] # "DELIVERED")
       => Covered(stored) \subseteq Covered(stored)']_vars

\* Once every byte is in the store the bundle reaches the registration, unless
\* its lifetime ends, the console expires a part of it or the node restarts.
CompletedIsDelivered ==
    (Covered(stored) = Bytes) ~> (\/ handovers > 0
                                  \/ over \/ console > 0 \/ reloaded # {})
=============================================================================
