# A TLA+ verification of the DTN2 bundle daemon

DTN2 is a delay tolerant networking node: a daemon that stores bundles and
forwards them over links that come and go. This directory holds a model of its
core, the TLC configurations that check it, and machine-checked proofs.

Paths below are relative to `src/servlib/` unless they start with `src/`.

## 1. Inventory

### Threads and shared state

`BundleDaemon::run` is one thread. It pops one event at a time from
`eventq_`; `handle_event` calls the daemon's handler, then the router's, then
the contact manager's, then `event_handlers_completed`. Expired timers run in
the same thread between two events. Handlers post further events, at the tail
(`post`) or at the head (`post_at_head`) of the queue.

Each contact of a connection oriented convergence layer has a thread
(`CLConnection::run`). It shares with the daemon the link's queue and in-flight
list (under the queue's lock), the bundle's formatted blocks, and a command
queue. Listening threads, the console, discovery and the API server post events
and call a few functions of the contact manager directly.

So the hard behaviour is this: an event says what was true when it was posted;
a link or bundle changes while events about it wait; the daemon may wait inside
one handler (`close_contact`) for another thread; and a bundle in the hands of a
connection thread may expire, be cancelled or be deleted.

### Components

| component | state | operations | correct when |
|---|---|---|---|
| links, contacts (`contacts/`) | state, contact, deleted flag, queue, in-flight list | create, open, close, delete, set available | an OPEN link has a live connection; no retry, close or deletion is lost |
| contact manager | links, availability timers, backoff | retry, reset, opportunistic lookup | a broken link is retried; backoff is reset by openings |
| connection layers (`ConnectionConvergenceLayer`, `CLConnection`, `StreamConvergenceLayer`) | connection thread, its in-flight and incoming lists, buffers, command queue | open/close contact, negotiate, send, ack, cancel, break | one connection per link; blocks outlive their use; each bundle ends sent, cancelled or back on the queue; a confirmed bundle is with the peer |
| router (`TableBasedRouter`, `BundleRouter`) | deferred lists, reroute timers | route, defer, check next hop, reroute | a bundle leaves on one link at a time and is never stranded |
| daemon: custody, expiry, deletion | pending and custody lists, timers | receive, transmitted, cancelled, expired, custody signal and timeout | no timer outlives its cause; a deleted bundle is not sent again |
| forwarding log | latest entry per link | add, update | QUEUED means a transmission is under way |
| fragmentation (`FragmentManager`, `FragmentState`) | reassembly lists | fragment, reassemble | completion exactly when the bytes are covered |
| registrations, API server (`reg/`, `src/applib/`) | bundle lists, bindings, expiration timers | register, bind, deliver, recv, ack, replay, expire | a bundle is kept until its application has it; nothing comes twice that should not |
| storage (`storage/`) | persistent tables | add, update, delete, load | a restart resumes every pending bundle |
| protocol encoding (SDNV, sequence ids, dictionary) | none | encode, decode, compare | decoding inverts encoding within the width |
| sessions, BPQ cache, PRoPHET, other routers and layers, discovery, naming, security, simulator, applications | | | see `PROJECT.json` |

`PROJECT.json` lists each component with its status, and every hazard with its
line and the properties that would catch it.

## 2. Modules

| module | models |
|---|---|
| `LinkContact` | one link, its contacts, their connection threads, the event queue |
| `LinkContact_proofs` | theorems about it |
| `BundleForwarding` | one bundle, the links it may leave on, the threads that send it |
| `BundleForwarding_proofs` | theorems about it |
| `StreamCL` | one TCP connection, seen from both ends, down to segments and buffers |
| `StreamLane_proofs`, `StreamCL_proofs` | theorems about it: sending first, then reading, the links and the refinement |
| `BundleTransfer` | abstract: what a link promises about bundles; `StreamCL` implements it |
| `Reassembly` | the fragments of one bundle at its destination, the daemon, the store |
| `Reassembly_proofs` | theorems about it |
| `Delivery` | registrations, the clients of the API server, the store and a restart |
| `Delivery_proofs` | theorems about it |
| `Lists` | walks over ordered containers, used by `StreamCL` and `Delivery` |
| `ProofFacts` | lemmas about numbers, loops, finite sets and queues, that the proofs share |
| `MC...` | constants for TLC |

How they fit: `LinkContact` shows that a link that is down is retried and that
an open one has a connection; `BundleForwarding` takes both for granted and
shows that a bundle is handed to one link at a time until it is sent;
`StreamCL` shows what that hand-over means on the wire; what arrives there is
what `Reassembly` receives, and what that delivers is what `Delivery` gives to
applications.

Definitions keep the source's names (`handle_contact_up`, `close_contact` as
`RequestClosed` and `CloseCompleted`, and so on). `PROJECT.json` maps each to its
lines. Definitions marked as mutants are variants of the definition below them, with
the mistake a programmer might make there; no specification uses them.

### LinkContact

Links share no state, so one link is modelled; its type is a parameter.

* `state`, `contact`, `deleted`, `clInfo`, `retryInterval` are the fields of
  `Link`. `known` says the link is in `ContactManager::links_`, and `timer` that
  it is in `availability_timers_`.
* `conn[c]` is the connection thread of contact `c`: connecting, accepted (an
  inbound connection that has its contact), up, or broken, until
  `close_contact()` deletes it. Contacts are reference counted, so a contact
  that nothing names is used again (`Unreferenced`).
* `eventq` is the daemon's queue restricted to this link. A
  `LinkStateChangeRequest` records the contact the link had when it was posted,
  as its constructor does; `Stale` is the comparison the handler makes.
* `closing` is set while the daemon thread waits in `close_contact()`: it handles
  no event, and the other threads run. The handler is two actions because other
  threads see the state between them.
* `accepting` is set while an inbound connection is between its lookup of an
  idle link and its assertion that the link has no contact. The contact
  manager's lock is held; handlers that take it first wait (`CMLockFree`).
* `aborted` names the `ASSERT` that stopped the process. Nothing happens after.

Left out: what the link carries, and how links find one another. An open request
is compared with the link's contact and handled in one step; the code compares
(`bundling/BundleDaemon.cc:1759`) before it takes the contact manager's lock
(1776), and `open_link` looks at the link's state and contact once it has it.

### BundleForwarding

* `link[l]` holds what link `l` and the bundle know of each other: the link's
  state, the latest forwarding log entry, whether formatted blocks exist, and
  membership of the queue, the in-flight list and the router's deferred list.
* `cl[l]` is the bundle in the connection's own `InFlightList`: started (no
  segment sent), sent (in whole or part), acked (in part), posted (the last ack
  came before `finish_bundle`).
* `room[l]` is what other bundles leave of the queue: below the low water mark,
  between the marks, or full.
* `custodyTimer[l]` is none, pending, or fired (its event is queued).
  `reroute[l]` is the router's timer; one that fired keeps its table entry.
* The router's operators take the links' records `lk` and return them changed,
  so a handler is the composition of the calls it makes, in their order.

Assumed: all routes forward (`FORWARD_ACTION`); the links lead to different
nodes; `early_deletion_` is on, its default. A link's life is that of
`LinkContact`, with at most one queued close request per link (so none is
stale) and a retry that `LinkContact` shows to be pending.

### StreamCL and BundleTransfer

* `conn[e]` is the `Connection` object of end `e` with its socket: the
  negotiated parameters, the send and receive buffers, `wire` (what the sockets
  and the network hold in the direction away from `e`), the lists `inflight` and
  `incoming`, what is left of the segment being sent (`todo`) and received
  (`rcvTodo`), the events posted to `e`'s daemon, and `rcvd`, the bundles posted
  as received.
* `link[e]` is the link as the daemon sees it: queue, in-flight list, and the
  bundles whose fate it knows.
* The stream consists of units; a contact header, an acknowledgement and a
  keepalive are one unit each, a segment header two (a read may stop between
  them, and the handler is then called again for the same byte), a bundle as
  many as `Length` says, of which the first `HeaderLen` precede the payload.
* Operators take a connection and return it changed, so `process_data` applies
  `HandleUnit` to what was read, unit by unit, and `send_pending_data` the composition of
  the calls it makes. `process_data` returns after the contact header and leaves
  what came with it for the next read (`stall`).
* The accepting end negotiates on the layer's default parameters, and
  `find_contact` then swings to those of the link (`old`).
* A cancellation succeeds for a bundle of which nothing was sent. The connection
  takes it off its own list, and the daemon, when it handles the event, notes the
  cancellation and frees the blocks; as in the code it leaves the bundle on the
  link's in-flight list, which `close_contact`, going by the connection's list,
  does not look at.

`BundleTransfer` has two variables: what the sender's daemon knows of a bundle
(`held`) and which bundles the peer's daemon was given whole (`got`). The
refinement mapping (`Transfer` in `StreamCL`) reads `held` off the link's lists,
the counts of the transmitted event and the daemon's note of a cancellation, and
`got` off the peer's `rcvd`. A bundle that counts as sent to its end is
"confirmed" on a reliable link with acknowledgements and "assumed" otherwise: on
an unreliable one the daemon counts what was sent, whatever was acknowledged. One
read may bring the ends of several bundles, so `Arrive` takes a set.

Left out: version mismatch, the EID exchange, reconnection (one connection is
modelled; a new one starts from `Init` with the queue that is left), and
REFUSE_BUNDLE, which the code does not implement.

### Reassembly

* `bundles[i]` is the i-th bundle object made; its payload is the set of byte
  positions it holds. `pending`, `stored`, `fwdlog`, `eventq` are the daemon's,
  `state` is the `FragmentState` of the one key (0 when there is none), `reg`
  the registration's bundles, `cache` its `delivery_cache_`.
* `Freed` ends every handler: a stored bundle to which no list, event or state
  refers any more gets its `BundleFreeEvent` at the tail, as `Bundle::del_ref`
  posts it. This makes the order of freeing and delivery visible.
* What a peer sends is a whole bundle or a fragment, and any prefix of it when
  the connection breaks (`try_to_convert_to_fragment`).
* The scan of `check_completed` is a recursive function over the list, with
  `DoneUpTo` for one round of its loop; `Hole` is the early return.
* All fragments have the same `orig_length`, so the PANIC of `check_completed` on
  fragments that disagree about it (`bundling/FragmentState.cc:72`) is left out;
  a peer that sends such fragments reaches it.
* The bound `MaxStates` limits how many bundle objects reassembly makes
  (`process_for_reassembly` waits at the bound); no other step is limited by it.
* `Crash` keeps `stored` and `fwdlog`, and loses the rest.

### Delivery

* `reg[r]` is the registration object with its three lists, whether a client is
  bound, and its timer; `disk[r]` is its stored image, written by `update()`.
  `InTable` is false between the object's construction and
  `handle_registration_added`, and after removal.
* A receive is two steps, `wait_for_notify` and `handle_recv`, because the
  daemon may empty the list in between. The second may fail after it has moved
  the bundle (`handle_recv_fails`): then nobody has it and the daemon is not told.
* An acknowledgement is two steps of the daemon: `bundle_ack` finds the bundle
  on the unacknowledged list before it takes the registration's lock. Until it
  has it, the event is "acking". A client that binds in between moves the bundle
  back to the queue, and it ends both queued and acknowledged. So a bundle may be
  on two lists, never twice on one.
* Other API calls are one step. `close_client` clears the bound flag and then
  looks whether the registration has expired, the timer sets the one and then
  looks at the other; in every order at least one of them sees both.
* A handler's writes to the store are one transaction (the handlers begin it,
  `BundleDaemon::handle_event` ends it once all of them have run); a client
  thread's writes are durable at once.
* `got`, `ackSent`, `peeked` are history: what clients have seen and said.

## 3. Runs

Every run uses the definitions as they stand; a configuration only gives
constants their values.

| run | question | distinct states |
|---|---|---|
| `link_alwayson` | Is a broken ALWAYSON link always retried? Does the daemon always leave `close_contact()`? | 69,207 |
| `link_ondemand` | What if an ONDEMAND link is closed, deleted, goes idle or breaks at any moment? | 217,852 |
| `link_opportunistic` | Do inbound connections, discovery, the router and a deletion ever give a link two connections? | 180,827 |
| `fwd_faults` | Is a bundle sent in the end, on one link at a time, whatever breaks, with custody timers that match? | 132,281 |
| `fwd_delete` | Are the blocks safe, and is the bundle let go, when it expires, is deleted or cancelled? | 394,573 |
| `stream` | Do two ends understand each other, and is a confirmed bundle really with the peer? | 839,856 |
| `stream_live` | Do bundles get through, and do both ends give up together? | 89,556 |
| `reassembly` | Is exactly a complete bundle delivered, and is its data safe meanwhile? | 173,545 |
| `delivery` | Does an application get what it should, once, across unbinds, expiries and a restart? | 841,769 |

### Properties

Links:

* `OneConnection`, `OpenIsServed`: every connection thread serves the link's
  current contact; OPEN means the connection was established.
* `DeadContactWillClose`, `RetryPending`: no dead contact and no retry is
  forgotten. Both look through the queue for an event that is not stale.
* `NoNewContactOnceDeleted`: a deleted link is not connected again, whatever is
  queued.
* `UnavailableAssertHolds`: an assertion of the daemon never fails.
* `ReopenedAfterBreak`, `CloseCompletes`, `DeletedLinkReleased`: liveness.

Bundles:

* `BlocksOutliveUse`: no thread sends from blocks that were freed.
* `QueuedIsUnderWay`, `InFlightIsServed`: the log and the in-flight list, which
  the daemon relies on, agree with what the connection threads do.
* `OneLinkAtATime`, `NeverStranded`, `EventuallySent`: not twice, and not never.
* `CustodyTimersMatch`, `NotQueuedOnceDeleted`: timers and queued events do not
  outlive what they are about.

Connections:

* `NoProtocolError`: neither end ever breaks the contact with a protocol error,
  and the bundle that is complete is the first in flight.
* `ReceivedIntact`: what a daemon gets is a bundle as sent, or one cut off.
* `NotSentAgain`: what was reported transmitted is not on the queue again.
* `CancelledNeverArrives`: nothing of a bundle noted as cancelled is given to the
  peer's daemon, although it stays on the link's in-flight list.
* `ImplementsTransfer`: the refinement. A bundle is reported as confirmed only
  once the peer's daemon has it whole, every bundle stays queued or in flight
  until its fate is known, and a fate is final.
* `EventuallyTransmitted`, `BothClose`: liveness.

Reassembly:

* `DeliveredIsWhole`, `NoCompleteStateWaits`: `check_completed` says yes exactly
  when the bytes are covered, in both directions.
* `StateMatchesPending`: the fragment table and the pending list agree.
* `StoreKeepsData`: no step takes a byte out of the store before the delivery.
* `CompletedIsDelivered`: liveness.

Delivery:

* `KeptUntilTaken`: nothing is lost that an application has not had, across
  bindings, acknowledgements that race them and restarts. With early deletion it
  says this of bundles in custody only, and it excepts what was peeked at; both
  exceptions are in section 4. A bundle that is acknowledged automatically and
  whose receive then fails is still on the acknowledged list and counts as kept.
* `RestartReadsBack`: a restart at any moment finds in the store what every
  registration of the table had queued or unacknowledged in memory. It is about
  the step that reads the store; what the reload makes of the bundles afterwards
  is for `KeptUntilTaken` to say.
* `AutoAckOnce`: nothing comes twice without acknowledgements and full replay.
* `CustodyUntilDelivered`: custody lasts until somebody has the bundle.
* `MarkedIsDelivered`, `ExpiredGoes`: liveness.

### Bounds

* Three contacts: one in place, one named by stale events, and one to open.
  `QueueBound = 3` limits only requests of other threads; events the daemon and
  connection threads post are never refused. The queue is long enough to hold a
  stale event, a request and a notification at once.
* `MinRetry = 1`, `MaxRetry = 3`: the interval doubles once and is then capped.
* Two links are what "another link" needs. `MaxFaults = 3` in the `fwd` runs
  lets a connection break, be opened again and meet a request or a timeout.
* `stream`: a bundle of two segments, one of a single segment, and one the other
  way, so that acknowledgements, the next bundle and the finish of the last one
  overlap. The wire (2 units) and the send buffer (3) are smaller than a
  segment with its header: every message is cut somewhere. One fault. The
  connecting end has everything on, or no reactive fragmentation, or no
  acknowledgements, or an unreliable link.
* `stream_live`: bundles one way and a wire that holds everything, so that a
  whole transfer can arrive in the read that brings the contact header; two
  faults. A keepalive is sent when the peer has read everything, and closing a
  connection that has broken already does not count as a fault.
* `reassembly`: three payload bytes, the original and three fragments that
  overlap, contain or leave holes, three arrivals of them (each possibly cut
  off), and one fault. Two reassembly states are what a state that was dropped
  and made anew needs.
* `delivery`: one registration of each of three kinds (deferred with automatic
  acknowledgement and expiry; deferred, acknowledged, full replay; dropping,
  without acknowledgement, replay or expiry),
  two bundles of which one is custodial, early deletion on and off, one crash,
  failing receive or end of a lifetime, one bind after the registration.
* `CHECK_DEADLOCK FALSE` everywhere but in `link_alwayson`: the bundle's story
  ends, a link may be deleted, or an assertion stops the process.

### Fairness

The daemon thread never stops (`WF(Daemon)`) and runs its timers. A connection
thread gives an attempt up or establishes it, reads its command queue on every
turn of its loop, and goes on sending while its connection stands. Nothing is
assumed of users, discovery, applications, custody signals or established
connections. `fwd_faults` assumes that a link that is down is opened again,
which `link_alwayson` shows (`ReopenedAfterBreak`).

In `StreamCL` each end's loop keeps turning: it sends what it can
(`send_pending_data`), and a poll that can return does (`WriteReady`,
`ReadReady`, `PeerGone`, the timeout that sends a keepalive). For sending and
reading, weak fairness is written out with `CanSend` and `CanRead`, which say
when the two actions are possible; it is the same condition and cheaper to
evaluate than ENABLED. A read may return any part of what is there.

## 4. Disagreements between the code and what it says

Each is a run that TLC must find violated; `PROJECT.json` quotes the lines.

| run | what happens |
|---|---|
| `viol_unacked` | early deletion, the default, takes a bundle off the unacknowledged list of a registration that waits for its application's acknowledgement |
| `viol_partial` | a connection that breaks within a bundle's last segment loses payload that was acknowledged, although reactive fragmentation is on |
| `viol_negotiated` | an accepting end whose link was made under other defaults does not use the negotiated parameters |

Where an assertion fails in `LinkContact`, the model stops as the process does;
in `Delivery` the process is started again. `OneConnection`, `OpenIsServed`,
`DeadContactWillClose`, `UnavailableAssertHolds`, `RetryPending` and
`NoNewContactOnceDeleted` are proved for every set of commands.

Met while modelling, visible in the models, without a run of their own. Some
properties are checked in configurations where a case below cannot occur:
`NotQueuedOnceDeleted` for a singleton destination, and `BlocksOutliveUse`
without a connection that breaks while the bundle is deleted.

* Deleting an OPEN link marks it deleted before it closes it, and the
  ContactDownEvent of the close fails `ASSERT(!link->isdeleted())` in the router
  (`routing/TableBasedRouter.cc:509`).
* A stale ContactUpEvent resets the backoff of a link that is down: if the console
  closes a link that is being opened, its request may be queued ahead of the
  ContactUpEvent of the contact it closes. The daemon drops that event, the
  contact manager handles it (`bundling/BundleDaemon.cc:2133`). So no property
  says that only an opening resets the interval.
* A bundle that expires while its link is being re-opened and its connection is
  already sending it is reported cancelled, and loses its blocks
  (`conv_layers/ConnectionConvergenceLayer.cc:445`).
* A connection that breaks between a deletion and the cancellation it asked for
  puts the deleted bundle back on the link's queue
  (`conv_layers/ConnectionConvergenceLayer.cc:320`).
* A reroute timer that fires while the link is OPENING is not set again, and an
  attempt that then fails sets none (`routing/TableBasedRouter.cc:547`).
* A stale custody timeout queues a deleted multicast bundle on another link
  (`routing/TableBasedRouter.cc:635`).
* `link set_available false` on a new ONDEMAND link before its initial
  LinkAvailableEvent is handled makes `ASSERT(link->isavailable())` fail
  (`bundling/BundleDaemon.cc:1715`; `aborted = "handle_link_available"`).
* Deleting an opportunistic link between an inbound connection's attach and its
  ContactUpEvent makes `ASSERT(link->contact() == NULL)` fail
  (`conv_layers/ConnectionConvergenceLayer.cc:189`; `"cl_delete_link"`).
* The router opens a discovered opportunistic link without the contact manager's
  lock, between `find_contact()`'s lookup and its assertion
  (`conv_layers/CLConnection.cc:318`; `"find_contact"`).
* `StreamConvergenceLayer::Connection::handle_cancel_bundle` takes a bundle off
  the connection's in-flight list, not off the link's
  (`conv_layers/StreamConvergenceLayer.cc:841`), against the comment in
  `bundling/BundleDaemon.cc:1378`.
* An idle close that takes a bundle just started puts it back on the queue of a
  link that stays AVAILABLE, and nothing opens the link for that bundle
  (`conv_layers/ConnectionConvergenceLayer.cc:317`).
* What arrives with the contact header waits for the next read; with a keepalive
  interval of 0 that may be for ever (`conv_layers/StreamConvergenceLayer.cc:1005`).
* A partial acknowledgement that does not reach the payload, or of a bundle that
  must not be fragmented, leaves the bundle counted as transmitted with no
  remainder to send (`bundling/FragmentManager.cc:420`).
* The accepting end's negotiation overwrites the layer's default parameters for
  every link made later (`conv_layers/TCPConvergenceLayer.cc:319`).
* Fragments read back at a restart are pending and no longer tracked: they are
  not reassembled with those that arrive later
  (`bundling/BundleDaemon.cc:957`; `StateMatchesPending` excepts them).
* `dtn_peek` takes the bundle off the registration's list, although
  `src/applib/dtn_api.h:183` says it does not (`KeptUntilTaken` excepts
  `peeked`).
* With early deletion, the default, a restart deletes bundles that wait for their
  application. The received event of a bundle from the store ends, as every
  received event does, in `try_to_delete` (`bundling/BundleDaemon.cc:2430-2439`);
  a bundle on a registration's list has the entry DELIVERED, so that, unless it
  is in custody, it counts as no longer needed (2633-2649) and is taken off the
  list (2726-2729), before the application had it. `handle_bundle_reloaded` does
  this; it is why `KeptUntilTaken` asks for custody when `early` is on.
* A client that binds between the two halves of an acknowledgement has the
  acknowledged bundle queued again and gets it a second time
  (`reg/APIRegistration.cc:273-280`).
* A receive that fails after `deliver_front` leaves the bundle where only a new
  binding, or without acknowledgements nobody, finds it
  (`src/applib/APIServer.cc:1627-1646`, `1683-1693`).
* A receive whose list was emptied after its wait fails `ASSERT(b != NULL)`
  (`reg/APIRegistration.cc:228`; action `AssertFails`).

## 5. Proofs

`LinkContact_proofs` proves, for every set of contacts, link type, set of
commands, retry limits and queue bound allowed by `ConstantsAssumption`:

| theorem | statement |
|---|---|
| `TypeCorrect` | `Spec => []TypeOK` |
| `OneConnectionHolds` | `Spec => []OneConnection` |
| `OpenIsServedHolds` | `Spec => []OpenIsServed` |
| `UnavailableAssertion` | `Spec => []UnavailableAssertHolds` |
| `DeadContactHolds` | `Spec => []DeadContactWillClose` |
| `NoNewContact` | `Spec => NoNewContactOnceDeleted` |
| `RetryIsNeverLost` | `Spec => []RetryPending` |

The argument:

1. *Queue lemmas* say what taking the head off, appending and prepending do to
   "some event of this kind is queued" and "every event of kind A has one of
   kind B ahead of it".
2. *Kinds of steps.* Every step of `Next` changes link, contact, threads and
   queue in one of twelve ways (it stays, begins or ends a close, opens, comes
   up, breaks, ...). `StepKinds` proves this once; each invariant is then
   proved by cases over the kinds rather than over the actions.
3. *`ConnInv`* strengthens `OneConnection /\ OpenIsServed`. The second is not
   inductive: `handle_contact_up` makes a link OPEN because an event is queued,
   so the invariant has to say that a queued ContactUpEvent is about a
   connection that was established, which in turn needs that a link being
   closed has a contact and that a connecting thread belongs to an OPENING link.
4. *`NotifyInv`*: a queued LinkUnavailableEvent is at the head of the queue and
   the link is UNAVAILABLE, because nothing runs between the close and it.
5. *`CloseInv`* strengthens `DeadContactWillClose`. The request that closes a
   dead contact is dropped if the link is neither OPEN nor OPENING when it is
   handled. That never happens because an inbound contact's ContactUpEvent is
   ahead of its close request, which the invariant states as an order on the
   queue.
6. *`RetryInv`* strengthens `RetryPending`. A promise is an event that leads to
   another attempt: a request to open the link made when it had no contact, or a
   LinkUnavailableEvent that sets the timer. The request would be dropped as
   stale if an UNAVAILABLE link of a retried type could have a contact, or if a
   link the contact manager still knows could be deleted; the invariant excludes
   both.

The invariants were checked with TLC in the three link configurations before
they were proved, the last two with every command.

### BundleForwarding

`BundleForwarding_proofs` proves, for every set of links with any routes, every
set of faults and commands and all bounds allowed by the module's assumptions:

| theorem | statement |
|---|---|
| `TypeCorrect` | `Spec => [](TypeOK /\ EventsNameLinks)` |
| `CustodyTimersAlwaysMatch` | `Spec => []CustodyTimersMatch` |
| `QueuedAlwaysUnderWay` | `Spec => []QueuedIsUnderWay` |
| `DeletedIsNeverQueued` | `Singleton => (Spec => NotQueuedOnceDeleted)` |
| `OneLinkAtATimeAlways` | `"link_cancel" \notin Commands => (Spec => []OneLinkAtATime)` |
| `BlocksAlwaysOutliveUse` | `Singleton /\ ReactiveFrag /\ NoRequestedEnd => (Spec => []BlocksOutliveUse)` |
| `InFlightIsAlwaysServed` | the same for `InFlightIsServed` |
| `NeverStrandedAlways` | the same for `NeverStranded`, when there is a link |

`NoRequestedEnd` says that the bundle is neither cancelled nor deleted by a
command and does not expire. The constants of `fwd_faults` satisfy every
hypothesis. Where they come from: with a multicast destination a stale custody
timeout queues a deleted bundle, and the bundle may be put on a link again while
a connection has it; a console cancellation lets the router hand the bundle to a
second link before the first lets go; a deletion or expiry while a connection
breaks ends a transmission twice (section 4). TLC has a counterexample for each.
Reactive fragmentation, on by default, is needed by the inductive invariant
only: without it a closing link puts a bundle back on its queue whose
transmission is reported already, so one event no longer ends it. TLC finds the
last three properties to hold there too, on two links.
`fwd_delete` checks `BlocksOutliveUse` with deletions and expiry, and without
broken connections.

The argument:

1. *The router's decision.* `Moved` says what the router may do to one link's
   record: open the link, queue the bundle where nothing has it, or nothing.
   The loop of `route_bundle` is a recursive function; `LoopRuns` (in
   `ProofFacts`) carries what one round keeps over all rounds. A routed bundle
   is queued, waits for a link, or counts as sent (`RouteBundleSettles`).
2. *`TypeInv`*: types, and an event about a link names one.
3. *`LogInv`*: blocks exist exactly while the log says so; the
   BundleReceivedEvent comes first and once; timers and transmissions match. It
   gives `CustodyTimersMatch` and `QueuedIsUnderWay`, neither of which is
   inductive: a timer is started by an event that was posted earlier.
4. *`DeletedInv`*: a queued custody timeout meets the log entry TRANSMITTED of
   its own link, and a deleted bundle is deferred nowhere. It makes
   `NotQueuedOnceDeleted` a fact about one step.
5. *`HandInv`*: at most one entry of the log counts as sent, and a bundle is in
   a link's hands only while that entry says QUEUED. The order "the end of a
   cancellation is handled before a custody timeout" is part of it: a timeout
   first would let the router queue the bundle on a second link.
6. *`NoOtherEnd`*: exactly one event ends a transmission, and the connection
   thread is done with the bundle when it is posted.

### Reassembly

`Reassembly_proofs` proves, for every payload length, every set `Sent` of
bundles and fragments that fit it, every set of faults and all bounds:

| theorem | statement |
|---|---|
| `TypeCorrect` | `Spec => []TypeOK` |
| `CheckCompletedIsCoverage` | `check_completed(list)` implies that the fragments cover the payload, and is implied by it for a sorted list |
| `DeliveredIsAlwaysWhole` | `Spec => []DeliveredIsWhole` |
| `CompletionIsNoticed` | `Spec => []NoCompleteStateWaits` |
| `StateAlwaysMatchesPending` | `Spec => []StateMatchesPending` |
| `StoreAlwaysKeepsData` | `Spec => StoreKeepsData` |

The argument:

1. *Lists.* `AddFragmentFacts`: an insertion by offset keeps a list sorted.
   `WithoutFacts`: what an erasure leaves. `CheckCompletedIsCoverage`: the scan
   has an invariant (below `done_up_to` every byte is covered, and unless the
   scan gave up nothing is skipped).
2. *`Requeued`* says how a handler changes the queue: the head goes, one event
   may come to the head, others and the free events come to the tail. Each
   handler is shown to do that once; the invariants are then proved from it.
3. *`TypeInv`*, *`DataInv`*: every bundle that is pending, stored or named by an
   event holds what it says it holds, the state's list is sorted, its data is
   in the state's bundle, and it does not cover the payload. The last gives
   `NoCompleteStateWaits`, the first `DeliveredIsWhole`.
4. *`StateInv`* strengthens `StateMatchesPending`: a pending fragment that the
   state does not have is named by an event that will take it away.
5. *`BirthInv`*: a bundle that has just arrived or been reassembled is named by
   its own event and by nothing else, and the bundle under reassembly by the
   state alone. So the copying of a fragment changes no bundle anything refers to.
6. *`FreeInv`*: a bundle with a free event is not in use and is named by no
   other kind of event, so nothing brings it back.
7. *`StoreInv`*, while nothing is disturbed (no expiry, no delivery): the data of
   a bundle with a free event is in the pending bundles, or in the reassembled
   bundle whose event is at the head of the queue; fragments are deleted only
   when a whole bundle is pending. The position at the head is what makes the
   theorem true: with the event at the tail (`CompletedBehind`) TLC finds the
   loss.

The invariants were checked with TLC before they were proved, also with two
faults and two waiting arrivals.

### Delivery

`Delivery_proofs` proves, for any number of registrations and bundles, any set
of kinds of registrations, with and without early deletion, and all bounds:

| theorem | statement |
|---|---|
| `TypeCorrect` | `Spec => []TypeOK` |
| `ReadBack` | `Spec => RestartReadsBack` |
| `GotOnce` | `Spec => []AutoAckOnce` |
| `KeptForApplication` | `Spec => []KeptUntilTaken` |
| `CustodyHonoured` | `Spec => []CustodyUntilDelivered` |

None of the five is inductive. The argument:

1. *Lists.* `InOrder` lists the numbers of a finite set once each, `OnlyIn`
   keeps the order of a list and no entry twice; both are proved from the
   existence of an increasing enumeration (`IncreasingOrder` in `ProofFacts`).
2. *`RegInv`*, registration by registration (`RegOK`): no bundle is twice on
   the same list of the object or of the image; whatever is on a list, in the
   delivery cache or was ever received has the durable entry DELIVERED
   (`Logged`); exactly the registrations of the table have an image, and it
   holds what the object holds (`Saved`); nothing has happened to one that is
   not in the table yet (`Fresh`); without acknowledgements what was received is
   queued neither in memory nor in the image (`Once`). `GotOnce` needs the image:
   after a restart the lists come from there. The loop over the pending bundles
   when a registration is added is a recursive function (`DeliverEach`), and
   each round keeps `RegOK`.
3. *`StoreInv`*: what is pending or held by a list is stored.
4. *`QueueInv`* makes 3 inductive: a bundle is taken out of the store by an event
   that was posted when the last reference went, and until it is handled no other
   reference may come up. It says which events may be queued as things stand
   (`Good`) and which never together (`Clash`): a bundle arrives once, it is freed
   only when no other event refers to it, a registration is added once. An
   acknowledgement under way is about a bundle that is stored and DELIVERED, which
   is what its second half relies on, wherever the bundle is by then. `Frame`
   and `Spared` say once what a step must leave alone so that the events that
   stay queued are still good.
5. *`CustodyInv`*: custody is kept of pending bundles, or after a restart of those
   about to be read. A queued BundleDeliveredEvent is about a bundle that an
   application has or that a registration dropped (part of `Good`), so the
   release of custody when it is handled is justified then too.
6. *`KeptInv`*: what `KeptUntilTaken` says, of the image as well, of every bundle
   but the excused ones (`Excused`): those whose lifetime is over and, with early
   deletion, those not in custody. Every deletion is of one of them, and a bundle
   leaves custody only to be excused or taken.

The parts of the invariant were checked with TLC in the configuration of
`delivery` before they were proved.

### StreamCL

`StreamLane_proofs` and `StreamCL_proofs` prove, for any bundles of any lengths
in both directions, any segment length, send buffer and socket sizes, any
parameters of the two ends, with and without keepalives, and any faults:

| theorem | statement, each under `OldLinks = {NoParams}` |
|---|---|
| `StreamTypeOK` | `Spec => []TypeOK` |
| `StreamNoProtocolError` | `Spec => []NoProtocolError` |
| `StreamReceivedIntact` | `Spec => []ReceivedIntact` |
| `StreamNotSentAgain` | `Spec => []NotSentAgain` |
| `StreamCancelledNeverArrives` | `Spec => []CancelledNeverArrives` |
| `StreamConfirmedHasArrived` | `Spec => []ConfirmedHasArrived` |
| `StreamFatesAreFinal` | `Spec => FatesAreFinal` |
| `StreamImplementsTransfer` | `Spec => ImplementsTransfer` |

`ConfirmedHasArrived` (a bundle counted as confirmed by the sender's daemon is
with the peer's, whole) and `FatesAreFinal` (what the daemon has learnt of a
bundle is never revised) are defined in `StreamCL_proofs`, in terms of the
connection's lists, and say of `StreamCL` what the abstract transfer promises.

The hypothesis says that the link the accepting end finds is new, as in the runs
`stream` and `stream_live`. Without it the two ends need not agree on
acknowledgements (`viol_negotiated`), and TLC finds a protocol error: an end
that was told of no acknowledgements gets one.

None of the properties is inductive, because what an end may read depends on
what the other wrote long before. The argument:

1. *Lanes.* Each direction is a lane: what its sender has written and its
   receiver has not handled, across send buffer, socket and receive buffer. A
   `Position` on it says what a reader of the stream up to there knows: whether
   the contact header is past, how many bundles and how much of the next one,
   what the current segment still brings, and how much of the opposite lane is
   acknowledged. `Move` says which unit may follow at a position and where it
   leads (it is the protocol's grammar), `Run` the same of a sequence of units.
   `LaneOK`: the units of a lane are a run from the receiver's position
   (`ReadsFrom`, computed from its lists) to the sender's (`WroteTo`). So no cut
   of the stream matters: a write extends the run at one end, a read takes a
   unit off the other, and a socket in between changes nothing.
2. *The bundles begun.* Positions count bundles, and the lists of a connection
   only have the recent ones. The invariant therefore says that there are two
   sequences `h` and `g`, the bundles of which each end has sent a segment, and
   what the ends hold is a part of them. They are bound by a quantifier; no
   history variable is added to the model.
3. *One end.* `SendOK`: the bundles in flight are the last of `h`, all but the
   newest are sent to their ends, only the first has acknowledgements, and a
   bundle whose last acknowledgement came before `finish_bundle` is alone in
   flight. The last part is the assertion in `check_completed`. `RecvOK`: the
   bundles coming in are the next of `g`, their data is what was sent, the ends
   of segments still to be acknowledged are where they should be, and the daemon
   has all but the one that is not complete.
4. *`AcksOK`*: every acknowledgement on a lane, sent or not yet read, is of
   something its sender's daemon has and its receiver has sent. That is what
   makes a confirmation true when it arrives, and it ties the two lanes
   together; a lane is not inductive alone.
5. *After a break* an end writes nothing more and its peer reads what is left:
   then the run goes to some position that the acknowledgements allow, not to
   the sender's, whose lists may be gone.
6. *Links.* `ListsOK` says where each of an end's bundles is (started, begun,
   queued, in flight, done, about to be reported or cancelled); it is a
   statement about nine sets. `OncePerBundle` and `ConfirmedOK` say that reports
   and cancellations are not repeated and that a report of a whole bundle is
   true. `NotSentAgain` needs that a bundle that `close_contact` puts back has
   neither been reported nor has a report waiting in the queue;
   `CancelledNeverArrives` that a cancelled bundle is none of those begun, since
   it stays in flight on the link after the connection has let go of it.
7. *`StreamInv`* is all of these for both ends. The steps are proved from what
   they do to one end (`Continues`, and one lemma for each kind of unit that is
   read); a read is an induction over its units.
8. *Refinement.* With `StreamInv` before and after, a step that moves a bundle
   between the lists is the corresponding step of `BundleTransfer`, a read is an
   `Arrive` of the bundles it completes, a close is a `GiveBack`, and the rest
   stutters. That a fate does not change needs that the negotiated parameters do
   not once a bundle is done, which `OncePerBundle` has.

The proof corrected the model in two places, which TLC confirms with wider
constants than the run had before: several bundles may arrive in one read (a
socket that holds 12 units), and on a link that is not reliable a transmission
that counts as whole says nothing about the peer. `BundleTransfer` and the
refinement mapping above are the corrected ones.

The parts of the invariant were checked with TLC before they were proved.

`ProofFacts` has the induction that these proofs need, in a first-order form
(a property is the set of the values that have it), from the well-foundedness of
the natural numbers.

### Only model-checked

Liveness (`ReopenedAfterBreak`, `CloseCompletes`, `DeletedLinkReleased`,
`EventuallySent`, `EventuallyTransmitted`, `BothClose`, `CompletedIsDelivered`,
`MarkedIsDelivered`, `ExpiredGoes`), which the prover does not reach. Every
invariant, action property and refinement that a passing run checks is a
theorem, under the hypotheses given above. No module declares a RECURSIVE
operator.

## 6. Plan

1. *Done*: `LinkContact` and its proofs, `BundleForwarding`, `StreamCL` with
   `BundleTransfer`, `Reassembly`, `Delivery`.
2. *Done*: every safety property that a passing run checks is a theorem, and so
   is the refinement of `BundleTransfer` by `StreamCL`.
3. Abstract specifications: a link as seen by a router (down, opening, open),
   implemented by `LinkContact`.

### Not modelled

* *No state of their own*: SDNVs, dictionary, block formats, sequence
  identifiers, naming schemes, security blocks, expiration arithmetic. They are
  computation on data that unit tests reach; their boundary cases are listed as
  hazards.
* *Protocol engines outside the repository*: LTP, NORM, the external router and
  TCA programs. Datagram layers send a bundle in one call.
* *Built on what is modelled, and off by default*: sessions, the BPQ cache,
  flooding and DTLSR.
* *PRoPHET*: a library of its own, whose decisions are comparisons of floating
  point predictabilities.
* *Generated or not the daemon*: the XML bindings of the external router and
  convergence layer (about 55,000 lines), the language bindings (about 35,000),
  the simulator, the applications.
* *Within modelled components*: proactive fragmentation, script execution by
  registrations, status reports, run-time changes of routes and parameters,
  link persistence.
