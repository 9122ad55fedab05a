----------------------- MODULE BundleForwarding_proofs -----------------------
(***************************************************************************)
(* Theorems about BundleForwarding, for any number of links, any order of  *)
(* the routes, any number of faults and any length of the event queue.     *)
(***************************************************************************)
EXTENDS BundleForwarding, ProofFacts

(***************************************************************************)
(* The parts of the inductive invariants.                                  *)
(***************************************************************************)
LinkStatesOf == [Links -> LinkRecord]
InHand(r)  == r.queue \/ r.inflight
InUse(l)   == cl[l] \in {"started", "sent", "acked"}

\* Queue q holds an event of type t; one about link l; and not twice.
Has(q, t)     == \E i \in DOMAIN q : q[i].type = t
InQ(q, t, l)  == \E i \in DOMAIN q : q[i].type = t /\ q[i].link = l
Once(q, t, l) == \A i, j \in DOMAIN q :
                    /\ q[i].type = t /\ q[i].link = l
                    /\ q[j].type = t /\ q[j].link = l
                    => i = j

\* Events about a link name one, and so does a request being carried out.
LinkEventTypes == EventTypes \ {"BUNDLE_RECEIVED", "BUNDLE_EXPIRED",
                                "BUNDLE_DELETE", "CUSTODY_SIGNAL"}
LinkedEvent == {e \in Event : e.type \in LinkEventTypes => e.link \in Links}
EventsNameLinks == /\ eventq \in Seq(LinkedEvent)
                   /\ closing # None => closing.link \in Links

TypeInv == TypeOK /\ EventsNameLinks

\* A bundle has its blocks while its log says QUEUED, and none once it says
\* TRANSMITTED.
LogMatchesBlocks ==
    \A l \in Links : /\ link[l].log = "QUEUED" => link[l].blocks
                     /\ link[l].log = "TRANSMITTED" => ~link[l].blocks

\* The BundleReceivedEvent comes once and first.
OnlyFirst(q) ==
    /\ q # <<>>
    /\ \A i \in DOMAIN q : q[i].type = "BUNDLE_RECEIVED" <=> i = 1
ReceivedFirst ==
    /\ status # "new" => ~Has(eventq, "BUNDLE_RECEIVED")
    /\ status = "new" => /\ OnlyFirst(eventq)
                         /\ ~expiration /\ ~custody
                         /\ \A l \in Links :
                               /\ link[l].log = "NONE" /\ ~link[l].blocks
                               /\ ~InHand(link[l]) /\ ~link[l].deferred

TimersMatch ==
    /\ custody => status = "pending"
    /\ \A l \in Links : custodyTimer[l] # "none"
                        => custody /\ link[l].log = "TRANSMITTED"

\* What QueuedIsUnderWay says, and that the link's own in-flight list has a
\* bundle that the connection is sending.
UnderWay ==
    \A l \in Links : link[l].log = "QUEUED"
        => \/ link[l].queue
           \/ link[l].inflight /\ InUse(l)
           \/ Queued("BUNDLE_TRANSMITTED", l)
           \/ Queued("BUNDLE_CANCELLED", l)

LogInv == LogMatchesBlocks /\ ReceivedFirst /\ TimersMatch /\ UnderWay

\* A custody timer's event is alone of its kind, and meets the transmission
\* it is about.
TimeoutsMeetTheirLog ==
    \A l \in Links :
        /\ Queued("CUSTODY_TIMEOUT", l) => /\ link[l].log = "TRANSMITTED"
                                           /\ custodyTimer[l] # "pending"
        /\ Once(eventq, "CUSTODY_TIMEOUT", l)
        /\ custodyTimer[l] = "fired" => Queued("CUSTODY_TIMEOUT", l)

\* Nothing will queue a deleted bundle again.
DeletedIsInert ==
    status = "deleted" => /\ ~expiration /\ ~custody
                          /\ \A l \in Links : ~link[l].deferred

DeletedInv == TimeoutsMeetTheirLog /\ DeletedIsInert

\* With a singleton destination and no cancellation at the console, one entry
\* of the log at most counts as sent.
Alone(lk) == \A l, k \in Links : Sent(lk[l]) /\ Sent(lk[k]) => l = k

\* In queue q, a cancellation's end on link l comes before a custody timeout.
EndsBeforeTimeout(q, l) ==
    \A i, j \in DOMAIN q :
        /\ q[i].type = "BUNDLE_CANCELLED" /\ q[i].link = l
        /\ q[j].type = "CUSTODY_TIMEOUT" /\ q[j].link = l
        => i < j

\* A bundle that is not deleted is in a link's hands only while it is logged
\* as queued there; and when a cancellation has ended, the log keeps the router
\* away until the event is handled.
InHandIsQueued(r)  == InHand(r) => r.log = "QUEUED"
EndIsAwaited(r, q, l) ==
    /\ InQ(q, "BUNDLE_CANCELLED", l) => ~InHand(r) /\ Sent(r)
    /\ Once(q, "BUNDLE_CANCELLED", l)
    /\ EndsBeforeTimeout(q, l)

HandInv ==
    /\ Alone(link)
    /\ ~Has(eventq, "BUNDLE_CANCEL")
    /\ \A l, k \in Links : InHand(link[l]) /\ InHand(link[k]) => l = k
    /\ \A l \in Links : /\ ~(link[l].queue /\ link[l].inflight)
                        /\ link[l].blocks => link[l].log = "QUEUED"
    /\ status # "deleted" => \A l \in Links :
          /\ InHandIsQueued(link[l])
          /\ ~cancelMsg[l]
          /\ EndIsAwaited(link[l], eventq, l)

\* When the bundle is neither cancelled nor deleted on request nor expires, and
\* what was sent in part is recorded as a fragment, it is in a link's hands
\* only while logged as queued there, one event ends that, and the connection
\* thread is done with the bundle when the event is posted.
EndsOnce(r, used, q, l) ==
    /\ InHandIsQueued(r)
    /\ used => r.inflight
    /\ r.inflight => used \/ InQ(q, "BUNDLE_TRANSMITTED", l)
    /\ InQ(q, "BUNDLE_TRANSMITTED", l) \/ InQ(q, "BUNDLE_CANCELLED", l)
       => r.log = "QUEUED" /\ ~r.queue /\ ~used
    /\ Once(q, "BUNDLE_TRANSMITTED", l)
    /\ Once(q, "BUNDLE_CANCELLED", l)
    /\ ~(InQ(q, "BUNDLE_TRANSMITTED", l) /\ InQ(q, "BUNDLE_CANCELLED", l))

\* A link is settled when the bundle waits for it or counts as sent over it.
Settled(r) == r.deferred \/ Sent(r)

NoOtherEnd ==
    /\ ~Has(eventq, "BUNDLE_DELETE") /\ ~Has(eventq, "BUNDLE_EXPIRED")
    /\ \A l \in Links : /\ ~cancelMsg[l]
                        /\ EndsOnce(link[l], InUse(l), eventq, l)
                        /\ custody /\ link[l].log = "TRANSMITTED"
                              => custodyTimer[l] # "none"
    /\ status = "pending" => expiration /\ \E l \in Links : Settled(link[l])

(***************************************************************************)
(* The router's decision.                                                  *)
(***************************************************************************)

\* Every link has a route, so there are finitely many.
LEMMA LinksFinite == IsFiniteSet(Links)
<1>1. Routes \in Seq(Links) /\ Range(Routes) = Links
  BY ForwardingAssumption
<1>2. Routes \in [1 .. Len(Routes) -> Links] /\ Len(Routes) \in Nat
  BY <1>1
<1>3. \A l \in Links : \E i \in 1 .. Len(Routes) : Routes[i] = l
  BY <1>1, <1>2 DEF Range
<1>4. Routes \in Surjection(1 .. Len(Routes), Links)
  BY <1>2, <1>3 DEF Surjection
<1>5. IsFiniteSet(1 .. Len(Routes))
  BY <1>2, FS_Interval
<1> QED BY <1>4, <1>5, FS_Surjection

\* What routing does to a link: it may open it, and it queues the bundle on it
\* unless the bundle is there already (BundleActions::queue_bundle).
Moved(r, s) ==
    /\ s.inflight = r.inflight
    /\ s.state = r.state \/ (r.state = "AVAILABLE" /\ s.state = "OPENING")
    /\ \/ s.blocks = r.blocks /\ s.log = r.log /\ s.queue = r.queue
       \/ /\ ~r.blocks /\ s.blocks /\ s.log = r.log /\ s.queue = r.queue
          /\ InHand(r) /\ ~Sent(r)
       \/ /\ ~r.blocks /\ s.blocks /\ s.log = "QUEUED" /\ s.queue
          /\ ~InHand(r) /\ ~Sent(r)

\* A link that routing leaves alone.
LEMMA MovedReflexive == \A r : Moved(r, r)
  BY DEF Moved

\* A link that routing looks at twice.
LEMMA MovedTransitive ==
    \A r, s, t \in LinkRecord : Moved(r, s) /\ Moved(s, t) => Moved(r, t)
  BY DEF Moved, LinkRecord, Sent, InHand

\* queue_bundle touches one link, and leaves a link alone that has the blocks.
LEMMA QueueBundleMoves ==
    ASSUME NEW lk \in LinkStatesOf, NEW l \in Links,
           ~Sent(lk[l]) \/ lk[l].blocks
    PROVE  /\ queue_bundle(lk, l) \in LinkStatesOf
           /\ \A k \in Links : k # l => queue_bundle(lk, l)[k] = lk[k]
           /\ Moved(lk[l], queue_bundle(lk, l)[l])
           /\ queue_bundle(lk, l)[l].deferred = lk[l].deferred
           /\ ~lk[l].blocks /\ ~InHand(lk[l]) => queue_bundle(lk, l)[l].log = "QUEUED"
<1>1. lk[l] \in LinkRecord
  BY DEF LinkStatesOf
<1>2. CASE lk[l].blocks
  BY <1>1, <1>2 DEF queue_bundle, Moved
<1>3. CASE ~lk[l].blocks /\ (lk[l].log = "QUEUED" \/ lk[l].queue \/ lk[l].inflight)
  BY <1>1, <1>3 DEF queue_bundle, Moved, LinkStatesOf, LinkRecord, Sent, InHand
<1>4. CASE ~lk[l].blocks /\ ~(lk[l].log = "QUEUED" \/ lk[l].queue \/ lk[l].inflight)
  BY <1>1, <1>4 DEF queue_bundle, Moved, LinkStatesOf, LinkRecord, Sent, InHand,
                    FwdStates
<1> QED BY <1>2, <1>3, <1>4

\* The usual case: what a link has of the bundle is logged as queued.
Clean(r) == r.blocks \/ InHand(r) => r.log = "QUEUED"

\* The step from lk to y over link l moves it, and touches no other.
OneMoves(lk, y, l) ==
    /\ y \in LinkStatesOf
    /\ \A k \in Links : k # l => y[k] = lk[k]
    /\ Moved(lk[l], y[l])

\* TableBasedRouter::check_next_hop, and the loop it runs for one bundle.
LEMMA PullDeferredMoves ==
    ASSUME NEW lk \in LinkStatesOf, NEW l \in Links
    PROVE  /\ OneMoves(lk, pull_deferred(lk, l), l)
           /\ ~lk[l].deferred \/ ~should_fwd(lk, l) => pull_deferred(lk, l) = lk
           /\ Clean(lk[l]) /\ Settled(lk[l]) => Settled(pull_deferred(lk, l)[l])
           /\ pull_deferred(lk, l)[l].state = lk[l].state
<1> DEFINE y == [lk EXCEPT ![l].deferred = FALSE]
<1>1. CASE lk[l].state = "OPEN" /\ lk[l].deferred /\ should_fwd(lk, l)
  <2>1. pull_deferred(lk, l) = queue_bundle(y, l)
    BY <1>1 DEF pull_deferred
  <2>2. ~Sent(lk[l])
    BY <1>1 DEF should_fwd
  <2>3. /\ y \in LinkStatesOf
        /\ \A k \in Links : k # l => y[k] = lk[k]
        /\ y[l].log = lk[l].log /\ y[l].blocks = lk[l].blocks
        /\ y[l].queue = lk[l].queue /\ y[l].inflight = lk[l].inflight
        /\ y[l].state = lk[l].state
    BY DEF LinkStatesOf, LinkRecord
  <2> HIDE DEF y
  <2>4. ~Sent(y[l])
    BY <2>2, <2>3 DEF Sent
  <2>5. /\ queue_bundle(y, l) \in LinkStatesOf
        /\ \A k \in Links : k # l => queue_bundle(y, l)[k] = y[k]
        /\ Moved(y[l], queue_bundle(y, l)[l])
        /\ ~y[l].blocks /\ ~InHand(y[l]) => queue_bundle(y, l)[l].log = "QUEUED"
    BY <2>3, <2>4, QueueBundleMoves
  <2>6. Moved(lk[l], queue_bundle(y, l)[l])
    BY <2>3, <2>5 DEF Moved, InHand, Sent
  <2>7. Clean(lk[l]) => queue_bundle(y, l)[l].log = "QUEUED"
    BY <2>2, <2>3, <2>5 DEF Clean, InHand, Sent
  <2>8. queue_bundle(y, l)[l].state = lk[l].state
    BY <1>1, <2>6 DEF Moved
  <2> QED BY <2>1, <2>3, <2>5, <2>6, <2>7, <2>8, <1>1 DEF OneMoves, Settled, Sent
<1>2. CASE ~(lk[l].state = "OPEN" /\ lk[l].deferred /\ should_fwd(lk, l))
  <2>1. pull_deferred(lk, l) = lk
    BY <1>2 DEF pull_deferred
  <2> QED BY <2>1, MovedReflexive DEF OneMoves
<1> QED BY <1>1, <1>2

\* One round of the loop of TableBasedRouter::route_bundle changes the links only
\* as Moved says.
LEMMA CheckNextHopMoves ==
    ASSUME NEW lk \in LinkStatesOf, NEW l \in Links
    PROVE  /\ OneMoves(lk, check_next_hop(lk, l), l)
           /\ ~lk[l].deferred \/ ~should_fwd(lk, l) => check_next_hop(lk, l) = lk
           /\ Clean(lk[l]) /\ Settled(lk[l]) => Settled(check_next_hop(lk, l)[l])
           /\ check_next_hop(lk, l)[l].state = lk[l].state
  BY PullDeferredMoves, MovedReflexive DEF check_next_hop, OneMoves

\* TableBasedRouter::fwd_to_nexthop opens the link if it can, and then queues
\* the bundle or leaves it for later.
LEMMA FwdToNexthopMoves ==
    ASSUME NEW lk \in LinkStatesOf, NEW l \in Links,
           ~Sent(lk[l])
    PROVE  /\ OneMoves(lk, fwd_to_nexthop(lk, l), l)
           /\ Clean(lk[l]) => Settled(fwd_to_nexthop(lk, l)[l])
<1> DEFINE y == IF lk[l].state = "AVAILABLE"
                THEN [lk EXCEPT ![l].state = "OPENING"] ELSE lk
<1>1. /\ y \in LinkStatesOf
      /\ \A k \in Links : k # l => y[k] = lk[k]
      /\ y[l].log = lk[l].log /\ y[l].blocks = lk[l].blocks
      /\ y[l].queue = lk[l].queue /\ y[l].inflight = lk[l].inflight
      /\ y[l].state = lk[l].state
            \/ (lk[l].state = "AVAILABLE" /\ y[l].state = "OPENING")
  BY DEF LinkStatesOf, LinkRecord, LinkStates
<1>2. fwd_to_nexthop(lk, l) = IF y[l].state = "OPEN" /\ ~queue_is_full(l)
                              THEN queue_bundle(y, l) ELSE defer(y, l)
  BY DEF fwd_to_nexthop
<1> HIDE DEF y
<1>3. ~Sent(y[l])
  BY <1>1 DEF Sent
<1>4. CASE y[l].state = "OPEN" /\ ~queue_is_full(l)
  <2>1. /\ queue_bundle(y, l) \in LinkStatesOf
        /\ \A k \in Links : k # l => queue_bundle(y, l)[k] = y[k]
        /\ Moved(y[l], queue_bundle(y, l)[l])
        /\ ~y[l].blocks /\ ~InHand(y[l]) => queue_bundle(y, l)[l].log = "QUEUED"
    BY <1>1, <1>3, QueueBundleMoves
  <2>2. Moved(lk[l], queue_bundle(y, l)[l])
    BY <1>1, <2>1 DEF Moved, InHand, Sent
  <2>3. Clean(lk[l]) => queue_bundle(y, l)[l].log = "QUEUED"
    BY <1>1, <2>1 DEF Clean, InHand, Sent
  <2> QED BY <1>1, <1>2, <1>4, <2>1, <2>2, <2>3 DEF OneMoves, Settled, Sent
<1>5. CASE ~(y[l].state = "OPEN" /\ ~queue_is_full(l))
  <2>1. /\ defer(y, l) \in LinkStatesOf
        /\ \A k \in Links : k # l => defer(y, l)[k] = y[k]
        /\ defer(y, l)[l].deferred
        /\ Moved(lk[l], defer(y, l)[l])
    BY <1>1 DEF defer, LinkStatesOf, LinkRecord, Moved
  <2> QED BY <1>1, <1>2, <1>5, <2>1 DEF OneMoves, Settled
<1> QED BY <1>4, <1>5

\* One route of TableBasedRouter::route_bundle.
LEMMA RouteOverMoves ==
    ASSUME NEW lk \in LinkStatesOf, NEW l \in Links
    PROVE  /\ OneMoves(lk, RouteOver(lk, l), l)
           /\ ~should_fwd(lk, l) => RouteOver(lk, l) = lk
           /\ Clean(lk[l]) => Settled(RouteOver(lk, l)[l]) \/ ~should_fwd(lk, l)
<1>1. CASE should_fwd(lk, l) /\ ~lk[l].deferred
  <2>1. check_next_hop(lk, l) = lk
    BY <1>1, CheckNextHopMoves
  <2>2. RouteOver(lk, l) = fwd_to_nexthop(lk, l)
    BY <1>1, <2>1 DEF RouteOver
  <2>3. ~Sent(lk[l])
    BY <1>1 DEF should_fwd
  <2> QED BY <1>1, <2>2, <2>3, FwdToNexthopMoves
<1>2. CASE ~(should_fwd(lk, l) /\ ~lk[l].deferred)
  <2>1. RouteOver(lk, l) = lk
    BY <1>2 DEF RouteOver
  <2> QED BY <1>2, <2>1, MovedReflexive DEF OneMoves, Settled
<1> QED BY <1>1, <1>2

\* What no route can destroy, the loop over the routes keeps: X is the set of
\* the link states that have the property.
LEMMA RouteBundleKeeps ==
    ASSUME NEW X \in SUBSET LinkStatesOf, NEW lk \in X,
           \A x \in X, l \in Links : RouteOver(x, l) \in X
    PROVE  /\ route_bundle(lk) \in X
           /\ Links # {} => \E x \in X, l \in Links :
                               route_bundle(lk) = RouteOver(x, l)
<1> DEFINE n == Len(Routes)
           F == [i \in 1 .. n |-> [x \in X |-> RouteOver(x, Routes[i])]]
           after == CHOOSE after : after =
                      [i \in 0 .. n |-> IF i = 0 THEN lk
                                        ELSE RouteOver(after[i - 1], Routes[i])]
<1>1. n \in Nat /\ \A i \in 1 .. n : Routes[i] \in Links
  BY ForwardingAssumption
<1>2. \A x \in X, l \in Links : RouteOver(x, l) \in X
  OBVIOUS
<1>3. F \in [1 .. n -> [X -> X]]
  BY <1>1, <1>2
<1>4. PICK g \in [0 .. n -> X] : LoopFrom(lk, F, n, g)
  <2> HIDE DEF F, n, after
  <2> QED BY <1>1, <1>3, LoopRuns
<1>5. g = [i \in 0 .. n |-> IF i = 0 THEN lk ELSE RouteOver(g[i - 1], Routes[i])]
  <2>1. ASSUME NEW i \in 0 .. n, i # 0
        PROVE  F[i][g[i - 1]] = RouteOver(g[i - 1], Routes[i])
    <3>1. i \in 1 .. n /\ i - 1 \in 0 .. n
      BY <1>1, <2>1
    <3>2. g[i - 1] \in X
      BY <3>1
        <3> QED BY <3>1, <3>2
  <2>2. \A i \in 0 .. n : i # 0 => i \in 1 .. n
    BY <1>1
  <2>3. 0 \in 0 .. n
    BY <1>1
  <2> HIDE DEF F, n
  <2> QED BY <1>4, <2>1, <2>2, <2>3 DEF LoopFrom
<1>6. after = [i \in 0 .. n |-> IF i = 0 THEN lk
                                ELSE RouteOver(after[i - 1], Routes[i])]
  <2> HIDE DEF n, F
  <2> QED BY <1>5, Zenon
<1>7. route_bundle(lk) = after[n]
  BY DEF route_bundle
<1> HIDE DEF after
<1>8. \A i \in 0 .. n : after[i] \in X
  <2> DEFINE T == {i \in 0 .. n : after[i] \in X}
  <2>1. 0 \in T
    BY <1>1, <1>6
  <2>2. \A i \in 0 .. n - 1 : i \in T => i + 1 \in T
        <3> SUFFICES ASSUME NEW i \in 0 .. n - 1, after[i] \in X
                 PROVE  i + 1 \in 0 .. n /\ after[i + 1] \in X
      OBVIOUS
    <3>1. i + 1 \in 1 .. n /\ i + 1 \in 0 .. n /\ i + 1 # 0 /\ (i + 1) - 1 = i
      BY <1>1
    <3> HIDE DEF n
    <3>2. after[i + 1] = RouteOver(after[i], Routes[i + 1])
      BY <1>6, <3>1
    <3> QED BY <3>1, <3>2, <1>1, <1>2
  <2> HIDE DEF n, T
  <2>3. \A i \in 0 .. n : i \in T
    BY <1>1, <2>1, <2>2, UpTo
  <2> QED BY <2>3 DEF T
<1>9. Links # {} => n # 0
  BY <1>1, ForwardingAssumption DEF Range
<1>10. ASSUME n # 0 PROVE \E x \in X, l \in Links : after[n] = RouteOver(x, l)
  <2>1. n \in 0 .. n /\ n - 1 \in 0 .. n /\ Routes[n] \in Links
    BY <1>1, <1>10
  <2> HIDE DEF n
  <2>2. after[n] = RouteOver(after[n - 1], Routes[n])
    BY <1>6, <1>10, <2>1
  <2> QED BY <2>1, <2>2, <1>8
<1>11. after[n] \in X
    <2> QED BY <1>1, <1>8
<1> QED BY <1>7, <1>9, <1>10, <1>11

\* Routing moves every link, or leaves it alone.
LEMMA RouteBundleMoves ==
    ASSUME NEW lk \in LinkStatesOf
    PROVE  /\ route_bundle(lk) \in LinkStatesOf
           /\ \A k \in Links : Moved(lk[k], route_bundle(lk)[k])
<1> DEFINE X == {x \in LinkStatesOf : \A k \in Links : Moved(lk[k], x[k])}
<1>1. lk \in X
  BY MovedReflexive
<1>2. ASSUME NEW x \in X, NEW l \in Links
      PROVE  RouteOver(x, l) \in X
  <2>1. OneMoves(x, RouteOver(x, l), l)
    BY RouteOverMoves
  <2>2. ASSUME NEW k \in Links
        PROVE  Moved(lk[k], RouteOver(x, l)[k])
    <3>1. lk[k] \in LinkRecord /\ x[k] \in LinkRecord
            /\ RouteOver(x, l)[k] \in LinkRecord
      BY <2>1 DEF OneMoves, LinkStatesOf
    <3>2. Moved(lk[k], x[k])
      OBVIOUS
    <3>3. Moved(x[k], RouteOver(x, l)[k])
      BY <2>1, MovedReflexive DEF OneMoves
    <3> QED BY <3>1, <3>2, <3>3, MovedTransitive
  <2> QED BY <2>1, <2>2 DEF OneMoves
<1>3. route_bundle(lk) \in X
  <2>1. X \in SUBSET LinkStatesOf
    OBVIOUS
  <2> HIDE DEF X
  <2> QED BY <1>1, <1>2, <2>1, RouteBundleKeeps
<1> QED BY <1>3

\* A bundle for a singleton endpoint that is queued or was sent somewhere is
\* not routed again (TableBasedRouter::should_fwd).
LEMMA SentIsNotRouted ==
    ASSUME NEW lk \in LinkStatesOf, Singleton, NEW k \in Links, Sent(lk[k])
    PROVE  route_bundle(lk) = lk
<1>1. {lk} \in SUBSET LinkStatesOf /\ lk \in {lk}
  OBVIOUS
<1>2. \A x \in {lk}, l \in Links : RouteOver(x, l) \in {lk}
  BY RouteOverMoves DEF should_fwd
<1>3. route_bundle(lk) \in {lk}
  BY <1>1, <1>2, RouteBundleKeeps
<1> QED BY <1>3

\* Routing a bundle for a singleton endpoint queues it on one link at most.
LEMMA RouteBundleAlone ==
    ASSUME NEW lk \in LinkStatesOf, Singleton, Alone(lk)
    PROVE  Alone(route_bundle(lk))
<1> DEFINE X == {x \in LinkStatesOf : Alone(x)}
<1>1. X \in SUBSET LinkStatesOf /\ lk \in X
  OBVIOUS
<1>2. ASSUME NEW x \in X, NEW l \in Links
      PROVE  RouteOver(x, l) \in X
  <2>1. OneMoves(x, RouteOver(x, l), l)
    BY RouteOverMoves
  <2>2. CASE should_fwd(x, l)
    BY <2>1, <2>2 DEF should_fwd, OneMoves, Alone
  <2>3. CASE ~should_fwd(x, l)
    BY <2>3, RouteOverMoves
  <2> QED BY <2>2, <2>3
<1>3. route_bundle(lk) \in X
  <2> HIDE DEF X
  <2> QED BY <1>1, <1>2, RouteBundleKeeps
<1> QED BY <1>3

\* Routing leaves a clean link clean.
LEMMA MovedClean ==
    \A r, s \in LinkRecord : Moved(r, s) /\ Clean(r) => Clean(s)
  BY DEF Moved, Clean, LinkRecord, InHand, Sent

\* A routed bundle is queued, waits for a link, or counts as sent.
LEMMA RouteBundleSettles ==
    ASSUME NEW lk \in LinkStatesOf, Links # {}, \A k \in Links : Clean(lk[k])
    PROVE  \E k \in Links : Settled(route_bundle(lk)[k])
<1> DEFINE X == {x \in LinkStatesOf : \A k \in Links : Clean(x[k])}
<1>1. X \in SUBSET LinkStatesOf /\ lk \in X
  OBVIOUS
<1>2. ASSUME NEW x \in X, NEW l \in Links
      PROVE  RouteOver(x, l) \in X
  <2>1. OneMoves(x, RouteOver(x, l), l)
    BY RouteOverMoves
  <2>2. x[l] \in LinkRecord /\ RouteOver(x, l)[l] \in LinkRecord
    BY <2>1 DEF OneMoves, LinkStatesOf
  <2>3. Clean(RouteOver(x, l)[l])
    BY <2>1, <2>2, MovedClean DEF OneMoves
  <2> QED BY <2>1, <2>3 DEF OneMoves
<1>3. PICK x \in X, l \in Links : route_bundle(lk) = RouteOver(x, l)
  <2> HIDE DEF X
  <2> QED BY <1>1, <1>2, RouteBundleKeeps
<1>4. CASE should_fwd(x, l)
  BY <1>3, <1>4, RouteOverMoves
<1>5. CASE ~should_fwd(x, l)
  <2>1. route_bundle(lk) = x
    BY <1>3, <1>5, RouteOverMoves
  <2>2. \E k \in Links : Sent(x[k])
    BY <1>5 DEF should_fwd
  <2> QED BY <2>1, <2>2 DEF Settled
<1> QED BY <1>4, <1>5

(***************************************************************************)
(* Cancellation.                                                           *)
(***************************************************************************)

\* An event is posted for each link whose cancellation ends at once, and for
\* no other.
LEMMA CancelEventsPosted ==
    ASSUME NEW lk \in LinkStatesOf, NEW S \in SUBSET Links
    PROVE  /\ CancelEvents(lk, S) \in Seq(LinkedEvent)
           /\ \A i \in DOMAIN CancelEvents(lk, S) :
                 /\ CancelEvents(lk, S)[i].type = "BUNDLE_CANCELLED"
                 /\ CancelEvents(lk, S)[i].link \in S
                 /\ EndsHere(lk, CancelEvents(lk, S)[i].link)
           /\ \A l \in S : EndsHere(lk, l) =>
                 \E i \in DOMAIN CancelEvents(lk, S) :
                    CancelEvents(lk, S)[i].link = l
           /\ \A i, j \in DOMAIN CancelEvents(lk, S) :
                 CancelEvents(lk, S)[i].link = CancelEvents(lk, S)[j].link => i = j
<1> DEFINE E == {l \in S : EndsHere(lk, l)}
           ends == SetToSeq(E)
<1>1. IsFiniteSet(E)
  BY LinksFinite, FS_Subset
<1>2. /\ ends \in Seq(E)
      /\ \A x \in E : \E i \in DOMAIN ends : ends[i] = x
      /\ IsInjective(ends)
  <2> HIDE DEF E
  <2> QED BY <1>1, SetToSeqFacts
<1>3. CancelEvents(lk, S) = [i \in DOMAIN ends |->
                                LinkEvent("BUNDLE_CANCELLED", ends[i])]
  BY DEF CancelEvents
<1> HIDE DEF ends
<1>4. ASSUME NEW i \in DOMAIN ends
      PROVE  ends[i] \in S /\ EndsHere(lk, ends[i]) /\ ends[i] \in Links
  BY <1>2
<1>5. \A l \in Links : LinkEvent("BUNDLE_CANCELLED", l) \in LinkedEvent
  BY DEF LinkEvent, LinkedEvent, LinkEventTypes, Event, EventTypes, Reasons
<1>6. DOMAIN ends = 1 .. Len(ends) /\ Len(ends) \in Nat
  BY <1>2
<1>7. CancelEvents(lk, S) \in Seq(LinkedEvent)
  BY <1>3, <1>4, <1>5, <1>6
<1>8. \A i \in DOMAIN ends : /\ CancelEvents(lk, S)[i].type = "BUNDLE_CANCELLED"
                             /\ CancelEvents(lk, S)[i].link = ends[i]
  BY <1>3 DEF LinkEvent
<1>9. DOMAIN CancelEvents(lk, S) = DOMAIN ends
  BY <1>3
<1> HIDE DEF E
<1>10. \A l \in S : EndsHere(lk, l) => l \in E
  BY DEF E
<1> QED BY <1>2, <1>4, <1>7, <1>8, <1>9, <1>10 DEF IsInjective

(***************************************************************************)
(* Type correctness.                                                       *)
(***************************************************************************)

\* The events the handlers and threads construct name a link where they must.
LEMMA EventsLinked ==
    /\ \A t \in EventTypes, l \in Links : LinkEvent(t, l) \in LinkedEvent
    /\ \A t \in EventTypes \ LinkEventTypes : LinkEvent(t, NoLink) \in LinkedEvent
    /\ \A l \in Links, r \in Reasons : CloseRequest(l, r) \in LinkedEvent
    /\ \A q \in Seq(LinkedEvent) : q \in Seq(Event)
    /\ LinkedEvent \subseteq Event
<1>1. LinkedEvent \subseteq Event
  BY DEF LinkedEvent
<1>2. \A q \in Seq(LinkedEvent) : q \in Seq(Event)
  BY <1>1
<1>3. /\ \A t \in EventTypes, l \in Links : LinkEvent(t, l) \in LinkedEvent
      /\ \A l \in Links, r \in Reasons : CloseRequest(l, r) \in LinkedEvent
  BY DEF LinkEvent, CloseRequest, LinkedEvent, LinkEventTypes, Event, EventTypes,
         Reasons
<1>4. \A t \in EventTypes \ LinkEventTypes : LinkEvent(t, NoLink) \in LinkedEvent
  BY DEF LinkEvent, LinkedEvent, LinkEventTypes, Event, EventTypes, Reasons
<1> QED BY <1>1, <1>2, <1>3, <1>4

\* The event at the head of the queue, and the link it is about.
LEMMA HeadLinked ==
    ASSUME TypeInv, NEW t, Handles(t)
    PROVE  /\ eventq # <<>> /\ Head(eventq) \in LinkedEvent /\ Head(eventq) = eventq[1]
           /\ eventq[1].type = t /\ 1 \in DOMAIN eventq
           /\ t \in LinkEventTypes => On \in Links
           /\ Tail(eventq) \in Seq(LinkedEvent)
           /\ closing = None
<1>1. eventq # <<>> /\ eventq \in Seq(LinkedEvent) /\ Head(eventq).type = t
  BY DEF TypeInv, EventsNameLinks, Handles
<1>2. /\ Tail(eventq) \in Seq(LinkedEvent) /\ Head(eventq) \in LinkedEvent
      /\ Head(eventq) = eventq[1] /\ 1 \in DOMAIN eventq
  BY <1>1, TailOf
<1> QED BY <1>1, <1>2 DEF LinkedEvent, On, Handles, Idle

\* What the deletion of a bundle does to the links and posts.
LEMMA DeleteTyped ==
    ASSUME NEW lk \in LinkStatesOf, NEW q \in Seq(LinkedEvent),
           cancelMsg \in [Links -> BOOLEAN], Delete(lk, q)
    PROVE  /\ status' = "deleted" /\ expiration' = FALSE
           /\ link' \in LinkStatesOf
           /\ eventq' \in Seq(LinkedEvent)
           /\ cancelMsg' \in [Links -> BOOLEAN]
           /\ eventq' = q \o CancelEvents(remove_from_deferred(lk), Links)
           /\ remove_from_deferred(lk) \in LinkStatesOf
           /\ \A l \in Links :
                 /\ link'[l] = [lk[l] EXCEPT !.deferred = FALSE,
                                             !.queue = @ /\ ~lk[l].blocks]
                 /\ EndsHere(remove_from_deferred(lk), l) = EndsHere(lk, l)
                 /\ cancelMsg'[l] = (cancelMsg[l] \/ LeftToCL(lk, l))
<1> DEFINE left == remove_from_deferred(lk)
<1>1. left \in LinkStatesOf /\ \A l \in Links :
          /\ left[l] = [lk[l] EXCEPT !.deferred = FALSE]
          /\ lk[l] \in LinkRecord
  BY DEF remove_from_deferred, LinkStatesOf, LinkRecord
<1>2. \A l \in Links : /\ left[l].queue = lk[l].queue /\ left[l].blocks = lk[l].blocks
                       /\ left[l].inflight = lk[l].inflight
                       /\ left[l].state = lk[l].state
                       /\ left[l].log = lk[l].log /\ left[l].deferred = FALSE
  BY <1>1 DEF LinkRecord
<1>3. /\ status' = "deleted" /\ expiration' = FALSE
      /\ link' = Cancelled(left, Links)
      /\ eventq' = q \o CancelEvents(left, Links)
      /\ cancelMsg' = CancelMessages(left, Links)
  BY DEF Delete, ExpirationCancelled
<1> HIDE DEF left
<1>4. CancelEvents(left, Links) \in Seq(LinkedEvent)
  BY <1>1, CancelEventsPosted
<1>5. eventq' \in Seq(LinkedEvent)
  BY <1>3, <1>4
<1>6. ASSUME NEW l \in Links
      PROVE  /\ link'[l] = [lk[l] EXCEPT !.deferred = FALSE,
                                         !.queue = @ /\ ~lk[l].blocks]
             /\ EndsHere(left, l) = EndsHere(lk, l)
             /\ LeftToCL(left, l) = LeftToCL(lk, l)
             /\ link'[l] \in LinkRecord
  <2>1. link'[l] = IF InQueue(left, l) THEN [left[l] EXCEPT !.queue = FALSE]
                   ELSE left[l]
    BY <1>3 DEF Cancelled
  <2>2. link'[l] = [lk[l] EXCEPT !.deferred = FALSE, !.queue = @ /\ ~lk[l].blocks]
    BY <1>1, <1>2, <2>1 DEF InQueue, LinkRecord
  <2>3. link'[l] \in LinkRecord
    BY <1>1, <2>2 DEF LinkRecord
  <2> QED BY <1>2, <2>2, <2>3 DEF EndsHere, LeftToCL, InQueue, InFlight
<1>7. link' \in LinkStatesOf
  BY <1>3, <1>6 DEF Cancelled, LinkStatesOf
<1>8. \A l \in Links : cancelMsg'[l] = (cancelMsg[l] \/ LeftToCL(lk, l))
  BY <1>3, <1>6 DEF CancelMessages
<1>9. cancelMsg' \in [Links -> BOOLEAN]
  BY <1>1, <1>3 DEF CancelMessages, LeftToCL, InFlight
<1> QED BY <1>1, <1>3, <1>5, <1>6, <1>7, <1>8, <1>9 DEF left

\* A link the router opened gets a connection that connects.
LEMMA ConnectsTyped ==
    ASSUME TypeInv, Connects
    PROVE  conn' \in [Links -> {"none", "connecting", "up", "broken"}]
  BY DEF TypeInv, TypeOK, Connects

\* try_to_delete deletes the bundle or only writes the links and the queue.
LEMMA TryToDeleteTyped ==
    ASSUME TypeInv, NEW lk \in LinkStatesOf, NEW q \in Seq(LinkedEvent), NEW mine,
           try_to_delete(lk, mine, q)
    PROVE  /\ status' \in {"new", "pending", "deleted"} /\ expiration' \in BOOLEAN
           /\ link' \in LinkStatesOf
           /\ eventq' \in Seq(LinkedEvent)
           /\ cancelMsg' \in [Links -> BOOLEAN]
<1>1. CASE status = "pending" /\ can_delete_bundle(lk, mine)
  <2>1. Delete(lk, q)
    BY <1>1 DEF try_to_delete
  <2> QED BY <2>1, DeleteTyped DEF TypeInv, TypeOK
<1>2. CASE ~(status = "pending" /\ can_delete_bundle(lk, mine))
  BY <1>2 DEF try_to_delete, TypeInv, TypeOK
<1> QED BY <1>1, <1>2

\* The bundle leaves the queues of links S, and the events say so.
LEMMA CancelledTyped ==
    ASSUME NEW lk \in LinkStatesOf, NEW S \in SUBSET Links
    PROVE  /\ Cancelled(lk, S) \in LinkStatesOf
           /\ \A l \in Links : Cancelled(lk, S)[l] =
                [lk[l] EXCEPT !.queue = @ /\ ~(l \in S /\ lk[l].blocks)]
           /\ cancelMsg \in [Links -> BOOLEAN]
                 => CancelMessages(lk, S) \in [Links -> BOOLEAN]
<1>1. \A l \in Links : lk[l] \in LinkRecord
  BY DEF LinkStatesOf
<1>2. \A l \in Links : /\ Cancelled(lk, S)[l] \in LinkRecord
                       /\ Cancelled(lk, S)[l] =
                            [lk[l] EXCEPT !.queue = @ /\ ~(l \in S /\ lk[l].blocks)]
  BY <1>1 DEF Cancelled, InQueue, LinkRecord
<1>3. Cancelled(lk, S) \in LinkStatesOf
  BY <1>2 DEF Cancelled, LinkStatesOf
<1> QED BY <1>1, <1>2, <1>3 DEF CancelMessages, LeftToCL, InFlight, LinkRecord

\* Every step keeps the types, and every event about a link names one.
LEMMA TypeStep ==
    ASSUME TypeInv, [Next]_vars
    PROVE  TypeInv'
<1> USE DEF LinkStatesOf
<1>1. /\ link \in LinkStatesOf /\ eventq \in Seq(LinkedEvent)
      /\ cancelMsg \in [Links -> BOOLEAN]
  BY DEF TypeInv, TypeOK, EventsNameLinks
<1>2. \A q : q \in Seq(LinkedEvent) => q \in Seq(Event)
  BY EventsLinked
<1>3. \A q \in Seq(LinkedEvent), e \in LinkedEvent :
          /\ post(q, e) \in Seq(LinkedEvent)
          /\ post_at_head(q, e) \in Seq(LinkedEvent)
  BY DEF post, post_at_head
<1>4. CASE handle_bundle_received
  <2>1. Handles("BUNDLE_RECEIVED")
    BY <1>4 DEF handle_bundle_received
  <2>2. eventq' \in Seq(LinkedEvent) /\ UNCHANGED closing
    BY <1>4, <2>1, HeadLinked DEF handle_bundle_received
  <2>3. link' \in LinkStatesOf
    BY <1>1, <1>4, RouteBundleMoves DEF handle_bundle_received
  <2>4. conn' \in [Links -> {"none", "connecting", "up", "broken"}]
    BY <1>4, ConnectsTyped DEF handle_bundle_received
  <2> QED BY <1>2, <1>4, <2>2, <2>3, <2>4, ForwardingAssumption
          DEF handle_bundle_received, TypeInv, TypeOK, EventsNameLinks
<1>5. CASE handle_bundle_transmitted
  <2> DEFINE y == [link EXCEPT ![On] = Transmitted(@)]
             z == remove_from_deferred(y)
  <2>1. Handles("BUNDLE_TRANSMITTED")
    BY <1>5 DEF handle_bundle_transmitted
  <2>2. On \in Links /\ Tail(eventq) \in Seq(LinkedEvent)
    BY <2>1, HeadLinked DEF LinkEventTypes, EventTypes
  <2>3. y \in LinkStatesOf
    BY <1>1 DEF Transmitted, LinkRecord, FwdStates
  <2>4. z \in LinkStatesOf
    <3> HIDE DEF y
    <3> QED BY <2>3 DEF remove_from_deferred, LinkRecord
  <2>5. check_next_hop(z, On) \in LinkStatesOf
    <3> HIDE DEF z
    <3> QED BY <2>2, <2>4, CheckNextHopMoves DEF OneMoves
  <2>6. try_to_delete(check_next_hop(z, On), custody, Tail(eventq))
    BY <1>5 DEF handle_bundle_transmitted
  <2> HIDE DEF z, y
  <2>7. /\ status' \in {"new", "pending", "deleted"} /\ expiration' \in BOOLEAN
        /\ link' \in LinkStatesOf /\ eventq' \in Seq(LinkedEvent)
        /\ cancelMsg' \in [Links -> BOOLEAN]
    BY <2>2, <2>5, <2>6, TryToDeleteTyped
  <2>8. /\ custodyTimer' \in [Links -> {"none", "pending", "fired"}]
        /\ UNCHANGED <<custody, room, conn, cl, reroute, closing, faults>>
    BY <1>5, <2>2 DEF handle_bundle_transmitted, TypeInv, TypeOK
  <2> QED BY <1>2, <2>7, <2>8 DEF TypeInv, TypeOK, EventsNameLinks
<1>6. CASE handle_bundle_cancelled
  <2> DEFINE y == IF link[On].blocks
                  THEN [link EXCEPT ![On].blocks = FALSE, ![On].log = "CANCELLED"]
                  ELSE link
  <2>1. Handles("BUNDLE_CANCELLED")
    BY <1>6 DEF handle_bundle_cancelled
  <2>2. On \in Links /\ Tail(eventq) \in Seq(LinkedEvent)
    BY <2>1, HeadLinked DEF LinkEventTypes, EventTypes
  <2>3. y \in LinkStatesOf
    BY <1>1, <2>2 DEF LinkRecord, FwdStates
  <2>4. link' = IF expiration THEN route_bundle(y) ELSE y
    BY <1>6 DEF handle_bundle_cancelled
  <2> HIDE DEF y
  <2>5. link' \in LinkStatesOf
    BY <2>3, <2>4, RouteBundleMoves
  <2>6. conn' \in [Links -> {"none", "connecting", "up", "broken"}]
    BY <1>6, ConnectsTyped DEF handle_bundle_cancelled
  <2> QED BY <1>2, <1>6, <2>2, <2>5, <2>6
          DEF handle_bundle_cancelled, bundleVars, TypeInv, TypeOK, EventsNameLinks
<1>7. CASE handle_bundle_expired
  <2>1. \/ Handles("BUNDLE_EXPIRED") \/ Handles("BUNDLE_DELETE")
    BY <1>7 DEF handle_bundle_expired
  <2>2. Tail(eventq) \in Seq(LinkedEvent)
    BY <2>1, HeadLinked
  <2>3. Delete(link, Tail(eventq)) /\ release_custody
    BY <1>7 DEF handle_bundle_expired, delete_bundle
  <2>4. /\ status' = "deleted" /\ expiration' = FALSE
        /\ link' \in LinkStatesOf /\ eventq' \in Seq(LinkedEvent)
        /\ cancelMsg' \in [Links -> BOOLEAN]
    BY <1>1, <2>2, <2>3, DeleteTyped
  <2> QED BY <1>2, <1>7, <2>3, <2>4
          DEF handle_bundle_expired, release_custody, TimersCancelled, TypeInv,
              TypeOK, EventsNameLinks
<1>8. CASE handle_bundle_cancel
  <2>1. Handles("BUNDLE_CANCEL")
    BY <1>8 DEF handle_bundle_cancel
  <2>2. On \in Links /\ Tail(eventq) \in Seq(LinkedEvent)
    BY <2>1, HeadLinked DEF LinkEventTypes, EventTypes
  <2>3. CancelEvents(link, {On}) \in Seq(LinkedEvent)
    BY <1>1, <2>2, CancelEventsPosted
  <2>4. eventq' \in Seq(LinkedEvent)
    BY <1>8, <2>2, <2>3 DEF handle_bundle_cancel
  <2>5. link' \in LinkStatesOf /\ cancelMsg' \in [Links -> BOOLEAN]
    BY <1>1, <1>8, <2>2, CancelledTyped DEF handle_bundle_cancel
  <2> QED BY <1>2, <1>8, <2>4, <2>5
          DEF handle_bundle_cancel, bundleVars, TypeInv, TypeOK, EventsNameLinks
<1>9. CASE handle_custody_signal
  <2>1. Handles("CUSTODY_SIGNAL")
    BY <1>9 DEF handle_custody_signal
  <2>2. Tail(eventq) \in Seq(LinkedEvent)
    BY <2>1, HeadLinked
  <2>3. CASE custody
    <3>1. release_custody /\ try_to_delete(link, FALSE, Tail(eventq))
      BY <1>9, <2>3 DEF handle_custody_signal
    <3>2. /\ status' \in {"new", "pending", "deleted"} /\ expiration' \in BOOLEAN
          /\ link' \in LinkStatesOf /\ eventq' \in Seq(LinkedEvent)
          /\ cancelMsg' \in [Links -> BOOLEAN]
      BY <1>1, <2>2, <3>1, TryToDeleteTyped
    <3> QED BY <1>2, <1>9, <3>1, <3>2
            DEF handle_custody_signal, release_custody, TimersCancelled, TypeInv,
                TypeOK, EventsNameLinks
  <2>4. CASE ~custody
    BY <1>2, <1>9, <2>2, <2>4
    DEF handle_custody_signal, bundleVars, TypeInv, TypeOK, EventsNameLinks
  <2> QED BY <2>3, <2>4
<1>10. CASE handle_custody_timeout
  <2>1. Handles("CUSTODY_TIMEOUT")
    BY <1>10 DEF handle_custody_timeout
  <2>2. On \in Links /\ Tail(eventq) \in Seq(LinkedEvent)
    BY <2>1, HeadLinked DEF LinkEventTypes, EventTypes
  <2>3. TimedOut(On) \in LinkStatesOf
    BY <1>1, <2>2 DEF TimedOut, LinkRecord, FwdStates
  <2>4. link' \in LinkStatesOf
    BY <1>1, <1>10, <2>3, RouteBundleMoves DEF handle_custody_timeout
  <2>5. conn' \in [Links -> {"none", "connecting", "up", "broken"}]
    BY <1>10, ConnectsTyped DEF handle_custody_timeout
  <2>6. custodyTimer' \in [Links -> {"none", "pending", "fired"}]
    BY <1>10, <2>2 DEF handle_custody_timeout, TypeInv, TypeOK
  <2> QED BY <1>2, <1>10, <2>2, <2>4, <2>5, <2>6
          DEF handle_custody_timeout, TypeInv, TypeOK, EventsNameLinks
<1>11. CASE RequestOpen
  <2>1. Handles("OPEN")
    BY <1>11 DEF RequestOpen
  <2>2. On \in Links /\ Tail(eventq) \in Seq(LinkedEvent)
    BY <2>1, HeadLinked DEF LinkEventTypes, EventTypes
  <2>3. link' \in LinkStatesOf
    BY <1>1, <1>11, <2>2 DEF RequestOpen, LinkRecord, LinkStates
  <2>4. conn' \in [Links -> {"none", "connecting", "up", "broken"}]
    BY <1>11, ConnectsTyped DEF RequestOpen
  <2> QED BY <1>2, <1>11, <2>2, <2>3, <2>4
          DEF RequestOpen, bundleVars, TypeInv, TypeOK, EventsNameLinks
<1>12. CASE handle_contact_up
  <2> DEFINE y == [link EXCEPT ![On].state = "OPEN"]
  <2>1. Handles("CONTACT_UP")
    BY <1>12 DEF handle_contact_up
  <2>2. On \in Links /\ Tail(eventq) \in Seq(LinkedEvent)
    BY <2>1, HeadLinked DEF LinkEventTypes, EventTypes
  <2>3. y \in LinkStatesOf
    BY <1>1, <2>2 DEF LinkRecord, LinkStates
  <2>4. link' = check_next_hop(y, On)
    BY <1>12 DEF handle_contact_up
  <2> HIDE DEF y
  <2>5. link' \in LinkStatesOf
    BY <2>2, <2>3, <2>4, CheckNextHopMoves DEF OneMoves
  <2> QED BY <1>2, <1>12, <2>2, <2>5
          DEF handle_contact_up, bundleVars, clVars, TypeInv, TypeOK, EventsNameLinks
<1>13. CASE RequestClosed
  <2>1. Handles("CLOSED")
    BY <1>13 DEF RequestClosed
  <2>2. /\ On \in Links /\ Tail(eventq) \in Seq(LinkedEvent)
        /\ Head(eventq) \in LinkedEvent
    BY <2>1, HeadLinked DEF LinkEventTypes, EventTypes
  <2> QED BY <1>2, <1>13, <2>2, EventsLinked
          DEF RequestClosed, On, bundleVars, clVars, TypeInv, TypeOK, EventsNameLinks
<1>14. CASE CloseCompleted
  <2> DEFINE l == closing.link
             r == IF PutBack(l) THEN BackOnQueue(link[l]) ELSE link[l]
  <2>1. closing # None /\ l \in Links
    BY <1>14 DEF CloseCompleted, TypeInv, EventsNameLinks
  <2>2. link[l] \in LinkRecord
    BY <1>1, <2>1
  <2>3. r \in LinkRecord
    BY <2>2 DEF BackOnQueue, LinkRecord
  <2>4. [r EXCEPT !.state = StateOnceClosed(closing.reason)] \in LinkRecord
    <3> HIDE DEF r
    <3> QED BY <2>3 DEF StateOnceClosed, LinkRecord, LinkStates
  <2>5. link' = [link EXCEPT ![l] =
                     [r EXCEPT !.state = StateOnceClosed(closing.reason)]]
    BY <1>14 DEF CloseCompleted
  <2>6. link' \in LinkStatesOf
    <3> HIDE DEF r, l
    <3> QED BY <1>1, <2>1, <2>4, <2>5
  <2>7. eventq' \in Seq(LinkedEvent)
    <3>1. LinkEvent("BUNDLE_TRANSMITTED", l) \in LinkedEvent
      BY <2>1, EventsLinked DEF EventTypes
    <3> QED BY <1>1, <1>3, <1>14, <3>1 DEF CloseCompleted, PostIfInPart
  <2>8. closing' = None /\ None \in Event
    BY <1>14 DEF CloseCompleted, None, LinkEvent, Event, EventTypes, Reasons
  <2> HIDE DEF r
  <2> QED BY <1>2, <1>14, <2>1, <2>6, <2>7, <2>8
          DEF CloseCompleted, bundleVars, TypeInv, TypeOK, EventsNameLinks
<1>15. CASE ExpirationTimeout
  <2>1. LinkEvent("BUNDLE_EXPIRED", NoLink) \in LinkedEvent
    BY EventsLinked DEF EventTypes, LinkEventTypes
  <2> QED BY <1>1, <1>2, <1>3, <1>15, <2>1
          DEF ExpirationTimeout, clVars, TypeInv, TypeOK, EventsNameLinks
<1>16. CASE UserDelete \/ CustodySignalArrives
  <2>1. /\ LinkEvent("BUNDLE_DELETE", NoLink) \in LinkedEvent
        /\ LinkEvent("CUSTODY_SIGNAL", NoLink) \in LinkedEvent
    BY EventsLinked DEF EventTypes, LinkEventTypes
  <2>2. eventq' \in Seq(LinkedEvent)
    BY <1>1, <1>3, <1>16, <2>1 DEF UserDelete, CustodySignalArrives, UserRequest
  <2> QED BY <1>2, <1>16, <2>2, ForwardingAssumption
          DEF UserDelete, CustodySignalArrives, UserRequest, Happens, bundleVars,
              clVars, TypeInv, TypeOK, EventsNameLinks
<1>17. ASSUME NEW l \in Links
       PROVE  /\ \A t \in EventTypes : LinkEvent(t, l) \in LinkedEvent
              /\ \A r \in Reasons : CloseRequest(l, r) \in LinkedEvent
  BY <1>17, EventsLinked
<1>18. ASSUME NEW l \in Links, contact_up(l) \/ LinkReopens(l) \/ UserClose(l)
       PROVE  TypeInv'
  <2>1. eventq' \in Seq(LinkedEvent)
    BY <1>1, <1>3, <1>17, <1>18 DEF contact_up, LinkReopens, UserClose, EventTypes,
                                    Reasons
  <2> QED BY <1>2, <1>18, <2>1, ForwardingAssumption
          DEF contact_up, LinkReopens, UserClose, Happens, bundleVars, clVars,
              TypeInv, TypeOK, EventsNameLinks
<1>19. ASSUME NEW l \in Links, start_next_bundle(l)
       PROVE  TypeInv'
  <2>1. link' \in LinkStatesOf
    BY <1>1, <1>19 DEF start_next_bundle, LinkRecord
  <2> QED BY <1>19, <2>1
          DEF start_next_bundle, bundleVars, TypeInv, TypeOK, EventsNameLinks
<1>20. ASSUME NEW l \in Links,
              \/ send_next_segment(l) \/ PartialAck(l)
              \/ handle_ack_segment(l) \/ finish_bundle(l)
       PROVE  TypeInv'
  <2>1. eventq' \in Seq(LinkedEvent)
    BY <1>1, <1>3, <1>17, <1>20
    DEF send_next_segment, PartialAck, handle_ack_segment, finish_bundle, EventTypes
  <2>2. /\ cl' \in [Links -> {"none", "started", "sent", "acked", "posted"}]
        /\ UNCHANGED <<bundleVars, link, room, conn, cancelMsg, reroute, closing,
                       faults>>
    BY <1>20 DEF send_next_segment, PartialAck, handle_ack_segment, finish_bundle,
                 CLMoves, TypeInv, TypeOK
  <2> QED BY <1>2, <2>1, <2>2 DEF bundleVars, TypeInv, TypeOK, EventsNameLinks
<1>21. ASSUME NEW l \in Links, handle_cancel_bundle(l)
       PROVE  TypeInv'
  <2>1. eventq' \in Seq(LinkedEvent)
    BY <1>1, <1>3, <1>17, <1>21 DEF handle_cancel_bundle, EventTypes
  <2> QED BY <1>2, <1>21, <2>1
          DEF handle_cancel_bundle, bundleVars, TypeInv, TypeOK, EventsNameLinks
<1>22. ASSUME NEW l \in Links, process_command(l) \/ OtherQueued(l)
       PROVE  TypeInv'
  BY <1>22, ForwardingAssumption
  DEF process_command, OtherQueued, Happens, bundleVars, clVars, TypeInv, TypeOK,
      EventsNameLinks
<1>23. ASSUME NEW l \in Links, ConnectionBroken(l) \/ ConnectionIdle(l)
       PROVE  TypeInv'
  <2>1. eventq' \in Seq(LinkedEvent)
    BY <1>1, <1>3, <1>17, <1>23 DEF ConnectionBroken, ConnectionIdle, break_contact,
                                    Reasons
  <2>2. faults' \in 0 .. MaxFaults
    BY <1>23, ForwardingAssumption
    DEF ConnectionBroken, ConnectionIdle, Happens, TypeInv, TypeOK
  <2>3. break_contact(l, "BROKEN") \/ break_contact(l, "IDLE")
    BY <1>23 DEF ConnectionBroken, ConnectionIdle
  <2> QED BY <1>2, <2>1, <2>2, <2>3
          DEF break_contact, bundleVars, TypeInv, TypeOK, EventsNameLinks
<1>24. ASSUME NEW l \in Links, CustodyTimeout(l)
       PROVE  TypeInv'
  <2>1. eventq' \in Seq(LinkedEvent)
    BY <1>1, <1>3, <1>17, <1>24 DEF CustodyTimeout, EventTypes
  <2> QED BY <1>2, <1>24, <2>1
          DEF CustodyTimeout, clVars, TypeInv, TypeOK, EventsNameLinks
<1>25. ASSUME NEW l \in Links, reroute_bundles(l)
       PROVE  TypeInv'
  <2>1. CancelEvents(link, {l}) \in Seq(LinkedEvent)
    BY <1>1, <1>25, CancelEventsPosted
  <2>2. eventq' \in Seq(LinkedEvent)
    <3>1. eventq' = eventq \/ eventq' = eventq \o CancelEvents(link, {l})
      BY <1>25 DEF reroute_bundles
    <3> HIDE DEF LinkStatesOf
    <3>2. eventq \o CancelEvents(link, {l}) \in Seq(LinkedEvent)
      BY <1>1, <2>1, ConcatOf
    <3> QED BY <1>1, <3>1, <3>2
  <2>3. link' \in LinkStatesOf
    BY <1>1, <1>25, CancelledTyped DEF reroute_bundles
  <2> QED BY <1>2, <1>25, <2>2, <2>3
          DEF reroute_bundles, bundleVars, clVars, TypeInv, TypeOK, EventsNameLinks
<1>26. ASSUME NEW l \in Links, OtherTransmitted(l)
       PROVE  TypeInv'
  <2>1. link' \in LinkStatesOf
    BY <1>1, <1>26, PullDeferredMoves DEF OtherTransmitted, OneMoves
  <2> QED BY <1>26, <2>1
          DEF OtherTransmitted, bundleVars, clVars, TypeInv, TypeOK, EventsNameLinks
<1>27. ASSUME NEW l \in Links, UserCancel(l)
       PROVE  TypeInv'
  <2>1. eventq' \in Seq(LinkedEvent)
    BY <1>1, <1>3, <1>17, <1>27 DEF UserCancel, UserRequest, EventTypes
  <2> QED BY <1>2, <1>27, <2>1, ForwardingAssumption
          DEF UserCancel, UserRequest, Happens, bundleVars, clVars, TypeInv, TypeOK,
              EventsNameLinks
<1>28. CASE UNCHANGED vars
  BY <1>28 DEF vars, TypeInv, TypeOK, EventsNameLinks
<1> QED
  BY <1>4, <1>5, <1>6, <1>7, <1>8, <1>9, <1>10, <1>11, <1>12, <1>13, <1>14, <1>15,
     <1>16, <1>18, <1>19, <1>20, <1>21, <1>22, <1>23, <1>24, <1>25, <1>26, <1>27,
     <1>28
  DEF Next, Daemon, Sends

\* The types hold at the start.
LEMMA TypeInit == Init => TypeInv
<1> SUFFICES ASSUME Init PROVE TypeInv
  OBVIOUS
<1>1. LinkEvent("BUNDLE_RECEIVED", NoLink) \in LinkedEvent
  BY EventsLinked DEF EventTypes, LinkEventTypes
<1>2. eventq \in Seq(LinkedEvent)
  BY <1>1 DEF Init
<1>3. closing = None /\ None \in Event
  BY DEF Init, None, LinkEvent, Event, EventTypes, Reasons
<1>4. link \in [Links -> LinkRecord]
  BY DEF Init
<1>5. eventq \in Seq(Event)
  BY <1>2, EventsLinked
<1>6. /\ status = "new" /\ ~expiration /\ expiration \in BOOLEAN
      /\ custody \in BOOLEAN
      /\ custodyTimer \in [Links -> {"none", "pending", "fired"}]
      /\ room \in [Links -> {"space", "some", "full"}]
      /\ conn \in [Links -> {"none", "connecting", "up", "broken"}]
      /\ cl \in [Links -> {"none", "started", "sent", "acked", "posted"}]
      /\ cancelMsg \in [Links -> BOOLEAN]
      /\ reroute \in [Links -> {"none", "pending", "fired"}]
  BY DEF Init
<1>7. faults \in 0 .. MaxFaults
  BY ForwardingAssumption DEF Init
<1> QED BY <1>2, <1>3, <1>4, <1>5, <1>6, <1>7 DEF TypeInv, TypeOK, EventsNameLinks

\* The variables keep their types in every behaviour; the same induction shows
\* that an event about a link always names one, so that no handler looks up a
\* link that does not exist.
THEOREM TypeCorrect == Spec => [](TypeOK /\ EventsNameLinks)
<1>1. Init => TypeInv
  BY TypeInit
<1>2. TypeInv /\ [Next]_vars => TypeInv'
  BY TypeStep
<1> QED BY <1>1, <1>2, PTL DEF Spec, TypeInv

(***************************************************************************)
(* The steps that leave alone what the forwarding log is about.            *)
(***************************************************************************)
QuietTypes == {"OPEN", "CLOSED", "CONTACT_UP", "BUNDLE_DELETE", "CUSTODY_SIGNAL"}

Quiet ==
    /\ UNCHANGED <<status, expiration, custody, custodyTimer, link, cancelMsg>>
    /\ \/ UNCHANGED eventq
       \/ \E e \in LinkedEvent :
             /\ eventq' = Append(eventq, e)
             /\ e.type \in QuietTypes
             /\ e.type = "BUNDLE_DELETE" => "delete" \in Commands
       \/ /\ eventq # <<>> /\ Head(eventq).type = "CLOSED"
          /\ eventq' = Tail(eventq)
    /\ \A l \in Links :
          \/ cl'[l] = cl[l]
          \/ InUse(l) /\ InUse(l)'
          \/ cl[l] = "posted" /\ cl'[l] = "none"

\* A step is quiet, or one of those the invariants below are about.
LEMMA StepKinds ==
    ASSUME TypeInv, [Next]_vars
    PROVE  \/ Quiet
           \/ handle_bundle_received \/ handle_bundle_transmitted
           \/ handle_bundle_cancelled \/ handle_bundle_expired
           \/ handle_bundle_cancel \/ handle_custody_signal
           \/ handle_custody_timeout \/ RequestOpen \/ handle_contact_up
           \/ CloseCompleted \/ ExpirationTimeout
           \/ \E l \in Links :
                 \/ start_next_bundle(l) \/ handle_ack_segment(l)
                 \/ handle_cancel_bundle(l) \/ CustodyTimeout(l)
                 \/ reroute_bundles(l) \/ OtherTransmitted(l) \/ UserCancel(l)
<1>1. CASE RequestClosed \/ UNCHANGED vars
  BY <1>1 DEF RequestClosed, Handles, vars, bundleVars, clVars, Quiet
<1>2. CASE UserDelete \/ CustodySignalArrives
  <2>1. /\ LinkEvent("BUNDLE_DELETE", NoLink) \in LinkedEvent
        /\ LinkEvent("CUSTODY_SIGNAL", NoLink) \in LinkedEvent
    BY EventsLinked DEF EventTypes, LinkEventTypes
  <2>2. /\ LinkEvent("BUNDLE_DELETE", NoLink).type = "BUNDLE_DELETE"
        /\ LinkEvent("CUSTODY_SIGNAL", NoLink).type = "CUSTODY_SIGNAL"
    BY DEF LinkEvent
  <2> QED BY <1>2, <2>1, <2>2
          DEF UserDelete, CustodySignalArrives, UserRequest, Happens, post,
              bundleVars, clVars, Quiet, QuietTypes
<1>3. ASSUME NEW l \in Links,
             contact_up(l) \/ LinkReopens(l) \/ UserClose(l)
                \/ ConnectionBroken(l) \/ ConnectionIdle(l)
      PROVE  Quiet
  <2>1. /\ \A t \in EventTypes : LinkEvent(t, l) \in LinkedEvent
        /\ \A r \in Reasons : CloseRequest(l, r) \in LinkedEvent
    BY <1>3, EventsLinked
  <2>2. PICK e \in LinkedEvent : eventq' = Append(eventq, e)
                                 /\ e.type \in {"OPEN", "CLOSED", "CONTACT_UP"}
    BY <1>3, <2>1
    DEF contact_up, LinkReopens, UserClose, ConnectionBroken, ConnectionIdle,
        break_contact, post, EventTypes, Reasons, LinkEvent, CloseRequest
  <2>3. UNCHANGED <<status, expiration, custody, custodyTimer, link, cancelMsg, cl>>
    BY <1>3 DEF contact_up, LinkReopens, UserClose, ConnectionBroken,
                ConnectionIdle, break_contact, bundleVars, clVars
  <2> QED BY <2>2, <2>3 DEF Quiet, QuietTypes
<1>4. ASSUME NEW l \in Links,
             \/ process_command(l) \/ OtherQueued(l)
             \/ send_next_segment(l) \/ PartialAck(l) \/ finish_bundle(l)
      PROVE  Quiet
  <2>1. UNCHANGED <<status, expiration, custody, custodyTimer, link, cancelMsg,
                    eventq>>
    BY <1>4 DEF process_command, OtherQueued, send_next_segment, PartialAck,
                finish_bundle, CLMoves, bundleVars, clVars
  <2>2. ASSUME NEW k \in Links
        PROVE  \/ cl'[k] = cl[k]
               \/ InUse(k) /\ InUse(k)'
               \/ cl[k] = "posted" /\ cl'[k] = "none"
    BY <1>4 DEF process_command, OtherQueued, send_next_segment, PartialAck,
                finish_bundle, CLMoves, clVars, InUse, TypeInv, TypeOK
  <2> QED BY <2>1, <2>2 DEF Quiet
<1> QED BY <1>1, <1>2, <1>3, <1>4 DEF Next, Daemon, Sends

(***************************************************************************)
(* What the queue holds after it has changed.                              *)
(***************************************************************************)
Queue == Seq(LinkedEvent)

\* An event is popped.
LEMMA PoppedQueue ==
    ASSUME NEW q \in Queue, q # <<>>
    PROVE  /\ \A t : Has(q, t) <=> Head(q).type = t \/ Has(Tail(q), t)
           /\ \A t, l : InQ(q, t, l) <=> \/ Head(q).type = t /\ Head(q).link = l
                                         \/ InQ(Tail(q), t, l)
           /\ \A t, l : Once(q, t, l) =>
                 /\ Once(Tail(q), t, l)
                 /\ Head(q).type = t /\ Head(q).link = l => ~InQ(Tail(q), t, l)
           /\ OnlyFirst(q) => ~Has(Tail(q), "BUNDLE_RECEIVED")
           /\ OnlyFirst(q) => Head(q).type = "BUNDLE_RECEIVED"
<1>1. /\ DOMAIN q = 1 .. Len(q) /\ DOMAIN Tail(q) = 1 .. Len(q) - 1
      /\ Head(q) = q[1] /\ 1 \in DOMAIN q /\ Len(q) \in Nat
      /\ \A i \in DOMAIN Tail(q) : i + 1 \in DOMAIN q /\ Tail(q)[i] = q[i + 1]
      /\ \A i \in DOMAIN q : i # 1 => /\ i - 1 \in DOMAIN Tail(q)
                                     /\ Tail(q)[i - 1] = q[i]
  BY TailOf DEF Queue
<1>2. \A t : Has(q, t) <=> Head(q).type = t \/ Has(Tail(q), t)
  <2>1. \A t : Head(q).type = t \/ Has(Tail(q), t) => Has(q, t)
    BY <1>1 DEF Has
  <2>2. \A t : Has(q, t) => Head(q).type = t \/ Has(Tail(q), t)
    BY <1>1 DEF Has
  <2> QED BY <2>1, <2>2
<1>3. \A t, l : InQ(q, t, l) <=> \/ Head(q).type = t /\ Head(q).link = l
                                 \/ InQ(Tail(q), t, l)
  <2> SUFFICES ASSUME NEW t, NEW l
               PROVE  InQ(q, t, l) <=> \/ Head(q).type = t /\ Head(q).link = l
                                       \/ InQ(Tail(q), t, l)
    OBVIOUS
  <2>1. ASSUME InQ(q, t, l), ~(Head(q).type = t /\ Head(q).link = l)
        PROVE  InQ(Tail(q), t, l)
    <3>1. PICK i \in DOMAIN q : q[i].type = t /\ q[i].link = l
      BY <2>1 DEF InQ
    <3>2. i - 1 \in DOMAIN Tail(q) /\ Tail(q)[i - 1] = q[i]
      BY <1>1, <2>1, <3>1
    <3> QED BY <3>1, <3>2 DEF InQ
  <2>2. ASSUME InQ(Tail(q), t, l) PROVE InQ(q, t, l)
    BY <1>1, <2>2 DEF InQ
  <2>3. ASSUME Head(q).type = t, Head(q).link = l PROVE InQ(q, t, l)
    BY <1>1, <2>3 DEF InQ
  <2> QED BY <2>1, <2>2, <2>3
<1>4. ASSUME NEW t, NEW l, Once(q, t, l)
      PROVE  Once(Tail(q), t, l)
  <2> SUFFICES ASSUME NEW i \in DOMAIN Tail(q), NEW j \in DOMAIN Tail(q),
                      Tail(q)[i].type = t /\ Tail(q)[i].link = l,
                      Tail(q)[j].type = t /\ Tail(q)[j].link = l
               PROVE  i = j
    BY DEF Once
  <2>1. i + 1 \in DOMAIN q /\ j + 1 \in DOMAIN q /\ i \in Nat /\ j \in Nat
    BY <1>1
  <2>2. i + 1 = j + 1
    BY <1>1, <1>4, <2>1 DEF Once
  <2> QED BY <2>1, <2>2
<1>5. ASSUME NEW t, NEW l, Once(q, t, l), Head(q).type = t, Head(q).link = l,
             InQ(Tail(q), t, l)
      PROVE  FALSE
  <2>1. PICK i \in DOMAIN Tail(q) : Tail(q)[i].type = t /\ Tail(q)[i].link = l
    BY <1>5 DEF InQ
  <2>2. i + 1 \in DOMAIN q /\ i \in Nat /\ i >= 1
    BY <1>1
  <2>3. i + 1 = 1
    BY <1>1, <1>5, <2>1, <2>2 DEF Once
  <2> QED BY <2>2, <2>3
<1>6. OnlyFirst(q) => ~Has(Tail(q), "BUNDLE_RECEIVED")
  BY <1>1 DEF OnlyFirst, Has
<1>7. OnlyFirst(q) => Head(q).type = "BUNDLE_RECEIVED"
  BY <1>1 DEF OnlyFirst
<1> QED BY <1>2, <1>3, <1>4, <1>5, <1>6, <1>7

\* Events are appended.
LEMMA JoinedQueue ==
    ASSUME NEW q \in Queue, NEW r \in Queue
    PROVE  /\ q \o r \in Queue
           /\ \A t : Has(q \o r, t) <=> Has(q, t) \/ Has(r, t)
           /\ \A t, l : InQ(q \o r, t, l) <=> InQ(q, t, l) \/ InQ(r, t, l)
           /\ \A t, l : /\ Once(q, t, l) /\ Once(r, t, l)
                        /\ ~(InQ(q, t, l) /\ InQ(r, t, l))
                        => Once(q \o r, t, l)
           /\ OnlyFirst(q) /\ ~Has(r, "BUNDLE_RECEIVED") => OnlyFirst(q \o r)
<1>1. /\ q \o r \in Queue
      /\ DOMAIN q = 1 .. Len(q) /\ DOMAIN r = 1 .. Len(r)
      /\ DOMAIN (q \o r) = 1 .. Len(q) + Len(r)
      /\ \A i \in DOMAIN q : i \in DOMAIN (q \o r) /\ (q \o r)[i] = q[i]
      /\ \A i \in DOMAIN r : /\ Len(q) + i \in DOMAIN (q \o r)
                             /\ (q \o r)[Len(q) + i] = r[i]
      /\ \A i \in DOMAIN (q \o r) :
                 \/ i \in DOMAIN q /\ (q \o r)[i] = q[i]
                 \/ i - Len(q) \in DOMAIN r /\ (q \o r)[i] = r[i - Len(q)]
  BY ConcatOf DEF Queue
<1>2. Len(q) \in Nat /\ Len(r) \in Nat /\ (OnlyFirst(q) => q[1] = q[1] /\ Len(q) # 0)
  BY DEF Queue, OnlyFirst
<1> DEFINE p == q \o r
<1>3. /\ DOMAIN p = 1 .. Len(q) + Len(r)
      /\ \A i \in DOMAIN q : i \in DOMAIN p /\ p[i] = q[i]
      /\ \A i \in DOMAIN r : Len(q) + i \in DOMAIN p /\ p[Len(q) + i] = r[i]
      /\ \A i \in DOMAIN p : \/ i \in DOMAIN q /\ p[i] = q[i]
                             \/ i - Len(q) \in DOMAIN r /\ p[i] = r[i - Len(q)]
  BY <1>1
<1> HIDE DEF p
<1>4. \A t : Has(p, t) <=> Has(q, t) \/ Has(r, t)
  BY <1>3 DEF Has
<1>5. \A t, l : InQ(p, t, l) <=> InQ(q, t, l) \/ InQ(r, t, l)
  BY <1>3 DEF InQ
<1>6. ASSUME NEW t, NEW l, Once(q, t, l), Once(r, t, l),
             ~(InQ(q, t, l) /\ InQ(r, t, l))
      PROVE  Once(p, t, l)
  <2> SUFFICES ASSUME NEW i \in DOMAIN p, NEW j \in DOMAIN p,
                      p[i].type = t /\ p[i].link = l,
                      p[j].type = t /\ p[j].link = l
               PROVE  i = j
    BY DEF Once
  <2>0. i \in Nat /\ j \in Nat
    BY <1>2, <1>3
  <2>1. CASE i \in DOMAIN q /\ j \in DOMAIN q
    BY <2>1, <1>3, <1>6 DEF Once
  <2>2. CASE i - Len(q) \in DOMAIN r /\ j - Len(q) \in DOMAIN r
                /\ p[i] = r[i - Len(q)] /\ p[j] = r[j - Len(q)]
    <3>1. i - Len(q) = j - Len(q)
      BY <2>2, <1>6 DEF Once
    <3> QED BY <3>1, <2>0, <1>2
  <2>3. CASE InQ(q, t, l) /\ InQ(r, t, l)
    BY <2>3, <1>6
  <2> QED BY <1>3, <2>1, <2>2, <2>3 DEF InQ
<1>7. OnlyFirst(q) /\ ~Has(r, "BUNDLE_RECEIVED") => OnlyFirst(p)
  <2> SUFFICES ASSUME OnlyFirst(q), ~Has(r, "BUNDLE_RECEIVED")
               PROVE  OnlyFirst(p)
    OBVIOUS
  <2>1. 1 \in DOMAIN p /\ 1 \in DOMAIN q
    BY <1>1, <1>2, <1>3
  <2>2. p # <<>>
    BY <2>1
  <2>3. ASSUME NEW i \in DOMAIN p PROVE p[i].type = "BUNDLE_RECEIVED" <=> i = 1
    <3>1. CASE i \in DOMAIN q /\ p[i] = q[i]
      BY <3>1 DEF OnlyFirst
    <3>2. CASE i - Len(q) \in DOMAIN r /\ p[i] = r[i - Len(q)]
      <4>1. i - Len(q) >= 1
        BY <1>1, <1>2, <3>2
      <4>2. i # 1
        BY <4>1, <1>2, <1>3
      <4> QED BY <3>2, <4>2 DEF Has
    <3> QED BY <1>3, <3>1, <3>2
  <2> QED BY <2>2, <2>3 DEF OnlyFirst
<1> QED BY <1>1, <1>4, <1>5, <1>6, <1>7 DEF p

\* One event, as a queue of its own.
LEMMA OneEvent ==
    ASSUME NEW e \in LinkedEvent
    PROVE  /\ <<e>> \in Queue
           /\ \A t : Has(<<e>>, t) <=> e.type = t
           /\ \A t, l : InQ(<<e>>, t, l) <=> e.type = t /\ e.link = l
           /\ \A t, l : Once(<<e>>, t, l)
<1>1. DOMAIN <<e>> = {1} /\ <<e>>[1] = e
  OBVIOUS
<1> QED BY <1>1 DEF Queue, Has, InQ, Once

\* A single event is appended.
LEMMA PostedQueue ==
    ASSUME NEW q \in Queue, NEW e \in LinkedEvent
    PROVE  /\ Append(q, e) \in Queue
           /\ \A t : Has(Append(q, e), t) <=> Has(q, t) \/ e.type = t
           /\ \A t, l : InQ(Append(q, e), t, l) <=>
                           InQ(q, t, l) \/ (e.type = t /\ e.link = l)
           /\ \A t, l : /\ Once(q, t, l)
                        /\ InQ(q, t, l) => e.type # t \/ e.link # l
                        => Once(Append(q, e), t, l)
           /\ OnlyFirst(q) /\ e.type # "BUNDLE_RECEIVED" => OnlyFirst(Append(q, e))
<1> DEFINE r == <<e>>
<1>1. Append(q, e) = q \o r
  BY DEF Queue
<1>2. /\ r \in Queue
      /\ \A t : Has(r, t) <=> e.type = t
      /\ \A t, l : InQ(r, t, l) <=> e.type = t /\ e.link = l
      /\ \A t, l : Once(r, t, l)
  BY OneEvent
<1> HIDE DEF r
<1>3. /\ q \o r \in Queue
      /\ \A t : Has(q \o r, t) <=> Has(q, t) \/ Has(r, t)
      /\ \A t, l : InQ(q \o r, t, l) <=> InQ(q, t, l) \/ InQ(r, t, l)
      /\ \A t, l : /\ Once(q, t, l) /\ Once(r, t, l)
                   /\ ~(InQ(q, t, l) /\ InQ(r, t, l))
                   => Once(q \o r, t, l)
      /\ OnlyFirst(q) /\ ~Has(r, "BUNDLE_RECEIVED") => OnlyFirst(q \o r)
  BY <1>2, JoinedQueue
<1>4. \A t : Has(q \o r, t) <=> Has(q, t) \/ e.type = t
  BY <1>2, <1>3
<1>5. \A t, l : InQ(q \o r, t, l) <=> InQ(q, t, l) \/ (e.type = t /\ e.link = l)
  BY <1>2, <1>3
<1>6. \A t, l : /\ Once(q, t, l)
                /\ InQ(q, t, l) => e.type # t \/ e.link # l
                => Once(q \o r, t, l)
  BY <1>2, <1>3
<1>7. OnlyFirst(q) /\ e.type # "BUNDLE_RECEIVED" => OnlyFirst(q \o r)
  BY <1>2, <1>3
<1>8. q \o r \in Queue
  BY <1>3
<1> HIDE <1>2, <1>3
<1> QED BY <1>1, <1>4, <1>5, <1>6, <1>7, <1>8

\* A single event is put in front.
LEMMA FrontQueue ==
    ASSUME NEW q \in Queue, NEW e \in LinkedEvent
    PROVE  /\ <<e>> \o q \in Queue
           /\ \A t : Has(<<e>> \o q, t) <=> Has(q, t) \/ e.type = t
           /\ \A t, l : InQ(<<e>> \o q, t, l) <=>
                           InQ(q, t, l) \/ (e.type = t /\ e.link = l)
           /\ \A t, l : /\ Once(q, t, l)
                        /\ InQ(q, t, l) => e.type # t \/ e.link # l
                        => Once(<<e>> \o q, t, l)
<1> DEFINE r == <<e>>
<1>2. /\ r \in Queue
      /\ \A t : Has(r, t) <=> e.type = t
      /\ \A t, l : InQ(r, t, l) <=> e.type = t /\ e.link = l
      /\ \A t, l : Once(r, t, l)
  BY OneEvent
<1> HIDE DEF r
<1>3. /\ r \o q \in Queue
      /\ \A t : Has(r \o q, t) <=> Has(r, t) \/ Has(q, t)
      /\ \A t, l : InQ(r \o q, t, l) <=> InQ(r, t, l) \/ InQ(q, t, l)
      /\ \A t, l : /\ Once(r, t, l) /\ Once(q, t, l)
                   /\ ~(InQ(r, t, l) /\ InQ(q, t, l))
                   => Once(r \o q, t, l)
  BY <1>2, JoinedQueue
<1>4. \A t : Has(r \o q, t) <=> Has(q, t) \/ e.type = t
  BY <1>2, <1>3
<1>5. \A t, l : InQ(r \o q, t, l) <=> InQ(q, t, l) \/ (e.type = t /\ e.link = l)
  BY <1>2, <1>3
<1>6. \A t, l : /\ Once(q, t, l)
                /\ InQ(q, t, l) => e.type # t \/ e.link # l
                => Once(r \o q, t, l)
  BY <1>2, <1>3
<1>7. r \o q \in Queue
  BY <1>3
<1> QED BY <1>4, <1>5, <1>6, <1>7 DEF r

\* A cancellation posts at most one event about a link.
LEMMA CancelQueue ==
    ASSUME NEW lk \in LinkStatesOf, NEW S \in SUBSET Links
    PROVE  /\ CancelEvents(lk, S) \in Queue
           /\ \A t : Has(CancelEvents(lk, S), t) => t = "BUNDLE_CANCELLED"
           /\ \A t, l : InQ(CancelEvents(lk, S), t, l) <=>
                           t = "BUNDLE_CANCELLED" /\ l \in S /\ EndsHere(lk, l)
           /\ \A t, l : Once(CancelEvents(lk, S), t, l)
<1> DEFINE c == CancelEvents(lk, S)
<1>1. /\ c \in Seq(LinkedEvent)
      /\ \A i \in DOMAIN c : c[i].type = "BUNDLE_CANCELLED" /\ c[i].link \in S
                             /\ EndsHere(lk, c[i].link)
      /\ \A l \in S : EndsHere(lk, l) => \E i \in DOMAIN c : c[i].link = l
      /\ \A i, j \in DOMAIN c : c[i].link = c[j].link => i = j
  BY CancelEventsPosted
<1> HIDE DEF c
<1>2. c \in Queue /\ \A t : Has(c, t) => t = "BUNDLE_CANCELLED"
  BY <1>1 DEF Has, Queue
<1>3. ASSUME NEW t, NEW l
      PROVE  InQ(c, t, l) <=> t = "BUNDLE_CANCELLED" /\ l \in S /\ EndsHere(lk, l)
  BY <1>1 DEF InQ
<1>4. \A t, l : Once(c, t, l)
  BY <1>1 DEF Once
<1> QED BY <1>2, <1>3, <1>4 DEF c

(***************************************************************************)
(* What the handlers do to the links and to the queue.                     *)
(***************************************************************************)

\* Two records of a link that differ at most in whether the bundle waits.
SameBut(r, s) == /\ s.state = r.state /\ s.log = r.log /\ s.blocks = r.blocks
                 /\ s.queue = r.queue /\ s.inflight = r.inflight

\* The bundle is taken off the queues of links S, starting from lk, and the
\* events that say so follow those of q.
Cancels(lk, S, q) ==
    /\ \A l \in Links :
          /\ link'[l].state = lk[l].state /\ link'[l].log = lk[l].log
          /\ link'[l].blocks = lk[l].blocks
          /\ link'[l].inflight = lk[l].inflight
          /\ link'[l].queue <=> lk[l].queue /\ ~(l \in S /\ lk[l].blocks)
    /\ \A t : Has(eventq', t) => Has(q, t) \/ t = "BUNDLE_CANCELLED"
    /\ \A t, l : InQ(eventq', t, l) <=>
                    \/ InQ(q, t, l)
                    \/ t = "BUNDLE_CANCELLED" /\ l \in S /\ EndsHere(lk, l)
    /\ \A t, l : /\ Once(q, t, l)
                 /\ ~(t = "BUNDLE_CANCELLED" /\ l \in S /\ EndsHere(lk, l)
                         /\ InQ(q, t, l))
                 => Once(eventq', t, l)
    /\ OnlyFirst(q) => OnlyFirst(eventq')

\* BundleActions::cancel_bundle on the links of S.
LEMMA CancelsOf ==
    ASSUME NEW lk \in LinkStatesOf, NEW S \in SUBSET Links, NEW q \in Queue,
           link' = Cancelled(lk, S), eventq' = q \o CancelEvents(lk, S)
    PROVE  Cancels(lk, S, q)
<1> DEFINE c == CancelEvents(lk, S)
<1>1. /\ c \in Queue
      /\ \A t : Has(c, t) => t = "BUNDLE_CANCELLED"
      /\ \A t, l : InQ(c, t, l) <=>
                      t = "BUNDLE_CANCELLED" /\ l \in S /\ EndsHere(lk, l)
      /\ \A t, l : Once(c, t, l)
  BY CancelQueue
<1> HIDE DEF c
<1>2. eventq' = q \o c
  BY DEF c
<1>3. /\ \A t : Has(eventq', t) <=> Has(q, t) \/ Has(c, t)
      /\ \A t, l : InQ(eventq', t, l) <=> InQ(q, t, l) \/ InQ(c, t, l)
      /\ \A t, l : /\ Once(q, t, l) /\ Once(c, t, l)
                   /\ ~(InQ(q, t, l) /\ InQ(c, t, l))
                   => Once(eventq', t, l)
      /\ OnlyFirst(q) /\ ~Has(c, "BUNDLE_RECEIVED") => OnlyFirst(eventq')
  BY <1>1, <1>2, JoinedQueue
<1>4. ASSUME NEW l \in Links
      PROVE  /\ link'[l].state = lk[l].state /\ link'[l].log = lk[l].log
             /\ link'[l].blocks = lk[l].blocks
             /\ link'[l].inflight = lk[l].inflight
             /\ link'[l].queue <=> lk[l].queue /\ ~(l \in S /\ lk[l].blocks)
  <2>1. /\ lk[l] \in LinkRecord
        /\ link'[l] = IF l \in S /\ lk[l].blocks /\ lk[l].queue
                      THEN [lk[l] EXCEPT !.queue = FALSE] ELSE lk[l]
    BY DEF Cancelled, InQueue, LinkStatesOf
  <2> QED BY <2>1 DEF LinkRecord
<1>7. \A t : Has(eventq', t) => Has(q, t) \/ t = "BUNDLE_CANCELLED"
  BY <1>1, <1>3
<1>8. \A t, l : InQ(eventq', t, l) <=>
                    \/ InQ(q, t, l)
                    \/ t = "BUNDLE_CANCELLED" /\ l \in S /\ EndsHere(lk, l)
  BY <1>1, <1>3
<1>9. \A t, l : /\ Once(q, t, l)
                 /\ ~(t = "BUNDLE_CANCELLED" /\ l \in S /\ EndsHere(lk, l)
                         /\ InQ(q, t, l))
                 => Once(eventq', t, l)
  BY <1>1, <1>3
<1>10. OnlyFirst(q) => OnlyFirst(eventq')
  BY <1>1, <1>3
<1> QED BY <1>4, <1>7, <1>8, <1>9, <1>10 DEF Cancels

\* Deletion cancels the bundle everywhere and takes it off the deferred lists.
LEMMA CancelsOfDelete ==
    ASSUME TypeInv, NEW lk \in LinkStatesOf, NEW q \in Queue, Delete(lk, q)
    PROVE  /\ Cancels(lk, Links, q)
           /\ status' = "deleted" /\ ~expiration'
           /\ \A l \in Links : /\ ~link'[l].deferred
                               /\ cancelMsg'[l] <=> cancelMsg[l] \/ LeftToCL(lk, l)
<1> DEFINE y == remove_from_deferred(lk)
<1>1. y \in LinkStatesOf /\ \A l \in Links :
          /\ SameBut(lk[l], y[l]) /\ ~y[l].deferred
  BY DEF remove_from_deferred, LinkStatesOf, LinkRecord, SameBut
<1>2. link' = Cancelled(y, Links) /\ eventq' = q \o CancelEvents(y, Links)
      /\ status' = "deleted" /\ ~expiration' /\ cancelMsg' = CancelMessages(y, Links)
  BY DEF Delete, ExpirationCancelled
<1> HIDE DEF y
<1>3. Links \in SUBSET Links
  OBVIOUS
<1>4. Cancels(y, Links, q)
  BY <1>1, <1>2, <1>3, CancelsOf
<1>5. \A l \in Links : EndsHere(y, l) <=> EndsHere(lk, l)
  BY <1>1 DEF EndsHere, InQueue, InFlight, SameBut
<1>6. \A l \in Links : LeftToCL(y, l) <=> LeftToCL(lk, l)
  BY <1>1 DEF LeftToCL, InFlight, SameBut
<1>7. Cancels(lk, Links, q)
  <2>1. \A l \in Links :
          /\ link'[l].state = lk[l].state /\ link'[l].log = lk[l].log
          /\ link'[l].blocks = lk[l].blocks
          /\ link'[l].inflight = lk[l].inflight
          /\ link'[l].queue <=> lk[l].queue /\ ~(l \in Links /\ lk[l].blocks)
    BY <1>1, <1>4 DEF Cancels, SameBut
  <2>2. /\ \A t : Has(eventq', t) => Has(q, t) \/ t = "BUNDLE_CANCELLED"
        /\ OnlyFirst(q) => OnlyFirst(eventq')
    BY <1>4 DEF Cancels
  <2>3. \A t, l : InQ(eventq', t, l) <=>
                    \/ InQ(q, t, l)
                    \/ t = "BUNDLE_CANCELLED" /\ l \in Links /\ EndsHere(lk, l)
    BY <1>4, <1>5 DEF Cancels
  <2>4. \A t, l : /\ Once(q, t, l)
                 /\ ~(t = "BUNDLE_CANCELLED" /\ l \in Links /\ EndsHere(lk, l)
                         /\ InQ(q, t, l))
                 => Once(eventq', t, l)
    BY <1>4, <1>5 DEF Cancels
  <2> QED BY <2>1, <2>2, <2>3, <2>4 DEF Cancels
<1>8. ASSUME NEW l \in Links
      PROVE  ~link'[l].deferred /\ (cancelMsg'[l] <=> cancelMsg[l] \/ LeftToCL(lk, l))
  <2>1. y[l] \in LinkRecord /\ link'[l] = IF l \in Links /\ InQueue(y, l)
                               THEN [y[l] EXCEPT !.queue = FALSE] ELSE y[l]
    BY <1>1, <1>2 DEF Cancelled, LinkStatesOf
  <2>2. ~link'[l].deferred
    BY <1>1, <2>1 DEF LinkRecord
  <2>3. cancelMsg'[l] <=> cancelMsg[l] \/ LeftToCL(lk, l)
    BY <1>2, <1>6 DEF CancelMessages
  <2> QED BY <2>2, <2>3
<1> QED BY <1>2, <1>7, <1>8

\* BundleDaemon::try_to_delete either deletes the bundle or leaves it.
LEMMA TryToDeleteEither ==
    ASSUME NEW lk, NEW mine, NEW q, try_to_delete(lk, mine, q)
    PROVE  \/ /\ status = "pending" /\ ~mine /\ Delete(lk, q)
              /\ \E l \in Links : lk[l].log = "TRANSMITTED"
           \/ link' = lk /\ eventq' = q /\ UNCHANGED <<status, expiration, cancelMsg>>
  BY DEF try_to_delete, can_delete_bundle

\* The state of the links once a transmission is recorded: lk.
Recorded(lk) ==
    /\ \A l \in Links : ~lk[l].deferred /\ lk[l].state = link[l].state
    /\ \A l \in Links : l # On \/ ~link[l].blocks => SameBut(link[l], lk[l])
    /\ link[On].blocks => /\ lk[On].log = "TRANSMITTED" /\ ~lk[On].blocks
                          /\ ~InHand(lk[On])

\* BundleDaemon::handle_bundle_transmitted, with the router's part: the
\* deferred lists are empty when it looks at the link for more to send.
LEMMA TransmittedEffect ==
    ASSUME TypeInv, handle_bundle_transmitted
    PROVE  /\ On \in Links /\ eventq \in Queue /\ eventq # <<>>
           /\ Tail(eventq) \in Queue
           /\ Head(eventq).type = "BUNDLE_TRANSMITTED"
           /\ \E lk \in LinkStatesOf :
                 Recorded(lk) /\ try_to_delete(lk, custody, Tail(eventq))
           /\ UNCHANGED <<custody, cl>>
<1> DEFINE x == [link EXCEPT ![On] = Transmitted(@)]
           y == remove_from_deferred(x)
<1>1. Handles("BUNDLE_TRANSMITTED")
  BY DEF handle_bundle_transmitted
<1>2. On \in Links /\ Tail(eventq) \in Seq(LinkedEvent) /\ eventq \in Seq(LinkedEvent)
      /\ eventq # <<>> /\ Head(eventq).type = "BUNDLE_TRANSMITTED"
  BY <1>1, HeadLinked DEF LinkEventTypes, EventTypes, Handles, TypeInv,
                          EventsNameLinks
<1>3. link \in LinkStatesOf
  BY DEF TypeInv, TypeOK, LinkStatesOf
<1>4. /\ x \in LinkStatesOf
      /\ \A l \in Links : x[l].state = link[l].state
      /\ \A l \in Links : l # On \/ ~link[l].blocks => SameBut(link[l], x[l])
      /\ link[On].blocks => /\ x[On].log = "TRANSMITTED" /\ ~x[On].blocks
                            /\ ~InHand(x[On])
  BY <1>2, <1>3 DEF Transmitted, LinkStatesOf, LinkRecord, FwdStates, SameBut, InHand
<1> HIDE DEF x
<1>5. y \in LinkStatesOf /\ \A l \in Links : SameBut(x[l], y[l]) /\ ~y[l].deferred
  BY <1>4 DEF remove_from_deferred, LinkStatesOf, LinkRecord, SameBut
<1>6. try_to_delete(check_next_hop(y, On), custody, Tail(eventq))
      /\ UNCHANGED <<custody, cl>>
  BY DEF handle_bundle_transmitted, x, y
<1> HIDE DEF y
<1>7. check_next_hop(y, On) = y
  BY <1>2, <1>5, CheckNextHopMoves
<1>8. Recorded(y)
  BY <1>2, <1>4, <1>5 DEF Recorded, SameBut, InHand
<1> QED BY <1>2, <1>5, <1>6, <1>7, <1>8 DEF Queue

\* The event being handled, and what is left behind it.
LEMMA HandledEvent ==
    ASSUME TypeInv, NEW t, Handles(t)
    PROVE  /\ eventq \in Queue /\ Tail(eventq) \in Queue
           /\ t \in LinkEventTypes => On \in Links
           /\ \A u : Has(Tail(eventq), u) => Has(eventq, u)
           /\ \A u, l : InQ(Tail(eventq), u, l) => InQ(eventq, u, l)
           /\ \A u, l : InQ(eventq, u, l) =>
                           InQ(Tail(eventq), u, l) \/ (u = t /\ l = On)
           /\ \A u, l : Once(eventq, u, l) => Once(Tail(eventq), u, l)
           /\ InQ(eventq, t, On) /\ Has(eventq, t)
           /\ Once(eventq, t, On) => ~InQ(Tail(eventq), t, On)
           /\ ReceivedFirst /\ t # "BUNDLE_RECEIVED" =>
                 status # "new" /\ ~Has(Tail(eventq), "BUNDLE_RECEIVED")
<1>1. /\ eventq \in Queue /\ Tail(eventq) \in Queue /\ eventq # <<>>
      /\ t \in LinkEventTypes => On \in Links
      /\ Head(eventq).type = t /\ On = Head(eventq).link
  BY HeadLinked DEF TypeInv, EventsNameLinks, Queue, Handles, On
<1>2. /\ \A u : Has(eventq, u) <=> t = u \/ Has(Tail(eventq), u)
      /\ \A u, l : InQ(eventq, u, l) <=> (t = u /\ On = l)
                                          \/ InQ(Tail(eventq), u, l)
      /\ \A u, l : Once(eventq, u, l) =>
                 /\ Once(Tail(eventq), u, l)
                 /\ t = u /\ On = l => ~InQ(Tail(eventq), u, l)
      /\ OnlyFirst(eventq) => t = "BUNDLE_RECEIVED"
  BY <1>1, PoppedQueue
<1>3. ReceivedFirst /\ t # "BUNDLE_RECEIVED" =>
                 status # "new" /\ ~Has(Tail(eventq), "BUNDLE_RECEIVED")
  BY <1>2 DEF ReceivedFirst
<1> QED BY <1>1, <1>2, <1>3

(***************************************************************************)
(* The forwarding log, the formatted blocks and the custody timers.        *)
(***************************************************************************)
LogOK(r) == /\ r.log = "QUEUED" => r.blocks
            /\ r.log = "TRANSMITTED" => ~r.blocks

\* Routing keeps a transmission's record, and queues what it logs as queued.
LEMMA MovedLog ==
    ASSUME NEW r, NEW s, Moved(r, s), LogOK(r)
    PROVE  /\ LogOK(s)
           /\ r.log = "TRANSMITTED" => s.log = "TRANSMITTED"
           /\ s.log = "QUEUED" => r.log = "QUEUED" \/ s.queue
           /\ r.log = "QUEUED" /\ r.queue => s.queue
           /\ s.inflight = r.inflight
  BY DEF Moved, LogOK, Sent

\* The parts of LogInv for one link, with the events q ahead.
UnderWayAt(r, used, q, l) ==
    r.log = "QUEUED" => \/ r.queue
                        \/ r.inflight /\ used
                        \/ InQ(q, "BUNDLE_TRANSMITTED", l)
                        \/ InQ(q, "BUNDLE_CANCELLED", l)

\* LogInv, link by link.
LEMMA LogParts ==
    LogInv <=> /\ ReceivedFirst
               /\ custody => status = "pending"
               /\ \A l \in Links :
                     /\ LogOK(link[l])
                     /\ custodyTimer[l] # "none"
                           => custody /\ link[l].log = "TRANSMITTED"
                     /\ UnderWayAt(link[l], InUse(l), eventq, l)
  BY DEF LogInv, LogMatchesBlocks, TimersMatch, UnderWay, LogOK, UnderWayAt,
         Queued, InQ

\* The same of the next state.
LEMMA LogPartsNext ==
    LogInv' <=> /\ ReceivedFirst'
                /\ custody' => status' = "pending"
                /\ \A l \in Links :
                      /\ LogOK(link'[l])
                      /\ custodyTimer'[l] # "none"
                            => custody' /\ link'[l].log = "TRANSMITTED"
                      /\ UnderWayAt(link'[l], InUse(l)', eventq', l)
  BY DEF LogInv, LogMatchesBlocks, TimersMatch, UnderWay, LogOK, UnderWayAt,
         Queued, InQ

\* A cancellation keeps the log in order: where it takes the bundle off a
\* queue, the event that will end the transmission is posted.
LEMMA CancelsKeepLog ==
    ASSUME NEW lk, NEW S \in SUBSET Links, NEW q, Cancels(lk, S, q), UNCHANGED cl,
           NEW l \in Links, LogOK(lk[l]), UnderWayAt(lk[l], InUse(l), q, l)
    PROVE  /\ LogOK(link'[l]) /\ link'[l].log = lk[l].log
           /\ UnderWayAt(link'[l], InUse(l)', eventq', l)
<1>1. /\ link'[l].log = lk[l].log /\ link'[l].blocks = lk[l].blocks
      /\ link'[l].inflight = lk[l].inflight
      /\ link'[l].queue <=> lk[l].queue /\ ~(l \in S /\ lk[l].blocks)
  BY DEF Cancels
<1>2. InUse(l)' <=> InUse(l)
  BY DEF InUse
<1>3. \A t : InQ(eventq', t, l) <=>
                 \/ InQ(q, t, l)
                 \/ t = "BUNDLE_CANCELLED" /\ l \in S /\ EndsHere(lk, l)
  BY DEF Cancels
<1>4. lk[l].queue /\ l \in S /\ lk[l].blocks => EndsHere(lk, l)
  BY DEF EndsHere, InQueue
<1> QED BY <1>1, <1>2, <1>3, <1>4 DEF LogOK, UnderWayAt

\* Every step keeps the forwarding log, the blocks and the timers in order.
LEMMA LogStep ==
    ASSUME TypeInv, LogInv, [Next]_vars
    PROVE  LogInv'
<1>1. /\ link \in LinkStatesOf /\ eventq \in Queue
      /\ custodyTimer \in [Links -> {"none", "pending", "fired"}]
      /\ cl \in [Links -> {"none", "started", "sent", "acked", "posted"}]
  BY DEF TypeInv, TypeOK, EventsNameLinks, LinkStatesOf, Queue
<1>2. /\ ReceivedFirst
      /\ custody => status = "pending"
      /\ \A l \in Links : /\ LogOK(link[l])
                          /\ custodyTimer[l] # "none"
                                => custody /\ link[l].log = "TRANSMITTED"
                          /\ UnderWayAt(link[l], InUse(l), eventq, l)
  BY LogParts
<1>3. CASE Quiet
  <2>1. UNCHANGED <<status, expiration, custody, custodyTimer, link>>
    BY <1>3 DEF Quiet
  <2>2. \A l \in Links : InUse(l) => InUse(l)'
    BY <1>3 DEF Quiet, InUse
  <2>3. /\ ReceivedFirst'
        /\ \A l \in Links, t \in {"BUNDLE_TRANSMITTED", "BUNDLE_CANCELLED"} :
              InQ(eventq, t, l) => InQ(eventq', t, l)
    <3>1. CASE UNCHANGED eventq
      BY <3>1, <2>1, <1>2 DEF ReceivedFirst
    <3>2. ASSUME NEW e \in LinkedEvent, eventq' = Append(eventq, e),
                 e.type \in QuietTypes
          PROVE  /\ ReceivedFirst'
                 /\ \A l \in Links : \A t : InQ(eventq, t, l) => InQ(eventq', t, l)
      <4>1. /\ \A t : Has(eventq', t) <=> Has(eventq, t) \/ e.type = t
            /\ \A t, l : InQ(eventq, t, l) => InQ(eventq', t, l)
            /\ OnlyFirst(eventq) /\ e.type # "BUNDLE_RECEIVED" => OnlyFirst(eventq')
        BY <1>1, <3>2, PostedQueue
      <4> QED BY <1>2, <2>1, <3>2, <4>1 DEF ReceivedFirst, QuietTypes
    <3>3. CASE eventq # <<>> /\ Head(eventq).type = "CLOSED" /\ eventq' = Tail(eventq)
      <4>1. /\ \A t : Has(eventq, t) <=> Head(eventq).type = t \/ Has(eventq', t)
            /\ \A t, l : InQ(eventq, t, l) <=>
                   \/ Head(eventq).type = t /\ Head(eventq).link = l
                   \/ InQ(eventq', t, l)
            /\ OnlyFirst(eventq) => Head(eventq).type = "BUNDLE_RECEIVED"
        BY <1>1, <3>3, PoppedQueue
      <4> QED BY <1>2, <2>1, <3>3, <4>1 DEF ReceivedFirst
    <3> QED BY <1>3, <3>1, <3>2, <3>3 DEF Quiet
  <2>4. \A l \in Links : UnderWayAt(link'[l], InUse(l)', eventq', l)
    BY <1>2, <2>1, <2>2, <2>3 DEF UnderWayAt
  <2> QED BY <1>2, <2>1, <2>3, <2>4, LogPartsNext
<1>4. CASE handle_bundle_received
  <2>1. Handles("BUNDLE_RECEIVED")
    BY <1>4 DEF handle_bundle_received
  <2>2. status = "new" /\ OnlyFirst(eventq)
    BY <1>2, <2>1, HandledEvent DEF ReceivedFirst
  <2>3. ~Has(Tail(eventq), "BUNDLE_RECEIVED")
    BY <1>1, <2>1, <2>2, PoppedQueue DEF Handles
  <2>4. ReceivedFirst' /\ status' = "pending"
    BY <1>4, <2>3 DEF handle_bundle_received, ReceivedFirst
  <2>5. \A l \in Links : Moved(link[l], link'[l])
    BY <1>1, <1>4, RouteBundleMoves, MovedReflexive DEF handle_bundle_received
  <2>6. ASSUME NEW l \in Links
        PROVE  /\ LogOK(link'[l]) /\ custodyTimer'[l] = "none"
               /\ UnderWayAt(link'[l], InUse(l)', eventq', l)
    <3>1. link[l].log = "NONE" /\ custodyTimer[l] = "none"
      BY <1>2, <2>2 DEF ReceivedFirst
    <3>2. LogOK(link'[l]) /\ (link'[l].log = "QUEUED" => link'[l].queue)
      BY <1>2, <2>5, <3>1, MovedLog
    <3> QED BY <1>4, <3>1, <3>2 DEF handle_bundle_received, UnderWayAt
  <2> QED BY <2>4, <2>6, LogPartsNext
<1>5. CASE handle_bundle_transmitted
  <2>1. Handles("BUNDLE_TRANSMITTED")
    BY <1>5 DEF handle_bundle_transmitted
  <2>2. PICK lk \in LinkStatesOf :
            Recorded(lk) /\ try_to_delete(lk, custody, Tail(eventq))
    BY <1>5, TransmittedEffect
  <2>3. On \in Links /\ UNCHANGED <<custody, cl>> /\ Tail(eventq) \in Queue
    BY <1>5, TransmittedEffect
  <2>4. status # "new" /\ ~Has(Tail(eventq), "BUNDLE_RECEIVED")
    BY <1>2, <2>1, HandledEvent
  <2>5. ASSUME NEW l \in Links
        PROVE  /\ LogOK(lk[l]) /\ UnderWayAt(lk[l], InUse(l), Tail(eventq), l)
               /\ custodyTimer'[l] # "none" => custody /\ lk[l].log = "TRANSMITTED"
    <3>1. custodyTimer'[l] = IF l = On /\ link[On].blocks /\ custody
                             THEN "pending" ELSE custodyTimer[l]
      BY <1>1, <1>5, <2>3 DEF handle_bundle_transmitted
    <3>2. CASE l = On /\ link[l].blocks
      BY <1>2, <2>2, <3>1, <3>2 DEF Recorded, LogOK, UnderWayAt
    <3>3. CASE l # On \/ ~link[l].blocks
      <4>1. SameBut(link[l], lk[l])
        BY <2>2, <3>3 DEF Recorded
      <4>2. link[l].log = "QUEUED" => l # On
        BY <1>2, <3>3 DEF LogOK
      <4>3. link[l].log = "QUEUED" =>
              \A t : InQ(eventq, t, l) => InQ(Tail(eventq), t, l)
        BY <2>1, <4>2, HandledEvent
      <4> QED BY <1>2, <3>1, <3>3, <4>1, <4>3 DEF SameBut, LogOK, UnderWayAt
    <3> QED BY <3>2, <3>3
  <2>6. CASE status = "pending" /\ ~custody /\ Delete(lk, Tail(eventq))
    <3>1. /\ Cancels(lk, Links, Tail(eventq))
          /\ status' = "deleted"
      BY <2>2, <2>3, <2>6, CancelsOfDelete
    <3>2. ReceivedFirst'
      BY <3>1, <2>4 DEF ReceivedFirst, Cancels
    <3>3. \A l \in Links : /\ LogOK(link'[l]) /\ link'[l].log = lk[l].log
                           /\ UnderWayAt(link'[l], InUse(l)', eventq', l)
      BY <2>3, <2>5, <3>1, CancelsKeepLog
    <3> QED BY <2>3, <2>5, <2>6, <3>2, <3>3, LogPartsNext
  <2>7. CASE /\ link' = lk /\ eventq' = Tail(eventq)
             /\ UNCHANGED <<status, expiration, cancelMsg>>
    <3>1. ReceivedFirst'
      BY <2>4, <2>7 DEF ReceivedFirst
    <3>2. \A l \in Links : UnderWayAt(link'[l], InUse(l)', eventq', l)
      BY <2>3, <2>5, <2>7 DEF UnderWayAt, InUse
    <3> QED BY <1>2, <2>3, <2>5, <2>7, <3>1, <3>2, LogPartsNext
  <2> QED BY <2>2, <2>6, <2>7, TryToDeleteEither
<1>6. CASE handle_bundle_cancelled
  <2> DEFINE y == IF link[On].blocks
                  THEN [link EXCEPT ![On].blocks = FALSE, ![On].log = "CANCELLED"]
                  ELSE link
  <2>1. Handles("BUNDLE_CANCELLED")
    BY <1>6 DEF handle_bundle_cancelled
  <2>2. On \in Links /\ status # "new" /\ ~Has(Tail(eventq), "BUNDLE_RECEIVED")
    BY <1>2, <2>1, HandledEvent DEF LinkEventTypes, EventTypes
  <2>3. y \in LinkStatesOf
    BY <1>1, <2>2 DEF LinkStatesOf, LinkRecord, FwdStates
  <2>4. link' = IF expiration THEN route_bundle(y) ELSE y
    BY <1>6 DEF handle_bundle_cancelled
  <2>5. /\ \A l \in Links : l # On \/ ~link[l].blocks => y[l] = link[l]
        /\ link[On].blocks => y[On].log = "CANCELLED"
    BY <1>1, <2>2 DEF LinkStatesOf, LinkRecord
  <2> HIDE DEF y
  <2>6. \A l \in Links : Moved(y[l], link'[l])
    BY <2>3, <2>4, RouteBundleMoves, MovedReflexive
  <2>7. /\ eventq' = Tail(eventq)
        /\ UNCHANGED <<status, expiration, custody, custodyTimer, cl>>
    BY <1>6 DEF handle_bundle_cancelled, bundleVars
  <2>8. ReceivedFirst'
    BY <2>2, <2>7 DEF ReceivedFirst
  <2>9. ASSUME NEW l \in Links
        PROVE  /\ LogOK(link'[l])
               /\ custodyTimer'[l] # "none"
                     => custody' /\ link'[l].log = "TRANSMITTED"
               /\ UnderWayAt(link'[l], InUse(l)', eventq', l)
    <3>0. InUse(l)' <=> InUse(l)
      BY <2>7 DEF InUse
    <3>1. CASE l = On /\ link[l].blocks
      <4>1. LogOK(y[l]) /\ y[l].log = "CANCELLED" /\ custodyTimer[l] = "none"
        BY <1>2, <2>5, <3>1 DEF LogOK
      <4>2. LogOK(link'[l]) /\ (link'[l].log = "QUEUED" => link'[l].queue)
        BY <2>6, <4>1, MovedLog
      <4> QED BY <2>7, <4>1, <4>2 DEF UnderWayAt
    <3>2. CASE l # On \/ ~link[l].blocks
      <4>1. LogOK(y[l]) /\ y[l] = link[l]
        BY <1>2, <2>5, <3>2
      <4>2. /\ LogOK(link'[l])
            /\ link[l].log = "TRANSMITTED" => link'[l].log = "TRANSMITTED"
            /\ link'[l].log = "QUEUED" => link[l].log = "QUEUED" \/ link'[l].queue
            /\ link[l].log = "QUEUED" /\ link[l].queue => link'[l].queue
            /\ link'[l].inflight = link[l].inflight
        BY <2>6, <4>1, MovedLog
      <4>3. link[l].log = "QUEUED" => l # On
        BY <1>2, <3>2 DEF LogOK
      <4>4. link[l].log = "QUEUED" =>
              \A t : InQ(eventq, t, l) => InQ(eventq', t, l)
        BY <2>1, <2>7, <4>3, HandledEvent
      <4> QED BY <1>2, <2>7, <3>0, <4>2, <4>4 DEF UnderWayAt
    <3> QED BY <3>1, <3>2
  <2> QED BY <1>2, <2>7, <2>8, <2>9, LogPartsNext
<1>7. CASE handle_bundle_expired
  <2>1. PICK t \in {"BUNDLE_EXPIRED", "BUNDLE_DELETE"} : Handles(t)
    BY <1>7 DEF handle_bundle_expired
  <2>2. /\ status # "new" /\ ~Has(Tail(eventq), "BUNDLE_RECEIVED")
        /\ Tail(eventq) \in Queue
        /\ \A u, l : InQ(eventq, u, l) => InQ(Tail(eventq), u, l) \/ u = t
    BY <1>2, <2>1, HandledEvent
  <2>3. Delete(link, Tail(eventq)) /\ release_custody /\ UNCHANGED cl
    BY <1>7 DEF handle_bundle_expired, delete_bundle
  <2>4. Cancels(link, Links, Tail(eventq)) /\ status' = "deleted"
    BY <1>1, <2>2, <2>3, CancelsOfDelete
  <2>5. ReceivedFirst'
    BY <2>2, <2>4 DEF ReceivedFirst, Cancels
  <2>6. ~custody' /\ \A l \in Links : custodyTimer'[l] = "none"
    BY <1>2, <2>3 DEF release_custody, TimersCancelled
  <2>7. \A l \in Links : UnderWayAt(link[l], InUse(l), Tail(eventq), l)
    BY <1>2, <2>1, <2>2 DEF UnderWayAt
  <2>8. \A l \in Links : /\ LogOK(link'[l])
                         /\ UnderWayAt(link'[l], InUse(l)', eventq', l)
    BY <1>2, <2>3, <2>4, <2>7, CancelsKeepLog
  <2> QED BY <2>5, <2>6, <2>8, LogPartsNext
<1>8. CASE handle_bundle_cancel
  <2>1. Handles("BUNDLE_CANCEL")
    BY <1>8 DEF handle_bundle_cancel
  <2>2. /\ status # "new" /\ ~Has(Tail(eventq), "BUNDLE_RECEIVED")
        /\ Tail(eventq) \in Queue /\ {On} \in SUBSET Links
        /\ \A u, l : InQ(eventq, u, l) => InQ(Tail(eventq), u, l)
                                          \/ u = "BUNDLE_CANCEL"
    BY <1>2, <2>1, HandledEvent DEF LinkEventTypes, EventTypes
  <2>3. /\ link' = Cancelled(link, {On})
        /\ eventq' = Tail(eventq) \o CancelEvents(link, {On})
        /\ UNCHANGED <<status, expiration, custody, custodyTimer, cl>>
    BY <1>8 DEF handle_bundle_cancel, bundleVars
  <2>4. Cancels(link, {On}, Tail(eventq))
    BY <1>1, <2>2, <2>3, CancelsOf
  <2>5. ReceivedFirst'
    BY <2>2, <2>3, <2>4 DEF ReceivedFirst, Cancels
  <2>6. \A l \in Links : UnderWayAt(link[l], InUse(l), Tail(eventq), l)
    BY <1>2, <2>2 DEF UnderWayAt
  <2>7. \A l \in Links : /\ LogOK(link'[l]) /\ link'[l].log = link[l].log
                         /\ UnderWayAt(link'[l], InUse(l)', eventq', l)
    BY <1>2, <2>2, <2>3, <2>4, <2>6, CancelsKeepLog
  <2> QED BY <1>2, <2>3, <2>5, <2>7, LogPartsNext
<1>9. CASE handle_custody_signal
  <2>1. Handles("CUSTODY_SIGNAL")
    BY <1>9 DEF handle_custody_signal
  <2>2. /\ status # "new" /\ ~Has(Tail(eventq), "BUNDLE_RECEIVED")
        /\ Tail(eventq) \in Queue
        /\ \A u, l : InQ(eventq, u, l) => InQ(Tail(eventq), u, l)
                                          \/ u = "CUSTODY_SIGNAL"
    BY <1>2, <2>1, HandledEvent
  <2>3. \A l \in Links : UnderWayAt(link[l], InUse(l), Tail(eventq), l)
    BY <1>2, <2>2 DEF UnderWayAt
  <2>4. UNCHANGED cl
    BY <1>9 DEF handle_custody_signal
  <2>5. ASSUME custody, Delete(link, Tail(eventq))
        PROVE  LogInv'
    <3>1. Cancels(link, Links, Tail(eventq)) /\ status' = "deleted"
      BY <1>1, <2>2, <2>5, CancelsOfDelete
    <3>2. ReceivedFirst'
      BY <2>2, <3>1 DEF ReceivedFirst, Cancels
    <3>3. ~custody' /\ \A l \in Links : custodyTimer'[l] = "none"
      BY <1>9, <2>5 DEF handle_custody_signal, release_custody, TimersCancelled
    <3>4. \A l \in Links : /\ LogOK(link'[l])
                           /\ UnderWayAt(link'[l], InUse(l)', eventq', l)
      BY <1>2, <2>3, <2>4, <3>1, CancelsKeepLog
    <3> QED BY <3>2, <3>3, <3>4, LogPartsNext
  <2>6. ASSUME link' = link, eventq' = Tail(eventq), UNCHANGED <<status, expiration>>
        PROVE  LogInv'
    <3>1. ReceivedFirst'
      BY <2>2, <2>6 DEF ReceivedFirst
    <3>2. \A l \in Links : UnderWayAt(link'[l], InUse(l)', eventq', l)
      BY <2>3, <2>4, <2>6 DEF UnderWayAt, InUse
    <3>3. \/ ~custody' /\ \A l \in Links : custodyTimer'[l] = "none"
          \/ UNCHANGED <<custody, custodyTimer>>
      BY <1>9 DEF handle_custody_signal, release_custody, TimersCancelled, bundleVars
    <3> QED BY <1>2, <2>6, <3>1, <3>2, <3>3, LogPartsNext
  <2>7. CASE custody
    <3>1. try_to_delete(link, FALSE, Tail(eventq))
      BY <1>9, <2>7 DEF handle_custody_signal
    <3> QED BY <2>5, <2>6, <2>7, <3>1, TryToDeleteEither
  <2>8. CASE ~custody
    BY <1>9, <2>6, <2>8 DEF handle_custody_signal, bundleVars
  <2> QED BY <2>7, <2>8
<1>10. CASE handle_custody_timeout
  <2> DEFINE y == IF custodyTimer[On] = "fired" THEN TimedOut(On) ELSE link
  <2>1. Handles("CUSTODY_TIMEOUT")
    BY <1>10 DEF handle_custody_timeout
  <2>2. /\ On \in Links /\ status # "new" /\ ~Has(Tail(eventq), "BUNDLE_RECEIVED")
        /\ \A u, l : InQ(eventq, u, l) => InQ(Tail(eventq), u, l)
                                          \/ u = "CUSTODY_TIMEOUT"
    BY <1>2, <2>1, HandledEvent DEF LinkEventTypes, EventTypes
  <2>3. /\ y \in LinkStatesOf
        /\ \A l \in Links :
              \/ y[l] = link[l]
              \/ /\ l = On /\ custodyTimer[On] = "fired"
                 /\ y[l].log = "CUSTODY_TIMEOUT"
    BY <1>1, <2>2 DEF TimedOut, LinkStatesOf, LinkRecord, FwdStates
  <2>4. link' = route_bundle(y)
    BY <1>10 DEF handle_custody_timeout
  <2>5. /\ eventq' = Tail(eventq) /\ UNCHANGED <<status, expiration, custody, cl>>
        /\ custodyTimer' = IF custodyTimer[On] = "fired"
                           THEN [custodyTimer EXCEPT ![On] = "none"]
                           ELSE custodyTimer
    BY <1>10 DEF handle_custody_timeout
  <2> HIDE DEF y
  <2>6. \A l \in Links : Moved(y[l], link'[l])
    BY <2>3, <2>4, RouteBundleMoves
  <2>7. ReceivedFirst'
    BY <2>2, <2>5 DEF ReceivedFirst
  <2>8. ASSUME NEW l \in Links
        PROVE  /\ LogOK(link'[l])
               /\ custodyTimer'[l] # "none"
                     => custody' /\ link'[l].log = "TRANSMITTED"
               /\ UnderWayAt(link'[l], InUse(l)', eventq', l)
    <3>1. CASE y[l] = link[l]
      <4>1. /\ LogOK(link'[l])
            /\ link[l].log = "TRANSMITTED" => link'[l].log = "TRANSMITTED"
            /\ link'[l].log = "QUEUED" => link[l].log = "QUEUED" \/ link'[l].queue
            /\ link[l].log = "QUEUED" /\ link[l].queue => link'[l].queue
            /\ link'[l].inflight = link[l].inflight
        BY <1>2, <2>6, <3>1, MovedLog
      <4>2. custodyTimer'[l] # "none" => custodyTimer[l] # "none"
        BY <1>1, <2>2, <2>5
      <4>3. InUse(l)' <=> InUse(l)
        BY <2>5 DEF InUse
      <4> QED BY <1>2, <2>2, <2>5, <4>1, <4>2, <4>3 DEF UnderWayAt
    <3>2. CASE /\ l = On /\ custodyTimer[On] = "fired"
               /\ y[l].log = "CUSTODY_TIMEOUT"
      <4>1. LogOK(y[l]) /\ custodyTimer'[l] = "none"
        BY <1>1, <2>2, <2>5, <3>2 DEF LogOK
      <4>2. LogOK(link'[l]) /\ (link'[l].log = "QUEUED" => link'[l].queue)
        BY <2>6, <3>2, <4>1, MovedLog
      <4> QED BY <4>1, <4>2 DEF UnderWayAt
    <3> QED BY <2>3, <3>1, <3>2
  <2> QED BY <1>2, <2>5, <2>7, <2>8, LogPartsNext
<1>11. CASE RequestOpen \/ handle_contact_up
  <2>1. PICK t \in {"OPEN", "CONTACT_UP"}, s \in {"OPENING", "OPEN"} :
            /\ Handles(t)
            /\ \/ link' = [link EXCEPT ![On].state = s]
               \/ link' = check_next_hop([link EXCEPT ![On].state = s], On)
    BY <1>11 DEF RequestOpen, handle_contact_up
  <2> DEFINE y == [link EXCEPT ![On].state = s]
  <2>2. /\ On \in Links /\ status # "new" /\ ~Has(Tail(eventq), "BUNDLE_RECEIVED")
        /\ \A u, l : InQ(eventq, u, l) => InQ(Tail(eventq), u, l) \/ u = t
    BY <1>2, <2>1, HandledEvent DEF LinkEventTypes, EventTypes
  <2>3. /\ eventq' = Tail(eventq)
        /\ UNCHANGED <<status, expiration, custody, custodyTimer, cl>>
    BY <1>11 DEF RequestOpen, handle_contact_up, bundleVars, clVars
  <2>4. /\ y \in LinkStatesOf
        /\ \A l \in Links : /\ y[l].log = link[l].log /\ y[l].blocks = link[l].blocks
                            /\ y[l].queue = link[l].queue
                            /\ y[l].inflight = link[l].inflight
    BY <1>1, <2>2 DEF LinkStatesOf, LinkRecord, LinkStates
  <2> HIDE DEF y
  <2>5. \A l \in Links : Moved(y[l], link'[l])
    <3>1. CASE link' = y
      BY <3>1, MovedReflexive
    <3>2. CASE link' = check_next_hop(y, On)
      BY <2>2, <2>4, <3>2, CheckNextHopMoves, MovedReflexive DEF OneMoves
    <3> QED BY <2>1, <3>1, <3>2 DEF y
  <2>6. ReceivedFirst'
    BY <2>2, <2>3 DEF ReceivedFirst
  <2>7. ASSUME NEW l \in Links
        PROVE  /\ LogOK(link'[l])
               /\ custodyTimer'[l] # "none"
                     => custody' /\ link'[l].log = "TRANSMITTED"
               /\ UnderWayAt(link'[l], InUse(l)', eventq', l)
    <3>1. LogOK(y[l])
      BY <1>2, <2>4 DEF LogOK
    <3>2. /\ LogOK(link'[l])
          /\ link[l].log = "TRANSMITTED" => link'[l].log = "TRANSMITTED"
          /\ link'[l].log = "QUEUED" => link[l].log = "QUEUED" \/ link'[l].queue
          /\ link[l].log = "QUEUED" /\ link[l].queue => link'[l].queue
          /\ link'[l].inflight = link[l].inflight
      BY <2>4, <2>5, <3>1, MovedLog
    <3>3. InUse(l)' <=> InUse(l)
      BY <2>3 DEF InUse
    <3> QED BY <1>2, <2>1, <2>2, <2>3, <3>2, <3>3 DEF UnderWayAt
  <2> QED BY <1>2, <2>3, <2>6, <2>7, LogPartsNext
<1>12. CASE CloseCompleted
  <2> DEFINE k == closing.link
  <2>1. /\ k \in Links /\ LinkEvent("BUNDLE_TRANSMITTED", k) \in LinkedEvent
        /\ LinkEvent("BUNDLE_TRANSMITTED", k).type = "BUNDLE_TRANSMITTED"
        /\ LinkEvent("BUNDLE_TRANSMITTED", k).link = k
    BY <1>12, EventsLinked
    DEF CloseCompleted, TypeInv, EventsNameLinks, EventTypes, LinkEvent
  <2>2. /\ link' = [link EXCEPT ![k] =
               [IF PutBack(k) THEN BackOnQueue(link[k]) ELSE link[k]
                   EXCEPT !.state = StateOnceClosed(closing.reason)]]
        /\ cl' = [cl EXCEPT ![k] = "none"]
        /\ eventq' = PostIfInPart(eventq, k)
        /\ UNCHANGED <<status, expiration, custody, custodyTimer>>
    BY <1>12 DEF CloseCompleted, bundleVars
  <2> HIDE DEF k
  <2>3. /\ \A t, l : InQ(eventq, t, l) => InQ(eventq', t, l)
        /\ \A t : Has(eventq', t) => Has(eventq, t) \/ t = "BUNDLE_TRANSMITTED"
        /\ OnlyFirst(eventq) => OnlyFirst(eventq')
        /\ SentInPart(k) => InQ(eventq', "BUNDLE_TRANSMITTED", k)
    <3>1. CASE SentInPart(k)
      <4>1. eventq' = Append(eventq, LinkEvent("BUNDLE_TRANSMITTED", k))
        BY <2>2, <3>1 DEF PostIfInPart, post
      <4> QED BY <1>1, <2>1, <4>1, PostedQueue
    <3>2. CASE ~SentInPart(k)
      BY <2>2, <3>2 DEF PostIfInPart
    <3> QED BY <3>1, <3>2
  <2>4. \A l \in Links : l # k => link'[l] = link[l] /\ (InUse(l)' <=> InUse(l))
    BY <1>1, <2>1, <2>2 DEF LinkStatesOf, InUse
  <2>5. /\ link'[k].log = link[k].log /\ link'[k].blocks = link[k].blocks
        /\ link'[k].deferred = link[k].deferred
        /\ link[k].queue => link'[k].queue
        /\ PutBack(k) /\ link[k].inflight => link'[k].queue
        /\ ~InHand(link[k]) => ~InHand(link'[k])
    BY <1>1, <2>1, <2>2 DEF BackOnQueue, LinkStatesOf, LinkRecord, InHand
  <2>6. InUse(k) => PutBack(k) \/ SentInPart(k)
    BY DEF InUse, PutBack, SentInPart
  <2>7. ReceivedFirst'
    BY <1>2, <2>2, <2>3, <2>4, <2>5 DEF ReceivedFirst
  <2>8. ASSUME NEW l \in Links
        PROVE  /\ LogOK(link'[l]) /\ link'[l].log = link[l].log
               /\ UnderWayAt(link'[l], InUse(l)', eventq', l)
    <3>1. CASE l = k
      BY <1>2, <2>3, <2>5, <2>6, <3>1 DEF LogOK, UnderWayAt
    <3>2. CASE l # k
      BY <1>2, <2>3, <2>4, <3>2 DEF UnderWayAt
    <3> QED BY <3>1, <3>2
  <2> QED BY <1>2, <2>2, <2>7, <2>8, LogPartsNext
<1>13. CASE ExpirationTimeout
  <2>1. /\ LinkEvent("BUNDLE_EXPIRED", NoLink) \in LinkedEvent
        /\ LinkEvent("BUNDLE_EXPIRED", NoLink).type = "BUNDLE_EXPIRED"
    BY EventsLinked DEF EventTypes, LinkEventTypes, LinkEvent
  <2>2. /\ eventq' = <<LinkEvent("BUNDLE_EXPIRED", NoLink)>> \o eventq
        /\ expiration
        /\ UNCHANGED <<status, custody, custodyTimer, link, cl>>
    BY <1>13 DEF ExpirationTimeout, post_at_head, clVars
  <2>3. /\ \A t, l : InQ(eventq, t, l) => InQ(eventq', t, l)
        /\ \A t : Has(eventq', t) => Has(eventq, t) \/ t = "BUNDLE_EXPIRED"
    BY <1>1, <2>1, <2>2, FrontQueue
  <2>4. ReceivedFirst'
    BY <1>2, <2>2, <2>3 DEF ReceivedFirst
  <2>5. \A l \in Links : UnderWayAt(link'[l], InUse(l)', eventq', l)
    BY <1>2, <2>2, <2>3 DEF UnderWayAt, InUse
  <2> QED BY <1>2, <2>2, <2>4, <2>5, LogPartsNext
<1>14. ASSUME NEW k \in Links, start_next_bundle(k)
       PROVE  LogInv'
  <2>1. /\ link[k].queue /\ eventq' = eventq
        /\ link' = [link EXCEPT ![k].inflight = TRUE, ![k].queue = FALSE]
        /\ cl' = [cl EXCEPT ![k] = "started"]
        /\ UNCHANGED <<status, expiration, custody, custodyTimer>>
    BY <1>14 DEF start_next_bundle, bundleVars
  <2>2. \A l \in Links : /\ link'[l].log = link[l].log
                         /\ link'[l].blocks = link[l].blocks
                         /\ l # k => /\ link'[l] = link[l]
                                     /\ InUse(l)' <=> InUse(l)
    BY <1>1, <2>1 DEF LinkStatesOf, LinkRecord, InUse
  <2>3. link'[k].inflight /\ InUse(k)'
    BY <1>1, <2>1 DEF LinkStatesOf, LinkRecord, InUse
  <2>4. status # "new"
    BY <1>2, <2>1 DEF ReceivedFirst, InHand
  <2>5. ReceivedFirst'
    BY <1>2, <2>1, <2>4 DEF ReceivedFirst
  <2>6. \A l \in Links : LogOK(link'[l]) /\ UnderWayAt(link'[l], InUse(l)', eventq', l)
    BY <1>2, <2>1, <2>2, <2>3 DEF LogOK, UnderWayAt
  <2> QED BY <1>2, <2>1, <2>2, <2>5, <2>6, LogPartsNext
<1>15. ASSUME NEW k \in Links, handle_ack_segment(k) \/ handle_cancel_bundle(k)
       PROVE  LogInv'
  <2>1. PICK t \in {"BUNDLE_TRANSMITTED", "BUNDLE_CANCELLED"} :
            \/ /\ eventq' = Append(eventq, LinkEvent(t, k))
               /\ \E v \in {"none", "posted"} : cl' = [cl EXCEPT ![k] = v]
            \/ UNCHANGED <<eventq, cl>>
    BY <1>15 DEF handle_ack_segment, handle_cancel_bundle, CLMoves, post
  <2>2. UNCHANGED <<status, expiration, custody, custodyTimer, link>>
    BY <1>15 DEF handle_ack_segment, handle_cancel_bundle, CLMoves, bundleVars
  <2>3. CASE UNCHANGED <<eventq, cl>>
    <3>1. ReceivedFirst'
      BY <1>2, <2>2, <2>3 DEF ReceivedFirst
    <3>2. \A l \in Links : UnderWayAt(link'[l], InUse(l)', eventq', l)
      BY <1>2, <2>2, <2>3 DEF UnderWayAt, InUse
    <3> QED BY <1>2, <2>2, <3>1, <3>2, LogPartsNext
  <2>4. CASE /\ eventq' = Append(eventq, LinkEvent(t, k))
             /\ \E v \in {"none", "posted"} : cl' = [cl EXCEPT ![k] = v]
    <3>1. /\ LinkEvent(t, k) \in LinkedEvent
          /\ LinkEvent(t, k).type = t /\ LinkEvent(t, k).link = k
      BY <1>15, EventsLinked DEF EventTypes, LinkEvent
    <3>2. /\ \A u, l : InQ(eventq, u, l) => InQ(eventq', u, l)
          /\ \A u : Has(eventq', u) => Has(eventq, u) \/ u = t
          /\ InQ(eventq', t, k)
          /\ OnlyFirst(eventq) => OnlyFirst(eventq')
      BY <1>1, <2>4, <3>1, PostedQueue
    <3>3. ReceivedFirst'
      BY <1>2, <2>2, <3>2 DEF ReceivedFirst
    <3>4. \A l \in Links : l # k => (InUse(l)' <=> InUse(l))
      BY <1>1, <2>4 DEF InUse
    <3>5. \A l \in Links : UnderWayAt(link'[l], InUse(l)', eventq', l)
      BY <1>2, <2>1, <2>2, <3>2, <3>4 DEF UnderWayAt
    <3> QED BY <1>2, <2>2, <3>3, <3>5, LogPartsNext
  <2> QED BY <2>1, <2>3, <2>4
<1>16. ASSUME NEW k \in Links, CustodyTimeout(k)
       PROVE  LogInv'
  <2>1. /\ LinkEvent("CUSTODY_TIMEOUT", k) \in LinkedEvent
        /\ LinkEvent("CUSTODY_TIMEOUT", k).type = "CUSTODY_TIMEOUT"
    BY <1>16, EventsLinked DEF EventTypes, LinkEvent
  <2>2. /\ eventq' = Append(eventq, LinkEvent("CUSTODY_TIMEOUT", k))
        /\ custodyTimer[k] = "pending"
        /\ custodyTimer' = [custodyTimer EXCEPT ![k] = "fired"]
        /\ UNCHANGED <<status, expiration, custody, link, cl>>
    BY <1>16 DEF CustodyTimeout, post, clVars
  <2>3. /\ \A u, l : InQ(eventq, u, l) => InQ(eventq', u, l)
        /\ \A u : Has(eventq', u) => Has(eventq, u) \/ u = "CUSTODY_TIMEOUT"
        /\ OnlyFirst(eventq) => OnlyFirst(eventq')
    BY <1>1, <2>1, <2>2, PostedQueue
  <2>4. ReceivedFirst'
    BY <1>2, <2>2, <2>3 DEF ReceivedFirst
  <2>5. \A l \in Links : UnderWayAt(link'[l], InUse(l)', eventq', l)
    BY <1>2, <2>2, <2>3 DEF UnderWayAt, InUse
  <2>6. \A l \in Links : custodyTimer'[l] # "none" => custodyTimer[l] # "none"
    BY <1>1, <2>2
  <2> QED BY <1>2, <2>2, <2>4, <2>5, <2>6, LogPartsNext
<1>17. ASSUME NEW k \in Links, reroute_bundles(k)
       PROVE  LogInv'
  <2>1. UNCHANGED <<status, expiration, custody, custodyTimer, cl>>
    BY <1>17 DEF reroute_bundles, bundleVars, clVars
  <2>2. CASE UNCHANGED <<link, eventq>>
    <3>1. ReceivedFirst'
      BY <1>2, <2>1, <2>2 DEF ReceivedFirst
    <3>2. \A l \in Links : UnderWayAt(link'[l], InUse(l)', eventq', l)
      BY <1>2, <2>1, <2>2 DEF UnderWayAt, InUse
    <3> QED BY <1>2, <2>1, <2>2, <3>1, <3>2, LogPartsNext
  <2>3. CASE /\ link[k].queue /\ link' = Cancelled(link, {k})
             /\ eventq' = eventq \o CancelEvents(link, {k})
    <3>1. Cancels(link, {k}, eventq)
      BY <1>1, <2>3, CancelsOf
    <3>2. status # "new"
      BY <1>2, <2>3 DEF ReceivedFirst, InHand
    <3>3. ReceivedFirst'
      BY <1>2, <2>1, <3>1, <3>2 DEF ReceivedFirst, Cancels
    <3>4. \A l \in Links : /\ LogOK(link'[l]) /\ link'[l].log = link[l].log
                           /\ UnderWayAt(link'[l], InUse(l)', eventq', l)
      BY <1>2, <2>1, <3>1, CancelsKeepLog
    <3> QED BY <1>2, <2>1, <3>3, <3>4, LogPartsNext
  <2> QED BY <1>17, <2>2, <2>3 DEF reroute_bundles
<1>18. ASSUME NEW k \in Links, OtherTransmitted(k)
       PROVE  LogInv'
  <2>1. /\ link' = pull_deferred(link, k) \/ link' = link
        /\ UNCHANGED <<status, expiration, custody, custodyTimer, cl, eventq>>
    BY <1>18 DEF OtherTransmitted, bundleVars, clVars
  <2>2. \A l \in Links : Moved(link[l], link'[l])
    BY <1>1, <2>1, PullDeferredMoves, MovedReflexive DEF OneMoves
  <2>3. status = "new" => link' = link
    BY <1>1, <1>2, <2>1, PullDeferredMoves DEF ReceivedFirst
  <2>4. ReceivedFirst'
    BY <1>2, <2>1, <2>3 DEF ReceivedFirst
  <2>5. ASSUME NEW l \in Links
        PROVE  /\ LogOK(link'[l])
               /\ link[l].log = "TRANSMITTED" => link'[l].log = "TRANSMITTED"
               /\ UnderWayAt(link'[l], InUse(l)', eventq', l)
    <3>1. /\ LogOK(link'[l])
          /\ link[l].log = "TRANSMITTED" => link'[l].log = "TRANSMITTED"
          /\ link'[l].log = "QUEUED" => link[l].log = "QUEUED" \/ link'[l].queue
          /\ link[l].log = "QUEUED" /\ link[l].queue => link'[l].queue
          /\ link'[l].inflight = link[l].inflight
      BY <1>2, <2>2, MovedLog
    <3>2. InUse(l)' <=> InUse(l)
      BY <2>1 DEF InUse
    <3> QED BY <1>2, <2>1, <3>1, <3>2 DEF UnderWayAt
  <2> QED BY <1>2, <2>1, <2>4, <2>5, LogPartsNext
<1>19. ASSUME NEW k \in Links, UserCancel(k)
       PROVE  LogInv'
  <2>1. /\ LinkEvent("BUNDLE_CANCEL", k) \in LinkedEvent
        /\ LinkEvent("BUNDLE_CANCEL", k).type = "BUNDLE_CANCEL"
    BY <1>19, EventsLinked DEF EventTypes, LinkEvent
  <2>2. /\ eventq' = <<LinkEvent("BUNDLE_CANCEL", k)>> \o eventq
        /\ status = "pending"
        /\ UNCHANGED <<status, expiration, custody, custodyTimer, link, cl>>
    BY <1>19 DEF UserCancel, UserRequest, post_at_head, bundleVars, clVars
  <2>3. /\ \A t, l : InQ(eventq, t, l) => InQ(eventq', t, l)
        /\ \A t : Has(eventq', t) => Has(eventq, t) \/ t = "BUNDLE_CANCEL"
    BY <1>1, <2>1, <2>2, FrontQueue
  <2>4. ReceivedFirst'
    BY <1>2, <2>2, <2>3 DEF ReceivedFirst
  <2>5. \A l \in Links : UnderWayAt(link'[l], InUse(l)', eventq', l)
    BY <1>2, <2>2, <2>3 DEF UnderWayAt, InUse
  <2> QED BY <1>2, <2>2, <2>4, <2>5, LogPartsNext
<1> QED
  BY StepKinds, <1>3, <1>4, <1>5, <1>6, <1>7, <1>8, <1>9, <1>10, <1>11, <1>12,
     <1>13, <1>14, <1>15, <1>16, <1>17, <1>18, <1>19

\* The log is empty when the bundle arrives.
LEMMA LogInit == Init => LogInv
<1> SUFFICES ASSUME Init PROVE LogInv
  OBVIOUS
<1> DEFINE e == LinkEvent("BUNDLE_RECEIVED", NoLink)
<1>1. eventq = <<e>> /\ e.type = "BUNDLE_RECEIVED"
  BY DEF Init, LinkEvent
<1> HIDE DEF e
<1>2. OnlyFirst(eventq)
  <2>1. DOMAIN <<e>> = {1} /\ <<e>>[1] = e /\ <<e>> # <<>>
    OBVIOUS
  <2> QED BY <1>1, <2>1 DEF OnlyFirst
<1>3. /\ status = "new" /\ ~expiration /\ ~custody
      /\ \A l \in Links : /\ custodyTimer[l] = "none"
                          /\ link[l].log = "NONE" /\ ~link[l].blocks
                          /\ ~InHand(link[l]) /\ ~link[l].deferred
  BY DEF Init, InHand
<1> QED BY <1>2, <1>3, LogParts DEF ReceivedFirst, LogOK, UnderWayAt

\* In every behaviour, whatever faults and requests happen: a custody timer
\* belongs to a bundle in this node's custody and to a transmission that is
\* still on record.
THEOREM CustodyTimersAlwaysMatch == Spec => []CustodyTimersMatch
<1>1. Init => TypeInv /\ LogInv
  BY TypeInit, LogInit
<1>2. TypeInv /\ LogInv /\ [Next]_vars => (TypeInv /\ LogInv)'
  BY TypeStep, LogStep
<1>3. LogInv => CustodyTimersMatch
  BY DEF LogInv, TimersMatch, CustodyTimersMatch
<1> QED BY <1>1, <1>2, <1>3, PTL DEF Spec

\* In every behaviour: a QUEUED entry of the forwarding log, which keeps the
\* router from sending the bundle anywhere else, stands for a transmission that
\* goes on or for an event that will end it.
THEOREM QueuedAlwaysUnderWay == Spec => []QueuedIsUnderWay
<1>1. Init => TypeInv /\ LogInv
  BY TypeInit, LogInit
<1>2. TypeInv /\ LogInv /\ [Next]_vars => (TypeInv /\ LogInv)'
  BY TypeStep, LogStep
<1>3. LogInv => QueuedIsUnderWay
  BY DEF LogInv, UnderWay, InUse, QueuedIsUnderWay
<1> QED BY <1>1, <1>2, <1>3, PTL DEF Spec

(***************************************************************************)
(* Which events a step leaves as they are.                                 *)
(***************************************************************************)
Untouched(t) == /\ Has(eventq', t) => Has(eventq, t)
                /\ \A l : /\ InQ(eventq', t, l) <=> InQ(eventq, t, l)
                          /\ Once(eventq, t, l) => Once(eventq', t, l)

\* The event that is handled is gone; cancellations may follow the others.
LEMMA HandlingTouches ==
    ASSUME TypeInv, NEW u, Handles(u)
    PROVE  /\ eventq' = Tail(eventq) => \A t : t # u => Untouched(t)
           /\ \A lk, S : Cancels(lk, S, Tail(eventq)) =>
                 \A t : t # u /\ t # "BUNDLE_CANCELLED" => Untouched(t)
<1>1. /\ \A t : Has(Tail(eventq), t) => Has(eventq, t)
      /\ \A t, l : InQ(Tail(eventq), t, l) => InQ(eventq, t, l)
      /\ \A t, l : InQ(eventq, t, l) => InQ(Tail(eventq), t, l) \/ (t = u /\ l = On)
      /\ \A t, l : Once(eventq, t, l) => Once(Tail(eventq), t, l)
  BY HandledEvent
<1>2. eventq' = Tail(eventq) => \A t : t # u => Untouched(t)
  BY <1>1 DEF Untouched
<1>3. ASSUME NEW lk, NEW S, Cancels(lk, S, Tail(eventq)), NEW t, t # u,
             t # "BUNDLE_CANCELLED"
      PROVE  Untouched(t)
  <2>1. /\ Has(eventq', t) => Has(Tail(eventq), t)
        /\ \A l : InQ(eventq', t, l) <=> InQ(Tail(eventq), t, l)
        /\ \A l : Once(Tail(eventq), t, l) => Once(eventq', t, l)
    BY <1>3 DEF Cancels
  <2> QED BY <1>1, <1>3, <2>1 DEF Untouched
<1> QED BY <1>2, <1>3

\* An event that is posted is the only one.
LEMMA PostingTouches ==
    ASSUME TypeInv, NEW e \in LinkedEvent,
           eventq' = Append(eventq, e) \/ eventq' = <<e>> \o eventq
    PROVE  \A t : t # e.type => Untouched(t)
<1>1. eventq \in Queue
  BY DEF TypeInv, EventsNameLinks, Queue
<1>2. /\ \A t : Has(eventq', t) <=> Has(eventq, t) \/ e.type = t
      /\ \A t, l : InQ(eventq', t, l) <=> InQ(eventq, t, l) \/ (e.type = t /\ e.link = l)
      /\ \A t, l : /\ Once(eventq, t, l)
                   /\ InQ(eventq, t, l) => e.type # t \/ e.link # l
                   => Once(eventq', t, l)
  <2>1. CASE eventq' = Append(eventq, e)
    BY <1>1, <2>1, PostedQueue
  <2>2. CASE eventq' = <<e>> \o eventq
    BY <1>1, <2>2, FrontQueue
  <2> QED BY <2>1, <2>2
<1> QED BY <1>2 DEF Untouched

\* What each kind of step takes from the queue or adds to it.
LEMMA StepTouches ==
    ASSUME TypeInv
    PROVE  /\ Quiet => \A t : t \notin QuietTypes => Untouched(t)
           /\ handle_bundle_received =>
                 \A t : t # "BUNDLE_RECEIVED" => Untouched(t)
           /\ handle_bundle_transmitted =>
                 \A t : t \notin {"BUNDLE_TRANSMITTED", "BUNDLE_CANCELLED"}
                        => Untouched(t)
           /\ handle_bundle_cancelled =>
                 \A t : t # "BUNDLE_CANCELLED" => Untouched(t)
           /\ handle_bundle_expired =>
                 \A t : t \notin {"BUNDLE_EXPIRED", "BUNDLE_DELETE",
                                  "BUNDLE_CANCELLED"} => Untouched(t)
           /\ handle_bundle_cancel =>
                 \A t : t \notin {"BUNDLE_CANCEL", "BUNDLE_CANCELLED"} => Untouched(t)
           /\ handle_custody_signal =>
                 \A t : t \notin {"CUSTODY_SIGNAL", "BUNDLE_CANCELLED"} => Untouched(t)
           /\ handle_custody_timeout =>
                 \A t : t # "CUSTODY_TIMEOUT" => Untouched(t)
           /\ RequestOpen => \A t : t # "OPEN" => Untouched(t)
           /\ handle_contact_up => \A t : t # "CONTACT_UP" => Untouched(t)
           /\ CloseCompleted => \A t : t # "BUNDLE_TRANSMITTED" => Untouched(t)
           /\ ExpirationTimeout => \A t : t # "BUNDLE_EXPIRED" => Untouched(t)
           /\ \A k \in Links :
                 /\ start_next_bundle(k) \/ OtherTransmitted(k) => \A t : Untouched(t)
                 /\ handle_ack_segment(k) =>
                       \A t : t # "BUNDLE_TRANSMITTED" => Untouched(t)
                 /\ handle_cancel_bundle(k) \/ reroute_bundles(k) =>
                       \A t : t # "BUNDLE_CANCELLED" => Untouched(t)
                 /\ CustodyTimeout(k) => \A t : t # "CUSTODY_TIMEOUT" => Untouched(t)
                 /\ UserCancel(k) => \A t : t # "BUNDLE_CANCEL" => Untouched(t)
<1>1. link \in LinkStatesOf /\ eventq \in Queue
  BY DEF TypeInv, TypeOK, EventsNameLinks, LinkStatesOf, Queue
<1>2. UNCHANGED eventq => \A t : Untouched(t)
  BY DEF Untouched
<1>3. ASSUME Quiet, NEW t, t \notin QuietTypes
      PROVE  Untouched(t)
  <2>1. CASE UNCHANGED eventq
    BY <1>2, <2>1
  <2>2. ASSUME NEW e \in LinkedEvent, eventq' = Append(eventq, e),
               e.type \in QuietTypes
        PROVE  Untouched(t)
    BY <1>3, <2>2, PostingTouches
  <2>3. CASE eventq # <<>> /\ Head(eventq).type = "CLOSED" /\ eventq' = Tail(eventq)
    <3>1. /\ Has(eventq', t) => Has(eventq, t)
          /\ \A l : InQ(eventq, t, l) <=>
                        \/ Head(eventq).type = t /\ Head(eventq).link = l
                        \/ InQ(eventq', t, l)
          /\ \A l : Once(eventq, t, l) => Once(eventq', t, l)
      BY <1>1, <2>3, PoppedQueue
    <3> QED BY <1>3, <2>3, <3>1 DEF Untouched, QuietTypes
  <2> QED BY <1>3, <2>1, <2>2, <2>3 DEF Quiet
<1>4. handle_bundle_received => \A t : t # "BUNDLE_RECEIVED" => Untouched(t)
  BY HandlingTouches DEF handle_bundle_received
<1>5. ASSUME NEW u, Handles(u), NEW lk \in LinkStatesOf, NEW mine,
             try_to_delete(lk, mine, Tail(eventq))
      PROVE  \A t : t # u /\ t # "BUNDLE_CANCELLED" => Untouched(t)
  <2>1. CASE Delete(lk, Tail(eventq))
    <3>1. Tail(eventq) \in Queue
      BY <1>5, HandledEvent
    <3>2. Cancels(lk, Links, Tail(eventq))
      BY <2>1, <3>1, CancelsOfDelete
    <3> QED BY <1>5, <3>2, HandlingTouches
  <2>2. CASE eventq' = Tail(eventq)
    BY <1>5, <2>2, HandlingTouches
  <2> QED BY <1>5, <2>1, <2>2, TryToDeleteEither
<1>6. ASSUME handle_bundle_transmitted,
             NEW t, t \notin {"BUNDLE_TRANSMITTED", "BUNDLE_CANCELLED"}
      PROVE  Untouched(t)
  <2>1. Handles("BUNDLE_TRANSMITTED")
    BY <1>6 DEF handle_bundle_transmitted
  <2>2. PICK lk \in LinkStatesOf : try_to_delete(lk, custody, Tail(eventq))
    BY <1>6, TransmittedEffect
  <2> QED BY <1>5, <1>6, <2>1, <2>2
<1>7. handle_bundle_cancelled => \A t : t # "BUNDLE_CANCELLED" => Untouched(t)
  BY HandlingTouches DEF handle_bundle_cancelled
<1>8. ASSUME handle_bundle_expired,
             NEW t, t \notin {"BUNDLE_EXPIRED", "BUNDLE_DELETE", "BUNDLE_CANCELLED"}
      PROVE  Untouched(t)
  <2>1. PICK u \in {"BUNDLE_EXPIRED", "BUNDLE_DELETE"} : Handles(u)
    BY <1>8 DEF handle_bundle_expired
  <2>2. Delete(link, Tail(eventq)) /\ Tail(eventq) \in Queue
    BY <1>8, <2>1, HandledEvent DEF handle_bundle_expired, delete_bundle
  <2>3. Cancels(link, Links, Tail(eventq))
    BY <1>1, <2>2, CancelsOfDelete
  <2> QED BY <1>8, <2>1, <2>3, HandlingTouches
<1>9. ASSUME handle_bundle_cancel,
             NEW t, t \notin {"BUNDLE_CANCEL", "BUNDLE_CANCELLED"}
      PROVE  Untouched(t)
  <2>1. Handles("BUNDLE_CANCEL")
    BY <1>9 DEF handle_bundle_cancel
  <2>2. {On} \in SUBSET Links /\ Tail(eventq) \in Queue
    BY <2>1, HandledEvent DEF LinkEventTypes, EventTypes
  <2>3. Cancels(link, {On}, Tail(eventq))
    BY <1>1, <1>9, <2>2, CancelsOf DEF handle_bundle_cancel
  <2> QED BY <1>9, <2>1, <2>3, HandlingTouches
<1>10. ASSUME handle_custody_signal,
              NEW t, t \notin {"CUSTODY_SIGNAL", "BUNDLE_CANCELLED"}
       PROVE  Untouched(t)
  <2>1. Handles("CUSTODY_SIGNAL")
    BY <1>10 DEF handle_custody_signal
  <2>2. \/ try_to_delete(link, FALSE, Tail(eventq))
        \/ eventq' = Tail(eventq)
    BY <1>10 DEF handle_custody_signal
  <2> QED BY <1>1, <1>5, <1>10, <2>1, <2>2, HandlingTouches
<1>11. handle_custody_timeout => \A t : t # "CUSTODY_TIMEOUT" => Untouched(t)
  BY HandlingTouches DEF handle_custody_timeout
<1>12. /\ RequestOpen => \A t : t # "OPEN" => Untouched(t)
       /\ handle_contact_up => \A t : t # "CONTACT_UP" => Untouched(t)
  BY HandlingTouches DEF RequestOpen, handle_contact_up
<1>13. ASSUME CloseCompleted, NEW t, t # "BUNDLE_TRANSMITTED"
       PROVE  Untouched(t)
  <2> DEFINE e == LinkEvent("BUNDLE_TRANSMITTED", closing.link)
  <2>1. e \in LinkedEvent /\ e.type = "BUNDLE_TRANSMITTED"
    BY <1>13, EventsLinked
    DEF CloseCompleted, TypeInv, EventsNameLinks, EventTypes, LinkEvent
  <2>2. eventq' = Append(eventq, e) \/ UNCHANGED eventq
    BY <1>13 DEF CloseCompleted, PostIfInPart, post
  <2> HIDE DEF e
  <2> QED BY <1>2, <1>13, <2>1, <2>2, PostingTouches
<1>14. ASSUME ExpirationTimeout, NEW t, t # "BUNDLE_EXPIRED"
       PROVE  Untouched(t)
  <2> DEFINE e == LinkEvent("BUNDLE_EXPIRED", NoLink)
  <2>1. e \in LinkedEvent /\ e.type = "BUNDLE_EXPIRED"
    BY EventsLinked DEF EventTypes, LinkEventTypes, LinkEvent
  <2>2. eventq' = <<e>> \o eventq
    BY <1>14 DEF ExpirationTimeout, post_at_head
  <2> HIDE DEF e
  <2> QED BY <1>14, <2>1, <2>2, PostingTouches
<1>15. ASSUME NEW k \in Links, start_next_bundle(k) \/ OtherTransmitted(k)
       PROVE  \A t : Untouched(t)
  BY <1>2, <1>15 DEF start_next_bundle, OtherTransmitted
<1>16. ASSUME NEW k \in Links, NEW u \in EventTypes, NEW t, t # u,
              \/ eventq' = Append(eventq, LinkEvent(u, k))
              \/ eventq' = <<LinkEvent(u, k)>> \o eventq
       PROVE  Untouched(t)
  <2> DEFINE e == LinkEvent(u, k)
  <2>1. e \in LinkedEvent /\ e.type = u
    BY EventsLinked DEF LinkEvent
  <2>2. eventq' = Append(eventq, e) \/ eventq' = <<e>> \o eventq
    BY <1>16
  <2> HIDE DEF e
  <2> QED BY <1>16, <2>1, <2>2, PostingTouches
<1>17. ASSUME NEW k \in Links
       PROVE  /\ handle_ack_segment(k) =>
                    \A t : t # "BUNDLE_TRANSMITTED" => Untouched(t)
              /\ handle_cancel_bundle(k) =>
                    \A t : t # "BUNDLE_CANCELLED" => Untouched(t)
              /\ CustodyTimeout(k) => \A t : t # "CUSTODY_TIMEOUT" => Untouched(t)
              /\ UserCancel(k) => \A t : t # "BUNDLE_CANCEL" => Untouched(t)
  <2>1. {"BUNDLE_TRANSMITTED", "BUNDLE_CANCELLED", "CUSTODY_TIMEOUT",
         "BUNDLE_CANCEL"} \subseteq EventTypes
    BY DEF EventTypes
  <2>2. handle_ack_segment(k) =>
            eventq' = Append(eventq, LinkEvent("BUNDLE_TRANSMITTED", k))
    BY DEF handle_ack_segment, post
  <2>3. handle_cancel_bundle(k) =>
            \/ eventq' = Append(eventq, LinkEvent("BUNDLE_CANCELLED", k))
            \/ UNCHANGED eventq
    BY DEF handle_cancel_bundle, post
  <2>4. CustodyTimeout(k) => eventq' = Append(eventq, LinkEvent("CUSTODY_TIMEOUT", k))
    BY DEF CustodyTimeout, post
  <2>5. UserCancel(k) => eventq' = <<LinkEvent("BUNDLE_CANCEL", k)>> \o eventq
    BY DEF UserCancel, UserRequest, post_at_head
  <2> QED BY <1>2, <1>16, <2>1, <2>2, <2>3, <2>4, <2>5
<1>18. ASSUME NEW k \in Links, reroute_bundles(k), NEW t, t # "BUNDLE_CANCELLED"
       PROVE  Untouched(t)
  <2>1. CASE UNCHANGED eventq
    BY <1>2, <2>1
  <2>2. CASE /\ link' = Cancelled(link, {k})
             /\ eventq' = eventq \o CancelEvents(link, {k})
    <3>1. Cancels(link, {k}, eventq)
      BY <1>1, <2>2, CancelsOf
    <3> QED BY <1>18, <3>1 DEF Cancels, Untouched
  <2> QED BY <1>18, <2>1, <2>2 DEF reroute_bundles
<1> QED BY <1>3, <1>4, <1>6, <1>7, <1>8, <1>9, <1>10, <1>11, <1>12, <1>13, <1>14,
           <1>15, <1>17, <1>18

(***************************************************************************)
(* Custody timeouts, and what happens to a deleted bundle.                 *)
(***************************************************************************)

\* A transmission stays on record until its custody timer's event is handled.
LEMMA TransmissionStays ==
    ASSUME TypeInv, LogInv, [Next]_vars, NEW l \in Links,
           link[l].log = "TRANSMITTED"
    PROVE  \/ link'[l].log = "TRANSMITTED"
           \/ handle_custody_timeout /\ l = On /\ custodyTimer[l] = "fired"
<1>1. link \in LinkStatesOf /\ eventq \in Queue
  BY DEF TypeInv, TypeOK, EventsNameLinks, LinkStatesOf, Queue
<1>2. LogOK(link[l]) /\ ~link[l].blocks
  BY LogParts DEF LogOK
<1>3. \A y : y[l].log = "TRANSMITTED" /\ Moved(y[l], link'[l])
             => link'[l].log = "TRANSMITTED"
  BY DEF Moved, Sent
<1>4. CASE Quiet \/ ExpirationTimeout
  BY <1>4 DEF Quiet, ExpirationTimeout
<1>5. CASE handle_bundle_received
  <2>1. Moved(link[l], link'[l])
    BY <1>1, <1>5, RouteBundleMoves, MovedReflexive DEF handle_bundle_received
  <2> QED BY <1>3, <2>1
<1>6. CASE handle_bundle_transmitted
  <2>1. PICK lk \in LinkStatesOf :
            Recorded(lk) /\ try_to_delete(lk, custody, Tail(eventq))
    BY <1>6, TransmittedEffect
  <2>2. lk[l].log = "TRANSMITTED" /\ Tail(eventq) \in Queue
    BY <1>2, <1>6, <2>1, TransmittedEffect DEF Recorded, SameBut
  <2>3. link'[l].log = lk[l].log
    BY <2>1, <2>2, TryToDeleteEither, CancelsOfDelete DEF Cancels
  <2> QED BY <2>2, <2>3
<1>7. CASE handle_bundle_cancelled
  <2> DEFINE y == IF link[On].blocks
                  THEN [link EXCEPT ![On].blocks = FALSE, ![On].log = "CANCELLED"]
                  ELSE link
  <2>1. Handles("BUNDLE_CANCELLED")
    BY <1>7 DEF handle_bundle_cancelled
  <2>2. On \in Links
    BY <2>1, HandledEvent DEF LinkEventTypes, EventTypes
  <2>3. y \in LinkStatesOf /\ y[l] = link[l]
    BY <1>1, <1>2, <2>2 DEF LinkStatesOf, LinkRecord, FwdStates
  <2>4. link' = IF expiration THEN route_bundle(y) ELSE y
    BY <1>7 DEF handle_bundle_cancelled
  <2> HIDE DEF y
  <2>5. Moved(y[l], link'[l])
    BY <2>3, <2>4, RouteBundleMoves, MovedReflexive
  <2> QED BY <1>3, <2>3, <2>5
<1>8. CASE handle_bundle_expired
  <2>1. Delete(link, Tail(eventq)) /\ Tail(eventq) \in Queue
    BY <1>8, HandledEvent DEF handle_bundle_expired, delete_bundle
  <2> QED BY <1>1, <2>1, CancelsOfDelete DEF Cancels
<1>9. CASE handle_bundle_cancel \/ \E k \in Links : reroute_bundles(k)
  <2>1. link' = link \/ \E S : link' = Cancelled(link, S)
    BY <1>9 DEF handle_bundle_cancel, reroute_bundles
  <2> QED BY <1>1, <2>1 DEF Cancelled, LinkStatesOf, LinkRecord
<1>10. CASE handle_custody_signal
  <2>1. \/ link' = link
        \/ try_to_delete(link, FALSE, Tail(eventq)) /\ Tail(eventq) \in Queue
    BY <1>10, HandledEvent DEF handle_custody_signal
  <2> QED BY <1>1, <2>1, TryToDeleteEither, CancelsOfDelete DEF Cancels
<1>11. CASE handle_custody_timeout
  <2> DEFINE y == IF custodyTimer[On] = "fired" THEN TimedOut(On) ELSE link
  <2>1. Handles("CUSTODY_TIMEOUT")
    BY <1>11 DEF handle_custody_timeout
  <2>2. On \in Links
    BY <2>1, HandledEvent DEF LinkEventTypes, EventTypes
  <2>3. /\ y \in LinkStatesOf
        /\ y[l] = link[l] \/ (l = On /\ custodyTimer[On] = "fired")
    BY <1>1, <2>2 DEF TimedOut, LinkStatesOf, LinkRecord, FwdStates
  <2>4. link' = route_bundle(y)
    BY <1>11 DEF handle_custody_timeout
  <2> HIDE DEF y
  <2>5. Moved(y[l], link'[l])
    BY <2>3, <2>4, RouteBundleMoves
  <2> QED BY <1>3, <1>11, <2>3, <2>5
<1>12. CASE RequestOpen \/ handle_contact_up
  <2>1. PICK t \in {"OPEN", "CONTACT_UP"}, s \in {"OPENING", "OPEN"} :
            /\ Handles(t)
            /\ \/ link' = [link EXCEPT ![On].state = s]
               \/ link' = check_next_hop([link EXCEPT ![On].state = s], On)
    BY <1>12 DEF RequestOpen, handle_contact_up
  <2> DEFINE y == [link EXCEPT ![On].state = s]
  <2>2. On \in Links
    BY <2>1, HandledEvent DEF LinkEventTypes, EventTypes
  <2>3. y \in LinkStatesOf /\ y[l].log = link[l].log
    BY <1>1, <2>2 DEF LinkStatesOf, LinkRecord, LinkStates
  <2>4. link' = y \/ link' = check_next_hop(y, On)
    BY <2>1
  <2> HIDE DEF y
  <2>5. Moved(y[l], link'[l])
    BY <2>2, <2>3, <2>4, CheckNextHopMoves, MovedReflexive DEF OneMoves
  <2> QED BY <1>3, <2>3, <2>5
<1>13. CASE CloseCompleted
  <2>1. /\ closing.link \in Links
        /\ link' = [link EXCEPT ![closing.link] =
               [IF PutBack(closing.link) THEN BackOnQueue(link[closing.link])
                ELSE link[closing.link]
                   EXCEPT !.state = StateOnceClosed(closing.reason)]]
    BY <1>13 DEF CloseCompleted, TypeInv, EventsNameLinks
  <2> QED BY <1>1, <2>1 DEF BackOnQueue, LinkStatesOf, LinkRecord
<1>14. ASSUME NEW k \in Links, start_next_bundle(k)
       PROVE  link'[l].log = "TRANSMITTED"
  BY <1>1, <1>14 DEF start_next_bundle, LinkStatesOf, LinkRecord
<1>15. ASSUME NEW k \in Links, handle_ack_segment(k) \/ handle_cancel_bundle(k)
                                  \/ CustodyTimeout(k) \/ UserCancel(k)
       PROVE  link'[l].log = "TRANSMITTED"
  BY <1>15 DEF handle_ack_segment, handle_cancel_bundle, CLMoves, CustodyTimeout,
               UserCancel, UserRequest
<1>16. ASSUME NEW k \in Links, OtherTransmitted(k)
       PROVE  link'[l].log = "TRANSMITTED"
  <2>1. Moved(link[l], link'[l])
    BY <1>1, <1>16, PullDeferredMoves, MovedReflexive DEF OtherTransmitted, OneMoves
  <2> QED BY <1>3, <2>1
<1> QED BY StepKinds, <1>4, <1>5, <1>6, <1>7, <1>8, <1>9, <1>10, <1>11, <1>12,
           <1>13, <1>14, <1>15, <1>16

\* TimeoutsMeetTheirLog for one link.
TimeoutMeetsLog(r, timer, q, l) ==
    /\ InQ(q, "CUSTODY_TIMEOUT", l) => r.log = "TRANSMITTED" /\ timer # "pending"
    /\ Once(q, "CUSTODY_TIMEOUT", l)
    /\ timer = "fired" => InQ(q, "CUSTODY_TIMEOUT", l)

\* Every step keeps custody timers, their events and the log together.
LEMMA TimeoutStep ==
    ASSUME TypeInv, LogInv, TimeoutsMeetTheirLog, [Next]_vars
    PROVE  TimeoutsMeetTheirLog'
<1> DEFINE CT == "CUSTODY_TIMEOUT"
<1>1. \A l \in Links : TimeoutMeetsLog(link[l], custodyTimer[l], eventq, l)
  BY DEF TimeoutsMeetTheirLog, TimeoutMeetsLog, Queued, InQ
<1>2. (\A l \in Links : TimeoutMeetsLog(link'[l], custodyTimer'[l], eventq', l))
         => TimeoutsMeetTheirLog'
  BY DEF TimeoutsMeetTheirLog, TimeoutMeetsLog, Queued, InQ
<1>3. /\ custodyTimer \in [Links -> {"none", "pending", "fired"}]
      /\ eventq \in Queue
  BY DEF TypeInv, TypeOK, EventsNameLinks, Queue
<1>4. ASSUME ~handle_custody_timeout, Untouched(CT),
             \A l \in Links : custodyTimer'[l] \in {custodyTimer[l], "none"}
      PROVE  TimeoutsMeetTheirLog'
  <2>1. ASSUME NEW l \in Links
        PROVE  TimeoutMeetsLog(link'[l], custodyTimer'[l], eventq', l)
    <3>1. link[l].log = "TRANSMITTED" => link'[l].log = "TRANSMITTED"
      BY <1>4, TransmissionStays
    <3>2. /\ InQ(eventq', CT, l) <=> InQ(eventq, CT, l)
          /\ Once(eventq, CT, l) => Once(eventq', CT, l)
      BY <1>4 DEF Untouched
    <3> QED BY <1>1, <1>4, <3>1, <3>2 DEF TimeoutMeetsLog
  <2> QED BY <1>2, <2>1
<1>5. CASE handle_bundle_transmitted
  <2>1. Untouched(CT)
    BY <1>5, StepTouches
  <2>2. Handles("BUNDLE_TRANSMITTED") /\ On \in Links
    BY <1>5, HandledEvent DEF handle_bundle_transmitted, LinkEventTypes, EventTypes
  <2>3. ~handle_custody_timeout
    BY <2>2 DEF handle_custody_timeout, Handles
  <2>4. ASSUME NEW l \in Links
        PROVE  TimeoutMeetsLog(link'[l], custodyTimer'[l], eventq', l)
    <3>1. custodyTimer'[l] = IF l = On /\ link[On].blocks /\ custody
                             THEN "pending" ELSE custodyTimer[l]
      BY <1>3, <1>5, <2>2 DEF handle_bundle_transmitted
    <3>2. link[l].log = "TRANSMITTED" => link'[l].log = "TRANSMITTED"
      BY <2>3, TransmissionStays
    <3>3. link[l].blocks => ~InQ(eventq, CT, l)
      BY <1>1, LogParts DEF LogOK, TimeoutMeetsLog
    <3>4. /\ InQ(eventq', CT, l) <=> InQ(eventq, CT, l)
          /\ Once(eventq, CT, l) => Once(eventq', CT, l)
      BY <2>1 DEF Untouched
    <3> QED BY <1>1, <3>1, <3>2, <3>3, <3>4 DEF TimeoutMeetsLog
  <2> QED BY <1>2, <2>4
<1>6. CASE handle_custody_timeout
  <2>1. Handles(CT)
    BY <1>6 DEF handle_custody_timeout
  <2>2. On \in Links /\ eventq' = Tail(eventq)
        /\ custodyTimer' = IF custodyTimer[On] = "fired"
                           THEN [custodyTimer EXCEPT ![On] = "none"]
                           ELSE custodyTimer
    BY <1>6, <2>1, HandledEvent DEF LinkEventTypes, EventTypes, handle_custody_timeout
  <2>3. ASSUME NEW l \in Links
        PROVE  TimeoutMeetsLog(link'[l], custodyTimer'[l], eventq', l)
    <3>1. CASE l = On
      <4>1. ~InQ(eventq', CT, l) /\ Once(eventq', CT, l)
        BY <1>1, <2>1, <2>2, <3>1, HandledEvent DEF TimeoutMeetsLog
      <4>2. custodyTimer'[l] # "fired"
        BY <1>3, <2>2, <3>1
      <4> QED BY <4>1, <4>2 DEF TimeoutMeetsLog
    <3>2. CASE l # On
      <4>1. custodyTimer'[l] = custodyTimer[l]
        BY <1>3, <2>2, <3>2
      <4>2. link[l].log = "TRANSMITTED" => link'[l].log = "TRANSMITTED"
        BY <3>2, TransmissionStays
      <4>3. /\ InQ(eventq', CT, l) <=> InQ(eventq, CT, l)
            /\ Once(eventq, CT, l) => Once(eventq', CT, l)
        BY <2>1, <2>2, <3>2, HandledEvent
      <4> QED BY <1>1, <4>1, <4>2, <4>3 DEF TimeoutMeetsLog
    <3> QED BY <3>1, <3>2
  <2> QED BY <1>2, <2>3
<1>7. ASSUME NEW k \in Links, CustodyTimeout(k)
      PROVE  TimeoutsMeetTheirLog'
  <2> DEFINE e == LinkEvent(CT, k)
  <2>1. /\ custodyTimer[k] = "pending" /\ eventq' = Append(eventq, e)
        /\ custodyTimer' = [custodyTimer EXCEPT ![k] = "fired"]
        /\ UNCHANGED link
    BY <1>7 DEF CustodyTimeout, post
  <2>2. e \in LinkedEvent /\ e.type = CT /\ e.link = k
    BY EventsLinked DEF LinkEvent, EventTypes
  <2> HIDE DEF e
  <2>3. /\ \A l : InQ(eventq', CT, l) <=> InQ(eventq, CT, l) \/ l = k
        /\ \A l : Once(eventq, CT, l) /\ (InQ(eventq, CT, l) => l # k)
                  => Once(eventq', CT, l)
    BY <1>3, <2>1, <2>2, PostedQueue
  <2>4. link[k].log = "TRANSMITTED" /\ ~InQ(eventq, CT, k)
    BY <1>1, <2>1, LogParts DEF TimeoutMeetsLog
  <2>5. \A l \in Links : custodyTimer'[l] = IF l = k THEN "fired" ELSE custodyTimer[l]
    BY <1>3, <2>1
  <2>6. \A l \in Links : TimeoutMeetsLog(link'[l], custodyTimer'[l], eventq', l)
    BY <1>1, <2>1, <2>3, <2>4, <2>5 DEF TimeoutMeetsLog
  <2> QED BY <1>2, <2>6
<1>8. CASE Quiet
  <2>1. Untouched(CT) /\ UNCHANGED <<custodyTimer, link>>
    BY <1>8, StepTouches DEF Quiet, QuietTypes
  <2>2. \A l \in Links : TimeoutMeetsLog(link'[l], custodyTimer'[l], eventq', l)
    BY <1>1, <2>1 DEF Untouched, TimeoutMeetsLog
  <2> QED BY <1>2, <2>2
<1>9. CASE \/ handle_bundle_received \/ handle_bundle_cancelled
           \/ handle_bundle_expired \/ handle_bundle_cancel \/ handle_custody_signal
           \/ RequestOpen \/ handle_contact_up
  <2>1. Untouched(CT)
    BY <1>9, StepTouches
  <2>2. ~handle_custody_timeout
    BY <1>9 DEF handle_custody_timeout, Handles, handle_bundle_received,
                handle_bundle_cancelled, handle_bundle_expired, handle_bundle_cancel,
                handle_custody_signal, RequestOpen, handle_contact_up
  <2>3. \A l \in Links : custodyTimer'[l] \in {custodyTimer[l], "none"}
    BY <1>9 DEF handle_bundle_received, handle_bundle_cancelled,
                handle_bundle_expired, delete_bundle, handle_bundle_cancel,
                handle_custody_signal, RequestOpen, handle_contact_up, bundleVars,
                release_custody, TimersCancelled
  <2> QED BY <1>4, <2>1, <2>2, <2>3
<1>10. CASE CloseCompleted \/ ExpirationTimeout
  <2>1. Untouched(CT) /\ UNCHANGED custodyTimer
    BY <1>10, StepTouches DEF CloseCompleted, ExpirationTimeout, bundleVars
  <2>2. ASSUME NEW l \in Links
        PROVE  TimeoutMeetsLog(link'[l], custodyTimer'[l], eventq', l)
    <3>1. ~(handle_custody_timeout /\ l = On /\ custodyTimer[l] = "fired")
      BY <1>10, <1>3, <2>1 DEF handle_custody_timeout, CloseCompleted,
                          ExpirationTimeout, Handles, Idle
    <3>2. link[l].log = "TRANSMITTED" => link'[l].log = "TRANSMITTED"
      BY <3>1, TransmissionStays
    <3> QED BY <1>1, <2>1, <3>2 DEF Untouched, TimeoutMeetsLog
  <2> QED BY <1>2, <2>2
<1>11. ASSUME NEW k \in Links,
              \/ start_next_bundle(k) \/ OtherTransmitted(k) \/ handle_ack_segment(k)
              \/ handle_cancel_bundle(k) \/ reroute_bundles(k) \/ UserCancel(k)
       PROVE  TimeoutsMeetTheirLog'
  <2>1. Untouched(CT)
    BY <1>11, StepTouches
  <2>2. UNCHANGED custodyTimer
    BY <1>11 DEF start_next_bundle, OtherTransmitted, handle_ack_segment, CLMoves,
                 handle_cancel_bundle, reroute_bundles, UserCancel, UserRequest,
                 bundleVars
  <2>3. ASSUME NEW l \in Links, InQ(eventq, CT, l), handle_custody_timeout
        PROVE  link'[l].log = link[l].log
    <3>1. l # On \/ custodyTimer[l] # "fired"
      BY <1>3, <2>2, <2>3, HandledEvent DEF handle_custody_timeout
    <3>2. link[l].log = "TRANSMITTED"
      BY <1>1, <2>3 DEF TimeoutMeetsLog
    <3> QED BY <3>1, <3>2, TransmissionStays
  <2>4. ASSUME NEW l \in Links, InQ(eventq, CT, l)
        PROVE  link'[l].log = "TRANSMITTED"
    BY <1>1, <2>3, <2>4, TransmissionStays DEF TimeoutMeetsLog
  <2>5. \A l \in Links : TimeoutMeetsLog(link'[l], custodyTimer'[l], eventq', l)
    BY <1>1, <2>1, <2>2, <2>4 DEF Untouched, TimeoutMeetsLog
  <2> QED BY <1>2, <2>5
<1> QED BY StepKinds, <1>5, <1>6, <1>7, <1>8, <1>9, <1>10, <1>11

\* A deleted bundle stays deleted, waits for no link and is put on no queue:
\* a custody timer that fired before the deletion finds the transmission on
\* record, which keeps the router from sending the bundle anywhere.
LEMMA DeletedStays ==
    ASSUME Singleton, TypeInv, LogInv, DeletedInv, status = "deleted", [Next]_vars
    PROVE  /\ status' = "deleted" /\ ~expiration' /\ ~custody'
           /\ \A l \in Links : /\ ~link'[l].deferred
                               /\ link'[l].log = "QUEUED" => link[l].log = "QUEUED"
<1>1. link \in LinkStatesOf /\ eventq \in Queue
  BY DEF TypeInv, TypeOK, EventsNameLinks, LinkStatesOf, Queue
<1>2. ~expiration /\ ~custody /\ \A l \in Links : ~link[l].deferred
  BY DEF DeletedInv, DeletedIsInert
<1>3. \A l \in Links : custodyTimer[l] = "none"
  BY <1>2, LogParts
<1>4. \A t : Handles(t) => t # "BUNDLE_RECEIVED"
  BY HandledEvent, LogParts DEF ReceivedFirst
<1>5. ASSUME UNCHANGED <<status, expiration, custody>>,
             \A l \in Links : /\ link'[l].deferred = link[l].deferred
                              /\ link'[l].log = link[l].log
      PROVE  /\ status' = "deleted" /\ ~expiration' /\ ~custody'
             /\ \A l \in Links : /\ ~link'[l].deferred
                                 /\ link'[l].log = "QUEUED" => link[l].log = "QUEUED"
  BY <1>2, <1>5
<1>6. CASE Quiet
  BY <1>5, <1>6 DEF Quiet
<1>7. CASE handle_bundle_received
  BY <1>4, <1>7 DEF handle_bundle_received
<1>8. CASE handle_bundle_transmitted
  <2>1. PICK lk \in LinkStatesOf :
            Recorded(lk) /\ try_to_delete(lk, custody, Tail(eventq))
    BY <1>8, TransmittedEffect
  <2>2. link' = lk /\ UNCHANGED <<status, expiration, custody>>
    BY <1>8, <2>1, TryToDeleteEither, TransmittedEffect
  <2>3. \A l \in Links : ~lk[l].deferred /\ (lk[l].log = "QUEUED" => link[l].log = "QUEUED")
    BY <2>1 DEF Recorded, SameBut
  <2> QED BY <1>2, <2>2, <2>3
<1>9. CASE handle_bundle_cancelled
  <2>1. Handles("BUNDLE_CANCELLED")
    BY <1>9 DEF handle_bundle_cancelled
  <2>2. On \in Links
    BY <2>1, HandledEvent DEF LinkEventTypes, EventTypes
  <2>3. /\ link' = IF link[On].blocks
                   THEN [link EXCEPT ![On].blocks = FALSE, ![On].log = "CANCELLED"]
                   ELSE link
        /\ UNCHANGED <<status, expiration, custody>>
    BY <1>2, <1>9 DEF handle_bundle_cancelled, bundleVars
  <2> QED BY <1>1, <1>2, <2>2, <2>3 DEF LinkStatesOf, LinkRecord
<1>10. CASE handle_bundle_expired
  <2>1. /\ Delete(link, Tail(eventq)) /\ Tail(eventq) \in Queue
        /\ ~custody'
    BY <1>10, HandledEvent DEF handle_bundle_expired, delete_bundle, release_custody
  <2> QED BY <1>1, <2>1, CancelsOfDelete DEF Cancels
<1>11. CASE handle_bundle_cancel \/ \E k \in Links : reroute_bundles(k)
  <2>1. /\ link' = link \/ \E S : link' = Cancelled(link, S)
        /\ UNCHANGED <<status, expiration, custody>>
    BY <1>11 DEF handle_bundle_cancel, reroute_bundles, bundleVars
  <2>2. \A l \in Links : /\ link'[l].deferred = link[l].deferred
                         /\ link'[l].log = link[l].log
    BY <1>1, <2>1 DEF Cancelled, LinkStatesOf, LinkRecord
  <2> QED BY <1>5, <2>1, <2>2
<1>12. CASE handle_custody_signal
  BY <1>2, <1>5, <1>12 DEF handle_custody_signal, bundleVars
<1>13. CASE handle_custody_timeout
  <2>1. Handles("CUSTODY_TIMEOUT")
    BY <1>13 DEF handle_custody_timeout
  <2>2. On \in Links /\ InQ(eventq, "CUSTODY_TIMEOUT", On)
    BY <2>1, HandledEvent DEF LinkEventTypes, EventTypes
  <2>3. Sent(link[On])
    BY <2>2 DEF DeletedInv, TimeoutsMeetTheirLog, Queued, InQ, Sent
  <2>4. link' = route_bundle(link) /\ UNCHANGED <<status, expiration, custody>>
    BY <1>3, <1>13, <2>2 DEF handle_custody_timeout
  <2>5. link' = link
    BY <1>1, <2>2, <2>3, <2>4, SentIsNotRouted
  <2> QED BY <1>5, <2>4, <2>5
<1>14. CASE RequestOpen \/ handle_contact_up
  <2>1. PICK t \in {"OPEN", "CONTACT_UP"}, s \in {"OPENING", "OPEN"} :
            /\ Handles(t)
            /\ \/ link' = [link EXCEPT ![On].state = s]
               \/ link' = check_next_hop([link EXCEPT ![On].state = s], On)
            /\ UNCHANGED <<status, expiration, custody>>
    BY <1>14 DEF RequestOpen, handle_contact_up, bundleVars
  <2> DEFINE y == [link EXCEPT ![On].state = s]
  <2>2. On \in Links
    BY <2>1, HandledEvent DEF LinkEventTypes, EventTypes
  <2>3. /\ y \in LinkStatesOf
        /\ \A l \in Links : /\ y[l].log = link[l].log
                            /\ y[l].deferred = link[l].deferred
    BY <1>1, <2>2 DEF LinkStatesOf, LinkRecord, LinkStates
  <2>4. link' = y \/ link' = check_next_hop(y, On)
    BY <2>1
  <2> HIDE DEF y
  <2>5. link' = y
    BY <1>2, <2>2, <2>3, <2>4, CheckNextHopMoves
  <2> QED BY <1>5, <2>1, <2>3, <2>5
<1>15. CASE CloseCompleted
  <2>1. /\ closing.link \in Links
        /\ link' = [link EXCEPT ![closing.link] =
               [IF PutBack(closing.link) THEN BackOnQueue(link[closing.link])
                ELSE link[closing.link]
                   EXCEPT !.state = StateOnceClosed(closing.reason)]]
        /\ UNCHANGED <<status, expiration, custody>>
    BY <1>15 DEF CloseCompleted, TypeInv, EventsNameLinks, bundleVars
  <2>2. \A l \in Links : /\ link'[l].deferred = link[l].deferred
                         /\ link'[l].log = link[l].log
    BY <1>1, <2>1 DEF BackOnQueue, LinkStatesOf, LinkRecord
  <2> QED BY <1>5, <2>1, <2>2
<1>16. CASE ExpirationTimeout
  BY <1>2, <1>16 DEF ExpirationTimeout
<1>17. ASSUME NEW k \in Links, start_next_bundle(k)
       PROVE  /\ UNCHANGED <<status, expiration, custody>>
              /\ \A l \in Links : /\ link'[l].deferred = link[l].deferred
                                  /\ link'[l].log = link[l].log
  BY <1>1, <1>17 DEF start_next_bundle, bundleVars, LinkStatesOf, LinkRecord
<1>18. ASSUME NEW k \in Links, handle_ack_segment(k) \/ handle_cancel_bundle(k)
                                  \/ CustodyTimeout(k) \/ UserCancel(k)
       PROVE  UNCHANGED <<status, expiration, custody, link>>
  BY <1>18 DEF handle_ack_segment, handle_cancel_bundle, CLMoves, CustodyTimeout,
               UserCancel, UserRequest, bundleVars
<1>19. ASSUME NEW k \in Links, OtherTransmitted(k)
       PROVE  UNCHANGED <<status, expiration, custody, link>>
  BY <1>1, <1>2, <1>19, PullDeferredMoves DEF OtherTransmitted, bundleVars
<1> QED BY StepKinds, <1>5, <1>6, <1>7, <1>8, <1>9, <1>10, <1>11, <1>12, <1>13,
           <1>14, <1>15, <1>16, <1>17, <1>18, <1>19

\* Whatever deletes the bundle leaves nothing behind that could queue it.
LEMMA DeletionIsInert ==
    ASSUME TypeInv, LogInv, [Next]_vars, status # "deleted", status' = "deleted"
    PROVE  ~expiration' /\ ~custody' /\ \A l \in Links : ~link'[l].deferred
<1>1. link \in LinkStatesOf /\ eventq \in Queue
  BY DEF TypeInv, TypeOK, EventsNameLinks, LinkStatesOf, Queue
<1>2. CASE handle_bundle_transmitted
  <2>1. PICK lk \in LinkStatesOf :
            Recorded(lk) /\ try_to_delete(lk, custody, Tail(eventq))
    BY <1>2, TransmittedEffect
  <2>2. Tail(eventq) \in Queue /\ custody' = custody
    BY <1>2, TransmittedEffect
  <2>3. Delete(lk, Tail(eventq)) /\ ~custody
    BY <2>1, TryToDeleteEither
  <2> QED BY <2>2, <2>3, CancelsOfDelete
<1>3. CASE handle_bundle_expired
  <2>1. Delete(link, Tail(eventq)) /\ Tail(eventq) \in Queue /\ ~custody'
    BY <1>3, HandledEvent DEF handle_bundle_expired, delete_bundle, release_custody
  <2> QED BY <1>1, <2>1, CancelsOfDelete
<1>4. CASE handle_custody_signal
  <2>1. try_to_delete(link, FALSE, Tail(eventq)) /\ ~custody' /\ Tail(eventq) \in Queue
    BY <1>4, HandledEvent DEF handle_custody_signal, release_custody, bundleVars
  <2>2. Delete(link, Tail(eventq))
    BY <2>1, TryToDeleteEither
  <2> QED BY <1>1, <2>1, <2>2, CancelsOfDelete
<1>5. CASE \/ Quiet \/ handle_bundle_received \/ handle_bundle_cancelled
           \/ handle_bundle_cancel \/ handle_custody_timeout \/ RequestOpen
           \/ handle_contact_up \/ CloseCompleted \/ ExpirationTimeout
           \/ \E l \in Links :
                 \/ start_next_bundle(l) \/ handle_ack_segment(l)
                 \/ handle_cancel_bundle(l) \/ CustodyTimeout(l)
                 \/ reroute_bundles(l) \/ OtherTransmitted(l) \/ UserCancel(l)
  <2>1. status' = status \/ status' = "pending"
    BY <1>5 DEF Quiet, handle_bundle_received, handle_bundle_cancelled,
                handle_bundle_cancel, handle_custody_timeout, RequestOpen,
                handle_contact_up, CloseCompleted, ExpirationTimeout,
                start_next_bundle, handle_ack_segment, CLMoves,
                handle_cancel_bundle, CustodyTimeout, reroute_bundles,
                OtherTransmitted, UserCancel, UserRequest, bundleVars
  <2> QED BY <2>1
<1> QED BY StepKinds, <1>2, <1>3, <1>4, <1>5

\* No timer has fired and nothing is deleted when the bundle arrives.
LEMMA DeletedInit == Init => DeletedInv
<1> SUFFICES ASSUME Init PROVE DeletedInv
  OBVIOUS
<1> DEFINE e == LinkEvent("BUNDLE_RECEIVED", NoLink)
<1>1. eventq = <<e>> /\ e.type = "BUNDLE_RECEIVED" /\ DOMAIN <<e>> = {1} /\ <<e>>[1] = e
  BY DEF Init, LinkEvent
<1>2. status = "new" /\ \A l \in Links : custodyTimer[l] = "none"
  BY DEF Init
<1> HIDE DEF e
<1> QED BY <1>1, <1>2 DEF DeletedInv, TimeoutsMeetTheirLog, DeletedIsInert, Queued,
                          Once

\* DeletedInv is inductive with LogInv for a singleton destination.
LEMMA DeletedStep ==
    ASSUME Singleton, TypeInv, LogInv, DeletedInv, [Next]_vars
    PROVE  DeletedInv'
<1>1. TimeoutsMeetTheirLog'
  BY TimeoutStep DEF DeletedInv
<1>2. DeletedIsInert'
  BY DeletedStays, DeletionIsInert DEF DeletedIsInert
<1> QED BY <1>1, <1>2 DEF DeletedInv

\* Whatever events about it are still queued, the router never queues a deleted
\* bundle for a singleton endpoint again.
THEOREM DeletedIsNeverQueued == Singleton => (Spec => NotQueuedOnceDeleted)
<1> SUFFICES ASSUME Singleton PROVE Spec => NotQueuedOnceDeleted
  OBVIOUS
<1> DEFINE I == TypeInv /\ LogInv /\ DeletedInv
           NoneQueued == status = "deleted" => \A l \in Links :
                            link'[l].log = "QUEUED" => link[l].log = "QUEUED"
<1>1. Init => I
  BY TypeInit, LogInit, DeletedInit
<1>2. I /\ [Next]_vars => I'
  BY TypeStep, LogStep, DeletedStep
<1>3. I /\ [Next]_vars => [NoneQueued]_vars
  BY DeletedStays
<1> HIDE DEF I, NoneQueued
<1>4. Spec => [][NoneQueued]_vars
  BY <1>1, <1>2, <1>3, PTL DEF Spec
<1> QED BY <1>4 DEF NotQueuedOnceDeleted, NoneQueued

(***************************************************************************)
(* One link at a time.                                                     *)
(***************************************************************************)

\* Routing a link that is in order leaves it in order: where it changes what
\* the link has of the bundle, it has queued it.
LEMMA MovedHand ==
    ASSUME NEW r \in LinkRecord, NEW s \in LinkRecord, Moved(r, s), Clean(r),
           ~(r.queue /\ r.inflight)
    PROVE  /\ Clean(s) /\ ~(s.queue /\ s.inflight)
           /\ Sent(r) => Sent(s)
           /\ Sent(r) /\ ~InHand(r) => ~InHand(s)
  BY DEF Moved, Clean, InHand, Sent, LinkRecord

\* The queue of events about cancellations that have ended, one way.
EndsKept(q, p) ==
    /\ \A l : InQ(p, "BUNDLE_CANCELLED", l) => InQ(q, "BUNDLE_CANCELLED", l)
    /\ \A l : Once(q, "BUNDLE_CANCELLED", l) => Once(p, "BUNDLE_CANCELLED", l)
    /\ \A l : EndsBeforeTimeout(q, l) => EndsBeforeTimeout(p, l)

\* Appending p to q keeps the order when it appends no end of a cancellation
\* behind a timeout.
LEMMA JoinedOrder ==
    ASSUME NEW q \in Queue, NEW p \in Queue, NEW l,
           EndsBeforeTimeout(q, l), EndsBeforeTimeout(p, l),
           ~(InQ(q, "CUSTODY_TIMEOUT", l) /\ InQ(p, "BUNDLE_CANCELLED", l))
    PROVE  EndsBeforeTimeout(q \o p, l)
<1> DEFINE r == q \o p
<1>1. /\ DOMAIN q = 1 .. Len(q) /\ DOMAIN p = 1 .. Len(p)
      /\ DOMAIN r = 1 .. Len(q) + Len(p)
      /\ \A i \in DOMAIN r :
                 \/ i \in DOMAIN q /\ r[i] = q[i]
                 \/ i - Len(q) \in DOMAIN p /\ r[i] = p[i - Len(q)]
      /\ Len(q) \in Nat /\ Len(p) \in Nat
  BY ConcatOf DEF Queue
<1> HIDE DEF r
<1> SUFFICES ASSUME NEW i \in DOMAIN r, NEW j \in DOMAIN r,
                    r[i].type = "BUNDLE_CANCELLED" /\ r[i].link = l,
                    r[j].type = "CUSTODY_TIMEOUT" /\ r[j].link = l
             PROVE  i < j
  BY DEF EndsBeforeTimeout, r
<1>2. CASE i \in DOMAIN q /\ r[i] = q[i] /\ j \in DOMAIN q /\ r[j] = q[j]
  BY <1>2 DEF EndsBeforeTimeout
<1>3. CASE i \in DOMAIN q /\ j - Len(q) \in DOMAIN p
  BY <1>1, <1>3
<1>4. CASE i - Len(q) \in DOMAIN p /\ r[i] = p[i - Len(q)]
           /\ j \in DOMAIN q /\ r[j] = q[j]
  BY <1>4 DEF InQ
<1>5. CASE i - Len(q) \in DOMAIN p /\ r[i] = p[i - Len(q)]
           /\ j - Len(q) \in DOMAIN p /\ r[j] = p[j - Len(q)]
  <2>1. i - Len(q) < j - Len(q)
    BY <1>5 DEF EndsBeforeTimeout
  <2> QED BY <1>1, <2>1
<1> QED BY <1>1, <1>2, <1>3, <1>4, <1>5

\* What is popped or posted, other than the end of a cancellation, keeps them
\* and their order.
LEMMA EndsKeptBy ==
    ASSUME NEW q \in Queue
    PROVE  /\ EndsKept(q, q)
           /\ q # <<>> => EndsKept(q, Tail(q))
           /\ \A e \in LinkedEvent : e.type # "BUNDLE_CANCELLED"
                                     => EndsKept(q, Append(q, e))
           /\ \A e \in LinkedEvent :
                 e.type \notin {"BUNDLE_CANCELLED", "CUSTODY_TIMEOUT"}
                 => EndsKept(q, <<e>> \o q)
<1>1. EndsKept(q, q)
  BY DEF EndsKept
<1>2. ASSUME q # <<>> PROVE EndsKept(q, Tail(q))
  <2>1. /\ \A t, l : InQ(Tail(q), t, l) => InQ(q, t, l)
        /\ \A t, l : Once(q, t, l) => Once(Tail(q), t, l)
    BY <1>2, PoppedQueue
  <2>2. ASSUME NEW l, EndsBeforeTimeout(q, l)
        PROVE  EndsBeforeTimeout(Tail(q), l)
    <3> DEFINE p == Tail(q)
    <3>1. /\ DOMAIN p = 1 .. Len(q) - 1 /\ Len(q) \in Nat
          /\ \A i \in DOMAIN p : i + 1 \in DOMAIN q /\ p[i] = q[i + 1]
      BY <1>2, TailOf DEF Queue
    <3> HIDE DEF p
    <3> SUFFICES ASSUME NEW i \in DOMAIN p, NEW j \in DOMAIN p,
                        p[i].type = "BUNDLE_CANCELLED" /\ p[i].link = l,
                        p[j].type = "CUSTODY_TIMEOUT" /\ p[j].link = l
                 PROVE  i < j
      BY DEF EndsBeforeTimeout, p
    <3>2. i + 1 < j + 1
      BY <2>2, <3>1 DEF EndsBeforeTimeout
    <3> QED BY <3>1, <3>2
  <2> QED BY <2>1, <2>2 DEF EndsKept
<1>3. ASSUME NEW e \in LinkedEvent
      PROVE  /\ <<e>> \in Queue /\ Append(q, e) = q \o <<e>>
             /\ \A l : EndsBeforeTimeout(<<e>>, l)
             /\ \A t, l : InQ(<<e>>, t, l) <=> e.type = t /\ e.link = l
  <2>1. DOMAIN <<e>> = {1} /\ <<e>>[1] = e /\ Append(q, e) = q \o <<e>>
    BY DEF Queue
  <2> QED BY <2>1, OneEvent DEF EndsBeforeTimeout
<1>4. ASSUME NEW e \in LinkedEvent, e.type # "BUNDLE_CANCELLED"
      PROVE  EndsKept(q, Append(q, e))
  <2>1. ASSUME NEW l, EndsBeforeTimeout(q, l)
        PROVE  EndsBeforeTimeout(Append(q, e), l)
    <3>1. ~InQ(<<e>>, "BUNDLE_CANCELLED", l) /\ EndsBeforeTimeout(<<e>>, l)
      BY <1>3, <1>4
    <3>2. EndsBeforeTimeout(q \o <<e>>, l)
      BY <1>3, <2>1, <3>1, JoinedOrder
    <3> QED BY <1>3, <3>2
  <2>2. /\ \A t, l : InQ(Append(q, e), t, l) <=>
                        InQ(q, t, l) \/ (e.type = t /\ e.link = l)
        /\ \A t, l : /\ Once(q, t, l)
                     /\ InQ(q, t, l) => e.type # t \/ e.link # l
                     => Once(Append(q, e), t, l)
    BY PostedQueue
  <2> QED BY <1>4, <2>1, <2>2 DEF EndsKept
<1>5. ASSUME NEW e \in LinkedEvent,
             e.type \notin {"BUNDLE_CANCELLED", "CUSTODY_TIMEOUT"}
      PROVE  EndsKept(q, <<e>> \o q)
  <2>1. \A l : EndsBeforeTimeout(q, l) => EndsBeforeTimeout(<<e>> \o q, l)
    BY <1>3, <1>5, JoinedOrder
  <2>2. /\ \A t, l : InQ(<<e>> \o q, t, l) <=>
                        InQ(q, t, l) \/ (e.type = t /\ e.link = l)
        /\ \A t, l : /\ Once(q, t, l)
                     /\ InQ(q, t, l) => e.type # t \/ e.link # l
                     => Once(<<e>> \o q, t, l)
    BY FrontQueue
  <2> QED BY <1>5, <2>1, <2>2 DEF EndsKept
<1> QED BY <1>1, <1>2, <1>4, <1>5

\* A custody timeout that is handled has no cancellation's end behind it.
LEMMA TimeoutComesLast ==
    ASSUME TypeInv, Handles("CUSTODY_TIMEOUT"), EndsBeforeTimeout(eventq, On)
    PROVE  ~InQ(eventq, "BUNDLE_CANCELLED", On)
<1>1. /\ eventq[1].type = "CUSTODY_TIMEOUT" /\ eventq[1].link = On
      /\ 1 \in DOMAIN eventq
  BY HeadLinked DEF On
<1> SUFFICES ASSUME NEW i \in DOMAIN eventq, eventq[i].type = "BUNDLE_CANCELLED",
                    eventq[i].link = On
             PROVE  FALSE
  BY DEF InQ
<1>3. i < 1
  BY <1>1 DEF EndsBeforeTimeout
<1>4. i >= 1 /\ i \in Nat
  BY HeadLinked DEF TypeInv, EventsNameLinks
<1> QED BY <1>3, <1>4

\* check_next_hop queues the bundle only when it counts as sent nowhere.
LEMMA PullDeferredAlone ==
    ASSUME NEW lk \in LinkStatesOf, Singleton, Alone(lk), NEW l \in Links
    PROVE  Alone(pull_deferred(lk, l)) /\ Alone(check_next_hop(lk, l))
<1>1. Alone(pull_deferred(lk, l))
  <2>1. OneMoves(lk, pull_deferred(lk, l), l)
    BY PullDeferredMoves
  <2>2. CASE should_fwd(lk, l)
    BY <2>1, <2>2 DEF should_fwd, OneMoves, Alone
  <2>3. CASE ~should_fwd(lk, l)
    BY <2>3, PullDeferredMoves
  <2> QED BY <2>2, <2>3
<1> QED BY <1>1 DEF check_next_hop

\* While the bundle is deleted, no link gets hold of it.
LEMMA HandOfDeleted ==
    ASSUME Singleton, TypeInv, LogInv, DeletedInv, HandInv, status = "deleted",
           [Next]_vars, NEW l \in Links
    PROVE  /\ InHand(link'[l]) => InHand(link[l])
           /\ Sent(link'[l]) => Sent(link[l])
           /\ ~(link'[l].queue /\ link'[l].inflight)
           /\ link'[l].blocks => link'[l].log = "QUEUED"
<1>1. link \in LinkStatesOf /\ eventq \in Queue
  BY DEF TypeInv, TypeOK, EventsNameLinks, LinkStatesOf, Queue
<1>2. ~expiration /\ ~custody /\ \A k \in Links : ~link[k].deferred
  BY DEF DeletedInv, DeletedIsInert
<1>3. \A k \in Links : custodyTimer[k] = "none"
  BY <1>2, LogParts
<1>4. \A t : Handles(t) => t # "BUNDLE_RECEIVED"
  BY HandledEvent, LogParts DEF ReceivedFirst
<1>5. /\ ~(link[l].queue /\ link[l].inflight)
      /\ link[l].blocks => link[l].log = "QUEUED"
  BY DEF HandInv
<1>6. ASSUME /\ link'[l].log = link[l].log /\ link'[l].blocks = link[l].blocks
             /\ link'[l].queue = link[l].queue /\ link'[l].inflight = link[l].inflight
      PROVE  /\ InHand(link'[l]) => InHand(link[l])
             /\ Sent(link'[l]) => Sent(link[l])
             /\ ~(link'[l].queue /\ link'[l].inflight)
             /\ link'[l].blocks => link'[l].log = "QUEUED"
  BY <1>5, <1>6 DEF InHand, Sent
<1>7. CASE Quiet \/ ExpirationTimeout
  BY <1>6, <1>7 DEF Quiet, ExpirationTimeout
<1>8. CASE handle_bundle_received
  BY <1>4, <1>8 DEF handle_bundle_received
<1>9. CASE handle_bundle_transmitted
  <2>1. PICK lk \in LinkStatesOf :
            Recorded(lk) /\ try_to_delete(lk, custody, Tail(eventq))
    BY <1>9, TransmittedEffect
  <2>2. link' = lk
    BY <2>1, TryToDeleteEither
  <2> QED BY <1>5, <2>1, <2>2 DEF Recorded, SameBut, InHand, Sent
<1>10. CASE handle_bundle_cancelled
  <2>1. Handles("BUNDLE_CANCELLED")
    BY <1>10 DEF handle_bundle_cancelled
  <2>2. On \in Links
    BY <2>1, HandledEvent DEF LinkEventTypes, EventTypes
  <2>3. link' = IF link[On].blocks
                THEN [link EXCEPT ![On].blocks = FALSE, ![On].log = "CANCELLED"]
                ELSE link
    BY <1>2, <1>10 DEF handle_bundle_cancelled
  <2> QED BY <1>1, <1>5, <2>2, <2>3 DEF LinkStatesOf, LinkRecord, InHand, Sent
<1>11. CASE handle_bundle_expired
  <2>1. Delete(link, Tail(eventq)) /\ Tail(eventq) \in Queue
    BY <1>11, HandledEvent DEF handle_bundle_expired, delete_bundle
  <2>2. Cancels(link, Links, Tail(eventq))
    BY <1>1, <2>1, CancelsOfDelete
  <2> QED BY <1>5, <2>2 DEF Cancels, InHand, Sent
<1>12. CASE handle_bundle_cancel \/ \E k \in Links : reroute_bundles(k)
  <2>1. link' = link \/ \E S : link' = Cancelled(link, S)
    BY <1>12 DEF handle_bundle_cancel, reroute_bundles
  <2> QED BY <1>1, <1>5, <2>1 DEF Cancelled, LinkStatesOf, LinkRecord, InHand, Sent
<1>13. CASE handle_custody_signal
  BY <1>2, <1>6, <1>13 DEF handle_custody_signal
<1>14. CASE handle_custody_timeout
  <2>1. Handles("CUSTODY_TIMEOUT")
    BY <1>14 DEF handle_custody_timeout
  <2>2. On \in Links /\ InQ(eventq, "CUSTODY_TIMEOUT", On)
    BY <2>1, HandledEvent DEF LinkEventTypes, EventTypes
  <2>3. Sent(link[On])
    BY <2>2 DEF DeletedInv, TimeoutsMeetTheirLog, Queued, InQ, Sent
  <2>4. link' = route_bundle(link)
    BY <1>3, <1>14, <2>2 DEF handle_custody_timeout
  <2>5. link' = link
    BY <1>1, <2>2, <2>3, <2>4, SentIsNotRouted
  <2> QED BY <1>6, <2>5
<1>15. CASE RequestOpen \/ handle_contact_up
  <2>1. PICK t \in {"OPEN", "CONTACT_UP"}, s \in {"OPENING", "OPEN"} :
            /\ Handles(t)
            /\ \/ link' = [link EXCEPT ![On].state = s]
               \/ link' = check_next_hop([link EXCEPT ![On].state = s], On)
    BY <1>15 DEF RequestOpen, handle_contact_up
  <2> DEFINE y == [link EXCEPT ![On].state = s]
  <2>2. On \in Links
    BY <2>1, HandledEvent DEF LinkEventTypes, EventTypes
  <2>3. /\ y \in LinkStatesOf /\ y[On].deferred = link[On].deferred
        /\ y[l].log = link[l].log /\ y[l].blocks = link[l].blocks
        /\ y[l].queue = link[l].queue /\ y[l].inflight = link[l].inflight
    BY <1>1, <2>2 DEF LinkStatesOf, LinkRecord, LinkStates
  <2>4. link' = y \/ link' = check_next_hop(y, On)
    BY <2>1
  <2> HIDE DEF y
  <2>5. link' = y
    BY <1>2, <2>2, <2>3, <2>4, CheckNextHopMoves
  <2> QED BY <1>6, <2>3, <2>5
<1>16. CASE CloseCompleted
  <2>1. /\ closing.link \in Links
        /\ link' = [link EXCEPT ![closing.link] =
               [IF PutBack(closing.link) THEN BackOnQueue(link[closing.link])
                ELSE link[closing.link]
                   EXCEPT !.state = StateOnceClosed(closing.reason)]]
    BY <1>16 DEF CloseCompleted, TypeInv, EventsNameLinks
  <2> QED BY <1>1, <1>5, <2>1 DEF BackOnQueue, LinkStatesOf, LinkRecord, InHand, Sent
<1>17. ASSUME NEW k \in Links, start_next_bundle(k)
       PROVE  /\ InHand(link'[l]) => InHand(link[l])
              /\ Sent(link'[l]) => Sent(link[l])
              /\ ~(link'[l].queue /\ link'[l].inflight)
              /\ link'[l].blocks => link'[l].log = "QUEUED"
  BY <1>1, <1>5, <1>17 DEF start_next_bundle, LinkStatesOf, LinkRecord, InHand, Sent
<1>18. ASSUME NEW k \in Links, handle_ack_segment(k) \/ handle_cancel_bundle(k)
                                  \/ CustodyTimeout(k) \/ UserCancel(k)
       PROVE  UNCHANGED link
  BY <1>18 DEF handle_ack_segment, handle_cancel_bundle, CLMoves, CustodyTimeout,
               UserCancel, UserRequest
<1>19. ASSUME NEW k \in Links, OtherTransmitted(k)
       PROVE  UNCHANGED link
  BY <1>1, <1>2, <1>19, PullDeferredMoves DEF OtherTransmitted
<1> QED BY StepKinds, <1>6, <1>7, <1>8, <1>9, <1>10, <1>11, <1>12, <1>13, <1>14,
           <1>15, <1>16, <1>17, <1>18, <1>19

\* What the links are like in HandInv while the bundle is not deleted.
Orderly(lk) == /\ Alone(lk)
               /\ \A l \in Links : Clean(lk[l]) /\ ~(lk[l].queue /\ lk[l].inflight)

\* The links are in order as long as the bundle is not deleted.
LEMMA HandInOrder == HandInv /\ status # "deleted" => Orderly(link)
  BY DEF HandInv, InHandIsQueued, Clean, Orderly

\* HandInv of the next state, from its parts.
LEMMA HandFrom ==
    ASSUME Orderly(link'), ~Has(eventq', "BUNDLE_CANCEL"),
           status' # "deleted" => \A l \in Links :
               ~cancelMsg'[l] /\ EndIsAwaited(link'[l], eventq', l)
    PROVE  HandInv'
<1>1. Alone(link)' /\ \A l \in Links : Clean(link'[l])
  BY DEF Orderly, Alone
<1>2. \A l, k \in Links : InHand(link'[l]) /\ InHand(link'[k]) => l = k
  BY <1>1 DEF Alone, Clean, Sent
<1>3. \A l \in Links : /\ ~(link'[l].queue /\ link'[l].inflight)
                       /\ link'[l].blocks => link'[l].log = "QUEUED"
                       /\ InHandIsQueued(link'[l])
  BY DEF Orderly, Clean, InHandIsQueued
<1> QED BY <1>1, <1>2, <1>3 DEF HandInv

\* A deletion takes the bundle off queues, and leaves the links in order.
LEMMA DeletionInOrder ==
    ASSUME NEW lk, NEW S, NEW q, Cancels(lk, S, q), Orderly(lk)
    PROVE  Orderly(link')
  BY DEF Cancels, Orderly, Alone, Clean, InHand, Sent

\* Routing leaves the links in order.
LEMMA MovesInOrder ==
    ASSUME NEW lk \in LinkStatesOf, NEW y \in LinkStatesOf, Orderly(lk), Alone(y),
           \A l \in Links : Moved(lk[l], y[l])
    PROVE  /\ Orderly(y)
           /\ \A l \in Links : /\ Sent(lk[l]) => Sent(y[l])
                               /\ Sent(lk[l]) /\ ~InHand(lk[l]) => ~InHand(y[l])
<1>1. \A l \in Links : lk[l] \in LinkRecord /\ y[l] \in LinkRecord
  BY DEF LinkStatesOf
<1>2. \A l \in Links : /\ Clean(y[l]) /\ ~(y[l].queue /\ y[l].inflight)
                       /\ Sent(lk[l]) => Sent(y[l])
                       /\ Sent(lk[l]) /\ ~InHand(lk[l]) => ~InHand(y[l])
  BY <1>1, MovedHand DEF Orderly
<1> QED BY <1>2 DEF Orderly

\* An event that waits for a cancellation's end still does after a step that
\* keeps those events and the log of the link.
LEMMA AwaitedKept ==
    ASSUME NEW q, NEW p, EndsKept(q, p), NEW r, NEW s, NEW l, EndIsAwaited(r, q, l),
           Sent(r) /\ ~InHand(r) => Sent(s) /\ ~InHand(s)
    PROVE  EndIsAwaited(s, p, l)
  BY DEF EndIsAwaited, EndsKept

\* HandInv is inductive, with the invariants above, when the console does not
\* cancel the bundle on a single link.
LEMMA HandStep ==
    ASSUME Singleton, "link_cancel" \notin Commands,
           TypeInv, LogInv, DeletedInv, HandInv, [Next]_vars
    PROVE  HandInv'
<1> DEFINE C == "BUNDLE_CANCELLED"
<1>1. link \in LinkStatesOf /\ eventq \in Queue /\ link' \in LinkStatesOf
  <2>1. TypeInv'
    BY TypeStep
  <2> QED BY <2>1 DEF TypeInv, TypeOK, EventsNameLinks, LinkStatesOf, Queue
<1>2. ~Has(eventq, "BUNDLE_CANCEL") /\ ~handle_bundle_cancel
  BY HandledEvent DEF HandInv, handle_bundle_cancel
<1>3. ~Has(eventq', "BUNDLE_CANCEL")
  <2>1. ASSUME NEW k \in Links PROVE ~UserCancel(k)
    BY DEF UserCancel, UserRequest, Happens
  <2>2. "BUNDLE_CANCEL" \notin QuietTypes
    BY DEF QuietTypes
  <2>3. Untouched("BUNDLE_CANCEL")
    BY <1>2, <2>1, <2>2, StepKinds, StepTouches
  <2> QED BY <1>2, <2>3 DEF Untouched
<1>4. CASE status = "deleted"
  <2>1. \A l \in Links : /\ InHand(link'[l]) => InHand(link[l])
                         /\ Sent(link'[l]) => Sent(link[l])
                         /\ ~(link'[l].queue /\ link'[l].inflight)
                         /\ link'[l].blocks => link'[l].log = "QUEUED"
    BY <1>4, HandOfDeleted
  <2>2. Alone(link)' /\ \A l, k \in Links : InHand(link'[l]) /\ InHand(link'[k]) => l = k
    BY <2>1 DEF HandInv, Alone
  <2>3. status' = "deleted"
    BY <1>4, DeletedStays
  <2> QED BY <1>3, <2>1, <2>2, <2>3 DEF HandInv
<1>5. CASE status # "deleted"
  <2>1. Orderly(link)
    BY <1>5, HandInOrder
  <2>2. \A l \in Links : ~cancelMsg[l] /\ EndIsAwaited(link[l], eventq, l)
    BY <1>5 DEF HandInv
  <2>3. ASSUME Orderly(link'), EndsKept(eventq, eventq'), UNCHANGED cancelMsg,
               \A l \in Links : Sent(link[l]) /\ ~InHand(link[l])
                                => Sent(link'[l]) /\ ~InHand(link'[l])
        PROVE  HandInv'
    <3>1. \A l \in Links : EndIsAwaited(link'[l], eventq', l)
      BY <2>2, <2>3, AwaitedKept
    <3> QED BY <1>3, <2>2, <2>3, <3>1, HandFrom
  <2>4. ASSUME NEW t, Handles(t), eventq' = Tail(eventq)
        PROVE  EndsKept(eventq, eventq')
    BY <1>1, <2>4, EndsKeptBy DEF Handles
  <2>5. CASE Quiet
    <3>1. UNCHANGED <<link, cancelMsg>>
      BY <2>5 DEF Quiet
    <3>2. EndsKept(eventq, eventq')
      BY <1>1, <2>5, EndsKeptBy DEF Quiet, QuietTypes
    <3> QED BY <2>1, <2>3, <3>1, <3>2
  <2>6. CASE handle_bundle_received
    <3>1. Handles("BUNDLE_RECEIVED") /\ eventq' = Tail(eventq) /\ UNCHANGED cancelMsg
      BY <2>6 DEF handle_bundle_received
    <3>2. link' = route_bundle(link) \/ link' = link
      BY <2>6 DEF handle_bundle_received
    <3>3. Alone(link) /\ (\A l \in Links : Moved(link[l], link'[l])) /\ Alone(link')
      BY <1>1, <2>1, <3>2, RouteBundleMoves, RouteBundleAlone, MovedReflexive
      DEF Orderly
    <3> QED BY <1>1, <2>1, <2>3, <2>4, <3>1, <3>3, MovesInOrder
  <2>7. CASE handle_bundle_transmitted
    <3>1. PICK lk \in LinkStatesOf :
              Recorded(lk) /\ try_to_delete(lk, custody, Tail(eventq))
      BY <2>7, TransmittedEffect
    <3>2. On \in Links /\ Tail(eventq) \in Queue /\ Handles("BUNDLE_TRANSMITTED")
      BY <2>7, TransmittedEffect DEF handle_bundle_transmitted
    <3>3. ASSUME NEW l \in Links
          PROVE  /\ Clean(lk[l]) /\ ~(lk[l].queue /\ lk[l].inflight)
                 /\ Sent(lk[l]) <=> Sent(link[l])
                 /\ Sent(link[l]) /\ ~InHand(link[l]) => ~InHand(lk[l])
      <4>1. CASE l # On \/ ~link[l].blocks
        BY <2>1, <3>1, <4>1 DEF Orderly, Recorded, SameBut, Clean, InHand, Sent
      <4>2. CASE l = On /\ link[l].blocks
        BY <2>1, <3>1, <4>2 DEF Orderly, Recorded, Clean, InHand, Sent
      <4> QED BY <4>1, <4>2
    <3>4. Orderly(lk)
      BY <2>1, <3>3 DEF Orderly, Alone
    <3>5. CASE Delete(lk, Tail(eventq))
      <4>1. Cancels(lk, Links, Tail(eventq)) /\ status' = "deleted"
        BY <3>2, <3>5, CancelsOfDelete
      <4> QED BY <1>3, <3>4, <4>1, DeletionInOrder, HandFrom
    <3>6. CASE link' = lk /\ eventq' = Tail(eventq) /\ UNCHANGED cancelMsg
      BY <2>3, <2>4, <3>2, <3>3, <3>4, <3>6
    <3> QED BY <3>1, <3>5, <3>6, TryToDeleteEither
  <2>8. CASE handle_bundle_cancelled
    <3> DEFINE y == IF link[On].blocks
                    THEN [link EXCEPT ![On].blocks = FALSE, ![On].log = "CANCELLED"]
                    ELSE link
    <3>1. Handles(C) /\ eventq' = Tail(eventq) /\ UNCHANGED <<status, cancelMsg>>
      BY <2>8 DEF handle_bundle_cancelled, bundleVars
    <3>2. On \in Links /\ InQ(eventq, C, On)
      BY <3>1, HandledEvent DEF LinkEventTypes, EventTypes
    <3>3. /\ y \in LinkStatesOf
          /\ \A l \in Links : l # On => y[l] = link[l]
          /\ \/ y[On] = link[On]
             \/ /\ y[On].log = "CANCELLED" /\ ~y[On].blocks
                /\ y[On].queue = link[On].queue /\ y[On].inflight = link[On].inflight
      BY <1>1, <3>2 DEF LinkStatesOf, LinkRecord, FwdStates
    <3>4. link' = IF expiration THEN route_bundle(y) ELSE y
      BY <2>8 DEF handle_bundle_cancelled
    <3> HIDE DEF y
    <3>5. ~InHand(link[On])
      BY <2>2, <3>2 DEF EndIsAwaited
    <3>6. Orderly(y)
      BY <2>1, <3>2, <3>3, <3>5 DEF Orderly, Alone, Clean, InHand, Sent
    <3>7. (\A l \in Links : Moved(y[l], link'[l])) /\ Alone(link')
      BY <3>3, <3>4, <3>6, RouteBundleMoves, RouteBundleAlone, MovedReflexive
      DEF Orderly
    <3>8. /\ Orderly(link')
          /\ \A l \in Links : /\ Sent(y[l]) => Sent(link'[l])
                              /\ Sent(y[l]) /\ ~InHand(y[l]) => ~InHand(link'[l])
      BY <1>1, <3>3, <3>6, <3>7, MovesInOrder
    <3>9. EndsKept(eventq, eventq')
      BY <2>4, <3>1
    <3>10. ~InQ(eventq', C, On)
      BY <2>2, <3>1, <3>2, HandledEvent DEF EndIsAwaited
    <3>11. ASSUME NEW l \in Links
           PROVE  EndIsAwaited(link'[l], eventq', l)
      <4>1. CASE l = On
        BY <2>2, <3>2, <3>9, <3>10, <4>1 DEF EndIsAwaited, EndsKept
      <4>2. CASE l # On
        <5>1. Sent(link[l]) /\ ~InHand(link[l]) => Sent(link'[l]) /\ ~InHand(link'[l])
          BY <3>3, <3>8, <4>2
        <5> QED BY <2>2, <3>9, <5>1, AwaitedKept
      <4> QED BY <4>1, <4>2
    <3> QED BY <1>3, <2>2, <3>1, <3>8, <3>11, HandFrom
  <2>9. CASE handle_bundle_expired
    <3>1. Delete(link, Tail(eventq)) /\ Tail(eventq) \in Queue
      BY <2>9, HandledEvent DEF handle_bundle_expired, delete_bundle
    <3>2. Cancels(link, Links, Tail(eventq)) /\ status' = "deleted"
      BY <1>1, <3>1, CancelsOfDelete
    <3> QED BY <1>3, <2>1, <3>2, DeletionInOrder, HandFrom
  <2>10. CASE handle_custody_signal
    <3>1. Handles("CUSTODY_SIGNAL") /\ Tail(eventq) \in Queue
      BY <2>10, HandledEvent DEF handle_custody_signal
    <3>2. CASE Delete(link, Tail(eventq))
      <4>1. Cancels(link, Links, Tail(eventq)) /\ status' = "deleted"
        BY <1>1, <3>1, <3>2, CancelsOfDelete
      <4> QED BY <1>3, <2>1, <4>1, DeletionInOrder, HandFrom
    <3>3. CASE link' = link /\ eventq' = Tail(eventq) /\ UNCHANGED cancelMsg
      BY <2>1, <2>3, <2>4, <3>1, <3>3
    <3>4. \/ try_to_delete(link, FALSE, Tail(eventq))
          \/ link' = link /\ eventq' = Tail(eventq) /\ UNCHANGED cancelMsg
      BY <2>10 DEF handle_custody_signal
    <3> QED BY <3>2, <3>3, <3>4, TryToDeleteEither
  <2>11. CASE handle_custody_timeout
    <3> DEFINE y == IF custodyTimer[On] = "fired" THEN TimedOut(On) ELSE link
    <3>1. Handles("CUSTODY_TIMEOUT") /\ eventq' = Tail(eventq)
          /\ UNCHANGED <<status, cancelMsg>>
      BY <2>11 DEF handle_custody_timeout
    <3>2. On \in Links /\ InQ(eventq, "CUSTODY_TIMEOUT", On)
      BY <3>1, HandledEvent DEF LinkEventTypes, EventTypes
    <3>3. ~InQ(eventq, C, On)
      BY <2>2, <3>1, <3>2, TimeoutComesLast DEF EndIsAwaited
    <3>4. /\ y \in LinkStatesOf
          /\ \A l \in Links : l # On => y[l] = link[l]
          /\ \/ y[On] = link[On]
             \/ /\ y[On].log = "CUSTODY_TIMEOUT" /\ y[On].blocks = link[On].blocks
                /\ y[On].queue = link[On].queue /\ y[On].inflight = link[On].inflight
      BY <1>1, <3>2 DEF TimedOut, LinkStatesOf, LinkRecord, FwdStates
    <3>5. link' = route_bundle(y)
      BY <2>11 DEF handle_custody_timeout
    <3> HIDE DEF y
    <3>6. link[On].log = "TRANSMITTED"
      BY <3>2 DEF DeletedInv, TimeoutsMeetTheirLog, Queued, InQ
    <3>7. Orderly(y)
      BY <2>1, <3>2, <3>4, <3>6 DEF Orderly, Alone, Clean, InHand, Sent
    <3>8. (\A l \in Links : Moved(y[l], link'[l])) /\ Alone(link')
      BY <3>4, <3>5, <3>7, RouteBundleMoves, RouteBundleAlone DEF Orderly
    <3>9. /\ Orderly(link')
          /\ \A l \in Links : /\ Sent(y[l]) => Sent(link'[l])
                              /\ Sent(y[l]) /\ ~InHand(y[l]) => ~InHand(link'[l])
      BY <1>1, <3>4, <3>7, <3>8, MovesInOrder
    <3>10. EndsKept(eventq, eventq')
      BY <2>4, <3>1
    <3>11. ASSUME NEW l \in Links
           PROVE  EndIsAwaited(link'[l], eventq', l)
      <4>1. CASE l = On
        BY <2>2, <3>2, <3>3, <3>10, <4>1 DEF EndIsAwaited, EndsKept
      <4>2. CASE l # On
        <5>1. Sent(link[l]) /\ ~InHand(link[l]) => Sent(link'[l]) /\ ~InHand(link'[l])
          BY <3>4, <3>9, <4>2
        <5> QED BY <2>2, <3>10, <5>1, AwaitedKept
      <4> QED BY <4>1, <4>2
    <3> QED BY <1>3, <2>2, <3>1, <3>9, <3>11, HandFrom
  <2>12. CASE RequestOpen \/ handle_contact_up
    <3>1. PICK t \in {"OPEN", "CONTACT_UP"}, s \in {"OPENING", "OPEN"} :
              /\ Handles(t) /\ eventq' = Tail(eventq) /\ UNCHANGED cancelMsg
              /\ \/ link' = [link EXCEPT ![On].state = s]
                 \/ link' = check_next_hop([link EXCEPT ![On].state = s], On)
      BY <2>12 DEF RequestOpen, handle_contact_up, clVars
    <3> DEFINE y == [link EXCEPT ![On].state = s]
    <3>2. On \in Links
      BY <3>1, HandledEvent DEF LinkEventTypes, EventTypes
    <3>3. /\ y \in LinkStatesOf
          /\ \A l \in Links :
                /\ y[l].log = link[l].log /\ y[l].blocks = link[l].blocks
                /\ y[l].queue = link[l].queue /\ y[l].inflight = link[l].inflight
      BY <1>1, <3>2 DEF LinkStatesOf, LinkRecord, LinkStates
    <3>4. link' = y \/ link' = check_next_hop(y, On)
      BY <3>1
    <3> HIDE DEF y
    <3>5. Orderly(y)
      BY <2>1, <3>3 DEF Orderly, Alone, Clean, InHand, Sent
    <3>6. (\A l \in Links : Moved(y[l], link'[l])) /\ Alone(link')
      BY <3>2, <3>3, <3>4, <3>5, CheckNextHopMoves, PullDeferredAlone,
         MovedReflexive DEF Orderly, OneMoves
    <3>7. /\ Orderly(link')
          /\ \A l \in Links : /\ Sent(y[l]) => Sent(link'[l])
                              /\ Sent(y[l]) /\ ~InHand(y[l]) => ~InHand(link'[l])
      BY <1>1, <3>3, <3>5, <3>6, MovesInOrder
    <3>8. \A l \in Links : Sent(link[l]) /\ ~InHand(link[l])
                           => Sent(link'[l]) /\ ~InHand(link'[l])
      BY <3>3, <3>7 DEF Sent, InHand
    <3> QED BY <2>3, <2>4, <3>1, <3>7, <3>8
  <2>13. CASE CloseCompleted
    <3> DEFINE k == closing.link
    <3>1. /\ k \in Links
          /\ link' = [link EXCEPT ![k] =
                 [IF PutBack(k) THEN BackOnQueue(link[k]) ELSE link[k]
                     EXCEPT !.state = StateOnceClosed(closing.reason)]]
          /\ eventq' = PostIfInPart(eventq, k)
          /\ cancelMsg' = [cancelMsg EXCEPT ![k] = FALSE]
      BY <2>13 DEF CloseCompleted, TypeInv, EventsNameLinks
    <3> HIDE DEF k
    <3>2. \A l \in Links : /\ link'[l].log = link[l].log
                           /\ link'[l].blocks = link[l].blocks
                           /\ InHand(link'[l]) => InHand(link[l])
                           /\ ~(link'[l].queue /\ link'[l].inflight)
      BY <1>1, <2>1, <3>1 DEF BackOnQueue, LinkStatesOf, LinkRecord, InHand, Orderly
    <3>3. Orderly(link')
      BY <2>1, <3>2 DEF Orderly, Alone, Clean, Sent
    <3>4. EndsKept(eventq, eventq')
      <4>1. /\ LinkEvent("BUNDLE_TRANSMITTED", k) \in LinkedEvent
            /\ LinkEvent("BUNDLE_TRANSMITTED", k).type = "BUNDLE_TRANSMITTED"
        BY <3>1, EventsLinked DEF EventTypes, LinkEvent
      <4>2. \/ eventq' = eventq
            \/ eventq' = Append(eventq, LinkEvent("BUNDLE_TRANSMITTED", k))
        BY <3>1 DEF PostIfInPart, post
      <4> QED BY <1>1, <4>1, <4>2, EndsKeptBy
    <3>5. \A l \in Links : EndIsAwaited(link'[l], eventq', l)
      BY <2>2, <3>2, <3>4, AwaitedKept DEF Sent
    <3>6. \A l \in Links : ~cancelMsg'[l]
      BY <2>2, <3>1 DEF TypeInv, TypeOK
    <3> QED BY <1>3, <3>3, <3>5, <3>6, HandFrom
  <2>14. CASE ExpirationTimeout
    <3>1. /\ LinkEvent("BUNDLE_EXPIRED", NoLink) \in LinkedEvent
          /\ LinkEvent("BUNDLE_EXPIRED", NoLink).type = "BUNDLE_EXPIRED"
      BY EventsLinked DEF EventTypes, LinkEventTypes, LinkEvent
    <3>2. /\ eventq' = <<LinkEvent("BUNDLE_EXPIRED", NoLink)>> \o eventq
          /\ UNCHANGED <<link, cancelMsg>>
      BY <2>14 DEF ExpirationTimeout, post_at_head, clVars
    <3>3. EndsKept(eventq, eventq')
      BY <1>1, <3>1, <3>2, EndsKeptBy
    <3> QED BY <2>1, <2>3, <3>2, <3>3
  <2>15. ASSUME NEW k \in Links, start_next_bundle(k)
         PROVE  HandInv'
    <3>1. /\ link[k].queue /\ UNCHANGED <<cancelMsg, eventq>>
          /\ link' = [link EXCEPT ![k].inflight = TRUE, ![k].queue = FALSE]
      BY <2>15 DEF start_next_bundle
    <3>2. \A l \in Links : /\ link'[l].log = link[l].log
                           /\ link'[l].blocks = link[l].blocks
                           /\ InHand(link'[l]) => InHand(link[l])
                           /\ ~(link'[l].queue /\ link'[l].inflight)
      BY <1>1, <2>1, <3>1 DEF LinkStatesOf, LinkRecord, InHand, Orderly
    <3>3. Orderly(link')
      BY <2>1, <3>2 DEF Orderly, Alone, Clean, Sent
    <3>4. EndsKept(eventq, eventq')
      BY <1>1, <3>1, EndsKeptBy
    <3> QED BY <2>3, <3>1, <3>2, <3>3, <3>4 DEF Sent
  <2>16. ASSUME NEW k \in Links, handle_ack_segment(k) \/ CustodyTimeout(k)
         PROVE  HandInv'
    <3>1. PICK t \in {"BUNDLE_TRANSMITTED", "CUSTODY_TIMEOUT"} :
              eventq' = Append(eventq, LinkEvent(t, k))
      BY <2>16 DEF handle_ack_segment, CustodyTimeout, post
    <3>2. LinkEvent(t, k) \in LinkedEvent /\ LinkEvent(t, k).type = t
      BY EventsLinked DEF EventTypes, LinkEvent
    <3>3. UNCHANGED <<link, cancelMsg>>
      BY <2>16 DEF handle_ack_segment, CLMoves, CustodyTimeout, clVars
    <3>4. EndsKept(eventq, eventq')
      BY <1>1, <3>1, <3>2, EndsKeptBy
    <3> QED BY <2>1, <2>3, <3>3, <3>4
  <2>17. ASSUME NEW k \in Links, reroute_bundles(k)
         PROVE  HandInv'
    <3>1. UNCHANGED cancelMsg
      BY <2>17 DEF reroute_bundles, clVars
    <3>2. CASE UNCHANGED <<link, eventq>>
      BY <1>1, <2>1, <2>3, <3>1, <3>2, EndsKeptBy
    <3>3. CASE /\ link[k].queue /\ link' = Cancelled(link, {k})
               /\ eventq' = eventq \o CancelEvents(link, {k})
      <4>1. Cancels(link, {k}, eventq)
        BY <1>1, <3>3, CancelsOf
      <4>2. Orderly(link')
        BY <2>1, <4>1, DeletionInOrder
      <4>3. link[k].log = "QUEUED" /\ link[k].blocks /\ InHand(link[k])
        BY <2>1, <3>3, LogParts DEF Orderly, Clean, InHand, LogOK
      <4>4. ~InQ(eventq, C, k) /\ ~InQ(eventq, "CUSTODY_TIMEOUT", k)
        BY <2>2, <4>3 DEF EndIsAwaited, DeletedInv, TimeoutsMeetTheirLog, Queued, InQ
      <4>5. ASSUME NEW l \in Links
            PROVE  EndsBeforeTimeout(eventq', l)
        <5> DEFINE c == CancelEvents(link, {k})
        <5>1. /\ c \in Queue
              /\ \A t : Has(c, t) => t = C
              /\ \A t, m : InQ(c, t, m) => m = k
          BY <1>1, CancelQueue
        <5>2. EndsBeforeTimeout(c, l)
          BY <5>1 DEF EndsBeforeTimeout, Has
        <5>3. EndsBeforeTimeout(eventq, l)
          BY <2>2 DEF EndIsAwaited
        <5>4. ~(InQ(eventq, "CUSTODY_TIMEOUT", l) /\ InQ(c, C, l))
          BY <4>4, <5>1
        <5> HIDE DEF c
        <5>5. EndsBeforeTimeout(eventq \o c, l)
          BY <1>1, <5>1, <5>2, <5>3, <5>4, JoinedOrder
        <5> QED BY <3>3, <5>5 DEF c
      <4>6. ASSUME NEW l \in Links
            PROVE  EndIsAwaited(link'[l], eventq', l)
        <5>1. /\ link'[l].log = link[l].log
              /\ link'[l].inflight = link[l].inflight
              /\ link'[l].queue <=> link[l].queue /\ ~(l \in {k} /\ link[l].blocks)
              /\ InQ(eventq', C, l) => InQ(eventq, C, l) \/ l = k
              /\ Once(eventq, C, l) /\ ~(l = k /\ InQ(eventq, C, l))
                    => Once(eventq', C, l)
          BY <4>1 DEF Cancels
        <5>2. CASE l = k
          <6>1. ~InHand(link'[l]) /\ Sent(link'[l])
            BY <2>1, <3>3, <4>3, <5>1, <5>2 DEF InHand, Sent, Orderly
          <6> QED BY <2>2, <4>4, <4>5, <5>1, <5>2, <6>1 DEF EndIsAwaited
        <5>3. CASE l # k
          BY <2>2, <4>5, <5>1, <5>3 DEF EndIsAwaited, InHand, Sent
        <5> QED BY <5>2, <5>3
      <4> QED BY <1>3, <2>2, <3>1, <4>2, <4>6, HandFrom
    <3> QED BY <2>17, <3>2, <3>3 DEF reroute_bundles
  <2>18. ASSUME NEW k \in Links, OtherTransmitted(k)
         PROVE  HandInv'
    <3>1. /\ link' = pull_deferred(link, k) \/ link' = link
          /\ UNCHANGED <<cancelMsg, eventq>>
      BY <2>18 DEF OtherTransmitted, clVars
    <3>2. (\A l \in Links : Moved(link[l], link'[l])) /\ Alone(link')
      BY <1>1, <2>1, <3>1, PullDeferredMoves, PullDeferredAlone, MovedReflexive
      DEF OneMoves, Orderly
    <3>3. EndsKept(eventq, eventq')
      BY <1>1, <3>1, EndsKeptBy
    <3> QED BY <1>1, <2>1, <2>3, <3>1, <3>2, <3>3, MovesInOrder
  <2>19. ASSUME NEW k \in Links, handle_cancel_bundle(k) \/ UserCancel(k)
         PROVE  FALSE
    BY <2>2, <2>19 DEF handle_cancel_bundle, UserCancel, UserRequest, Happens
  <2> QED BY StepKinds, <1>2, <2>5, <2>6, <2>7, <2>8, <2>9, <2>10, <2>11, <2>12,
             <2>13, <2>14, <2>15, <2>16, <2>17, <2>18, <2>19
<1> QED BY <1>4, <1>5

\* No link has a bundle that has just been received.
LEMMA HandInit == Init => HandInv
<1> SUFFICES ASSUME Init PROVE HandInv
  OBVIOUS
<1> DEFINE e == LinkEvent("BUNDLE_RECEIVED", NoLink)
<1>1. eventq = <<e>> /\ e.type = "BUNDLE_RECEIVED" /\ DOMAIN <<e>> = {1} /\ <<e>>[1] = e
  BY DEF Init, LinkEvent
<1>2. \A l \in Links : /\ link[l].log = "NONE" /\ ~link[l].blocks
                       /\ ~InHand(link[l]) /\ ~cancelMsg[l]
  BY DEF Init, InHand
<1> HIDE DEF e
<1>3. ~Has(eventq, "BUNDLE_CANCEL")
  BY <1>1 DEF Has
<1>4. \A l \in Links : EndIsAwaited(link[l], eventq, l)
  BY <1>1 DEF EndIsAwaited, InQ, Once, EndsBeforeTimeout
<1>5. Alone(link) /\ \A l \in Links : InHandIsQueued(link[l])
  BY <1>2 DEF Alone, Sent, InHandIsQueued
<1> QED BY <1>2, <1>3, <1>4, <1>5 DEF HandInv, InHand

\* A bundle for a singleton endpoint is in the hands of one link at a time,
\* whatever faults, timeouts, signals, deletions and expirations happen in
\* whatever order, as long as the console does not cancel it on a link.
THEOREM OneLinkAtATimeAlways ==
    "link_cancel" \notin Commands => (Spec => []OneLinkAtATime)
<1> SUFFICES ASSUME "link_cancel" \notin Commands PROVE Spec => []OneLinkAtATime
  OBVIOUS
<1>1. CASE ~Singleton
  <2>1. OneLinkAtATime
    BY <1>1 DEF OneLinkAtATime
  <2> QED BY <2>1, PTL
<1>2. CASE Singleton
  <2> DEFINE I == TypeInv /\ LogInv /\ DeletedInv /\ HandInv
  <2>1. Init => I
    BY TypeInit, LogInit, DeletedInit, HandInit
  <2>2. I /\ [Next]_vars => I'
    BY <1>2, TypeStep, LogStep, DeletedStep, HandStep
  <2>3. I => OneLinkAtATime
    BY DEF HandInv, InHand, OneLinkAtATime
  <2> HIDE DEF I
  <2> QED BY <2>1, <2>2, <2>3, PTL DEF Spec
<1> QED BY <1>1, <1>2

(***************************************************************************)
(* One end for each transmission.                                          *)
(***************************************************************************)
EndTypes == {"BUNDLE_TRANSMITTED", "BUNDLE_CANCELLED"}

\* Queue p has the same ends of transmissions as q.
SameEnds(q, p, l) == \A t \in EndTypes : /\ InQ(p, t, l) <=> InQ(q, t, l)
                                         /\ Once(q, t, l) => Once(p, t, l)

\* EndsOnce looks at nothing else.
LEMMA EndsOnceKept ==
    ASSUME NEW r, NEW s, NEW u, NEW v, NEW q, NEW p, NEW l, EndsOnce(r, u, q, l),
           s.log = r.log, s.queue <=> r.queue, s.inflight <=> r.inflight, u <=> v,
           SameEnds(q, p, l)
    PROVE  EndsOnce(s, v, p, l)
  BY DEF EndsOnce, SameEnds, EndTypes, InHandIsQueued, InHand

\* Routing queues the bundle only where no end of it is awaited.
LEMMA EndsOnceMoved ==
    ASSUME NEW r \in LinkRecord, NEW s \in LinkRecord, Moved(r, s), Clean(r),
           NEW u, NEW q, NEW l, EndsOnce(r, u, q, l)
    PROVE  /\ EndsOnce(s, u, q, l)
           /\ s.log = "TRANSMITTED" => r.log = "TRANSMITTED"
  BY DEF Moved, Clean, EndsOnce, InHandIsQueued, InHand, Sent, LinkRecord

\* When the bundle counts as transmitted, no link has anything of it that a
\* deletion would have to cancel.
LEMMA NothingToCancel ==
    ASSUME NEW lk, Alone(lk), \A l \in Links : Clean(lk[l]) /\ LogOK(lk[l]),
           NEW k \in Links, lk[k].log = "TRANSMITTED", NEW l \in Links
    PROVE  ~lk[l].blocks /\ ~InHand(lk[l]) /\ ~EndsHere(lk, l) /\ ~LeftToCL(lk, l)
<1>1. lk[l].log # "QUEUED"
  BY DEF Alone, Sent
<1> QED BY <1>1 DEF Clean, InHand, EndsHere, LeftToCL, InQueue, InFlight

\* Deleting a bundle that counts as transmitted leaves the ends alone.
LEMMA DeletedAfterTransmission ==
    ASSUME TypeInv, NEW lk \in LinkStatesOf, NEW q \in Queue, Delete(lk, q),
           Alone(lk), \A l \in Links : Clean(lk[l]) /\ LogOK(lk[l]),
           \E k \in Links : lk[k].log = "TRANSMITTED"
    PROVE  \A l \in Links : /\ link'[l].log = lk[l].log
                            /\ link'[l].queue <=> lk[l].queue
                            /\ link'[l].inflight <=> lk[l].inflight
                            /\ cancelMsg'[l] <=> cancelMsg[l]
                            /\ SameEnds(q, eventq', l)
<1>1. /\ Cancels(lk, Links, q)
      /\ \A l \in Links : cancelMsg'[l] <=> cancelMsg[l] \/ LeftToCL(lk, l)
  BY CancelsOfDelete
<1>2. \A l \in Links : ~lk[l].blocks /\ ~EndsHere(lk, l) /\ ~LeftToCL(lk, l)
  BY NothingToCancel
<1> QED BY <1>1, <1>2 DEF Cancels, SameEnds

\* The parts of NoOtherEnd for one link.
EndAt(l) == /\ ~cancelMsg[l]
            /\ EndsOnce(link[l], InUse(l), eventq, l)
            /\ custody /\ link[l].log = "TRANSMITTED" => custodyTimer[l] # "none"

\* The bundle is not cancelled or deleted on request and does not expire.
NoRequestedEnd == Commands \cap {"link_cancel", "delete", "expire"} = {}

\* NoOtherEnd is inductive with the invariants above.
LEMMA NoOtherEndStep ==
    ASSUME Singleton, ReactiveFrag, NoRequestedEnd, Links # {},
           TypeInv, LogInv, DeletedInv, HandInv, NoOtherEnd, [Next]_vars
    PROVE  NoOtherEnd'
<1> DEFINE T == "BUNDLE_TRANSMITTED"
           C == "BUNDLE_CANCELLED"
           Kept == \A l \in Links : SameEnds(eventq, eventq', l)
           Going == status' = "pending" =>
                       expiration' /\ \E l \in Links : Settled(link'[l])
<1>1. /\ link \in LinkStatesOf /\ eventq \in Queue /\ link' \in LinkStatesOf
      /\ \A l \in Links : link[l] \in LinkRecord /\ link'[l] \in LinkRecord
  <2>1. TypeInv'
    BY TypeStep
  <2> QED BY <2>1 DEF TypeInv, TypeOK, EventsNameLinks, LinkStatesOf, Queue
<1>2. /\ \A l \in Links : /\ ~cancelMsg[l]
                          /\ EndsOnce(link[l], InUse(l), eventq, l)
                          /\ custody /\ link[l].log = "TRANSMITTED"
                                => custodyTimer[l] # "none"
      /\ status = "pending" => expiration /\ \E l \in Links : Settled(link[l])
  BY DEF NoOtherEnd
<1>3. /\ Alone(link)
      /\ \A l \in Links : /\ Clean(link[l]) /\ LogOK(link[l])
                          /\ ~(link[l].queue /\ link[l].inflight)
  BY <1>2, LogParts DEF HandInv, Clean, EndsOnce, InHandIsQueued
<1>4. /\ ~handle_bundle_expired /\ ~handle_bundle_cancel /\ ~ExpirationTimeout
      /\ \A l \in Links : ~handle_cancel_bundle(l) /\ ~UserCancel(l)
  <2>1. ~handle_bundle_expired /\ ~handle_bundle_cancel
    BY HandledEvent DEF HandInv, NoOtherEnd, handle_bundle_expired, handle_bundle_cancel
  <2> QED BY <1>2, <2>1 DEF ExpirationTimeout, handle_cancel_bundle, UserCancel,
                            UserRequest, Happens, NoRequestedEnd
<1>5. ~Has(eventq', "BUNDLE_DELETE") /\ ~Has(eventq', "BUNDLE_EXPIRED")
  <2>1. ~Has(eventq, "BUNDLE_DELETE") /\ ~Has(eventq, "BUNDLE_EXPIRED")
    BY DEF NoOtherEnd
  <2>2. CASE Quiet
    <3>1. "delete" \notin Commands
      BY DEF NoRequestedEnd
    <3>2. Untouched("BUNDLE_EXPIRED")
      BY <2>2, StepTouches DEF QuietTypes
    <3>3. ASSUME NEW e \in LinkedEvent, eventq' = Append(eventq, e),
                 e.type # "BUNDLE_DELETE"
          PROVE  ~Has(eventq', "BUNDLE_DELETE")
      BY <1>1, <2>1, <3>3, PostedQueue
    <3>4. ASSUME eventq # <<>>, eventq' = Tail(eventq)
          PROVE  ~Has(eventq', "BUNDLE_DELETE")
      BY <1>1, <2>1, <3>4, PoppedQueue
    <3>5. ASSUME UNCHANGED eventq
          PROVE  ~Has(eventq', "BUNDLE_DELETE")
      BY <2>1, <3>5
    <3>6. \/ UNCHANGED eventq
          \/ \E e \in LinkedEvent : eventq' = Append(eventq, e)
                                    /\ e.type # "BUNDLE_DELETE"
          \/ eventq # <<>> /\ eventq' = Tail(eventq)
      BY <2>2, <3>1 DEF Quiet
    <3>7. ~Has(eventq', "BUNDLE_DELETE")
      BY <3>3, <3>4, <3>5, <3>6
    <3> QED BY <2>1, <3>2, <3>7 DEF Untouched
  <2>3. ~Quiet => Untouched("BUNDLE_DELETE") /\ Untouched("BUNDLE_EXPIRED")
    BY <1>4, StepKinds, StepTouches
  <2> QED BY <2>1, <2>2, <2>3 DEF Untouched
<1>6. ASSUME Going, \A l \in Links : EndAt(l)'
      PROVE  NoOtherEnd'
  BY <1>5, <1>6 DEF NoOtherEnd, EndAt
<1>7. Untouched(T) /\ Untouched(C) => Kept
  BY DEF Untouched, SameEnds, EndTypes
<1> HIDE DEF Kept, Going
\* Routing, from links y, with the ends of the transmissions as they are.
<1>8. ASSUME NEW y \in LinkStatesOf, \A l \in Links : Moved(y[l], link'[l]),
             UNCHANGED <<cl, cancelMsg>>, Going,
             \A l \in Links : /\ Clean(y[l])
                              /\ EndsOnce(y[l], InUse(l), eventq', l)
                              /\ custody' /\ y[l].log = "TRANSMITTED"
                                    => custodyTimer'[l] # "none"
      PROVE  NoOtherEnd'
  <2>1. ASSUME NEW l \in Links PROVE EndAt(l)'
    <3>1. y[l] \in LinkRecord /\ link'[l] \in LinkRecord
      BY <1>1 DEF LinkStatesOf
    <3>2. /\ EndsOnce(link'[l], InUse(l), eventq', l)
          /\ link'[l].log = "TRANSMITTED" => y[l].log = "TRANSMITTED"
      BY <1>8, <3>1, EndsOnceMoved
    <3>3. InUse(l)' <=> InUse(l)
      BY <1>8 DEF InUse
    <3>4. ~cancelMsg'[l]
      BY <1>2, <1>8
    <3>5. EndsOnce(link'[l], InUse(l)', eventq', l)
      BY <3>2, <3>3 DEF EndsOnce
    <3> QED BY <1>8, <3>2, <3>4, <3>5 DEF EndAt
  <2> QED BY <1>6, <1>8, <2>1
<1>9. CASE Quiet
  <2>1. Kept /\ Going
    BY <1>2, <1>7, <1>9, StepTouches DEF Quiet, QuietTypes, Going
  <2>2. ASSUME NEW l \in Links PROVE EndAt(l)'
    <3>1. InUse(l) <=> InUse(l)'
      BY <1>9 DEF Quiet, InUse
    <3>2. UNCHANGED <<link, cancelMsg, custody, custodyTimer>>
      BY <1>9 DEF Quiet
    <3>3. EndsOnce(link'[l], InUse(l)', eventq', l)
      BY <1>2, <2>1, <3>1, <3>2, EndsOnceKept DEF Kept
    <3> QED BY <1>2, <3>2, <3>3 DEF EndAt
  <2> QED BY <1>6, <2>1, <2>2
<1>10. CASE handle_bundle_received
  <2>1. Handles("BUNDLE_RECEIVED") /\ UNCHANGED <<cl, cancelMsg, custodyTimer>>
        /\ link' = route_bundle(link) /\ expiration'
    BY <1>10 DEF handle_bundle_received, NoRequestedEnd
  <2>2. \A l \in Links : link[l].log = "NONE"
    BY <2>1, HandledEvent DEF LogInv, ReceivedFirst
  <2>3. Kept
    BY <1>7, <1>10, StepTouches
  <2>4. \A l \in Links : EndsOnce(link[l], InUse(l), eventq', l)
    BY <1>2, <2>3, EndsOnceKept DEF Kept
  <2>5. Going
    BY <1>1, <1>3, <2>1, RouteBundleSettles DEF Going
  <2>6. \A l \in Links : Moved(link[l], link'[l])
    BY <1>1, <2>1, RouteBundleMoves
  <2> QED BY <1>1, <1>3, <1>8, <2>1, <2>2, <2>4, <2>5, <2>6
<1>11. CASE handle_bundle_transmitted
  <2>1. PICK lk \in LinkStatesOf :
            Recorded(lk) /\ try_to_delete(lk, custody, Tail(eventq))
    BY <1>11, TransmittedEffect
  <2>2. /\ On \in Links /\ Tail(eventq) \in Queue /\ Handles(T)
        /\ UNCHANGED <<custody, cl>>
    BY <1>11, TransmittedEffect DEF handle_bundle_transmitted
  <2>3. InQ(eventq, T, On)
    BY <2>2, HandledEvent
  <2>4. /\ link[On].log = "QUEUED" /\ link[On].blocks
        /\ ~InUse(On) /\ ~InQ(eventq, C, On) /\ Once(eventq, T, On)
    BY <1>2, <1>3, <2>2, <2>3 DEF EndsOnce, LogOK
  <2>5. /\ lk[On].log = "TRANSMITTED" /\ ~lk[On].blocks /\ ~InHand(lk[On])
        /\ \A l \in Links : l # On => SameBut(link[l], lk[l])
    BY <2>1, <2>4 DEF Recorded
  <2>6. Alone(lk) /\ \A l \in Links : Clean(lk[l]) /\ LogOK(lk[l])
    BY <1>3, <2>2, <2>4, <2>5 DEF Alone, SameBut, Clean, LogOK, InHand, Sent
  <2>7. \A l \in Links : EndsOnce(lk[l], InUse(l), Tail(eventq), l)
    <3>1. /\ \A t, l : InQ(Tail(eventq), t, l) => InQ(eventq, t, l)
          /\ \A t, l : InQ(eventq, t, l) =>
                          InQ(Tail(eventq), t, l) \/ (t = T /\ l = On)
          /\ \A t, l : Once(eventq, t, l) => Once(Tail(eventq), t, l)
          /\ ~InQ(Tail(eventq), T, On)
      BY <2>2, <2>4, HandledEvent
    <3>2. EndsOnce(lk[On], InUse(On), Tail(eventq), On)
      BY <1>2, <2>2, <2>4, <2>5, <3>1 DEF EndsOnce, InHandIsQueued, InHand
    <3>3. ASSUME NEW l \in Links, l # On
          PROVE  EndsOnce(lk[l], InUse(l), Tail(eventq), l)
      <4>1. SameEnds(eventq, Tail(eventq), l)
        BY <3>1, <3>3 DEF SameEnds
      <4> QED BY <1>2, <2>5, <3>3, <4>1, EndsOnceKept DEF SameBut
    <3> QED BY <3>2, <3>3
  <2>8. \A l \in Links : custody /\ lk[l].log = "TRANSMITTED"
                         => custodyTimer'[l] # "none"
    BY <1>2, <1>11, <2>2, <2>4, <2>5
    DEF handle_bundle_transmitted, SameBut, TypeInv, TypeOK
  <2>9. /\ \A l \in Links : /\ link'[l].log = lk[l].log
                            /\ link'[l].queue <=> lk[l].queue
                            /\ link'[l].inflight <=> lk[l].inflight
                            /\ cancelMsg'[l] <=> cancelMsg[l]
                            /\ SameEnds(Tail(eventq), eventq', l)
        /\ \/ status' = "deleted"
           \/ UNCHANGED <<status, expiration>>
    <3>1. CASE Delete(lk, Tail(eventq))
      <4>1. status' = "deleted"
        BY <3>1 DEF Delete
      <4> QED BY <2>2, <2>5, <2>6, <3>1, <4>1, DeletedAfterTransmission
    <3>2. CASE link' = lk /\ eventq' = Tail(eventq)
               /\ UNCHANGED <<status, expiration, cancelMsg>>
      BY <3>2 DEF SameEnds
    <3> QED BY <2>1, <3>1, <3>2, TryToDeleteEither
  <2>10. Going
    BY <1>2, <2>2, <2>5, <2>9 DEF Going, Settled, Sent
  <2>11. ASSUME NEW l \in Links PROVE EndAt(l)'
    <3>1. InUse(l) <=> InUse(l)'
      BY <2>2 DEF InUse
    <3>2. EndsOnce(link'[l], InUse(l)', eventq', l)
      BY <2>7, <2>9, <3>1, EndsOnceKept
    <3> QED BY <1>2, <2>2, <2>8, <2>9, <3>2 DEF EndAt
  <2> QED BY <1>6, <2>10, <2>11
<1>12. CASE handle_bundle_cancelled
  <2> DEFINE y == [link EXCEPT ![On].blocks = FALSE, ![On].log = "CANCELLED"]
  <2>1. Handles(C) /\ eventq' = Tail(eventq)
        /\ UNCHANGED <<status, expiration, custody, custodyTimer, cl, cancelMsg>>
    BY <1>12 DEF handle_bundle_cancelled, bundleVars
  <2>2. On \in Links /\ InQ(eventq, C, On) /\ ~Has(eventq, "BUNDLE_RECEIVED")
        /\ (status = "pending" \/ status = "deleted")
    BY <2>1, HandledEvent DEF LinkEventTypes, EventTypes, LogInv, ReceivedFirst,
                              TypeInv, TypeOK
  <2>3. /\ link[On].log = "QUEUED" /\ link[On].blocks /\ ~InHand(link[On])
        /\ ~InUse(On) /\ ~InQ(eventq, T, On) /\ Once(eventq, C, On)
        /\ Once(eventq, T, On)
    BY <1>2, <1>3, <2>2 DEF EndsOnce, LogOK, InHand
  <2>4. /\ y \in LinkStatesOf
        /\ \A l \in Links : l # On => y[l] = link[l]
        /\ y[On].log = "CANCELLED" /\ ~y[On].blocks /\ ~InHand(y[On])
    BY <1>1, <2>2, <2>3 DEF LinkStatesOf, LinkRecord, FwdStates, InHand
  <2>5. link' = IF expiration THEN route_bundle(y) ELSE y
    BY <1>12, <2>3 DEF handle_bundle_cancelled
  <2> HIDE DEF y
  <2>6. \A l \in Links : Clean(y[l])
    BY <1>3, <2>4 DEF Clean
  <2>7. \A l \in Links : Moved(y[l], link'[l])
    BY <2>4, <2>5, RouteBundleMoves, MovedReflexive
  <2>8. \A l \in Links : EndsOnce(y[l], InUse(l), eventq', l)
    <3>1. /\ \A t, l : InQ(eventq', t, l) => InQ(eventq, t, l)
          /\ \A t, l : InQ(eventq, t, l) =>
                          InQ(eventq', t, l) \/ (t = C /\ l = On)
          /\ \A t, l : Once(eventq, t, l) => Once(eventq', t, l)
          /\ ~InQ(eventq', C, On)
      BY <2>1, <2>3, HandledEvent
    <3>2. EndsOnce(y[On], InUse(On), eventq', On)
      BY <2>3, <2>4, <3>1 DEF EndsOnce, InHandIsQueued, InHand
    <3>3. ASSUME NEW l \in Links, l # On
          PROVE  EndsOnce(y[l], InUse(l), eventq', l)
      <4>1. SameEnds(eventq, eventq', l)
        BY <3>1, <3>3 DEF SameEnds
      <4> QED BY <1>2, <2>4, <3>3, <4>1, EndsOnceKept
    <3> QED BY <3>2, <3>3
  <2>9. Going
    BY <1>2, <2>1, <2>4, <2>5, <2>6, RouteBundleSettles DEF Going
  <2>10. \A l \in Links : custody' /\ y[l].log = "TRANSMITTED"
                          => custodyTimer'[l] # "none"
    BY <1>2, <2>1, <2>4
  <2> QED BY <1>8, <2>1, <2>4, <2>6, <2>7, <2>8, <2>9, <2>10
<1>13. CASE handle_custody_signal
  <2>1. Handles("CUSTODY_SIGNAL") /\ Tail(eventq) \in Queue /\ UNCHANGED cl
    BY <1>13, HandledEvent DEF handle_custody_signal
  <2>2. \A l \in Links : SameEnds(eventq, Tail(eventq), l)
    BY <2>1, HandledEvent DEF SameEnds, EndTypes
  <2>3. \/ ~custody' /\ try_to_delete(link, FALSE, Tail(eventq))
        \/ /\ eventq' = Tail(eventq)
           /\ UNCHANGED <<status, expiration, custody, custodyTimer, link, cancelMsg>>
    BY <1>13 DEF handle_custody_signal, release_custody, bundleVars
  <2>4. /\ \A l \in Links : /\ link'[l].log = link[l].log
                            /\ link'[l].queue <=> link[l].queue
                            /\ link'[l].inflight <=> link[l].inflight
                            /\ cancelMsg'[l] <=> cancelMsg[l]
                            /\ SameEnds(Tail(eventq), eventq', l)
        /\ \/ status' = "deleted"
           \/ UNCHANGED <<status, expiration, link>>
        /\ ~custody' \/ UNCHANGED <<custody, custodyTimer>>
    <3>1. CASE Delete(link, Tail(eventq)) /\ ~custody'
               /\ \E l \in Links : link[l].log = "TRANSMITTED"
      <4>1. status' = "deleted"
        BY <3>1 DEF Delete
      <4> QED BY <1>1, <1>3, <2>1, <3>1, <4>1, DeletedAfterTransmission
    <3>2. CASE link' = link /\ eventq' = Tail(eventq)
               /\ UNCHANGED <<status, expiration, cancelMsg>>
               /\ (~custody' \/ UNCHANGED <<custody, custodyTimer>>)
      BY <3>2 DEF SameEnds
    <3> QED BY <2>3, <3>1, <3>2, TryToDeleteEither
  <2>5. Going
    BY <1>2, <2>4 DEF Going
  <2>6. ASSUME NEW l \in Links PROVE EndAt(l)'
    <3>1. InUse(l) <=> InUse(l)'
      BY <2>1 DEF InUse
    <3>2. SameEnds(eventq, eventq', l)
      BY <2>2, <2>4 DEF SameEnds
    <3>3. EndsOnce(link'[l], InUse(l)', eventq', l)
      BY <1>2, <2>4, <3>1, <3>2, EndsOnceKept
    <3> QED BY <1>2, <2>4, <3>3 DEF EndAt
  <2> QED BY <1>6, <2>5, <2>6
<1>14. CASE handle_custody_timeout
  <2> DEFINE y == IF custodyTimer[On] = "fired" THEN TimedOut(On) ELSE link
  <2>1. Handles("CUSTODY_TIMEOUT")
        /\ UNCHANGED <<status, expiration, custody, cl, cancelMsg>>
    BY <1>14 DEF handle_custody_timeout
  <2>2. On \in Links /\ InQ(eventq, "CUSTODY_TIMEOUT", On)
    BY <2>1, HandledEvent DEF LinkEventTypes, EventTypes
  <2>3. link[On].log = "TRANSMITTED"
    BY <2>2 DEF DeletedInv, TimeoutsMeetTheirLog, Queued, InQ
  <2>4. /\ ~InHand(link[On]) /\ ~link[On].blocks /\ ~InUse(On)
        /\ ~InQ(eventq, T, On) /\ ~InQ(eventq, C, On)
    BY <1>2, <1>3, <2>2, <2>3 DEF EndsOnce, LogOK, InHandIsQueued, InHand
  <2>5. /\ y \in LinkStatesOf
        /\ \A l \in Links : l # On => y[l] = link[l]
        /\ ~y[On].blocks /\ ~InHand(y[On])
        /\ custodyTimer[On] = "fired" => y[On].log = "CUSTODY_TIMEOUT"
        /\ custodyTimer[On] # "fired" => y = link
    BY <1>1, <2>2, <2>4 DEF TimedOut, LinkStatesOf, LinkRecord, FwdStates, InHand
  <2>6. link' = route_bundle(y)
        /\ custodyTimer' = IF custodyTimer[On] = "fired"
                           THEN [custodyTimer EXCEPT ![On] = "none"]
                           ELSE custodyTimer
    BY <1>14 DEF handle_custody_timeout
  <2> HIDE DEF y
  <2>7. \A l \in Links : Clean(y[l])
    BY <1>3, <2>5 DEF Clean
  <2>8. Kept
    BY <1>7, <1>14, StepTouches
  <2>9. \A l \in Links : EndsOnce(y[l], InUse(l), eventq', l)
    <3>1. EndsOnce(y[On], InUse(On), eventq, On)
      BY <1>2, <2>2, <2>4, <2>5 DEF EndsOnce, InHandIsQueued, InHand
    <3>2. \A l \in Links : EndsOnce(y[l], InUse(l), eventq, l)
      BY <1>2, <2>5, <3>1
    <3> QED BY <2>8, <3>2, EndsOnceKept DEF Kept
  <2>10. Going
    BY <1>2, <2>1, <2>5, <2>6, <2>7, RouteBundleSettles DEF Going
  <2>11. \A l \in Links : custody' /\ y[l].log = "TRANSMITTED"
                          => custodyTimer'[l] # "none"
    BY <1>2, <2>1, <2>2, <2>5, <2>6 DEF TypeInv, TypeOK
  <2>12. \A l \in Links : Moved(y[l], link'[l])
    BY <2>5, <2>6, RouteBundleMoves
  <2> QED BY <1>8, <2>1, <2>5, <2>7, <2>9, <2>10, <2>11, <2>12
<1>15. CASE RequestOpen \/ handle_contact_up
  <2>1. PICK t \in {"OPEN", "CONTACT_UP"}, s \in {"OPENING", "OPEN"} :
            /\ Handles(t)
            /\ UNCHANGED <<status, expiration, custody, custodyTimer, cl, cancelMsg>>
            /\ \/ link' = [link EXCEPT ![On].state = s]
               \/ link' = check_next_hop([link EXCEPT ![On].state = s], On)
    BY <1>15 DEF RequestOpen, handle_contact_up, clVars, bundleVars
  <2> DEFINE y == [link EXCEPT ![On].state = s]
  <2>2. On \in Links
    BY <2>1, HandledEvent DEF LinkEventTypes, EventTypes
  <2>3. /\ y \in LinkStatesOf
        /\ \A l \in Links :
              /\ y[l].log = link[l].log /\ y[l].blocks = link[l].blocks
              /\ y[l].queue = link[l].queue /\ y[l].inflight = link[l].inflight
              /\ y[l].deferred = link[l].deferred
    BY <1>1, <2>2 DEF LinkStatesOf, LinkRecord, LinkStates
  <2>4. link' = y \/ link' = check_next_hop(y, On)
    BY <2>1
  <2> HIDE DEF y
  <2>5. \A l \in Links : Clean(y[l]) /\ (Settled(link[l]) => Settled(y[l]))
    BY <1>3, <2>3 DEF Clean, InHand, Settled, Sent
  <2>6. \A l \in Links : /\ Moved(y[l], link'[l])
                         /\ Settled(y[l]) => Settled(link'[l])
    <3>1. CASE link' = y
      BY <3>1, MovedReflexive
    <3>2. CASE link' = check_next_hop(y, On)
      BY <2>2, <2>3, <2>5, <3>2, CheckNextHopMoves, MovedReflexive DEF OneMoves
    <3> QED BY <2>4, <3>1, <3>2
  <2>7. Kept
    BY <1>7, <1>15, StepTouches
  <2>8. \A l \in Links : EndsOnce(y[l], InUse(l), eventq', l)
    BY <1>2, <2>3, <2>7, EndsOnceKept DEF Kept
  <2>9. Going
    BY <1>2, <2>1, <2>5, <2>6 DEF Going
  <2>10. \A l \in Links : custody' /\ y[l].log = "TRANSMITTED"
                          => custodyTimer'[l] # "none"
    BY <1>2, <2>1, <2>3
  <2> QED BY <1>8, <2>1, <2>3, <2>5, <2>6, <2>8, <2>9, <2>10
<1>16. CASE CloseCompleted
  <2>0. PICK k \in Links : k = closing.link
    BY <1>16 DEF CloseCompleted, TypeInv, EventsNameLinks
  <2> DEFINE e == LinkEvent(T, k)
  <2>1. /\ link' = [link EXCEPT ![k] =
               [IF PutBack(k) THEN BackOnQueue(link[k]) ELSE link[k]
                   EXCEPT !.state = StateOnceClosed(closing.reason)]]
        /\ eventq' = PostIfInPart(eventq, k)
        /\ cancelMsg' = [cancelMsg EXCEPT ![k] = FALSE]
        /\ cl' = [cl EXCEPT ![k] = "none"]
        /\ UNCHANGED <<status, expiration, custody, custodyTimer>>
    BY <1>16, <2>0 DEF CloseCompleted, bundleVars
  <2>2. e \in LinkedEvent /\ e.type = T /\ e.link = k
    BY <2>1, EventsLinked DEF EventTypes, LinkEvent
  <2>3. IF SentInPart(k) THEN eventq' = Append(eventq, e) ELSE eventq' = eventq
    BY <2>1 DEF PostIfInPart, post
  <2> HIDE DEF e
  <2>4. /\ PutBack(k) => InUse(k) /\ ~SentInPart(k)
        /\ SentInPart(k) => InUse(k)
        /\ InUse(k) => PutBack(k) \/ SentInPart(k)
        /\ ~InUse(k)'
    BY <2>1 DEF PutBack, SentInPart, InUse, TypeInv, TypeOK
  <2>5. /\ \A l \in Links : l # k => link'[l] = link[l]
        /\ link'[k].log = link[k].log /\ link'[k].deferred = link[k].deferred
        /\ ~PutBack(k) => /\ link'[k].queue = link[k].queue
                          /\ link'[k].inflight = link[k].inflight
        /\ PutBack(k) /\ link[k].inflight => link'[k].queue /\ ~link'[k].inflight
    BY <1>1, <2>1 DEF BackOnQueue, LinkStatesOf, LinkRecord
  <2>6. /\ \A t, l : InQ(eventq', t, l) <=>
                     InQ(eventq, t, l) \/ (SentInPart(k) /\ t = T /\ l = k)
        /\ \A t, l : /\ Once(eventq, t, l)
                     /\ InQ(eventq, t, l) => t # T \/ l # k
                     => Once(eventq', t, l)
        /\ ~SentInPart(k) => eventq' = eventq
    <3>1. CASE SentInPart(k)
      <4>1. eventq' = Append(eventq, e)
        BY <2>3, <3>1
      <4>2. /\ \A t, l : InQ(eventq', t, l) <=> InQ(eventq, t, l) \/ (t = T /\ l = k)
            /\ \A t, l : /\ Once(eventq, t, l)
                         /\ InQ(eventq, t, l) => t # T \/ l # k
                         => Once(eventq', t, l)
        BY <1>1, <2>2, <4>1, PostedQueue
      <4> QED BY <3>1, <4>2
    <3>2. CASE ~SentInPart(k)
      <4>1. eventq' = eventq
        BY <2>3, <3>2
      <4>2. \A t, l : InQ(eventq', t, l) <=> InQ(eventq, t, l)
        BY <4>1
      <4>3. \A t, l : Once(eventq, t, l) => Once(eventq', t, l)
        BY <4>1
      <4> QED BY <3>2, <4>1, <4>2, <4>3
    <3> QED BY <3>1, <3>2
  <2>7. ASSUME NEW l \in Links PROVE EndAt(l)'
    <3>1. CASE l # k
      <4>1. SameEnds(eventq, eventq', l)
        BY <2>6, <3>1 DEF SameEnds
      <4>2. InUse(l) <=> InUse(l)'
        BY <2>1, <3>1 DEF InUse, TypeInv, TypeOK
      <4>3. EndsOnce(link'[l], InUse(l)', eventq', l)
        BY <1>2, <2>5, <3>1, <4>1, <4>2, EndsOnceKept
      <4>4. ~cancelMsg'[l]
        BY <1>2, <2>1, <3>1 DEF TypeInv, TypeOK
      <4> QED BY <1>2, <2>1, <2>5, <3>1, <4>3, <4>4 DEF EndAt
    <3>2. CASE l = k
      <4>1. ~cancelMsg'[k]
        BY <2>1 DEF TypeInv, TypeOK
      <4>2. CASE ~InUse(k)
        <5>1. SameEnds(eventq, eventq', k)
          BY <2>4, <2>6, <4>2 DEF SameEnds
        <5>2. /\ link'[k].log = link[k].log /\ link'[k].queue = link[k].queue
              /\ link'[k].inflight = link[k].inflight
              /\ EndsOnce(link[k], InUse(k), eventq, k)
              /\ InUse(k) <=> InUse(k)'
          BY <1>2, <2>4, <2>5, <4>2
        <5>3. EndsOnce(link'[k], InUse(k)', eventq', k)
          BY <5>1, <5>2, EndsOnceKept
        <5> QED BY <1>2, <2>1, <2>5, <3>2, <4>1, <5>3 DEF EndAt
      <4>3. CASE InUse(k)
        <5>1. /\ link[k].inflight /\ link[k].log = "QUEUED" /\ ~link[k].queue
              /\ ~InQ(eventq, T, k) /\ ~InQ(eventq, C, k)
              /\ Once(eventq, T, k) /\ Once(eventq, C, k)
          BY <1>2, <1>3, <2>1, <4>3 DEF EndsOnce, InHandIsQueued, InHand
        <5>2. EndsOnce(link'[k], InUse(k)', eventq', k)
          <6>1. CASE PutBack(k)
            <7>1. /\ link'[k].log = "QUEUED" /\ link'[k].queue /\ ~link'[k].inflight
                  /\ ~InUse(k)' /\ eventq' = eventq
              BY <2>4, <2>5, <2>6, <5>1, <6>1
            <7> QED BY <5>1, <7>1 DEF EndsOnce, InHandIsQueued
          <6>2. CASE SentInPart(k)
            <7>1. /\ link'[k].log = "QUEUED" /\ ~link'[k].queue /\ link'[k].inflight
                  /\ ~InUse(k)'
              BY <2>4, <2>5, <5>1, <6>2
            <7>2. /\ InQ(eventq', T, k) /\ ~InQ(eventq', C, k)
                  /\ Once(eventq', T, k) /\ Once(eventq', C, k)
              BY <2>6, <5>1, <6>2
            <7> QED BY <7>1, <7>2 DEF EndsOnce, InHandIsQueued
          <6> QED BY <2>4, <4>3, <6>1, <6>2
        <5>3. link'[k].log # "TRANSMITTED"
          BY <2>5, <5>1
        <5> QED BY <3>2, <4>1, <5>2, <5>3 DEF EndAt
      <4> QED BY <4>2, <4>3
    <3> QED BY <3>1, <3>2
  <2>8. Going
    BY <1>2, <2>1, <2>5 DEF Going, Settled, Sent
  <2> QED BY <1>6, <2>7, <2>8
<1>17. ASSUME NEW k \in Links, start_next_bundle(k)
       PROVE  NoOtherEnd'
  <2>1. /\ link[k].queue
        /\ UNCHANGED <<status, expiration, custody, custodyTimer, cancelMsg, eventq>>
        /\ link' = [link EXCEPT ![k].inflight = TRUE, ![k].queue = FALSE]
        /\ cl' = [cl EXCEPT ![k] = "started"]
    BY <1>17 DEF start_next_bundle, bundleVars
  <2>2. /\ \A l \in Links : /\ l # k => link'[l] = link[l] /\ cl'[l] = cl[l]
                            /\ link'[l].log = link[l].log
                            /\ link'[l].deferred = link[l].deferred
        /\ link'[k].inflight /\ ~link'[k].queue /\ InUse(k)'
    BY <1>1, <2>1 DEF LinkStatesOf, LinkRecord, InUse, TypeInv, TypeOK
  <2>3. ASSUME NEW l \in Links PROVE EndAt(l)'
    <3>1. CASE l # k
      BY <1>2, <2>1, <2>2, <3>1 DEF EndAt, InUse
    <3>2. CASE l = k
      <4>1. EndsOnce(link'[k], InUse(k)', eventq', k)
        BY <1>2, <2>1, <2>2 DEF EndsOnce, InHandIsQueued, InHand
      <4> QED BY <1>2, <2>1, <2>2, <3>2, <4>1 DEF EndAt
    <3> QED BY <3>1, <3>2
  <2>4. Going
    BY <1>2, <2>1, <2>2 DEF Going, Settled, Sent
  <2> QED BY <1>6, <2>3, <2>4
<1>18. ASSUME NEW k \in Links, handle_ack_segment(k)
       PROVE  NoOtherEnd'
  <2> DEFINE e == LinkEvent(T, k)
  <2>1. /\ InUse(k)
        /\ UNCHANGED <<status, expiration, custody, custodyTimer, link, cancelMsg>>
        /\ cl' = [cl EXCEPT ![k] = "none"] \/ cl' = [cl EXCEPT ![k] = "posted"]
        /\ eventq' = Append(eventq, e)
    BY <1>18 DEF handle_ack_segment, CLMoves, bundleVars, post, InUse
  <2>2. e \in LinkedEvent /\ e.type = T /\ e.link = k
    BY <1>18, EventsLinked DEF EventTypes, LinkEvent
  <2> HIDE DEF e
  <2>3. /\ \A t, l : InQ(eventq', t, l) <=> InQ(eventq, t, l) \/ (t = T /\ l = k)
        /\ \A t, l : /\ Once(eventq, t, l)
                     /\ InQ(eventq, t, l) => t # T \/ l # k
                     => Once(eventq', t, l)
    BY <1>1, <2>1, <2>2, PostedQueue
  <2>4. ~InUse(k)' /\ \A l \in Links : l # k => (InUse(l) <=> InUse(l)')
    BY <2>1 DEF InUse, TypeInv, TypeOK
  <2>5. ASSUME NEW l \in Links PROVE EndAt(l)'
    <3>1. CASE l # k
      <4>1. SameEnds(eventq, eventq', l)
        BY <2>3, <3>1 DEF SameEnds
      <4>2. EndsOnce(link'[l], InUse(l)', eventq', l)
        BY <1>2, <2>1, <2>4, <3>1, <4>1, EndsOnceKept
      <4> QED BY <1>2, <2>1, <4>2 DEF EndAt
    <3>2. CASE l = k
      <4>1. EndsOnce(link'[k], InUse(k)', eventq', k)
        BY <1>2, <1>3, <2>1, <2>3, <2>4 DEF EndsOnce, InHandIsQueued, InHand
      <4> QED BY <1>2, <2>1, <3>2, <4>1 DEF EndAt
    <3> QED BY <3>1, <3>2
  <2>6. Going
    BY <1>2, <2>1 DEF Going
  <2> QED BY <1>6, <2>5, <2>6
<1>19. ASSUME NEW k \in Links, CustodyTimeout(k)
       PROVE  NoOtherEnd'
  <2>1. /\ UNCHANGED <<status, expiration, custody, link, cancelMsg, cl>>
        /\ custodyTimer' = [custodyTimer EXCEPT ![k] = "fired"]
    BY <1>19 DEF CustodyTimeout, clVars
  <2>2. Kept
    BY <1>7, <1>19, StepTouches
  <2>3. ASSUME NEW l \in Links PROVE EndAt(l)'
    <3>1. InUse(l) <=> InUse(l)'
      BY <2>1 DEF InUse
    <3>2. EndsOnce(link'[l], InUse(l)', eventq', l)
      BY <1>2, <2>1, <2>2, <3>1, EndsOnceKept DEF Kept
    <3>3. custodyTimer[l] # "none" => custodyTimer'[l] # "none"
      BY <2>1 DEF TypeInv, TypeOK
    <3> QED BY <1>2, <2>1, <3>2, <3>3 DEF EndAt
  <2>4. Going
    BY <1>2, <2>1 DEF Going
  <2> QED BY <1>6, <2>3, <2>4
<1>20. ASSUME NEW k \in Links, reroute_bundles(k)
       PROVE  NoOtherEnd'
  <2>1. UNCHANGED <<status, expiration, custody, custodyTimer, cancelMsg, cl>>
    BY <1>20 DEF reroute_bundles, clVars, bundleVars
  <2>2. \A l \in Links : InUse(l) <=> InUse(l)'
    BY <2>1 DEF InUse
  <2>3. CASE UNCHANGED <<link, eventq>>
    <3>1. Going
      BY <1>2, <2>1, <2>3 DEF Going
    <3>2. \A l \in Links : EndAt(l)'
      BY <1>2, <2>1, <2>2, <2>3 DEF EndAt, InUse
    <3> QED BY <1>6, <3>1, <3>2
  <2>4. CASE /\ link[k].queue /\ link' = Cancelled(link, {k})
             /\ eventq' = eventq \o CancelEvents(link, {k})
    <3>1. Cancels(link, {k}, eventq)
      BY <1>1, <2>4, CancelsOf
    <3>2. /\ link[k].log = "QUEUED" /\ link[k].blocks /\ ~link[k].inflight
          /\ ~InUse(k) /\ ~InQ(eventq, T, k) /\ ~InQ(eventq, C, k)
      BY <1>2, <1>3, <2>4 DEF EndsOnce, LogOK, InHandIsQueued, InHand
    <3>3. /\ \A l \in Links :
                /\ link'[l].log = link[l].log
                /\ link'[l].inflight = link[l].inflight
                /\ link'[l].queue <=> link[l].queue /\ l # k
          /\ \A l : InQ(eventq', T, l) <=> InQ(eventq, T, l)
          /\ \A l : l # k => (InQ(eventq', C, l) <=> InQ(eventq, C, l))
          /\ \A t, l : Once(eventq, t, l) => Once(eventq', t, l)
      BY <3>1, <3>2 DEF Cancels
    <3>4. \A l \in Links : link'[l].deferred = link[l].deferred
      BY <1>1, <2>4 DEF Cancelled, LinkStatesOf, LinkRecord
    <3>5. ASSUME NEW l \in Links PROVE EndAt(l)'
      <4>1. CASE l # k
        <5>1. SameEnds(eventq, eventq', l)
          BY <3>3, <4>1 DEF SameEnds, EndTypes
        <5>2. EndsOnce(link'[l], InUse(l)', eventq', l)
          BY <1>2, <2>2, <3>3, <4>1, <5>1, EndsOnceKept
        <5> QED BY <1>2, <2>1, <3>3, <5>2 DEF EndAt
      <4>2. CASE l = k
        <5>1. EndsOnce(link'[k], InUse(k)', eventq', k)
          BY <1>2, <2>2, <3>2, <3>3 DEF EndsOnce, InHandIsQueued, InHand
        <5>2. link'[k].log # "TRANSMITTED"
          BY <3>2, <3>3
        <5> QED BY <1>2, <2>1, <4>2, <5>1, <5>2 DEF EndAt
      <4> QED BY <4>1, <4>2
    <3>6. Going
      BY <1>2, <2>1, <3>3, <3>4 DEF Going, Settled, Sent
    <3> QED BY <1>6, <3>5, <3>6
  <2> QED BY <1>20, <2>3, <2>4 DEF reroute_bundles
<1>21. ASSUME NEW k \in Links, OtherTransmitted(k)
       PROVE  NoOtherEnd'
  <2>1. /\ link' = pull_deferred(link, k) \/ link' = link
        /\ UNCHANGED <<status, expiration, custody, custodyTimer, cancelMsg, cl, eventq>>
    BY <1>21 DEF OtherTransmitted, clVars, bundleVars
  <2>2. \A l \in Links : /\ Moved(link[l], link'[l])
                         /\ Settled(link[l]) => Settled(link'[l])
    BY <1>1, <1>3, <2>1, PullDeferredMoves, MovedReflexive DEF OneMoves
  <2>3. Going
    BY <1>2, <2>1, <2>2 DEF Going
  <2>4. \A l \in Links : EndsOnce(link[l], InUse(l), eventq', l)
    BY <1>2, <2>1
  <2> QED BY <1>1, <1>2, <1>3, <1>8, <2>1, <2>2, <2>3, <2>4
<1> QED BY StepKinds, <1>4, <1>9, <1>10, <1>11, <1>12, <1>13, <1>14, <1>15, <1>16,
           <1>17, <1>18, <1>19, <1>20, <1>21

\* Nothing has ended before the bundle is received.
LEMMA NoOtherEndInit == Init => NoOtherEnd
<1> SUFFICES ASSUME Init PROVE NoOtherEnd
  OBVIOUS
<1> DEFINE e == LinkEvent("BUNDLE_RECEIVED", NoLink)
<1>1. eventq = <<e>> /\ e.type = "BUNDLE_RECEIVED" /\ DOMAIN <<e>> = {1} /\ <<e>>[1] = e
  BY DEF Init, LinkEvent
<1>2. \A l \in Links : /\ link[l].log = "NONE" /\ ~InHand(link[l])
                       /\ ~cancelMsg[l] /\ ~InUse(l)
  BY DEF Init, InHand, InUse
<1>3. ~custody /\ status = "new"
  BY DEF Init
<1> HIDE DEF e
<1>4. \A t, l : InQ(eventq, t, l) => t = "BUNDLE_RECEIVED"
  BY <1>1 DEF InQ
<1>5. /\ ~Has(eventq, "BUNDLE_DELETE") /\ ~Has(eventq, "BUNDLE_EXPIRED")
      /\ \A t, l : Once(eventq, t, l)
  BY <1>1 DEF Has, Once
<1>6. \A l \in Links : EndsOnce(link[l], InUse(l), eventq, l)
  BY <1>2, <1>4, <1>5 DEF EndsOnce, InHandIsQueued, InHand
<1> QED BY <1>2, <1>3, <1>5, <1>6 DEF NoOtherEnd

\* What follows for the reachable states, and the setting in which it does: a
\* singleton destination, fragments of what was sent in part, and no end on
\* request.
LEMMA EndsOnceAlways ==
    ASSUME Singleton, ReactiveFrag, NoRequestedEnd, Links # {}
    PROVE  Spec => [](TypeInv /\ LogInv /\ DeletedInv /\ HandInv /\ NoOtherEnd)
<1> DEFINE I == TypeInv /\ LogInv /\ DeletedInv /\ HandInv /\ NoOtherEnd
<1>1. Init => I
  BY TypeInit, LogInit, DeletedInit, HandInit, NoOtherEndInit
<1>2. I /\ [Next]_vars => I'
  <2>1. "link_cancel" \notin Commands
    BY DEF NoRequestedEnd
  <2> QED BY <2>1, TypeStep, LogStep, DeletedStep, HandStep, NoOtherEndStep
<1>3. Spec => []I
  <2> HIDE DEF I
  <2> QED BY <1>1, <1>2, PTL DEF Spec
<1> QED BY <1>3

\* While nobody ends it on request, the formatted blocks of a bundle outlive
\* their use by a connection thread, whatever breaks, closes and times out: the
\* assertion in StreamConvergenceLayer's start_next_bundle holds.
THEOREM BlocksAlwaysOutliveUse ==
    Singleton /\ ReactiveFrag /\ NoRequestedEnd => (Spec => []BlocksOutliveUse)
<1> SUFFICES ASSUME Singleton, ReactiveFrag, NoRequestedEnd
             PROVE  Spec => []BlocksOutliveUse
  OBVIOUS
<1>1. CASE Links = {}
  <2>1. BlocksOutliveUse
    BY <1>1 DEF BlocksOutliveUse
  <2> QED BY <2>1, PTL
<1>2. CASE Links # {}
  <2>1. Spec => [](TypeInv /\ LogInv /\ DeletedInv /\ HandInv /\ NoOtherEnd)
    BY <1>2, EndsOnceAlways
  <2>2. LogInv /\ NoOtherEnd => BlocksOutliveUse
    BY DEF LogInv, LogMatchesBlocks, NoOtherEnd, EndsOnce, InHandIsQueued, InHand,
           InUse, BlocksOutliveUse
  <2> QED BY <2>1, <2>2, PTL
<1> QED BY <1>1, <1>2

\* In the same setting a bundle on a link's in-flight list is in the hands of
\* the link's connection, or the event that takes it off the list is queued.
THEOREM InFlightIsAlwaysServed ==
    Singleton /\ ReactiveFrag /\ NoRequestedEnd => (Spec => []InFlightIsServed)
<1> SUFFICES ASSUME Singleton, ReactiveFrag, NoRequestedEnd
             PROVE  Spec => []InFlightIsServed
  OBVIOUS
<1>1. CASE Links = {}
  <2>1. InFlightIsServed
    BY <1>1 DEF InFlightIsServed
  <2> QED BY <2>1, PTL
<1>2. CASE Links # {}
  <2>1. Spec => [](TypeInv /\ LogInv /\ DeletedInv /\ HandInv /\ NoOtherEnd)
    BY <1>2, EndsOnceAlways
  <2>2. NoOtherEnd => InFlightIsServed
    BY DEF NoOtherEnd, EndsOnce, InUse, InFlightIsServed, Queued, InQ
  <2> QED BY <2>1, <2>2, PTL
<1> QED BY <1>1, <1>2

\* In the same setting, with a route, a received bundle is never stranded: it
\* waits for a link, is being sent, or has been sent, and while this node is
\* its custodian the timer that will send it again is set.
THEOREM NeverStrandedAlways ==
    Singleton /\ ReactiveFrag /\ NoRequestedEnd /\ Links # {}
        => (Spec => []NeverStranded)
<1> SUFFICES ASSUME Singleton, ReactiveFrag, NoRequestedEnd, Links # {}
             PROVE  Spec => []NeverStranded
  OBVIOUS
<1>1. Spec => [](TypeInv /\ LogInv /\ DeletedInv /\ HandInv /\ NoOtherEnd)
  BY EndsOnceAlways
<1>2. NoOtherEnd => NeverStranded
  BY DEF NoOtherEnd, Settled, Sent, NeverStranded
<1> QED BY <1>1, <1>2, PTL
=============================================================================
