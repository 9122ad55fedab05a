--------------------------- MODULE BundleTransfer ---------------------------
(***************************************************************************)
(* What a link promises about the bundles given to it, whatever the        *)
(* convergence layer does: a bundle is queued or being sent until its fate *)
(* is known; it is reported as confirmed only when the peer's daemon has   *)
(* all of it; a fate is final; and what has arrived stays.                 *)
(***************************************************************************)
CONSTANT Bundles

VARIABLES
    held,           \* what the sender's daemon knows of a bundle
    got             \* the bundles that the peer's daemon was given whole

vars == <<held, got>>

Fates == {"confirmed", "assumed", "part", "cancelled"}

Init == held = [b \in Bundles |-> "queued"] /\ got = {}

\* Sending begins.
Start(b) ==
    held[b] = "queued" /\ held' = [held EXCEPT ![b] = "sending"] /\ UNCHANGED got

\* The peer has the bundles; the sender need not know.
Arrive(B) == B \cap got = {} /\ got' = got \cup B /\ UNCHANGED held

\* The sender learns what became of it.
Settle(b, fate) ==
    /\ held[b] \notin Fates
    /\ fate = "confirmed" => b \in got
    /\ held' = [held EXCEPT ![b] = fate]
    /\ UNCHANGED got

\* A contact ends: what was being sent may wait for another one.
GiveBack(B) ==
    /\ B # {}
    /\ held' = [b \in Bundles |-> IF b \in B THEN "queued" ELSE held[b]]
    /\ UNCHANGED got

Next ==
    \/ \E B \in SUBSET Bundles : Arrive(B)
    \/ \E b \in Bundles :
          Start(b) \/ \E fate \in Fates : Settle(b, fate)
    \/ \E B \in SUBSET {b \in Bundles : held[b] = "sending"} : GiveBack(B)

Spec == Init /\ [][Next]_vars

=============================================================================
