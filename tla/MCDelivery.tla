----------------------------- MODULE MCDelivery -----------------------------
(* Instances of Delivery for TLC. *)
EXTENDS Delivery

Kind(f, p, a, x) == [failure |-> f, replay |-> p, acking |-> a, expires |-> x]

MCKinds == {Kind("DEFER", "NEW", FALSE, TRUE), Kind("DEFER", "ALL", TRUE, FALSE),
            Kind("DROP", "NONE", FALSE, FALSE)}
=============================================================================
