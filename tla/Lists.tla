------------------------------- MODULE Lists -------------------------------
(***************************************************************************)
(* Walks over ordered containers: what the iterators of the daemon's lists *)
(* and tables visit, and in which order.                                   *)
(***************************************************************************)
EXTENDS Integers, Sequences, FiniteSets

\* The numbers of a set in increasing order: what a walk over a container that
\* is sorted by its keys visits.
InOrder(S) ==
    CHOOSE s \in [1 .. Cardinality(S) -> S] :
        \A i, j \in 1 .. Cardinality(S) : i < j => s[i] < s[j]

\* The entries of a list that are in S, in the order of the list.
OnlyIn(list, S) ==
    LET kept == InOrder({i \in DOMAIN list : list[i] \in S})
    IN [k \in DOMAIN kept |-> list[kept[k]]]

=============================================================================
