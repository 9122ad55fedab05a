---------------------------- MODULE MCReassembly ----------------------------
(* Instances of Reassembly for TLC. *)
EXTENDS Reassembly

Fragment(o, l) == [off |-> o, len |-> l, frag |-> TRUE]

\* The original, and fragments of it that overlap.
MCSent == {[off |-> 0, len |-> 3, frag |-> FALSE], Fragment(0, 2),
           Fragment(1, 2), Fragment(1, 1)}
=============================================================================
