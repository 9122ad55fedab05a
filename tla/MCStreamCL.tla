----------------------------- MODULE MCStreamCL -----------------------------
(* Two bundles one way and one the other way, in segments of two units. *)
EXTENDS StreamCL

MCOutgoing == [active |-> <<1, 2>>, passive |-> <<3>>]
MCLength == <<3, 2, 2>>

AllOn == [acks |-> TRUE, reactive |-> TRUE, reliable |-> TRUE]
NoFragments == [AllOn EXCEPT !.reactive = FALSE]
NoAcks == [AllOn EXCEPT !.acks = FALSE]
Unreliable == [AllOn EXCEPT !.reliable = FALSE]
MCParams == [active |-> {AllOn, NoFragments, NoAcks}, passive |-> {AllOn}]
MoreParams == [active |-> MCParams.active \cup {Unreliable}, passive |-> {AllOn}]
MCNewLink == {NoParams}

\* Two bundles one way; the wire can hold all that is sent.
OneWay == [active |-> <<1, 2>>, passive |-> <<>>]
OneWayLength == <<3, 2>>

\* One bundle of two segments.
OneBundle == [active |-> <<1>>, passive |-> <<>>]
OneLength == <<3>>
OnParams == [e \in Ends |-> {AllOn}]

\* The accepting end's link was set up before the defaults were changed.
OffParams == [active |-> {AllOn}, passive |-> {NoFragments}]
OldLink == {AllOn}

=============================================================================
