--------------------------- MODULE MCLinkContact ---------------------------
(* Small instances of LinkContact for TLC: three Contact objects.          *)
EXTENDS LinkContact

CONSTANTS c1, c2, c3
MCContacts == {c1, c2, c3}
============================================================================
