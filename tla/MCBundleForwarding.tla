------------------------ MODULE MCBundleForwarding ------------------------
(* Two links with routes of different priority. *)
EXTENDS BundleForwarding
CONSTANTS l1, l2
TwoLinks == {l1, l2}
ByPriority == <<l1, l2>>
===========================================================================
