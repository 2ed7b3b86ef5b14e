----------------------------- MODULE MCApproval -----------------------------
(* An instance of Approval for TLC: two terminals, two operations, and two   *)
(* manifests that bind both of them, in opposite orders.                     *)
EXTENDS Approval, TLC

CONSTANTS t1, t2, a, b, m1, m2

TwoTerminals == {t1, t2}
TwoOps == {a, b}
TwoManifests == {m1, m2}
Shared == [m \in TwoManifests |-> IF m = m1 THEN <<a, b>> ELSE <<b, a>>]
Symmetric == Permutations(TwoTerminals)
=============================================================================
