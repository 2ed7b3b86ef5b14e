------------------------- MODULE MCRecoveryManifest -------------------------
(* Instances of RecoveryManifest for TLC: three children, the last of them a *)
(* filesystem deletion, under one or two coordinator calls.                  *)
EXTENDS RecoveryManifest

CONSTANTS k1, k2

OneCoordinator == {k1}
TwoCoordinators == {k1, k2}
=============================================================================
