---------------------------- MODULE MCSigningKey ----------------------------
(* An instance of SigningKey for TLC: three processes start at once.         *)
EXTENDS SigningKey, TLC

CONSTANTS p1, p2, p3

ThreeProcesses == {p1, p2, p3}
Symmetric == Permutations(ThreeProcesses)
=============================================================================
