------------------------ MODULE MCRecoveryOperation ------------------------
(* Instances of RecoveryOperation for TLC. *)
EXTENDS RecoveryOperation

CONSTANTS c1, c2,           \* calls
          orig, post, other, torn, foreign, none

TwoCalls == {c1, c2}
OneCall == {c1}

\* A transactional adapter: the effect has one outcome and nothing tears.
AtomicStates == {orig, post, foreign}
AtomicEffect == [s \in AtomicStates |-> {post}]

\* An effect that is the same every time, in steps that tear.
TearingStates == {orig, post, torn}
TearingEffect == [s \in TearingStates |-> IF s = orig THEN {post} ELSE {s}]

\* git: an effect that is not the same every time, and steps that tear.
LooseStates == {orig, post, other, torn, foreign}
LooseEffect ==
  [s \in LooseStates |-> IF s = orig THEN {post, other}
                         ELSE IF s = torn THEN {torn, post} ELSE {s}]
=============================================================================
