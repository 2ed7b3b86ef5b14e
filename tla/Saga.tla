-------------------------------- MODULE Saga --------------------------------
(***************************************************************************)
(* What a recovery manifest promises: N effects applied in binding order,  *)
(* either all of them, or undone again until none is left or a refused one *)
(* keeps the saga stuck, and visibly so.  No isolation and no atomicity    *)
(* are promised: intermediate sets of applied effects can be seen.         *)
(***************************************************************************)
EXTENDS Naturals

CONSTANT N

VARIABLES
  phase,   \* what the manifest says
  applied  \* effects that may be in place, as far as their callers were told

vars == <<phase, applied>>
Child == 1..N

Init == phase = "ready" /\ applied = {}

Start == phase = "ready" /\ phase' = "running" /\ UNCHANGED applied
Lapse == phase = "ready" /\ phase' = "lapsed" /\ UNCHANGED applied

\* The next effect in binding order, and no other.
Apply(o) ==
  /\ phase = "running"
  /\ applied = 1..(o - 1)
  /\ applied' = applied \cup {o}
  /\ UNCHANGED phase

Complete ==
  /\ phase = "running"
  /\ applied = Child
  /\ phase' = "complete"
  /\ UNCHANGED applied

Reverse ==
  /\ phase \in {"running", "complete", "stuck"}
  /\ phase' = "reversing"
  /\ UNCHANGED applied

Undo(o) ==
  /\ phase = "reversing"
  /\ o \in applied
  /\ applied' = applied \ {o}
  /\ UNCHANGED phase

Reversed ==
  /\ phase = "reversing"
  /\ applied = {}
  /\ phase' = "reversed"
  /\ UNCHANGED applied

Stick ==
  /\ phase = "reversing"
  /\ applied # {}
  /\ phase' = "stuck"
  /\ UNCHANGED applied

Next ==
  \/ Start \/ Lapse \/ Complete \/ Reverse \/ Reversed \/ Stick
  \/ \E o \in Child : Apply(o) \/ Undo(o)

Spec == Init /\ [][Next]_vars
=============================================================================
