-------------------------- MODULE ReversibleEffect --------------------------
(***************************************************************************)
(* What one recovery operation promises, without calls, witnesses or       *)
(* artifacts: a destructive effect that a human grants once, that is       *)
(* journalled before it runs, that runs at most once, that may be undone,  *)
(* and whose final receipt tells the truth about the resource.             *)
(***************************************************************************)
VARIABLES
  receipt,   \* what the ledger says
  granted,   \* a human approved the effect
  applied,   \* the resource differs from its original contents
  spent      \* the effect has been run, whatever came of it

vars == <<receipt, granted, applied, spent>>

Init ==
  /\ receipt = "none"
  /\ granted = FALSE
  /\ applied = FALSE
  /\ spent = FALSE

Prove ==
  /\ receipt = "none"
  /\ receipt' = "proven"
  /\ UNCHANGED <<granted, applied, spent>>

Grant ==
  /\ receipt = "proven"
  /\ granted' = TRUE
  /\ UNCHANGED <<receipt, applied, spent>>

Begin ==
  /\ receipt = "proven"
  /\ granted
  /\ receipt' = "committing"
  /\ UNCHANGED <<granted, applied, spent>>

\* An effect that fails may leave the resource as it was.
Apply ==
  /\ receipt = "committing"
  /\ ~spent
  /\ spent' = TRUE
  /\ applied' \in BOOLEAN
  /\ UNCHANGED <<receipt, granted>>

Undo ==
  /\ receipt \in {"committing", "committed"}
  /\ applied
  /\ applied' = FALSE
  /\ UNCHANGED <<receipt, granted, spent>>

ReceiptCommitted ==
  /\ receipt = "committing"
  /\ applied
  /\ receipt' = "committed"
  /\ UNCHANGED <<granted, applied, spent>>

ReceiptRecovered ==
  /\ receipt \in {"committing", "committed"}
  /\ ~applied
  /\ receipt' = "recovered"
  /\ UNCHANGED <<granted, applied, spent>>

Next ==
  \/ Prove \/ Grant \/ Begin \/ Apply \/ Undo
  \/ ReceiptCommitted \/ ReceiptRecovered

Spec == Init /\ [][Next]_vars
=============================================================================
