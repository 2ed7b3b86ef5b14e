---------------------------- MODULE AtomicLedger ----------------------------
(***************************************************************************)
(* What the ledger stores promise their callers (OperationStore.put and    *)
(* beginCommit; the manifest store has the same pair): an update of        *)
(* the document happens in one step, builds on everything published before *)
(* it, and a caller that asks to begin is told yes only if it is the first.*)
(* A call may end with an error before or after its update was published.  *)
(***************************************************************************)
EXTENDS Naturals

CONSTANTS Callers,    \* calls of put and beginCommit
          Beginners   \* those that are beginCommit of one and the same record

VARIABLES doc,      \* the callers whose update is in the document
          outcome   \* what each caller has been told

ledgerVars == <<doc, outcome>>

Init == /\ doc = {}
        /\ outcome = [p \in Callers |-> "pending"]

\* The record is still proven, or this is a put.
Admitted(p) == p \in Beginners => doc \cap Beginners = {}

Update(p) ==
  /\ outcome[p] = "pending"
  /\ Admitted(p)
  /\ doc' = doc \cup {p}
  /\ \E answer \in {"done", "failed"} : outcome' = [outcome EXCEPT ![p] = answer]

Refuse(p) ==
  /\ outcome[p] = "pending"
  /\ outcome' = [outcome EXCEPT ![p] = "failed"]
  /\ UNCHANGED doc

Next == \E p \in Callers : Update(p) \/ Refuse(p)

Spec == Init /\ [][Next]_ledgerVars
=============================================================================
