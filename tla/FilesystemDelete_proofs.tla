------------------------ MODULE FilesystemDelete_proofs ------------------------
(***************************************************************************)
(* Proofs about FilesystemDelete, for any number of paths and calls.       *)
(***************************************************************************)
EXTENDS FilesystemDelete, TLAPS

\* Both orders of the paths have the same length, and no path twice.
LEMMA Orders ==
  /\ Count \in Nat /\ Count >= 1
  /\ \A i \in 1..Count : Sorted[i] \in Paths /\ LongestFirst[i] \in Paths
  /\ \A i, j \in 1..Count : LongestFirst[i] = LongestFirst[j] => i = j
  /\ \E p \in Paths : TRUE
<1>1. Sorted \in Seq(STRING) /\ Sorted # <<>> /\ LongestFirst \in Seq(Paths)
      /\ Len(LongestFirst) = Len(Sorted)
  BY SortedAssumption, LongestFirstAssumption DEF Paths
<1>2. Count \in Nat /\ Count >= 1
  BY <1>1 DEF Count
<1>3. DOMAIN Sorted = 1..Count /\ DOMAIN LongestFirst = 1..Count
  BY <1>1 DEF Count
<1>4. \A i \in 1..Count : Sorted[i] \in Paths
  BY <1>3 DEF Paths, Range
<1>5. \A i \in 1..Count : LongestFirst[i] \in Paths
  <2>1. \A S : \A q \in Seq(S) : \A i \in 1..Len(q) : q[i] \in S
    OBVIOUS
  <2> QED
    BY <1>1, <2>1 DEF Count
<1>6. \A i, j \in 1..Count : LongestFirst[i] = LongestFirst[j] => i = j
  BY <1>3, LongestFirstAssumption DEF IsInjective
<1> QED
  BY <1>2, <1>4, <1>5, <1>6

LEMMA RecordUpdates ==
  ASSUME NEW r \in Records
  PROVE  /\ r.status \in Statuses
         /\ \A s \in Statuses : /\ [r EXCEPT !.status = s] \in Records
                                /\ [r EXCEPT !.status = s].status = s
         /\ /\ [r EXCEPT !.failed = TRUE] \in Records
            /\ [r EXCEPT !.failed = TRUE].status = r.status
         /\ /\ [r EXCEPT !.status = "committing", !.failed = FALSE] \in Records
            /\ [r EXCEPT !.status = "committing", !.failed = FALSE].status = "committing"
         /\ \A p \in Paths : /\ [r EXCEPT !.committedPaths = @ \cup {p}] \in Records
                             /\ [r EXCEPT !.committedPaths = @ \cup {p}].status = r.status
<1>1. /\ r.status \in Statuses /\ r.committedPaths \subseteq Paths /\ r.failed \in BOOLEAN
      /\ r = [status |-> r.status, committedPaths |-> r.committedPaths, failed |-> r.failed]
  BY DEF Records
<1>2. \A s \in Statuses, D \in SUBSET Paths, f \in BOOLEAN :
        [status |-> s, committedPaths |-> D, failed |-> f] \in Records
  BY DEF Records
<1>3. ASSUME NEW s \in Statuses
      PROVE  [r EXCEPT !.status = s] \in Records /\ [r EXCEPT !.status = s].status = s
  <2>1. [r EXCEPT !.status = s] =
          [status |-> s, committedPaths |-> r.committedPaths, failed |-> r.failed]
    BY <1>1
  <2> QED
    BY <2>1, <1>1, <1>2
<1>4. [r EXCEPT !.failed = TRUE] \in Records /\ [r EXCEPT !.failed = TRUE].status = r.status
  <2>1. ASSUME NEW f \in BOOLEAN
        PROVE  [r EXCEPT !.failed = f] \in Records /\ [r EXCEPT !.failed = f].status = r.status
    <3>1. [r EXCEPT !.failed = f] =
            [status |-> r.status, committedPaths |-> r.committedPaths, failed |-> f]
      BY <1>1
    <3> QED
      BY <3>1, <1>1, <1>2
  <2> QED
    BY <2>1
<1>5. /\ [r EXCEPT !.status = "committing", !.failed = FALSE] \in Records
      /\ [r EXCEPT !.status = "committing", !.failed = FALSE].status = "committing"
  <2>1. ASSUME NEW f \in BOOLEAN
        PROVE  /\ [r EXCEPT !.status = "committing", !.failed = f] \in Records
               /\ [r EXCEPT !.status = "committing", !.failed = f].status = "committing"
    <3>1. [r EXCEPT !.status = "committing", !.failed = f] =
            [[r EXCEPT !.status = "committing"] EXCEPT !.failed = f]
      OBVIOUS
    <3>2. [r EXCEPT !.status = "committing"] =
            [status |-> "committing", committedPaths |-> r.committedPaths, failed |-> r.failed]
      BY <1>1
    <3>3. [[r EXCEPT !.status = "committing"] EXCEPT !.failed = f] =
            [status |-> "committing", committedPaths |-> r.committedPaths, failed |-> f]
      <4>1. ASSUME NEW q, q = [status |-> "committing", committedPaths |-> r.committedPaths,
                               failed |-> r.failed]
            PROVE  [q EXCEPT !.failed = f] =
                     [status |-> "committing", committedPaths |-> r.committedPaths, failed |-> f]
        BY <4>1
      <4> QED
        BY <3>2, <4>1
    <3>4. "committing" \in Statuses
      BY DEF Statuses
    <3> QED
      BY <3>1, <3>3, <3>4, <1>1, <1>2
  <2> QED
    BY <2>1
<1>6. ASSUME NEW p \in Paths
      PROVE  /\ [r EXCEPT !.committedPaths = @ \cup {p}] \in Records
             /\ [r EXCEPT !.committedPaths = @ \cup {p}].status = r.status
  <2>1. [r EXCEPT !.committedPaths = @ \cup {p}] =
          [status |-> r.status, committedPaths |-> r.committedPaths \cup {p}, failed |-> r.failed]
    BY <1>1
  <2>2. r.committedPaths \cup {p} \in SUBSET Paths
    BY <1>1
  <2> QED
    BY <2>1, <2>2, <1>1, <1>2
<1> QED
  BY <1>1, <1>3, <1>4, <1>5, <1>6

LEMMA TypeInit == Init => TypeOK
<1>1. NoRecord \in Records
  BY DEF NoRecord, Records, Statuses
<1>2. {"original", "absent"} \subseteq Contents /\ "idle" \in Steps
  BY DEF Contents, Steps
<1>3. 0 \in 0..MaxDrifts /\ 0 \in 0..MaxInterrupts /\ 1 \in 1..Count
  BY BoundAssumption, Orders
<1> SUFFICES ASSUME Init PROVE TypeOK
  OBVIOUS
<1>4. ledger \in Records /\ snap \in [Calls -> Records] /\ granted \in BOOLEAN
      /\ spoiled \in BOOLEAN /\ overlapped \in BOOLEAN
  BY <1>1 DEF Init
<1>5. /\ live \in [Paths -> Contents] /\ payload \in [Paths -> Contents]
      /\ pc \in [Calls -> Steps] /\ index \in [Calls -> 1..Count]
      /\ removals \in [Paths -> Nat] /\ safe \subseteq Paths
      /\ drifts \in 0..MaxDrifts /\ interrupts \in 0..MaxInterrupts
  BY <1>2, <1>3 DEF Init
<1> QED
  BY <1>4, <1>5 DEF TypeOK

\* What the three ways to go on leave behind.
LEMMA Moves ==
  ASSUME TypeOK, NEW c \in Calls
  PROVE  /\ \A s \in Steps : Goto(c, s) =>
              /\ pc' \in [Calls -> Steps] /\ pc'[c] = s
              /\ \A d \in Calls \ {c} : pc'[d] = pc[d]
         /\ Finish(c) =>
              /\ pc' \in [Calls -> Steps] /\ index' \in [Calls -> 1..Count]
              /\ snap' \in [Calls -> Records]
              /\ pc'[c] = "idle" /\ index'[c] = 1
              /\ \A d \in Calls \ {c} : pc'[d] = pc[d] /\ index'[d] = index[d] /\ snap'[d] = snap[d]
         /\ \A s, t \in Steps : NextPath(c, s, t) =>
              /\ pc' \in [Calls -> Steps] /\ index' \in [Calls -> 1..Count]
              /\ \/ pc'[c] = s /\ index[c] < Count /\ index'[c] = index[c] + 1
                 \/ pc'[c] = t /\ index'[c] = 1
              /\ \A d \in Calls \ {c} : pc'[d] = pc[d] /\ index'[d] = index[d]
         /\ \A s \in Steps : Call(c, s) =>
              /\ pc' \in [Calls -> Steps] /\ snap' \in [Calls -> Records]
              /\ overlapped' \in BOOLEAN
              /\ pc[c] = "idle" /\ pc'[c] = s /\ snap'[c] = ledger
              /\ \A d \in Calls \ {c} : pc'[d] = pc[d] /\ snap'[d] = snap[d]
<1> USE Orders
<1>t. /\ pc \in [Calls -> Steps] /\ index \in [Calls -> 1..Count] /\ snap \in [Calls -> Records]
      /\ ledger \in Records /\ overlapped \in BOOLEAN
  BY DEF TypeOK
<1>0. NoRecord \in Records /\ "idle" \in Steps
  BY DEF NoRecord, Records, Statuses, Steps
<1>1. ASSUME NEW s \in Steps, Goto(c, s)
      PROVE  /\ pc' \in [Calls -> Steps] /\ pc'[c] = s
             /\ \A d \in Calls \ {c} : pc'[d] = pc[d]
  BY <1>1, <1>t DEF Goto
<1>2. ASSUME Finish(c)
      PROVE  /\ pc' \in [Calls -> Steps] /\ index' \in [Calls -> 1..Count]
             /\ snap' \in [Calls -> Records]
             /\ pc'[c] = "idle" /\ index'[c] = 1
             /\ \A d \in Calls \ {c} : pc'[d] = pc[d] /\ index'[d] = index[d] /\ snap'[d] = snap[d]
  BY <1>2, <1>1, <1>0, <1>t DEF Finish
<1>3. ASSUME NEW s \in Steps, NEW t \in Steps, NextPath(c, s, t)
      PROVE  /\ pc' \in [Calls -> Steps] /\ index' \in [Calls -> 1..Count]
             /\ \/ pc'[c] = s /\ index[c] < Count /\ index'[c] = index[c] + 1
                \/ pc'[c] = t /\ index'[c] = 1
             /\ \A d \in Calls \ {c} : pc'[d] = pc[d] /\ index'[d] = index[d]
  <2>1. CASE index[c] < Count
    BY <2>1, <1>1, <1>3, <1>t DEF NextPath
  <2>2. CASE ~(index[c] < Count)
    BY <2>2, <1>1, <1>3, <1>t DEF NextPath
  <2> QED
    BY <2>1, <2>2
<1>4. ASSUME NEW s \in Steps, Call(c, s)
      PROVE  /\ pc' \in [Calls -> Steps] /\ snap' \in [Calls -> Records]
             /\ overlapped' \in BOOLEAN
             /\ pc[c] = "idle" /\ pc'[c] = s /\ snap'[c] = ledger
             /\ \A d \in Calls \ {c} : pc'[d] = pc[d] /\ snap'[d] = snap[d]
  BY <1>4, <1>1, <1>t DEF Call, At
<1> QED
  BY <1>1, <1>2, <1>3, <1>4

LEMMA TypeStep == TypeOK /\ [Next]_vars => TypeOK'
<1> SUFFICES ASSUME TypeOK, [Next]_vars PROVE TypeOK'
  OBVIOUS
<1> USE Orders DEF history, resources
<1>t. /\ ledger \in Records /\ granted \in BOOLEAN
      /\ live \in [Paths -> Contents] /\ payload \in [Paths -> Contents]
      /\ pc \in [Calls -> Steps] /\ index \in [Calls -> 1..Count] /\ snap \in [Calls -> Records]
      /\ removals \in [Paths -> Nat] /\ safe \subseteq Paths
      /\ spoiled \in BOOLEAN /\ overlapped \in BOOLEAN
      /\ drifts \in 0..MaxDrifts /\ interrupts \in 0..MaxInterrupts
  BY DEF TypeOK
<1>s. /\ {"idle", "copying", "drilling", "verified", "witnessed", "attested", "deleting", "removed",
          "failing", "concluding", "surveying", "restoring", "checking", "settling"} \subseteq Steps
      /\ {"original", "absent", "torn", "foreign"} \subseteq Contents
      /\ {"proven", "committing", "committed", "recovered"} \subseteq Statuses
  BY DEF Steps, PrepareSteps, CommitSteps, RecoverSteps, Contents, Statuses
<1>1. CASE UNCHANGED vars
  BY <1>1 DEF vars, TypeOK
<1>2. CASE Approve
  BY <1>2 DEF Approve, TypeOK
<1>3. ASSUME NEW c \in Calls, CallNext(c) PROVE TypeOK'
  <2>r. ledger \in Records /\ snap[c] \in Records /\ index[c] \in 1..Count
    BY <1>t
  <2>p. Sorted[index[c]] \in Paths /\ LongestFirst[index[c]] \in Paths
    BY <2>r
  <2>1. CASE Collect(c) \/ CommitCall(c) \/ RecoverCall(c)
    <3>1. Call(c, "copying") \/ Call(c, "verified") \/ Call(c, "surveying")
      BY <2>1 DEF Collect, CommitCall, RecoverCall
    <3>2. UNCHANGED <<ledger, granted, live, payload, removals, index, safe, spoiled, drifts, interrupts>>
      BY <3>1 DEF Call
    <3> QED
      BY <3>1, <3>2, <1>s, Moves DEF TypeOK
  <2>2. CASE Copy(c)
    <3>1. payload' \in [Paths -> Contents]
      BY <2>2, <2>p, <1>t DEF Copy
    <3>2. Finish(c) \/ (NextPath(c, "copying", "drilling") /\ UNCHANGED snap)
      BY <2>2 DEF Copy
    <3> QED
      BY <2>2, <3>1, <3>2, <1>s, Moves DEF Copy, TypeOK
  <2>3. CASE Drill(c) \/ PutFailure(c) \/ PutCommitted(c) \/ PutRecovered(c)
    <3>1. Finish(c) /\ UNCHANGED <<granted, live, payload, removals, safe, spoiled, overlapped, drifts,
                                   interrupts>>
      BY <2>3 DEF Drill, PutFailure, PutCommitted, PutRecovered
    <3>2. ledger' \in Records
      <4>1. CASE Drill(c)
        BY <4>1, <2>r, <1>s, RecordUpdates DEF Drill
      <4>2. CASE PutFailure(c)
        BY <4>2, <2>r, RecordUpdates DEF PutFailure
      <4>3. CASE PutCommitted(c)
        BY <4>3, <2>r, <1>s, RecordUpdates DEF PutCommitted
      <4>4. CASE PutRecovered(c)
        BY <4>4, <2>r, <1>s, RecordUpdates DEF PutRecovered
      <4> QED
        BY <2>3, <4>1, <4>2, <4>3, <4>4
    <3> QED
      BY <3>1, <3>2, Moves DEF TypeOK
  <2>4. CASE WitnessLive(c) \/ WitnessArtifact(c) \/ Check(c)
    <3>1. /\ UNCHANGED <<ledger, granted, live, payload, removals, safe, spoiled, overlapped, drifts,
                         interrupts>>
          /\ \/ Finish(c)
             \/ /\ Goto(c, "witnessed") \/ Goto(c, "attested") \/ Goto(c, "settling")
                /\ UNCHANGED <<index, snap>>
      BY <2>4 DEF WitnessLive, WitnessArtifact, Check, Proceed
    <3> QED
      BY <3>1, <1>s, Moves DEF TypeOK
  <2>5. CASE BeginCommit(c)
    <3>1. CASE ledger.status = "proven"
      <4>1. ledger' \in Records
        BY <2>5, <3>1, <2>r, RecordUpdates DEF BeginCommit
      <4>2. snap' = [snap EXCEPT ![c] = ledger'] /\ Goto(c, "deleting") /\ UNCHANGED index
            /\ UNCHANGED <<granted, live, payload, removals, safe, spoiled, overlapped, drifts, interrupts>>
        BY <2>5, <3>1 DEF BeginCommit
      <4> QED
        BY <4>1, <4>2, <1>s, <1>t, Moves DEF TypeOK
    <3>2. CASE ledger.status # "proven"
      BY <2>5, <3>2, Moves DEF BeginCommit, TypeOK
    <3> QED
      BY <3>1, <3>2
  <2>6. CASE Remove(c) \/ RemoveFails(c)
    <3>1. UNCHANGED <<ledger, granted, payload, index, snap, safe, spoiled, overlapped, drifts>>
          /\ (Goto(c, "failing") \/ Goto(c, "removed"))
      BY <2>6 DEF Remove, RemoveFails
    <3>2. live' \in [Paths -> Contents] /\ removals' \in [Paths -> Nat]
      BY <2>6, <2>p, <1>s, <1>t DEF Remove, RemoveFails
    <3>3. interrupts' \in 0..MaxInterrupts
      BY <2>6, <1>t, BoundAssumption DEF Remove, RemoveFails
    <3> QED
      BY <3>1, <3>2, <3>3, <1>s, Moves DEF TypeOK
  <2>7. CASE PutProgress(c)
    <3>1. /\ snap' = [snap EXCEPT ![c] = [snap[c] EXCEPT !.committedPaths = @ \cup {LongestFirst[index[c]]}]]
          /\ ledger' = snap'[c] /\ NextPath(c, "deleting", "concluding")
          /\ UNCHANGED <<granted, live, payload, removals, safe, spoiled, overlapped, drifts, interrupts>>
      BY <2>7 DEF PutProgress
    <3>2. snap' \in [Calls -> Records]
      BY <3>1, <2>r, <2>p, <1>t, RecordUpdates
    <3> QED
      BY <3>1, <3>2, <1>s, Moves DEF TypeOK
  <2>8. CASE Survey(c)
    <3>1. /\ UNCHANGED <<ledger, granted, live, payload, removals, safe, spoiled, overlapped, drifts,
                         interrupts>>
          /\ \/ NextPath(c, "surveying", "checking") /\ UNCHANGED snap
             \/ Goto(c, "restoring") /\ UNCHANGED <<index, snap>>
             \/ Finish(c)
      BY <2>8 DEF Survey
    <3> QED
      BY <3>1, <1>s, Moves DEF TypeOK
  <2>9. CASE Restore(c)
    <3>1. NextPath(c, "surveying", "checking")
          /\ UNCHANGED <<ledger, granted, payload, removals, snap, safe, spoiled, overlapped, drifts,
                         interrupts>>
      BY <2>9 DEF Restore
    <3>2. live' \in [Paths -> Contents]
      BY <2>9, <2>p, <1>t DEF Restore
    <3> QED
      BY <3>1, <3>2, <1>s, Moves DEF TypeOK
  <2>10. CASE Interrupt(c)
    <3>1. Finish(c) /\ UNCHANGED <<ledger, granted, payload, safe, spoiled, overlapped, drifts>>
      BY <2>10 DEF Interrupt
    <3>2. live' \in [Paths -> Contents] /\ removals' \in [Paths -> Nat]
      BY <2>10, <2>p, <1>s, <1>t DEF Interrupt
    <3>3. interrupts' \in 0..MaxInterrupts
      BY <2>10, <1>t, BoundAssumption DEF Interrupt
    <3> QED
      BY <3>1, <3>2, <3>3, Moves DEF TypeOK
  <2>11. CASE PutProgressFails(c)
    <3>1. /\ snap' = [snap EXCEPT ![c] = [snap[c] EXCEPT !.committedPaths = @ \cup {LongestFirst[index[c]]}]]
          /\ ledger' \in {ledger, snap'[c]} /\ Goto(c, "failing")
          /\ interrupts < MaxInterrupts /\ interrupts' = interrupts + 1
          /\ UNCHANGED <<granted, live, payload, removals, index, safe, spoiled, overlapped, drifts>>
      BY <2>11 DEF PutProgressFails
    <3>2. snap' \in [Calls -> Records] /\ ledger' \in Records
      <4>1. [snap[c] EXCEPT !.committedPaths = @ \cup {LongestFirst[index[c]]}] \in Records
        BY <2>r, <2>p, RecordUpdates
      <4>2. snap' \in [Calls -> Records]
        BY <3>1, <4>1, <1>t
      <4>3. snap'[c] \in Records
        BY <4>2
      <4> QED
        BY <3>1, <4>2, <4>3, <2>r
    <3>3. interrupts' \in 0..MaxInterrupts
      BY <3>1, <1>t, BoundAssumption
    <3> QED
      BY <3>1, <3>2, <3>3, <1>s, Moves DEF TypeOK
  <2> QED
    BY <1>3, <2>1, <2>2, <2>3, <2>4, <2>5, <2>6, <2>7, <2>8, <2>9, <2>10, <2>11
       DEF CallNext, PrepareStep, CommitStep, RecoverStep
<1>4. ASSUME NEW p \in Paths, Drift(p) \/ SpoilArtifact(p) PROVE TypeOK'
  <2>1. drifts' \in 0..MaxDrifts /\ spoiled' \in BOOLEAN /\ safe' \subseteq Paths
    <3>1. drifts < MaxDrifts /\ drifts' = drifts + 1
      BY <1>4 DEF Drift, SpoilArtifact
    <3>2. safe' \subseteq safe \cup {p}
      BY <1>4 DEF Drift, SpoilArtifact
    <3>3. spoiled' \in BOOLEAN
      BY <1>4, <1>t DEF Drift, SpoilArtifact
    <3> QED
      BY <3>1, <3>2, <3>3, <1>t, BoundAssumption
  <2>2. live' \in [Paths -> Contents] /\ payload' \in [Paths -> Contents]
    BY <1>4, <1>s, <1>t DEF Drift, SpoilArtifact
  <2> QED
    BY <1>4, <2>1, <2>2 DEF Drift, SpoilArtifact, TypeOK
<1> QED
  BY <1>1, <1>2, <1>3, <1>4 DEF Next

\* Every variable stays in its domain: no loop runs past the last path.
THEOREM TypeCorrect == Spec => []TypeOK
BY TypeInit, TypeStep, PTL DEF Spec

-----------------------------------------------------------------------------
(* What somebody else has written unchecked is left alone.                 *)

\* Where a call has looked and has yet to write, no unchecked writes are.
KeepInv ==
  /\ ForeignContentsKept
  /\ \A c \in Calls :
       /\ pc[c] \in {"witnessed", "attested"} => safe = {}
       /\ pc[c] \in {"deleting", "removed"} =>
            \A i \in index[c]..Count : LongestFirst[i] \notin safe
       /\ At(c, "restoring") => Sorted[index[c]] \notin safe

LEMMA KeepStep == TypeOK /\ KeepInv /\ [Next]_vars => KeepInv'
<1> SUFFICES ASSUME TypeOK, KeepInv, [Next]_vars PROVE KeepInv'
  OBVIOUS
<1> USE Orders DEF history, resources
<1>t. /\ live \in [Paths -> Contents] /\ safe \subseteq Paths
      /\ pc \in [Calls -> Steps] /\ index \in [Calls -> 1..Count]
  BY DEF TypeOK
<1>s. /\ {"idle", "copying", "drilling", "verified", "witnessed", "attested", "deleting", "removed",
          "failing", "concluding", "surveying", "restoring", "checking", "settling"} \subseteq Steps
  BY DEF Steps, PrepareSteps, CommitSteps, RecoverSteps
<1> DEFINE Careful(c) ==
             /\ pc'[c] \in {"witnessed", "attested"} => safe' = {}
             /\ pc'[c] \in {"deleting", "removed"} =>
                  \A i \in index'[c]..Count : LongestFirst[i] \notin safe'
             /\ pc'[c] = "restoring" => Sorted[index'[c]] \notin safe'
           Others(c) == \A d \in Calls \ {c} : pc'[d] = pc[d] /\ index'[d] = index[d]
<1>f. ASSUME NEW c \in Calls, safe' = safe, Others(c), Careful(c),
             \A p \in safe : live'[p] = live[p]
      PROVE  KeepInv'
  <2>1. ForeignContentsKept'
    BY <1>f DEF KeepInv, ForeignContentsKept
  <2>2. \A d \in Calls : Careful(d)
    BY <1>f DEF KeepInv, At
  <2> QED
    BY <2>1, <2>2 DEF KeepInv, At
<1>1. CASE UNCHANGED vars \/ Approve
  BY <1>1 DEF vars, Approve, KeepInv, ForeignContentsKept, At
<1>2. ASSUME NEW c \in Calls, CallNext(c) PROVE KeepInv'
  <2>p. index[c] \in 1..Count /\ Sorted[index[c]] \in Paths /\ LongestFirst[index[c]] \in Paths
    BY <1>t
  <2>1. CASE Collect(c) \/ CommitCall(c) \/ RecoverCall(c)
    <3>1. Call(c, "copying") \/ Call(c, "verified") \/ Call(c, "surveying")
      BY <2>1 DEF Collect, CommitCall, RecoverCall
    <3>2. UNCHANGED <<live, safe, index>>
      BY <3>1 DEF Call
    <3>3. Others(c) /\ pc'[c] \in {"copying", "verified", "surveying"}
      BY <3>1, <3>2, <1>s, Moves
    <3> QED
      BY <3>2, <3>3, <1>f
  <2>2. CASE Copy(c) \/ Drill(c) \/ PutFailure(c) \/ PutCommitted(c) \/ PutRecovered(c)
    <3>1. UNCHANGED <<live, safe>> /\ (Finish(c) \/ NextPath(c, "copying", "drilling"))
      BY <2>2 DEF Copy, Drill, PutFailure, PutCommitted, PutRecovered
    <3>2. Others(c) /\ pc'[c] \in {"idle", "copying", "drilling"}
      BY <3>1, <1>s, Moves
    <3> QED
      BY <3>1, <3>2, <1>f
  <2>3. CASE WitnessLive(c)
    <3>1. UNCHANGED <<live, safe>>
          /\ (Finish(c) \/ (Intact(live) /\ Goto(c, "witnessed") /\ UNCHANGED index))
      BY <2>3 DEF WitnessLive, Proceed
    <3>2. Others(c) /\ pc'[c] \in {"idle", "witnessed"} /\ (pc'[c] = "witnessed" => Intact(live))
      BY <3>1, <1>s, Moves
    <3>3. Intact(live) => safe = {}
      BY <1>t DEF Intact, KeepInv, ForeignContentsKept
    <3> QED
      BY <3>1, <3>2, <3>3, <1>f
  <2>4. CASE WitnessArtifact(c) \/ Check(c)
    <3>1. UNCHANGED <<live, safe>>
          /\ \/ Finish(c)
             \/ At(c, "witnessed") /\ Goto(c, "attested") /\ UNCHANGED index
             \/ Goto(c, "settling") /\ UNCHANGED index
      BY <2>4 DEF WitnessArtifact, Check, Proceed
    <3>2. Others(c) /\ pc'[c] \in {"idle", "attested", "settling"}
          /\ (pc'[c] = "attested" => At(c, "witnessed"))
      BY <3>1, <1>s, Moves
    <3> QED
      BY <3>1, <3>2, <1>f DEF KeepInv, At
  <2>5. CASE BeginCommit(c)
    <3>1. UNCHANGED <<live, safe>> /\ At(c, "attested")
          /\ (Finish(c) \/ (Goto(c, "deleting") /\ UNCHANGED index))
      BY <2>5 DEF BeginCommit
    <3>2. Others(c) /\ pc'[c] \in {"idle", "deleting"} /\ safe = {}
      BY <3>1, <1>s, Moves DEF KeepInv, At
    <3> QED
      BY <3>1, <3>2, <1>f
  <2>6. CASE Remove(c) \/ RemoveFails(c)
    <3>1. /\ UNCHANGED <<index, safe>> /\ At(c, "deleting")
          /\ Goto(c, "failing") \/ Goto(c, "removed")
          /\ \A p \in Paths \ {LongestFirst[index[c]]} : live'[p] = live[p]
      BY <2>6, <2>p, <1>t DEF Remove, RemoveFails
    <3>2. Others(c) /\ pc'[c] \in {"failing", "removed"}
      BY <3>1, <1>s, Moves
    <3>3. \A i \in index[c]..Count : LongestFirst[i] \notin safe
      BY <3>1 DEF KeepInv, At
    <3>4. LongestFirst[index[c]] \notin safe
      BY <3>3, <2>p
    <3> QED
      BY <3>1, <3>2, <3>3, <3>4, <1>f, <1>t
  <2>7. CASE PutProgress(c)
    <3>1. UNCHANGED <<live, safe>> /\ At(c, "removed") /\ NextPath(c, "deleting", "concluding")
      BY <2>7 DEF PutProgress
    <3>2. Others(c) /\ ((pc'[c] = "deleting" /\ index'[c] = index[c] + 1) \/ pc'[c] = "concluding")
      BY <3>1, <1>s, Moves
    <3>3. \A i \in index[c]..Count : LongestFirst[i] \notin safe
      BY <3>1 DEF KeepInv, At
    <3>4. \A i \in (index[c] + 1)..Count : LongestFirst[i] \notin safe
      BY <3>3, <2>p
    <3> QED
      BY <3>1, <3>2, <3>4, <1>f
  <2>8. CASE Survey(c)
    <3>1. UNCHANGED <<live, safe>>
          /\ \/ Finish(c) \/ NextPath(c, "surveying", "checking")
             \/ live[Sorted[index[c]]] = "absent" /\ Goto(c, "restoring") /\ UNCHANGED index
      BY <2>8 DEF Survey
    <3>2. /\ Others(c) /\ pc'[c] \in {"idle", "surveying", "checking", "restoring"}
          /\ pc'[c] = "restoring" => live[Sorted[index[c]]] = "absent" /\ index'[c] = index[c]
      BY <3>1, <1>s, Moves
    <3>3. live[Sorted[index[c]]] = "absent" => Sorted[index[c]] \notin safe
      BY DEF KeepInv, ForeignContentsKept
    <3> QED
      BY <3>1, <3>2, <3>3, <1>f
  <2>9. CASE Restore(c)
    <3>1. /\ UNCHANGED safe /\ At(c, "restoring") /\ NextPath(c, "surveying", "checking")
          /\ \A p \in Paths \ {Sorted[index[c]]} : live'[p] = live[p]
      BY <2>9, <1>t DEF Restore
    <3>2. Others(c) /\ pc'[c] \in {"surveying", "checking"}
      BY <3>1, <1>s, Moves
    <3>3. Sorted[index[c]] \notin safe
      BY <3>1 DEF KeepInv
    <3> QED
      BY <3>1, <3>2, <3>3, <1>f, <1>t
  <2>10. CASE Interrupt(c)
    <3>1. Finish(c) /\ UNCHANGED safe
          /\ \A p \in Paths : live'[p] = live[p] \/ live[p] \in {"original", "absent"}
      BY <2>10, <1>t DEF Interrupt
    <3>2. Others(c) /\ pc'[c] = "idle"
      BY <3>1, Moves
    <3>3. \A p \in safe : live'[p] = live[p]
      BY <3>1, <1>t DEF KeepInv, ForeignContentsKept
    <3> QED
      BY <3>1, <3>2, <3>3, <1>f
  <2>11. CASE PutProgressFails(c)
    <3>1. UNCHANGED <<live, safe, index>> /\ Goto(c, "failing")
      BY <2>11 DEF PutProgressFails
    <3>2. Others(c) /\ pc'[c] = "failing"
      BY <3>1, <1>s, Moves
    <3> QED
      BY <3>1, <3>2, <1>f
  <2> QED
    BY <1>2, <2>1, <2>2, <2>3, <2>4, <2>5, <2>6, <2>7, <2>8, <2>9, <2>10, <2>11
       DEF CallNext, PrepareStep, CommitStep, RecoverStep
\* Somebody else's write is counted only where no call has looked.
<1>3. ASSUME NEW p \in Paths, Drift(p) PROVE KeepInv'
  <2>1. UNCHANGED <<pc, index>> /\ live'[p] = "foreign"
        /\ \A q \in Paths \ {p} : live'[q] = live[q]
    BY <1>3, <1>t DEF Drift
  <2>2. safe' = IF \E c \in Calls : Armed(c, p) THEN safe ELSE safe \cup {p}
    BY <1>3 DEF Drift
  <2>3. ForeignContentsKept'
    BY <2>1, <2>2, <1>t DEF KeepInv, ForeignContentsKept
  <2>4. ASSUME NEW c \in Calls PROVE Careful(c)
    <3>1. CASE safe' = safe
      BY <2>1, <3>1 DEF KeepInv, At
    <3>2. CASE safe' = safe \cup {p} /\ ~Armed(c, p)
      <4>1. pc[c] \notin {"witnessed", "attested"}
        BY <3>2 DEF Armed
      <4>2. pc[c] \in {"deleting", "removed"} => \A i \in index[c]..Count : LongestFirst[i] # p
        BY <3>2 DEF Armed
      <4>3. pc[c] = "restoring" => Sorted[index[c]] # p
        BY <3>2 DEF Armed, At
      <4> QED
        BY <2>1, <3>2, <4>1, <4>2, <4>3 DEF KeepInv, At
    <3> QED
      BY <2>2, <3>1, <3>2
  <2> QED
    BY <2>3, <2>4 DEF KeepInv, At
<1>4. ASSUME NEW p \in Paths, SpoilArtifact(p) PROVE KeepInv'
  BY <1>4 DEF SpoilArtifact, KeepInv, ForeignContentsKept, At
<1> QED
  BY <1>1, <1>2, <1>3, <1>4 DEF Next

\* However calls, crashes and other writers interleave, what somebody else wrote
\* where no call had already looked stays.
THEOREM ForeignContentsStay == Spec => []ForeignContentsKept
<1>1. Init => KeepInv
  BY DEF Init, KeepInv, ForeignContentsKept, At
<1>2. KeepInv => ForeignContentsKept
  BY DEF KeepInv
<1> QED
  BY <1>1, <1>2, TypeInit, TypeStep, KeepStep, PTL DEF Spec

-----------------------------------------------------------------------------
(* The ledger's status never goes back: one proof, and one removal of each *)
(* path.                                                                   *)

Prepares(c) == pc[c] \in PrepareSteps
Deletes(c) == pc[c] \in {"deleting", "removed", "failing", "concluding"}
Recovers(c) == pc[c] \in RecoverSteps
Unspent == ledger.status \in {"none", "proven"}

\* Only one call prepares, and only one gets past beginCommit; whoever has
\* begun or recovers puts no earlier status.
StatusInv ==
  /\ \A c \in Calls :
       /\ Prepares(c) => ledger.status = "none"
       /\ pc[c] \notin PrepareSteps \cup {"idle"} => ledger.status # "none"
       /\ Deletes(c) => ~Unspent /\ snap[c].status = "committing"
       /\ Recovers(c) => ~Unspent /\ snap[c].status \in {"committing", "committed"}
  /\ \A c, d \in Calls : Prepares(c) /\ Prepares(d) => c = d
  /\ \A c, d \in Calls : Deletes(c) /\ Deletes(d) => c = d

\* The paths whose turn has not come have not been removed.
RemovalInv ==
  /\ RemovedOnce
  /\ Unspent => \A p \in Paths : removals[p] = 0
  /\ \A c \in Calls :
       /\ At(c, "deleting") => \A i \in index[c]..Count : removals[LongestFirst[i]] = 0
       /\ At(c, "removed") => \A i \in (index[c] + 1)..Count : removals[LongestFirst[i]] = 0

\* What the calls' steps do to the status, and where they go.
LEMMA StatusSteps ==
  ASSUME TypeOK, StatusInv, NEW c \in Calls, CallNext(c)
  PROVE  \/ /\ UNCHANGED <<ledger, snap>>
            /\ \/ Prepares(c) /\ pc'[c] \in PrepareSteps
               \/ pc[c] \in CommitSteps \ {"attested", "concluding"}
                    /\ pc'[c] \in CommitSteps
                    /\ (pc'[c] \in {"deleting", "removed", "failing", "concluding"} => Deletes(c))
               \/ Recovers(c) /\ pc'[c] \in RecoverSteps
         \/ UNCHANGED ledger /\ pc'[c] = "idle"
         \/ Collect(c) /\ ledger.status = "none" /\ UNCHANGED ledger /\ pc'[c] = "copying"
         \/ CommitCall(c) /\ UNCHANGED ledger /\ pc'[c] = "verified" /\ ledger.status = "proven"
         \/ RecoverCall(c) /\ UNCHANGED ledger /\ pc'[c] = "surveying" /\ snap'[c] = ledger
              /\ ledger.status \in {"committing", "committed"}
         \/ Drill(c) /\ ledger'.status = "proven" /\ Intact(payload) /\ pc'[c] = "idle"
         \/ BeginCommit(c) /\ ledger.status = "proven" /\ ledger'.status = "committing"
              /\ snap'[c] = ledger' /\ pc'[c] = "deleting"
         \/ PutProgress(c) /\ ledger'.status = "committing" /\ snap'[c].status = "committing"
              /\ pc'[c] \in {"deleting", "concluding"}
         \/ /\ PutProgressFails(c) /\ (UNCHANGED ledger \/ ledger'.status = "committing")
            /\ snap'[c].status = "committing" /\ pc'[c] = "failing"
         \/ /\ Deletes(c) \/ Recovers(c)
            /\ ledger'.status \in {"committing", "committed", "recovered"} /\ pc'[c] = "idle"
<1> USE Orders DEF history, resources
<1>s. /\ {"idle", "copying", "drilling", "verified", "witnessed", "attested", "deleting", "removed",
          "failing", "concluding", "surveying", "restoring", "checking", "settling"} \subseteq Steps
  BY DEF Steps, PrepareSteps, CommitSteps, RecoverSteps
<1>t. ledger \in Records /\ snap \in [Calls -> Records] /\ snap[c] \in Records
      /\ {"proven", "committing", "committed", "recovered"} \subseteq Statuses
      /\ index[c] \in 1..Count /\ LongestFirst[index[c]] \in Paths
  BY DEF TypeOK, Statuses
<1>1. CASE Collect(c)
  BY <1>1, <1>s, Moves DEF Collect, Call, NoRecord
<1>2. CASE CommitCall(c)
  BY <1>2, <1>s, Moves DEF CommitCall, Call
<1>3. CASE RecoverCall(c)
  BY <1>3, <1>s, Moves DEF RecoverCall, Call
<1>4. CASE Copy(c)
  <2>1. UNCHANGED ledger /\ At(c, "copying")
        /\ (Finish(c) \/ (NextPath(c, "copying", "drilling") /\ UNCHANGED snap))
    BY <1>4 DEF Copy
  <2> QED
    BY <2>1, <1>s, Moves DEF Prepares, PrepareSteps, At
<1>5. CASE Drill(c)
  <2>1. pc'[c] = "idle" /\ (UNCHANGED ledger \/
          (Intact(payload) /\ ledger' = [ledger EXCEPT !.status = "proven"]))
    BY <1>5, Moves DEF Drill
  <2>2. [ledger EXCEPT !.status = "proven"].status = "proven"
    BY <1>t, RecordUpdates
  <2> QED
    BY <1>5, <2>1, <2>2
<1>6. CASE WitnessLive(c) \/ WitnessArtifact(c)
  <2>1. UNCHANGED ledger /\ pc[c] \in {"verified", "witnessed"}
        /\ \/ Finish(c)
           \/ (Goto(c, "witnessed") \/ Goto(c, "attested")) /\ UNCHANGED snap
    BY <1>6 DEF WitnessLive, WitnessArtifact, Proceed, At
  <2>2. \/ pc'[c] = "idle"
        \/ pc'[c] \in {"witnessed", "attested"} /\ UNCHANGED snap
    BY <2>1, <1>s, Moves
  <2> QED
    BY <2>1, <2>2 DEF CommitSteps
<1>7. CASE BeginCommit(c)
  <2>1. CASE ledger.status = "proven"
    <3>1. /\ ledger' = [ledger EXCEPT !.status = "committing", !.failed = FALSE]
          /\ snap' = [snap EXCEPT ![c] = ledger'] /\ Goto(c, "deleting")
      BY <1>7, <2>1 DEF BeginCommit
    <3>2. ledger'.status = "committing" /\ snap'[c] = ledger' /\ pc'[c] = "deleting"
      BY <3>1, <1>s, <1>t, Moves, RecordUpdates
    <3> QED
      BY <1>7, <2>1, <3>2
  <2>2. CASE ledger.status # "proven"
    BY <1>7, <2>2, Moves DEF BeginCommit
  <2> QED
    BY <2>1, <2>2
<1>8. CASE Remove(c) \/ RemoveFails(c)
  <2>1. UNCHANGED <<ledger, snap>> /\ At(c, "deleting") /\ (Goto(c, "failing") \/ Goto(c, "removed"))
    BY <1>8 DEF Remove, RemoveFails
  <2>2. pc'[c] \in {"failing", "removed"}
    BY <2>1, <1>s, Moves
  <2> QED
    BY <2>1, <2>2 DEF At, Deletes, CommitSteps
<1>9. CASE PutProgress(c)
  <2>1. /\ snap' = [snap EXCEPT ![c] = [snap[c] EXCEPT !.committedPaths = @ \cup {LongestFirst[index[c]]}]]
        /\ ledger' = snap'[c] /\ NextPath(c, "deleting", "concluding") /\ Deletes(c)
    BY <1>9 DEF PutProgress, Deletes, At
  <2>2. snap'[c].status = snap[c].status
    BY <2>1, <1>t, RecordUpdates
  <2>3. snap[c].status = "committing"
    BY <2>1 DEF StatusInv
  <2>4. pc'[c] \in {"deleting", "concluding"}
    BY <2>1, <1>s, Moves
  <2> QED
    BY <1>9, <2>1, <2>2, <2>3, <2>4
<1>10. CASE PutFailure(c)
  <2>1. ledger' = [snap[c] EXCEPT !.failed = TRUE] /\ Deletes(c) /\ Finish(c)
    BY <1>10 DEF PutFailure, Deletes, At
  <2>2. ledger'.status = snap[c].status /\ snap[c].status = "committing"
    BY <2>1, <1>t, RecordUpdates DEF StatusInv
  <2> QED
    BY <2>1, <2>2, Moves
<1>11. CASE PutCommitted(c)
  <2>1. ledger' = [snap[c] EXCEPT !.status = "committed"] /\ Deletes(c) /\ Finish(c)
    BY <1>11 DEF PutCommitted, Deletes, At
  <2> QED
    BY <2>1, <1>t, RecordUpdates, Moves
<1>12. CASE PutRecovered(c)
  <2>1. ledger' = [snap[c] EXCEPT !.status = "recovered"] /\ Recovers(c) /\ Finish(c)
    BY <1>12 DEF PutRecovered, Recovers, RecoverSteps, At
  <2> QED
    BY <2>1, <1>t, RecordUpdates, Moves
<1>13. CASE Survey(c) \/ Restore(c) \/ Check(c)
  <2>1. UNCHANGED ledger /\ pc[c] \in {"surveying", "restoring", "checking"}
        /\ \/ Finish(c)
           \/ /\ NextPath(c, "surveying", "checking") \/ Goto(c, "restoring") \/ Goto(c, "settling")
              /\ UNCHANGED snap
    BY <1>13 DEF Survey, Restore, Check, Proceed, At
  <2>2. \/ pc'[c] = "idle"
        \/ pc'[c] \in {"surveying", "checking", "restoring", "settling"} /\ UNCHANGED snap
    BY <2>1, <1>s, Moves
  <2> QED
    BY <2>1, <2>2 DEF Recovers, RecoverSteps
<1>14. CASE Interrupt(c)
  BY <1>14, Moves DEF Interrupt
<1>15. CASE PutProgressFails(c)
  <2>1. /\ snap' = [snap EXCEPT ![c] = [snap[c] EXCEPT !.committedPaths = @ \cup {LongestFirst[index[c]]}]]
        /\ ledger' \in {ledger, snap'[c]} /\ Goto(c, "failing") /\ Deletes(c)
    BY <1>15 DEF PutProgressFails, Deletes, At
  <2>2. snap'[c].status = snap[c].status
    BY <2>1, <1>t, RecordUpdates
  <2>3. snap[c].status = "committing"
    BY <2>1 DEF StatusInv
  <2>4. pc'[c] = "failing"
    BY <2>1, <1>s, Moves
  <2> QED
    BY <1>15, <2>1, <2>2, <2>3, <2>4
<1> QED
  BY <1>1, <1>2, <1>3, <1>4, <1>5, <1>6, <1>7, <1>8, <1>9, <1>10, <1>11, <1>12, <1>13, <1>14, <1>15
     DEF CallNext, PrepareStep, CommitStep, RecoverStep
LEMMA OthersStay ==
  ASSUME TypeOK, NEW c \in Calls, CallNext(c)
  PROVE  \A d \in Calls \ {c} : pc'[d] = pc[d] /\ snap'[d] = snap[d] /\ index'[d] = index[d]
<1> USE DEF history, resources
<1>s. /\ {"idle", "copying", "drilling", "verified", "witnessed", "attested", "deleting", "removed",
          "failing", "concluding", "surveying", "restoring", "checking", "settling"} \subseteq Steps
  BY DEF Steps, PrepareSteps, CommitSteps, RecoverSteps
<1>1. CASE Collect(c) \/ CommitCall(c) \/ RecoverCall(c)
  <2>1. Call(c, "copying") \/ Call(c, "verified") \/ Call(c, "surveying")
    BY <1>1 DEF Collect, CommitCall, RecoverCall
  <2> QED
    BY <2>1, <1>s, Moves DEF Call
<1>2. CASE Copy(c) \/ Survey(c) \/ Restore(c)
  <2>1. \/ Finish(c)
        \/ (NextPath(c, "copying", "drilling") \/ NextPath(c, "surveying", "checking"))
             /\ UNCHANGED snap
        \/ Goto(c, "restoring") /\ UNCHANGED <<index, snap>>
    BY <1>2 DEF Copy, Survey, Restore
  <2> QED
    BY <2>1, <1>s, Moves
<1>3. CASE Drill(c) \/ PutFailure(c) \/ PutCommitted(c) \/ PutRecovered(c) \/ Interrupt(c)
  BY <1>3, Moves DEF Drill, PutFailure, PutCommitted, PutRecovered, Interrupt
<1>4. CASE WitnessLive(c) \/ WitnessArtifact(c) \/ Check(c) \/ Remove(c) \/ RemoveFails(c)
  <2>1. \/ Finish(c)
        \/ /\ \/ Goto(c, "witnessed") \/ Goto(c, "attested") \/ Goto(c, "settling")
              \/ Goto(c, "failing") \/ Goto(c, "removed")
           /\ UNCHANGED <<index, snap>>
    BY <1>4 DEF WitnessLive, WitnessArtifact, Check, Proceed, Remove, RemoveFails
  <2> QED
    BY <2>1, <1>s, Moves
<1>5. CASE BeginCommit(c)
  <2>1. Finish(c) \/ (Goto(c, "deleting") /\ UNCHANGED index /\ snap' = [snap EXCEPT ![c] = ledger'])
    BY <1>5 DEF BeginCommit
  <2> QED
    BY <2>1, <1>s, Moves DEF TypeOK
<1>6. CASE PutProgress(c)
  <2>1. NextPath(c, "deleting", "concluding") /\ \E x : snap' = [snap EXCEPT ![c] = x]
    BY <1>6 DEF PutProgress
  <2> QED
    BY <2>1, <1>s, Moves DEF TypeOK
<1>7. CASE PutProgressFails(c)
  <2>1. Goto(c, "failing") /\ UNCHANGED index /\ \E x : snap' = [snap EXCEPT ![c] = x]
    BY <1>7 DEF PutProgressFails
  <2> QED
    BY <2>1, <1>s, Moves DEF TypeOK
<1> QED
  BY <1>1, <1>2, <1>3, <1>4, <1>5, <1>6, <1>7 DEF CallNext, PrepareStep, CommitStep, RecoverStep

LEMMA StatusStep == TypeOK /\ StatusInv /\ [Next]_vars => StatusInv'
<1> SUFFICES ASSUME TypeOK, StatusInv, [Next]_vars PROVE StatusInv'
  OBVIOUS
<1> USE DEF history, resources
<1>1. ASSUME UNCHANGED <<ledger, pc, snap>> PROVE StatusInv'
  BY <1>1 DEF StatusInv, Prepares, Deletes, Recovers, Unspent
<1>2. CASE UNCHANGED vars \/ Approve \/ \E p \in Paths : Drift(p) \/ SpoilArtifact(p)
  BY <1>1, <1>2 DEF vars, Approve, Drift, SpoilArtifact
<1>3. ASSUME NEW c \in Calls, CallNext(c) PROVE StatusInv'
  <2> USE DEF Prepares, Deletes, Recovers, Unspent, PrepareSteps, CommitSteps, RecoverSteps
  <2>o. \A d \in Calls \ {c} : pc'[d] = pc[d] /\ snap'[d] = snap[d]
    BY <1>3, OthersStay
  <2>1. CASE /\ UNCHANGED <<ledger, snap>>
             /\ \/ Prepares(c) /\ pc'[c] \in PrepareSteps
                \/ pc[c] \in CommitSteps \ {"attested", "concluding"}
                     /\ pc'[c] \in CommitSteps
                     /\ (pc'[c] \in {"deleting", "removed", "failing", "concluding"} => Deletes(c))
                \/ Recovers(c) /\ pc'[c] \in RecoverSteps
    <3>1. CASE Prepares(c) /\ pc'[c] \in PrepareSteps
      BY <2>1, <3>1, <2>o DEF StatusInv
    <3>2. CASE /\ pc[c] \in CommitSteps \ {"attested", "concluding"} /\ pc'[c] \in CommitSteps
               /\ (pc'[c] \in {"deleting", "removed", "failing", "concluding"} => Deletes(c))
      BY <2>1, <3>2, <2>o DEF StatusInv
    <3>3. CASE Recovers(c) /\ pc'[c] \in RecoverSteps
      BY <2>1, <3>3, <2>o DEF StatusInv
    <3> QED
      BY <2>1, <3>1, <3>2, <3>3
  <2>2. CASE UNCHANGED ledger /\ pc'[c] = "idle"
    BY <2>2, <2>o DEF StatusInv
  <2>3. CASE Collect(c) /\ ledger.status = "none" /\ UNCHANGED ledger /\ pc'[c] = "copying"
    <3>1. \A d \in Calls : pc[d] = "idle"
      BY <2>3 DEF Collect, At
    <3> QED
      BY <2>3, <3>1, <2>o DEF StatusInv
  <2>4. CASE UNCHANGED ledger /\ pc'[c] = "verified" /\ ledger.status = "proven"
    BY <2>4, <2>o DEF StatusInv
  <2>5. CASE UNCHANGED ledger /\ pc'[c] = "surveying" /\ snap'[c] = ledger
             /\ ledger.status \in {"committing", "committed"}
    BY <2>5, <2>o DEF StatusInv
  <2>6. CASE Drill(c) /\ ledger'.status = "proven" /\ pc'[c] = "idle"
    <3>1. Prepares(c) /\ ledger.status = "none"
      BY <2>6 DEF Drill, At, StatusInv
    <3>2. \A d \in Calls \ {c} : pc[d] = "idle"
      BY <3>1 DEF StatusInv
    <3> QED
      BY <2>6, <3>1, <3>2, <2>o DEF StatusInv
  <2>7. CASE ledger.status = "proven" /\ ledger'.status = "committing"
             /\ snap'[c] = ledger' /\ pc'[c] = "deleting"
    BY <2>7, <2>o DEF StatusInv
  <2>8. CASE PutProgress(c) /\ ledger'.status = "committing" /\ snap'[c].status = "committing"
             /\ pc'[c] \in {"deleting", "concluding"}
    <3>1. Deletes(c)
      BY <2>8 DEF PutProgress, At
    <3> QED
      BY <2>8, <3>1, <2>o DEF StatusInv
  <2>9. CASE /\ Deletes(c) \/ Recovers(c)
             /\ ledger'.status \in {"committing", "committed", "recovered"} /\ pc'[c] = "idle"
    BY <2>9, <2>o DEF StatusInv
  <2>10. \/ /\ UNCHANGED <<ledger, snap>>
            /\ \/ Prepares(c) /\ pc'[c] \in PrepareSteps
               \/ pc[c] \in CommitSteps \ {"attested", "concluding"}
                    /\ pc'[c] \in CommitSteps
                    /\ (pc'[c] \in {"deleting", "removed", "failing", "concluding"} => Deletes(c))
               \/ Recovers(c) /\ pc'[c] \in RecoverSteps
         \/ UNCHANGED ledger /\ pc'[c] = "idle"
         \/ Collect(c) /\ ledger.status = "none" /\ UNCHANGED ledger /\ pc'[c] = "copying"
         \/ UNCHANGED ledger /\ pc'[c] = "verified" /\ ledger.status = "proven"
         \/ UNCHANGED ledger /\ pc'[c] = "surveying" /\ snap'[c] = ledger
              /\ ledger.status \in {"committing", "committed"}
         \/ Drill(c) /\ ledger'.status = "proven" /\ pc'[c] = "idle"
         \/ ledger.status = "proven" /\ ledger'.status = "committing"
              /\ snap'[c] = ledger' /\ pc'[c] = "deleting"
         \/ PutProgress(c) /\ ledger'.status = "committing" /\ snap'[c].status = "committing"
              /\ pc'[c] \in {"deleting", "concluding"}
         \/ /\ PutProgressFails(c) /\ (UNCHANGED ledger \/ ledger'.status = "committing")
            /\ snap'[c].status = "committing" /\ pc'[c] = "failing"
         \/ /\ Deletes(c) \/ Recovers(c)
            /\ ledger'.status \in {"committing", "committed", "recovered"} /\ pc'[c] = "idle"
    BY <1>3, StatusSteps
  <2>11. CASE /\ PutProgressFails(c) /\ (UNCHANGED ledger \/ ledger'.status = "committing")
              /\ snap'[c].status = "committing" /\ pc'[c] = "failing"
    <3>1. Deletes(c)
      BY <2>11 DEF PutProgressFails, At
    <3> QED
      BY <2>11, <3>1, <2>o DEF StatusInv
  <2> QED
    BY <2>10, <2>1, <2>2, <2>3, <2>4, <2>5, <2>6, <2>7, <2>8, <2>9, <2>11
<1> QED
  BY <1>2, <1>3 DEF Next
\* The first status a step gives, and that none is taken back.
LEMMA StatusForward ==
  ASSUME TypeOK, StatusInv, NEW c \in Calls, CallNext(c)
  PROVE  /\ ledger.status = "none" /\ ledger'.status # "none" => Intact(payload) /\ Drill(c)
         /\ Unspent' => Unspent
<1> USE DEF Unspent
<1>1. Deletes(c) => ~Unspent
  BY DEF StatusInv
<1>2. Recovers(c) => ~Unspent
  BY DEF StatusInv
<1>3. \/ UNCHANGED ledger
      \/ Drill(c) /\ Intact(payload)
      \/ ledger.status = "proven"
      \/ PutProgress(c) \/ PutProgressFails(c)
      \/ Deletes(c) \/ Recovers(c)
  BY StatusSteps
<1>4. PutProgress(c) \/ PutProgressFails(c) => Deletes(c)
  BY DEF PutProgress, PutProgressFails, At, Deletes
<1>5. Drill(c) => ledger.status = "none"
  BY DEF Drill, At, StatusInv, Prepares, PrepareSteps
<1>6. \/ ledger'.status = ledger.status \/ Unspent
      \/ ledger'.status \in {"committing", "committed", "recovered"}
  BY <1>1, <1>2, <1>5, StatusSteps
<1> QED
  BY <1>1, <1>2, <1>3, <1>4, <1>5, <1>6

LEMMA CopyStep ==
  TypeOK /\ StatusInv /\ ProvenMeansRestorable /\ [Next]_vars => ProvenMeansRestorable'
<1> SUFFICES ASSUME TypeOK, StatusInv, ProvenMeansRestorable, [Next]_vars
             PROVE  ProvenMeansRestorable'
  OBVIOUS
<1> USE DEF history, resources, ProvenMeansRestorable, Intact
<1>1. CASE UNCHANGED vars \/ Approve
  BY <1>1 DEF vars, Approve
<1>2. ASSUME NEW p \in Paths, Drift(p) \/ SpoilArtifact(p) PROVE ProvenMeansRestorable'
  BY <1>2 DEF Drift, SpoilArtifact
<1>3. ASSUME NEW c \in Calls, CallNext(c) PROVE ProvenMeansRestorable'
  <2>1. CASE Copy(c)
    <3>1. ledger.status = "none" /\ ledger' = ledger
      BY <2>1 DEF Copy, At, StatusInv, Prepares, PrepareSteps
    <3> QED
      BY <3>1
  <2>2. CASE ~Copy(c)
    <3>1. UNCHANGED <<payload, spoiled>>
      BY <1>3, <2>2 DEF CallNext, PrepareStep, CommitStep, RecoverStep, Collect, CommitCall,
           RecoverCall, Call, Drill, WitnessLive, WitnessArtifact, Proceed, BeginCommit, Remove,
           RemoveFails, PutProgress, PutProgressFails, PutFailure, PutCommitted, Survey, Restore,
           Check, PutRecovered, Interrupt
    <3> QED
      BY <1>3, <3>1, StatusForward
  <2> QED
    BY <2>1, <2>2
<1> QED
  BY <1>1, <1>2, <1>3 DEF Next

\* What is proven can be restored until somebody writes to the artifact.
THEOREM ProofMeansRestorable == Spec => []ProvenMeansRestorable
<1>1. Init => StatusInv /\ ProvenMeansRestorable
  BY DEF Init, NoRecord, StatusInv, ProvenMeansRestorable, Prepares, Deletes, Recovers,
         PrepareSteps, RecoverSteps
<1> QED
  BY <1>1, TypeInit, TypeStep, StatusStep, CopyStep, PTL DEF Spec

LEMMA RemovalStep == TypeOK /\ StatusInv /\ RemovalInv /\ [Next]_vars => RemovalInv'
<1> SUFFICES ASSUME TypeOK, StatusInv, RemovalInv, [Next]_vars PROVE RemovalInv'
  OBVIOUS
<1> USE Orders DEF history, resources, At
<1>t. removals \in [Paths -> Nat] /\ index \in [Calls -> 1..Count]
  BY DEF TypeOK
<1>s. /\ {"idle", "copying", "drilling", "verified", "witnessed", "attested", "deleting", "removed",
          "failing", "concluding", "surveying", "restoring", "checking", "settling"} \subseteq Steps
  BY DEF Steps, PrepareSteps, CommitSteps, RecoverSteps
<1>1. CASE UNCHANGED vars \/ Approve \/ \E p \in Paths : Drift(p) \/ SpoilArtifact(p)
  BY <1>1 DEF vars, Approve, Drift, SpoilArtifact, RemovalInv, RemovedOnce, Unspent
<1>2. ASSUME NEW c \in Calls, CallNext(c) PROVE RemovalInv'
  <2>o. \A d \in Calls \ {c} : pc'[d] = pc[d] /\ index'[d] = index[d]
    BY <1>2, OthersStay
  <2>u. Unspent' => Unspent
    BY <1>2, StatusForward
  <2>p. index[c] \in 1..Count /\ LongestFirst[index[c]] \in Paths
    BY <1>t
  <2>1. \/ removals' = removals
        \/ /\ pc[c] = "deleting" /\ UNCHANGED ledger
           /\ removals' = [removals EXCEPT ![LongestFirst[index[c]]] = @ + 1]
           /\ pc'[c] \in {"removed", "failing", "idle"}
           /\ pc'[c] = "removed" => index'[c] = index[c]
    <3>1. CASE Remove(c) \/ RemoveFails(c)
      <4>1. /\ pc[c] = "deleting" /\ UNCHANGED <<ledger, index>>
            /\ Goto(c, "removed") \/ Goto(c, "failing")
            /\ \/ removals' = removals
               \/ removals' = [removals EXCEPT ![LongestFirst[index[c]]] = @ + 1]
        BY <3>1 DEF Remove, RemoveFails
      <4> QED
        BY <4>1, <1>s, Moves
    <3>2. CASE Interrupt(c)
      <4>1. Finish(c) /\ UNCHANGED ledger
            /\ \/ removals' = removals
               \/ /\ pc[c] = "deleting"
                  /\ removals' = [removals EXCEPT ![LongestFirst[index[c]]] = @ + 1]
        BY <3>2 DEF Interrupt
      <4> QED
        BY <4>1, Moves
    <3>3. CASE ~(Remove(c) \/ RemoveFails(c) \/ Interrupt(c))
      BY <1>2, <3>3 DEF CallNext, PrepareStep, CommitStep, RecoverStep, Collect, CommitCall,
           RecoverCall, Call, Copy, Drill, WitnessLive, WitnessArtifact, Proceed, BeginCommit,
           PutProgress, PutProgressFails, PutFailure, PutCommitted, Survey, Restore, Check,
           PutRecovered
    <3> QED
      BY <3>1, <3>2, <3>3
  <2>2. CASE removals' = removals
    <3>1. pc'[c] = "deleting" => \A i \in index'[c]..Count : removals[LongestFirst[i]] = 0
      <4>1. pc'[c] = "deleting" => (BeginCommit(c) /\ ledger.status = "proven") \/ PutProgress(c)
        <5> USE DEF PrepareSteps, RecoverSteps, Deletes
        <5>1. ASSUME pc[c] \in CommitSteps \ {"attested", "concluding"}, pc'[c] = "deleting",
                     CallNext(c), UNCHANGED <<ledger, snap>>, Deletes(c)
              PROVE  PutProgress(c)
          <6>1. CASE Remove(c) \/ RemoveFails(c) \/ PutProgressFails(c)
            <7>1. Goto(c, "removed") \/ Goto(c, "failing")
              BY <6>1 DEF Remove, RemoveFails, PutProgressFails
            <7> QED
              BY <7>1, <5>1, <1>s, Moves
          <6>2. CASE Interrupt(c) \/ PutFailure(c)
            <7>1. Finish(c)
              BY <6>2 DEF Interrupt, PutFailure
            <7> QED
              BY <7>1, <5>1, Moves
          <6>3. pc[c] \in {"deleting", "removed", "failing"}
            BY <5>1
          <6> QED
            BY <5>1, <6>1, <6>2, <6>3
               DEF CallNext, PrepareStep, CommitStep, RecoverStep, Collect, CommitCall, RecoverCall,
                   Call, Copy, Drill, WitnessLive, WitnessArtifact, Proceed, BeginCommit,
                   PutCommitted, Survey, Restore, Check, PutRecovered
        <5> QED
          BY <1>2, <5>1, StatusSteps
      <4>2. CASE BeginCommit(c) /\ ledger.status = "proven"
        <5>1. \A p \in Paths : removals[p] = 0
          BY <4>2 DEF RemovalInv, Unspent
        <5>2. index'[c] = index[c]
          BY <4>2 DEF BeginCommit
        <5> QED
          BY <5>1, <5>2, <2>p
      <4>3. CASE PutProgress(c)
        <5>1. pc[c] = "removed" /\ NextPath(c, "deleting", "concluding")
          BY <4>3 DEF PutProgress
        <5>2. pc'[c] = "deleting" => index'[c] = index[c] + 1
          BY <5>1, <1>s, Moves
        <5> QED
          BY <5>1, <5>2 DEF RemovalInv
      <4> QED
        BY <4>1, <4>2, <4>3
    <3>2. pc'[c] # "removed" \/ Remove(c)
      BY <1>2, <1>s, Moves DEF CallNext, PrepareStep, CommitStep, RecoverStep, Collect, CommitCall,
           RecoverCall, Copy, Drill, WitnessLive, WitnessArtifact, Proceed, BeginCommit,
           RemoveFails, PutProgress, PutProgressFails, PutFailure, PutCommitted, Survey, Restore,
           Check, PutRecovered, Interrupt
    <3>3. Remove(c) /\ pc'[c] = "removed" => removals' # removals
      <4>1. ASSUME Remove(c), pc'[c] = "removed" PROVE removals' # removals
        <5>1. ~(Goto(c, "failing"))
          BY <4>1, <1>s, Moves
        <5>2. removals' = [removals EXCEPT ![LongestFirst[index[c]]] = @ + 1]
          BY <4>1, <5>1 DEF Remove
        <5> QED
          BY <5>2, <2>p, <1>t
      <4> QED
        BY <4>1
    <3> QED
      BY <2>2, <2>o, <2>u, <3>1, <3>2, <3>3 DEF RemovalInv, RemovedOnce
  <2>3. CASE /\ pc[c] = "deleting" /\ UNCHANGED ledger
             /\ removals' = [removals EXCEPT ![LongestFirst[index[c]]] = @ + 1]
             /\ pc'[c] \in {"removed", "failing", "idle"}
             /\ pc'[c] = "removed" => index'[c] = index[c]
    <3>1. removals[LongestFirst[index[c]]] = 0 /\ \A i \in index[c]..Count : removals[LongestFirst[i]] = 0
      BY <2>3, <2>p DEF RemovalInv
    <3>2. removals'[LongestFirst[index[c]]] = 1
          /\ \A p \in Paths \ {LongestFirst[index[c]]} : removals'[p] = removals[p]
      BY <2>3, <3>1, <2>p, <1>t
    <3>3. \A i \in (index[c] + 1)..Count : removals'[LongestFirst[i]] = 0
      <4>1. ASSUME NEW i \in (index[c] + 1)..Count PROVE removals'[LongestFirst[i]] = 0
        <5>1. i \in 1..Count /\ i # index[c] /\ i \in index[c]..Count
          BY <2>p
        <5>2. LongestFirst[i] \in Paths \ {LongestFirst[index[c]]}
          BY <5>1, <2>p
        <5> QED
          BY <5>1, <5>2, <3>1, <3>2
      <4> QED
        BY <4>1
    <3>4. \A d \in Calls \ {c} : pc[d] \notin {"deleting", "removed"}
      BY <2>3 DEF StatusInv, Deletes
    <3>5. ~Unspent
      BY <2>3 DEF StatusInv, Deletes
    <3>6. RemovedOnce'
      BY <3>2 DEF RemovalInv, RemovedOnce
    <3> QED
      BY <2>3, <2>o, <2>u, <3>3, <3>4, <3>5, <3>6 DEF RemovalInv
  <2> QED
    BY <2>1, <2>2, <2>3
<1> QED
  BY <1>1, <1>2 DEF Next

\* No path is removed twice, whatever is cut, recovered and tried again.
THEOREM EachPathRemovedOnce == Spec => []RemovedOnce
<1>1. Init => StatusInv
  BY DEF Init, NoRecord, StatusInv, Prepares, Deletes, Recovers, PrepareSteps, RecoverSteps
<1>2. Init => RemovalInv
  BY DEF Init, RemovalInv, RemovedOnce, At
<1>3. RemovalInv => RemovedOnce
  BY DEF RemovalInv
<1> QED
  BY <1>1, <1>2, <1>3, TypeInit, TypeStep, StatusStep, RemovalStep, PTL DEF Spec

-----------------------------------------------------------------------------
(* Undisturbed, the operation is a reversible effect.                      *)

Spent == \E p \in Paths : removals[p] > 0

\* The abstract steps, said of the variables that they are mapped from.
LEMMA Mapped ==
  /\ /\ ledger'.status = ledger.status /\ granted' = granted
     /\ (Intact(live)' <=> Intact(live)) /\ (Spent' <=> Spent)
     => UNCHANGED abstractVars
  /\ /\ ledger.status = "none" /\ ledger'.status = "proven" /\ granted' = granted
     /\ (Intact(live)' <=> Intact(live)) /\ (Spent' <=> Spent)
     => Abstract!Next
  /\ /\ ledger.status = "proven" /\ ledger'.status = "proven" /\ granted' = TRUE
     /\ (Intact(live)' <=> Intact(live)) /\ (Spent' <=> Spent)
     => Abstract!Next
  /\ /\ ledger.status = "proven" /\ ledger'.status = "committing" /\ granted /\ granted' = granted
     /\ (Intact(live)' <=> Intact(live)) /\ (Spent' <=> Spent)
     => Abstract!Next
  /\ /\ ledger.status = "committing" /\ ledger'.status = ledger.status /\ granted' = granted
     /\ ~Spent /\ Spent'
     => Abstract!Next
  /\ /\ ledger.status \in {"committing", "committed"} /\ ledger'.status = ledger.status
     /\ granted' = granted /\ ~Intact(live) /\ Intact(live)' /\ (Spent' <=> Spent)
     => Abstract!Next
  /\ /\ ledger.status = "committing" /\ ledger'.status = "committed" /\ granted' = granted
     /\ ~Intact(live) /\ ~Intact(live)' /\ (Spent' <=> Spent)
     => Abstract!Next
  /\ /\ ledger.status \in {"committing", "committed"} /\ ledger'.status = "recovered"
     /\ granted' = granted /\ Intact(live) /\ Intact(live)' /\ (Spent' <=> Spent)
     => Abstract!Next
<1>1. /\ ledger'.status = ledger.status /\ granted' = granted
      /\ (Intact(live)' <=> Intact(live)) /\ (Spent' <=> Spent)
      => UNCHANGED abstractVars
  BY Zenon DEF abstractVars, Spent, Intact
<1>2. /\ ledger.status = "none" /\ ledger'.status = "proven" /\ granted' = granted
      /\ (Intact(live)' <=> Intact(live)) /\ (Spent' <=> Spent)
      => Abstract!Next
  BY Zenon DEF Abstract!Next, Abstract!Prove, Spent, Intact
<1>3. /\ ledger.status = "proven" /\ ledger'.status = "proven" /\ granted' = TRUE
      /\ (Intact(live)' <=> Intact(live)) /\ (Spent' <=> Spent)
      => Abstract!Next
  BY Zenon DEF Abstract!Next, Abstract!Grant, Spent, Intact
<1>4. /\ ledger.status = "proven" /\ ledger'.status = "committing" /\ granted /\ granted' = granted
      /\ (Intact(live)' <=> Intact(live)) /\ (Spent' <=> Spent)
      => Abstract!Next
  BY Zenon DEF Abstract!Next, Abstract!Begin, Spent, Intact
<1>5. /\ ledger.status = "committing" /\ ledger'.status = ledger.status /\ granted' = granted
      /\ ~Spent /\ Spent'
      => Abstract!Next
  BY Zenon DEF Abstract!Next, Abstract!Apply, Spent, Intact
<1>6. /\ ledger.status \in {"committing", "committed"} /\ ledger'.status = ledger.status
      /\ granted' = granted /\ ~Intact(live) /\ Intact(live)' /\ (Spent' <=> Spent)
      => Abstract!Next
  BY Zenon DEF Abstract!Next, Abstract!Undo, Spent, Intact
<1>7. /\ ledger.status = "committing" /\ ledger'.status = "committed" /\ granted' = granted
      /\ ~Intact(live) /\ ~Intact(live)' /\ (Spent' <=> Spent)
      => Abstract!Next
  BY Zenon DEF Abstract!Next, Abstract!ReceiptCommitted, Spent, Intact
<1>8. /\ ledger.status \in {"committing", "committed"} /\ ledger'.status = "recovered"
      /\ granted' = granted /\ Intact(live) /\ Intact(live)' /\ (Spent' <=> Spent)
      => Abstract!Next
  BY Zenon DEF Abstract!Next, Abstract!ReceiptRecovered, Spent, Intact
<1> QED
  BY <1>1, <1>2, <1>3, <1>4, <1>5, <1>6, <1>7, <1>8

\* What holds of one call as long as it is alone and nobody else writes.
FlowOK(c) ==
  /\ pc[c] \in CommitSteps => granted
  /\ Deletes(c) \/ Recovers(c) => ledger.status = snap[c].status
  /\ Deletes(c) /\ Spent => ~Intact(live)
  /\ pc[c] \in {"removed", "concluding"} => Spent
  /\ At(c, "settling") => Intact(live)

FlowInv ==
  Undisturbed =>
    /\ ~spoiled
    /\ \A c, d \in Calls : pc[c] # "idle" /\ pc[d] # "idle" => c = d
    /\ \A c \in Calls : FlowOK(c)

LEMMA AloneSteps ==
  ASSUME TypeOK, FlowInv, Undisturbed', NEW c \in Calls, CallNext(c)
  PROVE  /\ Undisturbed /\ ~spoiled /\ spoiled' = spoiled /\ FlowOK(c)
         /\ \A d \in Calls \ {c} : pc'[d] = "idle"
<1> USE DEF history, resources
<1>t. drifts \in Nat /\ overlapped \in BOOLEAN
  BY DEF TypeOK
<1>1. drifts' = drifts /\ spoiled' = spoiled
  BY DEF CallNext, PrepareStep, CommitStep, RecoverStep, Collect, CommitCall, RecoverCall, Call,
         Copy, Drill, WitnessLive, WitnessArtifact, Check, Proceed, BeginCommit, Remove, RemoveFails,
         PutProgress, PutProgressFails, PutFailure, PutCommitted, Survey, Restore, PutRecovered,
         Interrupt
<1>2. \/ pc[c] # "idle" /\ overlapped' = overlapped
      \/ overlapped' = (overlapped \/ \E d \in Calls : pc[d] # "idle")
  BY DEF CallNext, PrepareStep, CommitStep, RecoverStep, Collect, CommitCall, RecoverCall, Call,
         Copy, Drill, WitnessLive, WitnessArtifact, Check, Proceed, BeginCommit, Remove, RemoveFails,
         PutProgress, PutProgressFails, PutFailure, PutCommitted, Survey, Restore, PutRecovered,
         Interrupt, At
<1>3. Undisturbed
  <2>1. ~overlapped' /\ drifts' = 0
    BY Zenon DEF Undisturbed
  <2>2. ~overlapped
    BY <1>2, <2>1, Zenon
  <2> QED
    BY <1>1, <2>1, <2>2 DEF Undisturbed
<1>4. \A d \in Calls \ {c} : pc[d] = "idle"
  BY <1>2, <1>3 DEF Undisturbed, FlowInv
<1> QED
  BY <1>1, <1>3, <1>4, OthersStay DEF FlowInv

\* A step that leaves the resources, the status and the capability alone.
LEMMA Stutters ==
  ASSUME ledger'.status = ledger.status, UNCHANGED <<granted, live, removals>>
  PROVE  UNCHANGED abstractVars
<1>1. (Intact(live)' <=> Intact(live)) /\ (Spent' <=> Spent)
  BY DEF Intact, Spent
<1> QED
  BY <1>1, Mapped

LEMMA FlowQuiet ==
  ASSUME TypeOK, StatusInv, FlowInv, Undisturbed', NEW c \in Calls,
         \/ Collect(c) \/ Copy(c) \/ CommitCall(c) \/ WitnessLive(c) \/ WitnessArtifact(c)
         \/ PutProgress(c) \/ PutProgressFails(c) \/ PutFailure(c)
         \/ RecoverCall(c) \/ Survey(c) \/ Check(c)
  PROVE  FlowOK(c)' /\ UNCHANGED abstractVars
<1> USE DEF history, resources
<1>s. /\ {"idle", "copying", "drilling", "verified", "witnessed", "attested", "deleting", "removed",
          "failing", "concluding", "surveying", "restoring", "checking", "settling"} \subseteq Steps
  BY DEF Steps, PrepareSteps, CommitSteps, RecoverSteps
<1>a. Undisturbed /\ FlowOK(c)
  BY AloneSteps DEF CallNext, PrepareStep, CommitStep, RecoverStep
<1>t. snap \in [Calls -> Records] /\ pc \in [Calls -> Steps]
  BY DEF TypeOK
<1>i. ASSUME pc'[c] \in {"idle", "copying", "drilling"} PROVE FlowOK(c)'
  BY <1>i DEF FlowOK, CommitSteps, Deletes, Recovers, RecoverSteps, At
<1>1. CASE Collect(c) \/ CommitCall(c) \/ RecoverCall(c)
  <2>1. \/ Call(c, "copying")
        \/ Call(c, "verified") /\ granted
        \/ Call(c, "surveying")
    BY <1>1 DEF Collect, CommitCall, RecoverCall
  <2>2. UNCHANGED <<ledger, granted, live, removals>>
    BY <2>1 DEF Call
  <2>3. FlowOK(c)'
    <3>1. /\ snap'[c] = ledger
          /\ \/ pc'[c] = "copying" \/ (pc'[c] = "verified" /\ granted) \/ pc'[c] = "surveying"
      BY <2>1, <1>s, Moves
    <3> QED
      BY <3>1, <2>2, <1>i DEF FlowOK, CommitSteps, Deletes, Recovers, RecoverSteps, At
  <2> QED
    BY <2>2, <2>3, Stutters
<1>2. CASE Copy(c)
  <2>1. UNCHANGED <<ledger, granted, live, removals>> /\ (Finish(c) \/ NextPath(c, "copying", "drilling"))
    BY <1>2 DEF Copy
  <2>2. pc'[c] \in {"idle", "copying", "drilling"}
    BY <2>1, <1>s, Moves
  <2> QED
    BY <2>1, <2>2, <1>i, Stutters
<1>3. CASE WitnessLive(c) \/ WitnessArtifact(c)
  <2>1. /\ UNCHANGED <<ledger, granted, live, removals>> /\ pc[c] \in {"verified", "witnessed"}
        /\ Finish(c) \/ Goto(c, "witnessed") \/ Goto(c, "attested")
    BY <1>3 DEF WitnessLive, WitnessArtifact, Proceed, At
  <2>2. pc'[c] \in {"idle", "witnessed", "attested"}
    BY <2>1, <1>s, Moves
  <2>3. granted
    BY <2>1, <1>a DEF FlowOK, CommitSteps
  <2> QED
    BY <2>1, <2>2, <2>3, <1>i, Stutters DEF FlowOK, Deletes, Recovers, RecoverSteps, At
<1>4. CASE PutProgress(c)
  <2>1. /\ pc[c] = "removed" /\ ledger' = snap'[c] /\ UNCHANGED <<granted, live, removals>>
        /\ snap' = [snap EXCEPT ![c].committedPaths = @ \cup {LongestFirst[index[c]]}]
        /\ NextPath(c, "deleting", "concluding")
    BY <1>4 DEF PutProgress, At
  <2>2. pc'[c] \in {"deleting", "concluding"}
    BY <2>1, <1>s, Moves
  <2>3. ledger'.status = ledger.status
    <3>1. ledger.status = snap[c].status
      BY <2>1, <1>a DEF FlowOK, Deletes
    <3>2. ledger'.status = "committing"
      BY <1>4, <2>1, <2>2, StatusSteps DEF CallNext, CommitStep, StatusInv, Deletes, Recovers,
           Prepares, PrepareSteps, RecoverSteps, Unspent
    <3> QED
      BY <3>1, <3>2, <2>1 DEF StatusInv, Deletes
  <2>4. granted /\ Spent /\ ~Intact(live)
    BY <2>1, <1>a DEF FlowOK, CommitSteps, Deletes
  <2>5. granted' /\ Spent' /\ ~Intact(live)'
    BY <2>1, <2>4 DEF Spent, Intact
  <2>6. FlowOK(c)'
    BY <2>1, <2>2, <2>5 DEF FlowOK, Recovers, RecoverSteps, At
  <2> QED
    BY <2>1, <2>3, <2>6, Stutters
<1>5. CASE PutFailure(c)
  <2>1. /\ pc[c] = "failing" /\ ledger' = [snap[c] EXCEPT !.failed = TRUE] /\ Finish(c)
        /\ UNCHANGED <<granted, live, removals>>
    BY <1>5 DEF PutFailure, At
  <2>2. ledger.status = snap[c].status /\ snap[c] \in Records
    BY <2>1, <1>a, <1>t DEF FlowOK, Deletes
  <2>3. ledger'.status = ledger.status
    BY <2>1, <2>2, RecordUpdates
  <2>4. pc'[c] = "idle"
    BY <2>1, Moves
  <2> QED
    BY <2>1, <2>3, <2>4, <1>i, Stutters
<1>6. CASE Survey(c)
  <2>1. /\ pc[c] = "surveying" /\ UNCHANGED <<ledger, granted, live, removals>>
        /\ \/ Finish(c)
           \/ (NextPath(c, "surveying", "checking") \/ Goto(c, "restoring")) /\ UNCHANGED snap
    BY <1>6 DEF Survey, At
  <2>2. \/ pc'[c] = "idle"
        \/ pc'[c] \in {"surveying", "checking", "restoring"} /\ UNCHANGED snap
    BY <2>1, <1>s, Moves
  <2>3. ledger.status = snap[c].status
    BY <2>1, <1>a DEF FlowOK, Recovers, RecoverSteps
  <2> QED
    BY <2>1, <2>2, <2>3, <1>i, Stutters DEF FlowOK, Deletes, CommitSteps, At
<1>7. CASE Check(c)
  <2>1. /\ pc[c] = "checking" /\ UNCHANGED <<ledger, granted, live, removals>>
        /\ Finish(c) \/ (Goto(c, "settling") /\ UNCHANGED snap /\ Intact(live))
    BY <1>7 DEF Check, Proceed, At
  <2>2. pc'[c] = "idle" \/ (pc'[c] = "settling" /\ UNCHANGED snap /\ Intact(live))
    BY <2>1, <1>s, Moves
  <2>3. ledger.status = snap[c].status
    BY <2>1, <1>a DEF FlowOK, Recovers, RecoverSteps
  <2>4. Intact(live) => Intact(live)'
    BY <2>1 DEF Intact
  <2> QED
    BY <2>1, <2>2, <2>3, <2>4, <1>i, Stutters DEF FlowOK, Deletes, CommitSteps, At
<1>8. CASE PutProgressFails(c)
  <2>1. pc[c] = "removed" /\ UNCHANGED <<granted, live, removals>>
    BY <1>8 DEF PutProgressFails, At
  <2>2. /\ UNCHANGED ledger \/ ledger'.status = "committing"
        /\ snap'[c].status = "committing" /\ pc'[c] = "failing"
    <3>1. /\ snap' = [snap EXCEPT ![c] = [snap[c] EXCEPT !.committedPaths = @ \cup {LongestFirst[index[c]]}]]
          /\ ledger' \in {ledger, snap'[c]} /\ Goto(c, "failing") /\ Deletes(c)
      BY <1>8, <2>1 DEF PutProgressFails, Deletes
    <3>2. LongestFirst[index[c]] \in Paths /\ snap[c] \in Records
      BY <1>t, Orders DEF TypeOK
    <3>3. snap'[c].status = snap[c].status
      BY <3>1, <3>2, <1>t, RecordUpdates
    <3>4. snap[c].status = "committing"
      BY <3>1 DEF StatusInv
    <3> QED
      BY <3>1, <3>3, <3>4, <1>s, Moves
  <2>3. ledger.status = "committing"
    BY <2>1, <1>a DEF FlowOK, Deletes, StatusInv
  <2>4. granted' /\ ~Intact(live)'
    BY <2>1, <1>a DEF FlowOK, CommitSteps, Deletes, Intact
  <2>5. FlowOK(c)'
    BY <2>2, <2>3, <2>4 DEF FlowOK, Recovers, RecoverSteps, At
  <2> QED
    BY <2>1, <2>2, <2>3, <2>5, Stutters
<1> QED
  BY <1>1, <1>2, <1>3, <1>4, <1>5, <1>6, <1>7, <1>8

\* A removal, whole or in part: the first one is the effect, the others find
\* the workspace already changed.
LEMMA Removes ==
  ASSUME TypeOK, StatusInv, NEW c \in Calls, FlowOK(c), pc[c] = "deleting",
         NEW p \in Paths, NEW x \in {"absent", "torn"},
         live' = [live EXCEPT ![p] = x], removals' = [removals EXCEPT ![p] = @ + 1],
         UNCHANGED <<ledger, granted>>
  PROVE  Spent' /\ ~Intact(live)' /\ (Abstract!Next \/ UNCHANGED abstractVars)
<1>t. live \in [Paths -> Contents] /\ removals \in [Paths -> Nat]
  BY DEF TypeOK
<1>1. Spent'
  <2>1. removals'[p] = removals[p] + 1
    BY <1>t
  <2>2. removals'[p] > 0
    BY <2>1, <1>t
  <2> QED
    BY <2>2 DEF Spent
<1>2. ~Intact(live)'
  <2>1. live'[p] = x
    BY <1>t
  <2> QED
    BY <2>1 DEF Intact
<1>3. ledger.status = "committing"
  BY DEF FlowOK, Deletes, StatusInv
<1>4. CASE Spent
  <2>1. ~Intact(live)
    BY <1>4 DEF FlowOK, Deletes
  <2> QED
    BY <1>1, <1>2, <1>4, <2>1, Mapped
<1>5. CASE ~Spent
  BY <1>1, <1>2, <1>3, <1>5, Mapped
<1> QED
  BY <1>4, <1>5

LEMMA FlowCommit ==
  ASSUME TypeOK, StatusInv, RemovalInv, FlowInv, Undisturbed', NEW c \in Calls,
         \/ Drill(c) \/ BeginCommit(c) \/ Remove(c) \/ RemoveFails(c) \/ PutCommitted(c)
  PROVE  FlowOK(c)' /\ (Abstract!Next \/ UNCHANGED abstractVars)
<1> USE Orders DEF history, resources
<1>s. /\ {"idle", "copying", "drilling", "verified", "witnessed", "attested", "deleting", "removed",
          "failing", "concluding", "surveying", "restoring", "checking", "settling"} \subseteq Steps
  BY DEF Steps, PrepareSteps, CommitSteps, RecoverSteps
<1>a. Undisturbed /\ FlowOK(c)
  BY AloneSteps DEF CallNext, PrepareStep, CommitStep, RecoverStep
<1>t. /\ snap \in [Calls -> Records] /\ pc \in [Calls -> Steps] /\ ledger \in Records
      /\ index \in [Calls -> 1..Count]
  BY DEF TypeOK
<1>i. ASSUME pc'[c] = "idle" PROVE FlowOK(c)'
  BY <1>i DEF FlowOK, CommitSteps, Deletes, Recovers, RecoverSteps, At
<1>u. ASSUME NEW r \in Records, NEW s \in Statuses
      PROVE  [r EXCEPT !.status = s].status = s
  BY RecordUpdates
<1>v. {"proven", "committed", "recovered"} \subseteq Statuses
  BY DEF Statuses
<1>k. ASSUME UNCHANGED <<live, removals>>
      PROVE  (Intact(live)' <=> Intact(live)) /\ (Spent' <=> Spent)
  BY <1>k DEF Intact, Spent
<1>1. CASE Drill(c)
  <2>1. /\ UNCHANGED <<granted, live, removals>> /\ pc[c] = "drilling"
        /\ ledger' = [ledger EXCEPT !.status = "proven"] \/ ledger' = ledger
    BY <1>1 DEF Drill, At
  <2>2. pc'[c] = "idle"
    BY <1>1, Moves DEF Drill
  <2>3. ledger.status = "none"
    BY <2>1 DEF StatusInv, Prepares, PrepareSteps
  <2>4. ledger'.status = "proven" \/ ledger' = ledger
    <3>1. [ledger EXCEPT !.status = "proven"].status = "proven"
      BY <1>t, <1>u, <1>v
    <3> QED
      BY <2>1, <3>1
  <2> QED
    BY <2>1, <2>2, <2>3, <2>4, <1>i, <1>k, Mapped
<1>2. CASE BeginCommit(c)
  <2>1. pc[c] = "attested" /\ UNCHANGED <<granted, live, removals>>
    BY <1>2 DEF BeginCommit, At
  <2>2. granted
    BY <2>1, <1>a DEF FlowOK, CommitSteps
  <2>3. CASE ledger.status = "proven"
    <3>1. /\ ledger' = [ledger EXCEPT !.status = "committing", !.failed = FALSE]
          /\ snap' = [snap EXCEPT ![c] = ledger'] /\ Goto(c, "deleting")
      BY <1>2, <2>3 DEF BeginCommit
    <3>2. ledger'.status = "committing"
      BY <3>1, <1>t, RecordUpdates
    <3>3. pc'[c] = "deleting" /\ snap'[c] = ledger'
      BY <3>1, <1>s, <1>t, Moves
    <3>4. ~Spent
      <4>1. \A p \in Paths : removals[p] = 0
        BY <2>3 DEF RemovalInv, Unspent
      <4> QED
        BY <4>1 DEF Spent
    <3>5. granted' /\ ~Spent'
      BY <2>1, <2>2, <3>4 DEF Spent
    <3>6. FlowOK(c)'
      BY <3>3, <3>5 DEF FlowOK, At
    <3> QED
      BY <2>1, <2>2, <2>3, <3>2, <3>6, <1>k, Mapped
  <2>4. CASE ledger.status # "proven"
    <3>1. UNCHANGED ledger /\ Finish(c)
      BY <1>2, <2>4 DEF BeginCommit
    <3>2. pc'[c] = "idle"
      BY <3>1, Moves
    <3> QED
      BY <2>1, <3>1, <3>2, <1>i, Stutters
  <2> QED
    BY <2>3, <2>4
<1>3. CASE Remove(c) \/ RemoveFails(c)
  <2> DEFINE p == LongestFirst[index[c]]
  <2>0. p \in Paths
    BY <1>t
  <2>1. /\ pc[c] = "deleting" /\ UNCHANGED <<ledger, granted, snap>>
        /\ \/ Goto(c, "failing") /\ UNCHANGED <<live, removals>>
           \/ /\ Goto(c, "failing") \/ Goto(c, "removed")
              /\ live' = [live EXCEPT ![p] = "absent"] \/ live' = [live EXCEPT ![p] = "torn"]
              /\ removals' = [removals EXCEPT ![p] = @ + 1]
    BY <1>3 DEF Remove, RemoveFails, At
  <2>2. granted /\ ledger.status = snap[c].status
    BY <2>1, <1>a DEF FlowOK, CommitSteps, Deletes
  <2>3. CASE Goto(c, "failing") /\ UNCHANGED <<live, removals>>
    <3>1. pc'[c] = "failing"
      BY <2>3, <1>s, Moves
    <3>2. Spent' => ~Intact(live)'
      BY <2>1, <2>3, <1>a, <1>k DEF FlowOK, Deletes
    <3> QED
      BY <2>1, <2>2, <2>3, <3>1, <3>2, Stutters DEF FlowOK, Recovers, RecoverSteps, At
  <2>4. CASE /\ Goto(c, "failing") \/ Goto(c, "removed")
             /\ live' = [live EXCEPT ![p] = "absent"] \/ live' = [live EXCEPT ![p] = "torn"]
             /\ removals' = [removals EXCEPT ![p] = @ + 1]
    <3>1. pc'[c] \in {"failing", "removed"}
      BY <2>4, <1>s, Moves
    <3>2. \E x \in {"absent", "torn"} : live' = [live EXCEPT ![p] = x]
      BY <2>4
    <3>3. Spent' /\ ~Intact(live)' /\ (Abstract!Next \/ UNCHANGED abstractVars)
      BY <1>a, <2>0, <2>1, <2>4, <3>2, Removes
    <3> QED
      BY <2>1, <2>2, <3>1, <3>3 DEF FlowOK, Recovers, RecoverSteps, At
  <2> QED
    BY <2>1, <2>3, <2>4
<1>4. CASE PutCommitted(c)
  <2>1. /\ pc[c] = "concluding" /\ ledger' = [snap[c] EXCEPT !.status = "committed"] /\ Finish(c)
        /\ UNCHANGED <<granted, live, removals>>
    BY <1>4 DEF PutCommitted, At
  <2>2. ledger.status = snap[c].status /\ ledger.status = "committing" /\ ~Intact(live)
    BY <2>1, <1>a DEF FlowOK, Deletes, StatusInv
  <2>3. ledger'.status = "committed"
    BY <2>1, <1>t, <1>u, <1>v
  <2>4. pc'[c] = "idle"
    BY <2>1, Moves
  <2> QED
    BY <2>1, <2>2, <2>3, <2>4, <1>i, <1>k, Mapped
<1> QED
  BY <1>1, <1>2, <1>3, <1>4

LEMMA FlowRecover ==
  ASSUME TypeOK, StatusInv, ProvenMeansRestorable, FlowInv, Undisturbed', NEW c \in Calls,
         Restore(c) \/ PutRecovered(c) \/ Interrupt(c)
  PROVE  FlowOK(c)' /\ (Abstract!Next \/ UNCHANGED abstractVars)
<1> USE Orders DEF history, resources
<1>s. /\ {"idle", "copying", "drilling", "verified", "witnessed", "attested", "deleting", "removed",
          "failing", "concluding", "surveying", "restoring", "checking", "settling"} \subseteq Steps
  BY DEF Steps, PrepareSteps, CommitSteps, RecoverSteps
<1>a. Undisturbed /\ FlowOK(c) /\ ~spoiled
  BY AloneSteps DEF CallNext, PrepareStep, CommitStep, RecoverStep
<1>t. /\ snap \in [Calls -> Records] /\ pc \in [Calls -> Steps] /\ index \in [Calls -> 1..Count]
      /\ live \in [Paths -> Contents]
  BY DEF TypeOK
<1>i. ASSUME pc'[c] = "idle" PROVE FlowOK(c)'
  BY <1>i DEF FlowOK, CommitSteps, Deletes, Recovers, RecoverSteps, At
<1>u. ASSUME NEW r \in Records, NEW s \in Statuses
      PROVE  [r EXCEPT !.status = s].status = s
  BY RecordUpdates
<1>v. {"proven", "committed", "recovered"} \subseteq Statuses
  BY DEF Statuses
<1>r. ASSUME Recovers(c)
      PROVE  ledger.status = snap[c].status /\ ledger.status \in {"committing", "committed"} /\ Intact(payload)
  <2>1. ledger.status = snap[c].status /\ ledger.status \in {"committing", "committed"}
    BY <1>r, <1>a DEF FlowOK, StatusInv
  <2> QED
    BY <2>1, <1>a DEF ProvenMeansRestorable
<1>1. CASE Restore(c)
  <2> DEFINE p == Sorted[index[c]]
  <2>1. /\ pc[c] = "restoring" /\ UNCHANGED <<ledger, granted, removals, snap>>
        /\ live' = [live EXCEPT ![p] = payload[p]] \/ UNCHANGED live
        /\ NextPath(c, "surveying", "checking")
    BY <1>1 DEF Restore, At
  <2>2. Recovers(c) /\ p \in Paths
    BY <2>1, <1>t DEF Recovers, RecoverSteps
  <2>3. payload[p] = "original"
    BY <2>2, <1>r DEF Intact
  <2>4. Intact(live) => Intact(live)'
    BY <2>1, <2>3, <1>t DEF Intact
  <2>5. Spent' <=> Spent
    BY <2>1 DEF Spent
  <2>6. pc'[c] \in {"surveying", "checking"}
    BY <2>1, <1>s, Moves
  <2>7. FlowOK(c)'
    BY <2>1, <2>2, <2>6, <1>r DEF FlowOK, CommitSteps, Deletes, At
  <2> QED
    BY <2>1, <2>2, <2>4, <2>5, <2>7, <1>r, Mapped
<1>2. CASE PutRecovered(c)
  <2>1. /\ pc[c] = "settling" /\ ledger' = [snap[c] EXCEPT !.status = "recovered"] /\ Finish(c)
        /\ UNCHANGED <<granted, live, removals>>
    BY <1>2 DEF PutRecovered, At
  <2>2. Recovers(c) /\ Intact(live)
    BY <2>1, <1>a DEF FlowOK, Recovers, RecoverSteps, At
  <2>3. ledger'.status = "recovered"
    BY <2>1, <1>t, <1>u, <1>v
  <2>4. pc'[c] = "idle"
    BY <2>1, Moves
  <2>5. (Intact(live)' <=> Intact(live)) /\ (Spent' <=> Spent)
    BY <2>1 DEF Intact, Spent
  <2> QED
    BY <2>1, <2>2, <2>3, <2>4, <2>5, <1>i, <1>r, Mapped
<1>3. CASE Interrupt(c)
  <2>1. Finish(c) /\ UNCHANGED <<ledger, granted>>
    BY <1>3 DEF Interrupt
  <2>2. FlowOK(c)'
    BY <2>1, <1>i, Moves
  <2>3. CASE UNCHANGED <<live, removals>>
    BY <2>1, <2>2, <2>3, Stutters
  <2>4. CASE ~UNCHANGED <<live, removals>> /\ At(c, "deleting")
    <3> DEFINE p == LongestFirst[index[c]]
    <3>1. live' = [live EXCEPT ![p] = "torn"] /\ removals' = [removals EXCEPT ![p] = @ + 1]
      BY <1>3, <2>4 DEF Interrupt
    <3>2. p \in Paths /\ pc[c] = "deleting"
      BY <2>4, <1>t DEF At
    <3>3. Abstract!Next \/ UNCHANGED abstractVars
      BY <2>1, <3>1, <3>2, <1>a, Removes
    <3> QED
      BY <2>2, <3>3
  <2>5. CASE ~UNCHANGED <<live, removals>> /\ ~At(c, "deleting")
    <3> DEFINE p == Sorted[index[c]]
    <3>1. live[p] = "absent" /\ live' = [live EXCEPT ![p] = "torn"] /\ UNCHANGED removals
      BY <1>3, <2>5 DEF Interrupt
    <3>2. p \in Paths /\ live'[p] = "torn"
      BY <3>1, <1>t
    <3>3. ~Intact(live) /\ ~Intact(live)'
      BY <3>1, <3>2 DEF Intact
    <3>4. Spent' <=> Spent
      BY <3>1 DEF Spent
    <3> QED
      BY <2>1, <2>2, <3>3, <3>4, Mapped
  <2> QED
    BY <2>3, <2>4, <2>5
<1> QED
  BY <1>1, <1>2, <1>3

LEMMA FlowStep ==
  TypeOK /\ StatusInv /\ RemovalInv /\ ProvenMeansRestorable /\ FlowInv /\ [Next]_vars =>
    FlowInv' /\ (Undisturbed' => (Abstract!Next \/ UNCHANGED abstractVars))
<1> SUFFICES ASSUME TypeOK, StatusInv, RemovalInv, ProvenMeansRestorable, FlowInv, [Next]_vars,
                    Undisturbed'
             PROVE  FlowInv' /\ (Abstract!Next \/ UNCHANGED abstractVars)
  BY DEF FlowInv
<1> USE DEF history, resources
<1>1. CASE UNCHANGED vars
  <2>1. UNCHANGED abstractVars
    BY <1>1, Stutters DEF vars
  <2> QED
    BY <1>1, <2>1 DEF vars, FlowInv, Undisturbed, FlowOK, Deletes, Recovers, Spent, Intact, At
<1>2. CASE Approve
  <2>1. /\ ledger.status = "proven" /\ granted' = TRUE
        /\ UNCHANGED <<ledger, live, removals, pc, snap, spoiled, overlapped, drifts>>
    BY <1>2 DEF Approve
  <2>2. (Intact(live)' <=> Intact(live)) /\ (Spent' <=> Spent)
    BY <2>1 DEF Intact, Spent
  <2>3. Undisturbed
    BY <2>1 DEF Undisturbed
  <2>4. FlowInv'
    BY <2>1, <2>2, <2>3 DEF FlowInv, FlowOK, Deletes, Recovers, At
  <2> QED
    BY <2>1, <2>2, <2>4, Mapped
<1>3. ASSUME NEW p \in Paths, Drift(p) \/ SpoilArtifact(p) PROVE FALSE
  <2>1. drifts' = drifts + 1 /\ drifts \in Nat /\ drifts' = 0
    BY <1>3 DEF Drift, SpoilArtifact, Undisturbed, TypeOK
  <2> QED
    BY <2>1
<1>4. ASSUME NEW c \in Calls, CallNext(c) PROVE FlowInv' /\ (Abstract!Next \/ UNCHANGED abstractVars)
  <2>1. FlowOK(c)' /\ (Abstract!Next \/ UNCHANGED abstractVars)
    BY <1>4, FlowQuiet, FlowCommit, FlowRecover DEF CallNext, PrepareStep, CommitStep, RecoverStep
  <2>2. ~spoiled' /\ \A d \in Calls \ {c} : pc'[d] = "idle"
    BY <1>4, AloneSteps
  <2>3. \A d \in Calls \ {c} : FlowOK(d)'
    BY <2>2 DEF FlowOK, CommitSteps, Deletes, Recovers, RecoverSteps, At
  <2> QED
    BY <2>1, <2>2, <2>3 DEF FlowInv
<1> QED
  BY <1>1, <1>2, <1>3, <1>4 DEF Next

\* As long as calls do not overlap and nobody else writes, the path-by-path
\* delete is a granted, journalled, at-most-once and truthfully receipted effect,
\* wherever it is cut.
THEOREM DeleteImplementsReversibleEffect == Spec => ImplementsReversibleEffect
<1>1. Init => StatusInv
  BY DEF Init, NoRecord, StatusInv, Prepares, Deletes, Recovers, PrepareSteps, RecoverSteps
<1>2. Init => RemovalInv
  BY DEF Init, RemovalInv, RemovedOnce, At
<1>3. Init => ProvenMeansRestorable
  BY DEF Init, NoRecord, ProvenMeansRestorable
<1>4. Init => FlowInv
  BY DEF Init, FlowInv, FlowOK, CommitSteps, Deletes, Recovers, RecoverSteps, At
<1>5. Init => Abstract!Init
  <2> SUFFICES ASSUME Init PROVE Abstract!Init
    OBVIOUS
  <2>1. Intact(live) /\ ~Spent
    BY DEF Init, Intact, Spent
  <2>2. ledger.status = "none" /\ granted = FALSE
    BY DEF Init, NoRecord
  <2> QED
    BY <2>1, <2>2, Zenon DEF Abstract!Init, Spent, Intact
<1>6. TypeOK /\ StatusInv /\ RemovalInv /\ ProvenMeansRestorable /\ FlowInv /\ [Next]_vars =>
        [Undisturbed' => Abstract!Next]_abstractVars
  BY FlowStep
<1> QED
  BY <1>1, <1>2, <1>3, <1>4, <1>5, <1>6, TypeInit, TypeStep, StatusStep, CopyStep, RemovalStep,
     FlowStep, PTL DEF Spec, ImplementsReversibleEffect
=============================================================================
