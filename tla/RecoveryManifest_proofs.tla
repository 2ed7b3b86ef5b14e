----------------------- MODULE RecoveryManifest_proofs -----------------------
(***************************************************************************)
(* Proofs about RecoveryManifest, for any number of children, coordinator  *)
(* calls, failures, drifts and restores.                                   *)
(***************************************************************************)
EXTENDS RecoveryManifest, FiniteSetTheorems, TLAPS

\* The updates the coordinator makes to a manifest record give a record.
LEMMA RecordUpdates ==
  /\ NoRecord \in Records
  /\ \A r \in Records :
       /\ \A s \in ManifestStatuses : [r EXCEPT !.status = s] \in Records
       /\ \A o \in Child : [r EXCEPT !.committed = r.committed \cup {o}] \in Records
       /\ \A o \in Child : \A s : AfterFailure(r, o, s) \in Records
       /\ \A s \in ManifestStatuses, S \in SUBSET Child, b \in BOOLEAN :
            [r EXCEPT !.status = s, !.committedAt = b, !.outstanding = S] \in Records
       /\ \A s \in ManifestStatuses, S, T \in SUBSET Child :
            [r EXCEPT !.status = s, !.committed = S, !.outstanding = T] \in Records
       /\ \A o \in Child, S \in SUBSET Child :
            [r EXCEPT !.recovered = Append(r.recovered, o), !.outstanding = S] \in Records
<1>1. NoRecord \in Records
  BY DEF NoRecord, Records, ManifestStatuses
<1>2. \A r \in Records, o \in Child : Append(r.recovered, o) \in Seq(Child)
  BY DEF Records
<1>3. \A r \in Records, o \in Child : r.committed \cup {o} \in SUBSET Child
  BY DEF Records
<1> QED
  BY <1>1, <1>2, <1>3 DEF Records, AfterFailure

LEMMA RecordFields ==
  \A r \in Records :
    /\ r.status \in ManifestStatuses
    /\ r.committed \in SUBSET Child
    /\ r.outstanding \in SUBSET Child
    /\ r.recovered \in Seq(Child)
    /\ r.committedAt \in BOOLEAN
  BY DEF Records

\* A call that has just finished with a child still has its loop at it.
LoopBounds ==
  \A k \in Coordinators : pc[k] \in {"journalling", "noting"} => index[k] \in Child

\* TypeOK: manifest records, child states and every call's position stay in
\* their domains, whatever interleaves.
THEOREM TypeCorrect == Spec => [](TypeOK /\ LoopBounds)
<1> USE ChildAssumption, BoundAssumption DEF children, thrown, world, Goto
<1> DEFINE RecordsOK == manifest \in Records /\ progress \in [Coordinators -> Records]
<1>c. Child = 1..N /\ N \in Nat
  BY DEF Child
<1>n. 0 \in 0..N + 1 /\ 1 \in 0..N + 1
  BY <1>c
<1>1. Init => TypeOK /\ LoopBounds
  <2> SUFFICES ASSUME Init PROVE TypeOK /\ LoopBounds
    OBVIOUS
  <2>1. manifest \in Records /\ progress \in [Coordinators -> Records]
    BY RecordUpdates DEF Init
  <2>2. approved \in BOOLEAN
    BY Zenon DEF Init
  <2>3. index \in [Coordinators -> 0..N + 1] /\ faults \in 0..MaxFaults /\ drifts \in 0..MaxDrifts
    BY <1>c DEF Init
  <2> QED
    BY <2>1, <2>2, <2>3 DEF Init, TypeOK, Steps, LoopBounds
<1>2. TypeOK /\ [Next]_vars => RecordsOK'
  <2> SUFFICES ASSUME TypeOK, [Next]_vars PROVE RecordsOK'
    OBVIOUS
  <2>t. /\ manifest \in Records /\ progress \in [Coordinators -> Records]
        /\ final \in [Coordinators -> {"none", "compensated", "recovered"}]
        /\ status \in [Child -> {"proven", "committing", "committed", "recovered"}]
    BY DEF TypeOK
  <2>1. CASE Prepare
    BY <2>1, <2>t, RecordUpdates, RecordFields DEF Prepare, ManifestStatuses
  <2>2. CASE Approve
    BY <2>2, <2>t, RecordUpdates, RecordFields DEF Approve, ManifestStatuses
  <2>3. ASSUME NEW k \in Coordinators, CommitCall(k) PROVE RecordsOK'
    BY <2>3, <2>t, RecordUpdates, RecordFields DEF CommitCall, ManifestStatuses
  <2>4. ASSUME NEW k \in Coordinators, BeginCommit(k) PROVE RecordsOK'
    <3>1. CASE manifest.status = "prepared"
      <4>1. manifest' \in Records
        BY <2>4, <3>1, <2>t, RecordUpdates DEF BeginCommit, ManifestStatuses
      <4> QED
        BY <2>4, <3>1, <4>1, <2>t DEF BeginCommit
    <3>2. CASE manifest.status # "prepared"
      BY <2>4, <3>2, <2>t, RecordUpdates DEF BeginCommit, Return
    <3> QED
      BY <3>1, <3>2
  <2>5. ASSUME NEW k \in Coordinators, CommitChild(k) PROVE RecordsOK'
    <3>1. [progress[k] EXCEPT !.committed = progress[k].committed \cup {index[k]}] \in Records
      BY <2>5, <2>t, RecordUpdates DEF CommitChild
    <3> QED
      BY <2>5, <3>1, <2>t DEF CommitChild
  <2>6. ASSUME NEW k \in Coordinators, RefuseChild(k) PROVE RecordsOK'
    <3>1. AfterFailure(progress[k], index[k], status[index[k]]) \in Records
      BY <2>6, <2>t, RecordUpdates DEF RefuseChild
    <3> QED
      BY <2>6, <3>1, <2>t DEF RefuseChild
  <2>7. ASSUME NEW k \in Coordinators, FailChild(k) PROVE RecordsOK'
    <3>1. AfterFailure(progress[k], index[k], status'[index[k]]) \in Records
      BY <2>7, <2>t, RecordUpdates DEF FailChild
    <3> QED
      BY <2>7, <3>1, <2>t DEF FailChild
  <2>8. ASSUME NEW k \in Coordinators, PutProgress(k) PROVE RecordsOK'
    BY <2>8, <2>t, RecordUpdates, RecordFields DEF PutProgress, ManifestStatuses
  <2>9. ASSUME NEW k \in Coordinators, PutProgressFails(k) PROVE RecordsOK'
    BY <2>9, <2>t DEF PutProgressFails
  <2>10. ASSUME NEW k \in Coordinators, PutCommitted(k) PROVE RecordsOK'
    BY <2>10, <2>t, RecordUpdates, RecordFields DEF PutCommitted, Return, ManifestStatuses
  <2>11. ASSUME NEW k \in Coordinators, RecoverCall(k) PROVE RecordsOK'
    BY <2>11, <2>t, RecordUpdates, RecordFields DEF RecoverCall, ManifestStatuses
  <2>12. ASSUME NEW k \in Coordinators, Survey(k) PROVE RecordsOK'
    <3> DEFINE committed == progress[k].committed \cup {o \in Child : status[o] \in Spent}
               outstanding == committed \ IdsOf(progress[k].recovered)
    <3>1. progress[k] \in Records /\ committed \in SUBSET Child /\ outstanding \in SUBSET Child
      BY <2>12, <2>t, RecordFields
    <3>2. [progress[k] EXCEPT !.status = "recovering", !.committed = committed,
                              !.outstanding = outstanding] \in Records
      BY <3>1, RecordUpdates DEF ManifestStatuses
    <3>3. progress' = [progress EXCEPT ![k] =
            [progress[k] EXCEPT !.status = "recovering", !.committed = committed,
                                !.outstanding = outstanding]]
      BY <2>12, <2>t DEF Survey
    <3>4. manifest' \in Records
      BY <2>12, <2>t DEF Survey
    <3> QED
      BY <3>2, <3>3, <3>4, <2>t
  <2>13. ASSUME NEW k \in Coordinators, PutRecovering(k) PROVE RecordsOK'
    BY <2>13, <2>t, RecordUpdates, RecordFields DEF PutRecovering, ManifestStatuses
  <2>14. ASSUME NEW k \in Coordinators, SkipChild(k) PROVE RecordsOK'
    BY <2>14, <2>t, RecordUpdates, RecordFields DEF SkipChild, ToRecover, ManifestStatuses
  <2>15. ASSUME NEW k \in Coordinators, RecoverChild(k) PROVE RecordsOK'
    BY <2>15, <2>t, RecordUpdates, RecordFields
       DEF RecoverChild, ToRecover, Recoverable, ManifestStatuses
  <2>16. ASSUME NEW k \in Coordinators, RecoverChildFails(k) PROVE RecordsOK'
    BY <2>16, <2>t, RecordUpdates, RecordFields
       DEF RecoverChildFails, ToRecover, Recoverable, ManifestStatuses
  <2>17. ASSUME NEW k \in Coordinators, NoteRecovery(k) PROVE RecordsOK'
    BY <2>17, <2>t DEF NoteRecovery
  <2>18. ASSUME NEW k \in Coordinators, FinishCompensation(k) PROVE RecordsOK'
    BY <2>18, <2>t, RecordUpdates, RecordFields DEF FinishCompensation, Return, ManifestStatuses
  <2>19. ASSUME NEW k \in Coordinators, ExpireRead(k) PROVE RecordsOK'
    BY <2>19, <2>t, RecordUpdates, RecordFields DEF ExpireRead, ManifestStatuses
  <2>20. ASSUME NEW k \in Coordinators, PutExpired(k) PROVE RecordsOK'
    BY <2>20, <2>t, RecordUpdates, RecordFields DEF PutExpired, Return, ManifestStatuses
  <2>21. ASSUME NEW k \in Coordinators, Crash(k) PROVE RecordsOK'
    BY <2>21, <2>t, RecordUpdates, RecordFields DEF Crash, Return, ManifestStatuses
  <2>22. ASSUME NEW o \in Child, Elapse(o) PROVE RecordsOK'
    BY <2>22, <2>t, RecordUpdates, RecordFields DEF Elapse, ManifestStatuses
  <2>23. ASSUME NEW o \in Child, Drift(o) PROVE RecordsOK'
    BY <2>23, <2>t, RecordUpdates, RecordFields DEF Drift, ManifestStatuses
  <2>24. ASSUME NEW o \in Child, RestoreAlone(o) PROVE RecordsOK'
    BY <2>24, <2>t, RecordUpdates, RecordFields DEF RestoreAlone, Recoverable, ManifestStatuses
  <2>25. CASE UNCHANGED vars
    BY <2>25, <2>t, RecordUpdates, RecordFields DEF vars
  <2> QED
    BY <2>1, <2>2, <2>3, <2>4, <2>5, <2>6, <2>7, <2>8, <2>9, <2>10, <2>11, <2>12,
       <2>13, <2>14, <2>15, <2>16, <2>17, <2>18, <2>19, <2>20, <2>21, <2>22, <2>23, <2>24, <2>25
       DEF Next, CallNext, CommitStep, RecoverStep
<1>3. TypeOK /\ LoopBounds /\ [Next]_vars /\ RecordsOK' => TypeOK' /\ LoopBounds'
  <2> SUFFICES ASSUME TypeOK, LoopBounds, [Next]_vars, RecordsOK' PROVE (TypeOK /\ LoopBounds)'
    OBVIOUS
  <2> HIDE DEF RecordsOK
  <2>r. manifest' \in Records /\ progress' \in [Coordinators -> Records]
    BY DEF RecordsOK
  <2> USE DEF TypeOK, Steps, LoopBounds
  <2>1. CASE Prepare
    BY <2>1, <2>r, <1>c DEF Prepare
  <2>2. CASE Approve
    BY <2>2, <2>r, <1>c DEF Approve
  <2>3. ASSUME NEW k \in Coordinators, CommitCall(k) PROVE (TypeOK /\ LoopBounds)'
    BY <2>3, <2>r, <1>c DEF CommitCall
  <2>4. ASSUME NEW k \in Coordinators, BeginCommit(k) PROVE (TypeOK /\ LoopBounds)'
    <3>1. CASE manifest.status = "prepared"
      BY <2>4, <3>1, <2>r, <1>n DEF BeginCommit
    <3>2. CASE manifest.status # "prepared"
      BY <2>4, <3>2, <2>r, <1>n DEF BeginCommit, Return
    <3> QED
      BY <3>1, <3>2
  <2>5. ASSUME NEW k \in Coordinators, CommitChild(k) PROVE (TypeOK /\ LoopBounds)'
    BY <2>5, <2>r, <1>c DEF CommitChild, Committable
  <2>6. ASSUME NEW k \in Coordinators, RefuseChild(k) PROVE (TypeOK /\ LoopBounds)'
    BY <2>6, <2>r, <1>c DEF RefuseChild, Committable
  <2>7. ASSUME NEW k \in Coordinators, FailChild(k) PROVE (TypeOK /\ LoopBounds)'
    BY <2>7, <2>r, <1>c DEF FailChild, Committable
  <2>8. ASSUME NEW k \in Coordinators, PutProgress(k) PROVE (TypeOK /\ LoopBounds)'
    <3>1. index' \in [Coordinators -> 0..N + 1]
      BY <2>8, <1>c DEF PutProgress
    <3> QED
      BY <2>8, <3>1, <2>r DEF PutProgress
  <2>9. ASSUME NEW k \in Coordinators, PutProgressFails(k) PROVE (TypeOK /\ LoopBounds)'
    BY <2>9, <2>r, <1>c DEF PutProgressFails
  <2>10. ASSUME NEW k \in Coordinators, PutCommitted(k) PROVE (TypeOK /\ LoopBounds)'
    BY <2>10, <2>r, <1>c DEF PutCommitted, Return
  <2>11. ASSUME NEW k \in Coordinators, RecoverCall(k) PROVE (TypeOK /\ LoopBounds)'
    BY <2>11, <2>r, <1>c DEF RecoverCall
  <2>12. ASSUME NEW k \in Coordinators, Survey(k) PROVE (TypeOK /\ LoopBounds)'
    BY <2>12, <2>r, <1>c DEF Survey
  <2>13. ASSUME NEW k \in Coordinators, PutRecovering(k) PROVE (TypeOK /\ LoopBounds)'
    BY <2>13, <2>r, <1>c DEF PutRecovering
  <2>14. ASSUME NEW k \in Coordinators, SkipChild(k) PROVE (TypeOK /\ LoopBounds)'
    BY <2>14, <2>r, <1>c DEF SkipChild, ToRecover
  <2>15. ASSUME NEW k \in Coordinators, RecoverChild(k) PROVE (TypeOK /\ LoopBounds)'
    BY <2>15, <2>r, <1>c DEF RecoverChild, ToRecover, Recoverable
  <2>16. ASSUME NEW k \in Coordinators, RecoverChildFails(k) PROVE (TypeOK /\ LoopBounds)'
    <3>1. index' \in [Coordinators -> 0..N + 1]
      BY <2>16, <1>c DEF RecoverChildFails
    <3>2. live' \in [Child -> {"original", "changed", "foreign"}] /\ faults' \in 0..MaxFaults
      BY <2>16 DEF RecoverChildFails
    <3>3. status' \in [Child -> {"proven", "committing", "committed", "recovered"}]
      BY <2>16 DEF RecoverChildFails
    <3>4. refused' \subseteq Child /\ unheard' \subseteq refused'
      BY <2>16 DEF RecoverChildFails
    <3> QED
      BY <2>16, <3>1, <3>2, <3>3, <3>4, <2>r DEF RecoverChildFails
  <2>17. ASSUME NEW k \in Coordinators, NoteRecovery(k) PROVE (TypeOK /\ LoopBounds)'
    <3>1. index' \in [Coordinators -> 0..N + 1] /\ faults' \in 0..MaxFaults
      BY <2>17, <1>c DEF NoteRecovery
    <3> QED
      BY <2>17, <3>1, <2>r DEF NoteRecovery
  <2>18. ASSUME NEW k \in Coordinators, FinishCompensation(k) PROVE (TypeOK /\ LoopBounds)'
    BY <2>18, <2>r, <1>c DEF FinishCompensation, Return
  <2>19. ASSUME NEW k \in Coordinators, ExpireRead(k) PROVE (TypeOK /\ LoopBounds)'
    BY <2>19, <2>r, <1>c DEF ExpireRead
  <2>20. ASSUME NEW k \in Coordinators, PutExpired(k) PROVE (TypeOK /\ LoopBounds)'
    BY <2>20, <2>r, <1>c DEF PutExpired, Return
  <2>21. ASSUME NEW k \in Coordinators, Crash(k) PROVE (TypeOK /\ LoopBounds)'
    BY <2>21, <2>r, <1>c DEF Crash, Return
  <2>22. ASSUME NEW o \in Child, Elapse(o) PROVE (TypeOK /\ LoopBounds)'
    BY <2>22, <2>r, <1>c DEF Elapse
  <2>23. ASSUME NEW o \in Child, Drift(o) PROVE (TypeOK /\ LoopBounds)'
    BY <2>23, <2>r, <1>c DEF Drift
  <2>24. ASSUME NEW o \in Child, RestoreAlone(o) PROVE (TypeOK /\ LoopBounds)'
    BY <2>24, <2>r, <1>c DEF RestoreAlone, Recoverable
  <2>25. CASE UNCHANGED vars
    BY <2>25, <2>r, <1>c DEF vars
  <2> QED
    BY <2>1, <2>2, <2>3, <2>4, <2>5, <2>6, <2>7, <2>8, <2>9, <2>10, <2>11, <2>12,
       <2>13, <2>14, <2>15, <2>16, <2>17, <2>18, <2>19, <2>20, <2>21, <2>22, <2>23, <2>24, <2>25
       DEF Next, CallNext, CommitStep, RecoverStep
<1> QED
  BY <1>1, <1>2, <1>3, PTL DEF Spec

-----------------------------------------------------------------------------
(* Any number of coordinator calls. *)

\* What a call's record is while it commits, and while it compensates.
CallRecords ==
  \A k \in Coordinators :
    /\ pc[k] \in {"committing", "journalling"} => progress[k].status = "committing"
    /\ pc[k] \in {"announcing", "recovering", "noting"} => progress[k].status = "recovering"
    /\ pc[k] \in {"surveying", "announcing", "recovering", "noting"}
         => final[k] \in {"compensated", "recovered"}

CommitInv ==
  /\ CallRecords
  /\ \A k, l \in CommitLoop : k = l
  /\ CommitLoop # {} => manifest.status \notin {"none", "prepared"}

LEMMA CommitInvHolds == Spec => []CommitInv
<1> USE DEF children, thrown, world, Goto, CommitLoop
<1>1. Init => CommitInv
  BY DEF Init, CommitInv, CallRecords
<1>2. TypeOK /\ CommitInv /\ [Next]_vars => CommitInv'
  <2> SUFFICES ASSUME TypeOK, CommitInv, [Next]_vars PROVE CommitInv'
    OBVIOUS
  <2> USE DEF CommitInv, CallRecords
  <2>t. /\ manifest \in Records /\ progress \in [Coordinators -> Records]
        /\ pc \in [Coordinators -> Steps]
        /\ final \in [Coordinators -> {"none", "compensated", "recovered"}]
    BY DEF TypeOK
  <2>1. CASE Prepare
    BY <2>1, <2>t DEF Prepare, Records
  <2>2. CASE Approve
    BY <2>2, <2>t DEF Approve, Records
  <2>3. ASSUME NEW k \in Coordinators, CommitCall(k) PROVE CommitInv'
    BY <2>3, <2>t DEF CommitCall, Records
  <2>4. ASSUME NEW k \in Coordinators, BeginCommit(k) PROVE CommitInv'
    <3>1. CASE manifest.status = "prepared"
      <4>1. /\ manifest'.status = "committing"
            /\ progress' = [progress EXCEPT ![k] = manifest']
            /\ pc' = [pc EXCEPT ![k] = "committing"]
            /\ final' = final
        BY <2>4, <3>1, <2>t DEF BeginCommit, Records
      <4> QED
        BY <3>1, <4>1, <2>t
    <3>2. CASE manifest.status # "prepared"
      BY <2>4, <3>2, <2>t DEF BeginCommit, Return
    <3> QED
      BY <3>1, <3>2
  <2>5. ASSUME NEW k \in Coordinators, CommitChild(k) PROVE CommitInv'
    BY <2>5, <2>t DEF CommitChild, Committable, Records
  <2>6. ASSUME NEW k \in Coordinators, RefuseChild(k) PROVE CommitInv'
    BY <2>6, <2>t DEF RefuseChild, Committable, Records, AfterFailure
  <2>7. ASSUME NEW k \in Coordinators, FailChild(k) PROVE CommitInv'
    BY <2>7, <2>t DEF FailChild, Committable, Records, AfterFailure
  <2>8. ASSUME NEW k \in Coordinators, PutProgress(k) PROVE CommitInv'
    BY <2>8, <2>t DEF PutProgress, Records
  <2>9. ASSUME NEW k \in Coordinators, PutProgressFails(k) PROVE CommitInv'
    BY <2>9, <2>t DEF PutProgressFails, Records
  <2>10. ASSUME NEW k \in Coordinators, PutCommitted(k) PROVE CommitInv'
    BY <2>10, <2>t DEF PutCommitted, Return, Records
  <2>11. ASSUME NEW k \in Coordinators, RecoverCall(k) PROVE CommitInv'
    BY <2>11, <2>t DEF RecoverCall, Records
  <2>12. ASSUME NEW k \in Coordinators, Survey(k) PROVE CommitInv'
    <3>1. /\ \A l \in Coordinators : l # k => progress'[l] = progress[l] /\ pc'[l] = pc[l]
          /\ progress'[k].status = "recovering"
          /\ pc'[k] = "announcing"
      BY <2>12, <2>t DEF Survey, Records
    <3>2. pc[k] = "surveying" /\ manifest' = manifest /\ final' = final
      BY <2>12 DEF Survey
    <3> QED
      BY <3>1, <3>2, <2>t
  <2>13. ASSUME NEW k \in Coordinators, PutRecovering(k) PROVE CommitInv'
    BY <2>13, <2>t DEF PutRecovering, Records
  <2>14. ASSUME NEW k \in Coordinators, SkipChild(k) PROVE CommitInv'
    BY <2>14, <2>t DEF SkipChild, ToRecover, Records
  <2>15. ASSUME NEW k \in Coordinators, RecoverChild(k) PROVE CommitInv'
    BY <2>15, <2>t DEF RecoverChild, ToRecover, Recoverable, Records
  <2>16. ASSUME NEW k \in Coordinators, RecoverChildFails(k) PROVE CommitInv'
    BY <2>16, <2>t DEF RecoverChildFails, ToRecover, Recoverable, Records
  <2>17. ASSUME NEW k \in Coordinators, NoteRecovery(k) PROVE CommitInv'
    BY <2>17, <2>t DEF NoteRecovery, Records
  <2>18. ASSUME NEW k \in Coordinators, FinishCompensation(k) PROVE CommitInv'
    BY <2>18, <2>t DEF FinishCompensation, Return, Records
  <2>19. ASSUME NEW k \in Coordinators, ExpireRead(k) PROVE CommitInv'
    BY <2>19, <2>t DEF ExpireRead, Records
  <2>20. ASSUME NEW k \in Coordinators, PutExpired(k) PROVE CommitInv'
    BY <2>20, <2>t DEF PutExpired, Return, Records
  <2>21. ASSUME NEW k \in Coordinators, Crash(k) PROVE CommitInv'
    BY <2>21, <2>t DEF Crash, Return, Records
  <2>22. ASSUME NEW o \in Child, Elapse(o) PROVE CommitInv'
    BY <2>22, <2>t DEF Elapse, Records
  <2>23. ASSUME NEW o \in Child, Drift(o) PROVE CommitInv'
    BY <2>23, <2>t DEF Drift, Records
  <2>24. ASSUME NEW o \in Child, RestoreAlone(o) PROVE CommitInv'
    BY <2>24, <2>t DEF RestoreAlone, Recoverable, Records
  <2>25. CASE UNCHANGED vars
    BY <2>25, <2>t DEF vars
  <2> QED
    BY <2>1, <2>2, <2>3, <2>4, <2>5, <2>6, <2>7, <2>8, <2>9, <2>10, <2>11, <2>12,
       <2>13, <2>14, <2>15, <2>16, <2>17, <2>18, <2>19, <2>20, <2>21, <2>22, <2>23, <2>24, <2>25
       DEF Next, CallNext, CommitStep, RecoverStep
<1> QED
  BY <1>1, <1>2, TypeCorrect, PTL DEF Spec

\* However many approved commit calls race, are repeated or are cut, one of
\* them runs the commit loop; a manifest it took is never "prepared" again
\* while it runs, whatever stale records other calls put.
THEOREM OneCommitLoopHolds == Spec => []OneCommitLoop
<1>1. CommitInv => OneCommitLoop
  BY DEF CommitInv, OneCommitLoop
<1> QED
  BY <1>1, CommitInvHolds, PTL

\* A manifest that is being worked on, unless something has failed, has a call that
\* will conclude it; and nothing is outstanding in a manifest that takes no
\* recovery.
AtWork == {"committing", "journalling", "surveying", "announcing", "recovering", "noting"}
ResumeInv ==
  /\ manifest.status \in {"none", "prepared", "expired", "compensated", "recovered"}
       => manifest.outstanding = {}
  /\ \A k \in Coordinators : pc[k] = "expiring" => progress[k].outstanding = {}
  /\ faults = 0 /\ manifest.status \in {"committing", "recovering"}
       => \E k \in Coordinators : pc[k] \in AtWork

LEMMA ResumeInvHolds == Spec => []ResumeInv
<1> USE DEF children, thrown, world, Goto, AtWork
<1>1. Init => ResumeInv
  BY DEF Init, ResumeInv, NoRecord
<1>2. TypeOK /\ CommitInv /\ ResumeInv /\ [Next]_vars => ResumeInv'
  <2> SUFFICES ASSUME TypeOK, CommitInv, ResumeInv, [Next]_vars PROVE ResumeInv'
    OBVIOUS
  <2> USE DEF ResumeInv
  <2>t. /\ manifest \in Records /\ progress \in [Coordinators -> Records]
        /\ pc \in [Coordinators -> Steps]
        /\ final \in [Coordinators -> {"none", "compensated", "recovered"}]
        /\ faults \in Nat
    BY BoundAssumption DEF TypeOK
  <2>i. \A k \in Coordinators :
          /\ pc[k] \in {"committing", "journalling"} => progress[k].status = "committing"
          /\ pc[k] \in {"announcing", "recovering", "noting"} => progress[k].status = "recovering"
          /\ pc[k] \in {"surveying", "announcing", "recovering", "noting"}
               => final[k] \in {"compensated", "recovered"}
    BY DEF CommitInv, CallRecords
  <2>1. CASE Prepare
    BY <2>1, <2>t DEF Prepare, Records, NoRecord
  <2>2. CASE Approve
    BY <2>2, <2>t DEF Approve
  <2>3. ASSUME NEW k \in Coordinators, CommitCall(k) PROVE ResumeInv'
    BY <2>3, <2>t, <2>i DEF CommitCall
  <2>4. ASSUME NEW k \in Coordinators, BeginCommit(k) PROVE ResumeInv'
    BY <2>4, <2>t, <2>i DEF BeginCommit, Return, Records
  <2>5. ASSUME NEW k \in Coordinators, CommitChild(k) PROVE ResumeInv'
    BY <2>5, <2>t, <2>i DEF CommitChild
  <2>6. ASSUME NEW k \in Coordinators, RefuseChild(k) PROVE ResumeInv'
    BY <2>6, <2>t, <2>i DEF RefuseChild
  <2>7. ASSUME NEW k \in Coordinators, FailChild(k) PROVE ResumeInv'
    BY <2>7, <2>t, <2>i DEF FailChild
  <2>8. ASSUME NEW k \in Coordinators, PutProgress(k) PROVE ResumeInv'
    BY <2>8, <2>t, <2>i DEF PutProgress
  <2>9. ASSUME NEW k \in Coordinators, PutProgressFails(k) PROVE ResumeInv'
    BY <2>9, <2>t, <2>i DEF PutProgressFails
  <2>10. ASSUME NEW k \in Coordinators, PutCommitted(k) PROVE ResumeInv'
    BY <2>10, <2>t, <2>i DEF PutCommitted, Return, Records
  <2>11. ASSUME NEW k \in Coordinators, RecoverCall(k) PROVE ResumeInv'
    BY <2>11, <2>t, <2>i DEF RecoverCall
  <2>12. ASSUME NEW k \in Coordinators, Survey(k) PROVE ResumeInv'
    BY <2>12, <2>t, <2>i DEF Survey
  <2>13. ASSUME NEW k \in Coordinators, PutRecovering(k) PROVE ResumeInv'
    BY <2>13, <2>t, <2>i DEF PutRecovering
  <2>14. ASSUME NEW k \in Coordinators, SkipChild(k) PROVE ResumeInv'
    BY <2>14, <2>t, <2>i DEF SkipChild
  <2>15. ASSUME NEW k \in Coordinators, RecoverChild(k) PROVE ResumeInv'
    BY <2>15, <2>t, <2>i DEF RecoverChild
  <2>16. ASSUME NEW k \in Coordinators, RecoverChildFails(k) PROVE ResumeInv'
    BY <2>16, <2>t, <2>i DEF RecoverChildFails
  <2>17. ASSUME NEW k \in Coordinators, NoteRecovery(k) PROVE ResumeInv'
    BY <2>17, <2>t, <2>i DEF NoteRecovery
  <2>18. ASSUME NEW k \in Coordinators, FinishCompensation(k) PROVE ResumeInv'
    BY <2>18, <2>t, <2>i DEF FinishCompensation, Return, Records
  <2>19. ASSUME NEW k \in Coordinators, ExpireRead(k) PROVE ResumeInv'
    BY <2>19, <2>t, <2>i DEF ExpireRead
  <2>20. ASSUME NEW k \in Coordinators, PutExpired(k) PROVE ResumeInv'
    BY <2>20, <2>t, <2>i DEF PutExpired, Return, Records
  <2>21. ASSUME NEW k \in Coordinators, Crash(k) PROVE ResumeInv'
    BY <2>21, <2>t, <2>i DEF Crash, Return
  <2>22. ASSUME NEW o \in Child, Elapse(o) PROVE ResumeInv'
    BY <2>22, <2>t DEF Elapse
  <2>23. ASSUME NEW o \in Child, Drift(o) PROVE ResumeInv'
    BY <2>23, <2>t DEF Drift
  <2>24. ASSUME NEW o \in Child, RestoreAlone(o) PROVE ResumeInv'
    BY <2>24, <2>t DEF RestoreAlone
  <2>25. CASE UNCHANGED vars
    BY <2>25 DEF vars
  <2> QED
    BY <2>1, <2>2, <2>3, <2>4, <2>5, <2>6, <2>7, <2>8, <2>9, <2>10, <2>11, <2>12,
       <2>13, <2>14, <2>15, <2>16, <2>17, <2>18, <2>19, <2>20, <2>21, <2>22, <2>23, <2>24, <2>25
       DEF Next, CallNext, CommitStep, RecoverStep
<1> QED
  BY <1>1, <1>2, TypeCorrect, CommitInvHolds, PTL DEF Spec

\* As long as nothing fails and no call is cut, however many commit and recover: when
\* no call is under way the manifest has a conclusive status, and its outstanding
\* work is in one that recover() takes up.  (What a crash leaves is not.)
THEOREM UncutWorkIsResumable ==
  Spec => [](faults = 0 => /\ OutstandingIsResumable
                           /\ Quiet => manifest.status \notin {"committing", "recovering"})
<1>1. ASSUME TypeOK, ResumeInv, faults = 0
      PROVE  /\ OutstandingIsResumable
             /\ Quiet => manifest.status \notin {"committing", "recovering"}
  <2>1. Quiet => manifest.status \notin {"committing", "recovering"}
    BY <1>1 DEF ResumeInv, Quiet, AtWork
  <2>2. manifest.status \in ManifestStatuses
    BY <1>1, RecordFields DEF TypeOK
  <2> QED
    BY <1>1, <2>1, <2>2 DEF OutstandingIsResumable, ResumeInv, ManifestStatuses
<1> QED
  BY <1>1, TypeCorrect, ResumeInvHolds, PTL

-----------------------------------------------------------------------------
(* One coordinator call at a time. *)

LEMMA IdsOfAppend ==
  ASSUME NEW seq \in Seq(Child), NEW o \in Child
  PROVE  IdsOf(Append(seq, o)) = IdsOf(seq) \cup {o}
<1> DEFINE longer == Append(seq, o)
<1>1. /\ longer \in Seq(Child) /\ Len(longer) = Len(seq) + 1 /\ Len(seq) \in Nat
      /\ \A i \in 1..Len(seq) : longer[i] = seq[i]
      /\ longer[Len(seq) + 1] = o
  OBVIOUS
<1>2. DOMAIN longer = 1..(Len(seq) + 1) /\ DOMAIN seq = 1..Len(seq)
  BY <1>1
<1>3. DOMAIN longer = DOMAIN seq \cup {Len(seq) + 1}
  BY <1>1, <1>2
<1> QED
  BY <1>1, <1>2, <1>3 DEF IdsOf

\* What a call is about to put never hides a child whose effect may stand.
NothingSpent == \A o \in Child : status[o] \notin Spent
Visible(k) ==
  /\ manifest.status \in {"none", "prepared", "expired", "compensated", "recovered"}
       => NothingSpent
  /\ pc[k] \in {"authorized", "expiring"} => manifest.status = "prepared"
  /\ pc[k] \in {"committing", "journalling"} => manifest.status = "committing"
  /\ pc[k] \in {"surveying", "announcing"} =>
       manifest.status \in {"committing", "committed", "partially-recovered"}
  /\ pc[k] \in {"recovering", "noting"} => manifest.status = "recovering"
  /\ pc[k] \in {"announcing", "recovering", "noting"} =>
       \A o \in Child : status[o] \in Spent => o \in progress[k].outstanding
  /\ \A o \in Child : o \in IdsOf(manifest.recovered) => status[o] = "recovered"
  /\ \A o \in Child : o \in IdsOf(progress[k].recovered) => status[o] = "recovered"

LEMMA VisibleStep ==
  ASSUME NEW k \in Coordinators, Coordinators = {k},
         TypeOK, TypeOK', LoopBounds, CommitInv, Visible(k), [Next]_vars
  PROVE  Visible(k)'
<1> USE DEF children, thrown, world, Goto, Visible, NothingSpent, Spent
<1>t. /\ manifest \in Records /\ progress \in [Coordinators -> Records]
      /\ pc \in [Coordinators -> Steps]
      /\ final \in [Coordinators -> {"none", "compensated", "recovered"}]
      /\ status \in [Child -> {"proven", "committing", "committed", "recovered"}]
  BY DEF TypeOK
<1>r. /\ pc[k] \in {"committing", "journalling"} => progress[k].status = "committing"
      /\ pc[k] \in {"announcing", "recovering", "noting"} => progress[k].status = "recovering"
      /\ pc[k] \in {"surveying", "announcing", "recovering", "noting"}
           => final[k] \in {"compensated", "recovered"}
  BY DEF CommitInv, CallRecords
<1>e. IdsOf(NoRecord.recovered) = {}
  BY DEF NoRecord, IdsOf
<1>1. CASE Prepare
  BY <1>1, <1>t, <1>r, <1>e DEF Prepare, Records, NoRecord
<1>2. CASE Approve
  BY <1>2, <1>t, <1>r, <1>e DEF Approve, Records
<1>3. CASE CommitCall(k)
  BY <1>3, <1>t, <1>r, <1>e DEF CommitCall, Records
<1>4. CASE BeginCommit(k)
  BY <1>4, <1>t, <1>r, <1>e DEF BeginCommit, Return, Records
<1>5. CASE CommitChild(k)
  BY <1>5, <1>t, <1>r, <1>e DEF CommitChild, Committable, Records
<1>6. CASE RefuseChild(k)
  BY <1>6, <1>t, <1>r, <1>e DEF RefuseChild, Committable, Records, AfterFailure
<1>7. CASE FailChild(k)
  BY <1>7, <1>t, <1>r, <1>e DEF FailChild, Committable, Records, AfterFailure
<1>8. CASE PutProgress(k)
  BY <1>8, <1>t, <1>r, <1>e DEF PutProgress, Records
<1>9. CASE PutProgressFails(k)
  BY <1>9, <1>t, <1>r, <1>e DEF PutProgressFails, Records
<1>10. CASE PutCommitted(k)
  BY <1>10, <1>t, <1>r, <1>e DEF PutCommitted, Return, Records
<1>11. CASE RecoverCall(k)
  BY <1>11, <1>t, <1>r, <1>e DEF RecoverCall, Records
<1>12. CASE Survey(k)
  BY <1>12, <1>t, <1>r, <1>e DEF Survey, Records
<1>13. CASE PutRecovering(k)
  BY <1>13, <1>t, <1>r, <1>e DEF PutRecovering, Records
<1>14. CASE SkipChild(k)
  BY <1>14, <1>t, <1>r, <1>e DEF SkipChild, ToRecover, Records
<1>15. CASE RecoverChild(k)
  <2> DEFINE o == index[k]
  <2>1. /\ o \in Child /\ pc[k] = "recovering" /\ status[o] \in Spent
        /\ status' = [status EXCEPT ![o] = "recovered"]
        /\ manifest' = manifest /\ pc' = [pc EXCEPT ![k] = "noting"]
        /\ progress[k].recovered \in Seq(Child)
    BY <1>15, <1>t DEF RecoverChild, ToRecover, Recoverable, Records
  <2>2. /\ progress'[k].recovered = Append(progress[k].recovered, o)
        /\ progress'[k].outstanding = progress[k].outstanding \ {o}
    BY <1>15, <1>t DEF RecoverChild, Records
  <2>3. IdsOf(progress'[k].recovered) = IdsOf(progress[k].recovered) \cup {o}
    BY <2>1, <2>2, IdsOfAppend
  <2> HIDE DEF o
  <2> QED
    BY <2>1, <2>2, <2>3, <1>t, <1>r
<1>16. CASE RecoverChildFails(k)
  BY <1>16, <1>t, <1>r, <1>e DEF RecoverChildFails, ToRecover, Recoverable, Records
<1>17. CASE NoteRecovery(k)
  BY <1>17, <1>t, <1>r, <1>e DEF NoteRecovery, Records
<1>18. CASE FinishCompensation(k)
  BY <1>18, <1>t, <1>r, <1>e DEF FinishCompensation, Return, Records
<1>19. CASE ExpireRead(k)
  BY <1>19, <1>t, <1>r, <1>e DEF ExpireRead, Records
<1>20. CASE PutExpired(k)
  BY <1>20, <1>t, <1>r, <1>e DEF PutExpired, Return, Records
<1>21. CASE Crash(k)
  BY <1>21, <1>t, <1>r, <1>e DEF Crash, Return, Records
<1>22. ASSUME NEW o \in Child, Elapse(o) PROVE Visible(k)'
  BY <1>22, <1>t, <1>r, <1>e DEF Elapse, Records
<1>23. ASSUME NEW o \in Child, Drift(o) PROVE Visible(k)'
  BY <1>23, <1>t, <1>r, <1>e DEF Drift, Records
<1>24. ASSUME NEW o \in Child, RestoreAlone(o) PROVE Visible(k)'
  BY <1>24, <1>t, <1>r, <1>e DEF RestoreAlone, Recoverable, Records
<1>25. CASE UNCHANGED vars
  BY <1>25, <1>t, <1>r, <1>e DEF vars
<1> QED
  BY <1>1, <1>2, <1>3, <1>4, <1>5, <1>6, <1>7, <1>8, <1>9, <1>10, <1>11, <1>12,
     <1>13, <1>14, <1>15, <1>16, <1>17, <1>18, <1>19, <1>20, <1>21, <1>22, <1>23, <1>24, <1>25
     DEF Next, CallNext, CommitStep, RecoverStep

\* A single call never loses a child: SpentChildIsVisible.
THEOREM SingleSpentChildIsVisible ==
  ASSUME NEW k, Coordinators = {k}
  PROVE  Spec => []SpentChildIsVisible
<1>1. Init => Visible(k)
  BY DEF Init, Visible, NothingSpent, Spent, NoRecord, IdsOf
<1>2. TypeOK /\ TypeOK' /\ LoopBounds /\ CommitInv /\ Visible(k) /\ [Next]_vars => Visible(k)'
  BY VisibleStep
<1>3. TypeOK /\ Visible(k) => SpentChildIsVisible
  BY DEF TypeOK, Records, ManifestStatuses, Visible, NothingSpent, SpentChildIsVisible
<1> QED
  BY <1>1, <1>2, <1>3, TypeCorrect, CommitInvHolds, PTL DEF Spec

LEMMA NobodyAlone ==
  ASSUME TypeOK, MaxAlone = 0, NEW o \in Child
  PROVE  ~RestoreAlone(o)
<1>1. IsFiniteSet(Child)
  BY FS_Interval, ChildAssumption DEF Child
<1>2. Cardinality(alone) \in Nat
  BY <1>1, FS_Subset, FS_CardinalityType DEF TypeOK
<1> QED
  BY <1>2 DEF RestoreAlone

\* The records never name a child that was not run: what is listed as
\* committed still is, or is listed as recovered, or its receipt went unheard.
Standing(o) == status[o] \in Spent \/ o \in unheard
Listed(record) == \A o \in record.committed : Standing(o) \/ o \in IdsOf(record.recovered)
Unlisted(record) == \A o \in unheard : o \in record.committed /\ o \notin IdsOf(record.recovered)
Compensating(k) == pc[k] \in {"surveying", "announcing", "recovering", "noting"}
Exact(k) ==
  /\ \A o \in unheard : status[o] = "recovered"
  /\ manifest.status \notin {"recovering", "partially-recovered"} => unheard = {}
  /\ manifest.status \in {"none", "prepared", "committing", "committed", "partially-recovered"}
       => Listed(manifest)
  /\ manifest.status = "partially-recovered" =>
       /\ Unlisted(manifest)
       /\ \A o \in Child : o \in manifest.outstanding <=> Standing(o)
  /\ pc[k] \notin {"idle", "authorized"} => Listed(progress[k])
  /\ Compensating(k) => Unlisted(progress[k])
  /\ pc[k] \in {"announcing", "recovering", "noting"} =>
       /\ progress[k].outstanding = progress[k].committed \ IdsOf(progress[k].recovered)
       /\ \A o \in progress[k].outstanding : Standing(o)

LEMMA ExactStep ==
  ASSUME NEW k \in Coordinators, Coordinators = {k}, alone' = {},
         TypeOK, TypeOK', LoopBounds, CommitInv, Visible(k), Exact(k), [Next]_vars
  PROVE  Exact(k)'
<1> USE DEF children, thrown, world, Goto, Exact, Standing, Listed, Unlisted, Compensating, Spent
<1>t. /\ manifest \in Records /\ progress \in [Coordinators -> Records]
      /\ pc \in [Coordinators -> Steps]
      /\ status \in [Child -> {"proven", "committing", "committed", "recovered"}]
  BY DEF TypeOK
<1>r. /\ pc[k] \in {"committing", "journalling"} => progress[k].status = "committing"
      /\ pc[k] \in {"announcing", "recovering", "noting"} => progress[k].status = "recovering"
      /\ pc[k] \in {"surveying", "announcing", "recovering", "noting"}
           => final[k] \in {"compensated", "recovered"}
  BY DEF CommitInv, CallRecords
<1>v. /\ pc[k] \in {"recovering", "noting"} => manifest.status = "recovering"
      /\ pc[k] \in {"announcing", "recovering", "noting"} =>
           \A o \in Child : status[o] \in Spent => o \in progress[k].outstanding
      /\ pc[k] \in {"authorized", "expiring"} => manifest.status = "prepared"
      /\ pc[k] \in {"committing", "journalling"} => manifest.status = "committing"
      /\ pc[k] \in {"surveying", "announcing"} =>
           manifest.status \in {"committing", "committed", "partially-recovered"}
  BY DEF Visible
<1>u. pc[k] \in {"committing", "journalling"} => unheard = {}
  BY <1>v
<1>1. CASE Prepare
  BY <1>1, <1>t, <1>r, <1>v DEF Prepare, Records, NoRecord
<1>2. CASE Approve
  BY <1>2, <1>t, <1>r, <1>v DEF Approve, Records
<1>3. CASE CommitCall(k)
  BY <1>3, <1>t, <1>r, <1>v DEF CommitCall, Records
<1>4. CASE BeginCommit(k)
  <2>1. CASE manifest.status = "prepared"
    <3>1. /\ manifest'.recovered = manifest.recovered /\ manifest'.committed = manifest.committed
          /\ manifest'.status = "committing" /\ progress'[k] = manifest'
          /\ pc'[k] = "committing" /\ status' = status /\ unheard' = unheard
      BY <1>4, <2>1, <1>t DEF BeginCommit, Records
    <3>2. unheard = {} /\ Listed(manifest)
      BY <2>1
    <3> QED
      BY <2>1, <3>1, <3>2, <1>t
  <2>2. CASE manifest.status # "prepared"
    BY <1>4, <2>2, <1>t, <1>v DEF BeginCommit, Return, Records
  <2> QED
    BY <2>1, <2>2
<1>5. CASE CommitChild(k)
  <2> DEFINE child == index[k]
  <2>1. /\ child \in Child /\ pc[k] = "committing"
        /\ status' = [status EXCEPT ![child] = "committed"]
        /\ manifest' = manifest /\ pc' = [pc EXCEPT ![k] = "journalling"]
        /\ unheard = {} /\ unheard' = {}
    BY <1>5, <1>u DEF CommitChild
  <2>2. /\ progress'[k].committed = progress[k].committed \cup {child}
        /\ progress'[k].recovered = progress[k].recovered
    BY <1>5, <1>t DEF CommitChild, Records
  <2> HIDE DEF child
  <2> QED
    BY <2>1, <2>2, <1>t, <1>v
<1>6. CASE RefuseChild(k)
  BY <1>6, <1>t, <1>r, <1>v DEF RefuseChild, Committable, Records, AfterFailure
<1>7. CASE FailChild(k)
  <2> DEFINE child == index[k]
  <2>1. /\ child \in Child /\ pc[k] = "committing" /\ status[child] = "proven"
        /\ manifest' = manifest /\ pc' = [pc EXCEPT ![k] = "surveying"]
        /\ unheard = {} /\ unheard' = {}
    BY <1>7, <1>u DEF FailChild, Committable
  <2>2. PICK s \in {"committing", "committed", "proven"} :
          status' = [status EXCEPT ![child] = s]
    <3>1. PICK outcome \in {<<"proven", "original">>, <<"committing", "original">>,
                            <<"committing", "foreign">>, <<"committing", "changed">>,
                            <<"committed", "changed">>} :
            status' = [status EXCEPT ![child] = outcome[1]]
      BY <1>7, Zenon DEF FailChild
    <3>2. outcome[1] \in {"committing", "committed", "proven"}
      OBVIOUS
    <3> QED
      BY <3>1, <3>2, Zenon
  <2>3. /\ progress'[k].committed =
             IF status'[child] \in Spent THEN progress[k].committed \cup {child}
             ELSE progress[k].committed
        /\ progress'[k].recovered = progress[k].recovered
    BY <1>7, <1>t DEF FailChild, AfterFailure, Records
  <2> HIDE DEF child
  <2> QED
    BY <2>1, <2>2, <2>3, <1>t, <1>v
<1>8. CASE PutProgress(k)
  BY <1>8, <1>t, <1>r, <1>v DEF PutProgress, Records
<1>9. CASE PutProgressFails(k)
  BY <1>9, <1>t, <1>r, <1>v DEF PutProgressFails, Records
<1>10. CASE PutCommitted(k)
  BY <1>10, <1>t, <1>r, <1>v DEF PutCommitted, Return, Records
<1>11. CASE RecoverCall(k)
  BY <1>11, <1>t, <1>r, <1>v DEF RecoverCall, Records
<1>12. CASE Survey(k)
  <2>1. /\ progress'[k].committed =
             progress[k].committed \cup {o \in Child : status[o] \in Spent}
        /\ progress'[k].recovered = progress[k].recovered
        /\ progress'[k].outstanding =
             progress'[k].committed \ IdsOf(progress[k].recovered)
        /\ pc' = [pc EXCEPT ![k] = "announcing"]
    BY <1>12, <1>t DEF Survey, Records
  <2>2. pc[k] = "surveying" /\ UNCHANGED <<manifest, status, unheard>>
    BY <1>12 DEF Survey
  <2> QED
    BY <2>1, <2>2, <1>t
<1>13. CASE PutRecovering(k)
  BY <1>13, <1>t, <1>r, <1>v DEF PutRecovering, Records
<1>14. CASE SkipChild(k)
  BY <1>14, <1>t, <1>r, <1>v DEF SkipChild, ToRecover, Records
<1>15. CASE RecoverChild(k)
  <2> DEFINE child == index[k]
  <2>1. /\ child \in Child /\ pc[k] = "recovering" /\ status[child] \in Spent
        /\ status' = [status EXCEPT ![child] = "recovered"]
        /\ manifest' = manifest /\ pc' = [pc EXCEPT ![k] = "noting"]
        /\ unheard' = unheard /\ child \notin unheard
        /\ progress[k].recovered \in Seq(Child)
    BY <1>15, <1>t DEF RecoverChild, ToRecover, Recoverable, Records
  <2>2. /\ progress'[k].recovered = Append(progress[k].recovered, child)
        /\ progress'[k].outstanding = progress[k].outstanding \ {child}
        /\ progress'[k].committed = progress[k].committed
    BY <1>15, <1>t DEF RecoverChild, Records
  <2>3. IdsOf(progress'[k].recovered) = IdsOf(progress[k].recovered) \cup {child}
    BY <2>1, <2>2, IdsOfAppend
  <2> HIDE DEF child
  <2> QED
    BY <2>1, <2>2, <2>3, <1>t, <1>v
<1>16. CASE RecoverChildFails(k)
  BY <1>16, <1>t, <1>r, <1>v DEF RecoverChildFails, ToRecover, Recoverable, Records
<1>17. CASE NoteRecovery(k)
  BY <1>17, <1>t, <1>r, <1>v DEF NoteRecovery, Records
<1>18. CASE FinishCompensation(k)
  BY <1>18, <1>t, <1>r, <1>v DEF FinishCompensation, Return, Records
<1>19. CASE ExpireRead(k)
  BY <1>19, <1>t, <1>r, <1>v DEF ExpireRead, Records
<1>20. CASE PutExpired(k)
  BY <1>20, <1>t, <1>r, <1>v DEF PutExpired, Return, Records
<1>21. CASE Crash(k)
  BY <1>21, <1>t, <1>r, <1>v DEF Crash, Return, Records
<1>22. ASSUME NEW o \in Child, Elapse(o) PROVE Exact(k)'
  BY <1>22, <1>t, <1>r, <1>v DEF Elapse, Records
<1>23. ASSUME NEW o \in Child, Drift(o) PROVE Exact(k)'
  BY <1>23, <1>t, <1>r, <1>v DEF Drift, Records
<1>24. ASSUME NEW o \in Child, RestoreAlone(o) PROVE Exact(k)'
  BY <1>24 DEF RestoreAlone
<1>25. CASE UNCHANGED vars
  BY <1>25, <1>t, <1>r, <1>v DEF vars
<1> QED
  BY <1>1, <1>2, <1>3, <1>4, <1>5, <1>6, <1>7, <1>8, <1>9, <1>10, <1>11, <1>12,
     <1>13, <1>14, <1>15, <1>16, <1>17, <1>18, <1>19, <1>20, <1>21, <1>22, <1>23, <1>24, <1>25
     DEF Next, CallNext, CommitStep, RecoverStep

LEMMA NoneAlone ==
  ASSUME MaxAlone = 0
  PROVE  Spec => [](alone = {})
<1>1. Init => alone = {}
  BY DEF Init
<1>2. TypeOK /\ alone = {} /\ [Next]_vars => (alone = {})'
  <2> SUFFICES ASSUME TypeOK, alone = {}, [Next]_vars PROVE alone' = {}
    OBVIOUS
  <2> USE DEF world, thrown, children
  <2>1. ASSUME NEW k \in Coordinators, CallNext(k) PROVE alone' = alone
    BY <2>1 DEF CallNext, CommitCall, CommitStep, BeginCommit, CommitChild, RefuseChild,
       FailChild, PutProgress, PutProgressFails, PutCommitted, RecoverCall, RecoverStep, Survey,
       PutRecovering, SkipChild, RecoverChild, RecoverChildFails, NoteRecovery,
       FinishCompensation, ExpireRead, PutExpired, Crash
  <2> QED
    BY <2>1, NobodyAlone DEF Next, vars, Prepare, Approve, Elapse, Drift
<1> QED
  BY <1>1, <1>2, TypeCorrect, PTL DEF Spec

\* With one call at a time and no child restored behind the manifest's back, the
\* list a partly recovered manifest shows is exact: OutstandingIsExact.  Whatever
\* fails or is cut, what stands is on it, and of what was undone nothing but the
\* children whose receipt was published by a call that threw.
THEOREM SingleOutstandingIsExact ==
  ASSUME NEW k, Coordinators = {k}, MaxAlone = 0
  PROVE  Spec => []OutstandingIsExact
<1>1. Init => Visible(k) /\ Exact(k)
  BY DEF Init, Visible, NothingSpent, Spent, NoRecord, IdsOf, Exact, Standing,
     Listed, Unlisted, Compensating
<1>2. TypeOK /\ TypeOK' /\ LoopBounds /\ CommitInv /\ Visible(k) /\ Exact(k) /\ (alone = {})' /\ [Next]_vars
      => Visible(k)' /\ Exact(k)'
  BY VisibleStep, ExactStep
<1>3. TypeOK /\ Exact(k) => OutstandingIsExact
  <2> SUFFICES ASSUME TypeOK, Exact(k), manifest.status = "partially-recovered"
               PROVE  manifest.outstanding = {o \in Child : status[o] \in Spent} \cup unheard
    BY DEF OutstandingIsExact
  <2>1. manifest.outstanding \subseteq Child /\ unheard \subseteq Child
    BY DEF TypeOK, Records
  <2> QED
    BY <2>1 DEF Exact, Standing
<1> QED
  BY <1>1, <1>2, <1>3, NoneAlone, TypeCorrect, CommitInvHolds, PTL DEF Spec

-----------------------------------------------------------------------------
(* The coordinator implements a saga. *)

\* While a call commits, the children that may have run are the ones before its
\* loop, or up to it while its last child is being journalled.
BindingOrder(k) ==
  /\ pc[k] = "committing" =>
       /\ index[k] \in 1..N + 1
       /\ \A o \in Child : status[o] \in Spent <=> o < index[k]
  /\ pc[k] = "journalling" =>
       \A o \in Child : status[o] \in Spent <=> o <= index[k]

LEMMA BindingOrderStep ==
  ASSUME NEW k \in Coordinators, Coordinators = {k}, MaxAlone = 0,
         TypeOK, TypeOK', LoopBounds, Visible(k), BindingOrder(k), [Next]_vars
  PROVE  BindingOrder(k)'
<1> USE ChildAssumption DEF children, thrown, world, Goto, BindingOrder, Spent
<1>t. /\ manifest \in Records /\ progress \in [Coordinators -> Records]
      /\ pc \in [Coordinators -> Steps]
      /\ index \in [Coordinators -> 0..N + 1]
      /\ status \in [Child -> {"proven", "committing", "committed", "recovered"}]
      /\ Child = 1..N
  BY DEF TypeOK, Child
<1>l. pc[k] = "journalling" => index[k] \in Child
  BY DEF LoopBounds
<1>1. CASE Prepare
  BY <1>1, <1>t DEF Prepare
<1>2. CASE Approve
  BY <1>2, <1>t DEF Approve
<1>3. CASE CommitCall(k)
  BY <1>3, <1>t DEF CommitCall
<1>4. CASE BeginCommit(k)
  <2>1. CASE manifest.status = "prepared"
    <3>1. \A o \in Child : status[o] \notin Spent
      BY <2>1 DEF Visible, NothingSpent
    <3>2. /\ pc' = [pc EXCEPT ![k] = "committing"] /\ status' = status
          /\ index' = [index EXCEPT ![k] = 1]
      BY <2>1, <1>4 DEF BeginCommit
    <3> QED
      BY <3>1, <3>2, <1>t
  <2>2. CASE manifest.status # "prepared"
    BY <1>4, <2>2, <1>t DEF BeginCommit, Return
  <2> QED
    BY <2>1, <2>2
<1>5. CASE CommitChild(k)
  BY <1>5, <1>t DEF CommitChild
<1>6. CASE RefuseChild(k)
  BY <1>6, <1>t DEF RefuseChild
<1>7. CASE FailChild(k)
  BY <1>7, <1>t DEF FailChild
<1>8. CASE PutProgress(k)
  BY <1>8, <1>t, <1>l DEF PutProgress
<1>9. CASE PutProgressFails(k)
  BY <1>9, <1>t DEF PutProgressFails
<1>10. CASE PutCommitted(k)
  BY <1>10, <1>t DEF PutCommitted, Return
<1>11. CASE RecoverCall(k)
  BY <1>11, <1>t DEF RecoverCall
<1>12. CASE RecoverStep(k)
  BY <1>12, <1>t DEF RecoverStep, Survey, PutRecovering, SkipChild, RecoverChild,
     RecoverChildFails, NoteRecovery, FinishCompensation, Return
<1>13. CASE ExpireRead(k)
  BY <1>13, <1>t DEF ExpireRead
<1>14. CASE PutExpired(k)
  BY <1>14, <1>t DEF PutExpired, Return
<1>15. CASE Crash(k)
  BY <1>15, <1>t DEF Crash, Return
<1>16. ASSUME NEW o \in Child, Elapse(o) \/ Drift(o) PROVE BindingOrder(k)'
  BY <1>16, <1>t DEF Elapse, Drift
<1>17. ASSUME NEW o \in Child, RestoreAlone(o) PROVE BindingOrder(k)'
  BY <1>17, NobodyAlone
<1>18. CASE UNCHANGED vars
  BY <1>18, <1>t DEF vars
<1> QED
  BY <1>1, <1>2, <1>3, <1>4, <1>5, <1>6, <1>7, <1>8, <1>9, <1>10, <1>11, <1>12,
     <1>13, <1>14, <1>15, <1>16, <1>17, <1>18 DEF Next, CallNext, CommitStep

LEMMA Phases ==
  /\ \A s \in {"none", "prepared"} : PhaseOf(s) = "ready"
  /\ PhaseOf("expired") = "lapsed"
  /\ PhaseOf("committing") = "running"
  /\ PhaseOf("committed") = "complete"
  /\ PhaseOf("recovering") = "reversing"
  /\ \A s \in {"compensated", "recovered"} : PhaseOf(s) = "reversed"
  /\ PhaseOf("partially-recovered") = "stuck"
  BY DEF PhaseOf

\* Every step of one coordinator call is a step of the saga, or invisible to it.
LEMMA SagaStep ==
  ASSUME NEW k \in Coordinators, Coordinators = {k}, MaxAlone = 0,
         TypeOK, TypeOK', LoopBounds, CommitInv, Visible(k), Exact(k), BindingOrder(k),
         [Next]_vars
  PROVE  [Abstract!Next]_(Abstract!vars)
<1> DEFINE phase == PhaseOf(manifest.status)
           applied == {o \in Child : status[o] \in Spent} \cup unheard
<1> USE ChildAssumption DEF children, thrown, world, Goto, Spent, Abstract!vars
<1>t. /\ manifest \in Records /\ progress \in [Coordinators -> Records]
      /\ pc \in [Coordinators -> Steps]
      /\ status \in [Child -> {"proven", "committing", "committed", "recovered"}]
      /\ Child = 1..N /\ Abstract!Child = Child /\ unheard \subseteq Child
  BY DEF TypeOK, Child, Abstract!Child
<1>r. /\ pc[k] \in {"committing", "journalling"} => progress[k].status = "committing"
      /\ pc[k] \in {"announcing", "recovering", "noting"} => progress[k].status = "recovering"
      /\ pc[k] \in {"surveying", "announcing", "recovering", "noting"}
           => final[k] \in {"compensated", "recovered"}
  BY DEF CommitInv, CallRecords
<1>v. /\ pc[k] \in {"authorized", "expiring"} => manifest.status = "prepared"
      /\ pc[k] \in {"committing", "journalling"} => manifest.status = "committing"
      /\ pc[k] \in {"surveying", "announcing"} =>
           manifest.status \in {"committing", "committed", "partially-recovered"}
      /\ pc[k] \in {"recovering", "noting"} => manifest.status = "recovering"
      /\ pc[k] \in {"recovering", "noting"} =>
           \A o \in Child : o \in applied <=> o \in progress[k].outstanding
  BY DEF Visible, Exact, Standing, Unlisted, Compensating
<1>u. /\ manifest.status = "committing" => unheard = {}
      /\ \A o \in unheard : status[o] = "recovered"
  BY DEF Exact
<1>e. pc[k] = "committing" => applied = {o \in Child : status[o] \in Spent}
  BY <1>u, <1>v
<1>s. phase' = phase /\ status' = status /\ unheard' = unheard => UNCHANGED Abstract!vars
  OBVIOUS
<1>a. ASSUME NEW o \in Child, Abstract!Apply(o) \/ Abstract!Undo(o) PROVE Abstract!Next
  <2>1. o \in Abstract!Child
    BY <1>t
  <2> QED
    BY <1>a, <2>1, Zenon DEF Abstract!Next
<1>1. CASE Prepare
  <2>1. manifest.status = "none" /\ manifest'.status = "prepared" /\ status' = status /\ unheard' = unheard
    BY <1>1 DEF Prepare, NoRecord
  <2> QED
    BY <2>1, <1>s, Phases
<1>2. CASE Approve
  BY <1>2, <1>s DEF Approve
<1>3. CASE CommitCall(k)
  BY <1>3, <1>s DEF CommitCall
<1>4. CASE BeginCommit(k)
  <2>1. CASE manifest.status = "prepared"
    <3>1. manifest'.status = "committing" /\ status' = status /\ unheard' = unheard
      BY <1>4, <2>1, <1>t DEF BeginCommit, Records
    <3>2. Abstract!Start
      BY <2>1, <3>1, Phases DEF Abstract!Start
    <3> QED
      BY <3>2 DEF Abstract!Next
  <2>2. CASE manifest.status # "prepared"
    BY <1>4, <2>2, <1>s DEF BeginCommit
  <2> QED
    BY <2>1, <2>2
<1>5. CASE CommitChild(k)
  <2>c. PICK child \in Child : child = index[k]
    BY <1>5 DEF CommitChild
  <2>1. /\ child \in Child /\ pc[k] = "committing"
        /\ status' = [status EXCEPT ![child] = "committed"] /\ manifest' = manifest
        /\ unheard' = unheard
    BY <2>c, <1>5 DEF CommitChild
  <2>2. applied = 1..(child - 1)
    BY <2>c, <2>1, <1>t, <1>e DEF BindingOrder
  <2>3. applied' = applied \cup {child}
    BY <2>1, <1>t
  <2>4. Abstract!Apply(child)
    BY <2>1, <2>2, <2>3, <1>v, Phases DEF Abstract!Apply
  <2> QED
    BY <2>1, <2>4, <1>a
<1>6. CASE RefuseChild(k)
  BY <1>6, <1>s DEF RefuseChild
<1>7. CASE FailChild(k)
  <2>c. PICK child \in Child : child = index[k]
    BY <1>7 DEF FailChild
  <2>1. /\ child \in Child /\ pc[k] = "committing" /\ status[child] = "proven"
        /\ manifest' = manifest /\ unheard' = unheard
    BY <2>c, <1>7 DEF FailChild, Committable
  <2>2. PICK s \in {"committing", "committed", "proven"} :
          status' = [status EXCEPT ![child] = s]
    <3>1. PICK outcome \in {<<"proven", "original">>, <<"committing", "original">>,
                            <<"committing", "foreign">>, <<"committing", "changed">>,
                            <<"committed", "changed">>} :
            status' = [status EXCEPT ![child] = outcome[1]]
      BY <2>c, <1>7, Zenon DEF FailChild
    <3>2. outcome[1] \in {"committing", "committed", "proven"}
      OBVIOUS
    <3> QED
      BY <3>1, <3>2, Zenon
  <2>3. CASE s = "proven"
    <3>1. status' = status
      BY <2>1, <2>2, <2>3, <1>t
    <3> QED
      BY <2>1, <3>1, <1>s
  <2>4. CASE s # "proven"
    <3>2. applied = 1..(child - 1)
      BY <2>c, <2>1, <1>t, <1>e DEF BindingOrder
    <3>3. applied' = applied \cup {child}
      BY <2>1, <2>2, <2>4, <1>t
    <3>4. Abstract!Apply(child)
      BY <2>1, <3>2, <3>3, <1>v, Phases DEF Abstract!Apply
    <3> QED
      BY <2>1, <3>4, <1>a
  <2> QED
    BY <2>3, <2>4
<1>8. CASE PutProgress(k)
  BY <1>8, <1>s, <1>r, <1>v DEF PutProgress
<1>9. CASE PutProgressFails(k)
  BY <1>9, <1>s, <1>r, <1>v DEF PutProgressFails
<1>10. CASE PutCommitted(k)
  <2>1. /\ pc[k] = "committing" /\ index[k] = N + 1 /\ status' = status /\ unheard' = unheard
        /\ manifest'.status = "committed"
    BY <1>10, <1>t DEF PutCommitted, Records
  <2>2. applied = Child
    BY <2>1, <1>t, <1>e DEF BindingOrder
  <2>3. Abstract!Complete
    BY <2>1, <2>2, <1>v, <1>t, Phases DEF Abstract!Complete
  <2> QED
    BY <2>3 DEF Abstract!Next
<1>11. CASE RecoverCall(k)
  BY <1>11, <1>s DEF RecoverCall
<1>12. CASE Survey(k)
  BY <1>12, <1>s DEF Survey
<1>13. CASE PutRecovering(k)
  <2>1. /\ pc[k] = "announcing" /\ status' = status /\ unheard' = unheard /\ manifest'.status = "recovering"
    BY <1>13, <1>r DEF PutRecovering
  <2>2. Abstract!Reverse
    BY <2>1, <1>v, Phases DEF Abstract!Reverse
  <2> QED
    BY <2>2 DEF Abstract!Next
<1>14. CASE SkipChild(k)
  BY <1>14, <1>s DEF SkipChild
<1>15. CASE RecoverChild(k)
  <2>c. PICK child \in Child : child = index[k]
    BY <1>15 DEF RecoverChild
  <2>1. /\ child \in Child /\ pc[k] = "recovering" /\ status[child] \in Spent
        /\ status' = [status EXCEPT ![child] = "recovered"] /\ manifest' = manifest
        /\ unheard' = unheard
    BY <2>c, <1>15 DEF RecoverChild, Recoverable
  <2>2. child \in applied /\ applied' = applied \ {child}
    BY <2>1, <1>t, <1>u
  <2>3. Abstract!Undo(child)
    BY <2>1, <2>2, <1>v, Phases DEF Abstract!Undo
  <2> QED
    BY <2>1, <2>3, <1>a
<1>16. CASE RecoverChildFails(k)
  <2>c. PICK child \in Child : child = index[k]
    BY <1>16 DEF RecoverChildFails
  <2>1. manifest' = manifest
    BY <1>16 DEF RecoverChildFails
  <2>2. CASE UNCHANGED <<status, unheard>>
    BY <2>1, <2>2, <1>s
  <2>3. CASE /\ status[child] \in Spent
             /\ status' = [status EXCEPT ![child] = "recovered"]
             /\ unheard' = unheard \cup {child}
    <3>1. applied' = applied
      BY <2>3, <1>t
    <3> QED
      BY <2>1, <3>1
  <2> QED
    BY <2>c, <2>2, <2>3, <1>16 DEF RecoverChildFails, Recoverable
<1>17. CASE NoteRecovery(k)
  BY <1>17, <1>s, <1>r, <1>v DEF NoteRecovery
<1>18. CASE FinishCompensation(k)
  <2>1. /\ pc[k] = "recovering" /\ status' = status /\ unheard' = unheard
        /\ manifest'.status = IF progress[k].outstanding = {} THEN final[k]
                              ELSE "partially-recovered"
    BY <1>18, <1>t DEF FinishCompensation, Records
  <2>2. progress[k].outstanding = applied
    BY <2>1, <1>t, <1>v DEF Records
  <2>3. CASE applied = {}
    <3>1. Abstract!Reversed
      BY <2>1, <2>2, <2>3, <1>r, <1>v, Phases DEF Abstract!Reversed
    <3> QED
      BY <3>1 DEF Abstract!Next
  <2>4. CASE applied # {}
    <3>1. Abstract!Stick
      BY <2>1, <2>2, <2>4, <1>v, Phases DEF Abstract!Stick
    <3> QED
      BY <3>1 DEF Abstract!Next
  <2> QED
    BY <2>3, <2>4
<1>19. CASE ExpireRead(k)
  BY <1>19, <1>s DEF ExpireRead
<1>20. CASE PutExpired(k)
  <2>1. pc[k] = "expiring" /\ status' = status /\ unheard' = unheard /\ manifest'.status = "expired"
    BY <1>20, <1>t DEF PutExpired, Records
  <2>2. Abstract!Lapse
    BY <2>1, <1>v, Phases DEF Abstract!Lapse
  <2> QED
    BY <2>2 DEF Abstract!Next
<1>21. CASE Crash(k)
  BY <1>21, <1>s DEF Crash
<1>22. ASSUME NEW o \in Child, Elapse(o) \/ Drift(o) PROVE UNCHANGED Abstract!vars
  BY <1>22, <1>s DEF Elapse, Drift
<1>23. ASSUME NEW o \in Child, RestoreAlone(o) PROVE FALSE
  BY <1>23, NobodyAlone
<1>24. CASE UNCHANGED vars
  BY <1>24, <1>s DEF vars
<1> QED
  BY <1>1, <1>2, <1>3, <1>4, <1>5, <1>6, <1>7, <1>8, <1>9, <1>10, <1>11, <1>12,
     <1>13, <1>14, <1>15, <1>16, <1>17, <1>18, <1>19, <1>20, <1>21, <1>22, <1>23, <1>24
     DEF Next, CallNext, CommitStep, RecoverStep

\* ImplementsSaga: with one call at a time and no child restored behind the
\* manifest's back, whatever fails, is cut, expires, drifts or is retried, the
\* children run in binding order and are undone, as far as the calls that undo
\* them say so, until none is left, or the manifest says that it is stuck.
THEOREM SingleImplementsSaga ==
  ASSUME NEW k, Coordinators = {k}, MaxAlone = 0
  PROVE  Spec => ImplementsSaga
<1> DEFINE Inv == Visible(k) /\ Exact(k) /\ BindingOrder(k)
<1>1. Init => Abstract!Init
  BY Phases DEF Init, Abstract!Init, NoRecord, Spent
<1>2. Init => Inv
  BY DEF Init, Visible, NothingSpent, Spent, NoRecord, IdsOf, Exact, Standing, Listed,
     Unlisted, Compensating, BindingOrder
<1>3. TypeOK /\ TypeOK' /\ LoopBounds /\ CommitInv /\ Inv /\ (alone = {})' /\ [Next]_vars => Inv'
  BY VisibleStep, ExactStep, BindingOrderStep
<1>4. TypeOK /\ TypeOK' /\ LoopBounds /\ CommitInv /\ Inv /\ [Next]_vars
      => [Abstract!Next]_(Abstract!vars)
  BY SagaStep
<1> QED
  BY <1>1, <1>2, <1>3, <1>4, NoneAlone, TypeCorrect, CommitInvHolds, PTL
     DEF Spec, ImplementsSaga, Abstract!Spec

-----------------------------------------------------------------------------
(* The order of a compensation. *)

\* A sequence of children each of which was bound before the ones that precede
\* it, but for those whose own recovery had thrown.
Descends(sequence) ==
  \A i, j \in DOMAIN sequence :
    i < j => sequence[i] > sequence[j] \/ sequence[j] \in refused

\* What is listed as recovered was recovered after what is above it.  A call that
\* starts where another one has left off finds nothing recovered, or nothing left
\* but children that have been refused; what its loop still has to recover for the
\* first time lies at the loop or below it, and below all that it has recovered.
ToDo(record) == {o \in Child : status[o] \in Spent} \cup (record.committed \ IdsOf(record.recovered))
Ordered(k) ==
  /\ Descends(manifest.recovered) /\ Descends(progress[k].recovered)
  /\ manifest.status \in {"none", "prepared", "expired", "committing", "committed"}
       => manifest.recovered = <<>>
  /\ manifest.status = "partially-recovered" => ToDo(manifest) \subseteq refused
  /\ ~Compensating(k) => progress[k].recovered = <<>>
  /\ pc[k] = "surveying" => progress[k].recovered = <<>> \/ ToDo(progress[k]) \subseteq refused
  /\ pc[k] \in {"announcing", "recovering", "noting"} =>
       /\ progress[k].outstanding = progress[k].committed \ IdsOf(progress[k].recovered)
       /\ \A o \in progress[k].outstanding \ refused :
            /\ \A c \in IdsOf(progress[k].recovered) : c > o
            /\ pc[k] = "recovering" => o <= index[k]
            /\ pc[k] = "noting" => o < index[k]

LEMMA DescendsAppend ==
  ASSUME NEW seq \in Seq(Child), NEW o \in Child, Descends(seq),
         o \in refused \/ \A c \in IdsOf(seq) : c > o
  PROVE  Descends(Append(seq, o))
<1> DEFINE longer == Append(seq, o)
<1>1. /\ longer \in Seq(Child) /\ Len(longer) = Len(seq) + 1 /\ Len(seq) \in Nat
      /\ \A i \in 1..Len(seq) : longer[i] = seq[i]
      /\ longer[Len(seq) + 1] = o
  OBVIOUS
<1>2. DOMAIN longer = 1..(Len(seq) + 1) /\ DOMAIN seq = 1..Len(seq)
  BY <1>1
<1>3. ASSUME NEW i \in DOMAIN longer, NEW j \in DOMAIN longer, i < j
      PROVE  longer[i] > longer[j] \/ longer[j] \in refused
  <2>1. i \in 1..Len(seq)
    BY <1>1, <1>2, <1>3
  <2>2. longer[i] = seq[i] /\ seq[i] \in IdsOf(seq)
    BY <2>1, <1>1, <1>2 DEF IdsOf
  <2>3. CASE j = Len(seq) + 1
    BY <2>2, <2>3, <1>1
  <2>4. CASE j # Len(seq) + 1
    <3>1. j \in 1..Len(seq)
      BY <2>4, <1>1, <1>2
    <3> QED
      BY <3>1, <2>1, <2>2, <1>1, <1>2, <1>3 DEF Descends
  <2> QED
    BY <2>3, <2>4
<1> QED
  BY <1>3 DEF Descends

LEMMA NothingRecovered ==
  IdsOf(<<>>) = {} /\ Descends(<<>>) /\ NoRecord.recovered = <<>>
  BY DEF IdsOf, Descends, NoRecord

\* What has been refused once stays in the history.
LEMMA RefusedGrows ==
  ASSUME [Next]_vars
  PROVE  refused \subseteq refused'
<1> USE DEF world, thrown, children
<1>1. ASSUME NEW k \in Coordinators, CallNext(k) PROVE refused \subseteq refused'
  BY <1>1 DEF CallNext, CommitCall, CommitStep, BeginCommit, CommitChild, RefuseChild,
     FailChild, PutProgress, PutProgressFails, PutCommitted, RecoverCall, RecoverStep, Survey,
     PutRecovering, SkipChild, RecoverChild, RecoverChildFails, NoteRecovery,
     FinishCompensation, ExpireRead, PutExpired, Crash
<1> QED
  BY <1>1 DEF Next, vars, Prepare, Approve, Elapse, Drift, RestoreAlone

LEMMA OrderedStep ==
  ASSUME NEW k \in Coordinators, Coordinators = {k}, TypeOK, TypeOK', LoopBounds,
         CommitInv, Visible(k), Ordered(k), [Next]_vars
  PROVE  Ordered(k)'
<1> USE ChildAssumption DEF children, thrown, world, Goto
<1>t. /\ manifest \in Records /\ progress \in [Coordinators -> Records]
      /\ pc \in [Coordinators -> Steps]
      /\ index \in [Coordinators -> 0..N + 1]
      /\ final \in [Coordinators -> {"none", "compensated", "recovered"}]
      /\ status \in [Child -> {"proven", "committing", "committed", "recovered"}]
      /\ Child = 1..N
  BY DEF TypeOK, Child
<1>i. pc[k] = "noting" => index[k] \in Child
  BY DEF LoopBounds
<1>r. /\ pc[k] \in {"committing", "journalling"} => progress[k].status = "committing"
      /\ pc[k] \in {"announcing", "recovering", "noting"} => progress[k].status = "recovering"
      /\ pc[k] \in {"surveying", "announcing", "recovering", "noting"}
           => final[k] \in {"compensated", "recovered"}
  BY DEF CommitInv, CallRecords
<1>v. /\ pc[k] \in {"authorized", "expiring"} => manifest.status = "prepared"
      /\ pc[k] \in {"committing", "journalling"} => manifest.status = "committing"
      /\ pc[k] \in {"announcing", "recovering", "noting"} =>
           \A o \in Child : status[o] \in Spent => o \in progress[k].outstanding
  BY DEF Visible
<1>d. \A sequence : Descends(sequence) => Descends(sequence)'
  BY RefusedGrows DEF Descends
<1>g. refused \subseteq refused'
  BY RefusedGrows
<1> USE DEF Ordered, Compensating, ToDo
<1>1. CASE Prepare
  <2>1. /\ manifest.status = "none" /\ manifest'.status = "prepared"
        /\ manifest'.recovered = <<>> /\ UNCHANGED <<status, pc, progress, index, refused>>
    BY <1>1, NothingRecovered DEF Prepare, NoRecord
  <2> QED
    BY <2>1, <1>d, NothingRecovered
<1>2. CASE Approve
  BY <1>2, <1>d DEF Approve
<1>3. CASE CommitCall(k)
  BY <1>3, <1>t, <1>d DEF CommitCall
<1>4. CASE BeginCommit(k)
  <2>1. CASE manifest.status = "prepared"
    <3>1. /\ manifest'.recovered = manifest.recovered /\ manifest'.status = "committing"
          /\ progress'[k] = manifest' /\ pc'[k] = "committing" /\ UNCHANGED <<status, refused>>
      BY <1>4, <2>1, <1>t DEF BeginCommit, Records
    <3> QED
      BY <2>1, <3>1, <1>d
  <2>2. CASE manifest.status # "prepared"
    BY <2>2, <1>4, <1>v DEF BeginCommit
  <2> QED
    BY <2>1, <2>2
<1>5. CASE CommitChild(k)
  <2>1. /\ pc[k] = "committing" /\ pc'[k] = "journalling" /\ manifest' = manifest
        /\ refused' = refused
    BY <1>5, <1>t DEF CommitChild
  <2>2. progress'[k].recovered = progress[k].recovered
    BY <1>5, <1>t DEF CommitChild, Records
  <2> QED
    BY <2>1, <2>2, <1>t, <1>v, <1>d
<1>6. CASE RefuseChild(k)
  <2>1. progress'[k].recovered = progress[k].recovered
    BY <1>6, <1>t DEF RefuseChild, AfterFailure, Records
  <2>2. /\ pc[k] = "committing" /\ pc'[k] = "surveying" /\ manifest' = manifest
        /\ refused' = refused
    BY <1>6, <1>t DEF RefuseChild
  <2> QED
    BY <2>1, <2>2, <1>v, <1>d
<1>7. CASE FailChild(k)
  <2>1. progress'[k].recovered = progress[k].recovered
    BY <1>7, <1>t DEF FailChild, AfterFailure, Records
  <2>2. /\ pc[k] = "committing" /\ pc'[k] = "surveying" /\ manifest' = manifest
        /\ refused' = refused
    BY <1>7, <1>t DEF FailChild
  <2> QED
    BY <2>1, <2>2, <1>v, <1>d
<1>8. CASE PutProgress(k)
  <2>1. /\ pc[k] = "journalling" /\ pc'[k] = "committing" /\ manifest' = progress[k]
        /\ UNCHANGED <<progress, refused>>
    BY <1>8, <1>t DEF PutProgress
  <2> QED
    BY <2>1, <1>r, <1>d
<1>9. CASE PutProgressFails(k)
  <2>1. /\ pc[k] = "journalling" /\ pc'[k] = "surveying" /\ manifest' \in {manifest, progress[k]}
        /\ UNCHANGED <<progress, refused>>
    BY <1>9, <1>t DEF PutProgressFails
  <2> QED
    BY <2>1, <1>r, <1>v, <1>d
<1>10. CASE PutCommitted(k)
  <2>1. /\ manifest'.recovered = progress[k].recovered /\ manifest'.status = "committed"
        /\ pc[k] = "committing" /\ pc'[k] = "idle" /\ refused' = refused
        /\ progress'[k] = NoRecord
    BY <1>10, <1>t DEF PutCommitted, Return, Records
  <2> QED
    BY <2>1, <1>d, NothingRecovered
<1>11. CASE RecoverCall(k)
  <2>1. /\ pc'[k] = "surveying" /\ progress'[k] = manifest /\ UNCHANGED <<manifest, status, refused>>
        /\ manifest.status \in {"committed", "committing", "partially-recovered"}
    BY <1>11, <1>t DEF RecoverCall
  <2> QED
    BY <2>1, <1>d
<1>12. CASE Survey(k)
  <2>1. /\ pc[k] = "surveying" /\ pc'[k] = "announcing" /\ UNCHANGED <<manifest, status, refused>>
        /\ progress'[k].recovered = progress[k].recovered
        /\ progress'[k].outstanding = progress'[k].committed \ IdsOf(progress[k].recovered)
        /\ progress'[k].committed = progress[k].committed \cup {o \in Child : status[o] \in Spent}
    BY <1>12, <1>t DEF Survey, Records
  <2>2. CASE progress[k].recovered = <<>>
    BY <2>1, <2>2, <1>d, NothingRecovered
  <2>3. CASE ToDo(progress[k]) \subseteq refused
    <3>1. progress'[k].outstanding \subseteq refused
      BY <2>1, <2>3
    <3> QED
      BY <2>1, <3>1, <1>d
  <2> QED
    BY <2>1, <2>2, <2>3
<1>13. CASE PutRecovering(k)
  <2>1. /\ pc[k] = "announcing" /\ pc'[k] = "recovering" /\ index'[k] = N
        /\ manifest' = progress[k] /\ UNCHANGED <<status, progress, refused>>
    BY <1>13, <1>t DEF PutRecovering
  <2>2. progress[k].outstanding \subseteq Child
    BY <1>t DEF Records
  <2> QED
    BY <2>1, <2>2, <1>r, <1>t, <1>d
<1>14. CASE SkipChild(k)
  <2>1. /\ pc[k] = "recovering" /\ pc'[k] = "recovering" /\ index[k] \in Child
        /\ index'[k] = index[k] - 1
        /\ UNCHANGED <<manifest, status, progress, refused>>
    BY <1>14, <1>t DEF SkipChild
  <2>2. index[k] \notin progress[k].outstanding
    BY <2>1, <1>14 DEF SkipChild, ToRecover
  <2>3. progress[k].outstanding \subseteq Child
    BY <1>t DEF Records
  <2>4. \A o \in progress[k].outstanding \ refused : o <= index'[k]
    BY <2>1, <2>2, <2>3, <1>t
  <2> QED
    BY <2>1, <2>4, <1>d
<1>15. CASE RecoverChild(k)
  <2>c. PICK child \in Child : child = index[k]
    BY <1>15 DEF RecoverChild
  <2>1. /\ pc[k] = "recovering" /\ pc'[k] = "noting" /\ index'[k] = child
        /\ status' = [status EXCEPT ![child] = "recovered"]
        /\ UNCHANGED <<manifest, refused>> /\ ToRecover(k, child)
    BY <2>c, <1>15, <1>t DEF RecoverChild
  <2>2. /\ progress'[k].recovered = Append(progress[k].recovered, child)
        /\ progress'[k].outstanding = progress[k].outstanding \ {child}
        /\ progress'[k].committed = progress[k].committed
    BY <2>c, <1>15, <1>t DEF RecoverChild, Records
  <2>3. /\ progress[k].recovered \in Seq(Child)
        /\ progress[k].outstanding \subseteq Child
    BY <1>t DEF Records
  <2>4. IdsOf(progress'[k].recovered) = IdsOf(progress[k].recovered) \cup {child}
    BY <2>2, <2>3, IdsOfAppend
  <2>5. child \in progress[k].outstanding
    BY <2>1 DEF ToRecover
  <2>6. child \in refused \/ \A c \in IdsOf(progress[k].recovered) : c > child
    BY <2>1, <2>5
  <2>7. Descends(progress[k].recovered)'
    <3>1. Descends(Append(progress[k].recovered, child))
      BY <2>3, <2>6, DescendsAppend
    <3> QED
      BY <3>1, <2>1, <2>2 DEF Descends
  <2>8. \A o \in progress'[k].outstanding \ refused : o < child
    BY <2>c, <2>1, <2>2, <2>3, <1>t
  <2>9. \A o \in progress'[k].outstanding \ refused :
          \A c \in IdsOf(progress'[k].recovered) : c > o
    BY <2>1, <2>2, <2>3, <2>4, <2>8, <1>t
  <2>10. progress'[k].outstanding = progress'[k].committed \ IdsOf(progress'[k].recovered)
    BY <2>1, <2>2, <2>4
  <2>11. manifest.status = "recovering"
    BY <2>1 DEF Visible
  <2> QED
    BY <2>1, <2>7, <2>8, <2>9, <2>10, <2>11, <1>d
<1>16. CASE RecoverChildFails(k)
  <2>c. PICK child \in Child : child = index[k]
    BY <1>16 DEF RecoverChildFails
  <2>1. /\ pc[k] = "recovering" /\ pc'[k] = "recovering" /\ index'[k] = child - 1
        /\ refused' = refused \cup {child} /\ UNCHANGED <<manifest, progress>>
    BY <2>c, <1>16, <1>t DEF RecoverChildFails
  <2>2. progress[k].outstanding \subseteq Child
    BY <1>t DEF Records
  <2>3. \A o \in progress[k].outstanding \ refused' : o <= index'[k]
    BY <2>c, <2>1, <2>2, <1>t
  <2>4. manifest.status = "recovering"
    BY <2>1 DEF Visible
  <2> QED
    BY <2>1, <2>3, <2>4, <1>d
<1>17. CASE NoteRecovery(k)
  <2>1. /\ pc[k] = "noting" /\ pc'[k] = "recovering" /\ index'[k] = index[k] - 1
        /\ manifest' \in {manifest, progress[k]} /\ UNCHANGED <<status, progress, refused>>
    BY <1>17, <1>t DEF NoteRecovery
  <2>2. progress[k].outstanding \subseteq Child
    BY <1>t DEF Records
  <2>3. \A o \in progress[k].outstanding \ refused : o <= index'[k]
    BY <2>1, <2>2, <1>i, <1>t
  <2>4. manifest.status = "recovering"
    BY <2>1 DEF Visible
  <2> QED
    BY <2>1, <2>3, <2>4, <1>r, <1>d
<1>18. CASE FinishCompensation(k)
  <2>1. /\ pc[k] = "recovering" /\ index[k] = 0 /\ pc'[k] = "idle" /\ progress'[k] = NoRecord
        /\ UNCHANGED <<status, refused>> /\ manifest'.recovered = progress[k].recovered
        /\ manifest'.committed = progress[k].committed
        /\ manifest'.status \in {"compensated", "recovered", "partially-recovered"}
    BY <1>18, <1>t, <1>r DEF FinishCompensation, Return, Records
  <2>2. progress[k].outstanding \subseteq Child
    BY <1>t DEF Records
  <2>3. progress[k].outstanding \subseteq refused
    BY <2>1, <2>2, <1>t
  <2>4. ToDo(manifest)' \subseteq refused
    BY <2>1, <2>3, <1>v
  <2> QED
    BY <2>1, <2>4, <1>d, NothingRecovered
<1>19. CASE ExpireRead(k)
  <2>1. /\ manifest.status = "prepared" /\ progress'[k] = manifest /\ pc'[k] = "expiring"
        /\ UNCHANGED <<manifest, status, refused>>
    BY <1>19, <1>t DEF ExpireRead
  <2> QED
    BY <2>1, <1>d
<1>20. CASE PutExpired(k)
  <2>1. /\ manifest'.recovered = progress[k].recovered /\ manifest'.status = "expired"
        /\ pc[k] = "expiring" /\ pc'[k] = "idle" /\ refused' = refused
        /\ progress'[k] = NoRecord
    BY <1>20, <1>t DEF PutExpired, Return, Records
  <2> QED
    BY <2>1, <1>d, NothingRecovered
<1>21. CASE Crash(k)
  <2>1. /\ pc'[k] = "idle" /\ progress'[k] = NoRecord /\ UNCHANGED <<manifest, status, refused>>
    BY <1>21, <1>t DEF Crash, Return
  <2> QED
    BY <2>1, <1>d, NothingRecovered
<1>22. ASSUME NEW o \in Child, Elapse(o) PROVE Ordered(k)'
  BY <1>22, <1>d DEF Elapse
<1>23. ASSUME NEW o \in Child, Drift(o) PROVE Ordered(k)'
  BY <1>23, <1>d DEF Drift
<1>24. ASSUME NEW o \in Child, RestoreAlone(o) PROVE Ordered(k)'
  <2>1. /\ UNCHANGED <<manifest, pc, progress, index, refused>>
        /\ status' = [status EXCEPT ![o] = "recovered"]
    BY <1>24 DEF RestoreAlone
  <2>2. \A c \in Child : status'[c] \in Spent => status[c] \in Spent
    BY <2>1, <1>t DEF Spent
  <2> QED
    BY <2>1, <2>2, <1>d
<1>25. CASE UNCHANGED vars
  BY <1>25, <1>d DEF vars
<1> QED
  BY <1>1, <1>2, <1>3, <1>4, <1>5, <1>6, <1>7, <1>8, <1>9, <1>10, <1>11, <1>12,
     <1>13, <1>14, <1>15, <1>16, <1>17, <1>18, <1>19, <1>20, <1>21, <1>22, <1>23, <1>24, <1>25
     DEF Next, CallNext, CommitStep, RecoverStep

\* ReverseOrder: with one call at a time, however often it is cut, refused and
\* taken up again, whatever drifts and whatever is restored alone, a child is
\* undone after one bound before it only if its own recovery has thrown.
THEOREM SingleReverseOrder ==
  ASSUME NEW k, Coordinators = {k}
  PROVE  Spec => []ReverseOrder
<1>1. Init => Visible(k) /\ Ordered(k)
  BY NothingRecovered DEF Init, Visible, NothingSpent, Spent, NoRecord, IdsOf, Ordered, Compensating
<1>2. TypeOK /\ TypeOK' /\ LoopBounds /\ CommitInv /\ Visible(k) /\ Ordered(k) /\ [Next]_vars
      => Visible(k)' /\ Ordered(k)'
  BY VisibleStep, OrderedStep
<1>3. Ordered(k) => ReverseOrder
  BY DEF ReverseOrder, Ordered, Descends
<1> QED
  BY <1>1, <1>2, <1>3, TypeCorrect, CommitInvHolds, PTL DEF Spec
=============================================================================
