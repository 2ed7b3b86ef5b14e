---------------------- MODULE RecoveryOperation_proofs ----------------------
(***************************************************************************)
(* Proofs about RecoveryOperation, for any number of calls, any contents,  *)
(* any effect and any number of interruptions and foreign writes.          *)
(***************************************************************************)
EXTENDS RecoveryOperation, TLAPS

\* TypeOK: the ledger record, the authorization and every call's position and
\* snapshot stay within their domains, whatever interleaves.
THEOREM TypeCorrect == Spec => []TypeOK
<1> USE OrigAssumption, EffectAssumption, TornAssumption, NoneAssumption,
        BoundAssumption DEF TypeOK, Records, Statuses, Steps, CommitSteps, RecoverSteps
<1>1. Init => TypeOK
  <2> SUFFICES ASSUME Init PROVE TypeOK
    OBVIOUS
  <2>1. ledger \in Records /\ snap \in [Calls -> Records]
    BY DEF Init, NoRecord
  <2>2. pc \in [Calls -> Steps]
    BY DEF Init
  <2>3. token \in BOOLEAN /\ elapsed \in BOOLEAN /\ artifact \in BOOLEAN
    BY Zenon DEF Init
  <2>4. attempts \in Nat /\ drifts \in 0..MaxDrifts /\ interrupts \in 0..MaxInterrupts
    BY DEF Init
  <2> QED
    BY <2>1, <2>2, <2>3, <2>4 DEF Init
<1>2. TypeOK /\ [Next]_vars => TypeOK'
  <2> SUFFICES ASSUME TypeOK, [Next]_vars PROVE TypeOK'
    OBVIOUS
  <2> USE DEF At, Goto, environment
  <2> ASSUME NEW c \in Calls, Finish(c)
      PROVE  pc' \in [Calls -> Steps] /\ snap' \in [Calls -> Records]
    BY DEF Finish, NoRecord
  <2>1. CASE Prepare
    BY <2>1 DEF Prepare, ProofOf
  <2>2. CASE RequestApproval
    BY <2>2 DEF RequestApproval
  <2>3. CASE Approve
    BY <2>3 DEF Approve
  <2>4. CASE ExpireAuthorization
    BY <2>4 DEF ExpireAuthorization
  <2>5. ASSUME NEW c \in Calls, CommitCall(c) PROVE TypeOK'
    BY <2>5 DEF CommitCall
  <2>6. ASSUME NEW c \in Calls, ReadForCommit(c) PROVE TypeOK'
    BY <2>6 DEF ReadForCommit, Finish, NoRecord
  <2>7. ASSUME NEW c \in Calls, WitnessForCommit(c) PROVE TypeOK'
    BY <2>7 DEF WitnessForCommit, Finish, NoRecord
  <2>8. ASSUME NEW c \in Calls, BeginCommit(c) PROVE TypeOK'
    BY <2>8 DEF BeginCommit, Finish, NoRecord
  <2>9. ASSUME NEW c \in Calls, Mutate(c) PROVE TypeOK'
    BY <2>9 DEF Mutate
  <2>10. ASSUME NEW c \in Calls, MeasurePost(c) PROVE TypeOK'
    BY <2>10 DEF MeasurePost
  <2>11. ASSUME NEW c \in Calls, PutCommitted(c) PROVE TypeOK'
    BY <2>11 DEF PutCommitted, Finish, NoRecord
  <2>12. ASSUME NEW c \in Calls, RecoverCall(c) PROVE TypeOK'
    BY <2>12 DEF RecoverCall
  <2>13. ASSUME NEW c \in Calls, WitnessForRecover(c) PROVE TypeOK'
    BY <2>13 DEF WitnessForRecover, Finish, NoRecord
  <2>14. ASSUME NEW c \in Calls, Restore(c) PROVE TypeOK'
    BY <2>14 DEF Restore
  <2>15. ASSUME NEW c \in Calls, VerifyRestore(c) PROVE TypeOK'
    BY <2>15 DEF VerifyRestore, Finish, NoRecord
  <2>16. ASSUME NEW c \in Calls, PutRecovered(c) PROVE TypeOK'
    BY <2>16 DEF PutRecovered, Finish, NoRecord
  <2>17. ASSUME NEW c \in Calls, Interrupt(c) PROVE TypeOK'
    BY <2>17 DEF Interrupt, Finish, NoRecord
  <2>18. CASE Drift
    BY <2>18 DEF Drift
  <2>19. CASE SpoilArtifact
    <3>1. artifact' \in BOOLEAN
      BY <2>19, Zenon DEF SpoilArtifact
    <3> QED
      BY <2>19, <3>1 DEF SpoilArtifact
  <2>20. CASE Elapse
    BY <2>20 DEF Elapse
  <2>21. CASE UNCHANGED vars
    BY <2>21 DEF vars
  <2> QED
    BY <2>1, <2>2, <2>3, <2>4, <2>5, <2>6, <2>7, <2>8, <2>9, <2>10, <2>11,
       <2>12, <2>13, <2>14, <2>15, <2>16, <2>17, <2>18, <2>19, <2>20, <2>21
       DEF Next, CallNext, CommitStep, RecoverStep
<1> QED
  BY <1>1, <1>2, PTL DEF Spec

\* The inductive invariant behind the next two theorems.
THEOREM InvInvariant == Spec => []Inv
<1> USE DEF At, CommitSteps, RecoverSteps, Started, environment
<1>1. Init => OneShot /\ StartedIsStarted /\ StartedIsApproved
  BY DEF Init, NoRecord, OneShot, EffectAtMostOnce, StartedIsStarted, StartedIsApproved
<1>2. TypeOK /\ TypeOK' /\ OneShot /\ StartedIsStarted /\ StartedIsApproved /\ [Next]_vars
        => OneShot' /\ StartedIsStarted' /\ StartedIsApproved'
  <2> SUFFICES ASSUME TypeOK, TypeOK', OneShot, StartedIsStarted, StartedIsApproved,
                      [Next]_vars
               PROVE  OneShot' /\ StartedIsStarted' /\ StartedIsApproved'
    OBVIOUS
  <2> USE DEF Goto, Finish, OneShot, EffectAtMostOnce, StartedIsStarted,
              StartedIsApproved, NoRecord
  <2>t. /\ ledger \in Records /\ pc \in [Calls -> Steps] /\ attempts \in Nat
        /\ snap \in [Calls -> Records]
    BY DEF TypeOK
  <2>1. CASE Prepare
    BY <2>1, <2>t DEF Prepare, ProofOf, Records
  <2>2. CASE RequestApproval
    BY <2>2, <2>t DEF RequestApproval, Records
  <2>3. CASE Approve
    BY <2>3, <2>t DEF Approve, Records
  <2>4. CASE ExpireAuthorization
    BY <2>4, <2>t DEF ExpireAuthorization, Records
  <2>5. CASE Drift
    BY <2>5, <2>t DEF Drift, Records
  <2>6. CASE SpoilArtifact
    BY <2>6, <2>t DEF SpoilArtifact, Records
  <2>7. CASE Elapse
    BY <2>7, <2>t DEF Elapse, Records
  <2>8. ASSUME NEW c \in Calls, CommitCall(c)
         PROVE  OneShot' /\ StartedIsStarted' /\ StartedIsApproved'
    BY <2>8, <2>t DEF CommitCall, Records
  <2>9. ASSUME NEW c \in Calls, ReadForCommit(c)
         PROVE  OneShot' /\ StartedIsStarted' /\ StartedIsApproved'
    BY <2>9, <2>t DEF ReadForCommit, Records
  <2>10. ASSUME NEW c \in Calls, WitnessForCommit(c)
         PROVE  OneShot' /\ StartedIsStarted' /\ StartedIsApproved'
    BY <2>10, <2>t DEF WitnessForCommit, Records
  <2>11. ASSUME NEW c \in Calls, BeginCommit(c)
         PROVE  OneShot' /\ StartedIsStarted' /\ StartedIsApproved'
    BY <2>11, <2>t DEF BeginCommit, Records
  <2>12. ASSUME NEW c \in Calls, Mutate(c)
         PROVE  OneShot' /\ StartedIsStarted' /\ StartedIsApproved'
    BY <2>12, <2>t DEF Mutate, Records
  <2>13. ASSUME NEW c \in Calls, MeasurePost(c)
         PROVE  OneShot' /\ StartedIsStarted' /\ StartedIsApproved'
    BY <2>13, <2>t DEF MeasurePost, Records
  <2>14. ASSUME NEW c \in Calls, PutCommitted(c)
         PROVE  OneShot' /\ StartedIsStarted' /\ StartedIsApproved'
    BY <2>14, <2>t DEF PutCommitted, Records
  <2>15. ASSUME NEW c \in Calls, RecoverCall(c)
         PROVE  OneShot' /\ StartedIsStarted' /\ StartedIsApproved'
    BY <2>15, <2>t DEF RecoverCall, Records
  <2>16. ASSUME NEW c \in Calls, WitnessForRecover(c)
         PROVE  OneShot' /\ StartedIsStarted' /\ StartedIsApproved'
    BY <2>16, <2>t DEF WitnessForRecover, Records
  <2>17. ASSUME NEW c \in Calls, Restore(c)
         PROVE  OneShot' /\ StartedIsStarted' /\ StartedIsApproved'
    BY <2>17, <2>t DEF Restore, Records
  <2>18. ASSUME NEW c \in Calls, VerifyRestore(c)
         PROVE  OneShot' /\ StartedIsStarted' /\ StartedIsApproved'
    BY <2>18, <2>t DEF VerifyRestore, Records
  <2>19. ASSUME NEW c \in Calls, PutRecovered(c)
         PROVE  OneShot' /\ StartedIsStarted' /\ StartedIsApproved'
    BY <2>19, <2>t DEF PutRecovered, Records
  <2>20. ASSUME NEW c \in Calls, Interrupt(c)
         PROVE  OneShot' /\ StartedIsStarted' /\ StartedIsApproved'
    BY <2>20, <2>t DEF Interrupt, Records
  <2>21. CASE UNCHANGED vars
    BY <2>21 DEF vars
  <2> QED
    BY <2>1, <2>2, <2>3, <2>4, <2>5, <2>6, <2>7, <2>8, <2>9, <2>10, <2>11, <2>12, <2>13, <2>14, <2>15, <2>16, <2>17, <2>18, <2>19, <2>20, <2>21
       DEF Next, CallNext, CommitStep, RecoverStep
<1> QED
  BY <1>1, <1>2, TypeCorrect, PTL DEF Spec, Inv

\* The effect is started at most once, however many commit calls race, are
\* repeated or are cut: beginCommit's compare-and-set is enough.
THEOREM AtMostOnce == Spec => []EffectAtMostOnce
<1>1. Inv => EffectAtMostOnce
  BY DEF Inv, OneShot
<1> QED
  BY <1>1, InvInvariant, PTL

\* The effect never runs before the ledger says so and a human approved it,
\* and no stale put ever takes the ledger back to "proven".
THEOREM JournalFirst == Spec => []JournalBeforeEffect
<1>1. Inv => JournalBeforeEffect
  BY DEF Inv, StartedIsStarted, StartedIsApproved, JournalBeforeEffect, Started
<1> QED
  BY <1>1, InvInvariant, PTL

-----------------------------------------------------------------------------
(* One call at a time. *)

\* What holds between the steps of the only call c when nobody else writes:
\* its position tells what the ledger and the resource are.
Sequential(c) ==
  /\ artifact
  /\ ledger.status \in {"none", "proven", "recovered"} => live = Orig
  /\ ledger.status = "committed" => ledger.post \notin {None, Orig}
  /\ pc[c] \in {"verified", "witnessed"} =>
       ledger.status = "proven" /\ snap[c] = ledger
  /\ At(c, "begun") => ledger.status = "committing" /\ live = Orig
  /\ pc[c] \in {"mutated", "measured"} =>
       ledger.status = "committing" /\ live # Orig
  /\ At(c, "measured") => snap[c].post = live
  /\ pc[c] \in RecoverSteps =>
       ledger.status \in {"committing", "committed"} /\ snap[c] = ledger
  /\ At(c, "restoring") => live # Orig
  /\ At(c, "settling") => live = Orig

\* The invariant of a sequential run, kept by every step.
LEMMA SequentialStep ==
  ASSUME NEW c, Calls = {c}, MaxDrifts = 0, Orig \notin Effect[Orig],
         Inv, Inv', Sequential(c), [Next]_vars
  PROVE  Sequential(c)'
<1> USE DEF At, Goto, Finish, CommitSteps, RecoverSteps, environment, NoRecord, Sequential
<1>t. /\ ledger \in Records /\ pc \in [Calls -> Steps] /\ attempts \in Nat
      /\ snap \in [Calls -> Records] /\ live \in States /\ drifts = 0 /\ live' \in States
  BY DEF Inv, TypeOK
<1>n. None # live /\ None # live' /\ Effect[Orig] \subseteq States
  BY <1>t, NoneAssumption, OrigAssumption, EffectAssumption
<1>1. CASE Prepare
  BY <1>1, <1>t DEF Prepare, ProofOf, Records
<1>2. CASE RequestApproval
  BY <1>2, <1>t DEF RequestApproval, Records
<1>3. CASE Approve
  BY <1>3, <1>t DEF Approve, Records
<1>4. CASE ExpireAuthorization
  BY <1>4, <1>t DEF ExpireAuthorization, Records
<1>5. CASE Drift
  BY <1>5, <1>t DEF Drift, Records
<1>6. CASE SpoilArtifact
  BY <1>6, <1>t DEF SpoilArtifact, Records
<1>7. CASE Elapse
  BY <1>7, <1>t DEF Elapse, Records
<1>8. CASE CommitCall(c)
  BY <1>8, <1>t, <1>n DEF CommitCall, Records, Statuses
<1>9. CASE ReadForCommit(c)
  BY <1>9, <1>t, <1>n DEF ReadForCommit, Records, Statuses
<1>10. CASE WitnessForCommit(c)
  BY <1>10, <1>t, <1>n DEF WitnessForCommit, Records, Statuses
<1>11. CASE BeginCommit(c)
  BY <1>11, <1>t, <1>n DEF BeginCommit, Records, Statuses
<1>12. CASE Mutate(c)
  BY <1>12, <1>t, <1>n DEF Mutate, Records, Statuses
<1>13. CASE MeasurePost(c)
  BY <1>13, <1>t, <1>n DEF MeasurePost, Records, Statuses
<1>14. CASE PutCommitted(c)
  BY <1>14, <1>t, <1>n DEF PutCommitted, Records, Statuses
<1>15. CASE RecoverCall(c)
  BY <1>15, <1>t, <1>n DEF RecoverCall, Records, Statuses
<1>16. CASE WitnessForRecover(c)
  BY <1>16, <1>t, <1>n DEF WitnessForRecover, Records, Statuses, Expected, NothingToUndo, RestoreGuard
<1>17. CASE Restore(c)
  BY <1>17, <1>t, <1>n DEF Restore, Records, Statuses
<1>18. CASE VerifyRestore(c)
  BY <1>18, <1>t, <1>n DEF VerifyRestore, Records, Statuses
<1>19. CASE PutRecovered(c)
  BY <1>19, <1>t, <1>n DEF PutRecovered, Records, Statuses
<1>20. CASE Interrupt(c)
  BY <1>20, <1>t, <1>n DEF Interrupt, Records, Statuses
<1>21. CASE UNCHANGED vars
  BY <1>21 DEF vars
<1> QED
  BY <1>1, <1>2, <1>3, <1>4, <1>5, <1>6, <1>7, <1>8, <1>9, <1>10, <1>11, <1>12, <1>13, <1>14, <1>15, <1>16, <1>17, <1>18, <1>19, <1>20, <1>21
     DEF Next, CallNext, CommitStep, RecoverStep

\* Every step of a sequential run is a step of ReversibleEffect, or none.
LEMMA SequentialRefines ==
  ASSUME NEW c, Calls = {c}, MaxDrifts = 0, Orig \notin Effect[Orig],
         Inv, Inv', Sequential(c), [Next]_vars
  PROVE  [Abstract!Next]_(Abstract!vars)
<1> USE DEF At, Goto, CommitSteps, RecoverSteps, environment, Abstract!vars
<1>t. /\ ledger \in Records /\ pc \in [Calls -> Steps] /\ attempts \in Nat
      /\ snap \in [Calls -> Records] /\ live \in States /\ drifts = 0 /\ live' \in States
      /\ token \in BOOLEAN
  BY DEF Inv, TypeOK
<1>i. /\ ledger.status \in Started => token
      /\ pc[c] \in CommitSteps => token
      /\ At(c, "begun") => attempts = 0
  BY <1>t DEF Inv, OneShot, EffectAtMostOnce, StartedIsApproved
<1>1. CASE Prepare
  BY <1>1, <1>t DEF Prepare, ProofOf, Records, Abstract!Next, Abstract!Prove, Sequential
<1>2. CASE RequestApproval
  BY <1>2, <1>t DEF RequestApproval, Records
<1>3. CASE Approve
  BY <1>3, <1>t DEF Approve, Records, Abstract!Next, Abstract!Grant
<1>4. CASE ExpireAuthorization
  BY <1>4, <1>t DEF ExpireAuthorization, Records
<1>5. CASE Drift
  BY <1>5, <1>t DEF Drift, Records
<1>6. CASE SpoilArtifact
  BY <1>6, <1>t DEF SpoilArtifact, Records
<1>7. CASE Elapse
  BY <1>7, <1>t DEF Elapse, Records
<1>8. CASE CommitCall(c)
  BY <1>8, <1>t, <1>i DEF CommitCall, Records
<1>9. CASE ReadForCommit(c)
  BY <1>9, <1>t, <1>i DEF ReadForCommit, Records
<1>10. CASE WitnessForCommit(c)
  BY <1>10, <1>t, <1>i DEF WitnessForCommit, Records
<1>11. CASE BeginCommit(c)
  BY <1>11, <1>t, <1>i DEF BeginCommit, Records, Sequential, Abstract!Next, Abstract!Begin
<1>12. CASE Mutate(c)
  BY <1>12, <1>t, <1>i DEF Mutate, Records, Sequential, Abstract!Next, Abstract!Apply
<1>13. CASE MeasurePost(c)
  BY <1>13, <1>t, <1>i DEF MeasurePost, Records
<1>14. CASE PutCommitted(c)
  BY <1>14, <1>t, <1>i DEF PutCommitted, Records, Sequential, Abstract!Next, Abstract!ReceiptCommitted
<1>15. CASE RecoverCall(c)
  BY <1>15, <1>t, <1>i DEF RecoverCall, Records
<1>16. CASE WitnessForRecover(c)
  BY <1>16, <1>t, <1>i DEF WitnessForRecover, Records
<1>17. CASE Restore(c)
  BY <1>17, <1>t, <1>i DEF Restore, Records, Sequential, Abstract!Next, Abstract!Undo
<1>18. CASE VerifyRestore(c)
  BY <1>18, <1>t, <1>i DEF VerifyRestore, Records
<1>19. CASE PutRecovered(c)
  BY <1>19, <1>t, <1>i DEF PutRecovered, Records, Sequential, Abstract!Next, Abstract!ReceiptRecovered
<1>20. CASE Interrupt(c)
  BY <1>20, <1>t, <1>i DEF Interrupt, Records, Sequential, Abstract!Next, Abstract!Apply, Abstract!Undo
<1>21. CASE UNCHANGED vars
  BY <1>21 DEF vars
<1> QED
  BY <1>1, <1>2, <1>3, <1>4, <1>5, <1>6, <1>7, <1>8, <1>9, <1>10, <1>11, <1>12, <1>13, <1>14, <1>15, <1>16, <1>17, <1>18, <1>19, <1>20, <1>21
     DEF Next, CallNext, CommitStep, RecoverStep

\* One call at a time, nobody else writing and an effect that changes the
\* resource: the protocol implements the granted, journalled, at-most-once and
\* truthfully receipted effect, whatever is cut and wherever.  With two calls
\* it does not (run RecoveryOperation_race).
THEOREM SequentialImplements ==
  ASSUME NEW c, Calls = {c}, MaxDrifts = 0, Orig \notin Effect[Orig]
  PROVE  Spec => ImplementsReversibleEffect
<1>1. Init => Abstract!Init
  BY DEF Init, Abstract!Init, NoRecord
<1>2. Init => Sequential(c)
  BY DEF Init, Sequential, At, NoRecord, RecoverSteps
<1>3. Inv /\ Inv' /\ Sequential(c) /\ [Next]_vars => Sequential(c)'
  BY SequentialStep
<1>4. Inv /\ Inv' /\ Sequential(c) /\ [Next]_vars => [Abstract!Next]_(Abstract!vars)
  BY SequentialRefines
<1> QED
  BY <1>1, <1>2, <1>3, <1>4, InvInvariant, PTL
     DEF Spec, ImplementsReversibleEffect, Abstract!Spec

\* Under the same assumptions a recovered receipt is only ever written over
\* the original contents.
THEOREM SequentialRecoveredMeansRestored ==
  ASSUME NEW c, Calls = {c}, MaxDrifts = 0, Orig \notin Effect[Orig]
  PROVE  Spec => []RecoveredMeansRestored
<1>1. Init => Sequential(c)
  BY DEF Init, Sequential, At, NoRecord, RecoverSteps
<1>2. Inv /\ Inv' /\ Sequential(c) /\ [Next]_vars => Sequential(c)'
  BY SequentialStep
<1>3. Sequential(c) => RecoveredMeansRestored
  BY DEF Sequential, RecoveredMeansRestored
<1> QED
  BY <1>1, <1>2, <1>3, InvInvariant, PTL DEF Spec

-----------------------------------------------------------------------------
(* What a restore finds, after an effect that has one outcome. *)

\* The witness the ledger holds is that of the contents the effect gave: the
\* drilled one until a commit is recorded, the measured one from then on; but
\* for what a cut step has torn.
Witnessed ==
  /\ ledger.status \in {"proven", "committing"} =>
       ledger.post = None /\ ledger.drill \in Effect[Orig]
  /\ ledger.status = "committing" /\ live # Orig => live \in Effect[Orig] \cup Torn
  /\ ledger.status = "committed" /\ live # Orig => live = ledger.post \/ live \in Torn

LEMMA WitnessedStep ==
  ASSUME NEW c, Calls = {c}, MaxDrifts = 0,
         Inv, Inv', Sequential(c), Witnessed, [Next]_vars
  PROVE  Witnessed'
<1> USE DEF At, Goto, Finish, environment, Witnessed
<1>t. /\ ledger \in Records /\ pc \in [Calls -> Steps] /\ snap \in [Calls -> Records]
      /\ live \in States /\ live' \in States /\ drifts = 0
  BY DEF Inv, TypeOK
<1>n. None # live /\ None # live'
  BY <1>t, NoneAssumption
<1>s. /\ ledger.status \in {"none", "proven", "recovered"} => live = Orig
      /\ pc[c] = "begun" => ledger.status = "committing" /\ live = Orig
      /\ pc[c] \in {"mutated", "measured"} => ledger.status = "committing" /\ live # Orig
      /\ pc[c] = "measured" => snap[c].post = live
      /\ pc[c] \in RecoverSteps =>
           ledger.status \in {"committing", "committed"} /\ snap[c] = ledger
      /\ pc[c] = "settling" => live = Orig
  BY DEF Sequential
<1>1. CASE Prepare
  BY <1>1, <1>t, <1>s DEF Prepare, ProofOf
<1>2. CASE RequestApproval \/ Approve \/ ExpireAuthorization \/ Elapse
  BY <1>2 DEF RequestApproval, Approve, ExpireAuthorization, Elapse
<1>3. CASE Drift \/ SpoilArtifact
  BY <1>3, <1>t DEF Drift, SpoilArtifact
<1>4. CASE CommitCall(c)
  BY <1>4 DEF CommitCall
<1>5. CASE ReadForCommit(c)
  BY <1>5 DEF ReadForCommit
<1>6. CASE WitnessForCommit(c)
  BY <1>6 DEF WitnessForCommit
<1>7. CASE BeginCommit(c)
  BY <1>7, <1>t, <1>s DEF BeginCommit, Records
<1>8. CASE Mutate(c)
  BY <1>8, <1>s DEF Mutate
<1>9. CASE MeasurePost(c)
  BY <1>9 DEF MeasurePost
<1>10. CASE PutCommitted(c)
  BY <1>10, <1>t, <1>s DEF PutCommitted, Records
<1>11. CASE RecoverCall(c)
  BY <1>11 DEF RecoverCall
<1>12. CASE WitnessForRecover(c)
  BY <1>12 DEF WitnessForRecover
<1>13. CASE Restore(c)
  BY <1>13, <1>n, <1>s DEF Restore, RecoverSteps
<1>14. CASE VerifyRestore(c)
  BY <1>14 DEF VerifyRestore
<1>15. CASE PutRecovered(c)
  BY <1>15, <1>t DEF PutRecovered, Records
<1>16. CASE Interrupt(c)
  BY <1>16 DEF Interrupt
<1>17. CASE UNCHANGED vars
  BY <1>17 DEF vars
<1> QED
  BY <1>1, <1>2, <1>3, <1>4, <1>5, <1>6, <1>7, <1>8, <1>9, <1>10, <1>11, <1>12, <1>13,
     <1>14, <1>15, <1>16, <1>17 DEF Next, CallNext, CommitStep, RecoverStep

\* ChangeIsRecoverable: an adapter whose effect has one outcome never leaves a
\* changed resource, wherever its call is cut and however often, under a ledger
\* entry that a restore would refuse, but for contents that a cut step has torn;
\* where nothing tears (SQLite, PostgreSQL), for none.
THEOREM SequentialChangeIsRecoverable ==
  ASSUME NEW c, Calls = {c}, MaxDrifts = 0, Orig \notin Effect[Orig],
         \A s, t \in Effect[Orig] : s = t
  PROVE  Spec => []ChangeIsRecoverable
<1>1. Init => Sequential(c) /\ Witnessed
  BY DEF Init, Sequential, At, NoRecord, RecoverSteps, Witnessed
<1>2. Inv /\ Inv' /\ Sequential(c) /\ Witnessed /\ [Next]_vars => Sequential(c)' /\ Witnessed'
  BY SequentialStep, WitnessedStep
<1>3. Inv /\ Sequential(c) /\ Witnessed => ChangeIsRecoverable
  <2> SUFFICES ASSUME Inv, Sequential(c), Witnessed, Quiet, live # Orig
               PROVE  /\ ledger.status \in {"committing", "committed"}
                      /\ live = Expected(ledger) \/ live \in Torn
    BY DEF ChangeIsRecoverable
  <2>1. ledger.status \in {"committing", "committed"}
    BY DEF Inv, TypeOK, Records, Statuses, Sequential
  <2>2. None # live
    BY NoneAssumption DEF Inv, TypeOK
  <2> QED
    BY <2>1, <2>2 DEF Witnessed, Expected
<1> QED
  BY <1>1, <1>2, <1>3, InvInvariant, PTL DEF Spec

-----------------------------------------------------------------------------
(* Foreign contents, under any number of calls. *)

\* Every drilled witness is one of the effect's.
Drilled ==
  /\ ledger.drill \in Effect[Orig] \cup {None}
  /\ \A c \in Calls : snap[c].drill \in Effect[Orig] \cup {None}

LEMMA DrilledInvariant == Spec => []Drilled
<1> USE DEF Drilled
<1>1. Init => Drilled
  BY DEF Init, NoRecord
<1>2. TypeOK /\ Drilled /\ [Next]_vars => Drilled'
  <2> SUFFICES ASSUME TypeOK, Drilled, [Next]_vars PROVE Drilled'
    OBVIOUS
  <2> USE DEF Finish, NoRecord, environment
  <2>t. ledger \in Records /\ snap \in [Calls -> Records]
    BY DEF TypeOK
  <2>1. CASE Prepare
    BY <2>1 DEF Prepare, ProofOf
  <2>2. CASE RequestApproval \/ Approve \/ ExpireAuthorization \/ Elapse \/ Drift \/ SpoilArtifact
    BY <2>2 DEF RequestApproval, Approve, ExpireAuthorization, Elapse, Drift, SpoilArtifact
  <2>3. ASSUME NEW c \in Calls, CommitCall(c) \/ CommitStep(c) PROVE Drilled'
    BY <2>3, <2>t DEF CommitCall, CommitStep, ReadForCommit, WitnessForCommit, BeginCommit,
       Mutate, MeasurePost, PutCommitted, Records
  <2>4. ASSUME NEW c \in Calls, RecoverCall(c) \/ RecoverStep(c) \/ Interrupt(c) PROVE Drilled'
    BY <2>4, <2>t DEF RecoverCall, RecoverStep, WitnessForRecover, Restore, VerifyRestore,
       PutRecovered, Interrupt, Records
  <2>5. CASE UNCHANGED vars
    BY <2>5 DEF vars
  <2> QED
    BY <2>1, <2>2, <2>3, <2>4, <2>5 DEF Next, CallNext
<1> QED
  BY <1>1, <1>2, TypeCorrect, PTL DEF Spec

\* Contents that no record knows and no call is about to replace.
Unclaimed(s) == Unarmed /\ Unreceipted(s) /\ live = s /\ drifts = MaxDrifts

LEMMA UnclaimedStays ==
  ASSUME NEW s \in Foreign, TypeOK, Drilled, Unclaimed(s), [Next]_vars
  PROVE  Unclaimed(s)'
<1> USE DEF At, Goto, Finish, NoRecord, environment, Unclaimed, Unarmed, Unreceipted
<1>t. /\ ledger \in Records /\ snap \in [Calls -> Records] /\ pc \in [Calls -> Steps]
      /\ drifts \in Nat /\ MaxDrifts \in Nat
  BY BoundAssumption DEF TypeOK
<1>s. s \in States /\ s # Orig /\ s # None /\ s \notin Effect[Orig]
  BY NoneAssumption DEF Foreign
<1>1. CASE Prepare
  BY <1>1, <1>s DEF Prepare
<1>2. CASE RequestApproval \/ Approve \/ ExpireAuthorization \/ Elapse
  BY <1>2 DEF RequestApproval, Approve, ExpireAuthorization, Elapse
<1>3. CASE Drift \/ SpoilArtifact
  BY <1>3, <1>t DEF Drift, SpoilArtifact
<1>4. ASSUME NEW c \in Calls, CommitCall(c) \/ ReadForCommit(c) PROVE Unclaimed(s)'
  BY <1>4, <1>t, <1>s DEF CommitCall, ReadForCommit, Records
<1>5. ASSUME NEW c \in Calls, WitnessForCommit(c) \/ BeginCommit(c) PROVE Unclaimed(s)'
  BY <1>5, <1>t, <1>s DEF WitnessForCommit, BeginCommit
<1>6. ASSUME NEW c \in Calls, Mutate(c) \/ MeasurePost(c) PROVE FALSE
  BY <1>6 DEF Mutate, MeasurePost
<1>7. ASSUME NEW c \in Calls, PutCommitted(c) PROVE Unclaimed(s)'
  BY <1>7, <1>t, <1>s DEF PutCommitted, Records
<1>8. ASSUME NEW c \in Calls, RecoverCall(c) PROVE Unclaimed(s)'
  BY <1>8, <1>t DEF RecoverCall
<1>9. ASSUME NEW c \in Calls, WitnessForRecover(c) PROVE Unclaimed(s)'
  <2>1. ~NothingToUndo(c) /\ ~RestoreGuard(c)
    BY <1>s DEF NothingToUndo, RestoreGuard, Expected, Drilled
  <2> QED
    BY <1>9, <2>1, <1>t, <1>s DEF WitnessForRecover
<1>10. ASSUME NEW c \in Calls, Restore(c) PROVE FALSE
  BY <1>10 DEF Restore
<1>11. ASSUME NEW c \in Calls, VerifyRestore(c) PROVE Unclaimed(s)'
  BY <1>11, <1>t, <1>s DEF VerifyRestore
<1>12. ASSUME NEW c \in Calls, PutRecovered(c) PROVE Unclaimed(s)'
  BY <1>12, <1>t, <1>s DEF PutRecovered, Records
<1>13. ASSUME NEW c \in Calls, Interrupt(c) PROVE Unclaimed(s)'
  BY <1>13, <1>t, <1>s DEF Interrupt
<1>14. CASE UNCHANGED vars
  BY <1>14 DEF vars
<1> QED
  BY <1>1, <1>2, <1>3, <1>4, <1>5, <1>6, <1>7, <1>8, <1>9, <1>10, <1>11, <1>12, <1>13, <1>14
     DEF Next, CallNext, CommitStep, RecoverStep

\* ForeignContentsKept: whatever the calls in flight, an effect's outcomes and
\* the steps that tear, contents somebody else wrote behind every witness stay.
THEOREM ForeignContentsStay == Spec => ForeignContentsKept
<1> SUFFICES ASSUME NEW s \in Foreign
             PROVE  Spec => [](Unclaimed(s) => [](live = s))
  BY DEF ForeignContentsKept, Unclaimed
<1>1. TypeOK /\ Drilled /\ Unclaimed(s) /\ [Next]_vars => Unclaimed(s)'
  BY UnclaimedStays
<1>2. Unclaimed(s) => live = s
  BY DEF Unclaimed
<1> QED
  BY <1>1, <1>2, TypeCorrect, DrilledInvariant, PTL DEF Spec
=============================================================================
