-------------------------- MODULE FileLock_proofs --------------------------
(***************************************************************************)
(* Theorems about FileLock, for every set of processes and any number of   *)
(* faults.  Exclusion is proved up to the first fault; the run             *)
(* FileLock_stale_race shows that one death is enough to lose it.          *)
(***************************************************************************)
EXTENDS FileLock, TLAPS

\* Every variable keeps its type.
THEOREM TypeCorrect == Spec => []TypeOK
<1>1. Init => TypeOK
  BY FaultAssumption DEF Init, TypeOK, Free, Locks
<1>2. TypeOK /\ [Next]_vars => TypeOK'
  <2> SUFFICES ASSUME TypeOK, [Next]_vars PROVE TypeOK'
    OBVIOUS
  <2> USE DEF TypeOK, Locks, Waiting, Holding, Ended, At, Goto
  <2>1. ASSUME NEW p \in Procs, Start(p) PROVE TypeOK'
    BY <2>1 DEF Start
  <2>2. ASSUME NEW p \in Procs, MakeDirectory(p) PROVE TypeOK'
    BY <2>2 DEF MakeDirectory, Unnamed
  <2>3. ASSUME NEW p \in Procs, DirectoryExists(p) PROVE TypeOK'
    BY <2>3 DEF DirectoryExists
  <2>4. ASSUME NEW p \in Procs, NameOwner(p) PROVE TypeOK'
    BY <2>4 DEF NameOwner, Named
  <2>5. ASSUME NEW p \in Procs, DirectoryVanished(p) PROVE TypeOK'
    BY <2>5 DEF DirectoryVanished
  <2>6. ASSUME NEW p \in Procs, NameOwnerFails(p) PROVE TypeOK'
    BY <2>6, FaultAssumption DEF NameOwnerFails
  <2>7. ASSUME NEW p \in Procs, InspectOwner(p) PROVE TypeOK'
    BY <2>7 DEF InspectOwner, NotStale
  <2>8. ASSUME NEW p \in Procs, InspectMissingOwner(p) PROVE TypeOK'
    BY <2>8 DEF InspectMissingOwner
  <2>9. ASSUME NEW p \in Procs, StatDirectory(p) PROVE TypeOK'
    BY <2>9 DEF StatDirectory, NotStale
  <2>10. ASSUME NEW p \in Procs, RemoveStale(p) PROVE TypeOK'
    BY <2>10 DEF RemoveStale, Free
  <2>11. ASSUME NEW p \in Procs, Read(p) PROVE TypeOK'
    BY <2>11 DEF Read
  <2>12. ASSUME NEW p \in Procs, Publish(p) PROVE TypeOK'
    BY <2>12 DEF Publish
  <2>13. ASSUME NEW p \in Procs, ActionThrows(p) PROVE TypeOK'
    BY <2>13 DEF ActionThrows
  <2>14. ASSUME NEW p \in Procs, Release(p) PROVE TypeOK'
    BY <2>14 DEF Release, Free
  <2>15. ASSUME NEW p \in Procs, Crash(p) PROVE TypeOK'
    BY <2>15, FaultAssumption DEF Crash
  <2>16. ASSUME NEW p \in Procs, DeadlinePasses(p) PROVE TypeOK'
    BY <2>16 DEF DeadlinePasses
  <2>17. CASE LockAges
    <3>1. lock' \in Locks /\ UNCHANGED <<doc, pc, copy, late>>
      BY <2>17 DEF LockAges
    <3>2. faults' \in 0 .. MaxFaults
      BY <2>17, FaultAssumption DEF LockAges
    <3> QED
      BY <3>1, <3>2
  <2>18. CASE UNCHANGED vars
    BY <2>18 DEF vars
  <2> QED
    BY <2>1, <2>2, <2>3, <2>4, <2>5, <2>6, <2>7, <2>8, <2>9, <2>10, <2>11, <2>12,
       <2>13, <2>14, <2>15, <2>16, <2>17, <2>18 DEF Next, Step
<1> QED
  BY <1>1, <1>2, PTL DEF Spec

-----------------------------------------------------------------------------
(* The inductive invariant behind exclusion.                               *)

\* The lock is there as long as somebody is inside, and bears his name from
\* the moment he has written it.
HolderHasLock ==
  \A p \in Procs : pc[p] \in Holding =>
    lock.present /\ lock.owner = (IF pc[p] = "owner" THEN None ELSE p)

\* No lock is left behind, and a lock that is gone leaves nothing.
LockIsHeld ==
  IF lock.present THEN \E p \in Procs : pc[p] \in Holding ELSE lock = Free

\* Nobody has died, and nobody has judged a lock stale.
NobodyIntrudes == \A p \in Procs : pc[p] \notin {"remove", "dead"}

\* A lock does not age under the eyes of a process that is about to name its
\* owner or to look at the directory.
FreshWhileWatched == Watched => ~lock.old

\* What a call is about to publish builds on all that is published.
CopyIsCurrent == \A p \in Procs : pc[p] = "write" => copy[p] = doc

\* The document has the update of whoever was told so, and one beginner's.
DoneIsPublished == \A p \in Procs : Outcome(p) = "done" => p \in doc
OneBeginner == \A p, q \in doc \cap Beginners : p = q

LockInv ==
  /\ Exclusion
  /\ HolderHasLock
  /\ LockIsHeld
  /\ NobodyIntrudes
  /\ FreshWhileWatched

DocInv ==
  /\ CopyIsCurrent
  /\ DoneIsPublished
  /\ OneBeginner

Inv == TypeOK /\ (faults = 0 => LockInv /\ DocInv)

\* Faults are never forgotten, so a state without any was reached without any.
LEMMA NoFaultYet ==
  ASSUME TypeOK, [Next]_vars, faults' = 0
  PROVE  /\ faults = 0
         /\ \A p \in Procs : ~NameOwnerFails(p) /\ ~Crash(p)
         /\ LockAges => ~Watched
<1> USE DEF TypeOK
<1>1. ASSUME NEW p \in Procs, Start(p) \/ DeadlinePasses(p) PROVE faults = 0
  BY <1>1 DEF Start, DeadlinePasses
<1>2. ASSUME NEW p \in Procs, Step(p) PROVE faults = 0
  BY <1>2 DEF Step, MakeDirectory, DirectoryExists, NameOwner, DirectoryVanished,
     NameOwnerFails, InspectOwner, InspectMissingOwner, StatDirectory, RemoveStale,
     Read, Publish, ActionThrows, Release
<1>3. ASSUME NEW p \in Procs, Crash(p) PROVE faults = 0
  BY <1>3 DEF Crash
<1>4. ASSUME LockAges PROVE faults = 0
  BY <1>4, FaultAssumption DEF LockAges
<1>5. ASSUME UNCHANGED vars PROVE faults = 0
  BY <1>5 DEF vars
<1>6. faults = 0
  BY <1>1, <1>2, <1>3, <1>4, <1>5 DEF Next
<1>7. \A p \in Procs : ~NameOwnerFails(p) /\ ~Crash(p)
  BY <1>6 DEF NameOwnerFails, Crash
<1>8. LockAges => ~Watched
  BY <1>6 DEF LockAges
<1> QED
  BY <1>6, <1>7, <1>8

\* Without faults no step lets a second process in.
LEMMA LockStep ==
  ASSUME Inv, [Next]_vars, faults' = 0 PROVE LockInv'
<1>f. /\ faults = 0
      /\ \A p \in Procs : ~NameOwnerFails(p) /\ ~Crash(p)
      /\ LockAges => ~Watched
  BY NoFaultYet DEF Inv
<1>v. TypeOK /\ LockInv
  BY <1>f DEF Inv
<1>i. \A p \in Procs : ~At(p, "remove")
  BY <1>v DEF LockInv, NobodyIntrudes, At
<1> USE DEF At, Goto, Waiting, Holding, Ended, Free, TypeOK, Locks, LockInv,
  Exclusion, HolderHasLock, LockIsHeld, NobodyIntrudes, FreshWhileWatched, Watched
<1>1. ASSUME NEW p \in Procs, Start(p) PROVE LockInv'
  BY <1>1, <1>v DEF Start
<1>2. ASSUME NEW p \in Procs, MakeDirectory(p) PROVE LockInv'
  BY <1>2, <1>v DEF MakeDirectory, Unnamed
<1>3. ASSUME NEW p \in Procs, DirectoryExists(p) PROVE LockInv'
  BY <1>3, <1>v DEF DirectoryExists
<1>4. ASSUME NEW p \in Procs, NameOwner(p) PROVE LockInv'
  BY <1>4, <1>v DEF NameOwner, Named
<1>5. ASSUME NEW p \in Procs, DirectoryVanished(p) PROVE LockInv'
  BY <1>5, <1>v DEF DirectoryVanished
<1>6. ASSUME NEW p \in Procs, NameOwnerFails(p) PROVE LockInv'
  BY <1>6, <1>f
<1>7. ASSUME NEW p \in Procs, InspectOwner(p) PROVE LockInv'
  BY <1>7, <1>v DEF InspectOwner, NotStale, IsAlive
<1>8. ASSUME NEW p \in Procs, InspectMissingOwner(p) PROVE LockInv'
  BY <1>8, <1>v, NoneAssumption DEF InspectMissingOwner
<1>9. ASSUME NEW p \in Procs, StatDirectory(p) PROVE LockInv'
  BY <1>9, <1>v DEF StatDirectory, NotStale
<1>10. ASSUME NEW p \in Procs, RemoveStale(p) PROVE LockInv'
  BY <1>10, <1>v, <1>i DEF RemoveStale
<1>11. ASSUME NEW p \in Procs, Read(p) PROVE LockInv'
  BY <1>11, <1>v DEF Read
<1>12. ASSUME NEW p \in Procs, Publish(p) PROVE LockInv'
  BY <1>12, <1>v DEF Publish, Conflict
<1>13. ASSUME NEW p \in Procs, ActionThrows(p) PROVE LockInv'
  BY <1>13, <1>v DEF ActionThrows
<1>14. ASSUME NEW p \in Procs, Release(p) PROVE LockInv'
  BY <1>14, <1>v DEF Release
<1>15. ASSUME NEW p \in Procs, Crash(p) PROVE LockInv'
  BY <1>15, <1>f
<1>16. ASSUME NEW p \in Procs, DeadlinePasses(p) PROVE LockInv'
  BY <1>16, <1>v DEF DeadlinePasses
<1>17. CASE LockAges
  BY <1>17, <1>v, <1>f DEF LockAges, Watched
<1>18. CASE UNCHANGED vars
  BY <1>18, <1>v DEF vars
<1> QED
  BY <1>1, <1>2, <1>3, <1>4, <1>5, <1>6, <1>7, <1>8, <1>9,
     <1>10, <1>11, <1>12, <1>13, <1>14, <1>15, <1>16, <1>17, <1>18 DEF Next, Step

\* While processes exclude each other no update is lost or made twice.
LEMMA DocStep ==
  ASSUME Inv, [Next]_vars, faults' = 0 PROVE DocInv'
<1>f. /\ faults = 0
      /\ \A p \in Procs : ~NameOwnerFails(p) /\ ~Crash(p)
      /\ LockAges => ~Watched
  BY NoFaultYet DEF Inv
<1>v. TypeOK /\ LockInv /\ DocInv
  BY <1>f DEF Inv
<1>i. \A p \in Procs : ~At(p, "remove")
  BY <1>v DEF LockInv, NobodyIntrudes, At
<1> USE DEF At, Goto, Waiting, Holding, Ended, TypeOK, LockInv, Exclusion,
  DocInv, CopyIsCurrent, DoneIsPublished, OneBeginner, Outcome
<1>1. ASSUME NEW p \in Procs, Start(p) PROVE DocInv'
  BY <1>1, <1>v DEF Start
<1>2. ASSUME NEW p \in Procs, MakeDirectory(p) PROVE DocInv'
  BY <1>2, <1>v DEF MakeDirectory, Unnamed
<1>3. ASSUME NEW p \in Procs, DirectoryExists(p) PROVE DocInv'
  BY <1>3, <1>v DEF DirectoryExists
<1>4. ASSUME NEW p \in Procs, NameOwner(p) PROVE DocInv'
  BY <1>4, <1>v DEF NameOwner, Named
<1>5. ASSUME NEW p \in Procs, DirectoryVanished(p) PROVE DocInv'
  BY <1>5, <1>v DEF DirectoryVanished
<1>6. ASSUME NEW p \in Procs, NameOwnerFails(p) PROVE DocInv'
  BY <1>6, <1>f
<1>7. ASSUME NEW p \in Procs, InspectOwner(p) PROVE DocInv'
  BY <1>7, <1>v DEF InspectOwner, NotStale, IsAlive
<1>8. ASSUME NEW p \in Procs, InspectMissingOwner(p) PROVE DocInv'
  BY <1>8, <1>v DEF InspectMissingOwner
<1>9. ASSUME NEW p \in Procs, StatDirectory(p) PROVE DocInv'
  BY <1>9, <1>v DEF StatDirectory, NotStale
<1>10. ASSUME NEW p \in Procs, RemoveStale(p) PROVE DocInv'
  BY <1>10, <1>v, <1>i DEF RemoveStale
<1>11. ASSUME NEW p \in Procs, Read(p) PROVE DocInv'
  BY <1>11, <1>v DEF Read
<1>12. ASSUME NEW p \in Procs, Publish(p) PROVE DocInv'
  BY <1>12, <1>v DEF Publish, Conflict
<1>13. ASSUME NEW p \in Procs, ActionThrows(p) PROVE DocInv'
  BY <1>13, <1>v DEF ActionThrows
<1>14. ASSUME NEW p \in Procs, Release(p) PROVE DocInv'
  BY <1>14, <1>v DEF Release
<1>15. ASSUME NEW p \in Procs, Crash(p) PROVE DocInv'
  BY <1>15, <1>f
<1>16. ASSUME NEW p \in Procs, DeadlinePasses(p) PROVE DocInv'
  BY <1>16, <1>v DEF DeadlinePasses
<1>17. CASE LockAges
  BY <1>17, <1>v, <1>f DEF LockAges, Watched
<1>18. CASE UNCHANGED vars
  BY <1>18, <1>v DEF vars
<1> QED
  BY <1>1, <1>2, <1>3, <1>4, <1>5, <1>6, <1>7, <1>8, <1>9,
     <1>10, <1>11, <1>12, <1>13, <1>14, <1>15, <1>16, <1>17, <1>18 DEF Next, Step

THEOREM InvHolds == Spec => []Inv
<1>1. Init => Inv
  BY FaultAssumption
     DEF Init, Inv, LockInv, DocInv, TypeOK, Locks, Free, Holding, Waiting, Ended, Exclusion,
         HolderHasLock, LockIsHeld, NobodyIntrudes, FreshWhileWatched, Watched, CopyIsCurrent,
         DoneIsPublished, OneBeginner, Outcome
<1>2. Inv /\ [Next]_vars /\ TypeOK' => Inv'
  BY LockStep, DocStep DEF Inv
<1> QED
  BY <1>1, <1>2, TypeCorrect, PTL DEF Spec

\* Until somebody dies, fails while he creates the lock, or stalls at it, at
\* most one process is inside withFileLock's action.
THEOREM Exclusive == Spec => []MutualExclusion
<1>1. Inv => MutualExclusion
  BY DEF Inv, LockInv, MutualExclusion
<1> QED
  BY <1>1, InvHolds, PTL

\* ... and until then only one process begins a given operation.
THEOREM OneBeginHolds == Spec => []OneBeginUntilFault
<1>1. Inv => OneBeginUntilFault
  BY BeginnerAssumption
     DEF Inv, DocInv, DoneIsPublished, OneBeginner, OneBegin, OneBeginUntilFault
<1> QED
  BY <1>1, InvHolds, PTL

-----------------------------------------------------------------------------
(* The refinement of AtomicLedger.                                         *)

\* What every caller has been told, as a function.
Told == [p \in Procs |-> Outcome(p)]

\* A step that moves no call to an answer and publishes nothing is a stutter.
LEMMA Stutter ==
  ASSUME UNCHANGED doc, \A p \in Procs : Outcome(p)' = Outcome(p)
  PROVE  UNCHANGED <<doc, Told>>
BY DEF Told

\* A call that ends without publishing refuses.
LEMMA EndRefuses ==
  ASSUME TypeOK, NEW p \in Procs, Outcome(p) = "pending", UNCHANGED doc,
         \E place \in {"failed", "unwind"} : Goto(p, place)
  PROVE  Ledger!Refuse(p)
BY DEF TypeOK, Goto, Outcome, Ledger!Refuse

\* Under the invariant every step is a step of AtomicLedger or a stutter.
LEMMA StepIsAtomic ==
  ASSUME Inv, [Next]_vars, faults' = 0
  PROVE  [Ledger!Next]_(Ledger!ledgerVars)
<1> DEFINE Goal == [Ledger!Next]_(Ledger!ledgerVars)
<1>f. faults = 0 /\ \A p \in Procs : ~NameOwnerFails(p) /\ ~Crash(p)
  BY NoFaultYet DEF Inv
<1>t. TypeOK /\ CopyIsCurrent
  BY <1>f DEF Inv, DocInv
<1>r. ASSUME NEW p \in Procs, Ledger!Refuse(p) PROVE Goal
  BY <1>r DEF Ledger!Next
<1>s. ASSUME UNCHANGED <<doc, Told>> PROVE Goal
  BY <1>s DEF Told, Ledger!ledgerVars
<1>1. ASSUME NEW p \in Procs, Start(p) PROVE Goal
  BY <1>1, <1>t, <1>s, Stutter DEF Start, At, Goto, Outcome, TypeOK
<1>2. ASSUME NEW p \in Procs, MakeDirectory(p) PROVE Goal
  BY <1>2, <1>t, <1>s, Stutter DEF MakeDirectory, At, Goto, Outcome, TypeOK
<1>3. ASSUME NEW p \in Procs, DirectoryExists(p) PROVE Goal
  BY <1>3, <1>t, <1>s, Stutter DEF DirectoryExists, At, Goto, Outcome, TypeOK
<1>4. ASSUME NEW p \in Procs, NameOwner(p) PROVE Goal
  BY <1>4, <1>t, <1>s, Stutter DEF NameOwner, At, Goto, Outcome, TypeOK
<1>5. ASSUME NEW p \in Procs, DirectoryVanished(p) PROVE Goal
  BY <1>5, <1>t, <1>r, EndRefuses DEF DirectoryVanished, At, Goto, Outcome
<1>6. ASSUME NEW p \in Procs, NameOwnerFails(p) PROVE Goal
  BY <1>6, <1>f
<1>7. ASSUME NEW p \in Procs, InspectOwner(p) PROVE Goal
  <2>1. CASE Goto(p, "failed")
    BY <1>7, <2>1, <1>t, <1>r, EndRefuses DEF InspectOwner, At, Outcome
  <2>2. CASE Goto(p, "mkdir") \/ Goto(p, "remove")
    BY <1>7, <2>2, <1>t, <1>s, Stutter DEF InspectOwner, At, Goto, Outcome, TypeOK
  <2> QED
    BY <1>7, <2>1, <2>2 DEF InspectOwner, NotStale
<1>8. ASSUME NEW p \in Procs, InspectMissingOwner(p) PROVE Goal
  BY <1>8, <1>t, <1>s, Stutter DEF InspectMissingOwner, At, Goto, Outcome, TypeOK
<1>9. ASSUME NEW p \in Procs, StatDirectory(p) PROVE Goal
  <2>1. CASE Goto(p, "failed")
    BY <1>9, <2>1, <1>t, <1>r, EndRefuses DEF StatDirectory, At, Outcome
  <2>2. CASE Goto(p, "mkdir") \/ Goto(p, "remove")
    BY <1>9, <2>2, <1>t, <1>s, Stutter DEF StatDirectory, At, Goto, Outcome, TypeOK
  <2> QED
    BY <1>9, <2>1, <2>2 DEF StatDirectory, NotStale
<1>10. ASSUME NEW p \in Procs, RemoveStale(p) PROVE Goal
  BY <1>10, <1>t, <1>s, Stutter DEF RemoveStale, At, Goto, Outcome, TypeOK
<1>11. ASSUME NEW p \in Procs, Read(p) PROVE Goal
  BY <1>11, <1>t, <1>s, Stutter DEF Read, At, Goto, Outcome, TypeOK
<1>12. ASSUME NEW p \in Procs, Publish(p) PROVE Goal
  <2>1. PICK next \in {"release", "unwind"} : Goto(p, next)
    BY <1>12 DEF Publish
  <2>2. Outcome(p) = "pending" /\ Ledger!Admitted(p) /\ doc' = doc \cup {p}
    BY <1>12, <1>t DEF Publish, Conflict, At, Outcome, CopyIsCurrent, Ledger!Admitted
  <2>3. \E answer \in {"done", "failed"} : Told' = [Told EXCEPT ![p] = answer]
    BY <2>1, <1>t DEF Goto, Told, Outcome, TypeOK
  <2>4. Ledger!Update(p)
    BY <2>2, <2>3 DEF Told, Ledger!Update
  <2> QED
    BY <2>4 DEF Ledger!Next
<1>13. ASSUME NEW p \in Procs, ActionThrows(p) PROVE Goal
  BY <1>13, <1>t, <1>r, EndRefuses DEF ActionThrows, At, Goto, Outcome
<1>14. ASSUME NEW p \in Procs, Release(p) PROVE Goal
  BY <1>14, <1>t, <1>s, Stutter DEF Release, At, Goto, Outcome, TypeOK
<1>15. ASSUME NEW p \in Procs, Crash(p) PROVE Goal
  BY <1>15, <1>f
<1>16. ASSUME NEW p \in Procs, DeadlinePasses(p) PROVE Goal
  BY <1>16, <1>t, <1>s, Stutter DEF DeadlinePasses, At, Goto, Outcome, TypeOK
<1>17. CASE LockAges
  BY <1>17, <1>s, Stutter DEF LockAges, Outcome
<1>18. CASE UNCHANGED vars
  BY <1>18, <1>s, Stutter DEF vars, Outcome
<1> QED
  BY <1>1, <1>2, <1>3, <1>4, <1>5, <1>6, <1>7, <1>8, <1>9,
     <1>10, <1>11, <1>12, <1>13, <1>14, <1>15, <1>16, <1>17, <1>18 DEF Next, Step

\* Up to the first fault the locked read-modify-write of the ledger is an
\* atomic update, for every number of processes.
THEOREM Implements == Spec => ImplementsAtomicLedger
<1>1. Init => Ledger!Init
  BY DEF Init, Outcome, Ledger!Init
<1>2. Inv /\ [Next]_vars => [AtomicStep]_(Ledger!ledgerVars)
  BY StepIsAtomic DEF AtomicStep, Ledger!ledgerVars
<1> QED
  BY <1>1, <1>2, InvHolds, PTL DEF Spec, ImplementsAtomicLedger
=============================================================================
