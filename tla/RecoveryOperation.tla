-------------------------- MODULE RecoveryOperation --------------------------
(***************************************************************************)
(* The life of ONE recovery operation of a witness adapter (sqlite.mutate, *)
(* postgres.schema-mutate, git.reset-hard): proof, human approval, commit  *)
(* and recovery, as the MCP tools run them against the operation ledger    *)
(* (OperationStore) and the live resource.                                 *)
(*                                                                         *)
(* Tool calls run concurrently: one server interleaves them at every await *)
(* and several servers share one data directory.  Each step of a call is   *)
(* therefore an action of its own, a call keeps the ledger record it read  *)
(* (snap) and later writes that STALE record back, and only                *)
(* OperationStore.beginCommit compares before it sets.                     *)
(*                                                                         *)
(* Data is abstracted to what the witnesses tell apart: the live resource  *)
(* is a member of States, and a witness of it is that same member.         *)
(***************************************************************************)
EXTENDS Naturals

CONSTANTS
  Calls,            \* identities of tool calls that may be in flight at once
  States,           \* contents the protected resource can have
  Orig,             \* the contents the proof was made about
  Effect,           \* Effect[s]: what running the effect on contents s may give
  Torn,             \* contents an interrupted effect or restore can leave
                    \* ({} for SQLite and PostgreSQL, which use a transaction
                    \* or a rename; not {} for git, which uses several steps)
  VerifiesArtifact, \* recover() checks the whole artifact before it uses it
                    \* (TRUE for SQLite and PostgreSQL, FALSE for git)
  None,             \* the null of the ledger's nullable fields
  MaxDrifts,        \* bound on writes by somebody else
  MaxInterrupts     \* bound on calls cut by a crash or an error

ASSUME OrigAssumption == Orig \in States
ASSUME EffectAssumption ==
  /\ Effect \in [States -> SUBSET States]
  /\ \A s \in States : Effect[s] # {}
ASSUME TornAssumption ==
  /\ Torn \subseteq States
  /\ VerifiesArtifact \in BOOLEAN
  /\ ~VerifiesArtifact => Torn # {}
ASSUME NoneAssumption == None \notin States
ASSUME BoundAssumption == MaxDrifts \in Nat /\ MaxInterrupts \in Nat

VARIABLES
  ledger,     \* the operation's record in operations.json
  auth,       \* status of its authorization record
  token,      \* the human-approved capability has been issued
  elapsed,    \* the proof's time to live has passed
  live,       \* contents of the protected resource
  artifact,   \* the recovery artifact still has its recorded digest
  pc,         \* where each call is
  snap,       \* the ledger record each call works from
  attempts,   \* history: executions of the effect, complete or cut
  drifts,     \* history: writes by somebody else
  interrupts  \* history: calls cut before they ended

vars == <<ledger, auth, token, elapsed, live, artifact, pc, snap,
          attempts, drifts, interrupts>>

\* What no step of a running tool call touches.
environment == <<auth, token, elapsed, artifact, drifts, interrupts>>

Statuses == {"none", "proven", "committing", "committed", "recovered"}
Records == [status : Statuses, drill : States \cup {None}, post : States \cup {None}]
NoRecord == [status |-> "none", drill |-> None, post |-> None]

\* Where a commit call and a restore call can be, between two of their awaits.
CommitSteps == {"authorized", "verified", "witnessed", "begun", "mutated", "measured"}
RecoverSteps == {"recovering", "restoring", "restored", "settling"}
Steps == {"idle"} \cup CommitSteps \cup RecoverSteps

TypeOK ==
  /\ ledger \in Records
  /\ auth \in {"absent", "pending", "approved", "expired"}
  /\ token \in BOOLEAN
  /\ elapsed \in BOOLEAN
  /\ live \in States
  /\ artifact \in BOOLEAN
  /\ pc \in [Calls -> Steps]
  /\ snap \in [Calls -> Records]
  /\ attempts \in Nat
  /\ drifts \in 0..MaxDrifts
  /\ interrupts \in 0..MaxInterrupts

Init ==
  /\ ledger = NoRecord
  /\ auth = "absent"
  /\ token = FALSE
  /\ elapsed = FALSE
  /\ live = Orig
  /\ artifact = TRUE
  /\ pc = [c \in Calls |-> "idle"]
  /\ snap = [c \in Calls |-> NoRecord]
  /\ attempts = 0
  /\ drifts = 0
  /\ interrupts = 0

-----------------------------------------------------------------------------
(* Calls: taking the next step, and returning or throwing. *)

At(c, step) == pc[c] = step
Goto(c, step) == pc' = [pc EXCEPT ![c] = step]
Finish(c) ==
  /\ pc' = [pc EXCEPT ![c] = "idle"]
  /\ snap' = [snap EXCEPT ![c] = NoRecord]

\* Mutant of Expected: the drilled post-state is forgotten.
Expected_MeasuredOnly(record) == record.post

\* The post-state recover() accepts: the measured one, or the drilled one
\* when no commit got as far as recording a measurement.
Expected(record) == IF record.post # None THEN record.post ELSE record.drill

-----------------------------------------------------------------------------
(* Proof and approval. *)

\* What a drill on a copy proves, once the saved original has undone it there:
\* the post-state that the effect had.
ProofOf(post) == [status |-> "proven", drill |-> post, post |-> None]

\* service.prepare: the effect is drilled on a copy, then the record is put.
Prepare ==
  /\ ledger.status = "none"
  /\ live = Orig
  /\ \E post \in Effect[Orig] : ledger' = ProofOf(post)
  /\ UNCHANGED <<auth, token, elapsed, live, artifact, pc, snap,
                 attempts, drifts, interrupts>>

\* approvals.request: the prepare tool's second write.
RequestApproval ==
  /\ ledger.status = "proven"
  /\ auth = "absent"
  /\ auth' = "pending"
  /\ UNCHANGED <<ledger, token, elapsed, live, artifact, pc, snap,
                 attempts, drifts, interrupts>>

\* ApprovalBroker.approve, from the human's terminal.
Approve ==
  /\ ledger.status = "proven"
  /\ ~elapsed
  /\ auth = "pending"
  /\ auth' = "approved"
  /\ token' = TRUE
  /\ UNCHANGED <<ledger, elapsed, live, artifact, pc, snap,
                 attempts, drifts, interrupts>>

\* AuthorizationRegistry.get rewrites a record whose expiry has passed.
ExpireAuthorization ==
  /\ elapsed
  /\ auth \in {"pending", "approved"}
  /\ auth' = "expired"
  /\ UNCHANGED <<ledger, token, elapsed, live, artifact, pc, snap,
                 attempts, drifts, interrupts>>

-----------------------------------------------------------------------------
(* The commit tool: assertIndividualAuthorized, then service.commit. *)

\* Mutant of CommitCall: the approval record is not consulted.
CommitCall_Unapproved(c) ==
  /\ At(c, "idle")
  /\ ~elapsed
  /\ Goto(c, "authorized")
  /\ UNCHANGED <<ledger, live, snap, attempts, environment>>

CommitCall(c) ==
  /\ At(c, "idle")
  /\ token
  /\ auth = "approved"
  /\ ~elapsed
  /\ Goto(c, "authorized")
  /\ UNCHANGED <<ledger, live, snap, attempts, environment>>

\* The record is read, its status and the capability's expiry checked.
ReadForCommit(c) ==
  /\ At(c, "authorized")
  /\ \/ /\ ledger.status = "proven"
        /\ ~elapsed
        /\ Goto(c, "verified")
        /\ snap' = [snap EXCEPT ![c] = ledger]
     \/ /\ ledger.status # "proven" \/ elapsed
        /\ Finish(c)
  /\ UNCHANGED <<ledger, live, attempts, environment>>

\* Live state and artifact are compared with the proof.
WitnessForCommit(c) ==
  /\ At(c, "verified")
  /\ \/ /\ live = Orig
        /\ artifact
        /\ Goto(c, "witnessed")
        /\ UNCHANGED snap
     \/ /\ live # Orig \/ ~artifact
        /\ Finish(c)
  /\ UNCHANGED <<ledger, live, attempts, environment>>

\* Mutant of BeginCommit: a put instead of a compare-and-set.
BeginCommit_Put(c) ==
  /\ At(c, "witnessed")
  /\ ledger' = [ledger EXCEPT !.status = "committing"]
  /\ Goto(c, "begun")
  /\ UNCHANGED <<snap, live, attempts, environment>>

\* Mutant of BeginCommit: the status is checked but not written.
BeginCommit_Unjournalled(c) ==
  /\ At(c, "witnessed")
  /\ ledger.status = "proven"
  /\ Goto(c, "begun")
  /\ UNCHANGED <<ledger, snap, live, attempts, environment>>

\* OperationStore.beginCommit: compare and set under the ledger lock.
BeginCommit(c) ==
  /\ At(c, "witnessed")
  /\ \/ /\ ledger.status = "proven"
        /\ ledger' = [ledger EXCEPT !.status = "committing"]
        /\ Goto(c, "begun")
        /\ UNCHANGED snap
     \/ /\ ledger.status # "proven"
        /\ Finish(c)
        /\ UNCHANGED ledger
  /\ UNCHANGED <<live, attempts, environment>>

\* The effect itself.
Mutate(c) ==
  /\ At(c, "begun")
  /\ live' \in Effect[live]
  /\ attempts' = attempts + 1
  /\ Goto(c, "mutated")
  /\ UNCHANGED <<ledger, snap, environment>>

\* postCommitWitness is read from the live resource after the effect.
MeasurePost(c) ==
  /\ At(c, "mutated")
  /\ snap' = [snap EXCEPT ![c].post = live]
  /\ Goto(c, "measured")
  /\ UNCHANGED <<ledger, live, attempts, environment>>

PutCommitted(c) ==
  /\ At(c, "measured")
  /\ ledger' = [snap[c] EXCEPT !.status = "committed"]
  /\ Finish(c)
  /\ UNCHANGED <<live, attempts, environment>>

-----------------------------------------------------------------------------
(* The restore tool: service.recover, which asks nobody for authority. *)

RecoverCall(c) ==
  /\ At(c, "idle")
  /\ ledger.status \in {"committing", "committed"}
  /\ Goto(c, "recovering")
  /\ snap' = [snap EXCEPT ![c] = ledger]
  /\ UNCHANGED <<ledger, live, attempts, environment>>

\* Mutant of NothingToUndo: the early return is missing.
NothingToUndo_Missing(c) == At(c, "idle")

\* An interrupted commit that never touched the resource.
NothingToUndo(c) == live = Orig /\ snap[c].status = "committing"

\* Mutant of RestoreGuard: the contents are not compared.
RestoreGuard_Unwitnessed(c) == artifact \/ ~VerifiesArtifact

RestoreGuard(c) == live = Expected(snap[c]) /\ (artifact \/ ~VerifiesArtifact)

WitnessForRecover(c) ==
  /\ At(c, "recovering")
  /\ \/ /\ NothingToUndo(c)
        /\ Goto(c, "settling")
        /\ UNCHANGED snap
     \/ /\ ~NothingToUndo(c)
        /\ RestoreGuard(c)
        /\ Goto(c, "restoring")
        /\ UNCHANGED snap
     \/ /\ ~NothingToUndo(c)
        /\ ~RestoreGuard(c)
        /\ Finish(c)
  /\ UNCHANGED <<ledger, live, attempts, environment>>

\* The artifact replaces the live contents; a changed one that nobody
\* verified replaces them by something else.
Restore(c) ==
  /\ At(c, "restoring")
  /\ live' \in IF artifact \/ VerifiesArtifact THEN {Orig} ELSE Torn
  /\ Goto(c, "restored")
  /\ UNCHANGED <<ledger, snap, attempts, environment>>

VerifyRestore(c) ==
  /\ At(c, "restored")
  /\ \/ live = Orig /\ Goto(c, "settling") /\ UNCHANGED snap
     \/ live # Orig /\ Finish(c)
  /\ UNCHANGED <<ledger, live, attempts, environment>>

\* Mutant of PutRecovered: a status the ledger's schema does not have.
PutRecovered_BadStatus(c) ==
  /\ At(c, "settling")
  /\ ledger' = [snap[c] EXCEPT !.status = "restored"]
  /\ Finish(c)
  /\ UNCHANGED <<live, attempts, environment>>

\* store.put of the record read when the recovery began, as "recovered".
PutRecovered(c) ==
  /\ At(c, "settling")
  /\ ledger' = [snap[c] EXCEPT !.status = "recovered"]
  /\ Finish(c)
  /\ UNCHANGED <<live, attempts, environment>>

-----------------------------------------------------------------------------
(* The world around the calls. *)

\* A crash of the process, a failing command or a failing write cuts a call
\* anywhere; one that cuts the effect or a restore may leave it half done.
Interrupt(c) ==
  /\ ~At(c, "idle")
  /\ interrupts < MaxInterrupts
  /\ interrupts' = interrupts + 1
  /\ live' \in {live} \cup (IF pc[c] \in {"begun", "restoring"} THEN Torn ELSE {})
  /\ attempts' = IF At(c, "begun") THEN attempts + 1 ELSE attempts
  /\ Finish(c)
  /\ UNCHANGED <<ledger, auth, token, elapsed, artifact, drifts>>

\* Another writer of the resource (THREAT_MODEL's concurrent writer).  What
\* was written before the proof is part of Orig.
Drift ==
  /\ ledger.status # "none"
  /\ drifts < MaxDrifts
  /\ drifts' = drifts + 1
  /\ live' \in States \ {live}
  /\ UNCHANGED <<ledger, auth, token, elapsed, artifact, pc, snap,
                 attempts, interrupts>>

\* Another writer of the artifact directory.
SpoilArtifact ==
  /\ ledger.status # "none"
  /\ drifts < MaxDrifts
  /\ drifts' = drifts + 1
  /\ artifact
  /\ artifact' = FALSE
  /\ UNCHANGED <<ledger, auth, token, elapsed, live, pc, snap,
                 attempts, interrupts>>

Elapse ==
  /\ ledger.status # "none"
  /\ ~elapsed
  /\ elapsed' = TRUE
  /\ UNCHANGED <<ledger, auth, token, live, artifact, pc, snap,
                 attempts, drifts, interrupts>>

-----------------------------------------------------------------------------
CommitStep(c) ==
  \/ ReadForCommit(c) \/ WitnessForCommit(c) \/ BeginCommit(c)
  \/ Mutate(c) \/ MeasurePost(c) \/ PutCommitted(c)

RecoverStep(c) ==
  \/ WitnessForRecover(c) \/ Restore(c) \/ VerifyRestore(c) \/ PutRecovered(c)

CallNext(c) ==
  \/ CommitCall(c) \/ CommitStep(c)
  \/ RecoverCall(c) \/ RecoverStep(c)
  \/ Interrupt(c)

Next ==
  \/ Prepare \/ RequestApproval \/ Approve \/ ExpireAuthorization
  \/ \E c \in Calls : CallNext(c)
  \/ Drift \/ SpoilArtifact \/ Elapse

Spec == Init /\ [][Next]_vars

\* The event loop runs every call it has accepted, and whoever needs the
\* resource back keeps asking for its recovery (strong: other calls that only
\* get refused may come in between).
Fairness ==
  \A c \in Calls :
    /\ WF_vars(CommitStep(c) \/ RecoverStep(c))
    /\ SF_vars(RecoverCall(c))

FairSpec == Spec /\ Fairness
-----------------------------------------------------------------------------
(* Properties. *)

Quiet == \A c \in Calls : At(c, "idle")

\* beginCommit's compare-and-set makes the approval one-shot: however many
\* concurrent, repeated or interrupted commit calls there are, the effect is
\* started at most once in the life of the operation.
EffectAtMostOnce == attempts <= 1

\* "Each adapter records committing before live mutation": once the effect may
\* have run, no stale put makes the ledger say it is still to be run, and it
\* never ran without the human's capability.
JournalBeforeEffect ==
  (attempts > 0 \/ \E c \in Calls : pc[c] \in {"begun", "mutated", "measured"})
    => ledger.status \in {"committing", "committed", "recovered"} /\ token

\* What makes the two properties above inductive: a call that is past the
\* compare-and-set, or recovering, implies that the ledger left "proven" for
\* good, and at most one call can be about to run an effect not yet run.
Started == {"committing", "committed", "recovered"}
OneShot ==
  /\ EffectAtMostOnce
  /\ \A c, d \in Calls : At(c, "begun") /\ At(d, "begun") => c = d
  /\ attempts > 0 => \A c \in Calls : ~At(c, "begun")
StartedIsStarted ==
  /\ attempts > 0 => ledger.status \in Started
  /\ \A c \in Calls :
       pc[c] \in {"begun", "mutated", "measured"} \cup RecoverSteps
         => ledger.status \in Started
StartedIsApproved ==
  /\ ledger.status \in Started => token
  /\ \A c \in Calls : pc[c] \in CommitSteps => token
Inv == TypeOK /\ OneShot /\ StartedIsStarted /\ StartedIsApproved

\* "refuses recovery over later live changes", as far as an optimistic guard
\* can: contents somebody else wrote, which neither the proof nor the effect
\* accounts for, are never overwritten by a call that takes its witness after
\* that write.  (A call between witness and write overwrites them unseen, and
\* one between effect and measurement adopts them as its own post-state.)
Unarmed ==
  \A c \in Calls : pc[c] \notin {"witnessed", "begun", "mutated", "restoring"}
Unreceipted(s) == ledger.post # s /\ \A c \in Calls : snap[c].post # s
Foreign == States \ ({Orig} \cup Effect[Orig] \cup Torn)
ForeignContentsKept ==
  \A s \in Foreign :
    [](Unarmed /\ Unreceipted(s) /\ live = s /\ drifts = MaxDrifts
         => [](live = s))

\* Crashes included, a changed resource always has a ledger entry that a
\* restore accepts: never one that is still proven or already recovered, and
\* the recorded witness is that of the contents, unless a step of several was
\* cut half way: then the contents are nobody's, and the entry says so still.
ChangeIsRecoverable ==
  Quiet /\ drifts = 0 /\ live # Orig =>
    /\ ledger.status \in {"committing", "committed"}
    /\ live = Expected(ledger) \/ live \in Torn

\* A recovered receipt says that the original contents are back.
RecoveredMeansRestored ==
  Quiet /\ drifts = 0 /\ ledger.status = "recovered" => live = Orig

\* An interrupted commit does not stay interrupted: asking for its recovery,
\* again if that is cut too, ends with a recovered receipt, unless a step of
\* several was cut half way (what it leaves no restore accepts).
InterruptedCommitResolves ==
  (ledger.status = "committing") ~>
    (ledger.status \in {"committed", "recovered"} \/ live \in Torn)

\* One call at a time, and nobody else writing: the protocol implements a
\* granted, journalled, at-most-once and truthfully receipted effect, whatever
\* is cut and wherever.
Abstract == INSTANCE ReversibleEffect
  WITH receipt <- ledger.status, granted <- token,
       applied <- (live # Orig), spent <- (attempts > 0)

ImplementsReversibleEffect == Abstract!Spec
=============================================================================
