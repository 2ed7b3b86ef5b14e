-------------------------- MODULE RecoveryManifest --------------------------
(***************************************************************************)
(* A recovery manifest: N independent operations under one approval,       *)
(* committed in binding order and, when one fails or a human asks, undone  *)
(* in reverse order (ManifestCoordinator over ManifestStore and            *)
(* OperationStore).                                                        *)
(*                                                                         *)
(* A child operation is reduced to its ledger status and its resource;     *)
(* RecoveryOperation models what happens inside one.  Here committing or   *)
(* recovering a child is one step, with every outcome that may leave       *)
(* behind; what is interleaved is the coordinators' own awaits: the child  *)
(* call, then the manifest put, each from the record the call holds.       *)
(***************************************************************************)
EXTENDS Naturals, Sequences, FiniteSets

CONSTANTS
  N,            \* children, bound in the order 1..N
  Coordinators, \* identities of manifest calls that may be in flight at once
  Rerunnable,   \* children whose recover() accepts contents that are already
                \* original under a committed receipt (filesystem.delete)
  MaxFaults,    \* bound on crashes and failing steps
  MaxDrifts,    \* bound on writes by somebody else
  MaxAlone      \* bound on children restored without their manifest

Child == 1..N

ASSUME ChildAssumption == N \in Nat \ {0} /\ Rerunnable \subseteq Child
ASSUME BoundAssumption == MaxFaults \in Nat /\ MaxDrifts \in Nat /\ MaxAlone \in Nat

VARIABLES
  manifest,  \* the record in manifests.json
  approved,  \* the aggregate approval, and with it every child's, was given
  expired,   \* children whose proof's time to live has passed
  status,    \* status[o]: child o's status in operations.json
  live,      \* live[o]: child o's resource, against its proof
  pc,        \* where each coordinator call is
  progress,  \* the manifest record each call works from
  index,     \* the child each call's loop is at
  final,     \* the status a call's compensation ends with
  faults,    \* history: crashes and failing steps
  drifts,    \* history: writes by somebody else
  alone,     \* history: children restored without their manifest
  refused,   \* history: children whose recovery has thrown in a compensation
  unheard    \* history: those of them whose receipt was published all the same

vars == <<manifest, approved, expired, status, live, pc, progress, index,
          final, faults, drifts, alone, refused, unheard>>
children == <<status, live>>
thrown == <<refused, unheard>>
world == <<approved, expired, drifts, alone, refused, unheard>>

\* A manifest expires with the first of its children.
Elapsed == expired # {}

ManifestStatuses ==
  {"none", "prepared", "expired", "committing", "committed", "recovering",
   "compensated", "recovered", "partially-recovered"}

Records ==
  [status : ManifestStatuses,
   committed : SUBSET Child,
   recovered : Seq(Child),
   outstanding : SUBSET Child,
   committedAt : BOOLEAN]

NoRecord == [status |-> "none", committed |-> {}, recovered |-> <<>>,
             outstanding |-> {}, committedAt |-> FALSE]

Steps == {"idle", "authorized", "committing", "journalling", "surveying",
          "announcing", "recovering", "noting", "expiring"}

TypeOK ==
  /\ manifest \in Records
  /\ approved \in BOOLEAN
  /\ expired \subseteq Child
  /\ status \in [Child -> {"proven", "committing", "committed", "recovered"}]
  /\ live \in [Child -> {"original", "changed", "foreign"}]
  /\ pc \in [Coordinators -> Steps]
  /\ progress \in [Coordinators -> Records]
  /\ index \in [Coordinators -> 0..N + 1]
  /\ final \in [Coordinators -> {"none", "compensated", "recovered"}]
  /\ faults \in 0..MaxFaults
  /\ drifts \in 0..MaxDrifts
  /\ alone \subseteq Child
  /\ refused \subseteq Child
  /\ unheard \subseteq refused

Init ==
  /\ manifest = NoRecord
  /\ approved = FALSE
  /\ expired = {}
  /\ status = [o \in Child |-> "proven"]
  /\ live = [o \in Child |-> "original"]
  /\ pc = [k \in Coordinators |-> "idle"]
  /\ progress = [k \in Coordinators |-> NoRecord]
  /\ index = [k \in Coordinators |-> 0]
  /\ final = [k \in Coordinators |-> "none"]
  /\ faults = 0
  /\ drifts = 0
  /\ alone = {}
  /\ refused = {}
  /\ unheard = {}

Spent == {"committing", "committed"}   \* statuses a compensation undoes
IdsOf(sequence) == {sequence[i] : i \in DOMAIN sequence}

-----------------------------------------------------------------------------
(* Preparing and approving (in detail: who may approve what, and when). *)

\* RecoveryManifestService.prepare, and the tool's request for approval.
Prepare ==
  /\ manifest.status = "none"
  /\ \A o \in Child : status[o] = "proven"
  /\ ~Elapsed
  /\ manifest' = [NoRecord EXCEPT !.status = "prepared"]
  /\ UNCHANGED <<approved, expired, children, pc, progress, index, final,
                 faults, drifts, alone, thrown>>

Approve ==
  /\ manifest.status = "prepared"
  /\ ~Elapsed
  /\ ~approved
  /\ approved' = TRUE
  /\ UNCHANGED <<manifest, expired, children, pc, progress, index, final,
                 faults, drifts, alone, thrown>>

-----------------------------------------------------------------------------
(* ManifestCoordinator.commit. *)

Goto(k, step) == pc' = [pc EXCEPT ![k] = step]
Return(k) ==
  /\ Goto(k, "idle")
  /\ progress' = [progress EXCEPT ![k] = NoRecord]
  /\ index' = [index EXCEPT ![k] = 0]
  /\ final' = [final EXCEPT ![k] = "none"]

CommitCall(k) ==
  /\ pc[k] = "idle"
  /\ manifest.status = "prepared"
  /\ approved
  /\ ~Elapsed
  /\ Goto(k, "authorized")
  /\ UNCHANGED <<manifest, children, progress, index, final, faults, world>>

\* Mutant of BeginCommit: a put instead of a compare-and-set.
BeginCommit_Put(k) ==
  /\ pc[k] = "authorized"
  /\ manifest' = [manifest EXCEPT !.status = "committing"]
  /\ progress' = [progress EXCEPT ![k] = manifest']
  /\ index' = [index EXCEPT ![k] = 1]
  /\ Goto(k, "committing")
  /\ UNCHANGED <<final, children, faults, world>>

\* ManifestStore.beginCommit: compare and set under the ledger lock.
BeginCommit(k) ==
  /\ pc[k] = "authorized"
  /\ \/ /\ manifest.status = "prepared"
        /\ manifest' = [manifest EXCEPT !.status = "committing"]
        /\ progress' = [progress EXCEPT ![k] = manifest']
        /\ index' = [index EXCEPT ![k] = 1]
        /\ Goto(k, "committing")
        /\ UNCHANGED final
     \/ /\ manifest.status # "prepared"
        /\ Return(k)
        /\ UNCHANGED manifest
  /\ UNCHANGED <<children, faults, world>>

\* What service.commit needs of child o; without it the call throws and
\* changes nothing.  (Past the expiry the child's capability is withdrawn.)
Committable(o) == status[o] = "proven" /\ live[o] = "original" /\ o \notin expired

\* The catch block: the failed child counts as committed when its own ledger
\* entry, read again, says that its effect may have run.
AfterFailure(record, o, childStatus) ==
  IF childStatus \in Spent
    THEN [record EXCEPT !.committed = @ \cup {o}] ELSE record

CommitChild(k) ==
  /\ pc[k] = "committing"
  /\ index[k] \in Child
  /\ LET o == index[k] IN
     /\ Committable(o)
     /\ status' = [status EXCEPT ![o] = "committed"]
     /\ live' = [live EXCEPT ![o] = "changed"]
     /\ progress' = [progress EXCEPT ![k].committed = @ \cup {o}]
     /\ Goto(k, "journalling")
  /\ UNCHANGED <<manifest, index, final, faults, world>>

RefuseChild(k) ==
  /\ pc[k] = "committing"
  /\ index[k] \in Child
  /\ ~Committable(index[k])
  /\ progress' = [progress EXCEPT ![k] = AfterFailure(@, index[k], status[index[k]])]
  /\ final' = [final EXCEPT ![k] = "compensated"]
  /\ Goto(k, "surveying")
  /\ UNCHANGED <<manifest, children, index, faults, world>>

\* The adapter throws before beginCommit, between it and the effect, in the
\* midst of the effect, after it, or after the receipt (a PostgreSQL result that
\* differs from the drill, or a receipt's put that throws after publication).
FailChild(k) ==
  /\ pc[k] = "committing"
  /\ index[k] \in Child
  /\ faults < MaxFaults
  /\ faults' = faults + 1
  /\ LET o == index[k] IN
     /\ Committable(o)
     /\ \E outcome \in {<<"proven", "original">>, <<"committing", "original">>,
                        <<"committing", "foreign">>, <<"committing", "changed">>,
                        <<"committed", "changed">>} :
          /\ status' = [status EXCEPT ![o] = outcome[1]]
          /\ live' = [live EXCEPT ![o] = outcome[2]]
     /\ progress' = [progress EXCEPT ![k] = AfterFailure(@, o, status'[o])]
  /\ final' = [final EXCEPT ![k] = "compensated"]
  /\ Goto(k, "surveying")
  /\ UNCHANGED <<manifest, index, world>>

\* Mutant of PutProgress: the loop's step is off by one.
PutProgress_Skips(k) ==
  /\ pc[k] = "journalling"
  /\ manifest' = progress[k]
  /\ index' = [index EXCEPT ![k] = @ + 2]
  /\ Goto(k, "committing")
  /\ UNCHANGED <<children, progress, final, faults, world>>

\* The child's commit is put into the manifest; a put that throws, before or
\* after publication, is caught like a failing child.
PutProgress(k) ==
  /\ pc[k] = "journalling"
  /\ manifest' = progress[k]
  /\ index' = [index EXCEPT ![k] = @ + 1]
  /\ Goto(k, "committing")
  /\ UNCHANGED <<children, progress, final, faults, world>>

PutProgressFails(k) ==
  /\ pc[k] = "journalling"
  /\ faults < MaxFaults
  /\ faults' = faults + 1
  /\ manifest' \in {manifest, progress[k]}
  /\ final' = [final EXCEPT ![k] = "compensated"]
  /\ Goto(k, "surveying")
  /\ UNCHANGED <<children, progress, index, world>>

\* Mutant of PutCommitted: the loop ends before the last child.
PutCommitted_Early(k) ==
  /\ pc[k] = "committing"
  /\ index[k] = N
  /\ manifest' = [progress[k] EXCEPT !.status = "committed", !.committedAt = TRUE,
                                     !.outstanding = progress[k].committed]
  /\ Return(k)
  /\ UNCHANGED <<children, faults, world>>

PutCommitted(k) ==
  /\ pc[k] = "committing"
  /\ index[k] = N + 1
  /\ manifest' = [progress[k] EXCEPT !.status = "committed", !.committedAt = TRUE,
                                     !.outstanding = progress[k].committed]
  /\ Return(k)
  /\ UNCHANGED <<children, faults, world>>

-----------------------------------------------------------------------------
(* ManifestCoordinator.recover and compensate. *)

RecoverCall(k) ==
  /\ pc[k] = "idle"
  /\ manifest.status \in {"committed", "committing", "partially-recovered"}
  /\ progress' = [progress EXCEPT ![k] = manifest]
  /\ final' = [final EXCEPT ![k] =
       IF manifest.status = "committed" THEN "recovered" ELSE "compensated"]
  /\ Goto(k, "surveying")
  /\ UNCHANGED <<manifest, children, index, faults, world>>

\* Mutant of Survey: only what the manifest recorded is undone.
Survey_RecordedOnly(k) ==
  /\ pc[k] = "surveying"
  /\ progress' = [progress EXCEPT
       ![k].status = "recovering",
       ![k].outstanding = progress[k].committed \ IdsOf(progress[k].recovered)]
  /\ Goto(k, "announcing")
  /\ UNCHANGED <<manifest, children, index, final, faults, world>>

\* Every child's ledger entry is read: what may have run must be undone,
\* recorded in the manifest or not.
Survey(k) ==
  /\ pc[k] = "surveying"
  /\ LET committed == progress[k].committed \cup {o \in Child : status[o] \in Spent}
     IN progress' = [progress EXCEPT
          ![k].status = "recovering",
          ![k].committed = committed,
          ![k].outstanding = committed \ IdsOf(progress[k].recovered)]
  /\ Goto(k, "announcing")
  /\ UNCHANGED <<manifest, children, index, final, faults, world>>

PutRecovering(k) ==
  /\ pc[k] = "announcing"
  /\ manifest' = progress[k]
  /\ index' = [index EXCEPT ![k] = N]
  /\ Goto(k, "recovering")
  /\ UNCHANGED <<children, progress, final, faults, world>>

ToRecover(k, o) ==
  o \in progress[k].committed /\ o \notin IdsOf(progress[k].recovered)

SkipChild(k) ==
  /\ pc[k] = "recovering"
  /\ index[k] \in Child
  /\ ~ToRecover(k, index[k])
  /\ index' = [index EXCEPT ![k] = @ - 1]
  /\ UNCHANGED <<manifest, children, pc, progress, final, faults, world>>

\* What service.recover needs of child o; without it the call throws.
Recoverable(o) ==
  /\ status[o] \in Spent
  /\ \/ live[o] = "changed"
     \/ live[o] = "original" /\ (status[o] = "committing" \/ o \in Rerunnable)

\* Mutants of RecoverChild: the child stays on the list of outstanding work;
\* the list of recovered children is built the wrong way round.
RecoverChild_KeepsOutstanding(k) ==
  /\ pc[k] = "recovering"
  /\ index[k] \in Child
  /\ LET o == index[k] IN
     /\ ToRecover(k, o)
     /\ Recoverable(o)
     /\ status' = [status EXCEPT ![o] = "recovered"]
     /\ live' = [live EXCEPT ![o] = "original"]
     /\ progress' = [progress EXCEPT ![k].recovered = Append(@, o)]
  /\ Goto(k, "noting")
  /\ UNCHANGED <<manifest, index, final, faults, world>>

RecoverChild_Prepends(k) ==
  /\ pc[k] = "recovering"
  /\ index[k] \in Child
  /\ LET o == index[k] IN
     /\ ToRecover(k, o)
     /\ Recoverable(o)
     /\ status' = [status EXCEPT ![o] = "recovered"]
     /\ live' = [live EXCEPT ![o] = "original"]
     /\ progress' = [progress EXCEPT ![k].recovered = <<o>> \o @,
                                     ![k].outstanding = @ \ {o}]
  /\ Goto(k, "noting")
  /\ UNCHANGED <<manifest, index, final, faults, world>>

RecoverChild(k) ==
  /\ pc[k] = "recovering"
  /\ index[k] \in Child
  /\ LET o == index[k] IN
     /\ ToRecover(k, o)
     /\ Recoverable(o)
     /\ status' = [status EXCEPT ![o] = "recovered"]
     /\ live' = [live EXCEPT ![o] = "original"]
     /\ progress' = [progress EXCEPT ![k].recovered = Append(@, o),
                                     ![k].outstanding = @ \ {o}]
  /\ Goto(k, "noting")
  /\ UNCHANGED <<manifest, index, final, faults, world>>

\* Mutant of RecoverChildFails: a refusing child is tried again at once.
RecoverChildFails_Retries(k) ==
  /\ pc[k] = "recovering"
  /\ index[k] \in Child
  /\ ToRecover(k, index[k])
  /\ ~Recoverable(index[k])
  /\ UNCHANGED <<manifest, children, pc, progress, index, final, faults, world>>

\* The child refuses, or its adapter throws before, in the midst of or after
\* restoring its resource, or when its receipt is already published (the rename
\* is done, the fsync or the lock's removal is not): the child stays on the
\* list and the loop goes on with the one before it.
RecoverChildFails(k) ==
  /\ pc[k] = "recovering"
  /\ index[k] \in Child
  /\ LET o == index[k] IN
     /\ ToRecover(k, o)
     /\ \/ ~Recoverable(o) /\ UNCHANGED <<children, faults, unheard>>
        \/ /\ Recoverable(o)
           /\ faults < MaxFaults
           /\ faults' = faults + 1
           /\ \/ /\ \E contents \in {live[o], "foreign", "original"} :
                      live' = [live EXCEPT ![o] = contents]
                 /\ UNCHANGED <<status, unheard>>
              \/ /\ status' = [status EXCEPT ![o] = "recovered"]
                 /\ live' = [live EXCEPT ![o] = "original"]
                 /\ unheard' = unheard \cup {o}
     /\ refused' = refused \cup {o}
  /\ index' = [index EXCEPT ![k] = @ - 1]
  /\ UNCHANGED <<manifest, pc, progress, final, approved, expired, drifts, alone>>

\* The child's recovery is put into the manifest; a put that throws is caught,
\* and unless it was published only the record in memory knows.
NoteRecovery(k) ==
  /\ pc[k] = "noting"
  /\ \/ manifest' = progress[k] /\ UNCHANGED faults
     \/ faults < MaxFaults /\ faults' = faults + 1 /\ UNCHANGED manifest
  /\ index' = [index EXCEPT ![k] = @ - 1]
  /\ Goto(k, "recovering")
  /\ UNCHANGED <<children, progress, final, world>>

FinishCompensation(k) ==
  /\ pc[k] = "recovering"
  /\ index[k] = 0
  /\ manifest' = [progress[k] EXCEPT !.status =
       IF progress[k].outstanding = {} THEN final[k] ELSE "partially-recovered"]
  /\ Return(k)
  /\ UNCHANGED <<children, faults, world>>

-----------------------------------------------------------------------------
(* RecoveryManifestService.get: reading an outdated prepared manifest rewrites *)
(* it, from the record read, as expired.                                       *)

ExpireRead(k) ==
  /\ pc[k] = "idle"
  /\ manifest.status = "prepared"
  /\ Elapsed
  /\ progress' = [progress EXCEPT ![k] = manifest]
  /\ Goto(k, "expiring")
  /\ UNCHANGED <<manifest, children, index, final, faults, world>>

PutExpired(k) ==
  /\ pc[k] = "expiring"
  /\ manifest' = [progress[k] EXCEPT !.status = "expired"]
  /\ Return(k)
  /\ UNCHANGED <<children, faults, world>>

-----------------------------------------------------------------------------
(* The world around the coordinators. *)

\* A crash, or a put outside the try blocks that throws (one that throws after
\* publication is the put, and then this).
Crash(k) ==
  /\ pc[k] # "idle"
  /\ faults < MaxFaults
  /\ faults' = faults + 1
  /\ Return(k)
  /\ UNCHANGED <<manifest, children, world>>

Drift(o) ==
  /\ drifts < MaxDrifts
  /\ drifts' = drifts + 1
  /\ \E contents \in {"original", "changed", "foreign"} \ {live[o]} :
       live' = [live EXCEPT ![o] = contents]
  /\ UNCHANGED <<manifest, approved, expired, status, pc, progress, index,
                 final, faults, alone, thrown>>

\* The recovery_restore_* tools recover any operation, a manifest's child too,
\* and leave the manifest as it is.
RestoreAlone(o) ==
  /\ Cardinality(alone) < MaxAlone
  /\ Recoverable(o)
  /\ status' = [status EXCEPT ![o] = "recovered"]
  /\ live' = [live EXCEPT ![o] = "original"]
  /\ alone' = alone \cup {o}
  /\ UNCHANGED <<manifest, approved, expired, pc, progress, index, final,
                 faults, drifts, thrown>>

Elapse(o) ==
  /\ o \notin expired
  /\ expired' = expired \cup {o}
  /\ UNCHANGED <<manifest, approved, children, pc, progress, index, final,
                 faults, drifts, alone, thrown>>

-----------------------------------------------------------------------------
CommitStep(k) ==
  \/ BeginCommit(k) \/ CommitChild(k) \/ RefuseChild(k) \/ FailChild(k)
  \/ PutProgress(k) \/ PutProgressFails(k) \/ PutCommitted(k)

RecoverStep(k) ==
  \/ Survey(k) \/ PutRecovering(k) \/ SkipChild(k) \/ RecoverChild(k)
  \/ RecoverChildFails(k) \/ NoteRecovery(k) \/ FinishCompensation(k)

CallNext(k) ==
  \/ CommitCall(k) \/ CommitStep(k) \/ RecoverCall(k) \/ RecoverStep(k)
  \/ ExpireRead(k) \/ PutExpired(k) \/ Crash(k)

Next ==
  \/ Prepare \/ Approve
  \/ \E k \in Coordinators : CallNext(k)
  \/ \E o \in Child : Elapse(o) \/ Drift(o) \/ RestoreAlone(o)

Spec == Init /\ [][Next]_vars

\* The event loop runs every call it has accepted.
FairSpec ==
  Spec /\ \A k \in Coordinators : WF_vars(CommitStep(k) \/ RecoverStep(k) \/ PutExpired(k))
-----------------------------------------------------------------------------
(* Properties. *)

Quiet == \A k \in Coordinators : pc[k] = "idle"

\* "any refused recovery remains visible": whatever fails, is cut or refuses,
\* a manifest never looks untouched, expired or undone while a child's effect
\* may still be in place.
SpentChildIsVisible ==
  (\E o \in Child : status[o] \in Spent) =>
    manifest.status \in {"committing", "committed", "recovering", "partially-recovered"}

\* "exact outstanding child IDs": neither a child whose effect stands is
\* missing from the list, nor one that was undone is on it; except a child whose
\* receipt was published by a call that threw, which no later call takes off.
OutstandingIsExact ==
  manifest.status = "partially-recovered" =>
    manifest.outstanding = {o \in Child : status[o] \in Spent} \cup unheard

\* "runs in reverse binding order", over every call that worked on the
\* manifest, wherever the ones before it were cut: a child is undone after one
\* bound before it only if its own recovery had thrown when its turn came.
ReverseOrder ==
  \A i, j \in DOMAIN manifest.recovered :
    i < j => \/ manifest.recovered[i] > manifest.recovered[j]
             \/ manifest.recovered[j] \in refused

\* However many commit calls are approved at once, one of them runs the loop.
CommitLoop == {k \in Coordinators : pc[k] \in {"committing", "journalling"}}
OneCommitLoop ==
  /\ \A k, l \in CommitLoop : k = l
  /\ CommitLoop # {} => manifest.status # "prepared"

\* A call that is not cut leaves no manifest half done: every commit and every
\* compensation ends with a conclusive status.
SagaConcludes ==
  (manifest.status \in {"committing", "recovering"}) ~>
    (manifest.status \notin {"committing", "recovering"} \/ faults > 0)

\* "Outstanding recovery work remains durable and resumable".
OutstandingIsResumable ==
  Quiet /\ manifest.outstanding # {} =>
    manifest.status \in {"committed", "committing", "partially-recovered"}

\* One coordinator at a time, and children restored through their manifest
\* only: whatever fails, is cut, expires or drifts, the coordinator implements
\* a saga, in which an effect counts as undone once the undoing call has said so.
PhaseOf(manifestStatus) ==
  CASE manifestStatus \in {"none", "prepared"} -> "ready"
    [] manifestStatus = "expired" -> "lapsed"
    [] manifestStatus = "committing" -> "running"
    [] manifestStatus = "committed" -> "complete"
    [] manifestStatus = "recovering" -> "reversing"
    [] manifestStatus \in {"compensated", "recovered"} -> "reversed"
    [] manifestStatus = "partially-recovered" -> "stuck"

Abstract == INSTANCE Saga
  WITH phase <- PhaseOf(manifest.status),
       applied <- {o \in Child : status[o] \in Spent} \cup unheard

ImplementsSaga == Abstract!Spec
=============================================================================
