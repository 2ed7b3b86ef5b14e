------------------------------ MODULE FileLock ------------------------------
(***************************************************************************)
(* withFileLock (atomic-file.ts) and the read-modify-write it protects:    *)
(* one call of OperationStore.put or beginCommit (store.ts) by each of     *)
(* several processes that share a data directory.  Calls inside one        *)
(* store instance queue up (writeQueue), so a call is a process here.      *)
(*                                                                         *)
(* The lock is a directory with a file owner.json in it.  Between any two  *)
(* file-system calls anybody may act, and a process may die.  A lock that  *)
(* is 30 s old is stale if its owner is dead, or if it names no owner.     *)
(*                                                                         *)
(* The document is abstracted to the set of callers whose update is in it. *)
(* A removal (rm of directory and file) is one step, and a process that    *)
(* has died does not come back under its number.                           *)
(***************************************************************************)
EXTENDS Naturals

CONSTANTS
  Procs,       \* processes, each with one call to make
  Beginners,   \* those that call beginCommit, all of the same proven record;
               \* the others call put, each of a record of its own
  None,        \* no process
  MaxFaults    \* bound on faults: crashes, failures to write owner.json, and
               \* stalls of 30 s from creating the directory to naming the
               \* owner, or from missing owner.json to stat

ASSUME BeginnerAssumption == Beginners \subseteq Procs
ASSUME NoneAssumption == None \notin Procs
ASSUME FaultAssumption == MaxFaults \in Nat

VARIABLES
  lock,     \* the lock directory
  doc,      \* the callers whose update is in the published document
  pc,       \* where each call is
  copy,     \* the document each call has read
  late,     \* the processes whose 10 s of waiting are over
  faults    \* history: crashes, failed writes of owner.json, stalls

vars == <<lock, doc, pc, copy, late, faults>>

Waiting == {"mkdir", "inspect", "stat", "remove"}
Holding == {"owner", "read", "write", "release", "unwind"}
Ended == {"done", "failed", "dead"}

Locks == [present : BOOLEAN, owner : Procs \cup {None}, old : BOOLEAN]
Free == [present |-> FALSE, owner |-> None, old |-> FALSE]

\* A directory whose owner.json is missing or not yet whole.
Unnamed == [present |-> TRUE, owner |-> None, old |-> FALSE]
Named(p) == [present |-> TRUE, owner |-> p, old |-> FALSE]

TypeOK ==
  /\ lock \in Locks
  /\ doc \subseteq Procs
  /\ pc \in [Procs -> {"idle"} \cup Waiting \cup Holding \cup Ended]
  /\ copy \in [Procs -> SUBSET Procs]
  /\ late \subseteq Procs
  /\ faults \in 0 .. MaxFaults

Init ==
  /\ lock = Free
  /\ doc = {}
  /\ pc = [p \in Procs |-> "idle"]
  /\ copy = [p \in Procs |-> {}]
  /\ late = {}
  /\ faults = 0

At(p, place) == pc[p] = place
Goto(p, place) == pc' = [pc EXCEPT ![p] = place]

\* kill(pid, 0)
IsAlive(p) == ~At(p, "dead")

Start(p) ==
  /\ At(p, "idle")
  /\ Goto(p, "mkdir")
  /\ UNCHANGED <<lock, doc, copy, late, faults>>

-----------------------------------------------------------------------------
(* Taking the lock.                                                        *)

MakeDirectory(p) ==
  /\ At(p, "mkdir")
  /\ ~lock.present
  /\ lock' = Unnamed
  /\ Goto(p, "owner")
  /\ UNCHANGED <<doc, copy, late, faults>>

\* EEXIST
DirectoryExists(p) ==
  /\ At(p, "mkdir")
  /\ lock.present
  /\ Goto(p, "inspect")
  /\ UNCHANGED <<lock, doc, copy, late, faults>>

\* Whichever directory has the name now gets this process for its owner.
NameOwner(p) ==
  /\ At(p, "owner")
  /\ lock.present
  /\ lock' = Named(p)
  /\ Goto(p, "read")
  /\ UNCHANGED <<doc, copy, late, faults>>

\* ENOENT: somebody removed the directory.  Not EEXIST, so it is thrown.
DirectoryVanished(p) ==
  /\ At(p, "owner")
  /\ ~lock.present
  /\ Goto(p, "failed")
  /\ UNCHANGED <<lock, doc, copy, late, faults>>

\* Any other error is thrown too, outside the try whose finally releases:
\* the directory stays, without an owner.
NameOwnerFails(p) ==
  /\ At(p, "owner")
  /\ lock.present
  /\ faults < MaxFaults
  /\ faults' = faults + 1
  /\ Goto(p, "failed")
  /\ UNCHANGED <<lock, doc, copy, late>>

-----------------------------------------------------------------------------
(* Waiting for it.  A lock judged stale is removed; otherwise the call     *)
(* gives up if its time is over, and else tries again.                     *)

\* Mutant of NotStale: the deadline is never looked at.
NotStale_Forever(p) == Goto(p, "mkdir")

NotStale(p) == Goto(p, IF p \in late THEN "failed" ELSE "mkdir")

\* Mutant of InspectOwner: age alone makes a lock stale.
InspectOwner_AgeOnly(p) ==
  /\ At(p, "inspect")
  /\ lock.owner # None
  /\ IF lock.old THEN Goto(p, "remove") ELSE NotStale(p)
  /\ UNCHANGED <<lock, doc, copy, late, faults>>

\* owner.json can be read: its date and its process decide, at once.
InspectOwner(p) ==
  /\ At(p, "inspect")
  /\ lock.owner # None
  /\ IF lock.old /\ ~IsAlive(lock.owner) THEN Goto(p, "remove") ELSE NotStale(p)
  /\ UNCHANGED <<lock, doc, copy, late, faults>>

\* It cannot: the directory itself is looked at next.
InspectMissingOwner(p) ==
  /\ At(p, "inspect")
  /\ lock.owner = None
  /\ Goto(p, "stat")
  /\ UNCHANGED <<lock, doc, copy, late, faults>>

\* Mutant of StatDirectory: a lock without an owner is never stale.
StatDirectory_NeverStale(p) ==
  /\ At(p, "stat")
  /\ NotStale(p)
  /\ UNCHANGED <<lock, doc, copy, late, faults>>

\* Only the age counts, whoever owns the directory by now.
StatDirectory(p) ==
  /\ At(p, "stat")
  /\ IF lock.present /\ lock.old THEN Goto(p, "remove") ELSE NotStale(p)
  /\ UNCHANGED <<lock, doc, copy, late, faults>>

\* rm with force: removes whatever lock is there now; then `continue`, which
\* passes by the deadline.
RemoveStale(p) ==
  /\ At(p, "remove")
  /\ lock' = Free
  /\ Goto(p, "mkdir")
  /\ UNCHANGED <<doc, copy, late, faults>>

-----------------------------------------------------------------------------
(* The read-modify-write under the lock, and the release.                  *)

\* Mutant of Read: an unreadable document counts as an empty one.
Read_Empty(p) ==
  /\ At(p, "read")
  /\ copy' = [copy EXCEPT ![p] = {}]
  /\ Goto(p, "write")
  /\ UNCHANGED <<lock, doc, late, faults>>

Read(p) ==
  /\ At(p, "read")
  /\ copy' = [copy EXCEPT ![p] = doc]
  /\ Goto(p, "write")
  /\ UNCHANGED <<lock, doc, late, faults>>

Conflict(p) == p \in Beginners /\ copy[p] \cap Beginners # {}

\* Mutant of Publish: the update is filed under no identity.
Publish_NoKey(p) ==
  /\ At(p, "write")
  /\ ~Conflict(p)
  /\ doc' = copy[p] \cup {None}
  /\ copy' = [copy EXCEPT ![p] = {}]
  /\ \E next \in {"release", "unwind"} : Goto(p, next)
  /\ UNCHANGED <<lock, late, faults>>

\* The rename publishes the copy with this call's update in it; the fsync of
\* the parent directory that follows may still throw.
Publish(p) ==
  /\ At(p, "write")
  /\ ~Conflict(p)
  /\ doc' = copy[p] \cup {p}
  /\ copy' = [copy EXCEPT ![p] = {}]
  /\ \E next \in {"release", "unwind"} : Goto(p, next)
  /\ UNCHANGED <<lock, late, faults>>

\* The conflict, or an error before the rename.
ActionThrows(p) ==
  /\ At(p, "write")
  /\ copy' = [copy EXCEPT ![p] = {}]
  /\ Goto(p, "unwind")
  /\ UNCHANGED <<lock, doc, late, faults>>

\* finally: rm with force, whoever owns the directory.
Release(p) ==
  /\ pc[p] \in {"release", "unwind"}
  /\ lock' = Free
  /\ Goto(p, IF At(p, "release") THEN "done" ELSE "failed")
  /\ UNCHANGED <<doc, copy, late, faults>>

-----------------------------------------------------------------------------
(* Death and time.                                                         *)

Crash(p) ==
  /\ pc[p] \in Waiting \cup Holding
  /\ faults < MaxFaults
  /\ faults' = faults + 1
  /\ Goto(p, "dead")
  /\ copy' = [copy EXCEPT ![p] = {}]
  /\ UNCHANGED <<lock, doc, late>>

\* STALE_LOCK_MS after the directory was made or its owner was written.  A
\* process that is between two steps at a lock it takes for its own, or for
\* ownerless, has stalled.
Watched == \E p \in Procs : pc[p] \in {"owner", "stat"}

LockAges ==
  /\ lock.present
  /\ ~lock.old
  /\ lock' = [lock EXCEPT !.old = TRUE]
  /\ \/ ~Watched /\ UNCHANGED faults
     \/ Watched /\ faults < MaxFaults /\ faults' = faults + 1
  /\ UNCHANGED <<doc, pc, copy, late>>

\* LOCK_TIMEOUT_MS after the call began to wait.
DeadlinePasses(p) ==
  /\ pc[p] \in Waiting
  /\ p \notin late
  /\ late' = late \cup {p}
  /\ UNCHANGED <<lock, doc, pc, copy, faults>>

\* What a started call does unless it dies.
Step(p) ==
  \/ MakeDirectory(p) \/ DirectoryExists(p)
  \/ NameOwner(p) \/ DirectoryVanished(p) \/ NameOwnerFails(p)
  \/ InspectOwner(p) \/ InspectMissingOwner(p) \/ StatDirectory(p) \/ RemoveStale(p)
  \/ Read(p) \/ Publish(p) \/ ActionThrows(p) \/ Release(p)

Next ==
  \/ \E p \in Procs : Start(p) \/ Step(p) \/ Crash(p) \/ DeadlinePasses(p)
  \/ LockAges

Spec == Init /\ [][Next]_vars

\* A started call runs on, and time passes.  Nobody has to start, die or fail.
Fairness == \A p \in Procs : WF_vars(Step(p)) /\ WF_vars(DeadlinePasses(p))
FairSpec == Spec /\ Fairness

-----------------------------------------------------------------------------
(* Properties.                                                             *)

\* Until the first fault at most one process is between taking the lock and
\* releasing it, however slow and however many the waiters are
\* (THREAT_MODEL.md:95, "cross-process locked read-modify-write transactions").
Exclusion == \A p, q \in Procs : pc[p] \in Holding /\ pc[q] \in Holding => p = q
MutualExclusion == faults = 0 => Exclusion

\* What a caller has been, or is about to be, told.
Outcome(p) ==
  IF pc[p] \in {"release", "done"} THEN "done"
  ELSE IF pc[p] \in {"unwind", "failed", "dead"} THEN "failed" ELSE "pending"

\* The locked update is an atomic one: it builds on every update published
\* before it, and of several beginCommit calls of one record the first alone
\* succeeds.  It is so up to the first fault.  (OperationStore.put and
\* beginCommit under withFileLock.)
Ledger == INSTANCE AtomicLedger
            WITH Callers <- Procs, outcome <- [p \in Procs |-> Outcome(p)]
AtomicStep == faults' = 0 => Ledger!Next
ImplementsAtomicLedger == Ledger!Init /\ [][AtomicStep]_(Ledger!ledgerVars)

\* Only one process begins a given operation (store-concurrency.test.ts:54,
\* "allows only one process to begin the same operation").
OneBegin ==
  \A p, q \in Beginners : Outcome(p) = "done" /\ Outcome(q) = "done" => p = q

\* ... which the lock and the comparison under it guarantee up to the first
\* fault (OperationStore.beginCommit).
OneBeginUntilFault == faults = 0 => OneBegin

\* No call waits for ever, whatever state of the lock a crash has left behind
\* (the deadline of withFileLock, and its `continue` that skips the deadline).
EveryCallEnds ==
  \A p \in Procs : (pc[p] # "idle") ~> (pc[p] \in Ended)

\* A lock nobody is going to release: its owner is dead or its owner's call has
\* ended, or it has no owner and no process is about to name one.
Abandoned ==
  /\ lock.present
  /\ IF lock.owner = None THEN \A p \in Procs : pc[p] # "owner"
                          ELSE pc[lock.owner] \in Ended

\* A lock that a call left, with or without its owner's name in it, is freed by
\* any caller that tries for it once it is 30 s old, so that a crash does not
\* shut the ledger for good (staleLock and the removal in withFileLock).  One in
\* the name of a process that lives on would be judged stale by nobody: a call
\* that ends, with an error too, has to leave none (the finally of withFileLock).
AbandonedLockIsFreed ==
  \A p \in Procs :
    (Abandoned /\ lock.old /\ At(p, "mkdir"))
      ~> (~(Abandoned /\ lock.old) \/ At(p, "dead"))
=============================================================================
