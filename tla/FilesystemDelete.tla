--------------------------- MODULE FilesystemDelete ---------------------------
(***************************************************************************)
(* The life of one filesystem.delete operation (filesystem.ts): unlike the *)
(* witness adapters, whose effect is one step, it removes and restores its *)
(* paths one by one and puts its progress after each, so that a crash, an  *)
(* error or another call may find the workspace in between.                *)
(*                                                                         *)
(* Calls run concurrently and each works from the ledger record it read    *)
(* (snap), which its later puts write back.  The contents of a path are    *)
(* abstracted to what its records tell apart: "original" is what prepare   *)
(* collected, "torn" a part of it (a removal or a restore of a directory   *)
(* that was cut), "foreign" anything else.  That the paths are disjoint,   *)
(* inside the workspace and outside the protected roots is prepare's check *)
(* of its input, and here the meaning of Paths.                            *)
(*                                                                         *)
(* The approval and its expiry are Approval's subject: here the capability *)
(* is granted once, after the proof.                                       *)
(***************************************************************************)
EXTENDS Naturals, Sequences, Functions, FiniteSets

CONSTANTS
  Calls,         \* tool calls that may be in flight at once
  Sorted,        \* operation.paths, in their sorted order
  LongestFirst,  \* the same paths, in the order commit removes them
  MaxDrifts,     \* bound on writes by somebody else
  MaxInterrupts  \* bound on calls cut by a crash or an error

ASSUME SortedAssumption == Sorted \in Seq(STRING) /\ Sorted # <<>> /\ IsInjective(Sorted)
ASSUME LongestFirstAssumption ==
  /\ LongestFirst \in Seq(Range(Sorted))
  /\ IsInjective(LongestFirst)
  /\ Len(LongestFirst) = Len(Sorted)
ASSUME BoundAssumption == MaxDrifts \in Nat /\ MaxInterrupts \in Nat

VARIABLES
  ledger,      \* the operation's record in operations.json
  granted,     \* the human-approved capability has been issued
  live,        \* contents of each path in the workspace
  payload,     \* contents of each path in the artifact
  pc,          \* where each call is
  index,       \* and at which path of its loop
  snap,        \* the ledger record each call works from
  removals,    \* history: how often commits have removed each path
  safe,        \* history: paths somebody wrote that no call had checked before
  spoiled,     \* history: somebody wrote to the artifact
  overlapped,  \* history: two calls have been in flight at once
  drifts,      \* history: writes by somebody else
  interrupts   \* history: calls cut before they ended

vars == <<ledger, granted, live, payload, pc, index, snap, removals, safe, spoiled,
          overlapped, drifts, interrupts>>

Paths == Range(Sorted)
Count == Len(Sorted)

history == <<safe, spoiled, overlapped, drifts, interrupts>>
resources == <<live, payload, removals>>

Contents == {"original", "absent", "torn", "foreign"}
Statuses == {"none", "proven", "committing", "committed", "recovered"}
Records == [status : Statuses, committedPaths : SUBSET Paths, failed : BOOLEAN]
NoRecord == [status |-> "none", committedPaths |-> {}, failed |-> FALSE]

PrepareSteps == {"copying", "drilling"}
CommitSteps == {"verified", "witnessed", "attested", "deleting", "removed", "failing",
                "concluding"}
RecoverSteps == {"surveying", "restoring", "checking", "settling"}
Steps == {"idle"} \cup PrepareSteps \cup CommitSteps \cup RecoverSteps

TypeOK ==
  /\ ledger \in Records
  /\ granted \in BOOLEAN
  /\ live \in [Paths -> Contents]
  /\ payload \in [Paths -> Contents]
  /\ pc \in [Calls -> Steps]
  /\ index \in [Calls -> 1..Count]
  /\ snap \in [Calls -> Records]
  /\ removals \in [Paths -> Nat]
  /\ safe \subseteq Paths
  /\ spoiled \in BOOLEAN
  /\ overlapped \in BOOLEAN
  /\ drifts \in 0..MaxDrifts
  /\ interrupts \in 0..MaxInterrupts

Init ==
  /\ ledger = NoRecord
  /\ granted = FALSE
  /\ live = [p \in Paths |-> "original"]
  /\ payload = [p \in Paths |-> "absent"]
  /\ pc = [c \in Calls |-> "idle"]
  /\ index = [c \in Calls |-> 1]
  /\ snap = [c \in Calls |-> NoRecord]
  /\ removals = [p \in Paths |-> 0]
  /\ safe = {}
  /\ spoiled = FALSE
  /\ overlapped = FALSE
  /\ drifts = 0
  /\ interrupts = 0

-----------------------------------------------------------------------------
(* Calls: beginning, going through a loop over the paths, and ending.      *)

At(c, step) == pc[c] = step
Goto(c, step) == pc' = [pc EXCEPT ![c] = step]
Finish(c) ==
  /\ Goto(c, "idle")
  /\ index' = [index EXCEPT ![c] = 1]
  /\ snap' = [snap EXCEPT ![c] = NoRecord]

\* A tool call whose first read found the record.
Call(c, step) ==
  /\ At(c, "idle")
  /\ Goto(c, step)
  /\ snap' = [snap EXCEPT ![c] = ledger]
  /\ overlapped' = (overlapped \/ \E d \in Calls : pc[d] # "idle")
  /\ UNCHANGED <<ledger, granted, resources, index, safe, spoiled, drifts, interrupts>>

\* Mutant of NextPath: the loop runs one too far.
NextPath_OnePast(c, loop, after) ==
  IF index[c] <= Count
    THEN Goto(c, loop) /\ index' = [index EXCEPT ![c] = @ + 1]
    ELSE Goto(c, after) /\ index' = [index EXCEPT ![c] = 1]

\* On to the next path of the loop, or to what follows the loop.
NextPath(c, loop, after) ==
  IF index[c] < Count
    THEN Goto(c, loop) /\ index' = [index EXCEPT ![c] = @ + 1]
    ELSE Goto(c, after) /\ index' = [index EXCEPT ![c] = 1]

Intact(contents) == \A p \in Paths : contents[p] = "original"

-----------------------------------------------------------------------------
(* prepare: collect the records, copy path after path, drill the copy.     *)

\* collectRecords: what is there now is the original.
Collect(c) ==
  /\ ledger = NoRecord
  /\ Intact(live)
  /\ \A d \in Calls : At(d, "idle")
  /\ Call(c, "copying")

Copy(c) ==
  LET p == Sorted[index[c]]
  IN  /\ At(c, "copying")
      /\ IF live[p] = "absent"
         THEN Finish(c) /\ UNCHANGED payload
         ELSE /\ payload' = [payload EXCEPT ![p] = live[p]]
              /\ NextPath(c, "copying", "drilling")
              /\ UNCHANGED snap
      /\ UNCHANGED <<ledger, granted, live, removals, history>>

\* Mutant of Drill: the restored records are not compared.
Drill_Unchecked(c) ==
  /\ At(c, "drilling")
  /\ ledger' = [ledger EXCEPT !.status = "proven"]
  /\ Finish(c)
  /\ UNCHANGED <<granted, resources, history>>

\* The copy is restored elsewhere and must give the collected records.
Drill(c) ==
  /\ At(c, "drilling")
  /\ ledger' = IF Intact(payload) THEN [ledger EXCEPT !.status = "proven"] ELSE ledger
  /\ Finish(c)
  /\ UNCHANGED <<granted, resources, history>>

Approve ==
  /\ ledger.status = "proven"
  /\ ~granted
  /\ granted' = TRUE
  /\ UNCHANGED <<ledger, resources, pc, index, snap, history>>

-----------------------------------------------------------------------------
(* commit: both witnesses, the ledger, then path after path.               *)

CommitCall(c) ==
  /\ granted
  /\ ledger.status = "proven"
  /\ Call(c, "verified")

Proceed(c, from, ok, to) ==
  /\ At(c, from)
  /\ IF ok THEN Goto(c, to) /\ UNCHANGED <<index, snap>> ELSE Finish(c)
  /\ UNCHANGED <<ledger, granted, resources, history>>

WitnessLive(c) == Proceed(c, "verified", Intact(live), "witnessed")
WitnessArtifact(c) == Proceed(c, "witnessed", Intact(payload), "attested")

\* Mutant of BeginCommit: the status is not compared under the lock.
BeginCommit_Uncompared(c) ==
  /\ At(c, "attested")
  /\ ledger' = [ledger EXCEPT !.status = "committing", !.failed = FALSE]
  /\ snap' = [snap EXCEPT ![c] = ledger']
  /\ Goto(c, "deleting")
  /\ UNCHANGED <<granted, resources, index, history>>

BeginCommit(c) ==
  /\ At(c, "attested")
  /\ IF ledger.status = "proven"
     THEN /\ ledger' = [ledger EXCEPT !.status = "committing", !.failed = FALSE]
          /\ snap' = [snap EXCEPT ![c] = ledger']
          /\ Goto(c, "deleting")
          /\ UNCHANGED index
     ELSE Finish(c) /\ UNCHANGED ledger
  /\ UNCHANGED <<granted, resources, history>>

\* rm, which fails if nothing is there.
Remove(c) ==
  LET p == LongestFirst[index[c]]
  IN  /\ At(c, "deleting")
      /\ IF live[p] = "absent"
         THEN Goto(c, "failing") /\ UNCHANGED <<live, removals>>
         ELSE /\ live' = [live EXCEPT ![p] = "absent"]
              /\ removals' = [removals EXCEPT ![p] = @ + 1]
              /\ Goto(c, "removed")
      /\ UNCHANGED <<ledger, granted, payload, index, snap, history>>

\* A file or a directory that cannot be removed, or not completely.
RemoveFails(c) ==
  LET p == LongestFirst[index[c]]
  IN  /\ At(c, "deleting")
      /\ interrupts < MaxInterrupts
      /\ interrupts' = interrupts + 1
      /\ live[p] # "absent"
      /\ \/ UNCHANGED <<live, removals>>
         \/ /\ live' = [live EXCEPT ![p] = "torn"]
            /\ removals' = [removals EXCEPT ![p] = @ + 1]
      /\ Goto(c, "failing")
      /\ UNCHANGED <<ledger, granted, payload, index, snap, safe, spoiled, overlapped, drifts>>

PutProgress(c) ==
  /\ At(c, "removed")
  /\ snap' = [snap EXCEPT ![c].committedPaths = @ \cup {LongestFirst[index[c]]}]
  /\ ledger' = snap'[c]
  /\ NextPath(c, "deleting", "concluding")
  /\ UNCHANGED <<granted, resources, history>>

\* The put throws, before or after publication, and is caught like a failing
\* removal: the record that is put with the failure names the path.
PutProgressFails(c) ==
  /\ At(c, "removed")
  /\ interrupts < MaxInterrupts
  /\ interrupts' = interrupts + 1
  /\ snap' = [snap EXCEPT ![c].committedPaths = @ \cup {LongestFirst[index[c]]}]
  /\ ledger' \in {ledger, snap'[c]}
  /\ Goto(c, "failing")
  /\ UNCHANGED <<granted, resources, index, safe, spoiled, overlapped, drifts>>

\* Mutant of PutFailure: a failed commit may be tried again.
PutFailure_Reopens(c) ==
  /\ At(c, "failing")
  /\ ledger' = [snap[c] EXCEPT !.status = "proven", !.failed = TRUE]
  /\ Finish(c)
  /\ UNCHANGED <<granted, resources, history>>

\* The failure is put, and the status stays "committing".
PutFailure(c) ==
  /\ At(c, "failing")
  /\ ledger' = [snap[c] EXCEPT !.failed = TRUE]
  /\ Finish(c)
  /\ UNCHANGED <<granted, resources, history>>

PutCommitted(c) ==
  /\ At(c, "concluding")
  /\ ledger' = [snap[c] EXCEPT !.status = "committed"]
  /\ Finish(c)
  /\ UNCHANGED <<granted, resources, history>>

-----------------------------------------------------------------------------
(* recover: a path that is there must be the original, one that is not is  *)
(* restored from the artifact, which is not verified before.               *)

\* Mutant of RecoverCall: only a finished commit can be recovered.
RecoverCall_CommittedOnly(c) ==
  /\ ledger.status = "committed"
  /\ Call(c, "surveying")

RecoverCall(c) ==
  /\ ledger.status \in {"committing", "committed"}
  /\ Call(c, "surveying")

\* Mutant of Survey: what is there is restored over.
Survey_Overwrites(c) ==
  LET p == Sorted[index[c]]
  IN  /\ At(c, "surveying")
      /\ \/ /\ live[p] = "original"
            /\ NextPath(c, "surveying", "checking")
            /\ UNCHANGED snap
         \/ /\ live[p] # "original"
            /\ Goto(c, "restoring")
            /\ UNCHANGED <<index, snap>>
      /\ UNCHANGED <<ledger, granted, resources, history>>

Survey(c) ==
  LET p == Sorted[index[c]]
  IN  /\ At(c, "surveying")
      /\ \/ /\ live[p] = "original"
            /\ NextPath(c, "surveying", "checking")
            /\ UNCHANGED snap
         \/ /\ live[p] = "absent"
            /\ Goto(c, "restoring")
            /\ UNCHANGED <<index, snap>>
         \/ /\ live[p] \in {"torn", "foreign"}
            /\ Finish(c)
      /\ UNCHANGED <<ledger, granted, resources, history>>

\* restoreRecords writes over what has come there in the meantime: a file is
\* replaced, a directory is merged with what it holds.
Restore(c) ==
  LET p == Sorted[index[c]]
  IN  /\ At(c, "restoring")
      /\ \/ live' = [live EXCEPT ![p] = payload[p]]
         \/ live[p] = "foreign" /\ UNCHANGED live
      /\ NextPath(c, "surveying", "checking")
      /\ UNCHANGED <<ledger, granted, payload, removals, snap, history>>

Check(c) == Proceed(c, "checking", Intact(live), "settling")

\* The record read when the recovery began, as "recovered".
PutRecovered(c) ==
  /\ At(c, "settling")
  /\ ledger' = [snap[c] EXCEPT !.status = "recovered"]
  /\ Finish(c)
  /\ UNCHANGED <<granted, resources, history>>

-----------------------------------------------------------------------------
(* The world around the calls.                                             *)

\* A crash or an error cuts a call anywhere; one that cuts a removal or a
\* restore may leave a part of the path.
Interrupt(c) ==
  LET p == IF At(c, "deleting") THEN LongestFirst[index[c]] ELSE Sorted[index[c]]
  IN  /\ ~At(c, "idle")
      /\ interrupts < MaxInterrupts
      /\ interrupts' = interrupts + 1
      /\ \/ UNCHANGED <<live, removals>>
         \/ /\ pc[c] \in {"deleting", "restoring"}
            /\ live[p] = (IF At(c, "deleting") THEN "original" ELSE "absent")
            /\ live' = [live EXCEPT ![p] = "torn"]
            /\ removals' = IF At(c, "deleting") THEN [removals EXCEPT ![p] = @ + 1]
                                                ELSE removals
      /\ Finish(c)
      /\ UNCHANGED <<ledger, granted, payload, safe, spoiled, overlapped, drifts>>

\* A call has checked path p and has yet to write it: what somebody else
\* writes now, it does not see.
Armed(c, p) ==
  \/ pc[c] \in {"witnessed", "attested"}
  \/ /\ pc[c] \in {"deleting", "removed"}
     /\ \E i \in index[c]..Count : LongestFirst[i] = p
  \/ At(c, "restoring") /\ Sorted[index[c]] = p

\* Another writer of the workspace.
Drift(p) ==
  /\ drifts < MaxDrifts
  /\ drifts' = drifts + 1
  /\ live' = [live EXCEPT ![p] = "foreign"]
  /\ safe' = IF \E c \in Calls : Armed(c, p) THEN safe ELSE safe \cup {p}
  /\ UNCHANGED <<ledger, granted, payload, pc, index, snap, removals, spoiled, overlapped,
                 interrupts>>

\* Another writer of the artifact directory.
SpoilArtifact(p) ==
  /\ drifts < MaxDrifts
  /\ drifts' = drifts + 1
  /\ payload[p] = "original"
  /\ payload' = [payload EXCEPT ![p] = "foreign"]
  /\ spoiled' = TRUE
  /\ UNCHANGED <<ledger, granted, live, pc, index, snap, removals, safe, overlapped,
                 interrupts>>

-----------------------------------------------------------------------------
PrepareStep(c) == Copy(c) \/ Drill(c)

CommitStep(c) ==
  \/ WitnessLive(c) \/ WitnessArtifact(c) \/ BeginCommit(c)
  \/ Remove(c) \/ PutProgress(c) \/ PutFailure(c) \/ PutCommitted(c)

RecoverStep(c) == Survey(c) \/ Restore(c) \/ Check(c) \/ PutRecovered(c)

CallNext(c) ==
  \/ Collect(c) \/ PrepareStep(c)
  \/ CommitCall(c) \/ CommitStep(c) \/ RemoveFails(c) \/ PutProgressFails(c)
  \/ RecoverCall(c) \/ RecoverStep(c)
  \/ Interrupt(c)

Next ==
  \/ Approve
  \/ \E c \in Calls : CallNext(c)
  \/ \E p \in Paths : Drift(p) \/ SpoilArtifact(p)

Spec == Init /\ [][Next]_vars

\* The event loop runs every call it has accepted, and whoever needs the paths
\* back keeps asking for them.
Fairness ==
  \A c \in Calls :
    /\ WF_vars(PrepareStep(c) \/ CommitStep(c) \/ RecoverStep(c))
    /\ SF_vars(RecoverCall(c))

FairSpec == Spec /\ Fairness

-----------------------------------------------------------------------------
(* Properties.                                                             *)

\* A proof is only issued over a copy that has been restored: whatever is
\* written while prepare collects and copies, what is in the ledger can be
\* restored from the artifact, until somebody writes to the artifact.
ProvenMeansRestorable == ledger.status # "none" /\ ~spoiled => Intact(payload)

\* However many commits, recoveries and cut calls there are, no path is removed
\* twice.
RemovedOnce == \A p \in Paths : removals[p] <= 1

\* What somebody else writes where no call has already looked is never removed
\* nor overwritten.
ForeignContentsKept == \A p \in safe : live[p] = "foreign"

\* An interrupted delete is resolved by asking for its recovery, unless a path
\* was torn or somebody else has written: nothing else makes recover refuse for
\* good.
Refused ==
  \/ \E p \in Paths : live[p] \in {"torn", "foreign"}
  \/ spoiled
InterruptedDeleteResolves ==
  (ledger.status = "committing") ~> (ledger.status \in {"committed", "recovered"} \/ Refused)

Undisturbed == ~overlapped /\ drifts = 0

\* As long as calls do not overlap and nobody else writes, the path-by-path
\* delete is a granted, journalled, at-most-once and truthfully receipted
\* effect, wherever it is cut.
Abstract == INSTANCE ReversibleEffect
  WITH receipt <- ledger.status, applied <- ~Intact(live),
       spent <- (\E p \in Paths : removals[p] > 0)
abstractVars == <<ledger.status, granted, Intact(live), \E p \in Paths : removals[p] > 0>>
ImplementsReversibleEffect ==
  Abstract!Init /\ [][Undisturbed' => Abstract!Next]_abstractVars
=============================================================================
