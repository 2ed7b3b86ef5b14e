# Formal verification of Recovery Authority

TLA+ models, TLC runs and TLAPS proofs for the part of Recovery Authority that
decides whether a destructive effect runs, runs once, is journalled and can be
undone, who may let it run, and what an agent is told about it. Paths are
relative to the repository root; those in `PROJECT.json` have `src/` before them.

## The system

An agent asks an MCP server (`src/server.ts`) for a destructive effect in four
calls: *prepare* drills the effect and its recovery on a copy and puts a
`proven` operation into a ledger; a human *approves* it from a terminal, which
signs a capability; *commit* runs it under that capability; *restore* undoes
it. A *manifest* binds several operations into one saga under one approval. A
*hook* sees every tool an agent is about to use, denies the destructive ones,
and keeps a *consequence graph* from which agents read what is still missing
before they may commit. Servers, terminals, hooks and the sandbox's daemon are
separate processes over one data directory.

| Component | State it keeps | Operations | What makes it correct | Status |
| --- | --- | --- | --- | --- |
| Operation ledger (`store.ts`) and adapters (`sqlite.ts`, `git.ts`, `postgres.ts`) | `operations.json`; the live resource, an artifact of its original contents | `put`, `beginCommit`; `prepare`, `commit`, `recover` | effect at most once, approved and journalled; recovery never overwrites foreign contents; truthful receipts | modelled |
| `filesystem.delete` (`filesystem.ts`) | several paths and their artifact | the same three | a partial deletion can be resumed, no path goes twice | modelled |
| Ledger lock (`atomic-file.ts`) | lock directory and owner file | `withFileLock`, `atomicWriteFile` | mutual exclusion, release after a crash | modelled |
| Individual and manifest approval (`authorization.ts`, `approval.ts`, `manifest-authorization.ts`, `manifest-approval.ts`) | `approvals/<id>.json`, `manifest-approvals/<id>.json` | `request`, `get`, `approve`, `approveByManifest` | nothing runs unconfirmed; all children or none; one authority path | modelled |
| Manifest coordinator and ledger (`manifest-coordinator.ts`, `manifest-store.ts`, `manifest.ts`) | `manifests.json` | `prepare`, `get`, `commit`, `compensate`, `recover` | order, no lost child, exact outstanding work, conclusive status | modelled |
| Signing key (`signer.ts`) | four key files | `loadOrCreate` | one key, the one that servers verify with; no established key is lost | modelled |
| Capability verifier (`crypto.ts`, `signer.ts`) | none | `verify` | one operation, one signature, in time | partly |
| Consequence graph (`consequence-graph.ts`) | `consequence-graph.json`, a projection | `project`, `orient`, `slice` | guidance says what the tools check; slices are bounded and have no loose ends | modelled |
| Pre-tool hook (`pre-tool-hook.ts`) | `hook-events.jsonl` | one process per event | what is denied never runs; every event is answered | modelled |
| Authority daemon, proxy (`authority-daemon.ts`, `mcp-proxy.ts`) | sockets, child servers | `bridge`, `auditBridge` | a receipt is acknowledged once it is recorded and projected | partly |
| MCP server (`server.ts`) | none of its own | the tools | the order of checks and calls in each tool | partly |
| Sandbox runner (`sandbox.ts`) | none | building a command line | | partly |
| Command policies, path policy and runtime identity, command-line entry points and demos, Rust readers and terminal interface | none | pattern tests, probes, views | not state machines | not modelled |

Components interact by calls within a server (tool, registry, service, store),
and through shared files, and one socket, between processes. Behaviour that is
hard:

* every `await` of a tool call is a point where other calls, of the same or of
  other servers, may run; a call keeps the record it read and later puts a copy
  of it back;
* authorization records and key files are written under no lock at all;
* a process may die between journal, effect and receipt, inside an effect that
  has several steps, and between the two terminals' many writes;
* somebody else may write the resource or the artifact at any moment, and a
  proof's time to live may pass at any moment;
* a manifest's child may fail before, during or after its effect, and may
  refuse to be recovered;
* a hook gives up after two seconds on a daemon that may still do the work.

`PROJECT.json` lists these hazards line by line with the properties that cover
them, and says of those that no property covers why.

## Modules

| Module | Models | Uses |
| --- | --- | --- |
| `ReversibleEffect` | abstract: what one operation promises | |
| `RecoveryOperation` | one operation of a witness adapter, for any set of concurrent calls | `ReversibleEffect` (refined) |
| `FilesystemDelete` | one `filesystem.delete`, path by path | `ReversibleEffect` (refined) |
| `Saga` | abstract: what a manifest promises | |
| `RecoveryManifest` | the coordinator over N children, for any set of concurrent calls | `Saga` (refined) |
| `AtomicLedger` | abstract: what a locked update of a ledger promises | |
| `FileLock` | `withFileLock` and the read-modify-write under it, for any set of processes | `AtomicLedger` (refined) |
| `Approval` | both registries, both brokers and the checks of both commit paths | |
| `SigningKey` | `loadOrCreate`, for any set of processes | |
| `ConsequenceGraph` | projection, guidance and slices, as operators | |
| `AuditRelay` | hooks and daemon, and the graph they publish | `ConsequenceGraph` (extended) |
| `MC...` | the instances TLC checks | |
| `..._proofs` | theorems | the module they are named after; `AuditRelay_proofs` also `ConsequenceGraph_proofs` |

The modules meet where one takes as a single step what another takes apart.
`RecoveryOperation`, `RecoveryManifest` and `FilesystemDelete` take a locked
update of a ledger as one step, which `FileLock` justifies
(`ImplementsAtomicLedger`, with its assumptions). `RecoveryManifest` takes a
child's commit or recovery as one step with the outcomes that
`RecoveryOperation` and `FilesystemDelete` show it can have. All three take the
human's approval as one step, which `Approval` takes apart, and `Approval`
takes a capability for valid, which is `SigningKey`'s subject.

### RecoveryOperation

`ledger` is the operation's record (status, drilled and measured post-state),
`auth` the authorization record, `token` whether a capability was issued,
`live` the protected resource, `artifact` whether the saved original is intact.
`pc[c]` and `snap[c]` are the position of tool call `c` and the ledger record
it read. A commit call goes

    CommitCall  ReadForCommit  WitnessForCommit  BeginCommit  Mutate  MeasurePost  PutCommitted

and a restore call

    RecoverCall  WitnessForRecover  [Restore  VerifyRestore]  PutRecovered

with a step per `await` that touches shared state, and every guard that fails
ending the call. `Interrupt` cuts any call anywhere (crash, failed command,
failed put); one that cuts the effect or the restore may leave `Torn` contents.
`Drift` and `SpoilArtifact` are other writers. Contents are elements of
`States`; a witness (SHA-256 of the whole state) is the contents themselves, so
hash collisions are out of the model. The three adapters differ in parameters:
SQLite and PostgreSQL change the resource in one transaction or rename
(`Torn = {}`) and verify the artifact before using it; git resets, clears and
copies in several steps (`Torn # {}`), has an effect that need not be the same
every time, and verifies the index but not the saved worktree
(`VerifiesArtifact = FALSE`).

The steps before a call touches shared state (parsing, matching the SQL digest
or the connection fingerprint) can only refuse and are left out.

### FilesystemDelete

The one adapter whose effect is a loop. `live[p]` and `payload[p]` are path
`p`'s contents in the workspace and in the artifact: `original`, `absent`,
`torn` (a part of a directory) or `foreign`. *prepare* collects, copies and
drills (`Collect`, `Copy`, `Drill`); *commit* compares workspace and artifact,
begins, and then removes one path after another, longest first, putting its
progress after each (`Remove`, `PutProgress`, `PutCommitted`), or, when a removal
or that put throws, puts the failure and stays `committing` (`RemoveFails`,
`PutProgressFails`, `PutFailure`); *recover* surveys
each path in sorted order, restores what is absent, refuses what it does not
know, checks and puts (`Survey`, `Restore`, `Check`, `PutRecovered`). `index[c]`
is the call's place in its loop. History variables count removals (`removals`),
remember the foreign writes no call had already looked for (`safe`), and
whether calls have overlapped.

### RecoveryManifest

`manifest` is the record in `manifests.json`, `status[o]` and `live[o]` child
`o`'s ledger status and resource. `pc[k]`, `progress[k]`, `index[k]` and
`final[k]` are the locals of coordinator call `k`: its position, the manifest
record in its hands, its loop variable and the status its compensation will end
with. Every `manifests.put` is a step of its own that writes the record in
hand, so that concurrent calls overwrite each other as they do in the code. A
child's commit or recovery is one step; when it throws (`FailChild`,
`RecoverChildFails`) the child's status and resource are as before it, as after
it, or as any cut in between leaves them, its receipt published or not. The
reading of all children's entries in `compensate` (`Survey`) is one step too. A
child's resource is `original`, `changed` or `foreign`, which here is also what a
torn step leaves. History variables remember whose recovery has thrown in a
compensation (`refused`), and which of these had published its receipt
(`unheard`).

### FileLock

`lock` is the directory `operations.json.lock` (there or not, the process named
in its `owner.json` if that file is whole, older than 30 s or not), `doc` the
published document as the set of callers whose update is in it, `copy[p]` the
document process `p` has read, `late` the processes whose 10 s are over. Each
process makes one call of `put`, or of `beginCommit` for one common record
(`Beginners`):

    Start  MakeDirectory  NameOwner  Read  Publish  Release

with `DirectoryExists`, `InspectOwner` or `InspectMissingOwner` and
`StatDirectory`, and `RemoveStale` for the wait. Every file-system call that
others can observe is a step; `Publish` may also be followed by an error (the
fsync of the parent directory) and `ActionThrows` stands for one before the
rename, and for a status that is no longer `proven`. `Crash` may happen
anywhere, `NameOwnerFails` leaves a lock without an owner. `LockAges` and
`DeadlinePasses` are time; that a lock without a readable owner ages 30 s under
the eyes of a process that will judge it by age, which is a process stalling
between two steps, counts as a fault like a death. Calls inside one store
instance are serialised by `writeQueue`; a removal (`rm` of directory and file)
is one step; a process number is not used again. `manifest-store.ts` uses the
same lock in the same way.

### Approval

`record[o]` and `mrecord[m]` are the authorization files; they are replaced as a
whole, under no lock, by whoever read them some steps before. A terminal `t`
works on `task[t]`: one operation (`phase` "single"), or a manifest, over whose
children it loops twice, first to see whether all can be approved ("survey"),
then to derive their approvals ("derive"). `control[t]` is its place and
`held[t]` the record in its hand; each read and each write of a file is a step,
`Close` kills a terminal anywhere, and another terminal may take up the same
task. The server prepares operations and manifests child by child, expires
records it reads, shows a capability, and runs what passes its checks:
`AdmitIndividual`, `AdmitAuthorized` and `RunIndividual` for one operation;
`VetManifest` for each child, `BeginManifest` and `RunChild` for a manifest.
`ran` records each run with its path, `raced` that somebody overwrote a record
he had not read. A capability is a deterministic signature over what the
operation binds, so a record carries one just when it is approved.

### SigningKey

`files` are the private key, its public half, the copy of the public half that
servers verify with, and the private key of an old installation; a key is named
by whoever generated it. With `writeFile` and flag `wx` a file is first there
and empty, then full: `Open` and `Fill` are steps that run beside the call that
started them, which matters because the two halves are written at once. Of an
old installation (`left`) any of the four files may be there. The
rest of `loadOrCreate` is a step per read or write in the code's order: finding
the identity, the old key's move (`Survey`, `MovePrivate`, `MovePublic`,
`DropLegacy`), loading or generating, comparing, publishing. `Crash` cuts a
call, errors included, anywhere.

### ConsequenceGraph and AuditRelay

`ConsequenceGraph` has the pure part: `Project` builds nodes and edges from the
ledgers and the hooks' log, `SafeCut` and `Readiness` are what orientation
returns, `Slice` is the breadth-first search with its bound, a recursive
function over the loop's turns. Digests, scores that only count findings and posture texts
are left out.

`AuditRelay` has the processes. The host starts one hook per event of an agent
(`Fire`); it decides, records the decision itself or sends it to the daemon
(`Record`, `Send`), waits for at most two seconds (`Closed`, `TimesOut`),
projects the graph (`Read`, `Publish`) and answers (`Answer`), upon which a tool
use that is not denied has run. The daemon serves each connection in steps of
its own (`RelayAppend`, `RelayRead`, `RelayPublish`, `RelayAnswer`). A write may
fail and leave half a line in the log (`Fault`), which makes every projection
throw from then on. No listener hears an error of a connection, so whether such
an error ends the daemon is left open (`Drop`). The published graph is known by
the number of log entries it was made from; the ledgers stay as they are, since
nothing a hook does writes them. What is found in a command is an input.

## Runs

TLC finishes every run in at most a few minutes. Deadlock is not checked: an
operation that is recovered, a manifest that has ended, agents that have
stopped, or a set of calls that have returned have nothing left to do.

| Run | Question | Bounds |
| --- | --- | --- |
| `RecoveryOperation_concurrent` | is the approval one-shot, the journal ahead of the effect, foreign contents kept? | 2 calls, git's parameters, 1 foreign write, 1 interruption |
| `RecoveryOperation_sequential` | are receipts truthful, can every change be recovered, and is it in the end; does the protocol refine `ReversibleEffect`? | 1 call at a time, steps that tear and an effect with one outcome, 2 interruptions, fairness |
| `FilesystemDelete_cut` | can what is proven be restored, does any path go twice, are foreign contents kept; is an interrupted delete resolved; does it refine `ReversibleEffect`? | 3 paths removed in another order than they are restored in, 2 calls, 1 foreign write, 2 interruptions or failures, fairness |
| `RecoveryManifest_single` | does one coordinator keep its books and the reverse order, whatever fails; does it refine `Saga`? | 3 children (one of them accepts a second recovery), 2 faults, 1 foreign write |
| `RecoveryManifest_concurrent` | one commit loop; does every call conclude? | 2 children, 2 calls, 1 fault, 1 child restored alone, fairness |
| `FileLock_shared` | does the lock exclude, and is the locked update atomic, until the first fault; does every call end and a lock that a call left get freed, whatever fails? | 3 processes (2 begin the same operation), 2 faults, fairness |
| `Approval_authority` | does only what was confirmed run, all children or none, by one path? | 2 terminals, 2 operations, 2 manifests that bind both in opposite orders |
| `SigningKey_first_starts` | do all signers agree, with the ledger's identity; do servers verify what they sign; does an old key survive its move? | 3 processes, one directory or two, any files of an earlier installation left |
| `AuditRelay_session` | does what is denied stay undone, does every hook answer, does the graph show the session; is its guidance what the tools check? | 2 agents, 1 failing write, no event begins while 2 connections are open; 3 operations, 2 manifests, some 1280 states of the ledgers |

Two calls are enough for a race between a commit and a commit, a commit and a
restore, and two restores; a third adds only calls that are refused by the same
compare-and-set. Two interruptions allow the recovery of an interrupted call to
be interrupted itself, and a child to be refused in one compensation and
recovered in the next; in `RecoveryOperation_sequential` they tear, and a
restore that is cut leaves no receipt (SQLite and PostgreSQL, whose steps do not
tear, are the behaviours in which none does). Three children, or paths, give a first, a middle and a
last one, so that skipped elements, off-by-one ends and orders can go wrong; one
foreign write makes one of them refuse. Three processes at a lock are a dead
owner and two waiters, or a holder and two waiters, the smallest number that
can disagree about who removed what. Two manifests over the same operations in
opposite orders, at two terminals, are the smallest case in which each derives
first what the other needs. Three first starts allow one to write each half of
a pair and a third to read them. Two agents allow one's receipt to be projected
while the other's is being written. The ledgers of `AuditRelay_session` are
those that prepare, approval and commit leave behind (`Reachable`), with one
operation shared by both manifests and one not.

Fairness: `WF` of a call's next step, because the event loop runs what it has
accepted; `SF` of a restore request in `RecoveryOperation_sequential` and
`FilesystemDelete_cut`, because whoever needs the resource back asks again,
while other calls may be accepted and refused in between; `WF` of a waiter's
deadline, because time passes; `WF` of a hook process, its timer included, and
nothing of the daemon. Nothing is assumed about approvals, commits, the ageing
of a lock, failures or other writers.

### What the violated runs show

Each checks one sentence of the documentation or of a test, and TLC finds a
behaviour of the code that breaks it (details and quotes under `findings`):

* `RecoveryOperation_race`: a restore that runs beside a live commit can put
  `recovered` over `committed`, with the resource changed.
* `RecoveryManifest_crash_resume`: a crash while compensating leaves
  `recovering`, which no later call accepts. (Without a crash or a failing put this
  cannot happen: `UncutWorkIsResumable`.)
* `FileLock_stale_race`: a process dies holding the lock; two waiters judge it
  stale, and the second removal deletes the lock the first waiter has taken in
  the meantime. Both then begin the same operation, so that
  `EffectAtMostOnce`, which rests on `beginCommit` being atomic, is lost too.

### What the properties leave out, and why

Several properties say under which condition they hold, since without it the
code does something else:

* `SpentChildIsVisible` is about one coordinator call at a time. Beside a live
  commit, a restore ends as `compensated` while the commit runs the next child
  (`manifest-coordinator.ts:188`), and reading an outdated manifest puts
  `expired` over a commit that began in between (`manifest.ts:132`).
* A resumed restore of a committed saga ends as `compensated`, not `recovered`
  (`manifest-coordinator.ts:192`), which `Saga` does not tell apart; a child
  restored by its own tool stays outstanding (line 112), hence `MaxAlone = 0`
  where `OutstandingIsExact` is checked.
* A child whose `recovered` receipt is published by a put that throws
  (`atomic-file.ts:74` comes after the rename, the lock's removal after that) is
  undone, but `compensate` catches the error (line 128) and leaves it
  outstanding; its adapter refuses every later recovery, so it stays there, and
  the manifest `partially-recovered`, for ever. "Exact outstanding child IDs" is
  not met there. `OutstandingIsExact` and `Saga` count such a child (`unheard`)
  as still outstanding, which is what its caller was told: apart from it, the
  list is exact. It is the error that `FileLock` has in `Publish`.
* `ReverseOrder` lets a child be undone after one bound before it if its own
  recovery had thrown when its turn came (`refused`): the loop goes on without it.
* A step of git that is cut leaves contents (`Torn`) that no restore accepts:
  `ChangeIsRecoverable` and `InterruptedCommitResolves` name them.
* `AllOrNothing` and `OnePath` hold until a record is overwritten by somebody
  who had not read it (`raced`): with two overlapping approvals the last writer
  wins. `ConsentBeforeEffect` holds regardless.
* `SignaturesVerify` holds unless halves of two pairs were mixed. Two calls that
  each generated a pair may do so: each file keeps the half that came first. So
  does one call over an installation that has half a pair left (`HalfLeft`): it
  generates, wins the lost file, meets `EEXIST` on the other (`signer.ts:70`) and
  goes on with what is on disk. With one directory or two, a lost private key is
  replaced so, passes the comparison of public halves (`signer.ts:77`), and signs
  what no server verifies; a lost public half is given a new one, which passes
  where the identity was lost with it, as it is with one directory.
  `SignersAgree` is about keys that were loaded whole: a call that read an empty
  public key may publish an empty identity, which the next start takes for none.
* A path that was cut in the middle (`torn`) is to `recover` what somebody else
  wrote: it refuses, then and for ever. `InterruptedDeleteResolves` names this.
* `GraphShowsSession` excludes a graph overwritten by an older one (the rename
  compares nothing) and receipts that were given up and written later, after
  which a stopped agent looks active.
* `LedgerAssumption`, on which guidance and slices rest, has what an approved
  manifest binds still proven; after two overlapping approvals (`raced`) a child
  may have run on its own, and nothing is said of such ledgers.
* `GuidanceMatchesTools` is about requests whose form fits the path: a child that
  a manifest has approved, asked about by its operation alone, is told to
  commit, which its own commit tool then refuses. A denied patch leaves no node,
  as it has no command.
* In the sandbox a hook projects its own, empty data directory, so the counts it
  tells a starting agent are zero. `recovery_orient` and the graph tools publish
  a graph as well: one more publisher like a hook, which is not modelled.
* A proof's time may pass between a commit's verification and `beginCommit`,
  which does not look at it; no property states a deadline.

## Proofs

The assumptions are those the modules name (`OrigAssumption`,
`ChildrenAssumption`, `SessionAssumption`, ...); TLC evaluates them in the runs. A
theorem that is about one call at a time, or about an adapter of one kind, says so
in its own hypotheses, which are those of the run that checks the property.
`PROJECT.json` lists every theorem.

**`RecoveryOperation_proofs`**, for every number of calls, every set of contents
and any effect, interruptions and foreign writes: `TypeCorrect`, `AtMostOnce`,
`JournalFirst`. `EffectAtMostOnce` is not inductive: one must know that a call
about to run the effect excludes another one (`OneShot`), that no stale put
leads back to `proven` because every put has a status past it and only
`beginCommit` leaves it (`StartedIsStarted`), and that every call past the first
step had the capability (`StartedIsApproved`). `SequentialImplements` and
`SequentialRecoveredMeansRestored`: with one call identity, no foreign writes,
and an effect that always changes the contents, every step is a step of
`ReversibleEffect` or a stutter. The invariant says what the call knows at each
position (the record it holds is the ledger's, the contents are those it saw).
`SequentialChangeIsRecoverable`, with one call identity, no foreign writes and an
effect with one outcome, which is not the original: the invariant (`Witnessed`)
says that a changed resource, unless a cut step has torn it, holds what the drill
has witnessed while the operation is committing, and what the receipt has measured
afterwards; for an adapter that does not tear that is the whole property. `ForeignContentsStay` is for any number of calls and compares
two moments of a behaviour: that nobody is between a witness and a write, and no
record knows the contents (`Unclaimed`), is kept by every step, because what a record
in hand expects is the original's or the effect's (`Drilled`) or measured.

**`FilesystemDelete_proofs`**, for any paths in any two orders and any calls,
faults and writers: `ForeignContentsStay` from `KeepInv` (where a call has looked
and has yet to write there is no unchecked foreign content, for the rest of its
loop); `ProofMeansRestorable` and `EachPathRemovedOnce` from `StatusInv` (one
call prepares, one call is past `beginCommit`, and whoever has begun or recovers
puts no earlier status) and `RemovalInv` (the paths whose turn has not come have
not been removed). `DeleteImplementsReversibleEffect` is the refinement, for any
number of calls until two overlap or somebody else writes: the effect is applied
with the first removal and undone with the last restore. Its invariant `FlowInv`
says what the abstract state is at each position of a call: whoever may remove was
granted the effect, whoever recovers has the ledger's record in hand and whoever
removes its status (the paths in it may be behind after a put that failed), what
is removed and put is spent and not undone, and `recovered` is only put over
paths that are all in place.

**`RecoveryManifest_proofs`**, for every number of children, failures and drifts:
`TypeCorrect` and `OneCommitLoopHolds` for any number of calls;
`SingleSpentChildIsVisible` and `SingleOutstandingIsExact` for one call at a
time, the second without children restored alone. The invariants relate each
position of the call to the status the manifest has then: what is about to be
put never omits a child that may have run (`Visible`), nor lists one that has
not, and an unheard child is listed and never called recovered (`Exact`). With
both, again without children restored alone,
`SingleImplementsSaga` is the refinement of `Saga`: a put
is the abstract step, what comes between two puts a stutter. `SingleReverseOrder`
is for one call at a time, cut and retried any number of times, with any failures,
foreign writes and children restored alone: its invariant (`Ordered`) says that the
list of recovered children descends but for those that were refused (`Descends`), and
that what the loop has still to recover for the first time lies at its index or below
it, and below all that it has recovered. `UncutWorkIsResumable` is the other side of `RecoveryManifest_crash_resume`, for any number of calls at once: as long
as nothing fails, outstanding work is always in a status that `recover` accepts, and
when no call is under way the manifest is neither `committing` nor `recovering`, which
is the safety part of `SagaConcludes`. A manifest in one of these has a call at work on
it, and every call's last put is conclusive (`ResumeInv`).

**`FileLock_proofs`**, for every number of processes and faults: `TypeCorrect`;
and up to the first fault `Exclusive`, `OneBeginHolds` and `Implements` (the
refinement of `AtomicLedger`). The invariant has a part about the lock
(`LockInv`: whoever is inside has the directory in his name, no directory is
left behind, nobody has judged a lock stale, and no lock ages under the eyes of
a process that will judge it by age alone) and a part about the document
(`DocInv`: what is about to be published builds on all that is published, and
there is one beginner's update in it).

**`Approval_proofs`**, for any terminals, operations and manifests, of any length
and overlap: `NothingUnconfirmedRuns` from `ConsentInv` (whatever names a path,
in a record, in a broker's hand or in an admitted call, names something that was
confirmed at some terminal; what is confirmed stays so);
`ApprovalIsAllOrNothing` and `RunsByOnePath`, while nothing has been overwritten
unread, from `PathInv` (what a broker, the agent or a commit call has found
settled, settled by that path or out of time, stays so), which needs `HoldInv`
(whoever is about to approve has not read an approval, whoever is about to put
an expiry has read one whose time is over).

**`SigningKey_proofs`**, for any number of processes: `AllSignersAgree` and
`LegacyKeyIsKept`. The invariant `KeyInv` says that an opened file is empty and
has one writer (`OpenInv`), so that no key once written is changed; what a call
that moves the old key has in hand and has written (`MoveOK`), that a loaded
half is the one on disk (`PairOK`), and that the identity it found, or
published, is too (`IdentityOK`). `SignaturesAreVerified`, unless two calls have each
generated a pair or half of one was left, from `OriginInv`: every half on disk or in
hand is the earlier installation's or was generated (`Provenance`), what that
installation has left stays or is moved (`Remains`), and nobody generates a pair where
more of it is left than the copy of its identity (`GeneratedAnew`); so a call that
loads one half has the other to it.

**`AuditRelay_proofs`**, for any agents, commands and faults: `TypeCorrect` (what
hooks and connections have read is never more than the log) and
`WhatIsDeniedNeverRuns` from `DenialInv` (a decision is not lost between the hook's
start and its answer). `PublishedGraphIsComplete`, that a quiet session's graph
shows all of it and shows as stopped whoever has stopped, takes two invariants.
`ShownInv`: the last line of the log is in the published graph, or somebody is on his
way who will still put it there, since he has yet to read or has read it all.
`StopInv`: nothing of an agent follows its stop in the log, since an agent's hooks
run one after the other and a connection belongs to the hook that waits for it,
until a hook has given one up. It rests on `PastAssumption`: a session starts from a
log in which an agent that has reported its end is gone, and reported it last.

`ReadinessTellsOneStory` and `GuidanceIsExact` say of any ledgers and any log what
`ReadinessMatchesCut` and `GuidanceMatchesTools` ask. They rest on lemmas of
**`ConsequenceGraph_proofs`** that say, for any operations, manifests, ledgers and
logs, what orientation reads in a projected graph: which nodes of each kind there
are (`OperationNode`, `ManifestNode`, `AuthorizationNode`), what a manifest contains
(`ContainedChildren`), which proofs are fresh (`FreshCandidates`) and who has approved
(`ApprovedOperation`), and from that when a cut is met (`OneEffectCut`, `ManifestCut`,
the latter by counting kinds). `GuidanceIsExact` rests on `LedgerAssumption`: a
manifest binds operations that are there (`manifest.ts:87`), and what it has approved
in time is still proven while it is prepared, because its children's own commit
tools refuse them (`authorization.ts:109`). No step of a hook or of the daemon writes
the ledgers (`LedgerStays`).

`SliceIsExact` follows from `EverySliceFits`, which is about slices of any size, around
any filter, at any moment. Both the search and the set it is compared with are recursive
functions, and the library's theorems about recursion and induction take operators
as parameters, which cannot be instantiated here; so `ConsequenceGraph_proofs`
has its own, over sets and functions: `SetInduction`, from the least element of a set
of naturals, and `Iteration` and `Iterates`, that what is defined turn by turn exists.
The invariant of the search (`SearchOK`) says that what is not yet found is still in
the queue: every edge at a visited node ends at one that was visited or waits, seeds
come before any other node, and nothing lies outside an isolated set around the seeds.
`Progress` counts turns against visited nodes, which shows that the `2 * nodes + 1`
turns of `Selected` are enough for the queue to run empty or the bound to be reached
(`Selection`). The rounds of `Around` add a node each until nothing is left to add, so
as many rounds as there are nodes make the least isolated set (`RoundsClose`). Both
need a graph without loose ends (`ProjectionWellFormed`): a manifest's edges lead to
operations that are there, by `LedgerAssumption`, and the ledgers, the log and the
paths of an operation are finite (`FiniteAssumption`), since they are read from files.

Only model-checked:

* liveness (`InterruptedCommitResolves`, `InterruptedDeleteResolves`,
  `SagaConcludes`, `EveryCallEnds`, `AbandonedLockIsFreed`, `EveryHookAnswers`),
  which is out of the prover's reach.

## Not modelled

* Command policies (`shell-policy.ts` and its like): patterns over parsed command
  text, with no state; a model of them would be the patterns again.
  `AuditRelay` takes what they find as an input.
* Path policy and runtime identity: containment of path strings and one-shot
  probes of the operating system.
* `bridge` and the proxy copy bytes between a socket and a child server; the
  sandbox runner builds a command line whose guarantees are the kernel's. Only
  their effect on the hooks is modelled.
* Canonical JSON, digests and signatures: what they bind is compared as a value.
* Command-line parsing, scripted demonstrations, and the Rust readers and terminal
  interface, which write nothing.
* The tools' parsing of arguments and their views; hook events that only add text
  (session start, compaction), the events that are no tool's and their filters, and
  a publication of the graph that fails after its log was read.
