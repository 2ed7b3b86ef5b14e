------------------------------- MODULE Approval -------------------------------
(***************************************************************************)
(* Who may run an operation: the authorization registry of the server      *)
(* (authorization.ts, manifest-authorization.ts), the brokers of the       *)
(* human's terminals (approval.ts, manifest-approval.ts, approve.ts) and   *)
(* the authorization checks of the two commit paths (server.ts,            *)
(* manifest-coordinator.ts).                                               *)
(*                                                                         *)
(* There is one record per operation, in a file of its own that is         *)
(* replaced as a whole but under no lock: whoever writes it writes a copy  *)
(* of what he read some steps before.                                      *)
(*                                                                         *)
(* A capability is a deterministic signature over what the operation       *)
(* binds: both brokers issue the same token for it, so a record carries    *)
(* one just when it is approved.  That the key it is signed with is the    *)
(* one servers verify with is SigningKey's subject, not this module's.     *)
(***************************************************************************)
EXTENDS Naturals, Sequences, Functions

CONSTANTS
  Terminals,   \* processes of the approve and approve-manifest commands
  Ops,         \* prepared operations
  Manifests,   \* recovery manifests
  Children,    \* Children[m]: the operations m binds, in commit order
  None         \* no task, no manifest (null)

ASSUME ChildrenAssumption ==
  /\ Children \in [Manifests -> Seq(Ops)]
  /\ \A m \in Manifests : Len(Children[m]) >= 2 /\ IsInjective(Children[m])
ASSUME NamesAssumption ==
  /\ None \notin Ops \cup Manifests
  /\ Ops \cap Manifests = {}

VARIABLES
  status,      \* status of each operation in the ledger
  record,      \* approvals/<operation>.json
  manifest,    \* status of each manifest
  mrecord,     \* status in manifest-approvals/<manifest>.json
  elapsed,     \* operations whose proof has outlived its time
  composing,   \* how many children recovery_prepare_manifest has checked
  task,        \* what the human at each terminal has confirmed
  control,     \* where each terminal's broker is
  held,        \* the authorization record it has read
  known,       \* operations whose capability the agent has been shown
  admitted,    \* calls of the commit tools that have passed a check
  vetted,      \* how many children a manifest's commit call has checked
  ran,         \* history: operations begun, and through which manifest
  raced        \* history: a record was overwritten by one who had not read it

vars == <<status, record, manifest, mrecord, elapsed, composing, task,
          control, held, known, admitted, vetted, ran, raced>>

ledgers == <<status, manifest, elapsed>>
terminals == <<task, control, held>>
server == <<composing, known, admitted, vetted, ran>>

Tasks == Ops \cup Manifests
Paths == Manifests \cup {None}
Bound(m) == Range(Children[m])
Late(m) == Bound(m) \cap elapsed # {}

Records == [status : {"absent", "pending", "approved", "expired"}, manifest : Paths]
Pending == [status |-> "pending", manifest |-> None]
NoRecord == [Pending EXCEPT !.status = "absent"]
Expired(r) == [r EXCEPT !.status = "expired"]

\* "single": one operation.  "survey" and "derive": the two loops over the
\* children of a manifest.
Controls == [at : {"idle", "review", "check", "get", "expire", "write", "conclude", "end"},
             phase : {"single", "survey", "derive"}, index : Nat \ {0}]

TypeOK ==
  /\ status \in [Ops -> {"none", "proven", "begun"}]
  /\ record \in [Ops -> Records]
  /\ manifest \in [Manifests -> {"none", "prepared", "committing"}]
  /\ mrecord \in [Manifests -> {"absent", "pending", "approved", "expired"}]
  /\ elapsed \subseteq Ops
  /\ composing \in [Manifests -> Nat] /\ vetted \in [Manifests -> Nat]
  /\ \A m \in Manifests : composing[m] \in 0..Len(Children[m]) /\ vetted[m] \in 0..Len(Children[m])
  /\ task \in [Terminals -> Tasks \cup {None}]
  /\ control \in [Terminals -> Controls]
  /\ \A t \in Terminals : task[t] \in Manifests => control[t].index <= Len(Children[task[t]])
  /\ held \in [Terminals -> Records]
  /\ known \subseteq Ops
  /\ admitted \subseteq Ops \X {"individual", "authorized"}
  /\ ran \subseteq Ops \X Paths
  /\ raced \in BOOLEAN

Init ==
  /\ status = [o \in Ops |-> "none"]
  /\ record = [o \in Ops |-> NoRecord]
  /\ manifest = [m \in Manifests |-> "none"]
  /\ mrecord = [m \in Manifests |-> "absent"]
  /\ elapsed = {}
  /\ composing = [m \in Manifests |-> 0]
  /\ task = [t \in Terminals |-> None]
  /\ control = [t \in Terminals |-> [at |-> "idle", phase |-> "single", index |-> 1]]
  /\ held = [t \in Terminals |-> NoRecord]
  /\ known = {}
  /\ admitted = {}
  /\ vetted = [m \in Manifests |-> 0]
  /\ ran = {}
  /\ raced = FALSE

-----------------------------------------------------------------------------
(* The server prepares operations and manifests.                           *)

\* The prepare tools: the proof is put, then approval is requested.
Prove(o) ==
  /\ status[o] = "none"
  /\ status' = [status EXCEPT ![o] = "proven"]
  /\ UNCHANGED <<record, manifest, mrecord, elapsed, terminals, server, raced>>

Request(o) ==
  /\ status[o] = "proven"
  /\ record[o] = NoRecord
  /\ record' = [record EXCEPT ![o] = Pending]
  /\ UNCHANGED <<ledgers, mrecord, terminals, server, raced>>

\* RecoveryManifestService.prepare checks the children one by one ...
ComposeChild(m) ==
  LET o == Children[m][composing[m] + 1]
  IN  /\ manifest[m] = "none"
      /\ composing[m] < Len(Children[m])
      /\ status[o] = "proven"
      /\ o \notin elapsed
      /\ record[o].status = "pending"
      /\ composing' = [composing EXCEPT ![m] = @ + 1]
      /\ UNCHANGED <<ledgers, record, mrecord, terminals, known, admitted, vetted,
                     ran, raced>>

\* ... then puts the manifest, and the tool requests its approval.
PutManifest(m) ==
  /\ manifest[m] = "none"
  /\ composing[m] = Len(Children[m])
  /\ manifest' = [manifest EXCEPT ![m] = "prepared"]
  /\ UNCHANGED <<status, elapsed, record, mrecord, terminals, server, raced>>

RequestManifest(m) ==
  /\ manifest[m] = "prepared"
  /\ mrecord[m] = "absent"
  /\ mrecord' = [mrecord EXCEPT ![m] = "pending"]
  /\ UNCHANGED <<ledgers, record, terminals, server, raced>>

Elapse(o) ==
  /\ status[o] # "none"
  /\ o \notin elapsed
  /\ elapsed' = elapsed \cup {o}
  /\ UNCHANGED <<status, manifest, record, mrecord, terminals, server, raced>>

-----------------------------------------------------------------------------
(* A terminal: runApprovalCommand.  The human reads the operation or the   *)
(* manifest and types the prefix of its proof; then the broker is made,    *)
(* which loads the signing key (a failure there is a Close), and approves. *)

At(t, at) == control[t].at = at

Confirm(t) ==
  /\ At(t, "idle")
  /\ \E x \in Tasks :
       /\ IF x \in Ops THEN status[x] # "none" ELSE manifest[x] # "none"
       /\ task' = [task EXCEPT ![t] = x]
  /\ control' = [control EXCEPT ![t].at = "review"]
  /\ UNCHANGED <<ledgers, record, mrecord, held, server, raced>>

Alone(t) == control[t].phase = "single"
Current(t) == IF Alone(t) THEN task[t] ELSE Children[task[t]][control[t].index]

\* The broker goes on, and returns or throws.
Goto(t, at) == control' = [control EXCEPT ![t].at = at]
End(t) == Goto(t, "end") /\ UNCHANGED <<record, mrecord, held, raced>>

\* Mutant of NextChild: the loop runs one too far.
NextChild_OnePast(t) ==
  LET c == control[t]
  IN  control' = [control EXCEPT ![t] =
        IF c.index <= Len(Children[task[t]])
          THEN [c EXCEPT !.at = "check", !.index = @ + 1]
          ELSE [c EXCEPT !.index = 1, !.phase = "derive",
                  !.at = IF c.phase = "survey" THEN "check" ELSE "conclude"]]

\* The next child of the loop, or what follows the loop.
NextChild(t) ==
  LET c == control[t]
  IN  control' = [control EXCEPT ![t] =
        IF c.index < Len(Children[task[t]])
          THEN [c EXCEPT !.at = "check", !.index = @ + 1]
          ELSE [c EXCEPT !.index = 1, !.phase = "derive",
                  !.at = IF c.phase = "survey" THEN "check" ELSE "conclude"]]

\* ManifestApprovalBroker.approve looks at the manifest and its record first.
\* (Time that passes between the two shows in the children's records too, and
\* ends the call there.)
Review(t) ==
  LET x == task[t]
      open == x \in Manifests =>
                manifest[x] = "prepared" /\ ~Late(x) /\ mrecord[x] = "pending"
  IN  /\ At(t, "review")
      /\ control' = [control EXCEPT ![t] =
           [at |-> IF open THEN "check" ELSE "end", index |-> 1,
            phase |-> IF x \in Ops THEN "single" ELSE "survey"]]
      /\ UNCHANGED <<ledgers, record, mrecord, task, held, server, raced>>

\* store.get(operation): still proven and, unless it is only surveyed, in time.
CheckProof(t) ==
  LET o == Current(t)
  IN  /\ At(t, "check")
      /\ IF /\ status[o] = "proven"
            /\ o \in elapsed => control[t].phase = "survey"
         THEN Goto(t, "get") /\ UNCHANGED <<record, mrecord, held, raced>>
         ELSE End(t)
      /\ UNCHANGED <<ledgers, task, server>>

\* Mutant of Decide: an approval by another path is taken for the manifest's.
Decide_AnySource(t, r) ==
  CASE control[t].phase = "single" ->
         Goto(t, IF r.status = "approved" THEN "end" ELSE "write")
    [] control[t].phase = "survey" -> NextChild(t)
    [] control[t].phase = "derive" ->
         IF r.status = "approved" THEN NextChild(t) ELSE Goto(t, "write")

\* Mutant of Decide: approveByManifest approves what is approved already.
Decide_Overwrites(t, r) ==
  LET mine == r.status = "approved" /\ r.manifest = task[t]
  IN  CASE control[t].phase = "single" ->
             Goto(t, IF r.status = "approved" THEN "end" ELSE "write")
        [] control[t].phase = "survey" ->
             IF r.status = "pending" \/ mine THEN NextChild(t) ELSE Goto(t, "end")
        [] control[t].phase = "derive" -> Goto(t, "write")

\* What a record means for the broker that has just read it.
Decide(t, r) ==
  LET mine == r.status = "approved" /\ r.manifest = task[t]
  IN  CASE control[t].phase = "single" ->
             Goto(t, IF r.status = "approved" THEN "end" ELSE "write")
        [] control[t].phase = "survey" ->
             IF r.status = "pending" \/ mine THEN NextChild(t) ELSE Goto(t, "end")
        [] control[t].phase = "derive" ->
             IF mine THEN NextChild(t)
             ELSE Goto(t, IF r.status = "approved" THEN "end" ELSE "write")

\* registry.get(operation).
GetRecord(t) ==
  LET o == Current(t)
      r == record[o]
  IN  /\ At(t, "get")
      /\ \/ /\ r.status = "absent"
            /\ Goto(t, "end")
            /\ UNCHANGED held
         \/ /\ r.status # "absent" /\ o \in elapsed
            /\ held' = [held EXCEPT ![t] = Expired(r)]
            /\ Goto(t, "expire")
         \/ /\ r.status # "absent" /\ o \notin elapsed
            /\ held' = [held EXCEPT ![t] = r]
            /\ Decide(t, r)
      /\ UNCHANGED <<ledgers, record, mrecord, task, server, raced>>

\* Writing a record that may no longer be the one read.
Replace(o, r, read) ==
  /\ record' = [record EXCEPT ![o] = r]
  /\ raced' = (raced \/ record[o] # read)

\* get's own write of the expiry: it is not compared with anything either, but
\* no approval that it overwrites is of use to anybody any more.
PutExpired(t) ==
  /\ At(t, "expire")
  /\ record' = [record EXCEPT ![Current(t)] = held[t]]
  /\ Decide(t, held[t])
  /\ UNCHANGED <<ledgers, mrecord, task, held, server, raced>>

\* Mutant of PutApproved: a manifest's approval does not name its source.
PutApproved_NoSource(t) ==
  LET o == Current(t)
  IN  /\ At(t, "write")
      /\ Replace(o, [held[t] EXCEPT !.status = "approved"], held[t])
      /\ IF Alone(t) THEN Goto(t, "end") ELSE NextChild(t)
      /\ UNCHANGED <<ledgers, mrecord, task, held, server>>

\* The capability is issued and the record read before is put back, approved.
PutApproved(t) ==
  LET o == Current(t)
      signed == [status |-> "approved",
                 manifest |-> IF Alone(t) THEN held[t].manifest ELSE task[t]]
  IN  /\ At(t, "write")
      /\ Replace(o, signed, held[t])
      /\ IF Alone(t) THEN Goto(t, "end") ELSE NextChild(t)
      /\ UNCHANGED <<ledgers, mrecord, task, held, server>>

\* Every child has been approved: now the manifest is.
Conclude(t) ==
  /\ At(t, "conclude")
  /\ mrecord' = [mrecord EXCEPT ![task[t]] = "approved"]
  /\ Goto(t, "end")
  /\ UNCHANGED <<ledgers, record, task, held, server, raced>>

\* The terminal is closed.
Close(t) ==
  /\ control[t].at \notin {"idle", "end"}
  /\ End(t)
  /\ UNCHANGED <<ledgers, task, server>>

-----------------------------------------------------------------------------
(* The server: reading authorizations, and the two commit paths.           *)

\* registry.get for any tool, once the time is over.
ExpireRecord(o) ==
  /\ o \in elapsed
  /\ record[o].status \in {"pending", "approved"}
  /\ record' = [record EXCEPT ![o] = Expired(@)]
  /\ UNCHANGED <<ledgers, mrecord, terminals, server, raced>>

ExpireManifestRecord(m) ==
  /\ Late(m)
  /\ mrecord[m] \in {"pending", "approved"}
  /\ mrecord' = [mrecord EXCEPT ![m] = "expired"]
  /\ UNCHANGED <<ledgers, record, terminals, server, raced>>

\* A record that authorizes its operation now.
Authorizes(o) ==
  /\ record[o].status = "approved"
  /\ o \notin elapsed

\* recovery_get_authorization: the capability of a manifest's child is withheld.
ShowCapability(o) ==
  /\ Authorizes(o)
  /\ record[o].manifest = None
  /\ known' = known \cup {o}
  /\ UNCHANGED <<ledgers, record, mrecord, terminals, composing, admitted, vetted,
                 ran, raced>>

\* A commit tool: assertIndividualAuthorized reads the record for its source,
AdmitIndividual(o) ==
  /\ record[o].status # "absent"
  /\ o \notin elapsed
  /\ record[o].manifest = None
  /\ admitted' = admitted \cup {<<o, "individual">>}
  /\ UNCHANGED <<ledgers, record, mrecord, terminals, composing, known, vetted,
                 ran, raced>>

\* reads it again for its status and its capability,
AdmitAuthorized(o) ==
  /\ <<o, "individual">> \in admitted
  /\ o \in known
  /\ Authorizes(o)
  /\ admitted' = admitted \cup {<<o, "authorized">>}
  /\ UNCHANGED <<ledgers, record, mrecord, terminals, composing, known, vetted,
                 ran, raced>>

\* service.commit, up to beginCommit: the operation is run.
Begin(o, path) ==
  /\ status[o] = "proven"
  /\ o \notin elapsed
  /\ status' = [status EXCEPT ![o] = "begun"]
  /\ ran' = ran \cup {<<o, path>>}

\* and hands over to the service.
RunIndividual(o) ==
  /\ <<o, "authorized">> \in admitted
  /\ Begin(o, None)
  /\ UNCHANGED <<manifest, elapsed, record, mrecord, terminals, composing, known,
                 admitted, vetted, raced>>

\* ManifestCoordinator.commit: once the manifest's capability, then every child's
\* record, one after the other; beginCommit; then child after child.
VetManifest(m) ==
  /\ \/ /\ vetted[m] = 0
        /\ manifest[m] = "prepared"
        /\ mrecord[m] = "approved"
        /\ ~Late(m)
     \/ /\ vetted[m] \in 1..(Len(Children[m]) - 1)
        /\ LET o == Children[m][vetted[m]]
           IN  record[o].manifest = m /\ Authorizes(o)
  /\ vetted' = [vetted EXCEPT ![m] = @ + 1]
  /\ UNCHANGED <<ledgers, record, mrecord, terminals, composing, known, admitted,
                 ran, raced>>

BeginManifest(m) ==
  LET o == Children[m][vetted[m]]
  IN  /\ manifest[m] = "prepared"
      /\ vetted[m] = Len(Children[m])
      /\ record[o].manifest = m /\ Authorizes(o)
      /\ manifest' = [manifest EXCEPT ![m] = "committing"]
      /\ UNCHANGED <<status, elapsed, record, mrecord, terminals, server, raced>>

\* Each child's capability is read once more, and not asked for its source.
\* (The order of the children and their failures are RecoveryManifest's subject.)
RunChild(o, m) ==
  /\ manifest[m] = "committing"
  /\ o \in Bound(m)
  /\ Authorizes(o)
  /\ Begin(o, m)
  /\ UNCHANGED <<manifest, elapsed, record, mrecord, terminals, composing, known,
                 admitted, vetted, raced>>

-----------------------------------------------------------------------------
Terminal(t) ==
  \/ Confirm(t) \/ Review(t) \/ CheckProof(t) \/ GetRecord(t)
  \/ PutExpired(t) \/ PutApproved(t) \/ Conclude(t) \/ Close(t)

Operation(o) ==
  \/ Prove(o) \/ Request(o) \/ Elapse(o) \/ ExpireRecord(o)
  \/ ShowCapability(o) \/ AdmitIndividual(o) \/ AdmitAuthorized(o) \/ RunIndividual(o)

Manifest(m) ==
  \/ ComposeChild(m) \/ PutManifest(m) \/ RequestManifest(m) \/ ExpireManifestRecord(m)
  \/ VetManifest(m) \/ BeginManifest(m) \/ \E o \in Ops : RunChild(o, m)

Next ==
  \/ \E t \in Terminals : Terminal(t)
  \/ \E o \in Ops : Operation(o)
  \/ \E m \in Manifests : Manifest(m)

Spec == Init /\ [][Next]_vars

-----------------------------------------------------------------------------
(* Properties.                                                             *)

\* Nothing runs that the human has not confirmed, at a terminal, in just the
\* form in which it runs: by itself, or as a child of that very manifest.
ConsentBeforeEffect ==
  \A o \in Ops, path \in Paths : <<o, path>> \in ran =>
    \E t \in Terminals : task[t] = IF path = None THEN o ELSE path

\* While an approved manifest's children are in time, all of them are approved,
\* by derivation from it and from nothing else, whatever closes a terminal half
\* way and whoever resumes ... as long as no two writers of one record overlap.
AllOrNothing ==
  ~raced => \A m \in Manifests : mrecord[m] = "approved" =>
    \A o \in Bound(m) \ elapsed : record[o] = [status |-> "approved", manifest |-> m]

\* Each operation has one authority path: what has run, has run by the path that
\* its record still names (under the same conditions).
OnePath == ~raced =>
  \A o \in Ops \ elapsed, path \in Paths : <<o, path>> \in ran => record[o].manifest = path
=============================================================================
