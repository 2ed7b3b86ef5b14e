------------------------------ MODULE AuditRelay ------------------------------
(***************************************************************************)
(* The hooks of a session and the consequence graph they keep.  The host   *)
(* (Codex, not part of this repository) runs the hook program              *)
(* (pre-tool-hook.ts) as one process per event of an agent and waits for   *)
(* it: when the agent starts, before and after it uses a tool, and when it *)
(* stops.  The hook decides about the tool, has the decision recorded in   *)
(* hook-events.jsonl, publishes a new consequence graph and answers.       *)
(*                                                                         *)
(* In direct mode it does all of this itself.  In the sandbox (sandbox.ts) *)
(* the log is out of its reach: it hands the receipt to the daemon         *)
(* (authority-daemon.ts) and waits for at most two seconds; the daemon     *)
(* records and publishes, at its own pace.  (What the hook then projects   *)
(* from the sandbox's own empty data directory reaches no file here.)      *)
(*                                                                         *)
(* The published graph is known by how much of the log it was made from.   *)
(* The ledgers stay as they are meanwhile: nothing a hook does writes them,*)
(* and the tools that do publish nothing.                                  *)
(***************************************************************************)
EXTENDS ConsequenceGraph

CONSTANTS
  Agents,      \* delegated agents
  Uses,        \* Uses[a]: the tool uses a may choose from, if it uses a tool,
               \* each [command, found]; command is None for a patch
  Starts,      \* situations to start in: [ledger, relayed, life, log]
  MaxFaults,   \* bound on the writes that fail
  MaxOpen      \* bound: no hook is started while so many connections are open

VARIABLES
  ledger,      \* the operations' and manifests' ledgers
  relayed,     \* the session runs in the sandbox
  alive,       \* the session, with the daemon if there is one, goes on
  life,        \* the event that each agent will cause next
  use,         \* the tool use of each agent
  hook,        \* where each agent's hook process is
  decision,    \* what its hook has decided: the tool is denied
  seen,        \* how much of the log the hook has read
  log,         \* hook-events.jsonl
  torn,        \* its last line was cut while it was written
  relays,      \* the connections to the daemon
  published,   \* how much of the log consequence-graph.json shows
  ran,         \* history: the categories found in what was run
  late,        \* history: a hook gave up waiting for the daemon
  overwritten, \* history: a graph was replaced by one of an earlier log
  faults       \* history: number of failed writes

vars == <<ledger, relayed, alive, life, use, hook, decision, seen, log, torn,
          relays, published, ran, late, overwritten, faults>>

session == <<ledger, relayed, alive>>
host == <<life, use, ran>>
files == <<log, torn, published, overwritten>>

NoUse == [command |-> None, found |-> {}]
AllUses == {NoUse} \cup UNION Range(Uses)
Lives == {"SubagentStart", "PreToolUse", "PostToolUse", "SubagentStop", "gone"}
Receipts == [agent : Agents, event : Lives, command : {u.command : u \in AllUses},
             blocked : BOOLEAN, found : {u.found : u \in AllUses}]
Relays == [receipt : Receipts, at : {"append", "read", "publish", "answer"}, seen : Nat]

ASSUME SessionAssumption ==
  /\ DOMAIN Uses = Agents
  /\ MaxFaults \in Nat
  /\ \A s \in Starts : /\ IsLedger(s.ledger) /\ s.relayed \in BOOLEAN
                       /\ s.life \in [Agents -> Lives] /\ s.log \in Seq(Receipts)

\* What has happened before has happened in order: an agent that has reported
\* its end is gone, and reported it last.
ASSUME PastAssumption ==
  \A s \in Starts : \A i, j \in DOMAIN s.log :
    s.log[i].event = "SubagentStop" /\ s.log[j].agent = s.log[i].agent =>
      s.life[s.log[i].agent] = "gone" /\ j <= i

Approved(m) == [status |-> "approved", manifest |-> m]

\* What was prepared and approved before was so by the tools: a manifest binds
\* operations that are there, and what it has approved is left to be committed with
\* it, so that it is still proven in its time while the manifest is prepared.
ASSUME LedgerAssumption ==
  \A s \in Starts, m \in Manifests : \A o \in Bound(m) :
    LET w == s.ledger
    IN  /\ w.manifest[m] # "none" => w.status[o] # "none"
        /\ (w.manifest[m] = "prepared" /\ w.auth[o] = Approved(m) /\ o \notin w.late)
              => w.status[o] = "proven"

\* What is written down is finite.
ASSUME FiniteAssumption ==
  /\ \A o \in Ops : IsFiniteSet(Paths[o])
  /\ \A u \in AllUses : IsFiniteSet(u.found)
  /\ \A s \in Starts : /\ IsFiniteSet({o \in Ops : s.ledger.status[o] # "none"})
                       /\ IsFiniteSet({m \in Manifests : s.ledger.manifest[m] # "none"})

TypeOK ==
  /\ IsLedger(ledger)
  /\ relayed \in BOOLEAN /\ alive \in BOOLEAN
  /\ life \in [Agents -> Lives]
  /\ use \in [Agents -> AllUses]
  /\ hook \in [Agents -> {"idle", "record", "wait", "read", "publish", "answer"}]
  /\ decision \in [Agents -> BOOLEAN]
  /\ seen \in [Agents -> 0..Len(log)]
  /\ log \in Seq(Receipts)
  /\ torn \in BOOLEAN
  /\ relays \subseteq Relays
  /\ \A r \in relays : r.seen <= Len(log)
  /\ published \in 0..Len(log)
  /\ ran \subseteq UNION {u.found : u \in AllUses}
  /\ late \in BOOLEAN /\ overwritten \in BOOLEAN
  /\ faults \in 0..MaxFaults

Init ==
  /\ \E s \in Starts :
       /\ ledger = s.ledger
       /\ relayed = s.relayed
       /\ life = s.life
       /\ log = s.log /\ published = Len(s.log)
  /\ alive = TRUE
  /\ use = [a \in Agents |-> NoUse]
  /\ hook = [a \in Agents |-> "idle"]
  /\ decision = [a \in Agents |-> FALSE]
  /\ seen = [a \in Agents |-> 0]
  /\ torn = FALSE
  /\ relays = {}
  /\ ran = {}
  /\ late = FALSE /\ overwritten = FALSE
  /\ faults = 0

-----------------------------------------------------------------------------
(* The hook process.                                                       *)

Goto(a, at) == hook' = [hook EXCEPT ![a] = at]

\* evaluateHook: a patch is denied at any event, a command before it is run.
Denies(event, u) ==
  /\ u.found # {}
  /\ event \in {"PreToolUse", "PostToolUse"}
  /\ event = "PostToolUse" => u.command = None

\* The host starts the hook for the agent's next event.
Fire(a) ==
  /\ alive
  /\ hook[a] = "idle" /\ life[a] # "gone"
  /\ Cardinality(relays) < MaxOpen
  /\ \E u \in IF life[a] = "PreToolUse" THEN Uses[a] ELSE {use[a]} :
       /\ use' = [use EXCEPT ![a] = u]
       /\ decision' = [decision EXCEPT ![a] = Denies(life[a], u)]
  /\ Goto(a, "record")
  /\ UNCHANGED <<session, life, ran, seen, files, relays, late, faults>>

\* Mutant of Receipt: a receipt may not be of the event that is being handled.
Receipt_AnyEvent(a) ==
  LET u == IF life[a] \in {"PreToolUse", "PostToolUse"} THEN use[a] ELSE NoUse
  IN  [agent |-> a, event |-> "tool", command |-> u.command,
       blocked |-> decision[a], found |-> u.found]

Receipt(a) ==
  LET u == IF life[a] \in {"PreToolUse", "PostToolUse"} THEN use[a] ELSE NoUse
  IN  [agent |-> a, event |-> life[a], command |-> u.command,
       blocked |-> decision[a], found |-> u.found]

\* recordDecision in direct mode.
Record(a) ==
  /\ alive /\ ~relayed /\ hook[a] = "record"
  /\ log' = Append(log, Receipt(a))
  /\ Goto(a, "read")
  /\ UNCHANGED <<session, host, decision, seen, torn, relays, published, overwritten,
                 late, faults>>

\* A write fails; it may leave half a line behind.
Fault ==
  /\ faults < MaxFaults
  /\ faults' = faults + 1
  /\ torn' \in {torn, ~relayed \/ torn}

\* Mutant of RecordFails: the failure ends the hook before it has answered.
RecordFails_Throws(a) ==
  /\ alive /\ hook[a] = "record"
  /\ Fault
  /\ decision' = [decision EXCEPT ![a] = FALSE]
  /\ Goto(a, "answer")
  /\ UNCHANGED <<session, host, seen, log, published, overwritten, relays, late>>

\* Whether the line is not written or the daemon not reached: runHook goes on.
RecordFails(a) ==
  /\ alive /\ hook[a] = "record"
  /\ Fault
  /\ Goto(a, IF relayed THEN "answer" ELSE "read")
  /\ UNCHANGED <<session, host, decision, seen, log, published, overwritten, relays, late>>

\* recordDecision in the sandbox: the receipt is sent, the connection held.
Send(a) ==
  /\ alive /\ relayed /\ hook[a] = "record"
  /\ relays' = relays \cup {[receipt |-> Receipt(a), at |-> "append", seen |-> 0]}
  /\ Goto(a, "wait")
  /\ UNCHANGED <<session, host, decision, seen, files, late, faults>>

Waiting(r) == hook[r.receipt.agent] = "wait" /\ life[r.receipt.agent] = r.receipt.event

\* The daemon has closed the connection, with or without its "ok".
Closed(a) ==
  /\ alive /\ hook[a] = "wait"
  /\ \A r \in relays : r.receipt # Receipt(a)
  /\ Goto(a, "answer")
  /\ UNCHANGED <<session, host, decision, seen, files, relays, late, faults>>

\* Mutant of TimesOut: the timer ends with the connection's acceptance.
TimesOut_Connecting(a) ==
  /\ alive /\ hook[a] = "wait"
  /\ \E r \in relays : r.receipt = Receipt(a) /\ r.at = "append"
  /\ Goto(a, "answer")
  /\ late' = TRUE
  /\ UNCHANGED <<session, host, decision, seen, files, relays, faults>>

\* Two seconds are over; what was sent has been sent.
TimesOut(a) ==
  /\ alive /\ hook[a] = "wait"
  /\ Goto(a, "answer")
  /\ late' = TRUE
  /\ UNCHANGED <<session, host, decision, seen, files, relays, faults>>

\* projectConsequenceGraph in direct mode: the log is read ...
Read(a) ==
  /\ alive /\ hook[a] = "read"
  /\ seen' = [seen EXCEPT ![a] = IF torn THEN 0 ELSE Len(log)]
  /\ Goto(a, IF torn THEN "answer" ELSE "publish")
  /\ UNCHANGED <<session, host, decision, files, relays, late, faults>>

\* ... and a graph of what was read is renamed over the published one.
Show(n) ==
  /\ published' = n
  /\ overwritten' = (overwritten \/ n < published)

Publish(a) ==
  /\ alive /\ hook[a] = "publish"
  /\ Show(seen[a])
  /\ seen' = [seen EXCEPT ![a] = 0]
  /\ Goto(a, "answer")
  /\ UNCHANGED <<session, host, decision, log, torn, relays, late, faults>>

\* The hook answers, and the host lets the agent go on: a tool use that is not
\* denied is run.
Answer(a) ==
  LET runs == life[a] = "PreToolUse" /\ ~decision[a]
  IN  /\ alive /\ hook[a] = "answer"
      /\ ran' = IF runs THEN ran \cup use[a].found ELSE ran
      /\ life' = [life EXCEPT ![a] =
           CASE @ = "SubagentStart" -> IF Uses[a] = {} THEN "SubagentStop" ELSE "PreToolUse"
             [] @ = "PreToolUse" -> IF runs THEN "PostToolUse" ELSE "SubagentStop"
             [] @ = "PostToolUse" -> "SubagentStop"
             [] @ = "SubagentStop" -> "gone"]
      /\ use' = [use EXCEPT ![a] = IF life'[a] = "PostToolUse" THEN @ ELSE NoUse]
      /\ decision' = [decision EXCEPT ![a] = FALSE]
      /\ Goto(a, "idle")
      /\ UNCHANGED <<session, seen, files, relays, late, faults>>

-----------------------------------------------------------------------------
(* The daemon: auditBridge, for one connection.                            *)

Moved(r, at, n) == relays' = (relays \ {r}) \cup {[r EXCEPT !.at = at, !.seen = n]}
daemonOnly == <<session, host, hook, decision, seen, late>>

\* Mutant of RelayAppend: the receipt is acknowledged before it is projected.
RelayAppend_Unprojected(r) ==
  /\ alive /\ r.at = "append"
  /\ log' = Append(log, r.receipt)
  /\ Moved(r, "answer", 0)
  /\ UNCHANGED <<daemonOnly, torn, published, overwritten, faults>>

RelayAppend(r) ==
  /\ alive /\ r.at = "append"
  /\ log' = Append(log, r.receipt)
  /\ Moved(r, "read", 0)
  /\ UNCHANGED <<daemonOnly, torn, published, overwritten, faults>>

RelayRead(r) ==
  /\ alive /\ r.at = "read" /\ ~torn
  /\ Moved(r, "publish", Len(log))
  /\ UNCHANGED <<daemonOnly, files, faults>>

RelayPublish(r) ==
  /\ alive /\ r.at = "publish"
  /\ Show(r.seen)
  /\ Moved(r, "answer", 0)
  /\ UNCHANGED <<daemonOnly, log, torn, faults>>

\* An error that a connection reports is nobody's to hear: whether it ends the
\* daemon, and the sandbox with it, is up to the runtime.
Drop(r, error) ==
  /\ relays' = relays \ {r}
  /\ alive' \in {TRUE, ~error}
  /\ UNCHANGED <<ledger, relayed, host, hook, decision, seen, late>>

\* "ok": an error if the hook has gone.
RelayAnswer(r) ==
  /\ alive /\ r.at = "answer"
  /\ Drop(r, ~Waiting(r))
  /\ UNCHANGED <<files, faults>>

\* The receipt is not written, whole or at all; or the log cannot be read.
RelayFails(r) ==
  /\ alive
  /\ \/ /\ r.at = "append"
        /\ faults < MaxFaults
        /\ faults' = faults + 1
        /\ torn' \in {torn, TRUE}
     \/ /\ r.at = "read" /\ torn
        /\ UNCHANGED <<faults, torn>>
  /\ Drop(r, TRUE)
  /\ UNCHANGED <<log, published, overwritten>>

-----------------------------------------------------------------------------
Hook(a) ==
  \/ Record(a) \/ RecordFails(a) \/ Send(a) \/ Closed(a) \/ TimesOut(a)
  \/ Read(a) \/ Publish(a) \/ Answer(a)

Relay(r) == RelayAppend(r) \/ RelayRead(r) \/ RelayPublish(r) \/ RelayAnswer(r) \/ RelayFails(r)

Next ==
  \/ \E a \in Agents : Fire(a) \/ Hook(a)
  \/ \E r \in relays : Relay(r)

Spec == Init /\ [][Next]_vars

\* A hook process runs, and its timer goes off; the daemon owes nothing.
FairSpec == Spec /\ \A a \in Agents : WF_vars(Hook(a))

-----------------------------------------------------------------------------
(* Properties of the hooks.                                                *)

\* What the hook found no recovery for does not run, whatever becomes of the
\* receipt: not written, not delivered, not answered, or the graph unreadable.
DeniedNeverRuns == ran = {}

\* When nothing is under way the published graph tells of the whole session: it
\* shows all of the log, unless a projection that had read less was published
\* last or a write had failed; and an agent that has reported its end is shown as
\* stopped, unless one of its earlier receipts was given up and written later.
Quiet == alive /\ relays = {} /\ \A a \in Agents : hook[a] = "idle"

GraphShowsSession ==
  Quiet =>
    /\ ~overwritten /\ faults = 0 => published = Len(log)
    /\ ~late => \A i \in DOMAIN log :
         log[i].event = "SubagentStop" => Activity(log, log[i].agent) = "stopped"

\* Every hook answers, with the daemon answering, failing or hanging, as long as
\* the session goes on.
EveryHookAnswers ==
  \A a \in Agents : (hook[a] # "idle") ~> (hook[a] = "idle" \/ ~alive)

-----------------------------------------------------------------------------
(* Properties of the graph and the guidance read from it.  The ledger stays *)
(* as it is, so it is enough to ask in the situation a session starts in.   *)

Graph == Project(ledger, log)
Asking == Quiet /\ published = Len(log) /\ ran = {} /\ \A a \in Agents : life[a] = "gone"

Categories == Exact \cup {"opaque.execution"}
Satisfied(graph, q) ==
  q.found # {} /\ \A item \in SafeCut(graph, q, ledger.late) : item.satisfied

\* What the commit tools check, as read in server.ts and manifest-coordinator.ts.
CommitAdmits(o) ==
  /\ ledger.status[o] = "proven" /\ o \notin ledger.late
  /\ ledger.auth[o] = Approved(None)
ManifestAdmits(m) ==
  /\ ledger.manifest[m] = "prepared" /\ ledger.mauth[m] = "approved"
  /\ Bound(m) \cap ledger.late = {}
  /\ \A o \in Bound(m) : ledger.auth[o] = Approved(m)

\* An agent is sent to a commit tool just when that tool would admit the call:
\* asking about one effect and naming its operation (a child that a manifest has
\* approved is another matter: see the README); and asking about several effects
\* and naming a manifest with one child of each kind, where the effects must be
\* those of the manifest.
GuidanceMatchesTools == Asking => LET graph == Graph IN
  /\ \A o \in Ops : ledger.auth[o].manifest = None =>
       (Satisfied(graph, [found |-> {Kind[o]}, op |-> o, manifest |-> None])
        <=> CommitAdmits(o))
  /\ \A m \in Manifests, found \in SUBSET Categories :
       /\ ledger.manifest[m] # "none"
       /\ Cardinality(found) > 1
       /\ IsInjective([i \in DOMAIN Children[m] |-> Kind[Children[m][i]]])
       => (Satisfied(graph, [found |-> found, op |-> None, manifest |-> m])
           <=> found = {Kind[o] : o \in Bound(m)} /\ ManifestAdmits(m))

\* The readiness vector, computed on its own, and the safe cut tell one story.
ReadinessMatchesCut == Asking => LET graph == Graph IN
  \A o \in Ops \cup {None}, m \in Manifests \cup {None}, found \in SUBSET Categories :
    LET q == [found |-> found, op |-> o, manifest |-> m]
        ready == Readiness(graph, q, ledger.late)
        needs == {Requirement(graph, q, ledger.late, c) : c \in found}
    IN  /\ ready.authority = 2 <=> needs = {"exact_commit_tool"}
        /\ ready.recoveryCoverage = 0 <=> "adapter_required" \in needs
        /\ ready.recoveryCoverage = 2 <=>
             found # {} /\ needs \subseteq {"human_approval", "exact_commit_tool"}

\* All that can be reached from S in the graph, by whole rounds.
Around(graph, S) ==
  LET reach[n \in Nat] ==
        IF n = 0 THEN S
        ELSE LET R == reach[n - 1]
             IN  R \cup {e.to : e \in {x \in graph.edges : x.from \in R}}
                   \cup {e.from : e \in {x \in graph.edges : x.to \in R}}
  IN  reach[Cardinality(graph.nodes)]

\* A slice is bounded, holds the seeds first, is all around them when it fits,
\* and never an edge without both of its ends.  (Time does not matter to it.)
SliceFits(graph, f, size) ==
  LET seeds == Seeds(graph, f)
      slice == Slice(graph, f, size)
      ids == {n.id : n \in slice.nodes}
  IN  /\ Cardinality(ids) <= size
      /\ ids \subseteq seeds \/ seeds \subseteq ids
      /\ Cardinality(ids) < size => ids = Around(graph, seeds)
      /\ \A e \in slice.edges : {e.from, e.to} \subseteq ids

SliceIsNeighbourhood == Asking /\ ledger.late = {} => LET graph == Graph IN
  \A f \in [op : Ops \cup {None}, manifest : {None}] \cup [op : {None}, manifest : Manifests],
     size \in {3, 100} :
    SliceFits(graph, f, size)
=============================================================================
