--------------------------- MODULE ConsequenceGraph ---------------------------
(***************************************************************************)
(* The consequence graph (consequence-graph.ts): how the ledgers and the   *)
(* log of the hooks are projected into nodes and edges, what an agent that *)
(* orients itself is told is still missing before a destructive command,   *)
(* and which neighbourhood of the graph it is given.                       *)
(*                                                                         *)
(* A ledger w is a record:                                                 *)
(*   status    status of each operation, "none" before it is prepared      *)
(*   late      operations whose proof has outlived its time                *)
(*   auth      status of each authorization record and the manifest that   *)
(*             is its source (None: it is an individual approval's)        *)
(*   manifest  status of each recovery manifest                            *)
(*   mauth     status of each manifest's authorization record              *)
(*   receipts  operations and manifests with a commit, a recovery or a     *)
(*             failure written down                                        *)
(* The log is a sequence of receipts: the agent, the event, the command    *)
(* (None when there is none), whether it was blocked, and the categories   *)
(* found in it.                                                            *)
(***************************************************************************)
EXTENDS Naturals, Sequences, FiniteSets, Functions, FiniteSetsExt, SequencesExt

CONSTANTS
  Ops,         \* operations
  Manifests,   \* recovery manifests
  Children,    \* Children[m]: the operations m binds, in order
  Kind,        \* Kind[o]: the kind of operation, which is also its category
  Paths,       \* Paths[o]: the resources o names
  Exact,       \* categories that have an exact recovery adapter
  None

ASSUME ConsequenceAssumption ==
  /\ Children \in [Manifests -> Seq(Ops)]
  /\ Kind \in [Ops -> Exact]
  /\ DOMAIN Paths = Ops
  /\ None \notin Ops \cup Manifests

Bound(m) == Range(Children[m])

IsLedger(w) ==
  /\ w.status \in [Ops -> {"none", "proven", "committing", "committed", "recovered",
                          "expired", "failed"}]
  /\ w.late \subseteq Ops
  /\ w.auth \in [Ops -> [status : {"absent", "pending", "approved", "expired"},
                         manifest : Manifests \cup {None}]]
  /\ w.manifest \in [Manifests -> {"none", "prepared", "committing", "committed", "recovering",
                 "recovered", "compensated", "partially-recovered", "expired", "failed"}]
  /\ w.mauth \in [Manifests -> {"absent", "pending", "approved", "expired"}]
  /\ w.receipts \subseteq Ops \cup Manifests

-----------------------------------------------------------------------------
(* Projection.  An id is a tuple of its kind and what it is derived from.   *)

\* A node, with the attributes the rest of the module reads.
Node(kind, subject, label, state, op, manifest, source) ==
  [id |-> <<kind, subject>>, kind |-> kind, label |-> label, state |-> state,
   op |-> op, manifest |-> manifest, source |-> source]
Edge(from, relation, to, state) ==
  [from |-> from, relation |-> relation, to |-> to, state |-> state]

Outcome(status) == IF status = "failed" THEN "failed" ELSE "verified"

OperationNodes(w, o) ==
  {Node("operation", o, Kind[o], w.status[o], o, None, None),
   Node("effect", o, Kind[o], w.status[o], None, None, None),
   Node("proof", o, "proof", Outcome(w.status[o]), None, None, None)}
  \cup {Node("resource", p, p, "observed", None, None, None) : p \in Paths[o]}
  \cup {Node("authorization", o, r.status, r.status, o, r.manifest, r.manifest) :
          r \in {w.auth[o]} \ {[status |-> "absent", manifest |-> None]}}
  \cup {Node("receipt", x, w.status[o], w.status[o], None, None, None) : x \in {o} \cap w.receipts}

OperationEdges(w, o) ==
  LET state == w.status[o]
      r == w.auth[o]
      operation == <<"operation", o>>
      effect == <<"effect", o>>
      authorization == <<"authorization", o>>
  IN  {Edge(operation, "proposes", effect, state),
       Edge(effect, "protected_by", <<"proof", o>>, "restore-tested")}
      \cup {Edge(effect, "may_affect", <<"resource", p>>, state) : p \in Paths[o]}
      \cup {Edge(operation, "requests", authorization, s) : s \in {r.status} \ {"absent"}}
      \cup {Edge(authorization, "authorizes", operation, s) : s \in {r.status} \cap {"approved"}}
      \cup {Edge(operation, "produces", <<"receipt", x>>, state) : x \in {o} \cap w.receipts}

ManifestNodes(w, m) ==
  {Node("manifest", m, "recovery.manifest", w.manifest[m], None, m, None),
   Node("proof", m, "proof", Outcome(w.manifest[m]), None, None, None)}
  \cup {Node("authorization", m, s, s, None, m, None) : s \in {w.mauth[m]} \ {"absent"}}
  \cup {Node("receipt", x, w.manifest[m], w.manifest[m], None, m, None) : x \in {m} \cap w.receipts}

ManifestEdges(w, m) ==
  LET state == w.manifest[m]
      manifest == <<"manifest", m>>
      authorization == <<"authorization", m>>
  IN  {Edge(manifest, "protected_by", <<"proof", m>>, "aggregate-proof")}
      \cup {Edge(manifest, "contains", <<"operation", o>>, state) : o \in Bound(m)}
      \cup {Edge(manifest, "requests", authorization, s) : s \in {w.mauth[m]} \ {"absent"}}
      \cup {Edge(authorization, "authorizes", manifest, s) : s \in {w.mauth[m]} \cap {"approved"}}
      \cup {Edge(manifest, "produces", <<"receipt", x>>, state) : x \in {m} \cap w.receipts}

\* The last event decides about an agent, whatever came before.
LastOf(log, a) == log[Max({i \in DOMAIN log : log[i].agent = a})]
Activity(log, a) == IF LastOf(log, a).event = "SubagentStop" THEN "stopped" ELSE "active"

Tools(log) == {i \in DOMAIN log : log[i].command # None}
Found(log) == UNION {{<<log[i].command, c>> : c \in log[i].found} : i \in Tools(log)}
Fate(entry) == IF entry.blocked THEN "blocked" ELSE "observed"
\* ... and so it does about the effect that was found in a command.
LastFate(log, e) ==
  Fate(log[Max({i \in Tools(log) : log[i].command = e[1] /\ e[2] \in log[i].found})])

LogNodes(log) ==
  {Node("session", "session", "session", "observed", None, None, None) : i \in DOMAIN log}
  \cup {Node("agent", log[i].agent, "agent", Activity(log, log[i].agent), None, None, None) :
          i \in DOMAIN log}
  \cup {Node("receipt", i, IF log[i].blocked THEN "denial" ELSE "tool", Fate(log[i]),
             None, None, None) : i \in Tools(log)}
  \cup {Node("effect", e, e[2], LastFate(log, e), None, None, None) : e \in Found(log)}

LogEdges(log) ==
  {Edge(<<"session", "session">>, "delegates_to", <<"agent", log[i].agent>>,
        IF Activity(log, log[i].agent) = "active" THEN "active" ELSE "closed") :
     i \in DOMAIN log}
  \cup {Edge(<<"session", "session">>, "produces", <<"receipt", i>>, Fate(log[i])) :
          i \in Tools(log)}
  \cup UNION {{Edge(<<"receipt", i>>, IF log[i].blocked THEN "blocks" ELSE "proposes",
                    <<"effect", <<log[i].command, c>>>>, Fate(log[i])) : c \in log[i].found} :
                i \in Tools(log)}

\* projectConsequenceGraph.
Project(w, log) ==
  LET ops == {o \in Ops : w.status[o] # "none"}
      manifests == {m \in Manifests : w.manifest[m] # "none"}
  IN  [nodes |-> (UNION {OperationNodes(w, o) : o \in ops})
                 \cup (UNION {ManifestNodes(w, m) : m \in manifests}) \cup LogNodes(log),
       edges |-> (UNION {OperationEdges(w, o) : o \in ops})
                 \cup (UNION {ManifestEdges(w, m) : m \in manifests}) \cup LogEdges(log)]

-----------------------------------------------------------------------------
(* Orientation: a request asks about the categories found in a command and  *)
(* names an operation, a manifest or nothing.  late stands for the clock.   *)

Freshness(node, late) == node.state = "proven" /\ node.op \notin late

\* The operations that the request's manifest contains, by their nodes.
Contained(graph, q) ==
  {n.op : n \in {x \in graph.nodes : x.kind = "operation" /\
     \E e \in graph.edges : e.relation = "contains" /\ e.to = x.id
                            /\ e.from = <<"manifest", q.manifest>>}}

OperationApproved(graph, q, o) ==
  LET approvals == {n \in graph.nodes : n.kind = "authorization" /\ n.state = "approved"}
      aggregate == \E n \in approvals : n.op = None /\ n.manifest = q.manifest
  IN  \E n \in approvals :
        /\ n.op = o
        /\ q.manifest # None => aggregate /\ n.source = q.manifest

\* The fresh proofs that the request names for one category.
Candidates(graph, q, late, c) ==
  {n.op : n \in {x \in graph.nodes :
     /\ x.kind = "operation" /\ x.label = c /\ Freshness(x, late)
     /\ x.op = q.op \/ x.op \in Contained(graph, q)}}

\* What is still missing for one category; nothing is after the commit tool.
Requirement(graph, q, late, c) ==
  LET candidates == Candidates(graph, q, late, c)
  IN  CASE c \notin Exact -> "adapter_required"
        [] c \in Exact /\ candidates = {} -> "prepare_proof"
        [] c \in Exact /\ candidates # {} ->
             IF \E o \in candidates : OperationApproved(graph, q, o)
               THEN "exact_commit_tool" ELSE "human_approval"

\* Mutant of ManifestFits: a manifest that holds more than is asked for fits.
ManifestFits_AtLeast(graph, q) ==
  LET kinds == {Kind[o] : o \in Contained(graph, q)}
  IN  /\ \E n \in graph.nodes :
           n.kind = "manifest" /\ n.manifest = q.manifest /\ n.state = "prepared"
      /\ q.found \cap Exact \subseteq kinds

\* Several effects must be bound by one prepared manifest of just their kinds.
ManifestFits(graph, q) ==
  LET kinds == {Kind[o] : o \in Contained(graph, q)}
  IN  /\ \E n \in graph.nodes :
           n.kind = "manifest" /\ n.manifest = q.manifest /\ n.state = "prepared"
      /\ Cardinality(q.found \cap Exact) = Cardinality(kinds)
      /\ q.found \cap Exact \subseteq kinds

\* The safe cut: every requirement and whether it is met.
Item(category, requirement, satisfied) ==
  [category |-> category, requirement |-> requirement, satisfied |-> satisfied]

SafeCut(graph, q, late) ==
  {Item("multi-effect", "split_manifest", ManifestFits(graph, q)) :
     n \in {Cardinality(q.found)} \ {0, 1}}
  \cup {LET r == Requirement(graph, q, late, c) IN Item(c, r, r = "exact_commit_tool") :
          c \in q.found}

\* Mutant of Readiness: authority is counted for proofs that are not fresh.
Readiness_StaleAuthority(graph, q, late) ==
  LET fresh(c) == Candidates(graph, q, late, c)
      covered == {c \in q.found : fresh(c) # {}}
      approved == {c \in q.found : \E o \in Candidates(graph, q, {}, c) : OperationApproved(graph, q, o)}
  IN  [recoveryCoverage |->
         IF q.found = {} THEN 3
         ELSE IF ~(q.found \subseteq Exact) THEN 0
         ELSE IF covered = q.found THEN 2 ELSE 1,
       authority |->
         IF q.found # {} /\ approved = q.found THEN 2
         ELSE IF covered # {} THEN 1 ELSE 0]

\* The readiness vector is computed from the graph once more, on its own.
Readiness(graph, q, late) ==
  LET fresh(c) == Candidates(graph, q, late, c)
      covered == {c \in q.found : fresh(c) # {}}
      approved == {c \in q.found : \E o \in fresh(c) : OperationApproved(graph, q, o)}
  IN  [recoveryCoverage |->
         IF q.found = {} THEN 3
         ELSE IF ~(q.found \subseteq Exact) THEN 0
         ELSE IF covered = q.found THEN 2 ELSE 1,
       authority |->
         IF q.found # {} /\ approved = q.found THEN 2
         ELSE IF covered # {} THEN 1 ELSE 0]

-----------------------------------------------------------------------------
(* Slicing: a search in breadth from the nodes that a filter names, ended   *)
(* by the number of nodes.  Within one distance from the seeds the order is *)
(* that of the files and lines the graph was read from; here it is any.     *)

Seeds(graph, f) ==
  {n.id : n \in {x \in graph.nodes :
     /\ f.op # None => x.op = f.op
     /\ f.manifest # None => x.manifest = f.manifest}}

\* Mutant of Neighbours: edges are followed forwards only.
Neighbours_Forward(graph, id) == {e.to : e \in {x \in graph.edges : x.from = id}}

Neighbours(graph, id) ==
  {e.to : e \in {x \in graph.edges : x.from = id}}
  \cup {e.from : e \in {x \in graph.edges : x.to = id}}

\* One turn of the loop: layer and next are the two distances in the queue.
Visit(graph, s) ==
  IF s.layer = {}
  THEN [s EXCEPT !.layer = s.next \ s.selected, !.next = {}]
  ELSE LET current == CHOOSE id \in s.layer : TRUE
       IN  [selected |-> s.selected \cup {current},
            layer |-> s.layer \ {current},
            next |-> s.next \cup (Neighbours(graph, current) \ s.selected)]

\* sliceConsequenceGraph.
Selected(graph, f, maxNodes) ==
  LET turns == 2 * Cardinality(graph.nodes) + 1
      after[i \in 0..turns] ==
        IF i = 0
        THEN [selected |-> {}, layer |-> Seeds(graph, f), next |-> {}]
        ELSE LET s == after[i - 1]
             IN  IF Cardinality(s.selected) < maxNodes THEN Visit(graph, s) ELSE s
  IN  after[turns].selected

Slice(graph, f, maxNodes) ==
  LET selected == Selected(graph, f, maxNodes)
  IN  [nodes |-> {n \in graph.nodes : n.id \in selected},
       edges |-> {e \in graph.edges : {e.from, e.to} \subseteq selected}]
=============================================================================
