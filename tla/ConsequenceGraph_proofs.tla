------------------------ MODULE ConsequenceGraph_proofs ------------------------
(***************************************************************************)
(* What orientation reads in a projected graph, said of the ledgers that   *)
(* the graph was projected from; and what the search for a slice finds in  *)
(* a graph: for any operations, manifests, ledgers and logs.               *)
(***************************************************************************)
EXTENDS ConsequenceGraph, FiniteSetTheorems, WellFoundedInduction, TLAPS

LEMMA NodeFields ==
  ASSUME NEW kind, NEW subject, NEW label, NEW state, NEW op, NEW manifest, NEW source
  PROVE  LET n == Node(kind, subject, label, state, op, manifest, source)
         IN  /\ n.id = <<kind, subject>> /\ n.kind = kind /\ n.label = label /\ n.state = state
             /\ n.op = op /\ n.manifest = manifest /\ n.source = source
BY DEF Node

LEMMA EdgeFields ==
  ASSUME NEW from, NEW relation, NEW to, NEW state
  PROVE  LET e == Edge(from, relation, to, state)
         IN  e.from = from /\ e.relation = relation /\ e.to = to
BY DEF Edge

-----------------------------------------------------------------------------
(* The nodes that orientation looks for, by their kinds.                   *)

LEMMA OperationNodeKinds ==
  ASSUME NEW w, NEW o, NEW n \in OperationNodes(w, o)
  PROVE  /\ n.kind = "operation" => n = Node("operation", o, Kind[o], w.status[o], o, None, None)
         /\ n.kind = "authorization" =>
              /\ w.auth[o] # [status |-> "absent", manifest |-> None]
              /\ n = Node("authorization", o, w.auth[o].status, w.auth[o].status, o,
                          w.auth[o].manifest, w.auth[o].manifest)
         /\ n.kind # "manifest"
<1>1. CASE n = Node("operation", o, Kind[o], w.status[o], o, None, None)
  BY <1>1, NodeFields
<1>2. CASE \/ n = Node("effect", o, Kind[o], w.status[o], None, None, None)
           \/ n = Node("proof", o, "proof", Outcome(w.status[o]), None, None, None)
           \/ \E p \in Paths[o] : n = Node("resource", p, p, "observed", None, None, None)
           \/ \E x : n = Node("receipt", x, w.status[o], w.status[o], None, None, None)
  <2>1. n.kind \in {"effect", "proof", "resource", "receipt"}
    BY <1>2, NodeFields
  <2> QED
    BY <2>1
<1>3. CASE /\ w.auth[o] # [status |-> "absent", manifest |-> None]
           /\ n = Node("authorization", o, w.auth[o].status, w.auth[o].status, o,
                       w.auth[o].manifest, w.auth[o].manifest)
  BY <1>3, NodeFields
<1> QED
  BY <1>1, <1>2, <1>3, Zenon DEF OperationNodes

LEMMA ManifestNodeKinds ==
  ASSUME NEW w, NEW m, NEW n \in ManifestNodes(w, m)
  PROVE  /\ n.kind # "operation"
         /\ n.kind = "authorization" =>
              /\ w.mauth[m] # "absent"
              /\ n = Node("authorization", m, w.mauth[m], w.mauth[m], None, m, None)
         /\ n.kind = "manifest" =>
              n = Node("manifest", m, "recovery.manifest", w.manifest[m], None, m, None)
<1>1. CASE n = Node("manifest", m, "recovery.manifest", w.manifest[m], None, m, None)
  BY <1>1, NodeFields
<1>2. CASE \/ n = Node("proof", m, "proof", Outcome(w.manifest[m]), None, None, None)
           \/ \E x : n = Node("receipt", x, w.manifest[m], w.manifest[m], None, m, None)
  <2>1. n.kind \in {"proof", "receipt"}
    BY <1>2, NodeFields
  <2> QED
    BY <2>1
<1>3. CASE /\ w.mauth[m] # "absent"
           /\ n = Node("authorization", m, w.mauth[m], w.mauth[m], None, m, None)
  BY <1>3, NodeFields
<1> QED
  BY <1>1, <1>2, <1>3, Zenon DEF ManifestNodes

LEMMA LogNodeKinds ==
  ASSUME NEW log, NEW n \in LogNodes(log)
  PROVE  n.kind \in {"session", "agent", "receipt", "effect"}
<1>1. \/ n = Node("session", "session", "session", "observed", None, None, None)
      \/ \E a, s : n = Node("agent", a, "agent", s, None, None, None)
      \/ \E i, l, s : n = Node("receipt", i, l, s, None, None, None)
      \/ \E e, s : n = Node("effect", e, e[2], s, None, None, None)
  BY Zenon DEF LogNodes
<1> QED
  BY <1>1, NodeFields

LEMMA OfThree ==
  ASSUME NEW A, NEW B, NEW C, NEW X, X = A \cup B \cup C, NEW x
  PROVE  x \in X <=> x \in A \/ x \in B \/ x \in C
OBVIOUS

LEMMA GraphNodes ==
  ASSUME NEW w, NEW log, NEW n
  PROVE  n \in Project(w, log).nodes <=>
           \/ \E o \in Ops : w.status[o] # "none" /\ n \in OperationNodes(w, o)
           \/ \E m \in Manifests : w.manifest[m] # "none" /\ n \in ManifestNodes(w, m)
           \/ n \in LogNodes(log)
<1> DEFINE ops == {o \in Ops : w.status[o] # "none"}
           manifests == {m \in Manifests : w.manifest[m] # "none"}
<1>1. Project(w, log).nodes = (UNION {OperationNodes(w, o) : o \in ops})
                 \cup (UNION {ManifestNodes(w, m) : m \in manifests}) \cup LogNodes(log)
  BY DEF Project
<1>2. n \in UNION {OperationNodes(w, o) : o \in ops} <=>
        \E o \in Ops : w.status[o] # "none" /\ n \in OperationNodes(w, o)
  OBVIOUS
<1>3. n \in UNION {ManifestNodes(w, m) : m \in manifests} <=>
        \E m \in Manifests : w.manifest[m] # "none" /\ n \in ManifestNodes(w, m)
  OBVIOUS
<1>4. \/ n \in UNION {OperationNodes(w, o) : o \in ops}
      \/ n \in UNION {ManifestNodes(w, m) : m \in manifests}
      \/ n \in LogNodes(log)
      <=> n \in Project(w, log).nodes
  <2> HIDE DEF ops, manifests
  <2> QED
    BY <1>1, OfThree
<1> QED
  BY <1>2, <1>3, <1>4

\* The nodes of a kind are those of the records that are there.
LEMMA OperationNode ==
  ASSUME NEW w, NEW log, NEW n
  PROVE  n \in Project(w, log).nodes /\ n.kind = "operation" <=>
           \E o \in Ops : /\ w.status[o] # "none"
                          /\ n = Node("operation", o, Kind[o], w.status[o], o, None, None)
<1>1. ASSUME n \in Project(w, log).nodes, n.kind = "operation"
      PROVE  \E o \in Ops : /\ w.status[o] # "none"
                            /\ n = Node("operation", o, Kind[o], w.status[o], o, None, None)
  <2>1. n \notin LogNodes(log)
    BY <1>1, LogNodeKinds
  <2>2. \A m \in Manifests : n \notin ManifestNodes(w, m)
    BY <1>1, ManifestNodeKinds
  <2>3. PICK o \in Ops : w.status[o] # "none" /\ n \in OperationNodes(w, o)
    BY <1>1, <2>1, <2>2, GraphNodes
  <2> QED
    BY <1>1, <2>3, OperationNodeKinds
<1>2. ASSUME NEW o \in Ops, w.status[o] # "none",
             n = Node("operation", o, Kind[o], w.status[o], o, None, None)
      PROVE  n \in Project(w, log).nodes /\ n.kind = "operation"
  <2>1. n \in OperationNodes(w, o)
    BY <1>2, Zenon DEF OperationNodes
  <2> QED
    BY <1>2, <2>1, GraphNodes, NodeFields
<1> QED
  BY <1>1, <1>2

LEMMA ManifestNode ==
  ASSUME NEW w, NEW log, NEW n
  PROVE  n \in Project(w, log).nodes /\ n.kind = "manifest" <=>
           \E m \in Manifests :
             /\ w.manifest[m] # "none"
             /\ n = Node("manifest", m, "recovery.manifest", w.manifest[m], None, m, None)
<1>1. ASSUME n \in Project(w, log).nodes, n.kind = "manifest"
      PROVE  \E m \in Manifests :
               /\ w.manifest[m] # "none"
               /\ n = Node("manifest", m, "recovery.manifest", w.manifest[m], None, m, None)
  <2>1. n \notin LogNodes(log)
    BY <1>1, LogNodeKinds
  <2>2. \A o \in Ops : n \notin OperationNodes(w, o)
    BY <1>1, OperationNodeKinds
  <2>3. PICK m \in Manifests : w.manifest[m] # "none" /\ n \in ManifestNodes(w, m)
    BY <1>1, <2>1, <2>2, GraphNodes
  <2> QED
    BY <1>1, <2>3, ManifestNodeKinds
<1>2. ASSUME NEW m \in Manifests, w.manifest[m] # "none",
             n = Node("manifest", m, "recovery.manifest", w.manifest[m], None, m, None)
      PROVE  n \in Project(w, log).nodes /\ n.kind = "manifest"
  <2>1. n \in ManifestNodes(w, m)
    BY <1>2, Zenon DEF ManifestNodes
  <2> QED
    BY <1>2, <2>1, GraphNodes, NodeFields
<1> QED
  BY <1>1, <1>2

LEMMA AuthorizationNode ==
  ASSUME NEW w, NEW log, NEW n
  PROVE  n \in Project(w, log).nodes /\ n.kind = "authorization" <=>
           \/ \E o \in Ops :
                /\ w.status[o] # "none" /\ w.auth[o] # [status |-> "absent", manifest |-> None]
                /\ n = Node("authorization", o, w.auth[o].status, w.auth[o].status, o,
                            w.auth[o].manifest, w.auth[o].manifest)
           \/ \E m \in Manifests :
                /\ w.manifest[m] # "none" /\ w.mauth[m] # "absent"
                /\ n = Node("authorization", m, w.mauth[m], w.mauth[m], None, m, None)
<1>1. ASSUME n \in Project(w, log).nodes, n.kind = "authorization"
      PROVE  \/ \E o \in Ops :
                  /\ w.status[o] # "none" /\ w.auth[o] # [status |-> "absent", manifest |-> None]
                  /\ n = Node("authorization", o, w.auth[o].status, w.auth[o].status, o,
                              w.auth[o].manifest, w.auth[o].manifest)
             \/ \E m \in Manifests :
                  /\ w.manifest[m] # "none" /\ w.mauth[m] # "absent"
                  /\ n = Node("authorization", m, w.mauth[m], w.mauth[m], None, m, None)
  <2>1. n \notin LogNodes(log)
    BY <1>1, LogNodeKinds
  <2>2. CASE \E o \in Ops : w.status[o] # "none" /\ n \in OperationNodes(w, o)
    BY <1>1, <2>2, OperationNodeKinds
  <2>3. CASE \E m \in Manifests : w.manifest[m] # "none" /\ n \in ManifestNodes(w, m)
    BY <1>1, <2>3, ManifestNodeKinds
  <2> QED
    BY <1>1, <2>1, <2>2, <2>3, GraphNodes
<1>2. ASSUME NEW o \in Ops, w.status[o] # "none",
             w.auth[o] # [status |-> "absent", manifest |-> None],
             n = Node("authorization", o, w.auth[o].status, w.auth[o].status, o,
                      w.auth[o].manifest, w.auth[o].manifest)
      PROVE  n \in Project(w, log).nodes /\ n.kind = "authorization"
  <2>1. n \in OperationNodes(w, o)
    BY <1>2, Zenon DEF OperationNodes
  <2> QED
    BY <1>2, <2>1, GraphNodes, NodeFields
<1>3. ASSUME NEW m \in Manifests, w.manifest[m] # "none", w.mauth[m] # "absent",
             n = Node("authorization", m, w.mauth[m], w.mauth[m], None, m, None)
      PROVE  n \in Project(w, log).nodes /\ n.kind = "authorization"
  <2>1. n \in ManifestNodes(w, m)
    BY <1>3, Zenon DEF ManifestNodes
  <2> QED
    BY <1>3, <2>1, GraphNodes, NodeFields
<1> QED
  BY <1>1, <1>2, <1>3

\* What a manifest contains, it binds.
LEMMA ContainsEdge ==
  ASSUME NEW w, NEW log
  PROVE  /\ \A e \in Project(w, log).edges : e.relation = "contains" =>
              \E m \in Manifests : \E o \in Bound(m) :
                /\ w.manifest[m] # "none"
                /\ e = Edge(<<"manifest", m>>, "contains", <<"operation", o>>, w.manifest[m])
         /\ \A m \in Manifests : \A o \in Bound(m) : w.manifest[m] # "none" =>
              Edge(<<"manifest", m>>, "contains", <<"operation", o>>, w.manifest[m])
                \in Project(w, log).edges
<1> DEFINE ops == {o \in Ops : w.status[o] # "none"}
           manifests == {m \in Manifests : w.manifest[m] # "none"}
<1>1. Project(w, log).edges = (UNION {OperationEdges(w, o) : o \in ops})
                 \cup (UNION {ManifestEdges(w, m) : m \in manifests}) \cup LogEdges(log)
  BY DEF Project
<1>2. ASSUME NEW e, NEW o, e \in OperationEdges(w, o) PROVE e.relation # "contains"
  <2>1. \E f, t, s : \E r \in {"proposes", "protected_by", "may_affect", "requests", "authorizes",
                               "produces"} : e = Edge(f, r, t, s)
    BY <1>2, Zenon DEF OperationEdges
  <2> QED
    BY <2>1, EdgeFields
<1>3. ASSUME NEW e, e \in LogEdges(log) PROVE e.relation # "contains"
  <2>1. \E f, t, s : \E r \in {"delegates_to", "produces", "blocks", "proposes"} : e = Edge(f, r, t, s)
    BY <1>3 DEF LogEdges
  <2> QED
    BY <2>1, EdgeFields
<1>4. ASSUME NEW e, NEW m, e \in ManifestEdges(w, m), e.relation = "contains"
      PROVE  \E o \in Bound(m) :
               e = Edge(<<"manifest", m>>, "contains", <<"operation", o>>, w.manifest[m])
  <2>1. \/ \E o \in Bound(m) :
             e = Edge(<<"manifest", m>>, "contains", <<"operation", o>>, w.manifest[m])
        \/ \E f, t, s : \E r \in {"protected_by", "requests", "authorizes", "produces"} :
             e = Edge(f, r, t, s)
    BY <1>4, Zenon DEF ManifestEdges
  <2> QED
    BY <1>4, <2>1, EdgeFields
<1>5. ASSUME NEW e, NEW m \in Manifests, NEW o \in Bound(m), w.manifest[m] # "none",
             e = Edge(<<"manifest", m>>, "contains", <<"operation", o>>, w.manifest[m])
      PROVE  e \in Project(w, log).edges
  <2>1. e \in ManifestEdges(w, m) /\ m \in manifests
    BY <1>5, Zenon DEF ManifestEdges
  <2>2. e \in UNION {ManifestEdges(w, k) : k \in manifests}
    BY <2>1
  <2>3. e \in Project(w, log).edges
    <3> HIDE DEF ops, manifests
    <3> QED
      BY <1>1, <2>2, OfThree
  <2> QED
    BY <1>5, <2>3, EdgeFields
<1>6. ASSUME NEW e \in Project(w, log).edges, e.relation = "contains"
      PROVE  \E m \in Manifests : \E o \in Bound(m) :
               /\ w.manifest[m] # "none"
               /\ e = Edge(<<"manifest", m>>, "contains", <<"operation", o>>, w.manifest[m])
  <2>1. e \in UNION {ManifestEdges(w, m) : m \in manifests}
    <3>1. e \notin UNION {OperationEdges(w, o) : o \in ops}
      BY <1>2, <1>6
    <3> HIDE DEF ops, manifests
    <3> QED
      BY <1>1, <1>3, <1>6, <3>1, OfThree
  <2>2. PICK m \in manifests : e \in ManifestEdges(w, m)
    BY <2>1
  <2> QED
    BY <1>4, <1>6, <2>2
<1> QED
  BY <1>5, <1>6

\* Containment, by the ids of its ends.
LEMMA ContainsEnds ==
  ASSUME NEW w, NEW log, NEW k, NEW e \in Project(w, log).edges, e.relation = "contains",
         e.from = <<"manifest", k>>
  PROVE  /\ k \in Manifests /\ w.manifest[k] # "none"
         /\ \E o \in Bound(k) : e.to = <<"operation", o>>
<1>1. PICK m \in Manifests : \E o \in Bound(m) :
        /\ w.manifest[m] # "none"
        /\ e = Edge(<<"manifest", m>>, "contains", <<"operation", o>>, w.manifest[m])
  BY ContainsEdge
<1>2. PICK o \in Bound(m) :
        /\ w.manifest[m] # "none"
        /\ e = Edge(<<"manifest", m>>, "contains", <<"operation", o>>, w.manifest[m])
  BY <1>1
<1>3. e.to = <<"operation", o>> /\ e.from = <<"manifest", m>>
  BY <1>2, EdgeFields
<1>4. m = k
  BY <1>3
<1> QED
  BY <1>2, <1>3, <1>4

-----------------------------------------------------------------------------
(* What the parts of an orientation say of the ledgers.                    *)

\* The children of the request's manifest that are there.
LEMMA ContainedChildren ==
  ASSUME NEW w, NEW log, NEW q
  PROVE  \A o : o \in Contained(Project(w, log), q) <=>
                  /\ q.manifest \in Manifests /\ w.manifest[q.manifest] # "none"
                  /\ o \in Bound(q.manifest) /\ o \in Ops /\ w.status[o] # "none"
<1> SUFFICES ASSUME NEW o
             PROVE  o \in Contained(Project(w, log), q) <=>
                      /\ q.manifest \in Manifests /\ w.manifest[q.manifest] # "none"
                      /\ o \in Bound(q.manifest) /\ o \in Ops /\ w.status[o] # "none"
  OBVIOUS
<1> DEFINE Holds(id) == \E e \in Project(w, log).edges :
                          e.relation = "contains" /\ e.to = id /\ e.from = <<"manifest", q.manifest>>
           k == q.manifest
<1>1. ASSUME NEW id, Holds(id)
      PROVE  /\ k \in Manifests /\ w.manifest[k] # "none"
             /\ \E c \in Bound(k) : id = <<"operation", c>>
  <2>1. PICK e \in Project(w, log).edges :
          e.relation = "contains" /\ e.to = id /\ e.from = <<"manifest", q.manifest>>
    BY <1>1
  <2>2. e.from = <<"manifest", k>>
    BY <2>1
  <2> HIDE DEF k
  <2>3. /\ k \in Manifests /\ w.manifest[k] # "none"
        /\ \E c \in Bound(k) : e.to = <<"operation", c>>
    BY <2>1, <2>2, ContainsEnds
  <2> QED
    BY <2>1, <2>3
<1>2. o \in Contained(Project(w, log), q) <=>
        \E n \in Project(w, log).nodes : n.kind = "operation" /\ Holds(n.id) /\ o = n.op
  BY DEF Contained
<1>5. ASSUME k \in Manifests, w.manifest[k] # "none", o \in Bound(k)
      PROVE  Holds(<<"operation", o>>)
  <2> DEFINE e == Edge(<<"manifest", k>>, "contains", <<"operation", o>>, w.manifest[k])
  <2>1. e \in Project(w, log).edges
    BY <1>5, ContainsEdge
  <2>2. e.relation = "contains" /\ e.to = <<"operation", o>> /\ e.from = <<"manifest", k>>
    BY EdgeFields
  <2> HIDE DEF e
  <2> QED
    BY <2>1, <2>2
<1> HIDE DEF Holds
<1>3. ASSUME NEW n \in Project(w, log).nodes, n.kind = "operation", Holds(n.id), o = n.op
      PROVE  /\ k \in Manifests /\ w.manifest[k] # "none"
             /\ o \in Bound(k) /\ o \in Ops /\ w.status[o] # "none"
  <2>1. PICK d \in Ops : /\ w.status[d] # "none"
                         /\ n = Node("operation", d, Kind[d], w.status[d], d, None, None)
    BY <1>3, OperationNode
  <2>2. n.id = <<"operation", d>> /\ n.op = d
    BY <2>1, NodeFields
  <2>3. /\ k \in Manifests /\ w.manifest[k] # "none"
        /\ \E c \in Bound(k) : n.id = <<"operation", c>>
    BY <1>1, <1>3
  <2> QED
    BY <1>3, <2>1, <2>2, <2>3
<1>4. ASSUME k \in Manifests, w.manifest[k] # "none",
             o \in Bound(k), o \in Ops, w.status[o] # "none"
      PROVE  \E n \in Project(w, log).nodes : n.kind = "operation" /\ Holds(n.id) /\ o = n.op
  <2> DEFINE n == Node("operation", o, Kind[o], w.status[o], o, None, None)
  <2>1. n \in Project(w, log).nodes /\ n.kind = "operation"
    BY <1>4, OperationNode
  <2>2. n.id = <<"operation", o>> /\ n.op = o
    BY NodeFields
  <2>3. Holds(n.id)
    BY <1>5, <1>4, <2>2
  <2> HIDE DEF n
  <2> QED
    BY <2>1, <2>2, <2>3
<1> QED
  BY <1>2, <1>3, <1>4

\* The fresh proofs of a category are the operations that are proven in time.
LEMMA FreshCandidates ==
  ASSUME NEW w, NEW log, NEW q, NEW late, NEW c
  PROVE  \A o : o \in Candidates(Project(w, log), q, late, c) <=>
                  /\ o \in Ops /\ w.status[o] = "proven" /\ Kind[o] = c /\ o \notin late
                  /\ o = q.op \/ o \in Contained(Project(w, log), q)
<1> DEFINE graph == Project(w, log)
           X == {x \in graph.nodes :
                   /\ x.kind = "operation" /\ x.label = c /\ Freshness(x, late)
                   /\ x.op = q.op \/ x.op \in Contained(graph, q)}
<1>1. Candidates(graph, q, late, c) = {n.op : n \in X}
  BY DEF Candidates
<1> SUFFICES ASSUME NEW o
             PROVE  (\E n \in X : o = n.op) <=>
                      /\ o \in Ops /\ w.status[o] = "proven" /\ Kind[o] = c /\ o \notin late
                      /\ o = q.op \/ o \in Contained(graph, q)
  BY <1>1
<1>2. ASSUME NEW n \in X, o = n.op
      PROVE  /\ o \in Ops /\ w.status[o] = "proven" /\ Kind[o] = c /\ o \notin late
             /\ o = q.op \/ o \in Contained(graph, q)
  <2>1. n \in graph.nodes /\ n.kind = "operation" /\ n.label = c /\ Freshness(n, late)
        /\ (n.op = q.op \/ n.op \in Contained(graph, q))
    BY <1>2
  <2>2. PICK d \in Ops : /\ w.status[d] # "none"
                         /\ n = Node("operation", d, Kind[d], w.status[d], d, None, None)
    BY <2>1, OperationNode
  <2>3. n.label = Kind[d] /\ n.op = d /\ n.state = w.status[d]
    BY <2>2, NodeFields
  <2> QED
    BY <1>2, <2>1, <2>3 DEF Freshness
<1>3. ASSUME o \in Ops, w.status[o] = "proven", Kind[o] = c, o \notin late,
             o = q.op \/ o \in Contained(graph, q)
      PROVE  \E n \in X : o = n.op
  <2> DEFINE n == Node("operation", o, Kind[o], w.status[o], o, None, None)
  <2>1. n.label = Kind[o] /\ n.op = o /\ n.state = w.status[o]
    BY NodeFields
  <2>2. n \in graph.nodes /\ n.kind = "operation"
    BY <1>3, OperationNode
  <2>3. Freshness(n, late)
    BY <1>3, <2>1 DEF Freshness
  <2> HIDE DEF n, graph
  <2> QED
    BY <1>3, <2>1, <2>2, <2>3
<1> QED
  BY <1>2, <1>3

\* An operation is approved by its own record, and below a manifest by the record
\* of that manifest as well.
LEMMA ApprovedOperation ==
  ASSUME ConsequenceAssumption, NEW w, IsLedger(w), NEW log, NEW q, NEW o \in Ops,
         q.manifest \in Manifests \cup {None}
  PROVE  OperationApproved(Project(w, log), q, o) <=>
           /\ w.status[o] # "none" /\ w.auth[o].status = "approved"
           /\ q.manifest # None =>
                /\ w.manifest[q.manifest] # "none" /\ w.mauth[q.manifest] = "approved"
                /\ w.auth[o].manifest = q.manifest
<1> DEFINE graph == Project(w, log)
           approvals == {n \in graph.nodes : n.kind = "authorization" /\ n.state = "approved"}
           aggregate == \E n \in approvals : n.op = None /\ n.manifest = q.manifest
<1>1. OperationApproved(graph, q, o) <=>
        \E n \in approvals : /\ n.op = o
                             /\ q.manifest # None => aggregate /\ n.source = q.manifest
  BY DEF OperationApproved
<1>2. \A n : n \in approvals <=>
        \/ \E d \in Ops :
             /\ w.status[d] # "none" /\ w.auth[d].status = "approved"
             /\ n = Node("authorization", d, "approved", "approved", d,
                         w.auth[d].manifest, w.auth[d].manifest)
        \/ \E m \in Manifests :
             /\ w.manifest[m] # "none" /\ w.mauth[m] = "approved"
             /\ n = Node("authorization", m, "approved", "approved", None, m, None)
  <2>1. ASSUME NEW n, n \in approvals
        PROVE  \/ \E d \in Ops :
                    /\ w.status[d] # "none" /\ w.auth[d].status = "approved"
                    /\ n = Node("authorization", d, "approved", "approved", d,
                                w.auth[d].manifest, w.auth[d].manifest)
               \/ \E m \in Manifests :
                    /\ w.manifest[m] # "none" /\ w.mauth[m] = "approved"
                    /\ n = Node("authorization", m, "approved", "approved", None, m, None)
    <3>1. n \in graph.nodes /\ n.kind = "authorization" /\ n.state = "approved"
      BY <2>1
    <3>2. \/ \E d \in Ops :
               /\ w.status[d] # "none"
               /\ n = Node("authorization", d, w.auth[d].status, w.auth[d].status, d,
                           w.auth[d].manifest, w.auth[d].manifest)
          \/ \E m \in Manifests :
               /\ w.manifest[m] # "none"
               /\ n = Node("authorization", m, w.mauth[m], w.mauth[m], None, m, None)
      BY <3>1, AuthorizationNode
    <3>3. \A d : n = Node("authorization", d, w.auth[d].status, w.auth[d].status, d,
                          w.auth[d].manifest, w.auth[d].manifest) => w.auth[d].status = "approved"
      BY <3>1, NodeFields
    <3>4. \A m : n = Node("authorization", m, w.mauth[m], w.mauth[m], None, m, None) =>
                   w.mauth[m] = "approved"
      BY <3>1, NodeFields
    <3> QED
      BY <3>2, <3>3, <3>4
  <2>2. ASSUME NEW n,
               \/ \E d \in Ops :
                    /\ w.status[d] # "none" /\ w.auth[d].status = "approved"
                    /\ n = Node("authorization", d, "approved", "approved", d,
                                w.auth[d].manifest, w.auth[d].manifest)
               \/ \E m \in Manifests :
                    /\ w.manifest[m] # "none" /\ w.mauth[m] = "approved"
                    /\ n = Node("authorization", m, "approved", "approved", None, m, None)
        PROVE  n \in approvals
    <3>1. n.state = "approved"
      BY <2>2, NodeFields
    <3>2. \A d \in Ops : w.auth[d].status = "approved" =>
            w.auth[d] # [status |-> "absent", manifest |-> None]
      OBVIOUS
    <3>3. \/ \E d \in Ops :
               /\ w.status[d] # "none" /\ w.auth[d] # [status |-> "absent", manifest |-> None]
               /\ n = Node("authorization", d, w.auth[d].status, w.auth[d].status, d,
                           w.auth[d].manifest, w.auth[d].manifest)
          \/ \E m \in Manifests :
               /\ w.manifest[m] # "none" /\ w.mauth[m] # "absent"
               /\ n = Node("authorization", m, w.mauth[m], w.mauth[m], None, m, None)
      BY <2>2, <3>2
    <3>4. n \in graph.nodes /\ n.kind = "authorization"
      BY <3>3, AuthorizationNode
    <3> QED
      BY <3>1, <3>4
  <2> HIDE DEF approvals
  <2> QED
    BY <2>1, <2>2
<1>n. \A d, m : Node("authorization", d, "approved", "approved", d, m, m).op = d
                /\ Node("authorization", d, "approved", "approved", d, m, m).source = m
  BY NodeFields
<1>m. \A m : Node("authorization", m, "approved", "approved", None, m, None).op = None
             /\ Node("authorization", m, "approved", "approved", None, m, None).manifest = m
  BY NodeFields
<1>x. None \notin Ops /\ None \notin Manifests
  BY DEF ConsequenceAssumption
<1>3. q.manifest # None =>
        (aggregate <=> w.manifest[q.manifest] # "none" /\ w.mauth[q.manifest] = "approved")
  <2> HIDE DEF approvals
  <2> SUFFICES ASSUME q.manifest # None
               PROVE  aggregate <=>
                        w.manifest[q.manifest] # "none" /\ w.mauth[q.manifest] = "approved"
    OBVIOUS
  <2>1. ASSUME aggregate PROVE w.manifest[q.manifest] # "none" /\ w.mauth[q.manifest] = "approved"
    <3>1. PICK n \in approvals : n.op = None /\ n.manifest = q.manifest
      BY <2>1
    <3>2. PICK m \in Manifests :
            /\ w.manifest[m] # "none" /\ w.mauth[m] = "approved"
            /\ n = Node("authorization", m, "approved", "approved", None, m, None)
      BY <1>2, <1>n, <1>x, <3>1
    <3> QED
      BY <1>m, <3>1, <3>2
  <2>2. ASSUME w.manifest[q.manifest] # "none", w.mauth[q.manifest] = "approved" PROVE aggregate
    <3> DEFINE n == Node("authorization", q.manifest, "approved", "approved", None, q.manifest, None)
    <3>1. n \in approvals
      BY <1>2, <2>2
    <3>2. n.op = None /\ n.manifest = q.manifest
      BY <1>m
    <3> QED
      BY <3>1, <3>2
  <2> QED
    BY <2>1, <2>2
<1>4. (\E n \in approvals : n.op = o /\ (q.manifest # None => n.source = q.manifest)) <=>
        /\ w.status[o] # "none" /\ w.auth[o].status = "approved"
        /\ q.manifest # None => w.auth[o].manifest = q.manifest
  <2> HIDE DEF approvals
  <2>1. ASSUME NEW n \in approvals, n.op = o, q.manifest # None => n.source = q.manifest
        PROVE  /\ w.status[o] # "none" /\ w.auth[o].status = "approved"
               /\ q.manifest # None => w.auth[o].manifest = q.manifest
    <3>1. PICK d \in Ops :
             /\ w.status[d] # "none" /\ w.auth[d].status = "approved"
             /\ n = Node("authorization", d, "approved", "approved", d,
                         w.auth[d].manifest, w.auth[d].manifest)
      BY <1>2, <1>m, <1>x, <2>1
    <3> QED
      BY <1>n, <2>1, <3>1
  <2>2. ASSUME w.status[o] # "none", w.auth[o].status = "approved",
               q.manifest # None => w.auth[o].manifest = q.manifest
        PROVE  \E n \in approvals : n.op = o /\ (q.manifest # None => n.source = q.manifest)
    <3> DEFINE n == Node("authorization", o, "approved", "approved", o,
                         w.auth[o].manifest, w.auth[o].manifest)
    <3>1. n \in approvals
      BY <1>2, <2>2
    <3>2. n.op = o /\ n.source = w.auth[o].manifest
      BY <1>n
    <3> QED
      BY <2>2, <3>1, <3>2
  <2> QED
    BY <2>1, <2>2
<1> HIDE DEF approvals, aggregate
<1> QED
  BY <1>1, <1>3, <1>4

\* A fresh proof is one of an operation, and an operation has an adapter.
LEMMA CandidateKind ==
  ASSUME ConsequenceAssumption, NEW w, NEW log, NEW q, NEW late, NEW c,
         Candidates(Project(w, log), q, late, c) # {}
  PROVE  c \in Exact
<1>1. PICK o : o \in Candidates(Project(w, log), q, late, c)
  OBVIOUS
<1>2. o \in Ops /\ Kind[o] = c
  BY <1>1, FreshCandidates
<1> QED
  BY <1>2 DEF ConsequenceAssumption

\* What each answer to "what is missing" says.
LEMMA RequirementCases ==
  ASSUME NEW graph, NEW q, NEW late, NEW c
  PROVE  LET r == Requirement(graph, q, late, c)
             candidates == Candidates(graph, q, late, c)
         IN  /\ r = "adapter_required" <=> c \notin Exact
             /\ r = "prepare_proof" <=> c \in Exact /\ candidates = {}
             /\ r = "human_approval" <=>
                  /\ c \in Exact /\ candidates # {}
                  /\ \A o \in candidates : ~OperationApproved(graph, q, o)
             /\ r = "exact_commit_tool" <=>
                  c \in Exact /\ \E o \in candidates : OperationApproved(graph, q, o)
<1> DEFINE candidates == Candidates(graph, q, late, c)
           approved == \E o \in candidates : OperationApproved(graph, q, o)
           r == Requirement(graph, q, late, c)
<1>1. approved => candidates # {}
  OBVIOUS
<1>2. CASE c \notin Exact
  <2>1. r = "adapter_required"
    BY <1>2 DEF Requirement
  <2> QED
    BY <1>2, <2>1
<1>3. CASE c \in Exact /\ candidates = {}
  <2>1. r = "prepare_proof"
    BY <1>3 DEF Requirement
  <2> QED
    BY <1>3, <2>1
<1>4. CASE c \in Exact /\ candidates # {} /\ approved
  <2>1. r = "exact_commit_tool"
    BY <1>4 DEF Requirement
  <2> QED
    BY <1>4, <2>1
<1>5. CASE c \in Exact /\ candidates # {} /\ ~approved
  <2>1. r = "human_approval"
    BY <1>5 DEF Requirement
  <2> QED
    BY <1>5, <2>1
<1> QED
  BY <1>1, <1>2, <1>3, <1>4, <1>5

\* What the readiness vector says is what the requirements say.
OneStory(graph, q, late) ==
  LET ready == Readiness(graph, q, late)
      needs == {Requirement(graph, q, late, c) : c \in q.found}
  IN  /\ ready.authority = 2 <=> needs = {"exact_commit_tool"}
      /\ ready.recoveryCoverage = 0 <=> "adapter_required" \in needs
      /\ ready.recoveryCoverage = 2 <=>
           q.found # {} /\ needs \subseteq {"human_approval", "exact_commit_tool"}

\* The readiness vector and the requirements are computed apart, and agree.
LEMMA ReadinessAgrees ==
  ASSUME ConsequenceAssumption, NEW w, NEW log, NEW q, NEW late
  PROVE  OneStory(Project(w, log), q, late)
<1> DEFINE graph == Project(w, log)
           fresh(c) == Candidates(graph, q, late, c)
           tool(c) == \E o \in fresh(c) : OperationApproved(graph, q, o)
           need(c) == Requirement(graph, q, late, c)
           ready == Readiness(graph, q, late)
           covered == {c \in q.found : fresh(c) # {}}
           approved == {c \in q.found : tool(c)}
           found == q.found
<1>1. \A c : fresh(c) # {} => c \in Exact
  BY CandidateKind
<1>2. \A c : tool(c) => fresh(c) # {}
  OBVIOUS
<1>3. /\ \A c : need(c) = "adapter_required" <=> c \notin Exact
      /\ \A c : need(c) = "exact_commit_tool" <=> c \in Exact /\ tool(c)
      /\ \A c : need(c) \in {"human_approval", "exact_commit_tool"} <=>
                  c \in Exact /\ fresh(c) # {}
  BY RequirementCases
<1>4. /\ ready.authority = 2 <=> found # {} /\ approved = found
      /\ ready.recoveryCoverage = 0 <=> found # {} /\ ~(found \subseteq Exact)
      /\ ready.recoveryCoverage = 2 <=> found # {} /\ found \subseteq Exact /\ covered = found
  <2>1. ready = [recoveryCoverage |->
                   IF found = {} THEN 3
                   ELSE IF ~(found \subseteq Exact) THEN 0
                   ELSE IF covered = found THEN 2 ELSE 1,
                 authority |->
                   IF found # {} /\ approved = found THEN 2
                   ELSE IF covered # {} THEN 1 ELSE 0]
    BY DEF Readiness
  <2> HIDE DEF ready, covered, approved, found
  <2> QED
    BY <2>1
<1> HIDE DEF need, fresh, tool, ready
<1>5. approved = found <=> \A c \in found : tool(c)
  OBVIOUS
<1>6. covered = found <=> \A c \in found : fresh(c) # {}
  OBVIOUS
<1> HIDE DEF approved, covered, found
<1> DEFINE needs == {need(c) : c \in found}
<1>7. needs = {"exact_commit_tool"} <=> found # {} /\ \A c \in found : c \in Exact /\ tool(c)
  <2>1. needs = {"exact_commit_tool"} <=>
          found # {} /\ \A c \in found : need(c) = "exact_commit_tool"
    <3>1. ASSUME needs = {"exact_commit_tool"}
          PROVE  found # {} /\ \A c \in found : need(c) = "exact_commit_tool"
      BY <3>1
    <3>2. ASSUME found # {}, \A c \in found : need(c) = "exact_commit_tool"
          PROVE  needs = {"exact_commit_tool"}
      BY <3>2
    <3> QED
      BY <3>1, <3>2
  <2> QED
    BY <1>3, <2>1
<1>8. "adapter_required" \in needs <=> \E c \in found : c \notin Exact
  BY <1>3
<1>9. needs \subseteq {"human_approval", "exact_commit_tool"} <=>
        \A c \in found : c \in Exact /\ fresh(c) # {}
  <2>1. needs \subseteq {"human_approval", "exact_commit_tool"} <=>
          \A c \in found : need(c) \in {"human_approval", "exact_commit_tool"}
    OBVIOUS
  <2> QED
    BY <1>3, <2>1
<1>10. /\ ready.authority = 2 <=> needs = {"exact_commit_tool"}
       /\ ready.recoveryCoverage = 0 <=> "adapter_required" \in needs
       /\ ready.recoveryCoverage = 2 <=>
            found # {} /\ needs \subseteq {"human_approval", "exact_commit_tool"}
  <2> HIDE DEF needs
  <2> QED
    BY <1>1, <1>2, <1>4, <1>5, <1>6, <1>7, <1>8, <1>9
<1> QED
  BY <1>10 DEF need, ready, found, OneStory
Met(graph, q, late) == \A item \in SafeCut(graph, q, late) : item.satisfied

\* A safe cut is met when every effect is left with its commit tool, and several
\* effects have a manifest that fits.
LEMMA CutMet ==
  ASSUME NEW graph, NEW q, NEW late
  PROVE  Met(graph, q, late) <=>
           /\ Cardinality(q.found) \notin {0, 1} => ManifestFits(graph, q)
           /\ \A c \in q.found : Requirement(graph, q, late, c) = "exact_commit_tool"
<1> DEFINE tool(c) == Requirement(graph, q, late, c)
           one(c) == Item(c, tool(c), tool(c) = "exact_commit_tool")
           all == Item("multi-effect", "split_manifest", ManifestFits(graph, q))
           several == {all : n \in {Cardinality(q.found)} \ {0, 1}}
           each == {one(c) : c \in q.found}
<1>1. SafeCut(graph, q, late) = several \cup each
  BY DEF SafeCut
<1>2. all.satisfied <=> ManifestFits(graph, q)
  BY Zenon DEF Item
<1>3. \A c : one(c).satisfied <=> tool(c) = "exact_commit_tool"
  BY Zenon DEF Item
<1> HIDE DEF all, one, tool
<1>4. (\A item \in several : item.satisfied) <=> (Cardinality(q.found) \notin {0, 1} => all.satisfied)
  OBVIOUS
<1>5. (\A item \in each : item.satisfied) <=> \A c \in q.found : one(c).satisfied
  OBVIOUS
<1>6. (\A item \in SafeCut(graph, q, late) : item.satisfied) <=>
        (\A item \in several : item.satisfied) /\ (\A item \in each : item.satisfied)
  <2> HIDE DEF several, each
  <2> QED
    BY <1>1
<1> HIDE DEF several, each
<1> QED
  BY <1>2, <1>3, <1>4, <1>5, <1>6 DEF tool, Met

LEMMA KindsOfChildren ==
  ASSUME ConsequenceAssumption, NEW m \in Manifests
  PROVE  Bound(m) \subseteq Ops /\ IsFiniteSet({Kind[o] : o \in Bound(m)})
<1> DEFINE s == Children[m]
           f == [i \in 1..Len(s) |-> Kind[s[i]]]
           T == {Kind[o] : o \in Bound(m)}
<1>1. s \in Seq(Ops) /\ DOMAIN s = 1..Len(s) /\ Len(s) \in Nat
  BY DEF ConsequenceAssumption
<1>2. \A o : o \in Bound(m) <=> \E i \in 1..Len(s) : o = s[i]
  BY <1>1 DEF Bound, Range
<1>3. Bound(m) \subseteq Ops
  BY <1>1, <1>2
<1>4. f \in Surjection(1..Len(s), T)
  <2>1. \A i \in 1..Len(s) : f[i] \in T
    BY <1>2
  <2>2. \A t \in T : \E i \in 1..Len(s) : f[i] = t
    BY <1>2
  <2>3. f \in [1..Len(s) -> T]
    BY <2>1
  <2> HIDE DEF f, T, s
  <2> QED
    BY <2>2, <2>3 DEF Surjection
<1>5. IsFiniteSet(1..Len(s))
  BY <1>1, FS_Interval
<1>6. IsFiniteSet(T)
  <2> HIDE DEF f, T, s
  <2> QED
    BY <1>4, <1>5, FS_Surjection
<1> QED
  BY <1>3, <1>6

\* An approval by m, by its fields and as a record.
LEMMA LedgerAuth ==
  ASSUME NEW w, IsLedger(w), NEW o \in Ops
  PROVE  \A m : w.auth[o].status = "approved" /\ w.auth[o].manifest = m <=>
                  w.auth[o] = [status |-> "approved", manifest |-> m]
<1>1. w.auth[o] \in [status : {"absent", "pending", "approved", "expired"},
                     manifest : Manifests \cup {None}]
  BY DEF IsLedger
<1> QED
  BY <1>1

\* Who asks about one effect and names its operation is sent to the commit tool
\* when the operation is proven, its proof fresh and it is approved on its own.
LEMMA OneEffectCut ==
  ASSUME ConsequenceAssumption, NEW w, IsLedger(w), NEW log, NEW o \in Ops,
         w.auth[o].manifest = None
  PROVE  Met(Project(w, log), [found |-> {Kind[o]}, op |-> o, manifest |-> None], w.late) <=>
           /\ w.status[o] = "proven" /\ o \notin w.late
           /\ w.auth[o] = [status |-> "approved", manifest |-> None]
<1> DEFINE G == Project(w, log)
           q == [found |-> {Kind[o]}, op |-> o, manifest |-> None]
<1>1. q.found = {Kind[o]} /\ q.op = o /\ q.manifest = None /\ None \notin Manifests
      /\ Kind[o] \in Exact
  BY DEF ConsequenceAssumption
<1> HIDE DEF q
<1>2. Cardinality(q.found) = 1
  BY <1>1, FS_Singleton
<1>3. Met(G, q, w.late) <=>
        Requirement(G, q, w.late, Kind[o]) = "exact_commit_tool"
  <2>1. Cardinality(q.found) \in {0, 1}
    BY <1>2
  <2>2. Met(G, q, w.late) <=>
          \A c \in q.found : Requirement(G, q, w.late, c) = "exact_commit_tool"
    BY <2>1, CutMet
  <2> QED
    BY <1>1, <2>2
<1>4. \A x : x \in Candidates(G, q, w.late, Kind[o]) <=>
               x = o /\ w.status[o] = "proven" /\ o \notin w.late
  <2>1. \A x : x \notin Contained(G, q)
    BY <1>1, ContainedChildren
  <2> QED
    BY <1>1, <2>1, FreshCandidates
<1>5. Requirement(G, q, w.late, Kind[o]) = "exact_commit_tool" <=>
        w.status[o] = "proven" /\ o \notin w.late /\ OperationApproved(G, q, o)
  BY <1>1, <1>4, RequirementCases
<1>6. OperationApproved(G, q, o) <=> w.status[o] # "none" /\ w.auth[o].status = "approved"
  BY <1>1, ApprovedOperation
<1>7. w.auth[o].status = "approved" <=> w.auth[o] = [status |-> "approved", manifest |-> None]
  BY LedgerAuth
<1>8. Met(G, q, w.late) <=>
        /\ w.status[o] = "proven" /\ o \notin w.late
        /\ w.auth[o] = [status |-> "approved", manifest |-> None]
  BY <1>3, <1>5, <1>6, <1>7
<1> QED
  BY <1>8 DEF q

\* No two children of m are of one kind; what is approved with m is kept for m; and
\* m is prepared and approved with all its children, in time.
Distinct(m) == IsInjective([i \in DOMAIN Children[m] |-> Kind[Children[m][i]]])
Kept(w, m) ==
  \A o \in Bound(m) :
    /\ w.manifest[m] # "none" => w.status[o] # "none"
    /\ (w.manifest[m] = "prepared" /\ w.auth[o] = [status |-> "approved", manifest |-> m]
        /\ o \notin w.late) => w.status[o] = "proven"
Ready(w, m) ==
  /\ w.manifest[m] = "prepared" /\ w.mauth[m] = "approved"
  /\ Bound(m) \cap w.late = {}
  /\ \A o \in Bound(m) : w.auth[o] = [status |-> "approved", manifest |-> m]

\* Who asks about several effects and names a manifest with one child of each kind
\* is sent to the commit tools when the effects are those of the manifest, which is
\* prepared and approved with all of its children, and every proof is fresh.
LEMMA ManifestCut ==
  ASSUME ConsequenceAssumption, NEW w, IsLedger(w), NEW log, NEW m \in Manifests, NEW found,
         Cardinality(found) > 1, Distinct(m), w.manifest[m] # "none", Kept(w, m)
  PROVE  Met(Project(w, log), [found |-> found, op |-> None, manifest |-> m], w.late) <=>
           found = {Kind[o] : o \in Bound(m)} /\ Ready(w, m)
<1> DEFINE G == Project(w, log)
           q == [found |-> found, op |-> None, manifest |-> m]
           kinds == {Kind[o] : o \in Bound(m)}
           own(o) == w.auth[o] = [status |-> "approved", manifest |-> m]
<1>0. \A o \in Bound(m) :
        /\ w.status[o] # "none"
        /\ (w.manifest[m] = "prepared" /\ own(o) /\ o \notin w.late) => w.status[o] = "proven"
  BY DEF Kept
<1>1. q.found = found /\ q.op = None /\ q.manifest = m
      /\ None \notin Ops /\ None \notin Manifests /\ q.manifest \in Manifests \cup {None}
      /\ \A o \in Ops : Kind[o] \in Exact
  BY DEF ConsequenceAssumption
<1> HIDE DEF q
<1>2. Bound(m) \subseteq Ops /\ IsFiniteSet(kinds)
  BY KindsOfChildren
<1>3. \A x : x \in Contained(G, q) <=> x \in Bound(m)
  BY <1>1, <1>2, ContainedChildren
<1>4. Contained(G, q) = Bound(m)
  <2> HIDE DEF G
  <2> QED
    BY <1>3
<1>5. \A x, y \in Bound(m) : Kind[x] = Kind[y] => x = y
  <2> DEFINE f == [i \in DOMAIN Children[m] |-> Kind[Children[m][i]]]
  <2>1. \A x \in Bound(m) : \E i \in DOMAIN Children[m] : x = Children[m][i]
    BY DEF Bound, Range
  <2>2. \A i, j \in DOMAIN Children[m] : f[i] = f[j] => i = j
    BY DEF IsInjective, Distinct
  <2> QED
    BY <2>1, <2>2
<1>6. \A c, x : x \in Candidates(G, q, w.late, c) <=>
        x \in Bound(m) /\ w.status[x] = "proven" /\ Kind[x] = c /\ x \notin w.late
  BY <1>1, <1>2, <1>3, FreshCandidates
<1>7. \A x \in Bound(m) : OperationApproved(G, q, x) <=> own(x) /\ w.mauth[m] = "approved"
  <2> SUFFICES ASSUME NEW x \in Bound(m)
               PROVE  OperationApproved(G, q, x) <=> own(x) /\ w.mauth[m] = "approved"
    OBVIOUS
  <2>1. x \in Ops /\ w.status[x] # "none"
    BY <1>0, <1>2
  <2>2. OperationApproved(G, q, x) <=>
          /\ w.auth[x].status = "approved" /\ w.auth[x].manifest = m
          /\ w.mauth[m] = "approved"
    BY <1>1, <2>1, ApprovedOperation
  <2>3. w.auth[x].status = "approved" /\ w.auth[x].manifest = m <=> own(x)
    BY <2>1, LedgerAuth
  <2> QED
    BY <2>2, <2>3
<1>8. \A c : Requirement(G, q, w.late, c) = "exact_commit_tool" <=>
        /\ c \in Exact /\ w.mauth[m] = "approved"
        /\ \E x \in Bound(m) : Kind[x] = c /\ w.status[x] = "proven" /\ x \notin w.late /\ own(x)
  <2> HIDE DEF own, G
  <2> SUFFICES ASSUME NEW c
               PROVE  Requirement(G, q, w.late, c) = "exact_commit_tool" <=>
                        /\ c \in Exact /\ w.mauth[m] = "approved"
                        /\ \E x \in Bound(m) : /\ Kind[x] = c /\ w.status[x] = "proven"
                                               /\ x \notin w.late /\ own(x)
    OBVIOUS
  <2>1. Requirement(G, q, w.late, c) = "exact_commit_tool" <=>
          c \in Exact /\ \E o \in Candidates(G, q, w.late, c) : OperationApproved(G, q, o)
    BY RequirementCases
  <2> QED
    BY <1>6, <1>7, <2>1
<1>9. (\E n \in G.nodes : n.kind = "manifest" /\ n.manifest = m /\ n.state = "prepared")
        <=> w.manifest[m] = "prepared"
  <2>1. ASSUME NEW n \in G.nodes, n.kind = "manifest", n.manifest = m, n.state = "prepared"
        PROVE  w.manifest[m] = "prepared"
    <3>1. PICK k \in Manifests :
             /\ w.manifest[k] # "none"
             /\ n = Node("manifest", k, "recovery.manifest", w.manifest[k], None, k, None)
      BY <2>1, ManifestNode
    <3>2. n.manifest = k /\ n.state = w.manifest[k]
      BY <3>1, NodeFields
    <3> QED
      BY <2>1, <3>2
  <2>2. ASSUME w.manifest[m] = "prepared"
        PROVE  \E n \in G.nodes : n.kind = "manifest" /\ n.manifest = m /\ n.state = "prepared"
    <3> DEFINE n == Node("manifest", m, "recovery.manifest", w.manifest[m], None, m, None)
    <3>1. n \in G.nodes /\ n.kind = "manifest"
      BY ManifestNode
    <3>2. n.manifest = m /\ n.state = w.manifest[m]
      BY NodeFields
    <3> HIDE DEF n, G
    <3> QED
      BY <2>2, <3>1, <3>2
  <2> QED
    BY <2>1, <2>2
<1>10. ManifestFits(G, q) <=>
         /\ w.manifest[m] = "prepared"
         /\ Cardinality(found \cap Exact) = Cardinality(kinds)
         /\ found \cap Exact \subseteq kinds
  <2> HIDE DEF G
  <2> QED
    BY <1>1, <1>4, <1>9 DEF ManifestFits
<1>11. Cardinality(found) \notin {0, 1} /\ found # {}
  <2>1. Cardinality(found) # 0 /\ Cardinality(found) # 1
    OBVIOUS
  <2>2. Cardinality({}) = 0
    BY FS_EmptySet
  <2> QED
    BY <2>1, <2>2
<1>12. Met(G, q, w.late) <=>
         /\ ManifestFits(G, q)
         /\ \A c \in found : Requirement(G, q, w.late, c) = "exact_commit_tool"
  BY <1>1, <1>11, CutMet
<1> DEFINE admits == /\ found = kinds
                     /\ w.manifest[m] = "prepared" /\ w.mauth[m] = "approved"
                     /\ Bound(m) \cap w.late = {}
                     /\ \A o \in Bound(m) : own(o)
<1>13. ASSUME ManifestFits(G, q),
              \A c \in found : Requirement(G, q, w.late, c) = "exact_commit_tool"
       PROVE  admits
  <2> HIDE DEF G, kinds, own
  <2>1. found \subseteq Exact
    BY <1>8, <1>13
  <2>2. found \cap Exact = found
    BY <2>1
  <2>3. found = kinds
    BY <1>2, <1>10, <1>13, <2>2, FS_Subset
  <2>4. w.mauth[m] = "approved"
    BY <1>8, <1>11, <1>13
  <2>5. ASSUME NEW o \in Bound(m) PROVE o \notin w.late /\ own(o)
    <3>1. Kind[o] \in found
      BY <2>3 DEF kinds
    <3>2. PICK x \in Bound(m) : Kind[x] = Kind[o] /\ x \notin w.late /\ own(x)
      BY <1>8, <1>13, <3>1
    <3> QED
      BY <1>5, <3>2
  <2> QED
    BY <1>10, <1>13, <2>3, <2>4, <2>5
<1>14. ASSUME admits
       PROVE  /\ ManifestFits(G, q)
              /\ \A c \in found : Requirement(G, q, w.late, c) = "exact_commit_tool"
  <2>1. found \subseteq Exact
    BY <1>1, <1>2, <1>14
  <2>2. found \cap Exact = kinds
    BY <1>14, <2>1
  <2>3. ManifestFits(G, q)
    <3> HIDE DEF kinds
    <3> QED
      BY <1>10, <1>14, <2>2
  <2>4. ASSUME NEW c \in found PROVE Requirement(G, q, w.late, c) = "exact_commit_tool"
    <3>1. PICK x \in Bound(m) : Kind[x] = c
      BY <1>14, <2>4
    <3>2. own(x) /\ x \notin w.late /\ w.status[x] = "proven"
      BY <1>0, <1>14
    <3> HIDE DEF own, kinds
    <3> QED
      BY <1>8, <1>14, <2>1, <3>1, <3>2
  <2> QED
    BY <2>3, <2>4
<1>15. Met(G, q, w.late) <=> admits
  <2> HIDE DEF admits, G
  <2> QED
    BY <1>12, <1>13, <1>14
<1> QED
  BY <1>15 DEF q, Ready

-----------------------------------------------------------------------------
(* Recursion over the naturals, by sets: no nonempty set is without a least *)
(* number.                                                                  *)

LEMMA SetInduction ==
  ASSUME NEW S, 0 \in S, \A n \in Nat : n \in S => n + 1 \in S
  PROVE  Nat \subseteq S
<1> SUFFICES ASSUME Nat \ S # {} PROVE FALSE
  OBVIOUS
<1> DEFINE T == Nat \ S
<1>1. PICK x \in T : \A y \in T : ~ (<<y, x>> \in OpToRel(<, Nat))
  <2> HIDE DEF T
  <2>1. T \subseteq Nat /\ T # {}
    BY DEF T
  <2> QED
    BY <2>1, WFMin, NatLessThanWellFounded, Zenon
<1>2. \A y \in T : ~ (y < x)
  BY <1>1 DEF OpToRel
<1>3. x \in Nat /\ x # 0 /\ x \notin S
  OBVIOUS
<1>4. x - 1 \in Nat /\ x - 1 < x /\ (x - 1) + 1 = x
  BY <1>3
<1>5. x - 1 \in S
  BY <1>2, <1>4
<1> QED
  BY <1>3, <1>4, <1>5

\* What is computed by n turns of a step D from c.
Computes(f, c, D, n) ==
  /\ DOMAIN f = 0..n
  /\ f[0] = c
  /\ \A i \in 1..n : f[i] = D[f[i - 1]]

LEMMA Iteration ==
  ASSUME NEW T, NEW c \in T, NEW D \in [T -> T]
  PROVE  \A n \in Nat : \E f \in [0..n -> T] : Computes(f, c, D, n)
<1> DEFINE S == {n \in Nat : \E f \in [0..n -> T] : Computes(f, c, D, n)}
<1>1. 0 \in S
  <2> DEFINE f == [i \in 0..0 |-> c]
  <2>1. f \in [0..0 -> T]
    OBVIOUS
  <2>2. Computes(f, c, D, 0)
    BY DEF Computes
  <2> QED
    BY <2>1, <2>2, Zenon
<1>2. ASSUME NEW n \in Nat, n \in S PROVE n + 1 \in S
  <2>1. PICK f \in [0..n -> T] : Computes(f, c, D, n)
    BY <1>2
  <2> DEFINE g == [i \in 0..n + 1 |-> IF i = n + 1 THEN D[f[n]] ELSE f[i]]
  <2>2. g \in [0..n + 1 -> T]
    OBVIOUS
  <2>3. DOMAIN g = 0..n + 1 /\ g[0] = c
    BY <2>1 DEF Computes
  <2>4. ASSUME NEW i \in 1..n + 1 PROVE g[i] = D[g[i - 1]]
    BY <2>1 DEF Computes
  <2>5. Computes(g, c, D, n + 1)
    BY <2>3, <2>4, Zenon DEF Computes
  <2> HIDE DEF g
  <2> QED
    BY <2>2, <2>5
<1>3. Nat \subseteq S
  <2> HIDE DEF S
  <2> QED
    BY <1>1, <1>2, SetInduction
<1> QED
  BY <1>3

LEMMA IterationUnique ==
  ASSUME NEW T, NEW c \in T, NEW D \in [T -> T], NEW n \in Nat, NEW m \in Nat, NEW f, NEW g,
         Computes(f, c, D, n), Computes(g, c, D, m)
  PROVE  \A i \in Nat : i <= n /\ i <= m => f[i] = g[i]
<1> DEFINE S == {i \in Nat : i <= n /\ i <= m => f[i] = g[i]}
<1>1. 0 \in S
  BY DEF Computes
<1>2. ASSUME NEW i \in Nat, i \in S PROVE i + 1 \in S
  <2> SUFFICES ASSUME i + 1 <= n, i + 1 <= m PROVE f[i + 1] = g[i + 1]
    OBVIOUS
  <2>1. f[i] = g[i]
    BY <1>2
  <2>2. i + 1 \in 1..n /\ i + 1 \in 1..m /\ (i + 1) - 1 = i
    OBVIOUS
  <2>3. f[i + 1] = D[f[i]] /\ g[i + 1] = D[g[i]]
    BY <2>2 DEF Computes
  <2> QED
    BY <2>1, <2>3
<1>3. Nat \subseteq S
  <2> HIDE DEF S
  <2> QED
    BY <1>1, <1>2, SetInduction
<1> QED
  BY <1>3

\* ... and by any number of turns.
LEMMA Iterates ==
  ASSUME NEW T, NEW c \in T, NEW D \in [T -> T]
  PROVE  \E f \in [Nat -> T] : f[0] = c /\ \A n \in Nat : f[n + 1] = D[f[n]]
<1> DEFINE P(n) == CHOOSE h \in [0..n -> T] : Computes(h, c, D, n)
           k == [n \in Nat |-> P(n)[n]]
<1>1. \A n \in Nat : P(n) \in [0..n -> T] /\ Computes(P(n), c, D, n)
  BY Iteration, Zenon
<1> HIDE DEF P
<1>2. k[0] = c /\ k \in [Nat -> T]
  <2>1. \A n \in Nat : P(n)[n] \in T
    BY <1>1
  <2>2. P(0)[0] = c
    BY <1>1 DEF Computes
  <2> QED
    BY <2>1, <2>2
<1>3. ASSUME NEW n \in Nat PROVE k[n + 1] = D[k[n]]
  <2> DEFINE g == P(n)
             h == P(n + 1)
  <2>1. Computes(g, c, D, n) /\ Computes(h, c, D, n + 1)
    BY <1>1
  <2> HIDE DEF g, h
  <2>2. g[n] = h[n]
    BY <2>1, IterationUnique
  <2>3. h[n + 1] = D[h[n]]
    <3>1. n + 1 \in 1..n + 1 /\ (n + 1) - 1 = n
      OBVIOUS
    <3> QED
      BY <2>1, <3>1 DEF Computes
  <2>4. k[n + 1] = h[n + 1] /\ k[n] = g[n]
    BY DEF g, h
  <2> QED
    BY <2>2, <2>3, <2>4
<1> HIDE DEF k
<1> QED
  BY <1>2, <1>3

-----------------------------------------------------------------------------
(* The search in breadth, in any graph without loose ends.                 *)

Ids(graph) == {n.id : n \in graph.nodes}

WellFormed(graph) ==
  /\ IsFiniteSet(graph.nodes)
  /\ \A e \in graph.edges : e.from \in Ids(graph) /\ e.to \in Ids(graph)

\* Nothing leads out of C, and nothing into it.
Isolated(graph, C) == \A e \in graph.edges : e.from \in C <=> e.to \in C

LEMMA FiniteIds ==
  ASSUME NEW graph, IsFiniteSet(graph.nodes)
  PROVE  /\ IsFiniteSet(Ids(graph))
         /\ Cardinality(Ids(graph)) \in Nat /\ Cardinality(graph.nodes) \in Nat
         /\ Cardinality(Ids(graph)) <= Cardinality(graph.nodes)
<1> DEFINE f == [n \in graph.nodes |-> n.id]
<1>1. f \in Surjection(graph.nodes, Ids(graph))
  <2>1. \A n \in graph.nodes : f[n] \in Ids(graph)
    BY DEF Ids
  <2>2. \A x \in Ids(graph) : \E n \in graph.nodes : f[n] = x
    BY DEF Ids
  <2>3. f \in [graph.nodes -> Ids(graph)]
    BY <2>1
  <2> HIDE DEF f
  <2> QED
    BY <2>2, <2>3 DEF Surjection
<1>2. IsFiniteSet(Ids(graph)) /\ Cardinality(Ids(graph)) <= Cardinality(graph.nodes)
  <2> HIDE DEF f
  <2> QED
    BY <1>1, FS_Surjection
<1> QED
  BY <1>2, FS_CardinalityType

LEMMA NeighboursOf ==
  ASSUME NEW graph, NEW id, NEW x
  PROVE  x \in Neighbours(graph, id) <=>
           \E e \in graph.edges : (e.from = id /\ x = e.to) \/ (e.to = id /\ x = e.from)
BY DEF Neighbours

Queues(V) == [selected : SUBSET V, layer : SUBSET V, next : SUBSET V]

\* One turn of the search, up to maxNodes.
Turn(graph, maxNodes) ==
  [s \in Queues(Ids(graph)) |->
     IF Cardinality(s.selected) < maxNodes THEN Visit(graph, s) ELSE s]

LEMMA VisitFields ==
  ASSUME NEW graph, NEW V, NEW s \in Queues(V)
  PROVE  /\ s.layer = {} =>
              Visit(graph, s) = [selected |-> s.selected, layer |-> s.next \ s.selected,
                                 next |-> {}]
         /\ s.layer # {} => \E id \in s.layer :
              Visit(graph, s) = [selected |-> s.selected \cup {id}, layer |-> s.layer \ {id},
                                 next |-> s.next \cup (Neighbours(graph, id) \ s.selected)]
<1>1. CASE s.layer = {}
  <2> DEFINE n == s.next \ s.selected
  <2>1. Visit(graph, s) = [s EXCEPT !.layer = n, !.next = {}]
    BY <1>1 DEF Visit
  <2> HIDE DEF n
  <2>2. [s EXCEPT !.layer = n, !.next = {}] = [[s EXCEPT !.layer = n] EXCEPT !.next = {}]
    OBVIOUS
  <2>3. [s EXCEPT !.layer = n] = [selected |-> s.selected, layer |-> n, next |-> s.next]
    BY DEF Queues
  <2>4. ASSUME NEW q, q = [selected |-> s.selected, layer |-> n, next |-> s.next]
        PROVE  [q EXCEPT !.next = {}] = [selected |-> s.selected, layer |-> n, next |-> {}]
    BY <2>4
  <2>5. Visit(graph, s) = [selected |-> s.selected, layer |-> n, next |-> {}]
    BY <2>1, <2>2, <2>3, <2>4
  <2> QED
    BY <1>1, <2>5 DEF n
<1>2. CASE s.layer # {}
  <2> DEFINE id == CHOOSE x \in s.layer : TRUE
  <2>1. id \in s.layer
    BY <1>2
  <2>2. Visit(graph, s) = [selected |-> s.selected \cup {id}, layer |-> s.layer \ {id},
                           next |-> s.next \cup (Neighbours(graph, id) \ s.selected)]
    BY <1>2 DEF Visit
  <2> HIDE DEF id
  <2> QED
    BY <1>2, <2>1, <2>2
<1> QED
  BY <1>1, <1>2

\* What holds between the queues in every turn.
Searched(s) == s.selected \cup s.layer \cup s.next
SearchOK(graph, seeds, s) ==
  /\ s.selected \cap s.layer = {}
  /\ seeds \subseteq Searched(s)
  /\ s.selected \cup s.layer = seeds \/ seeds \subseteq s.selected
  /\ \A e \in graph.edges : /\ e.from \in s.selected => e.to \in Searched(s)
                            /\ e.to \in s.selected => e.from \in Searched(s)
  /\ \A C \in SUBSET Ids(graph) : seeds \subseteq C /\ Isolated(graph, C) => Searched(s) \subseteq C

\* By the i-th turn the search has reached its bound, or it is over, or it has
\* moved on with every turn: to a further node, or to the next layer.
Over(s) == s.layer = {} /\ s.next = {}
Progress(s, maxNodes, i) ==
  /\ Cardinality(s.selected) <= maxNodes
  /\ \/ Cardinality(s.selected) = maxNodes
     \/ Over(s)
     \/ s.layer # {} /\ 2 * Cardinality(s.selected) + 1 >= i
     \/ 2 * Cardinality(s.selected) >= i

LEMMA VisitStep ==
  ASSUME NEW graph, WellFormed(graph), NEW seeds \in SUBSET Ids(graph), NEW maxNodes \in Nat,
         NEW i \in Nat, NEW s \in Queues(Ids(graph)), Cardinality(s.selected) < maxNodes,
         SearchOK(graph, seeds, s), Progress(s, maxNodes, i)
  PROVE  /\ Visit(graph, s) \in Queues(Ids(graph))
         /\ SearchOK(graph, seeds, Visit(graph, s))
         /\ Progress(Visit(graph, s), maxNodes, i + 1)
<1> DEFINE V == Ids(graph)
           t == Visit(graph, s)
<1>s. s.selected \in SUBSET V /\ s.layer \in SUBSET V /\ s.next \in SUBSET V
  BY DEF Queues
<1>f. IsFiniteSet(s.selected) /\ Cardinality(s.selected) \in Nat
  BY <1>s, FiniteIds, FS_Subset, FS_CardinalityType DEF WellFormed
<1>1. CASE s.layer = {}
  <2>1. t = [selected |-> s.selected, layer |-> s.next \ s.selected, next |-> {}]
    BY <1>1, VisitFields
  <2>2. t.selected = s.selected /\ t.layer = s.next \ s.selected /\ t.next = {}
    BY <2>1
  <2>3. t \in Queues(V)
    BY <1>s, <2>1 DEF Queues
  <2> HIDE DEF t
  <2>4. Searched(t) = Searched(s)
    BY <1>1, <2>2 DEF Searched
  <2>5. SearchOK(graph, seeds, t)
    <3>1. t.selected \cap t.layer = {}
      BY <2>2
    <3>2. seeds \subseteq t.selected
      BY <1>1, <2>2 DEF SearchOK
    <3> QED
      BY <2>2, <2>4, <3>1, <3>2 DEF SearchOK
  <2>6. Progress(t, maxNodes, i + 1)
    BY <1>1, <1>f, <2>2 DEF Progress, Over
  <2> QED
    BY <2>3, <2>5, <2>6 DEF t
<1>2. CASE s.layer # {}
  <2>1. PICK id \in s.layer :
          t = [selected |-> s.selected \cup {id}, layer |-> s.layer \ {id},
               next |-> s.next \cup (Neighbours(graph, id) \ s.selected)]
    BY <1>2, VisitFields
  <2>2. t.selected = s.selected \cup {id} /\ t.layer = s.layer \ {id}
        /\ t.next = s.next \cup (Neighbours(graph, id) \ s.selected)
    BY <2>1
  <2>n. \A x \in Neighbours(graph, id) : x \in V
    BY NeighboursOf DEF WellFormed
  <2>3. t \in Queues(V)
    BY <1>s, <2>1, <2>n DEF Queues
  <2> HIDE DEF t
  <2>i. id \in V /\ id \notin s.selected
    BY <1>s DEF SearchOK
  <2>4. Searched(t) = Searched(s) \cup Neighbours(graph, id)
    BY <2>2 DEF Searched
  <2>5. SearchOK(graph, seeds, t)
    <3>1. t.selected \cap t.layer = {}
      BY <2>2, <2>i DEF SearchOK
    <3>2. t.selected \cup t.layer = s.selected \cup s.layer
      BY <2>2
    <3>3. t.selected \cup t.layer = seeds \/ seeds \subseteq t.selected
      BY <2>2, <3>2 DEF SearchOK
    <3>4. ASSUME NEW e \in graph.edges
          PROVE  /\ e.from \in t.selected => e.to \in Searched(t)
                 /\ e.to \in t.selected => e.from \in Searched(t)
      <4>1. e.from = id => e.to \in Neighbours(graph, id)
        BY NeighboursOf
      <4>2. e.to = id => e.from \in Neighbours(graph, id)
        BY NeighboursOf
      <4> QED
        BY <2>2, <2>4, <4>1, <4>2 DEF SearchOK
    <3>5. ASSUME NEW C \in SUBSET V, seeds \subseteq C, Isolated(graph, C)
          PROVE  Searched(t) \subseteq C
      <4>1. Searched(s) \subseteq C
        BY <3>5 DEF SearchOK
      <4>2. id \in C
        BY <4>1 DEF Searched
      <4>3. \A x \in Neighbours(graph, id) : x \in C
        BY <3>5, <4>2, NeighboursOf DEF Isolated
      <4> QED
        BY <2>4, <4>1, <4>3
    <3>6. seeds \subseteq Searched(t)
      BY <2>4 DEF SearchOK
    <3> QED
      BY <3>1, <3>3, <3>4, <3>5, <3>6 DEF SearchOK
  <2>6. Cardinality(t.selected) = Cardinality(s.selected) + 1
    BY <1>f, <2>2, <2>i, FS_AddElement
  <2>7. Progress(t, maxNodes, i + 1)
    <3>1. ~Over(s)
      BY <1>2 DEF Over
    <3> QED
      BY <1>f, <2>6, <3>1 DEF Progress
  <2> QED
    BY <2>3, <2>5, <2>7 DEF t
<1> QED
  BY <1>1, <1>2

LEMMA TurnStep ==
  ASSUME NEW graph, WellFormed(graph), NEW seeds \in SUBSET Ids(graph), NEW maxNodes \in Nat,
         NEW i \in Nat, NEW s \in Queues(Ids(graph)),
         SearchOK(graph, seeds, s), Progress(s, maxNodes, i)
  PROVE  LET t == IF Cardinality(s.selected) < maxNodes THEN Visit(graph, s) ELSE s
         IN  t \in Queues(Ids(graph)) /\ SearchOK(graph, seeds, t) /\ Progress(t, maxNodes, i + 1)
<1>1. CASE Cardinality(s.selected) < maxNodes
  BY <1>1, VisitStep
<1>2. CASE ~(Cardinality(s.selected) < maxNodes)
  <2>1. Cardinality(s.selected) \in Nat
    BY FiniteIds, FS_Subset, FS_CardinalityType DEF WellFormed, Queues
  <2>2. Progress(s, maxNodes, i + 1)
    BY <1>2, <2>1 DEF Progress
  <2> QED
    BY <1>2, <2>2
<1> QED
  BY <1>1, <1>2

Begin(seeds) == [selected |-> {}, layer |-> seeds, next |-> {}]

\* The loop of Selected ends, and is its unfolding.
LEMMA Turns ==
  ASSUME NEW graph, WellFormed(graph), NEW f, NEW maxNodes \in Nat,
         Seeds(graph, f) \subseteq Ids(graph)
  PROVE  \E h : /\ h[0] = Begin(Seeds(graph, f))
                /\ \A i \in 1..2 * Cardinality(graph.nodes) + 1 :
                     h[i] = IF Cardinality(h[i - 1].selected) < maxNodes
                            THEN Visit(graph, h[i - 1]) ELSE h[i - 1]
                /\ Selected(graph, f, maxNodes) = h[2 * Cardinality(graph.nodes) + 1].selected
<1> DEFINE turns == 2 * Cardinality(graph.nodes) + 1
           T == Queues(Ids(graph))
           c == Begin(Seeds(graph, f))
           D == Turn(graph, maxNodes)
           body(g) == [i \in 0..turns |->
             IF i = 0 THEN [selected |-> {}, layer |-> Seeds(graph, f), next |-> {}]
             ELSE LET s == g[i - 1]
                  IN  IF Cardinality(s.selected) < maxNodes THEN Visit(graph, s) ELSE s]
           after == CHOOSE g : g = body(g)
<1>1. turns \in Nat
  BY FiniteIds DEF WellFormed
<1>2. c \in T
  BY DEF Begin, Queues
<1>3. D \in [T -> T]
  <2>1. \A s \in T : Visit(graph, s) \in T
    <3> SUFFICES ASSUME NEW s \in T PROVE Visit(graph, s) \in T
      OBVIOUS
    <3>1. \A id, x : x \in Neighbours(graph, id) => x \in Ids(graph)
      BY NeighboursOf DEF WellFormed
    <3>2. s.selected \in SUBSET Ids(graph) /\ s.layer \in SUBSET Ids(graph)
          /\ s.next \in SUBSET Ids(graph)
      BY DEF Queues
    <3>3. CASE s.layer = {}
      <4>1. Visit(graph, s) = [selected |-> s.selected, layer |-> s.next \ s.selected,
                               next |-> {}]
        BY <3>3, VisitFields
      <4> QED
        BY <3>2, <4>1 DEF Queues
    <3>4. CASE s.layer # {}
      <4>1. PICK id \in s.layer :
              Visit(graph, s) = [selected |-> s.selected \cup {id}, layer |-> s.layer \ {id},
                                 next |-> s.next \cup (Neighbours(graph, id) \ s.selected)]
        BY <3>4, VisitFields
      <4>2. Neighbours(graph, id) \in SUBSET Ids(graph)
        BY <3>1
      <4> QED
        BY <3>2, <4>1, <4>2 DEF Queues
    <3> QED
      BY <3>3, <3>4
  <2> QED
    BY <2>1 DEF Turn
<1>4. PICK h \in [0..turns -> T] : Computes(h, c, D, turns)
  <2> HIDE DEF turns, T, c, D
  <2> QED
    BY <1>1, <1>2, <1>3, Iteration
<1>5. h = body(h)
  <2>1. \A i \in 0..turns : h[i] = body(h)[i]
    <3> SUFFICES ASSUME NEW i \in 0..turns PROVE h[i] = body(h)[i]
      OBVIOUS
    <3>1. CASE i = 0
      BY <1>1, <1>4, <3>1 DEF Computes, Begin
    <3>2. CASE i # 0
      <4>1. i \in 1..turns /\ i - 1 \in 0..turns
        BY <1>1, <3>2
      <4>2. h[i] = D[h[i - 1]] /\ h[i - 1] \in T
        BY <1>4, <4>1 DEF Computes
      <4> QED
        BY <3>2, <4>2 DEF Turn
    <3> QED
      BY <3>1, <3>2
  <2>2. DOMAIN h = DOMAIN body(h)
    OBVIOUS
  <2> DEFINE b == body(h)
  <2>3. b = [i \in DOMAIN b |-> b[i]] /\ h = [i \in DOMAIN h |-> h[i]]
    OBVIOUS
  <2> QED
    BY <2>1, <2>2, <2>3
<1>6. after = body(after)
  <2> HIDE DEF body
  <2> QED
    BY <1>5, Zenon
<1> DEFINE e == body(after)
<1>7. /\ e[0] = Begin(Seeds(graph, f))
      /\ \A i \in 1..turns :
           e[i] = IF Cardinality(after[i - 1].selected) < maxNodes
                  THEN Visit(graph, after[i - 1]) ELSE after[i - 1]
  <2> HIDE DEF after
  <2> QED
    BY <1>1 DEF Begin
<1>8. /\ after[0] = Begin(Seeds(graph, f))
      /\ \A i \in 1..turns :
           after[i] = IF Cardinality(after[i - 1].selected) < maxNodes
                      THEN Visit(graph, after[i - 1]) ELSE after[i - 1]
  <2> HIDE DEF after, body
  <2> QED
    BY <1>6, <1>7, Zenon
<1>9. Selected(graph, f, maxNodes) = after[turns].selected
  BY DEF Selected
<1> HIDE DEF after
<1> QED
  BY <1>8, <1>9

\* What the loop has found when it ends.
Gathered(graph, seeds, maxNodes, S) ==
  /\ S \subseteq Ids(graph)
  /\ Cardinality(S) <= maxNodes
  /\ S \subseteq seeds \/ seeds \subseteq S
  /\ Cardinality(S) < maxNodes =>
       /\ seeds \subseteq S /\ Isolated(graph, S)
       /\ \A C \in SUBSET Ids(graph) : seeds \subseteq C /\ Isolated(graph, C) => S \subseteq C

LEMMA Selection ==
  ASSUME NEW graph, WellFormed(graph), NEW f, NEW maxNodes \in Nat
  PROVE  Gathered(graph, Seeds(graph, f), maxNodes, Selected(graph, f, maxNodes))
<1> DEFINE N == Cardinality(graph.nodes)
           turns == 2 * N + 1
           V == Ids(graph)
           seeds == Seeds(graph, f)
<1>1. N \in Nat /\ turns \in Nat /\ IsFiniteSet(V) /\ Cardinality(V) \in Nat /\ Cardinality(V) <= N
  BY FiniteIds DEF WellFormed
<1>2. seeds \subseteq V
  BY DEF Seeds, Ids
<1>3. PICK h : /\ h[0] = Begin(seeds)
               /\ \A i \in 1..turns :
                    h[i] = IF Cardinality(h[i - 1].selected) < maxNodes
                           THEN Visit(graph, h[i - 1]) ELSE h[i - 1]
               /\ Selected(graph, f, maxNodes) = h[turns].selected
  <2> HIDE DEF seeds
  <2> QED
    BY <1>2, Turns DEF seeds
<1> DEFINE Good(i) == /\ h[i] \in Queues(V) /\ SearchOK(graph, seeds, h[i])
                      /\ Progress(h[i], maxNodes, i)
           I == {i \in Nat : i <= turns => Good(i)}
<1> HIDE DEF turns, V, seeds
<1>4. Good(0)
  <2>1. h[0].selected = {} /\ h[0].layer = seeds /\ h[0].next = {}
    BY <1>3 DEF Begin
  <2>2. h[0] \in Queues(V)
    BY <1>2, <1>3 DEF Begin, Queues
  <2>3. SearchOK(graph, seeds, h[0])
    BY <2>1 DEF SearchOK, Searched
  <2>4. Cardinality({}) = 0
    BY FS_EmptySet
  <2>5. Progress(h[0], maxNodes, 0)
    BY <2>1, <2>4 DEF Progress
  <2> QED
    BY <2>2, <2>3, <2>5
<1>5. ASSUME NEW i \in Nat, i \in I PROVE i + 1 \in I
  <2> SUFFICES ASSUME i + 1 <= turns PROVE Good(i + 1)
    OBVIOUS
  <2>1. Good(i)
    BY <1>1, <1>5
  <2> HIDE DEF I
  <2>2. i + 1 \in 1..turns /\ (i + 1) - 1 = i
    BY <1>1
  <2>3. h[i + 1] = IF Cardinality(h[i].selected) < maxNodes THEN Visit(graph, h[i]) ELSE h[i]
    BY <1>3, <2>2
  <2> QED
    BY <1>2, <2>1, <2>3, TurnStep DEF V
<1>6. Nat \subseteq I
  <2>1. 0 \in I
    BY <1>4
  <2> HIDE DEF I
  <2> QED
    BY <1>5, <2>1, SetInduction
<1>7. Good(turns)
  BY <1>1, <1>6
<1> DEFINE s == h[turns]
<1>8. /\ s.selected \in SUBSET V /\ s.layer \in SUBSET V
      /\ SearchOK(graph, seeds, s) /\ Progress(s, maxNodes, turns)
  BY <1>7 DEF Queues
<1> HIDE DEF Good, I, s
<1>9. IsFiniteSet(s.selected) /\ Cardinality(s.selected) \in Nat /\ Cardinality(s.selected) <= N
  BY <1>1, <1>8, FS_Subset, FS_CardinalityType
<1>10. Cardinality(s.selected) < maxNodes => Over(s)
  <2> SUFFICES ASSUME Cardinality(s.selected) < maxNodes PROVE Over(s)
    OBVIOUS
  <2>1. ASSUME s.layer # {} PROVE Cardinality(s.selected) < N
    <3>1. PICK x \in s.layer : x \in V /\ x \notin s.selected
      BY <1>8, <2>1 DEF SearchOK
    <3>2. Cardinality(s.selected \cup {x}) = Cardinality(s.selected) + 1
      BY <1>9, <3>1, FS_AddElement
    <3>3. Cardinality(s.selected \cup {x}) <= Cardinality(V)
      <4>1. s.selected \cup {x} \in SUBSET V
        BY <1>8, <3>1
      <4> QED
        BY <1>1, <4>1, FS_Subset
    <3> QED
      BY <1>1, <1>9, <3>2, <3>3
  <2>2. turns = 2 * N + 1
    BY DEF turns
  <2> HIDE DEF N
  <2> QED
    BY <1>1, <1>8, <1>9, <2>1, <2>2 DEF Progress
<1>11. s.selected \subseteq seeds \/ seeds \subseteq s.selected
  BY <1>8 DEF SearchOK
<1>12. Cardinality(s.selected) <= maxNodes
  BY <1>8 DEF Progress
<1>13. ASSUME Cardinality(s.selected) < maxNodes
       PROVE  /\ seeds \subseteq s.selected /\ Isolated(graph, s.selected)
              /\ \A C \in SUBSET V : seeds \subseteq C /\ Isolated(graph, C) => s.selected \subseteq C
  <2>1. Searched(s) = s.selected
    BY <1>10, <1>13 DEF Over, Searched
  <2> QED
    BY <1>8, <2>1 DEF SearchOK, Isolated, V
<1>14. Gathered(graph, seeds, maxNodes, s.selected)
  BY <1>8, <1>11, <1>12, <1>13 DEF Gathered, V
<1> QED
  BY <1>3, <1>14 DEF s, seeds

-----------------------------------------------------------------------------
(* All that can be reached, by whole rounds.                               *)

Round(graph, R) ==
  R \cup {e.to : e \in {x \in graph.edges : x.from \in R}}
    \cup {e.from : e \in {x \in graph.edges : x.to \in R}}

\* reach has been computed by rounds from S.
ByRounds(graph, S, reach) ==
  reach[0] = S /\ \A n \in Nat : reach[n + 1] = Round(graph, reach[n])

LEMMA RoundMembers ==
  ASSUME NEW graph, NEW R, NEW x
  PROVE  x \in Round(graph, R) <=>
           \/ x \in R
           \/ \E e \in graph.edges : (e.from \in R /\ x = e.to) \/ (e.to \in R /\ x = e.from)
BY DEF Round

LEMMA RoundsExist ==
  ASSUME NEW graph, WellFormed(graph), NEW S \in SUBSET Ids(graph)
  PROVE  \E reach \in [Nat -> SUBSET Ids(graph)] : ByRounds(graph, S, reach)
<1> DEFINE T == SUBSET Ids(graph)
           D == [R \in T |-> Round(graph, R)]
<1>1. D \in [T -> T]
  <2> SUFFICES ASSUME NEW R \in T PROVE Round(graph, R) \in T
    OBVIOUS
  <2>1. \A x : x \in Round(graph, R) => x \in Ids(graph)
    BY RoundMembers DEF WellFormed
  <2> QED
    BY <2>1
<1>2. PICK k \in [Nat -> T] : k[0] = S /\ \A n \in Nat : k[n + 1] = D[k[n]]
  <2> HIDE DEF D, T
  <2>1. S \in T
    BY DEF T
  <2> QED
    BY <1>1, <2>1, Iterates
<1>3. ByRounds(graph, S, k)
  BY <1>2 DEF ByRounds
<1> QED
  BY <1>3

\* As many rounds as there are nodes make the least isolated set around S.
LEMMA RoundsClose ==
  ASSUME NEW graph, WellFormed(graph), NEW S \in SUBSET Ids(graph),
         NEW reach, ByRounds(graph, S, reach)
  PROVE  LET R == reach[Cardinality(graph.nodes)]
         IN  /\ R \in SUBSET Ids(graph) /\ S \subseteq R /\ Isolated(graph, R)
             /\ \A C \in SUBSET Ids(graph) : S \subseteq C /\ Isolated(graph, C) => R \subseteq C
<1> DEFINE V == Ids(graph)
           N == Cardinality(graph.nodes)
           Good(R, n) == /\ R \in SUBSET V /\ S \subseteq R
                         /\ \A C \in SUBSET V : S \subseteq C /\ Isolated(graph, C) => R \subseteq C
                         /\ Isolated(graph, R) \/ Cardinality(R) >= n
           I == {n \in Nat : Good(reach[n], n)}
<1>1. N \in Nat /\ IsFiniteSet(V) /\ Cardinality(V) \in Nat /\ Cardinality(V) <= N
  BY FiniteIds DEF WellFormed
<1>f. \A R \in SUBSET V : IsFiniteSet(R) /\ Cardinality(R) \in Nat /\ Cardinality(R) <= Cardinality(V)
  BY <1>1, FS_Subset, FS_CardinalityType
<1> HIDE DEF V, N
<1>2. Good(reach[0], 0)
  BY <1>f DEF ByRounds, V
<1>3. ASSUME NEW n \in Nat, Good(reach[n], n) PROVE Good(reach[n + 1], n + 1)
  <2> DEFINE R == reach[n]
             Q == reach[n + 1]
  <2>1. Q = Round(graph, R)
    BY DEF ByRounds
  <2>2. \A x : x \in Q <=>
           \/ x \in R
           \/ \E e \in graph.edges : (e.from \in R /\ x = e.to) \/ (e.to \in R /\ x = e.from)
    BY <2>1, RoundMembers
  <2> HIDE DEF R, Q
  <2>r. /\ R \in SUBSET V /\ S \subseteq R
        /\ \A C \in SUBSET V : S \subseteq C /\ Isolated(graph, C) => R \subseteq C
        /\ Isolated(graph, R) \/ Cardinality(R) >= n
    BY <1>3 DEF R
  <2>3. Q \in SUBSET V
    BY <2>2, <2>r DEF WellFormed, V
  <2>4. S \subseteq Q
    BY <2>2, <2>r
  <2>5. ASSUME NEW C \in SUBSET V, S \subseteq C, Isolated(graph, C) PROVE Q \subseteq C
    <3>1. R \subseteq C
      BY <2>5, <2>r
    <3> QED
      BY <2>2, <2>5, <3>1 DEF Isolated
  <2>6. Isolated(graph, Q) \/ Cardinality(Q) >= n + 1
    <3>1. CASE Isolated(graph, R)
      <4>1. Q = R
        BY <2>2, <3>1 DEF Isolated
      <4> QED
        BY <3>1, <4>1
    <3>2. CASE ~Isolated(graph, R)
      <4>1. PICK x \in Q : x \notin R
        BY <2>2, <3>2 DEF Isolated
      <4>2. R \cup {x} \subseteq Q
        BY <2>2, <4>1
      <4>3. Cardinality(R \cup {x}) = Cardinality(R) + 1
        BY <1>f, <2>r, <4>1, FS_AddElement
      <4>4. Cardinality(R \cup {x}) <= Cardinality(Q)
        BY <1>f, <2>3, <4>2, FS_Subset
      <4> QED
        BY <1>f, <2>3, <2>r, <3>2, <4>3, <4>4
    <3> QED
      BY <3>1, <3>2
  <2>7. Good(Q, n + 1)
    BY <2>3, <2>4, <2>5, <2>6
  <2> QED
    BY <2>7 DEF Q
<1>4. Good(reach[N], N)
  <2> HIDE DEF Good
  <2>1. 0 \in I /\ \A n \in Nat : n \in I => n + 1 \in I
    BY <1>2, <1>3
  <2> HIDE DEF I
  <2>2. Nat \subseteq I
    BY <2>1, SetInduction
  <2> QED
    BY <1>1, <2>2 DEF I
<1>5. Isolated(graph, reach[N])
  <2> SUFFICES ASSUME Cardinality(reach[N]) >= N PROVE Isolated(graph, reach[N])
    BY <1>4
  <2>1. reach[N] \in SUBSET V
    BY <1>4
  <2>2. reach[N] = V
    <3> SUFFICES ASSUME NEW x \in V, x \notin reach[N] PROVE FALSE
      BY <2>1
    <3>1. Cardinality(reach[N] \cup {x}) = Cardinality(reach[N]) + 1
      BY <1>f, <2>1, FS_AddElement
    <3>2. reach[N] \cup {x} \in SUBSET V
      BY <2>1
    <3> QED
      BY <1>1, <1>f, <2>1, <3>1, <3>2
  <2> QED
    BY <2>2 DEF Isolated, WellFormed, V
<1> QED
  BY <1>4, <1>5 DEF V, N

LEMMA GatheredIsReached ==
  ASSUME NEW graph, WellFormed(graph), NEW S \in SUBSET Ids(graph), NEW maxNodes, NEW T,
         Gathered(graph, S, maxNodes, T), Cardinality(T) < maxNodes,
         NEW reach, ByRounds(graph, S, reach)
  PROVE  T = reach[Cardinality(graph.nodes)]
BY RoundsClose DEF Gathered

-----------------------------------------------------------------------------
(* The projected graph is finite, and has no loose ends.                   *)

LEMMA FiniteImage ==
  ASSUME NEW S, IsFiniteSet(S), NEW f, DOMAIN f = S
  PROVE  IsFiniteSet({f[x] : x \in S})
<1> DEFINE T == {f[x] : x \in S}
           g == [x \in S |-> f[x]]
<1>1. g \in [S -> T]
  OBVIOUS
<1>2. \A t \in T : \E x \in S : g[x] = t
  OBVIOUS
<1> HIDE DEF T, g
<1>3. g \in Surjection(S, T)
  BY <1>1, <1>2 DEF Surjection
<1>4. IsFiniteSet(T)
  BY <1>3, FS_Surjection
<1> QED
  BY <1>4 DEF T

LEMMA FiniteFew ==
  ASSUME NEW a, NEW b, NEW c
  PROVE  /\ \A S : S \subseteq {a} => IsFiniteSet(S)
         /\ IsFiniteSet({a, b}) /\ IsFiniteSet({a, b, c})
<1>1. IsFiniteSet({a}) /\ IsFiniteSet({b}) /\ IsFiniteSet({c})
  BY FS_Singleton
<1>2. {a, b} = {a} \cup {b} /\ {a, b, c} = {a, b} \cup {c}
  OBVIOUS
<1>3. IsFiniteSet({a, b})
  <2>1. IsFiniteSet({a} \cup {b})
    BY <1>1, FS_AddElement
  <2> QED
    BY <1>2, <2>1, Zenon
<1>4. IsFiniteSet({a, b, c})
  <2>1. IsFiniteSet({a, b} \cup {c})
    BY <1>3, FS_AddElement
  <2> QED
    BY <1>2, <2>1, Zenon
<1>5. \A S : S \subseteq {a} => IsFiniteSet(S)
  BY <1>1, FS_Subset
<1> QED
  BY <1>3, <1>4, <1>5

LEMMA FourParts ==
  ASSUME NEW A, NEW B, NEW C, NEW D,
         IsFiniteSet(A), IsFiniteSet(B), IsFiniteSet(C), IsFiniteSet(D)
  PROVE  \A X : X = A \cup B \cup C \cup D \/ X = A \cup B \cup C => IsFiniteSet(X)
<1>1. IsFiniteSet(A \cup B)
  BY FS_Union
<1>2. IsFiniteSet(A \cup B \cup C)
  BY <1>1, FS_Union
<1>3. IsFiniteSet((A \cup B \cup C) \cup D)
  BY <1>2, FS_Union
<1> QED
  BY <1>2, <1>3

LEMMA FiniteOperationNodes ==
  ASSUME NEW w, NEW o, IsFiniteSet(Paths[o])
  PROVE  IsFiniteSet(OperationNodes(w, o))
<1> DEFINE A == {Node("operation", o, Kind[o], w.status[o], o, None, None),
                 Node("effect", o, Kind[o], w.status[o], None, None, None),
                 Node("proof", o, "proof", Outcome(w.status[o]), None, None, None)}
           B == {Node("resource", p, p, "observed", None, None, None) : p \in Paths[o]}
           C == {Node("authorization", o, r.status, r.status, o, r.manifest, r.manifest) :
                   r \in {w.auth[o]} \ {[status |-> "absent", manifest |-> None]}}
           D == {Node("receipt", x, w.status[o], w.status[o], None, None, None) :
                   x \in {o} \cap w.receipts}
<1>1. IsFiniteSet(A)
  BY FiniteFew
<1>2. IsFiniteSet(B)
  <2> DEFINE f == [p \in Paths[o] |-> Node("resource", p, p, "observed", None, None, None)]
  <2>1. B = {f[p] : p \in Paths[o]}
    OBVIOUS
  <2>2. DOMAIN f = Paths[o]
    OBVIOUS
  <2> HIDE DEF f, B
  <2> QED
    BY <2>1, <2>2, FiniteImage
<1>3. IsFiniteSet(C)
  <2>1. C \subseteq {Node("authorization", o, w.auth[o].status, w.auth[o].status, o,
                          w.auth[o].manifest, w.auth[o].manifest)}
    OBVIOUS
  <2> HIDE DEF C
  <2> QED
    BY <2>1, FiniteFew
<1>4. IsFiniteSet(D)
  <2>1. D \subseteq {Node("receipt", o, w.status[o], w.status[o], None, None, None)}
    OBVIOUS
  <2> HIDE DEF D
  <2> QED
    BY <2>1, FiniteFew
<1>5. OperationNodes(w, o) = A \cup B \cup C \cup D
  BY DEF OperationNodes
<1> HIDE DEF A, B, C, D
<1> QED
  BY <1>1, <1>2, <1>3, <1>4, <1>5, FourParts, Zenon

LEMMA FiniteManifestNodes ==
  ASSUME NEW w, NEW m
  PROVE  IsFiniteSet(ManifestNodes(w, m))
<1> DEFINE A == {Node("manifest", m, "recovery.manifest", w.manifest[m], None, m, None),
                 Node("proof", m, "proof", Outcome(w.manifest[m]), None, None, None)}
           B == {Node("authorization", m, s, s, None, m, None) : s \in {w.mauth[m]} \ {"absent"}}
           C == {Node("receipt", x, w.manifest[m], w.manifest[m], None, m, None) :
                   x \in {m} \cap w.receipts}
<1>1. IsFiniteSet(A)
  BY FiniteFew
<1>2. IsFiniteSet(B)
  <2>1. B \subseteq {Node("authorization", m, w.mauth[m], w.mauth[m], None, m, None)}
    OBVIOUS
  <2> HIDE DEF B
  <2> QED
    BY <2>1, FiniteFew
<1>3. IsFiniteSet(C)
  <2>1. C \subseteq {Node("receipt", m, w.manifest[m], w.manifest[m], None, m, None)}
    OBVIOUS
  <2> HIDE DEF C
  <2> QED
    BY <2>1, FiniteFew
<1>4. ManifestNodes(w, m) = A \cup B \cup C
  BY DEF ManifestNodes
<1> HIDE DEF A, B, C
<1> QED
  BY <1>1, <1>2, <1>3, <1>4, FourParts

LEMMA FiniteLogNodes ==
  ASSUME NEW log, IsFiniteSet(DOMAIN log), \A i \in DOMAIN log : IsFiniteSet(log[i].found)
  PROVE  IsFiniteSet(LogNodes(log))
<1> DEFINE A == {Node("session", "session", "session", "observed", None, None, None) : i \in DOMAIN log}
           B == {Node("agent", log[i].agent, "agent", Activity(log, log[i].agent), None, None, None) :
                   i \in DOMAIN log}
           C == {Node("receipt", i, IF log[i].blocked THEN "denial" ELSE "tool", Fate(log[i]),
                      None, None, None) : i \in Tools(log)}
           D == {Node("effect", e, e[2], LastFate(log, e), None, None, None) : e \in Found(log)}
<1>1. IsFiniteSet(A)
  <2>1. A \subseteq {Node("session", "session", "session", "observed", None, None, None)}
    OBVIOUS
  <2> HIDE DEF A
  <2> QED
    BY <2>1, FiniteFew
<1>2. IsFiniteSet(B)
  <2> DEFINE f == [i \in DOMAIN log |->
                     Node("agent", log[i].agent, "agent", Activity(log, log[i].agent), None, None, None)]
  <2>1. B = {f[i] : i \in DOMAIN log} /\ DOMAIN f = DOMAIN log
    OBVIOUS
  <2> HIDE DEF f, B
  <2> QED
    BY <2>1, FiniteImage
<1>t. IsFiniteSet(Tools(log)) /\ Tools(log) \subseteq DOMAIN log
  <2>1. Tools(log) \subseteq DOMAIN log
    BY DEF Tools
  <2> QED
    BY <2>1, FS_Subset
<1>3. IsFiniteSet(C)
  <2> DEFINE f == [i \in Tools(log) |->
                     Node("receipt", i, IF log[i].blocked THEN "denial" ELSE "tool", Fate(log[i]),
                          None, None, None)]
  <2>1. C = {f[i] : i \in Tools(log)} /\ DOMAIN f = Tools(log)
    OBVIOUS
  <2> HIDE DEF f, C
  <2> QED
    BY <1>t, <2>1, FiniteImage
<1>4. IsFiniteSet(Found(log))
  <2> DEFINE g == [i \in Tools(log) |-> {<<log[i].command, c>> : c \in log[i].found}]
             G == {g[i] : i \in Tools(log)}
  <2>1. Found(log) = UNION G
    BY DEF Found
  <2>2. IsFiniteSet(G)
    <3>1. DOMAIN g = Tools(log)
      OBVIOUS
    <3> HIDE DEF g
    <3> QED
      BY <1>t, <3>1, FiniteImage
  <2>3. ASSUME NEW i \in Tools(log) PROVE IsFiniteSet(g[i])
    <3> DEFINE f == [c \in log[i].found |-> <<log[i].command, c>>]
    <3>1. g[i] = {f[c] : c \in log[i].found} /\ DOMAIN f = log[i].found
      OBVIOUS
    <3>2. IsFiniteSet(log[i].found)
      BY <1>t
    <3> HIDE DEF f, g
    <3> QED
      BY <3>1, <3>2, FiniteImage
  <2>4. \A T \in G : IsFiniteSet(T)
    <3> HIDE DEF g
    <3> QED
      BY <2>3
  <2> HIDE DEF G
  <2> QED
    BY <2>1, <2>2, <2>4, FS_UNION
<1>5. IsFiniteSet(D)
  <2> DEFINE f == [e \in Found(log) |-> Node("effect", e, e[2], LastFate(log, e), None, None, None)]
  <2>1. D = {f[e] : e \in Found(log)} /\ DOMAIN f = Found(log)
    OBVIOUS
  <2> HIDE DEF f, D
  <2> QED
    BY <1>4, <2>1, FiniteImage
<1>6. LogNodes(log) = A \cup B \cup C \cup D
  BY DEF LogNodes
<1> HIDE DEF A, B, C, D
<1> QED
  BY <1>1, <1>2, <1>3, <1>5, <1>6, FourParts, Zenon

\* What is written down is finite.
FiniteLedger(w) ==
  /\ IsFiniteSet({o \in Ops : w.status[o] # "none"})
  /\ IsFiniteSet({m \in Manifests : w.manifest[m] # "none"})
  /\ \A o \in Ops : IsFiniteSet(Paths[o])
FiniteLog(log) ==
  IsFiniteSet(DOMAIN log) /\ \A i \in DOMAIN log : IsFiniteSet(log[i].found)

LEMMA FiniteNodes ==
  ASSUME NEW w, NEW log, FiniteLedger(w), FiniteLog(log)
  PROVE  IsFiniteSet(Project(w, log).nodes)
<1> DEFINE ops == {o \in Ops : w.status[o] # "none"}
           manifests == {m \in Manifests : w.manifest[m] # "none"}
           f == [o \in ops |-> OperationNodes(w, o)]
           g == [m \in manifests |-> ManifestNodes(w, m)]
           F == {f[o] : o \in ops}
           G == {g[m] : m \in manifests}
<1>1. Project(w, log).nodes = (UNION F) \cup (UNION G) \cup LogNodes(log)
  BY DEF Project
<1>2. IsFiniteSet(ops) /\ IsFiniteSet(manifests)
  BY DEF FiniteLedger
<1>3. DOMAIN f = ops /\ DOMAIN g = manifests
  OBVIOUS
<1>4. \A o \in ops : IsFiniteSet(f[o])
  BY FiniteOperationNodes DEF FiniteLedger
<1>5. \A m \in manifests : IsFiniteSet(g[m])
  BY FiniteManifestNodes
<1> HIDE DEF f, g, ops, manifests
<1>6. IsFiniteSet(F) /\ \A T \in F : IsFiniteSet(T)
  BY <1>2, <1>3, <1>4, FiniteImage
<1>7. IsFiniteSet(G) /\ \A T \in G : IsFiniteSet(T)
  BY <1>2, <1>3, <1>5, FiniteImage
<1> HIDE DEF F, G
<1>8. IsFiniteSet(UNION F) /\ IsFiniteSet(UNION G)
  BY <1>6, <1>7, FS_UNION
<1>9. IsFiniteSet(LogNodes(log))
  BY FiniteLogNodes DEF FiniteLog
<1> QED
  BY <1>1, <1>8, <1>9, FourParts, Zenon

LEMMA GraphEdges ==
  ASSUME NEW w, NEW log, NEW e
  PROVE  e \in Project(w, log).edges <=>
           \/ \E o \in Ops : w.status[o] # "none" /\ e \in OperationEdges(w, o)
           \/ \E m \in Manifests : w.manifest[m] # "none" /\ e \in ManifestEdges(w, m)
           \/ e \in LogEdges(log)
<1> DEFINE ops == {o \in Ops : w.status[o] # "none"}
           manifests == {m \in Manifests : w.manifest[m] # "none"}
<1>1. Project(w, log).edges = (UNION {OperationEdges(w, o) : o \in ops})
                 \cup (UNION {ManifestEdges(w, m) : m \in manifests}) \cup LogEdges(log)
  BY DEF Project
<1>2. e \in UNION {OperationEdges(w, o) : o \in ops} <=>
        \E o \in Ops : w.status[o] # "none" /\ e \in OperationEdges(w, o)
  OBVIOUS
<1>3. e \in UNION {ManifestEdges(w, m) : m \in manifests} <=>
        \E m \in Manifests : w.manifest[m] # "none" /\ e \in ManifestEdges(w, m)
  OBVIOUS
<1>4. \/ e \in UNION {OperationEdges(w, o) : o \in ops}
      \/ e \in UNION {ManifestEdges(w, m) : m \in manifests}
      \/ e \in LogEdges(log)
      <=> e \in Project(w, log).edges
  <2> HIDE DEF ops, manifests
  <2> QED
    BY <1>1, OfThree
<1> QED
  BY <1>2, <1>3, <1>4

LEMMA IdOf ==
  ASSUME NEW graph, NEW kind, NEW subject, NEW label, NEW state, NEW op, NEW manifest, NEW source,
         Node(kind, subject, label, state, op, manifest, source) \in graph.nodes
  PROVE  <<kind, subject>> \in Ids(graph)
<1>1. Node(kind, subject, label, state, op, manifest, source).id = <<kind, subject>>
  BY NodeFields
<1> QED
  BY <1>1, Zenon DEF Ids

LEMMA OperationIds ==
  ASSUME NEW w, NEW log, NEW o \in Ops, w.status[o] # "none"
  PROVE  LET V == Ids(Project(w, log))
         IN  /\ <<"operation", o>> \in V /\ <<"effect", o>> \in V /\ <<"proof", o>> \in V
             /\ \A p \in Paths[o] : <<"resource", p>> \in V
             /\ w.auth[o].status # "absent" => <<"authorization", o>> \in V
             /\ o \in w.receipts => <<"receipt", o>> \in V
<1> DEFINE graph == Project(w, log)
<1>1. \A n : n \in OperationNodes(w, o) => n \in graph.nodes
  BY GraphNodes
<1> HIDE DEF graph
<1>2. /\ Node("operation", o, Kind[o], w.status[o], o, None, None) \in graph.nodes
      /\ Node("effect", o, Kind[o], w.status[o], None, None, None) \in graph.nodes
      /\ Node("proof", o, "proof", Outcome(w.status[o]), None, None, None) \in graph.nodes
  BY <1>1 DEF OperationNodes
<1>3. \A p \in Paths[o] : Node("resource", p, p, "observed", None, None, None) \in graph.nodes
  BY <1>1 DEF OperationNodes
<1>4. ASSUME w.auth[o].status # "absent"
      PROVE  Node("authorization", o, w.auth[o].status, w.auth[o].status, o,
                  w.auth[o].manifest, w.auth[o].manifest) \in graph.nodes
  <2>1. w.auth[o] \in {w.auth[o]} \ {[status |-> "absent", manifest |-> None]}
    BY <1>4
  <2>2. Node("authorization", o, w.auth[o].status, w.auth[o].status, o,
             w.auth[o].manifest, w.auth[o].manifest) \in OperationNodes(w, o)
    BY <2>1, Zenon DEF OperationNodes
  <2> QED
    BY <1>1, <2>2
<1>5. o \in w.receipts =>
        Node("receipt", o, w.status[o], w.status[o], None, None, None) \in graph.nodes
  BY <1>1 DEF OperationNodes
<1> QED
  BY <1>2, <1>3, <1>4, <1>5, IdOf DEF graph

LEMMA ManifestIds ==
  ASSUME NEW w, NEW log, NEW m \in Manifests, w.manifest[m] # "none"
  PROVE  LET V == Ids(Project(w, log))
         IN  /\ <<"manifest", m>> \in V /\ <<"proof", m>> \in V
             /\ w.mauth[m] # "absent" => <<"authorization", m>> \in V
             /\ m \in w.receipts => <<"receipt", m>> \in V
<1> DEFINE graph == Project(w, log)
<1>1. \A n : n \in ManifestNodes(w, m) => n \in graph.nodes
  BY GraphNodes
<1> HIDE DEF graph
<1>2. /\ Node("manifest", m, "recovery.manifest", w.manifest[m], None, m, None) \in graph.nodes
      /\ Node("proof", m, "proof", Outcome(w.manifest[m]), None, None, None) \in graph.nodes
  BY <1>1 DEF ManifestNodes
<1>3. w.mauth[m] # "absent" =>
        Node("authorization", m, w.mauth[m], w.mauth[m], None, m, None) \in graph.nodes
  BY <1>1 DEF ManifestNodes
<1>4. m \in w.receipts =>
        Node("receipt", m, w.manifest[m], w.manifest[m], None, m, None) \in graph.nodes
  BY <1>1 DEF ManifestNodes
<1> QED
  BY <1>2, <1>3, <1>4, IdOf DEF graph

LEMMA LogIds ==
  ASSUME NEW w, NEW log
  PROVE  LET V == Ids(Project(w, log))
         IN  /\ \A i \in DOMAIN log : /\ <<"session", "session">> \in V
                                      /\ <<"agent", log[i].agent>> \in V
             /\ \A i \in Tools(log) :
                  /\ <<"receipt", i>> \in V
                  /\ \A c \in log[i].found : <<"effect", <<log[i].command, c>>>> \in V
<1> DEFINE graph == Project(w, log)
<1>1. \A n : n \in LogNodes(log) => n \in graph.nodes
  BY GraphNodes
<1> HIDE DEF graph
<1>2. \A i \in DOMAIN log :
        /\ Node("session", "session", "session", "observed", None, None, None) \in graph.nodes
        /\ Node("agent", log[i].agent, "agent", Activity(log, log[i].agent), None, None, None)
             \in graph.nodes
  BY <1>1 DEF LogNodes
<1>3. \A i \in Tools(log) :
        Node("receipt", i, IF log[i].blocked THEN "denial" ELSE "tool", Fate(log[i]),
             None, None, None) \in graph.nodes
  BY <1>1, Zenon DEF LogNodes
<1>4. ASSUME NEW i \in Tools(log), NEW c \in log[i].found
      PROVE  <<"effect", <<log[i].command, c>>>> \in Ids(graph)
  <2> DEFINE e == <<log[i].command, c>>
  <2>1. e \in Found(log)
    BY DEF Found
  <2> HIDE DEF e
  <2>2. Node("effect", e, e[2], LastFate(log, e), None, None, None) \in LogNodes(log)
    BY <2>1, Zenon DEF LogNodes
  <2>3. <<"effect", e>> \in Ids(graph)
    BY <1>1, <2>2, IdOf
  <2> QED
    BY <2>3 DEF e
<1>5. \A i \in DOMAIN log : /\ <<"session", "session">> \in Ids(graph)
                            /\ <<"agent", log[i].agent>> \in Ids(graph)
  BY <1>2, IdOf
<1>6. \A i \in Tools(log) : <<"receipt", i>> \in Ids(graph)
  BY <1>3, IdOf
<1> QED
  BY <1>4, <1>5, <1>6 DEF graph

\* No edge of the graph leads to a node that is not there.
LEMMA NoLooseEnds ==
  ASSUME NEW w, NEW log,
         \A m \in Manifests : \A o \in Bound(m) :
           w.manifest[m] # "none" => o \in Ops /\ w.status[o] # "none"
  PROVE  \A e \in Project(w, log).edges :
           e.from \in Ids(Project(w, log)) /\ e.to \in Ids(Project(w, log))
<1> DEFINE V == Ids(Project(w, log))
<1> SUFFICES ASSUME NEW e \in Project(w, log).edges
             PROVE  e.from \in V /\ e.to \in V
  OBVIOUS
<1>1. ASSUME NEW o \in Ops, w.status[o] # "none", e \in OperationEdges(w, o)
      PROVE  e.from \in V /\ e.to \in V
  <2>1. \E s : \/ e = Edge(<<"operation", o>>, "proposes", <<"effect", o>>, s)
               \/ e = Edge(<<"effect", o>>, "protected_by", <<"proof", o>>, s)
               \/ \E p \in Paths[o] :
                    e = Edge(<<"effect", o>>, "may_affect", <<"resource", p>>, s)
               \/ /\ w.auth[o].status # "absent"
                  /\ \/ e = Edge(<<"operation", o>>, "requests", <<"authorization", o>>, s)
                     \/ e = Edge(<<"authorization", o>>, "authorizes", <<"operation", o>>, s)
               \/ /\ o \in w.receipts
                  /\ e = Edge(<<"operation", o>>, "produces", <<"receipt", o>>, s)
    BY <1>1 DEF OperationEdges
  <2>2. /\ <<"operation", o>> \in V /\ <<"effect", o>> \in V /\ <<"proof", o>> \in V
        /\ \A p \in Paths[o] : <<"resource", p>> \in V
        /\ w.auth[o].status # "absent" => <<"authorization", o>> \in V
        /\ o \in w.receipts => <<"receipt", o>> \in V
    BY <1>1, OperationIds
  <2> HIDE DEF V
  <2>e. \E f, t \in V : \E r, s : e = Edge(f, r, t, s)
    BY <2>1, <2>2, Zenon
  <2> QED
    BY <2>e, EdgeFields
<1>2. ASSUME NEW m \in Manifests, w.manifest[m] # "none", e \in ManifestEdges(w, m)
      PROVE  e.from \in V /\ e.to \in V
  <2>1. \E s : \/ e = Edge(<<"manifest", m>>, "protected_by", <<"proof", m>>, s)
               \/ \E o \in Bound(m) :
                    e = Edge(<<"manifest", m>>, "contains", <<"operation", o>>, s)
               \/ /\ w.mauth[m] # "absent"
                  /\ \/ e = Edge(<<"manifest", m>>, "requests", <<"authorization", m>>, s)
                     \/ e = Edge(<<"authorization", m>>, "authorizes", <<"manifest", m>>, s)
               \/ /\ m \in w.receipts
                  /\ e = Edge(<<"manifest", m>>, "produces", <<"receipt", m>>, s)
    BY <1>2 DEF ManifestEdges
  <2>2. /\ <<"manifest", m>> \in V /\ <<"proof", m>> \in V
        /\ w.mauth[m] # "absent" => <<"authorization", m>> \in V
        /\ m \in w.receipts => <<"receipt", m>> \in V
    BY <1>2, ManifestIds
  <2>3. \A o \in Bound(m) : <<"operation", o>> \in V
    BY <1>2, OperationIds
  <2> HIDE DEF V
  <2>e. \E f, t \in V : \E r, s : e = Edge(f, r, t, s)
    BY <2>1, <2>2, <2>3, Zenon
  <2> QED
    BY <2>e, EdgeFields
<1>3. ASSUME e \in LogEdges(log) PROVE e.from \in V /\ e.to \in V
  <2>1. \E s : \/ \E i \in DOMAIN log :
                    e = Edge(<<"session", "session">>, "delegates_to", <<"agent", log[i].agent>>, s)
               \/ \E i \in Tools(log) :
                    e = Edge(<<"session", "session">>, "produces", <<"receipt", i>>, s)
               \/ \E i \in Tools(log) : \E c \in log[i].found : \E r :
                    e = Edge(<<"receipt", i>>, r, <<"effect", <<log[i].command, c>>>>, s)
    BY <1>3 DEF LogEdges
  <2>2. /\ \A i \in DOMAIN log : /\ <<"session", "session">> \in V
                                 /\ <<"agent", log[i].agent>> \in V
        /\ \A i \in Tools(log) :
             /\ <<"receipt", i>> \in V
             /\ \A c \in log[i].found : <<"effect", <<log[i].command, c>>>> \in V
    BY LogIds
  <2>3. Tools(log) \subseteq DOMAIN log
    BY DEF Tools
  <2> HIDE DEF V
  <2>e. \E f, t \in V : \E r, s : e = Edge(f, r, t, s)
    BY <2>1, <2>2, <2>3, Zenon
  <2> QED
    BY <2>e, EdgeFields
<1> QED
  BY <1>1, <1>2, <1>3, GraphEdges

LEMMA ProjectionWellFormed ==
  ASSUME NEW w, NEW log, FiniteLedger(w), FiniteLog(log),
         \A m \in Manifests : \A o \in Bound(m) :
           w.manifest[m] # "none" => o \in Ops /\ w.status[o] # "none"
  PROVE  WellFormed(Project(w, log))
BY FiniteNodes, NoLooseEnds DEF WellFormed

\* What a slice of a well-formed graph is: the nodes with the selected ids.
LEMMA SliceOf ==
  ASSUME NEW graph, WellFormed(graph), NEW f, NEW maxNodes \in Nat
  PROVE  LET slice == Slice(graph, f, maxNodes)
             ids == {n.id : n \in slice.nodes}
         IN  /\ Gathered(graph, Seeds(graph, f), maxNodes, ids)
             /\ \A e \in slice.edges : {e.from, e.to} \subseteq ids
<1> DEFINE S == Selected(graph, f, maxNodes)
           slice == Slice(graph, f, maxNodes)
           ids == {n.id : n \in slice.nodes}
<1>1. Gathered(graph, Seeds(graph, f), maxNodes, S)
  BY Selection
<1>2. S \subseteq Ids(graph)
  BY <1>1 DEF Gathered
<1> HIDE DEF S
<1>3. /\ slice.nodes = {n \in graph.nodes : n.id \in S}
      /\ slice.edges = {e \in graph.edges : {e.from, e.to} \subseteq S}
  BY DEF Slice, S
<1> HIDE DEF slice
<1>4. ids = S
  BY <1>2, <1>3 DEF Ids
<1> HIDE DEF ids
<1> QED
  BY <1>1, <1>3, <1>4 DEF ids, slice
=============================================================================
