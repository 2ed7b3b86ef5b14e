---------------------------- MODULE Approval_proofs ----------------------------
(***************************************************************************)
(* Proofs about Approval, for any number of operations, manifests and      *)
(* terminals.                                                              *)
(***************************************************************************)
EXTENDS Approval, TLAPS

\* What a terminal is about to do fits what was confirmed at it.
Positions ==
  \A t \in Terminals :
    /\ At(t, "idle") => task[t] = None
    /\ control[t].at \in {"idle", "review"} => Alone(t) /\ control[t].index = 1
    /\ At(t, "review") => task[t] \in Tasks
    /\ control[t].at \notin {"idle", "review", "end"} =>
         IF Alone(t) THEN task[t] \in Ops ELSE task[t] \in Manifests
    /\ At(t, "conclude") => ~Alone(t)
TypeInv == TypeOK /\ Positions

\* The children of a manifest are operations.
LEMMA ChildIsOp ==
  ASSUME NEW m \in Manifests
  PROVE  /\ Len(Children[m]) \in Nat /\ Len(Children[m]) >= 2
         /\ \A i \in Nat \ {0} : i <= Len(Children[m]) => Children[m][i] \in Ops
         /\ Bound(m) = {Children[m][i] : i \in 1..Len(Children[m])}
<1>1. Children[m] \in Seq(Ops) /\ Len(Children[m]) >= 2
  BY ChildrenAssumption
<1>2. DOMAIN Children[m] = 1..Len(Children[m]) /\ Len(Children[m]) \in Nat
  BY <1>1
<1> QED
  BY <1>1, <1>2 DEF Bound, Range

\* The broker is always at an operation once it looks at records.
LEMMA CurrentIsOp ==
  ASSUME TypeInv, NEW t \in Terminals, control[t].at \notin {"idle", "review", "end"}
  PROVE  Current(t) \in Ops
<1>1. control[t] \in Controls /\ task[t] \in Tasks
  BY DEF TypeInv, TypeOK, Positions, Tasks
<1>2. CASE Alone(t)
  BY <1>2 DEF TypeInv, Positions, Current
<1>3. CASE ~Alone(t)
  <2>1. task[t] \in Manifests /\ control[t].index <= Len(Children[task[t]])
    BY <1>3 DEF TypeInv, Positions, TypeOK
  <2>2. control[t].index \in Nat \ {0}
    BY <1>1 DEF Controls
  <2> QED
    BY <1>3, <2>1, <2>2, ChildIsOp DEF Current
<1> QED
  BY <1>2, <1>3

\* Steps of a terminal keep its control and what it holds in their domains.
LEMMA RecordFields ==
  ASSUME NEW r \in Records
  PROVE  /\ r.status \in {"absent", "pending", "approved", "expired"} /\ r.manifest \in Paths
         /\ Expired(r) \in Records
         /\ Expired(r).status = "expired" /\ Expired(r).manifest = r.manifest
         /\ [r EXCEPT !.status = "approved"] \in Records
         /\ \A p \in Paths : [status |-> "approved", manifest |-> p] \in Records
<1>1. r = [status |-> r.status, manifest |-> r.manifest]
      /\ r.status \in {"absent", "pending", "approved", "expired"} /\ r.manifest \in Paths
  BY DEF Records
<1>2. \A x \in {"absent", "pending", "approved", "expired"}, p \in Paths :
        [status |-> x, manifest |-> p] \in Records
  BY DEF Records
<1>3. Expired(r) = [status |-> "expired", manifest |-> r.manifest]
  BY <1>1 DEF Expired
<1>4. [r EXCEPT !.status = "approved"] = [status |-> "approved", manifest |-> r.manifest]
  BY <1>1
<1>6. Expired(r) \in Records /\ Expired(r).status = "expired" /\ Expired(r).manifest = r.manifest
  BY <1>1, <1>2, <1>3
<1>7. [r EXCEPT !.status = "approved"] \in Records
  BY <1>1, <1>2, <1>4
<1> QED
  BY <1>1, <1>2, <1>6, <1>7

LEMMA ControlUpdates ==
  ASSUME TypeInv, NEW t \in Terminals
  PROVE  /\ control[t] \in Controls
         /\ control[t].index \in Nat \ {0} /\ control[t].phase \in {"single", "survey", "derive"}
         /\ control[t].at \in {"idle", "review", "check", "get", "expire", "write", "conclude", "end"}
         /\ \A at \in {"idle", "review", "check", "get", "expire", "write", "conclude", "end"} :
              [control EXCEPT ![t].at = at] \in [Terminals -> Controls]
  BY DEF TypeInv, TypeOK, Controls

\* Goto and NextChild, from a place past the confirmation to another.
LEMMA Moves ==
  ASSUME TypeInv, UNCHANGED task, NEW t \in Terminals,
         control[t].at \notin {"idle", "end"},
         \/ Goto(t, "end")
         \/ ~At(t, "review") /\ \E at \in {"check", "get", "expire", "write"} : Goto(t, at)
         \/ ~At(t, "review") /\ ~Alone(t) /\ NextChild(t)
  PROVE  /\ control' \in [Terminals -> Controls]
         /\ Positions'
         /\ \A u \in Terminals :
              task'[u] \in Manifests => control'[u].index <= Len(Children[task'[u]])
<1> USE DEF At, Alone
<1>c. control \in [Terminals -> Controls]
  BY DEF TypeInv, TypeOK
<1>1. CASE \/ Goto(t, "end")
           \/ ~At(t, "review") /\ \E at \in {"check", "get", "expire", "write"} : Goto(t, at)
  <2>1. PICK at \in {"check", "get", "expire", "write", "end"} :
          /\ at = "end" \/ ~At(t, "review")
          /\ control' = [control EXCEPT ![t] = [control[t] EXCEPT !.at = at]]
    BY <1>1 DEF Goto
  <2> DEFINE next == [control[t] EXCEPT !.at = at]
  <2>2. /\ next \in Controls /\ next.at = at
        /\ next.index = control[t].index /\ next.phase = control[t].phase
    BY ControlUpdates DEF Controls
  <2>3. control'[t] = next /\ \A u \in Terminals \ {t} : control'[u] = control[u]
    BY <2>1, <1>c
  <2>4. control' \in [Terminals -> Controls]
    BY <2>1, <2>2, <1>c
  <2>5. Positions'
    BY <2>1, <2>2, <2>3 DEF TypeInv, Positions
  <2>6. \A u \in Terminals : control'[u].index = control[u].index
    BY <2>2, <2>3
  <2> QED
    BY <2>4, <2>5, <2>6 DEF TypeInv, TypeOK
<1>3. CASE ~At(t, "review") /\ ~Alone(t) /\ NextChild(t)
  <2>1. task[t] \in Manifests /\ Len(Children[task[t]]) \in Nat /\ Len(Children[task[t]]) >= 2
    BY <1>3, ChildIsOp DEF TypeInv, Positions
  <2>2. control[t].index \in Nat \ {0} /\ control[t].phase \in {"survey", "derive"}
    BY <1>3, ControlUpdates
  <2> DEFINE next == control'[t]
  <2>3. next = IF control[t].index < Len(Children[task[t]])
               THEN [control[t] EXCEPT !.at = "check", !.index = @ + 1]
               ELSE [control[t] EXCEPT !.index = 1, !.phase = "derive",
                       !.at = IF control[t].phase = "survey" THEN "check" ELSE "conclude"]
    BY <1>3 DEF NextChild, TypeInv, TypeOK
  <2>4. /\ next \in Controls /\ next.phase # "single" /\ next.at \in {"check", "conclude"}
        /\ next.index <= Len(Children[task[t]])
    <3>1. control[t] = [at |-> control[t].at, phase |-> control[t].phase, index |-> control[t].index]
      BY <1>c DEF Controls
    <3>2. CASE control[t].index < Len(Children[task[t]])
      <4>1. next = [at |-> "check", phase |-> control[t].phase, index |-> control[t].index + 1]
        BY <2>3, <3>1, <3>2
      <4> QED
        BY <4>1, <3>2, <2>1, <2>2 DEF Controls
    <3>3. CASE ~(control[t].index < Len(Children[task[t]]))
      <4>1. next = [phase |-> "derive", index |-> 1,
                    at |-> IF control[t].phase = "survey" THEN "check" ELSE "conclude"]
        BY <2>3, <3>1, <3>3
      <4> QED
        BY <4>1, <2>1 DEF Controls
    <3> QED
      BY <3>2, <3>3
  <2>5. \A u \in Terminals \ {t} : control'[u] = control[u]
    BY <1>3 DEF NextChild, TypeInv, TypeOK
  <2>6. DOMAIN control' = Terminals /\ control' = [u \in Terminals |-> control'[u]]
    BY <1>3 DEF NextChild, TypeInv, TypeOK
  <2>7. control' \in [Terminals -> Controls]
    BY <2>4, <2>5, <2>6 DEF TypeInv, TypeOK
  <2>8. Positions'
    BY <2>1, <2>4, <2>5 DEF TypeInv, Positions
  <2> QED
    BY <2>4, <2>5, <2>7, <2>8 DEF TypeInv, TypeOK
<1> QED
  BY <1>1, <1>3

LEMMA TypeInit == Init => TypeInv
<1> SUFFICES ASSUME Init PROVE TypeInv
  OBVIOUS
<1>1. \A m \in Manifests : 0 \in 0..Len(Children[m])
  BY ChildIsOp
<1>2. NoRecord \in Records /\ NoRecord.status = "absent"
  BY DEF NoRecord, Pending, Records, Paths
<1>3. control \in [Terminals -> Controls] /\ record \in [Ops -> Records] /\ held \in [Terminals -> Records]
  BY <1>2 DEF Init, Controls
<1>4. \A t \in Terminals : task[t] = None
  BY DEF Init
<1>5. Positions
  BY NamesAssumption DEF Init, Positions, At, Alone
<1> QED
  BY <1>1, <1>3, <1>4, <1>5, NamesAssumption DEF Init, TypeInv, TypeOK, Tasks

\* One step of a terminal.
LEMMA TypeTerminal ==
  ASSUME TypeInv, NEW t \in Terminals, Terminal(t)
  PROVE  TypeInv'
<1> USE DEF ledgers, server
<1>t. /\ record \in [Ops -> Records] /\ held \in [Terminals -> Records]
      /\ mrecord \in [Manifests -> {"absent", "pending", "approved", "expired"}]
      /\ task \in [Terminals -> Tasks \cup {None}] /\ control \in [Terminals -> Controls]
      /\ raced \in BOOLEAN
  BY DEF TypeInv, TypeOK
<1>p. Positions
  BY DEF TypeInv
<1> DEFINE Frame == UNCHANGED <<ledgers, server>>
           Moved == /\ control' \in [Terminals -> Controls]
                    /\ \A u \in Terminals :
                         task'[u] \in Manifests => control'[u].index <= Len(Children[task'[u]])
           Kept == /\ record' \in [Ops -> Records] /\ held' \in [Terminals -> Records]
                   /\ mrecord' \in [Manifests -> {"absent", "pending", "approved", "expired"}]
                   /\ task' \in [Terminals -> Tasks \cup {None}] /\ raced' \in BOOLEAN
<1>f. ASSUME Frame, Moved, Kept, Positions' PROVE TypeInv'
  BY <1>f DEF TypeInv, TypeOK
<1>1. CASE Confirm(t)
  <2>1. PICK x \in Tasks : task' = [task EXCEPT ![t] = x]
    BY <1>1 DEF Confirm
  <2>2. control' = [control EXCEPT ![t] = [control[t] EXCEPT !.at = "review"]]
        /\ At(t, "idle") /\ Alone(t)
    BY <1>1, <1>p DEF Confirm, At, Positions
  <2> DEFINE next == [control[t] EXCEPT !.at = "review"]
  <2>3. next \in Controls /\ next.at = "review" /\ next.phase = "single" /\ next.index = control[t].index
    BY <2>2, ControlUpdates DEF Controls, Alone
  <2>4. control'[t] = next /\ \A u \in Terminals \ {t} : control'[u] = control[u]
    BY <2>2, <1>t
  <2>5. task'[t] = x /\ \A u \in Terminals \ {t} : task'[u] = task[u]
    BY <2>1, <1>t
  <2>6. control[t].index = 1
    BY <2>2, <1>p DEF Positions, At
  <2>7. Moved
    <3>1. control' \in [Terminals -> Controls]
      BY <2>2, <2>3, <1>t
    <3>2. x \in Manifests => 1 <= Len(Children[x])
      BY ChildIsOp
    <3> QED
      BY <3>1, <3>2, <2>3, <2>4, <2>5, <2>6 DEF TypeInv, TypeOK
  <2>8. Positions'
    <3> SUFFICES ASSUME NEW u \in Terminals
                 PROVE  /\ At(u, "idle")' => task'[u] = None
                        /\ control'[u].at \in {"idle", "review"} =>
                             Alone(u)' /\ control'[u].index = 1
                        /\ At(u, "review")' => task'[u] \in Tasks
                        /\ control'[u].at \notin {"idle", "review", "end"} =>
                             IF Alone(u)' THEN task'[u] \in Ops ELSE task'[u] \in Manifests
                        /\ At(u, "conclude")' => ~Alone(u)'
      BY DEF Positions
    <3>1. CASE u = t
      <4> HIDE DEF next
      <4>1. x \in Tasks
        BY <2>1
      <4> QED
        BY <3>1, <4>1, <2>3, <2>4, <2>5, <2>6 DEF At, Alone
    <3>2. CASE u # t
      BY <3>2, <2>4, <2>5, <1>p DEF Positions, At, Alone
    <3> QED
      BY <3>1, <3>2
  <2>9. Kept
    BY <1>1, <2>1, <1>t DEF Confirm
  <2> QED
    BY <1>1, <2>7, <2>8, <2>9, <1>f DEF Confirm
<1>2. CASE Review(t)
  <2> DEFINE x == task[t]
             open == x \in Manifests =>
                       manifest[x] = "prepared" /\ ~Late(x) /\ mrecord[x] = "pending"
             next == [at |-> IF open THEN "check" ELSE "end", index |-> 1,
                      phase |-> IF x \in Ops THEN "single" ELSE "survey"]
  <2>1. control' = [control EXCEPT ![t] = next]
    BY <1>2 DEF Review
  <2>2. next \in Controls /\ next.index = 1 /\ next.at \in {"check", "end"}
        /\ next.phase = (IF x \in Ops THEN "single" ELSE "survey")
    BY DEF Controls
  <2>3. control'[t] = next /\ \A u \in Terminals \ {t} : control'[u] = control[u]
    BY <2>1, <1>t
  <2>4. x \in Tasks /\ task' = task
    BY <1>2, <1>p DEF Review, Positions
  <2>5. Moved
    <3>1. control' \in [Terminals -> Controls]
      BY <2>1, <2>2, <1>t
    <3>2. x \in Manifests => 1 <= Len(Children[x])
      BY ChildIsOp
    <3> QED
      BY <3>1, <3>2, <2>2, <2>3, <2>4 DEF TypeInv, TypeOK
  <2>6. Positions'
    BY <2>2, <2>3, <2>4, <1>p, NamesAssumption DEF Positions, At, Alone, Tasks
  <2>7. Kept
    BY <1>2, <1>t DEF Review
  <2> QED
    BY <1>2, <2>5, <2>6, <2>7, <1>f DEF Review
<1>3. CASE CheckProof(t)
  <2>1. \/ Goto(t, "end")
        \/ \E at \in {"check", "get", "expire", "write"} : Goto(t, at)
    BY <1>3 DEF CheckProof, End
  <2>2. control[t].at = "check" /\ Frame /\ UNCHANGED <<record, mrecord, held, task, raced>>
    BY <1>3 DEF CheckProof, End, At
  <2> QED
    BY <2>1, <2>2, <1>f, <1>t, Moves DEF At
<1>d. ASSUME control[t].at \in {"get", "expire"}, NEW r \in Records, Decide(t, r)
      PROVE  \/ Goto(t, "end")
             \/ \E at \in {"check", "get", "expire", "write"} : Goto(t, at)
             \/ ~Alone(t) /\ NextChild(t)
  BY <1>d, ControlUpdates DEF Decide, Alone
<1>4. CASE GetRecord(t)
  <2>1. control[t].at = "get" /\ Frame /\ UNCHANGED <<record, mrecord, task, raced>>
    BY <1>4 DEF GetRecord, At
  <2>2. record[Current(t)] \in Records
    BY <2>1, CurrentIsOp, <1>t
  <2>3. \/ Goto(t, "end")
        \/ \E at \in {"check", "get", "expire", "write"} : Goto(t, at)
        \/ ~Alone(t) /\ NextChild(t)
    BY <1>4, <2>1, <2>2, <1>d DEF GetRecord
  <2>4. held' \in [Terminals -> Records]
    BY <1>4, <2>2, <1>t, RecordFields DEF GetRecord
  <2> QED
    BY <2>1, <2>3, <2>4, <1>f, <1>t, Moves DEF At
<1>5. CASE PutExpired(t)
  <2>1. control[t].at = "expire" /\ Frame /\ UNCHANGED <<held, mrecord, task, raced>>
    BY <1>5 DEF PutExpired, At
  <2>2. \/ Goto(t, "end")
        \/ \E at \in {"check", "get", "expire", "write"} : Goto(t, at)
        \/ ~Alone(t) /\ NextChild(t)
    BY <1>5, <2>1, <1>t, <1>d DEF PutExpired
  <2>3. record' \in [Ops -> Records]
    BY <1>5, <1>t DEF PutExpired
  <2> QED
    BY <2>1, <2>2, <2>3, <1>f, <1>t, Moves DEF At
<1>6. CASE PutApproved(t)
  <2>1. control[t].at = "write" /\ Frame /\ UNCHANGED <<held, mrecord, task>>
    BY <1>6 DEF PutApproved, At
  <2>2. \/ Goto(t, "end")
        \/ \E at \in {"check", "get", "expire", "write"} : Goto(t, at)
        \/ ~Alone(t) /\ NextChild(t)
    BY <1>6 DEF PutApproved
  <2>3. (IF Alone(t) THEN held[t].manifest ELSE task[t]) \in Paths
    BY <2>1, <1>p, <1>t, RecordFields DEF Positions, Paths
  <2>4. record' \in [Ops -> Records]
    BY <1>6, <2>3, <1>t, RecordFields DEF PutApproved, Replace
  <2>5. raced' \in BOOLEAN
    BY <1>6, <1>t DEF PutApproved, Replace
  <2> QED
    BY <2>1, <2>2, <2>4, <2>5, <1>f, <1>t, Moves DEF At
<1>7. CASE Conclude(t)
  <2>1. control[t].at = "conclude" /\ Frame /\ UNCHANGED <<record, held, task, raced>>
    BY <1>7 DEF Conclude, At
  <2>2. mrecord' \in [Manifests -> {"absent", "pending", "approved", "expired"}]
    BY <1>7, <1>t DEF Conclude
  <2> QED
    BY <1>7, <2>1, <2>2, <1>f, <1>t, Moves DEF Conclude, At
<1>8. CASE Close(t)
  <2>1. control[t].at \notin {"idle", "end"} /\ Goto(t, "end") /\ Frame
        /\ UNCHANGED <<record, mrecord, held, raced, task>>
    BY <1>8 DEF Close, End
  <2> QED
    BY <2>1, <1>f, <1>t, Moves DEF At
<1> QED
  BY <1>1, <1>2, <1>3, <1>4, <1>5, <1>6, <1>7, <1>8 DEF Terminal

\* One step of the server for an operation: no terminal moves.
LEMMA TypeOperation ==
  ASSUME TypeInv, NEW o \in Ops, Operation(o)
  PROVE  TypeInv' /\ UNCHANGED terminals
<1> USE DEF ledgers, server, terminals
<1>1. UNCHANGED <<task, control, held, manifest, mrecord, composing, vetted, raced>>
  BY DEF Operation, Prove, Request, Elapse, ExpireRecord, ShowCapability, AdmitIndividual,
         AdmitAuthorized, RunIndividual, Begin
<1>2. Positions'
  BY <1>1 DEF TypeInv, Positions, At, Alone
<1>a. Pending \in Records
  BY DEF Pending, Records, Paths
<1>b. record[o] \in Records
  BY DEF TypeInv, TypeOK
<1>c. Expired(record[o]) \in Records
  BY <1>b, RecordFields
<1>3. /\ Pending \in Records /\ Expired(record[o]) \in Records
      /\ status \in [Ops -> {"none", "proven", "begun"}] /\ record \in [Ops -> Records]
      /\ elapsed \subseteq Ops /\ known \subseteq Ops
      /\ admitted \subseteq Ops \X {"individual", "authorized"} /\ ran \subseteq Ops \X Paths
  BY <1>a, <1>c DEF TypeInv, TypeOK
<1>4. /\ status' \in [Ops -> {"none", "proven", "begun"}] /\ record' \in [Ops -> Records]
      /\ elapsed' \subseteq Ops /\ known' \subseteq Ops
      /\ admitted' \subseteq Ops \X {"individual", "authorized"} /\ ran' \subseteq Ops \X Paths
  <2> USE <1>3
  <2>1. CASE Prove(o)
    BY <2>1 DEF Prove
  <2>2. CASE Request(o)
    BY <2>2 DEF Request
  <2>3. CASE Elapse(o)
    BY <2>3 DEF Elapse
  <2>4. CASE ExpireRecord(o)
    BY <2>4 DEF ExpireRecord
  <2>5. CASE ShowCapability(o)
    BY <2>5 DEF ShowCapability
  <2>6. CASE AdmitIndividual(o)
    BY <2>6 DEF AdmitIndividual
  <2>7. CASE AdmitAuthorized(o)
    BY <2>7 DEF AdmitAuthorized
  <2>8. CASE RunIndividual(o)
    BY <2>8 DEF RunIndividual, Begin, Paths
  <2> QED
    BY <2>1, <2>2, <2>3, <2>4, <2>5, <2>6, <2>7, <2>8 DEF Operation
<1> QED
  BY <1>1, <1>2, <1>4 DEF TypeInv, TypeOK

\* One step of the server for a manifest.
LEMMA TypeManifest ==
  ASSUME TypeInv, NEW m \in Manifests, Manifest(m)
  PROVE  TypeInv' /\ UNCHANGED <<terminals, record>>
<1> USE DEF ledgers, server, terminals
<1>1. UNCHANGED <<task, control, held, record, elapsed, known, admitted, raced>>
  BY DEF Manifest, ComposeChild, PutManifest, RequestManifest, ExpireManifestRecord,
         VetManifest, BeginManifest, RunChild, Begin
<1>2. Positions'
  BY <1>1 DEF TypeInv, Positions, At, Alone
<1>3. /\ status \in [Ops -> {"none", "proven", "begun"}]
      /\ manifest \in [Manifests -> {"none", "prepared", "committing"}]
      /\ mrecord \in [Manifests -> {"absent", "pending", "approved", "expired"}]
      /\ composing \in [Manifests -> Nat] /\ vetted \in [Manifests -> Nat]
      /\ \A n \in Manifests : composing[n] \in 0..Len(Children[n]) /\ vetted[n] \in 0..Len(Children[n])
      /\ ran \subseteq Ops \X Paths
  BY DEF TypeInv, TypeOK
<1>4. Len(Children[m]) \in Nat /\ Len(Children[m]) >= 2
  BY ChildIsOp
<1>5. /\ status' \in [Ops -> {"none", "proven", "begun"}]
      /\ manifest' \in [Manifests -> {"none", "prepared", "committing"}]
      /\ mrecord' \in [Manifests -> {"absent", "pending", "approved", "expired"}]
      /\ composing' \in [Manifests -> Nat] /\ vetted' \in [Manifests -> Nat]
      /\ \A n \in Manifests : composing'[n] \in 0..Len(Children[n]) /\ vetted'[n] \in 0..Len(Children[n])
      /\ ran' \subseteq Ops \X Paths
  <2> USE <1>3
  <2>1. CASE ComposeChild(m)
    <3>1. composing' = [composing EXCEPT ![m] = @ + 1] /\ composing[m] < Len(Children[m])
          /\ UNCHANGED <<status, manifest, mrecord, vetted, ran>>
      BY <2>1 DEF ComposeChild
    <3> QED
      BY <3>1, <1>4
  <2>2. CASE PutManifest(m)
    BY <2>2 DEF PutManifest
  <2>3. CASE RequestManifest(m)
    BY <2>3 DEF RequestManifest
  <2>4. CASE ExpireManifestRecord(m)
    BY <2>4 DEF ExpireManifestRecord
  <2>5. CASE VetManifest(m)
    <3>1. vetted' = [vetted EXCEPT ![m] = @ + 1] /\ vetted[m] < Len(Children[m])
          /\ UNCHANGED <<status, manifest, mrecord, composing, ran>>
      BY <2>5, <1>4 DEF VetManifest
    <3> QED
      BY <3>1, <1>4
  <2>6. CASE BeginManifest(m)
    BY <2>6 DEF BeginManifest
  <2>7. CASE \E o \in Ops : RunChild(o, m)
    BY <2>7 DEF RunChild, Begin, Paths
  <2> QED
    BY <2>1, <2>2, <2>3, <2>4, <2>5, <2>6, <2>7 DEF Manifest
<1> QED
  BY <1>1, <1>2, <1>5 DEF TypeInv, TypeOK

LEMMA TypeStep == TypeInv /\ [Next]_vars => TypeInv'
<1>1. ASSUME TypeInv, UNCHANGED vars PROVE TypeInv'
  BY <1>1 DEF vars, TypeInv, TypeOK, Positions, At, Alone
<1> QED
  BY <1>1, TypeTerminal, TypeOperation, TypeManifest DEF Next

LEMMA TypeHolds == Spec => []TypeInv
BY TypeInit, TypeStep, PTL DEF Spec

\* Every variable stays in its domain: a terminal never runs past the children
\* of its manifest, a vetting never past theirs.
THEOREM TypeCorrect == Spec => []TypeOK
<1>1. TypeInv => TypeOK
  BY DEF TypeInv
<1> QED
  BY <1>1, TypeHolds, PTL

-----------------------------------------------------------------------------
(* What a broker holds, and what steps do to the records.                  *)

\* Whoever is about to approve has not read an approval; whoever is about to
\* put an expiry has read a record whose time is over.
HoldInv ==
  \A t \in Terminals :
    /\ At(t, "write") => held[t].status # "approved"
    /\ At(t, "expire") => held[t].status = "expired" /\ Current(t) \in elapsed

LEMMA OthersStay ==
  ASSUME TypeInv, NEW t \in Terminals, Terminal(t)
  PROVE  \A u \in Terminals \ {t} :
           control'[u] = control[u] /\ held'[u] = held[u] /\ task'[u] = task[u]
<1>1. task' = task \/ \E x : task' = [task EXCEPT ![t] = x]
  BY DEF Terminal, Confirm, Review, CheckProof, GetRecord, PutExpired, PutApproved, Conclude, Close
<1>2. held' = held \/ \E x : held' = [held EXCEPT ![t] = x]
  BY DEF Terminal, Confirm, Review, CheckProof, GetRecord, PutExpired, PutApproved, Conclude,
         Close, End
<1>3. \E x : control' = [control EXCEPT ![t] = x]
  <2>g. ASSUME (\E at : Goto(t, at)) \/ NextChild(t)
        PROVE  \E x : control' = [control EXCEPT ![t] = x]
    BY <2>g DEF Goto, NextChild
  <2>d. ASSUME NEW r, Decide(t, r)
        PROVE  (\E at : Goto(t, at)) \/ NextChild(t)
    BY <2>d, ControlUpdates DEF Decide
  <2>1. CASE Confirm(t)
    BY <2>1 DEF Confirm
  <2>2. CASE Review(t)
    BY <2>2 DEF Review
  <2>3. CASE CheckProof(t)
    BY <2>3 DEF CheckProof, End, Goto
  <2>4. CASE GetRecord(t)
    BY <2>4, <2>g, <2>d DEF GetRecord
  <2>5. CASE PutExpired(t)
    BY <2>5, <2>g, <2>d DEF PutExpired
  <2>6. CASE PutApproved(t)
    BY <2>6 DEF PutApproved, Goto, NextChild
  <2>7. CASE Conclude(t) \/ Close(t)
    BY <2>7 DEF Conclude, Close, End, Goto
  <2> QED
    BY <2>1, <2>2, <2>3, <2>4, <2>5, <2>6, <2>7 DEF Terminal
<1> QED
  BY <1>1, <1>2, <1>3 DEF TypeInv, TypeOK

\* Where a terminal is after a step of its own.
LEMMA Arrives ==
  ASSUME TypeInv, NEW t \in Terminals
  PROVE  /\ \A at : Goto(t, at) => /\ control'[t].at = at
                                   /\ control'[t].phase = control[t].phase
                                   /\ control'[t].index = control[t].index
         /\ NextChild(t) => control'[t].at \in {"check", "conclude"}
<1>1. control \in [Terminals -> Controls]
  BY DEF TypeInv, TypeOK
<1>2. control[t] = [at |-> control[t].at, phase |-> control[t].phase, index |-> control[t].index]
  BY <1>1 DEF Controls
<1>3. ASSUME NEW at, Goto(t, at)
      PROVE  control'[t].at = at /\ control'[t].phase = control[t].phase
             /\ control'[t].index = control[t].index
  <2>1. control'[t] = [control[t] EXCEPT !.at = at]
    BY <1>1, <1>3 DEF Goto
  <2> QED
    BY <1>2, <2>1
<1>4. ASSUME NextChild(t) PROVE control'[t].at \in {"check", "conclude"}
  <2>1. control'[t] = IF control[t].index < Len(Children[task[t]])
               THEN [control[t] EXCEPT !.at = "check", !.index = @ + 1]
               ELSE [control[t] EXCEPT !.index = 1, !.phase = "derive",
                       !.at = IF control[t].phase = "survey" THEN "check" ELSE "conclude"]
    BY <1>1, <1>4 DEF NextChild
  <2> QED
    BY <1>2, <2>1
<1> QED
  BY <1>3, <1>4

LEMMA ElapsedStays == TypeInv /\ Next => elapsed \subseteq elapsed'
BY DEF Next, Terminal, Operation, Manifest, ledgers, server,
       Confirm, Review, CheckProof, GetRecord, PutExpired, PutApproved, Conclude, Close,
       Prove, Request, Elapse, ExpireRecord, ShowCapability, AdmitIndividual, AdmitAuthorized,
       RunIndividual, Begin, ComposeChild, PutManifest, RequestManifest, ExpireManifestRecord,
       VetManifest, BeginManifest, RunChild

LEMMA HoldStep == TypeInv /\ HoldInv /\ [Next]_vars => HoldInv'
<1> SUFFICES ASSUME TypeInv, HoldInv, [Next]_vars PROVE HoldInv'
  OBVIOUS
<1>1. ASSUME UNCHANGED <<control, task, held>>, elapsed \subseteq elapsed' PROVE HoldInv'
  BY <1>1 DEF HoldInv, At, Current, Alone
<1>2. CASE UNCHANGED vars
  BY <1>1, <1>2 DEF vars
<1>3. CASE \E o \in Ops : Operation(o)
  BY <1>1, <1>3, TypeOperation, ElapsedStays DEF terminals, Next
<1>4. CASE \E m \in Manifests : Manifest(m)
  BY <1>1, <1>4, TypeManifest, ElapsedStays DEF terminals, Next
<1>5. ASSUME NEW t \in Terminals, Terminal(t) PROVE HoldInv'
  <2>1. elapsed \subseteq elapsed'
    BY <1>5, ElapsedStays DEF Next
  <2>2. \A u \in Terminals \ {t} :
          /\ At(u, "write")' => held'[u].status # "approved"
          /\ At(u, "expire")' => held'[u].status = "expired" /\ Current(u)' \in elapsed'
    BY <1>5, <2>1, OthersStay DEF HoldInv, At, Current, Alone
  <2>3. /\ At(t, "write")' => held'[t].status # "approved"
        /\ At(t, "expire")' => held'[t].status = "expired" /\ Current(t)' \in elapsed'
    <3>d. ASSUME NEW r, Decide(t, r)
          PROVE  /\ ~At(t, "expire")'
                 /\ At(t, "write")' => r.status # "approved"
      <4>1. \/ Goto(t, "end")
            \/ Goto(t, "write") /\ r.status # "approved"
            \/ NextChild(t)
        BY <3>d, ControlUpdates DEF Decide
      <4> QED
        BY <4>1, Arrives DEF At
    <3>1. CASE Confirm(t)
      <4>1. control'[t] = [control[t] EXCEPT !.at = "review"]
        BY <3>1 DEF Confirm, TypeInv, TypeOK
      <4> QED
        BY <4>1, ControlUpdates DEF At, Controls
    <3>2. CASE Review(t)
      <4>1. control'[t].at \in {"check", "end"}
        BY <3>2 DEF Review, TypeInv, TypeOK
      <4> QED
        BY <4>1 DEF At
    <3>3. CASE CheckProof(t) \/ Conclude(t) \/ Close(t)
      <4>1. Goto(t, "get") \/ Goto(t, "end")
        BY <3>3 DEF CheckProof, Conclude, Close, End
      <4> QED
        BY <4>1, Arrives DEF At
    <3>4. CASE GetRecord(t)
      <4>1. CASE record[Current(t)].status = "absent" /\ Goto(t, "end")
        BY <4>1, Arrives DEF At
      <4>2. CASE /\ Current(t) \in elapsed /\ Goto(t, "expire")
                 /\ held' = [held EXCEPT ![t] = Expired(record[Current(t)])]
        <5>1. control[t].at \notin {"idle", "review", "end"}
          BY <3>4 DEF GetRecord, At
        <5>2. record[Current(t)] \in Records
          BY <5>1, CurrentIsOp DEF TypeInv, TypeOK
        <5>3. held'[t].status = "expired"
          BY <4>2, <5>2, RecordFields DEF TypeInv, TypeOK
        <5>4. Current(t)' = Current(t) /\ elapsed' = elapsed
          BY <3>4, <4>2, Arrives DEF GetRecord, Current, Alone, ledgers
        <5> QED
          BY <4>2, <5>3, <5>4, Arrives DEF At
      <4>3. CASE /\ held' = [held EXCEPT ![t] = record[Current(t)]]
                 /\ Decide(t, record[Current(t)])
        <5>1. held'[t] = record[Current(t)]
          BY <4>3 DEF TypeInv, TypeOK
        <5> QED
          BY <5>1, <4>3, <3>d
      <4> QED
        BY <3>4, <4>1, <4>2, <4>3 DEF GetRecord
    <3>5. CASE PutExpired(t)
      BY <3>5, <3>d DEF PutExpired
    <3>6. CASE PutApproved(t)
      <4>1. Goto(t, "end") \/ NextChild(t)
        BY <3>6 DEF PutApproved
      <4> QED
        BY <4>1, Arrives DEF At
    <3> QED
      BY <1>5, <3>1, <3>2, <3>3, <3>4, <3>5, <3>6 DEF Terminal
  <2> QED
    BY <2>2, <2>3 DEF HoldInv
<1> QED
  BY <1>2, <1>3, <1>4, <1>5 DEF Next

\* The four things that can happen to a record.
LEMMA RecordStep ==
  ASSUME TypeInv, HoldInv, Next, NEW o \in Ops
  PROVE  \/ record'[o] = record[o]
         \/ record[o] = NoRecord /\ record'[o] = Pending
         \/ /\ o \in elapsed /\ record'[o].status = "expired"
            /\ \/ record'[o].manifest = record[o].manifest
               \/ \E t \in Terminals : record'[o].manifest = held[t].manifest
         \/ \E t \in Terminals : PutApproved(t) /\ o = Current(t)
<1>r. record \in [Ops -> Records]
  BY DEF TypeInv, TypeOK
<1>1. ASSUME NEW p \in Ops, Operation(p)
      PROVE  \/ record'[o] = record[o]
             \/ record[o] = NoRecord /\ record'[o] = Pending
             \/ /\ o \in elapsed /\ record'[o].status = "expired"
                /\ record'[o].manifest = record[o].manifest
  <2>1. \/ UNCHANGED record \/ Request(p) \/ ExpireRecord(p)
    BY <1>1 DEF Operation, Prove, Elapse, ShowCapability, AdmitIndividual,
         AdmitAuthorized, RunIndividual, Begin
  <2>2. CASE Request(p)
    BY <2>2, <1>r DEF Request
  <2>3. CASE ExpireRecord(p)
    BY <2>3, <1>r, RecordFields DEF ExpireRecord
  <2> QED
    BY <2>1, <2>2, <2>3
<1>2. ASSUME NEW t \in Terminals, Terminal(t)
      PROVE  \/ record'[o] = record[o]
             \/ /\ o \in elapsed /\ record'[o].status = "expired"
                /\ record'[o].manifest = held[t].manifest
             \/ PutApproved(t) /\ o = Current(t)
  <2>1. UNCHANGED record \/ PutExpired(t) \/ PutApproved(t)
    BY <1>2 DEF Terminal, Confirm, Review, CheckProof, GetRecord, Conclude, Close, End
  <2>2. CASE PutExpired(t)
    BY <2>2, <1>r DEF PutExpired, HoldInv
  <2>3. CASE PutApproved(t)
    BY <2>3, <1>r DEF PutApproved, Replace
  <2> QED
    BY <2>1, <2>2, <2>3
<1> QED
  BY <1>1, <1>2, TypeManifest DEF Next

-----------------------------------------------------------------------------
(* Nothing runs that the human has not confirmed.                          *)

Confirmed(x) == \E t \in Terminals : task[t] = x

\* Everything that leads to a run names something confirmed.
ConsentInv ==
  /\ \A t \in Terminals : held[t].manifest # None => Confirmed(held[t].manifest)
  /\ \A o \in Ops : record[o].manifest # None => Confirmed(record[o].manifest)
  /\ \A o \in Ops : record[o].status = "approved" /\ record[o].manifest = None => Confirmed(o)
  /\ \A o \in known : Confirmed(o)
  /\ \A o \in Ops : <<o, "authorized">> \in admitted => Confirmed(o)
  /\ \A m \in Manifests : manifest[m] = "committing" => Confirmed(m)
  /\ ConsentBeforeEffect

\* What is confirmed at a terminal stays so.
LEMMA ConfirmedStays ==
  ASSUME TypeInv, Next, NEW x \in Tasks, Confirmed(x)
  PROVE  Confirmed(x)'
<1>1. PICK t \in Terminals : task[t] = x
  BY DEF Confirmed
<1>2. ASSUME NEW u \in Terminals, Terminal(u) PROVE task'[t] = x
  <2>1. CASE Confirm(u)
    <3>1. task[u] = None
      BY <2>1 DEF Confirm, TypeInv, Positions
    <3> QED
      BY <1>1, <1>2, <3>1, NamesAssumption, OthersStay DEF Tasks
  <2>2. CASE ~Confirm(u)
    BY <1>1, <1>2, <2>2 DEF Terminal, Review, CheckProof, GetRecord, PutExpired, PutApproved,
         Conclude, Close
  <2> QED
    BY <2>1, <2>2
<1>3. task'[t] = x
  BY <1>1, <1>2, TypeOperation, TypeManifest DEF Next, terminals
<1> QED
  BY <1>3 DEF Confirmed

LEMMA ConsentInit == Init => ConsentInv
<1> SUFFICES ASSUME Init PROVE ConsentInv
  OBVIOUS
<1>1. \A o \in Ops : record[o].status = "absent" /\ record[o].manifest = None
  BY DEF Init, NoRecord, Pending
<1>2. \A t \in Terminals : held[t].manifest = None
  BY DEF Init, NoRecord, Pending
<1> QED
  BY <1>1, <1>2 DEF Init, ConsentInv, ConsentBeforeEffect

\* The record a terminal puts approved: by what it is named, and who confirmed it.
LEMMA SignedRecord ==
  ASSUME TypeInv, NEW t \in Terminals, PutApproved(t), Current(t) \in Ops
  PROVE  /\ record'[Current(t)] = [status |-> "approved",
                                  manifest |-> IF Alone(t) THEN held[t].manifest ELSE task[t]]
         /\ Alone(t) => Current(t) = task[t]
         /\ ~Alone(t) => task[t] \in Manifests
BY DEF PutApproved, Replace, TypeInv, TypeOK, Positions, At, Current

LEMMA ConsentStep == TypeInv /\ HoldInv /\ ConsentInv /\ [Next]_vars => ConsentInv'
<1> SUFFICES ASSUME TypeInv, HoldInv, ConsentInv, [Next]_vars PROVE ConsentInv'
  OBVIOUS
<1>1. CASE UNCHANGED vars
  BY <1>1 DEF vars, ConsentInv, ConsentBeforeEffect, Confirmed
<1>2. CASE Next
  <2> DEFINE Later(x) == \E t \in Terminals : task'[t] = x
  <2>t. /\ record \in [Ops -> Records] /\ held \in [Terminals -> Records]
        /\ known \subseteq Ops /\ ran \subseteq Ops \X Paths
        /\ manifest \in [Manifests -> {"none", "prepared", "committing"}]
    BY DEF TypeInv, TypeOK
  <2>c. \A x \in Tasks : Confirmed(x) => Later(x)
    BY <1>2, ConfirmedStays DEF Confirmed
  <2> HIDE DEF Later
  <2>p. \A r \in Records : r.manifest # None => r.manifest \in Tasks
    BY DEF Records, Paths, Tasks
  <2>n. \A o \in Ops : o \in Tasks /\ o # None
    BY NamesAssumption DEF Tasks
  \* The records.
  <2>1. \A o \in Ops : /\ record'[o].manifest # None => Later(record'[o].manifest)
                       /\ record'[o].status = "approved" /\ record'[o].manifest = None => Later(o)
    <3> SUFFICES ASSUME NEW o \in Ops
                 PROVE  /\ record'[o].manifest # None => Later(record'[o].manifest)
                        /\ record'[o].status = "approved" /\ record'[o].manifest = None => Later(o)
      OBVIOUS
    <3>1. CASE record'[o] = record[o]
      BY <3>1, <2>t, <2>c, <2>p, <2>n DEF ConsentInv
    <3>2. CASE record'[o] = Pending
      BY <3>2 DEF Pending
    <3>3. CASE /\ record'[o].status = "expired"
               /\ \/ record'[o].manifest = record[o].manifest
                  \/ \E t \in Terminals : record'[o].manifest = held[t].manifest
      BY <3>3, <2>t, <2>c, <2>p DEF ConsentInv
    <3>4. ASSUME NEW t \in Terminals, PutApproved(t), o = Current(t)
          PROVE  /\ record'[o].manifest # None => Later(record'[o].manifest)
                 /\ record'[o].status = "approved" /\ record'[o].manifest = None => Later(o)
      <4>1. record'[o] = [status |-> "approved",
                          manifest |-> IF Alone(t) THEN held[t].manifest ELSE task[t]]
            /\ (Alone(t) => o = task[t]) /\ (~Alone(t) => task[t] \in Manifests)
        BY <3>4, SignedRecord
      <4>2. Confirmed(task[t]) /\ task' = task
        BY <3>4 DEF Confirmed, PutApproved
      <4>3. CASE Alone(t)
        BY <4>1, <4>2, <4>3, <2>t, <2>c, <2>p, <2>n DEF ConsentInv
      <4>4. CASE ~Alone(t)
        BY <4>1, <4>2, <4>4, <2>c, NamesAssumption DEF Tasks
      <4> QED
        BY <4>3, <4>4
    <3> QED
      BY <1>2, <3>1, <3>2, <3>3, <3>4, RecordStep
  \* What terminals hold.
  <2>2. \A t \in Terminals : held'[t].manifest # None => Later(held'[t].manifest)
    <3>1. ASSUME NEW u \in Terminals, GetRecord(u)
          PROVE  \A t \in Terminals : held'[t] = held[t] \/ held'[t].manifest = record[Current(u)].manifest
      <4>1. Current(u) \in Ops
        BY <3>1, CurrentIsOp DEF GetRecord, At
      <4> QED
        BY <3>1, <4>1, <2>t, RecordFields DEF GetRecord
    <3>2. ASSUME NEW u \in Terminals, Terminal(u), ~GetRecord(u) PROVE UNCHANGED held
      BY <3>2 DEF Terminal, Confirm, Review, CheckProof, PutExpired, PutApproved, Conclude, Close, End
    <3>3. \A u \in Terminals : GetRecord(u) => Current(u) \in Ops
      BY CurrentIsOp DEF GetRecord, At
    <3> QED
      BY <1>2, <3>1, <3>2, <3>3, <2>t, <2>c, <2>p, TypeOperation, TypeManifest
         DEF ConsentInv, Next, terminals
  \* What the agent has been shown, and its admitted calls.
  <2>3. \A t \in Terminals : Terminal(t) => UNCHANGED <<known, admitted, manifest, ran>>
    BY DEF Terminal, Confirm, Review, CheckProof, GetRecord, PutExpired, PutApproved, Conclude,
         Close, ledgers, server
  <2>4. \A o \in known' : Later(o)
    <3>1. ASSUME NEW p \in Ops, Operation(p) PROVE UNCHANGED known \/ ShowCapability(p)
      BY <3>1 DEF Operation, Prove, Request, Elapse, ExpireRecord, AdmitIndividual,
           AdmitAuthorized, RunIndividual, server
    <3>2. ASSUME NEW m \in Manifests, Manifest(m) PROVE UNCHANGED known
      BY <3>2 DEF Manifest, ComposeChild, PutManifest, RequestManifest, ExpireManifestRecord,
           VetManifest, BeginManifest, RunChild, server
    <3> QED
      BY <1>2, <2>3, <3>1, <3>2, <2>t, <2>c, <2>n DEF Next, ShowCapability, Authorizes, ConsentInv
  <2>5. \A o \in Ops : <<o, "authorized">> \in admitted' => Later(o)
    <3>1. ASSUME NEW p \in Ops, Operation(p)
          PROVE  \/ UNCHANGED admitted
                 \/ admitted' = admitted \cup {<<p, "individual">>}
                 \/ admitted' = admitted \cup {<<p, "authorized">>} /\ p \in known
      BY <3>1 DEF Operation, Prove, Request, Elapse, ExpireRecord, ShowCapability,
           AdmitIndividual, AdmitAuthorized, RunIndividual, server
    <3>2. ASSUME NEW m \in Manifests, Manifest(m) PROVE UNCHANGED admitted
      BY <3>2 DEF Manifest, ComposeChild, PutManifest, RequestManifest, ExpireManifestRecord,
           VetManifest, BeginManifest, RunChild, server
    <3> QED
      BY <1>2, <2>3, <3>1, <3>2, <2>c, <2>n DEF Next, ConsentInv
  \* Manifests that commit, and what has run.
  <2>6. \A m \in Manifests : manifest'[m] = "committing" => Later(m)
    <3>1. ASSUME NEW p \in Ops, Operation(p) PROVE UNCHANGED manifest
      BY <3>1 DEF Operation, Prove, Request, Elapse, ExpireRecord, ShowCapability,
           AdmitIndividual, AdmitAuthorized, RunIndividual, ledgers
    <3>2. ASSUME NEW m \in Manifests, Manifest(m), NEW n \in Manifests, manifest'[n] = "committing"
          PROVE  manifest[n] = "committing" \/ Confirmed(n)
      <4>1. UNCHANGED manifest \/ PutManifest(m) \/ BeginManifest(m)
        BY <3>2 DEF Manifest, ComposeChild, RequestManifest, ExpireManifestRecord, VetManifest,
             RunChild, ledgers
      <4>2. CASE PutManifest(m)
        BY <3>2, <4>2, <2>t DEF PutManifest
      <4>3. CASE BeginManifest(m)
        <5>1. Children[m][vetted[m]] \in Ops /\ record[Children[m][vetted[m]]].manifest = m
          BY <4>3, ChildIsOp DEF BeginManifest
        <5>2. m # None
          BY NamesAssumption
        <5> QED
          BY <3>2, <4>3, <5>1, <5>2, <2>t DEF BeginManifest, ConsentInv
      <4> QED
        BY <3>2, <4>1, <4>2, <4>3
    <3> QED
      BY <1>2, <2>3, <3>1, <3>2, <2>c DEF Next, ConsentInv, Tasks
  <2>7. ConsentBeforeEffect'
    <3> DEFINE Named(o, path) == IF path = None THEN o ELSE path
    <3>1. \A o \in Ops, path \in Paths : Named(o, path) \in Tasks
      BY DEF Tasks, Paths
    <3>2. \A o \in Ops, path \in Paths : <<o, path>> \in ran => Confirmed(Named(o, path))
      BY DEF ConsentInv, ConsentBeforeEffect, Confirmed
    <3>3. ASSUME NEW p \in Ops, Operation(p)
          PROVE  UNCHANGED ran \/ (ran' = ran \cup {<<p, None>>} /\ Confirmed(p))
      BY <3>3 DEF Operation, Prove, Request, Elapse, ExpireRecord, ShowCapability,
           AdmitIndividual, AdmitAuthorized, RunIndividual, Begin, server, ConsentInv
    <3>4. ASSUME NEW m \in Manifests, Manifest(m)
          PROVE  UNCHANGED ran \/ (Confirmed(m) /\ \E p \in Ops : ran' = ran \cup {<<p, m>>})
      BY <3>4 DEF Manifest, ComposeChild, PutManifest, RequestManifest, ExpireManifestRecord,
           VetManifest, BeginManifest, RunChild, Begin, server, ConsentInv
    <3>5. ASSUME NEW o \in Ops, NEW path \in Paths, <<o, path>> \in ran'
          PROVE  Confirmed(Named(o, path))
      BY <1>2, <2>3, <3>2, <3>3, <3>4, <3>5, NamesAssumption DEF Next
    <3>6. ASSUME NEW o \in Ops, NEW path \in Paths, <<o, path>> \in ran'
          PROVE  Later(Named(o, path))
      BY <3>1, <3>5, <3>6, <2>c
    <3> QED
      BY <3>6 DEF ConsentBeforeEffect, Later
  <2>8. /\ (\A t \in Terminals : held[t].manifest # None => Confirmed(held[t].manifest))'
        /\ (\A o \in Ops : record[o].manifest # None => Confirmed(record[o].manifest))'
        /\ (\A o \in Ops : record[o].status = "approved" /\ record[o].manifest = None => Confirmed(o))'
    <3>1. (\A t \in Terminals : held[t].manifest # None => Confirmed(held[t].manifest))'
      BY <2>2, Zenon DEF Confirmed, Later
    <3>2. (\A o \in Ops : record[o].manifest # None => Confirmed(record[o].manifest))'
      BY <2>1, Zenon DEF Confirmed, Later
    <3>3. (\A o \in Ops : record[o].status = "approved" /\ record[o].manifest = None => Confirmed(o))'
      BY <2>1, Zenon DEF Confirmed, Later
    <3> QED
      BY <3>1, <3>2, <3>3
  <2>9. /\ (\A o \in known : Confirmed(o))'
        /\ (\A o \in Ops : <<o, "authorized">> \in admitted => Confirmed(o))'
        /\ (\A m \in Manifests : manifest[m] = "committing" => Confirmed(m))'
    BY <2>4, <2>5, <2>6 DEF Confirmed, Later
  <2> QED
    BY <2>7, <2>8, <2>9 DEF ConsentInv
<1> QED
  BY <1>1, <1>2

\* Whatever terminals and the agent do, in whatever order and however stale the
\* records they write, an operation runs only in a form that was confirmed.
THEOREM NothingUnconfirmedRuns == Spec => []ConsentBeforeEffect
<1>1. Init => HoldInv
  BY DEF Init, HoldInv, At
<1>2. ConsentInv => ConsentBeforeEffect
  BY DEF ConsentInv
<1> QED
  BY <1>1, <1>2, TypeInit, TypeStep, HoldStep, ConsentInit, ConsentStep, PTL DEF Spec

-----------------------------------------------------------------------------
(* All children or none, and one path for each.                            *)

\* o can run through p only, or not at all any more.
Settled(o, p) ==
  o \in elapsed \/ record[o] = [status |-> "approved", manifest |-> p]

\* What a broker, the agent or a commit call has found settled.
PathInv ==
  ~raced =>
    /\ \A t \in Terminals :
         LET x == task[t]
             c == control[t]
         IN  /\ c.phase = "derive" /\ c.at # "end" =>
                  \A i \in Nat \ {0} : i < c.index => Settled(Children[x][i], x)
             /\ At(t, "conclude") => \A o \in Bound(x) : Settled(o, x)
    /\ \A m \in Manifests : mrecord[m] = "approved" => \A o \in Bound(m) : Settled(o, m)
    /\ \A m \in Manifests, i \in Nat \ {0} : i < vetted[m] => Settled(Children[m][i], m)
    /\ \A m \in Manifests : manifest[m] = "committing" => \A o \in Bound(m) : Settled(o, m)
    /\ \A o \in known : Settled(o, None)
    /\ \A o \in Ops : <<o, "authorized">> \in admitted => o \in known
    /\ \A o \in Ops, p \in Paths : <<o, p>> \in ran => Settled(o, p)

\* As long as records are not overwritten unread, what is settled stays so.
LEMMA SettledStays ==
  ASSUME TypeInv, HoldInv, Next, ~raced', NEW o \in Ops, NEW p, Settled(o, p)
  PROVE  o \in elapsed' \/ record'[o] = [status |-> "approved", manifest |-> p]
<1>1. elapsed \subseteq elapsed'
  BY ElapsedStays
<1>2. CASE o \in elapsed
  BY <1>1, <1>2
<1>3. CASE o \notin elapsed
  <2>1. record[o] = [status |-> "approved", manifest |-> p] /\ record[o].status = "approved"
    BY <1>3 DEF Settled
  <2>2. NoRecord.status = "absent"
    BY DEF NoRecord, Pending
  <2>3. ASSUME NEW t \in Terminals, PutApproved(t), o = Current(t) PROVE FALSE
    <3>1. record[o] = held[t]
      BY <2>3 DEF PutApproved, Replace
    <3>2. held[t].status # "approved"
      BY <2>3 DEF PutApproved, HoldInv
    <3> QED
      BY <2>1, <3>1, <3>2
  <2> QED
    BY <1>3, <2>1, <2>2, <2>3, RecordStep
<1> QED
  BY <1>2, <1>3

LEMMA RacedStays == TypeInv /\ Next /\ ~raced' => ~raced
BY DEF TypeInv, TypeOK, Next, Terminal, Operation, Manifest, ledgers, server, terminals, End,
       Confirm, Review, CheckProof, GetRecord, PutExpired, PutApproved, Replace, Conclude, Close,
       Prove, Request, Elapse, ExpireRecord, ShowCapability, AdmitIndividual, AdmitAuthorized,
       RunIndividual, Begin, ComposeChild, PutManifest, RequestManifest, ExpireManifestRecord,
       VetManifest, BeginManifest, RunChild

LEMMA PathInit == Init => PathInv
BY DEF Init, PathInv, At

\* A record found approved through p settles its operation.
LEMMA ReadIsSettled ==
  ASSUME TypeInv, NEW o \in Ops, NEW p, record[o].status = "approved", record[o].manifest = p
  PROVE  Settled(o, p)
<1>1. record[o] \in Records
  BY DEF TypeInv, TypeOK
<1> QED
  BY <1>1 DEF Records, Settled

\* The parts of PathInv that a terminal's position is responsible for.
LEMMA PathTerminals ==
  ASSUME TypeInv, HoldInv, PathInv, Next, ~raced'
  PROVE  \A u \in Terminals :
           /\ control'[u].phase = "derive" /\ control'[u].at # "end" =>
                \A i \in Nat \ {0} : i < control'[u].index =>
                  Settled(Children[task[u]][i], task[u])'
           /\ control'[u].at = "conclude" => \A o \in Bound(task'[u]) : Settled(o, task[u])'
<1> DEFINE Later(o, p) == o \in elapsed' \/ record'[o] = [status |-> "approved", manifest |-> p]
           Derived(u) == control'[u].phase = "derive" /\ control'[u].at # "end" =>
                           \A i \in Nat \ {0} : i < control'[u].index =>
                             Later(Children[task'[u]][i], task'[u])
           Concluding(u) == control'[u].at = "conclude" =>
                              \A o \in Bound(task'[u]) : Later(o, task'[u])
<1>r. ~raced
  BY RacedStays
<1>k. \A o \in Ops : \A p : Settled(o, p) => Later(o, p)
  BY SettledStays
<1>b. ASSUME NEW t \in Terminals, control[t].at \notin {"idle", "review", "end"}, ~Alone(t)
      PROVE  /\ task[t] \in Manifests /\ Len(Children[task[t]]) \in Nat
             /\ control[t].index \in Nat \ {0} /\ control[t].index <= Len(Children[task[t]])
             /\ \A i \in Nat \ {0} : i <= Len(Children[task[t]]) => Children[task[t]][i] \in Ops
             /\ Bound(task[t]) = {Children[task[t]][i] : i \in 1..Len(Children[task[t]])}
  <2>1. task[t] \in Manifests
    BY <1>b DEF TypeInv, Positions
  <2> QED
    BY <2>1, ControlUpdates, ChildIsOp DEF TypeInv, TypeOK
<1> HIDE DEF Later
\* What was found settled before still is.
<1>d. ASSUME NEW t \in Terminals, control[t].phase = "derive",
             control[t].at \notin {"idle", "review", "end"}
      PROVE  \A i \in Nat \ {0} : i < control[t].index => Later(Children[task[t]][i], task[t])
  <2>1. ~Alone(t)
    BY <1>d DEF Alone
  <2> QED
    BY <2>1, <1>d, <1>r, <1>k, <1>b DEF PathInv
<1>1. ASSUME NEW u \in Terminals, control'[u] = control[u], task'[u] = task[u]
      PROVE  Derived(u) /\ Concluding(u)
  <2>1. control[u].phase = "derive" => control[u].at \notin {"idle", "review"}
    BY DEF TypeInv, Positions, Alone
  <2>2. Derived(u)
    BY <1>1, <1>d, <2>1
  <2>3. ASSUME control[u].at = "conclude" PROVE \A o \in Bound(task[u]) : Later(o, task[u])
    <3>1. ~Alone(u)
      BY <2>3 DEF TypeInv, Positions, At
    <3>2. \A o \in Bound(task[u]) : o \in Ops
      <4>1. /\ Len(Children[task[u]]) \in Nat
            /\ \A i \in Nat \ {0} : i <= Len(Children[task[u]]) => Children[task[u]][i] \in Ops
            /\ Bound(task[u]) = {Children[task[u]][i] : i \in 1..Len(Children[task[u]])}
        BY <3>1, <2>3, <1>b
      <4> QED
        BY <4>1
    <3>3. \A o \in Bound(task[u]) : Settled(o, task[u])
      BY <2>3, <1>r DEF PathInv, At
    <3> QED
      BY <3>2, <3>3, <1>k
  <2> QED
    BY <1>1, <2>2, <2>3
<1>2. ASSUME NEW t \in Terminals, Goto(t, "end") PROVE Derived(t) /\ Concluding(t)
  BY <1>2, Arrives
<1>3. ASSUME NEW t \in Terminals, control[t].at \notin {"idle", "review", "end"}, task' = task,
             \E at \in {"get", "expire", "write"} : Goto(t, at)
      PROVE  Derived(t) /\ Concluding(t)
  BY <1>3, <1>d, Arrives
<1>4. ASSUME NEW t \in Terminals, control[t].at \notin {"idle", "review", "end"}, task' = task,
             ~Alone(t), NextChild(t),
             control[t].phase = "derive" => Later(Current(t), task[t])
      PROVE  Derived(t) /\ Concluding(t)
  <2> DEFINE c == control[t]
             n == Len(Children[task[t]])
  <2>1. c.phase \in {"survey", "derive"} /\ c \in Controls
    BY <1>4, ControlUpdates DEF Alone
  <2>2. c = [at |-> c.at, phase |-> c.phase, index |-> c.index]
    BY <2>1 DEF Controls
  <2>3. control'[t] = IF c.index < n
               THEN [c EXCEPT !.at = "check", !.index = @ + 1]
               ELSE [c EXCEPT !.index = 1, !.phase = "derive",
                       !.at = IF c.phase = "survey" THEN "check" ELSE "conclude"]
    BY <1>4 DEF NextChild, TypeInv, TypeOK
  <2>4. Current(t) = Children[task[t]][c.index]
    BY <1>4 DEF Current
  <2>5. c.index \in Nat \ {0} /\ c.index <= n /\ n \in Nat
    BY <1>4, <1>b
  <2>6. CASE c.index < n
    <3>1. control'[t].at = "check" /\ control'[t].index = c.index + 1 /\ control'[t].phase = c.phase
      BY <2>2, <2>3, <2>6
    <3>2. ASSUME c.phase = "derive", NEW i \in Nat \ {0}, i < c.index + 1
          PROVE  Later(Children[task[t]][i], task[t])
      <4>1. CASE i < c.index
        BY <1>4, <1>d, <3>2, <4>1
      <4>2. CASE i = c.index
        BY <1>4, <3>2, <4>2, <2>4
      <4> QED
        BY <3>2, <4>1, <4>2, <2>5
    <3> QED
      BY <1>4, <3>1, <3>2
  <2>7. CASE ~(c.index < n)
    <3>1. /\ control'[t].index = 1
          /\ control'[t].at = IF c.phase = "survey" THEN "check" ELSE "conclude"
      BY <2>2, <2>3, <2>7
    <3>2. Derived(t)
      BY <3>1
    <3>3. ASSUME c.phase = "derive", NEW o \in Bound(task[t]) PROVE Later(o, task[t])
      <4>1. PICK i \in 1..n : o = Children[task[t]][i]
        BY <1>4, <1>b
      <4>2. i \in Nat \ {0} /\ (i < c.index \/ i = c.index)
        BY <2>5, <2>7
      <4> QED
        BY <1>4, <1>d, <3>3, <4>1, <4>2, <2>4
    <3> QED
      BY <1>4, <2>1, <3>1, <3>2, <3>3
  <2> QED
    BY <2>6, <2>7
<1>5. ASSUME NEW t \in Terminals, Terminal(t) PROVE Derived(t) /\ Concluding(t)
  <2>1. CASE Confirm(t)
    <3>1. control'[t] = [control[t] EXCEPT !.at = "review"] /\ Alone(t)
      BY <2>1 DEF Confirm, TypeInv, TypeOK, Positions, At
    <3>2. control'[t].at = "review" /\ control'[t].phase = "single"
      BY <3>1, ControlUpdates DEF Controls, Alone
    <3> QED
      BY <3>2
  <2>2. CASE Review(t)
    <3>1. control'[t].at \in {"check", "end"} /\ control'[t].phase \in {"single", "survey"}
      BY <2>2 DEF Review, TypeInv, TypeOK
    <3> QED
      BY <3>1
  <2>3. CASE CheckProof(t) \/ Conclude(t) \/ Close(t)
    <3>1. Goto(t, "end") \/ (Goto(t, "get") /\ At(t, "check") /\ task' = task)
      BY <2>3 DEF CheckProof, Conclude, Close, End
    <3> QED
      BY <3>1, <1>2, <1>3 DEF At
  <2>4. CASE GetRecord(t)
    <3>1. control[t].at \notin {"idle", "review", "end"} /\ task' = task /\ UNCHANGED <<record, elapsed>>
      BY <2>4 DEF GetRecord, At, ledgers
    <3>2. Current(t) \in Ops
      BY <3>1, CurrentIsOp
    <3>3. \/ Goto(t, "end") \/ Goto(t, "expire") \/ Decide(t, record[Current(t)])
      BY <2>4 DEF GetRecord
    <3>4. CASE Decide(t, record[Current(t)])
      <4>1. \/ Goto(t, "end") \/ Goto(t, "write")
            \/ /\ NextChild(t) /\ ~Alone(t)
               /\ control[t].phase = "derive" =>
                    record[Current(t)].status = "approved" /\ record[Current(t)].manifest = task[t]
        BY <3>4, ControlUpdates DEF Decide, Alone
      <4>2. CASE /\ NextChild(t) /\ ~Alone(t)
                 /\ control[t].phase = "derive" =>
                      record[Current(t)].status = "approved" /\ record[Current(t)].manifest = task[t]
        <5>1. control[t].phase = "derive" => Later(Current(t), task[t])
          BY <4>2, <3>2, <1>k, ReadIsSettled
        <5> QED
          BY <4>1, <5>1, <3>1, <1>2, <1>3, <1>4
      <4> QED
        BY <4>1, <4>2, <3>1, <1>2, <1>3
    <3> QED
      BY <3>1, <3>3, <3>4, <1>2, <1>3
  <2>5. CASE PutExpired(t)
    <3>1. control[t].at \notin {"idle", "review", "end"} /\ task' = task /\ Decide(t, held[t])
          /\ held[t].status = "expired"
      BY <2>5 DEF PutExpired, At, HoldInv
    <3>2. \/ Goto(t, "end") \/ Goto(t, "write")
          \/ NextChild(t) /\ ~Alone(t) /\ control[t].phase # "derive"
      BY <3>1, ControlUpdates DEF Decide, Alone
    <3> QED
      BY <3>1, <3>2, <1>2, <1>3, <1>4
  <2>6. CASE PutApproved(t)
    <3>1. control[t].at \notin {"idle", "review", "end"} /\ task' = task
          /\ (Goto(t, "end") \/ (~Alone(t) /\ NextChild(t)))
      BY <2>6 DEF PutApproved, At
    <3>2. ~Alone(t) => record'[Current(t)] = [status |-> "approved", manifest |-> task[t]]
      BY <2>6, <3>1, CurrentIsOp, SignedRecord
    <3>3. ~Alone(t) => Later(Current(t), task[t])
      BY <3>2 DEF Later
    <3> QED
      BY <3>1, <3>3, <1>2, <1>4
  <2> QED
    BY <1>5, <2>1, <2>2, <2>3, <2>4, <2>5, <2>6 DEF Terminal
<1>6. \A u \in Terminals : Derived(u) /\ Concluding(u)
  <2>1. CASE \E t \in Terminals : Terminal(t)
    BY <2>1, <1>1, <1>5, OthersStay
  <2>2. CASE UNCHANGED terminals
    BY <2>2, <1>1 DEF terminals
  <2> QED
    BY <2>1, <2>2, TypeOperation, TypeManifest DEF Next
<1> QED
  BY <1>6 DEF Settled, Later

\* The rest of PathInv: what the server and the agent go by.
LEMMA PathServer ==
  ASSUME TypeInv, HoldInv, PathInv, Next, ~raced'
  PROVE  /\ \A m \in Manifests : mrecord'[m] = "approved" => \A o \in Bound(m) : Settled(o, m)'
         /\ \A m \in Manifests, i \in Nat \ {0} : i < vetted'[m] => Settled(Children[m][i], m)'
         /\ \A m \in Manifests : manifest'[m] = "committing" => \A o \in Bound(m) : Settled(o, m)'
         /\ \A o \in known' : Settled(o, None)'
         /\ \A o \in Ops : <<o, "authorized">> \in admitted' => o \in known'
         /\ \A o \in Ops, p \in Paths : <<o, p>> \in ran' => Settled(o, p)'
<1> DEFINE Later(o, p) == o \in elapsed' \/ record'[o] = [status |-> "approved", manifest |-> p]
<1>r. ~raced
  BY RacedStays
<1>k. \A o \in Ops : \A p : Settled(o, p) => Later(o, p)
  BY SettledStays
<1> HIDE DEF Later
<1>t. /\ known \subseteq Ops /\ ran \subseteq Ops \X Paths
      /\ manifest \in [Manifests -> {"none", "prepared", "committing"}]
      /\ mrecord \in [Manifests -> {"absent", "pending", "approved", "expired"}]
      /\ vetted \in [Manifests -> Nat] /\ \A m \in Manifests : vetted[m] \in 0..Len(Children[m])
  BY DEF TypeInv, TypeOK
<1>c. \A m \in Manifests : /\ \A i \in Nat \ {0} : i <= Len(Children[m]) => Children[m][i] \in Ops
                           /\ Bound(m) = {Children[m][i] : i \in 1..Len(Children[m])}
                           /\ Len(Children[m]) \in Nat
  BY ChildIsOp
<1>o. \A m \in Manifests : \A o \in Bound(m) : o \in Ops
  BY <1>c
\* What was found settled before still is.
<1>p. /\ \A m \in Manifests : mrecord[m] = "approved" => \A o \in Bound(m) : Later(o, m)
      /\ \A m \in Manifests : manifest[m] = "committing" => \A o \in Bound(m) : Later(o, m)
      /\ \A o \in known : Later(o, None)
      /\ \A o \in Ops, p \in Paths : <<o, p>> \in ran => Later(o, p)
      /\ \A o \in Ops : <<o, "authorized">> \in admitted => o \in known
  BY <1>r, <1>k, <1>o, <1>t DEF PathInv
<1>v. \A m \in Manifests, i \in Nat \ {0} : i < vetted[m] => Later(Children[m][i], m)
  BY <1>r, <1>k, <1>c, <1>t DEF PathInv
\* A terminal changes nothing of it but a manifest's record.
<1>1. ASSUME NEW t \in Terminals, Terminal(t)
      PROVE  /\ UNCHANGED <<vetted, manifest, known, admitted, ran>>
             /\ mrecord' = mrecord \/ Conclude(t)
  BY <1>1 DEF Terminal, Confirm, Review, CheckProof, GetRecord, PutExpired, PutApproved, Conclude,
       Close, End, ledgers, server
<1>2. ASSUME NEW p \in Ops, Operation(p)
      PROVE  /\ UNCHANGED <<vetted, manifest, mrecord>>
             /\ UNCHANGED known \/ ShowCapability(p)
             /\ UNCHANGED admitted \/ AdmitIndividual(p) \/ AdmitAuthorized(p)
             /\ UNCHANGED ran \/ RunIndividual(p)
             /\ known \subseteq known'
  BY <1>2 DEF Operation, Prove, Request, Elapse, ExpireRecord, ShowCapability, AdmitIndividual,
       AdmitAuthorized, RunIndividual, ledgers, server
<1>3. ASSUME NEW m \in Manifests, Manifest(m)
      PROVE  /\ UNCHANGED <<known, admitted>>
             /\ UNCHANGED vetted \/ VetManifest(m)
             /\ UNCHANGED manifest \/ PutManifest(m) \/ BeginManifest(m)
             /\ UNCHANGED mrecord \/ RequestManifest(m) \/ ExpireManifestRecord(m)
             /\ UNCHANGED ran \/ \E o \in Ops : RunChild(o, m)
  BY <1>3 DEF Manifest, ComposeChild, PutManifest, RequestManifest, ExpireManifestRecord,
       VetManifest, BeginManifest, RunChild, ledgers, server
<1>4. \A m \in Manifests : mrecord'[m] = "approved" => \A o \in Bound(m) : Later(o, m)
  <2>1. ASSUME NEW t \in Terminals, Conclude(t), NEW m \in Manifests, m = task[t]
        PROVE  \A o \in Bound(m) : Later(o, m)
    BY <2>1, <1>r, <1>k, <1>o DEF PathInv, Conclude
  <2>2. ASSUME NEW m \in Manifests, mrecord'[m] = "approved", mrecord' # mrecord
        PROVE  mrecord[m] = "approved" \/ \E t \in Terminals : Conclude(t) /\ m = task[t]
    BY <2>2, <1>1, <1>2, <1>3, <1>t DEF Next, Conclude, RequestManifest, ExpireManifestRecord
  <2> QED
    BY <1>p, <2>1, <2>2
<1>5. \A m \in Manifests, i \in Nat \ {0} : i < vetted'[m] => Later(Children[m][i], m)
  <2>1. ASSUME NEW m \in Manifests, VetManifest(m), NEW n \in Manifests,
               NEW i \in Nat \ {0}, i < vetted'[n]
        PROVE  Later(Children[n][i], n)
    <3>1. vetted' = [vetted EXCEPT ![m] = @ + 1]
      BY <2>1 DEF VetManifest
    <3>2. CASE i < vetted[n]
      BY <3>2, <1>v
    <3>3. CASE ~(i < vetted[n])
      <4>1. n = m /\ i = vetted[m] /\ vetted[m] \in 1..(Len(Children[m]) - 1)
        BY <2>1, <3>1, <3>3, <1>t DEF VetManifest
      <4>2. Children[m][i] \in Ops
        BY <4>1, <1>c
      <4>3. record[Children[m][i]].manifest = m /\ record[Children[m][i]].status = "approved"
        BY <2>1, <4>1 DEF VetManifest, Authorizes
      <4> QED
        BY <4>1, <4>2, <4>3, <1>k, ReadIsSettled
    <3> QED
      BY <3>2, <3>3
  <2> QED
    BY <1>1, <1>2, <1>3, <1>v, <2>1 DEF Next
<1>6. \A m \in Manifests : manifest'[m] = "committing" => \A o \in Bound(m) : Later(o, m)
  <2>1. ASSUME NEW m \in Manifests, BeginManifest(m), NEW o \in Bound(m) PROVE Later(o, m)
    <3>1. PICK i \in 1..Len(Children[m]) : o = Children[m][i]
      BY <2>1, <1>c
    <3>2. vetted[m] = Len(Children[m]) /\ i \in Nat \ {0} /\ o \in Ops
      BY <2>1, <3>1, <1>c DEF BeginManifest
    <3>3. CASE i < vetted[m]
      BY <3>1, <3>2, <3>3, <1>v
    <3>4. CASE i = vetted[m]
      <4>1. record[o].manifest = m /\ record[o].status = "approved"
        BY <2>1, <3>1, <3>4 DEF BeginManifest, Authorizes
      <4> QED
        BY <4>1, <3>2, <1>k, ReadIsSettled
    <3> QED
      BY <3>1, <3>2, <3>3, <3>4, <1>c
  <2>2. ASSUME NEW m \in Manifests, manifest'[m] = "committing", manifest' # manifest
        PROVE  manifest[m] = "committing" \/ BeginManifest(m)
    BY <2>2, <1>1, <1>2, <1>3, <1>t DEF Next, PutManifest, BeginManifest
  <2> QED
    BY <1>p, <2>1, <2>2
<1>7. \A o \in known' : Later(o, None)
  <2>1. ASSUME NEW p \in Ops, ShowCapability(p)
        PROVE  known' = known \cup {p} /\ Later(p, None)
    BY <2>1, <1>k, ReadIsSettled DEF ShowCapability, Authorizes
  <2> QED
    BY <1>1, <1>2, <1>3, <1>p, <2>1 DEF Next
<1>8. \A o \in Ops : <<o, "authorized">> \in admitted' => o \in known'
  <2>1. ASSUME NEW p \in Ops, Operation(p), NEW o \in Ops, <<o, "authorized">> \in admitted'
        PROVE  o \in known'
    <3>1. known \subseteq known'
      BY <2>1, <1>2
    <3>2. CASE UNCHANGED admitted
      BY <2>1, <3>1, <3>2, <1>p
    <3>3. CASE AdmitIndividual(p)
      <4>1. <<o, "authorized">> # <<p, "individual">>
        OBVIOUS
      <4> QED
        BY <2>1, <3>1, <3>3, <4>1, <1>p DEF AdmitIndividual
    <3>4. CASE AdmitAuthorized(p)
      <4>1. <<o, "authorized">> = <<p, "authorized">> => o = p
        OBVIOUS
      <4> QED
        BY <2>1, <3>1, <3>4, <4>1, <1>p DEF AdmitAuthorized
    <3> QED
      BY <2>1, <1>2, <3>2, <3>3, <3>4
  <2> QED
    BY <1>1, <1>3, <1>p, <2>1 DEF Next
<1>9. \A o \in Ops, p \in Paths : <<o, p>> \in ran' => Later(o, p)
  <2>1. ASSUME NEW p \in Ops, RunIndividual(p)
        PROVE  ran' = ran \cup {<<p, None>>} /\ Later(p, None)
    BY <2>1, <1>p DEF RunIndividual, Begin
  <2>2. ASSUME NEW m \in Manifests, NEW o \in Ops, RunChild(o, m)
        PROVE  ran' = ran \cup {<<o, m>>} /\ Later(o, m)
    BY <2>2, <1>p DEF RunChild, Begin
  <2> QED
    BY <1>1, <1>2, <1>3, <1>p, <2>1, <2>2 DEF Next
<1> QED
  BY <1>4, <1>5, <1>6, <1>7, <1>8, <1>9 DEF Settled, Later

LEMMA PathStep == TypeInv /\ HoldInv /\ PathInv /\ [Next]_vars => PathInv'
<1>1. ASSUME PathInv, UNCHANGED vars PROVE PathInv'
  BY <1>1 DEF vars, PathInv, Settled, At
<1>2. ASSUME TypeInv, HoldInv, PathInv, Next, ~raced' PROVE PathInv'
  <2>1. (\A t \in Terminals :
           LET x == task[t]
               c == control[t]
           IN  /\ c.phase = "derive" /\ c.at # "end" =>
                    \A i \in Nat \ {0} : i < c.index => Settled(Children[x][i], x)
               /\ At(t, "conclude") => \A o \in Bound(x) : Settled(o, x))'
    BY <1>2, PathTerminals DEF At
  <2> QED
    BY <1>2, <2>1, PathServer DEF PathInv
<1>3. ASSUME raced' PROVE PathInv'
  BY <1>3 DEF PathInv
<1> QED
  BY <1>1, <1>2, <1>3

LEMMA PathHolds == Spec => [](TypeInv /\ PathInv)
<1>1. Init => HoldInv
  BY DEF Init, HoldInv, At
<1> QED
  BY <1>1, TypeInit, TypeStep, HoldStep, PathInit, PathStep, PTL DEF Spec

\* An approved manifest's children are approved by it and by nothing else, as
\* long as no record is overwritten by one who had not read it.
THEOREM ApprovalIsAllOrNothing == Spec => []AllOrNothing
<1>1. TypeInv /\ PathInv => AllOrNothing
  BY DEF PathInv, AllOrNothing, Settled
<1> QED
  BY <1>1, PathHolds, PTL

\* Under the same condition, what has run has run by the path its record names.
THEOREM RunsByOnePath == Spec => []OnePath
<1>1. TypeInv /\ PathInv => OnePath
  <2>1. ASSUME TypeInv, PathInv, ~raced, NEW o \in Ops \ elapsed, NEW path \in Paths,
               <<o, path>> \in ran
        PROVE  record[o].manifest = path
    <3>1. Settled(o, path)
      BY <2>1 DEF PathInv
    <3>2. record[o] = [status |-> "approved", manifest |-> path]
      BY <2>1, <3>1 DEF Settled
    <3> QED
      BY <3>2
  <2> QED
    BY <2>1 DEF OnePath
<1> QED
  BY <1>1, PathHolds, PTL
=============================================================================
