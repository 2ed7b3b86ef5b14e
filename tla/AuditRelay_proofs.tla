--------------------------- MODULE AuditRelay_proofs ---------------------------
(***************************************************************************)
(* Proofs about AuditRelay, for any agents, tool uses and situations to    *)
(* start in.                                                               *)
(***************************************************************************)
EXTENDS AuditRelay, ConsequenceGraph_proofs, TLAPS, WellFoundedInduction

HookSteps == {"idle", "record", "wait", "read", "publish", "answer"}
RelaySteps == {"append", "read", "publish", "answer"}

\* A hook runs for an agent that is still there.
TypeInv ==
  /\ TypeOK
  /\ \A a \in Agents : hook[a] # "idle" => life[a] # "gone"

LEMMA Typing ==
  ASSUME TypeInv
  PROVE  /\ hook \in [Agents -> HookSteps] /\ decision \in [Agents -> BOOLEAN]
         /\ life \in [Agents -> Lives] /\ use \in [Agents -> AllUses]
         /\ seen \in [Agents -> 0..Len(log)] /\ log \in Seq(Receipts) /\ Len(log) \in Nat
         /\ relays \subseteq Relays /\ (\A r \in relays : r.seen <= Len(log))
         /\ published \in 0..Len(log)
         /\ ran \subseteq UNION {u.found : u \in AllUses}
         /\ torn \in BOOLEAN /\ late \in BOOLEAN /\ overwritten \in BOOLEAN /\ alive \in BOOLEAN
         /\ faults \in 0..MaxFaults
<1>1. log \in Seq(Receipts)
  BY DEF TypeInv, TypeOK
<1>2. Len(log) \in Nat
  BY <1>1
<1> QED
  BY <1>1, <1>2 DEF TypeInv, TypeOK, HookSteps

LEMMA RelayFields ==
  ASSUME NEW r \in Relays
  PROVE  /\ r.receipt \in Receipts /\ r.at \in RelaySteps /\ r.seen \in Nat
         /\ \A at \in RelaySteps, n \in Nat :
              /\ [r EXCEPT !.at = at, !.seen = n] \in Relays
              /\ [r EXCEPT !.at = at, !.seen = n].seen = n
<1>1. /\ r = [receipt |-> r.receipt, at |-> r.at, seen |-> r.seen]
      /\ r.receipt \in Receipts /\ r.at \in RelaySteps /\ r.seen \in Nat
  BY DEF Relays, RelaySteps
<1>2. ASSUME NEW at \in RelaySteps, NEW n \in Nat
      PROVE  /\ [r EXCEPT !.at = at, !.seen = n] \in Relays
             /\ [r EXCEPT !.at = at, !.seen = n].seen = n
  <2>1. [r EXCEPT !.at = at, !.seen = n] = [[r EXCEPT !.at = at] EXCEPT !.seen = n]
    OBVIOUS
  <2>2. [r EXCEPT !.at = at] = [receipt |-> r.receipt, at |-> at, seen |-> r.seen]
    BY <1>1
  <2>3. [[r EXCEPT !.at = at] EXCEPT !.seen = n] = [receipt |-> r.receipt, at |-> at, seen |-> n]
    <3>1. ASSUME NEW q, q = [receipt |-> r.receipt, at |-> at, seen |-> r.seen]
          PROVE  [q EXCEPT !.seen = n] = [receipt |-> r.receipt, at |-> at, seen |-> n]
      BY <3>1
    <3> QED
      BY <2>2, <3>1
  <2>4. [receipt |-> r.receipt, at |-> at, seen |-> n] \in Relays
    BY <1>1 DEF Relays, RelaySteps
  <2> QED
    BY <2>1, <2>3, <2>4
<1> QED
  BY <1>1, <1>2

LEMMA Moving ==
  ASSUME NEW r \in Relays, NEW at \in RelaySteps, NEW n \in Nat, Moved(r, at, n)
  PROVE  relays' = (relays \ {r}) \cup {[receipt |-> r.receipt, at |-> at, seen |-> n]}
<1>1. r = [receipt |-> r.receipt, at |-> r.at, seen |-> r.seen]
  BY DEF Relays
<1>2. [r EXCEPT !.at = at, !.seen = n] = [[r EXCEPT !.at = at] EXCEPT !.seen = n]
  OBVIOUS
<1>3. [r EXCEPT !.at = at] = [receipt |-> r.receipt, at |-> at, seen |-> r.seen]
  BY <1>1
<1>4. [[r EXCEPT !.at = at] EXCEPT !.seen = n] = [receipt |-> r.receipt, at |-> at, seen |-> n]
  <2>1. ASSUME NEW q, q = [receipt |-> r.receipt, at |-> at, seen |-> r.seen]
        PROVE  [q EXCEPT !.seen = n] = [receipt |-> r.receipt, at |-> at, seen |-> n]
    BY <2>1
  <2> QED
    BY <1>3, <2>1
<1> QED
  BY <1>2, <1>4 DEF Moved

LEMMA ReceiptIsOne ==
  ASSUME TypeInv, NEW a \in Agents
  PROVE  Receipt(a) \in Receipts
<1>1. use[a] \in AllUses /\ NoUse \in AllUses /\ life[a] \in Lives /\ decision[a] \in BOOLEAN
  BY Typing DEF AllUses
<1> DEFINE u == IF life[a] \in {"PreToolUse", "PostToolUse"} THEN use[a] ELSE NoUse
<1>2. u \in AllUses
  BY <1>1
<1>3. \A v \in AllUses, b \in BOOLEAN, e \in Lives :
        [agent |-> a, event |-> e, command |-> v.command, blocked |-> b, found |-> v.found] \in Receipts
  BY DEF Receipts
<1> HIDE DEF u
<1>4. [agent |-> a, event |-> life[a], command |-> u.command, blocked |-> decision[a],
       found |-> u.found] \in Receipts
  BY <1>1, <1>2, <1>3
<1> QED
  BY <1>4 DEF Receipt, u

\* The log only grows, and what was known of it stays known.
LEMMA LogGrows ==
  ASSUME TypeInv, NEW x \in Receipts, log' = Append(log, x)
  PROVE  /\ log' \in Seq(Receipts) /\ Len(log') = Len(log) + 1
         /\ 0..Len(log) \subseteq 0..Len(log')
         /\ \A r \in relays : r.seen <= Len(log')
<1>1. log \in Seq(Receipts) /\ Len(log) \in Nat
  BY Typing
<1>2. log' \in Seq(Receipts) /\ Len(log') = Len(log) + 1
  BY <1>1
<1>3. \A r \in relays : r.seen \in Nat /\ r.seen <= Len(log)
  BY Typing, RelayFields
<1> QED
  BY <1>1, <1>2, <1>3

LEMMA TypeInit == Init => TypeInv
<1> SUFFICES ASSUME Init PROVE TypeInv
  OBVIOUS
<1>1. PICK s \in Starts : /\ ledger = s.ledger /\ relayed = s.relayed /\ life = s.life
                          /\ log = s.log /\ published = Len(s.log)
  BY DEF Init
<1>2. /\ IsLedger(ledger) /\ relayed \in BOOLEAN /\ life \in [Agents -> Lives]
      /\ log \in Seq(Receipts)
  BY <1>1, SessionAssumption
<1>3. Len(log) \in Nat
  BY <1>2
<1>4. published \in 0..Len(log) /\ seen \in [Agents -> 0..Len(log)]
  BY <1>1, <1>3 DEF Init
<1>5. use \in [Agents -> AllUses]
  BY DEF Init, AllUses
<1>6. alive \in BOOLEAN /\ torn \in BOOLEAN /\ late \in BOOLEAN /\ overwritten \in BOOLEAN
      /\ decision \in [Agents -> BOOLEAN]
  BY DEF Init
<1>7. faults \in 0..MaxFaults
  BY SessionAssumption DEF Init
<1> QED
  BY <1>2, <1>4, <1>5, <1>6, <1>7 DEF Init, TypeInv, TypeOK

\* Steps of the hooks.
LEMMA TypeHook ==
  ASSUME TypeInv, NEW a \in Agents, Fire(a) \/ Hook(a)
  PROVE  TypeInv'
<1> USE DEF session, host, files, Goto
<1>t. /\ hook \in [Agents -> HookSteps] /\ decision \in [Agents -> BOOLEAN]
      /\ life \in [Agents -> Lives] /\ use \in [Agents -> AllUses]
      /\ seen \in [Agents -> 0..Len(log)] /\ log \in Seq(Receipts) /\ Len(log) \in Nat
      /\ relays \subseteq Relays /\ (\A r \in relays : r.seen <= Len(log))
      /\ published \in 0..Len(log)
      /\ ran \subseteq UNION {u.found : u \in AllUses}
      /\ torn \in BOOLEAN /\ late \in BOOLEAN /\ overwritten \in BOOLEAN
      /\ faults \in 0..MaxFaults
  BY Typing
<1>l. \A b \in Agents : hook[b] # "idle" => life[b] # "gone"
  BY DEF TypeInv
<1>1. CASE Fire(a)
  <2>1. PICK u \in (IF life[a] = "PreToolUse" THEN Uses[a] ELSE {use[a]}) :
          /\ use' = [use EXCEPT ![a] = u]
          /\ decision' = [decision EXCEPT ![a] = Denies(life[a], u)]
    BY <1>1 DEF Fire
  <2>2. u \in AllUses
    <3>1. Uses[a] \subseteq AllUses
      BY SessionAssumption DEF AllUses, Range
    <3> QED
      BY <2>1, <3>1, <1>t
  <2>3. use' \in [Agents -> AllUses]
    BY <2>1, <2>2, <1>t
  <2>4. Denies(life[a], u) \in BOOLEAN
    BY DEF Denies
  <2>5. decision' \in [Agents -> BOOLEAN]
    BY <2>1, <2>4, <1>t
  <2>6. hook' = [hook EXCEPT ![a] = "record"] /\ life[a] # "gone" /\ UNCHANGED life
    BY <1>1 DEF Fire
  <2>7. hook' \in [Agents -> HookSteps] /\ \A b \in Agents : hook'[b] # "idle" => life'[b] # "gone"
    BY <2>6, <1>t, <1>l DEF HookSteps
  <2> QED
    BY <1>1, <2>3, <2>5, <2>7 DEF Fire, TypeInv, TypeOK, HookSteps
<1>h. ASSUME NEW at \in HookSteps, hook' = [hook EXCEPT ![a] = at], hook[a] # "idle", UNCHANGED life
      PROVE  hook' \in [Agents -> HookSteps] /\ \A b \in Agents : hook'[b] # "idle" => life'[b] # "gone"
  BY <1>h, <1>t, <1>l
<1>s. {"record", "wait", "read", "publish", "answer", "idle"} \subseteq HookSteps
  BY DEF HookSteps
<1>2. CASE Record(a)
  <2>1. hook' = [hook EXCEPT ![a] = "read"] /\ hook[a] # "idle" /\ UNCHANGED life
    BY <1>2 DEF Record
  <2>2. log' = Append(log, Receipt(a))
    BY <1>2 DEF Record
  <2>3. /\ log' \in Seq(Receipts) /\ 0..Len(log) \subseteq 0..Len(log')
        /\ \A r \in relays : r.seen <= Len(log')
    BY <2>2, ReceiptIsOne, LogGrows
  <2>4. seen \in [Agents -> 0..Len(log')] /\ published \in 0..Len(log')
    BY <2>3, <1>t
  <2> QED
    BY <1>2, <1>h, <1>s, <2>1, <2>3, <2>4 DEF Record, TypeInv, TypeOK, HookSteps
<1>3. CASE RecordFails(a)
  <2>1. faults' \in 0..MaxFaults /\ torn' \in BOOLEAN
    <3>1. faults < MaxFaults /\ faults' = faults + 1 /\ torn' \in {torn, ~relayed \/ torn}
      BY <1>3 DEF RecordFails, Fault
    <3>2. (~relayed \/ torn) \in BOOLEAN
      OBVIOUS
    <3>3. faults' \in 0..MaxFaults
      BY <3>1, <1>t, SessionAssumption
    <3>4. torn' \in BOOLEAN
      BY <3>1, <3>2, <1>t, Zenon
    <3> QED
      BY <3>3, <3>4
  <2>2. \E at \in HookSteps : hook' = [hook EXCEPT ![a] = at]
    BY <1>3, <1>s DEF RecordFails
  <2>3. hook[a] # "idle" /\ UNCHANGED life
    BY <1>3 DEF RecordFails
  <2> QED
    BY <1>3, <1>h, <2>1, <2>2, <2>3 DEF RecordFails, TypeInv, TypeOK, HookSteps
<1>4. CASE Send(a)
  <2>1. hook' = [hook EXCEPT ![a] = "wait"] /\ hook[a] # "idle" /\ UNCHANGED life
    BY <1>4 DEF Send
  <2> DEFINE new == [receipt |-> Receipt(a), at |-> "append", seen |-> 0]
  <2>2. new \in Relays /\ new.seen = 0
    BY ReceiptIsOne DEF Relays
  <2>3. relays' = relays \cup {new} /\ log' = log
    BY <1>4 DEF Send
  <2> HIDE DEF new
  <2>4. relays' \subseteq Relays /\ \A r \in relays' : r.seen <= Len(log')
    BY <2>2, <2>3, <1>t
  <2> QED
    BY <1>4, <1>h, <1>s, <2>1, <2>4 DEF Send, TypeInv, TypeOK, HookSteps
<1>5. CASE Closed(a) \/ TimesOut(a)
  <2>1. hook' = [hook EXCEPT ![a] = "answer"] /\ hook[a] # "idle" /\ UNCHANGED life
    BY <1>5 DEF Closed, TimesOut
  <2>2. late' \in BOOLEAN
    BY <1>5, <1>t DEF Closed, TimesOut
  <2>3. UNCHANGED <<session, use, ran, decision, seen, files, relays, faults>>
    BY <1>5 DEF Closed, TimesOut
  <2> QED
    BY <1>h, <1>s, <2>1, <2>2, <2>3 DEF TypeInv, TypeOK, HookSteps
<1>6. CASE Read(a)
  <2>1. \E at \in HookSteps : hook' = [hook EXCEPT ![a] = at]
    BY <1>6, <1>s DEF Read
  <2>2. hook[a] # "idle" /\ UNCHANGED life
    BY <1>6 DEF Read
  <2>3. seen' \in [Agents -> 0..Len(log)]
    BY <1>6, <1>t DEF Read
  <2> QED
    BY <1>6, <1>h, <2>1, <2>2, <2>3 DEF Read, TypeInv, TypeOK, HookSteps
<1>7. CASE Publish(a)
  <2>1. hook' = [hook EXCEPT ![a] = "answer"] /\ hook[a] # "idle" /\ UNCHANGED life
    BY <1>7 DEF Publish
  <2>2. published' \in 0..Len(log) /\ seen' \in [Agents -> 0..Len(log)]
    BY <1>7, <1>t DEF Publish, Show
  <2>3. overwritten' \in BOOLEAN
    <3>1. (overwritten \/ seen[a] < published) \in BOOLEAN
      OBVIOUS
    <3> QED
      BY <1>7, <3>1 DEF Publish, Show
  <2> QED
    BY <1>7, <1>h, <1>s, <2>1, <2>2, <2>3 DEF Publish, TypeInv, TypeOK, HookSteps
<1>8. CASE Answer(a)
  <2>1. hook' = [hook EXCEPT ![a] = "idle"] /\ hook[a] = "answer" /\ life[a] # "gone"
    BY <1>8, <1>l DEF Answer
  <2>2. \E x \in Lives : life' = [life EXCEPT ![a] = x]
    <3>1. life[a] \in {"SubagentStart", "PreToolUse", "PostToolUse", "SubagentStop"}
      BY <2>1, <1>t DEF Lives
    <3>2. {"SubagentStart", "PreToolUse", "PostToolUse", "SubagentStop", "gone"} = Lives
      BY DEF Lives
    <3> QED
      BY <1>8, <3>1, <3>2 DEF Answer
  <2>3. life' \in [Agents -> Lives] /\ \A b \in Agents : hook'[b] # "idle" => life'[b] # "gone"
    BY <2>1, <2>2, <1>t, <1>l
  <2>4. use' \in [Agents -> AllUses]
    BY <1>8, <1>t DEF Answer, AllUses
  <2>5. ran' \subseteq UNION {u.found : u \in AllUses}
    <3>1. use[a].found \subseteq UNION {u.found : u \in AllUses}
      BY <1>t
    <3>2. ran' \subseteq ran \cup use[a].found
      BY <1>8 DEF Answer
    <3> QED
      BY <3>1, <3>2, <1>t
  <2>6. hook' \in [Agents -> HookSteps] /\ decision' \in [Agents -> BOOLEAN]
    BY <1>8, <2>1, <1>s, <1>t DEF Answer
  <2> QED
    BY <1>8, <2>3, <2>4, <2>5, <2>6 DEF Answer, TypeInv, TypeOK, HookSteps
<1> QED
  BY <1>1, <1>2, <1>3, <1>4, <1>5, <1>6, <1>7, <1>8 DEF Hook

\* Steps of the daemon.
LEMMA TypeRelay ==
  ASSUME TypeInv, NEW r \in relays, Relay(r)
  PROVE  TypeInv' /\ UNCHANGED <<hook, decision, use, life, ran>>
<1> USE DEF session, host, daemonOnly, files
<1>t. /\ seen \in [Agents -> 0..Len(log)] /\ log \in Seq(Receipts) /\ Len(log) \in Nat
      /\ relays \subseteq Relays /\ (\A q \in relays : q.seen <= Len(log))
      /\ published \in 0..Len(log) /\ alive \in BOOLEAN
      /\ torn \in BOOLEAN /\ late \in BOOLEAN /\ overwritten \in BOOLEAN
      /\ faults \in 0..MaxFaults
  BY Typing
<1>r. r \in Relays /\ r.seen \in 0..Len(log)
  <2>1. r \in Relays /\ r.seen <= Len(log)
    BY <1>t
  <2>2. r.seen \in Nat
    BY <2>1, RelayFields
  <2> QED
    BY <2>1, <2>2, <1>t
<1>m. ASSUME NEW at \in RelaySteps, NEW n \in Nat, Moved(r, at, n), n <= Len(log')
      PROVE  /\ relays' \subseteq Relays
             /\ (\A q \in relays : q.seen <= Len(log')) => \A q \in relays' : q.seen <= Len(log')
  <2> DEFINE new == [r EXCEPT !.at = at, !.seen = n]
  <2>1. new \in Relays /\ new.seen = n
    BY <1>r, RelayFields
  <2>2. relays' = (relays \ {r}) \cup {new}
    BY <1>m DEF Moved
  <2> HIDE DEF new
  <2> QED
    BY <2>1, <2>2, <1>m, <1>t
<1>s. {"append", "read", "publish", "answer"} \subseteq RelaySteps
  BY DEF RelaySteps
<1>1. CASE RelayAppend(r)
  <2>1. log' = Append(log, r.receipt) /\ Moved(r, "read", 0)
    BY <1>1 DEF RelayAppend
  <2>2. /\ log' \in Seq(Receipts) /\ 0..Len(log) \subseteq 0..Len(log') /\ Len(log') \in Nat
        /\ \A q \in relays : q.seen <= Len(log')
    <3>1. r.receipt \in Receipts
      BY <1>r, RelayFields
    <3> QED
      BY <2>1, <3>1, <1>t, LogGrows
  <2>3. seen \in [Agents -> 0..Len(log')] /\ published \in 0..Len(log')
    BY <2>2, <1>t
  <2>4. relays' \subseteq Relays /\ \A q \in relays' : q.seen <= Len(log')
    BY <2>1, <2>2, <1>m, <1>s
  <2> QED
    BY <1>1, <2>2, <2>3, <2>4 DEF RelayAppend, TypeInv, TypeOK
<1>2. CASE RelayRead(r)
  <2>1. Moved(r, "publish", Len(log)) /\ log' = log
    BY <1>2 DEF RelayRead
  <2>2. relays' \subseteq Relays /\ \A q \in relays' : q.seen <= Len(log')
    BY <2>1, <1>m, <1>s, <1>t
  <2> QED
    BY <1>2, <2>2 DEF RelayRead, TypeInv, TypeOK
<1>3. CASE RelayPublish(r)
  <2>1. Moved(r, "answer", 0) /\ log' = log /\ published' \in 0..Len(log)
    BY <1>3, <1>r DEF RelayPublish, Show
  <2>2. relays' \subseteq Relays /\ \A q \in relays' : q.seen <= Len(log')
    BY <2>1, <1>m, <1>s, <1>t
  <2>3. overwritten' \in BOOLEAN
    <3>1. (overwritten \/ r.seen < published) \in BOOLEAN
      OBVIOUS
    <3> QED
      BY <1>3, <3>1 DEF RelayPublish, Show
  <2> QED
    BY <1>3, <2>1, <2>2, <2>3 DEF RelayPublish, TypeInv, TypeOK
<1>d. ASSUME NEW e, Drop(r, e)
      PROVE  /\ relays' \subseteq relays /\ alive' \in BOOLEAN
             /\ UNCHANGED <<ledger, relayed, hook, life, use, ran, decision, seen, late>>
  <2>1. (~e) \in BOOLEAN
    OBVIOUS
  <2> QED
    BY <1>d, <2>1 DEF Drop
<1>4. CASE RelayAnswer(r)
  <2>1. \E e : Drop(r, e)
    BY <1>4 DEF RelayAnswer
  <2> QED
    BY <1>4, <2>1, <1>d, <1>t DEF RelayAnswer, TypeInv, TypeOK
<1>5. CASE RelayFails(r)
  <2>1. \E e : Drop(r, e)
    BY <1>5 DEF RelayFails
  <2>2. faults' \in 0..MaxFaults /\ torn' \in BOOLEAN /\ UNCHANGED <<log, published, overwritten>>
    <3>1. \/ faults < MaxFaults /\ faults' = faults + 1 /\ torn' \in {torn, TRUE}
          \/ UNCHANGED <<faults, torn>>
      BY <1>5 DEF RelayFails
    <3>4. (faults < MaxFaults /\ faults' = faults + 1) \/ faults' = faults
      BY <3>1, Zenon
    <3>5. faults \in 0..MaxFaults /\ MaxFaults \in Nat
      BY <1>t, SessionAssumption
    <3>2. faults' \in 0..MaxFaults
      BY <3>4, <3>5
    <3>3. torn' \in BOOLEAN
      BY <3>1, <1>t, Zenon
    <3> QED
      BY <1>5, <3>2, <3>3 DEF RelayFails
  <2> QED
    BY <2>1, <2>2, <1>d, <1>t DEF TypeInv, TypeOK
<1>6. UNCHANGED <<hook, decision, use, life, ran>>
  BY <1>d DEF Relay, RelayAppend, RelayRead, RelayPublish, RelayAnswer, RelayFails
<1> QED
  BY <1>1, <1>2, <1>3, <1>4, <1>5, <1>6 DEF Relay

LEMMA TypeStep == TypeInv /\ [Next]_vars => TypeInv'
<1>1. ASSUME TypeInv, UNCHANGED vars PROVE TypeInv'
  BY <1>1 DEF vars, TypeInv, TypeOK
<1> QED
  BY <1>1, TypeHook, TypeRelay DEF Next

\* Every variable stays in its domain: what hooks and connections have read is
\* never more than the log.
THEOREM TypeCorrect == Spec => []TypeOK
<1>1. TypeInv => TypeOK
  BY DEF TypeInv
<1> QED
  BY <1>1, TypeInit, TypeStep, PTL DEF Spec

-----------------------------------------------------------------------------
(* A denial is not lost on the way to its answer.                          *)

DenialInv ==
  /\ \A a \in Agents : hook[a] # "idle" /\ life[a] = "PreToolUse" =>
       (decision[a] <=> use[a].found # {})
  /\ DeniedNeverRuns

LEMMA DenialStep == TypeInv /\ DenialInv /\ [Next]_vars => DenialInv'
<1> SUFFICES ASSUME TypeInv, DenialInv, [Next]_vars PROVE DenialInv'
  OBVIOUS
<1> USE DEF session, host, files, Goto
<1>t. /\ hook \in [Agents -> HookSteps] /\ decision \in [Agents -> BOOLEAN]
      /\ life \in [Agents -> Lives] /\ use \in [Agents -> AllUses]
  BY Typing
<1>1. ASSUME UNCHANGED <<hook, decision, use, life, ran>> PROVE DenialInv'
  BY <1>1 DEF DenialInv, DeniedNeverRuns
<1>2. CASE UNCHANGED vars
  BY <1>1, <1>2 DEF vars
<1>3. CASE \E r \in relays : Relay(r)
  BY <1>1, <1>3, TypeRelay
<1>4. ASSUME NEW a \in Agents, Fire(a) PROVE DenialInv'
  <2>1. PICK u \in (IF life[a] = "PreToolUse" THEN Uses[a] ELSE {use[a]}) :
          /\ use' = [use EXCEPT ![a] = u]
          /\ decision' = [decision EXCEPT ![a] = Denies(life[a], u)]
    BY <1>4 DEF Fire
  <2>2. hook' = [hook EXCEPT ![a] = "record"] /\ UNCHANGED <<life, ran>>
    BY <1>4 DEF Fire
  <2>3. life[a] = "PreToolUse" => (Denies(life[a], u) <=> u.found # {})
    BY DEF Denies
  <2>4. use'[a] = u /\ (decision'[a] <=> Denies(life[a], u))
    BY <2>1, <1>t
  <2>5. \A b \in Agents \ {a} : hook'[b] = hook[b] /\ use'[b] = use[b] /\ decision'[b] = decision[b]
    BY <2>1, <2>2, <1>t
  <2>6. \A b \in Agents : hook'[b] # "idle" /\ life'[b] = "PreToolUse" =>
                            (decision'[b] <=> use'[b].found # {})
    BY <2>2, <2>3, <2>4, <2>5 DEF DenialInv
  <2> QED
    BY <2>2, <2>6 DEF DenialInv, DeniedNeverRuns
<1>5. ASSUME NEW a \in Agents, Answer(a) PROVE DenialInv'
  <2>1. /\ hook' = [hook EXCEPT ![a] = "idle"] /\ hook[a] = "answer"
        /\ \A b \in Agents \ {a} : life'[b] = life[b] /\ use'[b] = use[b] /\ decision'[b] = decision[b]
    BY <1>5, <1>t DEF Answer
  <2>2. ran' = ran
    <3>1. life[a] = "PreToolUse" /\ ~decision[a] => use[a].found = {}
      BY <2>1 DEF DenialInv
    <3> QED
      BY <1>5, <3>1 DEF Answer
  <2> QED
    BY <2>1, <2>2, <1>t DEF DenialInv, DeniedNeverRuns
<1>6. ASSUME NEW a \in Agents, Hook(a), ~Answer(a) PROVE DenialInv'
  <2>1. /\ UNCHANGED <<decision, use, life, ran>> /\ hook[a] # "idle"
        /\ \E at : hook' = [hook EXCEPT ![a] = at]
    BY <1>6 DEF Hook, Record, RecordFails, Send, Closed, TimesOut, Read, Publish
  <2> QED
    BY <2>1, <1>t DEF DenialInv, DeniedNeverRuns
<1> QED
  BY <1>2, <1>3, <1>4, <1>5, <1>6 DEF Next

\* A destructive command without recovery never runs, whatever becomes of its
\* receipt and of the daemon.
THEOREM WhatIsDeniedNeverRuns == Spec => []DeniedNeverRuns
<1>1. Init => DenialInv
  BY DEF Init, DenialInv, DeniedNeverRuns
<1>2. DenialInv => DeniedNeverRuns
  BY DEF DenialInv
<1> QED
  BY <1>1, <1>2, TypeInit, TypeStep, DenialStep, PTL DEF Spec

-----------------------------------------------------------------------------
(* What the published graph shows when nothing is under way.               *)

\* Reads all of the log, or has read all of it, and will publish that.
Ahead(at, n) == at = "read" \/ (at = "publish" /\ n = Len(log))

\* The last line of the log is shown, or somebody has still to show it.
ShownInv ==
  ~overwritten /\ faults = 0 =>
    /\ ~torn
    /\ \/ published = Len(log)
       \/ \E a \in Agents : Ahead(hook[a], seen[a])
       \/ \E r \in relays : Ahead(r.at, r.seen)

LEMMA ShownHook ==
  ASSUME TypeInv, ShownInv, NEW a \in Agents, Fire(a) \/ Hook(a)
  PROVE  ShownInv'
<1> SUFFICES ASSUME ~overwritten', faults' = 0
             PROVE  /\ ~torn'
                    /\ \/ published' = Len(log')
                       \/ \E b \in Agents : Ahead(hook[b], seen[b])'
                       \/ \E r \in relays' : Ahead(r.at, r.seen)'
  BY DEF ShownInv
<1> USE DEF session, host, files, Goto, Ahead
<1>t. /\ hook \in [Agents -> HookSteps] /\ seen \in [Agents -> 0..Len(log)]
      /\ log \in Seq(Receipts) /\ Len(log) \in Nat /\ published \in 0..Len(log)
      /\ faults \in 0..MaxFaults /\ overwritten \in BOOLEAN /\ torn \in BOOLEAN
  BY Typing
<1>1. CASE Fire(a)
  BY <1>1, <1>t DEF Fire, ShownInv
<1>2. CASE Record(a)
  <2>1. hook'[a] = "read"
    BY <1>2, <1>t DEF Record
  <2> QED
    BY <1>2, <2>1 DEF Record, ShownInv
<1>3. CASE RecordFails(a)
  <2>1. faults' = faults + 1
    BY <1>3 DEF RecordFails, Fault
  <2> QED
    BY <2>1, <1>t
<1>4. CASE Send(a) \/ Closed(a) \/ TimesOut(a) \/ Answer(a)
  <2>1. /\ UNCHANGED <<seen, files, faults>> /\ relays \subseteq relays'
        /\ hook[a] \in {"record", "wait", "answer"}
        /\ \E at : hook' = [hook EXCEPT ![a] = at]
    BY <1>4 DEF Send, Closed, TimesOut, Answer
  <2> QED
    BY <2>1, <1>t DEF ShownInv
<1>5. CASE Read(a)
  <2>1. ~torn /\ UNCHANGED files
    BY <1>5 DEF Read, ShownInv
  <2>2. hook'[a] = "publish" /\ seen'[a] = Len(log)
    BY <1>5, <2>1, <1>t DEF Read
  <2> QED
    BY <2>1, <2>2
<1>6. CASE Publish(a)
  <2>1. /\ ~torn /\ UNCHANGED <<log, torn, relays, faults>> /\ published' = seen[a]
        /\ ~(seen[a] < published) /\ ~overwritten /\ hook[a] = "publish"
    BY <1>6 DEF Publish, Show, ShownInv
  <2>2. CASE seen[a] = Len(log)
    BY <2>1, <2>2
  <2>3. CASE seen[a] # Len(log)
    <3>1. published # Len(log) /\ seen[a] \in Nat /\ published \in Nat
      BY <2>1, <2>3, <1>t
    <3>2. \A b \in Agents \ {a} : hook'[b] = hook[b] /\ seen'[b] = seen[b]
      BY <1>6, <1>t DEF Publish
    <3> QED
      BY <2>1, <2>3, <3>1, <3>2 DEF ShownInv
  <2> QED
    BY <2>2, <2>3
<1> QED
  BY <1>1, <1>2, <1>3, <1>4, <1>5, <1>6 DEF Hook

LEMMA ShownRelay ==
  ASSUME TypeInv, ShownInv, NEW r \in relays, Relay(r)
  PROVE  ShownInv'
<1> SUFFICES ASSUME ~overwritten', faults' = 0
             PROVE  /\ ~torn'
                    /\ \/ published' = Len(log')
                       \/ \E b \in Agents : Ahead(hook[b], seen[b])'
                       \/ \E q \in relays' : Ahead(q.at, q.seen)'
  BY DEF ShownInv
<1> USE DEF session, host, files, daemonOnly, Ahead
<1>t. /\ hook \in [Agents -> HookSteps] /\ seen \in [Agents -> 0..Len(log)]
      /\ log \in Seq(Receipts) /\ Len(log) \in Nat /\ published \in 0..Len(log)
      /\ faults \in 0..MaxFaults /\ overwritten \in BOOLEAN /\ torn \in BOOLEAN
      /\ r \in Relays
  BY Typing
<1>m. ASSUME NEW at \in RelaySteps, NEW n \in Nat, Moved(r, at, n)
      PROVE  \E q \in relays' : q.at = at /\ q.seen = n
  <2>1. [receipt |-> r.receipt, at |-> at, seen |-> n] \in relays'
    BY <1>m, <1>t, Moving
  <2> QED
    BY <2>1
<1>1. CASE RelayAppend(r)
  <2>1. \E q \in relays' : q.at = "read"
    BY <1>1, <1>m DEF RelayAppend, RelaySteps
  <2> QED
    BY <1>1, <2>1 DEF RelayAppend, ShownInv
<1>2. CASE RelayRead(r)
  <2>1. \E q \in relays' : q.at = "publish" /\ q.seen = Len(log)
    BY <1>2, <1>m, <1>t DEF RelayRead, RelaySteps
  <2> QED
    BY <1>2, <2>1 DEF RelayRead, ShownInv
<1>3. CASE RelayPublish(r)
  <2>1. /\ ~torn /\ UNCHANGED <<log, torn, hook, seen, faults>> /\ published' = r.seen
        /\ ~(r.seen < published) /\ ~overwritten /\ r.at = "publish"
    BY <1>3 DEF RelayPublish, Show, ShownInv
  <2>2. CASE r.seen = Len(log)
    BY <2>1, <2>2
  <2>3. CASE r.seen # Len(log)
    <3>1. r.seen \in Nat /\ r.seen <= Len(log)
      BY <1>t, Typing, RelayFields
    <3>2. published # Len(log)
      BY <2>1, <2>3, <3>1, <1>t
    <3>3. relays \ {r} \subseteq relays'
      BY <1>3 DEF RelayPublish, Moved
    <3> QED
      BY <2>1, <2>3, <3>2, <3>3 DEF ShownInv
  <2> QED
    BY <2>2, <2>3
<1>4. CASE RelayAnswer(r)
  BY <1>4 DEF RelayAnswer, Drop, ShownInv
<1>5. CASE RelayFails(r)
  <2>1. UNCHANGED <<log, published, overwritten>> /\ (faults' = faults + 1 \/ (UNCHANGED faults /\ torn))
    BY <1>5 DEF RelayFails
  <2> QED
    BY <2>1, <1>t DEF ShownInv
<1> QED
  BY <1>1, <1>2, <1>3, <1>4, <1>5 DEF Relay

LEMMA ShownStep == TypeInv /\ ShownInv /\ [Next]_vars => ShownInv'
<1>1. ASSUME ShownInv, UNCHANGED vars PROVE ShownInv'
  BY <1>1 DEF vars, ShownInv, Ahead
<1> QED
  BY <1>1, ShownHook, ShownRelay DEF Next

\* A line about an agent's end is followed by no other event of that agent, as
\* long as no hook gives up a receipt that may still be written.
StopInv ==
  ~late =>
    /\ \A r \in relays : hook[r.receipt.agent] = "wait" /\ r.receipt = Receipt(r.receipt.agent)
    /\ \A i, j \in DOMAIN log :
         log[i].event = "SubagentStop" /\ log[j].agent = log[i].agent =>
           /\ life[log[i].agent] \in {"SubagentStop", "gone"}
           /\ j <= i \/ log[j].event = "SubagentStop"

LEMMA LogLines ==
  ASSUME TypeInv
  PROVE  /\ DOMAIN log = 1..Len(log)
         /\ \A i \in DOMAIN log : log[i] \in Receipts /\ log[i].agent \in Agents
         /\ \A r \in relays : r.receipt.agent \in Agents
<1>1. log \in Seq(Receipts) /\ relays \subseteq Relays
  BY Typing
<1>2. \A x \in Receipts : x.agent \in Agents
  BY DEF Receipts
<1>3. \A i \in DOMAIN log : log[i] \in Receipts
  BY <1>1
<1>4. \A r \in relays : r.receipt \in Receipts
  BY <1>1 DEF Relays
<1> QED
  BY <1>1, <1>2, <1>3, <1>4

LEMMA StopInit == Init => StopInv
<1> SUFFICES ASSUME Init PROVE StopInv
  OBVIOUS
<1>1. PICK s \in Starts : life = s.life /\ log = s.log
  BY DEF Init
<1>2. relays = {}
  BY DEF Init
<1> QED
  BY <1>1, <1>2, PastAssumption DEF StopInv

\* The next line of the log is the receipt of the agent whose hook is at work.
LEMMA LineStep ==
  ASSUME TypeInv, StopInv, ~late, NEW a \in Agents, hook[a] # "idle",
         log' = Append(log, Receipt(a)), UNCHANGED life
  PROVE  \A i, j \in DOMAIN log' :
           log'[i].event = "SubagentStop" /\ log'[j].agent = log'[i].agent =>
             /\ life'[log'[i].agent] \in {"SubagentStop", "gone"}
             /\ j <= i \/ log'[j].event = "SubagentStop"
<1> SUFFICES ASSUME NEW i \in DOMAIN log', NEW j \in DOMAIN log',
                    log'[i].event = "SubagentStop", log'[j].agent = log'[i].agent
             PROVE  /\ life[log'[i].agent] \in {"SubagentStop", "gone"}
                    /\ j <= i \/ log'[j].event = "SubagentStop"
  OBVIOUS
<1>1. log \in Seq(Receipts) /\ Len(log) \in Nat /\ DOMAIN log = 1..Len(log) /\ Receipt(a) \in Receipts
  BY Typing, LogLines, ReceiptIsOne
<1>2. /\ DOMAIN log' = 1..(Len(log) + 1) /\ log'[Len(log) + 1] = Receipt(a)
      /\ \A k \in 1..Len(log) : log'[k] = log[k]
  BY <1>1
<1>3. Receipt(a).agent = a /\ Receipt(a).event = life[a] /\ life[a] # "gone"
  BY DEF Receipt, TypeInv
<1>4. CASE i = Len(log) + 1
  BY <1>1, <1>2, <1>3, <1>4
<1>5. CASE i # Len(log) + 1 /\ j # Len(log) + 1
  BY <1>1, <1>2, <1>5 DEF StopInv
<1>6. CASE i # Len(log) + 1 /\ j = Len(log) + 1
  <2>1. i \in DOMAIN log /\ log'[i] = log[i] /\ log[i].agent = a
    BY <1>1, <1>2, <1>3, <1>6
  <2>2. life[a] \in {"SubagentStop", "gone"}
    BY <2>1 DEF StopInv
  <2> QED
    BY <2>1, <2>2, <1>2, <1>3, <1>6
<1> QED
  BY <1>4, <1>5, <1>6

LEMMA StopHook ==
  ASSUME TypeInv, StopInv, NEW a \in Agents, Fire(a) \/ Hook(a)
  PROVE  StopInv'
<1> SUFFICES ASSUME ~late' PROVE StopInv'
  BY DEF StopInv
<1> USE DEF session, host, files, Goto
<1>t. /\ hook \in [Agents -> HookSteps] /\ decision \in [Agents -> BOOLEAN]
      /\ life \in [Agents -> Lives] /\ use \in [Agents -> AllUses]
  BY Typing
<1>l. ~late
  BY DEF Fire, Hook, Record, RecordFails, Send, Closed, TimesOut, Read, Publish, Answer
<1>w. \A r \in relays : /\ r.receipt.agent \in Agents /\ hook[r.receipt.agent] = "wait"
                        /\ r.receipt = Receipt(r.receipt.agent)
  BY <1>l, LogLines DEF StopInv
<1>1. CASE Fire(a)
  <2>1. /\ hook[a] = "idle" /\ UNCHANGED <<log, relays, life>>
        /\ \A b \in Agents \ {a} : hook'[b] = hook[b] /\ use'[b] = use[b] /\ decision'[b] = decision[b]
    BY <1>1, <1>t DEF Fire
  <2>2. \A b \in Agents \ {a} : Receipt(b)' = Receipt(b)
    BY <2>1 DEF Receipt
  <2> QED
    BY <2>1, <2>2, <1>w, <1>l DEF StopInv
<1>2. CASE Record(a)
  <2>1. /\ hook[a] # "idle" /\ log' = Append(log, Receipt(a)) /\ UNCHANGED <<life, relays>>
        /\ \A b \in Agents : hook[b] = "wait" => hook'[b] = "wait"
    BY <1>2, <1>t DEF Record
  <2>2. \A b \in Agents : Receipt(b)' = Receipt(b)
    BY <1>2 DEF Record, Receipt
  <2> QED
    BY <2>1, <2>2, <1>w, <1>l, LineStep DEF StopInv
<1>3. CASE Send(a)
  <2>1. /\ UNCHANGED <<log, life>> /\ hook'[a] = "wait"
        /\ relays' = relays \cup {[receipt |-> Receipt(a), at |-> "append", seen |-> 0]}
        /\ \A b \in Agents : hook[b] = "wait" => hook'[b] = "wait"
    BY <1>3, <1>t DEF Send
  <2>2. \A b \in Agents : Receipt(b)' = Receipt(b)
    BY <1>3 DEF Send, Receipt
  <2>3. Receipt(a).agent = a
    BY DEF Receipt
  <2>4. \A r \in relays' : hook'[r.receipt.agent] = "wait" /\ r.receipt = Receipt(r.receipt.agent)'
    BY <2>1, <2>2, <2>3, <1>w
  <2> QED
    BY <2>1, <2>4, <1>l DEF StopInv
<1>4. CASE Closed(a)
  <2>1. /\ UNCHANGED <<log, relays, life>> /\ \A r \in relays : r.receipt # Receipt(a)
        /\ \A b \in Agents \ {a} : hook'[b] = hook[b]
    BY <1>4, <1>t DEF Closed
  <2>2. \A b \in Agents : Receipt(b)' = Receipt(b)
    BY <1>4 DEF Closed, Receipt
  <2> QED
    BY <2>1, <2>2, <1>w, <1>l DEF StopInv
<1>5. CASE RecordFails(a) \/ Read(a) \/ Publish(a)
  <2>1. /\ UNCHANGED <<log, relays, life>> /\ hook[a] # "wait"
        /\ \E at : hook' = [hook EXCEPT ![a] = at]
    BY <1>5 DEF RecordFails, Read, Publish
  <2>2. \A b \in Agents \ {a} : hook'[b] = hook[b]
    BY <2>1, <1>t
  <2>3. \A b \in Agents : Receipt(b)' = Receipt(b)
    BY <1>5 DEF RecordFails, Read, Publish, Receipt
  <2> QED
    BY <2>1, <2>2, <2>3, <1>w, <1>l DEF StopInv
<1>6. CASE Answer(a)
  <2>1. /\ hook[a] = "answer" /\ UNCHANGED <<log, relays>>
        /\ \A b \in Agents \ {a} : /\ hook'[b] = hook[b] /\ use'[b] = use[b] /\ life'[b] = life[b]
                                   /\ decision'[b] = decision[b]
    BY <1>6, <1>t DEF Answer
  <2>2. \A b \in Agents \ {a} : Receipt(b)' = Receipt(b)
    BY <2>1 DEF Receipt
  <2>3. life[a] = "SubagentStop" => life'[a] = "gone"
    BY <1>6, <1>t DEF Answer
  <2>4. life[a] # "gone"
    BY <2>1 DEF TypeInv
  <2> QED
    BY <2>1, <2>2, <2>3, <2>4, <1>w, <1>l, LogLines DEF StopInv
<1>7. CASE TimesOut(a)
  BY <1>7 DEF TimesOut
<1> QED
  BY <1>1, <1>2, <1>3, <1>4, <1>5, <1>6, <1>7 DEF Hook

LEMMA StopRelay ==
  ASSUME TypeInv, StopInv, NEW r \in relays, Relay(r)
  PROVE  StopInv'
<1> USE DEF session, host, files, daemonOnly
<1>1. UNCHANGED <<hook, decision, use, life, late>>
  BY DEF Relay, RelayAppend, RelayRead, RelayPublish, RelayAnswer, RelayFails, Drop
<1> SUFFICES ASSUME ~late PROVE StopInv'
  BY <1>1 DEF StopInv
<1>t. r \in Relays /\ Len(log) \in Nat
  BY Typing
<1>2. \A b : Receipt(b)' = Receipt(b)
  BY <1>1 DEF Receipt
<1>3. \A q \in relays' : \E p \in relays : q.receipt = p.receipt
  <2>1. ASSUME NEW at \in RelaySteps, NEW n \in Nat, Moved(r, at, n)
        PROVE  \A q \in relays' : \E p \in relays : q.receipt = p.receipt
    BY <2>1, <1>t, Moving
  <2>2. r.seen \in Nat
    BY <1>t, RelayFields
  <2> QED
    BY <2>1, <2>2, <1>t
       DEF Relay, RelayAppend, RelayRead, RelayPublish, RelayAnswer, RelayFails, Drop, RelaySteps
<1>4. \A q \in relays' : hook'[q.receipt.agent] = "wait" /\ q.receipt = Receipt(q.receipt.agent)'
  BY <1>1, <1>2, <1>3 DEF StopInv
<1>5. CASE UNCHANGED log
  BY <1>1, <1>4, <1>5 DEF StopInv
<1>6. CASE RelayAppend(r)
  <2>1. /\ r.receipt.agent \in Agents /\ hook[r.receipt.agent] # "idle"
        /\ r.receipt = Receipt(r.receipt.agent)
    BY LogLines DEF StopInv
  <2>2. log' = Append(log, Receipt(r.receipt.agent))
    BY <1>6, <2>1 DEF RelayAppend
  <2> QED
    BY <1>1, <1>4, <2>1, <2>2, LineStep DEF StopInv
<1> QED
  BY <1>5, <1>6 DEF Relay, RelayRead, RelayPublish, RelayAnswer, RelayFails

LEMMA StopStep == TypeInv /\ StopInv /\ [Next]_vars => StopInv'
<1>1. ASSUME StopInv, UNCHANGED vars PROVE StopInv'
  BY <1>1 DEF vars, StopInv, Receipt
<1> QED
  BY <1>1, StopHook, StopRelay DEF Next

\* Some position of a set of positions is the last one.
LEMMA LastOne ==
  ASSUME NEW n \in Nat, NEW S \in SUBSET (1..n), S # {}
  PROVE  Max(S) \in S /\ \A i \in S : i <= Max(S)
<1> DEFINE T == {k \in Nat : \E i \in S : k = n - i}
<1>1. T \subseteq Nat /\ T # {}
  <2>1. PICK i \in S : TRUE
    OBVIOUS
  <2>2. n - i \in T
    BY <2>1
  <2> QED
    BY <2>2
<1>2. PICK k \in T : \A m \in T : <<m, k>> \notin OpToRel(<, Nat)
  BY <1>1, WFMin, NatLessThanWellFounded, Zenon
<1>3. \A m \in T : ~(m < k)
  BY <1>1, <1>2, Zenon DEF OpToRel
<1>4. PICK i \in S : k = n - i
  OBVIOUS
<1>5. \A j \in S : i >= j
  <2>1. ASSUME NEW j \in S PROVE i >= j
    <3>1. n - j \in T
      OBVIOUS
    <3> QED
      BY <3>1, <1>3, <1>4
  <2> QED
    BY <2>1
<1>6. Max(S) \in S /\ \A j \in S : Max(S) >= j
  BY <1>5 DEF Max
<1> QED
  BY <1>6

\* When nothing is under way, the published graph tells of the whole session.
THEOREM PublishedGraphIsComplete == Spec => []GraphShowsSession
<1>1. Init => ShownInv
  BY DEF Init, ShownInv
<1>2. ASSUME TypeInv, ShownInv, StopInv PROVE GraphShowsSession
  <2> SUFFICES ASSUME Quiet
               PROVE  /\ ~overwritten /\ faults = 0 => published = Len(log)
                      /\ ~late => \A i \in DOMAIN log :
                           log[i].event = "SubagentStop" => Activity(log, log[i].agent) = "stopped"
    BY DEF GraphShowsSession
  <2>1. ~overwritten /\ faults = 0 => published = Len(log)
    BY <1>2 DEF Quiet, ShownInv, Ahead
  <2>2. ASSUME ~late, NEW i \in DOMAIN log, log[i].event = "SubagentStop"
        PROVE  Activity(log, log[i].agent) = "stopped"
    <3> DEFINE S == {j \in DOMAIN log : log[j].agent = log[i].agent}
    <3>1. S \subseteq 1..Len(log) /\ i \in S /\ Len(log) \in Nat /\ i \in 1..Len(log)
      BY <1>2, LogLines, Typing
    <3>2. Max(S) \in S /\ i <= Max(S)
      BY <3>1, LastOne
    <3>3. Max(S) \in DOMAIN log /\ log[Max(S)].agent = log[i].agent
      BY <3>2
    <3>4. Max(S) <= i \/ log[Max(S)].event = "SubagentStop"
      BY <3>3, <2>2, <1>2 DEF StopInv
    <3>5. log[Max(S)].event = "SubagentStop"
      BY <3>1, <3>2, <3>4, <2>2
    <3> QED
      BY <3>5 DEF Activity, LastOf
  <2> QED
    BY <2>1, <2>2
<1> QED
  BY <1>1, <1>2, StopInit, StopStep, ShownStep, TypeInit, TypeStep, PTL DEF Spec

-----------------------------------------------------------------------------
(* What is read from the graph.  No step writes the ledgers.               *)

LedgerInv == \E s \in Starts : ledger = s.ledger

LEMMA LedgerStays == Spec => []LedgerInv
<1>1. Init => LedgerInv
  BY DEF Init, LedgerInv
<1>2. ASSUME [Next]_vars PROVE ledger' = ledger
  <2>1. ASSUME NEW a \in Agents, Fire(a) \/ Hook(a) PROVE ledger' = ledger
    BY <2>1 DEF Hook, Fire, Record, RecordFails, Send, Closed, TimesOut, Read, Publish, Answer, session
  <2>2. ASSUME NEW r \in relays, Relay(r) PROVE ledger' = ledger
    BY <2>2 DEF Relay, RelayAppend, RelayRead, RelayPublish, RelayAnswer, RelayFails, Drop, daemonOnly,
                session
  <2> QED
    BY <1>2, <2>1, <2>2 DEF Next, vars, session
<1>3. LedgerInv /\ [Next]_vars => LedgerInv'
  BY <1>2 DEF LedgerInv
<1> QED
  BY <1>1, <1>3, PTL DEF Spec

\* The readiness vector and the safe cut tell one story, for any ledgers, log and
\* question.
THEOREM ReadinessTellsOneStory == Spec => []ReadinessMatchesCut
<1>1. ReadinessMatchesCut
  <2> SUFFICES ASSUME NEW o \in Ops \cup {None}, NEW m \in Manifests \cup {None},
                      NEW found \in SUBSET Categories
               PROVE  LET q == [found |-> found, op |-> o, manifest |-> m]
                          ready == Readiness(Graph, q, ledger.late)
                          needs == {Requirement(Graph, q, ledger.late, c) : c \in found}
                      IN  /\ ready.authority = 2 <=> needs = {"exact_commit_tool"}
                          /\ ready.recoveryCoverage = 0 <=> "adapter_required" \in needs
                          /\ ready.recoveryCoverage = 2 <=>
                               found # {} /\ needs \subseteq {"human_approval", "exact_commit_tool"}
    BY DEF ReadinessMatchesCut
  <2> DEFINE q == [found |-> found, op |-> o, manifest |-> m]
  <2>1. q.found = found
    OBVIOUS
  <2> HIDE DEF q
  <2>2. OneStory(Project(ledger, log), q, ledger.late)
    BY ReadinessAgrees, ConsequenceAssumption
  <2> QED
    BY <2>1, <2>2 DEF q, Graph, OneStory
<1> QED
  BY <1>1, PTL

\* An agent is sent to a commit tool just when that tool would admit the call.
THEOREM GuidanceIsExact == Spec => []GuidanceMatchesTools
<1>1. ASSUME TypeOK, LedgerInv PROVE GuidanceMatchesTools
  <2>1. IsLedger(ledger)
    BY <1>1 DEF TypeOK
  <2>2. ASSUME NEW o \in Ops, ledger.auth[o].manifest = None
        PROVE  Satisfied(Graph, [found |-> {Kind[o]}, op |-> o, manifest |-> None])
               <=> CommitAdmits(o)
    <3> DEFINE q == [found |-> {Kind[o]}, op |-> o, manifest |-> None]
    <3>1. q.found # {}
      OBVIOUS
    <3>2. Satisfied(Graph, q) <=> Met(Graph, q, ledger.late)
      BY <3>1 DEF Satisfied, Met
    <3>3. Met(Project(ledger, log), q, ledger.late) <=> CommitAdmits(o)
      BY <2>1, <2>2, OneEffectCut, ConsequenceAssumption DEF CommitAdmits, Approved
    <3> QED
      BY <3>2, <3>3 DEF Graph
  <2>3. ASSUME NEW m \in Manifests, NEW found \in SUBSET Categories,
               ledger.manifest[m] # "none", Cardinality(found) > 1,
               IsInjective([i \in DOMAIN Children[m] |-> Kind[Children[m][i]]])
        PROVE  Satisfied(Graph, [found |-> found, op |-> None, manifest |-> m])
               <=> found = {Kind[o] : o \in Bound(m)} /\ ManifestAdmits(m)
    <3> DEFINE q == [found |-> found, op |-> None, manifest |-> m]
    <3>1. q.found = found /\ found # {}
      <4>1. Cardinality({}) = 0
        BY FS_EmptySet
      <4>2. Cardinality(found) # 0
        BY <2>3
      <4> QED
        BY <4>1, <4>2
    <3>2. Satisfied(Graph, q) <=> Met(Graph, q, ledger.late)
      BY <3>1 DEF Satisfied, Met
    <3>3. Kept(ledger, m) /\ Distinct(m)
      BY <1>1, <2>3, LedgerAssumption DEF LedgerInv, Kept, Distinct, Approved
    <3>4. Met(Project(ledger, log), q, ledger.late)
          <=> found = {Kind[o] : o \in Bound(m)} /\ Ready(ledger, m)
      BY <2>1, <2>3, <3>3, ManifestCut, ConsequenceAssumption
    <3>5. Ready(ledger, m) <=> ManifestAdmits(m)
      BY DEF Ready, ManifestAdmits, Approved
    <3> QED
      BY <3>2, <3>4, <3>5 DEF Graph
  <2> QED
    BY <2>2, <2>3 DEF GuidanceMatchesTools
<1> QED
  BY <1>1, TypeCorrect, LedgerStays, PTL

-----------------------------------------------------------------------------
(* What is shown of the graph.                                             *)

LEMMA RoundsOfAround ==
  ASSUME NEW graph, WellFormed(graph), NEW S \in SUBSET Ids(graph)
  PROVE  \E reach : /\ ByRounds(graph, S, reach)
                    /\ Around(graph, S) = reach[Cardinality(graph.nodes)]
<1> DEFINE body(g) == [n \in Nat |->
             IF n = 0 THEN S
             ELSE LET R == g[n - 1]
                  IN  R \cup {e.to : e \in {x \in graph.edges : x.from \in R}}
                        \cup {e.from : e \in {x \in graph.edges : x.to \in R}}]
           reach == CHOOSE g : g = body(g)
<1>1. PICK k \in [Nat -> SUBSET Ids(graph)] : ByRounds(graph, S, k)
  BY RoundsExist
<1>2. k = body(k)
  <2>1. ASSUME NEW n \in Nat PROVE k[n] = body(k)[n]
    <3>1. CASE n = 0
      BY <1>1, <3>1 DEF ByRounds
    <3>2. CASE n # 0
      <4>1. n - 1 \in Nat /\ (n - 1) + 1 = n
        BY <3>2
      <4>2. k[n] = Round(graph, k[n - 1])
        BY <1>1, <4>1 DEF ByRounds
      <4> QED
        BY <3>2, <4>2 DEF Round
    <3> QED
      BY <3>1, <3>2
  <2> DEFINE b == body(k)
  <2>2. k = [n \in Nat |-> k[n]] /\ b = [n \in Nat |-> b[n]]
    OBVIOUS
  <2> QED
    BY <2>1, <2>2
<1>3. reach = body(reach)
  <2> HIDE DEF body
  <2> QED
    BY <1>2, Zenon
<1> DEFINE b == body(reach)
<1>4. b[0] = S /\ \A n \in Nat : b[n + 1] = Round(graph, reach[n])
  <2> HIDE DEF reach
  <2>1. \A n \in Nat : n + 1 \in Nat /\ n + 1 # 0 /\ (n + 1) - 1 = n
    OBVIOUS
  <2> QED
    BY <2>1 DEF Round
<1>5. ByRounds(graph, S, reach)
  <2> HIDE DEF reach, body
  <2> QED
    BY <1>3, <1>4, Zenon DEF ByRounds
<1>6. Around(graph, S) = reach[Cardinality(graph.nodes)]
  BY DEF Around
<1> HIDE DEF reach
<1> QED
  BY <1>5, <1>6

\* The graph of the ledgers and the log is finite, and has no loose ends.
LEMMA GraphWellFormed ==
  ASSUME TypeOK, LedgerInv
  PROVE  WellFormed(Graph)
<1>1. log \in Seq(Receipts)
  BY DEF TypeOK
<1>2. FiniteLog(log)
  <2>1. DOMAIN log = 1..Len(log) /\ Len(log) \in Nat /\ \A i \in DOMAIN log : log[i] \in Receipts
    BY <1>1
  <2>2. IsFiniteSet(DOMAIN log)
    BY <2>1, FS_Interval
  <2>3. \A i \in DOMAIN log : \E u \in AllUses : log[i].found = u.found
    BY <2>1 DEF Receipts
  <2>4. \A i \in DOMAIN log : IsFiniteSet(log[i].found)
    BY <2>3, FiniteAssumption
  <2> QED
    BY <2>2, <2>4 DEF FiniteLog
<1>3. PICK s \in Starts : ledger = s.ledger
  BY DEF LedgerInv
<1>4. FiniteLedger(ledger)
  BY <1>3, FiniteAssumption DEF FiniteLedger
<1>5. \A m \in Manifests : \A o \in Bound(m) :
        ledger.manifest[m] # "none" => o \in Ops /\ ledger.status[o] # "none"
  <2> SUFFICES ASSUME NEW m \in Manifests, NEW o \in Bound(m), ledger.manifest[m] # "none"
               PROVE  o \in Ops /\ ledger.status[o] # "none"
    OBVIOUS
  <2>1. Children[m] \in Seq(Ops)
    BY ConsequenceAssumption
  <2>2. o \in Ops
    BY <2>1 DEF Bound, Range
  <2> QED
    BY <1>3, <2>2, LedgerAssumption
<1> QED
  BY <1>2, <1>4, <1>5, ProjectionWellFormed DEF Graph

\* A slice of whatever size and around whatever is asked for keeps to its bound,
\* holds the nodes asked for before any other, is all that can be reached from
\* them when it fits, and has no edge without its ends: at any time.
THEOREM EverySliceFits == Spec => [](\A f : \A size \in Nat : SliceFits(Graph, f, size))
<1>1. ASSUME TypeOK, LedgerInv, NEW f, NEW size \in Nat PROVE SliceFits(Graph, f, size)
  <2> DEFINE graph == Graph
             seeds == Seeds(graph, f)
             slice == Slice(graph, f, size)
             ids == {n.id : n \in slice.nodes}
  <2>1. WellFormed(graph)
    BY <1>1, GraphWellFormed
  <2>2. seeds \in SUBSET Ids(graph)
    BY DEF Seeds, Ids
  <2> HIDE DEF graph
  <2>3. Gathered(graph, seeds, size, ids) /\ \A e \in slice.edges : {e.from, e.to} \subseteq ids
    BY <2>1, SliceOf
  <2> HIDE DEF seeds, slice, ids
  <2>4. Cardinality(ids) < size => ids = Around(graph, seeds)
    <3>1. PICK reach : /\ ByRounds(graph, seeds, reach)
                       /\ Around(graph, seeds) = reach[Cardinality(graph.nodes)]
      BY <2>1, <2>2, RoundsOfAround
    <3> QED
      BY <2>1, <2>2, <2>3, <3>1, GatheredIsReached
  <2>5. Cardinality(ids) <= size /\ (ids \subseteq seeds \/ seeds \subseteq ids)
    BY <2>3 DEF Gathered
  <2> QED
    BY <2>3, <2>4, <2>5 DEF SliceFits, graph, seeds, slice, ids
<1>2. TypeOK /\ LedgerInv => \A f : \A size \in Nat : SliceFits(Graph, f, size)
  BY <1>1
<1> QED
  BY <1>2, TypeCorrect, LedgerStays, PTL

\* So are the slices that are taken when nothing is under way.
THEOREM SliceIsExact == Spec => []SliceIsNeighbourhood
<1>1. (\A f : \A size \in Nat : SliceFits(Graph, f, size)) => SliceIsNeighbourhood
  <2> SUFFICES ASSUME \A f : \A size \in Nat : SliceFits(Graph, f, size)
               PROVE  SliceIsNeighbourhood
    OBVIOUS
  <2>1. \A size \in {3, 100} : size \in Nat
    OBVIOUS
  <2>2. \A f : \A size \in {3, 100} : SliceFits(Graph, f, size)
    BY <2>1
  <2> QED
    BY <2>2, Zenon DEF SliceIsNeighbourhood
<1> QED
  BY <1>1, EverySliceFits, PTL
=============================================================================
