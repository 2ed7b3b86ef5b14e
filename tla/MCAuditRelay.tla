----------------------------- MODULE MCAuditRelay -----------------------------
(* An instance of AuditRelay for TLC.                                        *)
EXTENDS AuditRelay

CONSTANTS a1, a2, o1, o2, o3, m1, m2

TwoAgents == {a1, a2}
ThreeOps == {o1, o2, o3}
TwoManifests == {m1, m2}
Binding == [m \in TwoManifests |-> IF m = m1 THEN <<o1, o2>> ELSE <<o1, o2, o3>>]
Kinds == [o \in ThreeOps |-> CASE o = o1 -> "filesystem.delete" [] o = o2 -> "sqlite.mutate"
                               [] o = o3 -> "git.reset-hard"]
Resources == [o \in ThreeOps |-> IF o = o3 THEN {"tree", "db"} ELSE IF o = o2 THEN {"db"} ELSE {"build"}]
ExactKinds == {"filesystem.delete", "sqlite.mutate", "git.reset-hard"}

\* a1 uses a tool, a2 does not.
OneUses == [a \in TwoAgents |-> IF a = a2 THEN {} ELSE
  {[command |-> "rm", found |-> {"filesystem.delete"}],
   [command |-> "ls", found |-> {}]}]

Empty == [status |-> [o \in ThreeOps |-> "none"], late |-> {},
          auth |-> [o \in ThreeOps |-> [status |-> "absent", manifest |-> None]],
          manifest |-> [m \in TwoManifests |-> "none"],
          mauth |-> [m \in TwoManifests |-> "absent"], receipts |-> {}]
Entry(a, event, u, denied) ==
  [agent |-> a, event |-> event, command |-> u.command, blocked |-> denied, found |-> u.found]

\* Sessions in which a1 starts, uses a tool and stops; or in which both agents
\* have started, a1 is about to use a tool, and a2 to stop.
Started(a) == Entry(a, "SubagentStart", NoUse, FALSE)
Lone == [life |-> [a \in TwoAgents |-> IF a = a1 THEN "SubagentStart" ELSE "gone"],
         log |-> <<>>]
Both == [life |-> [a \in TwoAgents |-> IF a = a1 THEN "PreToolUse" ELSE "SubagentStop"],
         log |-> <<Started(a1), Started(a2)>>]
Sessions == {[ledger |-> Empty, relayed |-> r, life |-> x.life, log |-> x.log] :
               r \in BOOLEAN, x \in {Lone, Both}}

Auths == {[status |-> x, manifest |-> None] : x \in {"absent", "pending", "expired", "approved"}}
         \cup {[status |-> "approved", manifest |-> m] : m \in TwoManifests}

\* A manifest and its authorization: not prepared, prepared, or committed.
Stages == {<<"none", "absent">>, <<"prepared", "absent">>, <<"prepared", "pending">>,
           <<"prepared", "approved">>, <<"committed", "approved">>}

\* What holds between the records after any prepare, approval and commit.
Reachable(w) ==
  /\ \A o \in ThreeOps :
       /\ w.status[o] = "none" => w.auth[o].status = "absent" /\ o \notin w.late
       /\ w.status[o] = "committed" =>
            /\ w.auth[o].status = "approved"
            /\ w.auth[o].manifest # None => w.manifest[w.auth[o].manifest] = "committed"
       /\ w.auth[o].status = "expired" => o \in w.late
       /\ w.auth[o].manifest # None =>
            o \in Range(Binding[w.auth[o].manifest])
            /\ w.mauth[w.auth[o].manifest] \in {"pending", "approved"}
  /\ \A m \in TwoManifests : \A o \in Range(Binding[m]) :
       /\ w.manifest[m] # "none" => w.auth[o].status # "absent"
       /\ w.manifest[m] = "committed" => w.status[o] = "committed"
       /\ w.mauth[m] = "approved" =>
            w.auth[o] = [status |-> "approved", manifest |-> m] \/ w.auth[o].status = "expired"

Ledgers ==
  {w \in {[status |-> [o \in ThreeOps |-> IF o = o3 THEN x ELSE "proven"], late |-> l,
           auth |-> [o \in ThreeOps |-> IF o = o1 THEN u[1] ELSE IF o = o2 THEN u[2] ELSE u[3]],
           manifest |-> [m \in TwoManifests |-> IF m = m1 THEN h[1] ELSE k[1]],
           mauth |-> [m \in TwoManifests |-> IF m = m1 THEN h[2] ELSE k[2]],
           receipts |-> {o \in {o3} : x = "committed"}] :
             x \in {"none", "proven", "committed"},
             l \in {{}, {o3}, {o1, o2}}, u \in Auths \X Auths \X Auths,
             h \in Stages, k \in Stages} : Reachable(w)}

\* Sessions that are over: a denied command, one that ran, an agent that stopped.
Past == <<Started(a1),
          Entry(a1, "PreToolUse", [command |-> "rm", found |-> {"filesystem.delete"}], TRUE),
          Entry(a2, "PreToolUse", [command |-> "ls", found |-> {}], FALSE),
          Entry(a1, "SubagentStop", NoUse, FALSE)>>
Orientations ==
  {[ledger |-> w, relayed |-> FALSE, life |-> [a \in TwoAgents |-> "gone"], log |-> Past] :
     w \in Ledgers}

Situations == Sessions \cup Orientations
=============================================================================
