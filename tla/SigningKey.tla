------------------------------ MODULE SigningKey ------------------------------
(***************************************************************************)
(* CapabilitySigner.loadOrCreate (signer.ts): every process that is going  *)
(* to sign (the terminal's approve and approve-manifest) or that starts a  *)
(* server without an identity (mcp.ts runs `authority init`) calls it, and *)
(* nothing keeps two of them from doing so at once.                        *)
(*                                                                         *)
(* The private key and its public half are in the key directory; a copy of *)
(* the public half in the data directory is the identity every server      *)
(* verifies capabilities with.  An old layout has the private key in the   *)
(* data directory too ("legacy"), from where it is moved.                  *)
(*                                                                         *)
(* A key pair is named by whoever generated it, and both halves have that  *)
(* name: private key k and public key k belong together.  A file written   *)
(* with flag "wx" exists, empty, before its contents are there.            *)
(***************************************************************************)
EXTENDS Naturals

CONSTANTS
  Processes,   \* calls of loadOrCreate
  Legacy,      \* the pair of an earlier installation, of the old layout or not
  NoKey        \* no such file (null)

ASSUME LegacyAssumption == Legacy \notin Processes
ASSUME NoKeyAssumption == NoKey \notin Processes \cup {Legacy, "empty"}
ASSUME EmptyAssumption == "empty" \notin Processes \cup {Legacy}

VARIABLES
  separate,    \* the key directory is not the data directory (the default)
  left,        \* history: the files that the earlier installation has left
  files,       \* contents of the key files
  pc,          \* where each call is
  established, \* establishedPublic: the identity each call found
  pair,        \* privateKey and publicKey of each call
  writes,      \* how far each call's writes have come
  generated    \* history: the calls that generated a pair

vars == <<separate, left, files, pc, established, pair, writes, generated>>

Files == {"private", "public", "verifier", "legacy"}
Keys == Processes \cup {Legacy}
Contents == Keys \cup {NoKey, "empty"}

Halves == {"private", "public"}

\* With one directory for both, the public key file is the verifier's.
Identity == IF separate THEN "verifier" ELSE "public"

\* null and the empty string are both false in JavaScript.
Missing(contents) == contents \in {NoKey, "empty"}

Steps == {"start", "legacy", "survey", "move-private", "move-public", "drop", "load",
          "generating", "reread", "compare", "publishing", "agree", "ready", "failed"}
Progress == {"none", "begun", "open", "done", "exists"}

TypeOK ==
  /\ files \in [Files -> Contents]
  /\ pc \in [Processes -> Steps]
  /\ established \in [Processes -> Contents]
  /\ pair \in [Processes -> [Halves -> Contents]]
  /\ writes \in [Processes -> [Files -> Progress]]
  /\ generated \subseteq Processes
  /\ separate \in BOOLEAN
  /\ left \subseteq Files

\* Of an earlier installation nothing is left, or all, or any of its files: the
\* key directory or the data directory, or one file of them, may be lost.  (With
\* one directory the other two paths are not used.)
Init ==
  /\ separate \in BOOLEAN
  /\ left \in SUBSET (IF separate THEN Files ELSE Halves)
  /\ files = [f \in Files |-> IF f \in left THEN Legacy ELSE NoKey]
  /\ pc = [p \in Processes |-> "start"]
  /\ established = [p \in Processes |-> NoKey]
  /\ pair = [p \in Processes |-> [f \in Halves |-> NoKey]]
  /\ writes = [p \in Processes |-> [f \in Files |-> "none"]]
  /\ generated = {}

Goto(p, from, to) == pc[p] = from /\ pc' = [pc EXCEPT ![p] = to]

-----------------------------------------------------------------------------
(* writeFile with flag "wx", in the background of the call that awaits it. *)

Begun(p, fs) == [writes EXCEPT ![p] = [f \in Files |-> IF f \in fs THEN "begun" ELSE @[f]]]

Moving(p) == pc[p] \in {"move-private", "move-public"}

\* Mutant of Payload: the name of the file instead of its contents.
Payload_Name(p, f) == f

\* What a call writes to a file: a half of the pair it moves or generated, or
\* the public key it ended up with.
Payload(p, f) ==
  CASE f = "verifier" -> pair[p]["public"]
    [] f \in Halves   -> IF Moving(p) THEN pair[p][f] ELSE p

Open(p, f) ==
  /\ writes[p][f] = "begun"
  /\ \/ /\ files[f] = NoKey
        /\ files' = [files EXCEPT ![f] = "empty"]
        /\ writes' = [writes EXCEPT ![p][f] = "open"]
     \/ /\ files[f] # NoKey
        /\ writes' = [writes EXCEPT ![p][f] = "exists"]
        /\ UNCHANGED files
  /\ UNCHANGED <<separate, left, pc, established, pair, generated>>

Fill(p, f) ==
  /\ writes[p][f] = "open"
  /\ files' = [files EXCEPT ![f] = Payload(p, f)]
  /\ writes' = [writes EXCEPT ![p][f] = "done"]
  /\ UNCHANGED <<separate, left, pc, established, pair, generated>>

-----------------------------------------------------------------------------
(* Reading the established identity, and moving an old installation's key. *)

ReadEstablished(p) ==
  /\ Goto(p, "start", IF separate THEN "legacy" ELSE "load")
  /\ established' = [established EXCEPT ![p] = files[Identity]]
  /\ UNCHANGED <<separate, left, files, pair, writes, generated>>

\* The old private key, if it is there, and the identity that goes with it.
ReadLegacy(p) ==
  /\ \/ /\ Missing(files["legacy"])
        /\ Goto(p, "legacy", "load")
        /\ UNCHANGED pair
     \/ /\ ~Missing(files["legacy"])
        /\ Goto(p, "legacy", IF files[Identity] = NoKey THEN "failed" ELSE "survey")
        /\ pair' = [pair EXCEPT ![p] =
             [f \in Halves |-> files[IF f = "private" THEN "legacy" ELSE Identity]]]
  /\ UNCHANGED <<separate, left, files, established, writes, generated>>

\* Another key is never overwritten; a half that is there is not rewritten.
\* (The halves are read one after the other; as both are written once, and the
\* private one first, reading them together misses no outcome.)
Distinct(p, f) == ~Missing(files[f]) /\ files[f] # pair[p][f]

Survey(p) ==
  /\ \/ /\ Distinct(p, "private") \/ Distinct(p, "public")
        /\ Goto(p, "survey", "failed")
        /\ UNCHANGED writes
     \/ /\ ~Distinct(p, "private") /\ ~Distinct(p, "public")
        /\ Goto(p, "survey", "move-private")
        /\ writes' = [writes EXCEPT ![p] =
             [f \in Files |-> IF f \in Halves
                              THEN IF Missing(files[f]) THEN "none" ELSE "done" ELSE @[f]]]
  /\ UNCHANGED <<separate, left, files, established, pair, generated>>

MoveFile(p, place, f, next) ==
  /\ pc[p] = place
  /\ \/ /\ writes[p][f] = "none"
        /\ writes' = Begun(p, {f})
        /\ UNCHANGED pc
     \/ /\ writes[p][f] = "done"
        /\ Goto(p, place, next)
        /\ UNCHANGED writes
     \/ /\ writes[p][f] = "exists"
        /\ Goto(p, place, "failed")
        /\ UNCHANGED writes
  /\ UNCHANGED <<separate, left, files, established, pair, generated>>

\* Mutant of MovePrivate: the write is not awaited.
MovePrivate_NotAwaited(p) ==
  /\ Goto(p, "move-private", "move-public")
  /\ writes' = Begun(p, {"private"})
  /\ UNCHANGED <<separate, left, files, established, pair, generated>>

MovePrivate(p) == MoveFile(p, "move-private", "private", "move-public")
MovePublic(p) == MoveFile(p, "move-public", "public", "drop")

\* rm without force: it throws if another call has removed the file.
DropLegacy(p) ==
  /\ \/ /\ files["legacy"] # NoKey
        /\ Goto(p, "drop", "load")
        /\ files' = [files EXCEPT !["legacy"] = NoKey]
     \/ /\ files["legacy"] = NoKey
        /\ Goto(p, "drop", "failed")
        /\ UNCHANGED files
  /\ UNCHANGED <<separate, left, established, pair, writes, generated>>

-----------------------------------------------------------------------------
(* Loading the pair, or creating it: both files are written at once, and   *)
(* each is won or lost on its own.                                         *)

Stored == [f \in Halves |-> files[f]]

LoadPair(p) ==
  /\ pc[p] = "load"
  /\ \/ /\ \A f \in Halves : files[f] # NoKey
        /\ Goto(p, "load", "compare")
        /\ pair' = [pair EXCEPT ![p] = Stored]
        /\ UNCHANGED <<writes, generated>>
     \/ /\ \E f \in Halves : files[f] = NoKey
        /\ Goto(p, "load", "generating")
        /\ pair' = [pair EXCEPT ![p] = [f \in Halves |-> p]]
        /\ writes' = Begun(p, Halves)
        /\ generated' = generated \cup {p}
  /\ UNCHANGED <<separate, left, files, established>>

\* Mutant of Generated: whoever lost a file goes on with his own pair.
Generated_OwnPair(p) ==
  /\ Goto(p, "generating", "compare")
  /\ \A f \in Halves : writes[p][f] \in {"done", "exists"}
  /\ UNCHANGED <<separate, left, files, established, pair, writes, generated>>

\* Promise.all: both written, or the first EEXIST.
Generated(p) ==
  /\ \/ /\ \A f \in Halves : writes[p][f] = "done"
        /\ Goto(p, "generating", "compare")
     \/ /\ \E f \in Halves : writes[p][f] = "exists"
        /\ Goto(p, "generating", "reread")
  /\ UNCHANGED <<separate, left, files, established, pair, writes, generated>>

\* The other write of this call may still be under way.
Reread(p) ==
  /\ \/ /\ \A f \in Halves : files[f] # NoKey
        /\ Goto(p, "reread", "compare")
        /\ pair' = [pair EXCEPT ![p] = Stored]
     \/ /\ \E f \in Halves : files[f] = NoKey
        /\ Goto(p, "reread", "failed")
        /\ UNCHANGED pair
  /\ UNCHANGED <<separate, left, files, established, writes, generated>>

-----------------------------------------------------------------------------
(* The pair against the identity of this ledger.                           *)

\* Mutant of Compare: whatever pair was loaded is used.
Compare_Unchecked(p) ==
  /\ Goto(p, "compare", IF Missing(established[p]) /\ separate THEN "publishing" ELSE "ready")
  /\ writes' = IF Missing(established[p]) /\ separate THEN Begun(p, {"verifier"}) ELSE writes
  /\ UNCHANGED <<separate, left, files, established, pair, generated>>

Compare(p) ==
  LET found == established[p]
      publishes == Missing(found) /\ separate
  IN  /\ \/ /\ ~Missing(found) /\ found # pair[p]["public"]
            /\ Goto(p, "compare", "failed")
            /\ UNCHANGED writes
         \/ /\ Missing(found) \/ found = pair[p]["public"]
            /\ Goto(p, "compare", IF publishes THEN "publishing" ELSE "ready")
            /\ writes' = IF publishes THEN Begun(p, {"verifier"}) ELSE writes
      /\ UNCHANGED <<separate, left, files, established, pair, generated>>

Published(p) ==
  /\ \/ writes[p]["verifier"] = "done" /\ Goto(p, "publishing", "ready")
     \/ writes[p]["verifier"] = "exists" /\ Goto(p, "publishing", "agree")
  /\ UNCHANGED <<separate, left, files, established, pair, writes, generated>>

\* Somebody else published: it must have been the same key.
Agree(p) ==
  /\ Goto(p, "agree", IF files["verifier"] = pair[p]["public"] THEN "ready" ELSE "failed")
  /\ UNCHANGED <<separate, left, files, established, pair, writes, generated>>

\* A crash, or an error that is thrown: nothing more happens for this call.
Crash(p) ==
  /\ pc[p] \notin {"start", "ready", "failed"}
  /\ pc' = [pc EXCEPT ![p] = "failed"]
  /\ writes' = [writes EXCEPT ![p] = [f \in Files |-> "none"]]
  /\ UNCHANGED <<separate, left, files, established, pair, generated>>

Step(p) ==
  \/ ReadEstablished(p) \/ ReadLegacy(p) \/ Survey(p)
  \/ MovePrivate(p) \/ MovePublic(p) \/ DropLegacy(p)
  \/ LoadPair(p) \/ Generated(p) \/ Reread(p)
  \/ Compare(p) \/ Published(p) \/ Agree(p)
  \/ \E f \in Files : Open(p, f) \/ Fill(p, f)

Next == \E p \in Processes : Step(p) \/ Crash(p)

Spec == Init /\ [][Next]_vars

-----------------------------------------------------------------------------
(* Properties.                                                             *)

Ready(p) == pc[p] = "ready"

\* Whatever processes create, move or crash over the key files, all that can
\* sign do so with the same key, and none is let go that has loaded another
\* public key than the identity of its ledger ...
SignersAgree ==
  /\ \A p, q \in Processes :
       LET k == pair[p]["private"]
           l == pair[q]["private"]
       IN  Ready(p) /\ Ready(q) /\ ~Missing(k) /\ ~Missing(l) => k = l
  /\ \A p \in Processes :
       Ready(p) /\ ~Missing(pair[p]["public"]) => files[Identity] = pair[p]["public"]

\* ... and what they sign is not verified with another key than its own, unless
\* two pairs were mixed: two calls each generated one, or a call generated one
\* where a half of an earlier one was left.  (Then each file keeps the half that
\* came first, and the halves need not be of one pair.)
HalfLeft == "legacy" \notin left /\ ("private" \in left) # ("public" \in left)
SignaturesVerify ==
  ~HalfLeft /\ (\A p, q \in generated : p = q) =>
    \A p \in Processes :
      LET k == pair[p]["private"]
      IN  Ready(p) /\ ~Missing(k) /\ ~Missing(files[Identity]) => files[Identity] = k

\* The key of an established identity survives its move, wherever the move is cut.
Kept == Legacy \in {files["legacy"], files["private"]}
LegacyKeyKept == [][Kept => Kept']_vars

=============================================================================
