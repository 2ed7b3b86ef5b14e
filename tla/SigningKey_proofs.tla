--------------------------- MODULE SigningKey_proofs ---------------------------
(***************************************************************************)
(* Theorems about SigningKey, for any number of calls that start, move,    *)
(* create and crash over the key files in any order.                       *)
(***************************************************************************)
EXTENDS SigningKey, TLAPS

\* Nobody writes the old layout's key, and it is there as it was, or not.
LegacyInv ==
  /\ files["legacy"] \in {NoKey, Legacy}
  /\ \A p \in Processes : writes[p]["legacy"] = "none"

\* A file that has been opened is empty until its one writer fills it.
OpenInv ==
  \A p \in Processes : \A f \in Files :
    writes[p][f] = "open" => /\ files[f] = "empty"
                             /\ \A q \in Processes : writes[q][f] = "open" => q = p

\* What a call that moves the old key has in hand, and has written of it.
MoveOK(p) ==
  /\ pc[p] \in {"survey", "move-private", "move-public", "drop"} =>
       pair[p]["private"] = Legacy
  /\ pc[p] \in {"move-public", "drop"} => writes[p]["private"] = "done"
  /\ pc[p] \in {"move-private", "move-public", "drop"} /\ writes[p]["private"] = "done" =>
       files["private"] = Legacy

\* What a call has in hand once it has a pair is what is on disk.
PairOK(p) ==
  \A f \in Halves :
    /\ pc[p] = "generating" => pair[p][f] = p
    /\ pc[p] = "generating" /\ writes[p][f] = "done" => files[f] = p
    /\ pc[p] \in {"compare", "publishing", "agree", "ready"} /\ ~Missing(pair[p][f]) =>
         files[f] = pair[p][f]

\* The identity a call has found, or published, is the one on disk.
IdentityOK(p) ==
  /\ ~Missing(established[p]) => files[Identity] = established[p]
  /\ writes[p]["verifier"] \in {"begun", "open"} => pc[p] = "publishing"
  /\ writes[p]["verifier"] = "done" =>
       /\ pc[p] \in {"publishing", "ready"}
       /\ ~Missing(pair[p]["public"]) => files["verifier"] = pair[p]["public"]
  /\ writes[p]["verifier"] = "exists" => pc[p] \in {"publishing", "agree", "ready", "failed"}
  /\ pc[p] \in {"publishing", "agree"} => separate
  /\ pc[p] = "ready" /\ ~Missing(pair[p]["public"]) => files[Identity] = pair[p]["public"]

CallOK(p) == MoveOK(p) /\ PairOK(p) /\ IdentityOK(p)
CallInv == \A p \in Processes : CallOK(p)

KeyInv == TypeOK /\ LegacyInv /\ OpenInv /\ CallInv

-----------------------------------------------------------------------------
(* Steps, seen from what they may do to the files.                         *)

LEMMA FilesFacts ==
  /\ Halves = {"private", "public"} /\ Halves \subseteq Files
  /\ Files = {"private", "public", "verifier", "legacy"}
  /\ Identity \in {"public", "verifier"} /\ (separate => Identity = "verifier")
  /\ (~separate => Identity = "public")
  /\ NoKey # "empty" /\ NoKey # Legacy /\ Legacy # "empty"
  /\ \A p \in Processes : p # NoKey /\ p # "empty" /\ p # Legacy
BY LegacyAssumption, NoKeyAssumption, EmptyAssumption DEF Halves, Files, Identity

LEMMA InitInv == Init => KeyInv
<1> SUFFICES ASSUME Init PROVE KeyInv
  OBVIOUS
<1>1. TypeOK
  BY FilesFacts DEF Init, TypeOK, Contents, Keys, Steps, Progress, Missing
<1>2. LegacyInv /\ OpenInv
  BY FilesFacts DEF Init, LegacyInv, OpenInv
<1>3. CallInv
  BY FilesFacts DEF Init, CallInv, CallOK, MoveOK, PairOK, IdentityOK, Missing
<1> QED
  BY <1>1, <1>2, <1>3 DEF KeyInv

-----------------------------------------------------------------------------
(* The steps that write a file.                                            *)

LEMMA OpenStep == ASSUME KeyInv, NEW p \in Processes, NEW f \in Files, Open(p, f)
                  PROVE  KeyInv'
<1> USE FilesFacts
<1>k. TypeOK /\ LegacyInv /\ OpenInv /\ CallInv
  BY DEF KeyInv
<1>0. /\ f # "legacy" /\ writes[p][f] = "begun"
      /\ UNCHANGED <<separate, left, pc, established, pair, generated>>
  BY <1>k DEF Open, LegacyInv
<1>1. \/ /\ files[f] = NoKey
         /\ files' = [files EXCEPT ![f] = "empty"]
         /\ writes' = [writes EXCEPT ![p][f] = "open"]
      \/ /\ files[f] # NoKey
         /\ writes' = [writes EXCEPT ![p][f] = "exists"]
         /\ files' = files
  BY DEF Open
<1>2. \A g \in Files : ~Missing(files[g]) => files'[g] = files[g]
  BY <1>1, <1>k DEF TypeOK, Missing
<1>3. \A q \in Processes : \A g \in Files :
        writes'[q][g] = writes[q][g] \/ (q = p /\ g = f /\ writes'[q][g] \in {"open", "exists"})
  BY <1>1, <1>k DEF TypeOK
<1>4. TypeOK'
  <2>1. \A s \in {"open", "exists"} : [writes EXCEPT ![p][f] = s] \in [Processes -> [Files -> Progress]]
    BY <1>k DEF TypeOK, Progress
  <2>2. [files EXCEPT ![f] = "empty"] \in [Files -> Contents]
    BY <1>k DEF TypeOK, Contents
  <2> QED
    BY <1>0, <1>1, <1>k, <2>1, <2>2 DEF TypeOK
<1>5. LegacyInv'
  BY <1>0, <1>1, <1>3, <1>k DEF LegacyInv, TypeOK
<1>6. OpenInv'
  <2>1. CASE files[f] = NoKey /\ files' = [files EXCEPT ![f] = "empty"]
    <3>1. files'[f] = "empty" /\ \A g \in Files : g # f => files'[g] = files[g]
      BY <2>1, <1>k DEF TypeOK
    <3>2. \A q \in Processes : writes[q][f] # "open"
      BY <2>1, <1>k DEF OpenInv
    <3> QED
      BY <1>3, <1>k, <3>1, <3>2 DEF OpenInv
  <2>2. CASE files' = files /\ writes' = [writes EXCEPT ![p][f] = "exists"]
    <3>1. \A q \in Processes : \A g \in Files : writes'[q][g] = "open" => writes[q][g] = "open"
      BY <2>2, <1>k DEF TypeOK
    <3> QED
      BY <2>2, <1>k, <3>1 DEF OpenInv
  <2> QED
    BY <1>1, <2>1, <2>2
<1>7. CallInv'
  <2>1. Identity' = Identity
    BY <1>0 DEF Identity
  <2> SUFFICES ASSUME NEW q \in Processes PROVE CallOK(q)'
    BY DEF CallInv
  <2>2. MoveOK(q) /\ PairOK(q) /\ IdentityOK(q)
    BY <1>k DEF CallInv, CallOK
  <2>3. \A g \in Files : \/ writes'[q][g] = writes[q][g]
                         \/ q = p /\ g = f /\ writes'[q][g] \in {"open", "exists"}
    BY <1>3
  <2>4. MoveOK(q)'
    BY <1>0, <1>2, <2>2, <2>3 DEF MoveOK, Missing
  <2>5. PairOK(q)'
    BY <1>0, <1>2, <2>2, <2>3 DEF PairOK, Missing
  <2>6. IdentityOK(q)'
    BY <1>0, <1>2, <2>1, <2>2, <2>3 DEF IdentityOK, Missing
  <2> QED
    BY <2>4, <2>5, <2>6 DEF CallOK
<1> QED
  BY <1>4, <1>5, <1>6, <1>7 DEF KeyInv

LEMMA FillStep == ASSUME KeyInv, NEW p \in Processes, NEW f \in Files, Fill(p, f)
                  PROVE  KeyInv'
<1> USE FilesFacts
<1>k. TypeOK /\ LegacyInv /\ OpenInv /\ CallInv
  BY DEF KeyInv
<1>0. /\ f # "legacy" /\ writes[p][f] = "open" /\ files[f] = "empty"
      /\ UNCHANGED <<separate, left, pc, established, pair, generated>>
      /\ \A q \in Processes : writes[q][f] = "open" => q = p
  BY <1>k DEF Fill, LegacyInv, OpenInv
<1>1. /\ files' = [files EXCEPT ![f] = Payload(p, f)]
      /\ writes' = [writes EXCEPT ![p][f] = "done"]
  BY DEF Fill
<1>a. Payload(p, f) \in Contents
  BY <1>k, <1>0 DEF Payload, TypeOK, Contents, Keys
<1>2. \A g \in Files : ~Missing(files[g]) => files'[g] = files[g]
  BY <1>0, <1>1, <1>k DEF TypeOK, Missing
<1>3. \A q \in Processes : \A g \in Files :
        writes'[q][g] = IF q = p /\ g = f THEN "done" ELSE writes[q][g]
  BY <1>1, <1>k DEF TypeOK
<1>b. files'[f] = Payload(p, f)
  BY <1>1, <1>k DEF TypeOK
<1>4. TypeOK'
  BY <1>0, <1>1, <1>a, <1>k DEF TypeOK, Progress
<1>5. LegacyInv'
  BY <1>0, <1>1, <1>3, <1>k DEF LegacyInv, TypeOK
<1>6. OpenInv'
  BY <1>0, <1>1, <1>3, <1>k DEF OpenInv, TypeOK
<1>7. CallInv'
  <2>1. Identity' = Identity
    BY <1>0 DEF Identity
  <2> SUFFICES ASSUME NEW q \in Processes PROVE CallOK(q)'
    BY DEF CallInv
  <2>2. MoveOK(q) /\ PairOK(q) /\ IdentityOK(q)
    BY <1>k DEF CallInv, CallOK
  <2>3. q = p /\ f = "verifier" => pc[p] = "publishing" /\ files'["verifier"] = pair[p]["public"]
    BY <1>0, <1>b, <2>2 DEF IdentityOK, Payload
  <2>4. MoveOK(q)'
    BY <1>0, <1>2, <1>3, <1>b, <2>2 DEF MoveOK, Missing, Payload, Moving
  <2>5. PairOK(q)'
    BY <1>0, <1>2, <1>3, <1>b, <2>2 DEF PairOK, Missing, Payload, Moving
  <2>6. IdentityOK(q)'
    BY <1>0, <1>2, <1>3, <2>1, <2>2, <2>3 DEF IdentityOK, Missing
  <2> QED
    BY <2>4, <2>5, <2>6 DEF CallOK
<1> QED
  BY <1>4, <1>5, <1>6, <1>7 DEF KeyInv

-----------------------------------------------------------------------------
(* The steps of one call that leave the files alone.                       *)

\* What only looks at other calls is kept when one call moves on, its writes
\* neither opening a file nor filling one.
Quiet(p) ==
  /\ UNCHANGED <<separate, left, files>>
  /\ generated' \subseteq Processes
  /\ \A q \in Processes \ {p} : /\ pc'[q] = pc[q] /\ established'[q] = established[q]
                                /\ pair'[q] = pair[q] /\ writes'[q] = writes[q]
  /\ \A f \in Files : writes'[p][f] = "open" => writes[p][f] = "open"
  /\ writes'[p]["legacy"] = "none"

LEMMA QuietStep == ASSUME KeyInv, NEW p \in Processes, Quiet(p), TypeOK', CallOK(p)'
                   PROVE  KeyInv'
<1>k. TypeOK /\ LegacyInv /\ OpenInv /\ CallInv
  BY DEF KeyInv
<1>1. LegacyInv'
  BY <1>k DEF Quiet, LegacyInv
<1>2. OpenInv'
  <2>1. \A q \in Processes : \A f \in Files : writes'[q][f] = "open" => writes[q][f] = "open"
    BY DEF Quiet
  <2> QED
    BY <1>k, <2>1 DEF Quiet, OpenInv
<1>3. CallInv'
  <2> SUFFICES ASSUME NEW q \in Processes, q # p PROVE CallOK(q)'
    BY DEF CallInv
  <2>1. Identity' = Identity
    BY DEF Quiet, Identity
  <2>2. CallOK(q)
    BY <1>k DEF CallInv
  <2> QED
    BY <2>1, <2>2 DEF Quiet, CallOK, MoveOK, PairOK, IdentityOK, Missing
<1> QED
  BY <1>1, <1>2, <1>3 DEF KeyInv
LEMMA ReadEstablishedStep == ASSUME KeyInv, NEW p \in Processes, ReadEstablished(p)
                         PROVE  KeyInv'
<1> USE FilesFacts
<1>k. TypeOK /\ LegacyInv /\ CallOK(p)
  BY DEF KeyInv, CallInv
<1>1. Quiet(p)
  BY <1>k DEF ReadEstablished, Goto, Quiet, TypeOK, LegacyInv
<1>2. TypeOK'
  BY <1>k DEF ReadEstablished, Goto, TypeOK, Steps, Contents, Keys, Progress
<1>3. MoveOK(p)'
  BY <1>k DEF ReadEstablished, Goto, TypeOK, LegacyInv, CallOK, MoveOK, Missing
<1>4. PairOK(p)'
  BY <1>k DEF ReadEstablished, Goto, TypeOK, CallOK, PairOK, Missing
<1>5. IdentityOK(p)'
  BY <1>k DEF ReadEstablished, Goto, TypeOK, CallOK, PairOK, IdentityOK, Missing, Identity
<1> QED
  BY <1>1, <1>2, <1>3, <1>4, <1>5, QuietStep DEF CallOK

LEMMA ReadLegacyStep == ASSUME KeyInv, NEW p \in Processes, ReadLegacy(p)
                    PROVE  KeyInv'
<1> USE FilesFacts
<1>k. TypeOK /\ LegacyInv /\ CallOK(p)
  BY DEF KeyInv, CallInv
<1>1. Quiet(p)
  BY <1>k DEF ReadLegacy, Goto, Quiet, TypeOK, LegacyInv
<1>2. TypeOK'
  <2>1. files' \in [Files -> Contents] /\ separate' \in BOOLEAN /\ left' \subseteq Files
    BY <1>k DEF ReadLegacy, TypeOK
  <2>2. pc' \in [Processes -> Steps] /\ established' \in [Processes -> Contents]
    BY <1>k DEF ReadLegacy, Goto, TypeOK, Steps, Contents, Keys, Progress
  <2>3. writes' \in [Processes -> [Files -> Progress]]
    BY <1>k DEF ReadLegacy, Goto, TypeOK, Steps, Contents, Keys, Progress
  <2>4. pair' \in [Processes -> [Halves -> Contents]] /\ generated' \subseteq Processes
    BY <1>k DEF ReadLegacy, Goto, TypeOK, Steps, Contents, Keys, Progress
  <2> QED
    BY <2>1, <2>2, <2>3, <2>4 DEF TypeOK
<1>3. MoveOK(p)'
  BY <1>k DEF ReadLegacy, Goto, TypeOK, LegacyInv, CallOK, MoveOK, Missing
<1>4. PairOK(p)'
  BY <1>k DEF ReadLegacy, Goto, TypeOK, CallOK, PairOK, Missing
<1>5. IdentityOK(p)'
  BY <1>k DEF ReadLegacy, Goto, TypeOK, CallOK, PairOK, IdentityOK, Missing, Identity
<1> QED
  BY <1>1, <1>2, <1>3, <1>4, <1>5, QuietStep DEF CallOK

LEMMA SurveyStep == ASSUME KeyInv, NEW p \in Processes, Survey(p)
                PROVE  KeyInv'
<1> USE FilesFacts
<1>k. TypeOK /\ LegacyInv /\ CallOK(p)
  BY DEF KeyInv, CallInv
<1>1. Quiet(p)
  BY <1>k DEF Survey, Goto, Quiet, TypeOK, LegacyInv, Distinct
<1>2. TypeOK'
  BY <1>k DEF Survey, Goto, TypeOK, Steps, Contents, Keys, Progress, Distinct
<1>3. MoveOK(p)'
  BY <1>k DEF Survey, Goto, TypeOK, LegacyInv, CallOK, MoveOK, Missing, Distinct
<1>4. PairOK(p)'
  BY <1>k DEF Survey, Goto, TypeOK, CallOK, PairOK, Missing, Distinct
<1>5. IdentityOK(p)'
  BY <1>k DEF Survey, Goto, TypeOK, CallOK, PairOK, IdentityOK, Missing, Identity, Distinct
<1> QED
  BY <1>1, <1>2, <1>3, <1>4, <1>5, QuietStep DEF CallOK

LEMMA MovePrivateStep == ASSUME KeyInv, NEW p \in Processes, MovePrivate(p)
                     PROVE  KeyInv'
<1> USE FilesFacts
<1>k. TypeOK /\ LegacyInv /\ CallOK(p)
  BY DEF KeyInv, CallInv
<1>1. Quiet(p)
  BY <1>k DEF MovePrivate, Goto, Quiet, TypeOK, LegacyInv, MoveFile, Begun
<1>2. TypeOK'
  <2>1. files' \in [Files -> Contents] /\ separate' \in BOOLEAN /\ left' \subseteq Files
    BY <1>k DEF MovePrivate, TypeOK, MoveFile
  <2>2. pc' \in [Processes -> Steps] /\ established' \in [Processes -> Contents]
    BY <1>k DEF MovePrivate, Goto, TypeOK, Steps, Contents, Keys, Progress, MoveFile, Begun
  <2>3. writes' \in [Processes -> [Files -> Progress]]
    BY <1>k DEF MovePrivate, Goto, TypeOK, Steps, Contents, Keys, Progress, MoveFile, Begun
  <2>4. pair' \in [Processes -> [Halves -> Contents]] /\ generated' \subseteq Processes
    BY <1>k DEF MovePrivate, Goto, TypeOK, Steps, Contents, Keys, Progress, MoveFile, Begun
  <2> QED
    BY <2>1, <2>2, <2>3, <2>4 DEF TypeOK
<1>3. MoveOK(p)'
  BY <1>k DEF MovePrivate, Goto, TypeOK, LegacyInv, CallOK, MoveOK, Missing, MoveFile, Begun
<1>4. PairOK(p)'
  BY <1>k DEF MovePrivate, Goto, TypeOK, CallOK, PairOK, Missing, MoveFile, Begun
<1>5. IdentityOK(p)'
  BY <1>k DEF MovePrivate, Goto, TypeOK, CallOK, PairOK, IdentityOK, Missing, Identity, MoveFile, Begun
<1> QED
  BY <1>1, <1>2, <1>3, <1>4, <1>5, QuietStep DEF CallOK

LEMMA MovePublicStep == ASSUME KeyInv, NEW p \in Processes, MovePublic(p)
                    PROVE  KeyInv'
<1> USE FilesFacts
<1>k. TypeOK /\ LegacyInv /\ CallOK(p)
  BY DEF KeyInv, CallInv
<1>1. Quiet(p)
  BY <1>k DEF MovePublic, Goto, Quiet, TypeOK, LegacyInv, MoveFile, Begun
<1>2. TypeOK'
  BY <1>k DEF MovePublic, Goto, TypeOK, Steps, Contents, Keys, Progress, MoveFile, Begun
<1>3. MoveOK(p)'
  BY <1>k DEF MovePublic, Goto, TypeOK, LegacyInv, CallOK, MoveOK, Missing, MoveFile, Begun
<1>4. PairOK(p)'
  BY <1>k DEF MovePublic, Goto, TypeOK, CallOK, PairOK, Missing, MoveFile, Begun
<1>5. IdentityOK(p)'
  BY <1>k DEF MovePublic, Goto, TypeOK, CallOK, PairOK, IdentityOK, Missing, Identity, MoveFile, Begun
<1> QED
  BY <1>1, <1>2, <1>3, <1>4, <1>5, QuietStep DEF CallOK

LEMMA LoadPairStep == ASSUME KeyInv, NEW p \in Processes, LoadPair(p)
                  PROVE  KeyInv'
<1> USE FilesFacts
<1>k. TypeOK /\ LegacyInv /\ CallOK(p)
  BY DEF KeyInv, CallInv
<1>1. Quiet(p)
  BY <1>k DEF LoadPair, Goto, Quiet, TypeOK, LegacyInv, Begun, Stored
<1>2. TypeOK'
  <2>1. files' \in [Files -> Contents] /\ separate' \in BOOLEAN /\ left' \subseteq Files
    BY <1>k DEF LoadPair, TypeOK
  <2>2. pc' \in [Processes -> Steps] /\ established' \in [Processes -> Contents]
    BY <1>k DEF LoadPair, Goto, TypeOK, Steps, Contents, Keys, Progress, Begun, Stored
  <2>3. writes' \in [Processes -> [Files -> Progress]]
    BY <1>k DEF LoadPair, Goto, TypeOK, Steps, Contents, Keys, Progress, Begun, Stored
  <2>4. pair' \in [Processes -> [Halves -> Contents]] /\ generated' \subseteq Processes
    BY <1>k DEF LoadPair, Goto, TypeOK, Steps, Contents, Keys, Progress, Begun, Stored
  <2> QED
    BY <2>1, <2>2, <2>3, <2>4 DEF TypeOK
<1>3. MoveOK(p)'
  BY <1>k DEF LoadPair, Goto, TypeOK, LegacyInv, CallOK, MoveOK, Missing, Begun, Stored
<1>4. PairOK(p)'
  BY <1>k DEF LoadPair, Goto, TypeOK, CallOK, PairOK, Missing, Begun, Stored
<1>5. IdentityOK(p)'
  BY <1>k DEF LoadPair, Goto, TypeOK, CallOK, PairOK, IdentityOK, Missing, Identity, Begun, Stored
<1> QED
  BY <1>1, <1>2, <1>3, <1>4, <1>5, QuietStep DEF CallOK

LEMMA GeneratedStep == ASSUME KeyInv, NEW p \in Processes, Generated(p)
                   PROVE  KeyInv'
<1> USE FilesFacts
<1>k. TypeOK /\ LegacyInv /\ CallOK(p)
  BY DEF KeyInv, CallInv
<1>1. Quiet(p)
  BY <1>k DEF Generated, Goto, Quiet, TypeOK, LegacyInv
<1>2. TypeOK'
  BY <1>k DEF Generated, Goto, TypeOK, Steps, Contents, Keys, Progress
<1>3. MoveOK(p)'
  BY <1>k DEF Generated, Goto, TypeOK, LegacyInv, CallOK, MoveOK, Missing
<1>4. PairOK(p)'
  BY <1>k DEF Generated, Goto, TypeOK, CallOK, PairOK, Missing
<1>5. IdentityOK(p)'
  BY <1>k DEF Generated, Goto, TypeOK, CallOK, PairOK, IdentityOK, Missing, Identity
<1> QED
  BY <1>1, <1>2, <1>3, <1>4, <1>5, QuietStep DEF CallOK

LEMMA RereadStep == ASSUME KeyInv, NEW p \in Processes, Reread(p)
                PROVE  KeyInv'
<1> USE FilesFacts
<1>k. TypeOK /\ LegacyInv /\ CallOK(p)
  BY DEF KeyInv, CallInv
<1>1. Quiet(p)
  BY <1>k DEF Reread, Goto, Quiet, TypeOK, LegacyInv, Stored
<1>2. TypeOK'
  <2>1. files' \in [Files -> Contents] /\ separate' \in BOOLEAN /\ left' \subseteq Files
    BY <1>k DEF Reread, TypeOK
  <2>2. pc' \in [Processes -> Steps] /\ established' \in [Processes -> Contents]
    BY <1>k DEF Reread, Goto, TypeOK, Steps, Contents, Keys, Progress, Stored
  <2>3. writes' \in [Processes -> [Files -> Progress]]
    BY <1>k DEF Reread, Goto, TypeOK, Steps, Contents, Keys, Progress, Stored
  <2>4. pair' \in [Processes -> [Halves -> Contents]] /\ generated' \subseteq Processes
    BY <1>k DEF Reread, Goto, TypeOK, Steps, Contents, Keys, Progress, Stored
  <2> QED
    BY <2>1, <2>2, <2>3, <2>4 DEF TypeOK
<1>3. MoveOK(p)'
  BY <1>k DEF Reread, Goto, TypeOK, LegacyInv, CallOK, MoveOK, Missing, Stored
<1>4. PairOK(p)'
  BY <1>k DEF Reread, Goto, TypeOK, CallOK, PairOK, Missing, Stored
<1>5. IdentityOK(p)'
  BY <1>k DEF Reread, Goto, TypeOK, CallOK, PairOK, IdentityOK, Missing, Identity, Stored
<1> QED
  BY <1>1, <1>2, <1>3, <1>4, <1>5, QuietStep DEF CallOK

LEMMA CompareStep == ASSUME KeyInv, NEW p \in Processes, Compare(p)
                 PROVE  KeyInv'
<1> USE FilesFacts
<1>k. TypeOK /\ LegacyInv /\ CallOK(p)
  BY DEF KeyInv, CallInv
<1>1. Quiet(p)
  BY <1>k DEF Compare, Goto, Quiet, TypeOK, LegacyInv, Begun
<1>2. TypeOK'
  <2>1. files' \in [Files -> Contents] /\ separate' \in BOOLEAN /\ left' \subseteq Files
    BY <1>k DEF Compare, TypeOK
  <2>2. pc' \in [Processes -> Steps] /\ established' \in [Processes -> Contents]
    BY <1>k DEF Compare, Goto, TypeOK, Steps, Contents, Keys, Progress, Begun
  <2>3. writes' \in [Processes -> [Files -> Progress]]
    BY <1>k DEF Compare, Goto, TypeOK, Steps, Contents, Keys, Progress, Begun
  <2>4. pair' \in [Processes -> [Halves -> Contents]] /\ generated' \subseteq Processes
    BY <1>k DEF Compare, Goto, TypeOK, Steps, Contents, Keys, Progress, Begun
  <2> QED
    BY <2>1, <2>2, <2>3, <2>4 DEF TypeOK
<1>3. MoveOK(p)'
  BY <1>k DEF Compare, Goto, TypeOK, LegacyInv, CallOK, MoveOK, Missing, Begun
<1>4. PairOK(p)'
  BY <1>k DEF Compare, Goto, TypeOK, CallOK, PairOK, Missing, Begun
<1>5. IdentityOK(p)'
  BY <1>k DEF Compare, Goto, TypeOK, CallOK, PairOK, IdentityOK, Missing, Identity, Begun
<1> QED
  BY <1>1, <1>2, <1>3, <1>4, <1>5, QuietStep DEF CallOK

LEMMA PublishedStep == ASSUME KeyInv, NEW p \in Processes, Published(p)
                   PROVE  KeyInv'
<1> USE FilesFacts
<1>k. TypeOK /\ LegacyInv /\ CallOK(p)
  BY DEF KeyInv, CallInv
<1>1. Quiet(p)
  BY <1>k DEF Published, Goto, Quiet, TypeOK, LegacyInv
<1>2. TypeOK'
  BY <1>k DEF Published, Goto, TypeOK, Steps, Contents, Keys, Progress
<1>3. MoveOK(p)'
  BY <1>k DEF Published, Goto, TypeOK, LegacyInv, CallOK, MoveOK, Missing
<1>4. PairOK(p)'
  BY <1>k DEF Published, Goto, TypeOK, CallOK, PairOK, Missing
<1>5. IdentityOK(p)'
  BY <1>k DEF Published, Goto, TypeOK, CallOK, PairOK, IdentityOK, Missing, Identity
<1> QED
  BY <1>1, <1>2, <1>3, <1>4, <1>5, QuietStep DEF CallOK

LEMMA AgreeStep == ASSUME KeyInv, NEW p \in Processes, Agree(p)
               PROVE  KeyInv'
<1> USE FilesFacts
<1>k. TypeOK /\ LegacyInv /\ CallOK(p)
  BY DEF KeyInv, CallInv
<1>1. Quiet(p)
  BY <1>k DEF Agree, Goto, Quiet, TypeOK, LegacyInv
<1>2. TypeOK'
  BY <1>k DEF Agree, Goto, TypeOK, Steps, Contents, Keys, Progress
<1>3. MoveOK(p)'
  BY <1>k DEF Agree, Goto, TypeOK, LegacyInv, CallOK, MoveOK, Missing
<1>4. PairOK(p)'
  BY <1>k DEF Agree, Goto, TypeOK, CallOK, PairOK, Missing
<1>5. IdentityOK(p)'
  BY <1>k DEF Agree, Goto, TypeOK, CallOK, PairOK, IdentityOK, Missing, Identity
<1> QED
  BY <1>1, <1>2, <1>3, <1>4, <1>5, QuietStep DEF CallOK

LEMMA CrashStep == ASSUME KeyInv, NEW p \in Processes, Crash(p)
               PROVE  KeyInv'
<1> USE FilesFacts
<1>k. TypeOK /\ LegacyInv /\ CallOK(p)
  BY DEF KeyInv, CallInv
<1>1. Quiet(p)
  BY <1>k DEF Crash, Goto, Quiet, TypeOK, LegacyInv
<1>2. TypeOK'
  BY <1>k DEF Crash, Goto, TypeOK, Steps, Contents, Keys, Progress
<1>3. MoveOK(p)'
  BY <1>k DEF Crash, Goto, TypeOK, LegacyInv, CallOK, MoveOK, Missing
<1>4. PairOK(p)'
  BY <1>k DEF Crash, Goto, TypeOK, CallOK, PairOK, Missing
<1>5. IdentityOK(p)'
  BY <1>k DEF Crash, Goto, TypeOK, CallOK, PairOK, IdentityOK, Missing, Identity
<1> QED
  BY <1>1, <1>2, <1>3, <1>4, <1>5, QuietStep DEF CallOK

-----------------------------------------------------------------------------
(* The step that removes a file: whoever takes it has written the copy.    *)

LEMMA DropLegacyStep == ASSUME KeyInv, NEW p \in Processes, DropLegacy(p)
                        PROVE  KeyInv'
<1> USE FilesFacts
<1>k. TypeOK /\ LegacyInv /\ OpenInv /\ CallInv
  BY DEF KeyInv
<1>1. /\ pc' = [pc EXCEPT ![p] = pc'[p]] /\ pc[p] = "drop" /\ pc'[p] \in {"load", "failed"}
      /\ files' \in [Files -> Contents] /\ files'["legacy"] \in {NoKey, Legacy}
      /\ \A f \in Files : f # "legacy" => files'[f] = files[f]
      /\ UNCHANGED <<separate, left, established, pair, writes, generated>>
  BY <1>k DEF DropLegacy, Goto, TypeOK, LegacyInv, Contents
<1>2. TypeOK'
  BY <1>1, <1>k DEF TypeOK, Steps
<1>3. LegacyInv' /\ OpenInv'
  BY <1>1, <1>k DEF LegacyInv, OpenInv
<1>4. CallInv'
  <2> SUFFICES ASSUME NEW q \in Processes PROVE CallOK(q)'
    BY DEF CallInv
  <2>1. Identity' = Identity
    BY <1>1 DEF Identity
  <2>2. CallOK(q)
    BY <1>k DEF CallInv
  <2>3. pc'[q] = IF q = p THEN pc'[p] ELSE pc[q]
    BY <1>1, <1>k DEF TypeOK
  <2> QED
    BY <1>1, <2>1, <2>2, <2>3 DEF CallOK, MoveOK, PairOK, IdentityOK, Missing
<1> QED
  BY <1>2, <1>3, <1>4 DEF KeyInv

LEMMA KeyStep == KeyInv /\ [Next]_vars => KeyInv'
<1> SUFFICES ASSUME KeyInv, [Next]_vars PROVE KeyInv'
  OBVIOUS
<1>1. CASE UNCHANGED vars
  <2>1. UNCHANGED <<separate, left, files, pc, established, pair, writes, generated>>
    BY <1>1 DEF vars
  <2> QED
    BY <2>1 DEF KeyInv, TypeOK, LegacyInv, OpenInv, CallInv, CallOK, MoveOK, PairOK, IdentityOK,
                Missing, Identity
<1>2. ASSUME NEW p \in Processes, Step(p) \/ Crash(p) PROVE KeyInv'
  BY <1>2, ReadEstablishedStep, ReadLegacyStep, SurveyStep, MovePrivateStep, MovePublicStep,
     DropLegacyStep, LoadPairStep, GeneratedStep, RereadStep, CompareStep, PublishedStep,
     AgreeStep, CrashStep, OpenStep, FillStep DEF Step
<1> QED
  BY <1>1, <1>2 DEF Next

-----------------------------------------------------------------------------
(* Theorems.                                                               *)

LEMMA KeyAlways == Spec => []KeyInv
BY InitInv, KeyStep, PTL DEF Spec

\* Every variable stays in its domain: in particular no file ever holds
\* anything but a key, nothing, or the emptiness before its contents.
THEOREM TypeCorrect == Spec => []TypeOK
<1>1. KeyInv => TypeOK
  BY DEF KeyInv
<1> QED
  BY KeyAlways, <1>1, PTL

\* loadOrCreate ends with the key on disk or not at all: all calls that can
\* sign hold the same private key, and the public key in their hands is the
\* identity of the ledger.
THEOREM AllSignersAgree == Spec => []SignersAgree
<1>1. KeyInv => SignersAgree
  BY FilesFacts DEF KeyInv, CallInv, CallOK, PairOK, IdentityOK, SignersAgree, Ready
<1> QED
  BY KeyAlways, <1>1, PTL

\* No step of a move, a creation or a crash loses the private key of the old
\* layout while one file still holds it.
THEOREM LegacyKeyIsKept == Spec => LegacyKeyKept
<1>1. ASSUME KeyInv, [Next]_vars PROVE [Kept => Kept']_vars
  <2> USE FilesFacts
  <2>k. TypeOK /\ LegacyInv /\ OpenInv /\ CallInv
    BY <1>1 DEF KeyInv
  <2>1. ASSUME Kept, UNCHANGED files PROVE Kept'
    BY <2>1 DEF Kept
  <2>2. ASSUME Kept, NEW p \in Processes, NEW f \in Files, Open(p, f) PROVE Kept'
    BY <2>2, <2>k DEF Kept, Open, TypeOK, LegacyInv
  <2>3. ASSUME Kept, NEW p \in Processes, NEW f \in Files, Fill(p, f) PROVE Kept'
    <3>1. f # "legacy" /\ files[f] = "empty" /\ files' = [files EXCEPT ![f] = Payload(p, f)]
      BY <2>3, <2>k DEF Fill, LegacyInv, OpenInv
    <3> QED
      BY <2>3, <2>k, <3>1 DEF Kept, TypeOK
  <2>4. ASSUME Kept, NEW p \in Processes, DropLegacy(p) PROVE Kept'
    <3>1. pc[p] = "drop" /\ CallOK(p)
      BY <2>4, <2>k DEF DropLegacy, Goto, CallInv
    <3>2. files["private"] = Legacy
      BY <3>1 DEF CallOK, MoveOK
    <3> QED
      BY <2>4, <2>k, <3>2 DEF DropLegacy, Kept, TypeOK
  <2>5. ASSUME Kept, NEW p \in Processes, Step(p) \/ Crash(p) PROVE Kept'
    <3>1. \/ UNCHANGED files
          \/ DropLegacy(p)
          \/ \E f \in Files : Open(p, f) \/ Fill(p, f)
      BY <2>5 DEF Step, Crash, ReadEstablished, ReadLegacy, Survey, MovePrivate, MovePublic,
                  MoveFile, LoadPair, Generated, Reread, Compare, Published, Agree
    <3> QED
      BY <2>5, <3>1, <2>1, <2>2, <2>3, <2>4
  <2> QED
    BY <1>1, <2>1, <2>5 DEF Next, vars
<1> QED
  BY KeyAlways, <1>1, PTL DEF Spec, LegacyKeyKept

-----------------------------------------------------------------------------
(* Where the keys come from.                                               *)

\* Every half on disk or in hand is the earlier installation's or was generated.
Provenance ==
  /\ \A f \in Files \ {"legacy"} : files[f] \in generated \cup {Legacy, NoKey, "empty"}
  /\ \A p \in Processes : \A f \in Halves :
       pair[p][f] \in generated \cup {Legacy, NoKey, "empty"}

\* What an earlier installation has left stays, or has been moved; and where it
\* has left nothing but its identity, nothing else of it comes up.
Remains ==
  /\ left \subseteq IF separate THEN Files ELSE Halves
  /\ \A f \in left \ {"legacy"} : files[f] = Legacy
  /\ "legacy" \notin left => files["legacy"] = NoKey
  /\ "legacy" \in left /\ files["legacy"] = NoKey => \A f \in Halves : files[f] # NoKey
  /\ left \subseteq {"verifier"} =>
       /\ \A f \in Halves : files[f] # Legacy
       /\ files["verifier"] = Legacy => "verifier" \in left

\* Nobody generates a pair over what an earlier installation has left whole.
GeneratedAnew == generated # {} /\ ~HalfLeft => left \subseteq {"verifier"}

\* What a call found, moves and writes.
OriginOK(p) ==
  /\ pc[p] \in {"survey", "move-private", "move-public", "drop"} => "legacy" \in left
  /\ pc[p] \in {"move-private", "move-public", "drop"} =>
       \A f \in Halves : writes[p][f] \in {"open", "done"} => files[f] # NoKey
  /\ pc[p] \in {"survey", "move-private", "move-public", "drop"} => pair[p]["public"] # NoKey
  /\ pc[p] = "move-private" => writes[p]["public"] \in {"none", "done"}
  /\ pc[p] = "drop" => writes[p]["public"] = "done"
  /\ pc[p] = "load" /\ "legacy" \in left => \A f \in Halves : files[f] # NoKey
  /\ pc[p] # "start" /\ "verifier" \in left => established[p] = Legacy
  /\ \A f \in Halves : writes[p][f] \in {"begun", "open"} => Moving(p) \/ p \in generated
  /\ pc[p] \in {"publishing", "agree", "ready"} /\ ~Missing(established[p]) =>
       established[p] = pair[p]["public"]

OriginInv == Provenance /\ Remains /\ GeneratedAnew /\ \A p \in Processes : OriginOK(p)

LEMMA OriginInit == Init => OriginInv
<1> SUFFICES ASSUME Init PROVE OriginInv
  OBVIOUS
<1>1. Provenance /\ GeneratedAnew
  BY FilesFacts DEF Init, Provenance, GeneratedAnew
<1>2. Remains
  BY FilesFacts DEF Init, Remains
<1>3. ASSUME NEW p \in Processes PROVE OriginOK(p)
  BY FilesFacts DEF Init, OriginOK, Missing, Moving
<1> QED
  BY <1>1, <1>2, <1>3 DEF OriginInv

LEMMA OriginOpen ==
  ASSUME KeyInv, OriginInv, NEW p \in Processes, NEW f \in Files, Open(p, f)
  PROVE  OriginInv'
<1> USE FilesFacts
<1>k. /\ TypeOK /\ LegacyInv
      /\ Provenance /\ Remains /\ GeneratedAnew /\ \A q \in Processes : OriginOK(q)
  BY DEF KeyInv, OriginInv
<1>0. /\ f # "legacy" /\ writes[p][f] = "begun"
      /\ UNCHANGED <<separate, left, pc, established, pair, generated>>
  BY <1>k DEF Open, LegacyInv
<1>1. \A g \in Files : \/ files'[g] = files[g]
                       \/ g = f /\ files[g] = NoKey /\ files'[g] = "empty"
  BY <1>k DEF Open, TypeOK
<1>2. \A q \in Processes : \A g \in Files :
        writes'[q][g] = writes[q][g]
          \/ (q = p /\ g = f /\ writes'[q][g] = "open" /\ files'[g] = "empty")
          \/ (q = p /\ g = f /\ writes'[q][g] = "exists")
  BY <1>k DEF Open, TypeOK
<1>3. Provenance'
  BY <1>k, <1>0, <1>1 DEF Provenance
<1>4. Remains'
  BY <1>k, <1>0, <1>1 DEF Remains
<1>5. GeneratedAnew'
  BY <1>k, <1>0 DEF GeneratedAnew, HalfLeft
<1>6. ASSUME NEW q \in Processes PROVE OriginOK(q)'
  <2>1. OriginOK(q)
    BY <1>k
  <2> QED
    BY <1>0, <1>1, <1>2, <2>1 DEF OriginOK, Missing, Moving
<1> QED
  BY <1>3, <1>4, <1>5, <1>6 DEF OriginInv

LEMMA OriginFill ==
  ASSUME KeyInv, OriginInv, NEW p \in Processes, NEW f \in Files, Fill(p, f)
  PROVE  OriginInv'
<1> USE FilesFacts
<1>k. /\ TypeOK /\ LegacyInv /\ OpenInv /\ CallOK(p)
      /\ Provenance /\ Remains /\ GeneratedAnew /\ \A q \in Processes : OriginOK(q)
  BY DEF KeyInv, CallInv, OriginInv
<1>0. /\ f # "legacy" /\ writes[p][f] = "open" /\ files[f] = "empty"
      /\ UNCHANGED <<separate, left, pc, established, pair, generated>>
  BY <1>k DEF Fill, LegacyInv, OpenInv
<1>1. \A g \in Files : files'[g] = IF g = f THEN Payload(p, f) ELSE files[g]
  BY <1>k DEF Fill, TypeOK
<1>2. \A q \in Processes : \A g \in Files :
        writes'[q][g] = IF q = p /\ g = f THEN "done" ELSE writes[q][g]
  BY <1>k DEF Fill, TypeOK
<1>o. OriginOK(p)
  BY <1>k
<1>3. /\ f = "verifier" => pc[p] = "publishing" /\ Payload(p, f) = pair[p]["public"]
      /\ f \in Halves => Payload(p, f) = IF Moving(p) THEN pair[p][f] ELSE p
  BY <1>k, <1>0 DEF CallOK, IdentityOK, Payload
<1>4. f \in Halves /\ Moving(p) => "legacy" \in left
  BY <1>o DEF OriginOK, Moving
<1>5. f \in Halves /\ ~Moving(p) => Payload(p, f) = p /\ p \in generated
  BY <1>0, <1>3, <1>o DEF OriginOK
<1>6. Payload(p, f) \in generated \cup {Legacy, NoKey, "empty"}
  BY <1>0, <1>3, <1>5, <1>k DEF Provenance
<1>7. Provenance'
  BY <1>6, <1>0, <1>1, <1>k DEF Provenance
<1>8. f \notin left
  BY <1>0, <1>k DEF Remains
<1>9. left \subseteq {"verifier"} => Payload(p, f) # Legacy
  <2>1. CASE f \in Halves
    BY <2>1, <1>4, <1>5
  <2>2. CASE f = "verifier"
    <3>1. Missing(pair[p]["public"]) \/ files["public"] = pair[p]["public"]
      BY <2>2, <1>3, <1>k DEF CallOK, PairOK
    <3> QED
      BY <2>2, <3>1, <1>3, <1>k DEF Missing, Remains
  <2> QED
    BY <2>1, <2>2, <1>0
<1>10. f \in Halves => Payload(p, f) # NoKey
  <2>1. f \in Halves /\ Moving(p) => pair[p][f] # NoKey
    BY <1>k, <1>o DEF CallOK, MoveOK, OriginOK, Moving
  <2> QED
    BY <2>1, <1>3
<1>11. Remains'
  BY <1>0, <1>1, <1>8, <1>9, <1>10, <1>k DEF Remains
<1>12. GeneratedAnew'
  BY <1>k, <1>0 DEF GeneratedAnew, HalfLeft
<1>13. ASSUME NEW q \in Processes PROVE OriginOK(q)'
  <2>1. OriginOK(q)
    BY <1>k
  <2> QED
    BY <1>0, <1>1, <1>2, <1>10, <2>1 DEF OriginOK, Missing, Moving
<1> QED
  BY <1>7, <1>11, <1>12, <1>13 DEF OriginInv

LEMMA OriginDrop ==
  ASSUME KeyInv, OriginInv, NEW p \in Processes, DropLegacy(p)
  PROVE  OriginInv'
<1> USE FilesFacts
<1>k. /\ TypeOK /\ CallOK(p)
      /\ Provenance /\ Remains /\ GeneratedAnew /\ \A q \in Processes : OriginOK(q)
  BY DEF KeyInv, CallInv, OriginInv
<1>1. /\ pc[p] = "drop" /\ pc'[p] \in {"load", "failed"}
      /\ \A q \in Processes : q # p => pc'[q] = pc[q]
      /\ files'["legacy"] \in {files["legacy"], NoKey}
      /\ \A f \in Files : f # "legacy" => files'[f] = files[f]
      /\ UNCHANGED <<separate, left, established, pair, writes, generated>>
  BY <1>k DEF DropLegacy, Goto, TypeOK
<1>2. \A f \in Halves : files[f] # NoKey
  BY <1>1, <1>k DEF CallOK, MoveOK, OriginOK
<1>3. Provenance' /\ GeneratedAnew'
  BY <1>k, <1>1 DEF Provenance, GeneratedAnew, HalfLeft
<1>4. Remains'
  BY <1>k, <1>1, <1>2 DEF Remains
<1>5. ASSUME NEW q \in Processes PROVE OriginOK(q)'
  <2>1. OriginOK(q)
    BY <1>k
  <2>2. CASE q = p
    BY <1>1, <1>2, <2>1, <2>2 DEF OriginOK, Missing, Moving
  <2>3. CASE q # p
    BY <1>1, <2>1, <2>3 DEF OriginOK, Missing, Moving
  <2> QED
    BY <2>2, <2>3
<1> QED
  BY <1>3, <1>4, <1>5 DEF OriginInv

\* Of a step that leaves the files alone only the call's own part is to be shown.
LEMMA OriginQuiet ==
  ASSUME OriginInv, NEW p \in Processes, Quiet(p), generated \subseteq generated', OriginOK(p)',
         GeneratedAnew', \A f \in Halves : pair'[p][f] \in generated' \cup {Legacy, NoKey, "empty"}
  PROVE  OriginInv'
<1>1. Provenance' /\ Remains'
  BY FilesFacts DEF OriginInv, Quiet, Provenance, Remains
<1>2. ASSUME NEW q \in Processes, q # p PROVE OriginOK(q)'
  <2>1. OriginOK(q)
    BY DEF OriginInv
  <2> QED
    BY <1>2, <2>1 DEF Quiet, OriginOK, Missing, Moving
<1> QED
  BY <1>1, <1>2 DEF OriginInv

\* The steps of one call that leave the files alone.
LEMMA OriginCall ==
  ASSUME KeyInv, OriginInv, NEW p \in Processes,
         \/ ReadEstablished(p) \/ ReadLegacy(p) \/ Survey(p) \/ MovePrivate(p) \/ MovePublic(p)
         \/ LoadPair(p) \/ Generated(p) \/ Reread(p) \/ Compare(p) \/ Published(p) \/ Agree(p)
         \/ Crash(p)
  PROVE  OriginInv'
<1> USE FilesFacts
<1>k. /\ TypeOK /\ LegacyInv /\ CallOK(p)
      /\ Provenance /\ Remains /\ GeneratedAnew /\ OriginOK(p)
  BY DEF KeyInv, CallInv, OriginInv
<1>g. generated' = generated /\ left' = left => GeneratedAnew'
  BY <1>k DEF GeneratedAnew, HalfLeft
<1>h. pair' = pair /\ generated \subseteq generated' =>
        \A f \in Halves : pair'[p][f] \in generated' \cup {Legacy, NoKey, "empty"}
  BY <1>k DEF Provenance
<1>1. CASE ReadEstablished(p)
  <2>1. Quiet(p) /\ generated \subseteq generated'
    BY <1>1, <1>k DEF ReadEstablished, Goto, Quiet, TypeOK, LegacyInv
  <2>2. OriginOK(p)'
    BY <1>1, <1>k DEF ReadEstablished, Goto, TypeOK, LegacyInv, CallOK, MoveOK, Remains, OriginOK, Missing,
       Moving, Identity
  <2> QED
    BY <2>1, <2>2, <1>1, <1>g, <1>h, OriginQuiet DEF ReadEstablished
<1>2. CASE ReadLegacy(p)
  <2>1. Quiet(p) /\ generated \subseteq generated'
    BY <1>2, <1>k DEF ReadLegacy, Goto, Quiet, TypeOK, LegacyInv
  <2>2. OriginOK(p)'
    BY <1>2, <1>k DEF ReadLegacy, Goto, TypeOK, LegacyInv, CallOK, MoveOK, Remains, OriginOK, Missing,
       Moving, Identity
  <2>3. \A f \in Halves : pair'[p][f] \in generated' \cup {Legacy, NoKey, "empty"}
    BY <1>2, <1>k DEF ReadLegacy, Goto, TypeOK, LegacyInv, Provenance
  <2> QED
    BY <2>1, <2>2, <2>3, <1>2, <1>g, OriginQuiet DEF ReadLegacy
<1>3. CASE Survey(p)
  <2>1. Quiet(p) /\ generated \subseteq generated'
    BY <1>3, <1>k DEF Survey, Goto, Quiet, TypeOK, LegacyInv, Distinct
  <2>2. OriginOK(p)'
    BY <1>3, <1>k DEF Survey, Goto, TypeOK, LegacyInv, CallOK, MoveOK, Remains, OriginOK, Missing,
       Moving, Identity, Distinct
  <2> QED
    BY <2>1, <2>2, <1>3, <1>g, <1>h, OriginQuiet DEF Survey
<1>4. CASE MovePrivate(p)
  <2>1. Quiet(p) /\ generated \subseteq generated'
    BY <1>4, <1>k DEF MovePrivate, Goto, Quiet, TypeOK, LegacyInv, MoveFile, Begun
  <2>2. OriginOK(p)'
    <3>1. /\ pc[p] = "move-private" /\ pc'[p] \in {"move-private", "move-public", "failed"}
          /\ UNCHANGED <<separate, left, files, established, pair, generated>>
      BY <1>4, <1>k DEF MovePrivate, MoveFile, Goto, TypeOK
    <3>2. /\ writes'[p]["public"] = writes[p]["public"]
          /\ \/ writes'[p]["private"] = writes[p]["private"]
             \/ writes'[p]["private"] = "begun" /\ pc'[p] = "move-private"
      BY <1>4, <1>k, <3>1 DEF MovePrivate, MoveFile, Goto, TypeOK, Begun
    <3>3. pc'[p] = "failed" => writes[p]["private"] = "exists"
      BY <1>4, <1>k, <3>1 DEF MovePrivate, MoveFile, Goto, TypeOK
    <3> QED
      BY <3>1, <3>2, <3>3, <1>k DEF OriginOK, Missing, Moving
  <2> QED
    BY <2>1, <2>2, <1>4, <1>g, <1>h, OriginQuiet DEF MovePrivate, MoveFile
<1>5. CASE MovePublic(p)
  <2>1. Quiet(p) /\ generated \subseteq generated'
    BY <1>5, <1>k DEF MovePublic, Goto, Quiet, TypeOK, LegacyInv, MoveFile, Begun
  <2>2. OriginOK(p)'
    BY <1>5, <1>k DEF MovePublic, Goto, TypeOK, LegacyInv, CallOK, MoveOK, Remains, OriginOK, Missing,
       Moving, Identity, MoveFile, Begun
  <2> QED
    BY <2>1, <2>2, <1>5, <1>g, <1>h, OriginQuiet DEF MovePublic, MoveFile
<1>6. CASE LoadPair(p)
  <2>1. Quiet(p) /\ generated \subseteq generated'
    BY <1>6, <1>k DEF LoadPair, Goto, Quiet, TypeOK, LegacyInv, Begun, Stored
  <2>2. OriginOK(p)'
    BY <1>6, <1>k DEF LoadPair, Goto, TypeOK, LegacyInv, CallOK, MoveOK, Remains, OriginOK, Missing,
       Moving, Identity, Begun, Stored
  <2>3. \A f \in Halves : pair'[p][f] \in generated' \cup {Legacy, NoKey, "empty"}
    BY <1>6, <1>k DEF LoadPair, Goto, TypeOK, Provenance, Stored
  <2>4. CASE generated' = generated
    BY <2>1, <2>2, <2>3, <2>4, <1>6, <1>g, OriginQuiet DEF LoadPair
  <2>5. CASE \E f \in Halves : files[f] = NoKey
    <3>1. pc[p] = "load" /\ left' = left
      BY <1>6 DEF LoadPair, Goto
    <3>2. "legacy" \notin left
      BY <2>5, <3>1, <1>k DEF OriginOK
    <3>3. ~HalfLeft => left \subseteq {"verifier"}
      BY <2>5, <3>2, <1>k DEF HalfLeft, Remains
    <3>4. GeneratedAnew'
      BY <3>1, <3>3 DEF GeneratedAnew, HalfLeft
    <3> QED
      BY <2>1, <2>2, <2>3, <3>4, OriginQuiet
  <2> QED
    BY <2>4, <2>5, <1>6 DEF LoadPair
<1>7. CASE Generated(p)
  <2>1. Quiet(p) /\ generated \subseteq generated'
    BY <1>7, <1>k DEF Generated, Goto, Quiet, TypeOK, LegacyInv
  <2>2. OriginOK(p)'
    BY <1>7, <1>k DEF Generated, Goto, TypeOK, LegacyInv, CallOK, MoveOK, Remains, OriginOK, Missing,
       Moving, Identity
  <2> QED
    BY <2>1, <2>2, <1>7, <1>g, <1>h, OriginQuiet DEF Generated
<1>8. CASE Reread(p)
  <2>1. Quiet(p) /\ generated \subseteq generated'
    BY <1>8, <1>k DEF Reread, Goto, Quiet, TypeOK, LegacyInv, Stored
  <2>2. OriginOK(p)'
    BY <1>8, <1>k DEF Reread, Goto, TypeOK, LegacyInv, CallOK, MoveOK, Remains, OriginOK, Missing,
       Moving, Identity, Stored
  <2>3. \A f \in Halves : pair'[p][f] \in generated' \cup {Legacy, NoKey, "empty"}
    BY <1>8, <1>k DEF Reread, Goto, TypeOK, LegacyInv, Provenance, Stored
  <2> QED
    BY <2>1, <2>2, <2>3, <1>8, <1>g, OriginQuiet DEF Reread
<1>9. CASE Compare(p)
  <2>1. Quiet(p) /\ generated \subseteq generated'
    BY <1>9, <1>k DEF Compare, Goto, Quiet, TypeOK, LegacyInv, Begun
  <2>2. OriginOK(p)'
    BY <1>9, <1>k DEF Compare, Goto, TypeOK, LegacyInv, CallOK, MoveOK, Remains, OriginOK, Missing,
       Moving, Identity, Begun
  <2> QED
    BY <2>1, <2>2, <1>9, <1>g, <1>h, OriginQuiet DEF Compare
<1>10. CASE Published(p)
  <2>1. Quiet(p) /\ generated \subseteq generated'
    BY <1>10, <1>k DEF Published, Goto, Quiet, TypeOK, LegacyInv
  <2>2. OriginOK(p)'
    BY <1>10, <1>k DEF Published, Goto, TypeOK, LegacyInv, CallOK, MoveOK, Remains, OriginOK, Missing,
       Moving, Identity
  <2> QED
    BY <2>1, <2>2, <1>10, <1>g, <1>h, OriginQuiet DEF Published
<1>11. CASE Agree(p)
  <2>1. Quiet(p) /\ generated \subseteq generated'
    BY <1>11, <1>k DEF Agree, Goto, Quiet, TypeOK, LegacyInv
  <2>2. OriginOK(p)'
    BY <1>11, <1>k DEF Agree, Goto, TypeOK, LegacyInv, CallOK, MoveOK, Remains, OriginOK, Missing,
       Moving, Identity
  <2> QED
    BY <2>1, <2>2, <1>11, <1>g, <1>h, OriginQuiet DEF Agree
<1>12. CASE Crash(p)
  <2>1. Quiet(p) /\ generated \subseteq generated'
    BY <1>12, <1>k DEF Crash, Goto, Quiet, TypeOK, LegacyInv
  <2>2. OriginOK(p)'
    BY <1>12, <1>k DEF Crash, Goto, TypeOK, LegacyInv, CallOK, MoveOK, Remains, OriginOK, Missing,
       Moving, Identity
  <2> QED
    BY <2>1, <2>2, <1>12, <1>g, <1>h, OriginQuiet DEF Crash
<1> QED
  BY <1>1, <1>2, <1>3, <1>4, <1>5, <1>6, <1>7, <1>8, <1>9, <1>10, <1>11, <1>12

LEMMA OriginAlways == Spec => []OriginInv
<1>1. KeyInv /\ OriginInv /\ [Next]_vars => OriginInv'
  <2> SUFFICES ASSUME KeyInv, OriginInv, [Next]_vars PROVE OriginInv'
    OBVIOUS
  <2>1. CASE UNCHANGED vars
    BY <2>1 DEF vars, OriginInv, Provenance, Remains, GeneratedAnew, HalfLeft, OriginOK,
       Missing, Moving
  <2>2. ASSUME NEW p \in Processes, Step(p) \/ Crash(p) PROVE OriginInv'
    BY <2>2, OriginOpen, OriginFill, OriginDrop, OriginCall DEF Step
  <2> QED
    BY <2>1, <2>2 DEF Next
<1> QED
  BY OriginInit, <1>1, KeyAlways, PTL DEF Spec

\* SignaturesVerify: unless a call generated a pair where a half of another one
\* was, left by an earlier installation or written by another call, whatever is
\* moved, raced or cut, no call that can sign does so with a key that the servers
\* of its ledger would not verify it with.
THEOREM SignaturesAreVerified == Spec => []SignaturesVerify
<1>1. KeyInv /\ OriginInv => SignaturesVerify
  <2> SUFFICES ASSUME KeyInv, OriginInv, ~HalfLeft, \A p, q \in generated : p = q,
                      NEW p \in Processes, Ready(p), ~Missing(pair[p]["private"]),
                      ~Missing(files[Identity])
               PROVE  files[Identity] = pair[p]["private"]
    BY DEF SignaturesVerify
  <2> USE FilesFacts
  <2>k. /\ TypeOK /\ CallOK(p)
        /\ Provenance /\ Remains /\ GeneratedAnew /\ OriginOK(p)
    BY DEF KeyInv, CallInv, OriginInv
  <2>1. pair[p]["private"] = files["private"]
    BY <2>k DEF CallOK, PairOK, Ready
  <2>2. CASE generated = {}
    BY <2>1, <2>2, <2>k DEF Provenance, Missing
  <2>3. CASE generated # {}
    <3>1. left \subseteq {"verifier"}
      BY <2>3, <2>k DEF GeneratedAnew
    <3>2. files["private"] \in generated
      BY <2>1, <3>1, <2>k DEF Provenance, Remains, Missing
    <3>3. files[Identity] # Legacy
      <4> SUFFICES ASSUME files[Identity] = Legacy PROVE FALSE
        OBVIOUS
      <4>1. Identity = "verifier" /\ "verifier" \in left
        BY <3>1, <2>k DEF Remains
      <4>2. pair[p]["public"] = Legacy
        BY <4>1, <2>k DEF OriginOK, Ready, Missing
      <4>3. files["public"] = Legacy
        BY <4>2, <2>k DEF CallOK, PairOK, Ready, Missing
      <4> QED
        BY <4>3, <3>1, <2>k DEF Remains
    <3>4. files[Identity] \in generated
      BY <3>3, <2>k DEF Provenance, Missing
    <3> QED
      BY <3>2, <3>4, <2>1
  <2> QED
    BY <2>2, <2>3
<1> QED
  BY <1>1, KeyAlways, OriginAlways, PTL
=============================================================================
