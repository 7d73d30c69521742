------------------------ MODULE RouterGovernance_proofs ------------------------
(***************************************************************************)
(* The safety of router governance for any receipts, governances and calls.*)
(* Inv adds to the checked invariants that scheduled calls are calls of    *)
(* Calls, that every receipt a governance applied is no younger than its   *)
(* lastAppliedRecordedAt (without which AppliedInOrder is not inductive)   *)
(* and that the set of proposers is finite.                                *)
(***************************************************************************)
EXTENDS RouterGovernance, FiniteSetTheorems, TLAPS

\* What has been applied is no younger than the governance's marker.
MarkerCovers ==
  \A i \in DOMAIN applied : RecordedAt(i) <= lastAppliedRecordedAt[applied[i].governance]

\* The part of the invariant about receipts and weights.
ReceiptInv ==
  /\ now \in Nat
  /\ DOMAIN receipts \subseteq Receipts
  /\ \A id \in DOMAIN receipts : receipts[id] \in Receipt /\ receipts[id].recordedAt <= now
  /\ lastAppliedRecordedAt \in [Governances -> Nat]
  /\ applied \in Seq(Entry)
  /\ \A i \in DOMAIN applied : applied[i].receipt \in DOMAIN receipts
  /\ burnt \subseteq DOMAIN receipts
  /\ votedWeightsActive \in BOOLEAN
  /\ acceptable \subseteq Vectors
  /\ MarkerCovers /\ AppliedInOrder /\ ReleasedIsApplied /\ ActiveIsLastApplied

\* The part about roles and the timelock.
RoleInv ==
  /\ now \in Nat
  /\ minDelay \in Nat /\ proposerCount \in Nat
  /\ pendingWeightSetterRotation.proposedAt \in Nat
  /\ IsFiniteSet(proposers)
  /\ FloorsHold

CallsTyped == \A operation \in pending : operation.call \in Calls

Inv == ReceiptInv /\ RoleInv /\ CallsTyped

recVars == <<now, receipts, burnt, lastAppliedRecordedAt, weights, votedWeightsActive, applied, acceptable>>
rolVars == <<now, minDelay, proposers, proposerCount, pendingWeightSetterRotation, routerAdmins>>

-----------------------------------------------------------------------------
(* The initial states *)

\* After the handover the invariant holds.
LEMMA InitInv == Init => Inv
<1> SUFFICES ASSUME Init PROVE Inv OBVIOUS
<1>1. ReceiptInv
  <2>1. acceptable \subseteq Vectors BY GovernanceAssumption DEF Init
  <2>2. applied \in Seq(Entry) /\ DOMAIN applied = {} /\ DOMAIN receipts = {} BY DEF Init
  <2>3. lastAppliedRecordedAt \in [Governances -> Nat] BY DEF Init
  <2>4. MarkerCovers /\ AppliedInOrder BY <2>2 DEF MarkerCovers, AppliedInOrder
  <2>5. ReleasedIsApplied BY <2>2 DEF ReleasedIsApplied
  <2>6. ActiveIsLastApplied BY DEF Init, ActiveIsLastApplied
  <2> QED BY <2>1, <2>2, <2>3, <2>4, <2>5, <2>6 DEF Init, ReceiptInv
<1>2. IsFiniteSet(proposers) /\ Cardinality(proposers) = 1
  BY FS_Singleton DEF Init
<1>3. RoleInv
  BY <1>2, GovernanceAssumption DEF Init, RoleInv, FloorsHold, NoRotation
<1>4. CallsTyped BY DEF Init, CallsTyped
<1> QED BY <1>1, <1>3, <1>4 DEF Inv

-----------------------------------------------------------------------------
(* Receipts and weights *)

\* A step that touches nothing of the receipts and weights keeps their part.
LEMMA ReceiptFrame == ReceiptInv /\ UNCHANGED recVars => ReceiptInv'
BY DEF ReceiptInv, recVars, MarkerCovers, AppliedInOrder, ReleasedIsApplied, ActiveIsLastApplied,
   RecordedAt, Receipt, Entry, NoVector

\* Recording a receipt.
LEMMA RecordKeeps ==
  ASSUME ReceiptInv, NEW id \in Receipts, NEW digest \in Digests, recordReceipt(id, digest)
  PROVE  ReceiptInv'
<1>1. /\ DOMAIN receipts' = DOMAIN receipts \cup {id}
      /\ receipts'[id] = [payloadDigest |-> digest, recordedAt |-> now, released |-> FALSE]
      /\ \A i \in DOMAIN receipts : receipts'[i] = receipts[i]
  BY DEF recordReceipt, isRecorded
<1>2. UNCHANGED <<now, burnt, lastAppliedRecordedAt, weights, votedWeightsActive, applied, acceptable>>
  BY DEF recordReceipt, weightVars
<1>3. id \notin DOMAIN receipts BY DEF recordReceipt, isRecorded
<1>4. \A i \in DOMAIN applied : RecordedAt(i)' = RecordedAt(i) /\ applied[i].receipt # id
  BY <1>1, <1>2, <1>3 DEF ReceiptInv, RecordedAt
<1>5. \A i \in DOMAIN receipts' : receipts'[i] \in Receipt /\ receipts'[i].recordedAt <= now
  <2>1. receipts'[id] \in Receipt /\ receipts'[id].recordedAt = now BY <1>1 DEF ReceiptInv, Receipt
  <2>2. receipts'[id].recordedAt <= now BY <2>1 DEF ReceiptInv
  <2>3. \A i \in DOMAIN receipts : receipts'[i] \in Receipt /\ receipts'[i].recordedAt <= now
    BY <1>1 DEF ReceiptInv
  <2> QED BY <1>1, <2>1, <2>2, <2>3
<1>6. MarkerCovers' /\ AppliedInOrder'
  BY <1>2, <1>4 DEF ReceiptInv, MarkerCovers, AppliedInOrder
<1>7. ReleasedIsApplied'
  BY <1>1, <1>2, <1>3, <1>4 DEF ReceiptInv, ReleasedIsApplied
<1> QED
  BY <1>1, <1>2, <1>5, <1>6, <1>7 DEF ReceiptInv, ActiveIsLastApplied, Entry, NoVector

\* What `releaseReceipt` does to the register.
LEMMA ReleaseEffect ==
  ASSUME ReceiptInv, NEW sender, NEW id, ReleaseReceipt(sender, id)
  PROVE  /\ id \in DOMAIN receipts /\ ~receipts[id].released
         /\ DOMAIN receipts' = DOMAIN receipts
         /\ receipts'[id].released
         /\ \A i \in DOMAIN receipts : receipts'[i] \in Receipt
                                       /\ receipts'[i].recordedAt = receipts[i].recordedAt
         /\ \A i \in DOMAIN receipts \ {id} : receipts'[i] = receipts[i]
BY DEF ReleaseReceipt, isRecorded, ReceiptInv, Receipt

\* Applying a receipt.
LEMMA ApplyKeeps ==
  ASSUME ReceiptInv, UNCHANGED <<now, acceptable>>,
         NEW g \in Governances, NEW id \in Receipts, NEW digest, NEW vector,
         applyReceipt(g, id, digest, vector)
  PROVE  ReceiptInv'
<1> DEFINE e == [governance |-> g, receipt |-> id, vector |-> vector]
<1>1. ReleaseReceipt(g, id) /\ vector \in Vectors /\ vector # NoVector
  BY GovernanceAssumption DEF applyReceipt, SetWeights, ReceiptInv, NoVector
<1>2. /\ id \in DOMAIN receipts /\ ~receipts[id].released
      /\ DOMAIN receipts' = DOMAIN receipts
      /\ receipts'[id].released
      /\ \A i \in DOMAIN receipts : receipts'[i] \in Receipt
                                    /\ receipts'[i].recordedAt = receipts[i].recordedAt
      /\ \A i \in DOMAIN receipts \ {id} : receipts'[i] = receipts[i]
  BY <1>1, ReleaseEffect
<1>3. e \in Entry /\ applied' = Append(applied, e) BY <1>1 DEF applyReceipt, Entry
<1>4. PICK n \in Nat : DOMAIN applied = 1 .. n /\ Len(applied) = n BY DEF ReceiptInv
<1>5. /\ applied' \in Seq(Entry) /\ DOMAIN applied' = 1 .. n + 1 /\ Len(applied') = n + 1
      /\ applied'[n + 1] = e
      /\ \A i \in 1 .. n : applied'[i] = applied[i]
  BY <1>3, <1>4 DEF ReceiptInv
<1>6. \A i \in 1 .. n : RecordedAt(i)' = RecordedAt(i) /\ applied[i].receipt # id
  <2>1. \A i \in 1 .. n : applied[i].receipt \in DOMAIN receipts BY <1>4 DEF ReceiptInv
  <2>2. \A i \in 1 .. n : receipts[applied[i].receipt].released
    BY <1>4, <2>1 DEF ReceiptInv, ReleasedIsApplied
  <2>3. \A i \in 1 .. n : RecordedAt(i)' = RecordedAt(i)
    BY <1>2, <1>5, <2>1 DEF RecordedAt
  <2> QED BY <1>2, <2>2, <2>3
<1>7. RecordedAt(n + 1)' = receipts[id].recordedAt BY <1>2, <1>5 DEF RecordedAt, e
<1>8. /\ lastAppliedRecordedAt' = [lastAppliedRecordedAt EXCEPT ![g] = receipts[id].recordedAt]
      /\ receipts[id].recordedAt > lastAppliedRecordedAt[g]
      /\ receipts[id].recordedAt \in Nat
  BY <1>2 DEF applyReceipt, Newer, ReceiptInv, Receipt
<1>9. \A i \in 1 .. n : /\ applied[i].governance \in Governances
                         /\ RecordedAt(i) \in Nat
                         /\ RecordedAt(i) <= lastAppliedRecordedAt[applied[i].governance]
  <2> TAKE i \in 1 .. n
  <2>1. applied[i] \in Entry /\ applied[i].receipt \in DOMAIN receipts BY <1>4 DEF ReceiptInv
  <2>2. receipts[applied[i].receipt].recordedAt \in Nat BY <2>1 DEF ReceiptInv, Receipt
  <2> QED BY <1>4, <2>1, <2>2 DEF ReceiptInv, MarkerCovers, Entry, RecordedAt
<1>10. /\ lastAppliedRecordedAt \in [Governances -> Nat]
       /\ lastAppliedRecordedAt' \in [Governances -> Nat]
  BY <1>8 DEF ReceiptInv
<1>11. MarkerCovers'
  <2> SUFFICES ASSUME NEW i \in 1 .. n + 1
               PROVE  RecordedAt(i)' <= lastAppliedRecordedAt'[applied'[i].governance]
    BY <1>5 DEF MarkerCovers
  <2>1. CASE i = n + 1 BY <2>1, <1>5, <1>7, <1>8, <1>10 DEF e
  <2>2. CASE i \in 1 .. n
    <3>1. RecordedAt(i)' = RecordedAt(i) /\ applied'[i] = applied[i] BY <2>2, <1>5, <1>6
    <3>2. CASE applied[i].governance = g BY <2>2, <3>1, <3>2, <1>8, <1>9, <1>10
    <3>3. CASE applied[i].governance # g BY <2>2, <3>1, <3>3, <1>8, <1>9, <1>10
    <3> QED BY <3>2, <3>3
  <2> QED BY <1>4, <2>1, <2>2
<1>12. AppliedInOrder'
  <2> SUFFICES ASSUME NEW i \in 1 .. n + 1, NEW j \in 1 .. n + 1, i < j,
                      applied'[i].governance = applied'[j].governance
               PROVE  RecordedAt(i)' < RecordedAt(j)'
    BY <1>5 DEF AppliedInOrder
  <2>1. i \in 1 .. n BY <1>4
  <2>2. RecordedAt(i)' = RecordedAt(i) /\ applied'[i] = applied[i] BY <2>1, <1>5, <1>6
  <2>3. CASE j = n + 1
    BY <2>1, <2>2, <2>3, <1>5, <1>7, <1>8, <1>9, <1>10 DEF e
  <2>4. CASE j \in 1 .. n
    <3>1. RecordedAt(j)' = RecordedAt(j) /\ applied'[j] = applied[j] BY <2>4, <1>5, <1>6
    <3> QED BY <2>1, <2>2, <2>4, <3>1, <1>4 DEF ReceiptInv, AppliedInOrder
  <2> QED BY <1>4, <2>3, <2>4
<1>13. burnt' = burnt /\ id \notin burnt
  BY <1>2 DEF applyReceipt, ReceiptInv, ReleasedIsApplied
<1>14. ReleasedIsApplied'
  <2>1. \A i \in DOMAIN receipts :
          receipts'[i].released <=> i \in burnt \/ \E k \in 1 .. n + 1 : applied'[k].receipt = i
    <3> SUFFICES ASSUME NEW i \in DOMAIN receipts
                 PROVE  receipts'[i].released <=> i \in burnt \/ \E k \in 1 .. n + 1 : applied'[k].receipt = i
      OBVIOUS
    <3>1. CASE i = id
      <4>1. n + 1 \in 1 .. n + 1 /\ applied'[n + 1].receipt = id BY <1>4, <1>5 DEF e
      <4> QED BY <3>1, <4>1, <1>2
    <3>2. CASE i # id
      <4>1. receipts[i].released <=> i \in burnt \/ \E k \in 1 .. n : applied[k].receipt = i
        BY <1>4 DEF ReceiptInv, ReleasedIsApplied
      <4>2. (\E k \in 1 .. n + 1 : applied'[k].receipt = i) <=> (\E k \in 1 .. n : applied[k].receipt = i)
        <5>1. ASSUME NEW k \in 1 .. n + 1, applied'[k].receipt = i
              PROVE  k \in 1 .. n /\ applied[k].receipt = i
          BY <5>1, <3>2, <1>4, <1>5 DEF e
        <5>2. ASSUME NEW k \in 1 .. n, applied[k].receipt = i
              PROVE  k \in 1 .. n + 1 /\ applied'[k].receipt = i
          BY <5>2, <1>4, <1>5
        <5> QED BY <5>1, <5>2
      <4> QED BY <3>2, <4>1, <4>2, <1>2
    <3> QED BY <3>1, <3>2
  <2>2. \A i, j \in 1 .. n + 1 : applied'[i].receipt = applied'[j].receipt => i = j
    <3> SUFFICES ASSUME NEW i \in 1 .. n + 1, NEW j \in 1 .. n + 1,
                        applied'[i].receipt = applied'[j].receipt
                 PROVE  i = j
      OBVIOUS
    <3>1. CASE i = n + 1 BY <3>1, <1>4, <1>5, <1>6 DEF e
    <3>2. CASE j = n + 1 BY <3>2, <1>4, <1>5, <1>6 DEF e
    <3>3. CASE i \in 1 .. n /\ j \in 1 .. n
      BY <3>3, <1>4, <1>5 DEF ReceiptInv, ReleasedIsApplied
    <3> QED BY <1>4, <3>1, <3>2, <3>3
  <2>3. \A i \in 1 .. n + 1 : applied'[i].receipt \notin burnt
    <3> TAKE i \in 1 .. n + 1
    <3>1. CASE i = n + 1 BY <3>1, <1>5, <1>13 DEF e
    <3>2. CASE i \in 1 .. n BY <3>2, <1>4, <1>5 DEF ReceiptInv, ReleasedIsApplied
    <3> QED BY <1>4, <3>1, <3>2
  <2> QED BY <2>1, <2>2, <2>3, <1>2, <1>5, <1>13 DEF ReleasedIsApplied
<1>15. ActiveIsLastApplied'
  <2>1. weights' = vector /\ votedWeightsActive' = TRUE BY DEF applyReceipt, SetWeights
  <2>2. applied' # << >> /\ applied'[Len(applied')].vector = vector BY <1>4, <1>5 DEF e
  <2> QED BY <2>1, <2>2, <1>1 DEF ActiveIsLastApplied, NoVector
<1>16. \A i \in 1 .. n + 1 : applied'[i].receipt \in DOMAIN receipts
  <2> TAKE i \in 1 .. n + 1
  <2>1. CASE i = n + 1 BY <2>1, <1>2, <1>5 DEF e
  <2>2. CASE i \in 1 .. n BY <2>2, <1>4, <1>5 DEF ReceiptInv
  <2> QED BY <1>4, <2>1, <2>2
<1>17. votedWeightsActive' \in BOOLEAN BY DEF applyReceipt, SetWeights
<1>18. \A i \in DOMAIN receipts : receipts'[i] \in Receipt /\ receipts'[i].recordedAt <= now
  BY <1>2 DEF ReceiptInv
<1> QED
  BY <1>2, <1>5, <1>10, <1>11, <1>12, <1>13, <1>14, <1>15, <1>16, <1>17, <1>18 DEF ReceiptInv

\* The timelock releases a receipt itself.
LEMMA BurnKeeps ==
  ASSUME ReceiptInv, UNCHANGED <<now, acceptable>>, NEW id, releaseReceipt(id)
  PROVE  ReceiptInv'
<1>1. /\ id \in DOMAIN receipts /\ ~receipts[id].released
      /\ DOMAIN receipts' = DOMAIN receipts
      /\ receipts'[id].released
      /\ \A i \in DOMAIN receipts : receipts'[i] \in Receipt
                                    /\ receipts'[i].recordedAt = receipts[i].recordedAt
      /\ \A i \in DOMAIN receipts \ {id} : receipts'[i] = receipts[i]
  BY ReleaseEffect DEF releaseReceipt
<1>2. /\ burnt' = burnt \cup {id}
      /\ UNCHANGED <<lastAppliedRecordedAt, weights, votedWeightsActive, applied>>
  BY DEF releaseReceipt, weightVars
<1>3. \A i \in DOMAIN applied : RecordedAt(i)' = RecordedAt(i) /\ applied[i].receipt # id
  <2>1. \A i \in DOMAIN applied : receipts[applied[i].receipt].released
    BY DEF ReceiptInv, ReleasedIsApplied
  <2> QED BY <1>1, <1>2, <2>1 DEF ReceiptInv, RecordedAt
<1>4. MarkerCovers' /\ AppliedInOrder'
  BY <1>2, <1>3 DEF ReceiptInv, MarkerCovers, AppliedInOrder
<1>5. ReleasedIsApplied'
  BY <1>1, <1>2, <1>3 DEF ReceiptInv, ReleasedIsApplied
<1>6. \A i \in DOMAIN receipts : receipts'[i] \in Receipt /\ receipts'[i].recordedAt <= now
  BY <1>1 DEF ReceiptInv
<1> QED
  BY <1>1, <1>2, <1>4, <1>5, <1>6 DEF ReceiptInv, ActiveIsLastApplied, Entry, NoVector

\* Dropping the active vector.
LEMMA ClearKeeps ==
  ASSUME ReceiptInv, UNCHANGED <<now, acceptable>>, NEW g, clearVotedWeights(g)
  PROVE  ReceiptInv'
<1>1. /\ UNCHANGED <<now, acceptable, receipts, burnt, lastAppliedRecordedAt, applied>>
      /\ weights' = NoVector /\ votedWeightsActive' = FALSE
  BY DEF clearVotedWeights, receiptVars
<1>2. ActiveIsLastApplied' BY <1>1 DEF ActiveIsLastApplied, NoVector
<1>3. MarkerCovers' /\ AppliedInOrder' /\ ReleasedIsApplied'
  BY <1>1 DEF ReceiptInv, MarkerCovers, AppliedInOrder, ReleasedIsApplied, RecordedAt
<1> QED BY <1>1, <1>2, <1>3 DEF ReceiptInv, Entry, Receipt

-----------------------------------------------------------------------------
(* Roles and the timelock *)

\* A step that touches no role and no delay keeps the part about them.
LEMMA RoleFrame ==
  RoleInv /\ UNCHANGED <<minDelay, proposers, proposerCount, pendingWeightSetterRotation, routerAdmins>>
  /\ now' \in Nat => RoleInv'
BY DEF RoleInv, FloorsHold

\* The hand-kept count follows the set of proposers.
LEMMA ProposerKeeps ==
  ASSUME RoleInv, now' = now, NEW account, NEW holds, setProposer(account, holds)
  PROVE  RoleInv'
<1>1. UNCHANGED <<minDelay, pendingWeightSetterRotation, routerAdmins>>
  BY DEF setProposer, roleVars
<1>2. IsFiniteSet(proposers) /\ proposerCount = Cardinality(proposers) /\ proposers # {}
      /\ proposerCount \in Nat
  BY DEF RoleInv, FloorsHold
<1>3. IsFiniteSet(proposers') /\ proposerCount' = Cardinality(proposers') /\ proposers' # {}
      /\ proposerCount' \in Nat
  <2>1. CASE holds
    <3>1. GrantProposer(account) BY <2>1 DEF setProposer
    <3>2. /\ IsFiniteSet(proposers \cup {account})
          /\ account \in proposers => Cardinality(proposers \cup {account}) = Cardinality(proposers)
          /\ account \notin proposers => Cardinality(proposers \cup {account}) = Cardinality(proposers) + 1
      BY <1>2, FS_AddElement
    <3> QED BY <1>2, <3>1, <3>2 DEF GrantProposer
  <2>2. CASE ~holds
    <3>1. RevokeProposer(account) BY <2>2 DEF setProposer
    <3>2. /\ IsFiniteSet(proposers \ {account})
          /\ account \in proposers => Cardinality(proposers \ {account}) = Cardinality(proposers) - 1
          /\ account \notin proposers => Cardinality(proposers \ {account}) = Cardinality(proposers)
      BY <1>2, FS_RemoveElement
    <3>3. CASE account \in proposers
      <4>1. proposerCount # 1 /\ proposers' = proposers \ {account} /\ proposerCount' = proposerCount - 1
        BY <3>1, <3>3 DEF RevokeProposer
      <4>2. Cardinality(proposers) # 0 BY <1>2, FS_EmptySet
      <4>3. Cardinality(proposers') # 0 /\ proposerCount' \in Nat BY <1>2, <3>2, <3>3, <4>1, <4>2
      <4>4. proposers' # {} BY <4>3, FS_EmptySet
      <4> QED BY <1>2, <3>2, <3>3, <4>1, <4>3, <4>4
    <3>4. CASE account \notin proposers
      <4>1. proposers' = proposers /\ proposerCount' = proposerCount BY <3>1, <3>4 DEF RevokeProposer
      <4> QED BY <1>2, <4>1
    <3> QED BY <3>3, <3>4
  <2> QED BY <2>1, <2>2
<1> QED BY <1>1, <1>3 DEF RoleInv, FloorsHold

\* The router keeps an admin.
LEMMA AdminKeeps ==
  ASSUME RoleInv, now' = now, NEW account, NEW holds, setRouterAdmin(account, holds)
  PROVE  RoleInv'
<1>1. UNCHANGED <<minDelay, proposers, proposerCount, pendingWeightSetterRotation>>
  BY DEF setRouterAdmin, timelockVars
<1>2. Cardinality({account}) = 1 BY FS_Singleton
<1>3. routerAdmins' # {}
  <2>1. CASE holds BY <2>1 DEF setRouterAdmin
  <2>2. CASE ~holds /\ account \in routerAdmins
    <3>1. Cardinality(routerAdmins) # 1 BY <2>2 DEF setRouterAdmin
    <3>2. routerAdmins # {account} BY <3>1, <1>2
    <3> QED BY <2>2, <3>2 DEF setRouterAdmin
  <2>3. CASE ~holds /\ account \notin routerAdmins BY <2>3 DEF setRouterAdmin, RoleInv, FloorsHold
  <2> QED BY <2>1, <2>2, <2>3
<1> QED BY <1>1, <1>3 DEF RoleInv, FloorsHold

-----------------------------------------------------------------------------
(* Every step *)

\* Whatever call the timelock makes.
LEMMA PerformKeeps ==
  ASSUME ReceiptInv, RoleInv, UNCHANGED <<now, acceptable>>, NEW c \in Calls, Perform(c)
  PROVE  ReceiptInv' /\ RoleInv'
<1>0. now \in Nat /\ now' \in Nat BY DEF RoleInv
<1>1. CASE c.name = "applyReceipt" /\ applyReceipt(c.governance, c.receipt, c.digest, c.vector)
  <2>1. c.governance \in Governances /\ c.receipt \in Receipts BY <1>1, GovernanceAssumption
  <2>2. ReceiptInv' BY <1>1, <2>1, ApplyKeeps
  <2>3. RoleInv' BY <1>0, <1>1, RoleFrame DEF applyReceipt, roleVars, timelockVars
  <2> QED BY <2>2, <2>3
<1>2. CASE c.name = "releaseReceipt" /\ releaseReceipt(c.receipt)
  <2>1. ReceiptInv' BY <1>2, BurnKeeps
  <2>2. RoleInv' BY <1>0, <1>2, RoleFrame DEF releaseReceipt, roleVars, timelockVars
  <2> QED BY <2>1, <2>2
<1>3. CASE c.name = "clearVotedWeights" /\ clearVotedWeights(c.governance)
  <2>1. ReceiptInv' BY <1>3, ClearKeeps
  <2>2. RoleInv' BY <1>0, <1>3, RoleFrame DEF clearVotedWeights, roleVars, timelockVars
  <2> QED BY <2>1, <2>2
<1>4. CASE c.name = "setReleaser" /\ setReleaser(c.account, c.holds)
  <2>1. ReceiptInv' BY <1>4, ReceiptFrame DEF setReleaser, recVars, weightVars
  <2>2. RoleInv' BY <1>0, <1>4, RoleFrame DEF setReleaser, roleVars, timelockVars
  <2> QED BY <2>1, <2>2
<1>5. CASE c.name = "setRouterAdmin" /\ setRouterAdmin(c.account, c.holds)
  <2>1. ReceiptInv' BY <1>5, ReceiptFrame DEF setRouterAdmin, recVars, receiptVars, weightVars
  <2>2. RoleInv' BY <1>5, AdminKeeps
  <2> QED BY <2>1, <2>2
<1>6. CASE c.name = "updateDelay" /\ updateDelay(c.delay)
  <2>1. ReceiptInv' BY <1>6, ReceiptFrame DEF updateDelay, recVars, receiptVars, weightVars
  <2>2. c.delay \in Nat BY <1>6, GovernanceAssumption
  <2>3. RoleInv' BY <1>0, <1>6, <2>2 DEF updateDelay, RoleInv, FloorsHold, roleVars
  <2> QED BY <2>1, <2>3
<1>7. CASE c.name = "setProposer" /\ setProposer(c.account, c.holds)
  <2>1. ReceiptInv' BY <1>7, ReceiptFrame DEF setProposer, recVars, receiptVars, weightVars
  <2>2. RoleInv' BY <1>7, ProposerKeeps
  <2> QED BY <2>1, <2>2
<1>8. CASE c.name = "executeWeightSetterRotation" /\ executeWeightSetterRotation(c.account)
  <2>1. ReceiptInv'
    BY <1>8, ReceiptFrame DEF executeWeightSetterRotation, recVars, receiptVars, weightVars
  <2>2. RoleInv'
    BY <1>0, <1>8 DEF executeWeightSetterRotation, NoRotation, RoleInv, FloorsHold, timelockVars
  <2> QED BY <2>1, <2>2
<1> QED BY <1>1, <1>2, <1>3, <1>4, <1>5, <1>6, <1>7, <1>8 DEF Perform

\* The invariant is inductive.
LEMMA StepInv == Inv /\ [Next]_vars => Inv'
<1> SUFFICES ASSUME Inv, [Next]_vars PROVE Inv' OBVIOUS
<1>0. ReceiptInv /\ RoleInv /\ CallsTyped /\ now \in Nat BY DEF Inv, RoleInv
<1>1. CASE Tick
  <2>1. now' = now + 1 /\ now' \in Nat BY <1>0, <1>1 DEF Tick
  <2>2. ReceiptInv'
    <3>1. UNCHANGED <<receipts, burnt, lastAppliedRecordedAt, weights, votedWeightsActive, applied, acceptable>>
      BY <1>1 DEF Tick, receiptVars, weightVars
    <3>2. \A id \in DOMAIN receipts : receipts[id] \in Receipt /\ receipts[id].recordedAt <= now + 1
      BY <1>0 DEF ReceiptInv, Receipt
    <3>3. MarkerCovers' /\ AppliedInOrder' /\ ReleasedIsApplied' /\ ActiveIsLastApplied'
      BY <1>0, <3>1 DEF ReceiptInv, MarkerCovers, AppliedInOrder, ReleasedIsApplied,
         ActiveIsLastApplied, RecordedAt, NoVector
    <3> QED BY <1>0, <2>1, <3>1, <3>2, <3>3 DEF ReceiptInv, Receipt, Entry
  <2>3. RoleInv' BY <1>0, <1>1, <2>1, RoleFrame DEF Tick, roleVars, timelockVars
  <2>4. CallsTyped' BY <1>0, <1>1 DEF Tick, CallsTyped
  <2> QED BY <2>2, <2>3, <2>4 DEF Inv
<1>2. CASE RegistryMoves
  <2>1. acceptable' \subseteq Vectors BY <1>2, GovernanceAssumption DEF RegistryMoves
  <2>2. UNCHANGED <<now, receipts, burnt, lastAppliedRecordedAt, weights, votedWeightsActive, applied>>
    BY <1>2 DEF RegistryMoves, receiptVars, weightVars
  <2>3. MarkerCovers' /\ AppliedInOrder' /\ ReleasedIsApplied' /\ ActiveIsLastApplied'
    BY <1>0, <2>2 DEF ReceiptInv, MarkerCovers, AppliedInOrder, ReleasedIsApplied,
       ActiveIsLastApplied, RecordedAt, NoVector
  <2>4. ReceiptInv' BY <1>0, <2>1, <2>2, <2>3 DEF ReceiptInv, Receipt, Entry
  <2>5. RoleInv' BY <1>0, <1>2, <2>2, RoleFrame DEF RegistryMoves, roleVars, timelockVars
  <2>6. CallsTyped' BY <1>0, <1>2 DEF RegistryMoves, CallsTyped
  <2> QED BY <2>4, <2>5, <2>6 DEF Inv
<1>3. ASSUME NEW id \in Receipts, NEW digest \in Digests, recordReceipt(id, digest)
      PROVE  Inv'
  <2>1. ReceiptInv' BY <1>0, <1>3, RecordKeeps
  <2>2. RoleInv' BY <1>0, <1>3, RoleFrame DEF recordReceipt, roleVars, timelockVars
  <2>3. CallsTyped' BY <1>0, <1>3 DEF recordReceipt, CallsTyped
  <2> QED BY <2>1, <2>2, <2>3 DEF Inv
<1>4. ASSUME NEW sender, NEW call \in Calls, NEW delay, schedule(sender, call, delay)
      PROVE  Inv'
  <2>1. ReceiptInv' BY <1>0, <1>4, ReceiptFrame DEF schedule, recVars, receiptVars, weightVars
  <2>2. RoleInv' BY <1>0, <1>4, RoleFrame DEF schedule, roleVars, timelockVars
  <2>3. CallsTyped' BY <1>0, <1>4 DEF schedule, CallsTyped
  <2> QED BY <2>1, <2>2, <2>3 DEF Inv
<1>5. ASSUME NEW operation \in pending, cancel(operation) PROVE Inv'
  <2>1. ReceiptInv' BY <1>0, <1>5, ReceiptFrame DEF cancel, recVars, receiptVars, weightVars
  <2>2. RoleInv' BY <1>0, <1>5, RoleFrame DEF cancel, roleVars, timelockVars
  <2>3. CallsTyped' BY <1>0, <1>5 DEF cancel, CallsTyped
  <2> QED BY <2>1, <2>2, <2>3 DEF Inv
<1>6. ASSUME NEW operation \in pending, execute(operation) PROVE Inv'
  <2>1. operation.call \in Calls BY <1>0 DEF CallsTyped
  <2>2. ReceiptInv' /\ RoleInv' BY <1>0, <1>6, <2>1, PerformKeeps DEF execute
  <2>3. CallsTyped' BY <1>0, <1>6 DEF execute, CallsTyped
  <2> QED BY <2>2, <2>3 DEF Inv
<1>7. ASSUME NEW sender, NEW newHolder, proposeWeightSetterRotation(sender, newHolder) PROVE Inv'
  <2>1. ReceiptInv'
    BY <1>0, <1>7, ReceiptFrame DEF proposeWeightSetterRotation, recVars, receiptVars, weightVars
  <2>2. RoleInv'
    BY <1>0, <1>7 DEF proposeWeightSetterRotation, RoleInv, FloorsHold, timelockVars
  <2>3. CallsTyped' BY <1>0, <1>7 DEF proposeWeightSetterRotation, CallsTyped
  <2> QED BY <2>1, <2>2, <2>3 DEF Inv
<1>8. ASSUME NEW sender, cancelWeightSetterRotation(sender) PROVE Inv'
  <2>1. ReceiptInv'
    BY <1>0, <1>8, ReceiptFrame DEF cancelWeightSetterRotation, recVars, receiptVars, weightVars
  <2>2. RoleInv'
    BY <1>0, <1>8 DEF cancelWeightSetterRotation, NoRotation, RoleInv, FloorsHold, timelockVars
  <2>3. CallsTyped' BY <1>0, <1>8 DEF cancelWeightSetterRotation, CallsTyped
  <2> QED BY <2>1, <2>2, <2>3 DEF Inv
<1>9. ASSUME NEW sender, NEW account, NEW holds, setRotator(sender, account, holds) PROVE Inv'
  <2>1. ReceiptInv' BY <1>0, <1>9, ReceiptFrame DEF setRotator, recVars, receiptVars, weightVars
  <2>2. RoleInv' BY <1>0, <1>9, RoleFrame DEF setRotator, timelockVars
  <2>3. CallsTyped' BY <1>0, <1>9 DEF setRotator, CallsTyped
  <2> QED BY <2>1, <2>2, <2>3 DEF Inv
<1>10. CASE UNCHANGED vars
  <2>1. ReceiptInv' BY <1>0, <1>10, ReceiptFrame DEF vars, recVars, receiptVars, weightVars
  <2>2. RoleInv' BY <1>0, <1>10, RoleFrame DEF vars, roleVars, timelockVars
  <2>3. CallsTyped' BY <1>0, <1>10 DEF vars, CallsTyped
  <2> QED BY <2>1, <2>2, <2>3 DEF Inv
<1> QED BY <1>1, <1>2, <1>3, <1>4, <1>5, <1>6, <1>7, <1>8, <1>9, <1>10 DEF Next

\* Only an executed rotation moves WEIGHT_SETTER_ROLE.
LEMMA OnlyRotationMovesSetter ==
  ASSUME [Next]_vars, weightSetters' # weightSetters
  PROVE  \E account : executeWeightSetterRotation(account) /\ UNCHANGED now
<1>1. ASSUME NEW operation \in pending, execute(operation)
      PROVE  \E account : executeWeightSetterRotation(account) /\ UNCHANGED now
  <2>1. CASE operation.call.name = "executeWeightSetterRotation"
             /\ executeWeightSetterRotation(operation.call.account)
    BY <1>1, <2>1 DEF execute
  <2>2. CASE ~(operation.call.name = "executeWeightSetterRotation"
               /\ executeWeightSetterRotation(operation.call.account))
    <3>1. weightSetters' = weightSetters
      BY <1>1, <2>2 DEF execute, Perform, applyReceipt, releaseReceipt, clearVotedWeights,
         setReleaser, setRouterAdmin, updateDelay, setProposer, roleVars
    <3> QED BY <3>1
  <2> QED BY <2>1, <2>2
<1> QED
  BY <1>1 DEF Next, vars, Tick, RegistryMoves, recordReceipt, schedule, cancel,
     proposeWeightSetterRotation, cancelWeightSetterRotation, setRotator, roleVars

-----------------------------------------------------------------------------
(* The theorems *)

\* Router governance keeps Inv.
LEMMA AlwaysInv == Spec => []Inv
BY InitInv, StepInv, PTL DEF Spec

\* Each governance applies receipts in the order they were recorded, however the
\* ready timelock operations are interleaved; a receipt is released exactly when
\* its vector was set (or the timelock released it); and the active vector of the
\* router is the one applied last.
THEOREM ReceiptsApplyInOrder ==
  Spec => [](TypeOK /\ AppliedInOrder /\ ReleasedIsApplied /\ ActiveIsLastApplied)
<1>1. Inv => TypeOK /\ AppliedInOrder /\ ReleasedIsApplied /\ ActiveIsLastApplied
  BY DEF Inv, ReceiptInv, RoleInv, TypeOK
<1> QED BY <1>1, AlwaysInv, PTL

\* The timelock never loses its last proposer nor the router its last admin, and
\* the hand-kept proposer count is exact.
THEOREM FloorsAlwaysHold == Spec => []FloorsHold
<1>1. Inv => FloorsHold BY DEF Inv, RoleInv
<1> QED BY <1>1, AlwaysInv, PTL

\* WEIGHT_SETTER_ROLE only moves to the target of a rotation proposed at least the
\* minimum delay ago, however early the execution was scheduled.
LEMMA RotationsGiveNotice == Spec => RotationGivesNotice
<1>1. Inv /\ [Next]_vars =>
        [weightSetters' # weightSetters =>
           /\ RotationPending
           /\ now - pendingWeightSetterRotation.proposedAt >= minDelay
           /\ weightSetters' = {pendingWeightSetterRotation.newHolder}]_vars
  <2> SUFFICES ASSUME Inv, [Next]_vars, weightSetters' # weightSetters
               PROVE  /\ RotationPending
                      /\ now - pendingWeightSetterRotation.proposedAt >= minDelay
                      /\ weightSetters' = {pendingWeightSetterRotation.newHolder}
    OBVIOUS
  <2>1. PICK account : executeWeightSetterRotation(account) BY OnlyRotationMovesSetter
  <2>2. now \in Nat /\ minDelay \in Nat /\ pendingWeightSetterRotation.proposedAt \in Nat
    BY DEF Inv, RoleInv
  <2>3. now - pendingWeightSetterRotation.proposedAt >= minDelay
    BY <2>1, <2>2 DEF executeWeightSetterRotation, NoticeGiven
  <2> QED BY <2>1, <2>3 DEF executeWeightSetterRotation
<1> QED BY <1>1, AlwaysInv, PTL DEF Spec, RotationGivesNotice

\* Whoever becomes weight setter holds no rotation role at that moment.
LEMMA SettersOutsideRotation == Spec => SetterOutsideRotation
<1>1. [Next]_vars =>
        [weightSetters' # weightSetters =>
           weightSetters' \cap ({Router} \cup rotators \cup executors) = {}]_vars
  <2> SUFFICES ASSUME [Next]_vars, weightSetters' # weightSetters
               PROVE  weightSetters' \cap ({Router} \cup rotators \cup executors) = {}
    OBVIOUS
  <2>1. PICK account : executeWeightSetterRotation(account) BY OnlyRotationMovesSetter
  <2> QED BY <2>1 DEF executeWeightSetterRotation, AllowedRotationTarget
<1> QED BY <1>1, PTL DEF Spec, SetterOutsideRotation

\* WEIGHT_SETTER_ROLE moves only with full notice, and never to an account that
\* could rotate it again (`executeWeightSetterRotation`).
THEOREM RotationsSafe == Spec => RotationSafe
BY RotationsGiveNotice, SettersOutsideRotation, PTL DEF RotationSafe
=============================================================================
