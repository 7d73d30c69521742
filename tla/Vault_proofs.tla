----------------------------- MODULE Vault_proofs -----------------------------
(***************************************************************************)
(* The snapshots of the exclusion ledger, for any holders, adapters,       *)
(* amounts and number of records.                                          *)
(***************************************************************************)
EXTENDS Vault, FiniteSetTheorems, SequenceTheorems, WellFoundedInduction, TLAPS

\* The strict order on the naturals as a set of pairs.
Below == {p \in Nat \X Nat : p[1] < p[2]}

\* A nonempty set of naturals has a least element.
LEMMA LeastElement ==
  ASSUME NEW S \in SUBSET Nat, S # {}
  PROVE  \E m \in S : \A n \in S : m <= n
<1>1. IsWellFoundedOn(Below, Nat)
  <2>1. OpToRel(<, Nat) = Below
    BY Zenon DEF OpToRel, Below
  <2> QED
    BY <2>1, NatLessThanWellFounded, Zenon
<1>2. PICK m \in S : \A n \in S : ~(<<n, m>> \in Below)
  BY <1>1, WFMin, Zenon
<1>3. ASSUME NEW n \in S PROVE m <= n
  <2>1. n \in Nat /\ m \in Nat
    OBVIOUS
  <2>2. n < m => <<n, m>> \in Below
    BY <2>1 DEF Below
  <2> QED
    BY <1>2, <2>1, <2>2
<1> QED
  BY <1>3

-----------------------------------------------------------------------------
(* One holder's checkpoints *)

\* A sequence of checkpoints whose ids are at most n.
Cps(cps, n) ==
  /\ \E S : cps \in Seq(S)
  /\ \A k \in 1 .. Len(cps) : cps[k].id \in Nat /\ cps[k].id <= n

\* A checkpoint that was found is found again when another is appended.
LEMMA FoundStays ==
  ASSUME NEW n \in Nat, NEW cps, Cps(cps, n), NEW e, NEW live, NEW after, NEW id \in Nat,
         Later(cps, id) # {}
  PROVE  Recorded(Append(cps, e), after, id) = Recorded(cps, live, id)
<1> DEFINE more == Append(cps, e)
<1>1. PICK S : cps \in Seq(S)
  BY DEF Cps
<1>2. Len(cps) \in Nat
  BY <1>1, LenProperties
<1>3. /\ Len(more) = Len(cps) + 1
      /\ \A k \in 1 .. Len(cps) : more[k] = cps[k]
  <2>1. cps \in Seq(S \cup {e}) /\ e \in S \cup {e}
    BY <1>1, SeqMonotonic
  <2> HIDE DEF more
  <2> QED
    BY <2>1, AppendProperties DEF more
<1> HIDE DEF more
<1>4. Later(cps, id) \in SUBSET Nat
  BY <1>2 DEF Later
<1>5. PICK m \in Later(cps, id) : \A k \in Later(cps, id) : m <= k
  BY <1>4, LeastElement
<1>6. m \in 1 .. Len(cps) /\ m \in Later(more, id) /\ more[m] = cps[m]
  BY <1>2, <1>3 DEF Later
<1>7. \A k \in Later(more, id) : m <= k
  BY <1>2, <1>3, <1>5, <1>6 DEF Later
<1>8. (CHOOSE k \in Later(cps, id) : \A l \in Later(cps, id) : k <= l) = m
  BY <1>4, <1>5
<1>9. (CHOOSE k \in Later(more, id) : \A l \in Later(more, id) : k <= l) = m
  <2>1. Later(more, id) \in SUBSET Nat
    BY <1>2, <1>3 DEF Later
  <2> QED
    BY <2>1, <1>6, <1>7
<1>10. Recorded(cps, live, id) = cps[m].balance
  BY <1>8 DEF Recorded
<1>11. Recorded(more, after, id) = more[m].balance
  <2>1. Later(more, id) # {}
    BY <1>6
  <2> QED
    BY <1>9, <2>1 DEF Recorded
<1> QED
  BY <1>6, <1>10, <1>11 DEF more

\* With no checkpoint at or after a record, the appended one is found.
LEMMA AppendedFound ==
  ASSUME NEW n \in Nat, NEW cps, Cps(cps, n), NEW b, NEW after, NEW id \in Nat, id <= n,
         Later(cps, id) = {}
  PROVE  Recorded(Append(cps, [id |-> n, balance |-> b]), after, id) = b
<1> DEFINE e == [id |-> n, balance |-> b]
           more == Append(cps, e)
<1>1. PICK S : cps \in Seq(S)
  BY DEF Cps
<1>2. Len(cps) \in Nat
  BY <1>1, LenProperties
<1>3. /\ Len(more) = Len(cps) + 1
      /\ \A k \in 1 .. Len(cps) : more[k] = cps[k]
      /\ more[Len(cps) + 1] = e
  <2>1. cps \in Seq(S \cup {e}) /\ e \in S \cup {e}
    BY <1>1, SeqMonotonic
  <2> HIDE DEF more, e
  <2> QED
    BY <2>1, AppendProperties DEF more
<1>4. e.id = n /\ e.balance = b
  OBVIOUS
<1> HIDE DEF more, e
<1>5. Later(more, id) = {Len(cps) + 1}
  BY <1>2, <1>3, <1>4 DEF Later
<1>6. (CHOOSE k \in Later(more, id) : \A l \in Later(more, id) : k <= l) = Len(cps) + 1
  BY <1>2, <1>5
<1> QED
  BY <1>3, <1>4, <1>5, <1>6 DEF Recorded, more, e

-----------------------------------------------------------------------------
(* The inductive invariant *)

AdapterEntry == [adapter : Adapters, capBps : 1 .. MAX_BPS, active : BOOLEAN]

\* A snapshot is kept because the flag is up from the first record on, so no
\* balance moves without a checkpoint, and no checkpoint is ahead of the records.
SnapInv ==
  /\ exclusionCount \in Nat /\ snapshots \in BOOLEAN
  /\ exclusionCount > 0 => snapshots
  /\ adapters \in Seq(AdapterEntry)
  /\ \A h \in Holders : Cps(checkpoints[h], exclusionCount)
  /\ SnapshotKept

\* The invariant holds of a new vault, which has no record.
LEMMA SnapInit == Init => SnapInv
<1> SUFFICES ASSUME Init PROVE SnapInv
  OBVIOUS
<1>1. exclusionCount = 0 /\ snapshots = FALSE /\ adapters = << >>
      /\ \A h \in Holders : checkpoints[h] = << >>
  BY DEF Init, LedgerInit
<1>2. Cps(<< >>, 0)
  <2>1. << >> \in Seq({}) /\ Len(<< >>) = 0
    BY EmptySeq
  <2> QED
    BY <2>1 DEF Cps
<1>3. adapters \in Seq(AdapterEntry)
  BY <1>1, EmptySeq
<1>4. SnapshotKept
  BY <1>1 DEF SnapshotKept, Records
<1>5. \A h \in Holders : Cps(checkpoints[h], exclusionCount)
  BY <1>1, <1>2
<1>6. exclusionCount \in Nat /\ snapshots \in BOOLEAN /\ (exclusionCount > 0 => snapshots)
  <2>1. exclusionCount \in Nat /\ ~(exclusionCount > 0)
    BY <1>1
  <2>2. snapshots \in BOOLEAN
    BY <1>1, Zenon
  <2> QED
    BY <2>1, <2>2, Zenon
<1> QED
  BY <1>3, <1>4, <1>5, <1>6 DEF SnapInv

snapVars == <<balanceOf, checkpoints, exclusionCount, heldAt, snapshots>>

\* A step that moves no share and opens no record.
LEMMA FrameKeeps ==
  ASSUME SnapInv, UNCHANGED snapVars, adapters' \in Seq(AdapterEntry)
  PROVE  SnapInv'
BY DEF SnapInv, snapVars, SnapshotKept, Records

\* `checkpoint` before a change: what the records say of h is what they said.
LEMMA CheckpointKeeps ==
  ASSUME SnapInv, NEW h \in Holders, NEW after
  PROVE  /\ Cps(Checkpointed(h), exclusionCount)
         /\ \A id \in Records : Recorded(Checkpointed(h), after, id)
                               = Recorded(checkpoints[h], balanceOf[h], id)
<1> DEFINE cps == checkpoints[h]
           e == [id |-> exclusionCount, balance |-> balanceOf[h]]
<1>1. Cps(cps, exclusionCount) /\ exclusionCount \in Nat
  BY DEF SnapInv
<1>2. PICK S : cps \in Seq(S)
  BY <1>1 DEF Cps
<1>3. Len(cps) \in Nat /\ (cps # << >> => Len(cps) > 0)
  BY <1>2, LenProperties, EmptySeq
<1>4. CASE cps # << >> /\ cps[Len(cps)].id >= exclusionCount
  <2>1. Checkpointed(h) = cps
    BY <1>4 DEF Checkpointed
  <2>2. ASSUME NEW id \in Records PROVE Recorded(cps, after, id) = Recorded(cps, balanceOf[h], id)
    <3>1. Len(cps) \in 1 .. Len(cps) /\ cps[Len(cps)].id \in Nat /\ id \in Nat /\ id <= exclusionCount
      BY <1>1, <1>3, <1>4 DEF Cps, Records
    <3>2. Len(cps) \in Later(cps, id)
      BY <1>1, <1>4, <3>1 DEF Later
    <3> QED
      BY <3>2 DEF Recorded
  <2> QED
    BY <1>1, <2>1, <2>2
<1>5. CASE ~(cps # << >> /\ cps[Len(cps)].id >= exclusionCount)
  <2>1. Checkpointed(h) = Append(cps, e)
    BY <1>5 DEF Checkpointed
  <2>2. cps \in Seq(S \cup {e}) /\ e \in S \cup {e}
    BY <1>2, SeqMonotonic
  <2>3. e.id = exclusionCount
    OBVIOUS
  <2>4. Cps(Append(cps, e), exclusionCount)
    <3> HIDE DEF e, cps
    <3>1. /\ Append(cps, e) \in Seq(S \cup {e})
          /\ Len(Append(cps, e)) = Len(cps) + 1
          /\ \A k \in 1 .. Len(cps) : Append(cps, e)[k] = cps[k]
          /\ Append(cps, e)[Len(cps) + 1] = e
      BY <2>2, AppendProperties
    <3>2. ASSUME NEW k \in 1 .. Len(Append(cps, e))
          PROVE  Append(cps, e)[k].id \in Nat /\ Append(cps, e)[k].id <= exclusionCount
      <4>1. CASE k \in 1 .. Len(cps)
        BY <1>1, <3>1, <4>1 DEF Cps
      <4>2. CASE k = Len(cps) + 1
        BY <1>1, <2>3, <3>1, <4>2
      <4> QED
        BY <1>3, <3>1, <4>1, <4>2
    <3> QED
      BY <3>1, <3>2 DEF Cps
  <2>5. ASSUME NEW id \in Records
        PROVE  Recorded(Append(cps, e), after, id) = Recorded(cps, balanceOf[h], id)
    <3>1. id \in Nat /\ id <= exclusionCount
      BY <1>1 DEF Records
    <3>2. CASE Later(cps, id) # {}
      BY <1>1, <3>1, <3>2, FoundStays
    <3>3. CASE Later(cps, id) = {}
      <4>1. Recorded(Append(cps, e), after, id) = balanceOf[h]
        BY <1>1, <3>1, <3>3, AppendedFound
      <4> QED
        BY <3>3, <4>1 DEF Recorded
    <3> QED
      BY <3>2, <3>3
  <2> QED
    BY <2>1, <2>4, <2>5
<1> QED
  BY <1>4, <1>5

\* The vault's `_update`.
LEMMA MoveKeeps ==
  ASSUME SnapInv, NEW from, NEW to, NEW value, Update(from, to, value),
         UNCHANGED recordVars, UNCHANGED adapters
  PROVE  SnapInv'
<1>1. exclusionCount' = exclusionCount /\ snapshots' = snapshots /\ heldAt' = heldAt
  BY DEF recordVars
<1>2. ASSUME NEW h \in Holders
      PROVE  /\ Cps(checkpoints'[h], exclusionCount)
             /\ \A id \in Records : Recorded(checkpoints'[h], balanceOf'[h], id) = heldAt[id][h]
  <2>1. /\ Cps(checkpoints[h], exclusionCount)
        /\ \A id \in Records : Recorded(checkpoints[h], balanceOf[h], id) = heldAt[id][h]
    BY DEF SnapInv, SnapshotKept
  <2>2. CASE h \notin {from, to}
    <3>1. checkpoints'[h] = checkpoints[h] /\ balanceOf'[h] = balanceOf[h]
      BY <2>2 DEF Update
    <3> QED
      BY <2>1, <3>1
  <2>3. CASE h \in {from, to} /\ snapshots
    <3>1. checkpoints'[h] = Checkpointed(h)
      BY <2>3 DEF Update
    <3>2. /\ Cps(Checkpointed(h), exclusionCount)
          /\ \A id \in Records : Recorded(Checkpointed(h), balanceOf'[h], id)
                                = Recorded(checkpoints[h], balanceOf[h], id)
      BY CheckpointKeeps
    <3> QED
      BY <2>1, <3>1, <3>2
  <2>4. CASE h \in {from, to} /\ ~snapshots
    <3>1. checkpoints'[h] = checkpoints[h]
      BY <2>4 DEF Update
    <3>2. Records = {}
      BY <2>4 DEF SnapInv, Records
    <3> QED
      BY <2>1, <3>1, <3>2
  <2> QED
    BY <2>2, <2>3, <2>4 DEF SnapInv
<1> QED
  BY <1>1, <1>2 DEF SnapInv, SnapshotKept, Records

\* `open` of any number of records: nobody has a checkpoint for the new ones yet.
LEMMA BookKeeps ==
  ASSUME SnapInv, NEW opened \in SUBSET DOMAIN adapters, NEW adapterOf, NEW credit, NEW closed,
         Book(opened, adapterOf, credit, closed), UNCHANGED shareVars,
         adapters' \in Seq(AdapterEntry)
  PROVE  SnapInv'
<1> DEFINE count == exclusionCount + Cardinality(opened)
<1>1. /\ exclusionCount' = count
      /\ heldAt' = [id \in 1 .. count |-> IF id <= exclusionCount THEN heldAt[id] ELSE balanceOf]
      /\ snapshots' = (snapshots \/ opened # {})
  BY DEF Book
<1>2. checkpoints' = checkpoints /\ balanceOf' = balanceOf
  BY DEF shareVars
<1>3. IsFiniteSet(opened)
  <2>1. DOMAIN adapters = 1 .. Len(adapters) /\ Len(adapters) \in Nat
    BY LenProperties DEF SnapInv
  <2>2. IsFiniteSet(1 .. Len(adapters))
    BY <2>1, FS_Interval
  <2> QED
    BY <2>1, <2>2, FS_Subset
<1>4. Cardinality(opened) \in Nat /\ (Cardinality(opened) = 0 <=> opened = {})
  BY <1>3, FS_CardinalityType, FS_EmptySet
<1>5. exclusionCount \in Nat /\ count \in Nat /\ exclusionCount <= count
  BY <1>4 DEF SnapInv
<1> HIDE DEF count
<1>6. ASSUME NEW h \in Holders PROVE Cps(checkpoints[h], count)
  BY <1>5 DEF SnapInv, Cps
<1>7. ASSUME NEW id \in 1 .. count, NEW h \in Holders
      PROVE  Recorded(checkpoints[h], balanceOf[h], id) = heldAt'[id][h]
  <2>1. CASE id <= exclusionCount
    <3>1. id \in Records /\ heldAt'[id] = heldAt[id]
      BY <1>1, <1>5, <2>1 DEF Records
    <3> QED
      BY <3>1 DEF SnapInv, SnapshotKept
  <2>2. CASE ~(id <= exclusionCount)
    <3>1. heldAt'[id] = balanceOf
      BY <1>1, <2>2
    <3>2. Later(checkpoints[h], id) = {}
      <4>1. \A k \in 1 .. Len(checkpoints[h]) :
              checkpoints[h][k].id \in Nat /\ checkpoints[h][k].id <= exclusionCount
        BY DEF SnapInv, Cps
      <4> QED
        BY <1>5, <2>2, <4>1 DEF Later
    <3> QED
      BY <3>1, <3>2 DEF Recorded
  <2> QED
    BY <2>1, <2>2
<1>8. snapshots' \in BOOLEAN /\ (count > 0 => snapshots')
  <2>1. snapshots \in BOOLEAN /\ (exclusionCount > 0 => snapshots)
    BY DEF SnapInv
  <2>2. CASE opened = {}
    BY <1>1, <1>4, <1>5, <2>1, <2>2 DEF count
  <2>3. CASE opened # {}
    BY <1>1, <2>3
  <2> QED
    BY <2>2, <2>3
<1>9. SnapshotKept'
  BY <1>1, <1>2, <1>7 DEF SnapshotKept, Records
<1> QED
  BY <1>1, <1>2, <1>5, <1>6, <1>8, <1>9 DEF SnapInv

\* The common part of all the operations on records.
LEMMA SettleKeeps ==
  ASSUME SnapInv, NEW opened \in SUBSET DOMAIN adapters, NEW pull, NEW closing,
         Settle(opened, pull, closing), adapters' \in Seq(AdapterEntry)
  PROVE  SnapInv'
<1>1. UNCHANGED shareVars
  BY DEF Settle
<1>2. \E adapterOf, credit, closed : Book(opened, adapterOf, credit, closed)
  BY DEF Settle
<1>3. PICK adapterOf, credit, closed : Book(opened, adapterOf, credit, closed)
  BY <1>2
<1> QED
  BY <1>1, <1>3, BookKeeps

\* A sync opens records of active entries only.
LEMMA SyncKeeps ==
  ASSUME SnapInv, NEW eligible, NEW restore, Sync(eligible, restore)
  PROVE  SnapInv'
<1>1. ToOpen(eligible) \in SUBSET DOMAIN adapters
  BY DEF ToOpen, ActiveEntries
<1>2. adapters' \in Seq(AdapterEntry)
  BY DEF Sync, SnapInv
<1>3. \E pull, closing : Settle(ToOpen(eligible), pull, closing)
  BY DEF Sync
<1> QED
  BY <1>1, <1>2, <1>3, SettleKeeps

\* Changing one entry of the registry keeps its type.
LEMMA EntryType ==
  ASSUME SnapInv, NEW i \in DOMAIN adapters
  PROVE  /\ [adapters EXCEPT ![i].active = FALSE] \in Seq(AdapterEntry)
         /\ \A cap \in 1 .. MAX_BPS : [adapters EXCEPT ![i].capBps = cap] \in Seq(AdapterEntry)
<1>1. adapters \in Seq(AdapterEntry) /\ i \in 1 .. Len(adapters)
  BY LenProperties DEF SnapInv
<1>2. adapters[i] \in AdapterEntry
  BY <1>1, ElementOfSeq
<1>3. [adapters[i] EXCEPT !.active = FALSE] \in AdapterEntry
  BY <1>2 DEF AdapterEntry
<1>4. ASSUME NEW cap \in 1 .. MAX_BPS PROVE [adapters[i] EXCEPT !.capBps = cap] \in AdapterEntry
  BY <1>2 DEF AdapterEntry
<1> HIDE DEF AdapterEntry
<1>5. [adapters EXCEPT ![i] = [adapters[i] EXCEPT !.active = FALSE]] \in Seq(AdapterEntry)
  BY <1>1, <1>3, ExceptSeq
<1>6. ASSUME NEW cap \in 1 .. MAX_BPS
      PROVE  [adapters EXCEPT ![i] = [adapters[i] EXCEPT !.capBps = cap]] \in Seq(AdapterEntry)
  BY <1>1, <1>4, ExceptSeq
<1> QED
  BY <1>5, <1>6

-----------------------------------------------------------------------------
(* The steps *)

\* Deposits, mints, redemptions, withdrawals and transfers all go through `_update`.
LEMMA ShareStep == SnapInv /\ ShareTransactions => SnapInv'
<1> SUFFICES ASSUME SnapInv, ShareTransactions PROVE SnapInv'
  OBVIOUS
<1>1. ASSUME NEW h \in Holders, NEW assets, NEW shares, NEW nav, DepositAt(h, assets, shares, nav)
      PROVE  SnapInv'
  <2>1. Update(NoHolder, h, shares) /\ UNCHANGED recordVars /\ UNCHANGED adapters
    BY <1>1 DEF DepositAt, registryVars
  <2> QED
    BY <2>1, MoveKeeps
<1>2. ASSUME NEW h \in Holders, NEW assets, NEW shares, PayOut(h, assets, shares) PROVE SnapInv'
  <2>1. Update(h, NoHolder, shares) /\ UNCHANGED recordVars /\ UNCHANGED adapters
    BY <1>2 DEF PayOut, registryVars
  <2> QED
    BY <2>1, MoveKeeps
<1>3. ASSUME NEW h \in Holders, NEW to \in Holders, NEW n, transfer(h, to, n) PROVE SnapInv'
  <2>1. Update(h, to, n) /\ UNCHANGED recordVars /\ UNCHANGED adapters
    BY <1>3 DEF transfer, registryVars
  <2> QED
    BY <2>1, MoveKeeps
<1>4. ASSUME NEW h \in Holders, NEW n, deposit(h, n) \/ mint(h, n) PROVE SnapInv'
  BY <1>1, <1>4 DEF deposit, mint
<1>5. ASSUME NEW h \in Holders, NEW n, withdraw(h, n) \/ redeem(h, n) PROVE SnapInv'
  BY <1>2, <1>5 DEF withdraw, redeem
<1> QED
  BY <1>3, <1>4, <1>5 DEF ShareTransactions

\* Registry and emergency transactions only ever open new records.
LEMMA RegistryStep == SnapInv /\ RegistryTransactions => SnapInv'
<1> SUFFICES ASSUME SnapInv, RegistryTransactions PROVE SnapInv'
  OBVIOUS
<1> DEFINE same == adapters' = adapters
<1>1. ASSUME same PROVE adapters' \in Seq(AdapterEntry)
  BY <1>1 DEF SnapInv
<1>2. ASSUME NEW a \in Adapters, NEW cap, addAdapter(a, cap) PROVE SnapInv'
  <2>1. /\ cap \in 1 .. MAX_BPS
        /\ adapters' = Append(adapters, [adapter |-> a, capBps |-> cap, active |-> TRUE])
        /\ \E pull, closing : Settle({}, pull, closing)
    BY <1>2 DEF addAdapter
  <2>2. [adapter |-> a, capBps |-> cap, active |-> TRUE] \in AdapterEntry
    BY <2>1 DEF AdapterEntry
  <2>3. adapters' \in Seq(AdapterEntry)
    BY <2>1, <2>2, AppendProperties DEF SnapInv
  <2>4. {} \in SUBSET DOMAIN adapters
    OBVIOUS
  <2> QED
    BY <2>1, <2>3, <2>4, SettleKeeps
<1>3. ASSUME NEW a, NEW allowed, setAdapterAllowed(a, allowed) PROVE SnapInv'
  BY <1>3, SyncKeeps DEF setAdapterAllowed
<1>4. ASSUME NEW c, NEW allowed, setAdapterCodeHashAllowed(c, allowed) PROVE SnapInv'
  BY <1>4, SyncKeeps DEF setAdapterCodeHashAllowed
<1>5. ASSUME syncExclusions PROVE SnapInv'
  BY <1>5, SyncKeeps DEF syncExclusions
<1>6. ASSUME NEW i \in DOMAIN adapters, removeAdapter(i) PROVE SnapInv'
  <2>1. Settle({}, NothingPulled, {i}) /\ adapters' = [adapters EXCEPT ![i].active = FALSE]
    BY <1>6 DEF removeAdapter
  <2>2. {} \in SUBSET DOMAIN adapters /\ adapters' \in Seq(AdapterEntry)
    BY <2>1, EntryType
  <2> QED
    BY <2>1, <2>2, SettleKeeps
<1>7. ASSUME NEW i \in DOMAIN adapters, NEW cap, setAdapterCap(i, cap) PROVE SnapInv'
  <2>1. /\ cap \in 1 .. MAX_BPS
        /\ adapters' = [adapters EXCEPT ![i].capBps = cap]
        /\ UNCHANGED <<shareVars, recordVars>>
    BY <1>7 DEF setAdapterCap
  <2>2. UNCHANGED snapVars
    BY <2>1 DEF snapVars, shareVars, recordVars
  <2> QED
    BY <2>1, <2>2, EntryType, FrameKeeps
<1>8. ASSUME NEW i, NEW cap, setAdapterMaxExposure(i, cap) PROVE SnapInv'
  <2>1. UNCHANGED snapVars /\ same
    BY <1>8 DEF setAdapterMaxExposure, snapVars, shareVars, recordVars
  <2> QED
    BY <1>1, <2>1, FrameKeeps
<1>9. ASSUME NEW S, Drain(S) PROVE SnapInv'
  <2>1. same /\ \E pull, closing : Settle(ToOpen(EligibleNow), pull, closing)
    BY <1>9 DEF Drain
  <2>2. ToOpen(EligibleNow) \in SUBSET DOMAIN adapters
    BY DEF ToOpen, ActiveEntries
  <2> QED
    BY <1>1, <2>1, <2>2, SettleKeeps
<1>10. ASSUME NEW i, emergencyExcludeAdapter(i) PROVE SnapInv'
  BY <1>10, SyncKeeps DEF emergencyExcludeAdapter
<1>11. ASSUME NEW i \in DOMAIN adapters, forceRemoveAdapter(i) PROVE SnapInv'
  <2> DEFINE opened == IF ForceClosed(i) = {} /\ openExclusionOf[i] = 0 /\ totalSupply # 0
                       THEN {i} ELSE {}
  <2>1. /\ Settle(opened, NothingPulled, ForceClosed(i))
        /\ adapters' = [adapters EXCEPT ![i].active = FALSE]
    BY <1>11 DEF forceRemoveAdapter
  <2>2. opened \in SUBSET DOMAIN adapters
    OBVIOUS
  <2>3. adapters' \in Seq(AdapterEntry)
    BY <2>1, EntryType
  <2> HIDE DEF opened
  <2> QED
    BY <2>1, <2>2, <2>3, SettleKeeps
<1>12. ASSUME NEW i, NEW n, recoverRemovedAdapter(i, n) PROVE SnapInv'
  <2>1. same /\ \E pull, closing : Settle({}, pull, closing)
    BY <1>12 DEF recoverRemovedAdapter
  <2>2. {} \in SUBSET DOMAIN adapters
    OBVIOUS
  <2> QED
    BY <1>1, <2>1, <2>2, SettleKeeps
<1>13. ASSUME rebalance PROVE SnapInv'
  <2>1. UNCHANGED snapVars /\ same
    BY <1>13 DEF rebalance, snapVars, shareVars, recordVars, registryVars
  <2> QED
    BY <1>1, <2>1, FrameKeeps
<1>14. ASSUME NEW targets, adminRebalance(targets) PROVE SnapInv'
  <2>1. same /\ \E pull, closing : Settle(ToOpen(EligibleNow), pull, closing)
    BY <1>14 DEF adminRebalance
  <2>2. ToOpen(EligibleNow) \in SUBSET DOMAIN adapters
    BY DEF ToOpen, ActiveEntries
  <2> QED
    BY <1>1, <2>1, <2>2, SettleKeeps
<1>15. ASSUME emergencyWithdraw PROVE SnapInv'
  BY <1>9, <1>15 DEF emergencyWithdraw
<1>16. ASSUME NEW i, emergencyWithdrawAdapter(i) PROVE SnapInv'
  BY <1>9, <1>16 DEF emergencyWithdrawAdapter
<1> QED
  BY <1>2, <1>3, <1>4, <1>5, <1>6, <1>7, <1>8, <1>10, <1>11, <1>12, <1>13, <1>14, <1>15, <1>16
     DEF RegistryTransactions

\* Settings, claims and what happens outside the vault touch no share and no record count.
LEMMA OtherStep ==
  SnapInv /\ (SettingTransactions \/ LedgerTransactions \/ Environment) => SnapInv'
<1> SUFFICES ASSUME SnapInv, SettingTransactions \/ LedgerTransactions \/ Environment
             PROVE  UNCHANGED snapVars /\ adapters' = adapters
  BY FrameKeeps DEF SnapInv
<1> USE DEF snapVars, shareVars, recordVars, registryVars
<1>1. ASSUME OnlySettings PROVE UNCHANGED snapVars /\ adapters' = adapters
  BY <1>1 DEF OnlySettings
<1>2. CASE SettingTransactions
  BY <1>1, <1>2 DEF SettingTransactions, pauseDeposits, unpauseDeposits, SetPaused, retire,
     unretire, SetRetired, shutdownVault, restoreVault, setTvlCap, setPerDepositCap,
     setExitFeeBps, setMaxRebalanceBpsPerCall, OnlyParams
<1>3. ASSUME NEW ids, NEW h, Pay(ids, h) PROVE UNCHANGED snapVars /\ adapters' = adapters
  BY <1>3 DEF Pay, Claim, Unclaimed
<1>4. CASE LedgerTransactions
  <2>1. CASE returnSurplus
    BY <2>1 DEF returnSurplus, Unclaimed
  <2> QED
    BY <1>3, <1>4, <2>1 DEF LedgerTransactions, claim, claimAll
<1>5. CASE Environment
  <2>1. ASSUME NEW h, NEW n, Donate(h, n) PROVE UNCHANGED snapVars /\ adapters' = adapters
    BY <2>1 DEF Donate, Unclaimed
  <2>2. ASSUME NEW a, NEW n, VenuePosition(a, n) PROVE UNCHANGED snapVars /\ adapters' = adapters
    BY <2>2 DEF VenuePosition
  <2>3. ASSUME NEW a, NEW s, VenueChanges(a, s) PROVE UNCHANGED snapVars /\ adapters' = adapters
    BY <2>3 DEF VenueChanges
  <2>4. ASSUME NEW a, ViewsChange(a) PROVE UNCHANGED snapVars /\ adapters' = adapters
    BY <2>4 DEF ViewsChange
  <2>5. ASSUME IntervalPasses PROVE UNCHANGED snapVars /\ adapters' = adapters
    BY <1>1, <2>5 DEF IntervalPasses
  <2> QED
    BY <1>5, <2>1, <2>2, <2>3, <2>4, <2>5 DEF Environment, Earn, Lose
<1> QED
  BY <1>2, <1>4, <1>5

\* SnapshotKept: in every reachable state of a vault with any holders, adapters,
\* amounts and number of records, the checkpoints that `_update` writes lazily give
\* each holder, for each record, the balance they had when it was opened.
THEOREM SnapshotsKept == Spec => []SnapshotKept
<1>1. SnapInv /\ [Next]_vars => SnapInv'
  <2>1. ASSUME SnapInv, UNCHANGED vars PROVE SnapInv'
    BY <2>1, FrameKeeps DEF vars, snapVars, shareVars, recordVars, registryVars, SnapInv
  <2> QED
    BY <2>1, ShareStep, RegistryStep, OtherStep DEF Next
<1>2. SnapInv => SnapshotKept
  BY DEF SnapInv
<1> QED
  BY SnapInit, <1>1, <1>2, PTL DEF Spec
=============================================================================
