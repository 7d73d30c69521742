--------------------------- MODULE ExclusionLedger ---------------------------
(***************************************************************************)
(* ExclusionLedger.sol: the records of the adapters that left a vault's    *)
(* NAV, the snapshot of the share balances each record takes, and the      *)
(* claims on what is recovered.  A snapshot is lazy: `checkpoint` stores a *)
(* balance just before it first changes.  The share token itself           *)
(* (`balanceOf`, `totalSupply`, the vault's `_update`) is here too.  Vault *)
(* composes these operators into transactions.                             *)
(***************************************************************************)
EXTENDS Integers, Sequences, FiniteSets, FiniteSetsExt

CONSTANTS Holders,     \* accounts that hold shares
          NoHolder     \* address(0): the source of a mint, the target of a burn

ASSUME LedgerAssumption == IsFiniteSet(Holders) /\ NoHolder \notin Holders

VARIABLES
  balanceOf, totalSupply,  \* the share token
  exclusionCount,          \* ids are 1 .. exclusionCount
  exclusions,              \* id -> record
  claimed,                 \* id -> holder -> USDC
  heldUsdc,                \* what the ledger says it owes
  checkpoints,             \* holder -> sequence of [id, balance]
  snapshots,               \* the vault's flag: a record has been opened
  ledgerUsdc,              \* USDC.balanceOf(ledger)
  heldAt                   \* history: id -> the balances when it was opened

shareVars == <<balanceOf, totalSupply, checkpoints>>
recordVars == <<exclusionCount, exclusions, claimed, heldUsdc, snapshots, ledgerUsdc, heldAt>>

NoBalance == [h \in Holders |-> 0]

LedgerInit ==
  /\ balanceOf = NoBalance /\ totalSupply = 0
  /\ exclusionCount = 0 /\ exclusions = << >> /\ claimed = << >> /\ heldUsdc = 0
  /\ checkpoints = [h \in Holders |-> << >>]
  /\ snapshots = FALSE
  /\ ledgerUsdc = 0
  /\ heldAt = << >>

-----------------------------------------------------------------------------
(* Shares and checkpoints *)

\* (mutant: only the first change ever is stored)
Checkpointed_FirstOnly(h) ==
  IF checkpoints[h] # << >> THEN checkpoints[h]
  ELSE << [id |-> exclusionCount, balance |-> balanceOf[h]] >>

\* `_checkpoint`: the balance before the change, once per snapshot.
Checkpointed(h) ==
  LET cps == checkpoints[h]
  IN  IF cps # << >> /\ cps[Len(cps)].id >= exclusionCount THEN cps
      ELSE Append(cps, [id |-> exclusionCount, balance |-> balanceOf[h]])

\* The vault's `_update`: checkpoint both ends, then move the shares.
Update(from, to, value) ==
  /\ from # NoHolder => balanceOf[from] >= value
  /\ checkpoints' = [h \in Holders |->
       IF snapshots /\ h \in {from, to} THEN Checkpointed(h) ELSE checkpoints[h]]
  /\ balanceOf' = [h \in Holders |->
       IF h \notin {from, to} THEN balanceOf[h]
       ELSE balanceOf[h] + (IF h = to THEN value ELSE 0) - (IF h = from THEN value ELSE 0)]
  /\ totalSupply' = totalSupply + (IF from = NoHolder THEN value ELSE 0)
                                - (IF to = NoHolder THEN value ELSE 0)

\* (mutant: the search looks for a checkpoint strictly after the snapshot)
LowerBound_After(cps, id) ==
  LET find[lo \in 0 .. Len(cps), hi \in 0 .. Len(cps)] ==
        IF lo >= hi THEN lo
        ELSE LET mid == (lo + hi) \div 2
             IN  IF cps[mid + 1].id <= id THEN find[mid + 1, hi] ELSE find[lo, mid]
  IN  find[0, Len(cps)]

\* The binary search of `balanceAt`, positions counted from 0.
LowerBound(cps, id) ==
  LET find[lo \in 0 .. Len(cps), hi \in 0 .. Len(cps)] ==
        IF lo >= hi THEN lo
        ELSE LET mid == (lo + hi) \div 2
             IN  IF cps[mid + 1].id < id THEN find[mid + 1, hi] ELSE find[lo, mid]
  IN  find[0, Len(cps)]

balanceAt(h, id) ==
  LET lo == LowerBound(checkpoints[h], id)
  IN  IF lo = Len(checkpoints[h]) THEN balanceOf[h] ELSE checkpoints[h][lo + 1].balance

-----------------------------------------------------------------------------
(* Claims *)

claimable(id, h) ==
  LET e == exclusions[id]
      owed == (e.recovered * balanceAt(h, id)) \div e.snapshotSupply
  IN  IF e.snapshotSupply = 0 THEN 0
      ELSE IF owed > claimed[id][h] THEN owed - claimed[id][h] ELSE 0

\* `claim` over the records `ids`; `claimAll` is the claim over all of them.
Claim(ids, h) ==
  LET total == MapThenSumSet(LAMBDA id : claimable(id, h), ids)
  IN  /\ claimed' = [id \in DOMAIN claimed |->
           IF id \in ids THEN [claimed[id] EXCEPT ![h] = @ + claimable(id, h)] ELSE claimed[id]]
      /\ exclusions' = [id \in DOMAIN exclusions |->
           IF id \in ids THEN [exclusions[id] EXCEPT !.claimed = @ + claimable(id, h)]
           ELSE exclusions[id]]
      /\ heldUsdc' = heldUsdc - total
      /\ ledgerUsdc' = ledgerUsdc - total
      /\ UNCHANGED <<exclusionCount, snapshots, heldAt>>

\* What `returnSurplus` sends back to the vault.
Surplus == IF ledgerUsdc <= heldUsdc THEN 0 ELSE ledgerUsdc - heldUsdc

-----------------------------------------------------------------------------
(* Records *)

\* Position of i in the set S of registry indices, in increasing order.
RankIn(S, i) == Cardinality({j \in S : j <= i})

\* (mutant: a credit is not added to what the ledger owes)
Owed_Unchanged(amount) == heldUsdc

\* heldUsdc once `amount` is credited.
Owed(amount) == heldUsdc + amount

\* `open` for the entries `opened` in registry order, then `credit` of the USDC
\* that the vault moved here, then `finalize` of the records `closed`.
Book(opened, adapterOf, credit, closed) ==
  LET count == exclusionCount + Cardinality(opened)
      total == MapThenSumSet(LAMBDA id : credit[id], 1 .. count)
  IN  /\ exclusionCount' = count
      /\ exclusions' = [id \in 1 .. count |->
           IF id <= exclusionCount
           THEN [exclusions[id] EXCEPT !.recovered = @ + credit[id],
                                       !.finalized = @ \/ id \in closed]
           ELSE [adapter |-> adapterOf[CHOOSE i \in opened : RankIn(opened, i) = id - exclusionCount],
                 finalized |-> id \in closed, snapshotSupply |-> totalSupply,
                 recovered |-> credit[id], claimed |-> 0]]
      /\ claimed' = [id \in 1 .. count |-> IF id <= exclusionCount THEN claimed[id] ELSE NoBalance]
      /\ heldUsdc' = Owed(total)
      /\ ledgerUsdc' = ledgerUsdc + total
      /\ heldAt' = [id \in 1 .. count |-> IF id <= exclusionCount THEN heldAt[id] ELSE balanceOf]
      /\ snapshots' = (snapshots \/ opened # {})
=============================================================================
