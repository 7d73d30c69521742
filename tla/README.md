# Robot Money: TLA+ specifications and proofs

These modules specify the smart contracts of Robot Money (`src/contracts/`) as state
machines. TLC checks them on small instances, TLAPS proves the main invariants for every
value of the constants. Definitions keep the names of the Solidity functions they
translate; `PROJECT.json` gives the source lines of each one.

## 1. The system

Two systems share the chain (Base) and the asset (USDC):

- **Vaults.** Three ERC-4626 vaults (rmUSDC, rmPROTO, rmRWA) invest deposits through
  adapters. `VaultRegistry` knows the vaults, their status and which of them the
  `PortfolioRouter` may use. The router splits one deposit over several vaults by a
  weight vector. `RouterGovernance` applies recommendations recorded in
  `ConsensusRecommendationReceipt`; a Safe governs through a timelock.
- **Gateway.** `RobotMoneyGateway` lets an owner authorise an agent to deposit
  its USDC into vaults for the owner, within a policy and a rolling budget. `rmpc` is the
  agent's client.

Off chain, a watchdog pauses the gateway on a breach, an indexer and an API serve an
explorer, and a dapp shows it.

| Component | State | Operations that change it | What makes it hard |
|---|---|---|---|
| Deposit window (`GatewayWindows`) | ring buffer, running total | accrue (prune, coalesce, grow, reuse), clear | wrap-around, rotation before growth, lazy pruning |
| Gateway | commitments, consents, owners, policies, roles, budgets, used payment ids, pause | commit, reveal, setPolicy, revokeAgent, grants, pause, depositTo | two owners racing for an agent, expiry, retries, vaults that misbehave |
| VaultRegistry | status, eligibility flags and count, linked router | register, retire, reactivate, setVaultStatus, setRouterEligible, migrate, setRouter | a count kept by hand, guards that read another contract |
| PortfolioRouter | voted and default vectors, caps | setWeights, setDefaultWeights, clear, caps, deposit, redeemFor | availability at deposit time, rounding, floors, custody |
| RouterGovernance, receipts, timelock | receipts, last applied, roles, scheduled calls, rotation | record, release, apply, clear, propose/cancel/execute rotation, schedule/execute | ready operations run in any order, roles move in between |
| USDC vault | shares, adapters, allowances, idle USDC, caps, flags | deposit, mint, withdraw, redeem, registry and emergency levers, rebalances | an adapter leaves NAV, breaks, pays in part, comes back |
| Exclusion ledger | records, checkpoints, claims | open, credit, finalize, checkpoint, claim, returnSurplus | a snapshot that is never written when it is taken |
| Governed upgrades | upgrade mode, implementation | upgrade, freeze | one-way freeze |
| rmpc write path | lock file, replay cache | submit, broadcast, wait, insert, remove | crash between broadcast and insert |
| Watchdog, indexer | block cursor, alerts, rows | cycle, alert, pause; index, walk back | reorganisations, retries, delivery before progress |
| Basket vaults, adapters | asset lists, swap routes | deposits with swaps, redemptions | external venues, 256-bit prices |

## 2. Modules

| Module | Models |
|---|---|
| `GatewayWindows` | `lib/GatewayWindows.sol` as operators on a ring-buffer record |
| `RollingCap` | abstract: the exact amount spent in each second of the window |
| `AgentWindow` | one agent's budget: deposits, ended registrations, the clock; implements `RollingCap` |
| `Gateway` | `RobotMoneyGateway.sol` with `AccessRoles.sol`; each agent's budget implements `AgentWindow` |
| `VaultRegistry` | `VaultRegistry.sol` |
| `RouterSplit` | the split of a deposit: availability rounds, shares, remainder leg |
| `PortfolioRouter` | composes registry, split and router: weights, deposits, redemptions |
| `RouterGovernance` | receipts, applying them, the weight-setter rotation, timelock, floors |
| `ExclusionLedger` | `ExclusionLedger.sol` and the share token's `_update`, as operators |
| `Vault` | composes the ledger with `RobotMoneyVault.sol` and `RobotMoneyVaultOps.sol` |
| `MC*` | constants for TLC |
| `*_proofs` | theorems |

Conventions. One action is one transaction that does not revert: a revert changes nothing,
so every `require` is a conjunct of the action. A contract call runs alone, and concurrency
is the order of transactions, which `Next` leaves open. Who may call is modelled where a
property depends on it (gateway, governance). In the vault every privileged call may happen
at any time, which allows more behaviours than the roles do. Definitions with an underscore
suffix (`Prune_NoWrap`) are mutants: plausible bugs, used by no action, that show that a
property is able to fail.

**Gateway.** `agents`, `agentOwner`, `hasRole`, the two admin counters, commitments and
consents are the contract's mappings. `depositTo` is one action: policy checks, the
idempotency mark, the accrual, the transfer from the agent, the approval, the vault's
deposit, and the custody comparison at the end. The destination vault is chosen by the
owner, so it may take less than it was approved and mint any number of shares to anybody.
Payment ids are tuples of the hashed fields. The time bounds are `MaxTime` and `MaxBlock`.

**Registry and router.** A vault is `Hooked` (has the deposit-halt hooks), `Codeless`
(no code at the address) or neither. `Gates` are vaults that open and close by themselves.
A quote may fail at some amounts and not at others; `Surviving` is the code's loop over
availability rounds.

**Governance.** The timelock holds a set of scheduled calls. `execute` runs any ready
one, in any order; its effect is the called function's, and a call that would revert
cannot be executed and stays ready. `RegistryMoves` changes the set of vectors the router accepts.

**Vault.** `adapters` is the registry array, where entries are deactivated and never
deleted. `openExclusionOf` maps an entry to its open record. `Settle` is the common part of
all the operations that open, credit and close records. `venue` is the state of the protocol
behind an adapter: *open*; *full* (hands supply back); *short* (pays at most `ShortLimit` at
once); *closed* (refuses supply and withdrawals, but reports its balance); *broken* (cannot
be read either). `heldAt` is a history variable: the real balances at the moment a record
opened, against which the lazy checkpoints are compared.

## 3. Runs

| Run | Distinct states | Question |
|---|---|---|
| `AgentWindow` | 27,790 | Is the ring buffer the exact rolling window? |
| `GatewayLifecycle` | 223,256 | Do owner, policy and role agree, is a live agent safe from takeover, does a consent serve once, do the role tiers and floors hold? |
| `GatewayDeposit` | 209,472 | Does nothing stay in the gateway, is an intent paid once, do shares reach the owner, is the budget exact? |
| `RouterCounts` | 41,832 | Do the eligible count and the vaults' halt flags follow the registry with two routers? |
| `RouterInterlock` | 49,280 | Does the default vector span the eligible vaults with one router; is every exit open? |
| `RouterDeposit` | 65,584 | Is the split exact, proportional and only into open vaults, with floors honoured? |
| `RouterRelink` | violation | Does blocking the unlink prevent a stale default vector? No: see section 6. |
| `GovernanceReceipts` | 923,632 | Are receipts applied in order and once, and is the active vector the last applied? |
| `GovernanceRoles` | 588,936 | Does a rotation give notice and stay outside the rotation roles; do the floors hold? |
| `VaultExclusions` | 85,480 | Do snapshots, claims and recoveries survive every order of share movements and record changes? |
| `VaultShares` | 96,012 | Does rounding favour those who stay, does routing keep caps and waste no room, is maxWithdraw honest? |
| `VaultLevers` | 137,664 | Is the exit open under every lever, and does what a broken adapter pays reach its record? |

### Bounds

- `AgentWindow`: a window of 3 seconds and 9 seconds of clock, so that the ring fills,
  wraps, is rotated with every head position, grows and is reused; amounts and caps
  leave both accepted and refused deposits. Length 3 is the smallest with a middle slot.
- `GatewayLifecycle`: two owners, one agent, a short and a long policy, five seconds and
  five blocks: one full expiry with a replacement and a second generation of commitments.
  `GatewayDeposit`: two vaults, a budget that is raised and lowered between deposits, and
  a clock longer than two windows.
- `RouterCounts` and `RouterRelink`: two routers, needed for a relink. `RouterDeposit`:
  three vaults, so that dropping one leg changes the shares of two others.
- `GovernanceReceipts`: two receipts and two scheduled operations at once give both
  execution orders; a wrong digest and a set of acceptable vectors that shrinks give the
  refusals. `GovernanceRoles`: a delay of 2 that can shrink to 1, so an execution
  scheduled under one delay meets another.
- The vault's features are spread over three runs, since together they exceed TLC's
  reach. `VaultExclusions` has two holders, two registry entries (the second is a re-add
  of the same adapter) and two records, the least that lets a checkpoint skip a record.
  `VaultShares` has two adapters and scales the basis points to 4, so that rounding
  happens at amounts of 1 to 4. `VaultLevers` has every lever and one adapter. The virtual
  share offset is 1 here and 10^18 in the code: the larger rounding error is in the model.
  `MaxEntries`, `MaxRecords`, `MaxMoney` and `MaxShares` only cut off longer histories.

Deadlock is checked except in the vault runs, where `MaxRecords` and the other bounds
may disable everything that moves; in the contracts, too, nobody has to act.

### Fairness

None is assumed. The properties so far are safety properties: the contracts act only when
called and promise no progress. Where an availability matters ("a holder can always
exit"), it is an invariant: in every reachable state the call would succeed
(`ExitNeverBlocked`, `ExitAlwaysOpen`, `MaxWithdrawHonoured`).

## 4. Proofs

| Theorem | Statement | Inductive invariant |
|---|---|---|
| `AgentWindow_proofs!WindowSafe` | entries ordered, storage bounded, `WindowBufferFull` unreachable | `WindowInv`: type, order, span below one lap, capacity, `now > WINDOW_SECONDS` |
| `AgentWindow_proofs!WindowPlateaus` | storage grows only when every slot is live | from `WindowInv` |
| `Gateway_proofs!GatewaySafe` | registration records agree, roles disjoint, admin floors | `GatewayInv`: type, `RolesInv` (finite role sets, exact counters), consistency |
| `Gateway_proofs!LiveOwnerStays` | no takeover of a live registration | from `GatewayInv` |
| `PortfolioRouter_proofs!RegistrySafe` | count and halt flags follow the registry, any number of routers | `RegistryInv`: the properties and "an unregistered vault is not eligible" |
| `PortfolioRouter_proofs!InterlockHolds` | one router: the default vector names exactly the eligible vaults; no Retired vault is eligible | `RouterInv`: also "the router stays linked" |
| `RouterGovernance_proofs!ReceiptsApplyInOrder` | order, at most once, released means applied, active is last applied | `ReceiptInv`: with `MarkerCovers`, the marker is at least every applied receipt's time |
| `RouterGovernance_proofs!FloorsAlwaysHold` | proposer count exact, a proposer and a router admin remain | `RoleInv` |
| `RouterGovernance_proofs!RotationsSafe` | the setter role moves only after full notice, to an account without a rotation role | from `RoleInv` |
| `Vault_proofs!SnapshotsKept` | every holder's balance at every record is what the lazy checkpoints say | `SnapInv`: no checkpoint is ahead of the records, the `snapshots` flag is up once a record exists, registry type |

**The window.** Coalescing keeps one entry per second, so the ordered entries that survive
`_prune` are at most `WINDOW_SECONDS`; a pigeonhole argument on increasing timestamps
(`CountBound`) bounds the count. When every slot is live and the last entry is older than
the current second, one slot is still below the limit. That is why the revert is unreachable.
`RelinearizeFacts` shows that three reversals are a rotation, for every head.

**The snapshots.** A record copies no balances; `_update` stores a balance just before it
first changes after the record. `SnapInv` says why that is enough. The flag is up from the
first record on, so no balance moves unrecorded. No checkpoint id exceeds `exclusionCount`,
so a new record has none at or after it and reads the live balance (`BookKeeps`). A later
append is behind the checkpoint that a record already found (`FoundStays`), or becomes the
one it finds (`AppendedFound`). The proof reads the checkpoints with `Recorded`, the first
checkpoint at or after the record; that the code's binary search finds the same one is
model-checked through `ClaimsProRata`.

**The interlock.** The length guard alone does not imply that the vector names the right
vaults. It does together with the invariant: the vector spans the eligible set before, and
a toggle changes the count by one, so the guard refuses every effective toggle; only
`migrateEligibility` changes both, in one transaction. The proof needs the router to stay
linked. `InterlockHolds` therefore assumes one router, and `RouterRelink` shows why.

**The receipts.** `AppliedInOrder` is not inductive without the fact that the marker
dominates the log. `ReleasedIsApplied` makes "at most once" independent of the clock.

Assumptions on constants are the named `ASSUME`s of the modules: finiteness of the vault
and holder sets, disjoint kinds of addresses, natural-number parameters and
`Start > WINDOW_SECONDS` (a block timestamp is far past one window). TLC evaluates all of
them on its instances.

The type invariants of these modules are part of the theorems; TLC checks the vault's.

**Only model-checked.** `AdmitsExactly` and the refinement of
`RollingCap` (sums over recursive functions need induction over data, which the installed
provers cannot instantiate); the router's split properties for the same reason;
`ConsentUsedOnce`, the deposit properties of the gateway; everything about the vault.

## 5. Not modelled

- Upgrade entry points, gas floors, events, share allowances, URIs, the submitter list.
- Vault: setters of fee recipient, quarantine, registry and rebalance interval; the sweep
  of foreign tokens; the "unbounded" cap sentinel. An adapter in `Vault` pays what it is
  asked or reverts, as the lending adapters do; adapters that pay less are out.
- `setDefaultWeights` of the governance contract only forwards to the router's.
- 256-bit overflow: the contracts use checked arithmetic and the amounts are far below.
- Price arithmetic, swap adapters and baskets; the read commands of `rmpc`; API, dapp,
  publishing tools, logging, deployment scripts (the states they leave are the `Init`s).

## 6. Disagreements with the documentation

- `VaultRegistry.setRouter` blocks the link to `address(0)` to prevent "unlink → revoke
  eligibility → re-link". Linking another router and back is not blocked and has the same
  result (`RouterRelink`). With one router the promise holds (`InterlockHolds`).
- `IGateway.validUntil` says deposits revert "at/after" the second; `depositTo` accepts the
  second itself. The model follows the code.
- `RouterGovernance` says an older receipt cannot become active after a newer one. That
  holds within one governance contract (`AppliedInOrder`); a replacement starts with an
  empty marker.
- `RobotMoneyVault.initialize` documents `tvlCap` "0 = no cap"; `_maxDepositAt` treats 0 as
  closed. The model follows the code.

## 7. Plan

Done, in order of importance: deposit window, gateway, registry and router, governance,
vault and exclusion ledger, with the snapshots proved. Next:

1. `Vault_proofs`: `OneRecordPerAdapter` and the ledger's solvency for any number of records.
2. `RmpcWritePath`: agent lock, replay cache, broadcast, receipt wait, with crashes between
   them and against the gateway's used payment ids; an abstract specification "an intent
   is paid at most once" that the composition implements.
3. `Watchdog`: cursor, alert before pause, delivery-gated progress; liveness "a breach is
   eventually paged and paused" under weak fairness of the polling loop.
4. `GovernedUUPS`: one-way freeze and frozen implementations.
5. `Indexer`: cursor, walk-back over a reorganisation, idempotent log handling.
6. Gateway deposits: proof of `PaidOncePerIntent` and `ConsentUsedOnce`.
7. Basket vaults, to the extent that control and not price arithmetic decides.
