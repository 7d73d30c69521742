-------------------------------- MODULE Vault --------------------------------
(***************************************************************************)
(* RobotMoneyVault.sol with RobotMoneyVaultOps.sol: the rmUSDC vault, its  *)
(* adapter registry, deposits and withdrawals through the adapters, the    *)
(* exclusion of an adapter from NAV, its recovery and restoration, and the *)
(* emergency levers.  One action is one transaction that does not revert.  *)
(* An adapter pays what it is asked or reverts, as the lending adapters    *)
(* do; registry indices count from 1.                                      *)
(***************************************************************************)
EXTENDS ExclusionLedger

CONSTANTS Adapters,        \* adapter contracts
          CodeHash,        \* adapter -> runtime code hash
          FeeRecipient,
          VirtualShares,   \* 10 ** _decimalsOffset()
          MAX_BPS, MAX_ADAPTERS, MAX_EXIT_FEE_BPS, MAX_REBALANCE_BPS_CEILING,
          InitialCap,      \* tvlCap and perDepositCap of `initialize`
          InitialFee,      \* exitFeeBps of `initialize`
          InitialMoveBps,  \* maxRebalanceBpsPerCall of `initialize`
          Funds,           \* holder -> USDC at the start
          ShortLimit,      \* what a short venue can pay at once
          Venues,          \* states the venues may get into
          Flips,           \* adapters whose own views may change
          Fragile,         \* adapters whose venue may change state
          Capped,          \* adapters with a setMaxExposure (MorphoAdapter)
          Amounts, ShareAmounts, Gifts, Tranches, CapBps, ExposureCaps, Caps, Fees, MoveBps,
          Targets,         \* target balances submitted to adminRebalance
          Levers,          \* the levers that are used
          Income, Losses, Donations,  \* what venues earn and lose, what is given away
          MaxEntries,      \* bound on the length of the registry
          MaxRecords,      \* bound on exclusionCount
          MaxMoney,        \* bound on the USDC in the system
          MaxShares        \* bound on totalSupply

Entries == 1 .. MaxEntries
Hashes == {CodeHash[a] : a \in Adapters}

ASSUME VaultAssumption ==
  /\ IsFiniteSet(Adapters) /\ FeeRecipient \notin Holders
  /\ Flips \subseteq Adapters /\ Fragile \subseteq Adapters /\ Capped \subseteq Adapters
  /\ Venues \subseteq {"open", "full", "short", "closed", "broken"} /\ "open" \in Venues
  /\ VirtualShares \in Nat \ {0} /\ MAX_BPS \in Nat \ {0}
  /\ MaxEntries \in Nat /\ MaxRecords \in Nat /\ MAX_ADAPTERS \in Nat

VARIABLES
  adapters,           \* sequence of [adapter, capBps, active]
  openExclusionOf,    \* index -> open record, 0 for none
  adapterAllowed, adapterCodeHashAllowed,
  bound,              \* the adapter's own USDC() and VAULT() views answer right (external)
  invested,           \* adapter -> totalAssets() (external)
  venue,              \* adapter -> state of its venue (external)
  maxExposure,        \* adapter -> its own exposure cap, 0 for none
  idle,               \* USDC.balanceOf(vault)
  wallet,             \* USDC of the holders and the fee recipient (external)
  depositsPaused, shutdown, retired,
  tvlCap, perDepositCap, exitFeeBps, maxRebalanceBpsPerCall,
  rebalanceAvailable  \* isRebalanceAvailable(): the interval since lastRebalanceAt

registryVars == <<adapters, openExclusionOf, adapterAllowed, adapterCodeHashAllowed, maxExposure>>
moneyVars == <<invested, idle, wallet>>
venueVars == <<bound, venue>>
haltVars == <<depositsPaused, shutdown, retired>>
paramVars == <<tvlCap, perDepositCap, exitFeeBps, maxRebalanceBpsPerCall>>
settingVars == <<haltVars, paramVars, rebalanceAvailable>>
vars == <<shareVars, recordVars, registryVars, moneyVars, venueVars, settingVars>>

\* The vault right after `initialize`: no adapters, nothing allowed.
Init ==
  /\ LedgerInit
  /\ adapters = << >> /\ openExclusionOf = [i \in Entries |-> 0]
  /\ adapterAllowed = [a \in Adapters |-> FALSE]
  /\ adapterCodeHashAllowed = [c \in Hashes |-> FALSE]
  /\ bound = [a \in Adapters |-> TRUE]
  /\ invested = [a \in Adapters |-> 0] /\ venue = [a \in Adapters |-> "open"]
  /\ maxExposure = [a \in Adapters |-> 0]
  /\ idle = 0
  /\ wallet = [h \in Holders \cup {FeeRecipient} |-> IF h = FeeRecipient THEN 0 ELSE Funds[h]]
  /\ depositsPaused = FALSE /\ shutdown = FALSE /\ retired = FALSE
  /\ tvlCap = InitialCap /\ perDepositCap = InitialCap /\ exitFeeBps = InitialFee
  /\ maxRebalanceBpsPerCall = InitialMoveBps /\ rebalanceAvailable = TRUE

MinOf(x, y) == IF x < y THEN x ELSE y
Positive(x) == IF x > 0 THEN x ELSE 0
CeilDiv(x, y) == (x + y - 1) \div y

-----------------------------------------------------------------------------
(* The registry and NAV *)

At(i) == adapters[i].adapter
Active(i) == adapters[i].active
ActiveEntries == {i \in DOMAIN adapters : Active(i)}

\* `isEligible`, under the allowances of the moment.
Eligible(a) == adapterAllowed[a] /\ adapterCodeHashAllowed[CodeHash[a]] /\ bound[a]

Usable(i) == openExclusionOf[i] = 0 /\ Eligible(At(i))

Counted(i) == Active(i) /\ Usable(i)
CountedEntries == {i \in DOMAIN adapters : Counted(i)}

Readable(a) == venue[a] # "broken"
CanPay(a, amount) ==
  \/ amount = 0
  \/ venue[a] \in {"open", "full"}
  \/ venue[a] = "short" /\ amount <= ShortLimit

\* `totalAssets` reverts when an adapter it has to ask does.
NavReadable == \A i \in CountedEntries : Readable(At(i))
totalAssets == idle + MapThenSumSet(LAMBDA i : invested[At(i)], CountedEntries)

\* `anyActiveBlocked`.
AnyActiveBlocked(venues) ==
  \E i \in ActiveEntries : ~Usable(i) \/ (venues /\ venue[At(i)] = "closed")

DepositsClosed ==
  depositsPaused \/ shutdown \/ retired \/ ActiveEntries = {} \/ AnyActiveBlocked(TRUE)

\* `_maxDepositAt`; the caps are never the unbounded sentinel here.
MaxDepositAt(nav) ==
  IF DepositsClosed \/ nav >= tvlCap THEN 0 ELSE MinOf(perDepositCap, tvlCap - nav)

\* ERC-4626 conversions with the virtual share and asset.
ToShares(assets, nav) == (assets * (totalSupply + VirtualShares)) \div (nav + 1)
ToAssets(shares, nav) == (shares * (nav + 1)) \div (totalSupply + VirtualShares)

-----------------------------------------------------------------------------
(* Routing USDC into the adapters *)

\* The rank-th of `active` equal slices: the difference of two prefix shares.
EqualWeightBalance(total, rank, active) ==
  LET base == MAX_BPS \div active
      extra == MAX_BPS % active
      before == base * rank + MinOf(rank, extra)
      after == before + base + (IF rank < extra THEN 1 ELSE 0)
  IN  (total * after) \div MAX_BPS - (total * before) \div MAX_BPS

\* Rank of entry i among the active ones, from 0.
Rank(i) == Cardinality({j \in ActiveEntries : j < i})

\* (mutant: the adapter's own exposure cap is not looked at)
Ceiling_CapOnly(total, i) == (total * adapters[i].capBps) \div MAX_BPS

Ceiling(total, i) ==
  LET slice == (total * adapters[i].capBps) \div MAX_BPS
      cap == maxExposure[At(i)]
  IN  IF cap # 0 /\ cap < slice THEN cap ELSE slice

\* What `_allocate` leaves in the venue: a full venue hands the slice back.
Placed(a, allocation) == IF venue[a] = "full" THEN 0 ELSE allocation

\* A leg of either pass: allocate `room`, at most what remains.
Leg(r, i, room) ==
  LET allocation == MinOf(room, r.remaining)
      placed == Placed(At(i), allocation)
  IN  [r EXCEPT !.remaining = @ - placed, !.holds[At(i)] = @ + placed,
                !.refused = IF placed < allocation THEN @ \cup {i} ELSE @,
                !.ok = @ /\ (allocation > 0 => venue[At(i)] # "closed")]

\* Pass 1, entries 1 .. n: toward the smaller of the equal slice and the ceiling;
\* `headroom` adds what the ceilings of the visited entries leave.
Pass1(start, total) ==
  LET leg[i \in 0 .. Len(adapters)] ==
        IF i = 0 THEN start
        ELSE LET r == leg[i - 1]
                 ceiling == Ceiling(total, i)
                 slice == EqualWeightBalance(total, Rank(i), Cardinality(ActiveEntries))
                 current == r.holds[At(i)]
                 filled == Leg(r, i, Positive(MinOf(slice, ceiling) - current))
             IN  IF r.remaining = 0 \/ ~Counted(i) THEN r
                 ELSE IF i \in filled.refused THEN filled
                 ELSE [filled EXCEPT !.headroom = @ + Positive(ceiling - filled.holds[At(i)])]
  IN  leg[Len(adapters)]

\* (mutant: the leftover is not spread)
Pass2_None(start, total) == start

\* Pass 2: the leftover, into the room under the ceilings.
Pass2(start, total) ==
  LET leg[i \in 0 .. Len(adapters)] ==
        IF i = 0 THEN start
        ELSE LET r == leg[i - 1]
             IN  IF r.remaining = 0 \/ ~Counted(i) \/ i \in r.refused THEN r
                 ELSE Leg(r, i, Positive(Ceiling(total, i) - r.holds[At(i)]))
  IN  leg[Len(adapters)]

\* `routeDeposit` of `amount` that already is idle; `holds` are the adapters'
\* balances.  What is still remaining stays idle.
Route(amount, total, holds) ==
  LET start == [remaining |-> amount, holds |-> holds, headroom |-> 0, refused |-> {}, ok |-> TRUE]
      first == Pass1(start, total)
  IN  IF first.remaining > 0 /\ first.headroom > 0 THEN Pass2(first, total) ELSE first

-----------------------------------------------------------------------------
(* Deposit and mint *)

\* `_depositAt`: the shares are minted, then the USDC is routed.
DepositAt(h, assets, shares, nav) ==
  LET r == Route(assets, nav + assets, invested)
  IN  /\ ~shutdown /\ ~retired
      /\ assets <= perDepositCap /\ nav + assets <= tvlCap
      /\ ActiveEntries # {}
      /\ wallet[h] >= assets
      /\ r.ok
      /\ totalSupply + shares <= MaxShares
      /\ Update(NoHolder, h, shares)
      /\ invested' = r.holds
      /\ idle' = idle + r.remaining
      /\ wallet' = [wallet EXCEPT ![h] = @ - assets]
      /\ UNCHANGED <<recordVars, registryVars, venueVars, settingVars>>

\* (mutant: the NAV is read after the USDC arrived)
deposit_AfterTransfer(h, assets) ==
  /\ ~depositsPaused /\ NavReadable
  /\ assets <= MaxDepositAt(totalAssets)
  /\ DepositAt(h, assets, ToShares(assets, totalAssets - MinOf(assets, totalAssets)), totalAssets)

deposit(h, assets) ==
  /\ ~depositsPaused /\ NavReadable
  /\ assets <= MaxDepositAt(totalAssets)
  /\ DepositAt(h, assets, ToShares(assets, totalAssets), totalAssets)

\* `mint`: at most maxMint shares, for the assets rounded up.
mint(h, shares) ==
  /\ ~depositsPaused /\ NavReadable
  /\ shares <= ToShares(MaxDepositAt(totalAssets), totalAssets)
  /\ DepositAt(h, CeilDiv(shares * (totalAssets + 1), totalSupply + VirtualShares), shares,
               totalAssets)

-----------------------------------------------------------------------------
(* Redeem and withdraw *)

\* `pullFromAdapters`: nothing when the counted entries cannot cover `needed`;
\* else proportional pulls, the last counted entry takes what is left, then a
\* sweep of the leftovers.
Pull(needed) ==
  LET total == MapThenSumSet(LAMBDA i : invested[At(i)], CountedEntries)
      last == CHOOSE i \in CountedEntries : \A j \in CountedEntries : j <= i
      take(r, i, amount) ==
        LET pull == MinOf(MinOf(amount, r.remaining), r.holds[At(i)])
        IN  [r EXCEPT !.remaining = @ - pull, !.holds[At(i)] = @ - pull]
      first[i \in 0 .. Len(adapters)] ==
        IF i = 0 THEN [remaining |-> needed, holds |-> invested]
        ELSE IF ~Counted(i) THEN first[i - 1]
        ELSE take(first[i - 1], i, IF i = last THEN needed
                                   ELSE (needed * invested[At(i)]) \div total)
      second[i \in 0 .. Len(adapters)] ==
        IF i = 0 THEN first[Len(adapters)]
        ELSE IF ~Counted(i) THEN second[i - 1] ELSE take(second[i - 1], i, needed)
  IN  IF needed > total THEN [remaining |-> needed, holds |-> invested]
      ELSE second[Len(adapters)]

GrossToNet(gross) == gross - (gross * exitFeeBps) \div MAX_BPS
NetToGross(net) == CeilDiv(net * MAX_BPS, MAX_BPS - exitFeeBps)

\* ZeroPayoutDuringExclusion.
PaysSomething(gross, shares) == ~(gross = 0 /\ shares # 0 /\ AnyActiveBlocked(FALSE))

\* What the adapters hold once `_pullProportional` has sourced `gross`, idle first.
Sourced(gross) ==
  IF idle >= gross THEN [remaining |-> 0, holds |-> invested] ELSE Pull(gross - idle)

\* `_withdraw` does not revert.
CanPayOut(h, assets, shares) ==
  LET gross == ToAssets(shares, totalAssets)
      r == Sourced(gross)
  IN  /\ balanceOf[h] >= shares
      /\ gross >= assets
      /\ PaysSomething(gross, shares)
      /\ r.remaining = 0
      /\ \A a \in Adapters : CanPay(a, invested[a] - r.holds[a])

\* `_withdraw`: the fee is what `gross` leaves.
PayOut(h, assets, shares) ==
  LET gross == ToAssets(shares, totalAssets)
  IN  /\ Update(h, NoHolder, shares)
      /\ invested' = Sourced(gross).holds
      /\ idle' = Positive(idle - gross)
      /\ wallet' = [wallet EXCEPT ![h] = @ + assets, ![FeeRecipient] = @ + gross - assets]
      /\ UNCHANGED <<recordVars, registryVars, venueVars, settingVars>>

previewRedeem(shares) == GrossToNet(ToAssets(shares, totalAssets))

\* (mutant: a deposit pause stops redemptions too)
CanRedeem_Paused(h, shares) ==
  ~depositsPaused /\ NavReadable /\ CanPayOut(h, previewRedeem(shares), shares)

CanRedeem(h, shares) == NavReadable /\ CanPayOut(h, previewRedeem(shares), shares)

redeem(h, shares) == CanRedeem(h, shares) /\ PayOut(h, previewRedeem(shares), shares)

maxWithdraw(h) ==
  (ToAssets(balanceOf[h], totalAssets) * (MAX_BPS - exitFeeBps)) \div MAX_BPS

\* (mutant: the shares for an exact payout are rounded down)
previewWithdraw_Floor(assets) == ToShares(NetToGross(assets), totalAssets)

previewWithdraw(assets) ==
  CeilDiv(NetToGross(assets) * (totalSupply + VirtualShares), totalAssets + 1)

CanWithdraw(h, assets) ==
  NavReadable /\ assets <= maxWithdraw(h) /\ CanPayOut(h, assets, previewWithdraw(assets))

withdraw(h, assets) == CanWithdraw(h, assets) /\ PayOut(h, assets, previewWithdraw(assets))

transfer(from, to, shares) ==
  /\ Update(from, to, shares)
  /\ UNCHANGED <<recordVars, registryVars, moneyVars, venueVars, settingVars>>

-----------------------------------------------------------------------------
(* Exclusion records *)

\* The record of entry i once the entries `opened` have theirs.
RecordOf(opened, i) ==
  IF i \in opened THEN exclusionCount + RankIn(opened, i) ELSE openExclusionOf[i]

NothingPulled == [i \in DOMAIN adapters |-> 0]
Whole(S) == [i \in DOMAIN adapters |-> IF i \in S THEN invested[At(i)] ELSE 0]

SumOver(pull, S) == MapThenSumSet(LAMBDA i : pull[i], S)

\* `_credit`: what an entry without a record paid stays idle, the rest moves on.
IdleAfter(opened, pull) ==
  idle + SumOver(pull, {i \in DOMAIN adapters : RecordOf(opened, i) = 0})

HoldsAfter(pull) ==
  [a \in Adapters |-> invested[a] - SumOver(pull, {i \in DOMAIN adapters : At(i) = a})]

\* Open the records of `opened`, credit what was pulled to the records of the
\* entries it came from, and close the records of the entries `closing`.
Settle(opened, pull, closing) ==
  LET count == exclusionCount + Cardinality(opened)
  IN  /\ count <= MaxRecords
      /\ Book(opened, [i \in opened |-> At(i)],
              [id \in 1 .. count |->
                 SumOver(pull, {i \in DOMAIN adapters : RecordOf(opened, i) = id})],
              {RecordOf(opened, i) : i \in closing})
      /\ openExclusionOf' = [i \in Entries |->
           IF i \in closing THEN 0 ELSE RecordOf(opened, i)]
      /\ UNCHANGED shareVars

EligibleSet(allowed, hashes) == {a \in Adapters : allowed[a] /\ hashes[CodeHash[a]] /\ bound[a]}
EligibleNow == EligibleSet(adapterAllowed, adapterCodeHashAllowed)

\* (mutant: an entry that already has a record gets another)
ToOpen_Again(eligible) ==
  {i \in ActiveEntries : totalSupply # 0 /\ At(i) \notin eligible}

\* `syncExclusions`: what it opens and what it restores.
ToOpen(eligible) ==
  {i \in ActiveEntries : totalSupply # 0 /\ openExclusionOf[i] = 0 /\ At(i) \notin eligible}
ToRestore(eligible) == {i \in ActiveEntries : openExclusionOf[i] # 0 /\ At(i) \in eligible}

\* `_drain` of the whole balance succeeds.
Drainable(i) == Readable(At(i)) /\ CanPay(At(i), invested[At(i)])

Sync(eligible, restore) ==
  LET restored == IF restore THEN ToRestore(eligible) ELSE {}
  IN  /\ \A i \in restored : Drainable(i)
      /\ Settle(ToOpen(eligible), Whole(restored), restored)
      /\ invested' = HoldsAfter(Whole(restored))
      /\ idle' = IdleAfter(ToOpen(eligible), Whole(restored))
      /\ UNCHANGED <<adapters, maxExposure, wallet, venueVars>>

setAdapterAllowed(a, allowed) ==
  /\ adapterAllowed' = [adapterAllowed EXCEPT ![a] = allowed]
  /\ Sync(EligibleSet(adapterAllowed', adapterCodeHashAllowed), allowed)
  /\ UNCHANGED <<adapterCodeHashAllowed, settingVars>>

setAdapterCodeHashAllowed(c, allowed) ==
  /\ adapterCodeHashAllowed' = [adapterCodeHashAllowed EXCEPT ![c] = allowed]
  /\ Sync(EligibleSet(adapterAllowed, adapterCodeHashAllowed'), allowed)
  /\ UNCHANGED <<adapterAllowed, settingVars>>

syncExclusions ==
  /\ Sync(EligibleNow, TRUE)
  /\ UNCHANGED <<adapterAllowed, adapterCodeHashAllowed, settingVars>>

-----------------------------------------------------------------------------
(* The registry *)

NotActive(a) == \A i \in ActiveEntries : At(i) # a

\* `addAdapter`: the open records of the address are settled before it counts.
addAdapter(a, cap) ==
  LET owed == {i \in DOMAIN adapters : At(i) = a /\ openExclusionOf[i] # 0}
  IN  /\ Len(adapters) < MaxEntries
      /\ cap \in 1 .. MAX_BPS
      /\ NotActive(a)
      /\ Cardinality(ActiveEntries) < MAX_ADAPTERS
      /\ Eligible(a)
      /\ \A i \in owed : Drainable(i)
      /\ Settle({}, Whole(owed), owed)
      /\ adapters' = Append(adapters, [adapter |-> a, capBps |-> cap, active |-> TRUE])
      /\ invested' = HoldsAfter(Whole(owed))
      /\ idle' = IdleAfter({}, Whole(owed))
      /\ UNCHANGED <<adapterAllowed, adapterCodeHashAllowed, maxExposure, wallet,
                     venueVars, settingVars>>

removeAdapter(i) ==
  /\ i \in ActiveEntries
  /\ Readable(At(i)) /\ invested[At(i)] = 0
  /\ Settle({}, NothingPulled, {i})
  /\ adapters' = [adapters EXCEPT ![i].active = FALSE]
  /\ UNCHANGED <<adapterAllowed, adapterCodeHashAllowed, maxExposure, moneyVars,
                 venueVars, settingVars>>

setAdapterCap(i, cap) ==
  /\ i \in ActiveEntries
  /\ cap \in 1 .. MAX_BPS
  /\ adapters' = [adapters EXCEPT ![i].capBps = cap]
  /\ UNCHANGED <<shareVars, recordVars, openExclusionOf, adapterAllowed, adapterCodeHashAllowed,
                 maxExposure, moneyVars, venueVars, settingVars>>

setAdapterMaxExposure(i, cap) ==
  /\ i \in ActiveEntries
  /\ At(i) \in Capped
  /\ maxExposure' = [maxExposure EXCEPT ![At(i)] = cap]
  /\ UNCHANGED <<shareVars, recordVars, adapters, openExclusionOf, adapterAllowed,
                 adapterCodeHashAllowed, moneyVars, venueVars, settingVars>>

-----------------------------------------------------------------------------
(* Emergency levers *)

\* `_emergencyPull` of the entries S after an open-only sync: what cannot pay is
\* passed over.
Drain(S) ==
  LET opened == ToOpen(EligibleNow)
      pull == Whole({i \in S : Drainable(i)})
  IN  /\ Settle(opened, pull, {})
      /\ invested' = HoldsAfter(pull)
      /\ idle' = IdleAfter(opened, pull)
      /\ depositsPaused' = TRUE
      /\ UNCHANGED <<adapters, adapterAllowed, adapterCodeHashAllowed, maxExposure, wallet,
                     venueVars, shutdown, retired, paramVars, rebalanceAvailable>>

emergencyWithdraw == Drain(ActiveEntries)
emergencyWithdrawAdapter(i) == i \in ActiveEntries /\ Drain({i})

emergencyExcludeAdapter(i) ==
  /\ i \in ActiveEntries
  /\ adapterAllowed' = [adapterAllowed EXCEPT ![At(i)] = FALSE]
  /\ Sync(EligibleSet(adapterAllowed', adapterCodeHashAllowed), FALSE)
  /\ UNCHANGED <<adapterCodeHashAllowed, settingVars>>

\* (mutant: the record of a funded entry closes with the entry)
ForceClosed_Always(i) == {i}

\* The record closes only when the adapter says that it is empty.
ForceClosed(i) == IF Readable(At(i)) /\ invested[At(i)] = 0 THEN {i} ELSE {}

forceRemoveAdapter(i) ==
  /\ i \in ActiveEntries
  /\ Settle(IF ForceClosed(i) = {} /\ openExclusionOf[i] = 0 /\ totalSupply # 0 THEN {i} ELSE {},
            NothingPulled, ForceClosed(i))
  /\ adapters' = [adapters EXCEPT ![i].active = FALSE]
  /\ depositsPaused' = TRUE
  /\ UNCHANGED <<adapterAllowed, adapterCodeHashAllowed, maxExposure, moneyVars, venueVars,
                 shutdown, retired, paramVars, rebalanceAvailable>>

\* `recoverRemoved`: a tranche from an inactive entry into its record.
recoverRemovedAdapter(i, amount) ==
  LET tranche == IF Readable(At(i)) THEN MinOf(amount, invested[At(i)]) ELSE amount
      pull == [NothingPulled EXCEPT ![i] = tranche]
      emptied == Readable(At(i)) /\ tranche = invested[At(i)]
  IN  /\ ~Active(i)
      /\ openExclusionOf[i] # 0
      /\ CanPay(At(i), tranche)
      /\ Settle({}, pull, IF emptied THEN {i} ELSE {})
      /\ invested' = HoldsAfter(pull)
      /\ idle' = IdleAfter({}, pull)
      /\ UNCHANGED <<adapters, adapterAllowed, adapterCodeHashAllowed, maxExposure, wallet,
                     venueVars, settingVars>>

-----------------------------------------------------------------------------
(* Rebalancing *)

\* (mutant: the throttle is not applied)
Moved_Everything(r, excess, limit) == excess

\* What an entry gives up: its excess, up to what the call may still move.
Moved(r, excess, limit) == MinOf(excess, Positive(limit - r.moved))

\* `rebalancePull`: the excess over the equal slices, in registry order.
RebalancePull(nav, limit) ==
  LET leg[i \in 0 .. Len(adapters)] ==
        IF i = 0 THEN [moved |-> 0, holds |-> invested]
        ELSE LET r == leg[i - 1]
                 slice == EqualWeightBalance(nav, Rank(i), Cardinality(ActiveEntries))
                 pull == Moved(r, Positive(invested[At(i)] - slice), limit)
             IN  IF ~Counted(i) THEN r
                 ELSE [moved |-> r.moved + pull, holds |-> [r.holds EXCEPT ![At(i)] = @ - pull]]
  IN  leg[Len(adapters)]

rebalance ==
  LET nav == totalAssets
      pulled == RebalancePull(nav, (nav * maxRebalanceBpsPerCall) \div MAX_BPS)
      r == Route(idle + pulled.moved, nav, pulled.holds)
  IN  /\ rebalanceAvailable /\ ~depositsPaused /\ ~shutdown
      /\ rebalanceAvailable' = FALSE
      /\ ActiveEntries # {}
      /\ NavReadable
      /\ \A a \in Adapters : CanPay(a, invested[a] - pulled.holds[a])
      /\ r.ok
      /\ invested' = r.holds
      /\ idle' = r.remaining
      /\ UNCHANGED <<shareVars, recordVars, registryVars, wallet, venueVars, haltVars, paramVars>>

\* The adapter's own check in `deploy` (MorphoAdapter).
WithinExposure(a, held) == maxExposure[a] = 0 \/ held <= maxExposure[a]

\* `adminRebalanceAllocate`: idle USDC into the entries below their targets, in
\* registry order; an entry that is not eligible reverts the call.
AllocateTo(targets, start) ==
  LET leg[i \in 0 .. Len(adapters)] ==
        IF i = 0 THEN start
        ELSE LET r == leg[i - 1]
                 a == At(i)
                 allocation == MinOf(Positive(targets[i] - r.holds[a]), r.remaining)
                 allocated == Leg(r, i, allocation)
             IN  IF ~Active(i) \/ allocation = 0 THEN r
                 ELSE [allocated EXCEPT !.ok = @ /\ Eligible(a)
                                             /\ WithinExposure(a, r.holds[a] + allocation)]
  IN  leg[Len(adapters)]

adminRebalance(targets) ==
  LET opened == ToOpen(EligibleNow)
      restored == ToRestore(EligibleNow)
      pull == [i \in DOMAIN adapters |->
                 IF i \in restored THEN invested[At(i)]
                 ELSE IF Active(i) THEN Positive(invested[At(i)] - targets[i]) ELSE 0]
      r == AllocateTo(targets, [remaining |-> IdleAfter(opened, pull), holds |-> HoldsAfter(pull),
                                refused |-> {}, ok |-> TRUE])
  IN  /\ Len(targets) = Len(adapters)
      /\ \A i \in restored : Drainable(i)
      /\ \A i \in ActiveEntries : Readable(At(i)) /\ CanPay(At(i), pull[i])
      /\ r.ok
      /\ Settle(opened, pull, restored)
      /\ invested' = r.holds
      /\ idle' = r.remaining
      /\ rebalanceAvailable' = FALSE
      /\ UNCHANGED <<adapters, adapterAllowed, adapterCodeHashAllowed, maxExposure, wallet,
                     venueVars, haltVars, paramVars>>

-----------------------------------------------------------------------------
(* Deposit levers and parameters *)

\* Transactions that touch nothing but the settings.
OnlySettings == UNCHANGED <<shareVars, recordVars, registryVars, moneyVars, venueVars>>

SetPaused(paused) ==
  /\ depositsPaused' = paused
  /\ UNCHANGED <<shutdown, retired, paramVars, rebalanceAvailable>> /\ OnlySettings
pauseDeposits == SetPaused(TRUE)
unpauseDeposits == SetPaused(FALSE)

\* Driven by the registry's `retire` and `reactivate` (VaultRegistry).
SetRetired(value) ==
  /\ retired' = value
  /\ UNCHANGED <<depositsPaused, shutdown, paramVars, rebalanceAvailable>> /\ OnlySettings
retire == SetRetired(TRUE)
unretire == SetRetired(FALSE)

shutdownVault ==
  /\ shutdown' = TRUE /\ tvlCap' = 0
  /\ UNCHANGED <<depositsPaused, retired, perDepositCap, exitFeeBps, maxRebalanceBpsPerCall,
                 rebalanceAvailable>>
  /\ OnlySettings

restoreVault(cap) ==
  /\ shutdown /\ cap > 0 /\ perDepositCap <= cap
  /\ shutdown' = FALSE /\ tvlCap' = cap
  /\ UNCHANGED <<depositsPaused, retired, perDepositCap, exitFeeBps, maxRebalanceBpsPerCall,
                 rebalanceAvailable>>
  /\ OnlySettings

OnlyParams == UNCHANGED <<haltVars, rebalanceAvailable>> /\ OnlySettings

setTvlCap(cap) ==
  /\ cap > 0 => perDepositCap <= cap
  /\ tvlCap' = cap
  /\ UNCHANGED <<perDepositCap, exitFeeBps, maxRebalanceBpsPerCall>> /\ OnlyParams

setPerDepositCap(cap) ==
  /\ tvlCap > 0 => cap <= tvlCap
  /\ perDepositCap' = cap
  /\ UNCHANGED <<tvlCap, exitFeeBps, maxRebalanceBpsPerCall>> /\ OnlyParams

setExitFeeBps(bps) ==
  /\ bps <= MAX_EXIT_FEE_BPS
  /\ exitFeeBps' = bps
  /\ UNCHANGED <<tvlCap, perDepositCap, maxRebalanceBpsPerCall>> /\ OnlyParams

setMaxRebalanceBpsPerCall(bps) ==
  /\ bps \in 1 .. MAX_REBALANCE_BPS_CEILING
  /\ maxRebalanceBpsPerCall' = bps
  /\ UNCHANGED <<tvlCap, perDepositCap, exitFeeBps>> /\ OnlyParams

-----------------------------------------------------------------------------
(* The ledger's own entry points *)

Unclaimed == UNCHANGED <<shareVars, registryVars, invested, venueVars, settingVars>>

Pay(ids, h) ==
  /\ Claim(ids, h)
  /\ wallet' = [wallet EXCEPT ![h] = @ + ledgerUsdc - ledgerUsdc']
  /\ UNCHANGED idle /\ Unclaimed
claim(id, h) == Pay({id}, h)
claimAll(h) == Pay(1 .. exclusionCount, h)

returnSurplus ==
  /\ idle' = idle + Surplus
  /\ ledgerUsdc' = ledgerUsdc - Surplus
  /\ UNCHANGED <<exclusionCount, exclusions, claimed, heldUsdc, snapshots, heldAt, wallet>>
  /\ Unclaimed

-----------------------------------------------------------------------------
(* The environment *)

AllMoney ==
  idle + ledgerUsdc + MapThenSumSet(LAMBDA a : invested[a], Adapters)
       + MapThenSumSet(LAMBDA h : wallet[h], DOMAIN wallet)

\* USDC sent straight to the vault or to the ledger.
Donate(h, amount) ==
  /\ wallet[h] >= amount
  /\ wallet' = [wallet EXCEPT ![h] = @ - amount]
  /\ \/ idle' = idle + amount /\ UNCHANGED ledgerUsdc
     \/ ledgerUsdc' = ledgerUsdc + amount /\ UNCHANGED idle
  /\ UNCHANGED <<exclusionCount, exclusions, claimed, heldUsdc, snapshots, heldAt>>
  /\ Unclaimed

VenuePosition(a, amount) ==
  /\ invested' = [invested EXCEPT ![a] = amount]
  /\ UNCHANGED <<shareVars, recordVars, registryVars, idle, wallet, venueVars, settingVars>>
Earn(a, amount) ==
  invested[a] > 0 /\ AllMoney + amount <= MaxMoney /\ VenuePosition(a, invested[a] + amount)
Lose(a, amount) == amount <= invested[a] /\ VenuePosition(a, invested[a] - amount)

VenueChanges(a, state) ==
  /\ venue' = [venue EXCEPT ![a] = state]
  /\ UNCHANGED <<shareVars, recordVars, registryVars, moneyVars, bound, settingVars>>

\* The adapter's USDC() or VAULT() view starts or stops answering right.
ViewsChange(a) ==
  /\ bound' = [bound EXCEPT ![a] = ~@]
  /\ UNCHANGED <<shareVars, recordVars, registryVars, moneyVars, venue, settingVars>>

IntervalPasses ==
  /\ rebalanceAvailable' = TRUE
  /\ UNCHANGED <<haltVars, paramVars>> /\ OnlySettings

-----------------------------------------------------------------------------

ShareTransactions ==
  \E h \in Holders :
    \/ \E n \in Amounts : deposit(h, n) \/ withdraw(h, n)
    \/ \E n \in ShareAmounts : mint(h, n) \/ redeem(h, n)
    \/ redeem(h, balanceOf[h])
    \/ \E to \in Holders, n \in Gifts : transfer(h, to, n)

RegistryTransactions ==
  \/ \E a \in Adapters, cap \in CapBps : addAdapter(a, cap)
  \/ \E a \in Adapters, allowed \in BOOLEAN : setAdapterAllowed(a, allowed)
  \/ \E c \in Hashes : \/ setAdapterCodeHashAllowed(c, TRUE)
                       \/ "codehash" \in Levers /\ setAdapterCodeHashAllowed(c, FALSE)
  \/ syncExclusions
  \/ \E i \in DOMAIN adapters :
       \/ removeAdapter(i)
       \/ \E cap \in CapBps : setAdapterCap(i, cap)
       \/ \E cap \in ExposureCaps : setAdapterMaxExposure(i, cap)
       \/ emergencyWithdrawAdapter(i) \/ emergencyExcludeAdapter(i) \/ forceRemoveAdapter(i)
       \/ \E n \in Tranches : recoverRemovedAdapter(i, n)
  \/ emergencyWithdraw
  \/ "keeper" \in Levers /\ rebalance
  \/ \E targets \in Targets : adminRebalance(targets)

SettingTransactions ==
  \/ "pause" \in Levers /\ (pauseDeposits \/ unpauseDeposits)
  \/ "retire" \in Levers /\ (retire \/ unretire)
  \/ "shutdown" \in Levers /\ (shutdownVault \/ \E cap \in Caps : restoreVault(cap))
  \/ \E cap \in Caps : setTvlCap(cap) \/ setPerDepositCap(cap)
  \/ \E bps \in Fees : setExitFeeBps(bps)
  \/ \E bps \in MoveBps : setMaxRebalanceBpsPerCall(bps)

LedgerTransactions ==
  \/ \E h \in Holders : claimAll(h) \/ \E id \in 1 .. exclusionCount : claim(id, h)
  \/ returnSurplus

Environment ==
  \/ \E h \in Holders, n \in Donations : Donate(h, n)
  \/ \E a \in Adapters :
       \/ \E n \in Income : Earn(a, n)
       \/ \E n \in Losses : Lose(a, n)
  \/ \E a \in Fragile, state \in Venues : VenueChanges(a, state)
  \/ \E a \in Flips : ViewsChange(a)
  \/ "keeper" \in Levers /\ IntervalPasses

Next == ShareTransactions \/ RegistryTransactions \/ SettingTransactions
        \/ LedgerTransactions \/ Environment

Spec == Init /\ [][Next]_vars

-----------------------------------------------------------------------------
(* Properties *)

Records == 1 .. exclusionCount

\* The variables have their types; no balance, claim or position is negative.
TypeOK ==
  /\ balanceOf \in [Holders -> Nat] /\ totalSupply \in Nat
  /\ exclusionCount \in Nat /\ snapshots \in BOOLEAN
  /\ exclusions \in [Records -> [adapter : Adapters, finalized : BOOLEAN, snapshotSupply : Nat,
                                 recovered : Nat, claimed : Nat]]
  /\ claimed \in [Records -> [Holders -> Nat]] /\ heldAt \in [Records -> [Holders -> Nat]]
  /\ heldUsdc \in Nat /\ ledgerUsdc \in Nat
  /\ checkpoints \in [Holders -> Seq([id : Nat, balance : Nat])]
  /\ adapters \in Seq([adapter : Adapters, capBps : 1 .. MAX_BPS, active : BOOLEAN])
  /\ openExclusionOf \in [Entries -> Nat]
  /\ adapterAllowed \in [Adapters -> BOOLEAN] /\ adapterCodeHashAllowed \in [Hashes -> BOOLEAN]
  /\ bound \in [Adapters -> BOOLEAN] /\ venue \in [Adapters -> Venues]
  /\ invested \in [Adapters -> Nat] /\ maxExposure \in [Adapters -> Nat]
  /\ idle \in Nat /\ wallet \in [Holders \cup {FeeRecipient} -> Nat]
  /\ depositsPaused \in BOOLEAN /\ shutdown \in BOOLEAN /\ retired \in BOOLEAN
  /\ tvlCap \in Nat /\ perDepositCap \in Nat /\ exitFeeBps \in 0 .. MAX_EXIT_FEE_BPS
  /\ maxRebalanceBpsPerCall \in 1 .. MAX_REBALANCE_BPS_CEILING
  /\ rebalanceAvailable \in BOOLEAN

\* What the checkpoints `cps` of a holder with balance `live` say about record id:
\* the first checkpoint written at or after it, or the live balance.
Later(cps, id) == {k \in 1 .. Len(cps) : cps[k].id >= id}
Recorded(cps, live, id) ==
  IF Later(cps, id) = {} THEN live
  ELSE cps[CHOOSE k \in Later(cps, id) : \A l \in Later(cps, id) : k <= l].balance

\* A holder's claim stays fixed at the balance of the moment of exclusion,
\* whatever is minted, burned or transferred later (the comment on `_update` and
\* `checkpoint`): lazily written checkpoints lose no snapshot.
SnapshotKept ==
  \A id \in Records, h \in Holders : Recorded(checkpoints[h], balanceOf[h], id) = heldAt[id][h]

\* Paid and payable together are exactly the floor of the pro-rata share in what
\* has been recovered, taken on the shares held at the exclusion: no recovery,
\* claim or share movement in any order pays a holder more or less (`claimable`
\* through the binary search of `balanceAt`).
ClaimsProRata ==
  \A id \in Records, h \in Holders :
    claimed[id][h] + claimable(id, h)
      = (exclusions[id].recovered * heldAt[id][h]) \div exclusions[id].snapshotSupply

\* The ledger can pay every claim at any time, and `returnSurplus` cannot take a
\* record's money: heldUsdc is what the records were credited and have not paid,
\* the ledger holds it, and the open claims of a record fit in its part.
LedgerSolvent ==
  /\ heldUsdc = MapThenSumSet(LAMBDA id : exclusions[id].recovered - exclusions[id].claimed, Records)
  /\ heldUsdc <= ledgerUsdc
  /\ \A id \in Records :
       MapThenSumSet(LAMBDA h : claimable(id, h), Holders)
         <= exclusions[id].recovered - exclusions[id].claimed

\* An adapter address has at most one active entry (or NAV counts it twice) and at
\* most one open record, active or force-removed; an open record is not
\* finalized, and a finalized one is the open record of no entry.
OneRecordPerAdapter ==
  /\ \A i, j \in ActiveEntries : At(i) = At(j) => i = j
  /\ \A i, j \in DOMAIN adapters :
       openExclusionOf[i] # 0 /\ openExclusionOf[j] # 0 /\ At(i) = At(j) => i = j
  /\ \A i \in Entries : openExclusionOf[i] # 0 =>
       /\ i \in DOMAIN adapters
       /\ openExclusionOf[i] \in Records
       /\ ~exclusions[openExclusionOf[i]].finalized
       /\ exclusions[openExclusionOf[i]].adapter = At(i)
  /\ \A id \in Records : ~exclusions[id].finalized => \E i \in Entries : openExclusionOf[i] = id

\* No transaction lets the balance of an excluded adapter reach anybody but the
\* holders of the snapshot: while its record is open all that leaves the adapter
\* is credited to the record, and the record closes only when the whole balance
\* has been.
RecoveryReachesRecord ==
  [][AllMoney' = AllMoney =>
       \A i \in DOMAIN adapters : openExclusionOf[i] # 0 =>
         LET id == openExclusionOf[i]
             credited == exclusions'[id].recovered - exclusions[id].recovered
         IN  IF exclusions'[id].finalized THEN credited = invested[At(i)]
             ELSE credited = invested[At(i)] - invested'[At(i)]]_<<invested, exclusions>>

CountedAdapters == {At(i) : i \in CountedEntries}

\* The share price never falls unless an adapter enters or leaves NAV or money is
\* lost: every conversion of deposit, mint, redeem and withdraw rounds for the
\* holders who stay, and moving USDC between idle and the adapters, paying claims
\* and recovering excluded adapters does not touch it.
PriceNeverFalls ==
  [][CountedAdapters' = CountedAdapters /\ AllMoney' >= AllMoney =>
       (totalAssets' + 1) * (totalSupply + VirtualShares)
         >= (totalAssets + 1) * (totalSupply' + VirtualShares)]_<<idle, invested, totalSupply>>

VenuesPay == \A i \in CountedEntries : venue[At(i)] \in {"open", "full"}

\* No lever freezes withdrawals ("nothing stops a holder from exiting",
\* `pauseDeposits`): while the venues pay, a holder can redeem all their shares,
\* paused, retired, shut down or with an adapter excluded, unless the shares are
\* worth nothing during an exclusion.
ExitAlwaysOpen ==
  \A h \in Holders :
    VenuesPay /\ ~(ToAssets(balanceOf[h], totalAssets) = 0 /\ AnyActiveBlocked(FALSE))
      => CanRedeem(h, balanceOf[h])

\* "withdraw(maxWithdraw(owner)) MUST NOT revert" (`maxWithdraw`), at any exit fee
\* and any rounding of the two conversions.
MaxWithdrawHonoured ==
  \A h \in Holders : VenuesPay => CanWithdraw(h, maxWithdraw(h))

\* A deposit or a rebalance never fills an adapter past its share of NAV or past
\* its own exposure cap, which would revert the call in the adapter.
RoutingWithinCaps ==
  [][totalSupply' > totalSupply \/ rebalance =>
       \A i \in CountedEntries : invested'[At(i)] > invested[At(i)] =>
         /\ invested'[At(i)] * MAX_BPS <= totalAssets' * adapters[i].capBps
         /\ WithinExposure(At(i), invested'[At(i)])]_invested

\* A deposit leaves USDC idle only when no adapter that takes supply has room
\* under its caps (`routeDeposit`: the second pass and its early exits).
RoutedAsFarAsPossible ==
  [][totalSupply' > totalSupply /\ idle' > idle =>
       \A i \in CountedEntries : venue[At(i)] # "full" =>
         \/ invested'[At(i)] >= (totalAssets' * adapters[i].capBps) \div MAX_BPS
         \/ maxExposure[At(i)] # 0 /\ invested'[At(i)] >= maxExposure[At(i)]]_<<idle, totalSupply>>

\* A keeper's rebalance leaves NAV alone and moves no more than
\* maxRebalanceBpsPerCall of it out of the adapters, over all of them together.
RebalanceThrottled ==
  [][rebalance =>
       /\ totalAssets' = totalAssets
       /\ MapThenSumSet(LAMBDA a : Positive(invested[a] - invested'[a]), Adapters) * MAX_BPS
            <= totalAssets * maxRebalanceBpsPerCall]_<<idle, invested>>
=============================================================================
