--------------------------- MODULE PortfolioRouter ---------------------------
(***************************************************************************)
(* PortfolioRouter.sol composed with VaultRegistry.sol: the applied and    *)
(* the default weight vectors, their interlock with router eligibility,    *)
(* routed deposits and redemptions.  A weight vector is a sequence of      *)
(* [vault, bps] records; one action is one transaction that does not       *)
(* revert.  Who may call what is the subject of RouterGovernance.          *)
(***************************************************************************)
EXTENDS VaultRegistry, RouterSplit

CONSTANTS UsdcVaults,     \* vaults whose asset() is the router's USDC
          FirstVault, FirstRouter,  \* what DeployPortfolioRouter links
          BPS_DENOMINATOR,
          Vectors,        \* weight vectors submitted to the setters
          Statuses,       \* statuses submitted to setVaultStatus
          Caps, Capped,   \* caps submitted, and the vaults they are submitted for
          Gates,          \* vaults that open and close on their own
          Amounts, Donations, Floors,
          QuoteFailures,  \* how the vaults' quotes may fail: vault -> amounts
          Rates,          \* shares per unit of USDC
          Redemptions,    \* sequences of [vault, shares, minAssets]
          Approvals,      \* share allowances the holder gives
          Delegate,       \* a caller of redeemFor that is not the holder
          Holder,         \* payer, receiver and share holder
          Funds           \* USDC of the holder at the start

ASSUME RouterAssumption ==
  /\ UsdcVaults \subseteq Vaults /\ UsdcVaults \cap Codeless = {}
  /\ FirstVault \in UsdcVaults /\ FirstRouter \in Routers
  /\ BPS_DENOMINATOR \in Nat \ {0}
  /\ Statuses \subseteq VaultStatus /\ Capped \cup Gates \subseteq Vaults
  /\ \A x \in Vectors : x \in Seq([vault : Vaults, bps : Nat])
  /\ {Holder, Delegate} \cap (Vaults \cup Routers) = {} /\ Holder # Delegate
  /\ Routers \cap Vaults = {}

VARIABLES
  weights,             \* router -> applied ("voted") vector
  votedWeightsActive,  \* router -> BOOLEAN
  defaultWeights,      \* router -> default vector
  routerCap,           \* router -> Nat, 0 for none
  vaultCap,            \* router -> vault -> Nat, 0 for none
  vaultOpen,           \* the vaults' own gates besides `retired` (external)
  usdc, shares,        \* balances; the holder's shares per vault (external)
  allowance,           \* vault -> spender -> shares (external)
  donated,             \* router -> USDC sent to it outside deposits
  lastDeposit          \* what the events of the last deposit tell

weightVars == <<weights, votedWeightsActive, defaultWeights>>
capVars == <<routerCap, vaultCap>>
moneyVars == <<usdc, shares, allowance, donated, lastDeposit>>
vars == <<registryVars, weightVars, capVars, vaultOpen, moneyVars>>

NoDeposit == [vector |-> << >>]
Spenders == Routers \cup {Delegate}

\* The state DeployPortfolioRouter leaves: one eligible vault, the default
\* vector that gives it everything, and then the link.
Init ==
  /\ registered = {FirstVault}
  /\ status = [v \in Vaults |-> "Active"]
  /\ routerEligible = [v \in Vaults |-> v = FirstVault]
  /\ routerEligibleCount = 1
  /\ router = FirstRouter
  /\ retired = [v \in Vaults |-> FALSE]
  /\ weights = [r \in Routers |-> << >>]
  /\ votedWeightsActive = [r \in Routers |-> FALSE]
  /\ defaultWeights = [r \in Routers |->
       IF r = FirstRouter THEN <<[vault |-> FirstVault, bps |-> BPS_DENOMINATOR]>> ELSE << >>]
  /\ routerCap = [r \in Routers |-> 0]
  /\ vaultCap = [r \in Routers |-> [v \in Vaults |-> 0]]
  /\ vaultOpen = [v \in Vaults |-> TRUE]
  /\ usdc = [p \in {Holder} \cup Routers \cup Vaults |-> IF p = Holder THEN Funds ELSE 0]
  /\ shares = [v \in Vaults |-> 0]
  /\ allowance = [v \in Vaults |-> [s \in Spenders |-> 0]]
  /\ donated = [r \in Routers |-> 0]
  /\ lastDeposit = NoDeposit

-----------------------------------------------------------------------------
(* Weight vectors *)

\* `_requireRouterEligible`, under the eligibility flags `eligible`.
RouterEligible(v, eligible) == v \in UsdcVaults /\ eligible[v]

\* (mutant: only eligibility is required of a leg)
ActiveAndEligible_AnyStatus(v, eligible) == v \in registered /\ RouterEligible(v, eligible)

\* `_requireActiveAndEligible`.
ActiveAndEligible(v, eligible) ==
  /\ v \in registered
  /\ status[v] = "Active"
  /\ RouterEligible(v, eligible)

\* (mutant: a vault may appear twice)
NotRepeated_Anything(x) == TRUE

NotRepeated(x) == \A i, j \in Legs(x) : x[i].vault = x[j].vault => i = j

\* What both setters require of a vector.
ValidVector(x, eligible) ==
  /\ \A i \in Legs(x) : ActiveAndEligible(x[i].vault, eligible)
  /\ NotRepeated(x)
  /\ TotalBps(x) = BPS_DENOMINATOR

setWeights(r, x) ==
  /\ ValidVector(x, routerEligible)
  /\ weights' = [weights EXCEPT ![r] = x]
  /\ votedWeightsActive' = [votedWeightsActive EXCEPT ![r] = TRUE]
  /\ UNCHANGED <<registryVars, defaultWeights, capVars, vaultOpen, moneyVars>>

\* `_setDefaultWeights`: the vector spans the eligible vaults.
WriteDefaultWeights(r, x, eligible, count) ==
  /\ Len(x) = count
  /\ ValidVector(x, eligible)
  /\ defaultWeights' = [defaultWeights EXCEPT ![r] = x]

setDefaultWeights(r, x) ==
  /\ WriteDefaultWeights(r, x, routerEligible, routerEligibleCount)
  /\ UNCHANGED <<registryVars, weights, votedWeightsActive, capVars, vaultOpen, moneyVars>>

clearVotedWeights(r) ==
  /\ weights' = [weights EXCEPT ![r] = << >>]
  /\ votedWeightsActive' = [votedWeightsActive EXCEPT ![r] = FALSE]
  /\ UNCHANGED <<registryVars, defaultWeights, capVars, vaultOpen, moneyVars>>

defaultWeightsLength(r) == IF r = NoRouter THEN 0 ELSE Len(defaultWeights[r])

-----------------------------------------------------------------------------
(* The registry's methods, composed with the router they call *)

RegistryStep(action) == action /\ UNCHANGED <<weightVars, capVars, vaultOpen, moneyVars>>

\* The flag, the count and the linked router's default vector move together:
\* `applyMigrationDefaultWeights` validates against the flipped registry.
migrateEligibility(v, eligible, x) ==
  /\ router # NoRouter
  /\ FlipEligibility(v, eligible)
  /\ WriteDefaultWeights(router, x, [routerEligible EXCEPT ![v] = eligible],
                         CountAfter(v, eligible))
  /\ UNCHANGED <<registered, status, router, retired, weights, votedWeightsActive,
                 capVars, vaultOpen, moneyVars>>

-----------------------------------------------------------------------------
(* Caps, and what the vaults do on their own *)

setRouterCap(r, cap) ==
  /\ routerCap' = [routerCap EXCEPT ![r] = cap]
  /\ UNCHANGED <<registryVars, weightVars, vaultCap, vaultOpen, moneyVars>>

setVaultCap(r, v, cap) ==
  /\ vaultCap' = [vaultCap EXCEPT ![r][v] = cap]
  /\ UNCHANGED <<registryVars, weightVars, routerCap, vaultOpen, moneyVars>>

\* A vault opens or closes its deposits: pause, shutdown, full cap, exclusion.
VaultGate(v) ==
  /\ vaultOpen' = [vaultOpen EXCEPT ![v] = ~@]
  /\ UNCHANGED <<registryVars, weightVars, capVars, moneyVars>>

\* Somebody sends USDC to the router outside a deposit.
Donate(r, amount) ==
  /\ usdc[Holder] >= amount
  /\ usdc' = [usdc EXCEPT ![Holder] = @ - amount, ![r] = @ + amount]
  /\ donated' = [donated EXCEPT ![r] = @ + amount]
  /\ UNCHANGED <<registryVars, weightVars, capVars, vaultOpen, shares, allowance, lastDeposit>>

-----------------------------------------------------------------------------
(* Deposit *)

EffectiveWeights(r) == IF votedWeightsActive[r] THEN weights[r] ELSE defaultWeights[r]

\* (mutant: eligibility is not looked at when a deposit runs)
IsDepositable_Weighted(v) == v \in registered /\ status[v] = "Active" /\ vaultOpen[v] /\ ~retired[v]

\* `_isDepositable`: registry status, eligibility, the vault's own maxDeposit.
IsDepositable(v) ==
  /\ v \in registered /\ status[v] = "Active"
  /\ RouterEligible(v, routerEligible)
  /\ vaultOpen[v] /\ ~retired[v]

\* (mutant: the floor of a skipped leg is waived)
FloorsHold_Waived(floors, legs, minted) ==
  floors # << >> => \A i \in DOMAIN legs : legs[i] # 0 => minted[i] >= floors[i]

\* A skipped leg must have no floor, a funded one must reach it.
FloorsHold(floors, legs, minted) ==
  floors # << >> => \A i \in DOMAIN legs :
    IF legs[i] = 0 THEN floors[i] = 0 ELSE minted[i] >= floors[i]

WithinCaps(r, x, legs) ==
  \A i \in Legs(x) : vaultCap[r][x[i].vault] # 0 => legs[i] <= vaultCap[r][x[i].vault]

\* (mutant: what a vault leaves behind is not noticed)
CustodyRestored_Unchecked(legs, taken) == TRUE

\* The custody check: the balance is back at its value before the pull.
CustodyRestored(legs, taken) == SumTo(taken, Len(legs)) = SumTo(legs, Len(legs))

\* Delivered to vault v by the legs of x.
ToVault(x, amounts, v) == SumTo([i \in Legs(x) |-> IF x[i].vault = v THEN amounts[i] ELSE 0], Len(x))

\* `_depositTo` and `_executeLegs`.  Each vault takes `taken` of its leg and
\* mints at its rate; a vault whose deposit reverts makes the call revert.
deposit(r, amount, floors, reverts, rate, short) ==
  LET x == EffectiveWeights(r)
      available == Surviving(x, amount, reverts,
                             {i \in Legs(x) : IsDepositable(x[i].vault)})
      legs == SplitAcrossAvailable(x, available, amount)
      taken == [i \in Legs(x) |-> IF x[i].vault = short /\ legs[i] > 0
                                  THEN legs[i] - 1 ELSE legs[i]]
      minted == [i \in Legs(x) |-> rate[x[i].vault] * legs[i]]
  IN  /\ x # << >>
      /\ routerCap[r] # 0 => amount <= routerCap[r]
      /\ usdc[Holder] >= amount
      /\ Len(floors) \in {0, Len(x)}
      /\ available # {} /\ \E i \in available : legs[i] # 0
      /\ WithinCaps(r, x, legs)
      /\ FloorsHold(floors, legs, minted)
      /\ CustodyRestored(legs, taken)
      /\ usdc' = [p \in DOMAIN usdc |->
                    IF p = Holder THEN usdc[p] - amount
                    ELSE IF p = r THEN usdc[p] + amount - SumTo(taken, Len(x))
                    ELSE IF p \in Vaults THEN usdc[p] + ToVault(x, taken, p)
                    ELSE usdc[p]]
      /\ shares' = [v \in Vaults |-> shares[v] + ToVault(x, minted, v)]
      /\ lastDeposit' = [vector |-> x, amount |-> amount, floors |-> floors, legs |-> legs,
                         minted |-> minted, available |-> available, reverts |-> reverts]
      /\ UNCHANGED <<registryVars, weightVars, capVars, vaultOpen, allowance, donated>>

-----------------------------------------------------------------------------
(* Redemption *)

approve(v, spender, n) ==
  /\ allowance' = [allowance EXCEPT ![v][spender] = n]
  /\ UNCHANGED <<registryVars, weightVars, capVars, vaultOpen, usdc, shares, donated, lastDeposit>>

\* (mutant: a vault the registry calls Retired is refused)
Redeemable_NotRetired(v) == v \in registered /\ status[v] # "Retired"

\* `_redeemLeg` asks the registry only whether it knows the vault.
Redeemable(v) == v \in registered

\* The caller is the holder or has the holder's allowance.
MayRedeem(caller, v, n) == caller # Holder => allowance[v][caller] >= n

\* Legs come from the caller's list, in order, zero-share legs skipped; the
\* vault spends the router's allowance and pays the holder `loss` less than par.
redeemFor(r, caller, legs, loss) ==
  LET burnt == [v \in Vaults |->
        SumTo([i \in DOMAIN legs |-> IF legs[i].vault = v THEN legs[i].shares ELSE 0], Len(legs))]
      out == [i \in DOMAIN legs |-> IF legs[i].shares = 0 THEN 0 ELSE legs[i].shares - loss]
      paid == [v \in Vaults |->
        SumTo([i \in DOMAIN legs |-> IF legs[i].vault = v THEN out[i] ELSE 0], Len(legs))]
  IN  /\ legs # << >>
      /\ \A i \in DOMAIN legs : legs[i].shares # 0 =>
           /\ Redeemable(legs[i].vault)
           /\ MayRedeem(caller, legs[i].vault, legs[i].shares)
           /\ out[i] >= legs[i].minAssets
      /\ \A v \in Vaults : burnt[v] <= shares[v] /\ burnt[v] <= allowance[v][r]
      /\ \A v \in Vaults : paid[v] <= usdc[v]
      /\ shares' = [v \in Vaults |-> shares[v] - burnt[v]]
      /\ allowance' = [v \in Vaults |-> [allowance[v] EXCEPT ![r] = @ - burnt[v]]]
      /\ usdc' = [p \in DOMAIN usdc |->
                    IF p = Holder THEN usdc[p] + SumTo(out, Len(legs))
                    ELSE IF p \in Vaults THEN usdc[p] - paid[p] ELSE usdc[p]]
      /\ UNCHANGED <<registryVars, weightVars, capVars, vaultOpen, donated, lastDeposit>>

-----------------------------------------------------------------------------

Next ==
  \/ \E v \in Vaults : RegistryStep(registerVault(v))
  \/ \E v \in Vaults : RegistryStep(retire(v))
  \/ \E v \in Vaults : RegistryStep(reactivate(v))
  \/ \E v \in Vaults, s \in Statuses : RegistryStep(setVaultStatus(v, s))
  \/ \E v \in Vaults, eligible \in BOOLEAN :
       RegistryStep(setRouterEligible(v, eligible, defaultWeightsLength(router)))
  \/ \E r \in Routers \cup {NoRouter} :
       RegistryStep(setRouter(r, defaultWeightsLength(router)))
  \/ \E v \in Vaults, eligible \in BOOLEAN, x \in Vectors : migrateEligibility(v, eligible, x)
  \/ \E r \in Routers, x \in Vectors : setWeights(r, x)
  \/ \E r \in Routers, x \in Vectors : setDefaultWeights(r, x)
  \/ \E r \in Routers : clearVotedWeights(r)
  \/ \E r \in Routers, cap \in Caps : setRouterCap(r, cap)
  \/ \E r \in Routers, v \in Capped, cap \in Caps : setVaultCap(r, v, cap)
  \/ \E v \in Gates : VaultGate(v)
  \/ \E r \in Routers, amount \in Donations : Donate(r, amount)
  \/ \E r \in Routers, amount \in Amounts, floors \in Floors, reverts \in QuoteFailures,
        rate \in [Vaults -> Rates], short \in Vaults \cup {Holder} :
       deposit(r, amount, floors, reverts, rate, short)
  \/ \E v \in Vaults, spender \in Spenders, n \in Approvals : approve(v, spender, n)
  \/ \E r \in Routers, caller \in {Holder, Delegate}, legs \in Redemptions, loss \in {0, 1} :
       redeemFor(r, caller, legs, loss)

Spec == Init /\ [][Next]_vars

-----------------------------------------------------------------------------
(* Properties *)

EligibleVaults == {v \in Vaults : routerEligible[v]}

\* Type invariant; the routing flag is set exactly while there is an applied
\* vector to route by.
TypeOK ==
  /\ registered \subseteq Vaults
  /\ status \in [Vaults -> VaultStatus]
  /\ routerEligible \in [Vaults -> BOOLEAN]
  /\ routerEligibleCount \in Nat
  /\ router \in Routers \cup {NoRouter}
  /\ retired \in [Vaults -> BOOLEAN]
  /\ weights \in [Routers -> Seq([vault : Vaults, bps : Nat])]
  /\ votedWeightsActive \in [Routers -> BOOLEAN]
  /\ defaultWeights \in [Routers -> Seq([vault : Vaults, bps : Nat])]
  /\ \A r \in Routers : votedWeightsActive[r] <=> weights[r] # << >>

\* `routerEligibleCount` "mirrors the number of `true` entries" through every
\* order of registrations, toggles and migrations, and only registered vaults
\* are eligible.
CountMirrorsFlags ==
  /\ routerEligibleCount = Cardinality(EligibleVaults)
  /\ EligibleVaults \subseteq registered

\* LIFE-1: "registry status and the vault flag never drift".
StatusDrivesVault ==
  \A v \in registered \ Codeless : retired[v] <=> status[v] # "Active"

\* ADR-0002: the linked router's default vector, once it is set, names exactly
\* the eligible vaults, each once, so "the default can never go stale relative
\* to eligibility".
DefaultSpansEligible ==
  router \in Routers /\ defaultWeights[router] # << >> =>
    LET x == defaultWeights[router]
    IN  /\ {x[i].vault : i \in Legs(x)} = EligibleVaults
        /\ Len(x) = routerEligibleCount

\* "A Retired vault must never remain counted in `routerEligibleCount`", although
\* `setRouterEligible` and `migrateEligibility` do not look at the status.
RetiredNeverEligible ==
  \A v \in Vaults : status[v] = "Retired" => ~routerEligible[v]

\* The router keeps nothing of any deposit: it holds what was sent to it
\* outside deposits, whatever the vaults take.
RouterKeepsNothing == \A r \in Routers : usdc[r] = donated[r]

\* The last deposit was split exactly, and each leg that took part got its
\* share of the weight that took part, rounded down, plus at most the
\* remainder, which is smaller than the number of those legs.
SplitIsProportional ==
  lastDeposit # NoDeposit =>
    LET d == lastDeposit
        total == AvailableBps(d.vector, d.available)
        n == Len(d.vector)
    IN  /\ SumTo(d.legs, n) = d.amount
        /\ \A i \in 1 .. n :
             /\ i \notin d.available \/ d.vector[i].bps = 0 => d.legs[i] = 0
             /\ i \in d.available =>
                  /\ d.legs[i] * total > d.amount * d.vector[i].bps - total
                  /\ d.legs[i] * total <= d.amount * d.vector[i].bps + total * (Cardinality(d.available) - 1)

\* "Every funded available leg has therefore quoted at exactly the amount
\* execute deposits": no vault is given an amount its own preview refuses, also
\* after a refusal elsewhere has made its part larger.
FundedLegsQuoted ==
  lastDeposit # NoDeposit =>
    \A i \in Legs(lastDeposit.vector) :
      lastDeposit.legs[i] # 0 =>
        lastDeposit.legs[i] \notin lastDeposit.reverts[lastDeposit.vector[i].vault]

\* A caller that sets floors gets each of them or the call reverts, the legs
\* that were skipped included.
FloorsHonoured ==
  lastDeposit # NoDeposit /\ lastDeposit.floors # << >> =>
    /\ Len(lastDeposit.floors) = Len(lastDeposit.vector)
    /\ \A i \in Legs(lastDeposit.vector) : lastDeposit.minted[i] >= lastDeposit.floors[i]

\* USDC reaches only vaults that are, at that moment, registered, Active,
\* eligible and open, however old the weight vector is.
FundsReachOpenVaults ==
  [][\A v \in Vaults : usdc'[v] > usdc[v] =>
       /\ v \in registered /\ status[v] = "Active" /\ routerEligible[v]
       /\ vaultOpen[v] /\ ~retired[v]]_vars

\* No status, reweighting or lost eligibility blocks an exit: whoever holds
\* shares and has approved them to a router can redeem them there (F-02, F-03).
ExitNeverBlocked ==
  \A v \in Vaults, r \in Routers :
    shares[v] > 0 /\ allowance[v][r] > 0 /\ usdc[v] > 0 =>
      ENABLED redeemFor(r, Holder, <<[vault |-> v, shares |-> 1, minAssets |-> 0]>>, 0)
=============================================================================
