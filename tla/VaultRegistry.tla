---------------------------- MODULE VaultRegistry ----------------------------
(***************************************************************************)
(* VaultRegistry.sol: the registered vaults, their lifecycle status, their *)
(* router eligibility and the linked PortfolioRouter.  Every method is for *)
(* ADMIN_ROLE (the timelock); the operators below say what a call that     *)
(* does not revert changes, PortfolioRouter composes them with the router. *)
(***************************************************************************)
EXTENDS Integers, FiniteSets

CONSTANTS Vaults,
          Hooked,     \* vaults whose retire/unretire hook answers this registry
          Codeless,   \* registered addresses without contract code
          Routers,    \* PortfolioRouter deployments
          NoRouter    \* address(0)

VaultStatus == {"Active", "DepositsPaused", "Retired"}

ASSUME RegistryAssumption ==
  /\ IsFiniteSet(Vaults)
  /\ Hooked \subseteq Vaults /\ Codeless \subseteq Vaults /\ Hooked \cap Codeless = {}
  /\ NoRouter \notin Routers

VARIABLES registered,           \* _registered and _vaults
          status,               \* _status
          routerEligible,       \* _routerEligible
          routerEligibleCount,
          router,               \* the linked router
          retired               \* the vaults' own deposit-halt flags

registryVars == <<registered, status, routerEligible, routerEligibleCount, router, retired>>

registerVault(v) ==
  /\ v \notin registered
  /\ registered' = registered \cup {v}
  /\ status' = [status EXCEPT ![v] = "Active"]
  /\ UNCHANGED <<routerEligible, routerEligibleCount, router, retired>>

\* `retire()` and `unretire()` of the vault; a refusal reverts the whole call.
DepositHalt(v, halt) ==
  /\ v \in Hooked
  /\ retired' = [retired EXCEPT ![v] = halt]

retire(v) ==
  /\ v \in registered
  /\ ~routerEligible[v]
  /\ status' = [status EXCEPT ![v] = "Retired"]
  /\ DepositHalt(v, TRUE)
  /\ UNCHANGED <<registered, routerEligible, routerEligibleCount, router>>

reactivate(v) ==
  /\ v \in registered
  /\ status' = [status EXCEPT ![v] = "Active"]
  /\ DepositHalt(v, FALSE)
  /\ UNCHANGED <<registered, routerEligible, routerEligibleCount, router>>

\* (mutant: only the Retired status drives the vault's flag)
setVaultStatus_RetiredOnly(v, s) ==
  /\ v \in registered
  /\ ~(s = "Retired" /\ routerEligible[v])
  /\ status' = [status EXCEPT ![v] = s]
  /\ IF v \in Codeless \/ s = "DepositsPaused" THEN UNCHANGED retired
     ELSE DepositHalt(v, s # "Active")
  /\ UNCHANGED <<registered, routerEligible, routerEligibleCount, router>>

\* (mutant: the second door to Retired has no eligibility check)
setVaultStatus_AnyRetire(v, s) ==
  /\ v \in registered
  /\ status' = [status EXCEPT ![v] = s]
  /\ IF v \in Codeless THEN UNCHANGED retired ELSE DepositHalt(v, s # "Active")
  /\ UNCHANGED <<registered, routerEligible, routerEligibleCount, router>>

setVaultStatus(v, s) ==
  /\ v \in registered
  /\ ~(s = "Retired" /\ routerEligible[v])
  /\ status' = [status EXCEPT ![v] = s]
  /\ IF v \in Codeless THEN UNCHANGED retired ELSE DepositHalt(v, s # "Active")
  /\ UNCHANGED <<registered, routerEligible, routerEligibleCount, router>>

\* (mutant: the count moves although the flag does not)
CountAfter_Always(v, eligible) == routerEligibleCount + (IF eligible THEN 1 ELSE -1)

\* routerEligibleCount once `v`'s flag is `eligible`.
CountAfter(v, eligible) ==
  IF routerEligible[v] = eligible THEN routerEligibleCount
  ELSE IF eligible THEN routerEligibleCount + 1 ELSE routerEligibleCount - 1

FlipEligibility(v, eligible) ==
  /\ v \in registered
  /\ routerEligibleCount' = CountAfter(v, eligible)
  /\ routerEligible' = [routerEligible EXCEPT ![v] = eligible]

\* (mutant: the length of the default vector is not looked at)
LengthStaysFresh_Unchecked(newCount, defaultLength) == TRUE

\* The stale-length guard: an empty default vector is always consistent.
LengthStaysFresh(newCount, defaultLength) ==
  router # NoRouter /\ defaultLength # 0 => defaultLength = newCount

\* `defaultLength` is what `router.defaultWeightsLength()` answers.
setRouterEligible(v, eligible, defaultLength) ==
  /\ routerEligible[v] # eligible
  /\ LengthStaysFresh(CountAfter(v, eligible), defaultLength)
  /\ FlipEligibility(v, eligible)
  /\ UNCHANGED <<registered, status, router, retired>>

setRouter(newRouter, defaultLength) ==
  /\ newRouter = NoRouter /\ router # NoRouter => defaultLength = 0
  /\ router' = newRouter
  /\ UNCHANGED <<registered, status, routerEligible, routerEligibleCount, retired>>
=============================================================================
