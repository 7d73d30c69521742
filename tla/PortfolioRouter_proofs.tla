------------------------ MODULE PortfolioRouter_proofs ------------------------
(***************************************************************************)
(* The interlock between router eligibility and the default weight vector, *)
(* for any finite set of vaults, any vectors and any order of calls.       *)
(***************************************************************************)
EXTENDS PortfolioRouter, FiniteSetTheorems, TLAPS

Vector == Seq([vault : Vaults, bps : Nat])

\* An empty vector has no weight, so neither setter accepts it.
LEMMA EmptyTotal == TotalBps(<< >>) = 0
<1> DEFINE f == [i \in Legs(<< >>) |-> << >>[i].bps]
           step(s) == [i \in 0 .. 0 |-> IF i = 0 THEN 0 ELSE s[i - 1] + f[i]]
           zero == [i \in 0 .. 0 |-> 0]
           S == CHOOSE s : s = step(s)
<1>1. zero = step(zero)
  OBVIOUS
<1>2. S = step(S)
  <2> HIDE DEF step, zero
  <2> QED  BY <1>1
<1>3. S[0] = 0
  BY <1>2
<1>4. TotalBps(<< >>) = SumTo(f, 0)
  BY DEF TotalBps
<1>5. SumTo(f, 0) = S[0]
  BY DEF SumTo
<1> QED  BY <1>3, <1>4, <1>5

\* A vector without repetitions that is as long as a finite set and stays in
\* it names the whole set.
LEMMA Pigeonhole ==
  ASSUME NEW x \in Vector, NEW E, IsFiniteSet(E), NotRepeated(x),
         \A i \in Legs(x) : x[i].vault \in E, Len(x) = Cardinality(E)
  PROVE  {x[i].vault : i \in Legs(x)} = E
<1> DEFINE f == [i \in 1 .. Len(x) |-> x[i].vault]
<1>1. Legs(x) = 1 .. Len(x) /\ Len(x) \in Nat
  BY DEF Legs, Vector
<1>2. f \in Injection(1 .. Len(x), E)
  <2>1. f \in [1 .. Len(x) -> E]
    BY <1>1
  <2>2. ASSUME NEW i \in 1 .. Len(x), NEW j \in 1 .. Len(x), f[i] = f[j]
        PROVE  i = j
    <3>1. x[i].vault = x[j].vault
      BY <2>2
    <3> QED  BY <3>1, <1>1 DEF NotRepeated
  <2> HIDE DEF f
  <2> QED  BY <2>1, <2>2 DEF Injection, IsInjective
<1>3. Cardinality(1 .. Len(x)) = Len(x)
  BY <1>1, FS_Interval
<1>4. f \in Surjection(1 .. Len(x), E)
  BY <1>2, <1>3, FS_Injection
<1>5. \A v \in E : \E i \in 1 .. Len(x) : f[i] = v
  BY <1>4 DEF Surjection
<1> QED  BY <1>1, <1>5

\* `CountAfter` counts the flags after the flip.
LEMMA FlipCounts ==
  ASSUME TypeOK, CountMirrorsFlags, NEW v \in Vaults, NEW e \in BOOLEAN
  PROVE  LET E == {u \in Vaults : [routerEligible EXCEPT ![v] = e][u]}
         IN  IsFiniteSet(E) /\ CountAfter(v, e) = Cardinality(E) /\ CountAfter(v, e) \in Nat
<1> DEFINE E == {u \in Vaults : [routerEligible EXCEPT ![v] = e][u]}
<1>1. IsFiniteSet(EligibleVaults) /\ IsFiniteSet(E)
  BY RegistryAssumption, FS_Subset DEF EligibleVaults
<1>2. Cardinality(E) \in Nat
  BY <1>1, FS_CardinalityType
<1>3. CASE routerEligible[v] = e
  <2>1. E = EligibleVaults
    BY <1>3 DEF TypeOK, EligibleVaults
  <2> QED  BY <2>1, <1>1, <1>2, <1>3 DEF CountAfter, CountMirrorsFlags
<1>4. CASE routerEligible[v] # e /\ e
  <2>1. E = EligibleVaults \cup {v} /\ v \notin EligibleVaults
    BY <1>4 DEF TypeOK, EligibleVaults
  <2>2. Cardinality(E) = Cardinality(EligibleVaults) + 1
    BY <2>1, <1>1, FS_AddElement
  <2> QED  BY <2>2, <1>1, <1>2, <1>4 DEF CountAfter, CountMirrorsFlags
<1>5. CASE routerEligible[v] # e /\ ~e
  <2>1. E = EligibleVaults \ {v} /\ v \in EligibleVaults
    BY <1>5 DEF TypeOK, EligibleVaults
  <2>2. Cardinality(E) = Cardinality(EligibleVaults) - 1
    BY <2>1, <1>1, FS_RemoveElement
  <2> QED  BY <2>2, <1>1, <1>2, <1>5 DEF CountAfter, CountMirrorsFlags
<1> QED  BY <1>3, <1>4, <1>5

-----------------------------------------------------------------------------
(* The inductive invariant *)

\* A vault that is not registered has never been told to halt.
Unregistered == \A v \in Vaults \ registered : ~retired[v]

\* The link of the deployment stays, and so does a non-empty default vector.
Linked == router \in Routers /\ defaultWeights[router] # << >>

\* What holds with any number of routers.
RegistryInv == TypeOK /\ CountMirrorsFlags /\ StatusDrivesVault /\ Unregistered

\* What needs the router to be the one that was linked at the deployment.
RouterInv == RegistryInv /\ Linked /\ DefaultSpansEligible /\ RetiredNeverEligible

LEMMA RouterInit == Init => RouterInv
<1> SUFFICES ASSUME Init PROVE RouterInv
  OBVIOUS
<1> DEFINE d == <<[vault |-> FirstVault, bps |-> BPS_DENOMINATOR]>>
<1>1. d \in Vector /\ Len(d) = 1 /\ d # << >> /\ << >> \in Vector
  BY RouterAssumption DEF Vector
<1>2. defaultWeights = [r \in Routers |-> IF r = FirstRouter THEN d ELSE << >>]
  BY DEF Init
<1>3. TypeOK
  <2>1. defaultWeights \in [Routers -> Vector]
    BY <1>1, <1>2
  <2>2. weights \in [Routers -> Vector] /\ \A r \in Routers : weights[r] = << >>
    BY <1>1 DEF Init
  <2>3. /\ registered \subseteq Vaults /\ status \in [Vaults -> VaultStatus]
        /\ routerEligible \in [Vaults -> BOOLEAN] /\ routerEligibleCount \in Nat
        /\ router \in Routers \cup {NoRouter} /\ retired \in [Vaults -> BOOLEAN]
        /\ votedWeightsActive = [r \in Routers |-> FALSE]
    BY RouterAssumption DEF Init, VaultStatus
  <2> QED  BY <2>1, <2>2, <2>3 DEF TypeOK, Vector
<1>4. EligibleVaults = {FirstVault}
  BY RouterAssumption DEF Init, EligibleVaults
<1>5. CountMirrorsFlags
  <2>1. Cardinality({FirstVault}) = 1
    BY FS_Singleton
  <2> QED  BY <2>1, <1>4 DEF Init, CountMirrorsFlags
<1>6. StatusDrivesVault /\ Unregistered /\ RetiredNeverEligible
  BY RouterAssumption DEF Init, StatusDrivesVault, Unregistered, RetiredNeverEligible
<1>7. router = FirstRouter /\ defaultWeights[router] = d
  BY <1>2, RouterAssumption DEF Init
<1>8. Linked
  BY <1>7, <1>1, RouterAssumption DEF Linked
<1>9. DefaultSpansEligible
  <2>1. {d[i].vault : i \in Legs(d)} = {FirstVault}
    BY DEF Legs
  <2>2. routerEligibleCount = 1
    BY DEF Init
  <2> QED  BY <1>1, <1>4, <1>7, <2>1, <2>2 DEF DefaultSpansEligible
<1> QED  BY <1>3, <1>5, <1>6, <1>8, <1>9 DEF RouterInv, RegistryInv

\* Accepting a default vector: it is not empty, spans the flags it was checked
\* against, and every vault it names is Active.
LEMMA AcceptedDefault ==
  ASSUME NEW x \in Vector, NEW e \in [Vaults -> BOOLEAN], NEW n,
         IsFiniteSet({v \in Vaults : e[v]}), n = Cardinality({v \in Vaults : e[v]}),
         Len(x) = n, ValidVector(x, e)
  PROVE  /\ x # << >>
         /\ {x[i].vault : i \in Legs(x)} = {v \in Vaults : e[v]}
         /\ \A v \in Vaults : e[v] => status[v] = "Active"
<1>1. x # << >>
  BY EmptyTotal, RouterAssumption DEF ValidVector
<1>2. \A i \in Legs(x) : x[i].vault \in {v \in Vaults : e[v]} /\ status[x[i].vault] = "Active"
  BY RouterAssumption DEF ValidVector, ActiveAndEligible, RouterEligible
<1>3. {x[i].vault : i \in Legs(x)} = {v \in Vaults : e[v]}
  BY <1>2, Pigeonhole DEF ValidVector
<1> QED  BY <1>1, <1>2, <1>3

\* The calls that touch neither the registry nor a weight vector.
Elsewhere ==
  \/ \E r \in Routers, cap \in Caps : setRouterCap(r, cap)
  \/ \E r \in Routers, v \in Capped, cap \in Caps : setVaultCap(r, v, cap)
  \/ \E v \in Gates : VaultGate(v)
  \/ \E r \in Routers, amount \in Donations : Donate(r, amount)
  \/ \E r \in Routers, amount \in Amounts, floors \in Floors, reverts \in QuoteFailures,
        rate \in [Vaults -> Rates], short \in Vaults \cup {Holder} :
       deposit(r, amount, floors, reverts, rate, short)
  \/ \E v \in Vaults, spender \in Spenders, n \in Approvals : approve(v, spender, n)
  \/ \E r \in Routers, caller \in {Holder, Delegate}, legs \in Redemptions, loss \in {0, 1} :
       redeemFor(r, caller, legs, loss)

LEMMA ElsewhereUnchanged == Elsewhere => UNCHANGED <<registryVars, weightVars>>
<1>1. ASSUME NEW r, NEW v, NEW cap, setRouterCap(r, cap) \/ setVaultCap(r, v, cap)
      PROVE  UNCHANGED <<registryVars, weightVars>>
  BY <1>1 DEF setRouterCap, setVaultCap
<1>2. ASSUME NEW r, NEW v, NEW n, NEW s, VaultGate(v) \/ Donate(r, n) \/ approve(v, s, n)
      PROVE  UNCHANGED <<registryVars, weightVars>>
  BY <1>2 DEF VaultGate, Donate, approve
<1>3. ASSUME NEW r, NEW amount, NEW floors, NEW reverts, NEW rate, NEW short,
             deposit(r, amount, floors, reverts, rate, short)
      PROVE  UNCHANGED <<registryVars, weightVars>>
  BY <1>3 DEF deposit
<1>4. ASSUME NEW r, NEW caller, NEW legs, NEW loss, redeemFor(r, caller, legs, loss)
      PROVE  UNCHANGED <<registryVars, weightVars>>
  BY <1>4 DEF redeemFor
<1> QED  BY <1>1, <1>2, <1>3, <1>4 DEF Elsewhere

\* Registering a vault and the three ways to move its status.
LEMMA StatusStep ==
  ASSUME RegistryInv, NEW v \in Vaults, NEW s \in VaultStatus,
         registerVault(v) \/ retire(v) \/ reactivate(v) \/ setVaultStatus(v, s),
         UNCHANGED weightVars
  PROVE  /\ RegistryInv'
         /\ UNCHANGED <<routerEligible, routerEligibleCount, router, defaultWeights>>
         /\ RetiredNeverEligible => RetiredNeverEligible'
<1> USE DEF RegistryInv, registryVars, weightVars
<1>1. UNCHANGED <<routerEligible, routerEligibleCount, router, defaultWeights>>
  BY DEF registerVault, retire, reactivate, setVaultStatus
<1>2. /\ registered' \subseteq Vaults /\ registered \subseteq registered'
      /\ status' \in [Vaults -> VaultStatus] /\ retired' \in [Vaults -> BOOLEAN]
  BY DEF registerVault, retire, reactivate, setVaultStatus, DepositHalt, TypeOK, VaultStatus
<1>3. TypeOK'
  BY <1>1, <1>2 DEF TypeOK
<1>4. CountMirrorsFlags'
  <2>1. EligibleVaults' = EligibleVaults
    BY <1>1 DEF EligibleVaults
  <2> QED  BY <2>1, <1>1, <1>2 DEF CountMirrorsFlags
<1>5. StatusDrivesVault' /\ Unregistered'
  <2>1. CASE registerVault(v)
    BY <2>1 DEF registerVault, TypeOK, StatusDrivesVault, Unregistered
  <2>2. CASE retire(v)
    BY <2>2 DEF retire, DepositHalt, TypeOK, StatusDrivesVault, Unregistered
  <2>3. CASE reactivate(v)
    BY <2>3 DEF reactivate, DepositHalt, TypeOK, StatusDrivesVault, Unregistered
  <2>4. CASE setVaultStatus(v, s)
    BY <2>4 DEF setVaultStatus, DepositHalt, TypeOK, StatusDrivesVault, Unregistered
  <2> QED  BY <2>1, <2>2, <2>3, <2>4
<1>6. RetiredNeverEligible => RetiredNeverEligible'
  <2> SUFFICES ASSUME RetiredNeverEligible, NEW u \in Vaults, status'[u] = "Retired"
               PROVE  ~routerEligible[u]
    BY <1>1 DEF RetiredNeverEligible
  <2>1. CASE registerVault(v)
    BY <2>1 DEF registerVault, TypeOK, RetiredNeverEligible
  <2>2. CASE retire(v)
    BY <2>2 DEF retire, TypeOK, RetiredNeverEligible
  <2>3. CASE reactivate(v)
    BY <2>3 DEF reactivate, TypeOK, RetiredNeverEligible
  <2>4. CASE setVaultStatus(v, s)
    BY <2>4 DEF setVaultStatus, TypeOK, RetiredNeverEligible
  <2> QED  BY <2>1, <2>2, <2>3, <2>4
<1> QED  BY <1>1, <1>3, <1>4, <1>5, <1>6

\* A flip of one flag keeps the count right, whichever method does it.
LEMMA FlipStep ==
  ASSUME RegistryInv, NEW v \in Vaults, NEW e \in BOOLEAN, FlipEligibility(v, e),
         UNCHANGED <<registered, status, router, retired, weights, votedWeightsActive>>,
         defaultWeights' \in [Routers -> Vector]
  PROVE  RegistryInv'
<1>1. routerEligible' \in [Vaults -> BOOLEAN]
  BY DEF FlipEligibility, RegistryInv, TypeOK
<1>2. EligibleVaults' = {u \in Vaults : [routerEligible EXCEPT ![v] = e][u]}
  BY DEF FlipEligibility, EligibleVaults
<1>3. routerEligibleCount' = Cardinality(EligibleVaults') /\ routerEligibleCount' \in Nat
  BY <1>2, FlipCounts DEF FlipEligibility, RegistryInv
<1>4. EligibleVaults' \subseteq registered'
  BY <1>2 DEF FlipEligibility, RegistryInv, TypeOK, CountMirrorsFlags, EligibleVaults
<1> QED  BY <1>1, <1>3, <1>4
         DEF RegistryInv, TypeOK, CountMirrorsFlags, StatusDrivesVault, Unregistered, Vector

\* A vector written by one of the setters.
LEMMA WeightsStep ==
  ASSUME RegistryInv, NEW r \in Routers, NEW x \in Vector,
         setWeights(r, x) \/ setDefaultWeights(r, x) \/ clearVotedWeights(r)
  PROVE  RegistryInv' /\ UNCHANGED registryVars
<1>1. UNCHANGED registryVars
  BY DEF setWeights, setDefaultWeights, WriteDefaultWeights, clearVotedWeights
<1>2. EligibleVaults' = EligibleVaults
  BY <1>1 DEF EligibleVaults, registryVars
<1>3. TypeOK'
  <2>1. << >> \in Vector
    BY DEF Vector
  <2>2. CASE setWeights(r, x)
    <3>1. x # << >>
      BY <2>2, EmptyTotal, RouterAssumption DEF setWeights, ValidVector
    <3> QED  BY <2>2, <3>1, <1>1 DEF setWeights, RegistryInv, TypeOK, registryVars, Vector
  <2>3. CASE setDefaultWeights(r, x)
    BY <2>3, <1>1 DEF setDefaultWeights, WriteDefaultWeights, RegistryInv, TypeOK, registryVars, Vector
  <2>4. CASE clearVotedWeights(r)
    BY <2>1, <2>4, <1>1 DEF clearVotedWeights, RegistryInv, TypeOK, registryVars, Vector
  <2> QED  BY <2>2, <2>3, <2>4
<1> QED  BY <1>1, <1>2, <1>3
         DEF RegistryInv, CountMirrorsFlags, StatusDrivesVault, Unregistered, registryVars

LEMMA UnchangedInv ==
  ASSUME UNCHANGED <<registryVars, weightVars>>
  PROVE  (RegistryInv => RegistryInv') /\ (RouterInv => RouterInv')
<1> USE DEF registryVars, weightVars
<1>1. EligibleVaults' = EligibleVaults
  BY DEF EligibleVaults
<1>2. RegistryInv => RegistryInv'
  BY <1>1 DEF RegistryInv, TypeOK, CountMirrorsFlags, StatusDrivesVault, Unregistered
<1>3. Linked /\ DefaultSpansEligible /\ RetiredNeverEligible =>
        Linked' /\ DefaultSpansEligible' /\ RetiredNeverEligible'
  BY <1>1 DEF Linked, DefaultSpansEligible, RetiredNeverEligible
<1> QED  BY <1>2, <1>3 DEF RouterInv

LEMMA RegistryStepInv == RegistryInv /\ [Next]_vars => RegistryInv'
<1> SUFFICES ASSUME RegistryInv, [Next]_vars PROVE RegistryInv'
  OBVIOUS
<1>0. Vectors \subseteq Vector /\ Statuses \subseteq VaultStatus /\ "Active" \in VaultStatus
  BY RouterAssumption DEF Vector, VaultStatus
<1>1. ASSUME NEW v \in Vaults, NEW s \in VaultStatus,
             \/ RegistryStep(registerVault(v)) \/ RegistryStep(retire(v))
             \/ RegistryStep(reactivate(v)) \/ RegistryStep(setVaultStatus(v, s))
      PROVE  RegistryInv'
  BY <1>1, StatusStep DEF RegistryStep
<1>2. ASSUME NEW v \in Vaults, NEW e \in BOOLEAN, NEW n, RegistryStep(setRouterEligible(v, e, n))
      PROVE  RegistryInv'
  <2>1. /\ FlipEligibility(v, e)
        /\ UNCHANGED <<registered, status, router, retired, weights, votedWeightsActive>>
        /\ defaultWeights' \in [Routers -> Vector]
    BY <1>2 DEF RegistryStep, setRouterEligible, weightVars, RegistryInv, TypeOK, Vector
  <2> QED  BY <2>1, FlipStep
<1>3. ASSUME NEW r \in Routers \cup {NoRouter}, NEW n, RegistryStep(setRouter(r, n))
      PROVE  RegistryInv'
  <2>1. EligibleVaults' = EligibleVaults
    BY <1>3 DEF RegistryStep, setRouter, EligibleVaults
  <2> QED  BY <1>3, <2>1 DEF RegistryStep, setRouter, weightVars, RegistryInv, TypeOK,
                             CountMirrorsFlags, StatusDrivesVault, Unregistered
<1>4. ASSUME NEW v \in Vaults, NEW e \in BOOLEAN, NEW x \in Vector, migrateEligibility(v, e, x)
      PROVE  RegistryInv'
  <2>1. /\ FlipEligibility(v, e)
        /\ UNCHANGED <<registered, status, router, retired, weights, votedWeightsActive>>
        /\ defaultWeights' \in [Routers -> Vector]
    BY <1>4 DEF migrateEligibility, WriteDefaultWeights, RegistryInv, TypeOK, Vector
  <2> QED  BY <2>1, FlipStep
<1>5. ASSUME NEW r \in Routers, NEW x \in Vector,
             setWeights(r, x) \/ setDefaultWeights(r, x) \/ clearVotedWeights(r)
      PROVE  RegistryInv'
  BY <1>5, WeightsStep
<1>6. CASE Elsewhere
  BY <1>6, ElsewhereUnchanged, UnchangedInv
<1>7. CASE UNCHANGED vars
  BY <1>7, UnchangedInv DEF vars
<1>8. << >> \in Vector
  BY DEF Vector
<1> QED  BY <1>0, <1>1, <1>2, <1>3, <1>4, <1>5, <1>6, <1>7, <1>8 DEF Next, Elsewhere

\* For any number of routers, any vectors and any calls: the eligible count
\* counts the flags (`setRouterEligible`, `migrateEligibility`) and no vault's
\* deposit halt disagrees with its registry status (`setVaultStatus`, `retire`,
\* `reactivate`).
THEOREM RegistrySafe == Spec => [](TypeOK /\ CountMirrorsFlags /\ StatusDrivesVault)
<1>1. Init => RegistryInv
  BY RouterInit DEF RouterInv
<1>2. RegistryInv => TypeOK /\ CountMirrorsFlags /\ StatusDrivesVault
  BY DEF RegistryInv
<1> QED  BY <1>1, <1>2, RegistryStepInv, PTL DEF Spec

-----------------------------------------------------------------------------
(* One router *)

\* No call unlinks or replaces the only router, and each leaves its default
\* vector spanning the eligible vaults.
LEMMA RouterStep ==
  ASSUME \A r, s \in Routers : r = s
  PROVE  RouterInv /\ [Next]_vars => RouterInv'
<1> SUFFICES ASSUME RouterInv, [Next]_vars PROVE RouterInv'
  OBVIOUS
<1>a. RegistryInv /\ RegistryInv'
  BY RegistryStepInv DEF RouterInv
<1>b. Vectors \subseteq Vector /\ Statuses \subseteq VaultStatus /\ "Active" \in VaultStatus
  BY RouterAssumption DEF Vector, VaultStatus
<1>c. /\ router \in Routers /\ defaultWeights[router] \in Vector
      /\ defaultWeights[router] # << >> /\ Len(defaultWeights[router]) = routerEligibleCount
      /\ Len(defaultWeights[router]) \in Nat \ {0}
  <2>1. router \in Routers /\ defaultWeights[router] # << >>
    BY DEF RouterInv, Linked
  <2>2. defaultWeights[router] \in Vector
    BY <2>1, <1>a DEF RegistryInv, TypeOK, Vector
  <2>3. Len(defaultWeights[router]) = routerEligibleCount
    BY <2>1 DEF RouterInv, DefaultSpansEligible
  <2>4. \A x \in Vector : x # << >> => Len(x) \in Nat \ {0}
    BY DEF Vector
  <2> QED  BY <2>1, <2>2, <2>3, <2>4
<1>d. router # NoRouter /\ defaultWeightsLength(router) = routerEligibleCount
  BY <1>c, RegistryAssumption DEF defaultWeightsLength
<1> SUFFICES Linked' /\ DefaultSpansEligible' /\ RetiredNeverEligible'
  BY <1>a DEF RouterInv
<1>1. ASSUME NEW v \in Vaults, NEW s \in VaultStatus,
             \/ RegistryStep(registerVault(v)) \/ RegistryStep(retire(v))
             \/ RegistryStep(reactivate(v)) \/ RegistryStep(setVaultStatus(v, s))
      PROVE  Linked' /\ DefaultSpansEligible' /\ RetiredNeverEligible'
  <2>1. /\ UNCHANGED <<routerEligible, routerEligibleCount, router, defaultWeights>>
        /\ RetiredNeverEligible'
    BY <1>1, <1>a, StatusStep DEF RegistryStep, RouterInv
  <2>2. EligibleVaults' = EligibleVaults
    BY <2>1 DEF EligibleVaults
  <2> QED  BY <2>1, <2>2 DEF RouterInv, Linked, DefaultSpansEligible
\* The guard of `setRouterEligible` never holds: the vector has the old length.
<1>2. ASSUME NEW v \in Vaults, NEW e \in BOOLEAN,
             RegistryStep(setRouterEligible(v, e, defaultWeightsLength(router)))
      PROVE  FALSE
  <2>1. CountAfter(v, e) # routerEligibleCount
    BY <1>2, <1>a DEF RegistryStep, setRouterEligible, CountAfter, RegistryInv, TypeOK
  <2> QED  BY <2>1, <1>2, <1>c, <1>d DEF RegistryStep, setRouterEligible, LengthStaysFresh
\* Unlinking is blocked; linking finds the same router.
<1>3. ASSUME NEW r \in Routers \cup {NoRouter},
             RegistryStep(setRouter(r, defaultWeightsLength(router)))
      PROVE  Linked' /\ DefaultSpansEligible' /\ RetiredNeverEligible'
  <2>1. r = router
    BY <1>3, <1>c, <1>d DEF RegistryStep, setRouter
  <2>2. UNCHANGED <<registryVars, weightVars>>
    BY <1>3, <2>1 DEF RegistryStep, setRouter, registryVars
  <2> QED  BY <2>2, UnchangedInv DEF RouterInv
\* A vector is written against flags `f` that become the flags of the registry.
<1>4. ASSUME NEW x \in Vector, NEW f \in [Vaults -> BOOLEAN], NEW n,
             routerEligible' = f, routerEligibleCount' = n,
             UNCHANGED <<router, status>>, WriteDefaultWeights(router, x, f, n)
      PROVE  Linked' /\ DefaultSpansEligible' /\ RetiredNeverEligible'
  <2>1. EligibleVaults' = {v \in Vaults : f[v]}
    BY <1>4 DEF EligibleVaults
  <2>2. IsFiniteSet({v \in Vaults : f[v]}) /\ n = Cardinality({v \in Vaults : f[v]})
    BY <2>1, <1>4, <1>a, RegistryAssumption, FS_Subset DEF RegistryInv, CountMirrorsFlags
  <2>3. Len(x) = n /\ ValidVector(x, f) /\ defaultWeights'[router] = x
    BY <1>4, <1>a, <1>c DEF WriteDefaultWeights, RegistryInv, TypeOK
  <2>4. /\ x # << >> /\ {x[i].vault : i \in Legs(x)} = {v \in Vaults : f[v]}
        /\ \A v \in Vaults : f[v] => status[v] = "Active"
    BY <2>2, <2>3, AcceptedDefault
  <2>5. router' = router /\ defaultWeights'[router'] = x
    BY <1>4, <2>3
  <2>6. Linked' /\ DefaultSpansEligible'
    BY <2>1, <2>3, <2>4, <2>5, <1>4, <1>c DEF Linked, DefaultSpansEligible
  <2>7. RetiredNeverEligible'
    BY <2>4, <1>4 DEF RetiredNeverEligible
  <2> QED  BY <2>6, <2>7
<1>5. ASSUME NEW v \in Vaults, NEW e \in BOOLEAN, NEW x \in Vector, migrateEligibility(v, e, x)
      PROVE  Linked' /\ DefaultSpansEligible' /\ RetiredNeverEligible'
  <2>1. [routerEligible EXCEPT ![v] = e] \in [Vaults -> BOOLEAN]
    BY <1>a DEF RegistryInv, TypeOK
  <2> QED  BY <2>1, <1>4, <1>5 DEF migrateEligibility, FlipEligibility
<1>6. ASSUME NEW r \in Routers, NEW x \in Vector, setDefaultWeights(r, x)
      PROVE  Linked' /\ DefaultSpansEligible' /\ RetiredNeverEligible'
  <2>1. r = router
    BY <1>c
  <2>2. routerEligible \in [Vaults -> BOOLEAN]
    BY <1>a DEF RegistryInv, TypeOK
  <2> QED  BY <2>1, <2>2, <1>4, <1>6 DEF setDefaultWeights, registryVars
<1>7. ASSUME NEW r \in Routers, NEW x \in Vector, setWeights(r, x) \/ clearVotedWeights(r)
      PROVE  Linked' /\ DefaultSpansEligible' /\ RetiredNeverEligible'
  <2>1. UNCHANGED <<registryVars, defaultWeights>>
    BY <1>7 DEF setWeights, clearVotedWeights
  <2>2. EligibleVaults' = EligibleVaults
    BY <2>1 DEF EligibleVaults, registryVars
  <2> QED  BY <2>1, <2>2 DEF RouterInv, Linked, DefaultSpansEligible, RetiredNeverEligible, registryVars
<1>8. CASE Elsewhere \/ UNCHANGED vars
  <2>1. UNCHANGED <<registryVars, weightVars>>
    BY <1>8, ElsewhereUnchanged DEF vars
  <2> QED  BY <2>1, UnchangedInv DEF RouterInv
<1>9. << >> \in Vector
  BY DEF Vector
<1> QED  BY <1>b, <1>1, <1>2, <1>3, <1>5, <1>6, <1>7, <1>8, <1>9 DEF Next, Elsewhere

\* While the registry knows one router, which is how it is deployed, its default
\* vector names exactly the eligible vaults and no retired vault is eligible,
\* although neither `setRouterEligible` nor `migrateEligibility` reads the status.
THEOREM InterlockHolds ==
  ASSUME \A r, s \in Routers : r = s
  PROVE  Spec => [](DefaultSpansEligible /\ RetiredNeverEligible)
<1>1. RouterInv /\ [Next]_vars => RouterInv'
  BY RouterStep
<1>2. RouterInv => DefaultSpansEligible /\ RetiredNeverEligible
  BY DEF RouterInv
<1> QED  BY <1>1, <1>2, RouterInit, PTL DEF Spec
=============================================================================
