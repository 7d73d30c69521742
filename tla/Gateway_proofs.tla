---------------------------- MODULE Gateway_proofs ----------------------------
(***************************************************************************)
(* Proofs about the registrations and roles of Gateway, for any accounts,  *)
(* policies, vaults and clock.                                             *)
(***************************************************************************)
EXTENDS Gateway, FiniteSetTheorems, TLAPS

\* The role table: typed, finite, separated and correctly counted.
RolesInv ==
  /\ hasRole \in [Roles -> SUBSET Accounts]
  /\ adminCount \in Nat /\ defaultAdminCount \in Nat
  /\ \A r \in Roles : IsFiniteSet(hasRole[r])
  /\ RoleSeparation
  /\ AdminFloor

\* `_grantRole` keeps the role table and adds the one member.
LEMMA GrantKeepsRoles ==
  ASSUME NEW role \in Roles, NEW account \in Accounts, RolesInv, GrantRole(role, account)
  PROVE  /\ RolesInv'
         /\ hasRole' = [hasRole EXCEPT ![role] = @ \cup {account}]
<1> USE DEF ADMIN_ROLE, DEFAULT_ADMIN_ROLE, DEPOSIT_PAUSER_ROLE, AGENT_ROLE, Roles
<1>1. hasRole' = [hasRole EXCEPT ![role] = @ \cup {account}]
  BY DEF GrantRole
<1>2. hasRole' \in [Roles -> SUBSET Accounts]
  BY <1>1 DEF RolesInv
<1>3. \A r \in Roles : IsFiniteSet(hasRole'[r])
  <2>1. IsFiniteSet(hasRole[role] \cup {account})
    BY FS_AddElement DEF RolesInv
  <2> QED
    BY <1>1, <2>1 DEF RolesInv
<1>4. RoleSeparation'
  BY <1>1 DEF RolesInv, RoleSeparation, GrantRole, GrantAllowed, IsAdminTier
<1>5. \A r \in Roles : Cardinality(hasRole'[r]) =
        IF r = role /\ account \notin hasRole[r] THEN Cardinality(hasRole[r]) + 1
                                                ELSE Cardinality(hasRole[r])
  <2>1. IsFiniteSet(hasRole[role])
    BY DEF RolesInv
  <2>2. Cardinality(hasRole[role] \cup {account}) =
          IF account \in hasRole[role] THEN Cardinality(hasRole[role])
                                       ELSE Cardinality(hasRole[role]) + 1
    BY <2>1, FS_AddElement
  <2> QED
    BY <1>1, <2>2 DEF RolesInv
<1>6. AdminFloor' /\ adminCount' \in Nat /\ defaultAdminCount' \in Nat
  <2>1. /\ adminCount' = IF account \notin hasRole[role] /\ role = ADMIN_ROLE
                         THEN adminCount + 1 ELSE adminCount
        /\ defaultAdminCount' = IF account \notin hasRole[role] /\ role = DEFAULT_ADMIN_ROLE
                                THEN defaultAdminCount + 1 ELSE defaultAdminCount
    BY DEF GrantRole
  <2>2. /\ Cardinality(hasRole'[ADMIN_ROLE]) =
             IF ADMIN_ROLE = role /\ account \notin hasRole[ADMIN_ROLE]
             THEN Cardinality(hasRole[ADMIN_ROLE]) + 1 ELSE Cardinality(hasRole[ADMIN_ROLE])
        /\ Cardinality(hasRole'[DEFAULT_ADMIN_ROLE]) =
             IF DEFAULT_ADMIN_ROLE = role /\ account \notin hasRole[DEFAULT_ADMIN_ROLE]
             THEN Cardinality(hasRole[DEFAULT_ADMIN_ROLE]) + 1
             ELSE Cardinality(hasRole[DEFAULT_ADMIN_ROLE])
    BY <1>5
  <2> QED
    BY <2>1, <2>2 DEF RolesInv, AdminFloor
<1> QED
  BY <1>1, <1>2, <1>3, <1>4, <1>6 DEF RolesInv

\* `_revokeRole` keeps the role table and drops the one member.
LEMMA RevokeKeepsRoles ==
  ASSUME NEW role \in Roles, NEW account \in Accounts, RolesInv, RevokeRole(role, account)
  PROVE  /\ RolesInv'
         /\ hasRole' = [hasRole EXCEPT ![role] = @ \ {account}]
<1> USE DEF ADMIN_ROLE, DEFAULT_ADMIN_ROLE, DEPOSIT_PAUSER_ROLE, AGENT_ROLE, Roles
<1>1. hasRole' = [hasRole EXCEPT ![role] = @ \ {account}]
  BY DEF RevokeRole
<1>2. hasRole' \in [Roles -> SUBSET Accounts]
  BY <1>1 DEF RolesInv
<1>3. \A r \in Roles : IsFiniteSet(hasRole'[r])
  <2>1. IsFiniteSet(hasRole[role] \ {account})
    BY FS_RemoveElement DEF RolesInv
  <2> QED
    BY <1>1, <2>1 DEF RolesInv
<1>4. RoleSeparation'
  BY <1>1 DEF RolesInv, RoleSeparation
<1>5. \A r \in Roles : Cardinality(hasRole'[r]) =
        IF r = role /\ account \in hasRole[r] THEN Cardinality(hasRole[r]) - 1
                                             ELSE Cardinality(hasRole[r])
  <2>1. IsFiniteSet(hasRole[role])
    BY DEF RolesInv
  <2>2. Cardinality(hasRole[role] \ {account}) =
          IF account \in hasRole[role] THEN Cardinality(hasRole[role]) - 1
                                       ELSE Cardinality(hasRole[role])
    BY <2>1, FS_RemoveElement
  <2> QED
    BY <1>1, <2>2 DEF RolesInv
<1>6. AdminFloor' /\ adminCount' \in Nat /\ defaultAdminCount' \in Nat
  <2>1. /\ account \in hasRole[role] /\ role = ADMIN_ROLE => adminCount # 1
        /\ account \in hasRole[role] /\ role = DEFAULT_ADMIN_ROLE => defaultAdminCount # 1
        /\ adminCount' = IF account \in hasRole[role] /\ role = ADMIN_ROLE
                         THEN adminCount - 1 ELSE adminCount
        /\ defaultAdminCount' = IF account \in hasRole[role] /\ role = DEFAULT_ADMIN_ROLE
                                THEN defaultAdminCount - 1 ELSE defaultAdminCount
    BY DEF RevokeRole
  <2>2. /\ Cardinality(hasRole'[ADMIN_ROLE]) =
             IF ADMIN_ROLE = role /\ account \in hasRole[ADMIN_ROLE]
             THEN Cardinality(hasRole[ADMIN_ROLE]) - 1 ELSE Cardinality(hasRole[ADMIN_ROLE])
        /\ Cardinality(hasRole'[DEFAULT_ADMIN_ROLE]) =
             IF DEFAULT_ADMIN_ROLE = role /\ account \in hasRole[DEFAULT_ADMIN_ROLE]
             THEN Cardinality(hasRole[DEFAULT_ADMIN_ROLE]) - 1
             ELSE Cardinality(hasRole[DEFAULT_ADMIN_ROLE])
    BY <1>5
  <2> QED
    BY <2>1, <2>2 DEF RolesInv, AdminFloor
<1> QED
  BY <1>1, <1>2, <1>3, <1>4, <1>6 DEF RolesInv

-----------------------------------------------------------------------------
(* Registrations *)

GatewayInv ==
  /\ TypeOK
  /\ RolesInv
  /\ RegistrationConsistent

\* A deleted policy is a policy record.
LEMMA NoPolicyType == NoPolicy \in AgentPolicy
BY DEF NoPolicy, AgentPolicy

\* The gateway starts with one admin, one pauser and no agent.
LEMMA GatewayInit == Init => GatewayInv
<1> SUFFICES ASSUME Init PROVE GatewayInv
  OBVIOUS
<1> USE GatewayAssumption
<1>1. TypeOK
  <2>1. /\ block \in Nat /\ time \in Nat /\ depositsPaused \in BOOLEAN
        /\ adminCount \in Nat /\ defaultAdminCount \in Nat
    BY DEF Init
  <2>2. DOMAIN commitments \subseteq CommitmentKeys
    BY DEF Init
  <2>3. agents \in [Accounts -> AgentPolicy] /\ agentOwner \in [Accounts -> Accounts \cup {NoOne}]
    BY NoPolicyType DEF Init
  <2>4. hasRole \in [Roles -> SUBSET Accounts]
    BY DEF Init
  <2> QED
    BY <2>1, <2>2, <2>3, <2>4 DEF TypeOK
<1>2. RolesInv
  <2>1. /\ hasRole[AGENT_ROLE] = {} /\ hasRole[DEPOSIT_PAUSER_ROLE] = {FirstPauser}
        /\ hasRole[ADMIN_ROLE] = {Deployer} /\ hasRole[DEFAULT_ADMIN_ROLE] = {Deployer}
    BY DEF Init, Roles, ADMIN_ROLE, DEFAULT_ADMIN_ROLE, DEPOSIT_PAUSER_ROLE, AGENT_ROLE
  <2>2. /\ IsFiniteSet({}) /\ IsFiniteSet({FirstPauser}) /\ IsFiniteSet({Deployer})
        /\ Cardinality({Deployer}) = 1
    BY FS_EmptySet, FS_Singleton
  <2>3. \A r \in Roles : IsFiniteSet(hasRole[r])
    BY <2>1, <2>2 DEF Roles
  <2>4. RoleSeparation
    BY <2>1 DEF RoleSeparation
  <2>5. AdminFloor
    <3>1. adminCount = 1 /\ defaultAdminCount = 1
      BY DEF Init
    <3> QED
      BY <2>1, <2>2, <3>1 DEF AdminFloor
  <2> QED
    BY <1>1, <2>3, <2>4, <2>5 DEF RolesInv, TypeOK
<1>3. RegistrationConsistent
  <2>1. hasRole[AGENT_ROLE] = {}
    BY DEF Init, Roles, ADMIN_ROLE, DEFAULT_ADMIN_ROLE, DEPOSIT_PAUSER_ROLE, AGENT_ROLE
  <2> QED
    BY <2>1 DEF Init, RegistrationConsistent, NoPolicy
<1> QED
  BY <1>1, <1>2, <1>3 DEF GatewayInv

\* A reveal installs a policy that pays the caller and grants the role; the
\* commitments it uses are the only ones it removes.
LEMMA RevealStep ==
  ASSUME GatewayInv,
         NEW sender \in Owners, NEW agent \in Agents, NEW salt \in Salts, NEW p \in Policies,
         revealAuthorization(sender, agent, salt, p)
  PROVE  GatewayInv'
<1> USE GatewayAssumption
<1>1. sender \in Accounts /\ agent \in Accounts /\ p \in AgentPolicy /\ sender # NoOne
  OBVIOUS
<1>2. /\ ValidPolicy(sender, p)
      /\ GrantRole(AGENT_ROLE, agent)
      /\ agents' = [agents EXCEPT ![agent] = p]
      /\ agentOwner' = [agentOwner EXCEPT ![agent] = sender]
      /\ UNCHANGED <<clock, depositsPaused>>
  BY DEF revealAuthorization, money
<1>3. DOMAIN commitments' \subseteq DOMAIN commitments
  BY DEF revealAuthorization, Without
<1>4. AGENT_ROLE \in Roles
  BY DEF Roles
<1>5. RolesInv' /\ hasRole' = [hasRole EXCEPT ![AGENT_ROLE] = @ \cup {agent}]
  BY <1>1, <1>2, <1>4, GrantKeepsRoles DEF GatewayInv
<1>6. TypeOK'
  BY <1>1, <1>2, <1>3, <1>5 DEF GatewayInv, TypeOK, clock, RolesInv
<1>7. RegistrationConsistent'
  <2> SUFFICES ASSUME NEW a \in Accounts
               PROVE  /\ a \in hasRole'[AGENT_ROLE] <=> agentOwner'[a] # NoOne
                      /\ agents'[a].active <=> agentOwner'[a] # NoOne
                      /\ agents'[a].shareReceiver = agentOwner'[a]
                      /\ agentOwner'[a] # NoOne =>
                           /\ 0 < agents'[a].maxPerPayment
                           /\ agents'[a].maxPerPayment <= agents'[a].maxPerWindow
                           /\ agents'[a].allowedDestinations # {}
                           /\ NoOne \notin agents'[a].allowedDestinations
    BY DEF RegistrationConsistent
  <2>1. hasRole'[AGENT_ROLE] = hasRole[AGENT_ROLE] \cup {agent}
    BY <1>4, <1>5 DEF GatewayInv, TypeOK
  <2>2. CASE a = agent
    <3>1. agents'[a] = p /\ agentOwner'[a] = sender
      BY <1>1, <1>2, <2>2 DEF GatewayInv, TypeOK
    <3>2. /\ p.shareReceiver = sender /\ p.active
          /\ 0 < p.maxPerPayment /\ p.maxPerPayment <= p.maxPerWindow
          /\ p.allowedDestinations # {} /\ NoOne \notin p.allowedDestinations
      BY <1>1, <1>2 DEF ValidPolicy, AgentPolicy
    <3> QED
      BY <1>1, <2>1, <2>2, <3>1, <3>2
  <2>3. CASE a # agent
    <3>1. agents'[a] = agents[a] /\ agentOwner'[a] = agentOwner[a]
      BY <1>1, <1>2, <2>3 DEF GatewayInv, TypeOK
    <3> QED
      BY <2>1, <2>3, <3>1 DEF GatewayInv, RegistrationConsistent
  <2> QED
    BY <2>2, <2>3
<1> QED
  BY <1>5, <1>6, <1>7 DEF GatewayInv

\* A policy update keeps the owner and the role.
LEMMA SetPolicyStep ==
  ASSUME GatewayInv, NEW sender \in Owners, NEW agent \in Agents, NEW p \in Policies,
         setPolicy(sender, agent, p)
  PROVE  GatewayInv'
<1> USE GatewayAssumption
<1>1. sender \in Accounts /\ agent \in Accounts /\ p \in AgentPolicy /\ sender # NoOne
  OBVIOUS
<1>2. /\ agentOwner[agent] = sender
      /\ ValidPolicy(sender, p)
      /\ agents' = [agents EXCEPT ![agent] = p]
      /\ UNCHANGED <<clock, commitments, agentOwner, access, depositsPaused>>
  BY DEF setPolicy
<1>3. RolesInv'
  BY <1>2 DEF GatewayInv, RolesInv, access, RoleSeparation, AdminFloor
<1>4. TypeOK'
  BY <1>1, <1>2 DEF GatewayInv, TypeOK, clock, access
<1>5. RegistrationConsistent'
  <2>1. /\ p.shareReceiver = sender /\ p.active
        /\ 0 < p.maxPerPayment /\ p.maxPerPayment <= p.maxPerWindow
        /\ p.allowedDestinations # {} /\ NoOne \notin p.allowedDestinations
    BY <1>1, <1>2 DEF ValidPolicy, AgentPolicy
  <2>2. \A a \in Accounts : agents'[a] = IF a = agent THEN p ELSE agents[a]
    BY <1>2 DEF GatewayInv, TypeOK
  <2>3. hasRole' = hasRole /\ agentOwner' = agentOwner
    BY <1>2 DEF access
  <2> QED
    BY <1>1, <1>2, <2>1, <2>2, <2>3 DEF GatewayInv, RegistrationConsistent
<1> QED
  BY <1>3, <1>4, <1>5 DEF GatewayInv

\* The end of a registration clears owner, policy and role together.
LEMMA RevokeStep ==
  ASSUME GatewayInv, NEW sender \in Owners \cup Agents, NEW agent \in Agents,
         revokeAgent(sender, agent)
  PROVE  GatewayInv'
<1> USE GatewayAssumption
<1>1. agent \in Accounts
  OBVIOUS
<1>2. /\ agents' = [agents EXCEPT ![agent] = NoPolicy]
      /\ agentOwner' = [agentOwner EXCEPT ![agent] = NoOne]
      /\ RevokeRole(AGENT_ROLE, agent)
      /\ UNCHANGED <<clock, commitments, depositsPaused>>
  BY DEF revokeAgent
<1>3. AGENT_ROLE \in Roles
  BY DEF Roles
<1>4. RolesInv' /\ hasRole' = [hasRole EXCEPT ![AGENT_ROLE] = @ \ {agent}]
  BY <1>1, <1>2, <1>3, RevokeKeepsRoles DEF GatewayInv
<1>5. TypeOK'
  BY <1>1, <1>2, <1>4, NoPolicyType DEF GatewayInv, TypeOK, clock, RolesInv
<1>6. RegistrationConsistent'
  <2>1. hasRole'[AGENT_ROLE] = hasRole[AGENT_ROLE] \ {agent}
    BY <1>3, <1>4 DEF GatewayInv, TypeOK
  <2>2. \A a \in Accounts :
          /\ agents'[a] = IF a = agent THEN NoPolicy ELSE agents[a]
          /\ agentOwner'[a] = IF a = agent THEN NoOne ELSE agentOwner[a]
    BY <1>2 DEF GatewayInv, TypeOK
  <2>3. NoPolicy.active = FALSE /\ NoPolicy.shareReceiver = NoOne
    BY DEF NoPolicy
  <2> QED
    BY <1>1, <2>1, <2>2, <2>3 DEF GatewayInv, RegistrationConsistent
<1> QED
  BY <1>4, <1>5, <1>6 DEF GatewayInv

\* The public role methods never touch AGENT_ROLE.
LEMMA RoleStep ==
  ASSUME GatewayInv, NEW sender \in Accounts, NEW account \in Accounts, NEW role \in Roles,
         \/ grantRole(sender, role, account)
         \/ revokeRole(sender, role, account)
         \/ account = sender /\ renounceRole(sender, role)
  PROVE  GatewayInv'
<1>1. /\ role # AGENT_ROLE
      /\ GrantRole(role, account) \/ RevokeRole(role, account)
      /\ UNCHANGED <<clock, commitments, registry, depositsPaused>>
  BY DEF grantRole, revokeRole, renounceRole
<1>2. /\ RolesInv'
      /\ \/ hasRole' = [hasRole EXCEPT ![role] = @ \cup {account}]
         \/ hasRole' = [hasRole EXCEPT ![role] = @ \ {account}]
  BY <1>1, GrantKeepsRoles, RevokeKeepsRoles DEF GatewayInv
<1>3. hasRole'[AGENT_ROLE] = hasRole[AGENT_ROLE]
  BY <1>1, <1>2 DEF GatewayInv, TypeOK, Roles
<1>4. TypeOK'
  BY <1>1, <1>2 DEF GatewayInv, TypeOK, clock, registry, RolesInv
<1>5. RegistrationConsistent'
  BY <1>1, <1>3 DEF GatewayInv, RegistrationConsistent, registry
<1> QED
  BY <1>2, <1>4, <1>5 DEF GatewayInv

\* Every step keeps the invariant.
LEMMA GatewayStep == GatewayInv /\ [Next]_vars => GatewayInv'
<1> SUFFICES ASSUME GatewayInv, [Next]_vars PROVE GatewayInv'
  OBVIOUS
<1> USE GatewayAssumption
<1>0. ASSUME UNCHANGED <<agents, agentOwner, access>>,
             block' \in Nat, time' \in Nat, depositsPaused' \in BOOLEAN,
             DOMAIN commitments' \subseteq CommitmentKeys
      PROVE  GatewayInv'
  BY <1>0 DEF GatewayInv, TypeOK, RolesInv, RegistrationConsistent, RoleSeparation,
              AdminFloor, access
<1>1. CASE NextBlock
  <2>1. block' \in Nat /\ time' \in Nat
    BY <1>1 DEF NextBlock, GatewayInv, TypeOK
  <2> QED
    BY <1>0, <1>1, <2>1 DEF NextBlock, registry, GatewayInv, TypeOK
<1>2. ASSUME NEW key \in CommitmentKeys, commitAuthorization(key)
      PROVE  GatewayInv'
  <2>1. DOMAIN commitments' \subseteq CommitmentKeys
    BY <1>2 DEF commitAuthorization, GatewayInv, TypeOK
  <2> QED
    BY <1>0, <1>2, <2>1 DEF commitAuthorization, clock, registry, GatewayInv, TypeOK
<1>3. ASSUME NEW sender \in Owners, NEW agent \in Agents, NEW salt \in Salts, NEW p \in Policies,
             revealAuthorization(sender, agent, salt, p)
      PROVE  GatewayInv'
  BY <1>3, RevealStep
<1>4. ASSUME NEW sender \in Owners, NEW agent \in Agents, NEW p \in Policies,
             setPolicy(sender, agent, p)
      PROVE  GatewayInv'
  BY <1>4, SetPolicyStep
<1>5. ASSUME NEW sender \in Owners \cup Agents, NEW agent \in Agents, revokeAgent(sender, agent)
      PROVE  GatewayInv'
  BY <1>5, RevokeStep
<1>6. ASSUME NEW sender \in Accounts, pauseDeposits(sender) \/ unpauseDeposits(sender)
      PROVE  GatewayInv'
  BY <1>0, <1>6 DEF pauseDeposits, unpauseDeposits, clock, registry, GatewayInv, TypeOK
<1>7. ASSUME NEW sender \in Accounts, NEW account \in Grantees, NEW role \in Roles,
             grantRole(sender, role, account) \/ revokeRole(sender, role, account)
      PROVE  GatewayInv'
  BY <1>7, RoleStep
<1>8. ASSUME NEW sender \in Grantees, NEW role \in Roles, renounceRole(sender, role)
      PROVE  GatewayInv'
  BY <1>8, RoleStep
<1>9. ASSUME NEW sender \in Agents, NEW orderId \in OrderIds, NEW amount \in Amounts,
             NEW deadline \in Deadlines, NEW idempotencyKey \in IdempotencyKeys,
             NEW destination \in Vaults, NEW minSharesPerLeg \in MinShares,
             depositTo(sender, orderId, amount, deadline, idempotencyKey, destination,
                       minSharesPerLeg)
      PROVE  GatewayInv'
  BY <1>0, <1>9 DEF depositTo, clock, GatewayInv, TypeOK
<1>10. CASE UNCHANGED vars
  BY <1>0, <1>10 DEF vars, clock, registry, GatewayInv, TypeOK
<1> QED
  BY <1>1, <1>2, <1>3, <1>4, <1>5, <1>6, <1>7, <1>8, <1>9, <1>10 DEF Next

\* In every reachable state of the gateway, whatever its accounts and policies,
\* role, owner and policy of every agent agree and pay its owner, the three role
\* tiers are disjoint, and neither admin tier is empty.
THEOREM GatewaySafe ==
  Spec => [](TypeOK /\ RegistrationConsistent /\ RoleSeparation /\ AdminFloor)
<1>1. GatewayInv => TypeOK /\ RegistrationConsistent /\ RoleSeparation /\ AdminFloor
  BY DEF GatewayInv, RolesInv
<1> QED
  BY <1>1, GatewayInit, GatewayStep, PTL DEF Spec

\* While a registration is live, its agent's owner changes only to nobody: no
\* sequence of commitments and reveals takes an agent over.
THEOREM LiveOwnerStays == Spec => NoTakeover
<1> DEFINE Kept == \A a \in Accounts :
             agentOwner[a] # NoOne /\ agents[a].validUntil >= time /\ agentOwner'[a] # agentOwner[a]
               => agentOwner'[a] = NoOne
<1>1. GatewayInv /\ [Next]_vars => Kept
  <2> SUFFICES ASSUME GatewayInv, [Next]_vars,
                      NEW a \in Accounts,
                      agentOwner[a] # NoOne, agents[a].validUntil >= time,
                      agentOwner'[a] # agentOwner[a]
               PROVE  agentOwner'[a] = NoOne
    OBVIOUS
  <2> USE GatewayAssumption
  <2>1. ASSUME agentOwner' = agentOwner PROVE FALSE
    BY <2>1
  <2>2. ASSUME NEW sender \in Owners, NEW agent \in Agents, NEW salt \in Salts, NEW p \in Policies,
               revealAuthorization(sender, agent, salt, p)
        PROVE  FALSE
    <3>1. Replaceable(agent) /\ agentOwner' = [agentOwner EXCEPT ![agent] = sender]
      BY <2>2 DEF revealAuthorization
    <3>2. a = agent
      BY <3>1 DEF GatewayInv, TypeOK
    <3>3. agents[a].validUntil \in Nat /\ time \in Nat
      BY DEF GatewayInv, TypeOK, AgentPolicy
    <3> QED
      BY <3>1, <3>2, <3>3 DEF Replaceable
  <2>3. ASSUME NEW sender \in Owners \cup Agents, NEW agent \in Agents, revokeAgent(sender, agent)
        PROVE  agentOwner'[a] = NoOne
    BY <2>3 DEF revokeAgent, GatewayInv, TypeOK
  <2>4. CASE NextBlock
    BY <2>1, <2>4 DEF NextBlock, registry
  <2>5. ASSUME NEW key \in CommitmentKeys, commitAuthorization(key) PROVE FALSE
    BY <2>1, <2>5 DEF commitAuthorization, registry
  <2>6. ASSUME NEW sender \in Owners, NEW agent \in Agents, NEW p \in Policies,
               setPolicy(sender, agent, p)
        PROVE  FALSE
    BY <2>1, <2>6 DEF setPolicy
  <2>7. ASSUME NEW sender \in Accounts, pauseDeposits(sender) \/ unpauseDeposits(sender)
        PROVE  FALSE
    BY <2>1, <2>7 DEF pauseDeposits, unpauseDeposits, registry
  <2>8. ASSUME NEW sender \in Accounts, NEW account \in Accounts, NEW role \in Roles,
               \/ grantRole(sender, role, account) \/ revokeRole(sender, role, account)
               \/ renounceRole(sender, role)
        PROVE  FALSE
    BY <2>1, <2>8 DEF grantRole, revokeRole, renounceRole, registry
  <2>9. ASSUME NEW sender \in Agents, NEW orderId \in OrderIds, NEW amount \in Amounts,
               NEW deadline \in Deadlines, NEW idempotencyKey \in IdempotencyKeys,
               NEW destination \in Vaults, NEW minSharesPerLeg \in MinShares,
               depositTo(sender, orderId, amount, deadline, idempotencyKey, destination,
                         minSharesPerLeg)
        PROVE  FALSE
    BY <2>1, <2>9 DEF depositTo
  <2>10. CASE UNCHANGED vars
    BY <2>1, <2>10 DEF vars, registry
  <2> QED
    BY <2>2, <2>3, <2>4, <2>5, <2>6, <2>7, <2>8, <2>9, <2>10 DEF Next
<1> QED
  BY <1>1, GatewayInit, GatewayStep, PTL DEF Spec, NoTakeover
=============================================================================
