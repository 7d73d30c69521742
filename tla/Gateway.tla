-------------------------------- MODULE Gateway --------------------------------
(***************************************************************************)
(* RobotMoneyGateway.sol with AccessRoles.sol: owner-consented agent       *)
(* registrations, the roles, the deposit pause and `depositTo`.  One       *)
(* action is one transaction that does not revert; a reverted transaction  *)
(* changes nothing.  Hashes are tuples (injective, as keccak is assumed to *)
(* be): `salt`, `orderId`, `idempotencyKey` are elements of small sets.    *)
(***************************************************************************)
EXTENDS GatewayWindows

CONSTANTS Accounts,      \* externally owned accounts
          Owners, Agents, Grantees,  \* those that reveal, act as agents, are given roles
          NoOne,         \* address(0)
          GatewayAddr,   \* address(this)
          Vaults,        \* ERC-4626 destinations
          Salts, Policies, OrderIds, Amounts, IdempotencyKeys, MinShares,
          Deployer,      \* admin_ of `initialize`
          FirstPauser,   \* pauser_ of `initialize`
          COMMIT_EXPIRY_BLOCKS, MAX_DEADLINE_SKEW,
          Start,         \* timestamp of the first block
          MaxTime,       \* bound on the clock
          MaxBlock,      \* bound on the block number
          MaxCommitments,  \* bound on the commitments in storage
          Funds          \* USDC every account starts with

ADMIN_ROLE == "ADMIN_ROLE"
DEFAULT_ADMIN_ROLE == "DEFAULT_ADMIN_ROLE"
DEPOSIT_PAUSER_ROLE == "DEPOSIT_PAUSER_ROLE"
AGENT_ROLE == "AGENT_ROLE"
Roles == {ADMIN_ROLE, DEFAULT_ADMIN_ROLE, DEPOSIT_PAUSER_ROLE, AGENT_ROLE}

\* The retired withdraw members are one flag: all zero or not.
AgentPolicy == [active : BOOLEAN, validUntil : Nat, maxPerPayment : Nat,
                maxPerWindow : Nat, shareReceiver : Accounts \cup {NoOne},
                allowedDestinations : SUBSET (Vaults \cup {NoOne}),
                retiredNonZero : BOOLEAN]

\* A deleted mapping entry.
NoPolicy == [active |-> FALSE, validUntil |-> 0, maxPerPayment |-> 0,
             maxPerWindow |-> 0, shareReceiver |-> NoOne,
             allowedDestinations |-> {}, retiredNonZero |-> FALSE]

ASSUME GatewayAssumption ==
  /\ NoOne \notin Accounts \cup Vaults /\ GatewayAddr \notin Accounts \cup Vaults
  /\ Accounts \cap Vaults = {} /\ NoOne # GatewayAddr
  /\ Owners \cup Agents \cup Grantees \subseteq Accounts
  /\ Policies \subseteq AgentPolicy
  /\ Amounts \subseteq Nat
  /\ {Deployer, FirstPauser} \subseteq Accounts /\ Deployer # FirstPauser
  /\ COMMIT_EXPIRY_BLOCKS \in Nat /\ MAX_DEADLINE_SKEW \in Nat
  /\ Start \in Nat /\ Start > WINDOW_SECONDS /\ MaxTime \in Nat /\ MaxBlock \in Nat
  /\ Funds \in Nat

VARIABLES
  block, time,         \* block.number, block.timestamp
  commitments,         \* commitment key -> block of the commitment
  agents,              \* agent -> policy
  agentOwner,          \* agent -> owner or NoOne
  depositWindow,       \* agent -> ring buffer
  agentDepositWindow,  \* agent -> [windowStart, gross]
  usedPaymentIds,      \* consumed payment ids
  depositsPaused,
  hasRole,             \* role -> holders
  adminCount, defaultAdminCount,
  usdc, shares         \* the token and the destinations (external)

registry == <<agents, agentOwner, depositWindow, agentDepositWindow>>
access == <<hasRole, adminCount, defaultAdminCount>>
money == <<usedPaymentIds, usdc, shares>>
clock == <<block, time>>
vars == <<clock, commitments, registry, access, depositsPaused, money>>

Parties == Accounts \cup Vaults \cup {GatewayAddr}
NoDepositWindow == [windowStart |-> 0, gross |-> 0]

Init ==
  /\ block = 1 /\ time = Start
  /\ commitments = << >>
  /\ agents = [a \in Accounts |-> NoPolicy]
  /\ agentOwner = [a \in Accounts |-> NoOne]
  /\ depositWindow = [a \in Accounts |-> EmptyWindow]
  /\ agentDepositWindow = [a \in Accounts |-> NoDepositWindow]
  /\ usedPaymentIds = {}
  /\ depositsPaused = FALSE
  /\ hasRole = [r \in Roles |-> IF r = AGENT_ROLE THEN {}
                                ELSE IF r = DEPOSIT_PAUSER_ROLE THEN {FirstPauser}
                                ELSE {Deployer}]
  /\ adminCount = 1 /\ defaultAdminCount = 1
  /\ usdc = [p \in Parties |-> IF p \in Accounts THEN Funds ELSE 0]
  /\ shares = [v \in Vaults |-> [p \in Parties |-> 0]]

-----------------------------------------------------------------------------
(* Roles: AccessRoles.sol and the counters of the gateway *)

IsAdminTier(account) == account \in hasRole[ADMIN_ROLE] \cup hasRole[DEFAULT_ADMIN_ROLE]

\* The guard of `_grantRole` (AccessRoles).
GrantAllowed(role, account) ==
  /\ role = AGENT_ROLE =>
       ~IsAdminTier(account) /\ account \notin hasRole[DEPOSIT_PAUSER_ROLE]
  /\ role \in {ADMIN_ROLE, DEFAULT_ADMIN_ROLE} =>
       account \notin hasRole[AGENT_ROLE] \cup hasRole[DEPOSIT_PAUSER_ROLE]
  /\ role = DEPOSIT_PAUSER_ROLE =>
       account \notin hasRole[AGENT_ROLE] /\ ~IsAdminTier(account)

\* `_grantRole`: separation first, then the counters on an effective grant.
GrantRole(role, account) ==
  LET granted == account \notin hasRole[role]
  IN  /\ GrantAllowed(role, account)
      /\ hasRole' = [hasRole EXCEPT ![role] = @ \cup {account}]
      /\ adminCount' = IF granted /\ role = ADMIN_ROLE THEN adminCount + 1 ELSE adminCount
      /\ defaultAdminCount' = IF granted /\ role = DEFAULT_ADMIN_ROLE
                              THEN defaultAdminCount + 1 ELSE defaultAdminCount

\* (mutant: the counter drops even when the account held nothing)
RevokeRole_AlwaysCounts(role, account) ==
  /\ account \in hasRole[role] /\ role = ADMIN_ROLE => adminCount # 1
  /\ account \in hasRole[role] /\ role = DEFAULT_ADMIN_ROLE => defaultAdminCount # 1
  /\ hasRole' = [hasRole EXCEPT ![role] = @ \ {account}]
  /\ adminCount' = IF role = ADMIN_ROLE THEN adminCount - 1 ELSE adminCount
  /\ defaultAdminCount' = IF role = DEFAULT_ADMIN_ROLE THEN defaultAdminCount - 1
                          ELSE defaultAdminCount

\* `_revokeRole`: the last-admin floor, then the counters on an effective revoke.
RevokeRole(role, account) ==
  LET revoked == account \in hasRole[role]
  IN  /\ revoked /\ role = ADMIN_ROLE => adminCount # 1
      /\ revoked /\ role = DEFAULT_ADMIN_ROLE => defaultAdminCount # 1
      /\ hasRole' = [hasRole EXCEPT ![role] = @ \ {account}]
      /\ adminCount' = IF revoked /\ role = ADMIN_ROLE THEN adminCount - 1 ELSE adminCount
      /\ defaultAdminCount' = IF revoked /\ role = DEFAULT_ADMIN_ROLE
                              THEN defaultAdminCount - 1 ELSE defaultAdminCount

\* The public role methods refuse AGENT_ROLE; DEFAULT_ADMIN_ROLE administers the
\* other three roles.
grantRole(sender, role, account) ==
  /\ role # AGENT_ROLE
  /\ sender \in hasRole[DEFAULT_ADMIN_ROLE]
  /\ GrantRole(role, account)
  /\ UNCHANGED <<clock, commitments, registry, depositsPaused, money>>

revokeRole(sender, role, account) ==
  /\ role # AGENT_ROLE
  /\ sender \in hasRole[DEFAULT_ADMIN_ROLE]
  /\ RevokeRole(role, account)
  /\ UNCHANGED <<clock, commitments, registry, depositsPaused, money>>

renounceRole(sender, role) ==
  /\ role # AGENT_ROLE
  /\ RevokeRole(role, sender)
  /\ UNCHANGED <<clock, commitments, registry, depositsPaused, money>>

-----------------------------------------------------------------------------
(* Agent lifecycle *)

\* keccak256(agent, owner, salt), committed by the owner.
AuthorizationKey(agent, owner, salt) == <<"authorize", <<agent, owner, salt>>, owner>>

\* keccak256(owner, keccak256(calldata)), committed by the agent; the calldata
\* of `revealAuthorization` holds the agent, the salt and the policy.
ConsentKey(agent, owner, salt, p) == <<"consent", <<owner, agent, salt, p>>, agent>>

CommitmentKeys ==
  {AuthorizationKey(a, o, s) : a \in Agents, o \in Owners, s \in Salts}
    \cup {ConsentKey(q[1], q[2], s, p) :
            q \in {r \in Agents \X Owners : r[1] # r[2]}, s \in Salts, p \in Policies}

\* `commitAuthorization` overwrites an earlier commitment of the same key.
commitAuthorization(key) ==
  /\ key \in DOMAIN commitments \/ Cardinality(DOMAIN commitments) < MaxCommitments
  /\ commitments' = [k \in DOMAIN commitments \cup {key} |->
                       IF k = key THEN block ELSE commitments[k]]
  /\ UNCHANGED <<clock, registry, access, depositsPaused, money>>

\* (mutant: the share receiver may be anyone)
ValidPolicy_AnyReceiver(caller, p) ==
  /\ p.active /\ p.validUntil >= time /\ p.allowedDestinations # {}
  /\ p.maxPerPayment # 0 /\ p.maxPerWindow # 0 /\ p.maxPerPayment <= p.maxPerWindow

ValidPolicy(caller, p) ==
  /\ p.shareReceiver = caller
  /\ p.active
  /\ p.validUntil >= time
  /\ p.maxPerPayment # 0 /\ p.maxPerWindow # 0
  /\ p.maxPerPayment <= p.maxPerWindow
  /\ p.allowedDestinations # {} /\ NoOne \notin p.allowedDestinations
  /\ ~p.retiredNonZero

\* The commitment the reveal needs: made in an earlier block, not expired.
Revealable(key) ==
  /\ key \in DOMAIN commitments
  /\ block > commitments[key]
  /\ block <= commitments[key] + COMMIT_EXPIRY_BLOCKS

\* The consent the reveal needs: not expired, the current block allowed.
Consented(key) ==
  /\ key \in DOMAIN commitments
  /\ block <= commitments[key] + COMMIT_EXPIRY_BLOCKS

\* (mutant: the commitments survive the reveal)
Without_Kept(keys) == commitments

Without(keys) == [k \in DOMAIN commitments \ keys |-> commitments[k]]

\* (mutant: the last valid second already counts as expired)
Replaceable_AtExpiry(agent) == agentOwner[agent] = NoOne \/ agents[agent].validUntil <= time

\* `_register` refuses an agent whose registration is live.
Replaceable(agent) == agentOwner[agent] = NoOne \/ agents[agent].validUntil < time

\* `_register` ends an expired registration first, which clears its window.
revealAuthorization(sender, agent, salt, p) ==
  LET auth == AuthorizationKey(agent, sender, salt)
      consent == ConsentKey(agent, sender, salt, p)
      replaced == agentOwner[agent] # NoOne
  IN  /\ Revealable(auth)
      /\ Replaceable(agent)
      /\ ValidPolicy(sender, p)
      /\ agent # sender => Consented(consent)
      /\ commitments' = Without(IF agent = sender THEN {auth} ELSE {auth, consent})
      /\ GrantRole(AGENT_ROLE, agent)
      /\ agents' = [agents EXCEPT ![agent] = p]
      /\ agentOwner' = [agentOwner EXCEPT ![agent] = sender]
      /\ depositWindow' = IF replaced
                          THEN [depositWindow EXCEPT ![agent] = ClearWindow(@)]
                          ELSE depositWindow
      /\ agentDepositWindow' = IF replaced
                               THEN [agentDepositWindow EXCEPT ![agent] = NoDepositWindow]
                               ELSE agentDepositWindow
      /\ UNCHANGED <<clock, depositsPaused, money>>

setPolicy(sender, agent, p) ==
  /\ agentOwner[agent] = sender
  /\ agents[agent].validUntil >= time
  /\ ValidPolicy(sender, p)
  /\ agents' = [agents EXCEPT ![agent] = p]
  /\ UNCHANGED <<clock, commitments, agentOwner, depositWindow, agentDepositWindow,
                 access, depositsPaused, money>>

\* (mutant: the role outlives the registration)
revokeAgent_KeepsRole(sender, agent) ==
  /\ agentOwner[agent] # NoOne
  /\ sender \in {agentOwner[agent], agent}
  /\ agents' = [agents EXCEPT ![agent] = NoPolicy]
  /\ agentOwner' = [agentOwner EXCEPT ![agent] = NoOne]
  /\ depositWindow' = [depositWindow EXCEPT ![agent] = ClearWindow(@)]
  /\ agentDepositWindow' = [agentDepositWindow EXCEPT ![agent] = NoDepositWindow]
  /\ UNCHANGED <<clock, commitments, access, depositsPaused, money>>

\* `revokeAgent` with `_endRegistration`.
revokeAgent(sender, agent) ==
  /\ agentOwner[agent] # NoOne
  /\ sender \in {agentOwner[agent], agent}
  /\ agents' = [agents EXCEPT ![agent] = NoPolicy]
  /\ agentOwner' = [agentOwner EXCEPT ![agent] = NoOne]
  /\ RevokeRole(AGENT_ROLE, agent)
  /\ depositWindow' = [depositWindow EXCEPT ![agent] = ClearWindow(@)]
  /\ agentDepositWindow' = [agentDepositWindow EXCEPT ![agent] = NoDepositWindow]
  /\ UNCHANGED <<clock, commitments, depositsPaused, money>>

-----------------------------------------------------------------------------
(* Pause and deposit *)

pauseDeposits(sender) ==
  /\ sender \in hasRole[DEPOSIT_PAUSER_ROLE]
  /\ ~depositsPaused
  /\ depositsPaused' = TRUE
  /\ UNCHANGED <<clock, commitments, registry, access, money>>

unpauseDeposits(sender) ==
  /\ sender \in hasRole[ADMIN_ROLE]
  /\ depositsPaused
  /\ depositsPaused' = FALSE
  /\ UNCHANGED <<clock, commitments, registry, access, money>>

\* The full intent, the deadline excluded.
PaymentId(agent, orderId, amount, idempotencyKey, destination, minSharesPerLeg) ==
  [agent |-> agent, orderId |-> orderId, amount |-> amount,
   idempotencyKey |-> idempotencyKey, destination |-> destination,
   minSharesPerLeg |-> minSharesPerLeg]

\* (mutant: the answer of `accrue` is ignored)
AccrueRollingDeposit_NoCap(agent, amount, cap) ==
  /\ depositWindow' = [depositWindow EXCEPT ![agent] = Accrue(@, time, amount)]
  /\ agentDepositWindow' = [agentDepositWindow EXCEPT
       ![agent] = [windowStart |-> Live(depositWindow'[agent], 0).timestamp,
                   gross |-> depositWindow'[agent].total]]

AccrueRollingDeposit(agent, amount, cap) ==
  /\ CanAccrue(depositWindow[agent], time, amount, cap)
  /\ depositWindow' = [depositWindow EXCEPT ![agent] = Accrue(@, time, amount)]
  /\ agentDepositWindow' = [agentDepositWindow EXCEPT
       ![agent] = [windowStart |-> Live(depositWindow'[agent], 0).timestamp,
                   gross |-> depositWindow'[agent].total]]

\* (mutant: only the share custody is checked)
CustodyUnchanged_SharesOnly(amount, received, taken, holder) == holder # GatewayAddr

\* The balance-delta check of the pull, and the share and USDC checks after the call.
CustodyUnchanged(amount, received, taken, holder) ==
  /\ received = amount
  /\ holder # GatewayAddr
  /\ usdc[GatewayAddr] + received - taken = usdc[GatewayAddr]

\* The pull of `received` USDC and the destination's `deposit`, which takes
\* `taken` of the approved amount and mints to `holder`: the destination is any
\* contract the owner chose.  The balance checks make every other outcome revert.
ExecuteVaultDeposit(agent, destination, amount, shareReceiver) ==
  \E received, taken \in {amount, amount - 1}, holder \in {shareReceiver, GatewayAddr} :
    /\ usdc[agent] >= amount
    /\ CustodyUnchanged(amount, received, taken, holder)
    /\ usdc' = [usdc EXCEPT ![agent] = @ - amount,
                            ![GatewayAddr] = @ + received - taken,
                            ![destination] = @ + taken]
    /\ shares' = [shares EXCEPT ![destination][holder] = @ + amount]

\* (mutant: the replay check is dropped)
Unused_Anything(paymentId) == TRUE

Unused(paymentId) == paymentId \notin usedPaymentIds

depositTo(sender, orderId, amount, deadline, idempotencyKey, destination, minSharesPerLeg) ==
  LET p == agents[sender]
      paymentId == PaymentId(sender, orderId, amount, idempotencyKey, destination,
                             minSharesPerLeg)
  IN  /\ sender \in hasRole[AGENT_ROLE]
      /\ ~depositsPaused
      /\ amount # 0 /\ amount <= p.maxPerPayment
      /\ time <= deadline /\ deadline <= time + MAX_DEADLINE_SKEW
      /\ p.active /\ p.validUntil >= time
      /\ destination \in p.allowedDestinations
      /\ Unused(paymentId)
      /\ AccrueRollingDeposit(sender, amount, p.maxPerWindow)
      /\ usedPaymentIds' = usedPaymentIds \cup {paymentId}
      /\ ExecuteVaultDeposit(sender, destination, amount, p.shareReceiver)
      /\ UNCHANGED <<clock, commitments, agents, agentOwner, access, depositsPaused>>

\* A new block: its timestamp is strictly later.
NextBlock ==
  /\ block < MaxBlock
  /\ block' = block + 1
  /\ \E t \in (time + 1) .. MaxTime : time' = t
  /\ UNCHANGED <<commitments, registry, access, depositsPaused, money>>

Deadlines == (time - 1) .. (time + MAX_DEADLINE_SKEW + 1)

Next ==
  \/ NextBlock
  \/ \E key \in CommitmentKeys : commitAuthorization(key)
  \/ \E sender \in Owners, agent \in Agents, salt \in Salts, p \in Policies :
       revealAuthorization(sender, agent, salt, p)
  \/ \E sender \in Owners, agent \in Agents, p \in Policies : setPolicy(sender, agent, p)
  \/ \E sender \in Owners \cup Agents, agent \in Agents : revokeAgent(sender, agent)
  \/ \E sender \in Accounts : pauseDeposits(sender)
  \/ \E sender \in Accounts : unpauseDeposits(sender)
  \/ \E sender \in Accounts, account \in Grantees, role \in Roles :
       grantRole(sender, role, account)
  \/ \E sender \in Accounts, account \in Grantees, role \in Roles :
       revokeRole(sender, role, account)
  \/ \E sender \in Grantees, role \in Roles : renounceRole(sender, role)
  \/ \E sender \in Agents, orderId \in OrderIds, amount \in Amounts,
        deadline \in Deadlines, idempotencyKey \in IdempotencyKeys,
        destination \in Vaults, minSharesPerLeg \in MinShares :
       depositTo(sender, orderId, amount, deadline, idempotencyKey, destination,
                 minSharesPerLeg)

Spec == Init /\ [][Next]_vars

-----------------------------------------------------------------------------
(* Properties *)

\* Type invariant.
TypeOK ==
  /\ block \in Nat /\ time \in Nat
  /\ DOMAIN commitments \subseteq CommitmentKeys
  /\ agents \in [Accounts -> AgentPolicy]
  /\ agentOwner \in [Accounts -> Accounts \cup {NoOne}]
  /\ depositsPaused \in BOOLEAN
  /\ hasRole \in [Roles -> SUBSET Accounts]
  /\ adminCount \in Nat /\ defaultAdminCount \in Nat

\* The three records of a registration agree, whatever order of reveals,
\* replacements of expired registrations, policy updates and revocations led
\* here: an account holds AGENT_ROLE exactly when it has an owner, exactly when
\* it has an active policy, and that policy pays its owner.
RegistrationConsistent ==
  \A a \in Accounts :
    /\ a \in hasRole[AGENT_ROLE] <=> agentOwner[a] # NoOne
    /\ agents[a].active <=> agentOwner[a] # NoOne
    /\ agents[a].shareReceiver = agentOwner[a]
    /\ agentOwner[a] # NoOne =>
         /\ 0 < agents[a].maxPerPayment /\ agents[a].maxPerPayment <= agents[a].maxPerWindow
         /\ agents[a].allowedDestinations # {} /\ NoOne \notin agents[a].allowedDestinations

\* "The three privileged roles ADMIN_ROLE, DEPOSIT_PAUSER_ROLE, and AGENT_ROLE
\* are pairwise disjoint" (AccessRoles), the admin tier taken as a whole.
RoleSeparation ==
  LET adminTier == hasRole[ADMIN_ROLE] \cup hasRole[DEFAULT_ADMIN_ROLE]
  IN  /\ adminTier \cap hasRole[DEPOSIT_PAUSER_ROLE] = {}
      /\ adminTier \cap hasRole[AGENT_ROLE] = {}
      /\ hasRole[DEPOSIT_PAUSER_ROLE] \cap hasRole[AGENT_ROLE] = {}

\* The manual counters count, so that neither admin tier can lose its last
\* holder through any sequence of grants, revocations and renunciations.
AdminFloor ==
  /\ adminCount = Cardinality(hasRole[ADMIN_ROLE]) /\ adminCount >= 1
  /\ defaultAdminCount = Cardinality(hasRole[DEFAULT_ADMIN_ROLE]) /\ defaultAdminCount >= 1

\* Role grants by every path keep the tiers apart and the floors exact.
RolesSound == RoleSeparation /\ AdminFloor

\* The gateway keeps neither USDC nor vault shares between transactions.
NoCustody ==
  /\ usdc[GatewayAddr] = 0
  /\ \A v \in Vaults : shares[v][GatewayAddr] = 0

\* What left an agent's wallet is the sum of the payment ids it consumed: no
\* intent moves money twice, whatever deadlines its retries carry.
PaidOncePerIntent ==
  \A a \in Accounts :
    Funds - usdc[a] = MapThenSumSet(LAMBDA id : id.amount,
                                    {id \in usedPaymentIds : id.agent = a})

\* A live registration is never taken over: while `validUntil` has not passed,
\* the owner of an agent changes only to nobody.
NoTakeover ==
  [][\A a \in Accounts :
       agentOwner[a] # NoOne /\ agents[a].validUntil >= time /\ agentOwner'[a] # agentOwner[a]
         => agentOwner'[a] = NoOne]_vars

\* A registration under another owner uses up one consent that the agent gave
\* to that owner for that exact policy, and one commitment of the owner that
\* was already in an earlier block: neither can register the agent again.
ConsentUsedOnce ==
  [][\A a \in Accounts :
       agentOwner'[a] # agentOwner[a] /\ agentOwner'[a] \notin {NoOne, a} =>
         \E salt \in Salts :
           LET auth == AuthorizationKey(a, agentOwner'[a], salt)
               consent == ConsentKey(a, agentOwner'[a], salt, agents'[a])
           IN  /\ {auth, consent} \subseteq DOMAIN commitments \ DOMAIN commitments'
               /\ commitments[auth] < block
               /\ block - commitments[consent] <= COMMIT_EXPIRY_BLOCKS]_vars

\* Money moves only from a registered agent whose policy has not expired, while
\* deposits are not paused, within the payment cap, and every share it buys goes
\* to the owner who registered the agent.
DepositServesOwner ==
  [][usdc' # usdc \/ shares' # shares =>
       /\ ~depositsPaused
       /\ \E a \in Accounts, v \in Vaults :
            LET amount == usdc[a] - usdc'[a]
                owner == agentOwner[a]
            IN  /\ owner # NoOne /\ agents[a].validUntil >= time
                /\ v \in agents[a].allowedDestinations
                /\ 0 < amount /\ amount <= agents[a].maxPerPayment
                /\ usdc' = [usdc EXCEPT ![a] = @ - amount, ![v] = @ + amount]
                /\ shares' = [shares EXCEPT ![v][owner] = @ + amount]]_vars

\* Each agent's budget is the window of AgentWindow: registrations, policy
\* changes, roles and other agents' deposits never disturb it.
Window(a) == INSTANCE AgentWindow WITH
               now <- time, w <- depositWindow[a],
               agentDepositWindow <- agentDepositWindow[a],
               Caps <- {p.maxPerWindow : p \in Policies}

BudgetIsRollingWindow ==
  /\ \A a \in Agents : Window(a)!Init
  /\ [][\A a \in Agents : [Window(a)!Next]_(Window(a)!vars)]_vars
=============================================================================
