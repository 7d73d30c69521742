SPECIFICATION Spec
CONSTANTS
  admin = admin pauser = pauser o1 = o1 o2 = o2 ag = ag v1 = v1 v2 = v2
  Accounts = {admin, pauser, o1, ag}
  Owners = {o1, ag}
  Agents = {ag}
  Grantees = {}
  NoOne = NoOne GatewayAddr = GatewayAddr
  Vaults = {v1, v2}
  Salts = {1}
  Policies <- DepositPolicies
  OrderIds = {1} Amounts = {1, 2} IdempotencyKeys = {1} MinShares = {0}
  Deployer = admin FirstPauser = pauser
  COMMIT_EXPIRY_BLOCKS = 1 MAX_DEADLINE_SKEW = 1
  WINDOW_SECONDS = 2 Start = 3 MaxTime = 7 MaxBlock = 4 MaxCommitments = 2
  Funds = 4
INVARIANTS NoCustody PaidOncePerIntent
  
