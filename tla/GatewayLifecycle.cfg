SPECIFICATION Spec
CONSTANTS
  admin = admin pauser = pauser o1 = o1 o2 = o2 ag = ag v1 = v1 v2 = v2
  Accounts = {admin, pauser, o1, o2, ag}
  Owners = {o1, o2}
  Agents = {ag}
  Grantees = {admin, ag}
  NoOne = NoOne GatewayAddr = GatewayAddr
  Vaults = {v1}
  Salts = {1}
  Policies <- LifecyclePolicies
  OrderIds = {1} Amounts = {} IdempotencyKeys = {1, 2} MinShares = {0}
  Deployer = admin FirstPauser = pauser
  COMMIT_EXPIRY_BLOCKS = 1 MAX_DEADLINE_SKEW = 1
  WINDOW_SECONDS = 2 Start = 3 MaxTime = 7 MaxBlock = 5 MaxCommitments = 3
  Funds = 2
INVARIANTS RegistrationConsistent RolesSound
PROPERTIES NoTakeover ConsentUsedOnce
