SPECIFICATION Spec
CONSTANTS
  g1 = g1 g2 = g2 ra = ra rb = rb Council = Council
  Governances = {g1, g2} FirstGovernance = g1
  Safe = Safe Timelock = Timelock Router = Router NoOne = NoOne
  Accounts = {Safe, Council} Targets = {g2}
  Receipts = {} Digests = {1}
  Vectors <- BothVectors Acceptable <- OneSet
  Calls <- RotationRoleCalls
  InitialDelay = 2 MaxDelay = 2 MaxTime = 5 MaxPending = 2
INVARIANTS FloorsHold
 
