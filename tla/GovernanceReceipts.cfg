SPECIFICATION Spec
CONSTANTS
  g1 = g1 g2 = g2 ra = ra rb = rb Council = Council
  Governances = {g1} FirstGovernance = g1
  Safe = Safe Timelock = Timelock Router = Router NoOne = NoOne
  Accounts = {Safe} Targets = {}
  Receipts = {ra, rb} Digests = {1, 2}
  Vectors <- BothVectors Acceptable <- AcceptableSets
  Calls <- ReceiptCalls
  InitialDelay = 1 MaxDelay = 1 MaxTime = 4 MaxPending = 2
INVARIANTS AppliedInOrder ReleasedIsApplied ActiveIsLastApplied
