SPECIFICATION Spec
INVARIANTS ExitAlwaysOpen
PROPERTIES RecoveryReachesRecord
CONSTANTS
  h1 = h1
  h2 = h2
  fee = fee
  a1 = a1
  a2 = a2
  NoHolder = NoHolder
  Holders = {h1}
  FeeRecipient = fee
  Adapters <- OneAdapter
  CodeHash <- OneCode
  VirtualShares = 1
  MAX_BPS = 4
  MAX_ADAPTERS = 2
  MAX_EXIT_FEE_BPS = 1
  MAX_REBALANCE_BPS_CEILING = 2
  InitialCap = 3
  InitialFee = 1
  InitialMoveBps = 1
  Funds <- OneFunded
  ShortLimit = 1
  Venues = {"open", "broken"}
  Flips = {a1}
  Fragile = {a1}
  Capped = {}
  Amounts = {2}
  ShareAmounts = {}
  Gifts = {}
  Tranches = {}
  CapBps = {4}
  ExposureCaps = {}
  Caps = {2}
  Fees = {}
  MoveBps = {}
  Targets <- DrainTargets
  Levers = {"pause", "retire", "shutdown", "codehash"}
  Income = {}
  Losses = {1}
  Donations = {1}
  MaxEntries = 1
  MaxRecords = 1
  MaxMoney = 3
  MaxShares = 3
CHECK_DEADLOCK FALSE
