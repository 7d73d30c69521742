SPECIFICATION Spec
INVARIANTS TypeOK SnapshotKept ClaimsProRata LedgerSolvent OneRecordPerAdapter
PROPERTIES RecoveryReachesRecord
CONSTANTS
  h1 = h1
  h2 = h2
  fee = fee
  a1 = a1
  a2 = a2
  NoHolder = NoHolder
  Holders = {h1, h2}
  FeeRecipient = fee
  Adapters <- OneAdapter
  CodeHash <- OneCode
  VirtualShares = 1
  MAX_BPS = 10000
  MAX_ADAPTERS = 2
  MAX_EXIT_FEE_BPS = 100
  MAX_REBALANCE_BPS_CEILING = 5000
  InitialCap = 100
  InitialFee = 0
  InitialMoveBps = 2500
  Funds <- OneFunded
  ShortLimit = 1
  Venues = {"open", "short"}
  Flips = {}
  Fragile = {a1}
  Capped = {}
  Amounts = {2}
  ShareAmounts = {}
  Gifts = {1}
  Tranches = {1}
  CapBps = {10000}
  ExposureCaps = {}
  Caps = {}
  Fees = {}
  MoveBps = {}
  Targets <- NoTargets
  Levers = {}
  Income = {}
  Losses = {}
  Donations = {}
  MaxEntries = 2
  MaxRecords = 2
  MaxMoney = 8
  MaxShares = 4
CHECK_DEADLOCK FALSE
