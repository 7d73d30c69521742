SPECIFICATION Spec
INVARIANTS MaxWithdrawHonoured
PROPERTIES  RoutingWithinCaps  RebalanceThrottled
CONSTANTS
  h1 = h1
  h2 = h2
  fee = fee
  a1 = a1
  a2 = a2
  NoHolder = NoHolder
  Holders = {h1}
  FeeRecipient = fee
  Adapters <- TwoAdapters
  CodeHash <- OneCode
  VirtualShares = 1
  MAX_BPS = 4
  MAX_ADAPTERS = 2
  MAX_EXIT_FEE_BPS = 1
  MAX_REBALANCE_BPS_CEILING = 2
  InitialCap = 5
  InitialFee = 1
  InitialMoveBps = 1
  Funds <- ThreeEach
  ShortLimit = 1
  Venues = {"open", "full", "closed"}
  Flips = {}
  Fragile = {a2}
  Capped = {a1}
  Amounts = {2}
  ShareAmounts = {1}
  Gifts = {}
  Tranches = {}
  CapBps = {3}
  ExposureCaps = {1}
  Caps = {}
  Fees = {0}
  MoveBps = {2}
  Targets <- NoTargets
  Levers = {"keeper"}
  Income = {1}
  Losses = {}
  Donations = {}
  MaxEntries = 2
  MaxRecords = 0
  MaxMoney = 4
  MaxShares = 4
CHECK_DEADLOCK FALSE
