SPECIFICATION Spec
CONSTANTS
  v1 = v1 v2 = v2 v3 = v3
  Vaults = {v1, v2, v4} Hooked = {v1, v2} Codeless = {v4} UsdcVaults = {v1, v2}
  Routers = {r1, r2} NoRouter = NoRouter FirstVault = v1 FirstRouter = r1
  BPS_DENOMINATOR = 10000
  Vectors <- RelinkVectors
  Statuses = {"Active", "DepositsPaused", "Retired"}
  Gates = {} Capped = {} Caps = {} Amounts = {} Donations = {} Floors = {} QuoteFailures = {} Rates = {}
  Redemptions = {} Approvals = {} Delegate = Delegate Holder = Holder Funds = 0
INVARIANTS CountMirrorsFlags StatusDrivesVault
