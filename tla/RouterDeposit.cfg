SPECIFICATION Spec
CONSTANTS
  v1 = v1 v2 = v2 v3 = v3
  Vaults = {v1, v2, v3} Hooked = {v3} Codeless = {} UsdcVaults = {v1, v2, v3}
  Routers = {r1} NoRouter = NoRouter FirstVault = v1 FirstRouter = r1
  BPS_DENOMINATOR = 10000
  Vectors <- DepositVectors
  Statuses = {"DepositsPaused"}
  Gates = {v2} Capped = {v1} Caps = {2} Amounts = {5} Donations = {1}
  Floors <- DepositFloors QuoteFailures <- DepositQuoteFailures Rates = {0, 1}
  Redemptions = {} Approvals = {} Delegate = Delegate Holder = Holder Funds = 6
INVARIANTS RouterKeepsNothing SplitIsProportional FundedLegsQuoted FloorsHonoured
PROPERTY FundsReachOpenVaults
