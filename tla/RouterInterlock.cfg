SPECIFICATION Spec
CONSTANTS
  v1 = v1 v2 = v2 v3 = v3
  Vaults = {v1, v2} Hooked = {v1, v2} Codeless = {} UsdcVaults = {v1, v2}
  Routers = {r1} NoRouter = NoRouter FirstVault = v1 FirstRouter = r1
  BPS_DENOMINATOR = 10000
  Vectors <- InterlockVectors
  Statuses = {"Active", "DepositsPaused", "Retired"}
  Gates = {} Capped = {} Caps = {} Amounts = {2} Donations = {} Floors <- NoFloors QuoteFailures <- NoFailures Rates = {1}
  Redemptions <- RedeemLegs Approvals = {2} Delegate = Delegate Holder = Holder Funds = 2
INVARIANTS DefaultSpansEligible RetiredNeverEligible ExitNeverBlocked
