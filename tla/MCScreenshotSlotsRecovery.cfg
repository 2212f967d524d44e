SPECIFICATION FairSpec
CONSTANTS
  NumCaptures = 2
  t1 = t1
  t2 = t2
  home = home
  shop = shop
  blog = blog
  Tenants = {t1}
  Assets = {home, shop, blog}
  TenantOf <- OneTenant
  AssetOf <- OwnAssets
  MaxConcurrent = 1
  PerTenantDaily = 1
  PerTenantQueued = 2
  Timeouts = {1}
  StartWindow = 0
  DispatchGrace = 0
  Travel = 1
  CandidateFactor = 5
  ClockCap = 3
  MaxUpsets = 1
INVARIANTS
  DailyAllowance
PROPERTIES
  CapturesEnd
CHECK_DEADLOCK FALSE
