SPECIFICATION Spec
CONSTANTS
  NumCaptures = 2
  t1 = t1
  t2 = t2
  home = home
  shop = shop
  blog = blog
  Tenants = {t1}
  Assets = {home, shop, blog}
  TenantOf <- OneTenant
  AssetOf <- OwnAssets
  MaxConcurrent = 1
  PerTenantDaily = 2
  PerTenantQueued = 2
  Timeouts = {1, 2}
  StartWindow = 1
  DispatchGrace = 1
  Travel = 1
  CandidateFactor = 5
  ClockCap = 5
  MaxUpsets = 1
INVARIANTS
  ActiveLimit
CHECK_DEADLOCK FALSE
