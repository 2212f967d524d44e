SPECIFICATION StoreFairSpec
CONSTANTS
  NumCaptures = 3
  home = home
  shop = shop
  AssetOf <- TwoAssets
  Keep = 1
  Quota = 1
  MaxUpsets = 2
INVARIANTS
  
  QuotaHolds
PROPERTIES
  DeletionsFinish
CHECK_DEADLOCK FALSE
