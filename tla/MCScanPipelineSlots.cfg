SPECIFICATION FairSpec
CONSTANTS
  NumScans = 2
  NumStages = 1
  t1 = t1
  quick = quick
  full = full
  Tenants = {t1}
  TenantOf <- OneTenant
  ProfileOf <- OwnProfiles
  OptionalStages = {}
  TenantLimit <- OneLimit
  GlobalLimit = 1
  DispatchBatch = 1
  Cancellable = {}
  MaxUpsets = 1
INVARIANTS
  ConcurrencyLimit
PROPERTIES
  EveryScanEnds
