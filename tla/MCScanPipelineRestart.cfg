SPECIFICATION FairSpec
CONSTANTS
  NumScans = 1
  NumStages = 1
  t1 = t1
  quick = quick
  full = full
  Tenants = {t1}
  TenantOf <- OneTenant
  ProfileOf <- OneProfile
  OptionalStages = {}
  TenantLimit <- OneLimit
  GlobalLimit = 1
  DispatchBatch = 1
  Cancellable = {1}
  MaxUpsets = 0
INVARIANTS
  CancelledStaysCancelled
CHECK_DEADLOCK FALSE
