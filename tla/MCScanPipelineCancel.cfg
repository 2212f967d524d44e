SPECIFICATION Spec
CONSTANTS
  NumScans = 1
  NumStages = 2
  t1 = t1
  quick = quick
  full = full
  Tenants = {t1}
  TenantOf <- OneTenant
  ProfileOf <- OneProfile
  OptionalStages = {1}
  TenantLimit <- OneLimit
  GlobalLimit = 1
  DispatchBatch = 1
  Cancellable = {1}
  MaxUpsets = 1
INVARIANTS
  WorkOnce
  
PROPERTIES
  ImplementsLedger
