SPECIFICATION FairSpec
CONSTANTS
  Runs = {d1, d2}
  NoRun = NoRun
  NumEvents = 2
  Backlog = 1
  Setups <- TenantsAndEvents
  Integrations <- Channels
  Users <- Members
  Throttling <- Channels
  Limit = 2
  RetryLimit = 1
  MaxAttempts = 2
  MaxUpsets = 1
  hook = hook
  ann = ann
  bob = bob

  
PROPERTIES
  DeliveredOnce
  EverythingSettles
