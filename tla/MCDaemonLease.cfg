SPECIFICATION DaemonFairSpec
CONSTANTS
  Pool = {j1, j2}
  NoJob = NoJob
  TTL = 8
  Period = 2
  RenewTicks = 1
  CallTicks = 1
  CrawlTicks = 1
  WaitTicks = 1
  MaxUpsets = 1

  
PROPERTIES
  JobsEndAndLeaveNothing
CHECK_DEADLOCK FALSE
