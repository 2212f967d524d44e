SPECIFICATION Spec
CHECK_DEADLOCK FALSE
CONSTANTS
  Users <- MCUsers
  Tenants <- MCTenants
  PlatformAdmins = {"ann"}
  DefaultTenant <- MCDefault
  GivenMember <- MCMember
  GivenSession <- MCSession
  GivenMfa = {"bob"}
  Agendas <- MCAgendas
  MaxRequests = 3
  MaxUnderWay = 2
  MaxClock = 1
  Threshold = 2
  MaxUsers = 3
  IdleTtl = 0
  Ttl = 2
  Names <- MCNames
  Addrs <- MCAddrs
  Nets <- MCNets
  Above <- MCAbove
  Inside <- MCInside
  Length <- MCLength
  Public <- MCPublic
  NonPublicAllowed = FALSE
  GivenScopes <- MCGiven
  Programmes <- MCProgrammes
  Edits = 3
  MaxEditsUnderWay = 2
  Nodes <- MCNodes
  Worlds <- MCWorlds
  FirstWorlds <- MCWorlds
  Asks <- MCAsks
  MaxRoots = 1
  EdgesFactor = 1
  FindingsPerAsset = 2
  CacheTtl = 0
  CacheSize = 1
  MaxMaps = 2
  MaxTicks = 1
  MaxRescans = 1
  Inventory <- MCInventory
  RollUp <- MCRollUp
  Presents <- MCPresents
  GivenMeta <- MCMeta
  Sightings <- MCSightings
  DetectionRules <- MCRules
  RuleOf <- MCRuleOf
  Vulnerable <- MCVulnerable
  IntelPoints <- MCIntelPoints
  SeverityPoints <- MCSeverity
  Confidence <- MCConfidence
  FactorPoints <- MCFactors
  LevelFloors <- MCFloors
  ResidualCap = 45
  MoreFindingsCap = 15
  AgePoints = 2
  AgeCap = 8
  AgePeriod = 1
  EXPIRY_THRESHOLDS = {0, 1}
  ExpiryDays = 1
  MaxAge = 1
  Acceptance = 1
  Crons = {1, 2}
  Plans <- MCPlans
  MaxJobs = 4
  MaxIntelJobs = 3
  MaxAtOnce = 2
  MaxDay = 2
  Channels = {"mail", "hook"}
  Providers = {"shodan"}
  MaxCalls = 4
  MaxCallsUnderWay = 2
  None = None
INVARIANTS PasswordEndsSessions AdministratorRemains ChainIntact StatusesCurrent OnlyAuthorizedScanned    OnceOnly SecretsFollowUse
