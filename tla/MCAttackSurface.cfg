SPECIFICATION FairSpec
CONSTANTS
  Names = {www}
  Addresses = {ip1}
  Ports = {port}
  Services = {service}
  Endpoints = {site}
  Findings = {cve, leak}
  HostOf <- HostOfSite
  AddressOf <- AddressOfPort
  PortOf <- PortOfService
  On <- OnAssets
  Source <- Reporters
  Setups <- Inventories
  MaxInFlight = 2
  MaxOpen = 2
  Threshold <- Thresholds
  RelationThreshold = 2
  FindingThreshold = 2
  None = None
  www = www
  ip1 = ip1
  port = port
  service = service
  site = site
  cve = cve
  leak = leak
INVARIANTS
  MissedEnoughIsGone
PROPERTIES
  StatusNeedsEvidence
  FindingsLeaveWithAsset
  DecisionsStand
  
CHECK_DEADLOCK FALSE
