--------------------------- MODULE MCAttackSurface ---------------------------
(* Small inventories: a name that resolves to an address and serves an endpoint;       *)
(* an address with a port and a service; an endpoint with a finding.                    *)
EXTENDS AttackSurface

CONSTANTS www, ip1, port, service, site, cve, leak

HostOfSite == site :> www
AddressOfPort == port :> ip1
PortOfService == service :> port
OnAssets == cve :> site @@ leak :> port
Reporters == cve :> "nuclei" @@ leak :> "shodan"
Inventories ==
    {[assets |-> {www, ip1, site}, known |-> {www}, sensors |-> {"dnsx", "httpx"}, writers |-> {"ingest"}],
     [assets |-> {www, site}, known |-> {www}, sensors |-> {"dnsx", "httpx", "nuclei"}, writers |-> {"ingest"}],
     [assets |-> {www, ip1, port, service}, known |-> {www}, sensors |-> {"dnsx", "naabu", "shodan"}, writers |-> {"ingest"}],
     [assets |-> {www, site}, known |-> {www, site, <<www, site>>}, sensors |-> {"nuclei"}, writers |-> Writers],
     [assets |-> {www, site}, known |-> {www, site, <<www, site>>, cve}, sensors |-> {"httpx"}, writers |-> {"ingest", "analyst"}],
     [assets |-> {www, ip1, port}, known |-> {www, ip1, <<www, ip1>>}, sensors |-> {"naabu"}, writers |-> {"ingest", "maintenance"}]}
Thresholds == [a \in {www, ip1, port, service, site} |-> IF a = www THEN 3 ELSE 2]
=============================================================================
