----------------------------- MODULE MCPlatform -----------------------------
(***************************************************************************)
(* Five parts of the platform that share no state, one of them at work in  *)
(* each behaviour: accounts, scope, the exposure map, the posture of the   *)
(* inventory, and integrations with their secrets.                         *)
(***************************************************************************)
EXTENDS Accounts, Scope, ExposureMap, Posture, Integrations

VARIABLE part     \* the part at work, never changed

(* Accounts: an administrator of the platform, an administrator of a       *)
(* tenant with a second factor, and someone to be invited.                 *)

MCUsers == {"ann", "bob", "new"}
MCTenants == {"east", "west"}
MCDefault == [u \in MCUsers |-> "east"]
MCMember == [ann |-> [east |-> "tenant_admin", west |-> "viewer"], bob |-> [east |-> "tenant_admin", west |-> "none"],
             new |-> [east |-> "none", west |-> "none"]]
MCSession == <<[user |-> "ann", tenant |-> "east"], [user |-> "ann", tenant |-> "west"], [user |-> "bob", tenant |-> "east"]>>
MCAgendas ==
    {{"refresh", "switch_tenant", "logout", "time"}, {"login", "change_password", "refresh", "mfa_verify", "time"},
     {"forgot", "reset", "login", "switch_tenant"}, {"update_user", "remove_user"}, {"remove_user", "create_user"},
     {"mfa_setup", "mfa_enable", "mfa_disable", "reset_mfa"}, {"create_token", "revoke_token", "remove_user"},
     {"update_tenant", "refresh"}}

(* Scope: a domain, a host of it, two addresses and their network.        *)

MCNames == {"corp", "www"}
MCAddrs == {"a1", "a2"}
MCNets == {"net"}
MCAbove == [corp |-> {}, www |-> {"corp"}]
MCInside == [net |-> {"a1", "a2"}]
MCLength == [corp |-> 1, www |-> 2, a1 |-> 32, a2 |-> 32, net |-> 24]
MCPublic == {"a1"}
MCGiven == {{"corp"}, {"corp", "net"}}

Include(vs, subs, active) == [kind |-> "add", values |-> vs, subs |-> subs, exclusion |-> FALSE, active |-> active]
Exclude(v) == [kind |-> "add", values |-> {v}, subs |-> TRUE, exclusion |-> TRUE, active |-> FALSE]
Update(v, field, value) == [kind |-> "update", row |-> E(v, FALSE), field |-> field, value |-> value]
Delete(v) == [kind |-> "remove", row |-> E(v, FALSE)]
Verify(v, found) == [kind |-> "verify", row |-> E(v, FALSE), value |-> found]
Approve(v) == [kind |-> "approve", row |-> E(v, FALSE)]
Change(what, value) == [kind |-> what, value |-> value]
Result(h, ip) == [kind |-> "ingest", name |-> h, address |-> ip]

MCProgrammes ==
    {{Exclude("www"), Include({"www"}, FALSE, TRUE), Update("corp", "subs", FALSE), Update("corp", "active", FALSE), Delete("corp")},
     {Result("www", "a1"), Exclude("a1"), Delete("corp"), Include({"net"}, FALSE, FALSE), Include({"a1"}, TRUE, TRUE)},
     {Verify("corp", TRUE), Verify("corp", FALSE), Delete("corp"), Include({"corp"}, TRUE, TRUE), Change("settings", TRUE)},
     {Approve("net"), Approve("corp"), Delete("net"), Include({"net"}, FALSE, TRUE), Change("settings", TRUE), Change("settings", FALSE)},
     {Include({"www", "a1"}, FALSE, TRUE), Include({"www", "net"}, TRUE, TRUE), Change("settings", TRUE), Delete("net")},
     {Change("organization", FALSE), Result("www", "a1"), Verify("corp", TRUE), Delete("corp"), Exclude("www")}}

(* The map: three worlds, with a cycle, an orphan and a busy asset.        *)

MCNodes == {"r", "x", "y", "t"}
MapAsset(type, active, in_scope) == [type |-> type, active |-> active, in_scope |-> in_scope]
Link(id, from, to, kind, active) == [id |-> id, from |-> from, to |-> to, kind |-> kind, active |-> active]

Cycle == {Link(1, "r", "x", "exposure", TRUE), Link(2, "x", "y", "exposure", TRUE), Link(3, "y", "r", "exposure", TRUE)}
Web == {Link(1, "r", "x", "exposure", TRUE), Link(2, "x", "y", "exposure", TRUE), Link(4, "x", "x", "exposure", TRUE),
        Link(5, "x", "t", "context", TRUE), Link(6, "r", "t", "exposure", FALSE)}
Assets(y) == [r |-> MapAsset("root_domain", TRUE, TRUE), x |-> MapAsset("other", TRUE, TRUE),
              y |-> MapAsset(IF y THEN "other" ELSE "root_domain", y, FALSE), t |-> MapAsset("context", TRUE, FALSE)]
Bare == [n \in MCNodes |-> MapAsset(IF n = "t" THEN "context" ELSE "other", TRUE, n # "y")]
MCFindings == {[id |-> i, on |-> "x", unverified |-> i = 2] : i \in 1..3}

MCWorlds ==
    {[asset |-> Assets(TRUE), rel |-> Cycle, finding |-> {[id |-> 1, on |-> "x", unverified |-> FALSE]}], [asset |-> Assets(FALSE), rel |-> Web, finding |-> MCFindings],
     [asset |-> Bare, rel |-> Web, finding |-> MCFindings]}

P(start, depth, nodes, per, flags) ==
    [role |-> IF "analyst" \in flags THEN "analyst" ELSE "viewer", findings_allowed |-> "analyst" \in flags, start |-> start,
     expand |-> "expand" \in flags, depth |-> depth, max_nodes |-> nodes, per_node |-> per, include_inactive |-> "inactive" \in flags,
     include_findings |-> TRUE, include_unverified |-> "unverified" \in flags, include_context |-> "context" \in flags]

MCAsks ==
    {P("organization", 2, 8, 3, {"analyst"}), P("organization", 2, 8, 3, {}),
     P("organization", 1, 3, 2, {"analyst", "unverified"}), P("r", 2, 2, 1, {"analyst"}),
     P("x", 3, 5, 2, {"expand", "inactive", "context"})}

(* Posture: a host, its address and port, a site and its certificate.      *)

MCInventory == [name |-> "subdomain", ip |-> "ip_address", port |-> "port", site |-> "http_endpoint", cert |-> "certificate"]
MCRollUp == {<<"name", "ip">>, <<"ip", "port">>, <<"name", "site">>}
MCPresents == {<<"site", "cert">>}
Meta(seen, value, due) == [seen |-> seen, value |-> value, not_after |-> due, alerts |-> {}]
MCMeta == [name |-> Meta({}, "one", 0), ip |-> Meta({}, "one", 0), port |-> Meta({"risky_port"}, None, 0), site |-> Meta({"weak_tls"}, "tls10", 0),
           cert |-> Meta({"self_signed"}, None, 2)]
MCSightings == [name |-> {}, ip |-> {}, port |-> {},
                site |-> {Meta({"weak_tls", "management"}, None, 0), Meta({}, "tls13", 0)}, cert |-> {Meta({"self_signed"}, None, 2)}]
MCRuleOf == [risky_port |-> "exposed-service", management |-> "management-interface", weak_tls |-> "weak-tls-protocol",
             self_signed |-> "certificate-self-signed"]
MCRules == {"exposed-service", "management-interface", "weak-tls-protocol", "certificate-self-signed", "certificate-expired", "certificate-expiring"}
MCVulnerable == {<<"site", "cve">>}
MCIntelPoints == [kev |-> 20, epss |-> 8, cvss |-> 54]
MCSeverity == [r \in MCRules \union {"cve"} |-> IF r \in {"management-interface", "exposed-service"} THEN 40 ELSE IF r = "certificate-expiring" THEN 10 ELSE 25]
MCConfidence == [r \in MCRules \union {"cve"} |-> IF r = "management-interface" THEN 75 ELSE 90]
MCFactors == [exposure |-> 5, criticality |-> 14, management |-> 10, risky_port |-> 6]
MCFloors == [info |-> 0, low |-> 15, medium |-> 35, high |-> 60, critical |-> 80]
MCPlans ==
    {{"ingest", "maintenance", "time"}, {"ingest", "recompute", "update_finding"}, {"update_asset", "recompute", "ingest"},
     {"maintenance", "recompute", "time"}, {"fire", "update_schedule", "delete_schedule", "time"},
     {"refresh", "observe", "recompute"}, {"refresh", "update_finding", "maintenance", "time"}}

-----------------------------------------------------------------------------
Some(set) == CHOOSE x \in set : TRUE

Init ==
    /\ part \in {"accounts", "scope", "map", "posture", "integrations"}
    /\ AccountsInit /\ (part # "accounts" => agenda = Some(Agendas))
    /\ ScopeInit /\ (part # "scope" => programme = Some(Programmes) /\ ~table[TenantRow].require /\ table[E("net", FALSE)] = NoEntry)
    /\ MapInit /\ (part # "map" => world = Some(FirstWorlds))
    /\ PostureInit /\ (part # "posture" => plan = Some(Plans))
    /\ IntegrationsInit

Next ==
    \/ part = "accounts" /\ AccountsNext /\ UNCHANGED <<part, scoping, mapping, posture, integrations>>
    \/ part = "scope" /\ ScopeNext /\ UNCHANGED <<part, accounts, mapping, posture, integrations>>
    \/ part = "map" /\ MapNext /\ UNCHANGED <<part, accounts, scoping, posture, integrations>>
    \/ part = "posture" /\ PostureNext /\ UNCHANGED <<part, accounts, scoping, mapping, integrations>>
    \/ part = "integrations" /\ IntegrationsNext /\ UNCHANGED <<part, accounts, scoping, mapping, posture>>

Spec == Init /\ [][Next]_<<part, accounts, scoping, mapping, posture, integrations>>

=============================================================================
