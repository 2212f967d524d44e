---------------------------- MODULE MCSensorRun ----------------------------
(***************************************************************************)
(* One job of every adapter, on two targets or pages.  The captures run    *)
(* under two policies; a page may send its browser anywhere.               *)
(***************************************************************************)
EXTENDS SensorRun

MCAddresses == {"public", "private", "banned", "tunnel", "cloud"}

MCTraits ==
    [public |-> {"global"}, private |-> {}, banned |-> {"global", "excluded"}, tunnel |-> {"global"}, cloud |-> {"metadata"}]

MCEmbedded == [a \in MCAddresses |-> IF a = "tunnel" THEN {"tunnel", "private"} ELSE {a}]

MCHosts == {"www", "cdn", "other", "10.0.0.1"}
MCLiteral == [h \in {"10.0.0.1"} |-> {"private"}]

MCAnswers == {{}, {"public"}, {"public", "private"}, {"banned"}, {"tunnel"}, {"cloud"}}
MCFirstAnswers == {{"public"}}

MCPolicies ==
    {[allow_non_public |-> lab, excluded_domains |-> {"other"}, allowed_ports |-> {"web"},
      max_connections |-> IF lab THEN 3 ELSE 2, max_response |-> 1, max_total |-> 2] : lab \in BOOLEAN}

T(kind, host, feature) == [kind |-> kind, host |-> host, feature |-> feature]
Two(kind) == {T(kind, "www", ""), T(kind, "cdn", "")}
Both(features) == {"www", "cdn"} \X features

J(adapter, on, asks, limit, retries, flags, world) ==
    [adapter |-> adapter, targets |-> on, asks |-> asks, limit |-> limit, seeds |-> 2, retries |-> retries,
     flags |-> flags, flaw |-> "none", world |-> world, cdn |-> {"cdn"}, known_cdn |-> {"cdn"}]

Scans ==
    {J("subfinder", {T("domain", "www", "")}, {"name", "stray"}, 1, 0, {}, {"www"} \X {"name", "stray"}),
     J("amass", {T("domain", "www", "")}, {"name", "stray"}, 2, 0, {"active"}, {"www"} \X {"name", "stray"}),
     J("bbot", {T("domain", "www", "")}, {"name", "stray"}, 2, 0, {}, {"www"} \X {"name", "stray"}),
     J("crtsh", Two("domain"), {"name", "stray"}, 2, 1, {}, Both({"name", "stray"})),
     J("spiderfoot", Two("domain"), {"name"}, 2, 0, {}, Both({"name"})),
     J("dnsx", Two("hostname"), {"aaaa", "cname"}, 3, 0, {}, Both({"a", "aaaa"})),
     J("dnsx", {T("domain", "www", "")}, {"mx"}, 3, 0, {}, {"www"} \X {"a", "mx"}),
     J("naabu", Two("ip"), {"22", "80", "443"}, 2, 0, {"exclude_cdn"}, Both({"22", "80"})),
     J("httpx", {T("hostname", "www", ""), T("host_port", "cdn", "22"), T("url", "cdn", "80")}, {"80", "443"}, 2, 0, {},
       {<<"www", "80">>, <<"cdn", "22">>, <<"cdn", "80">>}),
     J("nuclei", {T("url", "www", ""), T("host_port", "cdn", "")}, {"high"}, 2, 0, {}, Both({"high", "info"})),
     J("asnlookup", Two("ip"), {"asn"}, 2, 0, {}, Both({"asn"})),
     J("shodan", Two("ip"), {"cve", "old"}, 2, 1, {"include_vulnerabilities"}, Both({"cve", "old"})),
     J("shodan", Two("ip"), {"cve"}, 1, 0, {"include_vulnerabilities"}, Both({"cve"})),
     J("zap_spider", Two("url"), {"alert"}, 1, 0, {"passive_scan"}, Both({"alert"})),
     J("zap_spider", Two("url"), {"alert"}, 2, 0, {"authenticated"}, Both({"alert"})),
     J("zap_active", {T("url", "www", "/"), T("url", "www", "/login"), T("url", "cdn", "/")}, {}, 2, 0, {"authenticated"},
       {<<"www", "/">>, <<"www", "/login">>, <<"cdn", "/">>})}

Flawed ==
    {[J("dnsx", Two("hostname"), {}, 2, 0, {}, {}) EXCEPT !.flaw = flaw] : flaw \in {"expired", "envelope", "configuration", "binary"}}
        \union {J("unknown", Two("ip"), {}, 2, 0, {}, {}), J("dnsx", Two("ip"), {}, 2, 0, {}, {}),
                J("screenshot", Two("url"), {}, 2, 0, {}, {})}

MCJobs == Scans \union Flawed \union {J("screenshot", {T("url", "www", "")}, {}, 2, 0, {}, {})}

MCPageRequests ==
    {[scheme |-> "connect", host |-> "www", port |-> "web"], [scheme |-> "http", host |-> "cdn", port |-> "web"],
     [scheme |-> "http", host |-> "other", port |-> "web"], [scheme |-> "http", host |-> "10.0.0.1", port |-> "web"],
     [scheme |-> "other", host |-> "www", port |-> "web"], [scheme |-> "malformed", host |-> "www", port |-> "web"]}

=============================================================================
