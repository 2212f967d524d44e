----------------------------- MODULE SensorRun -----------------------------
(***************************************************************************)
(* One sensor job in a scanner worker, from its delivery to its result     *)
(* (asm_sensors/worker.py, runner.py, base.py and the adapters).           *)
(*                                                                         *)
(* What matters of a result is its coverage: whatever it covers and does   *)
(* not report counts as gone for the platform.  So the model keeps, of the *)
(* data, only questions: a question <<host, feature>> asks whether a host  *)
(* has a port, a finding of a severity, a record, an alert.  `there` is    *)
(* the true answer, `examined` what has really been asked, and a result    *)
(* reports and covers sets of questions.                                   *)
(*                                                                         *)
(* Three kinds of adapters: a tool in one or two processes, a service      *)
(* asked item by item (a database, a resolver, a daemon with an API), and  *)
(* a browser behind the proxy of EgressProxy.                              *)
(***************************************************************************)
EXTENDS EgressProxy

CONSTANTS
    Jobs,          \* the jobs to consider, of Job
    PageRequests,  \* requests a page makes its browser send
    MaxRedirects

Kinds == {"domain", "hostname", "ip", "cidr", "host_port", "url"}
Tools == {"subfinder", "amass", "bbot", "dnsx", "naabu", "httpx", "nuclei"}
Services == {"crtsh", "spiderfoot", "asnlookup", "shodan", "zap_spider", "zap_active"}
Adapters == Tools \union Services \union {"screenshot"}

Target == [kind : Kinds, host : Hosts, feature : STRING]
Question == Hosts \X STRING
Flags == {"active", "exclude_cdn", "passive_scan", "include_vulnerabilities", "authenticated"}

\* A job, its adapter's configuration, what goes wrong with it before it starts, and what is
\* true of its hosts: which are edges of a CDN, which of those the platform knows to be.
Job == [adapter : Adapters \union {"unknown"}, targets : SUBSET Target, asks : SUBSET STRING,
        limit : Nat, seeds : Nat, retries : Nat, flags : SUBSET Flags,
        flaw : {"none", "expired", "envelope", "configuration", "binary"},
        world : SUBSET Question, cdn : SUBSET Hosts, known_cdn : SUBSET Hosts]

\* The platform's knowledge of a CDN is right, and a service asks the question it is there for.
ASSUME SensorRunAssumption ==
    /\ MaxRedirects \in Nat /\ PageRequests \subseteq Request /\ Jobs \subseteq Job
    /\ \A j \in Jobs :
        /\ j.known_cdn \subseteq j.cdn /\ IsFiniteSet(j.targets) /\ IsFiniteSet(j.world)
        /\ j.adapter = "asnlookup" => "asn" \in j.asks
        /\ j.adapter = "shodan" => "cve" \in j.asks
        /\ j.adapter = "zap_spider" => "alert" \in j.asks

VARIABLES
    job,        \* one of Jobs, never changed
    there,      \* questions whose answer is yes, never changed
    pc,
    unchecked,  \* targets the egress filter has not decided on
    targets,    \* targets it has kept
    todo,       \* batches of targets still to be worked on
    raw,        \* RawOutput
    attempt,    \* attempts at the current call
    result,     \* SensorResult, or None
    page,       \* of a capture: redirects followed, the host, the connection in use, how it ended
    browser,    \* browser processes with our profile marker
    examined    \* history: questions really asked

sensor == <<job, there, pc, unchecked, targets, todo, raw, attempt, result, page, browser, examined>>
rigid == <<job, there>>
vars == <<proxy, names, sensor>>

RawOutput == [process : {"none", "ok", "failed"}, records : SUBSET Question, answered : SUBSET Hosts,
              errors : BOOLEAN, truncated : BOOLEAN]
Empty == [process |-> "none", records |-> {}, answered |-> {}, errors |-> FALSE, truncated |-> FALSE]

SensorResult == [status : {"completed", "partial", "failed"}, observed : SUBSET Question, coverage : SUBSET Question]
Failed == [status |-> "failed", observed |-> {}, coverage |-> {}]

TypeOK ==
    /\ EgressTypeOK
    /\ job \in Jobs /\ there \subseteq job.world
    /\ pc \in {"queued", "filter", "run", "prepare", "execute", "finish", "preflight", "browser", "stop", "done", "lost"}
    /\ unchecked \subseteq job.targets /\ targets \subseteq job.targets
    /\ todo \subseteq SUBSET job.targets /\ raw \in RawOutput /\ attempt \in Nat
    /\ result \in SensorResult \union {None}
    /\ page \in [hops : Nat, host : Hosts \union {None}, conn : Conns \union {None}, outcome : STRING]
    /\ browser \subseteq {"own", "stale"} /\ examined \subseteq Question

Init ==
    /\ ProxyInit
    /\ job \in Jobs /\ there \in SUBSET job.world
    /\ pc = "queued" /\ unchecked = {} /\ targets = {} /\ todo = {} /\ raw = Empty /\ attempt = 0
    /\ result = None /\ page = [hops |-> 0, host |-> None, conn |-> None, outcome |-> ""]
    /\ browser \in {{}, {"stale"}} /\ (job.adapter # "screenshot" => browser = {})
    /\ examined = {}

-----------------------------------------------------------------------------
(* What the adapters are.                                                  *)

target_kinds ==
    [subfinder |-> {"domain"}, amass |-> {"domain"}, bbot |-> {"domain"}, crtsh |-> {"domain"},
     spiderfoot |-> {"domain"}, dnsx |-> {"hostname", "domain"}, naabu |-> {"ip", "cidr"},
     httpx |-> {"hostname", "ip", "host_port", "url"}, nuclei |-> {"url", "host_port", "hostname", "ip"},
     asnlookup |-> {"ip"}, shodan |-> {"ip"}, zap_spider |-> {"url", "host_port", "hostname"},
     zap_active |-> {"url", "host_port"}, screenshot |-> {"url"}]

is_active ==
    \/ job.adapter \in {"naabu", "httpx", "nuclei", "zap_spider", "zap_active", "screenshot"}
    \/ job.adapter \in {"amass", "bbot", "spiderfoot"} /\ "active" \in job.flags

At(h, features) == {<<h, f>> : f \in features}
HostsOf(batch) == {t.host : t \in batch}
Ask(batch, Features(_)) == UNION {At(t.host, Features(t)) : t \in batch}

cdn_ports == {"80", "443"}

\* The questions an adapter asks about a target.
naabu_asks(t) == IF "exclude_cdn" \in job.flags /\ t.host \in job.cdn THEN job.asks \intersect cdn_ports ELSE job.asks
httpx_asks(t) == IF t.kind \in {"hostname", "ip"} THEN job.asks ELSE {t.feature}
dnsx_asks(t) == job.asks \union {"a"}
nuclei_asks(t) == job.asks

Asked(t) ==
    CASE job.adapter = "naabu" -> naabu_asks(t)
      [] job.adapter = "httpx" -> httpx_asks(t)
      [] job.adapter = "dnsx" -> dnsx_asks(t)
      [] job.adapter = "nuclei" -> nuclei_asks(t)
      [] job.adapter = "zap_active" -> {t.feature}
      [] OTHER -> job.asks

\* How the targets are worked on: httpx runs once for targets with a port and once for bare
\* ones, the active scanner once per origin, services once per target.
explicit == {t \in targets : t.kind \in {"host_port", "url"}}

Batches ==
    CASE job.adapter = "httpx" -> {explicit, targets \ explicit} \ {{}}
      [] job.adapter \in Tools \ {"httpx"} -> {targets}
      [] job.adapter = "zap_active" -> {{t \in targets : t.host = h} : h \in HostsOf(targets)}
      [] OTHER -> {{t} : t \in targets}

-----------------------------------------------------------------------------
(* normalize: what is reported of the records, and what is covered.        *)

Normalized(observed, coverage) == [observed |-> observed, coverage |-> coverage]
InRoots == {r \in raw.records : r[2] # "stray"}

subfinder == Normalized(raw.records, {})
amass == Normalized(raw.records, {})
bbot == Normalized(InRoots, {})
crtsh == Normalized(InRoots, {})
spiderfoot == Normalized(raw.records, {})
asnlookup == Normalized(raw.records, Ask({t \in targets : t.host \in raw.answered}, LAMBDA t : {"asn"}))

\* The addresses a name resolves to are covered whichever records were asked for, aliases if they were.
dnsx == Normalized(raw.records, Ask(targets, LAMBDA t : {"a", "aaaa"} \union (job.asks \intersect {"cname"})))

\* The platform narrows the coverage of an address it knows to be an edge of a CDN.
naabu ==
    LET CoveredPorts(t) == IF "exclude_cdn" \in job.flags /\ t.host \in job.known_cdn THEN cdn_ports ELSE job.asks IN
    Normalized(raw.records, Ask(targets, CoveredPorts))

\* A URL vouches for nothing: it may be one page of an endpoint.
httpx == Normalized(raw.records, Ask({t \in targets : t.kind # "url"}, httpx_asks))

\* _matches_filter applies the severities to the findings of the assets named here.
nuclei == Normalized(raw.records, Ask({t \in targets : t.kind \in {"url", "hostname"}}, nuclei_asks))

\* Services last seen before the cutoff are left out, and their ports are not covered.
shodan ==
    Normalized({r \in raw.records : r[2] # "old" /\ "include_vulnerabilities" \in job.flags},
               Ask({t \in targets : t.host \in raw.answered}, LAMBDA t : {"cve"}))

zap_spider ==
    Normalized(raw.records, IF "passive_scan" \in job.flags THEN Ask(targets, LAMBDA t : {"alert"}) ELSE {})

zap_active == Normalized(raw.records, Ask(targets, LAMBDA t : {t.feature}))

normalize ==
    CASE job.adapter = "subfinder" -> subfinder [] job.adapter = "amass" -> amass [] job.adapter = "bbot" -> bbot
      [] job.adapter = "crtsh" -> crtsh [] job.adapter = "spiderfoot" -> spiderfoot [] job.adapter = "dnsx" -> dnsx
      [] job.adapter = "asnlookup" -> asnlookup [] job.adapter = "naabu" -> naabu [] job.adapter = "httpx" -> httpx
      [] job.adapter = "nuclei" -> nuclei [] job.adapter = "shodan" -> shodan
      [] job.adapter = "zap_spider" -> zap_spider [] job.adapter = "zap_active" -> zap_active

-----------------------------------------------------------------------------
(* The job: guards, the egress filter and the driver of the adapters.      *)

Report(r) == result' = r /\ pc' = "done"

\* execute_job until the filter: the guards before anything is contacted.
execute_job ==
    /\ pc = "queued"
    /\ IF job.flaw \in {"expired", "envelope", "configuration"} \/ job.adapter \notin Adapters
       THEN Report(Failed) /\ UNCHANGED <<unchecked, targets>>
       ELSE /\ pc' = IF is_active THEN "filter" ELSE "run"
            /\ unchecked' = IF is_active THEN job.targets ELSE {}
            /\ targets' = IF is_active THEN {} ELSE job.targets
            /\ UNCHANGED result
    /\ UNCHANGED <<proxy, names, rigid, todo, raw, attempt, page, browser, examined>>

\* Every address a target stands for at this moment must be allowed; a name without an
\* address is kept.
TargetAllowed(t) ==
    \A a \in system_resolve(t.host) : (policy.allow_non_public \/ "global" \in Traits[a]) /\ "excluded" \notin Traits[a]

\* egress_filter: the lookups of the targets run side by side.
egress_filter(t) ==
    /\ pc = "filter" /\ t \in unchecked
    /\ unchecked' = unchecked \ {t}
    /\ targets' = IF TargetAllowed(t) THEN targets \union {t} ELSE targets
    /\ pc' = IF unchecked' = {} THEN "run" ELSE pc
    /\ UNCHANGED <<proxy, names, rigid, todo, raw, attempt, result, page, browser, examined>>

\* run until execute: nothing left to scan, the wrong kind of target, a missing binary,
\* credential or service; a capture takes exactly one endpoint.
run ==
    /\ pc = "run"
    /\ IF targets = {}
       THEN Report([Failed EXCEPT !.status = "completed"])
       ELSE IF \/ \E t \in targets : t.kind \notin target_kinds[job.adapter]
               \/ job.flaw = "binary"
               \/ job.adapter = "screenshot" /\ Cardinality(targets) # 1
       THEN Report(Failed)
       ELSE pc' = "prepare" /\ UNCHANGED result
    /\ UNCHANGED <<proxy, names, rigid, unchecked, targets, todo, raw, attempt, page, browser, examined>>

\* What precedes the first call: max_lookups and the check of the account, the lease and the
\* options of the daemon.  Each of them may fail and end the run, options alone do not.
Lookups == IF job.adapter = "shodan" THEN {b \in SUBSET Batches : Cardinality(b) = Min({job.limit, Cardinality(Batches)})}
           ELSE {Batches}

prepare ==
    /\ pc = "prepare" /\ job.adapter # "screenshot"
    /\ \E lookups \in Lookups :
        \/ /\ todo' = lookups /\ pc' = "execute"
           /\ raw' = [raw EXCEPT !.errors = lookups # Batches]
        \/ /\ job.adapter \in {"zap_spider", "zap_active"} /\ todo' = lookups /\ pc' = "execute"
           /\ raw' = [raw EXCEPT !.errors = TRUE]
        \/ /\ job.adapter \in {"shodan", "zap_spider", "zap_active"} /\ todo' = {} /\ pc' = "finish"
           /\ raw' = [raw EXCEPT !.errors = TRUE]
    /\ UNCHANGED <<proxy, names, rigid, unchecked, targets, attempt, result, page, browser, examined>>

-----------------------------------------------------------------------------
(* Tools.                                                                  *)

\* tool_output: of more than limit records, some limit of them, and the flag.
tool_output(written) ==
    IF Cardinality(written) <= job.limit THEN {<<written, FALSE>>}
    ELSE {<<kept, TRUE>> : kept \in {k \in SUBSET written : Cardinality(k) = job.limit}}

\* Two invocations of which the last one decides.
run_process_last(batch) ==
    LET questions == Ask(batch, Asked) IN
    /\ pc = "execute" /\ job.adapter \in Tools /\ batch \in todo
    /\ \E asked \in SUBSET questions, ok \in BOOLEAN : \E out \in tool_output(asked \intersect there) :
        /\ ok => asked = questions
        /\ examined' = examined \union asked
        /\ raw' = [raw EXCEPT !.records = @ \union out[1], !.truncated = @ \/ out[2],
                              !.process = IF ok THEN "ok" ELSE "failed"]
    /\ todo' = todo \ {batch}
    /\ pc' = IF todo' = {} THEN "finish" ELSE pc
    /\ UNCHANGED <<proxy, names, rigid, unchecked, targets, attempt, result, page, browser>>

\* run_process for one batch: the tool exits with 0 when it has asked everything, or fails
\* or is killed at the timeout after any part of it.  The first failure is kept.
run_process(batch) ==
    LET questions == Ask(batch, Asked) IN
    /\ pc = "execute" /\ job.adapter \in Tools /\ batch \in todo
    /\ \E asked \in SUBSET questions, ok \in BOOLEAN : \E out \in tool_output(asked \intersect there) :
        /\ ok => asked = questions
        /\ examined' = examined \union asked
        /\ raw' = [raw EXCEPT !.records = @ \union out[1], !.truncated = @ \/ out[2],
                              !.process = IF @ = "none" \/ ~ok THEN (IF ok THEN "ok" ELSE "failed") ELSE @]
    /\ todo' = todo \ {batch}
    /\ pc' = IF todo' = {} THEN "finish" ELSE pc
    /\ UNCHANGED <<proxy, names, rigid, unchecked, targets, attempt, result, page, browser>>

-----------------------------------------------------------------------------
(* Services.  An outcome of a call: the questions really asked, the        *)
(* records returned, whether the host counts as answered, whether an error *)
(* is noted, and whether the loop goes on.                                 *)

Outcome(asked, records, answered, error, then) ==
    [asked |-> asked, records |-> records, answered |-> answered, error |-> error, then |-> then]
Answer(asked) == Outcome(asked, asked \intersect there, TRUE, FALSE, "next")
Error == Outcome({}, {}, FALSE, TRUE, "next")
Break == [Error EXCEPT !.then = "break"]
Partial(asked) == {Outcome(part, part \intersect there, TRUE, TRUE, "next") : part \in SUBSET asked}

crtsh_call(asked) == {Answer(asked), Error}

\* Refused, or an error of the API; not finished within max_wait, then stopped and exported.
spiderfoot_call(asked) == {Answer(asked), Error} \union Partial(asked)

\* An address without an origin record stays unanswered, and a failed TXT query is no error.
asnlookup_call(asked) ==
    {[Answer(asked) EXCEPT !.answered = asked \intersect there # {}], Outcome({}, {}, FALSE, FALSE, "next")}

\* 200; 404; another status or no JSON; 401, 403, 429 or unreachable.
shodan_call(asked) == {Answer(asked), Outcome(asked, {}, FALSE, FALSE, "next"), Error, Break}

\* _ZapClient.alerts: as many alerts as were asked for may not be all of them.
alerts(o) ==
    {[o EXCEPT !.records = shown, !.error = @ \/ Cardinality(shown) >= job.limit] :
        shown \in {r \in SUBSET o.records : Cardinality(r) = Min({job.limit, Cardinality(o.records)})}}

\* _crawl_one and _scan_origin: finished; refused or past a deadline, with the alerts there are;
\* a failed call; the session header could not be set; the lease of the daemon was lost.
zap_call(asked) ==
    LET analysed(o) == IF job.adapter = "zap_spider" /\ "passive_scan" \notin job.flags THEN [o EXCEPT !.records = {}] ELSE o
        crawled == {analysed(o) : o \in {Answer(asked)} \union Partial(asked)} IN
    (UNION {alerts(o) : o \in crawled}) \union {Error, Break}
        \union (IF "authenticated" \in job.flags THEN {[Error EXCEPT !.then = "raise"]} ELSE {})

\* _scan_origin reloads at most max_seed_pages of the pages known.
Seeded(batch) ==
    IF job.adapter # "zap_active" THEN {Ask(batch, Asked)}
    ELSE {Ask(seeds, Asked) : seeds \in {s \in SUBSET batch : Cardinality(s) = Min({job.seeds, Cardinality(batch)})}}

Outcomes(asked) ==
    CASE job.adapter = "crtsh" -> crtsh_call(asked)
      [] job.adapter = "spiderfoot" -> spiderfoot_call(asked)
      [] job.adapter = "asnlookup" -> asnlookup_call(asked)
      [] job.adapter = "shodan" -> shodan_call(asked)
      [] OTHER -> zap_call(asked)

\* A failed call is repeated up to the configured number of times.
Retry ==
    /\ pc = "execute" /\ job.adapter \in {"crtsh", "shodan"} /\ attempt < job.retries
    /\ attempt' = attempt + 1
    /\ UNCHANGED <<proxy, names, rigid, pc, unchecked, targets, todo, raw, result, page, browser, examined>>

execute(batch) ==
    /\ pc = "execute" /\ job.adapter \in Services /\ batch \in todo
    /\ \E asked \in Seeded(batch) : \E o \in Outcomes(asked) :
        /\ (o.error /\ job.adapter = "crtsh") => attempt = job.retries
        /\ examined' = examined \union o.asked
        /\ raw' = [raw EXCEPT !.records = @ \union o.records, !.errors = @ \/ o.error,
                              !.answered = IF o.answered THEN @ \union HostsOf(batch) ELSE @]
        /\ todo' = IF o.then = "next" THEN todo \ {batch} ELSE {}
        /\ IF o.then = "raise" THEN Report(Failed)
           ELSE pc' = (IF todo' = {} THEN "finish" ELSE pc) /\ UNCHANGED result
    /\ attempt' = 0
    /\ UNCHANGED <<proxy, names, rigid, unchecked, targets, page, browser>>

-----------------------------------------------------------------------------
(* The rest of run: a result vouches for nothing unless it is complete.    *)

Incomplete == raw.errors \/ raw.process = "failed" \/ raw.truncated

\* Without an observation an incomplete run has failed; pages and addresses are observations too.
Status ==
    IF ~Incomplete THEN {"completed"}
    ELSE IF normalize.observed # {} THEN {"partial"}
    ELSE {"failed"} \union (IF job.adapter \in {"shodan", "zap_spider"} /\ raw.answered # {} THEN {"partial"} ELSE {})

finish ==
    /\ pc = "finish"
    /\ \E status \in Status :
        Report([status |-> status, observed |-> normalize.observed,
                coverage |-> IF Incomplete THEN {} ELSE normalize.coverage])
    /\ UNCHANGED <<proxy, names, rigid, unchecked, targets, todo, raw, attempt, page, browser, examined>>

-----------------------------------------------------------------------------
(* A capture (adapters/screenshot): run and _capture.                      *)

unused == <<rigid, unchecked, targets, todo, raw, attempt, examined>>

\* run until _capture: the pool's lease, the browsers of dead workers, the proxy.
capture ==
    /\ pc = "prepare" /\ job.adapter = "screenshot"
    /\ \/ Report(Failed) /\ UNCHANGED <<proxy, names, page, browser>>
       \/ /\ browser' = {} /\ pc' = "preflight" /\ start
          /\ page' = [page EXCEPT !.host = (CHOOSE t \in targets : TRUE).host]
          /\ UNCHANGED <<names, result>>
    /\ UNCHANGED unused

End(outcome) == page' = [page EXCEPT !.outcome = outcome] /\ pc' = "stop" /\ stop

\* preflight follows the redirects itself, one request at a time, at most MaxRedirects of them.
preflight(c) ==
    /\ pc = "preflight" /\ page.conn = None
    /\ \E scheme \in {"connect", "http"}, port \in Ports : accept(c, [scheme |-> scheme, host |-> page.host, port |-> port])
    /\ page' = [page EXCEPT !.conn = c]
    /\ UNCHANGED <<unused, pc, result, browser>>

Redirected ==
    /\ pc = "preflight" /\ page.conn # None /\ conn[page.conn].state = "open" /\ conn[page.conn].moved > 0
    /\ IF page.hops < MaxRedirects
       THEN /\ \E h \in Hosts : page' = [page EXCEPT !.hops = @ + 1, !.host = h, !.conn = None]
            /\ Goto(page.conn, "ended") /\ UNCHANGED <<pc, policy, server, stats, contacted, delivered>>
       ELSE End("failed")
    /\ UNCHANGED <<unused, names, result, browser>>

\* Refused by the proxy for whatever reason; not reached, cut off or not a page.
PreflightFails ==
    /\ pc = "preflight" /\ page.conn # None
    /\ \/ conn[page.conn].state = "refused" /\ End("blocked")
       \/ conn[page.conn].state \in {"open", "ended"} /\ End("failed")
    /\ UNCHANGED <<unused, names, result, browser>>

\* The page is there: the browser is started on it and asks the proxy for what it likes.
Launch ==
    /\ pc = "preflight" /\ page.conn # None /\ conn[page.conn].state = "open" /\ conn[page.conn].moved > 0
    /\ Goto(page.conn, "ended") /\ pc' = "browser" /\ browser' = browser \union {"own"}
    /\ UNCHANGED <<unused, names, policy, server, stats, contacted, delivered, result, page>>

PageAsks(c, request) ==
    /\ pc = "browser" /\ accept(c, request)
    /\ UNCHANGED sensor

\* A browser that is left running after a timeout.
BrowserLeft ==
    /\ pc = "browser" /\ UNCHANGED browser
    /\ \E outcome \in {"succeeded", "failed", "timeout", "unavailable"} : End(outcome)
    /\ UNCHANGED <<unused, names, result>>

\* The browser ends or is killed with its process group at the timeout.
BrowserEnds ==
    /\ pc = "browser" /\ browser' = browser \ {"own"}
    /\ \E outcome \in {"succeeded", "failed", "timeout", "unavailable"} : End(outcome)
    /\ UNCHANGED <<unused, names, result>>

Stopped ==
    /\ pc = "stop" /\ Unfinished = {}
    /\ server' = "closed"
    /\ Report([Failed EXCEPT !.status = IF page.outcome = "succeeded" THEN "completed" ELSE "failed"])
    /\ UNCHANGED <<unused, names, policy, conn, stats, contacted, delivered, page, browser>>

-----------------------------------------------------------------------------
(* The worker.                                                             *)

Over(processes) ==
    /\ pc \notin {"queued", "done", "lost"}
    /\ server' = "closed"
    /\ conn' = [c \in Conns |-> IF c \in Unfinished THEN [conn[c] EXCEPT !.state = "ended"] ELSE conn[c]]
    /\ browser' = processes
    /\ UNCHANGED <<unused, names, policy, stats, contacted, delivered, page>>

\* SoftTimeLimitExceeded leaves execute_job through its finally clauses.
TimeLimit == Over(browser \ {"own"}) /\ Report(Failed)

\* The worker is killed.  The job is claimed and never runs again; its browser dies with it
\* only where setpriv ties it to the worker.
Killed ==
    /\ pc' = "lost" /\ UNCHANGED result
    /\ \/ Over(browser \ {"own"})
       \/ "own" \in browser /\ Over({"stale"})

JobStep ==
    \/ execute_job \/ run \/ prepare \/ Retry \/ finish
    \/ \E t \in unchecked : egress_filter(t)
    \/ \E batch \in todo : run_process(batch) \/ execute(batch)
    \/ capture \/ Redirected \/ PreflightFails \/ Launch \/ BrowserEnds \/ Stopped
    \/ \E c \in Conns : preflight(c)

Next ==
    \/ JobStep
    \/ \E c \in Conns : ProxyStep(c) /\ UNCHANGED sensor
    \/ \E c \in Conns, request \in PageRequests : PageAsks(c, request)
    \/ \E h \in Hosts : is_active /\ NameChanges(h) /\ UNCHANGED sensor
    \/ TimeLimit \/ Killed

Spec == Init /\ [][Next]_vars

\* Tools, calls and the browser have timeouts, so does every wait of the proxy.
FairSpec ==
    /\ Spec
    /\ WF_vars(JobStep)
    /\ \A c \in Conns : WF_vars(ProxyStep(c) /\ UNCHANGED sensor)

-----------------------------------------------------------------------------
\* Where a complete result claims more than was asked: an edge of a CDN the platform does not
\* know, or ports without 80 and 443 (naabu, ingest.py:553); IPv6 addresses not asked for
\* (dnsx:114); vulnerabilities switched off (shodan:237); more pages than are reloaded (zap:672).
Overclaims(q) ==
    \/ job.adapter = "naabu" /\ "exclude_cdn" \in job.flags /\ q[1] \in job.cdn
       /\ (q[1] \notin job.known_cdn \/ ~(cdn_ports \subseteq job.asks))
    \/ job.adapter = "dnsx" /\ q[2] = "aaaa" /\ "aaaa" \notin job.asks
    \/ job.adapter = "shodan" /\ "include_vulnerabilities" \notin job.flags
    \/ job.adapter = "zap_active" /\ \E b \in Batches : Cardinality(b) > job.seeds

(* Whatever fails, is cut short or is clipped on the way, a result covers  *)
(* only what was really asked and reports all of it that is there, so that *)
(* nothing is taken for gone that a sensor has not looked at (run: "A      *)
(* failed/partial run cannot vouch for absence of anything").              *)
HonestCoverage ==
    result # None =>
        \A q \in result.coverage : Overclaims(q) \/ (q \in examined /\ (q \in there => q \in result.observed))

(* What HonestCoverage rests on: unless a reason is noted to distrust the  *)
(* run, every batch that is no longer to do was asked all its questions    *)
(* and the answers are in the records; a host that counts as answered was  *)
(* asked all questions as well.                                            *)
Looked(questions) == questions \subseteq examined /\ questions \intersect there \subseteq raw.records

\* A crawl without the passive scan looks for nothing, the pages of an origin may be too many.
Exempt(b) ==
    \/ job.adapter = "zap_spider" /\ "passive_scan" \notin job.flags
    \/ job.adapter = "zap_active" /\ Cardinality(b) > job.seeds

Vouches == job.adapter \in Tools \union {"zap_spider", "zap_active"}

AnswersKept == job.adapter \in {"asnlookup", "shodan"} => \A h \in raw.answered : Looked(At(h, job.asks))
BatchesLooked ==
    pc \in {"execute", "finish"} /\ ~Incomplete /\ Vouches =>
        \A b \in Batches \ todo : Exempt(b) \/ Looked(Ask(b, Asked))

CoverInv ==
    /\ job \in Jobs /\ there \subseteq job.world
    /\ result # None => pc = "done" /\ HonestCoverage
    /\ pc = "finish" => todo = {} \/ raw.errors
    /\ AnswersKept /\ BatchesLooked

(* Every job ends with a result unless its worker is killed, and a capture *)
(* that ended has left no connection and no browser behind, not even one   *)
(* of an earlier worker (run_process, EgressProxy.stop,                    *)
(* reap_stale_browsers).                                                   *)
JobsEndClean ==
    <>[](/\ pc \in {"done", "lost"} /\ Unfinished = {}
         /\ (pc = "done" /\ page.outcome # "") => browser = {})

=============================================================================
