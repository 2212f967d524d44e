------------------------------ MODULE Posture ------------------------------
(***************************************************************************)
(* What is made of the inventory between scans: rule findings              *)
(* (findings/rules.py), risk scores (risk/), the change timeline           *)
(* (changes/detector.py), hourly maintenance and scheduled scans           *)
(* (services/maintenance.py), and what is known of a CVE its findings name *)
(* (intel/service.py).  Every job is a transaction at READ COMMITTED: it   *)
(* reads, and later commits the columns it changed; in between, others     *)
(* commit.                                                                 *)
(***************************************************************************)
EXTENDS ReadCommitted, Integers, Sequences, FiniteSetsExt, SequencesExt

CONSTANTS
    Inventory,         \* asset -> its type
    RollUp,            \* <<parent, child>> pairs: active relations of a type in ROLLUP
    Presents,          \* <<endpoint, certificate>> pairs: active PRESENTS_CERTIFICATE relations
    GivenMeta,         \* asset -> its meta at the start
    Sightings,         \* asset -> attributes a sensor may report of it
    DetectionRules,    \* rules switched on
    RuleOf,            \* what is seen of an asset -> the rule it meets
    Vulnerable,        \* <<asset, rule>> pairs: findings of a sensor that name the CVE, open at the start
    SeverityPoints, Confidence,     \* rule -> points, percent
    IntelPoints,       \* fact about a CVE -> points; for cvss, instead of the severity's if more
    FactorPoints,      \* factor of an asset -> points
    LevelFloors,       \* level -> the least score of it
    ResidualCap, MoreFindingsCap, AgePoints, AgeCap, AgePeriod,
    EXPIRY_THRESHOLDS, ExpiryDays, MaxAge, Acceptance,
    Crons,             \* days between the runs a schedule may ask for
    Plans,             \* sets of jobs mixed in one behaviour
    MaxJobs, MaxAtOnce, MaxDay,    \* jobs in a behaviour, jobs under way together, days
    MaxIntelJobs       \* jobs in a behaviour with refreshes, which take several steps each

Stock == DOMAIN Inventory
Rules == DOMAIN SeverityPoints
Jobs == 1..MaxJobs
Order == <<"certificate", "service", "port", "http_endpoint", "ip_address", "subdomain", "root_domain">>
Levels == <<"info", "low", "medium", "high", "critical">>
RISK_EVENT_DELTA == 10
OpenStates == {"open", "reopened"}
Feeds == <<"kev", "epss", "cvss">>     \* in the order of refresh_all; cvss is the NVD's
Facts == ToSet(Feeds)
SensorRules == {p[2] : p \in Vulnerable}

AssetRow(a) == <<"asset", a>>
FindingRow(a, rule) == <<"finding", a, rule>>
ScheduleRow == <<"schedule">>
IntelRow == <<"intel">>

ASSUME PostureAssumption ==
    /\ RollUp \subseteq Stock \X Stock /\ Presents \subseteq Stock \X Stock /\ Vulnerable \subseteq Stock \X Rules
    /\ DetectionRules \subseteq Rules \ SensorRules
    /\ \A a \in Stock : Inventory[a] \in ToSet(Order)
    /\ \A p \in RollUp : \E i, j \in DOMAIN Order : i < j /\ Order[i] = Inventory[p[2]] /\ Order[j] = Inventory[p[1]]
    /\ MaxAge \in Nat /\ MaxDay \in Nat /\ Crons \subseteq Nat \ {0} /\ EXPIRY_THRESHOLDS \subseteq Nat

VARIABLES
    day,
    plan,         \* one of Plans, never changed
    rows,         \* row -> column -> committed value
    owed,         \* a change of what scores depend on awaits a recomputation
    job,          \* job -> its transaction
    alerts,       \* certificate events, in order: <<certificate, threshold>>
    told,         \* asset -> the level and the value its timeline last named
    lapsed,       \* history: assets that were inactive at some time
    launched,     \* scheduled scans, in order: the time each was due
    crossed,      \* history: overlaps the code does not guard against
    scored,       \* history: the time the stored scores were computed for
    enriched      \* history: what was known of the CVE when findings were last brought up to it

posture == <<day, plan, rows, owed, job, alerts, told, lapsed, launched, crossed, scored, enriched>>

Resting == [phase |-> "idle", kind |-> None, on |-> None, writes |-> <<>>, note |-> None]
Over == [Resting EXCEPT !.phase = "done"]

PostureInit ==
    /\ day = 0 /\ plan \in Plans /\ owed = TRUE /\ scored = 0 /\ enriched = {}
    /\ rows = [k \in {AssetRow(a) : a \in Stock} |->
                  [active |-> TRUE, last_seen |-> 0, meta |-> GivenMeta[k[2]], factors |-> {"exposure"}, score |-> 0, level |-> 1]]
              ++ [k \in {FindingRow(a, r) : a \in Stock, r \in Rules \ SensorRules} |-> [status |-> "none", first_seen |-> 0, until |-> None]]
              ++ [k \in {FindingRow(p[1], p[2]) : p \in Vulnerable} |->
                     [status |-> "open", first_seen |-> 0, until |-> None, kev |-> FALSE, epss |-> FALSE, cvss |-> FALSE]]
              ++ (IntelRow :> [kev |-> FALSE, epss |-> FALSE, cvss |-> FALSE])
              ++ (ScheduleRow :> [exists |-> TRUE, enabled |-> TRUE, next |-> 1, every |-> 1])
    /\ job = [j \in Jobs |-> Resting]
    /\ alerts = <<>> /\ launched = <<>> /\ lapsed = {} /\ crossed = {}
    /\ told = [a \in Stock |-> [level |-> 1, value |-> GivenMeta[a].value]]

-----------------------------------------------------------------------------
(* Detection rules: what the stored state of an asset asserts.             *)

evaluate_port(state, a) == {RuleOf[s] : s \in state[AssetRow(a)].meta.seen \intersect DOMAIN RuleOf}

CertificateRules(state, cert) ==
    LET meta == state[AssetRow(cert)].meta
        left == meta.not_after - day IN
    {RuleOf[s] : s \in meta.seen \intersect DOMAIN RuleOf}
        \union (IF left < 0 THEN {"certificate-expired"} ELSE IF left <= ExpiryDays THEN {"certificate-expiring"} ELSE {})

evaluate_endpoint(state, a) ==
    {RuleOf[s] : s \in state[AssetRow(a)].meta.seen \intersect DOMAIN RuleOf}
        \union UNION {CertificateRules(state, p[2]) : p \in {p \in Presents : p[1] = a}}

\* Only active ports and endpoints have findings; inactive ones are covered, so that theirs resolve.
evaluate(state, a) ==
    DetectionRules \intersect
        (IF ~state[AssetRow(a)].active THEN {}
         ELSE IF Inventory[a] = "port" THEN evaluate_port(state, a)
         ELSE IF Inventory[a] = "http_endpoint" THEN evaluate_endpoint(state, a) ELSE {})

\* The findings after the rules' result was ingested; a person's acceptance stands.
RuleFindings(state, a) ==
    LET met == evaluate(state, a)
        status(r) == state[FindingRow(a, r)].status
        after(r) == IF r \in met THEN IF status(r) = "none" THEN "open" ELSE IF status(r) = "resolved" THEN "reopened" ELSE status(r)
                    ELSE IF status(r) \in OpenStates THEN "resolved" ELSE status(r) IN
    [k \in {FindingRow(a, r) : r \in Rules \ SensorRules} |->
        [state[k] EXCEPT !.status = after(k[3]), !.first_seen = IF status(k[3]) = "none" THEN day ELSE @]] ++ state

-----------------------------------------------------------------------------
(* Risk: points, in hundredths until they are rounded.                     *)

\* Python's round: to the even neighbour in the middle.
Rounded(h) == LET q == h \div 100 IN IF h % 100 > 50 \/ (h % 100 = 50 /\ q % 2 = 1) THEN q + 1 ELSE q
Clamped(h) == Rounded(Max({0, Min({10000, h})}))

level_for(score) == Max({i \in DOMAIN Levels : LevelFloors[Levels[i]] <= score})

exposure_factors(state, a) ==
    LET row == state[AssetRow(a)] IN
    MapThenSumSet(LAMBDA f : FactorPoints[f], row.factors \union (row.meta.seen \intersect DOMAIN FactorPoints))

\* What a finding, or the cache of the feeds, says of the CVE; rule findings name none.
Known(row) == {f \in Facts \intersect DOMAIN row : row[f]}

score_finding(state, a, rule, now) ==
    LET row == state[FindingRow(a, rule)]
        severity == Max({SeverityPoints[rule]} \union {IntelPoints[f] : f \in Known(row) \intersect {"cvss"}})
        aged == Min({AgeCap, ((now - row.first_seen) \div AgePeriod) * AgePoints})
        total == severity + MapThenSumSet(LAMBDA f : IntelPoints[f], Known(row) \ {"cvss"}) + exposure_factors(state, a) + aged IN
    Clamped(total * (60 + (40 * Confidence[rule]) \div 100))

\* The worst finding in full, the others in part; without one, capped exposure; never below the worst child.
score_asset(state, a, children, now) ==
    LET open == {r \in Rules : FindingRow(a, r) \in DOMAIN state /\ state[FindingRow(a, r)].status \in OpenStates}
        score(r) == score_finding(state, a, r, now)
        top == Max({score(r) : r \in open})
        extra == MapThenSumSet(score, open) - top
        own == IF open # {} THEN 100 * top + Min({100 * MoreFindingsCap, 15 * extra})
               ELSE 100 * Min({ResidualCap, exposure_factors(state, a)}) IN
    Clamped(Max({own} \union {100 * c : c \in children}))

\* One pass over the types, with the scores of the types before.
ScoresOf(state, now, order) ==
    FoldLeft(LAMBDA computed, type :
                 [a \in {a \in Stock : Inventory[a] = type} |->
                     IF ~state[AssetRow(a)].active THEN 0
                     ELSE score_asset(state, a, {computed[c] : c \in {c \in DOMAIN computed : <<a, c>> \in RollUp}}, now)] ++ computed,
             <<>>, order)

\* A pass that takes the parents first.
recompute_roots_first(state) == ScoresOf(state, day, Reverse(Order))

recompute_organization(state) == ScoresOf(state, day, Order)

-----------------------------------------------------------------------------
(* The timeline.                                                           *)

\* A detector that looks at the points only.
risk_changed_by_points(old_score, new_score, old_level, new_level) == new_score - old_score >= RISK_EVENT_DELTA

risk_changed(old_score, new_score, old_level, new_level) ==
    \/ new_score - old_score >= RISK_EVENT_DELTA \/ new_level > old_level
    \/ new_level < old_level

attribute_changes(old, new) == old.value # None /\ new.value # None /\ old.value # new.value

\* The threshold to alert at, or None: the tightest one crossed that was not alerted at before.
certificate_expiry(left, already) ==
    LET due == {t \in EXPIRY_THRESHOLDS : left <= t /\ t \notin already} IN
    IF left < 0 THEN IF -1 \in already THEN None ELSE -1
    ELSE IF due = {} THEN None ELSE Min(due)

-----------------------------------------------------------------------------
(* Jobs.  Each reads and prepares its writes, and commits later.           *)

Between(kinds) == {j \in Jobs : job[j].phase = "read" /\ job[j].kind \in kinds}

Begins(j, kind) ==
    /\ kind \in plan /\ job[j].phase = "idle" /\ (j > 1 => job[j - 1].phase # "idle")
    /\ Cardinality({o \in Jobs : job[o].phase \in {"read", "listed"}}) < MaxAtOnce
    /\ "refresh" \in plan => j <= MaxIntelJobs
    /\ UNCHANGED <<day, plan, rows, alerts, told, lapsed, launched, crossed, scored, enriched>>

Prepared(j, kind, on, writes, note) ==
    job' = [job EXCEPT ![j] = [phase |-> "read", kind |-> kind, on |-> on, writes |-> writes, note |-> note]]

\* merged.update(attrs): what is reported replaces, the rest stays.
merged(old, attrs) == [attrs EXCEPT !.value = IF attrs.value = None THEN old.value ELSE attrs.value, !.alerts = old.alerts]

\* A stage's result: the asset was seen, then the rules run over it.
ingest(j) ==
    \E a \in Stock : \E attrs \in Sightings[a] :
        LET row == rows[AssetRow(a)]
            seen == [rows EXCEPT ![AssetRow(a)].meta = merged(row.meta, attrs), ![AssetRow(a)].active = TRUE,
                                 ![AssetRow(a)].last_seen = day] IN
        /\ Begins(j, "ingest")
        /\ Prepared(j, "ingest", a, Difference(rows, RuleFindings(seen, a)),
                    IF row.active /\ attribute_changes(row.meta, attrs) THEN attrs.value ELSE None)
        /\ UNCHANGED owed

\* A person accepts a finding's risk for a while, or marks the asset more critical.
update_finding(j) ==
    \E a \in Stock, r \in Rules :
        /\ Begins(j, "update_finding") /\ FindingRow(a, r) \in DOMAIN rows /\ rows[FindingRow(a, r)].status \in OpenStates
        /\ Prepared(j, "update_finding", a, Assign(FindingRow(a, r), [status |-> "accepted_risk", until |-> day + Acceptance]), None)
        /\ UNCHANGED owed

update_asset(j) ==
    \E a \in Stock :
        /\ Begins(j, "update_asset") /\ "criticality" \notin rows[AssetRow(a)].factors
        /\ Prepared(j, "update_asset", a, Assign(AssetRow(a), [factors |-> rows[AssetRow(a)].factors \union {"criticality"}]), None)
        /\ UNCHANGED owed

\* recompute_org_risk, a scan's finalization or the daily pass.
recompute(j) ==
    LET scores == recompute_organization(rows) IN
    /\ owed /\ owed' = FALSE
    /\ Begins(j, "recompute")
    /\ Prepared(j, "recompute", day,
                Difference(rows, [k \in {AssetRow(a) : a \in Stock} |->
                                     [rows[k] EXCEPT !.score = scores[k[2]], !.level = level_for(scores[k[2]])]] ++ rows),
                {a \in Stock : /\ rows[AssetRow(a)].active /\ Inventory[a] # "certificate"
                               /\ risk_changed(rows[AssetRow(a)].score, scores[a], rows[AssetRow(a)].level, level_for(scores[a]))})

age_out_assets(state) == {a \in Stock : state[AssetRow(a)].active /\ state[AssetRow(a)].last_seen < day - MaxAge}

expire_risk_acceptance(state) ==
    {k \in DOMAIN state : k[1] = "finding" /\ state[k].status = "accepted_risk" /\ state[k].until # None /\ state[k].until < day}

certificate_alerts(state) ==
    LET alert(a) == certificate_expiry(state[AssetRow(a)].meta.not_after - day, state[AssetRow(a)].meta.alerts) IN
    {<<a, alert(a)>> : a \in {a \in Stock : Inventory[a] = "certificate" /\ state[AssetRow(a)].active /\ alert(a) # None}}

run_tenant_maintenance(j) ==
    LET old == age_out_assets(rows)
        aged == [k \in {AssetRow(a) : a \in old} |-> [rows[k] EXCEPT !.active = FALSE]] ++ rows
        new == certificate_alerts(aged)
        alerted == [k \in {AssetRow(n[1]) : n \in new} |->
                       [aged[k] EXCEPT !.meta.alerts = @ \union {n[2] : n \in {n \in new : n[1] = k[2]}}]] ++ aged
        after == [k \in expire_risk_acceptance(alerted) |-> [alerted[k] EXCEPT !.status = "reopened", !.until = None]] ++ alerted IN
    /\ Begins(j, "maintenance")
    /\ Prepared(j, "maintenance", None, Difference(rows, after), new)
    /\ UNCHANGED owed

next_run(every) == (day \div every + 1) * every

due_schedules == rows[ScheduleRow].exists /\ rows[ScheduleRow].enabled /\ rows[ScheduleRow].next <= day

\* dispatch_schedules: the schedule was due when it was listed.
dispatch_schedules(j) ==
    /\ Begins(j, "fire") /\ due_schedules
    /\ job' = [job EXCEPT ![j] = [Resting EXCEPT !.phase = "listed", !.kind = "fire"]]
    /\ UNCHANGED owed

Fires(j) ==
    LET s == rows[ScheduleRow] IN
    /\ job[j].phase = "listed" /\ job[j].kind = "fire"
    /\ IF s.exists /\ s.enabled /\ s.next <= day
       THEN Prepared(j, "fire", None, Assign(ScheduleRow, [next |-> next_run(s.every)]), s.next)
       ELSE job' = [job EXCEPT ![j] = Over]
    /\ UNCHANGED <<day, plan, rows, owed, alerts, told, lapsed, launched, crossed, scored, enriched>>

\* SELECT without FOR UPDATE.
fire_schedule_unlocked(j) == Fires(j)

\* SELECT ... FOR UPDATE SKIP LOCKED: whoever finds the row locked does nothing.
fire_schedule(j) ==
    \/ Between({"fire"}) = {} /\ Fires(j)
    \/ /\ job[j].phase = "listed" /\ job[j].kind = "fire" /\ Between({"fire", "update_schedule", "delete_schedule"}) # {}
       /\ job' = [job EXCEPT ![j] = Over]
       /\ UNCHANGED <<day, plan, rows, owed, alerts, told, lapsed, launched, crossed, scored, enriched>>

update_schedule(j) ==
    LET s == rows[ScheduleRow] IN
    \E every \in Crons, enabled \in BOOLEAN :
        /\ Begins(j, "update_schedule") /\ s.exists
        /\ Prepared(j, "update_schedule", None,
                    Dirty(rows, Assign(ScheduleRow, [every |-> every, enabled |-> enabled, next |-> IF enabled THEN next_run(every) ELSE None])), None)
        /\ UNCHANGED owed

delete_schedule(j) ==
    /\ Begins(j, "delete_schedule") /\ rows[ScheduleRow].exists
    /\ Prepared(j, "delete_schedule", None, Assign(ScheduleRow, [exists |-> FALSE]), None)
    /\ UNCHANGED owed

-----------------------------------------------------------------------------
(* Intelligence.  What is known of the CVE is cached, and copied to the    *)
(* findings that name it.                                                  *)

\* Known facts are added to the finding's; none is ever taken back.
enrich_from_intel(finding, intel) == [c \in DOMAIN finding |-> IF c \in Facts THEN finding[c] \/ intel[c] ELSE finding[c]]

\* A sensor's result covers the asset, with the finding or without.
upsert_observation(j) ==
    \E p \in Vulnerable, observed \in BOOLEAN :
        LET k == FindingRow(p[1], p[2])
            status == rows[k].status
            after == IF observed THEN [enrich_from_intel(rows[k], rows[IntelRow]) EXCEPT !.status = IF status = "resolved" THEN "reopened" ELSE status]
                     ELSE [rows[k] EXCEPT !.status = IF status \in OpenStates THEN "resolved" ELSE status] IN
        /\ Begins(j, "observe")
        /\ Prepared(j, "observe", p[1], Difference(rows, [rows EXCEPT ![k] = after]), Known(rows[IntelRow]))
        /\ UNCHANGED owed

\* refresh_all goes through the feeds one by one; import_files takes two of them at once.
refresh_all(j) ==
    /\ Begins(j, "refresh")
    /\ \E first \in {0, 1} : job' = [job EXCEPT ![j] = [Resting EXCEPT !.phase = "listed", !.kind = "refresh", !.on = first]]
    /\ UNCHANGED owed

\* What a feed's answer makes of the cache: KEV only ever lists, EPSS replaces, the NVD is asked only for what is missing.
FeedSays(feed, listed) == [rows[IntelRow] EXCEPT ![feed] = IF feed = "epss" THEN listed ELSE @ \/ listed]

\* Every feed commits on its own; one that fails is rolled back and the next one follows.
FeedRefreshed(j) ==
    LET at == job[j].on IN
    /\ job[j].phase = "listed" /\ job[j].kind = "refresh" /\ at \in 0..Len(Feeds)
    /\ \/ at = 0 /\ \E kev, epss \in BOOLEAN : rows' = [rows EXCEPT ![IntelRow] = [FeedSays("epss", epss) EXCEPT !.kev = @ \/ kev]]
       \/ at > 0 /\ \E listed \in BOOLEAN : rows' = [rows EXCEPT ![IntelRow] = FeedSays(Feeds[at], listed)]
       \/ at > 0 /\ rows' = rows
    /\ job' = [job EXCEPT ![j].on = IF at = 0 THEN Len(Feeds) + 1 ELSE at + 1]
    /\ UNCHANGED <<day, plan, owed, alerts, told, lapsed, launched, crossed, scored, enriched>>

\* Open findings are brought up to the cache; a recomputation follows the commit.
reenrich_findings(j) ==
    LET open == {FindingRow(p[1], p[2]) : p \in {p \in Vulnerable : rows[FindingRow(p[1], p[2])].status \in OpenStates}} IN
    /\ job[j].phase = "listed" /\ job[j].kind = "refresh" /\ job[j].on = Len(Feeds) + 1
    /\ Prepared(j, "reenrich", None,
                Difference(rows, [k \in open |-> enrich_from_intel(rows[k], rows[IntelRow])] ++ rows), Known(rows[IntelRow]))
    /\ UNCHANGED <<day, plan, rows, owed, alerts, told, lapsed, launched, crossed, scored, enriched>>

-----------------------------------------------------------------------------
Scoring == {"ingest", "update_finding", "update_asset", "maintenance", "observe", "reenrich"}

Crossings(j) ==
    LET kind == job[j].kind
        others == {o \in Jobs \ {j} : job[o].phase = "read"} IN
    {"recompute" : o \in {o \in others : kind = "recompute" /\ job[o].kind = "recompute"}}
        \union {"ingest" : o \in {o \in others : kind = "ingest" /\ job[o].kind = "ingest" /\ job[o].on = job[j].on}}
        \union {"alerts" : o \in {o \in others : "maintenance" \in {kind, job[o].kind} /\ {kind, job[o].kind} \subseteq {"maintenance", "ingest"}}}
        \union {"schedule" : o \in {o \in others : kind = "fire" /\ job[o].kind = "update_schedule"}}
        \union {"intel" : x \in {x \in {kind} : x = "observe" /\ job[j].note # Known(rows[IntelRow])}}
        \union {"reopened" : x \in {x \in DOMAIN job[j].writes : kind = "maintenance" /\ x[2] = "status"}}

\* The schedule's row is locked by a dispatcher until it commits.
Waits(j) == ScheduleRow \in RowsOf(job[j].writes) /\ job[j].kind # "fire" /\ Between({"fire"}) # {}

\* The row to update was deleted: the flush fails.
Lost(j) == ScheduleRow \in RowsOf(job[j].writes) /\ ~rows[ScheduleRow].exists

Commits(j) ==
    LET kind == job[j].kind
        note == job[j].note
        after == Applied(rows, job[j].writes) IN
    /\ job[j].phase = "read" /\ ~Waits(j) /\ ~Lost(j)
    /\ rows' = after
    /\ job' = [job EXCEPT ![j] = Over]
    /\ owed' = (owed \/ kind \in Scoring)
    /\ alerts' = IF kind = "maintenance" THEN alerts \o SetToSeq(note) ELSE alerts
    /\ told' = CASE kind = "ingest" /\ note # None -> [told EXCEPT ![job[j].on].value = note]
                 [] kind = "recompute" -> [a \in Stock |-> IF a \in note THEN [told[a] EXCEPT !.level = after[AssetRow(a)].level] ELSE told[a]]
                 [] OTHER -> told
    /\ lapsed' = lapsed \union {a \in Stock : ~after[AssetRow(a)].active}
    /\ \/ kind = "fire" /\ launched' = Append(launched, note)
       \/ launched' = launched      \* also when create_scan refuses, which is only logged
    /\ crossed' = crossed \union Crossings(j)
    /\ scored' = IF kind = "recompute" THEN job[j].on ELSE scored
    /\ enriched' = IF kind = "reenrich" THEN note ELSE enriched
    /\ UNCHANGED <<day, plan>>

\* The worker dies or the database fails; a recomputation is done again.
Aborts(j) ==
    /\ job[j].phase \in {"read", "listed"}
    /\ job' = [job EXCEPT ![j] = Over]
    /\ owed' = (owed \/ job[j].kind = "recompute")
    /\ UNCHANGED <<day, plan, rows, alerts, told, lapsed, launched, crossed, scored, enriched>>

DayPasses ==
    /\ "time" \in plan /\ day < MaxDay
    /\ day' = day + 1
    /\ UNCHANGED <<plan, rows, owed, job, alerts, told, lapsed, launched, crossed, scored, enriched>>

PostureNext ==
    \/ DayPasses
    \/ \E j \in Jobs :
        \/ ingest(j) \/ update_finding(j) \/ update_asset(j) \/ recompute(j) \/ run_tenant_maintenance(j)
        \/ upsert_observation(j) \/ refresh_all(j) \/ FeedRefreshed(j) \/ reenrich_findings(j)
        \/ dispatch_schedules(j) \/ fire_schedule(j) \/ update_schedule(j) \/ delete_schedule(j)
        \/ Commits(j) \/ Aborts(j)

PostureSpec == PostureInit /\ [][PostureNext]_posture

-----------------------------------------------------------------------------
\* What the findings and the assets amount to, stated over the whole inventory: the worst of an
\* asset and of everything it leads to.
Below(a) == {c \in Stock : c = a \/ <<a, c>> \in RollUp \/ \E m \in Stock : <<a, m>> \in RollUp /\ <<m, c>> \in RollUp}

(* Once nothing awaits a recomputation, every stored score is what the     *)
(* committed findings and assets amount to: an asset scores as its own     *)
(* findings and exposure make it, and never below an active asset it leads *)
(* to.  Unless two recomputations overlapped: the later commit may carry   *)
(* the older reading (recompute_organization).  And an open finding        *)
(* carries all that was known of its CVE at the last refresh, however its  *)
(* feeds failed, if the cache has not changed since: a result ingested     *)
(* while it changed, or an acceptance that ended, may bring back a finding *)
(* the refresh did not see open (reenrich_findings, enrich_from_intel).    *)
RiskCurrent ==
    /\ enriched = Known(rows[IntelRow]) /\ {"intel", "reopened"} \intersect crossed = {} =>
        \A p \in Vulnerable : rows[FindingRow(p[1], p[2])].status \in OpenStates => enriched \subseteq Known(rows[FindingRow(p[1], p[2])])
    /\ ~owed /\ Between({"recompute"}) = {} /\ "recompute" \notin crossed =>
           \A a \in Stock :
               rows[AssetRow(a)].score =
                   IF ~rows[AssetRow(a)].active THEN 0
                   ELSE Max({score_asset(rows, c, {}, scored) : c \in {c \in Below(a) : rows[AssetRow(c)].active}})

(* The timeline's last word on an asset that was never inactive is what is *)
(* stored: the risk level and the tracked attribute, unless jobs writing   *)
(* them overlapped (risk_changed and attribute_changes).                   *)
TimelineTells ==
    \A a \in Stock \ lapsed :
        /\ "recompute" \notin crossed /\ Inventory[a] # "certificate" => told[a].level = rows[AssetRow(a)].level
        /\ "ingest" \notin crossed => told[a].value = rows[AssetRow(a)].meta.value

(* Every time a schedule is due starts one scan at most, however many      *)
(* dispatchers list it, unless an edit that read the schedule before it    *)
(* fired commits after (fire_schedule locks the row, update_schedule does  *)
(* not); and a certificate is alerted about once per threshold, unless a   *)
(* run of the maintenance overlapped another or an ingestion: both rewrite *)
(* the whole meta column (certificate_alerts).                             *)
OnceOnly ==
    /\ "schedule" \notin crossed => IsInjective(launched)
    /\ "alerts" \notin crossed => IsInjective(alerts)

=============================================================================
