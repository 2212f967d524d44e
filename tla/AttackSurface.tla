---------------------------- MODULE AttackSurface ----------------------------
(***************************************************************************)
(* The inventory: how assets, the relations between them and the findings  *)
(* on them appear, are missed, disappear and come back.  Written by three  *)
(* kinds of transactions:                                                  *)
(*   ingestion    (assets/ingest.py) of a sensor's result, one at a time   *)
(*                for an organization, under an advisory lock;             *)
(*   maintenance  (services/maintenance.py), which takes no lock;          *)
(*   analysts     (findings/service.py, update_finding), no lock either.   *)
(* A transaction reads rows, then writes the columns it changed.  A stage  *)
(* takes its targets from the inventory (scans/targets.py) and its result  *)
(* arrives when the inventory may have changed.                            *)
(*                                                                         *)
(* Everything is in scope or derived from a name in scope.                 *)
(***************************************************************************)
EXTENDS Naturals, FiniteSets, TLC

CONSTANTS
    Names, Addresses, Ports, Services, Endpoints,  \* what may be found
    Findings,
    HostOf,            \* endpoint -> name in its URL
    AddressOf,         \* port -> address
    PortOf,            \* service -> port
    On,                \* finding -> asset
    Source,            \* finding -> sensor that reports it
    Setups,            \* of a behaviour: its assets, what of them is known at first, sensors, writers
    MaxInFlight,       \* stages of the organization's scans that run at a time
    MaxOpen,           \* transactions open at a time
    Threshold,         \* settings.inactivity, by kind of asset
    RelationThreshold, FindingThreshold,
    None               \* no transaction; no address in an answer

Assets == Names \union Addresses \union Ports \union Services \union Endpoints

\* Relations, by their type.
resolves_to  == Names \X Addresses
has_port     == {<<AddressOf[p], p>> : p \in Ports}
runs_service == {<<PortOf[s], s>> : s \in Services}
serves       == {<<HostOf[e], e>> : e \in Endpoints}
hosted_on    == Endpoints \X Addresses
Relations == resolves_to \union has_port \union runs_service \union serves \union hosted_on

Ids == Assets \union Relations \union Findings

Sensors == {"dnsx", "naabu", "httpx", "nuclei", "shodan"}
Writers == {"ingest", "maintenance", "analyst"}

\* The kinds are apart.  A relation is known with what it connects, and a port with the
\* relation it was found by.
ASSUME AttackSurfaceAssumption ==
    /\ HostOf \in [Endpoints -> Names] /\ AddressOf \in [Ports -> Addresses] /\ PortOf \in [Services -> Ports]
    /\ On \in [Findings -> Assets] /\ Source \in [Findings -> {"nuclei", "shodan"}]
    /\ Names \intersect (Addresses \union Ports \union Services \union Endpoints) = {}
    /\ Addresses \intersect (Ports \union Services \union Endpoints) = {}
    /\ Ports \intersect (Services \union Endpoints) = {} /\ Services \intersect Endpoints = {} /\ None \notin Addresses
    /\ Assets \intersect Relations = {} /\ Findings \intersect (Assets \union Relations) = {}
    /\ \A s \in Setups : s.assets \subseteq Assets /\ s.known \subseteq Ids /\ s.sensors \subseteq Sensors /\ s.writers \subseteq Writers
    /\ \A s \in Setups : \A r \in s.known \intersect Relations : {r[1], r[2]} \subseteq s.known
    /\ \A s \in Setups : \A p \in s.known \intersect Ports : <<AddressOf[p], p>> \in s.known
    /\ {MaxInFlight, MaxOpen} \subseteq Nat
    /\ Threshold \in [Assets -> Nat \ {0}] /\ {RelationThreshold, FindingThreshold} \subseteq Nat \ {0}

OPEN_FINDING_STATES == {"new", "investigating", "reopened"}
FindingStatus == OPEN_FINDING_STATES \union {"accepted_risk", "false_positive", "remediated"}

VARIABLES
    setup,     \* one of Setups, never changed
    rows,      \* the three tables: id -> status and missed_count
    stale,     \* assets whose last_seen is older than max_age_days
    job,       \* sensor -> targets of its stage in flight
    pending,   \* writer -> the rows its transaction read and what it makes of them
    result,    \* what the result being ingested saw and covered
    streak     \* history: asset -> covering scans that missed it since it was last seen

vars == <<setup, rows, stale, job, pending, result, streak>>

Row == [state : {"absent", "active", "inactive"} \union FindingStatus, missed : Nat]

TypeOK ==
    /\ setup \in Setups
    /\ rows \in [Ids -> Row]
    /\ \A i \in Assets \union Relations : rows[i].state \notin FindingStatus
    /\ \A f \in Findings : rows[f].state \in FindingStatus \union {"absent"}
    /\ stale \subseteq Assets
    /\ job \in [Sensors -> SUBSET Assets]
    /\ DOMAIN pending = Writers
    /\ streak \in [Assets -> Nat]

NoResult == [seen |-> {}, covered |-> {}, live |-> FALSE]

\* What is known at first was seen by earlier scans.
Init ==
    /\ setup \in Setups
    /\ rows = [i \in Ids |-> [state |-> IF i \notin setup.known THEN "absent" ELSE IF i \in Findings THEN "new" ELSE "active",
                              missed |-> 0]]
    /\ stale = {} /\ job = [s \in Sensors |-> {}]
    /\ pending = [w \in Writers |-> None] /\ result = NoResult
    /\ streak = [a \in Assets |-> 0]

universe == setup.assets

Is(i, state) == rows[i].state = state
Active(w, S) == {i \in S : w[i].state = "active"}

-----------------------------------------------------------------------------
(* Ingestion of one result, as functions from the rows read to the rows    *)
(* written.  A counter stops at its threshold: it is only compared with it *)
(* and reset.                                                              *)

Count(row, threshold) == IF row.missed < threshold THEN row.missed + 1 ELSE row.missed

\* Variant: a sighting of unknown age counts as a live one.
apply_asset_always(row, live) == [state |-> "active", missed |-> 0]

\* _apply_asset.  A historical source (live = FALSE) records what is new and revives nothing.
apply_asset(row, live) == IF row.state = "absent" \/ live THEN [state |-> "active", missed |-> 0] ELSE row

\* _upsert_relations.  A historical source does revive a relation.
upsert_relation(row, live) ==
    IF row.state = "absent" \/ live THEN [state |-> "active", missed |-> 0] ELSE [row EXCEPT !.state = "active"]

Observe(w, assets, relations, live) ==
    [i \in Ids |-> IF i \in assets THEN apply_asset(w[i], live)
                   ELSE IF i \in relations THEN upsert_relation(w[i], live)
                   ELSE w[i]]

\* Variant: a finding seen again is opened whatever an analyst decided.
upsert_reopening(row) ==
    [state |-> IF row.state = "absent" THEN "new"
               ELSE IF row.state \in OPEN_FINDING_STATES THEN row.state ELSE "reopened",
     missed |-> 0]

upsert_observation(row) ==
    [state |-> IF row.state = "absent" THEN "new" ELSE IF row.state = "remediated" THEN "reopened" ELSE row.state,
     missed |-> 0]

Report(w, found) == [i \in Ids |-> IF i \in found THEN upsert_observation(w[i]) ELSE w[i]]

\* OWNED_CHILDREN.
Owned == serves \union has_port \union runs_service

\* Assets that go with the assets gone, one level down: active, reached by an active
\* relation, not in the result; an endpoint only if no other host serves it.
Children(w, gone, seen) ==
    {c \in Active(w, Assets) \ seen :
        /\ \E o \in gone : <<o, c>> \in Active(w, Owned)
        /\ c \in Endpoints => \A o \in Names \ gone : <<o, c>> \notin Active(w, serves)}

\* Variants: the findings of an asset that is gone stay open; they get its status.
resolve_nothing(w, gone) == w
resolve_for_inactive_asset(w, gone) ==
    LET open == {f \in Findings : On[f] \in gone /\ w[f].state \in OPEN_FINDING_STATES}
    IN  [i \in Ids |-> IF i \in open THEN [w[i] EXCEPT !.state = "remediated"] ELSE w[i]]

\* _deactivate: an address takes its ports with it and they their services, a name its
\* endpoints, and every one of them its open findings.
Deactivate(w, assets, seen) ==
    LET one == assets \union Children(w, assets, seen)
        gone == one \union Children(w, one, seen)
        cut == {r \in Active(w, Owned) : r[1] \in gone /\ r[2] \in Active(w, Assets)}
        left == [i \in Ids |-> IF i \in gone \union cut THEN [w[i] EXCEPT !.state = "inactive"] ELSE w[i]]
    IN  resolve_for_inactive_asset(left, gone)

\* Variant: one miss too many is needed.
MissedLate(w, assets, seen) ==
    LET missed == Active(w, assets) \ seen
        counted == [i \in Ids |-> IF i \in missed THEN [w[i] EXCEPT !.missed = Count(w[i], Threshold[i])] ELSE w[i]]
    IN  Deactivate(counted, {a \in missed : w[a].missed >= Threshold[a]}, seen)

\* _missed, for a set of covered assets.
Missed(w, assets, seen) ==
    LET missed == Active(w, assets) \ seen
        counted == [i \in Ids |-> IF i \in missed THEN [w[i] EXCEPT !.missed = Count(w[i], Threshold[i])] ELSE w[i]]
    IN  Deactivate(counted, {a \in missed : counted[a].missed >= Threshold[a]}, seen)

\* _apply_relation_coverage: relations of the covered parents that were not seen are
\* missed, and broken at the threshold.  An address that no relation names any more is
\* gone; a port, service or endpoint is missed itself.
RelationCoverage(w, relations, seenRelations, seen) ==
    LET missed == Active(w, relations) \ seenRelations
        counted == [i \in Ids |-> IF i \in missed THEN [w[i] EXCEPT !.missed = Count(w[i], RelationThreshold)] ELSE w[i]]
        broken == {r \in missed : counted[r].missed >= RelationThreshold}
        cut == [i \in Ids |-> IF i \in broken THEN [counted[i] EXCEPT !.state = "inactive"] ELSE counted[i]]
        unnamed == {a \in Active(cut, Addresses) \ seen :
                        /\ \E r \in broken \intersect resolves_to : r[2] = a
                        /\ \A r \in Active(cut, resolves_to \union hosted_on) : r[2] # a}
        children == {r[2] : r \in missed} \ Addresses
    IN  Missed(Deactivate(cut, unnamed, seen), children, seen)

\* _apply_finding_coverage.
resolve_unobserved(w, assets, sensor, found) ==
    LET missed == {f \in Findings \ found : On[f] \in assets /\ Source[f] = sensor /\ w[f].state \in OPEN_FINDING_STATES}
    IN  [i \in Ids |->
            IF i \notin missed THEN w[i]
            ELSE LET n == Count(w[i], FindingThreshold)
                 IN  [state |-> IF n >= FindingThreshold THEN "remediated" ELSE w[i].state, missed |-> n]]

-----------------------------------------------------------------------------
(* Stages: their targets and what their sensors report.                    *)

\* _resolution_map: addresses that a name resolves to.
Resolved == {r[2] : r \in Active(rows, resolves_to)}

\* build_targets, with the scope check of derived addresses.
build_targets(sensor) ==
    universe \intersect
    CASE sensor = "dnsx"   -> {n \in Names : rows[n].state = "active" \/ n \notin stale}
      [] sensor = "shodan" -> Active(rows, Addresses)
      [] sensor = "naabu"  -> Active(rows, Addresses) \intersect Resolved
      [] sensor = "httpx"  -> Active(rows, Names) \union {HostOf[e] : e \in Active(rows, Endpoints)}
      [] sensor = "nuclei" -> Active(rows, Endpoints)

Dispatch(sensor) ==
    /\ sensor \in setup.sensors /\ Cardinality({s \in Sensors : job[s] # {}}) < MaxInFlight
    /\ job[sensor] = {} /\ build_targets(sensor) # {}
    /\ job' = [job EXCEPT ![sensor] = build_targets(sensor)]
    /\ UNCHANGED <<rows, stale, pending, result, streak>>

\* What each sensor may report of its targets (normalize of the adapters).
dnsx(targets) ==
    {[assets |-> {r[1] : r \in answers} \union {r[2] : r \in answers}, relations |-> answers, found |-> {}] :
        answers \in SUBSET (resolves_to \intersect (targets \X universe))}
naabu(targets) ==
    {[assets |-> open \union {AddressOf[p] : p \in open}, relations |-> {<<AddressOf[p], p>> : p \in open}, found |-> {}] :
        open \in SUBSET {p \in Ports \intersect universe : AddressOf[p] \in targets}}
httpx(targets) ==
    LET answering(E, at) ==
            LET A == {at[e] : e \in E} \ {None}
                P == {p \in Ports \intersect universe : \E e \in E : AddressOf[p] = at[e]}
                S == {s \in Services \intersect universe : PortOf[s] \in P}
            IN  [assets |-> E \union {HostOf[e] : e \in E} \union A \union P \union S,
                 relations |-> {<<HostOf[e], e>> : e \in E} \union {<<e, at[e]>> : e \in {x \in E : at[x] # None}}
                                 \union {<<AddressOf[p], p>> : p \in P} \union {<<PortOf[s], s>> : s \in S},
                 found |-> {}]
        probed == {e \in Endpoints \intersect universe : HostOf[e] \in targets}
    IN  UNION {{answering(E, at) : at \in [E -> (Addresses \intersect universe) \union {None}]} : E \in SUBSET probed}
nuclei(targets) ==
    {[assets |-> {On[f] : f \in F}, relations |-> {}, found |-> F] :
        F \in SUBSET {f \in Findings : Source[f] = "nuclei" /\ On[f] \in targets}}
shodan(targets) ==
    LET hosts(P, F) ==
            LET S == {s \in Services \intersect universe : PortOf[s] \in P}
            IN  [assets |-> targets \union P \union S,
                 relations |-> {<<AddressOf[p], p>> : p \in P} \union {<<PortOf[s], s>> : s \in S}, found |-> F]
    IN  UNION {{hosts(P, F) : F \in SUBSET {f \in Findings : Source[f] = "shodan" /\ On[f] \in targets \union P}} :
               P \in SUBSET {p \in Ports \intersect universe : AddressOf[p] \in targets}}

reports(sensor, targets) ==
    CASE sensor = "dnsx"   -> dnsx(targets)
      [] sensor = "naabu"  -> naabu(targets)
      [] sensor = "httpx"  -> httpx(targets)
      [] sensor = "nuclei" -> nuclei(targets)
      [] sensor = "shodan" -> shodan(targets)

\* What a complete run vouches for, by the ports, names and endpoints it tried.
covered(sensor, targets) ==
    CASE sensor = "dnsx"  -> targets
      [] sensor = "naabu" -> {p \in Ports : AddressOf[p] \in targets}
      [] sensor = "httpx" -> {e \in Endpoints : HostOf[e] \in targets}
      [] OTHER -> {}

\* The coverage declared with a complete result, applied after the observations.
Covered(w, sensor, targets, rep) ==
    LET of(relations) == {r \in relations : r[1] \in targets}
    IN  CASE sensor = "dnsx"   -> RelationCoverage(Missed(w, targets, rep.assets), of(resolves_to), rep.relations, rep.assets)
          [] sensor = "naabu"  -> RelationCoverage(w, of(has_port), rep.relations, rep.assets)
          [] sensor = "httpx"  -> RelationCoverage(w, of(serves), rep.relations, rep.assets)
          [] sensor = "nuclei" -> resolve_unobserved(w, targets, "nuclei", rep.found)
          [] sensor = "shodan" -> resolve_unobserved(w, rep.assets, "shodan", rep.found)

-----------------------------------------------------------------------------
(* Transactions.                                                           *)

\* The writer has read the rows and is going to make them w.
Read(writer, w) ==
    /\ writer \in setup.writers /\ pending[writer] = None
    /\ Cardinality({o \in Writers : pending[o] # None}) < MaxOpen
    /\ pending' = [pending EXCEPT ![writer] = [old |-> rows, new |-> w]]

\* An UPDATE of the columns that differ from what was read; seen are the assets whose
\* last_seen it renews.  Of an inactive asset it is kept only for a name.
Write(writer, seen) ==
    LET old == pending[writer].old
        new == pending[writer].new
    IN  /\ pending[writer] # None
        /\ rows' = [i \in Ids |->
                       [c \in {"state", "missed"} |-> IF new[i][c] = old[i][c] THEN rows[i][c] ELSE new[i][c]]]
        /\ pending' = [pending EXCEPT ![writer] = None]
        /\ stale' = {a \in stale \ seen : a \in Names \/ rows'[a].state = "active"}

\* ingest, up to the flush.  A failed or partial run (complete = FALSE) has no coverage.
Ingest(sensor, complete, rep) ==
    LET live == sensor # "shodan"
        w == Report(Observe(rows, rep.assets, rep.relations, live), rep.found)
    IN  /\ job[sensor] # {}
        /\ Read("ingest", IF complete THEN Covered(w, sensor, job[sensor], rep) ELSE w)
        /\ result' = [seen |-> rep.assets, covered |-> IF complete THEN covered(sensor, job[sensor]) ELSE {}, live |-> live]
        /\ job' = [job EXCEPT ![sensor] = {}]
        /\ UNCHANGED <<rows, stale, streak>>

\* Its commit, which ends the advisory lock of the organization.
IngestCommit ==
    LET seen == {a \in result.seen : result.live \/ Is(a, "absent")}
    IN  /\ Write("ingest", seen)
        /\ streak' = [a \in Assets |->
                         IF a \in seen THEN 0
                         ELSE IF a \in result.covered /\ Is(a, "active") /\ streak[a] < Threshold[a] THEN streak[a] + 1
                         ELSE streak[a]]
        /\ result' = NoResult
        /\ UNCHANGED job

\* Variant: only names age out.
age_out_names(w) ==
    [i \in Ids |-> IF i \in Active(w, Names) \intersect stale THEN [w[i] EXCEPT !.state = "inactive"] ELSE w[i]]

age_out_assets(w) ==
    [i \in Ids |-> IF i \in Active(w, Assets) \intersect stale THEN [w[i] EXCEPT !.state = "inactive"] ELSE w[i]]

\* expired is the set of findings whose accepted_until has passed.
expire_risk_acceptance(w, expired) ==
    [i \in Ids |-> IF i \in expired /\ w[i].state = "accepted_risk" THEN [w[i] EXCEPT !.state = "reopened"] ELSE w[i]]

\* run_tenant_maintenance.
Maintain(expired) ==
    LET w == expire_risk_acceptance(age_out_assets(rows), expired)
    IN  /\ w # rows
        /\ Read("maintenance", w)
        /\ UNCHANGED <<rows, stale, job, result, streak>>

MaintainCommit ==
    /\ Write("maintenance", {})
    /\ UNCHANGED <<job, result, streak>>

ALLOWED_TRANSITIONS ==
       "new"            :> {"investigating", "accepted_risk", "false_positive", "remediated"}
    @@ "investigating"  :> {"new", "accepted_risk", "false_positive", "remediated"}
    @@ "reopened"       :> {"investigating", "accepted_risk", "false_positive", "remediated"}
    @@ "accepted_risk"  :> {"reopened", "investigating"}
    @@ "false_positive" :> {"reopened", "investigating"}
    @@ "remediated"     :> {"reopened"}

\* update_finding, by an analyst who may accept risk and gives a comment.
Update(f, status) ==
    /\ rows[f].state # "absent" /\ status \in ALLOWED_TRANSITIONS[rows[f].state]
    /\ Read("analyst", [rows EXCEPT ![f].state = status])
    /\ UNCHANGED <<rows, stale, job, result, streak>>

UpdateCommit ==
    /\ Write("analyst", {})
    /\ UNCHANGED <<job, result, streak>>

\* max_age_days pass without a sighting of a.  Only names and what maintenance looks at
\* have their last_seen read.
Age(a) ==
    /\ a \in universe \ stale /\ (a \in Names \/ (Is(a, "active") /\ "maintenance" \in setup.writers))
    /\ stale' = stale \union {a}
    /\ UNCHANGED <<rows, job, pending, result, streak>>

Next ==
    /\ \/ \E s \in Sensors : Dispatch(s)
       \/ \E s \in Sensors, complete \in BOOLEAN : \E rep \in reports(s, job[s]) : Ingest(s, complete, rep)
       \/ IngestCommit
       \/ \E expired \in SUBSET Findings : Maintain(expired)
       \/ MaintainCommit
       \/ \E f \in Findings, status \in FindingStatus : Update(f, status)
       \/ UpdateCommit
       \/ \E a \in Assets : Age(a)
    /\ UNCHANGED setup

Spec == Init /\ [][Next]_vars

\* Time passes, the periodic maintenance task runs, and what has been read is committed.
\* Maintain is strongly fair because MaxOpen may keep it out now and then.
Fairness ==
    /\ \A a \in Assets : WF_vars(Age(a) /\ UNCHANGED setup)
    /\ SF_vars((\E expired \in SUBSET Findings : Maintain(expired)) /\ UNCHANGED setup)
    /\ WF_vars(IngestCommit /\ UNCHANGED setup)
    /\ WF_vars(MaintainCommit /\ UNCHANGED setup)
    /\ WF_vars(UpdateCommit /\ UNCHANGED setup)

FairSpec == Spec /\ Fairness

-----------------------------------------------------------------------------
(* Properties.                                                             *)

Committing(writer) == pending[writer] # None /\ pending'[writer] = None

\* Its commit overwrites a row that was changed since it had been read.
Overwrites(writer) ==
    \E i \in Ids : pending[writer].new[i] # pending[writer].old[i] /\ rows[i] # pending[writer].old[i]

Vanishes(a) == Is(a, "active") /\ rows'[a].state = "inactive"

\* Nothing connects it with its name, address or port any more: it came back
\* through a result that said nothing of its owner.
Orphan(a) == \A r \in Active(rows, Owned) : r[2] # a

\* A name, port or endpoint that as many covering scans in a row missed as
\* settings.inactivity asks for is not active: misses are not lost between scans, by
\* failed runs, sightings of unknown age or results that arrive late (_missed and
\* _apply_relation_coverage).  An orphan is not covered by any relation and is exempt.
MissedEnoughIsGone ==
    \A a \in Active(rows, Assets) : streak[a] >= Threshold[a] => a \notin Names /\ Orphan(a)

\* An asset changes status only on evidence.  Ingestion calls it gone only after that
\* many misses in a row, or with its owner, or when no name resolves to it: one bad scan
\* takes nothing away (_deactivate).  Only a live sighting brings it back, never a third
\* party's report of unknown age, maintenance or a late write (IngestContext.historical).
StatusNeedsEvidence ==
    [][\A a \in Assets :
        /\ Committing("ingest") /\ Vanishes(a) /\ ~Overwrites("ingest")
           => \/ streak'[a] >= Threshold[a]
              \/ \E o \in Assets : <<o, a>> \in Owned /\ Vanishes(o)
              \/ a \in Addresses /\ \A n \in Names : rows'[<<n, a>>].state # "active"
        /\ Is(a, "inactive") /\ rows'[a].state = "active"
           => Committing("ingest") /\ result.live /\ a \in result.seen]_vars

\* An asset that a scan finds gone takes with it the findings that were open when the
\* scan was ingested, also through the cascade (resolve_for_inactive_asset).
FindingsLeaveWithAsset ==
    [][\A f \in Findings : Committing("ingest") /\ Vanishes(On[f]) /\ ~Overwrites("ingest")
        => \/ rows'[f].state \notin OPEN_FINDING_STATES
           \/ pending["ingest"].old[f].state \notin OPEN_FINDING_STATES]_vars

\* No scan undoes an analyst's decision: what is accepted or a false positive stays so
\* when it is seen, missed or its asset disappears, unless the scan read the finding
\* before the decision was committed (upsert_observation, resolve_unobserved).
DecisionsStand ==
    [][\A f \in Findings : Committing("ingest") /\ rows[f].state \in {"accepted_risk", "false_positive"} /\ ~Overwrites("ingest")
        => rows'[f].state = rows[f].state]_vars

\* When live sightings stop, every asset is eventually inactive for good: what coverage
\* cannot reach (orphans, addresses, services) is caught by age_out_assets.
EverythingRetires ==
    "maintenance" \in setup.writers /\ <>[][~(Committing("ingest") /\ result.live /\ result.seen # {})]_vars
    => <>[](Active(rows, Assets) = {})

-----------------------------------------------------------------------------
(* What the documentation says and the code does not keep.                 *)

\* An address that names in scope resolved to and none does any more is not active
\* (RelationCoverage).  A hosted_on relation is never covered, so it never breaks.
UnnamedAddressRetires ==
    \A a \in Active(rows, Addresses) :
        (\E n \in Names : Is(<<n, a>>, "inactive")) => \E n \in Names : Is(<<n, a>>, "active")

=============================================================================
