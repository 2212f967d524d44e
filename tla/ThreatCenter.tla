---------------------------- MODULE ThreatCenter ----------------------------
(***************************************************************************)
(* The Threat Center (threats/service.py): an advisory is edited and       *)
(* published in versions, matched against one organization's inventory,    *)
(* and checked by scans whose results become per-asset outcomes.           *)
(*                                                                         *)
(* A match row is written by three kinds of transactions that read it      *)
(* first and write the changed columns later: the end of a check's scan    *)
(* ("finish": on_scan_finished), the daily evaluation ("daily":            *)
(* evaluate_tenant) and a request for checks ("request").  The first two   *)
(* record results under row locks and then evaluate under the advisory     *)
(* lock of the organization, so they may wait for each other; PostgreSQL   *)
(* then aborts one.  An editor's save_draft is a transaction too.          *)
(***************************************************************************)
EXTENDS Naturals, FiniteSets

CONSTANTS
    Assets,
    Asks,            \* what a version asks for: its check's template and its CVEs
    MaxVersion,      \* versions written
    MaxRuns,         \* checks requested
    Inventories,     \* what may be observed on an asset: sets of <<version, live>>
    Setups,          \* of a behaviour: what may change in it, the checks requested, and how many
                     \* other scans end
    None

Versions == 1..MaxVersion
Runs == 1..MaxRuns

Changes == {"advisory", "archived", "inventory", "finding", "partial view"}

MatchStatus == {"potentially_affected", "version_unknown", "not_affected_version", "no_longer_observed"}
CheckOutcome == {"none", "pending", "detected", "not_detected", "inconclusive"}
Conclusive == {"detected", "not_detected", "inconclusive"}

Assessment == {"", "confirmed", "check_pending", "reported_unverified"} \union MatchStatus \union CheckOutcome

Match == [status : MatchStatus, basis : {"product", "finding", "third_party"}, verified : BOOLEAN, outcome : CheckOutcome,
          run : Runs \union {0}, assessment : Assessment]
Run == [status : {"active", "completed", "inconclusive", "cancelled"}, ask : Asks, assets : SUBSET Assets]

ASSUME ThreatCenterAssumption ==
    /\ MaxVersion \in Nat \ {0} /\ MaxRuns \in Nat \ {0} /\ None \notin Asks /\ Asks # {}
    /\ Inventories \subseteq SUBSET ({"inside", "unknown", "outside"} \X BOOLEAN) /\ {{}, {<<"inside", TRUE>>}} \subseteq Inventories
    /\ Setups \subseteq [changes : SUBSET Changes, runs : Runs, others : Nat]
    /\ None \notin Match /\ None \notin Run

VARIABLES
    setup,       \* one of Setups, never changed
    published,   \* published_version, 0 before the first
    draft,       \* version of the draft, 0 if there is none
    archived,
    content,     \* version -> what it asks for
    seen,        \* asset -> affected products observed on it, as <<version, seen by a live probe>>
    found,       \* <<asset, ask>> of verified findings
    match,       \* asset -> its match row
    run,         \* check run rows
    scan,        \* run -> state of its scan
    tested,      \* run -> assets its scan was authorized to test and did
    hits,        \* run -> assets with a finding whose last_scan_id is its scan
    others,      \* ends of other scans still to come
    tx,          \* transaction -> what it has read and is going to write
    announced,   \* history: asset -> events that counted it as newly affected
    detected     \* history: run -> assets its scan detected the issue on

catalog == <<published, draft, archived, content>>
inventory == <<seen, found>>
tables == <<match, run>>
scans == <<scan, tested, hits, detected, others>>
vars == <<setup, catalog, inventory, tables, scans, tx, announced>>

TypeOK ==
    /\ setup \in Setups
    /\ published \in 0..MaxVersion /\ draft \in 0..MaxVersion /\ archived \in BOOLEAN
    /\ content \in [Versions -> Asks]
    /\ seen \in [Assets -> Inventories] /\ found \subseteq Assets \X Asks
    /\ match \in [Assets -> Match \union {None}]
    /\ run \in [Runs -> Run \union {None}]
    /\ scan \in [Runs -> {"none", "active", "clean", "unclear", "failed", "cancelled"}]
    /\ tested \in [Runs -> SUBSET Assets] /\ hits \in [Runs -> SUBSET Assets]
    /\ others \in Nat
    /\ announced \in [Assets -> Nat] /\ detected \in [Runs -> SUBSET Assets]

Init ==
    /\ setup \in Setups
    /\ published = 0 /\ draft = 1 /\ archived = FALSE
    /\ content = [v \in Versions |-> CHOOSE ask \in Asks : TRUE]
    /\ seen \in [Assets -> {{}, {<<"inside", TRUE>>}}] /\ found = {}
    /\ match = [a \in Assets |-> None] /\ run = [r \in Runs |-> None]
    /\ scan = [r \in Runs |-> "none"] /\ tested = [r \in Runs |-> {}] /\ hits = [r \in Runs |-> {}]
    /\ others = setup.others
    /\ tx = [w \in {"finish", "daily", "request", "editor"} |-> None]
    /\ announced = [a \in Assets |-> 0] /\ detected = [r \in Runs |-> {}]

-----------------------------------------------------------------------------
(* The catalog.                                                            *)

\* published_advisories: the version that applies, 0 if there is none.
Current == IF archived THEN 0 ELSE published

DraftVersion == IF draft # 0 THEN draft ELSE published + 1

save_draft(ask) ==
    /\ "advisory" \in setup.changes /\ tx["editor"] = None /\ DraftVersion \in Versions
    /\ tx' = [tx EXCEPT !["editor"] = [version |-> DraftVersion, ask |-> ask]]
    /\ UNCHANGED <<catalog, inventory, tables, scans, announced>>

\* The row read as a draft may have been published since.
SaveDraftCommit ==
    /\ tx["editor"] # None
    /\ content' = [content EXCEPT ![tx["editor"].version] = tx["editor"].ask]
    /\ draft' = IF tx["editor"].version > published THEN tx["editor"].version ELSE draft
    /\ tx' = [tx EXCEPT !["editor"] = None]
    /\ UNCHANGED <<published, archived, inventory, tables, scans, announced>>

publish ==
    /\ draft # 0
    /\ published' = draft /\ draft' = 0 /\ archived' = FALSE
    /\ UNCHANGED <<content, inventory, tables, scans, tx, announced>>

\* An approved check gets another template, in every version that names it.
save_check(old, new) ==
    /\ "advisory" \in setup.changes /\ tx["editor"] = None /\ old # new
    /\ content' = [v \in Versions |-> IF content[v] = old THEN new ELSE content[v]]
    /\ UNCHANGED <<published, draft, archived, inventory, tables, scans, tx, announced>>

set_archived ==
    /\ "archived" \in setup.changes /\ published # 0
    /\ archived' = ~archived
    /\ UNCHANGED <<published, draft, content, inventory, tables, scans, tx, announced>>

\* Scans and analysts change what is observed, and a later scan takes a finding over.
Inventory(a) ==
    /\ "inventory" \in setup.changes
    /\ \/ \E products \in Inventories : seen' = [seen EXCEPT ![a] = products] /\ UNCHANGED found
       \/ found' = {f \in found : f[1] # a} /\ UNCHANGED seen
    /\ UNCHANGED <<catalog, tables, scans, tx, announced>>

Rescan(a) ==
    /\ "finding" \in setup.changes
    /\ hits' = [r \in Runs |-> hits[r] \ {a}]
    /\ UNCHANGED <<catalog, inventory, tables, scan, tested, detected, others, tx, announced>>

-----------------------------------------------------------------------------
(* Rows computed from rows.                                                *)

\* match: the strongest verdict of judge over an asset's observations.  An unverified
\* report of a third party about the advisory's CVEs counts like <<"inside", FALSE>>.
match_status(observed) ==
    IF \E o \in observed : o[1] = "inside" THEN "potentially_affected"
    ELSE IF \E o \in observed : o[1] = "unknown" THEN "version_unknown"
    ELSE "not_affected_version"

third_party_only(observed) == \A o \in observed : ~o[2]

assess(m) ==
    IF m.verified \/ m.outcome = "detected" THEN "confirmed"
    ELSE IF m.status = "no_longer_observed" THEN m.status
    ELSE IF m.outcome = "pending" THEN "check_pending"
    ELSE IF m.status = "not_affected_version" THEN m.status
    ELSE IF m.outcome # "none" THEN m.outcome
    ELSE IF m.basis = "third_party" THEN "reported_unverified" ELSE m.status

AFFECTED_ASSESSMENTS == {"confirmed", "check_pending", "not_detected", "inconclusive",
                         "potentially_affected", "version_unknown", "reported_unverified"}

Assessed(m) == [m EXCEPT !.assessment = assess(m)]

\* Variant: a result counts for whatever is asked now.
run_applies_always(r, ask) == TRUE
run_applies(r, ask) == r # None /\ r.ask = ask

\* Variant: an unclear scan shows the absence of what it did not report.
OutcomeAnyEnd(r, end, a, reported, reached) ==
    IF a \in reported THEN "detected" ELSE IF a \in reached THEN "not_detected" ELSE "inconclusive"

Outcome(r, end, a, reported, reached) ==
    IF a \in reported THEN "detected"
    ELSE IF end = "clean" /\ a \in reached THEN "not_detected" ELSE "inconclusive"

\* Variant: a result that no longer applies leaves the match as it is.
sync_only_applicable(db, r, end, reported, reached) ==
    LET owned == {a \in db.run[r].assets : db.match[a] # None /\ db.match[a].run = r /\ Current # 0
                                           /\ run_applies(db.run[r], content[Current])}
    IN  [match |-> [a \in Assets |-> IF a \in owned THEN Assessed([db.match[a] EXCEPT !.outcome = Outcome(r, end, a, reported, reached)])
                                     ELSE db.match[a]],
         run |-> [db.run EXCEPT ![r].status = "completed"]]

\* sync_check_run of a scan that ended so: rows [match, run] to rows.  The outcome of an
\* asset belongs to the run that was requested last.
sync_check_run(db, r, end, reported, reached) ==
    LET owned == {a \in db.run[r].assets : db.match[a] # None /\ db.match[a].run = r}
        outcome(a) == IF Current # 0 /\ ~run_applies(db.run[r], content[Current]) THEN "none"
                      ELSE Outcome(r, end, a, reported, reached)
    IN  [match |-> [a \in Assets |-> IF a \in owned THEN Assessed([db.match[a] EXCEPT !.outcome = outcome(a)])
                                     ELSE db.match[a]],
         run |-> [db.run EXCEPT ![r].status = CASE end = "cancelled" -> "cancelled"
                                                [] end = "clean" -> "completed"
                                                [] OTHER -> "inconclusive"]]

Retire(m) == Assessed([m EXCEPT !.status = "no_longer_observed", !.verified = FALSE])

\* evaluate_org with the version that was read, on the assets the evaluation saw.
Evaluated(db, version, visible, complete) ==
    LET ask == content[version]
        verified(a) == <<a, ask>> \in found
        evident == {a \in visible : seen[a] # {} \/ verified(a)}
        update(a) ==
            LET m == db.match[a]
                keeps == m # None /\ (m.outcome \in Conclusive =>
                                        m.run # 0 /\ run_applies(run[m.run], ask))
            IN  Assessed([verified |-> verified(a), assessment |-> "",
                          status |-> IF seen[a] # {} THEN match_status(seen[a]) ELSE "potentially_affected",
                          basis |-> IF seen[a] = {} THEN "finding"
                                    ELSE IF third_party_only(seen[a]) /\ ~verified(a) THEN "third_party" ELSE "product",
                          outcome |-> IF keeps THEN m.outcome ELSE "none",
                          run |-> IF m = None THEN 0 ELSE m.run])
    IN  [db EXCEPT !.match = [a \in Assets |->
            IF a \in evident THEN update(a)
            ELSE IF db.match[a] # None /\ complete THEN Retire(db.match[a])
            ELSE db.match[a]]]

-----------------------------------------------------------------------------
(* Transactions.                                                           *)

DB == [match |-> match, run |-> run]

\* The columns a transaction changed, over the rows as they are now.
Merged(t) ==
    LET column(old, new, now) == IF now = None \/ old = None THEN (IF new = old THEN now ELSE new)
                                 ELSE [c \in DOMAIN now |-> IF new[c] = old[c] THEN now[c] ELSE new[c]]
    IN  [match |-> [a \in Assets |-> column(t.old.match[a], t.new.match[a], match[a])],
         run |-> [r \in Runs |-> column(t.old.run[r], t.new.run[r], run[r])]]

Changed(t) == {a \in Assets : t.new.match[a] # t.old.match[a]}

\* Rows that w has flushed and not committed.
Locked(w) == IF tx[w] = None THEN {} ELSE tx[w].locked
Others(w) == {"finish", "daily"} \ {w}
RowsFree(w) == \A o \in Others(w) : Changed(tx[w]) \intersect Locked(o) = {}

\* Variant: evaluations do not exclude each other.
NoLock(w) == TRUE
LockFree(w) == \A o \in Others(w) : tx[o] # None => tx[o].step # "evaluated"

Active(r) == run[r] # None /\ run[r].status = "active"

\* A check's scan ends and its result is recorded (on_scan_finished up to the lock).
Finish(r, end, reached, reported) ==
    LET new == sync_check_run(DB, r, end, reported, reached)
    IN  /\ scan[r] = "active" /\ tx["finish"] = None
        /\ reported \subseteq reached /\ reached \subseteq run[r].assets
        /\ end \in {"failed", "cancelled"} => reported = {}
        /\ found' = found \union (reported \X {run[r].ask})
        /\ tested' = [tested EXCEPT ![r] = reached] /\ hits' = [hits EXCEPT ![r] = reported]
        /\ detected' = [detected EXCEPT ![r] = reported]
        /\ tx' = [tx EXCEPT !["finish"] =
                    [scan |-> r, end |-> end, version |-> IF end \in {"failed", "cancelled"} THEN 0 ELSE Current,
                     old |-> DB, new |-> new, loaded |-> run[r].assets, locked |-> {a \in Assets : new.match[a] # match[a]}, step |-> "synced"]]
        /\ UNCHANGED <<catalog, seen, tables, scan, others, announced>>

\* A transaction that has made these rows of what it has loaded and is going to evaluate.
GoingToEvaluate(new, loaded) ==
    [scan |-> 0, end |-> "none", version |-> Current, old |-> DB, new |-> new, loaded |-> loaded,
     locked |-> {a \in Assets : new.match[a] # match[a]}, step |-> "synced"]

\* A scan that is not a check ends.
FinishOther ==
    /\ others > 0 /\ tx["finish"] = None /\ Current # 0
    /\ others' = others - 1
    /\ tx' = [tx EXCEPT !["finish"] = GoingToEvaluate(DB, {})]
    /\ UNCHANGED <<catalog, inventory, tables, scan, tested, hits, detected, announced>>

\* Variant: an evaluation repairs nothing.
ReconcileNothing ==
    /\ tx["daily"] = None
    /\ tx' = [tx EXCEPT !["daily"] = GoingToEvaluate(DB, {})]
    /\ UNCHANGED <<catalog, inventory, tables, scans, announced>>

\* reconcile_check_runs: records the results of ended scans whose update was lost.
Reconcile ==
    LET ended == {r \in Runs : Active(r) /\ scan[r] \notin {"none", "active"}}
        synced(r) == sync_check_run(DB, r, scan[r], hits[r], tested[r])
        new == [match |-> [a \in Assets |-> IF match[a] # None /\ match[a].run \in ended THEN synced(match[a].run).match[a] ELSE match[a]],
                run |-> [r \in Runs |-> IF r \in ended THEN synced(r).run[r] ELSE run[r]]]
    IN  /\ tx["daily"] = None
        /\ tx' = [tx EXCEPT !["daily"] = GoingToEvaluate(new, UNION {run[r].assets : r \in ended})]
        /\ UNCHANGED <<catalog, inventory, tables, scans, announced>>

\* evaluate_org once the lock is granted, with the version read before.  The session
\* keeps the match rows it has loaded as they were then.
evaluate_org(w, visible, complete) ==
    LET session(rows) == [match |-> [a \in Assets |-> IF a \in tx[w].loaded THEN rows.match[a] ELSE match[a]],
                          run |-> rows.run]
    IN
    /\ tx[w] # None /\ tx[w].step = "synced" /\ tx[w].version # 0 /\ LockFree(w)
    /\ (complete => visible = Assets) /\ (~complete => "partial view" \in setup.changes)
    /\ tx' = [tx EXCEPT ![w] = [@ EXCEPT !.old = session(tx[w].old), !.step = "evaluated",
                                         !.new = Evaluated(session(tx[w].new), tx[w].version, visible, complete)]]
    /\ UNCHANGED <<catalog, inventory, tables, scans, announced>>

Commit(w) ==
    /\ tx[w] # None /\ (tx[w].step = "synced" => tx[w].version = 0) /\ RowsFree(w)
    /\ match' = Merged(tx[w]).match /\ run' = Merged(tx[w]).run
    /\ scan' = IF tx[w].scan = 0 THEN scan ELSE [scan EXCEPT ![tx[w].scan] = tx[w].end]
    /\ announced' = [a \in Assets |-> announced[a] +
                        IF /\ tx[w].step = "evaluated" /\ tx[w].old.match[a] = None /\ tx[w].new.match[a] # None
                           /\ tx[w].new.match[a].assessment \in AFFECTED_ASSESSMENTS THEN 1 ELSE 0]
    /\ tx' = [tx EXCEPT ![w] = None]
    /\ UNCHANGED <<catalog, inventory, tested, hits, detected, others>>

Deadlocked == \E w \in {"finish", "daily"} : tx[w] # None /\ tx[w].step = "evaluated" /\ ~RowsFree(w)

\* An error, or the victim of a deadlock: the savepoint of a scan's end is rolled back
\* and the scan ends all the same; a daily evaluation is rolled back.
Abort(w) ==
    /\ tx[w] # None /\ (w = "daily" => Deadlocked)
    /\ scan' = IF tx[w].scan = 0 THEN scan ELSE [scan EXCEPT ![tx[w].scan] = tx[w].end]
    /\ tx' = [tx EXCEPT ![w] = None]
    /\ UNCHANGED <<catalog, inventory, tables, tested, hits, detected, others, announced>>

request_checks(A) ==
    LET r == Cardinality({x \in Runs : run[x] # None}) + 1
    IN  /\ tx["request"] = None /\ Current # 0 /\ r \in 1..setup.runs
        /\ \A x \in Runs : ~Active(x)
        /\ A # {} /\ \A a \in A : match[a] # None
        /\ tx' = [tx EXCEPT !["request"] =
                    [scan |-> r, old |-> DB,
                     new |-> [match |-> [a \in Assets |-> IF a \in A THEN Assessed([match[a] EXCEPT !.outcome = "pending", !.run = r])
                                                          ELSE match[a]],
                              run |-> [run EXCEPT ![r] = [status |-> "active", ask |-> content[Current], assets |-> A]]]]]
        /\ UNCHANGED <<catalog, inventory, tables, scans, announced>>

RequestCommit ==
    /\ tx["request"] # None /\ RowsFree("request")
    /\ match' = Merged(tx["request"]).match /\ run' = Merged(tx["request"]).run
    /\ scan' = [scan EXCEPT ![tx["request"].scan] = "active"]
    /\ tx' = [tx EXCEPT !["request"] = None]
    /\ UNCHANGED <<catalog, inventory, tested, hits, detected, others, announced>>

Transaction == {"finish", "daily"}
Ends == {"clean", "unclear", "failed", "cancelled"}

Next ==
    /\ \/ \E ask \in Asks : save_draft(ask)
       \/ SaveDraftCommit
       \/ publish
       \/ \E old, new \in Asks : save_check(old, new)
       \/ set_archived
       \/ \E a \in Assets : Inventory(a) \/ Rescan(a)
       \/ \E r \in Runs, end \in Ends, reached, reported \in SUBSET Assets : Finish(r, end, reached, reported)
       \/ FinishOther
       \/ Reconcile
       \/ \E w \in Transaction, visible \in SUBSET Assets, complete \in BOOLEAN : evaluate_org(w, visible, complete)
       \/ \E w \in Transaction : Commit(w) \/ Abort(w)
       \/ \E A \in SUBSET Assets : request_checks(A)
       \/ RequestCommit
    /\ UNCHANGED setup

Spec == Init /\ [][Next]_vars

\* The pipeline ends every scan, the daily evaluation runs for ever and is not over its
\* bounds for ever, what is read is committed, and PostgreSQL resolves deadlocks and
\* gives a released row to the transaction that waits for it.
Fairness ==
    LET fair(A) == A /\ UNCHANGED setup
    IN  /\ WF_vars(fair(\E r \in Runs, end \in Ends, reached, reported \in SUBSET Assets : Finish(r, end, reached, reported)))
        /\ WF_vars(fair(Reconcile))
        /\ \A w \in Transaction : SF_vars(fair(evaluate_org(w, Assets, TRUE))) /\ WF_vars(fair(Deadlocked /\ Abort(w)))
        /\ SF_vars(fair(Commit("finish"))) /\ WF_vars(fair(Commit("daily")))
        /\ WF_vars(fair(RequestCommit))
        /\ WF_vars(fair(SaveDraftCommit))

FairSpec == Spec /\ Fairness

-----------------------------------------------------------------------------
(* Properties.                                                             *)

\* A match waits only for a run that is still to end: no interleaving of a request, a
\* scan's end, a repair and an evaluation leaves it pending for nothing (sync_check_run).
PendingHasRun == \A a \in Assets : match[a] # None /\ match[a].outcome = "pending" => Active(match[a].run)

\* "Not detected" says that the asset's last check ended cleanly, tested the asset and
\* found nothing, unless a later scan took the finding over before the result was
\* recorded (sync_check_run, hits).
NotDetectedMeansClean ==
    \A a \in Assets : match[a] # None /\ match[a].outcome = "not_detected"
        => LET r == match[a].run
           IN  hits[r] = detected[r] => scan[r] = "clean" /\ a \in tested[r] \ detected[r]

\* An asset is announced as newly affected at most once, however often evaluations run
\* and overlap (_match_event).
AnnouncedOnce == \A a \in Assets : announced[a] <= 1

(* What these three rest on.  Rows are written by transactions that read    *)
(* them earlier, so the invariant says of each what it has read and what it *)
(* is going to change.                                                      *)
Rows == [match : [Assets -> Match \union {None}], run : [Runs -> Run \union {None}]]
Evaluation == [scan : Runs \union {0}, end : Ends \union {"none"}, version : 0..MaxVersion, old : Rows, new : Rows,
               loaded : SUBSET Assets, locked : SUBSET Assets, step : {"synced", "evaluated"}]
Request == [scan : Runs, old : Rows, new : Rows]

TxTyped ==
    /\ DOMAIN tx = {"finish", "daily", "request", "editor"}
    /\ \A w \in Transaction : tx[w] # None => tx[w] \in Evaluation
    /\ tx["request"] # None => tx["request"] \in Request
    /\ tx["editor"] # None => tx["editor"] \in [version : Versions, ask : Asks]
Typed == TypeOK /\ TxTyped

\* The check of an asset is a run that lists it, listed assets have a match, runs are
\* numbered as they come, and a later scan only takes findings away.
Requested == {r \in Runs : run[r] # None}
RowsLinked ==
    /\ \A a \in Assets : match[a] # None /\ match[a].run # 0 => run[match[a].run] # None /\ a \in run[match[a].run].assets
    /\ \A r \in Runs : run[r] # None => \A a \in run[r].assets : match[a] # None
    /\ \A r \in Runs : scan[r] = "active" => Active(r)
    /\ \A r \in Runs : hits[r] \subseteq detected[r]
    /\ Requested = 1..Cardinality(Requested)

PendingInv == \A a \in Assets : match[a] # None /\ match[a].outcome = "pending" => match[a].run # 0 /\ Active(match[a].run)

Clean(r, a) == hits[r] = detected[r] => scan[r] = "clean" /\ a \in tested[r] \ detected[r]
CleanInv == \A a \in Assets : match[a] # None /\ match[a].outcome = "not_detected" =>
                match[a].run # 0 /\ scan[match[a].run] \in Ends /\ Clean(match[a].run, a)

\* The runs whose result a transaction records.
Recorded(t) == {r \in Runs : t.new.run[r] # t.old.run[r]}

\* A row that was read is still there, and what is going to be written follows from it.
ReadRow(o, n, now, evaluated) ==
    /\ o # None => now # None /\ n # None /\ n.run = o.run /\ (n.outcome = o.outcome \/ n.outcome # "pending")
    /\ o = None => n = None \/ (evaluated /\ n.run = 0 /\ n.outcome = "none")
    /\ o = None /\ evaluated => now = None
ReadInv(t) == \A a \in Assets : /\ ReadRow(t.old.match[a], t.new.match[a], match[a], t.step = "evaluated")
                                /\ a \in t.loaded => t.old.match[a] # None

\* Nobody else records the run, and no check is requested until it is recorded, so the
\* matches that wait for it are those that were read.
Stopped(n, m) == \E s \in {"completed", "inconclusive", "cancelled"} : n = [m EXCEPT !.status = s]
RecordedRun(t, w, r, now, state) ==
    /\ now # None /\ now.status = "active" /\ t.old.run[r] = now /\ Stopped(t.new.run[r], now)
    /\ now.assets \subseteq t.loaded
    /\ w = "finish" => r = t.scan
    /\ w = "daily" => state \in Ends
Awaited(o, n, now, r) ==
    o # None => /\ o.run = r <=> now.run = r
                /\ o.run = r => n.outcome # "pending" /\ (now.outcome = "pending" => o.outcome = "pending")
RecordedInv(t, w) ==
    \A r \in Recorded(t) : /\ RecordedRun(t, w, r, run[r], scan[r])
                           /\ \A a \in Assets : Awaited(t.old.match[a], t.new.match[a], match[a], r)

\* The result is the one of the run's scan.
Judged(o, n) == o # None /\ n.outcome = "not_detected" /\ n.outcome # o.outcome
OutcomeInv(t, w) ==
    \A a \in Assets : Judged(t.old.match[a], t.new.match[a]) =>
        LET r == t.new.match[a].run
        IN  /\ r \in Recorded(t)
            /\ w = "finish" => t.end = "clean" /\ a \in tested[r] \ detected[r]
            /\ w = "daily" => Clean(r, a)

HeldInv(w) == tx[w] # None => ReadInv(tx[w]) /\ RecordedInv(tx[w], w) /\ OutcomeInv(tx[w], w)
EvaluationInv ==
    /\ \A w \in Transaction : HeldInv(w)
    /\ tx["finish"] # None /\ tx["finish"].scan # 0 => scan[tx["finish"].scan] = "active"
    /\ tx["daily"] # None => tx["daily"].scan = 0
    /\ tx["finish"] # None /\ tx["daily"] # None => tx["finish"].step = "synced" \/ tx["daily"].step = "synced"

\* A request finds no check active and none becomes active before its own.
AskedRow(o, n, now, r, assets, a) ==
    n # o => /\ o # None /\ n # None /\ now # None /\ o.outcome # "pending" /\ o.run # r
             /\ n.outcome = "pending" /\ n.run = r /\ a \in assets
RequestInv ==
    LET q == tx["request"]
        r == q.scan
    IN  q # None =>
        /\ \A x \in Runs : ~Active(x)
        /\ r = Cardinality(Requested) + 1 /\ q.old.run[r] = None
        /\ \A x \in Runs \ {r} : q.new.run[x] = q.old.run[x]
        /\ q.new.run[r] # None /\ q.new.run[r].status = "active"
        /\ \A a \in q.new.run[r].assets : match[a] # None
        /\ \A a \in Assets : AskedRow(q.old.match[a], q.new.match[a], match[a], r, q.new.run[r].assets, a)

AnnouncedInv == \A a \in Assets : announced[a] <= 1 /\ (announced[a] # 0 => match[a] # None)

ThreatInv == Typed /\ RowsLinked /\ PendingInv /\ CleanInv /\ EvaluationInv /\ RequestInv /\ AnnouncedInv

\* Every requested check ends, also when recording its result fails (reconcile_check_runs).
EveryCheckEnds == \A r \in Runs : Active(r) ~> ~Active(r)

Settled == <>[][UNCHANGED <<catalog, inventory>>]_vars /\ <>[](Current # 0)

\* Once advisory and inventory stay as they are, what is shown of observed assets is
\* true: outcomes come from checks of what the published version asks for (run_applies),
\* and the stored assessments are the ones their rows imply, though transactions wrote
\* the columns from different readings (assess).
SettlesToTruth ==
    Settled => <>[](\A a \in Assets : match[a] # None =>
        /\ match[a] = Assessed(match[a])
        /\ match[a].outcome \in Conclusive /\ (seen[a] # {} \/ <<a, content[published]>> \in found)
           => run[match[a].run].ask = content[published])
=============================================================================
