------------------------------- MODULE Scope -------------------------------
(***************************************************************************)
(* The authorized scope of one organization (scope/service.py, scope/      *)
(* checker.py, api/v1/scopes.py, organizations.py and settings.py), the    *)
(* scope status kept on its assets, and what a scan may be pointed at.     *)
(* Every call is a transaction: it reads, it flushes its own row, it takes *)
(* the audit chain's lock, it re-evaluates the assets, it commits.         *)
(* Sensor results are ingested meanwhile with rules loaded beforehand      *)
(* (assets/ingest.py).                                                     *)
(***************************************************************************)
EXTENDS ReadCommitted, FiniteSetsExt

CONSTANTS
    Names, Addrs, Nets,
    Above,             \* name -> the domains it is under
    Inside,            \* network -> its addresses
    Length,            \* value -> labels of a name, prefix length of an address or network
    Public,            \* addresses and networks that are publicly routable
    NonPublicAllowed,  \* allow_non_public_scope
    GivenScopes,       \* sets of inclusion entries there may be at the start
    Programmes,        \* sets of calls that are mixed in one behaviour
    Edits,             \* calls considered, numbered as they arrive
    MaxEditsUnderWay

Values == Names \union Addrs \union Nets
Anchored == {"in_scope", "derived"}

ASSUME ScopeAssumption ==
    /\ Names \intersect (Addrs \union Nets) = {} /\ Addrs \intersect Nets = {}
    /\ Above \in [Names -> SUBSET Names] /\ Inside \in [Nets -> (SUBSET Addrs) \ {{}}] /\ Length \in [Values -> 0..128]
    /\ Public \subseteq Addrs \union Nets /\ NonPublicAllowed \in BOOLEAN /\ Edits \in Nat
    /\ \A p \in Programmes : \A call \in p :
        call.kind \in {"add", "update", "remove", "approve", "verify", "settings", "organization", "ingest"}

E(v, exclusion) == <<"entry", v, exclusion>>
A(v) == <<"asset", v>>
TenantRow == <<"tenant">>
OrganizationRow == <<"organization">>

EntryRows == {E(v, x) : v \in Values, x \in BOOLEAN}
AssetRows == {A(v) : v \in Values}

VARIABLES
    programme,    \* one of Programmes, never changed
    table,        \* row -> committed columns
    relation,     \* active resolves_to relations <<name, address>>
    edit,         \* call -> its transaction
    proven,       \* history: <<entry, id>> whose ownership was proven or approved
    overlap       \* history: overlaps the code does not guard against

scoping == <<programme, table, relation, edit, proven, overlap>>

NoEntry == [id |-> 0, subs |-> FALSE, active |-> FALSE, verification |-> "not_required"]
NoAsset == [exists |-> FALSE, type |-> "none", status |-> "out_of_scope", approval |-> "unverified"]
AssetType(v) == IF v \in Names THEN "root_domain" ELSE IF v \in Addrs THEN "ip_address" ELSE "cidr"
Declared(v) == [exists |-> TRUE, type |-> AssetType(v), status |-> "in_scope", approval |-> "approved"]

\* id 0 is no entry; the entries given have ids no call makes.
GivenId == Edits + 1
Waiting == [phase |-> "idle", call |-> None, own |-> <<>>, writes |-> <<>>, loaded |-> None, seen |-> None, todo |-> {}]
Ended == [Waiting EXCEPT !.phase = "done"]

ScopeInit ==
    /\ programme \in Programmes /\ relation = {} /\ proven = {} /\ overlap = {}
    /\ \E given \in GivenScopes, require \in BOOLEAN :
        table = [k \in EntryRows |-> IF k[2] \in given /\ ~k[3]
                     THEN [id |-> GivenId, subs |-> k[2] \in Names, active |-> TRUE,
                           verification |-> IF require THEN "unverified" ELSE "not_required"]
                     ELSE NoEntry]
                ++ [k \in AssetRows |-> IF k[2] \in given THEN Declared(k[2]) ELSE NoAsset]
                ++ [k \in {TenantRow} |-> [require |-> require]] ++ [k \in {OrganizationRow} |-> [derived |-> TRUE]]
    /\ edit = [r \in 1..Edits |-> Waiting]

-----------------------------------------------------------------------------
(* ScopeChecker.                                                           *)

\* ScopeRule.from_entry that takes any entry not known to be unproven as proven.
from_entry_lenient(rows, v, x) ==
    LET e == rows[E(v, x)] IN
    [id |-> e.id, value |-> v, subs |-> e.subs, exclusion |-> x, active |-> e.active, verified |-> e.verification # "unverified"]

from_entry(rows, v, x) ==
    LET e == rows[E(v, x)] IN
    [id |-> e.id, value |-> v, subs |-> e.subs, exclusion |-> x, active |-> e.active, verified |-> e.verification = "verified"]

load_checker(rows) ==
    [rules |-> {from_entry(rows, k[2], k[3]) : k \in {k \in EntryRows : rows[k].id # 0}},
     require |-> rows[TenantRow].require, derived |-> rows[OrganizationRow].derived]

root_domains(c) == {r.value : r \in {r \in c.rules : r.value \in Names /\ ~r.exclusion}}

domain_rules(c, host, exclusion) ==
    {r \in c.rules : r.value \in Names /\ r.exclusion = exclusion /\ (host = r.value \/ (r.subs /\ r.value \in Above[host]))}

AddressesOf(v) == IF v \in Nets THEN Inside[v] ELSE {v} \intersect Addrs

ip_rules(c, ip, exclusion) == {r \in c.rules : r.exclusion = exclusion /\ ip \in AddressesOf(r.value)}

MostSpecific(rules) == CHOOSE r \in rules : \A o \in rules : Length[r.value] >= Length[o.value]

StatusFrom(excluding, including) == IF excluding = {} /\ including # {} THEN "in_scope" ELSE "out_of_scope"
hostname_status(c, h) == StatusFrom(domain_rules(c, h, TRUE), domain_rules(c, h, FALSE))
ip_status(c, ip) == StatusFrom(ip_rules(c, ip, TRUE), ip_rules(c, ip, FALSE))
is_excluded_ip(c, ip) == ip_rules(c, ip, TRUE) # {}

authorize_rule(c, rule, active) == active => rule.active /\ (c.require => rule.verified)

public_only(v, active) == active => v \in Public \/ NonPublicAllowed

\* check_host; a name by its own rules, an address by its own or by those of a name that resolves to it.
CheckName(c, h, active) ==
    /\ hostname_status(c, h) = "in_scope"
    /\ authorize_rule(c, MostSpecific(domain_rules(c, h, FALSE)), active)

check_host(c, host, active, derived_from) ==
    IF host \in Names THEN CheckName(c, host, active)
    ELSE /\ ~is_excluded_ip(c, host) /\ public_only(host, active)
         /\ IF ip_rules(c, host, FALSE) # {}
            THEN authorize_rule(c, MostSpecific(ip_rules(c, host, FALSE)), active)
            ELSE (active => c.derived) /\ \E h \in derived_from[host] : CheckName(c, h, active)

\* check of a network takes the first covering rule, in no particular order: TRUE if it may allow it.
check_network(c, net, active) ==
    /\ \A r \in c.rules : r.exclusion => AddressesOf(r.value) \intersect Inside[net] = {}
    /\ public_only(net, active)
    /\ \E r \in c.rules : /\ ~r.exclusion /\ r.value \notin Names /\ Inside[net] \subseteq AddressesOf(r.value)
                          /\ authorize_rule(c, r, active)

check(c, target, active, derived_from) ==
    IF target \in Nets THEN check_network(c, target, active) ELSE check_host(c, target, active, derived_from)

\* _resolution_map: the names an address is derived from are those stored as in scope.
resolution_map == [ip \in Addrs |-> {h \in Names : <<h, ip>> \in relation /\ table[A(h)].status = "in_scope"}]

\* The targets a stage would be given now (build_next_job), of everything it might be built with.
Authorized(active) == {v \in Values : check(load_checker(table), v, active, resolution_map)}

-----------------------------------------------------------------------------
(* Re-evaluation of the assets, on the rows as the transaction sees them.  *)

upsert_scope_asset(rows, v) ==
    IF ~rows[A(v)].exists THEN Declared(v)
    ELSE [rows[A(v)] EXCEPT !.type = AssetType(v), !.status = "in_scope", !.approval = IF @ = "unverified" THEN "approved" ELSE @]

Materialized(rows) == [k \in {A(v) : v \in {v \in Values : rows[E(v, FALSE)].id # 0}} |-> upsert_scope_asset(rows, k[2])] ++ rows

\* Networks keep their status; an address that is only derived keeps its own unless it is excluded.
rescope_assets(c, rows) ==
    LET kept(v) == v \in Addrs /\ ip_status(c, v) = "out_of_scope" /\ rows[A(v)].status = "derived" /\ ~is_excluded_ip(c, v)
        verdict(v) == IF v \in Addrs THEN ip_status(c, v) ELSE hostname_status(c, v)
        type(v) == IF rows[A(v)].type = "root_domain" /\ v \notin root_domains(c)
                   THEN IF Above[v] = {} THEN "domain" ELSE "subdomain" ELSE rows[A(v)].type IN
    [k \in {A(v) : v \in {v \in Names \union Addrs : rows[A(v)].exists /\ ~kept(v)}} |->
        [rows[k] EXCEPT !.status = verdict(k[2]), !.type = type(k[2])]] ++ rows

\* Both passes are flushed, so a column the first changed is written even if the second changes it back.
sync_scope_assets(rows) ==
    LET first == Materialized(rows)
        second == rescope_assets(load_checker(first), first) IN
    [x \in DOMAIN Difference(rows, first) \union DOMAIN Difference(first, second) |-> second[x[1]][x[2]]]

-----------------------------------------------------------------------------
(* The calls: what each writes to its own rows, or None if refused.        *)

\* A value already there is widened; otherwise it is a conflict.
add_entry(r, rows, v, call) ==
    LET row == E(v, call.exclusion) IN
    IF rows[row].id # 0
    THEN IF call.subs /\ ~rows[row].subs /\ v \in Names THEN Assign(row, [subs |-> TRUE]) ELSE None
    ELSE Assign(row, [id |-> r, subs |-> call.subs /\ v \in Names, active |-> call.active /\ ~call.exclusion,
                      verification |-> IF rows[TenantRow].require /\ ~call.exclusion THEN "unverified" ELSE "not_required"])

update_entry(call) ==
    Dirty(table, IF call.field = "subs" THEN Assign(call.row, [subs |-> call.value])
                 ELSE Assign(call.row, [active |-> call.value /\ ~call.row[3]]))

remove_entry(call) == Assign(call.row, NoEntry)

approve_entry(call) ==
    IF call.row[2] \in Names \/ call.row[3] THEN None ELSE Dirty(table, Assign(call.row, [verification |-> "verified"]))

\* The lookup's answer is chosen when the call is made; a failed one takes a proof back.
verify_entry(call) ==
    IF call.row[2] \notin Names THEN None
    ELSE Dirty(table, Assign(call.row, [verification |-> IF call.value THEN "verified" ELSE "pending"]))

update_settings(call) == Dirty(table, Assign(TenantRow, [require |-> call.value]))
update_organization(call) == Dirty(table, Assign(OrganizationRow, [derived |-> call.value]))

apply_verification_policy(rows) ==
    IF ~rows[TenantRow].require THEN <<>>
    ELSE [x \in {<<E(v, FALSE), "verification">> : v \in {v \in Values : /\ rows[E(v, FALSE)].id # 0
                                                                        /\ rows[E(v, FALSE)].verification = "not_required"}}
              |-> "unverified"]

OnEntry == {"update", "remove", "approve", "verify"}
Rescoping == {"add", "update", "remove"}

Asked(r, call) ==
    CASE call.kind = "add" -> <<>>
      [] call.kind = "update" -> update_entry(call)
      [] call.kind = "remove" -> remove_entry(call)
      [] call.kind = "approve" -> approve_entry(call)
      [] call.kind = "verify" -> verify_entry(call)
      [] call.kind = "settings" -> update_settings(call)
      [] call.kind = "organization" -> update_organization(call)
      [] call.kind = "ingest" -> <<>>

\* The rows as the transaction sees them; an entry it has loaded already is not read again.
Mine(r) ==
    LET now == IF edit[r].seen = None THEN table ELSE [table EXCEPT ![edit[r].call.row] = edit[r].seen] IN
    Applied(now, edit[r].writes)
Busy == {r \in 1..Edits : edit[r].phase \notin {"idle", "done"}}

\* The entry is read, or the rules to go by are loaded.
Call(r, call) ==
    LET own == Asked(r, call) IN
    /\ edit[r].phase = "idle" /\ (r > 1 => edit[r - 1].phase # "idle") /\ Cardinality(Busy) < MaxEditsUnderWay
    /\ call.kind \in OnEntry => table[call.row].id # 0
    /\ edit' = [edit EXCEPT ![r] =
           IF own = None THEN Ended
           ELSE [phase |-> "read", call |-> call, own |-> own, writes |-> <<>>,
                 loaded |-> IF call.kind \in {"ingest", "organization"} THEN load_checker(table) ELSE None,
                 seen |-> IF call.kind \in OnEntry THEN table[call.row] ELSE None,
                 todo |-> IF call.kind = "add" THEN call.values ELSE IF call.kind = "settings" THEN {"policy"} ELSE {}]]
    /\ UNCHANGED <<programme, table, relation, proven, overlap>>

\* Row locks are held from the flush to the end of the transaction.
LockedBy(r) == IF edit[r].phase \in {"flushed", "audited"} THEN RowsOf(edit[r].writes) \intersect EntryRows ELSE {}
Unlocked(rows, r) == \A o \in Busy \ {r} : rows \intersect LockedBy(o) = {}

\* The row is gone, or another one by the same name: the flush finds nothing to update.
Gone(r) == edit[r].call.kind \in OnEntry /\ table[edit[r].call.row].id # edit[r].seen.id

\* A single add that is refused fails; in a bulk add the rest goes on from the savepoint.
FlushAdd(r) ==
    /\ edit[r].phase \in {"read", "audited"} /\ edit[r].call.kind = "add"
    /\ \E v \in edit[r].todo :
        LET own == add_entry(r, Mine(r), v, edit[r].call)
            rest == edit[r].todo \ {v} IN
        /\ Unlocked({E(v, edit[r].call.exclusion)}, r)
        /\ edit' = [edit EXCEPT ![r] =
               IF own # None THEN [edit[r] EXCEPT !.phase = "flushed", !.writes = own ++ edit[r].writes, !.todo = rest]
               ELSE IF rest = {} /\ edit[r].phase = "read" THEN Ended ELSE [edit[r] EXCEPT !.todo = rest]]
    /\ UNCHANGED <<programme, table, relation, proven, overlap>>

\* update_organization re-evaluates before it has the audit lock, with rules loaded before the assets.
Flush(r) ==
    LET call == edit[r].call
        own == edit[r].own IN
    /\ edit[r].phase = "read" /\ call.kind \notin {"add", "ingest"} /\ ~Gone(r)
    /\ Unlocked(RowsOf(own), r)
    /\ edit' = [edit EXCEPT ![r] = [edit[r] EXCEPT !.phase = "flushed", !.writes =
           IF call.kind = "organization" THEN Difference(table, rescope_assets(edit[r].loaded, table)) ++ own ELSE own]]
    /\ UNCHANGED <<programme, table, relation, proven, overlap>>

\* record without pg_advisory_xact_lock.
AuditUnlocked(r) == edit[r].phase # "idle"

\* record: from here to the commit no other audited call of the tenant passes.
AuditFree(r) == \A o \in Busy \ {r} : edit[o].phase # "audited" \/ edit[o].call.kind = "ingest"

\* The audit lock first, then the assets are read and re-evaluated; a failed verification is not audited.
Audit(r) ==
    LET call == edit[r].call IN
    /\ edit[r].phase = "flushed" /\ ~(call.kind = "verify" /\ ~call.value) /\ AuditFree(r)
    /\ edit' = [edit EXCEPT ![r] = [edit[r] EXCEPT !.phase = "audited", !.writes =
           IF call.kind \in Rescoping THEN sync_scope_assets(Mine(r)) ++ edit[r].writes ELSE edit[r].writes]]
    /\ UNCHANGED <<programme, table, relation, proven, overlap>>

\* update_tenant_settings goes on to the entries with the audit lock held.
Policy(r) ==
    LET own == apply_verification_policy(Mine(r)) IN
    /\ edit[r].phase = "audited" /\ edit[r].todo = {"policy"}
    /\ Unlocked(RowsOf(own), r)
    /\ edit' = [edit EXCEPT ![r] = [edit[r] EXCEPT !.writes = own ++ edit[r].writes, !.todo = {}]]
    /\ UNCHANGED <<programme, table, relation, proven, overlap>>

\* _ip_status and the derived pass of _compute_statuses for a name and the address it resolved to.
IngestedStatuses(c, h, ip) ==
    LET name == hostname_status(c, h)
        existing == table[A(ip)].status
        known == table[A(ip)].exists /\ existing # "out_of_scope"
        own == ip_status(c, ip)
        address == IF own = "in_scope" \/ is_excluded_ip(c, ip) THEN own
                   ELSE IF known THEN existing
                   ELSE IF name = "in_scope" THEN "derived" ELSE "out_of_scope" IN
    [name |-> name, address |-> address]

\* _apply_asset; unrelated third-party noise (neither of the two anchored) is dropped.
ApplyAsset(v, status, noise) ==
    IF noise THEN <<>>
    ELSE IF table[A(v)].exists
    THEN Dirty(table, IF v \in Addrs /\ status = "out_of_scope" /\ table[A(v)].status = "derived" THEN <<>>
                      ELSE Assign(A(v), [status |-> status]))
    ELSE Assign(A(v), [exists |-> TRUE, type |-> IF v \in Addrs THEN "ip_address" ELSE IF Above[v] = {} THEN "domain" ELSE "subdomain",
                       status |-> status,
                       approval |-> IF status = "out_of_scope" THEN "third_party"
                                    ELSE IF v \in Addrs /\ status = "in_scope" THEN "approved" ELSE "unverified"])

Noise(statuses) == {statuses.name, statuses.address} \intersect Anchored = {}

\* The assets are read now, the rules were loaded before.
Ingest(r) ==
    LET call == edit[r].call
        statuses == IngestedStatuses(edit[r].loaded, call.name, call.address)
        noise == Noise(statuses) IN
    /\ edit[r].phase = "read" /\ call.kind = "ingest"
    /\ edit' = [edit EXCEPT ![r] = [edit[r] EXCEPT !.phase = IF noise THEN "done" ELSE "audited",
                   !.writes = ApplyAsset(call.name, statuses.name, noise) ++ ApplyAsset(call.address, statuses.address, noise)]]
    /\ UNCHANGED <<programme, table, relation, proven, overlap>>

\* A row to insert is there by now.
InsertClash(r) ==
    \E k \in RowsOf(edit[r].writes) :
        \/ k \in AssetRows /\ <<k, "exists">> \in DOMAIN edit[r].writes /\ table[k].exists
        \/ k \in EntryRows /\ <<k, "id">> \in DOMAIN edit[r].writes /\ edit[r].call.kind = "add" /\ table[k].id # 0

\* Overlaps with a re-evaluation that its own reads do not cover.
Overlapping(r) ==
    LET call == edit[r].call
        others == Busy \ {r}
        under(kinds) == \E o \in others : edit[o].call.kind \in kinds
        past(kinds) == \E o \in others : edit[o].call.kind \in kinds /\ edit[o].phase \in {"flushed", "audited"} IN
    {m \in {"ingest", "organization", "entry"} :
        \/ m = "ingest" /\ call.kind = "ingest" /\ past(Rescoping)
        \/ m = "ingest" /\ call.kind \in Rescoping /\ under({"ingest"})
        \/ m = "organization" /\ call.kind \in Rescoping /\ under({"organization"})
        \/ m = "entry" /\ call.kind \in Rescoping
           /\ \E o \in others : edit[o].call.kind = "update" /\ <<edit[o].call.row, "subs">> \in DOMAIN edit[r].writes}

CommitEdit(r) ==
    LET call == edit[r].call IN
    /\ edit[r].phase = "audited" \/ (edit[r].phase = "flushed" /\ call.kind = "verify" /\ ~call.value)
    /\ edit[r].todo = {} /\ ~InsertClash(r)
    /\ table' = Applied(table, edit[r].writes)
    /\ relation' = IF call.kind = "ingest" THEN relation \union {<<call.name, call.address>>} ELSE relation
    /\ proven' = IF call.kind \in {"approve", "verify"} /\ (call.kind = "verify" => call.value)
                 THEN proven \union {<<call.row, edit[r].seen.id>>} ELSE proven
    /\ overlap' = overlap \union Overlapping(r)
    /\ edit' = [edit EXCEPT ![r] = Ended]
    /\ UNCHANGED programme

\* The database fails, gives up one of two transactions that wait for each other, or finds the row gone.
RollbackEdit(r) ==
    /\ edit[r].phase \in {"flushed", "audited"} \/ (edit[r].phase = "read" /\ Gone(r))
    /\ edit' = [edit EXCEPT ![r] = Ended]
    /\ UNCHANGED <<programme, table, relation, proven, overlap>>

-----------------------------------------------------------------------------
EntriesNow == {k \in EntryRows : table[k].id # 0}

ScopeNext ==
    \E r \in 1..Edits :
        \/ \E call \in programme : Call(r, call)
        \/ FlushAdd(r) \/ Flush(r) \/ Audit(r) \/ Policy(r) \/ Ingest(r) \/ CommitEdit(r) \/ RollbackEdit(r)

ScopeSpec == ScopeInit /\ [][ScopeNext]_scoping

-----------------------------------------------------------------------------
(* The scope status stored on every name and address is what the committed *)
(* scope says, however changes of the scope interleave: each re-evaluates  *)
(* the assets while it holds the tenant's audit lock (add_entry,           *)
(* update_entry, remove_entry).  Not covered are an ingestion or an        *)
(* organization's settings with rules loaded before the change, and two    *)
(* updates of one entry.                                                   *)
StatusesCurrent ==
    overlap = {} =>
        LET c == load_checker(table) IN
        /\ \A h \in Names : table[A(h)].exists => table[A(h)].status = hostname_status(c, h)
        /\ \A ip \in Addrs : table[A(ip)].exists =>
            /\ ip_status(c, ip) = "in_scope" <=> table[A(ip)].status = "in_scope"
            /\ is_excluded_ip(c, ip) => table[A(ip)].status = "out_of_scope"

\* The entry covers the name, address or network.
Covers(k, v) == IF v \in Names THEN k[2] = v \/ (table[k].subs /\ k[2] \in Above[v])
                ELSE k[2] \notin Names /\ AddressesOf(v) \subseteq AddressesOf(k[2])

(* Nothing excluded is ever scanned, and active scans reach public         *)
(* addresses only; where ownership must be verified they rest on an entry  *)
(* that was proven or approved since it was added, whatever its status was *)
(* before verification was required (check, from_entry, verify_entry,      *)
(* approve_entry, apply_verification_policy).                              *)
OnlyAuthorizedScanned ==
    \A active \in BOOLEAN : \A v \in Authorized(active) :
        /\ \A k \in EntriesNow : k[3] => /\ ~Covers(k, v)
                                         /\ AddressesOf(v) \intersect AddressesOf(k[2]) = {}
        /\ active /\ v \notin Names => v \in Public \/ NonPublicAllowed
        /\ active /\ table[TenantRow].require =>
            \E k \in EntriesNow : /\ ~k[3] /\ <<k, table[k].id>> \in proven
                                  /\ Covers(k, v) \/ \E h \in Names : <<h, v>> \in relation /\ Covers(k, h)

(* What OnlyAuthorizedScanned rests on: an entry is marked verified by a    *)
(* call that proves it only, an entry put in or taken out starts unproven,  *)
(* and from the flush to the commit the entry is the one the call has read, *)
(* since nobody else writes to its row.                                     *)
Proving(call) == call.kind \in {"approve", "verify"} /\ (call.kind = "verify" => call.value)
Verifies(writes, k) == <<k, "verification">> \in DOMAIN writes /\ writes[<<k, "verification">>] = "verified"
Replaces(writes, k) == <<k, "id">> \in DOMAIN writes
ProvesOnly(call, writes) ==
    \A k \in EntryRows :
        /\ Verifies(writes, k) => Proving(call) /\ k = call.row
        /\ Replaces(writes, k) => <<k, "verification">> \in DOMAIN writes /\ ~Verifies(writes, k)

EditInv(r) ==
    /\ DOMAIN edit[r] = DOMAIN Waiting
    /\ edit[r].phase \notin {"idle", "done"} =>
        /\ ProvesOnly(edit[r].call, edit[r].own) /\ ProvesOnly(edit[r].call, edit[r].writes)
        /\ edit[r].phase \notin {"flushed", "audited"} => edit[r].writes = <<>>
        /\ \A k \in EntryRows : Verifies(edit[r].writes, k) => table[k].id = edit[r].seen.id

ProvenInv ==
    /\ programme \in Programmes /\ DOMAIN edit = 1..Edits
    /\ \A k \in EntryRows : k \in DOMAIN table /\ {"id", "verification"} \subseteq DOMAIN table[k]
    /\ \A k \in EntryRows : table[k].verification = "verified" => <<k, table[k].id>> \in proven
    /\ \A r \in 1..Edits : EditInv(r)
    /\ \A r, o \in 1..Edits : r # o => LockedBy(r) \intersect LockedBy(o) = {}

=============================================================================
