----------------------------- MODULE ExposureMap -----------------------------
(***************************************************************************)
(* The exposure map (exposure/graph.py): a bounded breadth-first walk over *)
(* recorded relationships, level by level, each level a query that may run *)
(* out of time, its rows in no particular order; the findings on the nodes *)
(* found; and the cache that answers repeated requests.                    *)
(***************************************************************************)
EXTENDS Naturals, FiniteSets, FiniteSetsExt, Sequences

CONSTANTS
    Nodes,             \* assets
    Worlds,            \* what may be recorded, see World
    FirstWorlds,
    Asks,              \* requests, see Ask
    MaxRoots, EdgesFactor, FindingsPerAsset,
    CacheTtl, CacheSize,
    MaxMaps, MaxTicks, MaxRescans   \* requests, time and changes considered

Kinds == {"exposure", "context", "other"}          \* EXPOSURE_RELATIONS, CONTEXT_RELATIONS, the rest
Relationship == [id : Nat, from : Nodes, to : Nodes, kind : Kinds, active : BOOLEAN]
Asset == [type : {"root_domain", "other", "context"}, active : BOOLEAN, in_scope : BOOLEAN]
OpenFinding == [id : Nat, on : Nodes, unverified : BOOLEAN]
World == [asset : [Nodes -> Asset], rel : SUBSET Relationship, finding : SUBSET OpenFinding]
Ask == [role : {"analyst", "viewer"}, findings_allowed : BOOLEAN, start : Nodes \union {"organization"}, expand : BOOLEAN,
        depth : Nat, max_nodes : Nat, per_node : Nat, include_inactive : BOOLEAN, include_findings : BOOLEAN,
        include_unverified : BOOLEAN, include_context : BOOLEAN]

ASSUME ExposureMapAssumption ==
    /\ \A w \in Worlds : /\ w.asset \in [Nodes -> Asset] /\ \A r \in w.rel : r \in Relationship
                         /\ \A f \in w.finding : f \in OpenFinding
    /\ FirstWorlds \subseteq Worlds /\ \A p \in Asks : p \in Ask
    /\ {MaxRoots, EdgesFactor, FindingsPerAsset, CacheTtl, CacheSize, MaxMaps, MaxTicks, MaxRescans} \subseteq Nat

VARIABLES
    world,        \* what is recorded now
    tick,
    in_force,     \* history: tick -> the worlds there were in it
    ask,          \* the request being answered
    b,            \* _Build, with the place the walk is at
    cache,        \* sequence of [key, map, at], least recently used first
    maps,         \* requests answered
    reply         \* the last answer

mapping == <<world, tick, in_force, ask, b, cache, maps, reply>>

NoBuild ==
    [at |-> "idle", depth |-> 0, frontier |-> {}, next |-> {}, rows |-> {}, shown |-> {}, totals |-> {}, done |-> {},
     nodes |-> <<>>, edges |-> {}, hidden |-> {}, findings |-> {}, finding_edges |-> {}, reasons |-> {}, timed_out |-> FALSE]

MapInit ==
    /\ world \in FirstWorlds /\ tick = 0 /\ in_force = [t \in 0..MaxTicks |-> IF t = 0 THEN {world} ELSE {}]
    /\ ask = (CHOOSE p \in Asks : TRUE) /\ b = NoBuild /\ cache = <<>> /\ maps = 0 /\ reply = <<>>

\* What is recorded changes between requests, never within one here.
Rescanned ==
    /\ b.at = "idle" /\ Cardinality(UNION {in_force[t] : t \in 0..tick}) <= MaxRescans /\ world' \in Worlds \ {world}
    /\ in_force' = [in_force EXCEPT ![tick] = @ \union {world'}]
    /\ UNCHANGED <<tick, ask, b, cache, maps, reply>>

Ticks ==
    /\ b.at = "idle" /\ tick < MaxTicks /\ tick' = tick + 1
    /\ in_force' = [in_force EXCEPT ![tick + 1] = {world}] /\ reply' = <<>>
    /\ UNCHANGED <<world, ask, b, cache, maps>>

-----------------------------------------------------------------------------
(* What the queries select.                                                *)

Relations(p, w) == {r \in w.rel : r.kind \in {"exposure"} \union {k \in {"context"} : p.include_context}
                                  /\ (p.include_inactive \/ r.active)}

\* A relationship is a row for either end; one to itself is two rows.
Row == [rel : Relationship, anchor : Nodes, other : Nodes, out : BOOLEAN]
RowsAt(p, w, anchors) ==
    {[rel |-> r, anchor |-> r.from, other |-> r.to, out |-> TRUE] : r \in {r \in Relations(p, w) : r.from \in anchors}}
        \union {[rel |-> r, anchor |-> r.to, other |-> r.from, out |-> FALSE] : r \in {r \in Relations(p, w) : r.to \in anchors}}

\* _neighbours: per_node rows of each node and direction, active ones first.
Ranked(p, all, rows) ==
    \A row \in all :
        LET alike == {o \in all : o.anchor = row.anchor /\ o.out = row.out}
            kept == alike \intersect rows IN
        /\ Cardinality(kept) = IF Cardinality(alike) < p.per_node THEN Cardinality(alike) ELSE p.per_node
        /\ \A o \in alike \ kept : o.rel.active => \A k \in kept : k.rel.active

Accepted(p, w, n) == (p.include_context \/ w.asset[n].type # "context") /\ (p.include_inactive \/ w.asset[n].active)

\* load_roots: root domains, or else what is in scope.
RootCandidates(p, w) ==
    LET roots == {n \in Nodes : w.asset[n].type = "root_domain" /\ (p.include_inactive \/ w.asset[n].active)} IN
    IF roots # {} THEN roots
    ELSE {n \in Nodes : w.asset[n].in_scope /\ w.asset[n].active /\ w.asset[n].type # "context"}

DepthLimit(p) == IF p.expand THEN 1 ELSE p.depth
MaxEdges(p) == p.max_nodes * EdgesFactor

FindingsOn(p, w, nodes) == {f \in w.finding : f.on \in nodes /\ (p.include_unverified \/ ~f.unverified)}

-----------------------------------------------------------------------------
(* One request.                                                            *)

Key(p) == p

Lookup(key) == {i \in DOMAIN cache : cache[i].key = key /\ tick - cache[i].at <= CacheTtl}
Without(key) == SelectSeq(cache, LAMBDA entry : entry.key # key)
Latest(entries) == IF Len(entries) > CacheSize THEN Tail(entries) ELSE entries

\* cached_build: answered from the cache, or a build begins; a stale entry is dropped.
cached_build(p) ==
    /\ b.at = "idle" /\ maps < MaxMaps /\ ask' = p
    /\ IF Lookup(Key(p)) # {}
       THEN LET hit == cache[CHOOSE i \in Lookup(Key(p)) : TRUE] IN
            /\ cache' = Append(Without(Key(p)), hit) /\ reply' = <<hit.map>> /\ maps' = maps + 1 /\ UNCHANGED b
       ELSE /\ cache' = Without(Key(p)) /\ b' = [NoBuild EXCEPT !.at = "roots"] /\ reply' = <<>> /\ UNCHANGED maps
    /\ UNCHANGED <<world, tick, in_force>>

Begin(roots, reasons) ==
    b' = [b EXCEPT !.at = "level", !.depth = 1, !.frontier = roots, !.nodes = [n \in roots |-> 0], !.reasons = reasons]

\* The starting points; without them in time there is no map at all.
load_roots ==
    /\ b.at = "roots"
    /\ \/ /\ ask.start # "organization" /\ Begin({ask.start}, {}) /\ UNCHANGED maps
       \/ /\ ask.start = "organization"
          /\ LET found == RootCandidates(ask, world) IN
             IF Cardinality(found) <= MaxRoots THEN Begin(found, {})
             ELSE \E roots \in kSubset(MaxRoots, found) : Begin(roots, {"roots"})
          /\ UNCHANGED maps
       \/ ask.start = "organization" /\ b' = NoBuild /\ maps' = maps + 1
    /\ UNCHANGED <<world, tick, in_force, ask, cache, reply>>

\* A level's queries in a savepoint, or out of time.
load_level ==
    /\ b.at = "level" /\ b.frontier # {} /\ b.depth <= DepthLimit(ask)
    /\ \/ LET all == RowsAt(ask, world, b.frontier) IN
          \E rows \in SUBSET all :
              /\ Ranked(ask, all, rows)
              /\ b' = [b EXCEPT !.at = "rows", !.rows = rows, !.totals = all, !.shown = {}, !.next = {}]
       \/ b' = [b EXCEPT !.at = "findings", !.timed_out = TRUE, !.reasons = @ \union {"time"}]
    /\ UNCHANGED <<world, tick, in_force, ask, cache, maps, reply>>

Size(m) == Cardinality(DOMAIN m.nodes) + Cardinality(m.findings)

DrawRow(row) ==
    LET known == row.other \in DOMAIN b.nodes
        drawn == row.rel \in b.edges
        rest == [b EXCEPT !.rows = @ \ {row}]
        nodes == IF known THEN b.nodes ELSE [n \in DOMAIN b.nodes \union {row.other} |-> IF n = row.other THEN b.depth ELSE b.nodes[n]]
        entered == [rest EXCEPT !.nodes = nodes, !.next = IF known THEN @ ELSE @ \union {row.other}] IN
    /\ b.at = "rows" /\ row \in b.rows
    /\ b' = IF ~Accepted(ask, world, row.other) THEN rest
            ELSE IF ~known /\ Size(b) >= ask.max_nodes THEN [rest EXCEPT !.reasons = @ \union {"nodes"}]
            ELSE IF ~drawn /\ Cardinality(b.edges) >= MaxEdges(ask) THEN [entered EXCEPT !.reasons = @ \union {"edges"}]
            ELSE [entered EXCEPT !.edges = @ \union {row.rel}, !.shown = @ \union {row}]
    /\ UNCHANGED <<world, tick, in_force, ask, cache, maps, reply>>

\* The rows not shown are counted as hidden on their node.
EndLevel ==
    LET undrawn(n, k) == Cardinality({r \in b.totals \ b.shown : r.anchor = n /\ r.rel.kind = k})
        hidden == {[on |-> n, kind |-> k, count |-> undrawn(n, k)] : n \in b.frontier, k \in Kinds} IN
    /\ b.at = "rows" /\ b.rows = {}
    /\ b' = [b EXCEPT !.at = "level", !.depth = @ + 1, !.done = @ \union b.frontier, !.frontier = b.next,
                      !.hidden = @ \union {h \in hidden : h.count > 0}, !.next = {}, !.shown = {}, !.totals = {}]
    /\ UNCHANGED <<world, tick, in_force, ask, cache, maps, reply>>

\* A walk that stops one level short.
EndWalkShort ==
    /\ b.at = "level" /\ (b.frontier = {} \/ b.depth >= DepthLimit(ask))
    /\ b' = [b EXCEPT !.at = "findings"]
    /\ UNCHANGED <<world, tick, in_force, ask, cache, maps, reply>>

EndWalk ==
    /\ b.at = "level" /\ (b.frontier = {} \/ b.depth > DepthLimit(ask))
    /\ b' = [b EXCEPT !.at = "findings"]
    /\ UNCHANGED <<world, tick, in_force, ask, cache, maps, reply>>

\* _add_findings: a few per asset, until there are enough nodes; what is over the few is counted as hidden.
add_findings ==
    LET all == FindingsOn(ask, world, DOMAIN b.nodes)
        on(n, fs) == {f \in fs : f.on = n}
        few(n) == Min({Cardinality(on(n, all)), FindingsPerAsset})
        room == ask.max_nodes - Cardinality(DOMAIN b.nodes)
        left == MaxEdges(ask) - Cardinality(b.edges) IN
    /\ b.at = "findings"
    /\ IF ask.include_findings /\ ask.findings_allowed
       THEN \/ \E picked \in SUBSET all :
                  /\ \A n \in DOMAIN b.nodes : Cardinality(on(n, picked)) = few(n)
                  /\ \E drawn \in kSubset(Min({room, Cardinality(picked)}), picked) :
                      \E joined \in kSubset(Min({left, Cardinality(drawn)}), drawn) :
                        b' = [b EXCEPT !.at = "reply", !.findings = drawn, !.finding_edges = joined,
                                  !.hidden = @ \union {[on |-> f.on, kind |-> "finding", count |-> Cardinality(on(f.on, all)) - few(f.on)]
                                                           : f \in {f \in drawn : Cardinality(on(f.on, all)) > few(f.on)}},
                                  !.reasons = IF drawn = picked THEN @ ELSE @ \union {"nodes"}]
            \/ b' = [b EXCEPT !.at = "reply", !.timed_out = TRUE, !.reasons = @ \union {"time"}]
       ELSE b' = [b EXCEPT !.at = "reply"]
    /\ UNCHANGED <<world, tick, in_force, ask, cache, maps, reply>>

Map ==
    [nodes |-> b.nodes, edges |-> b.edges, findings |-> b.findings, hidden |-> b.hidden, done |-> b.done,
     reasons |-> IF b.hidden = {} THEN b.reasons ELSE b.reasons \union {"hidden"}]

\* A map cut short by a slow database is not kept.
Respond ==
    /\ b.at = "reply"
    /\ reply' = <<Map>> /\ maps' = maps + 1 /\ b' = NoBuild
    /\ cache' = IF b.timed_out THEN cache ELSE Latest(Append(Without(Key(ask)), [key |-> Key(ask), map |-> Map, at |-> tick]))
    /\ UNCHANGED <<world, tick, in_force, ask>>

MapNext ==
    \/ Rescanned \/ Ticks \/ (\E p \in Asks : cached_build(p))
    \/ load_roots \/ load_level \/ (\E row \in b.rows : DrawRow(row)) \/ EndLevel \/ EndWalk \/ add_findings \/ Respond

MapSpec == MapInit /\ [][MapNext]_mapping

-----------------------------------------------------------------------------
\* The assets within n hops of the roots, as a reader would expect them.
Within(p, w, roots) ==
    LET ball[n \in 0..DepthLimit(p)] ==
            IF n = 0 THEN roots
            ELSE ball[n - 1] \union {r.other : r \in {r \in RowsAt(p, w, ball[n - 1]) : Accepted(p, w, r.other)}} IN
    ball

RecentWorlds == UNION {in_force[t] : t \in {t \in 0..tick : tick - t <= CacheTtl}}

(* A map that does not say it is truncated shows every relationship within *)
(* the asked number of hops of its roots, every asset at its true distance *)
(* and exactly the findings the caller may see; and no map, truncated or   *)
(* not, drops a relationship of a node it has expanded without counting it *)
(* as hidden there.  Both as of some moment within the cache's lifetime    *)
(* (_build, _add_findings, cached_build).                                  *)
MapIsHonest ==
    \A m \in {reply[i] : i \in DOMAIN reply} : \E w \in RecentWorlds :
        LET roots == {n \in DOMAIN m.nodes : m.nodes[n] = 0}
            ball == Within(ask, w, roots)
            count(n, k) == MapThenSumSet(LAMBDA h : h.count, {h \in m.hidden : h.on = n /\ h.kind = k}) IN
        /\ m.reasons = {} =>
            /\ DOMAIN m.nodes = ball[DepthLimit(ask)]
            /\ \A n \in DOMAIN m.nodes : \A d \in 0..DepthLimit(ask) : n \in ball[d] <=> m.nodes[n] <= d
            /\ m.edges = {r.rel : r \in RowsAt(ask, w, ball[DepthLimit(ask) - 1])}
            /\ m.findings = IF ask.include_findings /\ ask.findings_allowed THEN FindingsOn(ask, w, DOMAIN m.nodes) ELSE {}
        /\ \A n \in m.done, k \in Kinds :
            LET rows == {r \in RowsAt(ask, w, {n}) : r.rel.kind = k} IN
            Cardinality({r \in rows : r.rel \in m.edges}) + count(n, k) >= Cardinality(rows)

=============================================================================
