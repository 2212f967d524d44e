---------------------------- MODULE EgressProxy ----------------------------
(***************************************************************************)
(* The filtering proxy a capture's browser is confined to                  *)
(* (asm_sensors/egress_proxy.py).  Every connection is a task of its own:  *)
(* it reads a request head, decides on the host and port, waits for a      *)
(* lookup, decides on every address found, connects to one of them and     *)
(* copies data both ways.  The names' addresses may change at any time,    *)
(* also between a lookup and the connection made from it.                  *)
(***************************************************************************)
EXTENDS Naturals, FiniteSets, Functions, FiniteSetsExt

CONSTANTS
    Hosts,             \* names and address literals a page or a target names
    Addresses,
    Traits,            \* address -> what is said of it, of Trait
    Embedded,          \* address -> the address and the IPv4 addresses tunnelled inside it
    Literal,           \* host that is an address or a network -> its addresses
    Answers,           \* what names may resolve to
    FirstAnswers,      \* and what all of them do at first
    Policies,          \* policies a capture may run under
    MaxConns,          \* connections considered, numbered as they arrive
    MaxChanges,        \* changes of names' addresses in a behaviour
    None

Conns == 1..MaxConns
Trait == {"global", "multicast", "unspecified", "metadata", "excluded"}
Ports == {"web", "other"}
Schemes == {"connect", "http", "other", "malformed"}

Request == [scheme : Schemes, host : Hosts, port : Ports]
Policy == [allow_non_public : BOOLEAN, excluded_domains : SUBSET Hosts, allowed_ports : SUBSET Ports,
           max_connections : Nat, max_response : Nat, max_total : Nat]

ASSUME EgressProxyAssumption ==
    /\ Traits \in [Addresses -> SUBSET Trait]
    /\ Embedded \in [Addresses -> SUBSET Addresses] /\ \A a \in Addresses : a \in Embedded[a]
    /\ DOMAIN Literal \subseteq Hosts /\ Range(Literal) \subseteq SUBSET Addresses
    /\ Answers \subseteq SUBSET Addresses /\ Policies \subseteq Policy /\ MaxChanges \in Nat /\ MaxConns \in Nat

VARIABLES
    dns,          \* name -> its addresses, empty when it does not resolve
    changes,
    policy,       \* one of Policies, never changed
    server,       \* "down", "up", "closing" or "closed"
    conn,         \* connection -> its task
    stats,        \* EgressStats
    contacted,    \* history: addresses a connection was opened to
    delivered     \* history: data handed to the browser

proxy == <<policy, server, conn, stats, contacted, delivered>>
names == <<dns, changes>>

Task == [state : {"new", "head", "resolving", "connecting", "open", "refused", "ended"},
         request : Request \union {None}, address : Addresses \union {None}, moved : Nat]

Idle == [state |-> "new", request |-> None, address |-> None, moved |-> 0]

EgressTypeOK ==
    /\ dns \in [Hosts -> SUBSET Addresses] /\ changes \in 0..MaxChanges
    /\ policy \in Policies /\ server \in {"down", "up", "closing", "closed"}
    /\ conn \in [Conns -> Task]
    /\ stats \in [connections : Nat, allowed : Nat, blocked : Nat, bytes_down : Nat, limit_hit : BOOLEAN]
    /\ contacted \subseteq Addresses /\ delivered \in Nat

ProxyInit ==
    /\ \E answer \in FirstAnswers : dns = [h \in Hosts |-> IF h \in DOMAIN Literal THEN Literal[h] ELSE answer]
    /\ changes = 0 /\ policy \in Policies /\ server = "down"
    /\ conn = [c \in Conns |-> Idle]
    /\ stats = [connections |-> 0, allowed |-> 0, blocked |-> 0, bytes_down |-> 0, limit_hit |-> FALSE]
    /\ contacted = {} /\ delivered = 0

\* Whoever owns a name changes its addresses, or its name server fails.
NameChanges(h) ==
    /\ changes < MaxChanges /\ h \notin DOMAIN Literal
    /\ \E addresses \in Answers \ {dns[h]} : dns' = [dns EXCEPT ![h] = addresses]
    /\ changes' = changes + 1
    /\ UNCHANGED proxy

-----------------------------------------------------------------------------
(* Decisions.                                                              *)

\* A failed lookup and a name without addresses look the same.
system_resolve(host) == dns[host]

\* address_verdict: TRUE if the address may be contacted.
AddressAllowed(a) ==
    \A e \in Embedded[a] :
        /\ "metadata" \notin Traits[e]
        /\ policy.allow_non_public \/ "global" \in Traits[e]
        /\ Traits[e] \intersect {"unspecified", "multicast", "excluded"} = {}

\* What authorize decides before it waits for the lookup: a reason to refuse, or none.
RefusedUnseen(request, connections) ==
    \/ connections > policy.max_connections
    \/ request.port \notin policy.allowed_ports
    \/ request.host \notin DOMAIN Literal /\ request.host \in policy.excluded_domains

\* The rest of authorize: every address found must be acceptable, not just the one used.
AddressesAllowed(found) == found # {} /\ \A a \in found : AddressAllowed(a)

-----------------------------------------------------------------------------
(* One connection.                                                         *)

Goto(c, state) == conn' = [conn EXCEPT ![c].state = state]

accept(c, request) ==
    /\ server = "up" /\ conn[c].state = "new" /\ (c > 1 => conn[c - 1].state # "new")
    /\ conn' = [conn EXCEPT ![c].state = "head", ![c].request = request]
    /\ UNCHANGED <<names, policy, server, stats, contacted, delivered>>

block(counted) == stats' = [counted EXCEPT !.blocked = @ + 1]

\* A handler that counts a connection only once it was authorized.
handle_counting_late(c) ==
    /\ conn[c].state = "head" /\ conn[c].request.scheme \in {"connect", "http"}
    /\ IF RefusedUnseen(conn[c].request, stats.allowed + 1)
       THEN Goto(c, "refused") /\ block(stats)
       ELSE Goto(c, "resolving") /\ UNCHANGED stats
    /\ UNCHANGED <<names, policy, server, contacted, delivered>>

\* _handle from the head to the first wait; the connection counts whatever becomes of it.
handle(c) ==
    LET counted == [stats EXCEPT !.connections = @ + 1]
        request == conn[c].request IN
    /\ conn[c].state = "head"
    /\ \/ request.scheme = "malformed" /\ Goto(c, "refused") /\ stats' = counted
       \/ request.scheme = "other" /\ Goto(c, "refused") /\ block(counted)
       \/ /\ request.scheme \in {"connect", "http"}
          /\ IF RefusedUnseen(request, counted.connections)
             THEN /\ Goto(c, "refused")
                  /\ block([counted EXCEPT !.limit_hit = @ \/ counted.connections > policy.max_connections])
             ELSE Goto(c, "resolving") /\ stats' = counted
    /\ UNCHANGED <<names, policy, server, contacted, delivered>>

\* The lookup answers; an address literal needs none.
authorize(c) ==
    LET host == conn[c].request.host
        found == IF host \in DOMAIN Literal THEN Literal[host] ELSE system_resolve(host) IN
    /\ conn[c].state = "resolving"
    /\ IF AddressesAllowed(found)
       THEN /\ \E a \in found : conn' = [conn EXCEPT ![c].state = "connecting", ![c].address = a]
            /\ stats' = [stats EXCEPT !.allowed = @ + 1]
       ELSE Goto(c, "refused") /\ block(stats)
    /\ UNCHANGED <<names, policy, server, contacted, delivered>>

\* open_connection to the name, which looks it up once more.
ConnectByName(c) ==
    /\ conn[c].state = "connecting"
    /\ \E a \in system_resolve(conn[c].request.host) :
        /\ contacted' = contacted \union {a} /\ conn' = [conn EXCEPT ![c].state = "open", ![c].address = a]
    /\ UNCHANGED <<names, policy, server, stats, delivered>>

\* open_connection to the address authorize returned, within connect_timeout.
Connect(c) ==
    /\ conn[c].state = "connecting"
    /\ \/ Goto(c, "open") /\ contacted' = contacted \union {conn[c].address}
       \/ Goto(c, "refused") /\ UNCHANGED contacted
    /\ UNCHANGED <<names, policy, server, stats, delivered>>

\* copy, one chunk from the site: counted first, delivered only within both limits.
copy(c) ==
    LET moved == conn[c].moved + 1
        total == stats.bytes_down + 1
        over == moved > policy.max_response \/ total > policy.max_total IN
    /\ conn[c].state = "open"
    /\ conn' = [conn EXCEPT ![c].moved = moved, ![c].state = IF over THEN "ended" ELSE "open"]
    /\ stats' = [stats EXCEPT !.bytes_down = total, !.limit_hit = @ \/ over]
    /\ delivered' = IF over THEN delivered ELSE delivered + 1
    /\ UNCHANGED <<names, policy, server, contacted>>

\* _pipe ends with either direction: end of data, idle_timeout, max_upload_bytes, a lost connection.
pipe(c) ==
    /\ conn[c].state = "open"
    /\ Goto(c, "ended")
    /\ UNCHANGED <<names, policy, server, stats, contacted, delivered>>

Unfinished == {c \in Conns : conn[c].state \in {"head", "resolving", "connecting", "open"}}

start ==
    /\ server = "down" /\ server' = "up"
    /\ UNCHANGED <<policy, conn, stats, contacted, delivered>>

\* stop: no more connections are accepted, and the tasks are cancelled and awaited.
stop ==
    /\ server = "up" /\ server' = "closing"
    /\ UNCHANGED <<policy, conn, stats, contacted, delivered>>

Cancelled(c) ==
    /\ server = "closing" /\ c \in Unfinished
    /\ Goto(c, "ended")
    /\ UNCHANGED <<names, policy, server, stats, contacted, delivered>>

ProxyStep(c) == handle(c) \/ authorize(c) \/ Connect(c) \/ copy(c) \/ pipe(c) \/ Cancelled(c)

-----------------------------------------------------------------------------
(* Whatever a page asks for and however names change their addresses, the  *)
(* proxy opens connections to acceptable addresses only: it connects to    *)
(* the very address it has decided on, never to the name (authorize        *)
(* returns addrs[0] to _handle).                                           *)
PinnedEgress ==
    /\ \A a \in contacted : AddressAllowed(a)
    /\ \A c \in Conns : conn[c].state = "open" =>
        /\ conn[c].request.port \in policy.allowed_ports
        /\ conn[c].request.host \in DOMAIN Literal \/ conn[c].request.host \notin policy.excluded_domains

(* However its connections interleave, a page gets max_connections         *)
(* connections and max_total_bytes of data at most: both are counted       *)
(* before the step that depends on them, without a wait in between         *)
(* (_handle, copy).                                                        *)
PageBudget ==
    /\ stats.allowed <= policy.max_connections
    /\ delivered <= policy.max_total

=============================================================================
