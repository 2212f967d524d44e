--------------------------- MODULE ScannerProofs ---------------------------
(***************************************************************************)
(* What the proxy promises a capture and what a result may vouch for, for  *)
(* every set of hosts, addresses, policies, jobs and page requests and any *)
(* number of connections.                                                  *)
(*                                                                         *)
(* Whatever the job does, it touches the proxy in four ways only           *)
(* (ProxyMoves).  A connection carries what was decided on it from one     *)
(* wait to the next, so the invariants speak of the connections that are   *)
(* still waiting as well: Vetted of those past the first decision, the     *)
(* verdict on the address of those about to connect, and for the budget    *)
(* the number of those that have passed the count and not the lookup.      *)
(*                                                                         *)
(* Of the coverage of a result: most steps are Quiet, four are not.  Each  *)
(* batch taken off todo leaves its questions examined and their answers in *)
(* raw.records, or a reason in raw not to vouch for anything (CoverInv).   *)
(*                                                                         *)
(* One user of the scanner daemon, for every number of jobs and every      *)
(* choice of timeouts that leaves a job that lost its lease enough time    *)
(* for its finally block (Slack).                                          *)
(***************************************************************************)
EXTENDS SensorRun, DaemonLease, FiniteSetTheorems, TLAPS

States == {"new", "head", "resolving", "connecting", "open", "refused", "ended"}
TaskOf(R, A) == [state : States, request : R, address : A, moved : Nat]

\* Nothing is asked of requests and addresses but that they are some values.
Tasks == \E R, A : conn \in [Conns -> TaskOf(R, A)]

EgressStats == [connections : Nat, allowed : Nat, blocked : Nat, bytes_down : Nat, limit_hit : BOOLEAN]
Counters == stats \in EgressStats

Vetted(q) ==
    /\ q.port \in policy.allowed_ports
    /\ q.host \in DOMAIN Literal \/ q.host \notin policy.excluded_domains

EgressInv ==
    /\ Tasks
    /\ \A a \in contacted : AddressAllowed(a)
    /\ \A c \in Conns : conn[c].state \in {"resolving", "connecting", "open"} => Vetted(conn[c].request)
    /\ \A c \in Conns : conn[c].state = "connecting" => AddressAllowed(conn[c].address)

Resolving == {c \in Conns : conn[c].state = "resolving"}

BudgetInv ==
    /\ Tasks
    /\ policy.max_connections \in Nat /\ policy.max_total \in Nat
    /\ Counters
    /\ delivered \in Nat
    /\ stats.allowed + Cardinality(Resolving) <= stats.connections
    /\ stats.allowed + Cardinality(Resolving) <= policy.max_connections
    /\ delivered <= stats.bytes_down /\ delivered <= policy.max_total

Kept == UNCHANGED <<policy, conn, stats, contacted, delivered>>

\* Some of the tasks are over, nothing else changes.
Closed(S) ==
    /\ conn' = [c \in Conns |-> IF c \in S THEN [conn[c] EXCEPT !.state = "ended"] ELSE conn[c]]
    /\ UNCHANGED <<policy, stats, contacted, delivered>>

LEMMA GotoEnded ==
  ASSUME Tasks, NEW x, Goto(x, "ended"), UNCHANGED <<policy, stats, contacted, delivered>>
  PROVE  Closed({x} \intersect Conns)
<1>1. PICK R, A : conn \in [Conns -> TaskOf(R, A)]
  BY Zenon DEF Tasks
<1>2. CASE x \in Conns
  BY Zenon, <1>1, <1>2 DEF Goto, Closed, TaskOf
<1>3. CASE x \notin Conns
  BY ZenonT(60), <1>1, <1>3, Zenon DEF Goto, Closed, TaskOf
<1> QED
  BY <1>2, <1>3, Zenon

\* The job, its browser, the names and the worker reach the proxy in these ways only.
LEMMA ProxyMoves ==
  ASSUME Tasks, [Next]_vars
  PROVE  \/ Kept
         \/ \E S \in SUBSET Conns : Closed(S)
         \/ \E c \in Conns : \E q : accept(c, q)
         \/ \E c \in Conns : ProxyStep(c)
<1>1. CASE execute_job \/ run \/ prepare \/ Retry \/ finish
  BY <1>1, Zenon DEF execute_job, run, prepare, Retry, finish, Kept, proxy
<1>2. CASE \E t \in unchecked : egress_filter(t)
  BY <1>2, Zenon DEF egress_filter, Kept, proxy
<1>3. CASE \E batch \in todo : run_process(batch) \/ execute(batch)
  BY Zenon, <1>3 DEF run_process, execute, Kept, proxy
<1>4. CASE capture \/ PreflightFails \/ BrowserEnds \/ Stopped
  BY <1>4, Zenon DEF capture, PreflightFails, BrowserEnds, Stopped, End, start, stop, Kept, proxy
<1>5. CASE Redirected
  <2>1. CASE page.hops < MaxRedirects
    <3>1. Goto(page.conn, "ended") /\ UNCHANGED <<policy, stats, contacted, delivered>>
      BY Zenon, <1>5, <2>1 DEF Redirected
    <3> QED
      BY Zenon, <3>1, GotoEnded
  <2>2. CASE ~(page.hops < MaxRedirects)
    BY <1>5, <2>2, Zenon DEF Redirected, End, stop, Kept
  <2> QED
    BY <2>1, <2>2, Zenon
<1>6. CASE Launch
  <2>1. Goto(page.conn, "ended") /\ UNCHANGED <<policy, stats, contacted, delivered>>
    BY <1>6, Zenon DEF Launch
  <2> QED
    BY Zenon, <2>1, GotoEnded
<1>7. CASE \E c \in Conns : preflight(c)
  BY <1>7, Zenon DEF preflight
<1>8. CASE \E c \in Conns : ProxyStep(c) /\ UNCHANGED sensor
  BY <1>8, Zenon
<1>9. CASE \E c \in Conns, request \in PageRequests : PageAsks(c, request)
  BY <1>9, Zenon DEF PageAsks
<1>10. CASE \E h \in Hosts : is_active /\ NameChanges(h) /\ UNCHANGED sensor
  BY <1>10, Zenon DEF NameChanges, Kept, proxy
<1>11. CASE TimeLimit \/ Killed
  <2>1. Closed(Unfinished)
    BY <1>11, Zenon DEF TimeLimit, Killed, Over, Closed
  <2>2. Unfinished \in SUBSET Conns
    BY Zenon DEF Unfinished
  <2> QED
    BY <2>1, <2>2, Zenon
<1>12. CASE UNCHANGED vars
  BY <1>12, Zenon DEF vars, proxy, Kept
<1> QED
  BY <1>1, <1>2, <1>3, <1>4, <1>5, <1>6, <1>7, <1>8, <1>9, <1>10, <1>11, <1>12 DEF Next, JobStep

LEMMA TasksKept ==
  ASSUME Tasks, [Next]_vars
  PROVE  Tasks'
<1>1. PICK R, A : conn \in [Conns -> TaskOf(R, A)]
  BY Zenon DEF Tasks
<1>2. CASE Kept
  BY <1>1, <1>2, Zenon DEF Kept, Tasks
<1>3. ASSUME NEW S \in SUBSET Conns, Closed(S)
      PROVE  Tasks'
  <2>1. conn' \in [Conns -> TaskOf(R, A)]
    BY <1>1, <1>3 DEF Closed, TaskOf, States
  <2> QED
    BY <2>1, Zenon DEF Tasks
<1>4. ASSUME NEW c \in Conns, NEW q, accept(c, q)
      PROVE  Tasks'
  <2>1. conn' \in [Conns -> TaskOf(R \union {q}, A)]
    BY ZenonT(60), <1>1, <1>4 DEF accept, TaskOf, States
  <2> QED
    BY <2>1, Zenon DEF Tasks
<1>5. ASSUME NEW c \in Conns, ProxyStep(c)
      PROVE  Tasks'
  <2>1. CASE authorize(c)
    <3>1. CASE \E a : conn' = [conn EXCEPT ![c].state = "connecting", ![c].address = a]
      <4>1. PICK a : conn' = [conn EXCEPT ![c].state = "connecting", ![c].address = a]
        BY Zenon, <3>1
      <4>2. conn' \in [Conns -> TaskOf(R, A \union {a})]
        BY ZenonT(60), <1>1, <4>1 DEF TaskOf, States
      <4> QED
        BY <4>2, Zenon DEF Tasks
    <3>2. CASE Goto(c, "refused")
      <4>1. conn' \in [Conns -> TaskOf(R, A)]
        BY <1>1, <3>2, Zenon DEF Goto, TaskOf, States
      <4> QED
        BY <4>1, Zenon DEF Tasks
    <3> QED
      BY <2>1, <3>1, <3>2, Zenon DEF authorize
  <2>2. CASE copy(c)
    <3>1. \E s \in States : conn' = [conn EXCEPT ![c].moved = conn[c].moved + 1, ![c].state = s]
      BY Zenon, <2>2 DEF copy, States
    <3>2. conn[c].moved + 1 \in Nat
      BY <1>1 DEF TaskOf
    <3>3. conn' \in [Conns -> TaskOf(R, A)]
      BY ZenonT(60), <1>1, <3>1, <3>2 DEF TaskOf
    <3> QED
      BY <3>3, Zenon DEF Tasks
  <2>3. CASE handle(c) \/ Connect(c) \/ pipe(c) \/ Cancelled(c)
    <3>1. \E s \in States : Goto(c, s)
      BY <2>3, Zenon DEF handle, Connect, pipe, Cancelled, States
    <3>2. conn' \in [Conns -> TaskOf(R, A)]
      BY <1>1, <3>1, Zenon DEF Goto, TaskOf
    <3> QED
      BY <3>2, Zenon DEF Tasks
  <2> QED
    BY <1>5, <2>1, <2>2, <2>3, Zenon DEF ProxyStep
<1> QED
  BY <1>2, <1>3, <1>4, <1>5, ProxyMoves, Zenon

-----------------------------------------------------------------------------
(* Only acceptable addresses.                                              *)

LEMMA EgressStep ==
  ASSUME EgressInv, [Next]_vars
  PROVE  EgressInv'
<1>1. PICK R, A : conn \in [Conns -> TaskOf(R, A)]
  BY Zenon DEF EgressInv, Tasks
<1>2. Tasks'
  BY TasksKept, Zenon DEF EgressInv
<1>3. CASE Kept
  BY <1>2, <1>3, Zenon DEF EgressInv, Kept, Vetted, AddressAllowed
<1>4. ASSUME NEW S \in SUBSET Conns, Closed(S)
      PROVE  EgressInv'
  <2>1. \A d \in Conns : conn'[d] = conn[d] \/ conn'[d].state = "ended"
    BY <1>1, <1>4, Zenon DEF Closed, TaskOf
  <2> QED
    BY <1>2, <1>4, <2>1 DEF EgressInv, Closed, Vetted, AddressAllowed
<1>5. ASSUME NEW c \in Conns, NEW q, accept(c, q)
      PROVE  EgressInv'
  <2>1. \A d \in Conns : conn'[d] = conn[d] \/ conn'[d].state = "head"
    BY <1>1, <1>5, Zenon DEF accept, TaskOf
  <2> QED
    BY Zenon, <1>2, <1>5, <2>1 DEF EgressInv, accept, Vetted, AddressAllowed
<1>6. ASSUME NEW c \in Conns, ProxyStep(c)
      PROVE  EgressInv'
  <2>1. policy' = policy
    BY <1>6, Zenon DEF ProxyStep, handle, authorize, Connect, copy, pipe, Cancelled
  <2>2. CASE handle(c)
    <3>1. /\ \A d \in Conns \ {c} : conn'[d] = conn[d]
          /\ conn'[c].request = conn[c].request
          /\ \/ conn'[c].state = "refused"
             \/ conn'[c].state = "resolving" /\ Vetted(conn[c].request)
      BY <1>1, <2>2 DEF handle, Goto, RefusedUnseen, Vetted, TaskOf
    <3> QED
      BY <1>2, <2>1, <2>2, <3>1 DEF EgressInv, handle, Vetted, AddressAllowed
  <2>3. CASE authorize(c)
    <3>1. /\ \A d \in Conns \ {c} : conn'[d] = conn[d]
          /\ conn'[c].request = conn[c].request /\ conn[c].state = "resolving"
          /\ \/ conn'[c].state = "refused"
             \/ conn'[c].state = "connecting" /\ AddressAllowed(conn'[c].address)
      BY <1>1, <2>3 DEF authorize, Goto, AddressesAllowed, TaskOf
    <3> QED
      BY <1>2, <2>1, <2>3, <3>1 DEF EgressInv, authorize, Vetted, AddressAllowed
  <2>4. CASE Connect(c)
    <3>1. /\ \A d \in Conns \ {c} : conn'[d] = conn[d]
          /\ conn'[c].request = conn[c].request /\ conn[c].state = "connecting"
          /\ \/ conn'[c].state = "refused" /\ contacted' = contacted
             \/ conn'[c].state = "open" /\ contacted' = contacted \union {conn[c].address}
      BY <1>1, <2>4 DEF Connect, Goto, TaskOf
    <3> QED
      BY <1>2, <2>1, <3>1 DEF EgressInv, Vetted, AddressAllowed
  <2>5. CASE copy(c) \/ pipe(c)
    <3>1. /\ \A d \in Conns \ {c} : conn'[d] = conn[d]
          /\ conn'[c].request = conn[c].request /\ conn[c].state = "open" /\ contacted' = contacted
          /\ conn'[c].state \in {"open", "ended"}
      BY <1>1, <2>5 DEF copy, pipe, Goto, TaskOf
    <3> QED
      BY <1>2, <2>1, <3>1 DEF EgressInv, Vetted, AddressAllowed
  <2>6. CASE Cancelled(c)
    <3>1. /\ \A d \in Conns \ {c} : conn'[d] = conn[d]
          /\ conn'[c].state = "ended" /\ contacted' = contacted
      BY <1>1, <2>6, Zenon DEF Cancelled, Goto, TaskOf
    <3> QED
      BY <1>2, <2>1, <3>1, Zenon DEF EgressInv, Vetted, AddressAllowed
  <2> QED
    BY <1>6, <2>2, <2>3, <2>4, <2>5, <2>6, Zenon DEF ProxyStep
<1> QED
  BY <1>3, <1>4, <1>5, <1>6, ProxyMoves, Zenon DEF EgressInv

LEMMA AtFirst ==
  ASSUME Init
  PROVE  Tasks /\ contacted = {} /\ \A c \in Conns : conn[c].state = "new"
<1>1. conn \in [Conns -> TaskOf({None}, {None})]
  BY Zenon DEF Init, ProxyInit, Idle, TaskOf, States
<1>2. Tasks
  BY <1>1, Zenon DEF Tasks
<1>3. contacted = {} /\ \A c \in Conns : conn[c].state = "new"
  BY Zenon DEF Init, ProxyInit, Idle
<1> QED
  BY <1>2, <1>3, Zenon

\* The proxy connects a page to acceptable addresses only, at allowed ports and under names
\* that are not excluded, whatever the page asks and however names change between the lookup
\* and the connection (authorize, _handle).
THEOREM EgressPinned == Spec => []PinnedEgress
<1>1. Init => EgressInv
  BY AtFirst, Zenon DEF EgressInv
<1>2. EgressInv /\ [Next]_vars => EgressInv'
  BY EgressStep, Zenon
<1>3. EgressInv => PinnedEgress
  BY Zenon DEF EgressInv, PinnedEgress, Vetted
<1> QED
  BY <1>1, <1>2, <1>3, PTL DEF Spec

-----------------------------------------------------------------------------
(* The budget of a page.                                                   *)

\* The single changes the steps are made of.
LEMMA Counted ==
  ASSUME NEW r \in EgressStats, NEW n \in Nat, NEW l \in BOOLEAN
  PROVE  /\ [r EXCEPT !.connections = n] \in EgressStats /\ [r EXCEPT !.blocked = n] \in EgressStats
         /\ [r EXCEPT !.bytes_down = n] \in EgressStats /\ [r EXCEPT !.limit_hit = l] \in EgressStats
BY Zenon DEF EgressStats

LEMMA CountedApart ==
  ASSUME NEW r \in EgressStats, NEW l
  PROVE  /\ [r EXCEPT !.connections = l].allowed = r.allowed /\ [r EXCEPT !.connections = l].bytes_down = r.bytes_down
         /\ [r EXCEPT !.connections = l].connections = l
         /\ [r EXCEPT !.blocked = l].allowed = r.allowed /\ [r EXCEPT !.blocked = l].bytes_down = r.bytes_down
         /\ [r EXCEPT !.blocked = l].connections = r.connections
         /\ [r EXCEPT !.bytes_down = l].allowed = r.allowed /\ [r EXCEPT !.bytes_down = l].bytes_down = l
         /\ [r EXCEPT !.bytes_down = l].connections = r.connections
         /\ [r EXCEPT !.limit_hit = l].allowed = r.allowed /\ [r EXCEPT !.limit_hit = l].bytes_down = r.bytes_down
         /\ [r EXCEPT !.limit_hit = l].connections = r.connections
BY Zenon DEF EgressStats

LEMMA ResolvingFinite == IsFiniteSet(Resolving) /\ Cardinality(Resolving) \in Nat
<1>1. IsFiniteSet(Conns)
  BY EgressProxyAssumption, FS_Interval DEF Conns
<1>2. Resolving \in SUBSET Conns
  BY Zenon DEF Resolving
<1> QED
  BY <1>1, <1>2, FS_Subset, FS_CardinalityType, Zenon

\* A step that sends no connection to a lookup and allows none leaves the connections' budget.
LEMMA FewerResolving ==
  ASSUME BudgetInv, Tasks', Resolving' \subseteq Resolving, policy' = policy,
         Counters', stats'.allowed = stats.allowed, stats'.connections >= stats.connections,
         delivered' \in Nat, delivered' <= stats'.bytes_down, delivered' <= policy.max_total
  PROVE  BudgetInv'
<1>1. /\ Cardinality(Resolving) \in Nat /\ Cardinality(Resolving') \in Nat
      /\ Cardinality(Resolving') <= Cardinality(Resolving)
  <2>1. Resolving' \in SUBSET Resolving
    BY Zenon
  <2> QED
    BY <2>1, ResolvingFinite, FS_Subset, FS_CardinalityType, Zenon
<1>2. /\ stats'.allowed + Cardinality(Resolving') <= stats'.connections
      /\ stats'.allowed + Cardinality(Resolving') <= policy.max_connections
  <2>1. stats.connections \in Nat /\ stats.allowed \in Nat /\ stats'.connections \in Nat
    BY Zenon DEF BudgetInv, Counters, EgressStats
  <2> QED
    BY <1>1, <2>1 DEF BudgetInv
<1> QED
  BY <1>2, Zenon DEF BudgetInv

LEMMA BudgetStep ==
  ASSUME BudgetInv, [Next]_vars
  PROVE  BudgetInv'
<1>1. PICK R, A : conn \in [Conns -> TaskOf(R, A)]
  BY Zenon DEF BudgetInv, Tasks
<1>2. Tasks'
  BY TasksKept, Zenon DEF BudgetInv
<1>3. /\ Counters /\ stats.connections \in Nat /\ stats.allowed \in Nat /\ stats.bytes_down \in Nat
      /\ delivered \in Nat /\ delivered <= stats.bytes_down /\ delivered <= policy.max_total
  BY Zenon DEF BudgetInv, Counters, EgressStats
<1>4. CASE Kept
  <2>1. Resolving' = Resolving
    BY <1>4, Zenon DEF Kept, Resolving
  <2> QED
    BY <1>2, <1>3, <1>4, <2>1, FewerResolving DEF Kept, Counters, EgressStats
<1>5. ASSUME NEW S \in SUBSET Conns, Closed(S)
      PROVE  BudgetInv'
  <2>1. Resolving' \subseteq Resolving
    BY <1>1, <1>5, Zenon DEF Closed, Resolving, TaskOf
  <2> QED
    BY <1>2, <1>3, <1>5, <2>1, FewerResolving DEF Closed, Counters, EgressStats
<1>6. ASSUME NEW c \in Conns, NEW q, accept(c, q)
      PROVE  BudgetInv'
  <2>1. Resolving' \subseteq Resolving
    BY <1>1, <1>6, Zenon DEF accept, Resolving, TaskOf
  <2> QED
    BY <1>2, <1>3, <1>6, <2>1, FewerResolving DEF accept, Counters, EgressStats
<1>7. ASSUME NEW c \in Conns, ProxyStep(c)
      PROVE  BudgetInv'
  <2>1. policy' = policy
    BY <1>7, Zenon DEF ProxyStep, handle, authorize, Connect, copy, pipe, Cancelled
  <2>2. CASE handle(c)
    <3>1. /\ Counters' /\ stats'.allowed = stats.allowed /\ stats'.bytes_down = stats.bytes_down
          /\ stats'.connections = stats.connections + 1 /\ delivered' = delivered
      <4> DEFINE counted == [stats EXCEPT !.connections = stats.connections + 1]
      <4>1. delivered' = delivered
        BY <2>2, Zenon DEF handle
      <4>2. /\ counted \in EgressStats /\ counted.allowed = stats.allowed /\ counted.bytes_down = stats.bytes_down
            /\ counted.connections = stats.connections + 1
        BY <1>3 DEF Counters, EgressStats
      <4>3. \/ stats' = counted
            \/ stats' = [counted EXCEPT !.blocked = counted.blocked + 1]
            \/ \E l \in BOOLEAN : LET hit == [counted EXCEPT !.limit_hit = l] IN
                 stats' = [hit EXCEPT !.blocked = hit.blocked + 1]
        BY <2>2, Zenon DEF handle, block
      <4> HIDE DEF counted
      <4>4. CASE stats' = counted
        BY <4>1, <4>2, <4>4, Zenon DEF Counters
      <4>5. ASSUME NEW r \in EgressStats, stats' = [r EXCEPT !.blocked = r.blocked + 1],
                   r.allowed = stats.allowed, r.bytes_down = stats.bytes_down, r.connections = stats.connections + 1
            PROVE  /\ Counters' /\ stats'.allowed = stats.allowed /\ stats'.bytes_down = stats.bytes_down
                   /\ stats'.connections = stats.connections + 1 /\ delivered' = delivered
        <5>1. r.blocked + 1 \in Nat
          BY DEF EgressStats
        <5> QED
          BY ZenonT(60), <4>1, <4>5, <5>1, Counted, CountedApart DEF Counters
      <4>6. ASSUME NEW l \in BOOLEAN
            PROVE  LET hit == [counted EXCEPT !.limit_hit = l] IN
                   hit \in EgressStats /\ hit.allowed = counted.allowed /\ hit.bytes_down = counted.bytes_down
                      /\ hit.connections = counted.connections
        BY Zenon, <4>2, Counted, CountedApart
      <4> QED
        BY Zenon, <4>2, <4>3, <4>4, <4>5, <4>6
    <3>2. CASE Goto(c, "refused")
      <4>1. Resolving' \subseteq Resolving
        BY <1>1, <3>2, Zenon DEF Goto, Resolving, TaskOf
      <4> QED
        BY <1>2, <1>3, <2>1, <3>1, <4>1, FewerResolving
    <3>3. CASE Goto(c, "resolving") /\ stats.connections + 1 <= policy.max_connections
      <4>1. Resolving' = Resolving \union {c} /\ c \notin Resolving
        BY <1>1, <2>2, <3>3, Zenon DEF handle, Goto, Resolving, TaskOf
      <4>2. Cardinality(Resolving') = Cardinality(Resolving) + 1 /\ Cardinality(Resolving) \in Nat
        BY <4>1, ResolvingFinite, FS_AddElement, Zenon
      <4>3. /\ stats'.allowed + Cardinality(Resolving') <= stats'.connections
            /\ stats'.allowed + Cardinality(Resolving') <= policy.max_connections
        BY <1>3, <3>1, <3>3, <4>2 DEF BudgetInv
      <4> QED
        BY <1>2, <1>3, <2>1, <3>1, <4>3, Zenon DEF BudgetInv
    <3>4. \/ Goto(c, "refused")
          \/ Goto(c, "resolving") /\ stats.connections + 1 <= policy.max_connections
      BY <1>3, <2>2 DEF handle, RefusedUnseen, BudgetInv
    <3> QED
      BY <3>2, <3>3, <3>4, Zenon
  <2>3. CASE authorize(c)
    <3>1. delivered' = delivered /\ c \in Resolving
      BY <2>3, Zenon DEF authorize, Resolving
    <3>2. CASE Goto(c, "refused") /\ block(stats)
      <4>1. Resolving' \subseteq Resolving
        BY <1>1, <3>2, Zenon DEF Goto, Resolving, TaskOf
      <4>2. /\ Counters' /\ stats'.allowed = stats.allowed
            /\ stats'.connections = stats.connections /\ stats'.bytes_down = stats.bytes_down
        BY <1>3, <3>2 DEF block, Counters, EgressStats
      <4> QED
        BY <1>2, <1>3, <2>1, <3>1, <4>1, <4>2, FewerResolving
    <3>3. CASE /\ \E a : conn' = [conn EXCEPT ![c].state = "connecting", ![c].address = a]
               /\ stats' = [stats EXCEPT !.allowed = @ + 1]
      <4>1. Resolving' = Resolving \ {c}
        BY <1>1, <3>3 DEF Resolving, TaskOf
      <4>2. Cardinality(Resolving') = Cardinality(Resolving) - 1 /\ Cardinality(Resolving) \in Nat
        BY <3>1, <4>1, ResolvingFinite, FS_RemoveElement, Zenon
      <4>3. /\ Counters' /\ stats'.allowed = stats.allowed + 1
            /\ stats'.connections = stats.connections /\ stats'.bytes_down = stats.bytes_down
        BY <1>3, <3>3 DEF Counters, EgressStats
      <4>4. /\ stats'.allowed + Cardinality(Resolving') <= stats'.connections
            /\ stats'.allowed + Cardinality(Resolving') <= policy.max_connections
        BY <1>3, <4>2, <4>3 DEF BudgetInv
      <4> QED
        BY <1>2, <1>3, <2>1, <3>1, <4>3, <4>4, Zenon DEF BudgetInv
    <3> QED
      BY <2>3, <3>2, <3>3, Zenon DEF authorize
  <2>4. CASE copy(c)
    <3>1. Resolving' \subseteq Resolving
      BY <1>1, <2>4 DEF copy, Resolving, TaskOf
    <3>2. /\ Counters' /\ stats'.allowed = stats.allowed /\ stats'.connections = stats.connections
          /\ stats'.bytes_down = stats.bytes_down + 1
      <4> DEFINE more == [stats EXCEPT !.bytes_down = stats.bytes_down + 1]
      <4>1. PICK l \in BOOLEAN : stats' = [more EXCEPT !.limit_hit = l]
        <5>1. \E l \in BOOLEAN : stats' = [stats EXCEPT !.bytes_down = stats.bytes_down + 1, !.limit_hit = l]
          BY <2>4, Zenon DEF copy
        <5> QED
          BY Zenon, <5>1
      <4>2. /\ more \in EgressStats /\ more.allowed = stats.allowed /\ more.bytes_down = stats.bytes_down + 1
            /\ more.connections = stats.connections
        BY <1>3 DEF Counters, EgressStats
      <4> HIDE DEF more
      <4> QED
        BY Zenon, <4>1, <4>2, Counted, CountedApart DEF Counters
    <3>3. \/ delivered' = delivered
          \/ delivered' = delivered + 1 /\ ~(stats.bytes_down + 1 > policy.max_total)
      BY <2>4, Zenon DEF copy
    <3>4. delivered' \in Nat /\ delivered' <= stats'.bytes_down /\ delivered' <= policy.max_total
      BY <1>3, <3>2, <3>3 DEF BudgetInv
    <3> QED
      BY <1>2, <1>3, <2>1, <3>1, <3>2, <3>4, FewerResolving
  <2>5. CASE Connect(c) \/ pipe(c) \/ Cancelled(c)
    <3>1. Resolving' \subseteq Resolving
      BY <1>1, <2>5 DEF Connect, pipe, Cancelled, Goto, Resolving, TaskOf
    <3>2. stats' = stats /\ delivered' = delivered
      BY <2>5, Zenon DEF Connect, pipe, Cancelled
    <3> QED
      BY <1>2, <1>3, <2>1, <3>1, <3>2, FewerResolving DEF Counters, EgressStats
  <2> QED
    BY <1>7, <2>2, <2>3, <2>4, <2>5, Zenon DEF ProxyStep
<1> QED
  BY <1>4, <1>5, <1>6, <1>7, ProxyMoves, Zenon DEF BudgetInv

\* A page gets no more than max_connections connections and max_total_bytes of data, however
\* many requests it makes at once: whoever waits for a lookup is counted already (_handle, copy).
THEOREM BudgetKept == Spec => []PageBudget
<1>1. Init => BudgetInv
  <2> SUFFICES ASSUME Init PROVE BudgetInv
    BY Zenon
  <2>1. Resolving = {}
    BY AtFirst, Zenon DEF Resolving
  <2>2. Cardinality(Resolving) = 0
    BY <2>1, FS_EmptySet, Zenon
  <2>3. policy.max_connections \in Nat /\ policy.max_total \in Nat
    BY Zenon, EgressProxyAssumption DEF Init, ProxyInit, Policy
  <2>4. stats = [connections |-> 0, allowed |-> 0, blocked |-> 0, bytes_down |-> 0, limit_hit |-> FALSE] /\ delivered = 0
    BY Zenon DEF Init, ProxyInit
  <2> QED
    BY <2>2, <2>3, <2>4, AtFirst DEF BudgetInv, Counters, EgressStats
<1>2. BudgetInv /\ [Next]_vars => BudgetInv'
  BY BudgetStep, Zenon
<1>3. BudgetInv => PageBudget
  <2> SUFFICES ASSUME BudgetInv PROVE PageBudget
    BY Zenon
  <2>1. Cardinality(Resolving) \in Nat
    BY ResolvingFinite, Zenon
  <2> QED
    BY <2>1 DEF BudgetInv, PageBudget, Counters, EgressStats
<1> QED
  BY <1>1, <1>2, <1>3, PTL DEF Spec

-----------------------------------------------------------------------------
(* Coverage.                                                               *)

\* The fields of raw, whatever is in them.
Shaped == \E P, R, A : raw \in [process : P, records : R, answered : A, errors : BOOLEAN, truncated : BOOLEAN]

LEMMA Frozen ==
  ASSUME UNCHANGED <<job, there, targets>>
  PROVE  /\ Batches' = Batches /\ Vouches' = Vouches
         /\ \A b : Ask(b, Asked)' = Ask(b, Asked) /\ Exempt(b)' = Exempt(b)
<1>1. Batches' = Batches
  BY Zenon DEF Batches, explicit, HostsOf
<1>2. Vouches' = Vouches /\ \A b : Exempt(b)' = Exempt(b)
  BY Zenon DEF Vouches, Exempt
<1>3. \A b : Ask(b, Asked)' = Ask(b, Asked)
  BY Zenon DEF Ask, Asked, naabu_asks, httpx_asks, dnsx_asks, nuclei_asks
<1> QED
  BY <1>1, <1>2, <1>3, Zenon

\* What most steps do: neither the questions nor their answers change, and a result covers nothing.
Quiet ==
    /\ UNCHANGED <<job, there, todo, raw, examined>>
    /\ \/ UNCHANGED <<targets, pc, result>>
       \/ pc # "done" /\ result' = result /\ pc' \notin {"execute", "finish"}
       \/ result'.coverage = {} /\ pc' = "done"

LEMMA NothingCovered ==
  /\ Failed.coverage = {}
  /\ \A s : [Failed EXCEPT !.status = s].coverage = {}
BY DEF Failed

LEMMA Moves ==
  ASSUME [Next]_vars
  PROVE  \/ Quiet \/ prepare \/ finish
         \/ \E batch \in todo : run_process(batch) \/ execute(batch)
<1> USE NothingCovered
<1>1. CASE execute_job
  BY Zenon, <1>1 DEF execute_job, Report, Quiet, rigid
<1>2. CASE run
  BY Zenon, <1>2 DEF run, Report, Quiet, rigid
<1>3. CASE Retry
  BY Zenon, <1>3 DEF Retry, Quiet, rigid
<1>4. CASE \E t \in unchecked : egress_filter(t)
  BY Zenon, <1>4 DEF egress_filter, Quiet, rigid
<1>5. CASE capture
  BY Zenon, <1>5 DEF capture, Report, Quiet, rigid, unused
<1>6. CASE Redirected
  BY Zenon, <1>6 DEF Redirected, End, Quiet, rigid, unused
<1>7. CASE PreflightFails \/ BrowserEnds
  BY Zenon, <1>7 DEF PreflightFails, BrowserEnds, End, Quiet, rigid, unused
<1>8. CASE Launch
  BY Zenon, <1>8 DEF Launch, Quiet, rigid, unused
<1>9. CASE Stopped
  BY Zenon, <1>9 DEF Stopped, Report, Quiet, rigid, unused
<1>10. CASE \E c \in Conns : preflight(c)
  BY Zenon, <1>10 DEF preflight, Quiet, rigid, unused
<1>11. CASE UNCHANGED sensor
  BY Zenon, <1>11 DEF sensor, Quiet
<1>12. CASE TimeLimit
  BY Zenon, <1>12 DEF TimeLimit, Over, Report, Quiet, rigid, unused
<1>13. CASE Killed
  BY Zenon, <1>13 DEF Killed, Over, Quiet, rigid, unused
<1>14. CASE UNCHANGED vars
  BY Zenon, <1>14, <1>11 DEF vars
<1>15. CASE \E c \in Conns, request \in PageRequests : PageAsks(c, request)
  BY Zenon, <1>15, <1>11 DEF PageAsks
<1>16. CASE prepare \/ finish \/ \E batch \in todo : run_process(batch) \/ execute(batch)
  BY Zenon, <1>16
<1> QED
  BY Zenon, <1>1, <1>2, <1>3, <1>4, <1>5, <1>6, <1>7, <1>8, <1>9, <1>10, <1>11, <1>12, <1>13, <1>14, <1>15, <1>16 DEF Next, JobStep

\* Nothing that was looked at is forgotten.
Grows == examined \subseteq examined' /\ there' = there /\ raw.records \subseteq raw'.records

LEMMA LookedStays ==
  ASSUME Grows, NEW Q, Looked(Q)
  PROVE  Q \subseteq examined' /\ Q \intersect there' \subseteq raw'.records
BY Zenon DEF Grows, Looked

LEMMA AnswersStay ==
  ASSUME AnswersKept, examined \subseteq examined', UNCHANGED <<job, there>>, raw.records \subseteq raw'.records,
         raw'.answered \subseteq raw.answered
  PROVE  AnswersKept'
<1> SUFFICES ASSUME job.adapter \in {"asnlookup", "shodan"}, NEW h \in raw'.answered
             PROVE  At(h, job.asks) \subseteq examined' /\ At(h, job.asks) \intersect there' \subseteq raw'.records
  BY Zenon DEF AnswersKept, Looked, At
<1>1. Looked(At(h, job.asks))
  BY Zenon DEF AnswersKept
<1> QED
  BY <1>1, LookedStays, Zenon DEF Grows

LEMMA QuietStep ==
  ASSUME CoverInv, Shaped, Quiet
  PROVE  CoverInv' /\ Shaped'
<1>1. UNCHANGED <<job, there, todo, raw, examined>>
  BY Zenon DEF Quiet
<1>2. Shaped'
  BY <1>1, Zenon DEF Shaped
<1>3. AnswersKept'
  BY <1>1, Zenon DEF CoverInv, AnswersKept, Looked, At
<1>4. CASE UNCHANGED <<targets, pc, result>>
  <2>1. HonestCoverage => HonestCoverage'
    BY <1>1, <1>4, Frozen, Zenon DEF HonestCoverage, Overclaims
  <2>2. BatchesLooked'
    BY <1>1, <1>4, Frozen, Zenon DEF CoverInv, BatchesLooked, Looked, Incomplete
  <2> QED
    BY <1>1, <1>2, <1>3, <1>4, <2>1, <2>2, Zenon DEF CoverInv
<1>5. CASE pc # "done" /\ result' = result /\ pc' \notin {"execute", "finish"}
  BY <1>1, <1>2, <1>3, <1>5, Zenon DEF CoverInv, BatchesLooked
<1>6. CASE result'.coverage = {} /\ pc' = "done"
  <2>1. HonestCoverage'
    BY <1>6, Zenon DEF HonestCoverage
  <2> QED
    BY <1>1, <1>2, <1>3, <1>6, <2>1, Zenon DEF CoverInv, BatchesLooked
<1> QED
  BY <1>4, <1>5, <1>6, Zenon DEF Quiet

LEMMA PrepareStep ==
  ASSUME CoverInv, Shaped, prepare
  PROVE  CoverInv' /\ Shaped'
<1>1. /\ UNCHANGED <<job, there, targets, result, examined>> /\ pc = "prepare"
      /\ \E e \in BOOLEAN : /\ raw' = [raw EXCEPT !.errors = e]
                            /\ e \/ (todo' = Batches /\ pc' = "execute")
      /\ pc' = "finish" => todo' = {}
  BY Zenon DEF prepare, rigid
<1>2. PICK e \in BOOLEAN : raw' = [raw EXCEPT !.errors = e] /\ (e \/ (todo' = Batches /\ pc' = "execute"))
  BY <1>1, Zenon
<1>3. PICK P, R, A : raw \in [process : P, records : R, answered : A, errors : BOOLEAN, truncated : BOOLEAN]
  BY Zenon DEF Shaped
<1>4. /\ raw' \in [process : P, records : R, answered : A, errors : BOOLEAN, truncated : BOOLEAN]
      /\ raw'.records = raw.records /\ raw'.answered = raw.answered /\ raw'.errors = e
  BY <1>2, <1>3
<1>5. AnswersKept'
  BY <1>1, <1>4, AnswersStay, Zenon DEF CoverInv
<1>6. BatchesLooked'
  BY <1>1, <1>2, <1>4, Frozen, Zenon DEF BatchesLooked, Incomplete
<1>7. result' = None
  BY <1>1, Zenon DEF CoverInv
<1>8. Shaped'
  BY <1>4, Zenon DEF Shaped
<1> QED
  BY <1>1, <1>5, <1>6, <1>7, <1>8, Zenon DEF CoverInv

LEMMA Output ==
  ASSUME NEW written, NEW out \in tool_output(written), ~out[2]
  PROVE  out[1] = written
<1>1. CASE Cardinality(written) <= job.limit
  BY <1>1 DEF tool_output
<1>2. CASE ~(Cardinality(written) <= job.limit)
  <2>1. PICK kept : out = <<kept, TRUE>>
    BY <1>2, Zenon DEF tool_output
  <2>2. out[2]
    BY <2>1
  <2> QED
    BY <2>2, Zenon
<1> QED
  BY <1>1, <1>2, Zenon

\* A record with some fields replaced.
LEMMA ToolFields ==
  ASSUME NEW x, NEW y, NEW P, NEW R, NEW A, NEW r, NEW t \in BOOLEAN, NEW p,
         x \in [process : P, records : R, answered : A, errors : BOOLEAN, truncated : BOOLEAN],
         y = [x EXCEPT !.records = r, !.truncated = t, !.process = p]
  PROVE  /\ y.records = r /\ y.answered = x.answered /\ y.errors = x.errors /\ y.truncated = t /\ y.process = p
         /\ y \in [process : {p}, records : {r}, answered : A, errors : BOOLEAN, truncated : BOOLEAN]
<1>1. y = [process |-> p, records |-> r, answered |-> x.answered, errors |-> x.errors, truncated |-> t]
  BY Zenon
<1> QED
  BY <1>1

LEMMA CallFields ==
  ASSUME NEW x, NEW y, NEW P, NEW R, NEW A, NEW r, NEW e \in BOOLEAN, NEW a,
         x \in [process : P, records : R, answered : A, errors : BOOLEAN, truncated : BOOLEAN],
         y = [x EXCEPT !.records = r, !.errors = e, !.answered = a]
  PROVE  /\ y.records = r /\ y.answered = a /\ y.errors = e /\ y.truncated = x.truncated /\ y.process = x.process
         /\ y \in [process : P, records : {r}, answered : {a}, errors : BOOLEAN, truncated : BOOLEAN]
<1>1. y = [process |-> x.process, records |-> r, answered |-> a, errors |-> e, truncated |-> x.truncated]
  BY Zenon
<1> QED
  BY <1>1

LEMMA ToolStep ==
  ASSUME CoverInv, Shaped, NEW batch \in todo, run_process(batch)
  PROVE  CoverInv' /\ Shaped'
<1>1. /\ UNCHANGED <<job, there, targets, result>> /\ pc = "execute" /\ job.adapter \in Tools
      /\ todo' = todo \ {batch} /\ pc' = IF todo' = {} THEN "finish" ELSE pc
  BY Zenon DEF run_process, rigid
<1>2. PICK asked \in SUBSET Ask(batch, Asked), ok \in BOOLEAN : \E out \in tool_output(asked \intersect there) :
        /\ ok => asked = Ask(batch, Asked)
        /\ examined' = examined \union asked
        /\ raw' = [raw EXCEPT !.records = @ \union out[1], !.truncated = @ \/ out[2],
                              !.process = IF @ = "none" \/ ~ok THEN (IF ok THEN "ok" ELSE "failed") ELSE @]
  BY Zenon DEF run_process
<1>3. PICK out \in tool_output(asked \intersect there) :
        /\ ok => asked = Ask(batch, Asked)
        /\ examined' = examined \union asked
        /\ raw' = [raw EXCEPT !.records = @ \union out[1], !.truncated = @ \/ out[2],
                              !.process = IF @ = "none" \/ ~ok THEN (IF ok THEN "ok" ELSE "failed") ELSE @]
  BY Zenon, <1>2
<1>4. PICK P, R, A : raw \in [process : P, records : R, answered : A, errors : BOOLEAN, truncated : BOOLEAN]
  BY Zenon DEF Shaped
<1>6. /\ raw'.records = raw.records \union out[1] /\ raw'.answered = raw.answered /\ raw'.errors = raw.errors
      /\ raw'.truncated = (raw.truncated \/ out[2])
      /\ raw'.process = IF raw.process = "none" \/ ~ok THEN (IF ok THEN "ok" ELSE "failed") ELSE raw.process
      /\ Shaped'
  <2> DEFINE r == raw.records \union out[1]
             t == raw.truncated \/ out[2]
             p == IF raw.process = "none" \/ ~ok THEN (IF ok THEN "ok" ELSE "failed") ELSE raw.process
  <2>1. raw' = [raw EXCEPT !.records = r, !.truncated = t, !.process = p]
    BY <1>3, Zenon
  <2>2. t \in BOOLEAN
    BY Zenon
  <2> HIDE DEF r, t, p
  <2>3. /\ raw'.records = r /\ raw'.answered = raw.answered /\ raw'.errors = raw.errors
        /\ raw'.truncated = t /\ raw'.process = p
        /\ raw' \in [process : {p}, records : {r}, answered : A, errors : BOOLEAN, truncated : BOOLEAN]
    BY <1>4, <2>1, <2>2, ToolFields, Zenon
  <2>4. Shaped'
    BY <2>3, Zenon DEF Shaped
  <2> QED
    BY <2>3, <2>4, Zenon DEF r, t, p
<1>8. Grows
  BY <1>1, <1>3, <1>6, Zenon DEF Grows
<1>9. AnswersKept'
  BY <1>1, <1>6, <1>8, AnswersStay, Zenon DEF CoverInv, Grows
<1>10. ~Incomplete' => ok /\ ~Incomplete /\ ~out[2]
  BY <1>6, Zenon DEF Incomplete
<1>11. BatchesLooked'
  <2> SUFFICES ASSUME ~Incomplete', NEW b \in Batches \ todo', ~Exempt(b), Vouches
               PROVE  Ask(b, Asked) \subseteq examined' /\ Ask(b, Asked) \intersect there' \subseteq raw'.records
    BY <1>1, Frozen, Zenon DEF BatchesLooked, Looked
  <2>1. CASE b = batch
    <3>1. asked = Ask(b, Asked) /\ out[1] = asked \intersect there
      BY <1>3, <1>10, <2>1, Output, Zenon
    <3> QED
      BY <1>1, <1>3, <1>6, <3>1, Zenon
  <2>2. CASE b # batch
    <3>1. Looked(Ask(b, Asked))
      BY <1>1, <1>10, <2>2, Zenon DEF CoverInv, BatchesLooked
    <3> QED
      BY <1>8, <3>1, LookedStays, Zenon
  <2> QED
    BY <2>1, <2>2, Zenon
<1>12. result' = None
  BY <1>1, Zenon DEF CoverInv
<1> QED
  BY <1>1, <1>6, <1>9, <1>11, <1>12, Zenon DEF CoverInv

LEMMA LesserOfTwo ==
  ASSUME NEW m \in Nat, NEW n \in Nat
  PROVE  Min({m, n}) = IF m <= n THEN m ELSE n
<1> DEFINE k == IF m <= n THEN m ELSE n
<1>1. k \in {m, n} /\ \A y \in {m, n} : k <= y
  OBVIOUS
<1>2. \A x \in {m, n} : (\A y \in {m, n} : x <= y) => x = k
  OBVIOUS
<1> QED
  BY <1>1, <1>2, Zenon DEF Min

LEMMA WholeWhenEnough ==
  ASSUME NEW S, IsFiniteSet(S), NEW T \in SUBSET S, NEW n \in Nat,
         Cardinality(T) = Min({n, Cardinality(S)}), Cardinality(T) < n \/ Cardinality(S) <= n
  PROVE  T = S
<1>1. Cardinality(S) \in Nat
  BY FS_CardinalityType, Zenon
<1>2. Cardinality(T) = IF n <= Cardinality(S) THEN n ELSE Cardinality(S)
  BY <1>1, LesserOfTwo, Zenon
<1>3. Cardinality(S) = Cardinality(T)
  BY <1>1, <1>2
<1> QED
  BY <1>3, FS_Subset, Zenon

Whole(o, asked, records, error, then) == o.asked = asked /\ o.records = records /\ ~error /\ o.then = then

\* As long as no error is noted the alerts shown are all there are.
LEMMA AlertsShown ==
  ASSUME NEW i, NEW a, NEW r, NEW e, NEW n, i = Outcome(a, r, TRUE, e, n),
         IsFiniteSet(r), job.limit \in Nat, NEW o \in alerts(i), ~o.error
  PROVE  Whole(o, a, r, e, n)
<1>1. PICK shown \in SUBSET i.records :
        /\ Cardinality(shown) = Min({job.limit, Cardinality(i.records)})
        /\ o = [i EXCEPT !.records = shown, !.error = @ \/ Cardinality(shown) >= job.limit]
  BY Zenon DEF alerts
<1>2. i.records = r /\ i.asked = a /\ i.then = n /\ i.error = e
  BY DEF Outcome
<1>3. o = [asked |-> a, records |-> shown, answered |-> TRUE, error |-> (e \/ Cardinality(shown) >= job.limit), then |-> n]
  BY <1>1, Zenon DEF Outcome
<1>4. o.asked = a /\ o.records = shown /\ o.then = n /\ ~e /\ ~(Cardinality(shown) >= job.limit)
  BY <1>3, Zenon
<1>5. IsFiniteSet(shown)
  BY <1>1, <1>2, FS_Subset, Zenon
<1>6. Cardinality(shown) \in Nat
  BY <1>5, FS_CardinalityType, Zenon
<1>7. Cardinality(shown) < job.limit
  BY <1>4, <1>6
<1>8. shown = r
  BY <1>1, <1>2, <1>7, WholeWhenEnough, Zenon
<1> QED
  BY <1>4, <1>8, Zenon DEF Whole

LEMMA RaisedCalls ==
  /\ Error.error /\ Break.error /\ [Error EXCEPT !.then = "raise"].error
  /\ Error.then = "next" /\ ~Error.answered /\ ~Break.answered
BY DEF Error, Break, Outcome

LEMMA ZapOutcome ==
  ASSUME job.limit \in Nat, IsFiniteSet(there), NEW asked, NEW o \in zap_call(asked), ~o.error
  PROVE  /\ o.asked = asked /\ o.then = "next"
         /\ o.records = asked \intersect there \/ (job.adapter = "zap_spider" /\ "passive_scan" \notin job.flags)
<1> DEFINE bare == job.adapter = "zap_spider" /\ "passive_scan" \notin job.flags
           analysed(x) == IF bare THEN [x EXCEPT !.records = {}] ELSE x
<1>1. PICK x \in {Answer(asked)} \union Partial(asked) : o \in alerts(analysed(x))
  <2> DEFINE crawled == {analysed(x) : x \in {Answer(asked)} \union Partial(asked)}
             seen == UNION {alerts(x) : x \in crawled}
  <2>1. o \in seen \/ o \in {Error, Break} \/ o = [Error EXCEPT !.then = "raise"]
    BY Zenon DEF zap_call
  <2>2. o \in seen
    <3> HIDE DEF seen
    <3> QED
      BY <2>1, RaisedCalls, Zenon
  <2> QED
    BY <2>2, Zenon
<1>2. \E a, e : e \in BOOLEAN /\ x = Outcome(a, a \intersect there, TRUE, e, "next") /\ (~e => a = asked)
  <2>1. CASE x = Answer(asked)
    BY <2>1, Zenon DEF Answer
  <2>2. CASE x \in Partial(asked)
    BY <2>2, Zenon DEF Partial
  <2> QED
    BY <1>1, <2>1, <2>2, Zenon
<1>3. PICK a, e : e \in BOOLEAN /\ x = Outcome(a, a \intersect there, TRUE, e, "next") /\ (~e => a = asked)
  BY <1>2, Zenon
<1>4. \E r : analysed(x) = Outcome(a, r, TRUE, e, "next") /\ r \subseteq there /\ (bare \/ r = a \intersect there)
  <2>1. CASE bare
    <3>1. analysed(x) = Outcome(a, {}, TRUE, e, "next")
      BY <1>3, <2>1, Zenon DEF Outcome
    <3> QED
      BY <2>1, <3>1, Zenon
  <2>2. CASE ~bare
    BY <1>3, <2>2, Zenon
  <2> QED
    BY <2>1, <2>2, Zenon
<1>5. PICK r : analysed(x) = Outcome(a, r, TRUE, e, "next") /\ r \subseteq there /\ (bare \/ r = a \intersect there)
  BY <1>4, Zenon
<1>6. IsFiniteSet(r)
  BY <1>5, FS_Subset, Zenon
<1> HIDE DEF analysed
<1>7. PICK i : i = Outcome(a, r, TRUE, e, "next") /\ o \in alerts(i)
  BY <1>1, <1>5, Zenon
<1>8. o.asked = a /\ o.records = r /\ ~e /\ o.then = "next"
  <2>1. Whole(o, a, r, e, "next")
    BY <1>6, <1>7, AlertsShown, Zenon
  <2> QED
    BY <2>1, Zenon DEF Whole
<1> QED
  BY <1>3, <1>5, <1>8, Zenon

LEMMA HostOutcome ==
  ASSUME job.adapter \in {"asnlookup", "shodan"}, NEW asked, NEW o \in Outcomes(asked)
  PROVE  /\ o.answered => o.asked = asked /\ o.records = asked \intersect there
         /\ o.then = "next" \/ o.error
<1>1. CASE job.adapter = "asnlookup"
  <2>1. o \in asnlookup_call(asked)
    BY <1>1, Zenon DEF Outcomes
  <2> QED
    BY <2>1 DEF asnlookup_call, Answer, Outcome
<1>2. CASE job.adapter = "shodan"
  <2>1. o \in shodan_call(asked)
    BY <1>2, Zenon DEF Outcomes
  <2> QED
    BY <2>1 DEF shodan_call, Answer, Outcome, Error, Break
<1> QED
  BY <1>1, <1>2, Zenon

LEMMA SeededAll ==
  ASSUME job.seeds \in Nat, NEW batch, IsFiniteSet(batch), NEW asked \in Seeded(batch),
         job.adapter = "zap_active" => ~(Cardinality(batch) > job.seeds)
  PROVE  asked = Ask(batch, Asked)
<1>1. CASE job.adapter # "zap_active"
  BY <1>1, Zenon DEF Seeded
<1>2. CASE job.adapter = "zap_active"
  <2>1. PICK seeds \in SUBSET batch : /\ Cardinality(seeds) = Min({job.seeds, Cardinality(batch)})
                                      /\ asked = Ask(seeds, Asked)
    BY <1>2, Zenon DEF Seeded
  <2>2. Cardinality(batch) \in Nat
    BY FS_CardinalityType, Zenon
  <2>3. Cardinality(batch) <= job.seeds
    BY <1>2, <2>2
  <2>4. seeds = batch
    BY <2>1, <2>3, WholeWhenEnough, Zenon
  <2> QED
    BY <2>1, <2>4, Zenon
<1> QED
  BY <1>1, <1>2, Zenon

LEMMA BatchesCover ==
  /\ \A b \in Batches : b \subseteq targets
  /\ \A t \in targets : \E b \in Batches : t \in b
<1>1. CASE job.adapter = "httpx"
  <2>1. Batches = {explicit, targets \ explicit} \ {{}}
    BY <1>1, Zenon DEF Batches
  <2>2. explicit \subseteq targets
    BY Zenon DEF explicit
  <2>3. ASSUME NEW t \in targets
        PROVE  \E b \in Batches : t \in b
    <3>1. CASE t \in explicit
      BY <2>1, <3>1, Zenon
    <3>2. CASE t \in targets \ explicit
      BY <2>1, <3>2, Zenon
    <3> QED
      BY <3>1, <3>2, Zenon
  <2> QED
    BY <2>1, <2>2, <2>3, Zenon
<1>2. CASE job.adapter \in Tools \ {"httpx"}
  <2>1. Batches = {targets}
    BY <1>2 DEF Batches, Tools
  <2> QED
    BY <2>1, Zenon
<1>3. CASE job.adapter = "zap_active"
  <2>1. Batches = {{t \in targets : t.host = h} : h \in HostsOf(targets)}
    BY <1>3 DEF Batches, Tools
  <2>2. ASSUME NEW t \in targets
        PROVE  \E b \in Batches : t \in b
    <3> DEFINE b == {x \in targets : x.host = t.host}
    <3>1. t.host \in HostsOf(targets)
      BY Zenon DEF HostsOf
    <3>2. b \in Batches
      BY <2>1, <3>1, Zenon
    <3>3. t \in b
      BY Zenon
    <3> QED
      BY <3>2, <3>3, Zenon
  <2>3. \A b \in Batches : b \subseteq targets
    BY <2>1, Zenon
  <2> QED
    BY <2>2, <2>3, Zenon
<1>4. CASE job.adapter \notin Tools /\ job.adapter # "zap_active"
  <2>1. Batches = {{t} : t \in targets}
    BY <1>4 DEF Batches, Tools
  <2> QED
    BY <2>1, Zenon
<1> QED
  BY <1>1, <1>2, <1>3, <1>4, Zenon

Within == unchecked \subseteq job.targets /\ targets \subseteq job.targets

LEMMA WithinStep ==
  ASSUME Within, [Next]_vars
  PROVE  Within'
<1>1. CASE execute_job
  BY Zenon, <1>1 DEF execute_job, Within, rigid
<1>2. CASE \E t \in unchecked : egress_filter(t)
  BY Zenon, <1>2 DEF egress_filter, Within, rigid
<1>3. CASE run \/ prepare \/ Retry \/ finish
  BY Zenon, <1>3 DEF run, prepare, Retry, finish, Within, rigid
<1>4. CASE \E batch \in todo : run_process(batch) \/ execute(batch)
  BY Zenon, <1>4 DEF run_process, execute, Within, rigid
<1>5. CASE capture \/ Redirected \/ PreflightFails \/ Launch \/ BrowserEnds \/ Stopped \/ \E c \in Conns : preflight(c)
  BY Zenon, <1>5 DEF capture, Redirected, PreflightFails, Launch, BrowserEnds, Stopped, preflight, Within, unused, rigid
<1>6. CASE TimeLimit \/ Killed
  BY Zenon, <1>6 DEF TimeLimit, Killed, Over, Within, unused, rigid
<1>7. CASE UNCHANGED sensor
  BY Zenon, <1>7 DEF sensor, Within
<1>8. CASE \E c \in Conns, request \in PageRequests : PageAsks(c, request)
  BY Zenon, <1>7, <1>8 DEF PageAsks
<1>9. CASE UNCHANGED vars
  BY Zenon, <1>7, <1>9 DEF vars
<1> QED
  BY Zenon, <1>1, <1>2, <1>3, <1>4, <1>5, <1>6, <1>7, <1>8, <1>9 DEF Next, JobStep

LEMMA JobFacts ==
  ASSUME CoverInv, Within
  PROVE  /\ job.limit \in Nat /\ job.seeds \in Nat
         /\ IsFiniteSet(there) /\ \A b \in Batches : IsFiniteSet(b)
         /\ job.adapter = "asnlookup" => "asn" \in job.asks
         /\ job.adapter = "shodan" => "cve" \in job.asks
         /\ job.adapter = "zap_spider" => "alert" \in job.asks
<1>1. job \in Job /\ IsFiniteSet(job.targets) /\ IsFiniteSet(job.world)
  BY SensorRunAssumption, Zenon DEF CoverInv
<1>2. job.limit \in Nat /\ job.seeds \in Nat
  BY <1>1 DEF Job
<1>3. IsFiniteSet(there)
  BY <1>1, FS_Subset, Zenon DEF CoverInv
<1>4. \A b \in Batches : b \in SUBSET job.targets
  BY BatchesCover, Zenon DEF Within
<1>5. \A b \in Batches : IsFiniteSet(b)
  BY <1>1, <1>4, FS_Subset, Zenon
<1> QED
  BY <1>2, <1>3, <1>5, SensorRunAssumption, Zenon DEF CoverInv

LEMMA ServiceStep ==
  ASSUME CoverInv, Shaped, Within, NEW batch \in todo, execute(batch)
  PROVE  CoverInv' /\ Shaped'
<1>1. UNCHANGED <<job, there, targets>> /\ pc = "execute" /\ job.adapter \in Services
  BY Zenon DEF execute, rigid
<1>2. PICK asked \in Seeded(batch) : \E o \in Outcomes(asked) :
        /\ examined' = examined \union o.asked
        /\ raw' = [raw EXCEPT !.records = @ \union o.records, !.errors = @ \/ o.error,
                              !.answered = IF o.answered THEN @ \union HostsOf(batch) ELSE @]
        /\ todo' = IF o.then = "next" THEN todo \ {batch} ELSE {}
        /\ IF o.then = "raise" THEN Report(Failed)
           ELSE pc' = (IF todo' = {} THEN "finish" ELSE pc) /\ UNCHANGED result
  BY Zenon DEF execute
<1>3. PICK o \in Outcomes(asked) :
        /\ examined' = examined \union o.asked
        /\ raw' = [raw EXCEPT !.records = @ \union o.records, !.errors = @ \/ o.error,
                              !.answered = IF o.answered THEN @ \union HostsOf(batch) ELSE @]
        /\ todo' = IF o.then = "next" THEN todo \ {batch} ELSE {}
        /\ IF o.then = "raise" THEN Report(Failed)
           ELSE pc' = (IF todo' = {} THEN "finish" ELSE pc) /\ UNCHANGED result
  BY <1>2, Zenon
<1>4. /\ raw'.records = raw.records \union o.records
      /\ raw'.errors = (raw.errors \/ o.error)
      /\ raw'.answered = IF o.answered THEN raw.answered \union HostsOf(batch) ELSE raw.answered
      /\ raw'.truncated = raw.truncated /\ raw'.process = raw.process
      /\ Shaped'
  <2>1. PICK P, R, A : raw \in [process : P, records : R, answered : A, errors : BOOLEAN, truncated : BOOLEAN]
    BY Zenon DEF Shaped
  <2> DEFINE r == raw.records \union o.records
             e == raw.errors \/ o.error
             a == IF o.answered THEN raw.answered \union HostsOf(batch) ELSE raw.answered
  <2>2. raw' = [raw EXCEPT !.records = r, !.errors = e, !.answered = a]
    BY <1>3, Zenon
  <2>3. e \in BOOLEAN
    BY Zenon
  <2> HIDE DEF r, e, a
  <2>4. /\ raw'.records = r /\ raw'.answered = a /\ raw'.errors = e
        /\ raw'.truncated = raw.truncated /\ raw'.process = raw.process
        /\ raw' \in [process : P, records : {r}, answered : {a}, errors : BOOLEAN, truncated : BOOLEAN]
    BY <2>1, <2>2, <2>3, CallFields, Zenon
  <2>5. Shaped'
    BY <2>4, Zenon DEF Shaped
  <2> QED
    BY <2>4, <2>5, Zenon DEF r, e, a
<1>5. Grows
  BY <1>1, <1>3, <1>4, Zenon DEF Grows
<1>6. AnswersKept'
  <2> SUFFICES ASSUME job.adapter \in {"asnlookup", "shodan"}, NEW h \in raw'.answered
               PROVE  At(h, job.asks) \subseteq examined' /\ At(h, job.asks) \intersect there' \subseteq raw'.records
    BY <1>1, Zenon DEF AnswersKept, Looked, At
  <2>1. CASE h \in raw.answered
    <3>1. Looked(At(h, job.asks))
      BY <2>1, Zenon DEF CoverInv, AnswersKept
    <3> QED
      BY <1>5, <3>1, LookedStays, Zenon
  <2>2. CASE h \notin raw.answered
    <3>1. o.answered /\ h \in HostsOf(batch)
      BY <1>4, <2>2, Zenon
    <3>2. o.asked = asked /\ o.records = asked \intersect there
      BY <3>1, HostOutcome, Zenon
    <3>3. asked = Ask(batch, Asked)
      BY Zenon DEF Seeded
    <3>4. PICK t \in batch : h = t.host
      BY <3>1, Zenon DEF HostsOf
    <3>5. Asked(t) = job.asks
      BY DEF Asked
    <3>6. At(h, job.asks) \subseteq asked
      BY <3>3, <3>4, <3>5, Zenon DEF Ask
    <3> QED
      BY <1>1, <1>3, <1>4, <3>2, <3>6, Zenon
  <2> QED
    BY <2>1, <2>2, Zenon
<1>7. ~Incomplete' => ~o.error /\ ~Incomplete
  BY <1>4, Zenon DEF Incomplete
<1>8. BatchesLooked'
  <2> SUFFICES ASSUME ~Incomplete', NEW b \in Batches \ todo', ~Exempt(b), Vouches
               PROVE  Ask(b, Asked) \subseteq examined' /\ Ask(b, Asked) \intersect there' \subseteq raw'.records
    BY <1>1, Frozen, Zenon DEF BatchesLooked, Looked
  <2>1. job.adapter \in {"zap_spider", "zap_active"}
    BY <1>1 DEF Vouches, Tools, Services
  <2>2. o \in zap_call(asked)
    BY <2>1 DEF Outcomes
  <2>3. /\ o.asked = asked /\ o.then = "next"
        /\ o.records = asked \intersect there \/ (job.adapter = "zap_spider" /\ "passive_scan" \notin job.flags)
    BY <1>7, <2>2, JobFacts, ZapOutcome, Zenon
  <2>4. CASE b = batch
    <3>1. o.records = asked \intersect there
      BY <2>3, Zenon DEF Exempt
    <3>2. asked = Ask(b, Asked)
      BY <2>4, JobFacts, SeededAll, Zenon DEF Exempt
    <3> QED
      BY <1>1, <1>3, <1>4, <2>3, <3>1, <3>2, Zenon
  <2>5. CASE b # batch
    <3>1. b \in Batches \ todo
      BY <1>3, <2>3, <2>5, Zenon
    <3>2. Looked(Ask(b, Asked))
      BY <1>1, <1>7, <3>1, Zenon DEF CoverInv, BatchesLooked
    <3> QED
      BY <1>5, <3>2, LookedStays, Zenon
  <2> QED
    BY <2>4, <2>5, Zenon
<1>9. result' # None => pc' = "done" /\ HonestCoverage'
  <2>1. result = None
    BY <1>1, Zenon DEF CoverInv
  <2>2. CASE o.then = "raise"
    BY <1>3, <2>2, NothingCovered, Zenon DEF Report, HonestCoverage
  <2>3. CASE o.then # "raise"
    BY <1>3, <2>1, <2>3, Zenon
  <2> QED
    BY <2>2, <2>3, Zenon
<1>10. pc' = "finish" => todo' = {}
  BY <1>1, <1>3, Zenon DEF Report
<1> QED
  BY <1>1, <1>4, <1>6, <1>8, <1>9, <1>10, Zenon DEF CoverInv

\* What finish must show of what normalize returns.
Honest(n) == \A q \in n.coverage : Overclaims(q) \/ (q \in examined /\ (q \in there => q \in n.observed))

LEMMA Covering ==
  ASSUME NEW observed, NEW coverage
  PROVE  Normalized(observed, coverage).observed = observed /\ Normalized(observed, coverage).coverage = coverage
BY DEF Normalized

LEMMA TargetLooked ==
  ASSUME CoverInv, pc = "finish", ~Incomplete, Vouches, NEW t \in targets
  PROVE  \E b \in Batches : Exempt(b) \/ Looked(At(t.host, Asked(t)))
<1>1. todo = {}
  BY Zenon DEF CoverInv, Incomplete
<1>2. PICK b \in Batches : t \in b
  BY BatchesCover, Zenon
<1>3. Exempt(b) \/ Looked(Ask(b, Asked))
  BY <1>1, <1>2, Zenon DEF CoverInv, BatchesLooked
<1>4. At(t.host, Asked(t)) \subseteq Ask(b, Asked)
  BY <1>2, Zenon DEF Ask
<1> QED
  BY <1>2, <1>3, <1>4, Zenon DEF Looked

LEMMA CoverageHonest ==
  ASSUME CoverInv, Within, pc = "finish", ~Incomplete, job.adapter \in Tools \union Services
  PROVE  Honest(normalize)
<1>1. ASSUME NEW t \in targets, job.adapter \in Tools, NEW f \in Asked(t)
      PROVE  <<t.host, f>> \in examined /\ (<<t.host, f>> \in there => <<t.host, f>> \in raw.records)
  <2>1. PICK b \in Batches : Exempt(b) \/ Looked(At(t.host, Asked(t)))
    BY <1>1, TargetLooked, Zenon DEF Vouches
  <2>2. ~Exempt(b)
    BY <1>1 DEF Exempt, Tools
  <2>3. <<t.host, f>> \in At(t.host, Asked(t))
    BY <1>1, Zenon DEF At
  <2> QED
    BY <2>1, <2>2, <2>3, Zenon DEF Looked
<1>2. ASSUME NEW h \in raw.answered, job.adapter \in {"asnlookup", "shodan"}, NEW f \in job.asks
      PROVE  <<h, f>> \in examined /\ (<<h, f>> \in there => <<h, f>> \in raw.records)
  <2>1. <<h, f>> \in At(h, job.asks)
    BY <1>2, Zenon DEF At
  <2> QED
    BY <1>2, <2>1, Zenon DEF CoverInv, AnswersKept, Looked
<1>3. CASE job.adapter \in {"subfinder", "amass", "bbot", "crtsh", "spiderfoot"}
  <2>1. normalize \in {subfinder, amass, bbot, crtsh, spiderfoot}
    BY <1>3 DEF normalize
  <2>2. normalize.coverage = {}
    BY <2>1, Covering, Zenon DEF subfinder, amass, bbot, crtsh, spiderfoot
  <2> QED
    BY <2>2, Zenon DEF Honest
<1>4. CASE job.adapter = "dnsx"
  <2>1. normalize = dnsx
    BY <1>4 DEF normalize
  <2>2. /\ normalize.observed = raw.records
        /\ normalize.coverage = Ask(targets, LAMBDA t : {"a", "aaaa"} \union (job.asks \intersect {"cname"}))
    BY <2>1, Covering, Zenon DEF dnsx
  <2> SUFFICES ASSUME NEW q \in normalize.coverage, ~Overclaims(q)
               PROVE  q \in examined /\ (q \in there => q \in raw.records)
    BY <2>2, Zenon DEF Honest
  <2>3. PICK t \in targets : q \in At(t.host, {"a", "aaaa"} \union (job.asks \intersect {"cname"}))
    BY <2>2, Zenon DEF Ask
  <2>4. PICK f \in {"a", "aaaa"} \union (job.asks \intersect {"cname"}) : q = <<t.host, f>>
    BY <2>3, Zenon DEF At
  <2>5. q[2] = f
    BY <2>4
  <2>6. f \in Asked(t)
    BY <1>4, <2>4, <2>5 DEF Asked, dnsx_asks, Overclaims
  <2> QED
    BY <1>1, <1>4, <2>4, <2>6, Zenon DEF Tools
<1>5. CASE job.adapter = "naabu"
  <2> DEFINE CoveredPorts(t) == IF "exclude_cdn" \in job.flags /\ t.host \in job.known_cdn THEN cdn_ports ELSE job.asks
  <2>1. normalize = naabu
    BY <1>5 DEF normalize
  <2>2. normalize.observed = raw.records /\ normalize.coverage = Ask(targets, CoveredPorts)
    BY <2>1, Covering, Zenon DEF naabu
  <2> SUFFICES ASSUME NEW q \in normalize.coverage, ~Overclaims(q)
               PROVE  q \in examined /\ (q \in there => q \in raw.records)
    BY <2>2, Zenon DEF Honest
  <2>3. PICK t \in targets : q \in At(t.host, CoveredPorts(t))
    BY <2>2, Zenon DEF Ask
  <2>4. PICK f \in CoveredPorts(t) : q = <<t.host, f>>
    BY <2>3, Zenon DEF At
  <2>5. q[1] = t.host
    BY <2>4
  <2>6. Asked(t) = naabu_asks(t)
    BY <1>5 DEF Asked
  <2>7. job.known_cdn \subseteq job.cdn
    BY SensorRunAssumption, Zenon DEF CoverInv
  <2>8. f \in Asked(t)
    BY <1>5, <2>4, <2>5, <2>6, <2>7, Zenon DEF naabu_asks, Overclaims
  <2> QED
    BY <1>1, <1>5, <2>4, <2>8, Zenon DEF Tools
<1>6. CASE job.adapter \in {"httpx", "nuclei"}
  <2>1. /\ normalize.observed = raw.records
        /\ \A q \in normalize.coverage : \E t \in targets : q \in At(t.host, Asked(t))
    <3>1. CASE job.adapter = "httpx"
      <4>1. normalize = httpx /\ \A t : Asked(t) = httpx_asks(t)
        BY <3>1 DEF normalize, Asked
      <4>2. normalize.observed = raw.records /\ normalize.coverage = Ask({t \in targets : t.kind # "url"}, httpx_asks)
        BY <4>1, Covering, Zenon DEF httpx
      <4> QED
        BY <4>1, <4>2, Zenon DEF Ask
    <3>2. CASE job.adapter = "nuclei"
      <4>1. normalize = nuclei /\ \A t : Asked(t) = nuclei_asks(t)
        BY <3>2 DEF normalize, Asked
      <4>2. /\ normalize.observed = raw.records
            /\ normalize.coverage = Ask({t \in targets : t.kind \in {"url", "hostname"}}, nuclei_asks)
        BY <4>1, Covering, Zenon DEF nuclei
      <4> QED
        BY <4>1, <4>2, Zenon DEF Ask
    <3> QED
      BY <1>6, <3>1, <3>2, Zenon
  <2> SUFFICES ASSUME NEW q \in normalize.coverage
               PROVE  q \in examined /\ (q \in there => q \in raw.records)
    BY <2>1, Zenon DEF Honest
  <2>2. PICK t \in targets : q \in At(t.host, Asked(t))
    BY <2>1, Zenon
  <2>3. PICK f \in Asked(t) : q = <<t.host, f>>
    BY <2>2, Zenon DEF At
  <2> QED
    BY <1>1, <1>6, <2>3, Zenon DEF Tools
<1>7. CASE job.adapter \in {"asnlookup", "shodan"}
  <2> SUFFICES ASSUME NEW q \in normalize.coverage, ~Overclaims(q)
               PROVE  q \in examined /\ (q \in there => q \in normalize.observed)
    BY Zenon DEF Honest
  <2>1. CASE job.adapter = "asnlookup"
    <3>1. normalize = asnlookup
      BY <2>1 DEF normalize
    <3>2. /\ normalize.observed = raw.records
          /\ normalize.coverage = Ask({t \in targets : t.host \in raw.answered}, LAMBDA t : {"asn"})
      BY <3>1, Covering, Zenon DEF asnlookup
    <3>3. PICK h \in raw.answered : q = <<h, "asn">>
      BY <3>2, Zenon DEF Ask, At
    <3>4. "asn" \in job.asks
      BY <2>1, JobFacts, Zenon
    <3> QED
      BY <1>2, <2>1, <3>2, <3>3, <3>4, Zenon
  <2>2. CASE job.adapter = "shodan"
    <3>1. normalize = shodan
      BY <2>2 DEF normalize
    <3>2. /\ normalize.observed = {r \in raw.records : r[2] # "old" /\ "include_vulnerabilities" \in job.flags}
          /\ normalize.coverage = Ask({t \in targets : t.host \in raw.answered}, LAMBDA t : {"cve"})
      BY <3>1, Covering, Zenon DEF shodan
    <3>3. PICK h \in raw.answered : q = <<h, "cve">>
      BY <3>2, Zenon DEF Ask, At
    <3>4. "cve" \in job.asks
      BY <2>2, JobFacts, Zenon
    <3>5. q \in examined /\ (q \in there => q \in raw.records)
      BY <1>2, <2>2, <3>3, <3>4, Zenon
    <3>6. q[2] # "old" /\ "include_vulnerabilities" \in job.flags
      BY <2>2, <3>3 DEF Overclaims
    <3> QED
      BY <3>2, <3>5, <3>6, Zenon
  <2> QED
    BY <1>7, <2>1, <2>2, Zenon
<1>8. ASSUME job.adapter \in {"zap_spider", "zap_active"}, NEW t \in targets, NEW f \in Asked(t), \A b \in Batches : ~Exempt(b)
      PROVE  <<t.host, f>> \in examined /\ (<<t.host, f>> \in there => <<t.host, f>> \in raw.records)
  <2>1. Looked(At(t.host, Asked(t)))
    BY <1>8, TargetLooked, Zenon DEF Vouches
  <2>2. <<t.host, f>> \in At(t.host, Asked(t))
    BY <1>8, Zenon DEF At
  <2> QED
    BY <2>1, <2>2, Zenon DEF Looked
<1>9. CASE job.adapter = "zap_spider"
  <2>1. normalize = zap_spider /\ \A t : Asked(t) = job.asks
    BY <1>9 DEF normalize, Asked
  <2>2. /\ normalize.observed = raw.records
        /\ normalize.coverage = IF "passive_scan" \in job.flags THEN Ask(targets, LAMBDA t : {"alert"}) ELSE {}
    BY <2>1, Covering, Zenon DEF zap_spider
  <2> SUFFICES ASSUME NEW q \in normalize.coverage
               PROVE  q \in examined /\ (q \in there => q \in raw.records)
    BY <2>2, Zenon DEF Honest
  <2>3. "passive_scan" \in job.flags
    BY <2>2, Zenon
  <2>4. PICK t \in targets : q = <<t.host, "alert">>
    <3>1. normalize.coverage = Ask(targets, LAMBDA t : {"alert"})
      BY <2>2, <2>3, Zenon
    <3> QED
      BY <3>1, Zenon DEF Ask, At
  <2>5. "alert" \in job.asks
    BY <1>9, JobFacts, Zenon
  <2>6. \A b \in Batches : ~Exempt(b)
    BY <1>9, <2>3 DEF Exempt
  <2> QED
    BY <1>8, <1>9, <2>1, <2>4, <2>5, <2>6, Zenon
<1>10. CASE job.adapter = "zap_active"
  <2>1. normalize = zap_active /\ \A t : Asked(t) = {t.feature}
    BY <1>10 DEF normalize, Asked
  <2>2. normalize.observed = raw.records /\ normalize.coverage = Ask(targets, LAMBDA t : {t.feature})
    BY <2>1, Covering, Zenon DEF zap_active
  <2> SUFFICES ASSUME NEW q \in normalize.coverage, ~Overclaims(q)
               PROVE  q \in examined /\ (q \in there => q \in raw.records)
    BY <2>2, Zenon DEF Honest
  <2>3. PICK t \in targets : q = <<t.host, t.feature>>
    BY <2>2, Zenon DEF Ask, At
  <2>4. \A b \in Batches : ~Exempt(b)
    BY <1>10 DEF Exempt, Overclaims
  <2> QED
    BY <1>8, <1>10, <2>1, <2>3, <2>4, Zenon
<1> QED
  BY <1>3, <1>4, <1>5, <1>6, <1>7, <1>9, <1>10, Zenon DEF Tools, Services

\* Only adapters with questions come to the end of them.
Ready == pc = "finish" => job.adapter \in Tools \union Services

LEMMA ReadyStep ==
  ASSUME Ready, [Next]_vars
  PROVE  Ready'
<1>1. CASE Quiet
  BY <1>1, Zenon DEF Quiet, Ready
<1>2. CASE prepare
  BY <1>2, Zenon DEF prepare, Ready, rigid, Services
<1>3. CASE finish
  BY <1>3, Zenon DEF finish, Report, Ready
<1>4. CASE \E batch \in todo : run_process(batch) \/ execute(batch)
  BY <1>4, Zenon DEF run_process, execute, Ready, rigid
<1> QED
  BY <1>1, <1>2, <1>3, <1>4, Moves, Zenon

LEMMA FinishStep ==
  ASSUME CoverInv, Shaped, Within, Ready, finish
  PROVE  CoverInv' /\ Shaped'
<1>1. /\ UNCHANGED <<job, there, targets, todo, raw, examined>> /\ pc = "finish" /\ pc' = "done"
      /\ \E status \in Status :
           result' = [status |-> status, observed |-> normalize.observed,
                      coverage |-> IF Incomplete THEN {} ELSE normalize.coverage]
  BY Zenon DEF finish, Report, rigid
<1>2. /\ result'.observed = normalize.observed
      /\ result'.coverage = IF Incomplete THEN {} ELSE normalize.coverage
  BY <1>1
<1>3. ~Incomplete => Honest(normalize)
  BY <1>1, CoverageHonest, Zenon DEF Ready
<1>4. HonestCoverage'
  <2>1. \A q : Overclaims(q)' = Overclaims(q)
    BY <1>1, Frozen, Zenon DEF Overclaims
  <2> QED
    BY <1>1, <1>2, <1>3, <2>1, Zenon DEF HonestCoverage, Honest
<1>5. AnswersKept'
  BY <1>1, Zenon DEF CoverInv, AnswersKept, Looked, At
<1>6. Shaped'
  BY <1>1, Zenon DEF Shaped
<1> QED
  BY <1>1, <1>4, <1>5, <1>6, Zenon DEF CoverInv, BatchesLooked

(* A result never vouches for more than its sensor has seen: whatever      *)
(* fails, is cut short, clipped or refused, for every job, adapter and     *)
(* configuration, what a result covers was asked, and what of it is there  *)
(* is reported (base.run, the adapters and their normalize).               *)
THEOREM CoverageIsHonest == Spec => []HonestCoverage
<1> DEFINE Inv == CoverInv /\ Shaped /\ Within /\ Ready
<1>1. Init => Inv
  <2> SUFFICES ASSUME Init PROVE Inv
    OBVIOUS
  <2>1. raw \in [process : {"none"}, records : {{}}, answered : {{}}, errors : BOOLEAN, truncated : BOOLEAN]
    BY DEF Init, Empty
  <2>2. raw.answered = {} /\ result = None /\ pc = "queued"
    BY DEF Init, Empty
  <2>3. CoverInv
    BY <2>2, Zenon DEF CoverInv, AnswersKept, BatchesLooked, Init
  <2> QED
    BY <2>1, <2>2, <2>3, Zenon DEF Shaped, Within, Ready, Init
<1>2. Inv /\ [Next]_vars => Inv'
  <2> SUFFICES ASSUME CoverInv, Shaped, Within, Ready, [Next]_vars PROVE Inv'
    BY Zenon
  <2>1. CoverInv' /\ Shaped'
    BY Moves, QuietStep, PrepareStep, ToolStep, ServiceStep, FinishStep, Zenon
  <2> QED
    BY <2>1, WithinStep, ReadyStep, Zenon
<1>3. Inv => HonestCoverage
  BY Zenon DEF CoverInv, HonestCoverage
<1> QED
  BY <1>1, <1>2, <1>3, PTL DEF Spec

-----------------------------------------------------------------------------
(* The scanner daemon *)

Steps == {"waiting", "release"} \union Touching \union Ended

LEMMA Numbers ==
  /\ TTL \in Nat \ {0} /\ Period \in Nat \ {0} /\ RenewTicks \in Nat \ {0}
  /\ CallTicks \in Nat \ {0} /\ CrawlTicks \in Nat \ {0} /\ WaitTicks \in Nat /\ MaxUpsets \in Nat
BY LeaseAssumption, Zenon

LEMMA UndoableCount == IsFiniteSet(Undoable) /\ Cardinality(Undoable) = 4
<1>1. IsFiniteSet({"spider"}) /\ Cardinality({"spider"}) = 1
  BY Zenon, FS_Singleton
<1>2. IsFiniteSet({"spider", "ajax"}) /\ Cardinality({"spider", "ajax"}) = 2
  <2>1. {"spider", "ajax"} = {"spider"} \union {"ajax"} /\ "ajax" \notin {"spider"}
    BY Zenon
  <2> QED
    BY <1>1, <2>1, FS_AddElement
<1>3. IsFiniteSet({"spider", "ajax", "rule"}) /\ Cardinality({"spider", "ajax", "rule"}) = 3
  <2>1. {"spider", "ajax", "rule"} = {"spider", "ajax"} \union {"rule"} /\ "rule" \notin {"spider", "ajax"}
    BY Zenon
  <2> QED
    BY <1>2, <2>1, FS_AddElement
<1>4. /\ Undoable = {"spider", "ajax", "rule"} \union {"context"}
      /\ "context" \notin {"spider", "ajax", "rule"}
  BY Zenon DEF Undoable
<1> QED
  BY <1>3, <1>4, FS_AddElement

\* What a finally block has to undo is at most four calls, and each call is one less.
LEMMA UndoCount ==
  ASSUME NEW S \in SUBSET Undoable
  PROVE  /\ Cardinality(S) \in 0..4
         /\ S # {} => Cardinality(S) >= 1
         /\ \A x \in S : Cardinality(S \ {x}) = Cardinality(S) - 1
<1>1. IsFiniteSet(S) /\ Cardinality(S) \in Nat /\ Cardinality(S) <= 4
  BY UndoableCount, FS_Subset, FS_CardinalityType, Zenon
<1>2. S # {} => Cardinality(S) # 0
  BY <1>1, FS_EmptySet, Zenon
<1>3. \A x \in S : Cardinality(S \ {x}) = Cardinality(S) - 1
  BY <1>1, FS_RemoveElement, Zenon
<1> QED
  BY <1>1, <1>2, <1>3

-----------------------------------------------------------------------------
(* Types *)

LEMMA DaemonTypeInit == DaemonInit => DaemonTypeOK
<1> SUFFICES ASSUME DaemonInit PROVE DaemonTypeOK
  BY Zenon
<1>1. lost \in [Pool -> BOOLEAN] /\ forgot \in BOOLEAN
  BY Zenon DEF DaemonInit
<1> QED
  BY <1>1, Numbers DEF DaemonInit, DaemonTypeOK

\* GoTo keeps the job variables in their types.
LEMMA GoToType ==
  ASSUME DaemonTypeOK, NEW j \in Pool, NEW step \in Steps, NEW remaining \in SUBSET Undoable, GoTo(j, step, remaining)
  PROVE  /\ stage' \in [Pool -> Steps] /\ undo' \in [Pool -> SUBSET Undoable]
         /\ busy' \in [Pool -> Nat] /\ waited' \in [Pool -> 0..WaitTicks] /\ timer' \in [Pool -> Nat]
         /\ lost' \in [Pool -> BOOLEAN] /\ forgot' \in BOOLEAN
<1>1. stage' \in [Pool -> Steps] /\ undo' \in [Pool -> SUBSET Undoable]
  BY Zenon DEF GoTo, DaemonTypeOK, Steps
<1>2. busy' \in [Pool -> Nat] /\ waited' \in [Pool -> 0..WaitTicks] /\ timer' \in [Pool -> Nat]
  BY Numbers DEF GoTo, DaemonTypeOK
<1>3. lost' \in [Pool -> BOOLEAN] /\ forgot' \in BOOLEAN
  BY Zenon DEF GoTo, DaemonTypeOK
<1> QED
  BY <1>1, <1>2, <1>3, Zenon

Keys == [holder : Pool \union {NoJob}, left : 0..TTL]

LEMMA KeyTypes ==
  /\ \A j \in Pool : HeldBy(j) \in Keys /\ (key \in Keys => DropKey(j) \in Keys)
  /\ Nobody \in Keys
BY Numbers DEF HeldBy, DropKey, Nobody, Keys

DaemonType ==
    session \in Pool \union {NoJob} /\ contexts \subseteq Pool /\ rules \subseteq Pool /\ ajax \in Pool \union {NoJob}

\* A step of a job that goes on through GoTo keeps the types.
LEMMA MoveType ==
  ASSUME DaemonTypeOK, NEW j \in Pool, NEW step \in Steps, NEW remaining \in SUBSET Undoable, GoTo(j, step, remaining),
         key' \in Keys, DaemonType', upsets' \in 0..MaxUpsets
  PROVE  DaemonTypeOK'
BY GoToType, Zenon DEF DaemonTypeOK, Keys, DaemonType, Steps

LEMMA UpsetType == DaemonTypeOK /\ Upset => upsets' \in 0..MaxUpsets
BY Numbers DEF DaemonTypeOK, Upset

\* The daemon's calls keep its state in its type.
LEMMA CallTypes ==
  ASSUME DaemonTypeOK, NEW j \in Pool
  PROVE  /\ NewSession(j) => DaemonType'
         /\ AddContext(j) => DaemonType'
         /\ AddRule(j) => DaemonType'
         /\ UNCHANGED daemon => DaemonType'
         /\ \A what : UndoCall(j, what) => DaemonType'
BY Zenon DEF DaemonTypeOK, DaemonType, NewSession, AddContext, AddRule, UndoCall, daemon

LEMMA DaemonTypeStep == DaemonTypeOK /\ [DaemonNext]_leasing => DaemonTypeOK'
<1> SUFFICES ASSUME DaemonTypeOK, [DaemonNext]_leasing PROVE DaemonTypeOK'
  BY Zenon
<1> USE Numbers
<1>0. key \in Keys /\ DaemonType /\ upsets \in 0..MaxUpsets /\ undo \in [Pool -> SUBSET Undoable]
      /\ (UNCHANGED upsets => upsets' \in 0..MaxUpsets) /\ (UNCHANGED key => key' \in Keys)
  BY Zenon DEF DaemonTypeOK, Keys, DaemonType
<1>s. Steps = {"waiting", "release"} \union Touching \union Ended
  BY Zenon DEF Steps
<1>1. ASSUME NEW j \in Pool, Acquire(j) PROVE DaemonTypeOK'
  <2>1. lost' \in [Pool -> BOOLEAN] /\ forgot' \in BOOLEAN
    BY <1>1, Zenon DEF Acquire, DaemonTypeOK
  <2>2. key' \in [holder : Pool \union {NoJob}, left : 0..TTL]
    BY <1>1, KeyTypes, Zenon DEF Acquire, Keys
  <2>3. stage' \in [Pool -> {"waiting", "release"} \union Touching \union Ended]
    BY <1>1, Zenon DEF Acquire, DaemonTypeOK, Touching
  <2> QED
    BY <1>1, <2>1, <2>2, <2>3 DEF Acquire, DaemonTypeOK, daemon
<1>2. ASSUME NEW j \in Pool, GiveUp(j) PROVE DaemonTypeOK'
  <2>1. GoTo(j, "unavailable", {}) /\ UNCHANGED <<key, daemon, upsets>>
    BY <1>2, Zenon DEF GiveUp
  <2>2. "unavailable" \in Steps
    BY <1>s, Zenon DEF Ended
  <2> QED
    BY <1>0, <2>1, <2>2, CallTypes, MoveType
<1>3. ASSUME NEW j \in Pool, AcquireFails(j) PROVE DaemonTypeOK'
  <2>1. GoTo(j, "failed", {}) /\ UNCHANGED daemon /\ Upset /\ (key' = key \/ key' = HeldBy(j))
    BY <1>3, Zenon DEF AcquireFails
  <2>2. "failed" \in Steps /\ key' \in Keys
    BY <1>0, <1>s, <2>1, KeyTypes, Zenon DEF Ended
  <2> QED
    BY <2>1, <2>2, CallTypes, UpsetType, MoveType
<1>4. ASSUME NEW j \in Pool, Renew(j) PROVE DaemonTypeOK'
  <2>1. lost' \in [Pool -> BOOLEAN] /\ forgot' \in BOOLEAN
    BY <1>4, Zenon DEF Renew, DaemonTypeOK
  <2>2. key' \in [holder : Pool \union {NoJob}, left : 0..TTL]
    BY <1>4, KeyTypes, Zenon DEF Renew, Keys
  <2> QED
    BY <1>4, <2>1, <2>2, Zenon DEF Renew, DaemonTypeOK, daemon
<1>5. ASSUME NEW j \in Pool, Lose(j) PROVE DaemonTypeOK'
  <2>1. lost' \in [Pool -> BOOLEAN] /\ forgot' \in BOOLEAN
    BY <1>5, Zenon DEF Lose, DaemonTypeOK
  <2>2. (key' = key \/ key' = HeldBy(j)) /\ (Upset \/ UNCHANGED upsets)
    BY <1>5, Zenon DEF Lose
  <2>3. key' \in [holder : Pool \union {NoJob}, left : 0..TTL] /\ upsets' \in 0..MaxUpsets
    BY <1>0, <2>2, KeyTypes, UpsetType, Zenon DEF Keys
  <2>4. AfterCancel(j) \in {"cleanup", "lost"}
    BY Zenon DEF AfterCancel
  <2>5. stage' \in [Pool -> {"waiting", "release"} \union Touching \union Ended]
    BY <1>5, <2>4, Zenon DEF Lose, DaemonTypeOK, Touching, Ended
  <2>6. undo' \in [Pool -> SUBSET Undoable] /\ busy' \in [Pool -> Nat] /\ timer' \in [Pool -> Nat]
    BY <1>5, Zenon DEF Lose, DaemonTypeOK
  <2> QED
    BY <1>5, <2>1, <2>3, <2>5, <2>6, Zenon DEF Lose, DaemonTypeOK, daemon
<1>6. ASSUME NEW j \in Pool, Release(j) PROVE DaemonTypeOK'
  <2>1. /\ GoTo(j, "done", {}) \/ GoTo(j, "failed", {})
        /\ key' = key \/ key' = DropKey(j)
        /\ UNCHANGED daemon /\ (Upset \/ UNCHANGED upsets)
    BY <1>6, Zenon DEF Release
  <2>2. "done" \in Steps /\ "failed" \in Steps /\ key' \in Keys
    BY <1>0, <1>s, <2>1, KeyTypes, Zenon DEF Ended
  <2> QED
    BY <1>0, <2>1, <2>2, CallTypes, UpsetType, MoveType
<1>7. ASSUME NEW j \in Pool, OpenSession(j) PROVE DaemonTypeOK'
  <2>1. /\ GoTo(j, "context", {}) \/ GoTo(j, "release", {})
        /\ NewSession(j) \/ UNCHANGED daemon
        /\ UNCHANGED key /\ (Upset \/ UNCHANGED upsets)
    BY <1>7, Zenon DEF OpenSession
  <2>2. "context" \in Steps /\ "release" \in Steps
    BY <1>s, Zenon DEF Touching
  <2> QED
    BY <1>0, <2>1, <2>2, CallTypes, UpsetType, MoveType
<1>8. ASSUME NEW j \in Pool, CreateContext(j) PROVE DaemonTypeOK'
  <2>1. /\ \/ GoTo(j, "rule", {"context", "rule"}) \/ GoTo(j, "spider", {"context", "spider"})
           \/ GoTo(j, "reset", {})
        /\ AddContext(j) \/ UNCHANGED daemon
        /\ UNCHANGED key /\ (Upset \/ UNCHANGED upsets)
    BY <1>8, Zenon DEF CreateContext
  <2>2. "rule" \in Steps /\ "spider" \in Steps /\ "reset" \in Steps
    BY <1>s, Zenon DEF Touching, InTry, Crawling
  <2>3. {"context", "rule"} \in SUBSET Undoable /\ {"context", "spider"} \in SUBSET Undoable
    BY Zenon DEF Undoable
  <2> QED
    BY <1>0, <2>1, <2>2, <2>3, CallTypes, UpsetType, MoveType
<1>u. ASSUME NEW j \in Pool PROVE undo[j] \in SUBSET Undoable
  BY <1>0, Zenon
<1>t. {"cleanup", "spider", "ajax", "ajaxing", "drain", "release", "reset", "lost", "crashed"} \subseteq Steps
  BY <1>s, Zenon DEF Touching, InTry, Crawling, Ended
<1>9. ASSUME NEW j \in Pool, AddAuthHeader(j) PROVE DaemonTypeOK'
  <2>1. /\ GoTo(j, "spider", undo[j] \union {"spider"}) \/ GoTo(j, "cleanup", undo[j])
        /\ AddRule(j) \/ UNCHANGED daemon
        /\ UNCHANGED key /\ (Upset \/ UNCHANGED upsets)
    BY <1>9, Zenon DEF AddAuthHeader
  <2>2. undo[j] \union {"spider"} \in SUBSET Undoable
    BY <1>u, Zenon DEF Undoable
  <2> QED
    BY <1>0, <1>t, <1>u, <2>1, <2>2, CallTypes, UpsetType, MoveType, Zenon
<1>10. ASSUME NEW j \in Pool, CrawlFails(j) PROVE DaemonTypeOK'
  <2>1. GoTo(j, "cleanup", undo[j]) /\ UNCHANGED <<key, daemon>> /\ Upset
    BY <1>10, Zenon DEF CrawlFails
  <2> QED
    BY <1>0, <1>t, <1>u, <2>1, CallTypes, UpsetType, MoveType, Zenon
<1>11. ASSUME NEW j \in Pool, SpiderEnds(j) PROVE DaemonTypeOK'
  <2>1. PICK remaining \in {undo[j] \ {"spider"}, undo[j]} :
          GoTo(j, "ajax", remaining \union {"ajax"}) \/ GoTo(j, "drain", remaining)
    BY <1>11, Zenon DEF SpiderEnds
  <2>2. UNCHANGED <<key, daemon, upsets>>
    BY <1>11, Zenon DEF SpiderEnds
  <2>3. remaining \in SUBSET Undoable /\ remaining \union {"ajax"} \in SUBSET Undoable
    BY <1>u, Zenon DEF Undoable
  <2> QED
    BY <1>0, <1>t, <2>1, <2>2, <2>3, CallTypes, MoveType, Zenon
<1>12. ASSUME NEW j \in Pool, StartAjax(j) PROVE DaemonTypeOK'
  <2>1. GoTo(j, "ajaxing", undo[j]) \/ GoTo(j, "cleanup", undo[j])
    BY <1>12, Zenon DEF StartAjax
  <2>2. UNCHANGED <<key, upsets>> /\ DaemonType'
    BY <1>0, <1>12, Zenon DEF StartAjax, DaemonType
  <2> QED
    BY <1>0, <1>t, <1>u, <2>1, <2>2, MoveType, Zenon
<1>13. ASSUME NEW j \in Pool, AjaxEnds(j) PROVE DaemonTypeOK'
  <2>1. GoTo(j, "drain", undo[j] \ {"ajax"}) \/ GoTo(j, "drain", undo[j])
    BY <1>13, Zenon DEF AjaxEnds
  <2>2. UNCHANGED <<key, daemon, upsets>>
    BY <1>13, Zenon DEF AjaxEnds
  <2>3. undo[j] \ {"ajax"} \in SUBSET Undoable
    BY <1>u, Zenon
  <2> QED
    BY <1>0, <1>t, <1>u, <2>1, <2>2, <2>3, CallTypes, MoveType, Zenon
<1>14. ASSUME NEW j \in Pool, Drain(j) PROVE DaemonTypeOK'
  <2>1. GoTo(j, "cleanup", undo[j]) /\ UNCHANGED <<key, daemon, upsets>>
    BY <1>14, Zenon DEF Drain
  <2> QED
    BY <1>0, <1>t, <1>u, <2>1, CallTypes, MoveType, Zenon
<1>15. ASSUME NEW j \in Pool, Cleanup(j) PROVE DaemonTypeOK'
  <2> DEFINE what == NextUndo(undo[j])
             remaining == undo[j] \ {what}
             step == IF remaining = {} THEN AfterCleanup(j) ELSE "cleanup"
  <2>1. /\ UndoCall(j, what) \/ UNCHANGED daemon
        /\ Upset \/ UNCHANGED upsets
        /\ GoTo(j, step, remaining) /\ UNCHANGED key
    BY <1>15, Zenon DEF Cleanup
  <2>2. remaining \in SUBSET Undoable /\ step \in Steps
    BY <1>t, <1>u, Zenon DEF AfterCleanup
  <2>3. DaemonType' /\ key' \in Keys /\ upsets' \in 0..MaxUpsets
    BY <1>0, <2>1, CallTypes, UpsetType, Zenon
  <2> HIDE DEF step, remaining
  <2> QED
    BY <2>1, <2>2, <2>3, MoveType, Zenon
<1>16. ASSUME NEW j \in Pool, Reset(j) PROVE DaemonTypeOK'
  <2>1. /\ NewSession(j) \/ UNCHANGED daemon
        /\ Upset \/ UNCHANGED upsets
        /\ GoTo(j, "release", {}) /\ UNCHANGED key
    BY <1>16, Zenon DEF Reset
  <2> QED
    BY <1>0, <1>t, <2>1, CallTypes, UpsetType, MoveType
<1>17. ASSUME NEW j \in Pool, Crash(j) PROVE DaemonTypeOK'
  <2>1. GoTo(j, "crashed", {}) /\ UNCHANGED <<key, daemon>> /\ Upset
    BY <1>17, Zenon DEF Crash
  <2> QED
    BY <1>0, <1>t, <2>1, CallTypes, UpsetType, MoveType
<1>18. CASE AjaxCrawlFinishes
  BY <1>18, Zenon DEF AjaxCrawlFinishes, DaemonTypeOK
<1>19. CASE ForgetKey
  <2>1. lost' \in [Pool -> BOOLEAN] /\ forgot' \in BOOLEAN
    BY <1>19, Zenon DEF ForgetKey, DaemonTypeOK
  <2>2. key' \in [holder : Pool \union {NoJob}, left : 0..TTL] /\ upsets' \in 0..MaxUpsets
    BY <1>19, KeyTypes, UpsetType, Zenon DEF ForgetKey, Keys
  <2> QED
    BY <1>19, <2>1, <2>2, Zenon DEF ForgetKey, DaemonTypeOK, daemon
<1>20. CASE Tick
  <2>1. lost' \in [Pool -> BOOLEAN] /\ forgot' \in BOOLEAN
    BY <1>20, Zenon DEF Tick, DaemonTypeOK
  <2>2. key' \in [holder : Pool \union {NoJob}, left : 0..TTL]
    BY <1>20 DEF Tick, Aged, Nobody, DaemonTypeOK
  <2>3. waited' \in [Pool -> 0..WaitTicks] /\ busy' \in [Pool -> Nat] /\ timer' \in [Pool -> Nat]
    BY <1>20 DEF Tick, DaemonTypeOK
  <2> QED
    BY <1>20, <2>1, <2>2, <2>3, Zenon DEF Tick, DaemonTypeOK, daemon
<1>21. CASE UNCHANGED leasing
  BY <1>21, Zenon DEF leasing, daemon, DaemonTypeOK
<1> QED
  BY ZenonT(60), <1>1, <1>2, <1>3, <1>4, <1>5, <1>6, <1>7, <1>8, <1>9, <1>10, <1>11, <1>12, <1>13, <1>14, <1>15,
     <1>16, <1>17, <1>18, <1>19, <1>20, <1>21 DEF DaemonNext, Work

\* Every reachable state is well formed: whatever the daemon, the broker or a worker
\* does, the lease names a job or nobody and never has more than its ttl left, and
\* what a job's finally block has to undo is one of the four calls it makes.
THEOREM DaemonTypeCorrect == DaemonSpec => []DaemonTypeOK
<1>1. DaemonInit => DaemonTypeOK
  BY DaemonTypeInit, Zenon
<1>2. DaemonTypeOK /\ [DaemonNext]_leasing => DaemonTypeOK'
  BY DaemonTypeStep, Zenon
<1> QED
  BY <1>1, <1>2, PTL DEF DaemonSpec

-----------------------------------------------------------------------------
(* One user of the daemon.                                                 *)

\* While the keepalive is on time the key is the job's, and its age is the timer's.
Fresh(j) ==
    stage[j] \in Touching /\ ~lost[j] =>
        key.holder = j /\ key.left + timer[j] = TTL /\ timer[j] <= Period + RenewTicks

\* A job that lost the lease is in its finally block, and what is left of the key
\* outlasts the calls that are left.
Winding(j) ==
    stage[j] \in Touching /\ lost[j] =>
        /\ stage[j] = "cleanup"
        /\ key.holder = j
        /\ busy[j] <= CallTicks
        /\ key.left + busy[j] > Cardinality(undo[j]) * CallTicks

ToUndo(j) ==
    /\ stage[j] \in InTry => "context" \in undo[j]
    /\ stage[j] = "cleanup" => undo[j] # {}

Good(j) == Fresh(j) /\ Winding(j) /\ ToUndo(j) /\ (stage[j] = "waiting" => ~lost[j])

LeaseInv == \A j \in Pool : Good(j)

\* A step of another job, which takes a free key or changes its own, keeps this one's.
LEMMA Others ==
  ASSUME NEW j \in Pool, NEW k \in Pool, k # j, Good(k),
         stage'[k] = stage[k], lost'[k] = lost[k], timer'[k] = timer[k], busy'[k] = busy[k], undo'[k] = undo[k],
         key' = key \/ Free \/ key.holder = j
  PROVE  Good(k)'
<1>1. k # NoJob
  BY LeaseAssumption, Zenon
<1>2. stage[k] \in Touching => key' = key
  BY <1>1, Zenon DEF Good, Fresh, Winding, Free
<1>3. Fresh(k)' /\ Winding(k)'
  BY <1>2, Zenon DEF Good, Fresh, Winding
<1> QED
  BY <1>3, Zenon DEF Good, ToUndo

LEMMA OthersGoTo ==
  ASSUME DaemonTypeOK, LeaseInv, NEW j \in Pool, NEW step, NEW remaining, GoTo(j, step, remaining),
         key' = key \/ Free \/ key.holder = j
  PROVE  \A k \in Pool \ {j} : Good(k)'
<1> TAKE k \in Pool \ {j}
<1>1. /\ stage'[k] = stage[k] /\ lost'[k] = lost[k] /\ timer'[k] = timer[k] /\ busy'[k] = busy[k]
      /\ undo'[k] = undo[k]
  BY Zenon DEF GoTo, DaemonTypeOK
<1> QED
  BY <1>1, Others, Zenon DEF LeaseInv

\* A job that goes on working keeps its key.
LEMMA JobMoves ==
  ASSUME DaemonTypeOK, LeaseInv, NEW j \in Pool, NEW step \in Touching, NEW remaining, GoTo(j, step, remaining),
         stage[j] \in Touching, ~lost[j], UNCHANGED key,
         step \in InTry => "context" \in remaining, step = "cleanup" => remaining # {}
  PROVE  LeaseInv'
<1>1. stage'[j] = step /\ timer'[j] = timer[j] /\ undo'[j] = remaining /\ lost'[j] = lost[j]
  BY Zenon DEF GoTo, DaemonTypeOK
<1>2. step # "waiting"
  BY Zenon DEF Touching, InTry, Crawling
<1>3. Good(j)'
  BY <1>1, <1>2, Zenon DEF LeaseInv, Good, Fresh, Winding, ToUndo
<1> QED
  BY <1>3, OthersGoTo, Zenon DEF LeaseInv

\* A job that stops working has nothing to keep.
LEMMA Leaves ==
  ASSUME DaemonTypeOK, LeaseInv, NEW j \in Pool, NEW step, step \notin Touching \union {"waiting"},
         NEW remaining, GoTo(j, step, remaining), key' = key \/ Free \/ key.holder = j
  PROVE  LeaseInv'
<1>1. stage'[j] = step
  BY Zenon DEF GoTo, DaemonTypeOK
<1>2. Good(j)'
  BY <1>1, Zenon DEF Good, Fresh, Winding, ToUndo, Touching
<1> QED
  BY <1>2, OthersGoTo, Zenon DEF LeaseInv

LEMMA LeaseInit == DaemonInit => LeaseInv
BY Zenon DEF DaemonInit, LeaseInv, Good, Fresh, Winding, ToUndo, Touching, InTry, Crawling

\* What is left of the finally block, in ticks.
LEMMA Products ==
  ASSUME NEW S \in SUBSET Undoable
  PROVE  /\ Cardinality(S) * CallTicks \in Nat
         /\ Cardinality(S) * CallTicks <= 4 * CallTicks
         /\ S # {} => Cardinality(S) * CallTicks >= CallTicks
         /\ \A x \in S : Cardinality(S \ {x}) * CallTicks = Cardinality(S) * CallTicks - CallTicks
<1> DEFINE n == Cardinality(S)
<1>1. n \in 0..4 /\ (S # {} => n >= 1) /\ \A x \in S : Cardinality(S \ {x}) = n - 1
  BY UndoCount, Zenon
<1> HIDE DEF n
<1>2. n = 0 \/ n = 1 \/ n = 2 \/ n = 3 \/ n = 4
  BY <1>1
<1>3. n * CallTicks \in Nat /\ n * CallTicks <= 4 * CallTicks /\ (n >= 1 => n * CallTicks >= CallTicks)
  BY <1>2, Numbers
<1>4. (n - 1) * CallTicks = n * CallTicks - CallTicks
  BY <1>2, Numbers
<1> QED
  BY <1>1, <1>3, <1>4, Zenon DEF n

LEMMA LeaseStep ==
  ASSUME Slack, DaemonTypeOK, LeaseInv, [DaemonNext]_leasing, ~forgot'
  PROVE  LeaseInv'
<1> USE Numbers
<1>k. key.left \in Nat /\ \A j \in Pool : busy[j] \in Nat /\ timer[j] \in Nat /\ undo[j] \in SUBSET Undoable
  BY DEF DaemonTypeOK
<1>s. TTL > Period + RenewTicks + 4 * CallTicks
  BY UndoableCount, Zenon DEF Slack
<1>t. {"rule", "ajax", "spider", "ajaxing", "drain"} \subseteq InTry
      /\ InTry \union {"session", "context", "cleanup", "reset"} \subseteq Touching
      /\ {"release", "done", "failed", "unavailable", "lost", "crashed"} \intersect (Touching \union {"waiting"}) = {}
      /\ {"session", "context", "cleanup", "reset"} \intersect InTry = {} /\ "waiting" \notin Touching
  BY Zenon DEF InTry, Touching, Crawling
<1>l. ASSUME NEW j \in Pool, stage[j] \in Touching, stage[j] # "cleanup" PROVE ~lost[j]
  BY <1>l, Zenon DEF LeaseInv, Good, Winding
<1>u. ASSUME NEW j \in Pool, stage[j] \in InTry PROVE "context" \in undo[j]
  BY <1>u, Zenon DEF LeaseInv, Good, ToUndo
<1>1. ASSUME NEW j \in Pool, Acquire(j) PROVE LeaseInv'
  <2>1. stage'[j] = "session" /\ timer'[j] = 0 /\ key' = [holder |-> j, left |-> TTL] /\ ~lost'[j] /\ Free
    BY <1>1, Zenon DEF Acquire, DaemonTypeOK, HeldBy, LeaseInv, Good
  <2>2. Good(j)'
    BY <1>t, <2>1 DEF Good, Fresh, Winding, ToUndo
  <2>3. ASSUME NEW k \in Pool \ {j} PROVE Good(k)'
    <3>1. /\ stage'[k] = stage[k] /\ lost'[k] = lost[k] /\ timer'[k] = timer[k] /\ busy'[k] = busy[k]
          /\ undo'[k] = undo[k]
      BY <1>1, Zenon DEF Acquire, DaemonTypeOK
    <3> QED
      BY <2>1, <3>1, Others, Zenon DEF LeaseInv
  <2> QED
    BY <2>2, <2>3, Zenon DEF LeaseInv
<1>2. ASSUME NEW j \in Pool, GiveUp(j) PROVE LeaseInv'
  <2>1. GoTo(j, "unavailable", {}) /\ key' = key
    BY <1>2, Zenon DEF GiveUp
  <2> QED
    BY <1>t, <2>1, Leaves, Zenon
<1>3. ASSUME NEW j \in Pool, AcquireFails(j) PROVE LeaseInv'
  <2>1. GoTo(j, "failed", {}) /\ (key' = key \/ Free)
    BY <1>3, Zenon DEF AcquireFails
  <2> QED
    BY <1>t, <2>1, Leaves, Zenon
<1>4. ASSUME NEW j \in Pool, Renew(j) PROVE LeaseInv'
  <2>1. /\ stage[j] \in Touching /\ ~lost[j] /\ key.holder = j
        /\ timer'[j] = 0 /\ key' = [holder |-> j, left |-> TTL]
        /\ UNCHANGED <<stage, lost, undo, busy>>
    BY <1>4, Zenon DEF Renew, RenewalDue, DaemonTypeOK, HeldBy
  <2>2. Good(j)'
    BY <1>t, <2>1 DEF LeaseInv, Good, Fresh, Winding, ToUndo
  <2>3. ASSUME NEW k \in Pool \ {j} PROVE Good(k)'
    <3>1. timer'[k] = timer[k]
      BY <1>4, Zenon DEF Renew, DaemonTypeOK
    <3> QED
      BY <2>1, <3>1, Others, Zenon DEF LeaseInv
  <2> QED
    BY <2>2, <2>3, Zenon DEF LeaseInv
<1>5. ASSUME NEW j \in Pool, Lose(j) PROVE LeaseInv'
  <2>1. /\ stage[j] \in Touching /\ ~lost[j] /\ stage'[j] = AfterCancel(j) /\ lost'[j] /\ busy'[j] = 0
        /\ key' = key \/ key' = [holder |-> j, left |-> TTL]
        /\ AfterCancel(j) = "cleanup" => undo'[j] = undo[j]
    BY <1>5, Zenon DEF Lose, RenewalDue, DaemonTypeOK, HeldBy
  <2>2. key.holder = j /\ key.left + timer[j] = TTL /\ timer[j] <= Period + RenewTicks
    BY <2>1, Zenon DEF LeaseInv, Good, Fresh
  <2>3. Good(j)'
    <3>1. CASE stage[j] \in InTry
      <4>1. stage'[j] = "cleanup" /\ undo'[j] = undo[j] /\ undo[j] # {} /\ undo'[j] \in SUBSET Undoable
        BY <1>k, <1>u, <2>1, <3>1, Zenon DEF AfterCancel
      <4>2. key'.holder = j /\ key'.left > 4 * CallTicks
        BY <1>k, <1>s, <2>1, <2>2
      <4>3. key'.left + busy'[j] > Cardinality(undo'[j]) * CallTicks /\ busy'[j] <= CallTicks
        <5>1. Cardinality(undo[j]) * CallTicks \in Nat /\ Cardinality(undo[j]) * CallTicks <= 4 * CallTicks
          BY <1>k, Products, Zenon
        <5>2. key'.left \in Nat
          BY <1>k, <2>1
        <5> QED
          BY <2>1, <4>1, <4>2, <5>1, <5>2
      <4> QED
        BY <1>t, <2>1, <4>1, <4>2, <4>3, Zenon DEF Good, Fresh, Winding, ToUndo
    <3>2. CASE stage[j] \notin InTry
      <4>1. stage'[j] = "lost"
        BY <2>1, <3>2, Zenon DEF AfterCancel
      <4> QED
        BY <1>t, <4>1, Zenon DEF Good, Fresh, Winding, ToUndo
    <3> QED
      BY <3>1, <3>2, Zenon
  <2>4. ASSUME NEW k \in Pool \ {j} PROVE Good(k)'
    <3>1. /\ stage'[k] = stage[k] /\ lost'[k] = lost[k] /\ timer'[k] = timer[k] /\ busy'[k] = busy[k]
          /\ undo'[k] = undo[k]
      BY <1>5, Zenon DEF Lose, DaemonTypeOK
    <3> QED
      BY <2>2, <3>1, Others, Zenon DEF LeaseInv
  <2> QED
    BY <2>3, <2>4, Zenon DEF LeaseInv
<1>6. ASSUME NEW j \in Pool, Release(j) PROVE LeaseInv'
  <2>1. (GoTo(j, "done", {}) \/ GoTo(j, "failed", {})) /\ (key' = key \/ key.holder = j)
    BY <1>6, Zenon DEF Release, DropKey
  <2> QED
    BY <1>t, <2>1, Leaves, Zenon
<1>7. ASSUME NEW j \in Pool, OpenSession(j) PROVE LeaseInv'
  <2>1. stage[j] = "session" /\ (GoTo(j, "context", {}) \/ GoTo(j, "release", {})) /\ UNCHANGED key
    BY <1>7, Zenon DEF OpenSession
  <2> QED
    BY <1>l, <1>t, <2>1, JobMoves, Leaves, Zenon
<1>8. ASSUME NEW j \in Pool, CreateContext(j) PROVE LeaseInv'
  <2>1. /\ stage[j] = "context" /\ UNCHANGED key
        /\ \/ GoTo(j, "rule", {"context", "rule"}) \/ GoTo(j, "spider", {"context", "spider"})
           \/ GoTo(j, "reset", {})
    BY <1>8, Zenon DEF CreateContext
  <2> QED
    BY <1>l, <1>t, <2>1, JobMoves, Zenon
<1>9. ASSUME NEW j \in Pool, AddAuthHeader(j) PROVE LeaseInv'
  <2>1. /\ stage[j] = "rule" /\ UNCHANGED key
        /\ GoTo(j, "spider", undo[j] \union {"spider"}) \/ GoTo(j, "cleanup", undo[j])
    BY <1>9, Zenon DEF AddAuthHeader
  <2> QED
    BY <1>l, <1>t, <1>u, <2>1, JobMoves, Zenon
<1>10. ASSUME NEW j \in Pool, CrawlFails(j) PROVE LeaseInv'
  <2>1. stage[j] \in InTry /\ UNCHANGED key /\ GoTo(j, "cleanup", undo[j])
    BY <1>10, Zenon DEF CrawlFails, InTry
  <2> QED
    BY <1>l, <1>t, <1>u, <2>1, JobMoves, Zenon
<1>11. ASSUME NEW j \in Pool, SpiderEnds(j) PROVE LeaseInv'
  <2>1. PICK remaining \in {undo[j] \ {"spider"}, undo[j]} :
          GoTo(j, "ajax", remaining \union {"ajax"}) \/ GoTo(j, "drain", remaining)
    BY <1>11, Zenon DEF SpiderEnds
  <2>2. stage[j] = "spider" /\ UNCHANGED key
    BY <1>11, Zenon DEF SpiderEnds
  <2>3. "context" \in remaining
    BY <1>t, <1>u, <2>2, Zenon
  <2> QED
    BY <1>l, <1>t, <2>1, <2>2, <2>3, JobMoves, Zenon
<1>12. ASSUME NEW j \in Pool, StartAjax(j) PROVE LeaseInv'
  <2>1. stage[j] = "ajax" /\ UNCHANGED key /\ (GoTo(j, "ajaxing", undo[j]) \/ GoTo(j, "cleanup", undo[j]))
    BY <1>12, Zenon DEF StartAjax
  <2> QED
    BY <1>l, <1>t, <1>u, <2>1, JobMoves, Zenon
<1>13. ASSUME NEW j \in Pool, AjaxEnds(j) PROVE LeaseInv'
  <2>1. /\ stage[j] = "ajaxing" /\ UNCHANGED key
        /\ GoTo(j, "drain", undo[j] \ {"ajax"}) \/ GoTo(j, "drain", undo[j])
    BY <1>13, Zenon DEF AjaxEnds
  <2>2. "context" \in undo[j] \ {"ajax"} /\ "context" \in undo[j]
    BY <1>t, <1>u, <2>1, Zenon
  <2> QED
    BY <1>l, <1>t, <2>1, <2>2, JobMoves, Zenon
<1>14. ASSUME NEW j \in Pool, Drain(j) PROVE LeaseInv'
  <2>1. stage[j] = "drain" /\ UNCHANGED key /\ GoTo(j, "cleanup", undo[j])
    BY <1>14, Zenon DEF Drain
  <2> QED
    BY <1>l, <1>t, <1>u, <2>1, JobMoves, Zenon
<1>15. ASSUME NEW j \in Pool, Cleanup(j) PROVE LeaseInv'
  <2> DEFINE what == NextUndo(undo[j])
             remaining == undo[j] \ {what}
             step == IF remaining = {} THEN AfterCleanup(j) ELSE "cleanup"
  <2>1. GoTo(j, step, remaining) /\ UNCHANGED key /\ stage[j] = "cleanup" /\ undo[j] # {}
    BY <1>15, Zenon DEF Cleanup, LeaseInv, Good, ToUndo
  <2>2. what \in undo[j] /\ remaining \in SUBSET Undoable
    BY <1>k, <2>1, Zenon DEF NextUndo, Undoable
  <2>3. \/ step = "reset" /\ ~lost[j]
        \/ step = "lost"
        \/ step = "cleanup" /\ remaining # {}
    BY Zenon DEF AfterCleanup
  <2>4. Cardinality(remaining) * CallTicks = Cardinality(undo[j]) * CallTicks - CallTicks
        /\ Cardinality(undo[j]) * CallTicks \in Nat
    BY <1>k, <2>2, Products, Zenon
  <2> HIDE DEF step, remaining
  <2>5. CASE ~lost[j] /\ step # "lost"
    BY <1>t, <2>1, <2>3, <2>5, JobMoves, Zenon
  <2>6. CASE step = "lost"
    BY <1>t, <2>1, <2>6, Leaves, Zenon
  <2>7. CASE lost[j] /\ step = "cleanup"
    <3>1. key.holder = j /\ busy[j] <= CallTicks /\ key.left + busy[j] > Cardinality(undo[j]) * CallTicks
      BY <1>t, <2>1, <2>7, Zenon DEF LeaseInv, Good, Winding
    <3>2. key.left + 0 > Cardinality(remaining) * CallTicks
      BY <1>k, <2>4, <3>1
    <3>3. stage'[j] = "cleanup" /\ busy'[j] = 0 /\ undo'[j] = remaining /\ lost'[j] /\ remaining # {}
      BY <2>1, <2>3, <2>7, Zenon DEF GoTo, DaemonTypeOK
    <3>4. Good(j)'
      BY <1>t, <2>1, <3>1, <3>2, <3>3 DEF Good, Fresh, Winding, ToUndo
    <3> QED
      BY <2>1, <3>4, OthersGoTo, Zenon DEF LeaseInv
  <2> QED
    BY <2>3, <2>5, <2>6, <2>7, Zenon
<1>16. ASSUME NEW j \in Pool, Reset(j) PROVE LeaseInv'
  <2>1. GoTo(j, "release", {}) /\ UNCHANGED key
    BY <1>16, Zenon DEF Reset
  <2> QED
    BY <1>t, <2>1, Leaves, Zenon
<1>17. ASSUME NEW j \in Pool, Crash(j) PROVE LeaseInv'
  <2>1. GoTo(j, "crashed", {}) /\ UNCHANGED key
    BY <1>17, Zenon DEF Crash
  <2> QED
    BY <1>t, <2>1, Leaves, Zenon
<1>18. CASE AjaxCrawlFinishes
  BY <1>18, Zenon DEF AjaxCrawlFinishes, LeaseInv, Good, Fresh, Winding, ToUndo
<1>19. CASE ForgetKey
  BY <1>19, Zenon DEF ForgetKey
<1>20. CASE Tick
  <2> SUFFICES ASSUME NEW j \in Pool PROVE Good(j)'
    BY Zenon DEF LeaseInv
  <2>1. UNCHANGED <<stage, lost, undo>> /\ key' = Aged /\ OnTime(j) /\ Good(j)
    BY <1>20, Zenon DEF Tick, LeaseInv
  <2>2. /\ stage[j] \in Touching => busy'[j] = busy[j] + 1
        /\ stage[j] \in Touching /\ ~lost[j] => timer'[j] = timer[j] + 1
    BY <1>20, Zenon DEF Tick
  <2>3. key.left > 1 => key'.holder = key.holder /\ key'.left = key.left - 1
    BY SMTT(60), <1>k, <2>1 DEF Aged, DaemonTypeOK
  <2>4. CASE stage[j] \in Touching /\ ~lost[j]
    <3>1. key.holder = j /\ key.left + timer[j] = TTL /\ timer[j] < Period + RenewTicks
      BY <2>1, <2>4, Zenon DEF Good, Fresh, OnTime
    <3>2. key'.holder = j /\ key'.left + timer'[j] = TTL /\ timer'[j] <= Period + RenewTicks
      BY SMTT(60), <1>k, <1>s, <2>2, <2>3, <2>4, <3>1
    <3> QED
      BY <2>1, <2>4, <3>2, Zenon DEF Good, Fresh, Winding, ToUndo
  <2>5. CASE stage[j] \in Touching /\ lost[j]
    <3>1. /\ stage[j] = "cleanup" /\ key.holder = j /\ undo[j] # {}
          /\ key.left + busy[j] > Cardinality(undo[j]) * CallTicks
      BY <2>1, <2>5, Zenon DEF Good, Winding, ToUndo
    <3>2. busy[j] < CallTicks
      BY <2>1, <2>5, <3>1, Zenon DEF OnTime, Limit, Crawling
    <3>3. Cardinality(undo[j]) * CallTicks \in Nat /\ Cardinality(undo[j]) * CallTicks >= CallTicks
      BY <1>k, <3>1, Products, Zenon
    <3>4. key.left > 1
      BY SMTT(60), <1>k, <3>1, <3>2, <3>3
    <3>5. key'.holder = j /\ key'.left + busy'[j] = key.left + busy[j] /\ busy'[j] <= CallTicks
      BY SMTT(60), <1>k, <2>2, <2>3, <2>5, <3>1, <3>2, <3>4
    <3> QED
      BY <2>1, <2>5, <3>1, <3>5, Zenon DEF Good, Fresh, Winding, ToUndo
  <2>6. CASE stage[j] \notin Touching
    BY <1>t, <2>1, <2>6, Zenon DEF Good, Fresh, Winding, ToUndo
  <2> QED
    BY <2>4, <2>5, <2>6, Zenon
<1>21. CASE UNCHANGED leasing
  BY <1>21, Zenon DEF leasing, LeaseInv, Good, Fresh, Winding, ToUndo
<1> QED
  BY SMTT(60), <1>1, <1>2, <1>3, <1>4, <1>5, <1>6, <1>7, <1>8, <1>9, <1>10, <1>11, <1>12, <1>13, <1>14, <1>15,
     <1>16, <1>17, <1>18, <1>19, <1>20, <1>21 DEF DaemonNext, Work

\* What the broker forgot stays on record.
LEMMA ForgotStays == DaemonTypeOK /\ [DaemonNext]_leasing /\ ~forgot' => ~forgot
BY ZenonT(60) DEF DaemonNext, Work, leasing, Acquire, GiveUp, AcquireFails, Renew, Lose, Release, OpenSession, CreateContext,
       AddAuthHeader, CrawlFails, SpiderEnds, StartAjax, AjaxEnds, Drain, Cleanup, Reset, Crash,
       AjaxCrawlFinishes, ForgetKey, Tick, GoTo

\* Two jobs never use the daemon at the same time, a job that has just lost its lease
\* and is still in its finally block included, whatever crashes and failed calls there
\* are: for any number of jobs, and any ttl longer than a renewal period, one renewal
\* and the four calls of a finally block.
THEOREM DaemonHasOneUser == ASSUME Slack PROVE DaemonSpec => []OneUser
<1> DEFINE IInv == DaemonTypeOK /\ (~forgot => LeaseInv)
<1>1. DaemonInit => IInv
  BY DaemonTypeInit, LeaseInit, Zenon
<1>2. IInv /\ [DaemonNext]_leasing => IInv'
  BY DaemonTypeStep, LeaseStep, ForgotStays, Zenon
<1>3. IInv => OneUser
  BY Zenon DEF LeaseInv, Good, Fresh, Winding, OneUser
<1> HIDE DEF IInv
<1> QED
  BY <1>1, <1>2, <1>3, PTL DEF DaemonSpec

-----------------------------------------------------------------------------
(* A session of one's own.                                                  *)

InSession == {"context"} \union InTry

SessionInv == \A j \in Pool : stage[j] \in InSession => session = j /\ contexts \subseteq {j}

LEMMA SessionStep ==
  ASSUME DaemonTypeOK, SessionInv, [DaemonNext]_leasing,
         \A i, j \in Pool : stage[i] \in Touching /\ stage[j] \in Touching => i = j
  PROVE  SessionInv'
<1>t. InTry = {"rule", "ajax", "spider", "ajaxing", "drain"} /\ InSession \subseteq Touching
      /\ {"session", "reset"} \subseteq Touching
  BY Zenon DEF InSession, InTry, Touching, Crawling
<1>q. ASSUME session' = session, contexts' \subseteq contexts,
             \A k \in Pool : stage'[k] \in InSession => stage[k] \in InSession
      PROVE  SessionInv'
  BY <1>q, Zenon DEF SessionInv
<1>g. ASSUME NEW j \in Pool, NEW step, NEW remaining, GoTo(j, step, remaining)
      PROVE  stage'[j] = step /\ \A k \in Pool \ {j} : stage'[k] = stage[k]
  BY <1>g, Zenon DEF GoTo, DaemonTypeOK
\* the session is replaced: nobody else is in it
<1>n. ASSUME NEW j \in Pool, stage[j] \in Touching, NewSession(j),
             \A k \in Pool \ {j} : stage'[k] = stage[k]
      PROVE  SessionInv'
  BY <1>n, <1>t, Zenon DEF SessionInv, NewSession
<1>1. ASSUME NEW j \in Pool, OpenSession(j) PROVE SessionInv'
  <2>1. /\ stage[j] = "session"
        /\ \/ NewSession(j) /\ (GoTo(j, "context", {}) \/ GoTo(j, "release", {}))
           \/ UNCHANGED daemon /\ GoTo(j, "release", {})
    BY <1>1, Zenon DEF OpenSession
  <2>2. "release" \notin InSession
    BY <1>t, Zenon DEF InSession
  <2>3. CASE NewSession(j)
    BY <1>g, <1>n, <1>t, <2>1, <2>3, Zenon
  <2>4. CASE UNCHANGED daemon /\ GoTo(j, "release", {})
    BY <1>g, <1>q, <2>2, <2>4, Zenon DEF daemon
  <2> QED
    BY <2>1, <2>3, <2>4, Zenon
<1>2. ASSUME NEW j \in Pool, CreateContext(j) PROVE SessionInv'
  <2>1. /\ stage[j] = "context" /\ session' = session /\ contexts' \subseteq contexts \union {j}
        /\ \A k \in Pool \ {j} : stage'[k] = stage[k]
    BY <1>2, <1>g, Zenon DEF CreateContext, AddContext, daemon
  <2> QED
    BY <1>t, <2>1, Zenon DEF SessionInv, InSession
<1>3. ASSUME NEW j \in Pool, Reset(j) PROVE SessionInv'
  <2>1. stage[j] = "reset" /\ (NewSession(j) \/ UNCHANGED daemon) /\ GoTo(j, "release", {})
    BY <1>3, Zenon DEF Reset
  <2>2. "release" \notin InSession
    BY <1>t, Zenon DEF InSession
  <2>3. CASE NewSession(j)
    BY SMTT(60), <1>g, <1>n, <1>t, <2>1, <2>3
  <2>4. CASE UNCHANGED daemon
    BY <1>g, <1>q, <2>1, <2>2, <2>4, Zenon DEF daemon
  <2> QED
    BY <2>1, <2>3, <2>4, Zenon
<1>4. ASSUME NEW j \in Pool, Cleanup(j) PROVE SessionInv'
  <2> DEFINE what == NextUndo(undo[j])
             remaining == undo[j] \ {what}
             step == IF remaining = {} THEN AfterCleanup(j) ELSE "cleanup"
  <2>1. GoTo(j, step, remaining) /\ session' = session /\ contexts' \subseteq contexts
    BY <1>4, Zenon DEF Cleanup, UndoCall, daemon
  <2>2. step \notin InSession
    BY <1>t, Zenon DEF AfterCleanup, InSession
  <2> HIDE DEF step, remaining
  <2> QED
    BY <1>g, <1>q, <2>1, <2>2, Zenon
<1>5. ASSUME NEW j \in Pool, Acquire(j) \/ Renew(j) \/ Lose(j) PROVE SessionInv'
  <2>1. session' = session /\ contexts' = contexts
    BY <1>5, Zenon DEF Acquire, Renew, Lose, daemon
  <2>2. \A k \in Pool : stage'[k] \in InSession => stage[k] \in InSession
    BY SMTT(60), <1>5, <1>t DEF Acquire, Renew, Lose, AfterCancel, DaemonTypeOK, InSession
  <2> QED
    BY <1>q, <2>1, <2>2, Zenon
<1>6. ASSUME NEW j \in Pool, GiveUp(j) \/ AcquireFails(j) \/ Release(j) \/ Crash(j) \/ CrawlFails(j) \/ Drain(j)
      PROVE  SessionInv'
  <2>1. session' = session /\ contexts' = contexts
    BY <1>6, Zenon DEF GiveUp, AcquireFails, Release, Crash, CrawlFails, Drain, daemon
  <2>2. PICK step \in {"unavailable", "failed", "done", "crashed", "cleanup"} : \E remaining : GoTo(j, step, remaining)
    BY <1>6, Zenon DEF GiveUp, AcquireFails, Release, Crash, CrawlFails, Drain
  <2>3. step \notin InSession
    BY <1>t, Zenon DEF InSession
  <2> QED
    BY <1>g, <1>q, <2>1, <2>2, <2>3, Zenon
<1>7. ASSUME NEW j \in Pool, AddAuthHeader(j) \/ SpiderEnds(j) \/ StartAjax(j) \/ AjaxEnds(j) PROVE SessionInv'
  <2>1. session' = session /\ contexts' = contexts /\ stage[j] \in InSession
    BY <1>7, <1>t, Zenon DEF AddAuthHeader, AddRule, SpiderEnds, StartAjax, AjaxEnds, daemon, InSession
  <2>2. \E step, remaining : GoTo(j, step, remaining)
    BY Zenon, <1>7 DEF AddAuthHeader, SpiderEnds, StartAjax, AjaxEnds
  <2> QED
    BY <1>g, <1>q, <2>1, <2>2, Zenon
<1>8. CASE AjaxCrawlFinishes \/ ForgetKey \/ Tick \/ UNCHANGED leasing
  BY <1>8, <1>q, Zenon DEF AjaxCrawlFinishes, ForgetKey, Tick, leasing, daemon
<1> QED
  BY <1>1, <1>2, <1>3, <1>4, <1>5, <1>6, <1>7, <1>8, Zenon DEF DaemonNext, Work

\* A job works in a session of its own: from the context it creates to its finally
\* block nobody replaces the session or adds a context to it, and what a crashed or
\* cancelled job left in the daemon is gone, whatever the interleaving.
THEOREM JobHasOwnSession == ASSUME Slack PROVE DaemonSpec => []OwnSession
<1> DEFINE IInv == DaemonTypeOK /\ (~forgot => LeaseInv /\ SessionInv)
<1>1. DaemonInit => IInv
  BY DaemonTypeInit, LeaseInit, Zenon DEF DaemonInit, SessionInv, InSession, InTry, Crawling
<1>2. IInv /\ [DaemonNext]_leasing => IInv'
  <2> SUFFICES ASSUME IInv, [DaemonNext]_leasing, ~forgot' PROVE LeaseInv' /\ SessionInv'
    BY DaemonTypeStep, Zenon
  <2>1. ~forgot /\ LeaseInv /\ SessionInv
    BY ForgotStays, Zenon
  <2>2. \A i, j \in Pool : stage[i] \in Touching /\ stage[j] \in Touching => i = j
    BY <2>1, Zenon DEF LeaseInv, Good, Fresh, Winding
  <2> QED
    BY <2>1, <2>2, LeaseStep, SessionStep, Zenon
<1>3. IInv => OwnSession
  BY Zenon DEF SessionInv, OwnSession, InSession
<1> HIDE DEF IInv
<1> QED
  BY <1>1, <1>2, <1>3, PTL DEF DaemonSpec

\* The daemon serves one job at a time, in that job's own session.
THEOREM DaemonServesOneJob == ASSUME Slack PROVE DaemonSpec => []ExclusiveUse
BY DaemonHasOneUser, JobHasOwnSession, PTL DEF ExclusiveUse

=============================================================================
