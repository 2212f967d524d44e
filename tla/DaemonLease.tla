----------------------------- MODULE DaemonLease -----------------------------
(***************************************************************************)
(* Exclusive use of the web application scanner.  A ZAP daemon has one      *)
(* global session, one AJAX spider and one list of Replacer rules, so every *)
(* job of a pool holds a broker lease (coordination.py) on it for its whole *)
(* run and works in a session of its own (adapters/zap/__init__.py).  The   *)
(* lease expires TTL after its last renewal; a keepalive task renews it,    *)
(* and cancels the job when a renewal fails.                                *)
(*                                                                         *)
(* Time is counted in ticks.  Tick is held back while a daemon call, a      *)
(* crawl or a renewal is at its own limit: those limits are the timeouts of *)
(* the code (60 s per daemon call, max_duration_minutes per crawl, ttl / 3  *)
(* between renewals, 10 s on the broker's socket).                          *)
(***************************************************************************)
EXTENDS Naturals, FiniteSets

CONSTANTS Pool,        \* jobs of a pool of workers, one target each
          NoJob,       \* nobody
          TTL,         \* life of the lease after a renewal
          Period,      \* pause between two renewals (ttl / 3)
          RenewTicks,  \* longest a renewal may take
          CallTicks,   \* longest one daemon call may take
          CrawlTicks,  \* longest a crawl is polled
          WaitTicks,   \* longest a job waits for the lease
          MaxUpsets    \* crashes, failed calls and broker restarts in one behaviour

ASSUME LeaseAssumption ==
    /\ {TTL, Period, RenewTicks, CallTicks, CrawlTicks} \subseteq Nat \ {0}
    /\ {WaitTicks, MaxUpsets} \subseteq Nat
    /\ NoJob \notin Pool

VARIABLES
    key,       \* holder of the broker key and the ticks it has left
    stage,     \* where each job is
    waited,    \* ticks a job has waited for the lease
    busy,      \* ticks a job has spent in its current call or crawl
    timer,     \* ticks since the job's last renewal reached the broker
    lost,      \* the event the keepalive sets
    undo,      \* what the job's finally block has to undo
    session,   \* the job that made the daemon's current session
    contexts,  \* jobs with a context in that session
    rules,     \* jobs with a Replacer rule
    ajax,      \* the job whose AJAX crawl is running
    upsets,
    forgot     \* history: the broker lost a key it was holding

daemon == <<session, contexts, rules, ajax>>
leasing == <<key, stage, waited, busy, timer, lost, undo, daemon, upsets, forgot>>

Undoable == {"spider", "ajax", "rule", "context"}
Crawling == {"spider", "ajaxing", "drain"}
InTry == {"rule", "ajax"} \union Crawling
Touching == {"session", "context", "cleanup", "reset"} \union InTry
Ended == {"done", "failed", "unavailable", "lost", "crashed"}

DaemonTypeOK ==
    /\ key \in [holder : Pool \union {NoJob}, left : 0..TTL]
    /\ stage \in [Pool -> {"waiting", "release"} \union Touching \union Ended]
    /\ waited \in [Pool -> 0..WaitTicks]
    /\ busy \in [Pool -> Nat]
    /\ timer \in [Pool -> Nat]
    /\ lost \in [Pool -> BOOLEAN]
    /\ undo \in [Pool -> SUBSET Undoable]
    /\ session \in Pool \union {NoJob}
    /\ contexts \subseteq Pool
    /\ rules \subseteq Pool
    /\ ajax \in Pool \union {NoJob}
    /\ upsets \in 0..MaxUpsets
    /\ forgot \in BOOLEAN

DaemonInit ==
    /\ key = [holder |-> NoJob, left |-> 0]
    /\ stage = [j \in Pool |-> "waiting"]
    /\ waited = [j \in Pool |-> 0]
    /\ busy = [j \in Pool |-> 0]
    /\ timer = [j \in Pool |-> 0]
    /\ lost = [j \in Pool |-> FALSE]
    /\ undo = [j \in Pool |-> {}]
    /\ session = NoJob
    /\ contexts = {}
    /\ rules = {}
    /\ ajax = NoJob
    /\ upsets = 0
    /\ forgot = FALSE

Free == key.holder = NoJob
HeldBy(j) == [holder |-> j, left |-> TTL]
Nobody == [holder |-> NoJob, left |-> 0]

Upset == upsets < MaxUpsets /\ upsets' = upsets + 1

\* The job moves on to a step, with what its finally block has to undo from there.
GoTo(j, step, todo) ==
    /\ stage' = [stage EXCEPT ![j] = step]
    /\ undo' = [undo EXCEPT ![j] = todo]
    /\ busy' = [busy EXCEPT ![j] = 0]
    /\ waited' = [waited EXCEPT ![j] = 0]
    /\ timer' = [timer EXCEPT ![j] = IF step \in Touching THEN @ ELSE 0]
    /\ UNCHANGED <<lost, forgot>>

-----------------------------------------------------------------------------
(* The lease.                                                               *)

\* SET NX PX succeeds; the renewal task starts.
Acquire(j) ==
    /\ stage[j] = "waiting"
    /\ Free
    /\ key' = HeldBy(j)
    /\ timer' = [timer EXCEPT ![j] = 0]
    /\ stage' = [stage EXCEPT ![j] = "session"]
    /\ busy' = [busy EXCEPT ![j] = 0]
    /\ waited' = [waited EXCEPT ![j] = 0]
    /\ UNCHANGED <<lost, undo, daemon, upsets, forgot>>

\* An attempt fails once the deadline has passed: LeaseUnavailable.
GiveUp(j) ==
    /\ stage[j] = "waiting"
    /\ ~Free
    /\ waited[j] = WaitTicks
    /\ GoTo(j, "unavailable", {})
    /\ UNCHANGED <<key, daemon, upsets>>

\* The broker call raises; the key may have been set all the same.
AcquireFails(j) ==
    /\ stage[j] = "waiting"
    /\ Upset
    /\ key' \in {key} \union (IF Free THEN {HeldBy(j)} ELSE {})
    /\ GoTo(j, "failed", {})
    /\ UNCHANGED daemon

RenewalDue(j) == stage[j] \in Touching /\ ~lost[j] /\ timer[j] >= Period

\* pexpire when the key still holds this job's token
Renew(j) ==
    /\ RenewalDue(j)
    /\ key.holder = j
    /\ key' = HeldBy(j)
    /\ timer' = [timer EXCEPT ![j] = 0]
    /\ UNCHANGED <<stage, waited, busy, lost, undo, daemon, upsets, forgot>>

\* Cancelling the job: inside the try block its finally block still runs; in a
\* finally block, or outside, the cancellation leaves at once.
AfterCancel(j) == IF stage[j] \in InTry THEN "cleanup" ELSE "lost"

\* The renewal finds another token, or the broker does not answer (it may have
\* renewed the key): the event is set and the job cancelled.
Lose(j) ==
    /\ RenewalDue(j)
    /\ \/ key.holder # j /\ UNCHANGED <<key, upsets>>
       \/ Upset /\ key' \in {key} \union (IF key.holder = j THEN {HeldBy(j)} ELSE {})
    /\ lost' = [lost EXCEPT ![j] = TRUE]
    /\ stage' = [stage EXCEPT ![j] = AfterCancel(j)]
    /\ busy' = [busy EXCEPT ![j] = 0]
    /\ timer' = [timer EXCEPT ![j] = 0]
    /\ undo' = [undo EXCEPT ![j] = IF AfterCancel(j) = "cleanup" THEN @ ELSE {}]
    /\ UNCHANGED <<waited, daemon, forgot>>

\* The key is deleted only while it holds this job's token.
DropKey(j) == IF key.holder = j THEN Nobody ELSE key

\* Release, or a broker error that leaves the key to expire.
Release(j) ==
    /\ stage[j] = "release"
    /\ \/ /\ key' = DropKey(j)
          /\ GoTo(j, "done", {})
          /\ UNCHANGED upsets
       \/ /\ Upset
          /\ key' \in {key, DropKey(j)}
          /\ GoTo(j, "failed", {})
    /\ UNCHANGED daemon

-----------------------------------------------------------------------------
(* The job's calls on the daemon.                                           *)

\* core/newSession drops history, sites, alerts and contexts; rules stay.
NewSession(j) ==
    /\ session' = j
    /\ contexts' = {}
    /\ UNCHANGED <<rules, ajax>>

\* The fresh session a job starts in; an error leaves the lease block.
OpenSession(j) ==
    /\ stage[j] = "session"
    /\ \/ NewSession(j) /\ GoTo(j, "context", {}) /\ UNCHANGED upsets
       \/ Upset /\ (UNCHANGED daemon \/ NewSession(j)) /\ GoTo(j, "release", {})
    /\ UNCHANGED key

AddContext(j) == contexts' = contexts \union {j} /\ UNCHANGED <<session, rules, ajax>>
AddRule(j) == rules' = rules \union {j} /\ UNCHANGED <<session, contexts, ajax>>

\* new_context; then the credential's rule, when the tenant has one
CreateContext(j) ==
    /\ stage[j] = "context"
    /\ \/ /\ AddContext(j)
          /\ \/ GoTo(j, "rule", {"context", "rule"})
             \/ GoTo(j, "spider", {"context", "spider"})
          /\ UNCHANGED upsets
       \/ Upset /\ (UNCHANGED daemon \/ AddContext(j)) /\ GoTo(j, "reset", {})
    /\ UNCHANGED key

\* add_auth_header; a crawl that would run logged out is not started
AddAuthHeader(j) ==
    /\ stage[j] = "rule"
    /\ \/ AddRule(j) /\ GoTo(j, "spider", undo[j] \union {"spider"}) /\ UNCHANGED upsets
       \/ Upset /\ (UNCHANGED daemon \/ AddRule(j)) /\ GoTo(j, "cleanup", undo[j])
    /\ UNCHANGED key

\* A daemon call of the crawl fails: on to the finally block.
CrawlFails(j) ==
    /\ stage[j] \in {"ajax"} \union Crawling
    /\ Upset
    /\ GoTo(j, "cleanup", undo[j])
    /\ UNCHANGED <<key, daemon>>

\* The traditional spider finishes, or is still running at its deadline.
SpiderEnds(j) ==
    /\ stage[j] = "spider"
    /\ \E todo \in {undo[j] \ {"spider"}} \union
                   (IF busy[j] = CrawlTicks THEN {undo[j]} ELSE {}) :
         \/ GoTo(j, "ajax", todo \union {"ajax"})
         \/ GoTo(j, "drain", todo)
    /\ UNCHANGED <<key, daemon, upsets>>

\* ajaxSpider/scan; the daemon runs one AJAX crawl and refuses a second.
StartAjax(j) ==
    /\ stage[j] = "ajax"
    /\ \/ ajax = NoJob /\ ajax' = j /\ GoTo(j, "ajaxing", undo[j])
       \/ ajax # NoJob /\ ajax' = ajax /\ GoTo(j, "cleanup", undo[j])
    /\ UNCHANGED <<key, session, contexts, rules, upsets>>

\* status: running is all a poll can tell, whosever crawl it is
AjaxEnds(j) ==
    /\ stage[j] = "ajaxing"
    /\ \/ ajax = NoJob /\ GoTo(j, "drain", undo[j] \ {"ajax"})
       \/ ajax # NoJob /\ busy[j] = CrawlTicks /\ GoTo(j, "drain", undo[j])
    /\ UNCHANGED <<key, daemon, upsets>>

\* The passive scanner is drained, or its deadline passes; alerts are collected.
Drain(j) ==
    /\ stage[j] = "drain"
    /\ GoTo(j, "cleanup", undo[j])
    /\ UNCHANGED <<key, daemon, upsets>>

\* The calls of the finally block, in their order.
NextUndo(todo) ==
    IF "spider" \in todo THEN "spider"
    ELSE IF "ajax" \in todo THEN "ajax"
    ELSE IF "rule" \in todo THEN "rule" ELSE "context"

\* Each undoes the job's own doing, except the AJAX stop, which names no crawl.
UndoCall(j, what) ==
    /\ rules' = IF what = "rule" THEN rules \ {j} ELSE rules
    /\ contexts' = IF what = "context" THEN contexts \ {j} ELSE contexts
    /\ ajax' = IF what = "ajax" THEN NoJob ELSE ajax
    /\ UNCHANGED session

\* Variant: the session is reset although the lease was lost.
ResetAlways(j) == "reset"

\* After the finally block: the session reset, unless the lease was lost.
AfterCleanup(j) == IF lost[j] THEN "lost" ELSE "reset"

\* One call of the finally block; its errors are suppressed.
Cleanup(j) ==
    /\ stage[j] = "cleanup"
    /\ LET what == NextUndo(undo[j])
           todo == undo[j] \ {what}
       IN /\ \/ UndoCall(j, what) /\ UNCHANGED upsets
             \/ Upset /\ UNCHANGED daemon
          /\ GoTo(j, IF todo = {} THEN AfterCleanup(j) ELSE "cleanup", todo)
    /\ UNCHANGED key

\* The session is replaced again; errors are suppressed.
Reset(j) ==
    /\ stage[j] = "reset"
    /\ \/ NewSession(j) /\ UNCHANGED upsets
       \/ Upset /\ UNCHANGED daemon
    /\ GoTo(j, "release", {})
    /\ UNCHANGED key

-----------------------------------------------------------------------------
(* The environment.                                                         *)

\* The worker dies; nothing of its finally blocks runs.
Crash(j) ==
    /\ stage[j] \in {"waiting", "release"} \union Touching
    /\ Upset
    /\ GoTo(j, "crashed", {})
    /\ UNCHANGED <<key, daemon>>

\* The daemon's AJAX crawl runs out of pages.
AjaxCrawlFinishes ==
    /\ ajax # NoJob
    /\ ajax' = NoJob
    /\ UNCHANGED <<key, stage, waited, busy, timer, lost, undo, session, contexts, rules, upsets, forgot>>

\* The broker restarts without the key.
ForgetKey ==
    /\ ~Free
    /\ Upset
    /\ key' = Nobody
    /\ forgot' = TRUE
    /\ UNCHANGED <<stage, waited, busy, timer, lost, undo, daemon>>

Limit(j) == IF stage[j] \in Crawling THEN CrawlTicks ELSE CallTicks

\* No job overstays its current call, and no renewal is overdue.
OnTime(j) ==
    stage[j] \in Touching =>
        /\ busy[j] < Limit(j)
        /\ lost[j] \/ timer[j] < Period + RenewTicks

\* Variant: the key has no expiry.
NeverAged == key

Aged == IF key.left <= 1 THEN Nobody ELSE [key EXCEPT !.left = @ - 1]

Tick ==
    /\ \A j \in Pool : OnTime(j)
    /\ \E j \in Pool : stage[j] \notin Ended \/ key.holder = j
    /\ key' = Aged
    /\ waited' = [j \in Pool |-> IF stage[j] = "waiting" /\ waited[j] < WaitTicks
                                 THEN waited[j] + 1 ELSE waited[j]]
    /\ busy' = [j \in Pool |-> IF stage[j] \in Touching THEN busy[j] + 1 ELSE busy[j]]
    /\ timer' = [j \in Pool |-> IF stage[j] \in Touching /\ ~lost[j] THEN timer[j] + 1 ELSE timer[j]]
    /\ UNCHANGED <<stage, lost, undo, daemon, upsets, forgot>>

Work(j) ==
    \/ OpenSession(j) \/ CreateContext(j) \/ AddAuthHeader(j)
    \/ SpiderEnds(j) \/ StartAjax(j) \/ AjaxEnds(j) \/ Drain(j)
    \/ Cleanup(j) \/ Reset(j) \/ Release(j)

DaemonNext ==
    \/ \E j \in Pool :
         \/ Acquire(j) \/ GiveUp(j) \/ AcquireFails(j)
         \/ Renew(j) \/ Lose(j)
         \/ Work(j) \/ CrawlFails(j) \/ Crash(j)
    \/ AjaxCrawlFinishes
    \/ ForgetKey
    \/ Tick

DaemonSpec == DaemonInit /\ [][DaemonNext]_leasing

\* Time passes, and the event loop runs every task that is ready: the waiting
\* loop, the keepalive, the job itself.
DaemonFairness ==
    /\ WF_leasing(Tick)
    /\ \A j \in Pool :
         /\ WF_leasing(Acquire(j) \/ GiveUp(j))
         /\ WF_leasing(Renew(j) \/ Lose(j))
         /\ WF_leasing(Work(j))

DaemonFairSpec == DaemonSpec /\ DaemonFairness

-----------------------------------------------------------------------------
(* What is checked.                                                         *)

\* A job that has lost the lease is out of its finally block before the lease
\* it stopped renewing can expire: the timeouts of the code must leave this much.
Slack == TTL > Period + RenewTicks + Cardinality(Undoable) * CallTicks

\* Two jobs never use the same daemon at the same time (lease, _exclusive_daemon),
\* a job that has just lost the lease included, unless the broker forgot the key.
OneUser == ~forgot => \A i, j \in Pool : stage[i] \in Touching /\ stage[j] \in Touching => i = j

\* While a job works with the daemon its session is the job's own, and no
\* context of another job is in it, whatever a crashed job left there.
OwnSession ==
    ~forgot => \A j \in Pool : stage[j] \in InTry => session = j /\ contexts \subseteq {j}

\* The daemon serves one job at a time, in that job's own session, also while a lease
\* is lost, taken over from a crashed job or released late (lease, _exclusive_daemon).
ExclusiveUse == OneUser /\ OwnSession

\* Every job ends, with the daemon's results or with the reason there are none, and
\* the lease of a job that ended, failed or crashed does not outlive it for ever.
JobsEndAndLeaveNothing ==
    \A j \in Pool : <>(stage[j] \in Ended) /\ (stage[j] \in Ended ~> key.holder # j)
=============================================================================
