-------------------------- MODULE ScreenshotSlots --------------------------
(***************************************************************************)
(* Website captures: the request limits, the deployment-wide dispatcher    *)
(* and the slot a capture holds until its job can no longer be executing.  *)
(*                                                                         *)
(* Time is counted per capture since its reservation (started_at), so that *)
(* not_after, slot_until and the grace periods are bounds on that count.   *)
(* Every database transaction is one action: requests hold the tenant's    *)
(* advisory lock, reserve() the dispatch lock, the others the row lock.    *)
(* Images and their storage are in ScreenshotStore.                        *)
(***************************************************************************)
EXTENDS ScreenshotCaptures, Integers

CONSTANTS
    Tenants,
    Assets,
    TenantOf,         \* capture -> tenant
    MaxConcurrent,    \* policy max_concurrent
    PerTenantDaily,   \* policy per_tenant_daily
    PerTenantQueued,  \* policy per_tenant_queued
    Timeouts,         \* hard limits a job may get: job_timeout + JOB_HARD_LIMIT_GRACE
    StartWindow,      \* START_WINDOW
    DispatchGrace,    \* DISPATCH_GRACE
    Travel,           \* the minute slot_hold adds for the result to travel
    CandidateFactor,  \* reserve() reads free * 5 queued captures
    ClockCap          \* counting stops beyond every deadline

\* What breaks the tie between a slot and its job: a held slot's record is
\* deleted; the time limit changes between reservation and launch; the broker
\* takes a job although publishing it raised.
Mishaps == {"delete_held", "change_timeout", "lost_reply"}

\* job_timeout is a minute at least, and slot_hold adds it to the start window.
SlotHold(hardLimit) == StartWindow + hardLimit + Travel

ASSUME ConstantsAssumption ==
    /\ NumCaptures \in Nat /\ TenantOf \in [Captures -> Tenants] /\ AssetOf \in [Captures -> Assets]
    /\ MaxConcurrent \in Nat \ {0} /\ PerTenantDaily \in Nat \ {0} /\ PerTenantQueued \in Nat \ {0}
    /\ Timeouts \subseteq Nat \ {0} /\ Timeouts # {}
    /\ StartWindow \in Nat /\ DispatchGrace \in Nat /\ Travel \in Nat \ {0}
    /\ CandidateFactor \in Nat \ {0} /\ MaxUpsets \in Nat
    /\ ClockCap \in Nat /\ DispatchGrace < ClockCap
    /\ \A t \in Timeouts : SlotHold(t) < ClockCap

VARIABLES
    (* capture rows *)
    status,      \* "none" before the request, "gone" once deleted
    clock,       \* time since started_at
    hold,        \* slot_until - started_at, 0 when slot_until is null
    dispatched,  \* dispatched_at is set
    usage,       \* tenant -> screenshot_usage.requested of the current day
    createdToday,
    (* settings *)
    allowed,     \* tenant -> feature on, tenant active, endpoints in scope
    timeout,     \* the policy's time limit
    (* dispatcher, broker, scanner *)
    step,        \* what dispatch() does next for a capture it reserved
    hard,        \* hard limit sealed in the capture's job, 0 without a job
    jobs,        \* jobs on the broker, not acknowledged
    claimed,     \* jobs claimed by a scanner
    executing,   \* jobs a scanner is running
    runTime,     \* how long it has been running
    results,     \* result envelopes on the results queue
    revoked,     \* jobs whose revocation was broadcast
    (* history *)
    started,     \* captures that were ever given a slot
    mishaps      \* which of Mishaps have happened

captureRow == <<status, clock, hold, dispatched, started>>
ledger == <<usage, createdToday>>
settings == <<allowed, timeout, mishaps>>
scanner == <<jobs, claimed, executing, runTime>>
vars == <<captureRow, ledger, settings, step, hard, scanner, results, revoked, upsets>>

Active == {"queued", "running"}
Ended == {"succeeded", "failed", "blocked", "cancelled"}
Outcomes == {"succeeded", "failed", "blocked"}
Steps == {"none", "launch", "publish", "mark", "fail"}

TypeOK ==
    /\ status \in [Captures -> {"none", "gone"} \cup Active \cup Ended]
    /\ clock \in [Captures -> 0 .. ClockCap] /\ hold \in [Captures -> Nat]
    /\ dispatched \in [Captures -> BOOLEAN] /\ started \subseteq Captures
    /\ usage \in [Tenants -> Nat] /\ createdToday \subseteq Captures
    /\ allowed \in [Tenants -> BOOLEAN] /\ timeout \in Timeouts
    /\ step \in [Captures -> Steps] /\ hard \in [Captures -> Timeouts \cup {0}]
    /\ jobs \subseteq Captures /\ claimed \subseteq Captures /\ executing \subseteq Captures
    /\ runTime \in [Captures -> Nat] /\ results \subseteq Captures \X Outcomes
    /\ revoked \subseteq Captures /\ upsets \in 0 .. MaxUpsets /\ mishaps \subseteq Mishaps

Init ==
    /\ status = [c \in Captures |-> "none"] /\ clock = [c \in Captures |-> 0]
    /\ hold = [c \in Captures |-> 0] /\ dispatched = [c \in Captures |-> FALSE] /\ started = {}
    /\ usage = [t \in Tenants |-> 0] /\ createdToday = {}
    /\ allowed = [t \in Tenants |-> TRUE] /\ timeout \in Timeouts
    /\ step = [c \in Captures |-> "none"] /\ hard = [c \in Captures |-> 0]
    /\ jobs = {} /\ claimed = {} /\ executing = {} /\ runTime = [c \in Captures |-> 0]
    /\ results = {} /\ revoked = {} /\ upsets = 0 /\ mishaps = {}


-----------------------------------------------------------------------------
(* Requests *)

ActiveOf(t) == {c \in Captures : status[c] \in Active /\ TenantOf[c] = t}
ActiveAt(a) == {c \in Captures : status[c] \in Active /\ AssetOf[c] = a}

\* A user or the weekly schedule asks for the next capture.
RequestCapture(c) ==
    /\ status[c] = "none" /\ \A d \in Captures : d < c => status[d] # "none"
    /\ allowed[TenantOf[c]]
    /\ ActiveAt(AssetOf[c]) = {}
    /\ Cardinality(ActiveOf(TenantOf[c])) < PerTenantQueued
    /\ usage[TenantOf[c]] < PerTenantDaily
    /\ status' = [status EXCEPT ![c] = "queued"]
    /\ usage' = [usage EXCEPT ![TenantOf[c]] = @ + 1]
    /\ createdToday' = createdToday \cup {c}
    /\ UNCHANGED <<clock, hold, dispatched, started, settings, step, hard, scanner, results, revoked, upsets>>

\* Variant: a running capture's allowance comes back too.
RefundAlways(c) == c \in createdToday
\* Variant: the day of the request is not compared.
RefundAnyDay(c) == status[c] = "queued"

\* Nothing ran and the request counted against today.
Refund(c) == status[c] = "queued" /\ c \in createdToday

\* The revocation follows the commit; a running capture keeps its slot.
CancelCapture(c) ==
    /\ status[c] \in Active
    /\ usage' = IF Refund(c) THEN [usage EXCEPT ![TenantOf[c]] = IF @ > 0 THEN @ - 1 ELSE 0] ELSE usage
    /\ revoked' = IF status[c] = "running" THEN revoked \cup {c} ELSE revoked
    /\ status' = [status EXCEPT ![c] = "cancelled"]
    /\ UNCHANGED <<clock, hold, dispatched, started, createdToday, settings, step, hard, scanner, results, upsets>>

\* Variant: a slot without an end.
HeldForever(c) == hold[c] # 0
Held(c) == hold[c] # 0 /\ clock[c] < hold[c]

\* delete_capture and the retention of failed records.
DeleteCapture(c) ==
    /\ status[c] \in Ended
    /\ mishaps' = IF Held(c) THEN mishaps \cup {"delete_held"} ELSE mishaps
    /\ status' = [status EXCEPT ![c] = "gone"] /\ hold' = [hold EXCEPT ![c] = 0]
    /\ UNCHANGED <<clock, dispatched, started, ledger, allowed, timeout, step, hard, scanner, results, revoked, upsets>>

-----------------------------------------------------------------------------
(* The dispatcher *)

\* Variant: a cancelled capture's slot is free at once.
OccupiedRunning(st) == {c \in Captures : st[c] = "running"}

Occupied(st) == {c \in Captures : st[c] = "running" \/ Held(c)}

Lost == {c \in Captures :
    /\ status[c] = "running"
    /\ \/ ~dispatched[c] /\ clock[c] > DispatchGrace
       \/ hold[c] # 0 /\ clock[c] > hold[c]
       \/ hold[c] = 0 /\ clock[c] > SlotHold(timeout)}

Queued == {c \in Captures : status[c] = "queued"}
Candidates(free) == {c \in Queued : Cardinality({d \in Queued : d < c}) < free * CandidateFactor}
FirstOfTenant(c, free) == \A d \in Candidates(free) : TenantOf[d] = TenantOf[c] => c <= d
Before(c, d, free) ==
    \/ FirstOfTenant(c, free) /\ ~FirstOfTenant(d, free)
    \/ (FirstOfTenant(c, free) <=> FirstOfTenant(d, free)) /\ c < d

\* The oldest free candidates, one per tenant first.
Picks(free) ==
    {P \in SUBSET Candidates(free) :
        /\ Cardinality(P) <= free
        /\ Cardinality(P) = free \/ P = Candidates(free)
        /\ \A c \in P, d \in Candidates(free) \ P : Before(c, d, free)}

\* reserve(): the watchdog and the reservation commit together, under the lock.
Reserve ==
    LET afterWatchdog == [c \in Captures |-> IF c \in Lost THEN "failed" ELSE status[c]]
        free == MaxConcurrent - Cardinality(Occupied(afterWatchdog))
    IN \E P \in IF free > 0 THEN Picks(free) ELSE {{}} :
        /\ Lost \cup P # {}
        /\ status' = [c \in Captures |-> IF c \in P THEN "running" ELSE afterWatchdog[c]]
        /\ clock' = [c \in Captures |-> IF c \in P THEN 0 ELSE clock[c]]
        /\ hold' = [c \in Captures |-> IF c \in P THEN SlotHold(timeout) ELSE hold[c]]
        /\ step' = [c \in Captures |-> IF c \in P THEN "launch" ELSE step[c]]
        /\ started' = started \cup P
        /\ UNCHANGED <<dispatched, ledger, settings, hard, scanner, results, revoked, upsets>>

\* launch(): authorize again, then seal the job or block the capture.
Launch(c) ==
    /\ step[c] = "launch"
    /\ \/ /\ status[c] = "running" /\ allowed[TenantOf[c]]
          /\ hard' = [hard EXCEPT ![c] = timeout]
          /\ step' = [step EXCEPT ![c] = "publish"]
          /\ UNCHANGED <<status, hold>>
       \/ /\ status[c] = "running" /\ ~allowed[TenantOf[c]]
          /\ status' = [status EXCEPT ![c] = "blocked"] /\ hold' = [hold EXCEPT ![c] = 0]
          /\ step' = [step EXCEPT ![c] = "none"] /\ UNCHANGED hard
       \/ /\ status[c] # "running"
          /\ step' = [step EXCEPT ![c] = "none"] /\ UNCHANGED <<status, hold, hard>>
    /\ UNCHANGED <<clock, dispatched, started, ledger, settings, scanner, results, revoked, upsets>>

PublishJob(c) ==
    /\ step[c] = "publish"
    /\ jobs' = jobs \cup {c} /\ step' = [step EXCEPT ![c] = "mark"]
    /\ UNCHANGED <<captureRow, ledger, settings, hard, claimed, executing, runTime, results, revoked, upsets>>

PublishRaises(c) ==
    /\ step[c] = "publish" /\ Upset
    /\ \/ UNCHANGED <<jobs, mishaps>>
       \/ jobs' = jobs \cup {c} /\ mishaps' = mishaps \cup {"lost_reply"}
    /\ step' = [step EXCEPT ![c] = "fail"]
    /\ UNCHANGED <<captureRow, ledger, allowed, timeout, hard, claimed, executing, runTime, results, revoked>>

MarkDispatched(c) ==
    /\ step[c] \in {"mark", "fail"}
    /\ step' = [step EXCEPT ![c] = "none"]
    /\ \/ /\ status[c] = "running" /\ step[c] = "mark"
          /\ dispatched' = [dispatched EXCEPT ![c] = TRUE] /\ UNCHANGED <<status, hold>>
       \/ /\ status[c] = "running" /\ step[c] = "fail"
          /\ status' = [status EXCEPT ![c] = "failed"] /\ hold' = [hold EXCEPT ![c] = 0]
          /\ UNCHANGED dispatched
       \/ status[c] # "running" /\ UNCHANGED <<status, hold, dispatched>>
    /\ UNCHANGED <<clock, started, ledger, settings, hard, scanner, results, revoked, upsets>>

DispatcherCrash(c) ==
    /\ step[c] # "none" /\ Upset
    /\ step' = [step EXCEPT ![c] = "none"]
    /\ UNCHANGED <<captureRow, ledger, settings, hard, scanner, results, revoked>>

-----------------------------------------------------------------------------
(* The scanner *)

\* Variant: execute_job does not look at not_after.
NoDeadline(c) == TRUE
InTime(c) == clock[c] <= StartWindow

\* The worker claims the job and starts it, or refuses it as expired.
StartJob(c) ==
    /\ c \in jobs /\ c \notin claimed
    /\ claimed' = claimed \cup {c}
    /\ \/ /\ InTime(c)
          /\ executing' = executing \cup {c} /\ runTime' = [runTime EXCEPT ![c] = 0]
          /\ UNCHANGED <<jobs, results>>
       \/ /\ ~InTime(c)
          /\ results' = results \cup {<<c, "failed">>} /\ jobs' = jobs \ {c}
          /\ UNCHANGED <<executing, runTime>>
    /\ UNCHANGED <<captureRow, ledger, settings, step, hard, revoked, upsets>>

\* The broker drops an expired or revoked message; a claimed one is ignored.
DropJob(c) ==
    /\ c \in jobs /\ c \notin executing
    /\ ~InTime(c) \/ c \in revoked \/ c \in claimed
    /\ jobs' = jobs \ {c}
    /\ UNCHANGED <<captureRow, ledger, settings, step, hard, claimed, executing, runTime, results, revoked, upsets>>

FinishJob(c) ==
    /\ c \in executing
    /\ \E o \in Outcomes : results' = results \cup {<<c, o>>}
    /\ executing' = executing \ {c} /\ jobs' = jobs \ {c}
    /\ UNCHANGED <<captureRow, ledger, settings, step, hard, claimed, runTime, revoked, upsets>>

\* Killed by its hard time limit, by a revocation or by a crash (redelivered then).
LoseRun(c) ==
    /\ c \in executing
    /\ \/ (runTime[c] = hard[c] \/ c \in revoked) /\ jobs' = jobs \ {c} /\ UNCHANGED upsets
       \/ Upset /\ UNCHANGED jobs
    /\ executing' = executing \ {c}
    /\ UNCHANGED <<captureRow, ledger, settings, step, hard, claimed, runTime, results, revoked>>

LoseResult(r) ==
    /\ r \in results /\ Upset
    /\ results' = results \ {r}
    /\ UNCHANGED <<captureRow, ledger, settings, step, hard, scanner, revoked>>

\* A result that is bound to a running capture ends it; any result of the
\* capture's job frees its slot.
ReceiveResult(r) ==
    LET c == r[1] IN
    /\ r \in results
    /\ results' = results \ {r}
    /\ status' = IF status[c] = "running" THEN [status EXCEPT ![c] = r[2]] ELSE status
    /\ hold' = [hold EXCEPT ![c] = 0]
    /\ UNCHANGED <<clock, dispatched, started, ledger, settings, step, hard, scanner, revoked, upsets>>

-----------------------------------------------------------------------------
(* Settings, days and the clock *)

SetAllowed(t) ==
    /\ Upset
    /\ allowed' = [allowed EXCEPT ![t] = ~@]
    /\ UNCHANGED <<captureRow, ledger, timeout, mishaps, step, hard, scanner, results, revoked>>

SetTimeout(limit) ==
    /\ Upset /\ limit # timeout
    /\ mishaps' = IF \E c \in Captures : step[c] = "launch"
                  THEN mishaps \cup {"change_timeout"} ELSE mishaps
    /\ timeout' = limit
    /\ UNCHANGED <<captureRow, ledger, allowed, step, hard, scanner, results, revoked>>

NewDay ==
    /\ Upset
    /\ usage' = [t \in Tenants |-> 0] /\ createdToday' = {}
    /\ UNCHANGED <<captureRow, settings, step, hard, scanner, results, revoked>>

\* A job is killed no later than its hard limit, so time waits for that.
Tick ==
    /\ \A c \in executing : runTime[c] < hard[c]
    /\ clock' = [c \in Captures |-> IF c \in started /\ clock[c] < ClockCap THEN clock[c] + 1 ELSE clock[c]]
    /\ runTime' = [c \in Captures |-> IF c \in executing THEN runTime[c] + 1 ELSE runTime[c]]
    /\ UNCHANGED <<status, hold, dispatched, started, ledger, settings, step, hard, jobs, claimed, executing,
                   results, revoked, upsets>>

Next ==
    \/ \E c \in Captures :
        \/ RequestCapture(c) \/ CancelCapture(c) \/ DeleteCapture(c)
        \/ Launch(c) \/ PublishJob(c) \/ PublishRaises(c) \/ MarkDispatched(c) \/ DispatcherCrash(c)
        \/ StartJob(c) \/ DropJob(c) \/ FinishJob(c) \/ LoseRun(c)
    \/ Reserve
    \/ \E r \in results : LoseResult(r) \/ ReceiveResult(r)
    \/ \E t \in Tenants : SetAllowed(t)
    \/ \E limit \in Timeouts : SetTimeout(limit)
    \/ NewDay \/ Tick

Spec == Init /\ [][Next]_vars

\* The beat runs the dispatcher every minute, a killed job really stops, time passes.
FairSpec ==
    /\ Spec
    /\ WF_vars(Reserve) /\ WF_vars(Tick)
    /\ \A c \in Captures : WF_vars(LoseRun(c) \/ FinishJob(c))

-----------------------------------------------------------------------------
(* Properties *)

(* No more captures are executing, anywhere in the deployment, than         *)
(* max_concurrent allows: the slot of a capture outlives its job, whether   *)
(* the capture was cancelled, lost or failed by the watchdog meanwhile.     *)
(* Only the three Mishaps end a slot before its job.                        *)
ActiveLimit == mishaps = {} => Cardinality(executing) <= MaxConcurrent

(* Of the captures a tenant requested on one day, no more than              *)
(* per_tenant_daily are ever started, whatever it cancels and deletes.      *)
DailyAllowance ==
    \A t \in Tenants : Cardinality({c \in createdToday \cap started : TenantOf[c] = t}) <= PerTenantDaily

(* Every request ends, and its slot is given back: a capture that was       *)
(* queued or is running is eventually neither, even when its dispatcher,    *)
(* its scanner or its result is lost, and the deployment never stays full.  *)
CapturesEnd ==
    /\ \A c \in Captures : status[c] \in Active ~> status[c] \notin Active
    /\ []<>(Cardinality(Occupied(status)) < MaxConcurrent)

\* The capture's job is sealed and a scanner has yet to claim it.
Startable(c) == (step[c] = "publish" \/ c \in jobs) /\ c \notin claimed

\* As long as a capture's job can start or is running, the capture's slot is
\* held for as long as that job may last.
SlotCoversJob(c) ==
    /\ status[c] \in {"none", "queued"} => step[c] = "none" /\ c \notin jobs \cup claimed /\ hold[c] = 0
    /\ step[c] \in {"launch", "publish", "fail"} => c \notin jobs \cup claimed
    /\ step[c] = "launch" /\ status[c] = "running" => hold[c] = SlotHold(timeout)
    /\ Startable(c) => hard[c] \in Timeouts /\ (InTime(c) => hold[c] = SlotHold(hard[c]))
    /\ c \in executing =>
          /\ c \in claimed /\ hard[c] \in Timeouts /\ hold[c] = SlotHold(hard[c])
          /\ clock[c] <= StartWindow + runTime[c] /\ runTime[c] <= hard[c]
    /\ \A o \in Outcomes : <<c, o>> \in results => c \in claimed \ executing

(* What ActiveLimit rests on: slots cover the jobs, and no more slots are   *)
(* occupied than max_concurrent allows, until a mishap happens.             *)
SlotInv ==
    /\ \A c \in Captures : SlotCoversJob(c)
    /\ Cardinality(Occupied(status)) <= MaxConcurrent

\* The captures of a tenant that today's allowance has paid for and that it does not get back.
Charged(t) == {c \in createdToday : TenantOf[c] = t /\ (status[c] = "queued" \/ c \in started)}

(* What DailyAllowance rests on: a capture that has not been dispatched has *)
(* had no slot, and screenshot_usage counts every charged capture.          *)
AllowanceInv ==
    /\ \A c \in Captures : status[c] \in {"none", "queued"} => c \notin started
    /\ \A t \in Tenants : Cardinality(Charged(t)) <= usage[t] /\ usage[t] <= PerTenantDaily
=============================================================================
