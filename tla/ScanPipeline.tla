---------------------------- MODULE ScanPipeline ----------------------------
(***************************************************************************)
(* The scan pipeline of the platform: how a scan is created, started,      *)
(* advanced stage by stage through the sensor workers and finalized, while *)
(* users cancel it, tenants are suspended, messages are lost, duplicated   *)
(* or redelivered and processes crash between two steps.                   *)
(*                                                                         *)
(* Each handler that runs in one database transaction under the scan's     *)
(* row lock (advance_scan, stage_failed, receive_result, suspension) is    *)
(* one action.  The handlers that read outside that lock take several      *)
(* steps: try_start holds the platform-wide advisory lock, not the row     *)
(* lock; the cancel endpoint loads the scan before it locks it; create     *)
(* checks for a conflicting scan before it inserts its own.                *)
(***************************************************************************)
EXTENDS Naturals, FiniteSets

CONSTANTS
    NumScans,        \* scans are numbered in creation order
    NumStages,       \* stages of every scan's profile snapshot
    Tenants,         \* tenants, each with one organization
    TenantOf,        \* the tenant of each scan
    ProfileOf,       \* the profile each scan is created from
    OptionalStages,  \* positions with config["_optional"]
    TenantLimit,     \* plan limit on a tenant's concurrent scans
    GlobalLimit,     \* max_concurrent_scans_global
    DispatchBatch,   \* how many waiting scans one dispatch_queued_scans starts
    Cancellable,     \* scans that users try to cancel
    MaxUpsets        \* bound on crashes, lost or duplicated messages and policy changes

Scans == 1 .. NumScans
Positions == 1 .. NumStages
Stages == Scans \X Positions

ASSUME ConstantsAssumption ==
    /\ NumScans \in Nat \ {0} /\ NumStages \in Nat \ {0}
    /\ TenantOf \in [Scans -> Tenants]
    /\ DOMAIN ProfileOf = Scans
    /\ OptionalStages \subseteq Positions /\ Cancellable \subseteq Scans
    /\ TenantLimit \in [Tenants -> Nat \ {0}]
    /\ GlobalLimit \in Nat \ {0} /\ DispatchBatch \in Nat \ {0} /\ MaxUpsets \in Nat

VARIABLES
    (* database rows *)
    scan,          \* scan -> its status; "absent" before it is created
    stage,         \* stage -> its status
    taskId,        \* stage -> number of the job dispatched for it, 0 for none
    dispatched,    \* stage -> dispatched_at is set
    secret,        \* scan -> auth_secret_encrypted is set
    isBaseline,    \* scan -> created before the organization had a baseline
    baseline,      \* tenant -> its organization's baseline_completed_at is set
    tenantActive,  \* tenant -> TenantStatus.ACTIVE
    orgActive,     \* tenant -> its organization is active and its pool usable
    (* transactions in progress *)
    creating,      \* scan -> its creation passed every check, not yet inserted
    starter,       \* scan -> where its try_start transaction stands
    viewStatus,    \* scan -> status a cancel request loaded, "none" without one
    viewStage,     \* stage -> status that request loaded
    (* broker, workers and clocks *)
    core,          \* messages on the core queue
    jobs,          \* sensor jobs on the broker, not yet acknowledged
    claimed,       \* job ids claimed in the pool's Redis namespace
    executing,     \* jobs a sensor worker is running
    results,       \* result envelopes on the results queue
    revoked,       \* jobs whose revocation was broadcast
    publisher,     \* <<job, step>> of advance_scan tasks past their first commit
    age,           \* running stage -> 0 new, 1 past UNDISPATCHED_GRACE, 2 lost
    upsets,        \* crashes, losses, duplicates and policy changes so far
    (* history *)
    traffic,       \* stage -> times a sensor ran its job
    ingests,       \* stage -> times a result of it was ingested
    cancelAcked,   \* scan -> a cancel request was answered with success
    reported       \* scan -> end-of-scan events written for it

rows == <<scan, stage, taskId, dispatched, secret, isBaseline, baseline>>
policy == <<tenantActive, orgActive>>
txs == <<creating, starter, viewStatus, viewStage>>
sensors == <<jobs, claimed, executing, traffic>>
history == <<ingests, cancelAcked, reported>>
vars == <<rows, policy, txs, core, sensors, results, revoked, publisher, age, upsets, history>>

ScanStatus == {"absent", "pending", "queued", "running", "completed", "partial", "failed", "cancelled"}
ActiveScanStates == {"pending", "queued", "running"}
EndedScanStates == {"completed", "partial", "failed", "cancelled"}
StageStatus == {"pending", "running", "completed", "partial", "failed", "skipped", "cancelled"}
OpenStage == {"pending", "running"}
StartSteps == {"idle", "pending", "queued", "cancel", "queue", "wait", "run"}

Jobs == Scans \X Positions \X Nat
StageOf(j) == <<j[1], j[2]>>
JobOf(p) == <<p[1], p[2], taskId[p]>>
Outcomes == {"completed", "partial", "failed"}
Message(task, s, i) == [task |-> task, scan |-> s, position |-> i]
StartMessage(s) == Message("start_scan", s, 0)
AdvanceMessage(s) == Message("advance_scan", s, 0)
FailedMessage(p) == Message("stage_failed", p[1], p[2])
Messages == [task: {"start_scan", "advance_scan", "stage_failed"}, scan: Scans, position: 0 .. NumStages]

TypeOK ==
    /\ scan \in [Scans -> ScanStatus] /\ stage \in [Stages -> StageStatus]
    /\ taskId \in [Stages -> Nat] /\ dispatched \in [Stages -> BOOLEAN]
    /\ secret \in [Scans -> BOOLEAN] /\ isBaseline \in [Scans -> BOOLEAN]
    /\ baseline \in [Tenants -> BOOLEAN]
    /\ tenantActive \in [Tenants -> BOOLEAN] /\ orgActive \in [Tenants -> BOOLEAN]
    /\ creating \in [Scans -> BOOLEAN] /\ starter \in [Scans -> StartSteps]
    /\ viewStatus \in [Scans -> ActiveScanStates \cup {"none"}] /\ viewStage \in [Stages -> StageStatus]
    /\ core \subseteq Messages
    /\ jobs \subseteq Jobs /\ claimed \subseteq Jobs /\ executing \subseteq Jobs /\ revoked \subseteq Jobs
    /\ results \subseteq Jobs \X Outcomes
    /\ publisher \subseteq Jobs \X {"publish", "mark", "fail"}
    /\ age \in [Stages -> 0 .. 2] /\ upsets \in 0 .. MaxUpsets
    /\ traffic \in [Stages -> Nat] /\ ingests \in [Stages -> Nat]
    /\ cancelAcked \in [Scans -> BOOLEAN] /\ reported \in [Scans -> Nat]

Init ==
    /\ scan = [s \in Scans |-> "absent"] /\ stage = [p \in Stages |-> "pending"]
    /\ taskId = [p \in Stages |-> 0] /\ dispatched = [p \in Stages |-> FALSE]
    /\ secret = [s \in Scans |-> FALSE] /\ isBaseline = [s \in Scans |-> FALSE]
    /\ baseline = [t \in Tenants |-> FALSE]
    /\ tenantActive \in [Tenants -> BOOLEAN] /\ orgActive = [t \in Tenants |-> TRUE]
    /\ creating = [s \in Scans |-> FALSE] /\ starter = [s \in Scans |-> "idle"]
    /\ viewStatus = [s \in Scans |-> "none"] /\ viewStage = [p \in Stages |-> "pending"]
    /\ core = {} /\ jobs = {} /\ claimed = {} /\ executing = {}
    /\ results = {} /\ revoked = {} /\ publisher = {}
    /\ age = [p \in Stages |-> 0] /\ upsets = 0
    /\ traffic = [p \in Stages |-> 0] /\ ingests = [p \in Stages |-> 0]
    /\ cancelAcked = [s \in Scans |-> FALSE] /\ reported = [s \in Scans |-> 0]

-----------------------------------------------------------------------------
(* Helpers *)

\* Variant: the tenant's own status is not consulted.
MayScanUnlessDeactivated(s) == orgActive[TenantOf[s]]

MayScan(s) == tenantActive[TenantOf[s]] /\ orgActive[TenantOf[s]]
Running == {s \in Scans : scan[s] = "running"}
RunningOf(t) == {s \in Running : TenantOf[s] = t}
InFlight(s) == \E i \in Positions : stage[<<s, i>>] = "running"
\* Variant: try_start without the advisory lock.
NoStartLock == TRUE
StartLockFree == \A s \in Scans : starter[s] = "idle"

Upset == upsets < MaxUpsets /\ upsets' = upsets + 1

\* A core task ends: acknowledged, or one more copy of its message is still
\* queued, or the worker dies after its commit and before its follow-up messages
\* (acks_late redelivers it).
Handled(m, sent) ==
    \/ core' = (core \ {m}) \cup sent /\ UNCHANGED upsets
    \/ core' = core \cup sent /\ Upset
    \/ sent # {} /\ core' = core /\ Upset

\* started_at matters only while a stage runs.
KeepClocks == age' = [p \in Stages |-> IF stage'[p] = "running" THEN age[p] ELSE 0]

FailedAs(p) == IF p[2] \in OptionalStages THEN "skipped" ELSE "failed"

\* fail_stage: only a running stage can fail.
FailStage(p) ==
    stage' = [stage EXCEPT ![p] = IF @ = "running" THEN FailedAs(p) ELSE @]

\* _cancel of the scans S, deciding each stage on the status the session loaded.
CancelScans(S, loaded) ==
    /\ scan' = [s \in Scans |-> IF s \in S THEN "cancelled" ELSE scan[s]]
    /\ stage' = [p \in Stages |-> IF p[1] \in S /\ loaded[p] \in OpenStage THEN "cancelled" ELSE stage[p]]
    /\ secret' = [s \in Scans |-> secret[s] /\ s \notin S]
    /\ KeepClocks

\* The jobs _cancel returns for revocation.
RunningTasks(S, loaded) == {JobOf(p) : p \in {q \in Stages : q[1] \in S /\ loaded[q] = "running"}}

-----------------------------------------------------------------------------
(* Creating a scan: POST /scans and create_scan *)

\* Every check passes; the conflicting-scan query takes no lock.
CreateCheck(s) ==
    /\ scan[s] = "absent" /\ ~creating[s]
    /\ \A r \in 1 .. (s - 1) : scan[r] # "absent" \/ creating[r]
    /\ MayScan(s)
    /\ \A r \in Scans :
          TenantOf[r] = TenantOf[s] /\ ProfileOf[r] = ProfileOf[s] => scan[r] \notin ActiveScanStates
    /\ creating' = [creating EXCEPT ![s] = TRUE]
    /\ UNCHANGED <<rows, policy, starter, viewStatus, viewStage, core, sensors, results, revoked,
                   publisher, age, upsets, history>>

\* Insert and commit, then queue start_scan; the API may die in between.
CreateCommit(s) ==
    /\ creating[s]
    /\ creating' = [creating EXCEPT ![s] = FALSE]
    /\ scan' = [scan EXCEPT ![s] = "pending"]
    /\ secret' = [secret EXCEPT ![s] = TRUE]
    /\ isBaseline' = [isBaseline EXCEPT ![s] = ~baseline[TenantOf[s]]]
    /\ \/ core' = core \cup {StartMessage(s)} /\ UNCHANGED upsets
       \/ Upset /\ UNCHANGED core
    /\ UNCHANGED <<stage, taskId, dispatched, baseline, policy, starter, viewStatus, viewStage,
                   sensors, results, revoked, publisher, age, history>>

-----------------------------------------------------------------------------
(* Starting a scan: start_scan and try_start, under the advisory lock *)

\* Take the advisory lock and re-read the scan, without its row lock.
StartLock(s) ==
    /\ StartMessage(s) \in core /\ StartLockFree
    /\ \/ /\ scan[s] \in {"pending", "queued"}
          /\ starter' = [starter EXCEPT ![s] = scan[s]]
          /\ UNCHANGED <<core, upsets>>
       \/ /\ scan[s] \notin {"pending", "queued"}
          /\ Handled(StartMessage(s), {})
          /\ UNCHANGED starter
    /\ UNCHANGED <<rows, policy, creating, viewStatus, viewStage, sensors, results, revoked,
                   publisher, age, history>>

\* Read the tenant, the organization and the running counts, and decide.
StartCheck(s) ==
    /\ starter[s] \in {"pending", "queued"}
    /\ starter' = [starter EXCEPT ![s] =
          IF ~MayScan(s) THEN "cancel"
          ELSE IF \/ Cardinality(RunningOf(TenantOf[s])) >= TenantLimit[TenantOf[s]]
                  \/ Cardinality(Running) >= GlobalLimit
               THEN IF @ = "pending" THEN "queue" ELSE "wait"
          ELSE "run"]
    /\ UNCHANGED <<rows, policy, creating, viewStatus, viewStage, core, sensors, results, revoked,
                   publisher, age, upsets, history>>

\* Write the new status by primary key and commit, whatever the row holds by now.
\* Leaving a queued scan queued changes no attribute, so nothing is written.
StartCommit(s) ==
    /\ starter[s] \in {"cancel", "queue", "wait", "run"}
    /\ starter' = [starter EXCEPT ![s] = "idle"]
    /\ \/ starter[s] = "cancel" /\ CancelScans({s}, stage)
       \/ starter[s] = "queue" /\ scan' = [scan EXCEPT ![s] = "queued"] /\ UNCHANGED <<stage, secret, age>>
       \/ starter[s] = "wait" /\ UNCHANGED <<scan, stage, secret, age>>
       \/ starter[s] = "run" /\ scan' = [scan EXCEPT ![s] = "running"] /\ UNCHANGED <<stage, secret, age>>
    /\ Handled(StartMessage(s), IF starter[s] = "run" THEN {AdvanceMessage(s)} ELSE {})
    /\ UNCHANGED <<taskId, dispatched, isBaseline, baseline, policy, creating, viewStatus, viewStage,
                   sensors, results, revoked, publisher, history>>

\* The worker dies before its commit: rolled back, lock released, message redelivered.
StartAbort(s) ==
    /\ starter[s] # "idle" /\ Upset
    /\ starter' = [starter EXCEPT ![s] = "idle"]
    /\ UNCHANGED <<rows, policy, creating, viewStatus, viewStage, core, sensors, results, revoked,
                   publisher, age, history>>

\* dispatch_queued_scans, every minute and after each finished scan.
DispatchQueuedScans ==
    LET waiting == {s \in Scans : scan[s] \in {"pending", "queued"}}
        oldest == {s \in waiting : Cardinality({r \in waiting : r < s}) < DispatchBatch}
    IN  /\ core' = core \cup {StartMessage(s) : s \in oldest}
        /\ UNCHANGED <<rows, policy, txs, sensors, results, revoked, publisher, age, upsets, history>>

-----------------------------------------------------------------------------
(* Advancing a scan: advance_scan, prepare_next_stage, finalize_scan *)

\* Pending stages before position i have no authorized target and are skipped.
SkipBefore(s, i) ==
    [p \in Stages |-> IF p[1] = s /\ p[2] < i /\ stage[p] = "pending" THEN "skipped" ELSE stage[p]]

FinalStatus(st, s) ==
    LET failed == \E i \in Positions : st[<<s, i>>] = "failed"
        partial == \E i \in Positions : st[<<s, i>>] = "partial"
        succeeded == partial \/ \E i \in Positions : st[<<s, i>>] = "completed"
    IN  IF ~succeeded /\ failed THEN "failed"
        ELSE IF failed \/ partial THEN "partial"
        ELSE "completed"

\* The early returns: the scan is not running, or a stage is in flight.
AdvanceIgnored(s) ==
    /\ AdvanceMessage(s) \in core
    /\ scan[s] # "running" \/ InFlight(s)
    /\ Handled(AdvanceMessage(s), {})
    /\ UNCHANGED <<rows, policy, txs, sensors, results, revoked, publisher, age, history>>

\* Variant: a stage in flight does not stop the advance.
AdvanceWhileBusy(s) == AdvanceMessage(s) \in core /\ scan[s] = "running"

\* The row lock is held and the scan is running with no stage in flight.
AdvanceReady(s) == AdvanceMessage(s) \in core /\ scan[s] = "running" /\ ~InFlight(s)

\* The tenant or the organization may no longer scan.
AdvanceCancels(s) ==
    /\ AdvanceReady(s) /\ ~MayScan(s)
    /\ CancelScans({s}, stage)
    /\ Handled(AdvanceMessage(s), {})
    /\ UNCHANGED <<taskId, dispatched, isBaseline, baseline, policy, txs, sensors, results, revoked,
                   publisher, history>>

\* Stage i gets a job; RUNNING and the job binding are committed before publishing.
AdvanceDispatches(s, i) ==
    /\ AdvanceReady(s) /\ MayScan(s) /\ stage[<<s, i>>] = "pending"
    /\ stage' = [SkipBefore(s, i) EXCEPT ![<<s, i>>] = "running"]
    /\ taskId' = [taskId EXCEPT ![<<s, i>>] = @ + 1]
    /\ dispatched' = [dispatched EXCEPT ![<<s, i>>] = FALSE]
    /\ age' = [age EXCEPT ![<<s, i>>] = 0]
    /\ publisher' = publisher \cup {<<<<s, i, taskId[<<s, i>>] + 1>>, "publish">>}
    /\ Handled(AdvanceMessage(s), {})
    /\ UNCHANGED <<scan, secret, isBaseline, baseline, policy, txs, sensors, results, revoked, history>>

\* No stage remains: finalize_scan.  The follow-up messages are covered by
\* DispatchQueuedScans, which may run at any time.
AdvanceFinalizes(s) ==
    LET st == SkipBefore(s, NumStages + 1)
        final == FinalStatus(st, s)
    IN  /\ AdvanceReady(s) /\ MayScan(s)
        /\ stage' = st
        /\ scan' = [scan EXCEPT ![s] = final]
        /\ secret' = [secret EXCEPT ![s] = FALSE]
        /\ baseline' = [baseline EXCEPT ![TenantOf[s]] =
                          @ \/ (isBaseline[s] /\ final \in {"completed", "partial"})]
        /\ reported' = [reported EXCEPT ![s] = @ + 1]
        /\ Handled(AdvanceMessage(s), {})
        /\ UNCHANGED <<taskId, dispatched, isBaseline, policy, txs, sensors, results, revoked,
                       publisher, age, ingests, cancelAcked>>

\* publish_job: the job reaches the broker.
PublishJob(j) ==
    /\ <<j, "publish">> \in publisher
    /\ jobs' = jobs \cup {j}
    /\ publisher' = (publisher \ {<<j, "publish">>}) \cup {<<j, "mark">>}
    /\ UNCHANGED <<rows, policy, txs, core, claimed, executing, traffic, results, revoked, age, upsets,
                   history>>

\* publish_job raises; the broker may have taken the job all the same.
PublishRaises(j) ==
    /\ <<j, "publish">> \in publisher
    /\ jobs' \in {jobs, jobs \cup {j}}
    /\ publisher' = (publisher \ {<<j, "publish">>}) \cup {<<j, "fail">>}
    /\ UNCHANGED <<rows, policy, txs, core, claimed, executing, traffic, results, revoked, age, upsets,
                   history>>

\* The exception handler: under the row lock again, fail the stage it dispatched.
DispatchFailed(j) ==
    /\ <<j, "fail">> \in publisher
    /\ publisher' = publisher \ {<<j, "fail">>}
    /\ IF taskId[StageOf(j)] = j[3] THEN FailStage(StageOf(j)) ELSE UNCHANGED stage
    /\ KeepClocks
    /\ core' = core \cup {AdvanceMessage(j[1])}
    /\ UNCHANGED <<scan, taskId, dispatched, secret, isBaseline, baseline, policy, txs, sensors, results,
                   revoked, upsets, history>>

\* dispatched_at is set once the job is on the broker.
MarkDispatched(j) ==
    /\ <<j, "mark">> \in publisher
    /\ publisher' = publisher \ {<<j, "mark">>}
    /\ dispatched' = [dispatched EXCEPT ![StageOf(j)] = @ \/ taskId[StageOf(j)] = j[3]]
    /\ UNCHANGED <<scan, stage, taskId, secret, isBaseline, baseline, policy, txs, core, sensors, results,
                   revoked, age, upsets, history>>

\* The worker dies after its first commit; the redelivered advance_scan finds the
\* stage in flight.
PublisherCrash(j) ==
    /\ \E step \in {"publish", "mark", "fail"} :
          <<j, step>> \in publisher /\ publisher' = publisher \ {<<j, step>>}
    /\ core' = core \cup {AdvanceMessage(j[1])}
    /\ Upset
    /\ UNCHANGED <<rows, policy, txs, sensors, results, revoked, age, history>>

-----------------------------------------------------------------------------
(* Sensor workers: run_sensor *)

\* The first delivery claims the job id and runs it.
RunSensor(j) ==
    /\ j \in jobs /\ j \notin claimed
    /\ claimed' = claimed \cup {j}
    /\ executing' = executing \cup {j}
    /\ traffic' = [traffic EXCEPT ![StageOf(j)] = @ + 1]
    /\ UNCHANGED <<rows, policy, txs, core, jobs, results, revoked, publisher, age, upsets, history>>

\* A redelivery finds the id claimed and is ignored.
IgnoreRedelivery(j) ==
    /\ j \in jobs \cap claimed
    /\ jobs' = jobs \ {j}
    /\ UNCHANGED <<rows, policy, txs, core, claimed, executing, traffic, results, revoked, publisher,
                   age, upsets, history>>

\* The job ends and its result is submitted, then the delivery is acknowledged.
SubmitResult(j, outcome) ==
    /\ j \in executing
    /\ executing' = executing \ {j}
    /\ jobs' = jobs \ {j}
    /\ results' = results \cup {<<j, outcome>>}
    /\ UNCHANGED <<rows, policy, txs, core, claimed, traffic, revoked, publisher, age, upsets, history>>

\* The worker is lost while it runs the job; the broker redelivers.
SensorCrash(j) ==
    /\ j \in executing /\ Upset
    /\ executing' = executing \ {j}
    /\ jobs' = jobs \cup {j}
    /\ UNCHANGED <<rows, policy, txs, core, claimed, traffic, results, revoked, publisher, age, history>>

\* A revocation reaches the pool's workers: the task is terminated or discarded.
RevokeTakesEffect(j) ==
    /\ j \in revoked /\ j \in jobs \cup executing
    /\ jobs' = jobs \ {j}
    /\ executing' = executing \ {j}
    /\ UNCHANGED <<rows, policy, txs, core, claimed, traffic, results, revoked, publisher, age, upsets,
                   history>>

-----------------------------------------------------------------------------
(* The result consumer: submit_result, receive_result, complete_stage *)

\* Variant: the job id matches, but the stage may be over.
BoundByJobOnly(j) == taskId[StageOf(j)] = j[3] /\ scan[j[1]] = "running"

\* result_binding_error: the result answers the running stage's own job.
Bound(j) ==
    /\ taskId[StageOf(j)] = j[3]
    /\ stage[StageOf(j)] = "running" /\ scan[j[1]] = "running"

ReceiveResult(j, outcome) ==
    /\ <<j, outcome>> \in results /\ Bound(j)
    /\ stage' = [stage EXCEPT ![StageOf(j)] = IF outcome = "failed" THEN FailedAs(StageOf(j)) ELSE outcome]
    /\ KeepClocks
    /\ ingests' = [ingests EXCEPT ![StageOf(j)] = IF outcome = "failed" THEN @ ELSE @ + 1]
    /\ \/ /\ results' = results \ {<<j, outcome>>} /\ UNCHANGED upsets
          /\ core' = core \cup {AdvanceMessage(j[1])}
       \/ /\ results' = results /\ Upset          \* redelivered, after the advance or without it
          /\ core' \in {core, core \cup {AdvanceMessage(j[1])}}
    /\ UNCHANGED <<scan, taskId, dispatched, secret, isBaseline, baseline, policy, txs, sensors, revoked,
                   publisher, cancelAcked, reported>>

RejectResult(j, outcome) ==
    /\ <<j, outcome>> \in results /\ ~Bound(j)
    /\ results' = results \ {<<j, outcome>>}
    /\ UNCHANGED <<rows, policy, txs, core, sensors, revoked, publisher, age, upsets, history>>

-----------------------------------------------------------------------------
(* Recovery: stage_failed, watchdog, and what they recover from *)

\* stage_failed names the stage, not the job, and always advances the scan.
StageFailed(p) ==
    /\ FailedMessage(p) \in core
    /\ FailStage(p) /\ KeepClocks
    /\ Handled(FailedMessage(p), {AdvanceMessage(p[1])})
    /\ UNCHANGED <<scan, taskId, dispatched, secret, isBaseline, baseline, policy, txs, sensors, results,
                   revoked, publisher, history>>

\* Variant: only jobs that never reached the broker are given up.
StuckUndispatched == {p \in Stages : stage[p] = "running" /\ age[p] > 0 /\ ~dispatched[p]}

Stuck == {p \in Stages : stage[p] = "running" /\ (age[p] = 2 \/ (age[p] = 1 /\ ~dispatched[p]))}
Stranded == {s \in Running : ~InFlight(s)}

Watchdog ==
    /\ core' = core \cup {FailedMessage(p) : p \in Stuck} \cup {AdvanceMessage(s) : s \in Stranded}
    /\ UNCHANGED <<rows, policy, txs, sensors, results, revoked, publisher, age, upsets, history>>

\* Time passes for a running stage.
Tick(p) ==
    /\ stage[p] = "running" /\ age[p] < 2
    /\ age' = [age EXCEPT ![p] = @ + 1]
    /\ UNCHANGED <<rows, policy, txs, core, sensors, results, revoked, publisher, upsets, history>>

\* A broker restart, or a task that raised and was acknowledged, drops a message.
LoseMessage ==
    /\ Upset
    /\ \/ \E m \in core : core' = core \ {m} /\ UNCHANGED <<jobs, results>>
       \/ \E j \in jobs : jobs' = jobs \ {j} /\ UNCHANGED <<core, results>>
       \/ \E r \in results : results' = results \ {r} /\ UNCHANGED <<core, jobs>>
    /\ UNCHANGED <<rows, policy, txs, claimed, executing, traffic, revoked, publisher, age, history>>

-----------------------------------------------------------------------------
(* Cancelling a scan: POST /scans/{id}/cancel and cancel_scan *)

\* The endpoint loads the scan and its stages without a lock.
CancelLoad(s) ==
    /\ s \in Cancellable /\ scan[s] \in ActiveScanStates /\ viewStatus[s] = "none"
    /\ viewStatus' = [viewStatus EXCEPT ![s] = scan[s]]
    /\ viewStage' = [p \in Stages |-> IF p[1] = s THEN stage[p] ELSE viewStage[p]]
    /\ UNCHANGED <<rows, policy, creating, starter, core, sensors, results, revoked, publisher, age,
                   upsets, history>>

\* cancel_scan locks the row, but the session keeps the attributes it has loaded:
\* the status check and the stages cancelled are those of the first read.
CancelCommit(s) ==
    /\ viewStatus[s] # "none"
    /\ CancelScans({s}, viewStage)
    /\ revoked' = revoked \cup RunningTasks({s}, viewStage)
    /\ cancelAcked' = [cancelAcked EXCEPT ![s] = TRUE]
    /\ viewStatus' = [viewStatus EXCEPT ![s] = "none"]
    /\ viewStage' = [p \in Stages |-> IF p[1] = s THEN "pending" ELSE viewStage[p]]
    /\ UNCHANGED <<taskId, dispatched, isBaseline, baseline, policy, creating, starter, core, sensors,
                   results, publisher, upsets, ingests, reported>>

-----------------------------------------------------------------------------
(* Tenants and organizations *)

\* Suspension cancels the tenant's active scans in the same transaction.
SuspendTenant(t) ==
    LET S == {s \in Scans : TenantOf[s] = t /\ scan[s] \in ActiveScanStates}
    IN  /\ tenantActive[t] /\ Upset
        /\ tenantActive' = [tenantActive EXCEPT ![t] = FALSE]
        /\ CancelScans(S, stage)
        /\ revoked' = revoked \cup RunningTasks(S, stage)
        /\ UNCHANGED <<taskId, dispatched, isBaseline, baseline, orgActive, txs, core, sensors, results,
                       publisher, history>>

ReactivateTenant(t) ==
    /\ ~tenantActive[t] /\ Upset
    /\ tenantActive' = [tenantActive EXCEPT ![t] = TRUE]
    /\ UNCHANGED <<rows, orgActive, txs, core, sensors, results, revoked, publisher, age, history>>

\* Deactivating an organization (or losing its scanner pool) cancels nothing by itself.
ToggleOrganization(t) ==
    /\ Upset
    /\ orgActive' = [orgActive EXCEPT ![t] = ~@]
    /\ UNCHANGED <<rows, tenantActive, txs, core, sensors, results, revoked, publisher, age, history>>

-----------------------------------------------------------------------------
JobsKnown == jobs \cup executing \cup {q[1] : q \in publisher}

Next ==
    \/ \E s \in Scans :
          \/ CreateCheck(s) \/ CreateCommit(s)
          \/ StartLock(s) \/ StartCheck(s) \/ StartCommit(s) \/ StartAbort(s)
          \/ AdvanceIgnored(s) \/ AdvanceCancels(s) \/ AdvanceFinalizes(s)
          \/ \E i \in Positions : AdvanceDispatches(s, i)
          \/ CancelLoad(s) \/ CancelCommit(s)
    \/ \E j \in JobsKnown :
          \/ PublishJob(j) \/ PublishRaises(j) \/ DispatchFailed(j) \/ MarkDispatched(j) \/ PublisherCrash(j)
          \/ RunSensor(j) \/ IgnoreRedelivery(j) \/ SensorCrash(j) \/ RevokeTakesEffect(j)
          \/ \E outcome \in Outcomes : SubmitResult(j, outcome)
    \/ \E r \in results : ReceiveResult(r[1], r[2]) \/ RejectResult(r[1], r[2])
    \/ \E p \in Stages : StageFailed(p) \/ Tick(p)
    \/ DispatchQueuedScans \/ Watchdog \/ LoseMessage
    \/ \E t \in Tenants : SuspendTenant(t) \/ ReactivateTenant(t) \/ ToggleOrganization(t)

Spec == Init /\ [][Next]_vars

(***************************************************************************)
(* Fairness.  Celery delivers every queued message and the beat schedule   *)
(* runs the watchdog and dispatch_queued_scans for ever; PostgreSQL grants *)
(* the advisory lock in request order, so a start_scan that is queued      *)
(* again and again is not overtaken for ever.  Sensors, result delivery    *)
(* and revocation are not assumed fair: the watchdog replaces them.        *)
(***************************************************************************)
AdvanceWorks(s) == AdvanceCancels(s) \/ AdvanceFinalizes(s) \/ \E i \in Positions : AdvanceDispatches(s, i)

Fairness ==
    /\ \A s \in Scans :
          /\ SF_vars(StartLock(s)) /\ WF_vars(StartCheck(s)) /\ WF_vars(StartCommit(s))
          /\ WF_vars(AdvanceWorks(s))
    /\ \A p \in Stages : WF_vars(StageFailed(p)) /\ WF_vars(Tick(p))
    /\ WF_vars(Watchdog) /\ WF_vars(DispatchQueuedScans)

FairSpec == Spec /\ Fairness

-----------------------------------------------------------------------------
(* Properties *)

\* advance_scan, redelivered or run twice at once, never puts two stages of a scan
\* in flight: the row lock makes the in-flight check and the dispatch one step.
OneStageInFlight ==
    \A s \in Scans : \A i, k \in Positions : stage[<<s, i>>] = "running" /\ stage[<<s, k>>] = "running" => i = k

\* Whatever is lost, redelivered or raced, a stage is given at most one job, that
\* job sends its scan traffic at most once, and at most one result of it is ingested.
WorkOnce ==
    \A p \in Stages : taskId[p] <= 1 /\ traffic[p] <= taskId[p] /\ ingests[p] <= traffic[p]

\* Stages run in profile order: a stage gets its job only when every earlier stage
\* is over, although results, failures and advances arrive in any order.
StagesInOrder ==
    \A s \in Scans : \A i, k \in Positions :
        i < k /\ taskId[<<s, k>>] > 0 => stage[<<s, i>>] \notin OpenStage

\* An ended scan has no open stage and keeps no sign-in value (_cancel and
\* finalize_scan erase it), whichever of its handlers ended it.
EndedIsClean ==
    \A s \in Scans : scan[s] \in EndedScanStates =>
        ~secret[s] /\ \A i \in Positions : stage[<<s, i>>] \notin OpenStage

\* Once a cancel request is answered no stage of the scan runs again, even if a
\* start in progress writes its own status over the cancellation.
CancelStopsWork ==
    \A s \in Scans : cancelAcked[s] => \A i \in Positions : stage[<<s, i>>] \notin OpenStage

\* try_start: parallel starts never exceed the tenant's or the platform's limit.
ConcurrencyLimit ==
    /\ Cardinality(Running) <= GlobalLimit
    /\ \A t \in Tenants : Cardinality(RunningOf(t)) <= TenantLimit[t]

\* A suspended tenant has no stage in flight, whatever was being started or
\* dispatched when it was suspended.
SuspendedIdle ==
    \A s \in Scans : ~tenantActive[TenantOf[s]] => ~InFlight(s)

\* finalize_scan writes one end-of-scan event for a scan, and a scan ends as
\* completed, partial or failed only with that event.
ReportedOnce ==
    \A s \in Scans :
        reported[s] <= 1 /\ (scan[s] \in {"completed", "partial", "failed"} => reported[s] = 1)

\* However a scan ends, it ends once and for all: nothing of it stays open or secret,
\* nothing of it runs after an answered cancellation or in a suspended tenant, and it is
\* reported once, whatever start, advance or result was under way (finalize_scan,
\* cancel_scan, cancel_tenant_scans).
EndsClean == EndedIsClean /\ CancelStopsWork /\ SuspendedIdle /\ ReportedOnce

\* Every scan that exists ends: lost jobs, lost messages and crashes are repaired by
\* the watchdog, and a waiting scan gets a slot.
EveryScanEnds ==
    \A s \in Scans : scan[s] \in ActiveScanStates ~> scan[s] \in EndedScanStates

(* Inductive strengthenings of the invariants above *)

\* A job exists only for a stage that was dispatched, and runs only once claimed.
WorkInv ==
    /\ \A p \in Stages :
          /\ taskId[p] <= 1 /\ traffic[p] <= taskId[p] /\ ingests[p] <= traffic[p]
          /\ stage[p] = "pending" => taskId[p] = 0
          /\ stage[p] \in OpenStage => ingests[p] = 0
          /\ traffic[p] > 0 => <<p[1], p[2], 1>> \in claimed
    /\ \A q \in publisher : q[1][3] = 1 /\ taskId[StageOf(q[1])] = 1
    /\ \A j \in jobs : j[3] = 1 /\ taskId[StageOf(j)] = 1
    /\ \A j \in claimed : j[3] = 1 /\ traffic[StageOf(j)] = 1
    /\ executing \subseteq claimed
    /\ \A r \in results : r[1] \in claimed

\* Work is in order and one stage at a time; a request to cancel saw at least the
\* stages that are open now.
OrderInv ==
    /\ StagesInOrder /\ OneStageInFlight
    /\ \A p \in Stages : viewStatus[p[1]] # "none" /\ stage[p] \in OpenStage => viewStage[p] \in OpenStage

\* How the scan's row, its stages and the transactions in progress relate.
LifeInv ==
    /\ EndedIsClean /\ CancelStopsWork /\ ReportedOnce
    /\ \A s \in Scans :
          /\ InFlight(s) => scan[s] = "running" /\ tenantActive[TenantOf[s]]
          /\ creating[s] => scan[s] = "absent"
          /\ viewStatus[s] # "none" => scan[s] # "absent"
          /\ starter[s] # "idle" => scan[s] \in {"pending", "queued", "cancelled"}
          /\ scan[s] \in {"absent", "pending", "queued", "running"} \/ starter[s] # "idle" => reported[s] = 0

\* One try_start at a time holds the advisory lock, and the slot it saw stays free.
SlotInv ==
    /\ \A r, s \in Scans : starter[r] # "idle" /\ starter[s] # "idle" => r = s
    /\ \A s \in Scans : starter[s] = "run" =>
          /\ Cardinality(Running) < GlobalLimit
          /\ Cardinality(RunningOf(TenantOf[s])) < TenantLimit[TenantOf[s]]
    /\ ConcurrencyLimit

-----------------------------------------------------------------------------
(* The abstract specification this one implements *)

PhaseOf(p) ==
    IF ingests[p] > 0 THEN "applied"
    ELSE IF stage[p] = "pending" THEN "waiting"
    ELSE IF stage[p] = "running" THEN "working"
    ELSE "closed"

Ledger == INSTANCE StageLedger WITH phase <- [p \in Stages |-> PhaseOf(p)]

\* Every handler maps to a step of the ledger or to no step: one stage of a scan at
\* a time, in order, each result applied at most once, nothing reopened.
ImplementsLedger == Ledger!Spec

-----------------------------------------------------------------------------
(* What the documentation says and the code does not keep *)

\* A scan whose cancellation was confirmed is cancelled, for good.
CancelledStaysCancelled == \A s \in Scans : cancelAcked[s] => scan[s] = "cancelled"

\* A scan that was reported finished is not turned into a cancelled one.
FinishedStaysFinished ==
    \A s \in Scans : reported[s] > 0 => scan[s] \in {"completed", "partial", "failed"}

\* No two active scans of one profile and organization.
OneActivePerProfile ==
    \A r, s \in Scans :
        /\ r # s /\ TenantOf[r] = TenantOf[s] /\ ProfileOf[r] = ProfileOf[s]
        => ~(scan[r] \in ActiveScanStates /\ scan[s] \in ActiveScanStates)

=============================================================================
