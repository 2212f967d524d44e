------------------------- MODULE ScanPipelineProofs -------------------------
(* Theorems about ScanPipeline, for every number of scans, stages, tenants, *)
(* limits and upsets: the stages of a scan follow their order and keep a    *)
(* ledger, a scan ends clean, and only so many run at once.                 *)
EXTENDS ScanPipeline, FiniteSetTheorems, TLAPS

-----------------------------------------------------------------------------
(* Types *)

\* A message of the core queue is well formed.
LEMMA MessageTypes ==
    /\ \A s \in Scans : StartMessage(s) \in Messages /\ AdvanceMessage(s) \in Messages
    /\ \A p \in Stages : FailedMessage(p) \in Messages
BY ConstantsAssumption DEF Messages, Message, StartMessage, AdvanceMessage, FailedMessage, Stages, Positions

\* The stage a job belongs to.
LEMMA StageOfType == \A j \in Jobs : StageOf(j) \in Stages /\ j[1] \in Scans /\ j[3] \in Nat
BY Zenon DEF Jobs, StageOf, Stages

\* The jobs handled by the publisher and sensor actions.
LEMMA JobsKnownType == TypeOK => JobsKnown \subseteq Jobs
BY Zenon DEF TypeOK, JobsKnown

\* The jobs a cancellation revokes.
LEMMA RunningTasksType ==
    ASSUME TypeOK, NEW S, NEW loaded
    PROVE  RunningTasks(S, loaded) \subseteq Jobs
BY DEF TypeOK, RunningTasks, JobOf, Jobs, Stages

\* Cancelling scans keeps their rows well typed.
LEMMA CancelTypes ==
    ASSUME TypeOK, NEW S, NEW loaded, CancelScans(S, loaded)
    PROVE  /\ scan' \in [Scans -> ScanStatus] /\ stage' \in [Stages -> StageStatus]
           /\ secret' \in [Scans -> BOOLEAN] /\ age' \in [Stages -> 0 .. 2]
BY DEF TypeOK, CancelScans, KeepClocks, ScanStatus, StageStatus

\* A finalized scan is completed, partial or failed.
LEMMA FinalStatusType == \A st, s : FinalStatus(st, s) \in {"completed", "partial", "failed"}
BY Zenon DEF FinalStatus

\* Every handler keeps the rows, queues and workers of the pipeline well typed.
LEMMA TypeStep == TypeOK /\ [Next]_vars => TypeOK'
<1> SUFFICES ASSUME TypeOK, [Next]_vars PROVE TypeOK'
  BY Zenon
<1> USE ConstantsAssumption
<1>1. ASSUME NEW s \in Scans, CreateCheck(s) PROVE TypeOK'
  BY <1>1, Zenon DEF TypeOK, CreateCheck, rows, policy, txs, sensors, history
<1>2. ASSUME NEW s \in Scans, CreateCommit(s) PROVE TypeOK'
  BY <1>2, MessageTypes DEF TypeOK, CreateCommit, Upset, ScanStatus, rows, policy, txs, sensors, history
<1>3. ASSUME NEW s \in Scans, StartLock(s) PROVE TypeOK'
  BY <1>3, MessageTypes DEF TypeOK, StartLock, Handled, Upset, StartSteps, rows, policy, txs, sensors, history
<1>4. ASSUME NEW s \in Scans, StartCheck(s) PROVE TypeOK'
  BY <1>4, Zenon DEF TypeOK, StartCheck, StartSteps, rows, policy, txs, sensors, history
<1>5. ASSUME NEW s \in Scans, StartCommit(s) PROVE TypeOK'
  <2>1. core' \subseteq Messages /\ upsets' \in 0 .. MaxUpsets
    BY <1>5, MessageTypes DEF TypeOK, StartCommit, Handled, Upset
  <2>2. /\ scan' \in [Scans -> ScanStatus] /\ stage' \in [Stages -> StageStatus]
        /\ secret' \in [Scans -> BOOLEAN] /\ age' \in [Stages -> 0 .. 2]
    <3>1. CASE starter[s] = "cancel"
      <4>1. CancelScans({s}, stage)
        BY <1>5, <3>1, Zenon DEF StartCommit
      <4> QED
        BY <4>1, CancelTypes, Zenon
    <3>2. CASE starter[s] \in {"queue", "wait", "run"}
      BY <1>5, <3>2, ZenonT(60) DEF TypeOK, StartCommit, ScanStatus
    <3> QED
      BY <1>5, <3>1, <3>2, Zenon DEF StartCommit
  <2> QED
    BY Zenon, <1>5, <2>1, <2>2 DEF TypeOK, StartCommit, StartSteps, policy, txs, sensors, history
<1>6. ASSUME NEW s \in Scans, StartAbort(s) PROVE TypeOK'
  BY <1>6 DEF TypeOK, StartAbort, Upset, StartSteps, rows, policy, txs, sensors, history
<1>7. ASSUME NEW s \in Scans, AdvanceIgnored(s) PROVE TypeOK'
  BY SMTT(60), <1>7, MessageTypes DEF TypeOK, AdvanceIgnored, Handled, Upset, rows, policy, txs, sensors, history
<1>8. ASSUME NEW s \in Scans, AdvanceCancels(s) PROVE TypeOK'
  BY SMTT(60), <1>8, MessageTypes DEF TypeOK, AdvanceCancels, CancelScans, KeepClocks, Handled, Upset, ScanStatus, StageStatus, rows, policy, txs, sensors, history
<1>9. ASSUME NEW s \in Scans, AdvanceFinalizes(s) PROVE TypeOK'
  BY SMTT(60), <1>9, MessageTypes, FinalStatusType DEF TypeOK, AdvanceFinalizes, SkipBefore, Handled, Upset, ScanStatus, StageStatus, rows, policy, txs, sensors, history
<1>10. ASSUME NEW s \in Scans, CancelLoad(s) PROVE TypeOK'
  BY <1>10, ZenonT(60) DEF TypeOK, CancelLoad, ActiveScanStates, rows, policy, txs, sensors, history
<1>11. ASSUME NEW s \in Scans, CancelCommit(s) PROVE TypeOK'
  BY SMTT(60), <1>11, RunningTasksType DEF TypeOK, CancelCommit, CancelScans, KeepClocks, ScanStatus, StageStatus, rows, policy, txs, sensors, history
<1>12. ASSUME NEW s \in Scans, NEW i \in Positions, AdvanceDispatches(s, i) PROVE TypeOK'
  BY SMTT(60), <1>12, MessageTypes DEF TypeOK, AdvanceDispatches, SkipBefore, Handled, Upset, StageStatus, Stages, Jobs, rows, policy, txs, sensors, history
<1>13. ASSUME NEW j \in JobsKnown, PublishJob(j) PROVE TypeOK'
  BY SMTT(60), <1>13, JobsKnownType DEF TypeOK, PublishJob, rows, policy, txs, sensors, history
<1>14. ASSUME NEW j \in JobsKnown, PublishRaises(j) PROVE TypeOK'
  BY SMTT(60), <1>14, JobsKnownType DEF TypeOK, PublishRaises, rows, policy, txs, sensors, history
<1>15. ASSUME NEW j \in JobsKnown, DispatchFailed(j) PROVE TypeOK'
  BY SMTT(60), <1>15, JobsKnownType, StageOfType, MessageTypes DEF TypeOK, DispatchFailed, FailStage, FailedAs, KeepClocks, StageStatus, rows, policy, txs, sensors, history
<1>16. ASSUME NEW j \in JobsKnown, MarkDispatched(j) PROVE TypeOK'
  BY <1>16, JobsKnownType, StageOfType, Zenon DEF TypeOK, MarkDispatched, rows, policy, txs, sensors, history
<1>17. ASSUME NEW j \in JobsKnown, PublisherCrash(j) PROVE TypeOK'
  BY SMTT(60), <1>17, JobsKnownType, StageOfType, MessageTypes DEF TypeOK, PublisherCrash, Upset, rows, policy, txs, sensors, history
<1>18. ASSUME NEW j \in JobsKnown, RunSensor(j) PROVE TypeOK'
  BY SMTT(60), <1>18, JobsKnownType, StageOfType DEF TypeOK, RunSensor, rows, policy, txs, sensors, history
<1>19. ASSUME NEW j \in JobsKnown, IgnoreRedelivery(j) PROVE TypeOK'
  BY <1>19, JobsKnownType, ZenonT(60) DEF TypeOK, IgnoreRedelivery, rows, policy, txs, sensors, history
<1>20. ASSUME NEW j \in JobsKnown, SensorCrash(j) PROVE TypeOK'
  BY SMTT(60), <1>20, JobsKnownType DEF TypeOK, SensorCrash, Upset, rows, policy, txs, sensors, history
<1>21. ASSUME NEW j \in JobsKnown, RevokeTakesEffect(j) PROVE TypeOK'
  BY <1>21, JobsKnownType, ZenonT(60) DEF TypeOK, RevokeTakesEffect, rows, policy, txs, sensors, history
<1>22. ASSUME NEW j \in JobsKnown, NEW outcome \in Outcomes, SubmitResult(j, outcome) PROVE TypeOK'
  BY SMTT(60), <1>22, JobsKnownType DEF TypeOK, SubmitResult, rows, policy, txs, sensors, history
<1>23. ASSUME NEW r \in results, ReceiveResult(r[1], r[2]) PROVE TypeOK'
  BY SMTT(60), <1>23, StageOfType, MessageTypes DEF TypeOK, ReceiveResult, KeepClocks, FailedAs, Upset, StageStatus, Outcomes, rows, policy, txs, sensors, history
<1>24. ASSUME NEW r \in results, RejectResult(r[1], r[2]) PROVE TypeOK'
  BY <1>24, ZenonT(60) DEF TypeOK, RejectResult, rows, policy, txs, sensors, history
<1>25. ASSUME NEW p \in Stages, StageFailed(p) PROVE TypeOK'
  BY SMTT(60), <1>25, MessageTypes DEF TypeOK, StageFailed, FailStage, FailedAs, KeepClocks, Handled, Upset, Stages, StageStatus, rows, policy, txs, sensors, history
<1>26. ASSUME NEW p \in Stages, Tick(p) PROVE TypeOK'
  BY <1>26 DEF TypeOK, Tick, rows, policy, txs, sensors, history
<1>27. ASSUME DispatchQueuedScans PROVE TypeOK'
  BY ZenonT(60), <1>27, MessageTypes, Zenon DEF TypeOK, DispatchQueuedScans, rows, policy, txs, sensors, history
<1>28. ASSUME Watchdog PROVE TypeOK'
  BY SMTT(60), <1>28, MessageTypes DEF TypeOK, Watchdog, Stuck, Stranded, Running, rows, policy, txs, sensors, history
<1>29. ASSUME LoseMessage PROVE TypeOK'
  BY SMTT(60), <1>29 DEF TypeOK, LoseMessage, Upset, rows, policy, txs, sensors, history
<1>30. ASSUME NEW t \in Tenants, SuspendTenant(t) PROVE TypeOK'
  BY SMTT(60), <1>30, RunningTasksType DEF TypeOK, SuspendTenant, CancelScans, KeepClocks, Upset, ScanStatus, StageStatus, rows, policy, txs, sensors, history
<1>31. ASSUME NEW t \in Tenants, ReactivateTenant(t) PROVE TypeOK'
  BY SMTT(60), <1>31 DEF TypeOK, ReactivateTenant, Upset, rows, policy, txs, sensors, history
<1>32. ASSUME NEW t \in Tenants, ToggleOrganization(t) PROVE TypeOK'
  BY SMTT(60), <1>32 DEF TypeOK, ToggleOrganization, Upset, rows, policy, txs, sensors, history
<1>33. CASE UNCHANGED vars
  BY <1>33, Zenon DEF TypeOK, vars, rows, policy, txs, sensors, history
<1> QED
  BY <1>1, <1>2, <1>3, <1>4, <1>5, <1>6, <1>7, <1>8, <1>9, <1>10, <1>11, <1>12, <1>13, <1>14, <1>15, <1>16, <1>17, <1>18, <1>19, <1>20, <1>21, <1>22, <1>23, <1>24, <1>25, <1>26, <1>27, <1>28, <1>29, <1>30, <1>31, <1>32, <1>33, ZenonT(60) DEF Next

\* Type correctness: in every reachable state the rows, queues and worker sets
\* of the pipeline have their types, for every instance.
THEOREM TypeCorrect == Spec => []TypeOK
<1>1. Init => TypeOK
  BY ConstantsAssumption DEF Init, TypeOK, ScanStatus, StageStatus, StartSteps
<1> QED
  BY <1>1, TypeStep, PTL DEF Spec

-----------------------------------------------------------------------------
(* One job, one run, one result per stage *)

\* A job is determined by its stage and its number.
LEMMA JobIdentity ==
    \A j \in Jobs : j = <<StageOf(j)[1], StageOf(j)[2], j[3]>>
BY DEF Jobs, StageOf

\* Cancelling scans opens no stage and touches no running or pending one elsewhere.
LEMMA CancelCloses ==
    ASSUME TypeOK, NEW S, NEW loaded, CancelScans(S, loaded), NEW p \in Stages
    PROVE  stage'[p] \in {stage[p], "cancelled"}
BY Zenon DEF TypeOK, CancelScans

\* Handlers that write stages without dispatching keep WorkInv when no stage reopens.
LEMMA WorkFrame ==
    ASSUME TypeOK, WorkInv, \A p \in Stages : stage'[p] \in OpenStage => stage'[p] = stage[p],
           UNCHANGED <<taskId, traffic, ingests, claimed>>,
           jobs' \subseteq jobs \cup {q[1] : q \in publisher} \cup claimed,
           executing' \subseteq executing,
           \A r \in results' : r \in results \/ r[1] \in executing,
           \A q \in publisher' : \E o \in publisher : q[1] = o[1]
    PROVE  WorkInv'
<1>1. ASSUME NEW j \in claimed PROVE j[3] = 1 /\ taskId[StageOf(j)] = 1
  <2>1. StageOf(j) \in Stages
    BY StageOfType, Zenon DEF TypeOK
  <2>2. taskId[StageOf(j)] \in Nat
    BY <2>1, Zenon DEF TypeOK
  <2>3. j[3] = 1 /\ traffic[StageOf(j)] = 1
    BY Zenon DEF WorkInv
  <2>4. taskId[StageOf(j)] <= 1 /\ traffic[StageOf(j)] <= taskId[StageOf(j)]
    BY Zenon, <2>1 DEF WorkInv
  <2> QED
    BY <2>2, <2>3, <2>4
<1>2. \A q \in publisher : q[1][3] = 1 /\ taskId[StageOf(q[1])] = 1
  BY Zenon DEF WorkInv
<1>3. \A j \in jobs' : j[3] = 1 /\ taskId'[StageOf(j)] = 1
  BY <1>1, <1>2 DEF WorkInv
<1>4. \A q \in publisher' : q[1][3] = 1 /\ taskId'[StageOf(q[1])] = 1
  BY <1>2, ZenonT(60)
<1>5. executing' \subseteq claimed' /\ \A r \in results' : r[1] \in claimed'
  BY Zenon DEF WorkInv
<1>6. \A p \in Stages :
        /\ stage'[p] = "pending" => taskId'[p] = 0
        /\ stage'[p] \in OpenStage => ingests'[p] = 0
  BY ZenonT(60), Zenon DEF WorkInv, OpenStage
<1> QED
  BY <1>3, <1>4, <1>5, <1>6, Zenon DEF WorkInv

LEMMA WorkStep == TypeOK /\ WorkInv /\ [Next]_vars => WorkInv'
<1> SUFFICES ASSUME TypeOK, WorkInv, [Next]_vars PROVE WorkInv'
  BY Zenon
<1> USE ConstantsAssumption DEF rows, policy, txs, sensors, history
<1>1. ASSUME NEW s \in Scans,
             CreateCheck(s) \/ CreateCommit(s) \/ StartLock(s) \/ StartCheck(s) \/ StartAbort(s)
             \/ AdvanceIgnored(s) \/ CancelLoad(s)
      PROVE  WorkInv'
  BY <1>1, Zenon DEF WorkInv, CreateCheck, CreateCommit, StartLock, StartCheck, StartAbort, AdvanceIgnored, CancelLoad
<1>2. ASSUME NEW s \in Scans, StartCommit(s) PROVE WorkInv'
  <2>1. \A p \in Stages : stage'[p] \in {stage[p], "cancelled"}
    <3>1. CASE starter[s] = "cancel"
      <4>1. CancelScans({s}, stage)
        BY <1>2, <3>1, Zenon DEF StartCommit
      <4> QED
        BY <4>1, CancelCloses, Zenon
    <3>2. CASE starter[s] # "cancel"
      BY <1>2, <3>2, Zenon DEF StartCommit
    <3> QED
      BY <3>1, <3>2, Zenon
  <2> QED
    BY <1>2, <2>1, WorkFrame, Zenon DEF StartCommit, OpenStage
<1>3. ASSUME NEW s \in Scans, AdvanceCancels(s) PROVE WorkInv'
  <2>1. \A p \in Stages : stage'[p] \in {stage[p], "cancelled"}
    BY <1>3, CancelCloses, Zenon DEF AdvanceCancels
  <2> QED
    BY <1>3, <2>1, WorkFrame, Zenon DEF AdvanceCancels, OpenStage
<1>4. ASSUME NEW s \in Scans, CancelCommit(s) PROVE WorkInv'
  <2>1. \A p \in Stages : stage'[p] \in {stage[p], "cancelled"}
    BY <1>4, CancelCloses, Zenon DEF CancelCommit
  <2> QED
    BY <1>4, <2>1, WorkFrame, Zenon DEF CancelCommit, OpenStage
<1>5. ASSUME NEW t \in Tenants, SuspendTenant(t) PROVE WorkInv'
  <2>1. \A p \in Stages : stage'[p] \in {stage[p], "cancelled"}
    BY <1>5, CancelCloses, Zenon DEF SuspendTenant
  <2> QED
    BY <1>5, <2>1, WorkFrame, Zenon DEF SuspendTenant, OpenStage
<1>6. ASSUME NEW s \in Scans, AdvanceFinalizes(s) PROVE WorkInv'
  <2>1. \A p \in Stages : stage'[p] \in {stage[p], "skipped"}
    BY <1>6, Zenon DEF AdvanceFinalizes, SkipBefore
  <2> QED
    BY <1>6, <2>1, WorkFrame, Zenon DEF AdvanceFinalizes, OpenStage
<1>7. ASSUME NEW s \in Scans, NEW i \in Positions, AdvanceDispatches(s, i) PROVE WorkInv'
  <2> DEFINE p == <<s, i>>
  <2>1. p \in Stages /\ taskId[p] = 0 /\ taskId'[p] = 1 /\ ingests[p] = 0 /\ traffic[p] = 0
    <3>1. p \in Stages
      BY Zenon DEF Stages
    <3>2. stage[p] = "pending" /\ taskId' = [taskId EXCEPT ![p] = taskId[p] + 1]
      BY <1>7, Zenon DEF AdvanceDispatches
    <3>3. taskId[p] = 0 /\ traffic[p] <= 0 /\ ingests[p] <= traffic[p]
      BY ZenonT(60), <3>1, <3>2, Zenon DEF WorkInv
    <3>4. traffic[p] \in Nat /\ ingests[p] \in Nat
      BY <3>1, Zenon DEF TypeOK
    <3> QED
      BY <3>1, <3>2, <3>3, <3>4 DEF TypeOK
  <2>2. \A q \in Stages \ {p} : taskId'[q] = taskId[q] /\ stage'[q] \in {stage[q], "skipped"}
    BY <1>7, Zenon DEF AdvanceDispatches, SkipBefore, TypeOK, Stages
  <2>3. stage'[p] = "running"
    BY <1>7, <2>1, Zenon DEF AdvanceDispatches, SkipBefore, TypeOK, Stages
  <2>4. publisher' = publisher \cup {<<<<s, i, 1>>, "publish">>}
    <3>1. publisher' = publisher \cup {<<<<s, i, taskId[p] + 1>>, "publish">>}
      BY ZenonT(60), <1>7, Zenon DEF AdvanceDispatches
    <3>2. taskId[p] + 1 = 1
      BY <2>1
    <3> QED
      BY Zenon, <3>1, <3>2
  <2>5. UNCHANGED <<traffic, ingests, claimed, jobs, executing, results>>
    BY ZenonT(60), <1>7, Zenon DEF AdvanceDispatches
  <2>6. \A q \in Stages : taskId[q] = 1 => taskId'[q] = 1
    BY <2>1, <2>2, Zenon
  <2>7. \A q \in publisher' : q[1][3] = 1 /\ taskId'[StageOf(q[1])] = 1
    <3>1. \A q \in publisher : q[1][3] = 1 /\ taskId'[StageOf(q[1])] = 1
      BY <2>6, StageOfType, Zenon DEF WorkInv, TypeOK
    <3>2. StageOf(<<s, i, 1>>) = p
      BY Zenon DEF StageOf
    <3> QED
      BY SMTT(60), <2>1, <2>4, <3>1, <3>2
  <2>8. \A j \in jobs : j[3] = 1 /\ taskId'[StageOf(j)] = 1
    BY <2>6, StageOfType, Zenon DEF WorkInv, TypeOK
  <2>9. \A q \in Stages :
          /\ taskId'[q] <= 1 /\ traffic[q] <= taskId'[q] /\ ingests[q] <= traffic[q]
          /\ stage'[q] = "pending" => taskId'[q] = 0
          /\ stage'[q] \in OpenStage => ingests[q] = 0
    <3> TAKE q \in Stages
    <3>1. CASE q = p
      BY <2>1, <2>3, <3>1
    <3>2. CASE q # p
      BY ZenonT(60), <2>2, <3>2, Zenon DEF WorkInv, OpenStage
    <3> QED
      BY <3>1, <3>2, Zenon
  <2> HIDE DEF p
  <2> QED
    BY <2>5, <2>7, <2>8, <2>9, ZenonT(60) DEF WorkInv
<1>8. ASSUME NEW j \in JobsKnown, PublishJob(j) \/ PublishRaises(j) PROVE WorkInv'
  <2>1. jobs' \subseteq jobs \cup {q[1] : q \in publisher}
    <3>1. j \in {q[1] : q \in publisher}
      <4>1. \E q \in publisher : q[1] = j
        BY <1>8, Zenon DEF PublishJob, PublishRaises
      <4> QED
        BY <4>1, Zenon
    <3> QED
      BY <1>8, <3>1, Zenon DEF PublishJob, PublishRaises
  <2>2. \A q \in publisher' : \E o \in publisher : q[1] = o[1]
    BY SMTT(60), <1>8 DEF PublishJob, PublishRaises
  <2>3. UNCHANGED <<stage, taskId, traffic, ingests, claimed, executing, results>>
    BY <1>8, Zenon DEF PublishJob, PublishRaises
  <2> QED
    BY <2>1, <2>2, <2>3, WorkFrame, Zenon
<1>9. ASSUME NEW j \in JobsKnown, DispatchFailed(j) PROVE WorkInv'
  <2>1. \A p \in Stages : stage'[p] \in OpenStage => stage'[p] = stage[p]
    BY SMTT(60), <1>9, JobsKnownType, StageOfType DEF DispatchFailed, FailStage, FailedAs, TypeOK, OpenStage
  <2>2. \A q \in publisher' : q \in publisher
    BY Zenon, <1>9 DEF DispatchFailed
  <2>3. UNCHANGED <<taskId, traffic, ingests, claimed, jobs, executing, results>>
    BY ZenonT(60), <1>9, Zenon DEF DispatchFailed
  <2> QED
    BY <2>1, <2>2, <2>3, WorkFrame, ZenonT(60)
<1>10. ASSUME NEW j \in JobsKnown, MarkDispatched(j) \/ PublisherCrash(j) PROVE WorkInv'
  <2>1. publisher' \subseteq publisher /\ UNCHANGED <<stage, taskId, traffic, ingests, claimed, jobs, executing, results>>
    BY <1>10, Zenon DEF MarkDispatched, PublisherCrash
  <2> QED
    BY <2>1, Zenon DEF WorkInv
<1>11. ASSUME NEW j \in JobsKnown, RunSensor(j) PROVE WorkInv'
  <2> DEFINE p == StageOf(j)
  <2>1. j \in Jobs /\ p \in Stages /\ j[3] = 1 /\ taskId[p] = 1 /\ j = <<p[1], p[2], 1>>
    BY <1>11, JobsKnownType, StageOfType, JobIdentity, ZenonT(60) DEF RunSensor, WorkInv
  <2>2. traffic[p] = 0
    BY SMTT(60), <1>11, <2>1 DEF RunSensor, WorkInv, TypeOK
  <2>3. traffic'[p] = 1 /\ \A q \in Stages \ {p} : traffic'[q] = traffic[q]
    BY SMTT(60), <1>11, <2>1, <2>2 DEF RunSensor, TypeOK
  <2>4. /\ claimed' = claimed \cup {j} /\ executing' = executing \cup {j}
        /\ UNCHANGED <<stage, taskId, ingests, jobs, results, publisher>>
    BY <1>11, ZenonT(60) DEF RunSensor
  <2>5. \A k \in claimed : StageOf(k) \in Stages /\ StageOf(k) # p
    BY SMTT(60), <2>2, StageOfType DEF WorkInv, TypeOK
  <2>6. \A q \in Stages :
          /\ traffic'[q] <= taskId[q] /\ ingests[q] <= traffic'[q]
          /\ traffic'[q] > 0 => <<q[1], q[2], 1>> \in claimed'
    <3> TAKE q \in Stages
    <3>1. CASE q = p
      BY SMTT(60), <2>1, <2>2, <2>3, <2>4, <3>1 DEF WorkInv, TypeOK
    <3>2. CASE q # p
      BY <2>3, <2>4, <3>2, ZenonT(60) DEF WorkInv
    <3> QED
      BY <3>1, <3>2, Zenon
  <2>7. \A k \in claimed' : k[3] = 1 /\ traffic'[StageOf(k)] = 1
    BY SMTT(60), <2>1, <2>3, <2>4, <2>5 DEF WorkInv
  <2> HIDE DEF p
  <2> QED
    BY <2>4, <2>6, <2>7, Zenon DEF WorkInv
<1>12. ASSUME NEW j \in JobsKnown, IgnoreRedelivery(j) \/ SensorCrash(j) \/ RevokeTakesEffect(j) PROVE WorkInv'
  <2>1. /\ jobs' \subseteq jobs \cup claimed /\ executing' \subseteq executing
        /\ UNCHANGED <<stage, taskId, traffic, ingests, claimed, results, publisher>>
    BY <1>12, Zenon DEF IgnoreRedelivery, SensorCrash, RevokeTakesEffect, WorkInv
  <2> QED
    BY <2>1, WorkFrame, Zenon
<1>13. ASSUME NEW j \in JobsKnown, NEW outcome \in Outcomes, SubmitResult(j, outcome) PROVE WorkInv'
  <2>1. /\ jobs' \subseteq jobs /\ executing' \subseteq executing
        /\ \A r \in results' : r \in results \/ r[1] \in executing
        /\ UNCHANGED <<stage, taskId, traffic, ingests, claimed, publisher>>
    BY SMTT(60), <1>13 DEF SubmitResult
  <2> QED
    BY <2>1, WorkFrame, Zenon
<1>14. ASSUME NEW r \in results, ReceiveResult(r[1], r[2]) PROVE WorkInv'
  <2> DEFINE p == StageOf(r[1])
  <2>1. r[1] \in Jobs /\ p \in Stages /\ r[2] \in Outcomes /\ stage[p] = "running" /\ ingests[p] = 0 /\ traffic[p] = 1
    BY ZenonT(60), <1>14, StageOfType, Zenon DEF ReceiveResult, Bound, WorkInv, TypeOK, OpenStage
  <2> DEFINE end == IF r[2] = "failed" THEN FailedAs(p) ELSE r[2]
             count == IF r[2] = "failed" THEN ingests[p] ELSE ingests[p] + 1
  <2>a. stage' = [stage EXCEPT ![p] = end] /\ ingests' = [ingests EXCEPT ![p] = count]
    BY Zenon, <1>14 DEF ReceiveResult
  <2>b. stage \in [Stages -> StageStatus] /\ ingests \in [Stages -> Nat]
    BY Zenon DEF TypeOK
  <2>c. end \notin OpenStage /\ count \in {0, 1}
    BY <2>1 DEF FailedAs, OpenStage, Outcomes
  <2> HIDE DEF end, count
  <2>2. stage'[p] \notin OpenStage /\ ingests'[p] \in {0, 1}
    BY <2>1, <2>a, <2>b, <2>c, Zenon
  <2>3. \A q \in Stages \ {p} : stage'[q] = stage[q] /\ ingests'[q] = ingests[q]
    BY <2>a, <2>b, Zenon
  <2>4. results' \subseteq results /\ UNCHANGED <<taskId, traffic, claimed, jobs, executing, publisher>>
    BY <1>14, Zenon DEF ReceiveResult
  <2>5. \A q \in Stages :
          /\ ingests'[q] <= traffic[q]
          /\ stage'[q] = "pending" => taskId[q] = 0
          /\ stage'[q] \in OpenStage => ingests'[q] = 0
    <3> TAKE q \in Stages
    <3>1. CASE q = p
      BY <2>1, <2>2, <3>1 DEF OpenStage
    <3>2. CASE q # p
      BY ZenonT(60), <2>3, <3>2, Zenon DEF WorkInv
    <3> QED
      BY <3>1, <3>2, Zenon
  <2> HIDE DEF p
  <2> QED
    BY <2>4, <2>5, Zenon DEF WorkInv
<1>15. ASSUME NEW r \in results, RejectResult(r[1], r[2]) PROVE WorkInv'
  BY <1>15, Zenon DEF RejectResult, WorkInv
<1>16. ASSUME NEW p \in Stages, StageFailed(p) PROVE WorkInv'
  <2>1. \A q \in Stages : stage'[q] \in OpenStage => stage'[q] = stage[q]
    BY <1>16, Zenon DEF StageFailed, FailStage, FailedAs, TypeOK, OpenStage
  <2>2. UNCHANGED <<taskId, traffic, ingests, claimed, jobs, executing, results, publisher>>
    BY <1>16, Zenon DEF StageFailed
  <2> QED
    BY <2>1, <2>2, WorkFrame, Zenon
<1>17. ASSUME NEW p \in Stages, Tick(p) PROVE WorkInv'
  BY <1>17, ZenonT(60) DEF Tick, WorkInv
<1>18. ASSUME DispatchQueuedScans \/ Watchdog \/ LoseMessage PROVE WorkInv'
  BY SMTT(60), <1>18 DEF DispatchQueuedScans, Watchdog, LoseMessage, WorkInv
<1>19. ASSUME NEW t \in Tenants, ReactivateTenant(t) \/ ToggleOrganization(t) PROVE WorkInv'
  <2>1. UNCHANGED <<stage, taskId, traffic, ingests, claimed, jobs, executing, results, publisher>>
    BY <1>19, Zenon DEF ReactivateTenant, ToggleOrganization
  <2> QED
    BY ZenonT(60), <2>1, Zenon DEF WorkInv
<1>20. CASE UNCHANGED vars
  BY Zenon, <1>20 DEF vars, WorkInv
<1> QED
  BY Zenon, <1>1, <1>2, <1>3, <1>4, <1>5, <1>6, <1>7, <1>8, <1>9, <1>10, <1>11, <1>12, <1>13, <1>14, <1>15,
     <1>16, <1>17, <1>18, <1>19, <1>20 DEF Next

\* At most one job, one run of it and one ingested result per stage, whatever the
\* broker redelivers and whoever crashes.
THEOREM StageWorkedOnce == Spec => []WorkOnce
<1>1. Init => WorkInv
  BY DEF Init, WorkInv
<1>2. WorkInv => WorkOnce
  BY Zenon DEF WorkInv, WorkOnce
<1> QED
  BY <1>1, <1>2, TypeCorrect, WorkStep, PTL DEF Spec

-----------------------------------------------------------------------------
(* One stage at a time, in order *)

\* Only advance_scan opens a stage for work; no other handler reopens or redispatches.
LEMMA OnlyDispatchOpens ==
    ASSUME TypeOK, [Next]_vars, ~\E s \in Scans, i \in Positions : AdvanceDispatches(s, i)
    PROVE  /\ \A p \in Stages : stage'[p] \in OpenStage => stage'[p] = stage[p]
           /\ taskId' = taskId
<1> DEFINE Closing == /\ \A p \in Stages : stage'[p] \in OpenStage => stage'[p] = stage[p]
                      /\ taskId' = taskId
<1> USE DEF rows, policy, txs, sensors, history
<1>1. ASSUME NEW S, NEW loaded, CancelScans(S, loaded), taskId' = taskId PROVE Closing
  BY <1>1, CancelCloses, Zenon DEF OpenStage
<1>2. ASSUME NEW s \in Scans, StartCommit(s) PROVE Closing
  <2>1. CASE starter[s] = "cancel"
    <3>1. CancelScans({s}, stage) /\ taskId' = taskId
      BY <1>2, <2>1, Zenon DEF StartCommit
    <3> QED
      BY <3>1, <1>1, Zenon
  <2>2. CASE starter[s] # "cancel"
    BY <1>2, <2>2, Zenon DEF StartCommit
  <2> QED
    BY <2>1, <2>2, Zenon
<1>3. ASSUME NEW s \in Scans, AdvanceCancels(s) \/ CancelCommit(s) PROVE Closing
  BY <1>1, <1>3, Zenon DEF AdvanceCancels, CancelCommit
<1>4. ASSUME NEW t \in Tenants, SuspendTenant(t) PROVE Closing
  BY <1>1, <1>4, Zenon DEF SuspendTenant
<1>5. ASSUME NEW s \in Scans, AdvanceFinalizes(s) PROVE Closing
  BY <1>5, ZenonT(60) DEF AdvanceFinalizes, SkipBefore, OpenStage
<1>6. ASSUME NEW j \in JobsKnown, DispatchFailed(j) PROVE Closing
  BY SMTT(60), <1>6, JobsKnownType, StageOfType DEF DispatchFailed, FailStage, FailedAs, TypeOK, OpenStage
<1>7. ASSUME NEW r \in results, ReceiveResult(r[1], r[2]) PROVE Closing
  <2>1. StageOf(r[1]) \in Stages /\ r[2] \in Outcomes
    BY StageOfType, Zenon DEF TypeOK
  <2> QED
    BY <1>7, <2>1, Zenon DEF ReceiveResult, FailedAs, TypeOK, OpenStage, Outcomes
<1>8. ASSUME NEW p \in Stages, StageFailed(p) PROVE Closing
  BY <1>8, Zenon DEF StageFailed, FailStage, FailedAs, TypeOK, OpenStage
<1>9. ASSUME NEW s \in Scans,
              CreateCheck(s) \/ CreateCommit(s) \/ StartLock(s) \/ StartCheck(s) \/ StartAbort(s)
              \/ AdvanceIgnored(s) \/ CancelLoad(s)
       PROVE  Closing
  BY <1>9, Zenon DEF CreateCheck, CreateCommit, StartLock, StartCheck, StartAbort, AdvanceIgnored, CancelLoad
<1>10. ASSUME NEW j \in JobsKnown,
              PublishJob(j) \/ PublishRaises(j) \/ MarkDispatched(j) \/ PublisherCrash(j) \/ RunSensor(j)
              \/ IgnoreRedelivery(j) \/ SensorCrash(j) \/ RevokeTakesEffect(j)
              \/ \E outcome \in Outcomes : SubmitResult(j, outcome)
       PROVE  Closing
  BY <1>10, Zenon DEF PublishJob, PublishRaises, MarkDispatched, PublisherCrash, RunSensor, IgnoreRedelivery,
     SensorCrash, RevokeTakesEffect, SubmitResult
<1>11. ASSUME NEW r \in results, RejectResult(r[1], r[2]) PROVE Closing
  BY <1>11, Zenon DEF RejectResult
<1>12. ASSUME NEW p \in Stages, Tick(p) PROVE Closing
  BY <1>12, Zenon DEF Tick
<1>13. ASSUME DispatchQueuedScans \/ Watchdog \/ LoseMessage PROVE Closing
  BY <1>13, Zenon DEF DispatchQueuedScans, Watchdog, LoseMessage
<1>14. ASSUME NEW t \in Tenants, ReactivateTenant(t) \/ ToggleOrganization(t) PROVE Closing
  BY <1>14, Zenon DEF ReactivateTenant, ToggleOrganization
<1>15. CASE UNCHANGED vars
  BY SMTT(60), <1>15 DEF vars
<1> QED
  BY <1>2, <1>3, <1>4, <1>5, <1>6, <1>7, <1>8, <1>9, <1>10, <1>11, <1>12, <1>13, <1>14, <1>15, ZenonT(60) DEF Next

\* A cancel request's view changes only when it is loaded and when it is used.
LEMMA ViewFrame ==
    ASSUME [Next]_vars, ~\E s \in Scans : CancelLoad(s) \/ CancelCommit(s)
    PROVE  UNCHANGED <<viewStatus, viewStage>>
BY ZenonT(60) DEF Next, vars, rows, policy, txs, sensors, history, CreateCheck, CreateCommit, StartLock, StartCheck,
   StartCommit, StartAbort, AdvanceIgnored, AdvanceCancels, AdvanceFinalizes, AdvanceDispatches,
   PublishJob, PublishRaises, DispatchFailed, MarkDispatched, PublisherCrash, RunSensor, IgnoreRedelivery,
   SensorCrash, RevokeTakesEffect, SubmitResult, ReceiveResult, RejectResult, StageFailed, Tick,
   DispatchQueuedScans, Watchdog, LoseMessage, SuspendTenant, ReactivateTenant, ToggleOrganization

\* What a dispatch does to the stages: earlier pending ones are skipped, one runs.
LEMMA DispatchEffect ==
    ASSUME TypeOK, NEW s \in Scans, NEW i \in Positions, AdvanceDispatches(s, i)
    PROVE  /\ <<s, i>> \in Stages /\ stage[<<s, i>>] = "pending" /\ stage'[<<s, i>>] = "running"
           /\ taskId'[<<s, i>>] = taskId[<<s, i>>] + 1
           /\ \A p \in Stages \ {<<s, i>>} :
                 /\ taskId'[p] = taskId[p] /\ stage'[p] \in {stage[p], "skipped"}
                 /\ p[1] = s => stage[p] # "running"
                 /\ p[1] = s /\ p[2] < i => stage'[p] \notin OpenStage
<1>1. <<s, i>> \in Stages /\ stage[<<s, i>>] = "pending" /\ stage'[<<s, i>>] = "running"
      /\ taskId'[<<s, i>>] = taskId[<<s, i>>] + 1
  BY Zenon DEF AdvanceDispatches, SkipBefore, TypeOK, Stages
<1>2. ASSUME NEW p \in Stages \ {<<s, i>>}
      PROVE  taskId'[p] = taskId[p] /\ stage'[p] = SkipBefore(s, i)[p]
  BY <1>2, <1>1, Zenon DEF AdvanceDispatches, SkipBefore, TypeOK
<1>3. ASSUME NEW p \in Stages, p[1] = s PROVE stage[p] # "running"
  <2>1. p[2] \in Positions /\ p = <<s, p[2]>>
    BY <1>3 DEF Stages
  <2> QED
    BY <2>1, Zenon DEF AdvanceDispatches, AdvanceReady, InFlight
<1> QED
  BY <1>1, <1>2, <1>3, Zenon DEF SkipBefore, OpenStage

LEMMA OrderStep == TypeOK /\ OrderInv /\ [Next]_vars => OrderInv'
<1> SUFFICES ASSUME TypeOK, OrderInv, [Next]_vars PROVE OrderInv'
  BY Zenon
<1>0. \A s \in Scans, i \in Positions : <<s, i>> \in Stages
  BY Zenon DEF Stages
<1>1. ASSUME NEW s \in Scans, NEW i \in Positions, AdvanceDispatches(s, i) PROVE OrderInv'
  <2>1. StagesInOrder'
    <3> SUFFICES ASSUME NEW r \in Scans, NEW h \in Positions, NEW k \in Positions,
                        h < k, taskId'[<<r, k>>] > 0
                 PROVE  stage'[<<r, h>>] \notin OpenStage
      BY ZenonT(60) DEF StagesInOrder
    <3>1. CASE <<r, k>> = <<s, i>>
      BY <1>0, <1>1, <3>1, DispatchEffect DEF Positions
    <3>2. CASE <<r, k>> # <<s, i>>
      <4>1. stage[<<r, h>>] \notin OpenStage
        BY ZenonT(60), <1>0, <1>1, <3>2, DispatchEffect DEF OrderInv, StagesInOrder
      <4> QED
        BY Zenon, <1>0, <1>1, <4>1, DispatchEffect DEF OpenStage
    <3> QED
      BY <3>1, <3>2, Zenon
  <2>2. OneStageInFlight'
    <3>1. ASSUME NEW r \in Scans, NEW h \in Positions, stage'[<<r, h>>] = "running", <<r, h>> # <<s, i>>
          PROVE  r # s /\ stage[<<r, h>>] = "running"
      BY Zenon, <1>0, <1>1, <3>1, DispatchEffect
    <3> QED
      BY <3>1, ZenonT(60) DEF OrderInv, OneStageInFlight
  <2>3. UNCHANGED <<viewStatus, viewStage>>
    BY <1>1, Zenon DEF AdvanceDispatches, txs
  <2>4. \A p \in Stages : stage'[p] \in OpenStage => stage[p] \in OpenStage
    BY Zenon, <1>1, DispatchEffect DEF OpenStage
  <2> QED
    BY <2>1, <2>2, <2>3, <2>4, Zenon DEF OrderInv
<1>2. ASSUME ~\E s \in Scans, i \in Positions : AdvanceDispatches(s, i) PROVE OrderInv'
  <2>1. /\ \A p \in Stages : stage'[p] \in OpenStage => stage'[p] = stage[p]
        /\ taskId' = taskId
    BY <1>2, OnlyDispatchOpens, ZenonT(60)
  <2>2. StagesInOrder' /\ OneStageInFlight'
    BY <1>0, <2>1 DEF OrderInv, StagesInOrder, OneStageInFlight, OpenStage
  <2> DEFINE ViewOpen ==
        \A p \in Stages : viewStatus'[p[1]] # "none" /\ stage'[p] \in OpenStage => viewStage'[p] \in OpenStage
  <2>3. ViewOpen
    <3>1. ASSUME NEW s \in Scans, CancelLoad(s) PROVE ViewOpen
      BY <1>0, <3>1, Zenon DEF CancelLoad, TypeOK, OrderInv, rows, Stages
    <3>2. ASSUME NEW s \in Scans, CancelCommit(s) PROVE ViewOpen
      BY <3>2, <2>1, Zenon DEF CancelCommit, TypeOK, OrderInv, Stages
    <3>3. CASE ~\E s \in Scans : CancelLoad(s) \/ CancelCommit(s)
      BY <2>1, <3>3, ViewFrame, Zenon DEF OrderInv
    <3> QED
      BY <3>1, <3>2, <3>3, Zenon
  <2> QED
    BY <2>2, <2>3, Zenon DEF OrderInv
<1> QED
  BY <1>1, <1>2, Zenon

\* advance_scan, run twice or redelivered, never has two stages of a scan in flight
\* and never starts a stage before the earlier ones are over.
THEOREM StagesOneByOne == Spec => [](StagesInOrder /\ OneStageInFlight)
<1>1. Init => OrderInv
  BY DEF Init, OrderInv, StagesInOrder, OneStageInFlight, Stages
<1>2. OrderInv => StagesInOrder /\ OneStageInFlight
  BY ZenonT(60) DEF OrderInv
<1> QED
  BY <1>1, <1>2, TypeCorrect, OrderStep, PTL DEF Spec

-----------------------------------------------------------------------------
(* The pipeline implements the ledger *)

\* Only the result consumer ingests.
LEMMA IngestFrame ==
    ASSUME [Next]_vars, ~\E r \in results : ReceiveResult(r[1], r[2])
    PROVE  ingests' = ingests
BY ZenonT(60) DEF Next, vars, rows, policy, txs, sensors, history, CreateCheck, CreateCommit, StartLock, StartCheck,
   StartCommit, StartAbort, AdvanceIgnored, AdvanceCancels, AdvanceFinalizes, AdvanceDispatches, CancelLoad,
   CancelCommit, PublishJob, PublishRaises, DispatchFailed, MarkDispatched, PublisherCrash, RunSensor,
   IgnoreRedelivery, SensorCrash, RevokeTakesEffect, SubmitResult, RejectResult, StageFailed, Tick,
   DispatchQueuedScans, Watchdog, LoseMessage, SuspendTenant, ReactivateTenant, ToggleOrganization

\* A handler that only closes stages is a Close of the ledger.
LEMMA ClosingIsClose ==
    ASSUME TypeOK, ingests' = ingests, \A p \in Stages : stage'[p] \in OpenStage => stage'[p] = stage[p]
    PROVE  Ledger!Close
<1>1. \A p \in Stages : PhaseOf(p)' = PhaseOf(p) \/ (PhaseOf(p) \in Ledger!Open /\ PhaseOf(p)' = "closed")
  BY Zenon DEF PhaseOf, OpenStage, Ledger!Open
<1>2. \A p \in Stages : PhaseOf(p)' \in Ledger!Phases
  BY Zenon DEF PhaseOf, Ledger!Phases
<1> QED
  BY <1>1, <1>2, Zenon DEF Ledger!Close, Stages

LEMMA LedgerStep ==
    ASSUME TypeOK, WorkInv, [Next]_vars
    PROVE  Ledger!Next
<1>0. \A s \in Scans, i \in Positions : <<s, i>> \in Stages
  BY Zenon DEF Stages
<1>1. ASSUME NEW s \in Scans, NEW i \in Positions, AdvanceDispatches(s, i) PROVE Ledger!Start(s, i)
  <2>1. ingests' = ingests
    BY <1>1, Zenon DEF AdvanceDispatches, history
  <2>2. stage[<<s, i>>] = "pending" /\ stage'[<<s, i>>] = "running" /\ ingests[<<s, i>>] = 0
    BY Zenon, <1>0, <1>1, DispatchEffect DEF WorkInv, OpenStage
  <2>3. PhaseOf(<<s, i>>) = "waiting" /\ PhaseOf(<<s, i>>)' = "working"
    BY <2>1, <2>2 DEF PhaseOf
  <2>4. \A k \in Positions : PhaseOf(<<s, k>>) # "working"
    BY <1>1, Zenon DEF AdvanceDispatches, AdvanceReady, InFlight, PhaseOf
  <2>5. ASSUME NEW p \in Stages \ {<<s, i>>}
        PROVE  PhaseOf(p)' = IF p[1] = s /\ p[2] < i /\ PhaseOf(p) = "waiting" THEN "closed" ELSE PhaseOf(p)
    <3>1. stage'[p] = IF p[1] = s /\ p[2] < i /\ stage[p] = "pending" THEN "skipped" ELSE stage[p]
      BY <1>1, <2>5, Zenon DEF AdvanceDispatches, SkipBefore, TypeOK
    <3>2. stage[p] = "pending" => ingests[p] = 0
      BY Zenon DEF WorkInv, OpenStage
    <3>3. ingests'[p] = ingests[p] /\ ingests[p] \in Nat
      BY <2>1, Zenon DEF TypeOK
    <3> QED
      BY <3>1, <3>2, <3>3, Zenon DEF PhaseOf
  <2>6. [p \in Stages |-> PhaseOf(p)]' =
          [p \in Stages |-> IF p = <<s, i>> THEN "working"
                            ELSE IF p[1] = s /\ p[2] < i /\ PhaseOf(p) = "waiting" THEN "closed"
                            ELSE PhaseOf(p)]
    BY Zenon, <2>3, <2>5
  <2> QED
    BY <1>0, <2>3, <2>4, <2>6, Zenon DEF Ledger!Start, Stages
<1>2. ASSUME NEW r \in results, ReceiveResult(r[1], r[2]) PROVE Ledger!Next
  <2> DEFINE p == StageOf(r[1])
  <2>1. /\ p \in Stages /\ r[2] \in Outcomes /\ stage[p] = "running" /\ ingests[p] = 0
        /\ p[1] \in Scans /\ p[2] \in Positions /\ p = <<p[1], p[2]>>
    <3>1. p \in Stages /\ r[2] \in Outcomes
      BY StageOfType, Zenon DEF TypeOK
    <3>2. stage[p] = "running"
      BY <1>2, Zenon DEF ReceiveResult, Bound
    <3>3. ingests[p] = 0
      BY Zenon, <3>1, <3>2 DEF WorkInv, OpenStage
    <3>4. \A q \in Stages : q[1] \in Scans /\ q[2] \in Positions /\ q = <<q[1], q[2]>>
      BY SMTT(60) DEF Stages
    <3> QED
      BY <3>1, <3>2, <3>3, <3>4, Zenon
  <2>2. \A q \in Stages : stage'[q] \in OpenStage => stage'[q] = stage[q]
    BY <1>2, <2>1, Zenon DEF ReceiveResult, FailedAs, TypeOK, OpenStage, Outcomes
  <2>3. CASE r[2] = "failed"
    <3>1. ingests' = ingests
      BY <1>2, <2>1, <2>3, Zenon DEF ReceiveResult, TypeOK
    <3> QED
      BY <2>2, <3>1, ClosingIsClose, Zenon DEF Ledger!Next
  <2>4. CASE r[2] # "failed"
    <3>1. ingests'[p] = 1
      BY SMTT(60), <1>2, <2>1, <2>4 DEF ReceiveResult, TypeOK
    <3>2. \A q \in Stages \ {p} : stage'[q] = stage[q] /\ ingests'[q] = ingests[q]
      BY <1>2, <2>1, Zenon DEF ReceiveResult, TypeOK
    <3>3. PhaseOf(p) = "working" /\ PhaseOf(p)' = "applied"
      BY <2>1, <3>1 DEF PhaseOf
    <3>4. \A q \in Stages \ {p} : PhaseOf(q)' = PhaseOf(q)
      BY <3>2, Zenon DEF PhaseOf
    <3>5. [q \in Stages |-> PhaseOf(q)]' = [[q \in Stages |-> PhaseOf(q)] EXCEPT ![p] = "applied"]
      BY Zenon, <2>1, <3>3, <3>4
    <3>6. Ledger!Apply(p[1], p[2])
      BY Zenon, <2>1, <3>3, <3>5 DEF Ledger!Apply
    <3> QED
      BY <2>1, <3>6, ZenonT(60) DEF Ledger!Next
  <2> QED
    BY <2>3, <2>4, Zenon
<1>3. CASE /\ ~\E s \in Scans, i \in Positions : AdvanceDispatches(s, i)
           /\ ~\E r \in results : ReceiveResult(r[1], r[2])
  BY <1>3, OnlyDispatchOpens, IngestFrame, ClosingIsClose, Zenon DEF Ledger!Next
<1> QED
  BY <1>1, <1>2, <1>3, Zenon DEF Ledger!Next

\* The pipeline implements the ledger: whatever the handlers, queues and workers do,
\* each step starts one stage in order, applies one outcome or closes open stages.
THEOREM PipelineImplementsLedger == Spec => ImplementsLedger
<1>1. Init => Ledger!Init
  BY DEF Init, Ledger!Init, PhaseOf, Stages
<1>2. Init => WorkInv
  BY DEF Init, WorkInv
<1>3. TypeOK /\ WorkInv /\ [Next]_vars => [Ledger!Next]_([p \in Stages |-> PhaseOf(p)])
  BY LedgerStep, Zenon
<1> QED
  BY <1>1, <1>2, <1>3, TypeCorrect, WorkStep, PTL DEF Spec, ImplementsLedger, Ledger!Spec

-----------------------------------------------------------------------------
-----------------------------------------------------------------------------
(* The scan's row and its stages *)

Opened(s) == \E i \in Positions : stage[<<s, i>>] \in OpenStage

\* LifeInv, for one scan.
LifeAt(s) ==
    /\ scan[s] \in EndedScanStates => ~secret[s] /\ ~Opened(s)
    /\ cancelAcked[s] => ~Opened(s)
    /\ reported[s] <= 1
    /\ scan[s] \in {"completed", "partial", "failed"} => reported[s] = 1
    /\ InFlight(s) => scan[s] = "running" /\ tenantActive[TenantOf[s]]
    /\ creating[s] => scan[s] = "absent"
    /\ viewStatus[s] # "none" => scan[s] # "absent"
    /\ starter[s] # "idle" => scan[s] \in {"pending", "queued", "cancelled"}
    /\ scan[s] \in {"absent", "pending", "queued", "running"} => reported[s] = 0
    /\ starter[s] # "idle" => reported[s] = 0

LEMMA LifeByScan == LifeInv <=> \A s \in Scans : LifeAt(s)
BY Zenon DEF LifeInv, LifeAt, Opened, EndedIsClean, CancelStopsWork, ReportedOnce

LEMMA LifeByScanPrimed == LifeInv' <=> \A s \in Scans : LifeAt(s)'
BY Zenon DEF LifeInv, LifeAt, Opened, EndedIsClean, CancelStopsWork, ReportedOnce, InFlight

\* A step that leaves the row of scan s alone and opens no stage of it.
LEMMA LifeFrame ==
    ASSUME NEW s \in Scans, LifeAt(s),
           \A i \in Positions : stage'[<<s, i>>] \in OpenStage => stage'[<<s, i>>] = stage[<<s, i>>],
           scan'[s] = scan[s], secret'[s] = secret[s], cancelAcked'[s] = cancelAcked[s],
           reported'[s] = reported[s], creating'[s] = creating[s],
           tenantActive[TenantOf[s]] => tenantActive'[TenantOf[s]],
           starter'[s] # "idle" => starter[s] # "idle",
           viewStatus'[s] # "none" => scan[s] # "absent"
    PROVE  LifeAt(s)'
<1>1. Opened(s)' => Opened(s)
  BY Zenon DEF Opened, OpenStage
<1>2. InFlight(s)' => InFlight(s)
  BY Zenon DEF InFlight, OpenStage
<1> QED
  BY <1>1, <1>2, Zenon DEF LifeAt

\* Cancelling a scan that has no stage open outside the loaded ones.
LEMMA LifeCancel ==
    ASSUME TypeOK, NEW S, NEW loaded, NEW s \in Scans, s \in S, LifeAt(s), CancelScans(S, loaded),
           scan[s] # "absent",
           \A i \in Positions : stage[<<s, i>>] \in OpenStage => loaded[<<s, i>>] \in OpenStage,
           reported'[s] = reported[s], creating'[s] = creating[s],
           starter'[s] # "idle" => starter[s] # "idle"
    PROVE  LifeAt(s)'
<1>1. scan'[s] = "cancelled" /\ ~secret'[s]
  BY Zenon DEF CancelScans
<1>2. ASSUME NEW i \in Positions PROVE stage'[<<s, i>>] \notin OpenStage
  BY Zenon DEF CancelScans, OpenStage, Stages
<1>3. ~Opened(s)' /\ ~InFlight(s)'
  BY Zenon, <1>2 DEF Opened, InFlight, OpenStage
<1> QED
  BY <1>1, <1>3, Zenon DEF LifeAt

LEMMA LifeStep == TypeOK /\ OrderInv /\ LifeInv /\ [Next]_vars => LifeInv'
<1> SUFFICES ASSUME TypeOK, OrderInv, LifeInv, [Next]_vars, NEW z \in Scans PROVE LifeAt(z)'
  BY LifeByScanPrimed, Zenon
<1> USE ConstantsAssumption DEF rows, policy, txs, sensors, history
<1>0. /\ \A s \in Scans : LifeAt(s)
      /\ \A s \in Scans, i \in Positions : <<s, i>> \in Stages
      /\ \A s \in Scans : viewStatus'[s] # "none" => scan[s] # "absent"
  <2>1. \A s \in Scans : LifeAt(s)
    BY LifeByScan, Zenon
  <2>2. \A s \in Scans : viewStatus'[s] # "none" => scan[s] # "absent"
    <3>1. CASE ~\E s \in Scans : CancelLoad(s) \/ CancelCommit(s)
      BY <2>1, <3>1, ViewFrame, ZenonT(60) DEF LifeAt
    <3>2. ASSUME NEW s \in Scans, CancelLoad(s) \/ CancelCommit(s), NEW r \in Scans, viewStatus'[r] # "none"
          PROVE  scan[r] # "absent"
      BY <2>1, <3>2 DEF LifeAt, CancelLoad, CancelCommit, ActiveScanStates, TypeOK
    <3> QED
      BY <3>1, <3>2, Zenon
  <2> QED
    BY <2>1, <2>2, Zenon DEF Stages
<1>1. ASSUME NEW s \in Scans, CreateCheck(s) PROVE LifeAt(z)'
  BY Zenon, <1>0, <1>1 DEF CreateCheck, LifeAt, Opened, InFlight, TypeOK
<1>2. ASSUME NEW s \in Scans, CreateCommit(s) PROVE LifeAt(z)'
  <2>1. UNCHANGED <<stage, cancelAcked, reported, tenantActive, starter>>
    BY <1>2, Zenon DEF CreateCommit
  <2>2. CASE z = s
    <3>1. scan[z] = "absent" /\ scan'[z] = "pending" /\ creating'[z] = FALSE
      BY <1>0, <1>2, <2>2, Zenon DEF CreateCommit, LifeAt, TypeOK
    <3>2. ~InFlight(z)' /\ (Opened(z)' => Opened(z))
      BY <1>0, <2>1, <3>1, Zenon DEF LifeAt, InFlight, Opened
    <3> QED
      BY <1>0, <2>1, <3>1, <3>2, Zenon DEF LifeAt, EndedScanStates
  <2>3. CASE z # s
    <3>1. scan'[z] = scan[z] /\ secret'[z] = secret[z] /\ creating'[z] = creating[z]
      BY <1>2, <2>3, Zenon DEF CreateCommit, TypeOK
    <3> QED
      BY <1>0, <2>1, <3>1, LifeFrame, Zenon
  <2> QED
    BY <2>2, <2>3, Zenon
<1>3. ASSUME NEW s \in Scans, StartLock(s) PROVE LifeAt(z)'
  <2>1. UNCHANGED <<scan, stage, secret, cancelAcked, reported, creating, tenantActive>>
    BY <1>3, Zenon DEF StartLock
  <2>2. CASE starter'[z] = starter[z]
    BY <1>0, <2>1, <2>2, LifeFrame, Zenon
  <2>3. CASE starter'[z] # starter[z]
    <3>1. scan[z] \in {"pending", "queued"}
      BY <1>3, <2>3, Zenon DEF StartLock, TypeOK
    <3>2. Opened(z)' = Opened(z) /\ InFlight(z)' = InFlight(z)
      BY <2>1, Zenon DEF Opened, InFlight
    <3> QED
      BY <1>0, <2>1, <3>1, <3>2, Zenon DEF LifeAt
  <2> QED
    BY <2>2, <2>3, Zenon
<1>4. ASSUME NEW s \in Scans, StartCheck(s) \/ StartAbort(s) \/ AdvanceIgnored(s) \/ CancelLoad(s) PROVE LifeAt(z)'
  <2>1. UNCHANGED <<scan, stage, secret, cancelAcked, reported, creating, tenantActive>>
    BY <1>4, Zenon DEF StartCheck, StartAbort, AdvanceIgnored, CancelLoad
  <2>2. starter'[z] # "idle" => starter[z] # "idle"
    BY <1>4, Zenon DEF StartCheck, StartAbort, AdvanceIgnored, CancelLoad, TypeOK
  <2> QED
    BY <1>0, <2>1, <2>2, LifeFrame, Zenon
<1>5. ASSUME NEW s \in Scans, StartCommit(s) PROVE LifeAt(z)'
  <2>1. UNCHANGED <<cancelAcked, reported, creating, tenantActive>>
    BY <1>5, Zenon DEF StartCommit
  <2>2. (starter'[z] # "idle" => starter[z] # "idle") /\ starter'[s] = "idle"
    BY <1>5, Zenon DEF StartCommit, TypeOK
  <2>3. scan[s] \in {"pending", "queued", "cancelled"} /\ ~InFlight(s) /\ reported[s] = 0 /\ ~creating[s]
    BY Zenon, <1>0, <1>5 DEF StartCommit, LifeAt
  <2>4. CASE starter[s] = "cancel"
    <3>1. CancelScans({s}, stage)
      BY <1>5, <2>4, Zenon DEF StartCommit
    <3>2. CASE z = s
      BY ZenonT(60), <1>0, <2>1, <2>2, <2>3, <3>1, <3>2, LifeCancel
    <3>3. CASE z # s
      <4>1. scan'[z] = scan[z] /\ secret'[z] = secret[z] /\ \A i \in Positions : stage'[<<z, i>>] = stage[<<z, i>>]
        BY <1>0, <3>1, <3>3, Zenon DEF CancelScans, TypeOK
      <4> QED
        BY SMTT(60), <1>0, <2>1, <2>2, <4>1, LifeFrame
    <3> QED
      BY <3>2, <3>3, Zenon
  <2>5. CASE starter[s] # "cancel"
    <3>1. UNCHANGED <<stage, secret>> /\ (scan'[z] = scan[z] \/ (z = s /\ scan'[s] \in {"queued", "running"}))
      BY <1>5, <2>5, Zenon DEF StartCommit, TypeOK
    <3>2. CASE scan'[z] = scan[z]
      BY SMTT(60), <1>0, <2>1, <2>2, <3>1, <3>2, LifeFrame
    <3>3. CASE z = s /\ scan'[s] \in {"queued", "running"}
      <4>1. ~InFlight(z)' /\ (Opened(z)' => Opened(z))
        BY SMTT(60), <2>3, <3>1, <3>3 DEF InFlight, Opened
      <4> QED
        BY SMTT(60), <1>0, <2>1, <2>2, <2>3, <3>3, <4>1 DEF LifeAt, EndedScanStates
    <3> QED
      BY <3>1, <3>2, <3>3, Zenon
  <2> QED
    BY <2>4, <2>5, Zenon
<1>6. ASSUME NEW s \in Scans, AdvanceCancels(s) PROVE LifeAt(z)'
  <2>1. UNCHANGED <<cancelAcked, reported, creating, tenantActive, starter>> /\ CancelScans({s}, stage)
        /\ scan[s] = "running"
    BY <1>6, Zenon DEF AdvanceCancels, AdvanceReady
  <2>2. CASE z = s
    BY ZenonT(60), <1>0, <2>1, <2>2, LifeCancel, Zenon
  <2>3. CASE z # s
    <3>1. scan'[z] = scan[z] /\ secret'[z] = secret[z] /\ \A i \in Positions : stage'[<<z, i>>] = stage[<<z, i>>]
      BY SMTT(60), <1>0, <2>1, <2>3 DEF CancelScans, TypeOK
    <3> QED
      BY <1>0, <2>1, <3>1, LifeFrame, Zenon
  <2> QED
    BY <2>2, <2>3, Zenon
<1>7. ASSUME NEW s \in Scans, AdvanceFinalizes(s) PROVE LifeAt(z)'
  <2>1. UNCHANGED <<cancelAcked, creating, tenantActive, starter>> /\ scan[s] = "running" /\ ~InFlight(s)
    BY <1>7, Zenon DEF AdvanceFinalizes, AdvanceReady
  <2>2. CASE z = s
    <3>1. scan'[z] \in {"completed", "partial", "failed"} /\ ~secret'[z] /\ reported'[z] = reported[z] + 1
      BY <1>7, <2>2, FinalStatusType, Zenon DEF AdvanceFinalizes, TypeOK
    <3>2. ASSUME NEW i \in Positions PROVE stage'[<<z, i>>] \notin OpenStage
      <4>1. stage[<<z, i>>] # "running" /\ i < NumStages + 1
        BY <2>1, <2>2 DEF InFlight, Positions
      <4> QED
        BY <1>0, <1>7, <2>2, <4>1, Zenon DEF AdvanceFinalizes, SkipBefore, OpenStage
    <3>3. ~Opened(z)' /\ ~InFlight(z)'
      BY ZenonT(60), <3>2, Zenon DEF Opened, InFlight, OpenStage
    <3> QED
      BY SMTT(60), <1>0, <2>1, <2>2, <3>1, <3>3 DEF LifeAt
  <2>3. CASE z # s
    <3>1. /\ scan'[z] = scan[z] /\ secret'[z] = secret[z] /\ reported'[z] = reported[z]
          /\ \A i \in Positions : stage'[<<z, i>>] = stage[<<z, i>>]
      BY <1>0, <1>7, <2>3, Zenon DEF AdvanceFinalizes, SkipBefore, TypeOK
    <3> QED
      BY <1>0, <2>1, <3>1, LifeFrame, Zenon
  <2> QED
    BY <2>2, <2>3, Zenon
<1>8. ASSUME NEW s \in Scans, NEW i \in Positions, AdvanceDispatches(s, i) PROVE LifeAt(z)'
  <2>1. UNCHANGED <<scan, secret, cancelAcked, reported, creating, tenantActive, starter>>
        /\ scan[s] = "running" /\ tenantActive[TenantOf[s]]
    BY <1>8, Zenon DEF AdvanceDispatches, AdvanceReady, MayScan
  <2>2. CASE z = s
    <3>1. Opened(z)
      BY ZenonT(60), <1>8, <2>2, Zenon DEF AdvanceDispatches, Opened, OpenStage
    <3> QED
      BY <1>0, <2>1, <2>2, <3>1, Zenon DEF LifeAt, EndedScanStates
  <2>3. CASE z # s
    <3>1. \A k \in Positions : stage'[<<z, k>>] \in OpenStage => stage'[<<z, k>>] = stage[<<z, k>>]
      BY Zenon, <1>0, <1>8, <2>3, DispatchEffect DEF OpenStage
    <3> QED
      BY <1>0, <2>1, <3>1, LifeFrame, Zenon
  <2> QED
    BY <2>2, <2>3, Zenon
<1>9. ASSUME NEW s \in Scans, CancelCommit(s) PROVE LifeAt(z)'
  <2>1. UNCHANGED <<reported, creating, tenantActive, starter>> /\ CancelScans({s}, viewStage) /\ viewStatus[s] # "none"
    BY ZenonT(60), <1>9, Zenon DEF CancelCommit
  <2>2. CASE z = s
    <3>1. \A i \in Positions : stage[<<s, i>>] \in OpenStage => viewStage[<<s, i>>] \in OpenStage
      BY <1>0, <2>1, Zenon DEF OrderInv
    <3>2. scan[s] # "absent"
      BY <1>0, <2>1, Zenon DEF LifeAt
    <3> QED
      BY SMTT(60), <1>0, <2>1, <2>2, <3>1, <3>2, LifeCancel
  <2>3. CASE z # s
    <3>1. /\ scan'[z] = scan[z] /\ secret'[z] = secret[z] /\ cancelAcked'[z] = cancelAcked[z]
          /\ \A i \in Positions : stage'[<<z, i>>] = stage[<<z, i>>]
      BY SMTT(60), <1>0, <1>9, <2>1, <2>3 DEF CancelScans, CancelCommit, TypeOK
    <3> QED
      BY <1>0, <2>1, <3>1, LifeFrame, ZenonT(60)
  <2> QED
    BY <2>2, <2>3, Zenon
<1>10. ASSUME NEW j \in JobsKnown, DispatchFailed(j) PROVE LifeAt(z)'
  <2>1. UNCHANGED <<scan, secret, cancelAcked, reported, creating, tenantActive, starter>>
    BY <1>10, ZenonT(60) DEF DispatchFailed
  <2>2. \A i \in Positions : stage'[<<z, i>>] \in OpenStage => stage'[<<z, i>>] = stage[<<z, i>>]
    BY SMTT(60), <1>0, <1>10, JobsKnownType, StageOfType DEF DispatchFailed, FailStage, FailedAs, TypeOK, OpenStage
  <2> QED
    BY <1>0, <2>1, <2>2, LifeFrame, Zenon
<1>11. ASSUME NEW r \in results, ReceiveResult(r[1], r[2]) PROVE LifeAt(z)'
  <2>1. UNCHANGED <<scan, secret, cancelAcked, reported, creating, tenantActive, starter>>
    BY <1>11, Zenon DEF ReceiveResult
  <2>2. StageOf(r[1]) \in Stages /\ r[2] \in Outcomes
    BY StageOfType, Zenon DEF TypeOK
  <2>3. \A i \in Positions : stage'[<<z, i>>] \in OpenStage => stage'[<<z, i>>] = stage[<<z, i>>]
    BY <1>0, <1>11, <2>2, ZenonT(60) DEF ReceiveResult, FailedAs, TypeOK, OpenStage, Outcomes
  <2> QED
    BY <1>0, <2>1, <2>3, LifeFrame, Zenon
<1>12. ASSUME NEW p \in Stages, StageFailed(p) PROVE LifeAt(z)'
  <2>1. UNCHANGED <<scan, secret, cancelAcked, reported, creating, tenantActive, starter>>
    BY <1>12, Zenon DEF StageFailed
  <2>2. \A i \in Positions : stage'[<<z, i>>] \in OpenStage => stage'[<<z, i>>] = stage[<<z, i>>]
    BY <1>0, <1>12, Zenon DEF StageFailed, FailStage, FailedAs, TypeOK, OpenStage
  <2> QED
    BY <1>0, <2>1, <2>2, LifeFrame, Zenon
<1>13. ASSUME NEW t \in Tenants, SuspendTenant(t) PROVE LifeAt(z)'
  <2> DEFINE S == {s \in Scans : TenantOf[s] = t /\ scan[s] \in ActiveScanStates}
  <2>1. UNCHANGED <<cancelAcked, reported, creating, starter>> /\ CancelScans(S, stage)
        /\ \A u \in Tenants \ {t} : tenantActive'[u] = tenantActive[u]
    BY <1>13, Zenon DEF SuspendTenant, TypeOK
  <2>2. CASE z \in S
    BY <1>0, <2>1, <2>2, LifeCancel, Zenon DEF ActiveScanStates
  <2>3. CASE z \notin S
    <3>1. scan'[z] = scan[z] /\ secret'[z] = secret[z] /\ \A i \in Positions : stage'[<<z, i>>] = stage[<<z, i>>]
      BY SMTT(60), <1>0, <2>1, <2>3 DEF CancelScans, TypeOK
    <3>2. CASE TenantOf[z] = t
      <4>1. ~InFlight(z)
        BY <1>0, <2>3, <3>2, Zenon DEF LifeAt, ActiveScanStates
      <4>2. ~InFlight(z)' /\ (Opened(z)' => Opened(z))
        BY <3>1, <4>1, ZenonT(60) DEF InFlight, Opened
      <4> QED
        BY ZenonT(60), <1>0, <2>1, <3>1, <4>2 DEF LifeAt
    <3>3. CASE TenantOf[z] # t
      <4>1. tenantActive'[TenantOf[z]] = tenantActive[TenantOf[z]]
        BY <2>1, <3>3, ConstantsAssumption, Zenon
      <4>2. viewStatus' = viewStatus
        BY <1>13, Zenon DEF SuspendTenant, txs
      <4> QED
        BY <1>0, <2>1, <3>1, <4>1, <4>2, LifeFrame, Zenon
    <3> QED
      BY <3>2, <3>3, ZenonT(60)
  <2> QED
    BY <2>2, <2>3, Zenon
<1>14. ASSUME NEW t \in Tenants, ReactivateTenant(t) \/ ToggleOrganization(t) PROVE LifeAt(z)'
  <2>1. UNCHANGED <<scan, stage, secret, cancelAcked, reported, creating, starter>>
        /\ (tenantActive[TenantOf[z]] => tenantActive'[TenantOf[z]])
    BY SMTT(60), <1>14 DEF ReactivateTenant, ToggleOrganization, TypeOK
  <2> QED
    BY <1>0, <2>1, LifeFrame, ZenonT(60)
<1>15. ASSUME NEW j \in JobsKnown,
              PublishJob(j) \/ PublishRaises(j) \/ MarkDispatched(j) \/ PublisherCrash(j) \/ RunSensor(j)
              \/ IgnoreRedelivery(j) \/ SensorCrash(j) \/ RevokeTakesEffect(j)
              \/ \E outcome \in Outcomes : SubmitResult(j, outcome)
       PROVE  LifeAt(z)'
  <2>1. UNCHANGED <<scan, stage, secret, cancelAcked, reported, creating, starter, tenantActive, viewStatus>>
    BY ZenonT(60), <1>15, Zenon DEF PublishJob, PublishRaises, MarkDispatched, PublisherCrash, RunSensor, IgnoreRedelivery,
       SensorCrash, RevokeTakesEffect, SubmitResult
  <2> QED
    BY <1>0, <2>1, LifeFrame, Zenon
<1>16. ASSUME NEW r \in results, RejectResult(r[1], r[2]) PROVE LifeAt(z)'
  <2>1. UNCHANGED <<scan, stage, secret, cancelAcked, reported, creating, starter, tenantActive, viewStatus>>
    BY <1>16, Zenon DEF RejectResult
  <2> QED
    BY Zenon, <1>0, <2>1, LifeFrame
<1>17. ASSUME NEW p \in Stages, Tick(p) PROVE LifeAt(z)'
  <2>1. UNCHANGED <<scan, stage, secret, cancelAcked, reported, creating, starter, tenantActive, viewStatus>>
    BY <1>17, Zenon DEF Tick
  <2> QED
    BY <1>0, <2>1, LifeFrame, Zenon
<1>18. ASSUME DispatchQueuedScans \/ Watchdog \/ LoseMessage PROVE LifeAt(z)'
  <2>1. UNCHANGED <<scan, stage, secret, cancelAcked, reported, creating, starter, tenantActive, viewStatus>>
    BY <1>18, Zenon DEF DispatchQueuedScans, Watchdog, LoseMessage
  <2> QED
    BY <1>0, <2>1, LifeFrame, Zenon
<1>19. CASE UNCHANGED vars
  BY <1>0, <1>19, LifeFrame, Zenon DEF vars
<1> QED
  BY SMTT(60), <1>1, <1>2, <1>3, <1>4, <1>5, <1>6, <1>7, <1>8, <1>9, <1>10, <1>11, <1>12, <1>13, <1>14, <1>15,
     <1>16, <1>17, <1>18, <1>19 DEF Next

\* An ended scan has no open stage and no sign-in value, a cancel that was confirmed
\* leaves no open stage, a suspended tenant has no stage in flight and a scan is
\* reported once.
THEOREM ScanEndsClean == Spec => []EndsClean
<1>1. Init => OrderInv /\ LifeInv
  <2> SUFFICES ASSUME Init PROVE OrderInv /\ LifeInv
    BY Zenon
  <2>1. \A s \in Scans : ~InFlight(s)
    BY Zenon DEF Init, InFlight, Stages
  <2>2. OrderInv
    BY DEF Init, OrderInv, StagesInOrder, OneStageInFlight, Stages
  <2>3. EndedIsClean /\ CancelStopsWork /\ ReportedOnce
    BY DEF Init, EndedIsClean, CancelStopsWork, ReportedOnce, EndedScanStates
  <2> QED
    BY <2>1, <2>2, <2>3, Zenon DEF LifeInv, Init
<1>2. LifeInv => EndsClean
  BY Zenon DEF LifeInv, SuspendedIdle, EndsClean
<1> QED
  BY <1>1, <1>2, TypeCorrect, OrderStep, LifeStep, PTL DEF Spec

-----------------------------------------------------------------------------
(* Slots *)

LEMMA RunningFinite ==
    /\ IsFiniteSet(Running) /\ Cardinality(Running) \in Nat
    /\ \A t : IsFiniteSet(RunningOf(t)) /\ Cardinality(RunningOf(t)) \in Nat
<1>1. IsFiniteSet(Scans)
  BY ConstantsAssumption, FS_Interval DEF Scans
<1>2. Running \subseteq Scans /\ \A t : RunningOf(t) \subseteq Scans
  BY Zenon DEF Running, RunningOf
<1> QED
  BY <1>1, <1>2, FS_Subset, FS_CardinalityType, Zenon

\* A step that starts no scan keeps the limits and every slot that was seen free.
LEMMA SlotFrame ==
    ASSUME SlotInv,
           \A s \in Scans : scan'[s] = "running" => scan[s] = "running",
           \A s \in Scans : starter'[s] # "idle" => starter'[s] = starter[s]
    PROVE  SlotInv'
<1>1. Running' \subseteq Running /\ \A t : RunningOf(t)' \subseteq RunningOf(t)
  BY Zenon DEF Running, RunningOf
<1>2. /\ Cardinality(Running') \in Nat /\ Cardinality(Running') <= Cardinality(Running)
      /\ \A t : Cardinality(RunningOf(t)') \in Nat /\ Cardinality(RunningOf(t)') <= Cardinality(RunningOf(t))
  BY <1>1, RunningFinite, FS_Subset, FS_CardinalityType, Zenon
<1>3. ConcurrencyLimit'
  BY SMTT(60), <1>2, RunningFinite, ConstantsAssumption DEF SlotInv, ConcurrencyLimit
<1>4. ASSUME NEW s \in Scans, starter'[s] = "run"
      PROVE  /\ Cardinality(Running') < GlobalLimit
             /\ Cardinality(RunningOf(TenantOf[s])') < TenantLimit[TenantOf[s]]
  <2>1. starter[s] = "run" /\ TenantOf[s] \in Tenants
    BY <1>4, ConstantsAssumption, Zenon
  <2> QED
    BY SMTT(60), <1>2, <2>1, RunningFinite, ConstantsAssumption DEF SlotInv
<1>5. \A r, s \in Scans : starter'[r] # "idle" /\ starter'[s] # "idle" => r = s
  BY Zenon DEF SlotInv
<1> QED
  BY <1>3, <1>4, <1>5, Zenon DEF SlotInv

\* Starting one scan whose slot was seen free.
LEMMA SlotTaken ==
    ASSUME TypeOK, SlotInv, NEW s \in Scans, starter[s] = "run",
           starter' = [starter EXCEPT ![s] = "idle"], scan' = [scan EXCEPT ![s] = "running"]
    PROVE  SlotInv'
<1>1. Running' \subseteq Running \cup {s} /\ \A t : RunningOf(t)' \subseteq RunningOf(t) \cup {s}
  BY Zenon DEF Running, RunningOf, TypeOK
<1>2. \A t : t # TenantOf[s] => RunningOf(t)' \subseteq RunningOf(t)
  BY Zenon DEF Running, RunningOf, TypeOK
<1>3. ASSUME NEW A, IsFiniteSet(A), NEW B \in SUBSET (A \cup {s})
      PROVE  Cardinality(B) \in Nat /\ Cardinality(B) <= Cardinality(A) + 1
  <2>1. IsFiniteSet(A \cup {s}) /\ Cardinality(A \cup {s}) = IF s \in A THEN Cardinality(A) ELSE Cardinality(A) + 1
    BY <1>3, FS_AddElement, Zenon
  <2>2. IsFiniteSet(B) /\ Cardinality(B) <= Cardinality(A \cup {s})
    BY <2>1, FS_Subset, Zenon
  <2>3. Cardinality(A) \in Nat /\ Cardinality(B) \in Nat
    BY <1>3, <2>2, FS_CardinalityType, Zenon
  <2> QED
    BY <2>1, <2>2, <2>3
<1>4. Cardinality(Running') \in Nat /\ Cardinality(Running') <= Cardinality(Running) + 1
  BY <1>1, <1>3, RunningFinite, Zenon
<1>5. ASSUME NEW t \in Tenants
      PROVE  /\ Cardinality(RunningOf(t)') \in Nat
             /\ Cardinality(RunningOf(t)') <= Cardinality(RunningOf(t)) + 1
             /\ t # TenantOf[s] => Cardinality(RunningOf(t)') <= Cardinality(RunningOf(t))
  <2>1. Cardinality(RunningOf(t)') \in Nat /\ Cardinality(RunningOf(t)') <= Cardinality(RunningOf(t)) + 1
    BY <1>1, <1>3, RunningFinite, Zenon
  <2>2. ASSUME t # TenantOf[s] PROVE Cardinality(RunningOf(t)') <= Cardinality(RunningOf(t))
    BY <1>2, <2>2, RunningFinite, FS_Subset, Zenon
  <2> QED
    BY <2>1, <2>2, Zenon
<1>6. ConcurrencyLimit'
  <2>1. Cardinality(Running') <= GlobalLimit
    BY SMTT(60), <1>4, RunningFinite, ConstantsAssumption DEF SlotInv
  <2>2. ASSUME NEW t \in Tenants PROVE Cardinality(RunningOf(t)') <= TenantLimit[t]
    BY SMTT(60), <1>5, RunningFinite, ConstantsAssumption DEF SlotInv, ConcurrencyLimit
  <2> QED
    BY <2>1, <2>2, Zenon DEF ConcurrencyLimit
<1>7. \A r \in Scans : starter'[r] = "idle"
  BY Zenon DEF SlotInv, TypeOK
<1> QED
  BY <1>6, <1>7, Zenon DEF SlotInv

LEMMA SlotStep == TypeOK /\ SlotInv /\ [Next]_vars => SlotInv'
<1> SUFFICES ASSUME TypeOK, SlotInv, [Next]_vars PROVE SlotInv'
  BY Zenon
<1> USE ConstantsAssumption DEF rows, policy, txs, sensors, history
<1>1. ASSUME NEW s \in Scans, StartLock(s) PROVE SlotInv'
  <2>1. UNCHANGED scan /\ \A r \in Scans : starter[r] = "idle"
    BY <1>1, Zenon DEF StartLock, StartLockFree
  <2>2. \A r \in Scans : starter'[r] = "idle" \/ (r = s /\ starter'[r] \in {"pending", "queued"})
    BY <1>1, <2>1, Zenon DEF StartLock, TypeOK
  <2>3. UNCHANGED <<Running, ConcurrencyLimit>>
    BY <2>1, Zenon DEF Running, RunningOf, ConcurrencyLimit
  <2> QED
    BY SMTT(60), <2>2, <2>3 DEF SlotInv
<1>2. ASSUME NEW s \in Scans, StartCheck(s) PROVE SlotInv'
  <2>1. UNCHANGED scan /\ starter[s] # "idle" /\ \A r \in Scans \ {s} : starter'[r] = starter[r]
    BY <1>2, Zenon DEF StartCheck, TypeOK
  <2>2. \A r \in Scans \ {s} : starter'[r] = "idle"
    BY <2>1, Zenon DEF SlotInv
  <2>3. ConcurrencyLimit'
    BY <2>1, Zenon DEF SlotInv, ConcurrencyLimit, Running, RunningOf
  <2>4. ASSUME starter'[s] = "run"
        PROVE  /\ Cardinality(Running) < GlobalLimit
               /\ Cardinality(RunningOf(TenantOf[s])) < TenantLimit[TenantOf[s]]
    <3>1. /\ ~(Cardinality(Running) >= GlobalLimit)
          /\ ~(Cardinality(RunningOf(TenantOf[s])) >= TenantLimit[TenantOf[s]])
      BY <1>2, <2>4, Zenon DEF StartCheck, TypeOK
    <3> QED
      BY SMTT(60), <3>1, RunningFinite
  <2>5. Running' = Running /\ RunningOf(TenantOf[s])' = RunningOf(TenantOf[s])
    BY <2>1, Zenon DEF Running, RunningOf
  <2> QED
    BY <2>2, <2>3, <2>4, <2>5, Zenon DEF SlotInv
<1>3. ASSUME NEW s \in Scans, StartCommit(s) PROVE SlotInv'
  <2>1. CASE starter[s] = "run"
    BY ZenonT(60), <1>3, <2>1, SlotTaken, Zenon DEF StartCommit
  <2>2. CASE starter[s] # "run"
    <3>1. \A r \in Scans : scan'[r] = "running" => scan[r] = "running"
      BY SMTT(60), <1>3, <2>2 DEF StartCommit, CancelScans, TypeOK
    <3>2. \A r \in Scans : starter'[r] # "idle" => starter'[r] = starter[r]
      BY <1>3, ZenonT(60) DEF StartCommit, TypeOK
    <3> QED
      BY <3>1, <3>2, SlotFrame, ZenonT(60)
  <2> QED
    BY <2>1, <2>2, Zenon
<1>4. ASSUME NEW s \in Scans, StartAbort(s) \/ CreateCommit(s) PROVE SlotInv'
  BY SMTT(60), <1>4, SlotFrame DEF StartAbort, CreateCommit, TypeOK
<1>5. ASSUME NEW s \in Scans, AdvanceCancels(s) \/ CancelCommit(s) PROVE SlotInv'
  <2>1. CancelScans({s}, stage) \/ CancelScans({s}, viewStage)
    BY <1>5, Zenon DEF AdvanceCancels, CancelCommit
  <2>2. \A r \in Scans : scan'[r] = "running" => scan[r] = "running"
    BY <2>1, Zenon DEF CancelScans
  <2>3. starter' = starter
    BY <1>5, Zenon DEF AdvanceCancels, CancelCommit, txs
  <2> QED
    BY <2>2, <2>3, SlotFrame, Zenon
<1>6. ASSUME NEW s \in Scans, AdvanceFinalizes(s) PROVE SlotInv'
  BY <1>6, SlotFrame, FinalStatusType, Zenon DEF AdvanceFinalizes, TypeOK
<1>7. ASSUME NEW t \in Tenants, SuspendTenant(t) PROVE SlotInv'
  BY <1>7, SlotFrame, Zenon DEF SuspendTenant, CancelScans
<1>8. ASSUME NEW s \in Scans,
             CreateCheck(s) \/ AdvanceIgnored(s) \/ CancelLoad(s) \/ \E i \in Positions : AdvanceDispatches(s, i)
      PROVE  SlotInv'
  BY Zenon, <1>8, SlotFrame DEF CreateCheck, AdvanceIgnored, CancelLoad, AdvanceDispatches
<1>9. ASSUME NEW j \in JobsKnown,
             PublishJob(j) \/ PublishRaises(j) \/ DispatchFailed(j) \/ MarkDispatched(j) \/ PublisherCrash(j)
             \/ RunSensor(j) \/ IgnoreRedelivery(j) \/ SensorCrash(j) \/ RevokeTakesEffect(j)
             \/ \E outcome \in Outcomes : SubmitResult(j, outcome)
      PROVE  SlotInv'
  BY ZenonT(60), <1>9, SlotFrame, Zenon DEF PublishJob, PublishRaises, DispatchFailed, MarkDispatched, PublisherCrash,
     RunSensor, IgnoreRedelivery, SensorCrash, RevokeTakesEffect, SubmitResult
<1>10. ASSUME NEW r \in results, ReceiveResult(r[1], r[2]) \/ RejectResult(r[1], r[2]) PROVE SlotInv'
  BY <1>10, SlotFrame, Zenon DEF ReceiveResult, RejectResult
<1>11. ASSUME NEW p \in Stages, StageFailed(p) \/ Tick(p) PROVE SlotInv'
  BY ZenonT(60), <1>11, SlotFrame, Zenon DEF StageFailed, Tick
<1>12. ASSUME DispatchQueuedScans \/ Watchdog \/ LoseMessage PROVE SlotInv'
  BY <1>12, SlotFrame, Zenon DEF DispatchQueuedScans, Watchdog, LoseMessage
<1>13. ASSUME NEW t \in Tenants, ReactivateTenant(t) \/ ToggleOrganization(t) PROVE SlotInv'
  BY Zenon, <1>13, SlotFrame DEF ReactivateTenant, ToggleOrganization
<1>14. CASE UNCHANGED vars
  BY Zenon, <1>14, SlotFrame DEF vars
<1> QED
  BY <1>1, <1>2, <1>3, <1>4, <1>5, <1>6, <1>7, <1>8, <1>9, <1>10, <1>11, <1>12, <1>13, <1>14, ZenonT(60) DEF Next

\* However many starts, cancellations and suspensions overlap, the running scans
\* never exceed the tenant's plan limit or the platform's.
THEOREM SlotsRespected == Spec => []ConcurrencyLimit
<1>1. Init => SlotInv
  <2> SUFFICES ASSUME Init PROVE SlotInv
    BY Zenon
  <2>1. Running = {} /\ \A t : RunningOf(t) = {}
    BY Zenon DEF Init, Running, RunningOf
  <2> QED
    <3>1. ConcurrencyLimit
      BY <2>1, FS_EmptySet, ConstantsAssumption DEF ConcurrencyLimit
    <3> QED
      BY <3>1, Zenon DEF Init, SlotInv
<1>2. SlotInv => ConcurrencyLimit
  BY Zenon DEF SlotInv
<1> QED
  BY <1>1, <1>2, TypeCorrect, SlotStep, PTL DEF Spec
=============================================================================
