------------------------- MODULE ScreenshotProofs -------------------------
(***************************************************************************)
(* The slot of a capture outlives its job: for every number of captures,   *)
(* every time limit and every max_concurrent, no more jobs execute than    *)
(* max_concurrent, as long as none of the Mishaps happens.  And the object *)
(* store and the database agree, for any number of captures and endpoints. *)
(***************************************************************************)
EXTENDS ScreenshotSlots, ScreenshotStore, FiniteSetTheorems, WellFoundedInduction, TLAPS

\* The captures are finitely many, so every set of them can be counted.
LEMMA CapturesFinite == \A S \in SUBSET Captures : IsFiniteSet(S) /\ Cardinality(S) \in Nat
<1>1. IsFiniteSet(Captures)
  BY ConstantsAssumption, FS_Interval DEF Captures
<1> QED
  BY <1>1, FS_Subset, FS_CardinalityType, Zenon

\* SlotHold adds up natural numbers and outlasts the window plus the limit.
LEMMA HoldIsNat ==
  ASSUME NEW t \in Timeouts
  PROVE  /\ SlotHold(t) \in Nat \ {0} /\ SlotHold(t) > StartWindow + t /\ SlotHold(t) < ClockCap
         /\ t \in Nat \ {0} /\ StartWindow \in Nat
BY ConstantsAssumption DEF SlotHold

\* What a reservation of the captures P writes.
Reservation(P) ==
    /\ P \in SUBSET {c \in Captures : status[c] = "queued"}
    /\ status' = [c \in Captures |-> IF c \in P THEN "running" ELSE IF c \in Lost THEN "failed" ELSE status[c]]
    /\ clock' = [c \in Captures |-> IF c \in P THEN 0 ELSE clock[c]]
    /\ hold' = [c \in Captures |-> IF c \in P THEN SlotHold(timeout) ELSE hold[c]]
    /\ step' = [c \in Captures |-> IF c \in P THEN "launch" ELSE step[c]]
    /\ started' = started \cup P
    /\ UNCHANGED <<dispatched, ledger, settings, hard, scanner, results, revoked, upsets>>

AfterWatchdog == [c \in Captures |-> IF c \in Lost THEN "failed" ELSE status[c]]
Free == MaxConcurrent - Cardinality(Occupied(AfterWatchdog))

\* reserve() takes queued captures, and no more of them than there are free slots.
LEMMA ReserveTakes ==
  ASSUME Reserve
  PROVE  \E P : Reservation(P) /\ (P = {} \/ (Free > 0 /\ Cardinality(P) <= Free))
<1>1. PICK P \in IF Free > 0 THEN Picks(Free) ELSE {{}} :
        /\ status' = [c \in Captures |-> IF c \in P THEN "running" ELSE AfterWatchdog[c]]
        /\ clock' = [c \in Captures |-> IF c \in P THEN 0 ELSE clock[c]]
        /\ hold' = [c \in Captures |-> IF c \in P THEN SlotHold(timeout) ELSE hold[c]]
        /\ step' = [c \in Captures |-> IF c \in P THEN "launch" ELSE step[c]]
        /\ started' = started \cup P
        /\ UNCHANGED <<dispatched, ledger, settings, hard, scanner, results, revoked, upsets>>
  BY Zenon DEF Reserve, Free, AfterWatchdog
<1>2. P \in SUBSET {c \in Captures : status[c] = "queued"} /\ (P = {} \/ (Free > 0 /\ Cardinality(P) <= Free))
  <2>1. CASE Free > 0
    <3>1. P \in SUBSET Candidates(Free) /\ Cardinality(P) <= Free
      BY <1>1, <2>1, Zenon DEF Picks
    <3>2. Candidates(Free) \subseteq {c \in Captures : status[c] = "queued"}
      BY Zenon DEF Candidates, Queued
    <3> QED
      BY <2>1, <3>1, <3>2, Zenon
  <2>2. CASE ~(Free > 0)
    <3>1. P = {}
      BY <1>1, <2>2, Zenon
    <3>2. P \in SUBSET {c \in Captures : status[c] = "queued"}
      BY <3>1, Zenon
    <3> QED
      BY <3>1, <3>2, Zenon
  <2> QED
    BY <2>1, <2>2, Zenon
<1>3. status' = [c \in Captures |-> IF c \in P THEN "running" ELSE IF c \in Lost THEN "failed" ELSE status[c]]
  BY <1>1, Zenon DEF AfterWatchdog
<1>4. Reservation(P)
  BY <1>1, <1>2, <1>3, Zenon DEF Reservation
<1> QED
  BY <1>2, <1>4, Zenon

LEMMA TypeInit == Init => TypeOK
BY SMTT(60), ConstantsAssumption DEF Init, TypeOK, Active, Steps

\* Every action keeps every variable in its type.
LEMMA TypeStep == TypeOK /\ [Next]_vars => TypeOK'
<1> SUFFICES ASSUME TypeOK, [Next]_vars PROVE TypeOK'
  BY Zenon
<1> USE ConstantsAssumption DEF TypeOK, captureRow, ledger, settings, scanner, vars, Active, Ended, Outcomes, Steps, Upset
<1>1. ASSUME NEW c \in Captures, RequestCapture(c) PROVE TypeOK'
  BY <1>1 DEF RequestCapture
<1>2. ASSUME NEW c \in Captures, CancelCapture(c) PROVE TypeOK'
  BY <1>2 DEF CancelCapture
<1>3. ASSUME NEW c \in Captures, DeleteCapture(c) PROVE TypeOK'
  BY <1>3, Zenon DEF DeleteCapture, Mishaps
<1>4. ASSUME NEW c \in Captures, Launch(c) PROVE TypeOK'
  <2>1. /\ UNCHANGED <<clock, dispatched, started, usage, createdToday, allowed, timeout, jobs, claimed, executing, runTime>>
        /\ UNCHANGED <<results, revoked, upsets, mishaps>>
    BY <1>4, Zenon DEF Launch
  <2>2. status' \in [Captures -> {"none", "gone"} \union Active \union Ended] /\ hold' \in [Captures -> Nat]
    BY <1>4 DEF Launch
  <2>3. step' \in [Captures -> Steps] /\ hard' \in [Captures -> Timeouts \union {0}]
    BY <1>4 DEF Launch
  <2> QED
    BY <2>1, <2>2, <2>3
<1>5. ASSUME NEW c \in Captures, PublishJob(c) PROVE TypeOK'
  BY <1>5, Zenon DEF PublishJob
<1>6. ASSUME NEW c \in Captures, PublishRaises(c) PROVE TypeOK'
  <2>1. jobs' \subseteq jobs \cup {c} /\ mishaps' \subseteq mishaps \cup {"lost_reply"}
    BY <1>6, Zenon DEF PublishRaises
  <2>2. mishaps' \subseteq Mishaps
    BY <2>1, Zenon DEF Mishaps
  <2>3. step' \in [Captures -> Steps] /\ jobs' \subseteq Captures
    BY <1>6, <2>1, Zenon DEF PublishRaises
  <2> QED
    BY <1>6, <2>2, <2>3 DEF PublishRaises
<1>7. ASSUME NEW c \in Captures, MarkDispatched(c) PROVE TypeOK'
  <2>1. dispatched' \in [Captures -> BOOLEAN]
    BY <1>7, Zenon DEF MarkDispatched
  <2>2. status' \in [Captures -> {"none", "gone"} \cup Active \cup Ended] /\ hold' \in [Captures -> Nat]
    BY <1>7 DEF MarkDispatched
  <2> QED
    BY Zenon, <1>7, <2>1, <2>2 DEF MarkDispatched
<1>8. ASSUME NEW c \in Captures, DispatcherCrash(c) PROVE TypeOK'
  BY <1>8 DEF DispatcherCrash
<1>9. ASSUME NEW c \in Captures, StartJob(c) PROVE TypeOK'
  BY <1>9 DEF StartJob
<1>10. ASSUME NEW c \in Captures, DropJob(c) PROVE TypeOK'
  BY <1>10, Zenon DEF DropJob
<1>11. ASSUME NEW c \in Captures, FinishJob(c) PROVE TypeOK'
  BY <1>11 DEF FinishJob
<1>12. ASSUME NEW c \in Captures, LoseRun(c) PROVE TypeOK'
  BY <1>12 DEF LoseRun
<1>13. CASE Reserve
  <2>1. PICK P : Reservation(P)
    BY <1>13, ReserveTakes, Zenon
  <2>2. SlotHold(timeout) \in Nat
    BY HoldIsNat, Zenon
  <2>3. status' \in [Captures -> {"none", "gone"} \cup Active \cup Ended]
    BY <2>1, Zenon DEF Reservation
  <2>4. hold' \in [Captures -> Nat] /\ clock' \in [Captures -> 0 .. ClockCap]
    BY <2>1, <2>2 DEF Reservation
  <2> QED
    BY <2>1, <2>3, <2>4, Zenon DEF Reservation
<1>14. ASSUME NEW r \in results, LoseResult(r) PROVE TypeOK'
  BY <1>14 DEF LoseResult
<1>15. ASSUME NEW r \in results, ReceiveResult(r) PROVE TypeOK'
  BY <1>15, Zenon DEF ReceiveResult
<1>16. ASSUME NEW t \in Tenants, SetAllowed(t) PROVE TypeOK'
  BY <1>16 DEF SetAllowed
<1>17. ASSUME NEW limit \in Timeouts, SetTimeout(limit) PROVE TypeOK'
  BY <1>17 DEF SetTimeout, Mishaps
<1>18. CASE NewDay
  BY <1>18 DEF NewDay
<1>19. CASE Tick
  BY <1>19 DEF Tick
<1>20. CASE UNCHANGED vars
  BY <1>20, Zenon
<1> QED
  BY ZenonT(60), <1>1, <1>2, <1>3, <1>4, <1>5, <1>6, <1>7, <1>8, <1>9, <1>10, <1>11, <1>12, <1>13, <1>14, <1>15, <1>16,
     <1>17, <1>18, <1>19, <1>20 DEF Next

(* Every variable keeps its type in every behaviour of the capture          *)
(* dispatcher: in particular no clock passes ClockCap.                      *)
THEOREM TypeCorrect == Spec => []TypeOK
BY TypeInit, TypeStep, PTL DEF Spec

-----------------------------------------------------------------------------
(* The slot invariant *)

LEMMA SlotInit == Init => SlotInv
<1> SUFFICES ASSUME Init PROVE SlotInv
  BY Zenon
<1>1. ASSUME NEW c \in Captures PROVE SlotCoversJob(c)
  BY <1>1, Zenon DEF Init, SlotCoversJob, Startable
<1>2. Occupied(status) = {}
  BY Zenon DEF Init, Occupied, Held
<1>3. Cardinality({}) = 0
  BY FS_EmptySet, Zenon
<1> QED
  BY <1>1, <1>2, <1>3, ConstantsAssumption DEF SlotInv

\* A slot that covers a job is still held while the job may be running.
LEMMA CoveredIsHeld ==
  ASSUME TypeOK, NEW c \in Captures, SlotCoversJob(c)
  PROVE  /\ c \in executing => Held(c)
         /\ Startable(c) /\ InTime(c) => Held(c)
<1>1. clock[c] \in Nat /\ runTime[c] \in Nat
  BY DEF TypeOK
<1>2. ASSUME hard[c] \in Timeouts, hold[c] = SlotHold(hard[c]), clock[c] <= StartWindow + hard[c] PROVE Held(c)
  <2>1. SlotHold(hard[c]) \in Nat \ {0} /\ SlotHold(hard[c]) > StartWindow + hard[c] /\ hard[c] \in Nat
    BY <1>2, HoldIsNat, Zenon
  <2> QED
    BY <1>1, <1>2, <2>1, ConstantsAssumption DEF Held
<1>3. ASSUME c \in executing PROVE Held(c)
  <2>1. /\ hard[c] \in Timeouts /\ hold[c] = SlotHold(hard[c])
        /\ clock[c] <= StartWindow + runTime[c] /\ runTime[c] <= hard[c]
    BY <1>3, Zenon DEF SlotCoversJob
  <2>2. hard[c] \in Nat /\ StartWindow \in Nat
    BY <2>1, HoldIsNat, Zenon
  <2>3. clock[c] <= StartWindow + hard[c]
    BY <1>1, <2>1, <2>2
  <2> QED
    BY <1>2, <2>1, <2>3, Zenon
<1>4. ASSUME Startable(c), InTime(c) PROVE Held(c)
  <2>1. hard[c] \in Timeouts /\ hold[c] = SlotHold(hard[c])
    BY <1>4, Zenon DEF SlotCoversJob
  <2>2. hard[c] \in Nat /\ StartWindow \in Nat
    BY <2>1, HoldIsNat, Zenon
  <2>3. clock[c] <= StartWindow + hard[c]
    BY <1>1, <1>4, <2>2 DEF InTime
  <2> QED
    BY <1>2, <2>1, <2>3, Zenon
<1> QED
  BY <1>3, <1>4, Zenon

\* A capture that no step touches stays covered while time stands still.
LEMMA CoverFrame ==
  ASSUME NEW c \in Captures, SlotCoversJob(c),
         status'[c] = status[c], step'[c] = step[c], hard'[c] = hard[c], clock'[c] = clock[c],
         hold'[c] = hold[c], runTime'[c] = runTime[c],
         c \in jobs' <=> c \in jobs, c \in claimed' <=> c \in claimed, c \in executing' <=> c \in executing,
         timeout' = timeout \/ step[c] # "launch",
         \A o \in Outcomes : <<c, o>> \in results' => <<c, o>> \in results
  PROVE  SlotCoversJob(c)'
BY Zenon DEF SlotCoversJob, Startable, InTime

\* Fewer occupied slots are no harm.
LEMMA OccupiedFrame ==
  ASSUME SlotInv, Occupied(status)' \subseteq Occupied(status)
  PROVE  Cardinality(Occupied(status)') <= MaxConcurrent
<1>1. Occupied(status) \subseteq Captures
  BY Zenon DEF Occupied
<1>2. IsFiniteSet(Occupied(status))
  BY <1>1, CapturesFinite, Zenon
<1>3. /\ Cardinality(Occupied(status)') \in Nat /\ Cardinality(Occupied(status)) \in Nat
      /\ Cardinality(Occupied(status)') <= Cardinality(Occupied(status))
  BY <1>2, FS_Subset, FS_CardinalityType, Zenon
<1> QED
  BY <1>3, ConstantsAssumption DEF SlotInv

\* A mishap is not forgotten.
LEMMA MishapsStay == [Next]_vars => mishaps \subseteq mishaps'
<1> SUFFICES ASSUME [Next]_vars PROVE mishaps \subseteq mishaps'
  BY Zenon
<1>1. ASSUME NEW c \in Captures, DeleteCapture(c) PROVE mishaps \subseteq mishaps'
  BY <1>1, Zenon DEF DeleteCapture
<1>2. ASSUME NEW c \in Captures, PublishRaises(c) PROVE mishaps \subseteq mishaps'
  BY <1>2, Zenon DEF PublishRaises
<1>3. ASSUME NEW limit \in Timeouts, SetTimeout(limit) PROVE mishaps \subseteq mishaps'
  BY <1>3, Zenon DEF SetTimeout
<1>4. ASSUME \/ \E c \in Captures :
                 \/ RequestCapture(c) \/ CancelCapture(c) \/ Launch(c) \/ PublishJob(c)
                 \/ MarkDispatched(c) \/ DispatcherCrash(c)
                 \/ StartJob(c) \/ DropJob(c) \/ FinishJob(c) \/ LoseRun(c)
             \/ Reserve
             \/ \E r \in results : LoseResult(r) \/ ReceiveResult(r)
             \/ \E t \in Tenants : SetAllowed(t)
             \/ NewDay \/ Tick \/ UNCHANGED vars
      PROVE  mishaps' = mishaps
  BY <1>4, ZenonT(60) DEF RequestCapture, CancelCapture, Launch, PublishJob, MarkDispatched, DispatcherCrash,
     StartJob, DropJob, FinishJob, LoseRun, Reserve, LoseResult, ReceiveResult, SetAllowed, NewDay, Tick,
     settings, vars
<1> QED
  BY <1>1, <1>2, <1>3, <1>4, Zenon DEF Next

\* Every step but a mishap keeps every slot covering its job.
LEMMA SlotStep == ASSUME mishaps' = {}, TypeOK, SlotInv, [Next]_vars PROVE SlotInv'
<1> USE ConstantsAssumption DEF TypeOK, captureRow, ledger, settings, scanner, vars, Active, Ended, Outcomes, Steps, Upset
<1>0. \A c \in Captures : SlotCoversJob(c)
  BY Zenon DEF SlotInv
<1>1. ASSUME NEW c \in Captures, RequestCapture(c) PROVE SlotInv'
  <2>1. ASSUME NEW d \in Captures PROVE SlotCoversJob(d)'
    <3>1. CASE d = c
      BY SMTT(60), <1>1, <2>1, <3>1, <1>0, HoldIsNat DEF RequestCapture, SlotCoversJob, Startable, InTime
    <3>2. CASE d # c
      BY Zenon, <1>1, <2>1, <3>2, <1>0, CoverFrame DEF RequestCapture
    <3> QED
      BY <3>1, <3>2, ZenonT(60)
  <2>2. Occupied(status)' \subseteq Occupied(status)
    BY <1>1, ZenonT(60) DEF RequestCapture, Occupied, Held
  <2> QED
    BY <2>1, <2>2, OccupiedFrame, Zenon DEF SlotInv
<1>2. ASSUME NEW c \in Captures, CancelCapture(c) PROVE SlotInv'
  <2>1. ASSUME NEW d \in Captures PROVE SlotCoversJob(d)'
    <3>1. CASE d = c
      BY <1>2, <2>1, <3>1, <1>0, HoldIsNat DEF CancelCapture, SlotCoversJob, Startable, InTime
    <3>2. CASE d # c
      BY Zenon, <1>2, <2>1, <3>2, <1>0, CoverFrame DEF CancelCapture
    <3> QED
      BY <3>1, <3>2, Zenon
  <2>2. Occupied(status)' \subseteq Occupied(status)
    BY <1>2, ZenonT(60) DEF CancelCapture, Occupied, Held
  <2> QED
    BY <2>1, <2>2, OccupiedFrame, Zenon DEF SlotInv
<1>3. ASSUME NEW c \in Captures, DeleteCapture(c) PROVE SlotInv'
  <2>1. ASSUME NEW d \in Captures PROVE SlotCoversJob(d)'
    <3>1. CASE d = c
      <4>1. SlotCoversJob(c) /\ ~Held(c)
        BY <1>0, <1>3, Zenon DEF DeleteCapture
      <4>2. c \notin executing
        BY <4>1, CoveredIsHeld, Zenon
      <4>3. Startable(c) => ~InTime(c)
        BY <4>1, CoveredIsHeld, Zenon
      <4> QED
        BY <1>3, <3>1, <4>1, <4>2, <4>3 DEF DeleteCapture, SlotCoversJob, Startable, InTime
    <3>2. CASE d # c
      BY Zenon, <1>3, <2>1, <3>2, <1>0, CoverFrame DEF DeleteCapture
    <3> QED
      BY <3>1, <3>2, Zenon
  <2>2. Occupied(status)' \subseteq Occupied(status)
    BY <1>3, ZenonT(60) DEF DeleteCapture, Occupied, Held
  <2> QED
    BY <2>1, <2>2, OccupiedFrame, Zenon DEF SlotInv
<1>4. ASSUME NEW c \in Captures, Launch(c) PROVE SlotInv'
  <2>1. ASSUME NEW d \in Captures PROVE SlotCoversJob(d)'
    <3>1. CASE d = c
      <4>1. SlotCoversJob(c) /\ c \notin jobs \cup claimed \cup executing /\ step[c] = "launch"
        BY <1>0, <1>4, Zenon DEF Launch, SlotCoversJob
      <4>2. \A o \in Outcomes : <<c, o>> \notin results
        BY <4>1, ZenonT(60) DEF SlotCoversJob
      <4>3. CASE status[c] = "running" /\ allowed[TenantOf[c]]
        BY SMTT(60), <1>4, <3>1, <4>1, <4>2, <4>3 DEF Launch, SlotCoversJob, Startable, InTime
      <4>4. CASE status[c] = "running" /\ ~allowed[TenantOf[c]]
        BY SMTT(60), <1>4, <3>1, <4>1, <4>2, <4>4 DEF Launch, SlotCoversJob, Startable, InTime
      <4>5. CASE status[c] # "running"
        BY <1>4, <3>1, <4>1, <4>2, <4>5, ZenonT(60) DEF Launch, SlotCoversJob, Startable, InTime
      <4> QED
        BY <4>3, <4>4, <4>5, Zenon
    <3>2. CASE d # c
      <4>1. status'[d] = status[d] /\ hold'[d] = hold[d] /\ hard'[d] = hard[d] /\ step'[d] = step[d]
        BY <1>4, <2>1, <3>2, SMTT(60) DEF Launch
      <4> QED
        BY ZenonT(60), <1>4, <2>1, <4>1, <1>0, CoverFrame DEF Launch
    <3> QED
      BY <3>1, <3>2, Zenon
  <2>2. Occupied(status)' \subseteq Occupied(status)
    BY <1>4, SMTT(60) DEF Launch, Occupied, Held
  <2> QED
    BY <2>1, <2>2, OccupiedFrame, Zenon DEF SlotInv
<1>5. ASSUME NEW c \in Captures, PublishJob(c) PROVE SlotInv'
  <2>1. ASSUME NEW d \in Captures PROVE SlotCoversJob(d)'
    <3>1. CASE d = c
      BY <1>5, <2>1, <3>1, <1>0, HoldIsNat DEF PublishJob, SlotCoversJob, Startable, InTime
    <3>2. CASE d # c
      BY Zenon, <1>5, <2>1, <3>2, <1>0, CoverFrame DEF PublishJob
    <3> QED
      BY <3>1, <3>2, Zenon
  <2>2. Occupied(status)' \subseteq Occupied(status)
    BY <1>5, ZenonT(60) DEF PublishJob, Occupied, Held
  <2> QED
    BY <2>1, <2>2, OccupiedFrame, Zenon DEF SlotInv
<1>6. ASSUME NEW c \in Captures, PublishRaises(c) PROVE SlotInv'
  <2>1. ASSUME NEW d \in Captures PROVE SlotCoversJob(d)'
    <3>1. CASE d = c
      BY <1>6, <2>1, <3>1, <1>0, HoldIsNat DEF PublishRaises, SlotCoversJob, Startable, InTime
    <3>2. CASE d # c
      BY Zenon, <1>6, <2>1, <3>2, <1>0, CoverFrame DEF PublishRaises
    <3> QED
      BY <3>1, <3>2, Zenon
  <2>2. Occupied(status)' \subseteq Occupied(status)
    BY <1>6, ZenonT(60) DEF PublishRaises, Occupied, Held
  <2> QED
    BY <2>1, <2>2, OccupiedFrame, Zenon DEF SlotInv
<1>7. ASSUME NEW c \in Captures, MarkDispatched(c) PROVE SlotInv'
  <2>1. ASSUME NEW d \in Captures PROVE SlotCoversJob(d)'
    <3>1. CASE d = c
      BY <1>7, <2>1, <3>1, <1>0, HoldIsNat DEF MarkDispatched, SlotCoversJob, Startable, InTime
    <3>2. CASE d # c
      BY ZenonT(60), <1>7, <2>1, <3>2, <1>0, CoverFrame, Zenon DEF MarkDispatched
    <3> QED
      BY <3>1, <3>2, Zenon
  <2>2. Occupied(status)' \subseteq Occupied(status)
    BY <1>7, SMTT(60) DEF MarkDispatched, Occupied, Held
  <2> QED
    BY <2>1, <2>2, OccupiedFrame, Zenon DEF SlotInv
<1>8. ASSUME NEW c \in Captures, DispatcherCrash(c) PROVE SlotInv'
  <2>1. ASSUME NEW d \in Captures PROVE SlotCoversJob(d)'
    <3>1. CASE d = c
      BY <1>8, <2>1, <3>1, <1>0, HoldIsNat, Zenon DEF DispatcherCrash, SlotCoversJob, Startable, InTime
    <3>2. CASE d # c
      BY ZenonT(60), <1>8, <2>1, <3>2, <1>0, CoverFrame, Zenon DEF DispatcherCrash
    <3> QED
      BY <3>1, <3>2, Zenon
  <2>2. Occupied(status)' \subseteq Occupied(status)
    BY <1>8, ZenonT(60) DEF DispatcherCrash, Occupied, Held
  <2> QED
    BY <2>1, <2>2, OccupiedFrame, Zenon DEF SlotInv
<1>9. ASSUME NEW c \in Captures, StartJob(c) PROVE SlotInv'
  <2>1. ASSUME NEW d \in Captures PROVE SlotCoversJob(d)'
    <3>1. CASE d = c
      <4>1. SlotCoversJob(c) /\ Startable(c) /\ hard[c] \in Timeouts
        BY <1>0, <1>9, Zenon DEF StartJob, SlotCoversJob, Startable
      <4>2. c \notin executing /\ \A o \in Outcomes : <<c, o>> \notin results
        BY <1>9, <4>1, ZenonT(60) DEF StartJob, SlotCoversJob
      <4>3. CASE InTime(c)
        <5>1. hard[c] \in Nat /\ hold[c] = SlotHold(hard[c]) /\ clock[c] <= StartWindow
          BY Zenon, <4>1, <4>3, HoldIsNat DEF SlotCoversJob, InTime
        <5>2. /\ executing' = executing \cup {c} /\ runTime'[c] = 0 /\ claimed' = claimed \cup {c}
              /\ UNCHANGED <<status, clock, hold, step, hard, jobs, results>>
          BY <1>9, <4>3, Zenon DEF StartJob
        <5>3. status[c] \notin {"none", "queued"} /\ step[c] \notin {"launch", "publish", "fail"}
          BY <1>9, <4>1, Zenon DEF StartJob, SlotCoversJob
        <5> QED
          BY SMTT(60), <3>1, <4>1, <4>2, <5>1, <5>2, <5>3 DEF SlotCoversJob, Startable
      <4>4. CASE ~InTime(c)
        BY <1>9, <3>1, <4>1, <4>2, <4>4, ZenonT(60) DEF StartJob, SlotCoversJob, Startable, InTime
      <4> QED
        BY <4>3, <4>4, Zenon
    <3>2. CASE d # c
      BY Zenon, <1>9, <2>1, <3>2, <1>0, CoverFrame DEF StartJob
    <3> QED
      BY <3>1, <3>2, Zenon
  <2>2. Occupied(status)' \subseteq Occupied(status)
    BY <1>9, ZenonT(60) DEF StartJob, Occupied, Held
  <2> QED
    BY <2>1, <2>2, OccupiedFrame, Zenon DEF SlotInv
<1>10. ASSUME NEW c \in Captures, DropJob(c) PROVE SlotInv'
  <2>1. ASSUME NEW d \in Captures PROVE SlotCoversJob(d)'
    <3>1. CASE d = c
      BY <1>10, <2>1, <3>1, <1>0, HoldIsNat, Zenon DEF DropJob, SlotCoversJob, Startable, InTime
    <3>2. CASE d # c
      BY Zenon, <1>10, <2>1, <3>2, <1>0, CoverFrame DEF DropJob
    <3> QED
      BY <3>1, <3>2, Zenon
  <2>2. Occupied(status)' \subseteq Occupied(status)
    BY <1>10, ZenonT(60) DEF DropJob, Occupied, Held
  <2> QED
    BY <2>1, <2>2, OccupiedFrame, Zenon DEF SlotInv
<1>11. ASSUME NEW c \in Captures, FinishJob(c) PROVE SlotInv'
  <2>1. ASSUME NEW d \in Captures PROVE SlotCoversJob(d)'
    <3>1. CASE d = c
      BY <1>11, <2>1, <3>1, <1>0, HoldIsNat, Zenon DEF FinishJob, SlotCoversJob, Startable, InTime
    <3>2. CASE d # c
      BY Zenon, <1>11, <2>1, <3>2, <1>0, CoverFrame DEF FinishJob
    <3> QED
      BY <3>1, <3>2, Zenon
  <2>2. Occupied(status)' \subseteq Occupied(status)
    BY <1>11, ZenonT(60) DEF FinishJob, Occupied, Held
  <2> QED
    BY <2>1, <2>2, OccupiedFrame, Zenon DEF SlotInv
<1>12. ASSUME NEW c \in Captures, LoseRun(c) PROVE SlotInv'
  <2>1. ASSUME NEW d \in Captures PROVE SlotCoversJob(d)'
    <3>1. CASE d = c
      BY <1>12, <2>1, <3>1, <1>0, HoldIsNat, Zenon DEF LoseRun, SlotCoversJob, Startable, InTime
    <3>2. CASE d # c
      BY Zenon, <1>12, <2>1, <3>2, <1>0, CoverFrame DEF LoseRun
    <3> QED
      BY <3>1, <3>2, Zenon
  <2>2. Occupied(status)' \subseteq Occupied(status)
    BY <1>12, Zenon DEF LoseRun, Occupied, Held
  <2> QED
    BY <2>1, <2>2, OccupiedFrame, Zenon DEF SlotInv
<1>13. CASE Reserve
  <2>1. PICK P : Reservation(P) /\ (P = {} \/ (Free > 0 /\ Cardinality(P) <= Free))
    BY <1>13, ReserveTakes, Zenon
  <2>2. ASSUME NEW d \in Captures PROVE SlotCoversJob(d)'
    <3>1. CASE d \in P
      BY <1>0, <2>1, <2>2, <3>1, ZenonT(60) DEF Reservation, SlotCoversJob, Startable, InTime
    <3>2. CASE d \notin P
      BY <1>0, <2>1, <2>2, <3>2, ZenonT(60) DEF Reservation, SlotCoversJob, Startable, InTime, Lost
    <3> QED
      BY <3>1, <3>2, Zenon
  <2>3. Occupied(status)' \subseteq Occupied(AfterWatchdog) \cup P
    BY <2>1, Zenon DEF Reservation, Occupied, Held, AfterWatchdog
  <2>4. Occupied(AfterWatchdog) \subseteq Occupied(status)
    BY Zenon DEF Occupied, Held, AfterWatchdog, Lost
  <2>5. Cardinality(Occupied(status)') <= MaxConcurrent
    <3>1. CASE P = {}
      BY <2>3, <2>4, <3>1, OccupiedFrame, ZenonT(60)
    <3>2. CASE Free > 0 /\ Cardinality(P) <= Free
      <4>1. P \subseteq Captures /\ Occupied(AfterWatchdog) \subseteq Captures
        BY <2>1, Zenon DEF Reservation, Occupied
      <4>2. /\ IsFiniteSet(P) /\ IsFiniteSet(Occupied(AfterWatchdog))
            /\ Cardinality(P) \in Nat /\ Cardinality(Occupied(AfterWatchdog)) \in Nat
        BY <4>1, CapturesFinite, ZenonT(60)
      <4>3. /\ IsFiniteSet(Occupied(AfterWatchdog) \cup P)
            /\ Cardinality(Occupied(AfterWatchdog) \cup P) <= Cardinality(Occupied(AfterWatchdog)) + Cardinality(P)
            /\ Cardinality(Occupied(AfterWatchdog) \cup P) \in Nat
        <5>1. /\ IsFiniteSet(Occupied(AfterWatchdog) \cup P) /\ IsFiniteSet(Occupied(AfterWatchdog) \cap P)
              /\ Cardinality(Occupied(AfterWatchdog) \cup P) =
                   Cardinality(Occupied(AfterWatchdog)) + Cardinality(P) - Cardinality(Occupied(AfterWatchdog) \cap P)
          BY Zenon, <4>2, FS_Union, FS_Intersection
        <5>2. Cardinality(Occupied(AfterWatchdog) \cap P) \in Nat /\ Cardinality(Occupied(AfterWatchdog) \cup P) \in Nat
          BY <5>1, FS_CardinalityType, Zenon
        <5> QED
          BY SMTT(60), <4>2, <5>1, <5>2
      <4>4. /\ Cardinality(Occupied(status)') \in Nat
            /\ Cardinality(Occupied(status)') <= Cardinality(Occupied(AfterWatchdog) \cup P)
        BY <2>3, <4>3, FS_Subset, FS_CardinalityType, Zenon
      <4> QED
        BY SMTT(60), <3>2, <4>2, <4>3, <4>4 DEF Free
    <3> QED
      BY <2>1, <3>1, <3>2, Zenon
  <2> QED
    BY <2>2, <2>5, Zenon DEF SlotInv
<1>14. ASSUME NEW r \in results, LoseResult(r) PROVE SlotInv'
  <2>1. ASSUME NEW d \in Captures PROVE SlotCoversJob(d)'
    BY Zenon, <1>0, <1>14, <2>1, CoverFrame DEF LoseResult
  <2>2. Occupied(status)' \subseteq Occupied(status)
    BY <1>14, Zenon DEF LoseResult, Occupied, Held
  <2> QED
    BY <2>1, <2>2, OccupiedFrame, Zenon DEF SlotInv
<1>15. ASSUME NEW r \in results, ReceiveResult(r) PROVE SlotInv'
  <2>0. PICK c \in Captures, o \in Outcomes : r = <<c, o>>
    OBVIOUS
  <2>1. c \in claimed /\ c \notin executing
    BY Zenon, <1>0, <2>0 DEF SlotCoversJob
  <2>2. ASSUME NEW d \in Captures PROVE SlotCoversJob(d)'
    <3>1. CASE d = c
      BY <1>0, <1>15, <2>0, <2>1, <3>1, ZenonT(60) DEF ReceiveResult, SlotCoversJob, Startable, InTime
    <3>2. CASE d # c
      BY ZenonT(60), <1>0, <1>15, <2>0, <2>2, <3>2, CoverFrame DEF ReceiveResult
    <3> QED
      BY <3>1, <3>2, Zenon
  <2>3. Occupied(status)' \subseteq Occupied(status)
    BY <1>15, <2>0, Zenon DEF ReceiveResult, Occupied, Held
  <2> QED
    BY <2>2, <2>3, OccupiedFrame, ZenonT(60) DEF SlotInv
<1>16. ASSUME NEW t \in Tenants, SetAllowed(t) PROVE SlotInv'
  <2>1. ASSUME NEW d \in Captures PROVE SlotCoversJob(d)'
    BY Zenon, <1>0, <1>16, <2>1, CoverFrame DEF SetAllowed
  <2>2. Occupied(status)' \subseteq Occupied(status)
    BY <1>16, Zenon DEF SetAllowed, Occupied, Held
  <2> QED
    BY <2>1, <2>2, OccupiedFrame, Zenon DEF SlotInv
<1>17. ASSUME NEW limit \in Timeouts, SetTimeout(limit) PROVE SlotInv'
  <2>1. ASSUME NEW d \in Captures PROVE SlotCoversJob(d)'
    BY Zenon, <1>0, <1>17, <2>1, CoverFrame DEF SetTimeout
  <2>2. Occupied(status)' \subseteq Occupied(status)
    BY <1>17, Zenon DEF SetTimeout, Occupied, Held
  <2> QED
    BY <2>1, <2>2, OccupiedFrame, Zenon DEF SlotInv
<1>18. CASE NewDay
  <2>1. ASSUME NEW d \in Captures PROVE SlotCoversJob(d)'
    BY ZenonT(60), <1>0, <1>18, <2>1, CoverFrame, Zenon DEF NewDay
  <2>2. Occupied(status)' \subseteq Occupied(status)
    BY <1>18, Zenon DEF NewDay, Occupied, Held
  <2> QED
    BY <2>1, <2>2, OccupiedFrame, Zenon DEF SlotInv
<1>19. CASE Tick
  <2>1. ASSUME NEW d \in Captures PROVE SlotCoversJob(d)'
    <3>1. SlotCoversJob(d) /\ clock'[d] \in {clock[d], clock[d] + 1} /\ clock[d] \in Nat
      BY SMTT(60), <1>0, <1>19, <2>1 DEF Tick
    <3>2. InTime(d)' => InTime(d)
      BY SMTT(60), <1>19, <3>1, <2>1 DEF Tick, InTime
    <3>3. d \in executing => clock'[d] <= StartWindow + runTime'[d] /\ runTime'[d] <= hard[d]
      <4>1. SUFFICES ASSUME d \in executing
                     PROVE  clock'[d] <= StartWindow + runTime'[d] /\ runTime'[d] <= hard[d]
        BY Zenon
      <4>2. /\ hard[d] \in Timeouts /\ clock[d] <= StartWindow + runTime[d]
            /\ runTime[d] < hard[d] /\ runTime'[d] = runTime[d] + 1
        BY <1>19, <2>1, <3>1, <4>1, ZenonT(60) DEF Tick, SlotCoversJob
      <4>3. hard[d] \in Nat /\ StartWindow \in Nat /\ runTime[d] \in Nat
        BY ZenonT(60), <4>2, HoldIsNat, <2>1
      <4> QED
        BY SMTT(60), <3>1, <4>2, <4>3
    <3> QED
      BY <1>19, <3>1, <3>2, <3>3, ZenonT(60) DEF Tick, SlotCoversJob, Startable
  <2>2. Occupied(status)' \subseteq Occupied(status)
    BY <1>19 DEF Tick, Occupied, Held
  <2> QED
    BY <2>1, <2>2, OccupiedFrame, Zenon DEF SlotInv
<1>20. CASE UNCHANGED vars
  <2>1. ASSUME NEW d \in Captures PROVE SlotCoversJob(d)'
    BY Zenon, <1>0, <1>20, <2>1, CoverFrame
  <2>2. Occupied(status)' \subseteq Occupied(status)
    BY <1>20, Zenon DEF Occupied, Held
  <2> QED
    BY <2>1, <2>2, OccupiedFrame, Zenon DEF SlotInv
<1> QED
  BY Zenon, <1>1, <1>2, <1>3, <1>4, <1>5, <1>6, <1>7, <1>8, <1>9, <1>10, <1>11, <1>12, <1>13, <1>14, <1>15, <1>16,
     <1>17, <1>18, <1>19, <1>20 DEF Next

\* The captures that execute occupy slots.
LEMMA ExecutingOccupies ==
  ASSUME TypeOK, SlotInv
  PROVE  ActiveLimit
<1>1. executing \subseteq Occupied(status)
  <2>1. ASSUME NEW c \in executing PROVE Held(c)
    <3>1. c \in Captures /\ SlotCoversJob(c)
      BY Zenon DEF TypeOK, SlotInv
    <3> QED
      BY <3>1, CoveredIsHeld, Zenon
  <2> QED
    BY <2>1, Zenon DEF Occupied, TypeOK
<1>2. Occupied(status) \subseteq Captures
  BY Zenon DEF Occupied
<1>3. IsFiniteSet(Occupied(status)) /\ Cardinality(Occupied(status)) \in Nat
  BY <1>2, CapturesFinite, Zenon
<1>4. Cardinality(executing) \in Nat /\ Cardinality(executing) <= Cardinality(Occupied(status))
  BY <1>1, <1>3, FS_Subset, FS_CardinalityType, Zenon
<1> QED
  BY <1>3, <1>4, ConstantsAssumption DEF SlotInv, ActiveLimit

(* For every number of captures and tenants, every max_concurrent and every *)
(* set of time limits: no more captures execute than max_concurrent, with   *)
(* crashes, losses, cancellations and a slow broker, provided no slot's     *)
(* record is deleted, no job is taken by a broker that reported a failure,  *)
(* and the time limit does not change between a reservation and its launch. *)
THEOREM CapturesLimited == Spec => []ActiveLimit
<1> DEFINE IInv == TypeOK /\ (mishaps = {} => SlotInv)
<1>1. Init => IInv
  BY TypeInit, SlotInit, Zenon
<1>2. IInv /\ [Next]_vars => IInv'
  <2> SUFFICES ASSUME IInv, [Next]_vars PROVE IInv'
    BY Zenon
  <2>1. TypeOK'
    BY TypeStep, Zenon
  <2>2. ASSUME mishaps' = {} PROVE SlotInv'
    BY <2>2, MishapsStay, SlotStep, Zenon
  <2> QED
    BY <2>1, <2>2, Zenon
<1>3. IInv => ActiveLimit
  BY ExecutingOccupies, Zenon DEF ActiveLimit
<1> HIDE DEF IInv
<1> QED
  BY <1>1, <1>2, <1>3, PTL DEF Spec

-----------------------------------------------------------------------------
(* The daily allowance *)

LEMMA ChargedFinite ==
  ASSUME TypeOK, NEW t \in Tenants
  PROVE  IsFiniteSet(Charged(t)) /\ Cardinality(Charged(t)) \in Nat
<1>1. Charged(t) \subseteq Captures
  BY Zenon DEF Charged, TypeOK
<1> QED
  BY <1>1, CapturesFinite, Zenon

\* A step that charges nothing anew and leaves the counter keeps the invariant.
LEMMA AllowanceFrame ==
  ASSUME TypeOK, AllowanceInv, usage' = usage, createdToday' = createdToday,
         \A c \in Captures : status'[c] = "queued" => status[c] = "queued",
         \A c \in Captures : status'[c] = "none" => status[c] = "none",
         \A c \in Captures : c \in started' => c \in started \/ (status[c] = "queued" /\ status'[c] = "running")
  PROVE  AllowanceInv'
<1>1. ASSUME NEW t \in Tenants
      PROVE  Cardinality(Charged(t))' <= usage'[t] /\ usage'[t] <= PerTenantDaily
  <2>1. Charged(t)' \subseteq Charged(t)
    BY Zenon DEF Charged, TypeOK
  <2>2. Cardinality(Charged(t)') \in Nat /\ Cardinality(Charged(t)') <= Cardinality(Charged(t))
    BY <2>1, ChargedFinite, FS_Subset, FS_CardinalityType, Zenon
  <2>3. usage[t] \in Nat /\ PerTenantDaily \in Nat
    BY ConstantsAssumption, Zenon DEF TypeOK
  <2> QED
    BY <2>2, <2>3, ChargedFinite DEF AllowanceInv
<1>2. \A c \in Captures : status'[c] \in {"none", "queued"} => c \notin started'
  BY Zenon DEF AllowanceInv
<1> QED
  BY <1>1, <1>2, Zenon DEF AllowanceInv

LEMMA AllowanceInit == Init => AllowanceInv
<1> SUFFICES ASSUME Init PROVE AllowanceInv
  BY Zenon
<1>1. ASSUME NEW t \in Tenants PROVE Charged(t) = {} /\ usage[t] = 0
  BY Zenon DEF Init, Charged
<1>2. Cardinality({}) = 0 /\ PerTenantDaily \in Nat
  BY FS_EmptySet, ConstantsAssumption, Zenon
<1>3. \A t \in Tenants : Cardinality(Charged(t)) <= usage[t] /\ usage[t] <= PerTenantDaily
  BY <1>1, <1>2
<1> QED
  BY <1>3, Zenon DEF Init, AllowanceInv

LEMMA RequestCharges ==
  ASSUME TypeOK, AllowanceInv, NEW c \in Captures, RequestCapture(c)
  PROVE  AllowanceInv'
<1> DEFINE o == TenantOf[c]
<1>1. /\ status' = [status EXCEPT ![c] = "queued"] /\ usage' = [usage EXCEPT ![o] = @ + 1]
      /\ createdToday' = createdToday \cup {c} /\ started' = started /\ usage[o] < PerTenantDaily /\ status[c] = "none"
  BY Zenon DEF RequestCapture
<1>2. o \in Tenants /\ usage \in [Tenants -> Nat] /\ status \in [Captures -> {"none", "gone"} \cup Active \cup Ended]
      /\ PerTenantDaily \in Nat /\ createdToday \subseteq Captures
  BY ConstantsAssumption, Zenon DEF TypeOK
<1>3. ASSUME NEW t \in Tenants
      PROVE  Cardinality(Charged(t))' <= usage'[t] /\ usage'[t] <= PerTenantDaily
  <2>1. Cardinality(Charged(t)) <= usage[t] /\ usage[t] <= PerTenantDaily /\ usage[t] \in Nat
    BY <1>2, Zenon DEF AllowanceInv
  <2>2. CASE t = o
    <3>1. Charged(t)' \subseteq Charged(t) \cup {c}
      BY <1>1, <1>2, Zenon DEF Charged
    <3>a. IsFiniteSet(Charged(t)) /\ Cardinality(Charged(t)) \in Nat
      BY ChargedFinite, Zenon
    <3>b. /\ IsFiniteSet(Charged(t) \cup {c})
          /\ Cardinality(Charged(t) \cup {c}) = IF c \in Charged(t) THEN Cardinality(Charged(t)) ELSE Cardinality(Charged(t)) + 1
      BY Zenon, <3>a, FS_AddElement
    <3>2. IsFiniteSet(Charged(t) \cup {c}) /\ Cardinality(Charged(t) \cup {c}) <= Cardinality(Charged(t)) + 1
      BY <3>a, <3>b
    <3>3. Cardinality(Charged(t)') \in Nat /\ Cardinality(Charged(t)') <= Cardinality(Charged(t) \cup {c})
      BY <3>1, <3>2, FS_Subset, FS_CardinalityType, Zenon
    <3>4. Cardinality(Charged(t) \cup {c}) \in Nat /\ Cardinality(Charged(t)) \in Nat
      BY <3>2, ChargedFinite, FS_CardinalityType, Zenon
    <3> QED
      BY <1>1, <1>2, <2>1, <2>2, <3>2, <3>3, <3>4, SMTT(60)
  <2>3. CASE t # o
    <3>1. Charged(t)' = Charged(t) /\ usage'[t] = usage[t]
      BY <1>1, <1>2, <2>3, Zenon DEF Charged
    <3> QED
      BY <2>1, <3>1, Zenon
  <2> QED
    BY <2>2, <2>3, Zenon
<1>4. \A d \in Captures : status'[d] \in {"none", "queued"} => d \notin started'
  BY <1>1, <1>2, Zenon DEF AllowanceInv
<1> QED
  BY <1>3, <1>4, Zenon DEF AllowanceInv

LEMMA CancelRefunds ==
  ASSUME TypeOK, AllowanceInv, NEW c \in Captures, CancelCapture(c)
  PROVE  AllowanceInv'
<1> DEFINE o == TenantOf[c]
<1>1. /\ status' = [status EXCEPT ![c] = "cancelled"] /\ createdToday' = createdToday /\ started' = started
      /\ usage' = IF Refund(c) THEN [usage EXCEPT ![o] = IF @ > 0 THEN @ - 1 ELSE 0] ELSE usage
  BY Zenon DEF CancelCapture
<1>2. o \in Tenants /\ usage \in [Tenants -> Nat] /\ status \in [Captures -> {"none", "gone"} \cup Active \cup Ended]
      /\ PerTenantDaily \in Nat /\ createdToday \subseteq Captures
  BY ConstantsAssumption, Zenon DEF TypeOK
<1>3. CASE ~Refund(c)
  BY <1>1, <1>2, <1>3, AllowanceFrame, Zenon
<1>4. CASE Refund(c)
  <2>1. c \in Charged(o) /\ c \notin started
    BY <1>4, ZenonT(60) DEF Refund, Charged, AllowanceInv
  <2>2. ASSUME NEW t \in Tenants
        PROVE  Cardinality(Charged(t))' <= usage'[t] /\ usage'[t] <= PerTenantDaily
    <3>1. Cardinality(Charged(t)) <= usage[t] /\ usage[t] <= PerTenantDaily /\ usage[t] \in Nat
      BY <1>2, Zenon DEF AllowanceInv
    <3>2. CASE t = o
      <4>1. Charged(t)' = Charged(t) \ {c}
        BY <1>1, <1>2, <2>1, <3>2, Zenon DEF Charged
      <4>2. Cardinality(Charged(t) \ {c}) = Cardinality(Charged(t)) - 1 /\ Cardinality(Charged(t)) \in Nat
        BY <2>1, <3>2, ChargedFinite, FS_RemoveElement, Zenon
      <4>3. Cardinality(Charged(t) \ {c}) \in Nat
        BY ChargedFinite, FS_RemoveElement, FS_CardinalityType, Zenon
      <4>4. usage'[t] = IF usage[t] > 0 THEN usage[t] - 1 ELSE 0
        BY <1>1, <1>2, <1>4, <3>2, ZenonT(60)
      <4> QED
        BY <1>2, <3>1, <4>1, <4>2, <4>3, <4>4
    <3>3. CASE t # o
      <4>1. Charged(t)' = Charged(t) /\ usage'[t] = usage[t]
        BY <1>1, <1>2, <1>4, <3>3, Zenon DEF Charged
      <4> QED
        BY <3>1, <4>1, Zenon
    <3> QED
      BY <3>2, <3>3, Zenon
  <2>3. \A d \in Captures : status'[d] \in {"none", "queued"} => d \notin started'
    BY <1>1, <1>2, Zenon DEF AllowanceInv
  <2> QED
    BY <2>2, <2>3, Zenon DEF AllowanceInv
<1> QED
  BY <1>3, <1>4, Zenon

\* What of a step the allowance depends on: the other actions charge nothing.
LEMMA AllowanceStep == ASSUME TypeOK, AllowanceInv, [Next]_vars PROVE AllowanceInv'
<1> USE DEF captureRow, ledger, settings, scanner, vars, Active, Ended, Outcomes
<1>1. ASSUME NEW c \in Captures, RequestCapture(c) \/ CancelCapture(c) PROVE AllowanceInv'
  BY <1>1, RequestCharges, CancelRefunds, Zenon
<1>2. ASSUME NEW c \in Captures, DeleteCapture(c) PROVE AllowanceInv'
  <2>1. status' = [status EXCEPT ![c] = "gone"] /\ UNCHANGED <<ledger, started>>
    BY <1>2, Zenon DEF DeleteCapture
  <2> QED
    BY <2>1, AllowanceFrame, Zenon DEF TypeOK
<1>3. ASSUME NEW c \in Captures, Launch(c) PROVE AllowanceInv'
  <2>1. status' \in {status, [status EXCEPT ![c] = "blocked"]} /\ UNCHANGED <<ledger, started>>
    BY <1>3, Zenon DEF Launch
  <2> QED
    BY <2>1, AllowanceFrame, Zenon DEF TypeOK
<1>4. ASSUME NEW c \in Captures, MarkDispatched(c) PROVE AllowanceInv'
  <2>1. status' \in {status, [status EXCEPT ![c] = "failed"]} /\ UNCHANGED <<ledger, started>>
    BY <1>4, Zenon DEF MarkDispatched
  <2> QED
    BY <2>1, AllowanceFrame, Zenon DEF TypeOK
<1>5. ASSUME NEW c \in Captures,
             PublishJob(c) \/ PublishRaises(c) \/ DispatcherCrash(c) \/ StartJob(c) \/ DropJob(c) \/ FinishJob(c) \/ LoseRun(c)
      PROVE  AllowanceInv'
  <2>1. UNCHANGED <<status, ledger, started>>
    BY <1>5, Zenon DEF PublishJob, PublishRaises, DispatcherCrash, StartJob, DropJob, FinishJob, LoseRun
  <2> QED
    BY <2>1, AllowanceFrame, Zenon
<1>6. ASSUME Reserve PROVE AllowanceInv'
  <2>1. PICK P : Reservation(P)
    BY <1>6, ReserveTakes, Zenon
  <2>2. /\ \A c \in P : status[c] = "queued"
        /\ status' = [c \in Captures |-> IF c \in P THEN "running" ELSE IF c \in Lost THEN "failed" ELSE status[c]]
        /\ started' = started \cup P /\ UNCHANGED ledger
    BY <2>1, Zenon DEF Reservation
  <2> QED
    BY <2>2, AllowanceFrame, Zenon
<1>7. ASSUME NEW r \in results, ReceiveResult(r) PROVE AllowanceInv'
  <2>1. /\ status' = IF status[r[1]] = "running" THEN [status EXCEPT ![r[1]] = r[2]] ELSE status
        /\ UNCHANGED <<ledger, started>> /\ r[1] \in Captures /\ r[2] \in Outcomes
    BY <1>7, Zenon DEF ReceiveResult, TypeOK
  <2> QED
    BY <2>1, AllowanceFrame, Zenon DEF TypeOK
<1>8. ASSUME NewDay PROVE AllowanceInv'
  <2>1. usage' = [t \in Tenants |-> 0] /\ createdToday' = {} /\ status' = status /\ started' = started
    BY <1>8, Zenon DEF NewDay
  <2>2. \A t \in Tenants : Charged(t)' = {} /\ usage'[t] = 0
    BY <2>1, Zenon DEF Charged
  <2>3. Cardinality({}) = 0 /\ PerTenantDaily \in Nat
    BY FS_EmptySet, ConstantsAssumption, Zenon
  <2>4. \A t \in Tenants : Cardinality(Charged(t)') <= usage'[t] /\ usage'[t] <= PerTenantDaily
    BY <2>2, <2>3
  <2> QED
    BY <2>1, <2>4, Zenon DEF AllowanceInv
<1>9. ASSUME \/ \E r \in results : LoseResult(r)
             \/ \E t \in Tenants : SetAllowed(t)
             \/ \E limit \in Timeouts : SetTimeout(limit)
             \/ Tick \/ UNCHANGED vars
      PROVE  AllowanceInv'
  <2>1. UNCHANGED <<status, ledger, started>>
    BY <1>9, Zenon DEF LoseResult, SetAllowed, SetTimeout, Tick
  <2> QED
    BY <2>1, AllowanceFrame, Zenon
<1> QED
  BY <1>1, <1>2, <1>3, <1>4, <1>5, <1>6, <1>7, <1>8, <1>9, ZenonT(60) DEF Next

(* For every number of captures and tenants and every per_tenant_daily: of  *)
(* the captures a tenant requests on one day no more are ever started than  *)
(* its allowance, whatever it cancels, deletes and requests again, because  *)
(* only a cancellation before the dispatch gives the allowance back         *)
(* (cancel_capture).                                                        *)
THEOREM AllowanceKept == Spec => []DailyAllowance
<1> DEFINE IInv == TypeOK /\ AllowanceInv
<1>1. Init => IInv
  BY TypeInit, AllowanceInit, Zenon
<1>2. IInv /\ [Next]_vars => IInv'
  BY TypeStep, AllowanceStep, Zenon
<1>3. IInv => DailyAllowance
  <2> SUFFICES ASSUME TypeOK, AllowanceInv, NEW t \in Tenants
               PROVE  Cardinality({c \in createdToday \cap started : TenantOf[c] = t}) <= PerTenantDaily
    BY Zenon DEF DailyAllowance
  <2> DEFINE S == {c \in createdToday \cap started : TenantOf[c] = t}
  <2>1. S \subseteq Charged(t) /\ IsFiniteSet(Charged(t)) /\ Cardinality(Charged(t)) \in Nat
    BY ChargedFinite, Zenon DEF Charged
  <2>2. Cardinality(S) \in Nat /\ Cardinality(S) <= Cardinality(Charged(t))
    BY <2>1, FS_Subset, FS_CardinalityType, Zenon
  <2>3. usage[t] \in Nat /\ PerTenantDaily \in Nat
    BY ConstantsAssumption, Zenon DEF TypeOK
  <2> QED
    BY <2>1, <2>2, <2>3 DEF AllowanceInv
<1> HIDE DEF IInv
<1> QED
  BY <1>1, <1>2, <1>3, PTL DEF Spec

-----------------------------------------------------------------------------
(* Images and records *)

\* What is replaced or beyond the policy is stored.
LEMMA ChosenStored ==
  /\ \A c \in Captures : Replaced(OlderOf(c)) \subseteq Stored \ {c}
  /\ Extra \subseteq Stored
  /\ \A c \in Stored : c \in Captures /\ row[c] = "succeeded"
<1>1. \A c \in Captures : Replaced(OlderOf(c)) \subseteq OlderOf(c)
  BY Zenon DEF Replaced
<1>2. \A c \in Captures : OlderOf(c) \subseteq Stored \ {c}
  BY Zenon DEF OlderOf
<1>3. Extra \subseteq Stored
  BY Zenon DEF Extra
<1> QED
  BY <1>1, <1>2, <1>3, Zenon DEF Stored

LEMMA StoreTypeInit == StoreInit => StoreTypeOK
BY StoreAssumption DEF StoreInit, StoreTypeOK, RowStatus, ReceiverSteps

LEMMA StoreTypeStep == StoreTypeOK /\ [StoreNext]_store => StoreTypeOK'
<1> SUFFICES ASSUME StoreTypeOK, [StoreNext]_store PROVE StoreTypeOK'
  BY Zenon
<1> USE StoreAssumption DEF StoreTypeOK, RowStatus, ReceiverSteps
<1>1. ASSUME NEW c \in Captures, Dispatch(c) PROVE StoreTypeOK'
  BY <1>1, Zenon DEF Dispatch
<1>2. ASSUME NEW c \in Captures, Abandon(c) PROVE StoreTypeOK'
  BY <1>2, Zenon DEF Abandon
<1>3. ASSUME NEW c \in Captures, Refuse(c) PROVE StoreTypeOK'
  BY <1>3, Zenon DEF Refuse, RefusedStatus
<1>4. ASSUME NEW c \in Captures, Check(c) PROVE StoreTypeOK'
  BY <1>4, ChosenStored DEF Check, StoreMishaps
<1>5. ASSUME NEW c \in Captures, Put(c) PROVE StoreTypeOK'
  BY <1>5, Zenon DEF Put
<1>6. ASSUME NEW c \in Captures, Commit(c) PROVE StoreTypeOK'
  BY <1>6, Zenon DEF Commit
<1>7. ASSUME NEW c \in Captures, DropObjects(c) PROVE StoreTypeOK'
  BY <1>7 DEF DropObjects
<1>8. ASSUME NEW c \in Captures, DropRecords(c) PROVE StoreTypeOK'
  BY <1>8, Zenon DEF DropRecords, Gone
<1>9. ASSUME NEW c \in Captures, CommitFails(c) PROVE StoreTypeOK'
  BY <1>9 DEF CommitFails, Upset, RemoveObject
<1>10. ASSUME NEW c \in Captures, ReceiverCrash(c) PROVE StoreTypeOK'
  BY <1>10 DEF ReceiverCrash, Upset, StoreMishaps
<1>11. ASSUME NEW c \in Captures, UserDeletes(c) PROVE StoreTypeOK'
  BY <1>11, Zenon DEF UserDeletes, DeleteObjects, Stored
<1>12. ASSUME NEW c \in Captures, PurgeFailed(c) PROVE StoreTypeOK'
  BY <1>12, Zenon DEF PurgeFailed
<1>13. ASSUME Retention PROVE StoreTypeOK'
  BY <1>13, ChosenStored DEF Retention, DeleteObjects
<1>14. ASSUME DeleteRecords PROVE StoreTypeOK'
  BY <1>14, Zenon DEF DeleteRecords, Gone
<1>15. ASSUME DeleterCrash PROVE StoreTypeOK'
  BY <1>15 DEF DeleterCrash, Upset, StoreMishaps
<1>16. ASSUME QueueOrganization PROVE StoreTypeOK'
  BY <1>16, Zenon DEF QueueOrganization, StoreMishaps, QueueOrganizationObjects, Stored
<1>17. ASSUME DeleteOrganization PROVE StoreTypeOK'
  BY <1>17, Zenon DEF DeleteOrganization, Gone
<1>18. ASSUME PurgeObjects PROVE StoreTypeOK'
  BY <1>18 DEF PurgeObjects
<1>19. ASSUME PurgeCommit PROVE StoreTypeOK'
  BY <1>19, Zenon DEF PurgeCommit
<1>20. ASSUME PurgeCrash PROVE StoreTypeOK'
  BY <1>20 DEF PurgeCrash, Upset
<1>21. CASE UNCHANGED store
  BY <1>21, Zenon DEF store
<1> QED
  BY <1>1, <1>2, <1>3, <1>4, <1>5, <1>6, <1>7, <1>8, <1>9, <1>10, <1>11, <1>12, <1>13, <1>14, <1>15, <1>16, <1>17, <1>18, <1>19, <1>20, <1>21, ZenonT(60) DEF StoreNext, Receive

-----------------------------------------------------------------------------
LEMMA StoreStarts == StoreInit => StoreInv
BY Zenon DEF StoreInit, StoreInv, ImagesMatchRecords, NoOrphanImage, NoDanglingRecord, ResultInv, DeletionInv, OrganizationInv, Stored, Locked

LEMMA StoreStep == StoreTypeOK /\ StoreInv /\ [StoreNext]_store => StoreInv'
<1> SUFFICES ASSUME StoreTypeOK, StoreInv, [StoreNext]_store PROVE StoreInv'
  BY Zenon
<1>a. /\ NoOrphanImage /\ NoDanglingRecord /\ (\A d \in Captures : ResultInv(d)) /\ DeletionInv /\ OrganizationInv
      /\ row \in [Captures -> RowStatus] /\ receiver \in [Captures -> ReceiverSteps] /\ drop \in [Captures -> SUBSET Captures]
      /\ deleter \subseteq Captures /\ queued \subseteq Captures /\ pending \subseteq Captures /\ objects \subseteq Captures
  BY Zenon DEF StoreTypeOK, StoreInv, ImagesMatchRecords
<1>z. ASSUME NoOrphanImage', NoDanglingRecord', \A d \in Captures : ResultInv(d)', DeletionInv', OrganizationInv' PROVE StoreInv'
  BY <1>z, Zenon DEF StoreInv, ImagesMatchRecords
<1>1. ASSUME NEW c \in Captures, Dispatch(c) PROVE StoreInv'
  <2>1. NoOrphanImage'
    BY <1>a, <1>1, ZenonT(60) DEF NoOrphanImage, ResultInv, DeletionInv, OrganizationInv, Locked, Stored, Dispatch
  <2>2. NoDanglingRecord'
    BY <1>a, <1>1 DEF NoDanglingRecord, ResultInv, DeletionInv, Locked, Stored, Dispatch
  <2>3. ASSUME NEW d \in Captures PROVE ResultInv(d)'
    BY <1>a, <1>1, <2>3 DEF ResultInv, NoOrphanImage, DeletionInv, Locked, Stored, Dispatch
  <2>4. DeletionInv'
    BY <1>a, <1>1, ZenonT(60) DEF ResultInv, DeletionInv, Locked, Stored, Dispatch
  <2>5. OrganizationInv'
    BY <1>a, <1>1 DEF ResultInv, OrganizationInv, Locked, Stored, Dispatch
  <2> QED
    BY <2>1, <2>2, <2>3, <2>4, <2>5, <1>z, ZenonT(60)
<1>2. ASSUME NEW c \in Captures, Abandon(c) PROVE StoreInv'
  <2>1. NoOrphanImage'
    BY <1>a, <1>2 DEF NoOrphanImage, ResultInv, DeletionInv, OrganizationInv, Locked, Stored, Abandon
  <2>2. NoDanglingRecord'
    BY <1>a, <1>2 DEF NoDanglingRecord, ResultInv, DeletionInv, Locked, Stored, Abandon
  <2>3. ASSUME NEW d \in Captures PROVE ResultInv(d)'
    BY <1>a, <1>2, <2>3 DEF ResultInv, NoOrphanImage, DeletionInv, Locked, Stored, Abandon
  <2>4. DeletionInv'
    BY <1>a, <1>2, ZenonT(60) DEF ResultInv, DeletionInv, Locked, Stored, Abandon
  <2>5. OrganizationInv'
    BY <1>a, <1>2 DEF ResultInv, OrganizationInv, Locked, Stored, Abandon
  <2> QED
    BY <2>1, <2>2, <2>3, <2>4, <2>5, <1>z, Zenon
<1>3. ASSUME NEW c \in Captures, Refuse(c) PROVE StoreInv'
  <2>1. NoOrphanImage'
    BY <1>a, <1>3, ZenonT(60) DEF NoOrphanImage, ResultInv, DeletionInv, OrganizationInv, Locked, Stored, Refuse, RefusedStatus
  <2>2. NoDanglingRecord'
    BY <1>a, <1>3 DEF NoDanglingRecord, ResultInv, DeletionInv, Locked, Stored, Refuse, RefusedStatus
  <2>3. ASSUME NEW d \in Captures PROVE ResultInv(d)'
    BY <1>a, <1>3, <2>3 DEF ResultInv, NoOrphanImage, DeletionInv, Locked, Stored, Refuse, RefusedStatus
  <2>4. DeletionInv'
    BY <1>a, <1>3, Zenon DEF ResultInv, DeletionInv, Locked, Stored, Refuse, RefusedStatus
  <2>5. OrganizationInv'
    BY <1>a, <1>3, SMTT(60) DEF ResultInv, OrganizationInv, Locked, Stored, Refuse, RefusedStatus
  <2> QED
    BY <2>1, <2>2, <2>3, <2>4, <2>5, <1>z, Zenon
<1>4. ASSUME NEW c \in Captures, Check(c) PROVE StoreInv'
  <2>1. NoOrphanImage'
    BY <1>a, <1>4, ChosenStored, ZenonT(60) DEF NoOrphanImage, ResultInv, DeletionInv, OrganizationInv, Locked, Stored, Check
  <2>2. NoDanglingRecord'
    BY <1>a, <1>4, ChosenStored DEF NoDanglingRecord, ResultInv, DeletionInv, Locked, Stored, Check
  <2>3. ASSUME NEW d \in Captures PROVE ResultInv(d)'
    BY <1>a, <1>4, ChosenStored, <2>3 DEF ResultInv, NoOrphanImage, DeletionInv, Locked, Stored, Check
  <2>4. DeletionInv'
    BY <1>a, <1>4, ChosenStored, ZenonT(60) DEF ResultInv, DeletionInv, Locked, Stored, Check
  <2>5. OrganizationInv'
    BY <1>a, <1>4, ChosenStored, Zenon DEF ResultInv, OrganizationInv, Locked, Stored, Check
  <2> QED
    BY <2>1, <2>2, <2>3, <2>4, <2>5, <1>z, Zenon
<1>5. ASSUME NEW c \in Captures, Put(c) PROVE StoreInv'
  <2>1. NoOrphanImage'
    BY <1>a, <1>5, Zenon DEF NoOrphanImage, ResultInv, DeletionInv, OrganizationInv, Locked, Stored, Put
  <2>2. NoDanglingRecord'
    BY <1>a, <1>5, ZenonT(60) DEF NoDanglingRecord, ResultInv, DeletionInv, Locked, Stored, Put
  <2>3. ASSUME NEW d \in Captures PROVE ResultInv(d)'
    BY <1>a, <1>5, <2>3 DEF ResultInv, NoOrphanImage, DeletionInv, Locked, Stored, Put
  <2>4. DeletionInv'
    BY <1>a, <1>5, Zenon DEF ResultInv, DeletionInv, Locked, Stored, Put
  <2>5. OrganizationInv'
    BY <1>a, <1>5, ZenonT(60) DEF ResultInv, OrganizationInv, Locked, Stored, Put
  <2> QED
    BY <2>1, <2>2, <2>3, <2>4, <2>5, <1>z, Zenon
<1>6. ASSUME NEW c \in Captures, Commit(c) PROVE StoreInv'
  <2>1. NoOrphanImage'
    BY <1>a, <1>6, ZenonT(60) DEF NoOrphanImage, ResultInv, DeletionInv, OrganizationInv, Locked, Stored, Commit
  <2>2. NoDanglingRecord'
    BY <1>a, <1>6 DEF NoDanglingRecord, ResultInv, DeletionInv, Locked, Stored, Commit
  <2>3. ASSUME NEW d \in Captures PROVE ResultInv(d)'
    BY <1>a, <1>6, <2>3 DEF ResultInv, NoOrphanImage, DeletionInv, Locked, Stored, Commit
  <2>4. DeletionInv'
    BY <1>a, <1>6, ZenonT(60) DEF ResultInv, DeletionInv, Locked, Stored, Commit
  <2>5. OrganizationInv'
    BY <1>a, <1>6, Zenon DEF ResultInv, OrganizationInv, Locked, Stored, Commit
  <2> QED
    BY <2>1, <2>2, <2>3, <2>4, <2>5, <1>z, Zenon
<1>7. ASSUME NEW c \in Captures, DropObjects(c) PROVE StoreInv'
  <2>1. NoOrphanImage'
    BY <1>a, <1>7, ZenonT(60) DEF NoOrphanImage, ResultInv, DeletionInv, OrganizationInv, Locked, Stored, DropObjects
  <2>2. NoDanglingRecord'
    BY <1>a, <1>7, SMTT(60) DEF NoDanglingRecord, ResultInv, DeletionInv, Locked, Stored, DropObjects
  <2>3. ASSUME NEW d \in Captures PROVE ResultInv(d)'
    BY <1>a, <1>7, <2>3 DEF ResultInv, NoOrphanImage, DeletionInv, Locked, Stored, DropObjects
  <2>4. DeletionInv'
    BY <1>a, <1>7, ZenonT(60) DEF ResultInv, DeletionInv, Locked, Stored, DropObjects
  <2>5. OrganizationInv'
    BY <1>a, <1>7, SMTT(60) DEF ResultInv, OrganizationInv, Locked, Stored, DropObjects
  <2> QED
    BY <2>1, <2>2, <2>3, <2>4, <2>5, <1>z, Zenon
<1>8. ASSUME NEW c \in Captures, DropRecords(c) PROVE StoreInv'
  <2>1. NoOrphanImage'
    BY <1>a, <1>8, Zenon DEF NoOrphanImage, ResultInv, DeletionInv, OrganizationInv, Locked, Stored, DropRecords, Gone
  <2>2. NoDanglingRecord'
    BY <1>a, <1>8, ZenonT(60) DEF NoDanglingRecord, ResultInv, DeletionInv, Locked, Stored, DropRecords, Gone
  <2>3. ASSUME NEW d \in Captures PROVE ResultInv(d)'
    BY <1>a, <1>8, <2>3 DEF ResultInv, NoOrphanImage, DeletionInv, Locked, Stored, DropRecords, Gone
  <2>4. DeletionInv'
    BY <1>a, <1>8, ZenonT(60) DEF ResultInv, DeletionInv, Locked, Stored, DropRecords, Gone
  <2>5. OrganizationInv'
    BY <1>a, <1>8, SMTT(60) DEF ResultInv, OrganizationInv, Locked, Stored, DropRecords, Gone
  <2> QED
    BY <2>1, <2>2, <2>3, <2>4, <2>5, <1>z, Zenon
<1>9. ASSUME NEW c \in Captures, CommitFails(c) PROVE StoreInv'
  <2>1. NoOrphanImage'
    BY <1>a, <1>9, Zenon DEF NoOrphanImage, ResultInv, DeletionInv, OrganizationInv, Locked, Stored, CommitFails, RemoveObject
  <2>2. NoDanglingRecord'
    BY <1>a, <1>9, ZenonT(60) DEF NoDanglingRecord, ResultInv, DeletionInv, Locked, Stored, CommitFails, RemoveObject
  <2>3. ASSUME NEW d \in Captures PROVE ResultInv(d)'
    BY <1>a, <1>9, <2>3 DEF ResultInv, NoOrphanImage, DeletionInv, Locked, Stored, CommitFails, RemoveObject
  <2>4. DeletionInv'
    BY <1>a, <1>9, Zenon DEF ResultInv, DeletionInv, Locked, Stored, CommitFails, RemoveObject
  <2>5. OrganizationInv'
    BY <1>a, <1>9, ZenonT(60) DEF ResultInv, OrganizationInv, Locked, Stored, CommitFails, RemoveObject
  <2> QED
    BY <2>1, <2>2, <2>3, <2>4, <2>5, <1>z, Zenon
<1>10. ASSUME NEW c \in Captures, ReceiverCrash(c) PROVE StoreInv'
  <2>1. NoOrphanImage'
    BY <1>a, <1>10, Zenon DEF NoOrphanImage, ResultInv, DeletionInv, OrganizationInv, Locked, Stored, ReceiverCrash
  <2>2. NoDanglingRecord'
    BY <1>a, <1>10, ZenonT(60) DEF NoDanglingRecord, ResultInv, DeletionInv, Locked, Stored, ReceiverCrash
  <2>3. ASSUME NEW d \in Captures PROVE ResultInv(d)'
    BY <1>a, <1>10, <2>3 DEF ResultInv, NoOrphanImage, DeletionInv, Locked, Stored, ReceiverCrash
  <2>4. DeletionInv'
    BY <1>a, <1>10, ZenonT(60) DEF ResultInv, DeletionInv, Locked, Stored, ReceiverCrash
  <2>5. OrganizationInv'
    BY <1>a, <1>10, SMTT(60) DEF ResultInv, OrganizationInv, Locked, Stored, ReceiverCrash
  <2> QED
    BY <2>1, <2>2, <2>3, <2>4, <2>5, <1>z, Zenon
<1>11. ASSUME NEW c \in Captures, UserDeletes(c) PROVE StoreInv'
  <2>1. NoOrphanImage'
    BY <1>a, <1>11, Zenon DEF NoOrphanImage, ResultInv, DeletionInv, OrganizationInv, Locked, Stored, UserDeletes, DeleteObjects
  <2>2. NoDanglingRecord'
    BY <1>a, <1>11, Zenon DEF NoDanglingRecord, ResultInv, DeletionInv, Locked, Stored, UserDeletes, DeleteObjects
  <2>3. ASSUME NEW d \in Captures PROVE ResultInv(d)'
    BY <1>a, <1>11, <2>3, Zenon DEF ResultInv, NoOrphanImage, DeletionInv, Locked, Stored, UserDeletes, DeleteObjects
  <2>4. DeletionInv'
    BY <1>a, <1>11, Zenon DEF ResultInv, DeletionInv, Locked, Stored, UserDeletes, DeleteObjects
  <2>5. OrganizationInv'
    BY <1>a, <1>11, ZenonT(60) DEF ResultInv, OrganizationInv, Locked, Stored, UserDeletes, DeleteObjects
  <2> QED
    BY <2>1, <2>2, <2>3, <2>4, <2>5, <1>z, Zenon
<1>12. ASSUME NEW c \in Captures, PurgeFailed(c) PROVE StoreInv'
  <2>1. NoOrphanImage'
    BY <1>a, <1>12, ZenonT(60) DEF NoOrphanImage, ResultInv, DeletionInv, OrganizationInv, Locked, Stored, PurgeFailed
  <2>2. NoDanglingRecord'
    BY <1>a, <1>12, SMTT(60) DEF NoDanglingRecord, ResultInv, DeletionInv, Locked, Stored, PurgeFailed
  <2>3. ASSUME NEW d \in Captures PROVE ResultInv(d)'
    BY <1>a, <1>12, <2>3 DEF ResultInv, NoOrphanImage, DeletionInv, Locked, Stored, PurgeFailed
  <2>4. DeletionInv'
    BY <1>a, <1>12, ZenonT(60) DEF ResultInv, DeletionInv, Locked, Stored, PurgeFailed
  <2>5. OrganizationInv'
    BY <1>a, <1>12 DEF ResultInv, OrganizationInv, Locked, Stored, PurgeFailed
  <2> QED
    BY <2>1, <2>2, <2>3, <2>4, <2>5, <1>z, Zenon
<1>13. ASSUME Retention PROVE StoreInv'
  <2>1. NoOrphanImage'
    BY <1>a, <1>13, ChosenStored, Zenon DEF NoOrphanImage, ResultInv, DeletionInv, OrganizationInv, Locked, Stored, Retention, DeleteObjects
  <2>2. NoDanglingRecord'
    BY <1>a, <1>13, ChosenStored, ZenonT(60) DEF NoDanglingRecord, ResultInv, DeletionInv, Locked, Stored, Retention, DeleteObjects
  <2>3. ASSUME NEW d \in Captures PROVE ResultInv(d)'
    BY <1>a, <1>13, ChosenStored, <2>3, ZenonT(60) DEF ResultInv, NoOrphanImage, DeletionInv, Locked, Stored, Retention, DeleteObjects
  <2>4. DeletionInv'
    BY <1>a, <1>13, ChosenStored, ZenonT(60) DEF ResultInv, DeletionInv, Locked, Stored, Retention, DeleteObjects
  <2>5. OrganizationInv'
    BY <1>a, <1>13, ChosenStored, Zenon DEF ResultInv, OrganizationInv, Locked, Stored, Retention, DeleteObjects
  <2> QED
    BY <2>1, <2>2, <2>3, <2>4, <2>5, <1>z, Zenon
<1>14. ASSUME DeleteRecords PROVE StoreInv'
  <2>1. NoOrphanImage'
    BY <1>a, <1>14, Zenon DEF NoOrphanImage, ResultInv, DeletionInv, OrganizationInv, Locked, Stored, DeleteRecords, Gone
  <2>2. NoDanglingRecord'
    BY <1>a, <1>14, Zenon DEF NoDanglingRecord, ResultInv, DeletionInv, Locked, Stored, DeleteRecords, Gone
  <2>3. ASSUME NEW d \in Captures PROVE ResultInv(d)'
    BY <1>a, <1>14, <2>3, Zenon DEF ResultInv, NoOrphanImage, DeletionInv, Locked, Stored, DeleteRecords, Gone
  <2>4. DeletionInv'
    BY <1>a, <1>14, Zenon DEF ResultInv, DeletionInv, Locked, Stored, DeleteRecords, Gone
  <2>5. OrganizationInv'
    BY <1>a, <1>14, ZenonT(60) DEF ResultInv, OrganizationInv, Locked, Stored, DeleteRecords, Gone
  <2> QED
    BY <2>1, <2>2, <2>3, <2>4, <2>5, <1>z, Zenon
<1>15. ASSUME DeleterCrash PROVE StoreInv'
  <2>1. NoOrphanImage'
    BY <1>a, <1>15, Zenon DEF NoOrphanImage, ResultInv, DeletionInv, OrganizationInv, Locked, Stored, DeleterCrash
  <2>2. NoDanglingRecord'
    BY <1>a, <1>15, Zenon DEF NoDanglingRecord, ResultInv, DeletionInv, Locked, Stored, DeleterCrash
  <2>3. ASSUME NEW d \in Captures PROVE ResultInv(d)'
    BY <1>a, <1>15, <2>3, Zenon DEF ResultInv, NoOrphanImage, DeletionInv, Locked, Stored, DeleterCrash
  <2>4. DeletionInv'
    BY <1>a, <1>15, Zenon DEF ResultInv, DeletionInv, Locked, Stored, DeleterCrash
  <2>5. OrganizationInv'
    BY <1>a, <1>15, ZenonT(60) DEF ResultInv, OrganizationInv, Locked, Stored, DeleterCrash
  <2> QED
    BY <2>1, <2>2, <2>3, <2>4, <2>5, <1>z, Zenon
<1>16. ASSUME QueueOrganization PROVE StoreInv'
  <2>1. NoOrphanImage'
    BY <1>a, <1>16, Zenon DEF NoOrphanImage, ResultInv, DeletionInv, OrganizationInv, Locked, Stored, QueueOrganization, QueueOrganizationObjects
  <2>2. NoDanglingRecord'
    BY <1>a, <1>16, Zenon DEF NoDanglingRecord, ResultInv, DeletionInv, Locked, Stored, QueueOrganization, QueueOrganizationObjects
  <2>3. ASSUME NEW d \in Captures PROVE ResultInv(d)'
    BY <1>a, <1>16, <2>3, Zenon DEF ResultInv, NoOrphanImage, DeletionInv, Locked, Stored, QueueOrganization, QueueOrganizationObjects
  <2>4. DeletionInv'
    BY <1>a, <1>16, Zenon DEF ResultInv, DeletionInv, Locked, Stored, QueueOrganization, QueueOrganizationObjects
  <2>5. OrganizationInv'
    BY <1>a, <1>16, ZenonT(60) DEF ResultInv, OrganizationInv, Locked, Stored, QueueOrganization, QueueOrganizationObjects
  <2> QED
    BY <2>1, <2>2, <2>3, <2>4, <2>5, <1>z, Zenon
<1>17. ASSUME DeleteOrganization PROVE StoreInv'
  <2>1. NoOrphanImage'
    BY <1>a, <1>17, Zenon DEF NoOrphanImage, ResultInv, DeletionInv, OrganizationInv, Locked, Stored, DeleteOrganization, Gone
  <2>2. NoDanglingRecord'
    BY <1>a, <1>17, Zenon DEF NoDanglingRecord, ResultInv, DeletionInv, Locked, Stored, DeleteOrganization, Gone
  <2>3. ASSUME NEW d \in Captures PROVE ResultInv(d)'
    BY <1>a, <1>17, <2>3, Zenon DEF ResultInv, NoOrphanImage, DeletionInv, Locked, Stored, DeleteOrganization, Gone
  <2>4. DeletionInv'
    BY <1>a, <1>17, Zenon DEF ResultInv, DeletionInv, Locked, Stored, DeleteOrganization, Gone
  <2>5. OrganizationInv'
    BY <1>a, <1>17, ZenonT(60) DEF ResultInv, OrganizationInv, Locked, Stored, DeleteOrganization, Gone
  <2> QED
    BY <2>1, <2>2, <2>3, <2>4, <2>5, <1>z, Zenon
<1>18. ASSUME PurgeObjects PROVE StoreInv'
  <2>1. NoOrphanImage'
    BY <1>a, <1>18, Zenon DEF NoOrphanImage, ResultInv, DeletionInv, OrganizationInv, Locked, Stored, PurgeObjects
  <2>2. NoDanglingRecord'
    BY <1>a, <1>18, Zenon DEF NoDanglingRecord, ResultInv, DeletionInv, Locked, Stored, PurgeObjects
  <2>3. ASSUME NEW d \in Captures PROVE ResultInv(d)'
    BY <1>a, <1>18, <2>3, ZenonT(60) DEF ResultInv, NoOrphanImage, DeletionInv, Locked, Stored, PurgeObjects
  <2>4. DeletionInv'
    BY <1>a, <1>18 DEF ResultInv, DeletionInv, Locked, Stored, PurgeObjects
  <2>5. OrganizationInv'
    BY <1>a, <1>18, ZenonT(60) DEF ResultInv, OrganizationInv, Locked, Stored, PurgeObjects
  <2> QED
    BY <2>1, <2>2, <2>3, <2>4, <2>5, <1>z, Zenon
<1>19. ASSUME PurgeCommit PROVE StoreInv'
  <2>1. NoOrphanImage'
    BY <1>a, <1>19, Zenon DEF NoOrphanImage, ResultInv, DeletionInv, OrganizationInv, Locked, Stored, PurgeCommit
  <2>2. NoDanglingRecord'
    BY <1>a, <1>19, Zenon DEF NoDanglingRecord, ResultInv, DeletionInv, Locked, Stored, PurgeCommit
  <2>3. ASSUME NEW d \in Captures PROVE ResultInv(d)'
    BY <1>a, <1>19, <2>3, Zenon DEF ResultInv, NoOrphanImage, DeletionInv, Locked, Stored, PurgeCommit
  <2>4. DeletionInv'
    BY <1>a, <1>19, Zenon DEF ResultInv, DeletionInv, Locked, Stored, PurgeCommit
  <2>5. OrganizationInv'
    BY <1>a, <1>19, ZenonT(60) DEF ResultInv, OrganizationInv, Locked, Stored, PurgeCommit
  <2> QED
    BY <2>1, <2>2, <2>3, <2>4, <2>5, <1>z, Zenon
<1>20. ASSUME PurgeCrash PROVE StoreInv'
  <2>1. NoOrphanImage'
    BY <1>a, <1>20, Zenon DEF NoOrphanImage, ResultInv, DeletionInv, OrganizationInv, Locked, Stored, PurgeCrash
  <2>2. NoDanglingRecord'
    BY <1>a, <1>20, Zenon DEF NoDanglingRecord, ResultInv, DeletionInv, Locked, Stored, PurgeCrash
  <2>3. ASSUME NEW d \in Captures PROVE ResultInv(d)'
    BY <1>a, <1>20, <2>3, Zenon DEF ResultInv, NoOrphanImage, DeletionInv, Locked, Stored, PurgeCrash
  <2>4. DeletionInv'
    BY <1>a, <1>20, Zenon DEF ResultInv, DeletionInv, Locked, Stored, PurgeCrash
  <2>5. OrganizationInv'
    BY <1>a, <1>20, ZenonT(60) DEF ResultInv, OrganizationInv, Locked, Stored, PurgeCrash
  <2> QED
    BY <2>1, <2>2, <2>3, <2>4, <2>5, <1>z, Zenon
<1>21. ASSUME UNCHANGED store PROVE StoreInv'
  <2>1. NoOrphanImage'
    BY <1>a, <1>21, Zenon DEF NoOrphanImage, ResultInv, DeletionInv, OrganizationInv, Locked, Stored, store
  <2>2. NoDanglingRecord'
    BY <1>a, <1>21, Zenon DEF NoDanglingRecord, ResultInv, DeletionInv, Locked, Stored, store
  <2>3. ASSUME NEW d \in Captures PROVE ResultInv(d)'
    BY <1>a, <1>21, <2>3, Zenon DEF ResultInv, NoOrphanImage, DeletionInv, Locked, Stored, store
  <2>4. DeletionInv'
    BY <1>a, <1>21, Zenon DEF ResultInv, DeletionInv, Locked, Stored, store
  <2>5. OrganizationInv'
    BY <1>a, <1>21, ZenonT(60) DEF ResultInv, OrganizationInv, Locked, Stored, store
  <2> QED
    BY <2>1, <2>2, <2>3, <2>4, <2>5, <1>z, Zenon
<1> QED
  BY <1>1, <1>2, <1>3, <1>4, <1>5, <1>6, <1>7, <1>8, <1>9, <1>10, <1>11, <1>12, <1>13, <1>14, <1>15, <1>16, <1>17, <1>18, <1>19, <1>20, <1>21, ZenonT(60) DEF StoreNext, Receive

(* Store and database agree, both ways, but for the crashes and the race    *)
(* ImagesMatchRecords names, for any number of captures, endpoints, crashes *)
(* and storage errors (services/screenshots.py).                            *)
THEOREM ImagesMatch == StoreSpec => []ImagesMatchRecords
<1> DEFINE Inv == StoreTypeOK /\ StoreInv
<1>1. StoreInit => Inv
  BY StoreTypeInit, StoreStarts, Zenon
<1>2. Inv /\ [StoreNext]_store => Inv'
  BY StoreTypeStep, StoreStep, Zenon
<1>3. Inv => ImagesMatchRecords
  BY Zenon DEF StoreInv
<1> HIDE DEF Inv
<1> QED
  BY <1>1, <1>2, <1>3, PTL DEF StoreSpec

-----------------------------------------------------------------------------
(* The quota.                                                              *)

\* Sets of captures have an oldest and a newest one.
LEMMA Least == ASSUME NEW S, S \subseteq Nat, S # {} PROVE \E m \in S : \A x \in S : m <= x
<1> DEFINE R == OpToRel(<, Nat)
<1>1. IsWellFoundedOn(R, Nat)
  BY NatLessThanWellFounded, Zenon
<1>2. \A x, y \in Nat : y < x => <<y, x>> \in R
  BY Zenon DEF OpToRel
<1> HIDE DEF R
<1>3. PICK m \in S : \A y \in S : ~ (<<y, m>> \in R)
  BY <1>1, WFMin, Zenon
<1>4. ASSUME NEW y \in S PROVE m <= y
  <2>1. m \in Nat /\ y \in Nat
    BY Zenon
  <2>2. ~(y < m)
    BY <1>2, <1>3, <2>1, Zenon
  <2> QED
    BY <2>1, <2>2
<1> QED
  BY <1>4, Zenon

LEMMA Greatest == ASSUME NEW S, NEW n \in Nat, S \subseteq 0 .. n, S # {} PROVE \E m \in S : \A x \in S : x <= m
<1> DEFINE D == {n - x : x \in S}
<1>1. D \subseteq Nat /\ D # {}
  <2>1. PICK x \in S : TRUE
    BY Zenon
  <2>2. n - x \in D
    BY Zenon
  <2>3. \A y \in S : n - y \in Nat
    OBVIOUS
  <2> QED
    BY <2>2, <2>3, Zenon
<1>2. PICK d \in D : \A x \in D : d <= x
  <2> HIDE DEF D
  <2> QED
    BY <1>1, Least, Zenon
<1>3. PICK m \in S : d = n - m
  BY Zenon
<1>4. ASSUME NEW x \in S PROVE x <= m
  <2>1. n - x \in D
    BY Zenon
  <2>2. d <= n - x
    BY <1>2, <2>1, Zenon
  <2> QED
    BY <1>3, <2>2
<1> QED
  BY <1>4, Zenon

LEMMA SubsetSmaller == \A S \in SUBSET Captures : \A T \in SUBSET S : Cardinality(T) <= Cardinality(S)
BY CapturesFinite, FS_Subset, Zenon

\* Without the extra ones the images of an endpoint are as few as the policy keeps.
LEMMA ExtraEnough == PolicyKeeps(Stored \ Extra)
<1> SUFFICES ASSUME NEW t \in Stored \ Extra
             PROVE  Cardinality({u \in Stored \ Extra : AssetOf[u] = AssetOf[t]}) <= Keep
  BY Zenon DEF PolicyKeeps
<1> DEFINE U == {u \in Stored \ Extra : AssetOf[u] = AssetOf[t]}
<1>1. Stored \subseteq Captures /\ U \subseteq Captures /\ U \subseteq Nat /\ t \in U
  BY DEF Stored, Captures
<1>2. PICK m \in U : \A x \in U : m <= x
  <2> HIDE DEF U
  <2> QED
    BY <1>1, Least, Zenon
<1> DEFINE W == {d \in Stored : AssetOf[d] = AssetOf[m] /\ d > m}
<1>3. W \in SUBSET Captures /\ Cardinality(W) \in Nat
  <2>1. W \in SUBSET Captures
    BY <1>1, Zenon
  <2> HIDE DEF W
  <2> QED
    BY <2>1, CapturesFinite, Zenon
<1>4. ~(Cardinality(W) >= Keep)
  BY <1>1, Zenon DEF Extra
<1>5. U \ {m} \subseteq W
  BY <1>1, <1>2
<1> HIDE DEF U, W
<1>6. Cardinality(U \ {m}) <= Cardinality(W)
  BY <1>3, <1>5, SubsetSmaller, Zenon
<1>7. Cardinality(U \ {m}) = Cardinality(U) - 1 /\ Cardinality(U) \in Nat
  BY <1>1, <1>2, CapturesFinite, FS_RemoveElement, Zenon
<1>8. Cardinality(U) <= Keep
  BY <1>3, <1>4, <1>6, <1>7, StoreAssumption
<1> QED
  BY <1>8, Zenon DEF U

\* An image that passes the quota check fits, whatever is removed before it is stored.
LEMMA FitsWithin ==
  ASSUME NEW c \in Captures, c \notin Stored, pending = {}, Fits(c)
  PROVE  WithinQuota(Stored \cup {c})
<1> DEFINE O == OlderOf(c)
           R == Replaced(O)
           S == Stored
<1>1. S \in SUBSET Captures /\ O \subseteq S /\ R \subseteq O /\ S \cup {c} \in SUBSET Captures
  <2>1. S \subseteq Captures
    BY Zenon DEF Stored
  <2>2. O \subseteq S
    BY Zenon DEF OlderOf
  <2>3. R \subseteq O
    BY Zenon DEF Replaced
  <2> QED
    BY <2>1, <2>2, <2>3, Zenon
<1>2. \A o \in O : AssetOf[o] = AssetOf[c]
  BY Zenon DEF OlderOf
<1>3. \A o \in R : Cardinality({p \in O : p > o}) >= Keep - 1
  BY Zenon DEF Replaced
<1>4. Cardinality(S) - Cardinality(R) + 1 <= Quota
  <2>1. Cardinality(pending) = 0
    BY FS_EmptySet, Zenon
  <2>2. Cardinality(S) \in Nat /\ Cardinality(R) \in Nat
    <3> HIDE DEF S, R, O
    <3> QED
      BY <1>1, CapturesFinite, Zenon
  <2>3. Cardinality(S) + Cardinality(pending) - Cardinality(R) + 1 <= Quota
    <3>1. Usage - Cardinality(Replaced(OlderOf(c))) + 1 <= Quota
      BY Zenon DEF Fits
    <3>2. Usage = Cardinality(S) + Cardinality(pending)
      BY Zenon DEF Usage
    <3>3. Replaced(OlderOf(c)) = R
      BY Zenon
    <3> HIDE DEF S, R, O
    <3>4. Usage - Cardinality(R) + 1 <= Quota
      BY <3>1, <3>3, Zenon
    <3> QED
      BY <3>2, <3>4, <2>1, <2>2, StoreAssumption
  <2> HIDE DEF S, R, O
  <2> QED
    BY <2>1, <2>2, <2>3
<1> HIDE DEF O, R, S
<1>5. /\ Cardinality(S) \in Nat /\ Cardinality(R) \in Nat /\ Cardinality(O) \in Nat /\ IsFiniteSet(S) /\ IsFiniteSet(O)
      /\ O \in SUBSET Captures /\ R \in SUBSET Captures
  BY <1>1, CapturesFinite, Zenon
<1> SUFFICES ASSUME NEW T \in SUBSET (Stored \cup {c}), PolicyKeeps(T) PROVE Cardinality(T) <= Quota
  BY Zenon DEF WithinQuota
<1>6. T \in SUBSET (S \cup {c}) /\ T \in SUBSET Captures /\ IsFiniteSet(T) /\ Cardinality(T) \in Nat
  BY <1>1, CapturesFinite, Zenon DEF S
<1>7. CASE R = {}
  <2>1. Cardinality(R) = 0
    BY <1>7, FS_EmptySet, Zenon
  <2>2. Cardinality(S \cup {c}) = Cardinality(S) + 1
    BY <1>5, FS_AddElement, Zenon DEF S
  <2>3. Cardinality(T) <= Cardinality(S \cup {c})
    BY <1>1, <1>6, SubsetSmaller, ZenonT(60)
  <2> QED
    BY <1>4, <1>5, <1>6, <2>1, <2>2, <2>3, StoreAssumption
<1>8. CASE R # {}
  <2>1. PICK r \in R : \A x \in R : x <= r
    <3>1. R \subseteq 0 .. NumCaptures
      BY <1>5 DEF Captures
    <3> QED
      BY <1>8, <3>1, Greatest, StoreAssumption, Zenon
  <2> DEFINE N == {p \in O : p > r}
             TA == T \cap (O \cup {c})
             TB == T \ (O \cup {c})
  <2>2. N \subseteq O \ R
    <3>1. \A x \in R : x \in Nat
      BY <1>5 DEF Captures
    <3> QED
      BY <2>1, <3>1
  <2>3. Cardinality(N) >= Keep - 1
    BY <1>3, <2>1, Zenon
  <2>4. TA \in SUBSET Captures /\ TB \in SUBSET (S \ O) /\ TA \cap TB = {} /\ T = TA \cup TB
    BY <1>6, Zenon
  <2>5. ASSUME NEW t \in TA PROVE Cardinality(TA) <= Keep
    <3>1. TA \subseteq {u \in T : AssetOf[u] = AssetOf[t]}
      BY <1>2, <2>5
    <3>2. Cardinality({u \in T : AssetOf[u] = AssetOf[t]}) <= Keep
      BY <2>5, Zenon DEF PolicyKeeps
    <3> DEFINE V == {u \in T : AssetOf[u] = AssetOf[t]}
    <3>3. V \in SUBSET Captures
      BY <1>6, Zenon
    <3> HIDE DEF V, TA
    <3>4. Cardinality(TA) <= Cardinality(V)
      BY <3>1, <3>3, SubsetSmaller, Zenon DEF V
    <3>5. Cardinality(V) <= Keep
      BY <3>2, Zenon DEF V
    <3>6. Cardinality(TA) \in Nat /\ Cardinality(V) \in Nat
      BY <2>4, <3>3, CapturesFinite, Zenon
    <3> QED
      BY <3>4, <3>5, <3>6, StoreAssumption, SMTT(60)
  <2> HIDE DEF N, TA, TB
  <2>6. Cardinality(TA) <= Keep
    <3>1. CASE TA = {}
      BY <3>1, FS_EmptySet, StoreAssumption
    <3> QED
      BY <2>5, <3>1, ZenonT(60)
  <2>7. Cardinality(O \ R) = Cardinality(O) - Cardinality(R) /\ Cardinality(S \ O) = Cardinality(S) - Cardinality(O)
    <3>1. O \cap R = R /\ S \cap O = O
      BY <1>1, Zenon
    <3> QED
      BY <1>5, <3>1, FS_Difference, ZenonT(60)
  <2>8. Cardinality(N) <= Cardinality(O \ R) /\ Cardinality(N) \in Nat
    <3>1. O \ R \in SUBSET Captures /\ N \in SUBSET Captures
      BY <1>5, <2>2, Zenon
    <3> QED
      BY <2>2, <3>1, SubsetSmaller, CapturesFinite, Zenon
  <2>9. Cardinality(TB) <= Cardinality(S \ O) /\ Cardinality(TB) \in Nat /\ IsFiniteSet(TB) /\ Cardinality(TA) \in Nat /\ IsFiniteSet(TA)
    <3>1. S \ O \in SUBSET Captures /\ TB \in SUBSET Captures
      BY <1>1, <2>4, Zenon
    <3> QED
      BY <2>4, <3>1, SubsetSmaller, CapturesFinite, Zenon
  <2>10. Cardinality(T) = Cardinality(TA) + Cardinality(TB)
    <3>1. Cardinality(TA \cap TB) = 0
      BY <2>4, FS_EmptySet, Zenon
    <3>2. Cardinality(TA \cup TB) = Cardinality(TA) + Cardinality(TB) - Cardinality(TA \cap TB)
      BY <2>9, FS_Union, Zenon
    <3> QED
      BY <2>4, <2>9, <3>1, <3>2
  <2> QED
    BY <1>4, <1>5, <2>3, <2>6, <2>7, <2>8, <2>9, <2>10, StoreAssumption, SMTT(60)
<1> QED
  BY <1>7, <1>8, Zenon

LEMMA FewerWithin == ASSUME NEW S, NEW T, T \subseteq S, WithinQuota(S) PROVE WithinQuota(T)
BY Zenon DEF WithinQuota

LEMMA QuotaInit == StoreInit => QuotaInv
<1> SUFFICES ASSUME StoreInit PROVE QuotaInv
  BY Zenon
<1>1. Stored = {} /\ pending = {} /\ \A c \in Captures : ~Locked(c)
  BY Zenon DEF StoreInit, Stored, Locked
<1>2. WithinQuota({})
  BY FS_EmptySet, StoreAssumption DEF WithinQuota
<1> QED
  BY <1>1, <1>2, Zenon DEF QuotaInv

\* A step that stores nothing new and begins to receive no result keeps the invariant.
LEMMA QuotaFrame ==
  ASSUME QuotaInv, org' # "deleted" => org # "deleted" /\ pending' = {}, storeMishaps \subseteq storeMishaps',
         Stored' \subseteq Stored, \A c \in Captures : Locked(c)' => Locked(c)
  PROVE  QuotaInv'
<1> SUFFICES ASSUME org' # "deleted", "parallel_results" \notin storeMishaps'
             PROVE  /\ WithinQuota(Stored')
                    /\ \A c \in Captures : Locked(c)' => WithinQuota(Stored' \cup {c}) /\ \A d \in Captures : Locked(d)' => d = c
  BY Zenon DEF QuotaInv, WithinQuota, PolicyKeeps
<1>1. WithinQuota(Stored')
  BY FewerWithin, Zenon DEF QuotaInv
<1>2. ASSUME NEW c \in Captures, Locked(c)' PROVE WithinQuota(Stored' \cup {c}) /\ \A d \in Captures : Locked(d)' => d = c
  <2>1. WithinQuota(Stored \cup {c}) /\ \A d \in Captures : Locked(d) => d = c
    BY <1>2, Zenon DEF QuotaInv
  <2>2. Stored' \cup {c} \subseteq Stored \cup {c}
    BY Zenon
  <2> QED
    BY <2>1, <2>2, FewerWithin, Zenon
<1> QED
  BY <1>1, <1>2, Zenon

LEMMA QuotaStep == StoreTypeOK /\ QuotaInv /\ [StoreNext]_store => QuotaInv'
<1> SUFFICES ASSUME StoreTypeOK, QuotaInv, [StoreNext]_store PROVE QuotaInv'
  BY Zenon
<1>a. row \in [Captures -> RowStatus] /\ receiver \in [Captures -> ReceiverSteps] /\ (org # "deleted" => pending = {})
  BY Zenon DEF StoreTypeOK, QuotaInv
<1>1. ASSUME NEW c \in Captures, Dispatch(c) PROVE QuotaInv'
  BY <1>a, <1>1, QuotaFrame, Zenon DEF Dispatch, Stored, Locked
<1>2. ASSUME NEW c \in Captures, Abandon(c) PROVE QuotaInv'
  BY <1>a, <1>2, QuotaFrame, Zenon DEF Abandon, Stored, Locked
<1>3. ASSUME NEW c \in Captures, Refuse(c) PROVE QuotaInv'
  BY <1>a, <1>3, QuotaFrame, Zenon DEF Refuse, RefusedStatus, Stored, Locked
<1>4. ASSUME NEW c \in Captures, Put(c) PROVE QuotaInv'
  BY <1>a, <1>4, QuotaFrame, Zenon DEF Put, Stored, Locked
<1>5. ASSUME NEW c \in Captures, DropObjects(c) PROVE QuotaInv'
  BY <1>a, <1>5, QuotaFrame, Zenon DEF DropObjects, Stored, Locked
<1>6. ASSUME NEW c \in Captures, DropRecords(c) PROVE QuotaInv'
  BY <1>a, <1>6, QuotaFrame, Zenon DEF DropRecords, Gone, Stored, Locked
<1>7. ASSUME NEW c \in Captures, CommitFails(c) PROVE QuotaInv'
  BY <1>a, <1>7, QuotaFrame, Zenon DEF CommitFails, Stored, Locked
<1>8. ASSUME NEW c \in Captures, ReceiverCrash(c) PROVE QuotaInv'
  BY <1>a, <1>8, QuotaFrame, Zenon DEF ReceiverCrash, Stored, Locked
<1>9. ASSUME NEW c \in Captures, UserDeletes(c) PROVE QuotaInv'
  BY <1>a, <1>9, QuotaFrame, Zenon DEF UserDeletes, DeleteObjects, Stored, Locked
<1>10. ASSUME NEW c \in Captures, PurgeFailed(c) PROVE QuotaInv'
  BY <1>a, <1>10, QuotaFrame, Zenon DEF PurgeFailed, Stored, Locked
<1>11. ASSUME Retention PROVE QuotaInv'
  BY <1>a, <1>11, QuotaFrame, Zenon DEF Retention, DeleteObjects, Stored, Locked
<1>12. ASSUME DeleteRecords PROVE QuotaInv'
  BY <1>a, <1>12, QuotaFrame, Zenon DEF DeleteRecords, Gone, Stored, Locked
<1>13. ASSUME DeleterCrash PROVE QuotaInv'
  BY <1>a, <1>13, QuotaFrame, Zenon DEF DeleterCrash, Stored, Locked
<1>14. ASSUME QueueOrganization PROVE QuotaInv'
  BY <1>a, <1>14, QuotaFrame, Zenon DEF QueueOrganization, Stored, Locked
<1>15. ASSUME DeleteOrganization PROVE QuotaInv'
  BY <1>a, <1>15, QuotaFrame, Zenon DEF DeleteOrganization, Gone, Stored, Locked
<1>16. ASSUME PurgeObjects PROVE QuotaInv'
  BY <1>a, <1>16, QuotaFrame, Zenon DEF PurgeObjects, Stored, Locked
<1>17. ASSUME PurgeCommit PROVE QuotaInv'
  BY <1>a, <1>17, QuotaFrame, Zenon DEF PurgeCommit, Stored, Locked
<1>18. ASSUME PurgeCrash PROVE QuotaInv'
  BY <1>a, <1>18, QuotaFrame, Zenon DEF PurgeCrash, Stored, Locked
<1>19. ASSUME UNCHANGED store PROVE QuotaInv'
  BY <1>a, <1>19, QuotaFrame, Zenon DEF store, Stored, Locked
<1>20. ASSUME NEW c \in Captures, Check(c), ~Fits(c) PROVE QuotaInv'
  BY <1>a, <1>20, QuotaFrame, Zenon DEF Check, Stored, Locked
<1>21. ASSUME NEW c \in Captures, Check(c), Fits(c) PROVE QuotaInv'
  <2>1. /\ receiver' = [receiver EXCEPT ![c] = "checked"] /\ UNCHANGED <<row, pending, org>> /\ c \notin Stored
        /\ storeMishaps \subseteq storeMishaps' /\ ((\E d \in Captures : Locked(d)) => "parallel_results" \in storeMishaps')
    BY <1>21, Zenon DEF Check, Stored
  <2>2. Stored' = Stored
    BY <2>1, Zenon DEF Stored
  <2>3. \A d \in Captures : Locked(d)' => d = c \/ Locked(d)
    BY <1>a, <2>1, Zenon DEF Locked
  <2>4. org # "deleted" => WithinQuota(Stored \cup {c})
    BY <1>a, <1>21, <2>1, FitsWithin, Zenon
  <2>5. org' # "deleted" => pending' = {}
    BY <1>a, <2>1, Zenon
  <2>6. ASSUME org' # "deleted", "parallel_results" \notin storeMishaps'
        PROVE  /\ WithinQuota(Stored')
               /\ \A d \in Captures : Locked(d)' => WithinQuota(Stored' \cup {d}) /\ \A e \in Captures : Locked(e)' => e = d
    <3>1. WithinQuota(Stored)
      BY <2>1, <2>6, Zenon DEF QuotaInv
    <3>2. \A d \in Captures : Locked(d)' => d = c
      BY <2>1, <2>3, <2>6, Zenon
    <3> QED
      BY <2>1, <2>2, <2>4, <2>6, <3>1, <3>2, ZenonT(60)
  <2> QED
    BY <2>5, <2>6, Zenon DEF QuotaInv, WithinQuota, PolicyKeeps
<1>22. ASSUME NEW c \in Captures, Commit(c) PROVE QuotaInv'
  <2>1. /\ receiver[c] = "put" /\ receiver' = [receiver EXCEPT ![c] = "dropping"] /\ row' = [row EXCEPT ![c] = "succeeded"]
        /\ UNCHANGED <<pending, org, storeMishaps>>
    BY <1>22, Zenon DEF Commit
  <2>2. Stored' = Stored \cup {c} /\ Locked(c)
    BY <1>a, <2>1, Zenon DEF Stored, Locked
  <2>3. \A d \in Captures : Locked(d)' => d # c /\ Locked(d)
    BY <1>a, <2>1, Zenon DEF Locked
  <2>4. ASSUME org' # "deleted", "parallel_results" \notin storeMishaps'
        PROVE  WithinQuota(Stored') /\ \A d \in Captures : ~Locked(d)'
    BY <2>1, <2>2, <2>3, <2>4, Zenon DEF QuotaInv
  <2>5. org' # "deleted" => pending' = {}
    BY <1>a, <2>1, ZenonT(60)
  <2> QED
    BY <2>4, <2>5, Zenon DEF QuotaInv, WithinQuota, PolicyKeeps
<1> QED
  BY <1>1, <1>2, <1>3, <1>4, <1>5, <1>6, <1>7, <1>8, <1>9, <1>10, <1>11, <1>12, <1>13, <1>14, <1>15, <1>16, <1>17, <1>18, <1>19, <1>20, <1>21, <1>22, ZenonT(60) DEF StoreNext, Receive

(* A tenant stores no more than its quota of the images the policy keeps,  *)
(* unless two of its results are received at the same time, for any policy *)
(* and quota and any number of captures, crashes and storage errors        *)
(* (receive_result of services/screenshots.py).                            *)
THEOREM QuotaKept == StoreSpec => []QuotaHolds
<1> DEFINE Inv == StoreTypeOK /\ QuotaInv
<1>1. StoreInit => Inv
  BY StoreTypeInit, QuotaInit, Zenon
<1>2. Inv /\ [StoreNext]_store => Inv'
  BY StoreTypeStep, QuotaStep, Zenon
<1>3. Inv => QuotaHolds
  <2> SUFFICES ASSUME StoreTypeOK, QuotaInv, org # "deleted", "parallel_results" \notin storeMishaps
               PROVE  Cardinality(Stored \ Extra) + Cardinality(pending) <= Quota
    BY Zenon DEF QuotaHolds
  <2>1. pending = {} /\ WithinQuota(Stored)
    BY Zenon DEF QuotaInv
  <2>2. Cardinality(pending) = 0
    BY <2>1, FS_EmptySet, Zenon
  <2>3. Cardinality(Stored \ Extra) <= Quota
    BY <2>1, ExtraEnough, Zenon DEF WithinQuota
  <2>4. Cardinality(Stored \ Extra) \in Nat
    <3>1. Stored \ Extra \in SUBSET Captures
      BY Zenon DEF Stored
    <3> QED
      BY <3>1, CapturesFinite, Zenon
  <2> QED
    BY <2>2, <2>3, <2>4, StoreAssumption
<1> HIDE DEF Inv
<1> QED
  BY <1>1, <1>2, <1>3, PTL DEF StoreSpec
====
