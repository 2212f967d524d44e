------------------------- MODULE NotificationsProofs -------------------------
(* Nothing is lost and nothing is sent twice, for any number of overlapping   *)
(* runs, events, integrations and members; and every secret of the vault is   *)
(* one some integration or scanner key refers to.                             *)
EXTENDS Notifications, Integrations, TLAPS

\* Sequences, element by element.
LEMMA Element == ASSUME NEW S, NEW s \in Seq(S), NEW i \in 1 .. Len(s) PROVE s[i] \in S
OBVIOUS

LEMMA Tabulated == ASSUME NEW S, NEW n \in Nat, NEW f \in [1 .. n -> S] PROVE f \in Seq(S) /\ Len(f) = n
OBVIOUS

LEMMA Appended ==
  ASSUME NEW S, NEW s \in Seq(S), NEW e \in S
  PROVE  /\ Append(s, e) \in Seq(S) /\ Len(Append(s, e)) = Len(s) + 1 /\ Append(s, e)[Len(s) + 1] = e
         /\ \A i \in 1 .. Len(s) : Append(s, e)[i] = s[i]
OBVIOUS

LEMMA Lengths ==
  ASSUME NEW S, NEW s \in Seq(S)
  PROVE  Len(s) \in Nat /\ DOMAIN s = 1 .. Len(s) /\ (s = <<>> <=> Len(s) = 0)
OBVIOUS

LEMMA SetupFacts ==
  ASSUME setup \in Setups
  PROVE  /\ Wants \subseteq Events \X Receivers /\ Integrations \intersect Users = {} /\ Throttling \subseteq Integrations
         /\ Receivers = Integrations \union Users
BY NotificationsAssumption, Zenon DEF Wants, Receivers

LEMMA CurrentFrame ==
  ASSUME NEW d \in Runs, setup' = setup, batch'[d] = batch[d]
  PROVE  Current(d)' = Current(d)
BY Zenon DEF Current, TenantOf, Earliest

LEMMA CurrentIn == ASSUME NEW d \in Runs PROVE Current(d) \subseteq batch[d] /\ \A e, f \in Current(d) : TenantOf[e] = TenantOf[f]
BY Zenon DEF Current

LEMMA TypesInit == Init => RunTypes
<1> SUFFICES ASSUME Init PROVE RunTypes
  BY Zenon
<1>1. rows = [p \in Wants |-> <<>>] /\ \A p \in Wants : <<>> \in Seq([status : {"pending", "sent", "failed", "skipped"}, attempts : Nat])
  BY DEF Init
<1> QED
  BY <1>1, NotificationsAssumption, Zenon DEF Init, RunTypes

LEMMA TypesStep == RunTypes /\ LossInv /\ [Next]_vars => RunTypes'
<1> SUFFICES ASSUME RunTypes, LossInv, [Next]_vars PROVE RunTypes'
  BY Zenon
<1> DEFINE Status == {"pending", "sent", "failed", "skipped"}
           Delivery == [status : Status, attempts : Nat]
           Rows == [Wants -> Seq(Delivery)]
           Steps == [Runs -> {"idle", "tenant", "send", "read", "retry"}]
           Todos == [Runs -> SUBSET (Receivers \union Readings)]
           Mades == [Runs -> SUBSET Entries]
<1>0. /\ setup \in Setups /\ rows \in Rows /\ pc \in Steps /\ batch \in [Runs -> SUBSET Events] /\ todo \in Todos /\ made \in Mades
      /\ Wants \subseteq Events \X Receivers /\ occurred \in 0 .. NumEvents
  BY SetupFacts, Zenon DEF RunTypes
<1>s. \A x \in Entries, status \in Status : [x EXCEPT !.status = status] \in Entries
  BY Zenon DEF Entries
<1>w. setup' = setup
  BY Zenon DEF Next, vars
<1>t. ASSUME occurred' \in 0 .. NumEvents, rows' \in Rows, pc' \in Steps, batch' \in [Runs -> SUBSET Events], todo' \in Todos, made' \in Mades PROVE RunTypes'
  <2>1. Wants' = Wants /\ Entries' = Entries /\ Readings' = Readings
    BY <1>w, Zenon DEF Wants, Entries, Readings
  <2> QED
    BY <1>0, <1>t, <1>w, <2>1, Zenon DEF RunTypes
<1> HIDE DEF Rows, Steps, Todos, Mades
<1>1. CASE Occur \/ (\E r \in Receivers : Disable(r) \/ Enable(r)) \/ UNCHANGED vars
  BY <1>0, <1>1, <1>t, NotificationsAssumption DEF Occur, Disable, Enable, vars
<1>2. ASSUME NEW d \in Runs, Take(d) PROVE RunTypes'
  <2>1. Batch \subseteq Events
    <3>1. Batch \subseteq Takeable
      BY Zenon DEF Batch
    <3>2. Takeable \subseteq 1 .. occurred /\ 1 .. occurred \subseteq Events
      BY <1>0, NotificationsAssumption DEF Takeable, Events
    <3> QED
      BY <3>1, <3>2, Zenon
  <2>2. batch' \in [Runs -> SUBSET Events] /\ pc' \in Steps /\ UNCHANGED <<occurred, rows, todo, made>>
    BY <1>0, <1>2, <2>1, Zenon DEF Take, Step, Steps
  <2> QED
    BY <1>0, <1>t, <2>2, Zenon
<1>3. ASSUME NEW d \in Runs, OpenTenant(d) PROVE RunTypes'
  <2>1. /\ {p[2] : p \in Outbox(d)} \subseteq Receivers
        /\ {[row |-> <<p, 0>>, status |-> "pending", attempts |-> 1] : p \in Outbox(d)} \subseteq Entries
    <3>1. Outbox(d) \subseteq Wants
      BY Zenon DEF Outbox
    <3> QED
      BY <1>0, <3>1 DEF Entries
  <2>2. todo' \in Todos /\ made' \in Mades /\ pc' \in Steps /\ UNCHANGED <<occurred, rows, batch>>
    BY <1>0, <1>3, <2>1, Zenon DEF OpenTenant, Step, Steps, Todos, Mades
  <2> QED
    BY <1>0, <1>t, <2>2, Zenon
<1>4. ASSUME NEW d \in Runs, NEW r \in Receivers, Send(d, r) PROVE RunTypes'
  <2> DEFINE P == {x.row[1] : x \in {y \in made[d] : y.row[1][2] = r}}
  <2>1. PICK status \in {"sent", "failed"} : made' = [made EXCEPT ![d] = Settle(d, P, status)]
    BY <1>4, Zenon DEF Send
  <2>2. Settle(d, P, status) \subseteq Entries
    <3>1. \A x \in made[d] : x \in Entries /\ [x EXCEPT !.status = status] \in Entries
      BY <1>0, <1>s, Zenon DEF Mades
    <3> QED
      BY <3>1, Zenon DEF Settle
  <2>3. todo' \in Todos /\ made' \in Mades /\ UNCHANGED <<occurred, rows, pc, batch>>
    BY <1>0, <1>4, <2>1, <2>2, Zenon DEF Send, Todos, Mades
  <2> QED
    BY <1>0, <1>t, <2>3, Zenon
<1>5. ASSUME NEW d \in Runs, NEW r \in Receivers, MailNotConfigured(d, r) PROVE RunTypes'
  <2>1. {IF x.row[1][2] = r THEN [x EXCEPT !.status = "skipped"] ELSE x : x \in {y \in made[d] : y.row[1][2] \notin todo[d] \ {r}}}
           \subseteq Entries
    <3>1. \A x \in made[d] : x \in Entries /\ [x EXCEPT !.status = "skipped"] \in Entries
      BY <1>0, <1>s, Zenon DEF Mades
    <3> QED
      BY <3>1, Zenon
  <2>2. todo' \in Todos /\ made' \in Mades /\ UNCHANGED <<occurred, rows, pc, batch>>
    BY <1>0, <1>5, <2>1, Zenon DEF MailNotConfigured, Todos, Mades
  <2> QED
    BY <1>0, <1>t, <2>2, Zenon
<1>6. ASSUME NEW d \in Runs, Commit(d) PROVE RunTypes'
  <2>1. rows' \in Rows
    <3>1. ASSUME NEW p \in Wants, NewRows(d, p) # {}
          PROVE  (CHOOSE x \in NewRows(d, p) : TRUE).status \in Status
      BY <1>0, <3>1 DEF NewRows, Mades, Entries
    <3>2. ASSUME NEW p \in Wants, NewRows(d, p) # {}
          PROVE  Append(rows[p], [status |-> (CHOOSE x \in NewRows(d, p) : TRUE).status, attempts |-> 1])
                   \in Seq(Delivery)
      BY <1>0, <3>1, <3>2 DEF Rows
    <3> QED
      BY <1>0, <1>6, <3>2, Zenon DEF Commit, Rows
  <2>2. pc' \in Steps /\ batch' \in [Runs -> SUBSET Events] /\ made' \in Mades /\ UNCHANGED <<occurred, todo>>
    BY <1>0, <1>6, Zenon DEF Commit, Step, Steps, Mades
  <2> QED
    BY <1>0, <1>t, <2>1, <2>2, Zenon
<1>7. ASSUME NEW d \in Runs, NEW R \in Failed, ReadFailed(d, R) PROVE RunTypes'
  <2>1. \A x \in R : x \in Wants \X Nat /\ rows[x[1]][x[2]].attempts \in Nat
    <3> SUFFICES ASSUME NEW x \in R PROVE x \in Wants \X Nat /\ rows[x[1]][x[2]].attempts \in Nat
      BY Zenon
    <3>1. x \in UNION {{p} \X DOMAIN rows[p] : p \in Wants}
      BY Zenon DEF Failed
    <3>2. PICK p \in Wants : x \in {p} \X DOMAIN rows[p]
      BY <3>1, Zenon
    <3>3. rows[p] \in Seq(Delivery)
      BY <1>0, Zenon DEF Rows
    <3>4. x[2] \in 1 .. Len(rows[p]) /\ x[1] = p /\ x \in Wants \X Nat
      BY <3>2, <3>3
    <3>5. rows[p][x[2]] \in Delivery
      BY <3>3, <3>4, Element, Zenon
    <3> QED
      BY <3>4, <3>5, Zenon
  <2>2. {[row |-> x, attempts |-> rows[x[1]][x[2]].attempts] : x \in R} \subseteq Readings
    BY <2>1 DEF Readings
  <2>3. todo' \in Todos /\ pc' \in Steps /\ UNCHANGED <<occurred, rows, batch, made>>
    BY <1>0, <1>7, <2>2, Zenon DEF ReadFailed, Step, Steps, Todos
  <2> QED
    BY <1>0, <1>t, <2>3, Zenon
<1>8. ASSUME NEW d \in Runs, NEW x \in todo[d], RetryRow(d, x) PROVE RunTypes'
  <2>1. x \in Readings
    BY <1>8, Zenon DEF RetryRow, LossInv, Retrying
  <2>2. PICK y : y \in Entries /\ made' = [made EXCEPT ![d] = @ \union {y}]
    <3> DEFINE Entry(status, n) == [row |-> x.row, status |-> status, attempts |-> n]
    <3>1. \A status \in Status : Entry(status, x.attempts) \in Entries /\ Entry(status, x.attempts + 1) \in Entries
      BY <2>1 DEF Readings, Entries
    <3>2. \/ made' = [made EXCEPT ![d] = @ \union {Entry("skipped", x.attempts)}]
          \/ \E status \in Status : made' = [made EXCEPT ![d] = @ \union {Entry(status, x.attempts + 1)}]
      BY <1>8, Zenon DEF RetryRow, Counted
    <3> HIDE DEF Entry
    <3> QED
      BY <3>1, <3>2, Zenon
  <2>3. todo' \in Todos /\ made' \in Mades /\ UNCHANGED <<occurred, rows, pc, batch>>
    BY <1>0, <1>8, <2>2, Zenon DEF RetryRow, Todos, Mades
  <2> QED
    BY <1>0, <1>t, <2>3, Zenon
<1>9. ASSUME NEW d \in Runs, CommitRetry(d) PROVE RunTypes'
  <2>1. rows' \in Rows
    <3>1. ASSUME NEW p \in Wants, NEW i \in 1 .. Len(rows[p]), \E x \in made[d] : x.row = <<p, i>>
          PROVE  Written(rows[p][i], CHOOSE x \in made[d] : x.row = <<p, i>>) \in Delivery
      <4> DEFINE c == CHOOSE x \in made[d] : x.row = <<p, i>>
      <4>1. c \in made[d]
        BY <3>1, Zenon
      <4>2. c \in Entries
        BY <1>0, <4>1, Zenon DEF Mades
      <4>3. rows[p][i] \in Delivery
        BY <1>0, Element, Zenon DEF Rows
      <4> HIDE DEF c
      <4>4. Written(rows[p][i], c) \in Delivery
        BY <4>2, <4>3, Zenon DEF Written, Entries
      <4> QED
        BY <4>4, Zenon DEF c
    <3>2. ASSUME NEW p \in Wants
          PROVE  [i \in 1 .. Len(rows[p]) |-> IF \E x \in made[d] : x.row = <<p, i>>
                    THEN Written(rows[p][i], CHOOSE x \in made[d] : x.row = <<p, i>>) ELSE rows[p][i]]
                   \in Seq(Delivery)
      <4>1. rows[p] \in Seq(Delivery)
        BY <1>0, Zenon DEF Rows
      <4>2. \A i \in 1 .. Len(rows[p]) :
              (IF \E x \in made[d] : x.row = <<p, i>>
               THEN Written(rows[p][i], CHOOSE x \in made[d] : x.row = <<p, i>>) ELSE rows[p][i]) \in Delivery
        BY <3>1, <4>1, Element, Zenon
      <4>3. Len(rows[p]) \in Nat
        BY <4>1
      <4> DEFINE f == [i \in 1 .. Len(rows[p]) |-> IF \E x \in made[d] : x.row = <<p, i>>
                         THEN Written(rows[p][i], CHOOSE x \in made[d] : x.row = <<p, i>>) ELSE rows[p][i]]
      <4>4. f \in [1 .. Len(rows[p]) -> Delivery]
        BY <4>2, Zenon
      <4> HIDE DEF f
      <4>5. f \in Seq(Delivery)
        BY <4>3, <4>4, Tabulated, Zenon
      <4> QED
        BY <4>5, Zenon DEF f
    <3> QED
      BY <1>9, <3>2, Zenon DEF CommitRetry, Rows
  <2>2. pc' \in Steps /\ made' \in Mades /\ UNCHANGED <<occurred, batch, todo>>
    BY <1>0, <1>9, Zenon DEF CommitRetry, Step, Steps, Mades
  <2> QED
    BY <1>0, <1>t, <2>1, <2>2, Zenon
<1>10. ASSUME NEW d \in Runs, Crash(d) PROVE RunTypes'
  <2>1. pc' \in Steps /\ batch' \in [Runs -> SUBSET Events] /\ todo' \in Todos /\ made' \in Mades /\ UNCHANGED <<occurred, rows>>
    BY <1>0, <1>10, Zenon DEF Crash, Step, Steps, Todos, Mades
  <2> QED
    BY <1>0, <1>t, <2>1, Zenon
<1> QED
  BY <1>1, <1>2, <1>3, <1>4, <1>5, <1>6, <1>7, <1>8, <1>9, <1>10, Zenon DEF Next, Run

-----------------------------------------------------------------------------
(* Nothing is lost.                                                        *)

LEMMA DispatchingKept ==
  ASSUME NEW d \in Runs, Dispatching(d), setup' = setup, paused \subseteq paused', pc'[d] = pc[d], batch'[d] = batch[d],
         todo'[d] = todo[d], made'[d] = made[d], \A p \in Wants : p[2] \notin paused' /\ Throttled(p) => Throttled(p)'
  PROVE  Dispatching(d)'
<1>1. Current(d)' = Current(d) /\ Wants' = Wants
  BY CurrentFrame, Zenon DEF Wants
<1>2. OwnRows(d) => OwnRows(d)'
  BY <1>1, Zenon DEF OwnRows
<1>3. Reached(d) => Reached(d)'
  BY Zenon DEF Reached
<1>4. Accounted(d) => Accounted(d)'
  BY <1>1, Zenon DEF Accounted
<1> QED
  BY <1>2, <1>3, <1>4, Zenon DEF Dispatching

LEMMA RetryingKept ==
  ASSUME NEW d \in Runs, Retrying(d), RunTypes, setup' = setup, paused \subseteq paused', pc'[d] = pc[d], todo'[d] = todo[d],
         made'[d] = made[d], \A q \in Wants : Len(rows[q]) \in Nat /\ Len(rows'[q]) \in Nat /\ Len(rows[q]) <= Len(rows'[q])
  PROVE  Retrying(d)'
<1> SUFFICES ASSUME pc[d] = "retry" PROVE Retrying(d)'
  BY Zenon DEF Retrying
<1>1. /\ \A x \in todo[d] : x.row[1] \in Wants /\ x.row[2] \in 1 .. Len(rows[x.row[1]])
      /\ todo[d] \subseteq Readings /\ Readings' = Readings
  BY Zenon DEF Retrying, Readings, Wants
<1>2. \A x \in made[d] : /\ x.row[1] \in Wants /\ x.row[2] \in 1 .. Len(rows[x.row[1]]) /\ x.status # "pending"
                         /\ x.status = "skipped" => x.row[1][2] \in Users \union paused
  BY DEF Retrying, RunTypes, Entries
<1> QED
  BY <1>1, <1>2 DEF Retrying

\* What is recorded of the rows and of skipped members outlives a step.
RecordStep ==
    /\ \A p \in Wants : p[2] \notin paused' /\ Throttled(p) => Throttled(p)'
    /\ \A p \in Wants : rows[p] # <<>> => rows'[p] # <<>>
    /\ \A q \in Wants : \A i \in DOMAIN rows[q] : NoMailRow(q, i) => i \in DOMAIN rows'[q] /\ NoMailRow(q, i)'

LEMMA RecordedKept ==
  ASSUME setup' = setup, RecordStep, NEW p \in Wants, p[2] \notin paused', Recorded(p)
  PROVE  Recorded(p)'
<1>1. Wants' = Wants /\ TenantOf' = TenantOf
  BY Zenon DEF Wants, TenantOf
<1>2. CASE rows[p] # <<>> \/ Throttled(p)
  BY <1>2, Zenon DEF Recorded, RecordStep
<1>3. ASSUME p[2] \in Users, NEW q \in Wants, q[2] \in Users, TenantOf[q[1]] = TenantOf[p[1]], NEW i \in DOMAIN rows[q], NoMailRow(q, i)
      PROVE  Recorded(p)'
  BY <1>1, <1>3, Zenon DEF Recorded, RecordStep
<1> QED
  BY <1>2, <1>3, Zenon DEF Recorded

LEMMA MarkedKept ==
  ASSUME MarkedRecorded, setup' = setup, paused \subseteq paused', notified' \subseteq notified, RecordStep
  PROVE  MarkedRecorded'
<1>1. Wants' = Wants
  BY Zenon DEF Wants
<1> SUFFICES ASSUME NEW p \in Wants, p[1] \in notified, p[2] \notin paused' PROVE Recorded(p)'
  BY <1>1, Zenon DEF MarkedRecorded
<1>2. Recorded(p)
  BY Zenon DEF MarkedRecorded
<1> QED
  BY <1>2, RecordedKept, Zenon

\* A step that writes no row and concerns one run at most: what it does to that run is for the step to show.
CalmStep(d) ==
    /\ UNCHANGED <<setup, rows, notified>> /\ paused \subseteq paused' /\ Receivers \ enabled' \subseteq paused'
    /\ \A o \in Runs : o # d => pc'[o] = pc[o] /\ batch'[o] = batch[o] /\ todo'[o] = todo[o] /\ made'[o] = made[o]
    /\ d \in Runs =>
        /\ Dispatching(d)' /\ Retrying(d)' /\ (pc'[d] \notin {"send", "retry"} => made'[d] = {})
        /\ \A q \in Wants : \A i \in DOMAIN rows[q] : Refers(d, q, i)' => Refers(d, q, i) \/ rows[q][i].status # "skipped"

LEMMA CalmStepKeeps == ASSUME LossInv, RunTypes, NEW d, CalmStep(d) PROVE LossInv'
<1> USE DEF CalmStep
<1>1. \A p \in Wants : Throttled(p) => Throttled(p)'
  BY Zenon DEF Throttled, SentTo, Wants, Alike
<1>2. ASSUME NEW o \in Runs PROVE Dispatching(o)' /\ Retrying(o)' /\ (pc'[o] \notin {"send", "retry"} => made'[o] = {})
  <2>1. CASE o = d
    BY <2>1, Zenon
  <2>2. CASE o # d
    <3>1. Dispatching(o) /\ Retrying(o) /\ (pc[o] \notin {"send", "retry"} => made[o] = {})
      BY Zenon DEF LossInv
    <3>2. \A q \in Wants : Len(rows[q]) \in Nat /\ Len(rows'[q]) \in Nat /\ Len(rows[q]) <= Len(rows'[q])
      BY DEF RunTypes
    <3>3. Dispatching(o)'
      BY <1>1, <2>2, <3>1, DispatchingKept, Zenon
    <3>4. Retrying(o)'
      BY <2>2, <3>1, <3>2, RetryingKept, Zenon
    <3> QED
      BY <2>2, <3>1, <3>3, <3>4, Zenon
  <2> QED
    BY <2>1, <2>2, Zenon
<1>3. ASSUME NEW q \in Wants, NEW i \in DOMAIN rows[q], NoMailRow(q, i) PROVE NoMailRow(q, i)'
  <2>1. rows[q][i].status = "skipped" /\ \A o \in Runs : ~Refers(o, q, i)
    BY <1>3, Zenon DEF NoMailRow
  <2>2. \A o \in Runs : ~Refers(o, q, i)'
    <3> SUFFICES ASSUME NEW o \in Runs PROVE ~Refers(o, q, i)'
      BY Zenon
    <3>1. CASE o = d
      BY <2>1, <3>1, Zenon
    <3>2. CASE o # d
      BY <2>1, <3>2, Zenon DEF Refers
    <3> QED
      BY <3>1, <3>2, Zenon
  <2> QED
    BY <2>1, <2>2, Zenon DEF NoMailRow
<1>4. MarkedRecorded'
  BY <1>1, <1>3, MarkedKept, Zenon DEF LossInv, RecordStep
<1> QED
  BY <1>2, <1>4, Zenon DEF LossInv

LEMMA LossInit == Init => LossInv
<1> SUFFICES ASSUME Init PROVE LossInv
  BY Zenon
<1>1. enabled = Receivers /\ notified = {} /\ \A d \in Runs : pc[d] = "idle" /\ made[d] = {}
  BY Zenon DEF Init
<1> QED
  BY <1>1, Zenon DEF LossInv, Dispatching, Retrying, MarkedRecorded

LEMMA EnvironmentKeeps ==
  ASSUME LossInv, RunTypes, setup' = setup, Occur \/ (\E r \in Receivers : Disable(r) \/ Enable(r)) \/ UNCHANGED vars
  PROVE  LossInv'
<1>1. /\ UNCHANGED <<rows, notified, pc, batch, todo, made>> /\ paused \subseteq paused' /\ Receivers \ enabled' \subseteq paused'
  BY Zenon DEF Occur, Disable, Enable, vars, history, LossInv
<1>2. CalmStep(NoRun)
  BY <1>1, NotificationsAssumption, Zenon DEF CalmStep
<1> QED
  BY <1>2, CalmStepKeeps, Zenon

\* A run takes a batch or is cut off: it holds nothing to write.
LEMMA TakeOrCrashKeeps ==
  ASSUME LossInv, RunTypes, setup' = setup, NEW d \in Runs, Take(d) \/ Crash(d)
  PROVE  LossInv'
<1>1. /\ UNCHANGED <<rows, notified, enabled, paused>>
      /\ \A o \in Runs \ {d} : pc'[o] = pc[o] /\ batch'[o] = batch[o] /\ todo'[o] = todo[o] /\ made'[o] = made[o]
      /\ pc'[d] \in {"idle", "read", "tenant"} /\ made'[d] = {}
  <2>1. CASE Take(d)
    <3>1. pc[d] = "idle" /\ UNCHANGED <<rows, notified, enabled, paused, todo, made>>
      BY <2>1, Zenon DEF Take, history
    <3>2. /\ \A o \in Runs \ {d} : pc'[o] = pc[o] /\ batch'[o] = batch[o]
          /\ pc'[d] \in {"read", "tenant"}
      BY <2>1, Zenon DEF Take, Step, RunTypes
    <3>3. made[d] = {}
      BY <3>1, Zenon DEF LossInv
    <3> QED
      BY <3>1, <3>2, <3>3, Zenon
  <2>2. CASE Crash(d)
    BY <2>2, Zenon DEF Crash, Step, RunTypes
  <2> QED
    BY <2>1, <2>2, Zenon
<1>2. Dispatching(d)' /\ Retrying(d)' /\ \A q \in Wants : \A i \in DOMAIN rows[q] : ~Refers(d, q, i)'
  BY <1>1, Zenon DEF Dispatching, Retrying, Refers
<1>3. Receivers \ enabled' \subseteq paused'
  BY <1>1, Zenon DEF LossInv
<1>4. CalmStep(d)
  BY <1>1, <1>2, <1>3, Zenon DEF CalmStep
<1> QED
  BY <1>4, CalmStepKeeps, Zenon

LEMMA OpenKeeps == ASSUME LossInv, RunTypes, setup' = setup, NEW d \in Runs, OpenTenant(d) PROVE LossInv'
<1> DEFINE new == {[row |-> <<p, 0>>, status |-> "pending", attempts |-> 1] : p \in Outbox(d)}
<1>1. /\ UNCHANGED <<rows, notified, enabled, paused, batch>> /\ made'[d] = new /\ pc'[d] = "send"
      /\ todo'[d] = {p[2] : p \in Outbox(d)}
      /\ \A o \in Runs \ {d} : pc'[o] = pc[o] /\ todo'[o] = todo[o] /\ made'[o] = made[o]
  BY Zenon DEF OpenTenant, Step, RunTypes, history
<1>2. Current(d)' = Current(d) /\ Wants' = Wants
  BY <1>1, CurrentFrame, Zenon DEF Wants
<1>3. \A p \in Wants : p[1] \in Current(d) /\ p[2] \notin paused => p \in Outbox(d) \/ Throttled(p)
  <2>1. Wants \subseteq Events \X Receivers
    BY SetupFacts, Zenon DEF RunTypes
  <2> QED
    BY <2>1, Zenon DEF LossInv, Outbox
<1>4. \A p \in Wants : Throttled(p) => Throttled(p)'
  BY <1>1, Zenon DEF Throttled, SentTo, Wants, Alike
<1>5. \A x \in new : x.status # "skipped" /\ x.row[2] = 0 /\ x.row[1][1] \in Current(d) /\ \A y \in new : x.row = y.row => x = y
  BY DEF Outbox
<1>6. ASSUME NEW p \in Outbox(d) PROVE \E x \in new : x.row = <<p, 0>>
  <2>1. [row |-> <<p, 0>>, status |-> "pending", attempts |-> 1] \in new
    BY Zenon
  <2> HIDE DEF new
  <2> QED
    BY <2>1, Zenon
<1> HIDE DEF new
<1>7. Dispatching(d)'
  <2>1. ASSUME NEW r \in todo'[d] PROVE \E x \in new : x.row[1][2] = r
    <3>1. PICK p \in Outbox(d) : p[2] = r
      BY <1>1, Zenon
    <3>2. PICK x \in new : x.row = <<p, 0>>
      BY <1>6, Zenon
    <3> QED
      BY <3>1, <3>2
  <2>2. ASSUME NEW p \in Wants, p[1] \in Current(d), p[2] \notin paused
        PROVE  (\E x \in new : x.row = <<p, 0>>) \/ Throttled(p)'
    BY <1>3, <1>4, <1>6, <2>2, Zenon
  <2>3. OwnRows(d)' /\ Reached(d)'
    BY <1>1, <1>2, <1>5, <2>1 DEF OwnRows, Reached
  <2>4. Accounted(d)'
    BY <1>1, <1>2, <2>2, Zenon DEF Accounted
  <2> QED
    BY <2>3, <2>4, Zenon DEF Dispatching
<1>8. Retrying(d)' /\ \A q \in Wants : \A i \in DOMAIN rows[q] : ~Refers(d, q, i)'
  BY <1>1, Zenon DEF Retrying, Refers
<1>9. Receivers \ enabled' \subseteq paused'
  BY <1>1, Zenon DEF LossInv
<1>10. CalmStep(d)
  BY <1>1, <1>7, <1>8, <1>9, Zenon DEF CalmStep
<1> QED
  BY <1>10, CalmStepKeeps, Zenon

LEMMA SendKeeps == ASSUME LossInv, RunTypes, setup' = setup, NEW d \in Runs, NEW r \in Receivers, Send(d, r) PROVE LossInv'
<1> DEFINE P == {x.row[1] : x \in {y \in made[d] : y.row[1][2] = r}}
<1>1. PICK status \in {"sent", "failed"} : made' = [made EXCEPT ![d] = Settle(d, P, status)] /\ Attempt(P, status)
  BY Zenon DEF Send
<1>2. /\ UNCHANGED <<rows, notified, enabled, paused, batch, pc>> /\ made'[d] = Settle(d, P, status) /\ pc[d] = "send"
      /\ todo'[d] = todo[d] \ {r}
      /\ \A o \in Runs \ {d} : todo'[o] = todo[o] /\ made'[o] = made[o]
  BY <1>1 DEF Send, Attempt, RunTypes
<1>3. Current(d)' = Current(d) /\ Wants' = Wants
  BY <1>2, CurrentFrame, Zenon DEF Wants
<1>4. \A p \in Wants : Throttled(p) => Throttled(p)'
  BY <1>2, Zenon DEF Throttled, SentTo, Wants, Alike
<1>5. /\ \A x \in made[d] : x.row[2] = 0 /\ x.row[1][1] \in Current(d) /\ \A y \in made[d] : x.row = y.row => x = y
      /\ \A x \in made[d] : x.status # "skipped"
      /\ \A p \in Wants : p[1] \in Current(d) /\ p[2] \notin paused => (\E x \in made[d] : x.row = <<p, 0>>) \/ Throttled(p)
      /\ \A u \in todo[d] : \E x \in made[d] : x.row[1][2] = u
  <2>1. r \in todo[d] /\ Dispatching(d)
    BY Zenon DEF Send, LossInv
  <2>2. \A x \in made[d] : x.status # "skipped"
    BY <1>2, <2>1, Zenon DEF Dispatching, Reached
  <2> QED
    BY <1>2, <2>1, <2>2, Zenon DEF Dispatching, OwnRows, Reached, Accounted
<1>6. \A x \in made[d] : /\ [x EXCEPT !.status = status].row = x.row
                         /\ [x EXCEPT !.status = status].status = status
  BY DEF RunTypes, Entries
<1>7. /\ \A x \in made[d] : \E y \in Settle(d, P, status) : y.row = x.row
      /\ \A y \in Settle(d, P, status) : y.status # "skipped" /\ \E x \in made[d] : x.row = y.row /\ y = IF x.row[1] \in P THEN [x EXCEPT !.status = status] ELSE x
  <2> HIDE DEF P
  <2>1. \A x \in made[d] : x.status # "skipped"
    BY <1>5, Zenon
  <2> QED
    BY <1>6, <2>1, Zenon DEF Settle
<1> HIDE DEF P
<1>8. /\ \A y \in made'[d] : y.status # "skipped" /\ y.row[2] = 0 /\ y.row[1][1] \in Current(d)
      /\ \A y, z \in made'[d] : y.row = z.row => y = z
      /\ \A p \in Wants : (\E x \in made[d] : x.row = <<p, 0>>) => \E x \in made'[d] : x.row = <<p, 0>>
      /\ \A u \in todo'[d] : \E x \in made'[d] : x.row[1][2] = u
  <2>1. ASSUME NEW y \in made'[d], NEW z \in made'[d], y.row = z.row PROVE y = z
    BY <1>2, <1>5, <1>7, <2>1
  <2>2. ASSUME NEW u \in todo'[d] PROVE \E x \in made'[d] : x.row[1][2] = u
    <3>1. PICK x \in made[d] : x.row[1][2] = u
      BY <1>2, <1>5, Zenon
    <3> QED
      BY <1>2, <1>7, <3>1
  <2> QED
    BY <1>2, <1>5, <1>7, <2>1, <2>2
<1>9. Dispatching(d)'
  <2>1. OwnRows(d)' /\ Reached(d)'
    BY <1>3, <1>8 DEF OwnRows, Reached
  <2>2. Accounted(d)'
    BY <1>2, <1>3, <1>4, <1>5, <1>8, Zenon DEF Accounted
  <2> QED
    BY <2>1, <2>2, Zenon DEF Dispatching
<1>10. Retrying(d)' /\ \A q \in Wants : \A i \in DOMAIN rows[q] : ~Refers(d, q, i)'
  BY <1>2, Zenon DEF Retrying, Refers
<1>11. Receivers \ enabled' \subseteq paused'
  BY <1>2, Zenon DEF LossInv
<1>12. CalmStep(d)
  BY <1>2, <1>9, <1>10, <1>11, Zenon DEF CalmStep
<1> QED
  BY <1>12, CalmStepKeeps, Zenon

LEMMA NoMailKeeps ==
  ASSUME LossInv, RunTypes, setup' = setup, NEW d \in Runs, NEW r \in Receivers, MailNotConfigured(d, r)
  PROVE  LossInv'
<1> DEFINE kept == {y \in made[d] : y.row[1][2] \notin todo[d] \ {r}}
           new == {IF x.row[1][2] = r THEN [x EXCEPT !.status = "skipped"] ELSE x : x \in kept}
<1>1. /\ UNCHANGED <<rows, notified, enabled, paused, batch, pc>> /\ made'[d] = new /\ pc[d] = "send" /\ todo'[d] = {}
      /\ r \in todo[d] /\ r \in Users /\ todo[d] \intersect Integrations = {}
      /\ \A o \in Runs \ {d} : todo'[o] = todo[o] /\ made'[o] = made[o]
  BY Zenon DEF MailNotConfigured, RunTypes, history
<1>2. Current(d)' = Current(d) /\ Wants' = Wants /\ Wants \subseteq Events \X Receivers /\ Receivers = Integrations \union Users
  BY <1>1, CurrentFrame, SetupFacts, Zenon DEF Wants, RunTypes
<1>3. \A p \in Wants : Throttled(p) => Throttled(p)'
  BY <1>1, Zenon DEF Throttled, SentTo, Wants, Alike
<1>4. /\ \A x \in made[d] : x.row[2] = 0 /\ x.row[1][1] \in Current(d) /\ \A y \in made[d] : x.row = y.row => x = y
      /\ \A x \in made[d] : x.status # "skipped" /\ x.row \in Wants \X Nat
      /\ \A p \in Wants : p[1] \in Current(d) /\ p[2] \notin paused => (\E x \in made[d] : x.row = <<p, 0>>) \/ Throttled(p)
      /\ \A u \in todo[d] : \E x \in made[d] : x.row[1][2] = u
  <2>1. r \in todo[d] /\ Dispatching(d)
    BY <1>1, Zenon DEF LossInv
  <2>2. \A x \in made[d] : x.status # "skipped"
    BY <1>1, <2>1, Zenon DEF Dispatching, Reached
  <2>3. \A x \in made[d] : x.row \in Wants \X Nat
    BY DEF RunTypes, Entries
  <2> QED
    BY <1>1, <2>1, <2>2, <2>3, Zenon DEF Dispatching, OwnRows, Reached, Accounted
<1>5. \A x \in made[d] : /\ [x EXCEPT !.status = "skipped"].row = x.row
                         /\ [x EXCEPT !.status = "skipped"].status = "skipped"
  BY DEF RunTypes, Entries
<1>6. /\ \A x \in kept : \E y \in new : y.row = x.row /\ (x.row[1][2] = r => y.status = "skipped")
      /\ \A y \in new : \E x \in kept : x.row = y.row /\ y = IF x.row[1][2] = r THEN [x EXCEPT !.status = "skipped"] ELSE x
  BY <1>5, Zenon
<1>7. /\ kept \subseteq made[d] /\ \A x \in made[d] : x.row[1][2] \in todo[d] \ {r} \/ x \in kept
      /\ \E x \in kept : x.row[1][2] = r
  BY <1>1, <1>4, Zenon
<1> HIDE DEF kept, new
<1>8. \E y \in new : y.status = "skipped" /\ y.row[1][2] \in Users
  BY <1>1, <1>6, <1>7
<1>9. \A y \in new : y.row[2] = 0 /\ y.row[1][1] \in Current(d)
  BY <1>4, <1>6, <1>7
<1>10. ASSUME NEW y \in new, NEW z \in new, y.row = z.row PROVE y = z
  BY <1>4, <1>6, <1>7, <1>10
<1>11. ASSUME NEW p \in Wants, p[1] \in Current(d), p[2] \notin paused
       PROVE  \/ \E x \in new : x.row = <<p, 0>>
              \/ Throttled(p)
              \/ p[2] \in Users
  <2>1. CASE Throttled(p)
    BY <2>1, Zenon
  <2>2. CASE \E x \in made[d] : x.row = <<p, 0>>
    <3>1. PICK x \in made[d] : x.row = <<p, 0>>
      BY <2>2, Zenon
    <3>2. CASE x \in kept
      BY <1>6, <3>1, <3>2, Zenon
    <3>3. CASE x \notin kept
      <4>1. p[2] \in todo[d] /\ p[2] \in Receivers
        BY <1>2, <1>7, <3>1, <3>3
      <4> QED
        BY <1>1, <1>2, <4>1, Zenon
    <3> QED
      BY <3>2, <3>3, Zenon
  <2> QED
    BY <1>4, <1>11, <2>1, <2>2, Zenon
<1>12. Dispatching(d)'
  <2>1. OwnRows(d)' /\ Reached(d)'
    BY <1>1, <1>2, <1>9, <1>10, Zenon DEF OwnRows, Reached
  <2>2. Accounted(d)'
    BY <1>1, <1>2, <1>3, <1>8, <1>11, Zenon DEF Accounted
  <2> QED
    BY <2>1, <2>2, Zenon DEF Dispatching
<1>13. Retrying(d)' /\ \A q \in Wants : \A i \in DOMAIN rows[q] : ~Refers(d, q, i)'
  BY <1>1, Zenon DEF Retrying, Refers
<1>14. Receivers \ enabled' \subseteq paused'
  BY <1>1, Zenon DEF LossInv
<1>15. CalmStep(d)
  BY <1>1, <1>12, <1>13, <1>14, Zenon DEF CalmStep
<1> QED
  BY <1>15, CalmStepKeeps, Zenon

LEMMA ReadKeeps == ASSUME LossInv, RunTypes, setup' = setup, NEW d \in Runs, NEW R \in Failed, ReadFailed(d, R) PROVE LossInv'
<1> DEFINE new == {[row |-> x, attempts |-> rows[x[1]][x[2]].attempts] : x \in R}
<1>1. /\ UNCHANGED <<rows, notified, enabled, paused, batch, made>> /\ todo'[d] = new /\ pc'[d] \in {"idle", "retry"}
      /\ pc[d] = "read"
      /\ \A o \in Runs \ {d} : pc'[o] = pc[o] /\ todo'[o] = todo[o]
  BY Zenon DEF ReadFailed, Step, RunTypes
<1>2. made[d] = {} /\ Receivers \ enabled \subseteq paused
  BY <1>1, Zenon DEF LossInv
<1>3. \A x \in R : /\ x[1] \in Wants /\ x[2] \in DOMAIN rows[x[1]] /\ x = <<x[1], x[2]>> /\ rows[x[1]][x[2]].status = "failed"
  BY DEF Failed, Retryable
<1>4. \A p \in Wants : DOMAIN rows[p] = 1 .. Len(rows[p]) /\ DOMAIN rows[p] \subseteq Nat /\ rows[p] \in Seq([status : {"pending", "sent", "failed", "skipped"}, attempts : Nat])
  BY DEF RunTypes
<1>5. ASSUME NEW x \in R PROVE rows[x[1]][x[2]].attempts \in Nat
  <2> DEFINE D == [status : {"pending", "sent", "failed", "skipped"}, attempts : Nat]
  <2>1. rows[x[1]] \in Seq(D) /\ x[2] \in 1 .. Len(rows[x[1]])
    BY <1>3, <1>4, Zenon
  <2>2. rows[x[1]][x[2]] \in D
    <3> HIDE DEF D
    <3> QED
      BY <2>1, Element, Zenon
  <2> QED
    BY <2>2, Zenon
<1>6. ASSUME NEW y \in new PROVE y \in Readings /\ y.row \in R /\ y.row[2] \in 1 .. Len(rows[y.row[1]])
  <2>1. PICK x \in R : y = [row |-> x, attempts |-> rows[x[1]][x[2]].attempts]
    BY Zenon
  <2>2. x \in Wants \X Nat
    BY <1>3, <1>4
  <2> QED
    BY <1>3, <1>4, <1>5, <2>1, <2>2, Zenon DEF Readings
<1> HIDE DEF new
<1>7. Dispatching(d)'
  BY <1>1, Zenon DEF Dispatching
<1>8. Retrying(d)'
  <2>1. Readings' = Readings
    BY Zenon DEF Readings, Wants
  <2> QED
    BY <1>1, <1>2, <1>6, <2>1, Zenon DEF Retrying
<1>9. ASSUME NEW q \in Wants, NEW i \in DOMAIN rows[q], Refers(d, q, i)' PROVE rows[q][i].status # "skipped"
  <2>1. PICK y \in new : y.row = <<q, i>>
    BY <1>1, <1>2, <1>9, Zenon DEF Refers
  <2> QED
    BY <1>3, <1>6, <2>1, Zenon
<1>10. CalmStep(d)
  BY <1>1, <1>2, <1>7, <1>8, <1>9, Zenon DEF CalmStep
<1> QED
  BY <1>10, CalmStepKeeps, Zenon

LEMMA RetryKeeps == ASSUME LossInv, RunTypes, setup' = setup, NEW d \in Runs, NEW x \in todo[d], RetryRow(d, x) PROVE LossInv'
<1>1. /\ UNCHANGED <<rows, notified, enabled, batch, pc>> /\ todo'[d] = todo[d] \ {x} /\ pc[d] = "retry"
      /\ \A o \in Runs \ {d} : todo'[o] = todo[o]
  BY Zenon DEF RetryRow, RunTypes
<1>2. /\ Receivers \ enabled \subseteq paused /\ Retrying(d)
  BY Zenon DEF LossInv
<1>3. x \in Readings /\ x.row \in Wants \X Nat /\ x.row[2] \in 1 .. Len(rows[x.row[1]]) /\ x.row[1][2] \in Receivers
  BY <1>1, <1>2, SetupFacts DEF Retrying, Readings, RunTypes
<1>4. PICK y : /\ made' = [made EXCEPT ![d] = @ \union {y}] /\ y.row = x.row /\ y.status # "pending"
               /\ y.status = "skipped" => x.row[1][2] \in Users \/ x.row[1][2] \notin enabled
  <2> DEFINE skip == [row |-> x.row, status |-> "skipped", attempts |-> x.attempts]
  <2>1. \A status \in {"sent", "failed", "skipped"} : Counted(x, status).row = x.row /\ Counted(x, status).status = status
    BY Zenon DEF Counted
  <2>2. skip.row = x.row /\ skip.status = "skipped"
    BY Zenon
  <2>3. \/ \E status \in {"sent", "failed"} : made' = [made EXCEPT ![d] = @ \union {Counted(x, status)}]
        \/ x.row[1][2] \notin enabled /\ made' = [made EXCEPT ![d] = @ \union {skip}]
        \/ x.row[1][2] \in Users /\ made' = [made EXCEPT ![d] = @ \union {Counted(x, "skipped")}]
    BY Zenon DEF RetryRow
  <2> HIDE DEF skip
  <2>4. \A s \in {"sent", "failed"} : s # "pending" /\ s # "skipped" /\ s \in {"sent", "failed", "skipped"}
    BY Zenon
  <2>5. CASE \E status \in {"sent", "failed"} : made' = [made EXCEPT ![d] = @ \union {Counted(x, status)}]
    BY <2>1, <2>4, <2>5, Zenon
  <2>6. CASE x.row[1][2] \notin enabled /\ made' = [made EXCEPT ![d] = @ \union {skip}]
    BY <2>2, <2>6, Zenon
  <2>7. CASE x.row[1][2] \in Users /\ made' = [made EXCEPT ![d] = @ \union {Counted(x, "skipped")}]
    BY <2>1, <2>7, Zenon
  <2> QED
    BY <2>3, <2>5, <2>6, <2>7, Zenon
<1>5. paused' = paused
  BY Zenon DEF RetryRow, Attempt, history
<1>6. made'[d] = made[d] \union {y} /\ \A o \in Runs \ {d} : made'[o] = made[o]
  BY <1>4, Zenon DEF RunTypes
<1>7. Dispatching(d)'
  BY <1>1, Zenon DEF Dispatching
<1>8. Retrying(d)'
  <2>1. Readings' = Readings
    BY Zenon DEF Readings, Wants
  <2> QED
    BY <1>1, <1>2, <1>3, <1>4, <1>5, <1>6, <2>1, Zenon DEF Retrying
<1>9. ASSUME NEW q \in Wants, NEW i \in DOMAIN rows[q], Refers(d, q, i)' PROVE Refers(d, q, i)
  BY <1>1, <1>4, <1>6, <1>9, Zenon DEF Refers
<1>10. CalmStep(d)
  BY <1>1, <1>2, <1>5, <1>6, <1>7, <1>8, <1>9, Zenon DEF CalmStep
<1> QED
  BY <1>10, CalmStepKeeps, Zenon

LEMMA CommitKeeps == ASSUME LossInv, RunTypes, setup' = setup, NEW d \in Runs, Commit(d) PROVE LossInv'
<1> DEFINE D == [status : {"pending", "sent", "failed", "skipped"}, attempts : Nat]
           add(p) == [status |-> (CHOOSE x \in NewRows(d, p) : TRUE).status, attempts |-> 1]
<1>1. /\ UNCHANGED <<enabled, paused, todo>> /\ notified' = notified \union Current(d) /\ pc[d] = "send" /\ made'[d] = {}
      /\ pc'[d] \in {"read", "tenant"}
      /\ \A o \in Runs \ {d} : pc'[o] = pc[o] /\ batch'[o] = batch[o] /\ made'[o] = made[o]
  BY Zenon DEF Commit, Step, RunTypes
<1>2. \A p \in Wants : rows'[p] = IF NewRows(d, p) = {} THEN rows[p] ELSE Append(rows[p], add(p))
  BY Zenon DEF Commit
<1>3. \A p \in Wants : rows[p] \in Seq(D) /\ (NewRows(d, p) # {} => add(p) \in D)
  <2>1. ASSUME NEW p \in Wants, NewRows(d, p) # {} PROVE add(p) \in D
    <3>1. (CHOOSE x \in NewRows(d, p) : TRUE) \in NewRows(d, p)
      BY <2>1, Zenon
    <3>2. NewRows(d, p) \subseteq Entries
      BY Zenon DEF NewRows, RunTypes
    <3> QED
      BY <3>1, <3>2, Zenon DEF Entries
  <2> QED
    BY <2>1, Zenon DEF RunTypes
<1>4. \A p \in Wants : NewRows(d, p) # {} => add(p).status = (CHOOSE x \in NewRows(d, p) : TRUE).status
  BY Zenon
<1> HIDE DEF D, add
<1>5. ASSUME NEW p \in Wants
      PROVE  /\ DOMAIN rows[p] = 1 .. Len(rows[p]) /\ DOMAIN rows'[p] = 1 .. Len(rows'[p]) /\ Len(rows[p]) \in Nat /\ Len(rows'[p]) \in Nat
             /\ Len(rows[p]) <= Len(rows'[p]) /\ \A i \in 1 .. Len(rows[p]) : rows'[p][i] = rows[p][i]
             /\ NewRows(d, p) # {} => Len(rows'[p]) = Len(rows[p]) + 1 /\ rows'[p][Len(rows[p]) + 1] = add(p)
             /\ (rows[p] = <<>> <=> Len(rows[p]) = 0) /\ (rows'[p] = <<>> <=> Len(rows'[p]) = 0)
  <2>1. CASE NewRows(d, p) = {}
    BY <1>2, <1>3, <2>1, Lengths
  <2>2. CASE NewRows(d, p) # {}
    <3>1. rows'[p] = Append(rows[p], add(p)) /\ rows[p] \in Seq(D) /\ add(p) \in D
      BY <1>2, <1>3, <2>2, Zenon
    <3>2. /\ rows'[p] \in Seq(D) /\ Len(rows'[p]) = Len(rows[p]) + 1 /\ rows'[p][Len(rows[p]) + 1] = add(p)
          /\ \A i \in 1 .. Len(rows[p]) : rows'[p][i] = rows[p][i]
      BY <3>1, Appended
    <3> QED
      BY <3>1, <3>2, Lengths
  <2> QED
    BY <2>1, <2>2, Zenon
<1>6. Wants' = Wants /\ TenantOf' = TenantOf /\ Alike' = Alike
  BY Zenon DEF Wants, TenantOf, Alike
<1>7. \A p \in Wants : Throttled(p) => Throttled(p)'
  <2>1. \A p \in Wants : SentTo(p) => SentTo(p)'
    BY <1>5 DEF SentTo
  <2> QED
    BY <1>6, <2>1, Zenon DEF Throttled
<1>8. ASSUME NEW o \in Runs PROVE Dispatching(o)' /\ Retrying(o)' /\ (pc'[o] \notin {"send", "retry"} => made'[o] = {})
  <2>1. CASE o = d
    BY <1>1, <2>1, Zenon DEF Dispatching, Retrying
  <2>2. CASE o # d
    <3>1. Dispatching(o) /\ Retrying(o) /\ (pc[o] \notin {"send", "retry"} => made[o] = {})
      BY Zenon DEF LossInv
    <3>2. \A q \in Wants : Len(rows[q]) \in Nat /\ Len(rows'[q]) \in Nat /\ Len(rows[q]) <= Len(rows'[q])
      BY <1>5, Zenon
    <3>3. Dispatching(o)'
      BY <1>1, <1>7, <2>2, <3>1, DispatchingKept, Zenon
    <3>4. Retrying(o)'
      BY <1>1, <2>2, <3>1, <3>2, RetryingKept, Zenon
    <3> QED
      BY <1>1, <2>2, <3>1, <3>3, <3>4, Zenon
  <2> QED
    BY <2>1, <2>2, Zenon
<1>9. \A o \in Runs, q \in Wants, i \in Nat : Refers(o, q, i)' => Refers(o, q, i) /\ i \in DOMAIN rows[q]
  <2> SUFFICES ASSUME NEW o \in Runs, NEW q \in Wants, NEW i \in Nat, Refers(o, q, i)' PROVE Refers(o, q, i) /\ i \in DOMAIN rows[q]
    BY Zenon
  <2>1. o # d /\ pc[o] = "retry" /\ Refers(o, q, i)
    BY <1>1, Zenon DEF Refers
  <2>2. Retrying(o)
    BY Zenon DEF LossInv
  <2> QED
    BY <1>5, <2>1, <2>2 DEF Refers, Retrying
<1>10. RecordStep
  <2>1. ASSUME NEW p \in Wants, rows[p] # <<>> PROVE rows'[p] # <<>>
    BY <1>5, <2>1
  <2>2. ASSUME NEW q \in Wants, NEW i \in DOMAIN rows[q], NoMailRow(q, i) PROVE i \in DOMAIN rows'[q] /\ NoMailRow(q, i)'
    <3>1. i \in Nat /\ i \in DOMAIN rows'[q] /\ rows'[q][i] = rows[q][i]
      BY <1>5
    <3> QED
      BY <1>9, <2>2, <3>1, Zenon DEF NoMailRow
  <2> QED
    BY <1>7, <2>1, <2>2, Zenon DEF RecordStep
<1>11. OwnRows(d) /\ Accounted(d) /\ MarkedRecorded
  BY <1>1, Zenon DEF LossInv, Dispatching
<1>12. ASSUME NEW p \in Wants, p[1] \in Current(d), p[2] \notin paused PROVE Recorded(p)'
  <2>1. CASE \E x \in made[d] : x.row = <<p, 0>>
    <3>1. NewRows(d, p) # {}
      BY <2>1, Zenon DEF NewRows
    <3>2. rows'[p] # <<>>
      BY <1>5, <3>1
    <3> QED
      BY <3>2, Zenon DEF Recorded
  <2>2. CASE Throttled(p)
    BY <1>7, <2>2, Zenon DEF Recorded
  <2>3. ASSUME p[2] \in Users, NEW x \in made[d], x.status = "skipped", x.row[1][2] \in Users PROVE Recorded(p)'
    <3> DEFINE q == x.row[1]
    <3>1. q \in Wants /\ x.row = <<q, 0>> /\ q[1] \in Current(d) /\ TenantOf[q[1]] = TenantOf[p[1]]
      BY <1>11, <1>12, <2>3, CurrentIn DEF OwnRows, RunTypes, Entries
    <3> HIDE DEF q
    <3>2. NewRows(d, q) = {x}
      BY <1>11, <2>3, <3>1, Zenon DEF NewRows, OwnRows
    <3>3. PICK n \in Nat : n \in DOMAIN rows'[q] /\ n \notin DOMAIN rows[q] /\ rows'[q][n].status = "skipped"
      <4>1. Len(rows[q]) + 1 \in DOMAIN rows'[q] /\ Len(rows[q]) + 1 \notin DOMAIN rows[q] /\ Len(rows[q]) + 1 \in Nat
        <5>1. NewRows(d, q) # {}
          BY <3>2, Zenon
        <5>2. Len(rows'[q]) = Len(rows[q]) + 1 /\ Len(rows[q]) \in Nat /\ DOMAIN rows'[q] = 1 .. Len(rows'[q]) /\ DOMAIN rows[q] = 1 .. Len(rows[q])
          BY <1>5, <3>1, <5>1, Zenon
        <5> QED
          BY <5>2
      <4>2. rows'[q][Len(rows[q]) + 1].status = "skipped"
        <5>1. rows'[q][Len(rows[q]) + 1] = add(q) /\ NewRows(d, q) # {}
          BY <1>5, <3>1, <3>2, Zenon
        <5>2. (CHOOSE y \in NewRows(d, q) : TRUE) \in NewRows(d, q)
          BY <5>1, Zenon
        <5>3. (CHOOSE y \in NewRows(d, q) : TRUE) = x
          BY <3>2, <5>2, Zenon
        <5> QED
          BY <1>4, <2>3, <3>1, <5>1, <5>3, Zenon
      <4> QED
        BY <4>1, <4>2, Zenon
    <3>4. NoMailRow(q, n)'
      BY <1>9, <3>1, <3>3, Zenon DEF NoMailRow
    <3>5. q[2] \in Users
      BY <2>3, Zenon DEF q
    <3> QED
      BY <1>6, <2>3, <3>1, <3>3, <3>4, <3>5, Zenon DEF Recorded
  <2> QED
    BY <1>11, <1>12, <2>1, <2>2, <2>3, Zenon DEF Accounted
<1>13. MarkedRecorded'
  <2> SUFFICES ASSUME NEW p \in Wants, p[1] \in notified', p[2] \notin paused' PROVE Recorded(p)'
    BY <1>6, Zenon DEF MarkedRecorded
  <2>1. CASE p[1] \in notified
    BY <1>1, <1>10, <1>11, <2>1, RecordedKept, Zenon DEF MarkedRecorded
  <2>2. CASE p[1] \in Current(d)
    BY <1>1, <1>12, <2>2, Zenon
  <2> QED
    BY <1>1, <2>1, <2>2, Zenon
<1> QED
  BY <1>1, <1>8, <1>13, Zenon DEF LossInv

LEMMA CommitRetryKeeps == ASSUME LossInv, RunTypes, setup' = setup, NEW d \in Runs, CommitRetry(d) PROVE LossInv'
<1> DEFINE D == [status : {"pending", "sent", "failed", "skipped"}, attempts : Nat]
           put(p, i) == IF \E x \in made[d] : x.row = <<p, i>>
                        THEN Written(rows[p][i], CHOOSE x \in made[d] : x.row = <<p, i>>) ELSE rows[p][i]
<1>1. /\ UNCHANGED <<enabled, paused, todo, notified, batch>> /\ pc[d] = "retry" /\ made'[d] = {} /\ pc'[d] = "idle"
      /\ \A o \in Runs \ {d} : pc'[o] = pc[o] /\ made'[o] = made[o]
  BY Zenon DEF CommitRetry, Step, RunTypes, history
<1>2. \A p \in Wants : rows'[p] = [i \in 1 .. Len(rows[p]) |-> put(p, i)]
  BY Zenon DEF CommitRetry
<1>3. \A p \in Wants : rows[p] \in Seq(D)
  BY Zenon DEF RunTypes
<1>4. Retrying(d)
  BY Zenon DEF LossInv
<1>5. ASSUME NEW p \in Wants, NEW i \in 1 .. Len(rows[p])
      PROVE  /\ rows'[p][i] = put(p, i)
             /\ (\A x \in made[d] : x.row # <<p, i>>) => put(p, i) = rows[p][i]
             /\ rows[p][i].status = "sent" /\ p[2] \notin paused /\ p[2] \notin Users => put(p, i).status = "sent"
  <2>1. rows'[p][i] = put(p, i)
    BY <1>2, ZenonT(60)
  <2>2. ASSUME NEW x \in made[d], x.row = <<p, i>>, rows[p][i].status = "sent", p[2] \notin paused, p[2] \notin Users PROVE put(p, i).status = "sent"
    <3> DEFINE y == CHOOSE z \in made[d] : z.row = <<p, i>>
    <3>1. y \in made[d] /\ y.row = <<p, i>>
      BY <2>2, Zenon
    <3>2. put(p, i) = Written(rows[p][i], y)
      BY <2>2, Zenon
    <3> HIDE DEF y
    <3>3. y.status \in {"sent", "failed"}
      BY <1>1, <1>4, <2>2, <3>1 DEF Retrying, RunTypes, Entries
    <3> HIDE DEF put
    <3> QED
      BY <2>2, <3>2, <3>3 DEF Written
  <2>3. (\A x \in made[d] : x.row # <<p, i>>) => put(p, i) = rows[p][i]
    BY Zenon
  <2> HIDE DEF put
  <2>4. ASSUME rows[p][i].status = "sent", p[2] \notin paused, p[2] \notin Users PROVE put(p, i).status = "sent"
    BY <2>2, <2>3, <2>4, Zenon
  <2> QED
    BY <2>1, <2>3, <2>4, Zenon
<1> HIDE DEF put
<1>6. ASSUME NEW p \in Wants
      PROVE  /\ DOMAIN rows[p] = 1 .. Len(rows[p]) /\ DOMAIN rows'[p] = 1 .. Len(rows[p]) /\ Len(rows'[p]) = Len(rows[p])
             /\ Len(rows[p]) \in Nat /\ (rows[p] # <<>> => rows'[p] # <<>>)
  <2>1. /\ DOMAIN rows[p] = 1 .. Len(rows[p]) /\ Len(rows[p]) \in Nat /\ (rows[p] = <<>> <=> Len(rows[p]) = 0)
    BY <1>3, Lengths, Zenon
  <2>2. DOMAIN rows'[p] = 1 .. Len(rows[p])
    BY <1>2, Zenon
  <2>3. rows'[p] \in [1 .. Len(rows[p]) -> {put(p, i) : i \in 1 .. Len(rows[p])}]
    BY <1>2, Zenon
  <2>4. Len(rows'[p]) = Len(rows[p])
    BY <2>1, <2>3, Tabulated
  <2> QED
    BY <2>1, <2>2, <2>4, Zenon
<1>7. Wants' = Wants /\ TenantOf' = TenantOf /\ Alike' = Alike
  BY Zenon DEF Wants, TenantOf, Alike
<1>8. \A p \in Wants : p[2] \notin paused' /\ Throttled(p) => Throttled(p)'
  <2>1. \A p \in Wants : p[2] \notin paused /\ p[2] \notin Users /\ SentTo(p) => SentTo(p)'
    BY <1>5, <1>6 DEF SentTo
  <2>2. \A r \in Throttling : r \notin Users
    BY SetupFacts, Zenon DEF RunTypes
  <2>3. ASSUME NEW p \in Wants, p[2] \notin paused, p[2] \in Throttling,
               NEW e \in Events, <<e, p[1]>> \in Alike, <<e, p[2]>> \in Wants, SentTo(<<e, p[2]>>)
        PROVE  Throttled(p)'
    <3>1. SentTo(<<e, p[2]>>)'
      BY <2>1, <2>2, <2>3, Zenon
    <3> QED
      BY <1>7, <2>3, <3>1, Zenon DEF Throttled
  <2>4. paused' = paused
    BY <1>1, Zenon
  <2> QED
    BY <2>3, <2>4, Zenon DEF Throttled
<1>9. ASSUME NEW o \in Runs PROVE Dispatching(o)' /\ Retrying(o)' /\ (pc'[o] \notin {"send", "retry"} => made'[o] = {})
  <2>1. CASE o = d
    BY <1>1, <2>1, Zenon DEF Dispatching, Retrying
  <2>2. CASE o # d
    <3>1. Dispatching(o) /\ Retrying(o) /\ (pc[o] \notin {"send", "retry"} => made[o] = {})
      BY Zenon DEF LossInv
    <3>2. \A q \in Wants : Len(rows[q]) \in Nat /\ Len(rows'[q]) \in Nat /\ Len(rows[q]) <= Len(rows'[q])
      BY <1>6
    <3>3. Dispatching(o)'
      BY <1>1, <1>8, <2>2, <3>1, DispatchingKept, Zenon
    <3>4. Retrying(o)'
      BY <1>1, <2>2, <3>1, <3>2, RetryingKept, Zenon
    <3> QED
      BY <1>1, <2>2, <3>1, <3>3, <3>4, Zenon
  <2> QED
    BY <2>1, <2>2, Zenon
<1>10. RecordStep
  <2>1. ASSUME NEW q \in Wants, NEW i \in DOMAIN rows[q], NoMailRow(q, i) PROVE i \in DOMAIN rows'[q] /\ NoMailRow(q, i)'
    <3>1. \A x \in made[d] : x.row # <<q, i>>
      BY <1>1, <2>1, Zenon DEF NoMailRow, Refers
    <3>2. i \in DOMAIN rows'[q] /\ rows'[q][i] = rows[q][i]
      BY <1>5, <1>6, <3>1, Zenon
    <3>3. \A o \in Runs : Refers(o, q, i)' => Refers(o, q, i)
      BY <1>1, Zenon DEF Refers
    <3> QED
      BY <2>1, <3>2, <3>3, Zenon DEF NoMailRow
  <2> QED
    BY <1>6, <1>8, <2>1, Zenon DEF RecordStep
<1>11. MarkedRecorded'
  BY <1>1, <1>10, MarkedKept, Zenon DEF LossInv
<1> QED
  BY <1>1, <1>9, <1>11, Zenon DEF LossInv

LEMMA LossStep == LossInv /\ RunTypes /\ [Next]_vars => LossInv'
<1> SUFFICES ASSUME LossInv, RunTypes, [Next]_vars PROVE LossInv'
  BY Zenon
<1>1. setup' = setup
  BY Zenon DEF Next, vars
<1>2. CASE Occur \/ (\E r \in Receivers : Disable(r) \/ Enable(r)) \/ UNCHANGED vars
  BY <1>1, <1>2, EnvironmentKeeps, Zenon
<1>3. ASSUME NEW d \in Runs, Take(d) \/ Crash(d) PROVE LossInv'
  BY <1>1, <1>3, TakeOrCrashKeeps, Zenon
<1>4. ASSUME NEW d \in Runs, OpenTenant(d) PROVE LossInv'
  BY <1>1, <1>4, OpenKeeps, Zenon
<1>5. ASSUME NEW d \in Runs, Commit(d) PROVE LossInv'
  BY <1>1, <1>5, CommitKeeps, Zenon
<1>6. ASSUME NEW d \in Runs, CommitRetry(d) PROVE LossInv'
  BY <1>1, <1>6, CommitRetryKeeps, Zenon
<1>7. ASSUME NEW d \in Runs, NEW R \in Failed, ReadFailed(d, R) PROVE LossInv'
  BY <1>1, <1>7, ReadKeeps, Zenon
<1>8. ASSUME NEW d \in Runs, NEW r \in Receivers, Send(d, r) PROVE LossInv'
  BY <1>1, <1>8, SendKeeps, Zenon
<1>9. ASSUME NEW d \in Runs, NEW r \in Receivers, MailNotConfigured(d, r) PROVE LossInv'
  BY <1>1, <1>9, NoMailKeeps, Zenon
<1>10. ASSUME NEW d \in Runs, NEW x \in todo[d], RetryRow(d, x) PROVE LossInv'
  BY <1>1, <1>10, RetryKeeps, Zenon
<1> QED
  BY <1>2, <1>3, <1>4, <1>5, <1>6, <1>7, <1>8, <1>9, <1>10, Zenon DEF Next, Run

LEMMA LossInvariant == Spec => [](RunTypes /\ LossInv)
BY TypesInit, TypesStep, LossInit, LossStep, PTL DEF Spec

\* However the runs overlap, crash, retry and commit, whatever the receivers do and
\* whenever they are disabled: an event that is marked notified has a delivery row for every
\* receiver that wants it, was throttled, or fell to a missing mail server that a row of
\* its tenant tells of (dispatch_pending, _deliver_personal, retry_failed).
THEOREM NothingIsLost == Spec => []NothingLost
<1>1. RunTypes /\ LossInv => NothingLost
  BY Zenon DEF LossInv, MarkedRecorded, Recorded, NothingLost, NoMailFor, NoMailRow
<1> QED
  BY <1>1, LossInvariant, PTL

-----------------------------------------------------------------------------
(* Nothing is sent twice.                                                  *)

\* The row of the pair and what runs are going to write of it stay as they are.
SameOf(p) ==
    /\ rows'[p] = rows[p] /\ (p[1] \in notified => p[1] \in notified')
    /\ \A d \in Runs : SendingOf(d, p)' = SendingOf(d, p) /\ ResendingOf(d, p)' = ResendingOf(d, p)

LEMMA TalliedKept ==
  ASSUME NEW p, Tallied(p), SameOf(p), tries'[p] = tries[p], mishaps' = {} => mishaps = {} /\ received'[p] = received[p]
  PROVE  Tallied(p)'
<1>1. \A n, s : Account(p, n, s) => Account(p, n, s)'
  BY Zenon DEF Account
<1>2. RowBound(p)'
  BY Zenon DEF Tallied, RowBound, SameOf
<1>3. ASSUME NEW d \in Runs
      PROVE  /\ \A x \in SendingOf(d, p)' : Account(p, IF x.status \in {"sent", "failed"} THEN 1 ELSE 0, x.status)'
             /\ \A x \in ResendingOf(d, p)' : Account(p, x.attempts, x.status)'
  BY <1>1, Zenon DEF Tallied, SameOf
<1>4. rows'[p] = <<>> /\ (\A d \in Runs : SendingOf(d, p)' = {}) => Account(p, 0, "none")'
  BY <1>1, Zenon DEF Tallied, SameOf
<1>5. rows'[p] # <<>> /\ (\A d \in Runs : ResendingOf(d, p)' = {}) => Account(p, rows[p][1].attempts, rows[p][1].status)'
  <2>1. rows[p] # <<>> /\ (\A d \in Runs : ResendingOf(d, p) = {}) => Account(p, rows[p][1].attempts, rows[p][1].status)
    BY Zenon DEF Tallied
  <2> QED
    BY <1>1, <2>1, Zenon DEF SameOf
<1> QED
  BY <1>2, <1>3, <1>4, <1>5, Zenon DEF Tallied

\* Rows are only added, and no run begins or goes on with a retry.
NoRetryStep ==
    /\ \A d \in Runs : pc'[d] = "retry" => pc[d] = "retry" /\ todo'[d] = todo[d] /\ made'[d] = made[d]
    /\ \A p \in Wants : \A i \in 1 .. Len(rows[p]) : rows'[p][i] = rows[p][i]

LEMMA SoleKept == ASSUME LossInv, RunTypes, SoleRetry, NoRetryStep PROVE SoleRetry'
<1>1. \A d, o \in Runs : pc'[d] = "retry" /\ pc'[o] = "retry" => d = o
  BY ZenonT(60) DEF NoRetryStep, SoleRetry
<1>2. ASSUME NEW d \in Runs, pc'[d] = "retry"
      PROVE  /\ \A x \in todo'[d] : /\ rows'[x.row[1]][x.row[2]].status = "failed"
                                    /\ rows'[x.row[1]][x.row[2]].attempts = x.attempts /\ x.attempts < MaxAttempts
             /\ \A x \in made'[d] : /\ rows'[x.row[1]][x.row[2]].status = "failed" /\ x.attempts <= MaxAttempts
                                    /\ \A y \in made'[d] : x.row = y.row => x = y
                                    /\ \A y \in todo'[d] : x.row # y.row
  <2>1. pc[d] = "retry" /\ todo'[d] = todo[d] /\ made'[d] = made[d]
    BY <1>2, Zenon DEF NoRetryStep
  <2>2. /\ \A x \in todo[d] : x.row[1] \in Wants /\ x.row[2] \in 1 .. Len(rows[x.row[1]])
        /\ \A x \in made[d] : x.row[1] \in Wants /\ x.row[2] \in 1 .. Len(rows[x.row[1]])
    BY <2>1 DEF LossInv, Retrying, RunTypes, Entries, Readings
  <2>3. /\ \A x \in todo[d] : rows'[x.row[1]][x.row[2]] = rows[x.row[1]][x.row[2]]
        /\ \A x \in made[d] : rows'[x.row[1]][x.row[2]] = rows[x.row[1]][x.row[2]]
    BY <2>2, Zenon DEF NoRetryStep
  <2> QED
    BY <2>1, <2>3 DEF SoleRetry
<1> QED
  BY <1>1, <1>2, Zenon DEF SoleRetry

\* While a run is about to store a pair's first row, there is none, and nobody else is.
LEMMA Sender ==
  ASSUME LossInv, RunTypes, NEW p \in Wants, Tallied(p), \A o \in Runs : Held(o), NEW d \in Runs, NEW x \in SendingOf(d, p)
  PROVE  /\ p[1] \in Current(d) /\ p[1] \in batch[d] /\ p[1] \notin notified /\ rows[p] = <<>>
         /\ \A o \in Runs : ResendingOf(o, p) = {} /\ (o # d => p[1] \notin batch[o] /\ SendingOf(o, p) = {})
         /\ SendingOf(d, p) = {x}
<1>1. \A o \in Runs : \A y \in SendingOf(o, p) : p[1] \in Current(o) /\ p[1] \in batch[o] /\ pc[o] = "send" /\ OwnRows(o)
  BY CurrentIn DEF SendingOf, LossInv, Dispatching, OwnRows
<1>2. p[1] \notin notified /\ rows[p] = <<>> /\ \A o \in Runs : p[1] \in batch[o] => o = d
  BY <1>1 DEF Held, Tallied, RowBound
<1>3. ASSUME NEW o \in Runs, NEW y \in ResendingOf(o, p) PROVE FALSE
  <2>1. y.row[2] \in 1 .. Len(rows[y.row[1]]) /\ y.row = <<p, 1>>
    BY <1>3, Zenon DEF ResendingOf, LossInv, Retrying
  <2>2. Len(rows[p]) = 0
    BY <1>2
  <2> QED
    BY <2>1, <2>2
<1> QED
  BY <1>1, <1>2, <1>3 DEF SendingOf, OwnRows

LEMMA RowCount ==
  ASSUME RunTypes, NEW p \in Wants, RowBound(p)
  PROVE  /\ Len(rows[p]) \in {0, 1} /\ (rows[p] = <<>> <=> Len(rows[p]) = 0)
         /\ rows[p] # <<>> => rows[p][1].attempts \in Nat /\ p[1] \in notified
<1> DEFINE D == [status : {"pending", "sent", "failed", "skipped"}, attempts : Nat]
<1>1. rows[p] \in Seq(D)
  BY Zenon DEF RunTypes
<1>2. Len(rows[p]) \in Nat /\ (rows[p] = <<>> <=> Len(rows[p]) = 0)
  BY <1>1, Lengths, Zenon
<1>3. ASSUME 1 \in 1 .. Len(rows[p]) PROVE rows[p][1] \in D
  <2> HIDE DEF D
  <2> QED
    BY <1>1, <1>3, Element, Zenon
<1>4. rows[p] # <<>> => 1 \in 1 .. Len(rows[p])
  BY <1>2, SMT
<1>5. ASSUME NEW x \in D PROVE x.attempts \in Nat
  BY Zenon
<1>6. rows[p] # <<>> => rows[p][1].attempts \in Nat
  BY <1>3, <1>4, <1>5, Zenon
<1>7. Len(rows[p]) <= 1 /\ (rows[p] # <<>> => p[1] \in notified)
  BY Zenon DEF RowBound
<1>8. Len(rows[p]) \in {0, 1}
  <2>1. ASSUME NEW n \in Nat, n <= 1 PROVE n \in {0, 1}
    BY <2>1
  <2> QED
    BY <1>2, <1>7, <2>1, Zenon
<1> QED
  BY <1>2, <1>6, <1>7, <1>8, Zenon

\* What a step does that neither sends nor writes, and takes no locks.
OnceStep ==
    /\ UNCHANGED <<setup, tries, received, mishaps>>
    /\ \A p \in Wants : SameOf(p)
    /\ NoRetryStep

LEMMA OnceKept ==
  ASSUME LossInv, RunTypes, OnceInv, OnceStep,
         lock' \in [Events -> Runs \union {NoRun}], \A d \in Runs : Unsent(d)',
         mishaps \subseteq {"lost_reply"} => \A d \in Runs : Held(d)'
  PROVE  OnceInv'
<1>1. Wants' = Wants /\ UNCHANGED <<tries, received, mishaps>> /\ NoRetryStep /\ \A p \in Wants : SameOf(p)
  BY Zenon DEF OnceStep, Wants
<1>2. "overlap" \notin mishaps' => SoleRetry'
  BY <1>1, SoleKept, Zenon DEF OnceInv
<1>3. mishaps' \subseteq {"lost_reply"} => \A p \in Wants : Tallied(p)'
  BY <1>1, TalliedKept, Zenon DEF OnceInv
<1> QED
  BY <1>1, <1>2, <1>3, Zenon DEF OnceInv

LEMMA OnceInit == Init => OnceInv
<1> SUFFICES ASSUME Init PROVE OnceInv
  BY Zenon
<1>1. tries \in [Wants -> Nat] /\ received \in [Wants -> Nat] /\ lock \in [Events -> Runs \union {NoRun}]
  BY Zenon DEF Init
<1>2. (\A d \in Runs : Unsent(d) /\ Held(d)) /\ SoleRetry
  BY Zenon DEF Init, Unsent, Held, SoleRetry
<1>3. ASSUME NEW p \in Wants PROVE Tallied(p)
  <2>1. rows[p] = <<>> /\ tries[p] = 0 /\ received[p] = 0
    BY Zenon DEF Init
  <2>2. \A d \in Runs : SendingOf(d, p) = {} /\ ResendingOf(d, p) = {}
    BY Zenon DEF Init, SendingOf, ResendingOf
  <2>3. RowBound(p)
    BY <2>1 DEF RowBound
  <2>4. Account(p, 0, "none")
    BY <2>1 DEF Account
  <2> QED
    BY <2>1, <2>2, <2>3, <2>4, Zenon DEF Tallied
<1> QED
  BY <1>1, <1>2, <1>3, Zenon DEF OnceInv

LEMMA EnvironmentOnce ==
  ASSUME LossInv, RunTypes, OnceInv, UNCHANGED <<setup, notified, lock, rows, pc, batch, todo, made, tries, received, mishaps>>
  PROVE  OnceInv'
<1>1. \A p \in Wants : SameOf(p)
  BY Zenon DEF SameOf, SendingOf, ResendingOf
<1>2. NoRetryStep
  BY Zenon DEF NoRetryStep
<1>3. \A d \in Runs : Unsent(d)' /\ (mishaps \subseteq {"lost_reply"} => Held(d)')
  BY Zenon DEF OnceInv, Unsent, Held
<1> QED
  BY <1>1, <1>2, <1>3, OnceKept, Zenon DEF OnceStep, OnceInv

LEMMA TakeOnce == ASSUME LossInv, RunTypes, OnceInv, setup' = setup, NEW d \in Runs, Take(d) PROVE OnceInv'
<1>1. /\ pc[d] = "idle" /\ pc' = [pc EXCEPT ![d] = IF Batch = {} THEN "read" ELSE "tenant"]
      /\ UNCHANGED <<notified, rows, todo, made, tries, received, mishaps>>
  BY Zenon DEF Take, Step, history
<1>2. /\ \A o \in Runs : o # d => pc'[o] = pc[o] /\ batch'[o] = batch[o]
      /\ pc'[d] = (IF Batch = {} THEN "read" ELSE "tenant") /\ batch'[d] = Batch
  BY <1>1, Zenon DEF Take, RunTypes
<1>3. \A p \in Wants : SameOf(p)
  BY <1>1, <1>2 DEF SameOf, SendingOf, ResendingOf
<1>4. NoRetryStep
  BY <1>1, <1>2 DEF NoRetryStep
<1>5. \A o \in Runs : Unsent(o)'
  BY <1>1, <1>2 DEF OnceInv, Unsent
<1>6. lock' = [e \in Events |-> IF e \in Batch THEN d ELSE lock[e]] /\ lock \in [Events -> Runs \union {NoRun}]
  BY Zenon DEF Take, OnceInv
<1>7. lock' \in [Events -> Runs \union {NoRun}]
  BY <1>6, Zenon
<1>8. ASSUME mishaps \subseteq {"lost_reply"}, NEW o \in Runs PROVE Held(o)'
  <2>1. \A e \in Batch : e \in Events /\ lock[e] = NoRun /\ e \notin notified
    BY NotificationsAssumption DEF Batch, Takeable, RunTypes, Events
  <2>2. CASE o = d
    BY <1>1, <1>2, <1>6, <2>1, <2>2, Zenon DEF Held
  <2>3. CASE o # d
    <3>1. Held(o) /\ batch[o] \subseteq Events /\ NoRun \notin Runs
      BY <1>8, NotificationsAssumption, Zenon DEF OnceInv, RunTypes
    <3> QED
      BY <1>1, <1>2, <1>6, <2>1, <2>3, <3>1, Zenon DEF Held
  <2> QED
    BY <2>2, <2>3, Zenon
<1> QED
  BY <1>1, <1>3, <1>4, <1>5, <1>7, <1>8, OnceKept, Zenon DEF OnceStep

LEMMA OpenOnce == ASSUME LossInv, RunTypes, OnceInv, setup' = setup, NEW d \in Runs, OpenTenant(d) PROVE OnceInv'
<1>1. /\ pc[d] = "tenant" /\ UNCHANGED <<notified, lock, rows, batch, tries, received, mishaps>> /\ Wants' = Wants
      /\ \A o \in Runs : o # d => pc'[o] = pc[o] /\ todo'[o] = todo[o] /\ made'[o] = made[o]
      /\ pc'[d] = "send" /\ made'[d] = {[row |-> <<p, 0>>, status |-> "pending", attempts |-> 1] : p \in Outbox(d)}
  BY Zenon DEF OpenTenant, Step, history, Wants, RunTypes
<1>2. tries \in [Wants -> Nat] /\ received \in [Wants -> Nat] /\ lock \in [Events -> Runs \union {NoRun}]
  BY Zenon DEF OnceInv
<1>3. \A o \in Runs : Unsent(o)'
  BY <1>1 DEF OnceInv, Unsent
<1>4. NoRetryStep
  BY <1>1, Zenon DEF NoRetryStep
<1>5. "overlap" \notin mishaps => SoleRetry'
  BY <1>4, SoleKept, Zenon DEF OnceInv
<1>6. ASSUME mishaps \subseteq {"lost_reply"}, NEW p \in Wants PROVE Tallied(p)'
  <2>1. (\A o \in Runs : Held(o)) /\ Tallied(p)
    BY <1>6, Zenon DEF OnceInv
  <2>2. \A o \in Runs : o # d => SendingOf(o, p)' = SendingOf(o, p) /\ ResendingOf(o, p)' = ResendingOf(o, p)
    BY <1>1, Zenon DEF SendingOf, ResendingOf
  <2>3. SendingOf(d, p) = {} /\ ResendingOf(d, p) = {} /\ ResendingOf(d, p)' = {}
    BY <1>1, Zenon DEF SendingOf, ResendingOf
  <2>4. CASE p \notin Outbox(d)
    <3>1. SendingOf(d, p)' = {}
      BY <1>1, <2>4 DEF SendingOf
    <3>2. SameOf(p)
      BY <1>1, <2>2, <2>3, <3>1, Zenon DEF SameOf
    <3> QED
      BY <1>1, <2>1, <3>2, TalliedKept, ZenonT(60)
  <2>5. CASE p \in Outbox(d)
    <3>1. p[1] \in batch[d]
      BY <2>5, Zenon DEF Outbox, Current
    <3>2. p[1] \notin notified /\ lock[p[1]] = d /\ rows[p] = <<>>
      BY <2>1, <3>1, Zenon DEF Held, Tallied, RowBound
    <3>3. \A o \in Runs : SendingOf(o, p) = {}
      <4>1. ASSUME NEW o \in Runs, NEW x \in SendingOf(o, p), o # d PROVE FALSE
        BY <2>1, <3>1, <4>1, Sender, Zenon
      <4> QED
        BY <2>3, <4>1, Zenon
    <3>4. Account(p, 0, "none")
      BY <2>1, <3>2, <3>3, Zenon DEF Tallied
    <3>5. \A s : s # "sent" => Account(p, 0, s)'
      BY <1>1, <3>4, ZenonT(60) DEF Account
    <3>6. \A x \in SendingOf(d, p)' : x.status = "pending"
      BY <1>1 DEF SendingOf
    <3>7. RowBound(p)'
      BY <1>1, <2>1, Zenon DEF Tallied, RowBound
    <3>8. \A o \in Runs : \A x \in SendingOf(o, p)' : Account(p, IF x.status \in {"sent", "failed"} THEN 1 ELSE 0, x.status)'
      BY <2>2, <3>3, <3>5, <3>6, Zenon
    <3>9. \A o \in Runs : \A x \in ResendingOf(o, p)' : Account(p, x.attempts, x.status)'
      <4>1. \A o \in Runs : ResendingOf(o, p)' = ResendingOf(o, p)
        BY <2>2, <2>3, Zenon
      <4>2. \A n, s : Account(p, n, s) => Account(p, n, s)'
        BY <1>1, Zenon DEF Account
      <4> QED
        BY <2>1, <4>1, <4>2, Zenon DEF Tallied
    <3> QED
      BY <1>1, <3>2, <3>5, <3>7, <3>8, <3>9, Zenon DEF Tallied
  <2> QED
    BY <2>4, <2>5, Zenon
<1>7. ASSUME mishaps \subseteq {"lost_reply"}, NEW o \in Runs PROVE Held(o)'
  BY <1>1, <1>7, Zenon DEF OnceInv, Held
<1> QED
  BY <1>1, <1>2, <1>3, <1>5, <1>6, <1>7, Zenon DEF OnceInv

\* A run changes what it is going to write of a pair.
LEMMA SenderWrites ==
  ASSUME LossInv, RunTypes, NEW p \in Wants, Tallied(p), \A o \in Runs : Held(o), NEW d \in Runs, NEW x \in SendingOf(d, p),
         UNCHANGED <<rows, notified, pc>>, \A o \in Runs : o # d => made'[o] = made[o],
         \A y \in SendingOf(d, p)' : Account(p, IF y.status \in {"sent", "failed"} THEN 1 ELSE 0, y.status)',
         SendingOf(d, p)' = {} => Account(p, 0, "none")'
  PROVE  Tallied(p)'
<1>1. /\ rows[p] = <<>> /\ pc[d] = "send"
      /\ \A o \in Runs : ResendingOf(o, p) = {} /\ (o # d => SendingOf(o, p) = {})
  BY Sender DEF SendingOf
<1>2. \A o \in Runs : ResendingOf(o, p)' = {} /\ (o # d => SendingOf(o, p)' = {})
  BY <1>1, Zenon DEF SendingOf, ResendingOf
<1>3. RowBound(p)'
  BY Zenon DEF Tallied, RowBound
<1> QED
  BY <1>1, <1>2, <1>3, Zenon DEF Tallied

LEMMA SendOnce ==
  ASSUME LossInv, RunTypes, OnceInv, setup' = setup, NEW d \in Runs, NEW r \in Receivers, Send(d, r)
  PROVE  OnceInv'
<1> DEFINE P == {x.row[1] : x \in {y \in made[d] : y.row[1][2] = r}}
<1>1. PICK status \in {"sent", "failed"} : Attempt(P, status) /\ made' = [made EXCEPT ![d] = Settle(d, P, status)]
  BY Zenon DEF Send
<1>2. /\ pc[d] = "send" /\ r \in todo[d] /\ UNCHANGED <<notified, lock, rows, pc, batch>> /\ Wants' = Wants
      /\ made'[d] = Settle(d, P, status) /\ todo'[d] = todo[d] \ {r}
      /\ \A o \in Runs : o # d => made'[o] = made[o] /\ todo'[o] = todo[o]
  BY <1>1, Zenon DEF Send, RunTypes, Wants
<1>3. tries \in [Wants -> Nat] /\ received \in [Wants -> Nat] /\ lock \in [Events -> Runs \union {NoRun}] /\ Unsent(d)
  BY Zenon DEF OnceInv
<1>4. /\ mishaps \subseteq mishaps' /\ ("overlap" \in mishaps' => "overlap" \in mishaps)
      /\ tries' = IF mishaps \subseteq {"lost_reply"} THEN Tally(tries, P) ELSE tries
      /\ received' \in {Tally(received, P), received, NoTally}
      /\ mishaps' = {} => received' = IF status = "sent" THEN Tally(received, P) ELSE received
  BY <1>1, Zenon DEF Attempt
<1>5. tries' \in [Wants -> Nat] /\ received' \in [Wants -> Nat]
  <2> HIDE DEF P
  <2> QED
    BY <1>3, <1>4 DEF Tally, NoTally
<1>6. /\ \A y \in made[d] : y.row[1] \in P <=> y.row[1][2] = r
      /\ \A z \in made'[d] : \E y \in made[d] : z = IF y.row[1] \in P THEN [y EXCEPT !.status = status] ELSE y
      /\ \A y \in made[d] : (IF y.row[1] \in P THEN [y EXCEPT !.status = status] ELSE y) \in made'[d]
      /\ made[d] \subseteq Entries
  <2>1. \A y \in made[d] : y.row[1][2] = r => y.row[1] \in P
    BY Zenon
  <2>2. \A y \in made[d] : y.row[1] \in P => y.row[1][2] = r
    BY Zenon
  <2> HIDE DEF P
  <2> QED
    BY <1>2, <2>1, <2>2, Zenon DEF Settle, RunTypes
<1> HIDE DEF P
<1>7. \A y \in Entries : LET z == [y EXCEPT !.status = status] IN z.row = y.row /\ z.status = status /\ z.attempts = y.attempts
  BY Zenon DEF Entries
<1>12. ASSUME NEW z \in made'[d] PROVE IF z.row[1] \in P THEN z.status = status ELSE z \in made[d]
  <2>1. PICK y \in made[d] : z = IF y.row[1] \in P THEN [y EXCEPT !.status = status] ELSE y
    BY <1>6, Zenon
  <2> QED
    BY <1>6, <1>7, <2>1, Zenon
<1>8. ASSUME NEW o \in Runs PROVE Unsent(o)'
  <2>1. CASE o = d
    <3> SUFFICES ASSUME NEW z \in made'[d], z.row[1][2] \in todo'[d] PROVE z.status = "pending"
      BY <2>1, Zenon DEF Unsent
    <3>1. PICK y \in made[d] : z = IF y.row[1] \in P THEN [y EXCEPT !.status = status] ELSE y
      BY <1>6, Zenon
    <3>2. z.row = y.row
      BY <1>6, <1>7, <3>1, Zenon
    <3>3. y.row[1] \notin P /\ y.row[1][2] \in todo[d]
      BY <1>2, <1>6, <3>2
    <3> QED
      BY <1>2, <1>3, <3>1, <3>3, Zenon DEF Unsent
  <2>2. CASE o # d
    BY <1>2, <2>2, Zenon DEF OnceInv, Unsent
  <2> QED
    BY <2>1, <2>2, Zenon
<1>9. "overlap" \notin mishaps' => SoleRetry'
  <2>1. NoRetryStep
    BY <1>2, Zenon DEF NoRetryStep
  <2> QED
    BY <1>4, <2>1, SoleKept, Zenon DEF OnceInv
<1>10. ASSUME mishaps' \subseteq {"lost_reply"}, NEW o \in Runs PROVE Held(o)'
  BY <1>2, <1>4, <1>10, Zenon DEF OnceInv, Held
<1>11. ASSUME mishaps' \subseteq {"lost_reply"}, NEW p \in Wants PROVE Tallied(p)'
  <2>1. (\A o \in Runs : Held(o)) /\ Tallied(p) /\ tries' = Tally(tries, P)
    BY <1>4, <1>11, Zenon DEF OnceInv
  <2>2. CASE p \in P
    <3>1. PICK x \in made[d] : x.row[1] = p /\ x.row[1][2] = r
      BY <2>2, ZenonT(60) DEF P
    <3>2. x.row = <<p, 0>> /\ x.status = "pending"
      <4>1. x.row[2] = 0 /\ x.row \in Wants \X Nat
        BY <1>2, <1>6, Zenon DEF LossInv, Dispatching, OwnRows, Entries
      <4> QED
        BY <1>2, <1>3, <3>1, <4>1 DEF Unsent
    <3>3. x \in SendingOf(d, p)
      BY <1>2, <3>2, Zenon DEF SendingOf
    <3>4. Account(p, 0, "pending")
      BY <2>1, <3>2, <3>3, ZenonT(60) DEF Tallied
    <3>5. Account(p, 1, status)'
      BY <1>3, <1>4, <2>1, <2>2, <3>4 DEF Account, Tally
    <3>6. \A z \in SendingOf(d, p)' : z.status = status
      <4>1. \A z : z.row = <<p, 0>> => z.row[1] \in P
        BY <2>2
      <4> QED
        BY <1>12, <4>1, Zenon DEF SendingOf
    <3>7. SendingOf(d, p)' # {}
      <4>1. [x EXCEPT !.status = status] \in SendingOf(d, p)'
        BY <1>2, <1>6, <1>7, <2>2, <3>1, <3>2, Zenon DEF SendingOf
      <4> QED
        BY <4>1, Zenon
    <3> QED
      BY <1>2, <2>1, <3>3, <3>5, <3>6, <3>7, SenderWrites, Zenon
  <2>3. CASE p \notin P
    <3>1. SendingOf(d, p)' = SendingOf(d, p)
      <4>1. \A z : z.row = <<p, 0>> => z.row[1] \notin P
        BY <2>3
      <4> QED
        BY <1>2, <1>6, <1>12, <4>1, Zenon DEF SendingOf
    <3>2. SameOf(p)
      BY <1>2, <3>1, Zenon DEF SameOf, SendingOf, ResendingOf
    <3>3. tries'[p] = tries[p] /\ (mishaps' = {} => mishaps = {} /\ received'[p] = received[p])
      BY <1>3, <1>4, <2>1, <2>3, Zenon DEF Tally
    <3> QED
      BY <2>1, <3>2, <3>3, TalliedKept, Zenon
  <2> QED
    BY <2>2, <2>3, Zenon
<1> QED
  BY <1>2, <1>3, <1>5, <1>8, <1>9, <1>10, <1>11, Zenon DEF OnceInv

LEMMA NoMailOnce ==
  ASSUME LossInv, RunTypes, OnceInv, setup' = setup, NEW d \in Runs, NEW r \in Receivers, MailNotConfigured(d, r)
  PROVE  OnceInv'
<1> DEFINE Kept == {y \in made[d] : y.row[1][2] \notin todo[d] \ {r}}
           Skip(x) == IF x.row[1][2] = r THEN [x EXCEPT !.status = "skipped"] ELSE x
<1>1. /\ pc[d] = "send" /\ r \in todo[d] /\ UNCHANGED <<notified, lock, rows, pc, batch, tries, received, mishaps>> /\ Wants' = Wants
      /\ made'[d] = {Skip(x) : x \in Kept} /\ todo'[d] = {}
      /\ \A o \in Runs : o # d => made'[o] = made[o] /\ todo'[o] = todo[o]
  BY Zenon DEF MailNotConfigured, RunTypes, Wants, history
<1>2. tries \in [Wants -> Nat] /\ received \in [Wants -> Nat] /\ lock \in [Events -> Runs \union {NoRun}] /\ Unsent(d)
  BY Zenon DEF OnceInv
<1>3. \A x \in made[d] : Skip(x).row = x.row /\ (x.row[1][2] = r => Skip(x).status = "skipped") /\ (x.row[1][2] # r => Skip(x) = x)
  BY DEF RunTypes, Entries
<1>4. /\ \A z \in made'[d] : IF z.row[1][2] = r THEN z.status = "skipped" ELSE z \in made[d] /\ z.row[1][2] \notin todo[d]
      /\ \A x \in made[d] : x.row[1][2] \notin todo[d] => x \in made'[d]
      /\ \A x \in made[d] : x.row[1][2] = r => Skip(x) \in made'[d]
  <2> HIDE DEF Skip
  <2>1. \A z \in made'[d] : IF z.row[1][2] = r THEN z.status = "skipped" ELSE z \in made[d] /\ z.row[1][2] \notin todo[d]
    BY <1>1, <1>3
  <2>2. \A x \in made[d] : x.row[1][2] = r => Skip(x) \in made'[d]
    BY <1>1, Zenon
  <2>3. ASSUME NEW x \in made[d], x.row[1][2] \notin todo[d] PROVE x \in made'[d]
    <3>1. Skip(x) = x /\ x \in Kept
      BY <1>1, <1>3, <2>3, Zenon
    <3> QED
      BY <1>1, <3>1, Zenon
  <2> QED
    BY <2>1, <2>2, <2>3, Zenon
<1> HIDE DEF Skip
<1>5. ASSUME NEW o \in Runs PROVE Unsent(o)'
  BY <1>1, Zenon DEF OnceInv, Unsent
<1>6. "overlap" \notin mishaps => SoleRetry'
  <2>1. NoRetryStep
    BY <1>1, Zenon DEF NoRetryStep
  <2> QED
    BY <2>1, SoleKept, Zenon DEF OnceInv
<1>7. ASSUME mishaps \subseteq {"lost_reply"}, NEW o \in Runs PROVE Held(o)'
  BY <1>1, <1>7, Zenon DEF OnceInv, Held
<1>8. ASSUME mishaps \subseteq {"lost_reply"}, NEW p \in Wants PROVE Tallied(p)'
  <2>1. (\A o \in Runs : Held(o)) /\ Tallied(p)
    BY <1>8, Zenon DEF OnceInv
  <2>2. ASSUME NEW x \in SendingOf(d, p), p[2] \in todo[d] PROVE Tallied(p)'
    <3>1. x.status = "pending"
      BY <1>1, <1>2, <2>2 DEF SendingOf, Unsent
    <3>2. Account(p, 0, "pending")
      BY <2>1, <2>2, <3>1, Zenon DEF Tallied
    <3>3. \A s : s # "sent" => Account(p, 0, s)'
      BY <1>1, <3>2, Zenon DEF Account
    <3>4. \A y \in SendingOf(d, p)' : y.status = "skipped"
      <4>1. \A y : y.row = <<p, 0>> => y.row[1][2] \in todo[d]
        BY <2>2
      <4> QED
        BY <1>4, <4>1, Zenon DEF SendingOf
    <3> QED
      BY <1>1, <2>1, <2>2, <3>3, <3>4, SenderWrites, ZenonT(60)
  <2>3. CASE SendingOf(d, p) = {} \/ p[2] \notin todo[d]
    <3>1. SendingOf(d, p)' = SendingOf(d, p)
      <4>1. \A z : z.row = <<p, 0>> => z.row[1] = p
        BY SMTT(60)
      <4>2. CASE p[2] \notin todo[d]
        BY <1>1, <1>4, <4>1, <4>2 DEF SendingOf
      <4>3. CASE SendingOf(d, p) = {}
        <5>1. ASSUME NEW z \in made'[d], z.row = <<p, 0>> PROVE FALSE
          <6>1. PICK x \in made[d] : z = Skip(x)
            BY <1>1, Zenon
          <6> QED
            BY <1>1, <1>3, <4>3, <5>1, <6>1, Zenon DEF SendingOf
        <5> QED
          BY <4>3, <5>1, Zenon DEF SendingOf
      <4> QED
        BY <2>3, <4>2, <4>3, Zenon
    <3>2. SameOf(p)
      BY <1>1, <3>1, Zenon DEF SameOf, SendingOf, ResendingOf
    <3> QED
      BY <1>1, <2>1, <3>2, TalliedKept, Zenon
  <2> QED
    BY <2>2, <2>3, Zenon
<1> QED
  BY <1>1, <1>2, <1>5, <1>6, <1>7, <1>8, Zenon DEF OnceInv

LEMMA CrashOnce == ASSUME LossInv, RunTypes, OnceInv, setup' = setup, NEW d \in Runs, Crash(d) PROVE OnceInv'
<1>1. /\ UNCHANGED <<notified, rows>> /\ Wants' = Wants /\ "crash" \in mishaps' /\ ("overlap" \in mishaps' <=> "overlap" \in mishaps)
      /\ tries' = NoTally /\ received' = NoTally /\ lock' = Unlock(d)
      /\ pc'[d] = "idle" /\ \A o \in Runs : o # d => pc'[o] = pc[o] /\ made'[o] = made[o] /\ todo'[o] = todo[o]
  BY Zenon DEF Crash, Mishap, Step, RunTypes, Wants
<1>2. tries' \in [Wants -> Nat] /\ received' \in [Wants -> Nat] /\ lock' \in [Events -> Runs \union {NoRun}]
  BY <1>1, Zenon DEF OnceInv, NoTally, Unlock
<1>3. \A o \in Runs : Unsent(o)'
  BY <1>1, Zenon DEF OnceInv, Unsent
<1>4. NoRetryStep
  BY <1>1, Zenon DEF NoRetryStep
<1> QED
  BY <1>1, <1>2, <1>3, <1>4, SoleKept, Zenon DEF OnceInv

LEMMA CommitAppends ==
  ASSUME RunTypes, NEW d \in Runs, Commit(d), NEW p \in Wants
  PROVE  /\ \A i \in 1 .. Len(rows[p]) : rows'[p][i] = rows[p][i]
         /\ NewRows(d, p) = {} => rows'[p] = rows[p]
         /\ \A x : NewRows(d, p) = {x} /\ rows[p] = <<>> =>
                Len(rows'[p]) = 1 /\ rows'[p] # <<>> /\ rows'[p][1].status = x.status /\ rows'[p][1].attempts = 1
<1> DEFINE D == [status : {"pending", "sent", "failed", "skipped"}, attempts : Nat]
           add == [status |-> (CHOOSE x \in NewRows(d, p) : TRUE).status, attempts |-> 1]
<1>1. rows'[p] = IF NewRows(d, p) = {} THEN rows[p] ELSE Append(rows[p], add)
  BY Zenon DEF Commit
<1>2. rows[p] \in Seq(D)
  BY Zenon DEF RunTypes
<1>3. ASSUME NewRows(d, p) # {} PROVE add \in D
  <2>1. (CHOOSE x \in NewRows(d, p) : TRUE) \in NewRows(d, p)
    BY <1>3, Zenon
  <2>2. NewRows(d, p) \subseteq Entries
    BY Zenon DEF NewRows, RunTypes
  <2> QED
    BY <2>1, <2>2, Zenon DEF Entries
<1>4. \A x : NewRows(d, p) = {x} => add.status = x.status
  BY Zenon
<1>5. add.attempts = 1
  BY Zenon
<1> HIDE DEF D, add
<1>6. CASE NewRows(d, p) = {}
  BY <1>1, <1>6, Zenon
<1>7. CASE NewRows(d, p) # {}
  <2>1. /\ rows'[p] \in Seq(D) /\ Len(rows'[p]) = Len(rows[p]) + 1 /\ rows'[p][Len(rows[p]) + 1] = add
        /\ \A i \in 1 .. Len(rows[p]) : rows'[p][i] = rows[p][i]
    BY <1>1, <1>2, <1>3, <1>7, Appended
  <2>2. rows'[p] = <<>> <=> Len(rows'[p]) = 0
    BY <2>1, Lengths, Zenon
  <2>3. rows[p] = <<>> => Len(rows[p]) = 0
    OBVIOUS
  <2> QED
    BY <1>4, <1>5, <1>7, <2>1, <2>2, <2>3
<1> QED
  BY <1>6, <1>7, Zenon

LEMMA CommitOnce == ASSUME LossInv, RunTypes, OnceInv, setup' = setup, NEW d \in Runs, Commit(d) PROVE OnceInv'
<1>1. /\ notified' = notified \union Current(d) /\ pc[d] = "send" /\ todo[d] = {} /\ UNCHANGED todo /\ Wants' = Wants
      /\ pc'[d] \in {"read", "tenant"} /\ made'[d] = {} /\ batch'[d] = batch[d] \ Current(d) /\ lock' = Unlock(d)
      /\ batch[d] = Current(d) => pc'[d] = "read" /\ UNCHANGED <<tries, received, mishaps>>
      /\ batch[d] # Current(d) => "unlocked" \in mishaps' /\ tries' = NoTally /\ received' = NoTally /\ mishaps' = mishaps \union {"unlocked"}
      /\ \A o \in Runs : o # d => pc'[o] = pc[o] /\ batch'[o] = batch[o] /\ made'[o] = made[o]
  BY ZenonT(60) DEF Commit, Step, RunTypes, Wants, Mishap
<1>2. tries' \in [Wants -> Nat] /\ received' \in [Wants -> Nat] /\ lock' \in [Events -> Runs \union {NoRun}]
  BY <1>1 DEF OnceInv, NoTally, Unlock
<1>3. \A o \in Runs : Unsent(o)'
  BY <1>1, Zenon DEF OnceInv, Unsent
<1>4. "overlap" \notin mishaps' => SoleRetry'
  <2>1. NoRetryStep
    BY <1>1, CommitAppends, Zenon DEF NoRetryStep
  <2> QED
    BY <1>1, <2>1, SoleKept, Zenon DEF OnceInv
<1>5. ASSUME mishaps' \subseteq {"lost_reply"}
      PROVE  /\ batch[d] = Current(d) /\ pc'[d] = "read" /\ UNCHANGED <<tries, received, mishaps>>
             /\ (\A o \in Runs : Held(o)) /\ \A p \in Wants : Tallied(p)
  <2>1. batch[d] = Current(d)
    BY <1>1, <1>5, ZenonT(60)
  <2> QED
    BY <1>1, <1>5, <2>1, Zenon DEF OnceInv
<1>6. ASSUME mishaps' \subseteq {"lost_reply"}, NEW o \in Runs PROVE Held(o)'
  <2>1. CASE o = d
    BY <1>1, <1>5, <1>6, <2>1 DEF Held
  <2>2. CASE o # d
    <3>1. \A e \in batch[o] : e \in Events /\ lock[e] = o /\ e \notin notified /\ e \notin batch[d]
      BY <1>5, <1>6, <2>2 DEF Held, RunTypes
    <3> QED
      BY <1>1, <1>5, <1>6, <2>2, <3>1, SMTT(60) DEF Held, Unlock
  <2> QED
    BY <2>1, <2>2, Zenon
<1>7. ASSUME mishaps' \subseteq {"lost_reply"}, NEW p \in Wants PROVE Tallied(p)'
  <2>1. /\ (\A o \in Runs : Held(o)) /\ Tallied(p) /\ UNCHANGED <<tries, received, mishaps>>
    BY <1>5, <1>7, Zenon
  <2>2. SendingOf(d, p) = NewRows(d, p) /\ SendingOf(d, p)' = {} /\ ResendingOf(d, p) = {} /\ ResendingOf(d, p)' = {}
    BY <1>1, Zenon DEF SendingOf, ResendingOf, NewRows
  <2>3. \A o \in Runs : o # d => SendingOf(o, p)' = SendingOf(o, p) /\ ResendingOf(o, p)' = ResendingOf(o, p)
    BY <1>1, ZenonT(60) DEF SendingOf, ResendingOf
  <2>4. CASE NewRows(d, p) = {}
    <3>1. SameOf(p)
      BY <1>1, <2>2, <2>3, <2>4, CommitAppends, Zenon DEF SameOf
    <3> QED
      BY <2>1, <3>1, TalliedKept, Zenon
  <2>5. ASSUME NEW x \in NewRows(d, p) PROVE Tallied(p)'
    <3>1. x \in SendingOf(d, p)
      BY <2>2, Zenon
    <3>2. /\ p[1] \in Current(d) /\ rows[p] = <<>> /\ SendingOf(d, p) = {x}
          /\ \A o \in Runs : ResendingOf(o, p) = {} /\ (o # d => SendingOf(o, p) = {})
      BY <2>1, <3>1, Sender, Zenon
    <3>3. Len(rows'[p]) = 1 /\ rows'[p] # <<>> /\ rows'[p][1].status = x.status /\ rows'[p][1].attempts = 1
      BY <2>2, <3>2, CommitAppends, ZenonT(60)
    <3>4. \A o \in Runs : SendingOf(o, p)' = {} /\ ResendingOf(o, p)' = {}
      BY <2>2, <2>3, <3>2, Zenon
    <3>5. RowBound(p)'
      BY <1>1, <3>2, <3>3, NotificationsAssumption DEF RowBound
    <3>6. Account(p, 1, x.status)
      <4>1. Account(p, IF x.status \in {"sent", "failed"} THEN 1 ELSE 0, x.status) /\ tries[p] \in Nat
        BY <2>1, <3>1, Zenon DEF Tallied, OnceInv
      <4> QED
        BY <4>1 DEF Account
    <3>7. Account(p, rows[p][1].attempts, rows[p][1].status)'
      BY <2>1, <3>3, <3>6, Zenon DEF Account
    <3> QED
      BY <3>3, <3>4, <3>5, <3>7, Zenon DEF Tallied
  <2> QED
    BY <2>4, <2>5, Zenon
<1> QED
  BY <1>1, <1>2, <1>3, <1>4, <1>6, <1>7, Zenon DEF OnceInv

LEMMA ReadOnce == ASSUME LossInv, RunTypes, OnceInv, setup' = setup, NEW d \in Runs, NEW R \in Failed, ReadFailed(d, R) PROVE OnceInv'
<1> DEFINE other == R # {} /\ \E o \in Runs \ {d} : pc[o] = "retry"
           new == {[row |-> x, attempts |-> rows[x[1]][x[2]].attempts] : x \in R}
<1>1. /\ UNCHANGED <<notified, lock, rows, batch, made>> /\ Wants' = Wants /\ pc[d] = "read" /\ todo'[d] = new
      /\ pc'[d] = (IF R = {} THEN "idle" ELSE "retry")
      /\ \A o \in Runs : o # d => pc'[o] = pc[o] /\ todo'[o] = todo[o]
  BY Zenon DEF ReadFailed, Step, RunTypes, Wants
<1>2. /\ other => "overlap" \in mishaps' /\ tries' = NoTally /\ received' = NoTally
      /\ ~other => UNCHANGED <<tries, received, mishaps>>
  BY ZenonT(60) DEF ReadFailed, Mishap
<1>3. tries' \in [Wants -> Nat] /\ received' \in [Wants -> Nat] /\ lock' \in [Events -> Runs \union {NoRun}]
  BY <1>1, <1>2 DEF OnceInv, NoTally
<1>4. made[d] = {}
  BY <1>1, Zenon DEF LossInv
<1>5. \A o \in Runs : Unsent(o)'
  BY <1>1, <1>4, Zenon DEF OnceInv, Unsent
<1>6. ASSUME "overlap" \notin mishaps' PROVE SoleRetry'
  <2>1. ~other /\ SoleRetry
    BY <1>2, <1>6, Zenon DEF OnceInv
  <2>2. CASE R = {}
    <3>1. NoRetryStep
      BY <1>1, <2>2, Zenon DEF NoRetryStep
    <3> QED
      BY <2>1, <3>1, SoleKept, Zenon
  <2>3. CASE R # {}
    <3>1. \A o \in Runs : o # d => pc'[o] # "retry"
      BY <1>1, <2>1, <2>3, Zenon
    <3>2. \A x \in R : rows[x[1]][x[2]].status = "failed" /\ rows[x[1]][x[2]].attempts < MaxAttempts
      BY ZenonT(60) DEF Failed, Retryable
    <3>3. \A x \in new : /\ rows[x.row[1]][x.row[2]].status = "failed"
                         /\ rows[x.row[1]][x.row[2]].attempts = x.attempts /\ x.attempts < MaxAttempts
      BY <3>2
    <3> HIDE DEF new
    <3> QED
      BY <1>1, <1>4, <3>1, <3>3, Zenon DEF SoleRetry
  <2> QED
    BY <2>2, <2>3, Zenon
<1>7. ASSUME mishaps' \subseteq {"lost_reply"} PROVE (\A o \in Runs : Held(o)') /\ \A p \in Wants : Tallied(p)'
  <2>1. ~other /\ UNCHANGED <<tries, received, mishaps>>
    BY <1>2, <1>7, Zenon
  <2>2. \A o \in Runs : Held(o)'
    BY <1>1, <1>7, <2>1, Zenon DEF OnceInv, Held
  <2>3. ASSUME NEW p \in Wants PROVE SameOf(p)
    BY <1>1, <1>4, Zenon DEF SameOf, SendingOf, ResendingOf
  <2> QED
    BY <1>7, <2>1, <2>2, <2>3, TalliedKept, Zenon DEF OnceInv
<1> QED
  BY <1>1, <1>3, <1>5, <1>6, <1>7, Zenon DEF OnceInv

LEMMA RetryOnce ==
  ASSUME LossInv, RunTypes, OnceInv, setup' = setup, NEW d \in Runs, NEW x \in todo[d], RetryRow(d, x)
  PROVE  OnceInv'
<1>1. /\ pc[d] = "retry" /\ UNCHANGED <<notified, lock, rows, pc, batch>> /\ Wants' = Wants
      /\ todo'[d] = todo[d] \ {x} /\ \A o \in Runs : o # d => todo'[o] = todo[o]
  BY Zenon DEF RetryRow, RunTypes, Wants
<1>2. x \in Readings /\ todo[d] \subseteq Readings /\ x.row[2] \in 1 .. Len(rows[x.row[1]])
  BY <1>1, Zenon DEF LossInv, Retrying
<1>3. x.row \in Wants \X Nat /\ x.attempts \in Nat
  BY <1>2, Zenon DEF Readings
<1>4. PICK y \in Entries : /\ made' = [made EXCEPT ![d] = @ \union {y}] /\ y.row = x.row
        /\ \/ y.attempts = x.attempts /\ y.status = "skipped" /\ UNCHANGED <<tries, received, mishaps>>
           \/ y.attempts = x.attempts + 1 /\ y.status = "skipped" /\ UNCHANGED <<tries, received, mishaps>>
           \/ y.attempts = x.attempts + 1 /\ y.status \in {"sent", "failed"} /\ Attempt({x.row[1]}, y.status)
  <2>1. CASE x.row[1][2] \notin enabled
    <3> DEFINE z == [row |-> x.row, status |-> "skipped", attempts |-> x.attempts]
    <3>1. z \in Entries /\ z.row = x.row /\ z.status = "skipped" /\ z.attempts = x.attempts
      BY <1>3, Zenon DEF Entries
    <3>2. made' = [made EXCEPT ![d] = @ \union {z}] /\ UNCHANGED <<tries, received, mishaps>>
      BY <2>1, Zenon DEF RetryRow, history
    <3> QED
      BY <3>1, <3>2, Zenon
  <2>2. CASE x.row[1][2] \in enabled
    <3>1. Counted(x, "skipped") \in Entries /\ Counted(x, "skipped").row = x.row /\ Counted(x, "skipped").status = "skipped" /\ Counted(x, "skipped").attempts = x.attempts + 1
      BY <1>3 DEF Counted, Entries
    <3>2. \A s \in {"sent", "failed"} : Counted(x, s) \in Entries /\ Counted(x, s).row = x.row /\ Counted(x, s).status = s /\ Counted(x, s).attempts = x.attempts + 1
      BY <1>3 DEF Counted, Entries
    <3> QED
      BY <2>2, <3>1, <3>2, Zenon DEF RetryRow, history
  <2> QED
    BY <2>1, <2>2, Zenon
<1>5. made'[d] = made[d] \union {y} /\ \A o \in Runs : o # d => made'[o] = made[o]
  BY <1>4, Zenon DEF RunTypes
<1>6. /\ mishaps \subseteq mishaps' /\ ("overlap" \in mishaps' => "overlap" \in mishaps)
      /\ tries' \in {tries, Tally(tries, {x.row[1]})} /\ received' \in {received, NoTally, Tally(received, {x.row[1]})}
      /\ y.attempts = x.attempts => tries' = tries
      /\ mishaps' = {} => received' = IF y.status = "sent" THEN Tally(received, {x.row[1]}) ELSE received
  <2> DEFINE P == {x.row[1]}
  <2>1. y.attempts = x.attempts + 1 => y.attempts # x.attempts
    BY <1>3
  <2>2. \/ UNCHANGED <<tries, received, mishaps>> /\ y.status = "skipped"
        \/ y.attempts # x.attempts /\ y.status \in {"sent", "failed"} /\ Attempt(P, y.status)
    BY <1>4, <2>1, Zenon
  <2> HIDE DEF P
  <2>3. /\ mishaps \subseteq mishaps' /\ ("overlap" \in mishaps' => "overlap" \in mishaps)
        /\ tries' \in {tries, Tally(tries, P)} /\ received' \in {received, NoTally, Tally(received, P)}
        /\ y.attempts = x.attempts => tries' = tries
        /\ mishaps' = {} => received' = IF y.status = "sent" THEN Tally(received, P) ELSE received
    BY <2>2, ZenonT(60) DEF Attempt
  <2> QED
    BY <2>3, Zenon DEF P
<1>7. /\ tries \in [Wants -> Nat] /\ received \in [Wants -> Nat] /\ lock' \in [Events -> Runs \union {NoRun}]
      /\ tries' \in [Wants -> Nat] /\ received' \in [Wants -> Nat]
  BY <1>1, <1>6 DEF OnceInv, NoTally, Tally
<1>8. \A o \in Runs : Unsent(o)'
  BY <1>1, <1>5, ZenonT(60) DEF OnceInv, Unsent
<1>9. ASSUME "overlap" \notin mishaps'
      PROVE  /\ SoleRetry /\ rows[x.row[1]][x.row[2]].status = "failed" /\ rows[x.row[1]][x.row[2]].attempts = x.attempts
             /\ y.attempts <= MaxAttempts
             /\ \A z \in made[d] : z.row # x.row
             /\ \A z \in todo[d] : z.row = x.row => z = x
  <2>1. SoleRetry
    BY <1>6, <1>9, Zenon DEF OnceInv
  <2>2. ASSUME NEW z \in todo[d], z.row = x.row PROVE z = x
    <3>1. z.attempts = x.attempts
      BY <1>1, <2>1, <2>2, SMTT(60) DEF SoleRetry
    <3> QED
      BY <1>2, <2>2, <3>1, SMTT(60) DEF Readings
  <2>3. x.attempts < MaxAttempts /\ MaxAttempts \in Nat
    BY <1>1, <2>1, NotificationsAssumption, ZenonT(60) DEF SoleRetry
  <2>4. y.attempts <= MaxAttempts
    BY <1>3, <1>4, <2>3, SMTT(60)
  <2> QED
    BY <1>1, <2>1, <2>2, <2>4 DEF SoleRetry
<1>10. ASSUME "overlap" \notin mishaps' PROVE SoleRetry'
  <2>1. \A z \in made'[d] : \A w \in made'[d] : z.row = w.row => z = w
    BY <1>1, <1>4, <1>5, <1>9, <1>10, SMTT(60) DEF SoleRetry
  <2>2. \A z \in made'[d] : \A w \in todo'[d] : z.row # w.row
    BY <1>1, <1>4, <1>5, <1>9, <1>10 DEF SoleRetry
  <2>3. \A z \in made'[d] : rows[z.row[1]][z.row[2]].status = "failed" /\ z.attempts <= MaxAttempts
    BY <1>1, <1>4, <1>5, <1>9, <1>10, ZenonT(60) DEF SoleRetry
  <2>4. \A o \in Runs : pc'[o] = "retry" => o = d
    BY <1>1, <1>9, <1>10, Zenon DEF SoleRetry
  <2>5. \A z \in todo'[d] : /\ rows[z.row[1]][z.row[2]].status = "failed"
                            /\ rows[z.row[1]][z.row[2]].attempts = z.attempts /\ z.attempts < MaxAttempts
    BY <1>1, <1>9, <1>10, Zenon DEF SoleRetry
  <2> QED
    BY <1>1, <2>1, <2>2, <2>3, <2>4, <2>5, SMTT(60) DEF SoleRetry
<1>11. ASSUME mishaps' \subseteq {"lost_reply"}, NEW o \in Runs PROVE Held(o)'
  BY <1>1, <1>6, <1>11, Zenon DEF OnceInv, Held
<1>12. ASSUME mishaps' \subseteq {"lost_reply"}, NEW p \in Wants PROVE Tallied(p)'
  <2>1. (\A o \in Runs : Held(o)) /\ Tallied(p) /\ "overlap" \notin mishaps'
    BY <1>6, <1>12, Zenon DEF OnceInv
  <2>2. \A o \in Runs : SendingOf(o, p)' = SendingOf(o, p) /\ (o # d => ResendingOf(o, p)' = ResendingOf(o, p))
    BY <1>1, <1>5, Zenon DEF SendingOf, ResendingOf
  <2>3. CASE p # x.row[1]
    <3>1. ResendingOf(d, p)' = ResendingOf(d, p)
      <4>1. y.row # <<p, 1>>
        BY <1>4, <2>3
      <4> QED
        BY <1>1, <1>5, <4>1, Zenon DEF ResendingOf
    <3>2. SameOf(p)
      BY <1>1, <2>2, <3>1, Zenon DEF SameOf
    <3>3. tries'[p] = tries[p] /\ (mishaps' = {} => mishaps = {} /\ received'[p] = received[p])
      BY <1>6, <1>7, <2>3, Zenon DEF Tally
    <3> QED
      BY <2>1, <3>2, <3>3, TalliedKept, Zenon
  <2>4. CASE p = x.row[1]
    <3>1. Len(rows[p]) \in {0, 1} /\ (rows[p] = <<>> <=> Len(rows[p]) = 0)
      BY <2>1, RowCount, Zenon DEF Tallied
    <3>2. x.row[2] = 1 /\ rows[p] # <<>>
      BY <1>2, <2>4, <3>1
    <3>3. x.row = <<p, 1>>
      BY <1>3, <2>4, <3>2
    <3>4. \A o \in Runs : ResendingOf(o, p) = {} /\ SendingOf(o, p) = {}
      <4>1. \A o \in Runs : SendingOf(o, p) = {}
        BY <2>1, <3>2, Sender, Zenon
      <4>2. \A o \in Runs : pc[o] = "retry" => o = d
        BY <1>1, <1>9, <2>1, Zenon DEF SoleRetry
      <4>3. \A o \in Runs : ResendingOf(o, p) = {}
        BY <1>9, <2>1, <3>3, <4>2, Zenon DEF ResendingOf
      <4> QED
        BY <4>1, <4>3, Zenon
    <3>5. Account(p, x.attempts, "failed")
      BY <1>9, <2>1, <2>4, <3>2, <3>4, Zenon DEF Tallied
    <3>6. Account(p, y.attempts, y.status)'
      <4>1. tries'[p] <= y.attempts
        BY <1>3, <1>4, <1>6, <1>7, <2>4, <3>5, SMTT(60) DEF Account, Tally
      <4>2. mishaps' = {} => received'[p] <= IF y.status = "sent" THEN 1 ELSE 0
        BY <1>6, <1>7, <2>4, <3>5 DEF Account, Tally
      <4> QED
        BY <4>1, <4>2, ZenonT(60) DEF Account
    <3>7. ResendingOf(d, p)' = {y}
      BY <1>1, <1>4, <1>5, <3>3, <3>4, Zenon DEF ResendingOf
    <3>8. RowBound(p)'
      BY <1>1, <2>1, Zenon DEF Tallied, RowBound
    <3>9. rows'[p] # <<>>
      BY <1>1, <3>2, Zenon
    <3> QED
      BY <2>2, <3>4, <3>6, <3>7, <3>8, <3>9, Zenon DEF Tallied
  <2> QED
    BY <2>3, <2>4, Zenon
<1> QED
  BY <1>1, <1>7, <1>8, <1>10, <1>11, <1>12, Zenon DEF OnceInv

LEMMA CommitRetryRewrites ==
  ASSUME RunTypes, LossInv, NEW d \in Runs, CommitRetry(d), NEW p \in Wants
  PROVE  /\ Len(rows'[p]) = Len(rows[p])
         /\ (\A i \in 1 .. Len(rows[p]) : \A x \in made[d] : x.row # <<p, i>>) => rows'[p] = rows[p]
         /\ \A i \in 1 .. Len(rows[p]) :
              IF \A x \in made[d] : x.row # <<p, i>> THEN rows'[p][i] = rows[p][i]
              ELSE \E x \in made[d] : x.row = <<p, i>> /\ rows'[p][i] = Written(rows[p][i], x)
<1> DEFINE D == [status : {"pending", "sent", "failed", "skipped"}, attempts : Nat]
           put(i) == IF \E x \in made[d] : x.row = <<p, i>>
                     THEN Written(rows[p][i], CHOOSE x \in made[d] : x.row = <<p, i>>) ELSE rows[p][i]
<1>1. rows'[p] = [i \in 1 .. Len(rows[p]) |-> put(i)]
  BY Zenon DEF CommitRetry
<1>2. rows[p] \in Seq(D)
  BY Zenon DEF RunTypes
<1>3. Len(rows[p]) \in Nat /\ DOMAIN rows[p] = 1 .. Len(rows[p])
  BY <1>2, Lengths, Zenon
<1>4. ASSUME NEW i \in 1 .. Len(rows[p])
      PROVE  IF \A x \in made[d] : x.row # <<p, i>> THEN put(i) = rows[p][i]
             ELSE \E x \in made[d] : x.row = <<p, i>> /\ put(i) = Written(rows[p][i], x)
  <2>1. CASE \A x \in made[d] : x.row # <<p, i>>
    BY <2>1, Zenon
  <2>2. ASSUME NEW x \in made[d], x.row = <<p, i>>
        PROVE  \E z \in made[d] : z.row = <<p, i>> /\ put(i) = Written(rows[p][i], z)
    <3> DEFINE y == CHOOSE z \in made[d] : z.row = <<p, i>>
    <3>1. y \in made[d] /\ y.row = <<p, i>>
      BY <2>2, Zenon
    <3>2. put(i) = Written(rows[p][i], y)
      BY <2>2, Zenon
    <3> QED
      BY <3>1, <3>2, Zenon
  <2> HIDE DEF put
  <2> QED
    BY <2>1, <2>2, Zenon
<1> HIDE DEF put, D
<1>5. Len(rows'[p]) = Len(rows[p])
  <2>1. rows'[p] \in [1 .. Len(rows[p]) -> {put(i) : i \in 1 .. Len(rows[p])}]
    BY <1>1, Zenon
  <2> QED
    BY <1>3, <2>1, Tabulated, Zenon
<1>6. \A i \in 1 .. Len(rows[p]) : rows'[p][i] = put(i)
  BY <1>1, Zenon
<1>7. ASSUME \A i \in 1 .. Len(rows[p]) : \A x \in made[d] : x.row # <<p, i>> PROVE rows'[p] = rows[p]
  <2>1. \A i \in 1 .. Len(rows[p]) : put(i) = rows[p][i]
    BY <1>4, <1>7, Zenon
  <2>2. rows[p] = [i \in 1 .. Len(rows[p]) |-> rows[p][i]]
    BY <1>2, <1>3
  <2> QED
    BY <1>1, <2>1, <2>2, Zenon
<1> QED
  BY <1>4, <1>5, <1>6, <1>7, Zenon

LEMMA CommitRetryOnce == ASSUME LossInv, RunTypes, OnceInv, setup' = setup, NEW d \in Runs, CommitRetry(d) PROVE OnceInv'
<1>1. /\ UNCHANGED <<notified, lock, batch, todo, tries, received, mishaps>> /\ Wants' = Wants
      /\ pc[d] = "retry" /\ made'[d] = {} /\ pc'[d] = "idle"
      /\ \A o \in Runs : o # d => pc'[o] = pc[o] /\ made'[o] = made[o]
  BY Zenon DEF CommitRetry, Step, RunTypes, history, Wants
<1>2. tries \in [Wants -> Nat] /\ received \in [Wants -> Nat] /\ lock \in [Events -> Runs \union {NoRun}]
  BY Zenon DEF OnceInv
<1>3. \A o \in Runs : Unsent(o)'
  BY <1>1, ZenonT(60) DEF OnceInv, Unsent
<1>4. "overlap" \notin mishaps => SoleRetry /\ \A o \in Runs : pc'[o] # "retry"
  BY <1>1 DEF OnceInv, SoleRetry
<1>5. "overlap" \notin mishaps => SoleRetry'
  BY <1>4, Zenon DEF SoleRetry
<1>6. ASSUME mishaps \subseteq {"lost_reply"}, NEW o \in Runs PROVE Held(o)'
  BY <1>1, <1>6, Zenon DEF OnceInv, Held
<1>7. ASSUME mishaps \subseteq {"lost_reply"}, NEW p \in Wants PROVE Tallied(p)'
  <2>1. Tallied(p) /\ SoleRetry /\ (\A o \in Runs : ResendingOf(o, p)' = {}) /\ \A o \in Runs : SendingOf(o, p)' = SendingOf(o, p)
    BY <1>1, <1>4, <1>7, Zenon DEF OnceInv, SendingOf, ResendingOf
  <2>2. /\ Len(rows[p]) \in {0, 1} /\ (rows[p] = <<>> <=> Len(rows[p]) = 0)
        /\ rows[p] # <<>> => p[1] \in notified
    BY <2>1, RowCount, Zenon DEF Tallied
  <2>3. \A o \in Runs : o # d => ResendingOf(o, p) = {}
    BY <1>1, <2>1, Zenon DEF SoleRetry, ResendingOf
  <2>4. CASE ResendingOf(d, p) = {}
    <3>1. \A i \in 1 .. Len(rows[p]) : \A x \in made[d] : x.row # <<p, i>>
      <4>1. \A i \in 1 .. Len(rows[p]) : i = 1
        <5>1. \A n \in {0, 1} : \A i \in 1 .. n : i = 1
          OBVIOUS
        <5> QED
          BY <2>2, <5>1, Zenon
      <4> QED
        BY <1>1, <2>4, <4>1, Zenon DEF ResendingOf
    <3>2. rows'[p] = rows[p]
      BY <3>1, CommitRetryRewrites, Zenon
    <3>3. SameOf(p)
      BY <1>1, <2>1, <2>3, <2>4, <3>2, Zenon DEF SameOf
    <3> QED
      BY <1>1, <2>1, <3>3, TalliedKept, Zenon
  <2>5. CASE ResendingOf(d, p) # {}
    <3>1. PICK y \in made[d] : y.row = <<p, 1>>
      BY <2>5, Zenon DEF ResendingOf
    <3>2. 1 \in 1 .. Len(rows[p]) /\ Len(rows[p]) = 1
      <4>1. y.row[2] \in 1 .. Len(rows[y.row[1]])
        BY <1>1, <3>1, ZenonT(60) DEF LossInv, Retrying
      <4> QED
        BY <2>2, <3>1, <4>1
    <3>3. PICK x \in made[d] : x.row = <<p, 1>> /\ rows'[p][1] = Written(rows[p][1], x)
      BY <3>1, <3>2, CommitRetryRewrites, SMTT(60)
    <3>4. rows[p][1].status = "failed" /\ x.attempts <= MaxAttempts
      BY <1>1, <2>1, <3>3, SMTT(60) DEF SoleRetry
    <3>5. rows'[p][1].status = x.status /\ rows'[p][1].attempts = x.attempts
      BY <3>3, <3>4 DEF Written
    <3>6. Account(p, x.attempts, x.status)
      BY <1>1, <2>1, <3>3, Zenon DEF Tallied, ResendingOf
    <3>7. Len(rows'[p]) = 1 /\ rows'[p] # <<>>
      <4>1. Len(rows'[p]) = 1
        BY <3>2, CommitRetryRewrites, Zenon
      <4>2. Len(<<>>) # 1
        OBVIOUS
      <4> QED
        BY <4>1, <4>2, Zenon
    <3>8. RowBound(p)'
      BY <1>1, <2>2, <3>2, <3>4, <3>5, <3>7 DEF RowBound
    <3>9. Account(p, rows[p][1].attempts, rows[p][1].status)'
      BY <1>1, <3>5, <3>6, ZenonT(60) DEF Account
    <3>10. \A o \in Runs : SendingOf(o, p)' = {}
      <4>1. rows[p] # <<>> /\ \A o \in Runs : Held(o)
        BY <1>7, <2>2, <3>2 DEF OnceInv
      <4> QED
        BY <2>1, <4>1, Sender, SMTT(60)
    <3> QED
      BY <2>1, <3>7, <3>8, <3>9, <3>10, Zenon DEF Tallied
  <2> QED
    BY <2>4, <2>5, Zenon
<1> QED
  BY <1>1, <1>2, <1>3, <1>5, <1>6, <1>7, Zenon DEF OnceInv

LEMMA OnceStepKeeps == LossInv /\ RunTypes /\ OnceInv /\ [Next]_vars => OnceInv'
<1> SUFFICES ASSUME LossInv, RunTypes, OnceInv, [Next]_vars PROVE OnceInv'
  BY Zenon
<1>1. setup' = setup
  BY Zenon DEF Next, vars
<1>2. CASE Occur \/ (\E r \in Receivers : Disable(r) \/ Enable(r)) \/ UNCHANGED vars
  BY <1>1, <1>2, EnvironmentOnce, Zenon DEF Occur, Disable, Enable, vars, history
<1>3. ASSUME NEW d \in Runs, Take(d) \/ Crash(d) PROVE OnceInv'
  BY <1>1, <1>3, TakeOnce, CrashOnce, Zenon
<1>4. ASSUME NEW d \in Runs, OpenTenant(d) PROVE OnceInv'
  BY <1>1, <1>4, OpenOnce, Zenon
<1>5. ASSUME NEW d \in Runs, Commit(d) PROVE OnceInv'
  BY <1>1, <1>5, CommitOnce, Zenon
<1>6. ASSUME NEW d \in Runs, CommitRetry(d) PROVE OnceInv'
  BY <1>1, <1>6, CommitRetryOnce, Zenon
<1>7. ASSUME NEW d \in Runs, NEW R \in Failed, ReadFailed(d, R) PROVE OnceInv'
  BY <1>1, <1>7, ReadOnce, Zenon
<1>8. ASSUME NEW d \in Runs, NEW r \in Receivers, Send(d, r) PROVE OnceInv'
  BY <1>1, <1>8, SendOnce, Zenon
<1>9. ASSUME NEW d \in Runs, NEW r \in Receivers, MailNotConfigured(d, r) PROVE OnceInv'
  BY <1>1, <1>9, NoMailOnce, Zenon
<1>10. ASSUME NEW d \in Runs, NEW x \in todo[d], RetryRow(d, x) PROVE OnceInv'
  BY <1>1, <1>10, RetryOnce, Zenon
<1> QED
  BY <1>2, <1>3, <1>4, <1>5, <1>6, <1>7, <1>8, <1>9, <1>10, Zenon DEF Next, Run

\* What the accounts of the pairs come to.
Copies == /\ mishaps = {} => \A p \in Wants : received[p] <= 1
          /\ mishaps \subseteq {"lost_reply"} => \A p \in Wants : tries[p] <= MaxAttempts

LEMMA OnceCopies == RunTypes /\ OnceInv => Copies
<1> SUFFICES ASSUME RunTypes, OnceInv, mishaps \subseteq {"lost_reply"}, NEW p \in Wants
             PROVE  (mishaps = {} => received[p] <= 1) /\ tries[p] <= MaxAttempts
  BY Zenon DEF Copies
<1>1. Tallied(p) /\ SoleRetry /\ tries[p] \in Nat /\ received[p] \in Nat /\ MaxAttempts \in Nat \ {0}
  BY NotificationsAssumption, Zenon DEF OnceInv
<1>2. ASSUME NEW n \in Nat, NEW s, Account(p, n, s), n <= MaxAttempts
      PROVE  (mishaps = {} => received[p] <= 1) /\ tries[p] <= MaxAttempts
  BY <1>1, <1>2, SMTT(60) DEF Account
<1>3. ASSUME NEW d \in Runs, NEW x \in SendingOf(d, p) PROVE (mishaps = {} => received[p] <= 1) /\ tries[p] <= MaxAttempts
  <2>1. Account(p, IF x.status \in {"sent", "failed"} THEN 1 ELSE 0, x.status)
    BY <1>1, <1>3, Zenon DEF Tallied
  <2> QED
    BY <1>1, <1>2, <2>1
<1>4. ASSUME NEW d \in Runs, NEW x \in ResendingOf(d, p) PROVE (mishaps = {} => received[p] <= 1) /\ tries[p] <= MaxAttempts
  <2>1. Account(p, x.attempts, x.status) /\ x.attempts <= MaxAttempts
    BY <1>1, <1>4, Zenon DEF Tallied, SoleRetry, ResendingOf
  <2>2. x.attempts \in Nat
    BY <1>4, SMTT(60) DEF ResendingOf, RunTypes, Entries
  <2> QED
    BY <1>2, <2>1, <2>2, Zenon
<1>5. CASE rows[p] = <<>> /\ \A d \in Runs : SendingOf(d, p) = {}
  <2>1. Account(p, 0, "none")
    BY <1>1, <1>5, Zenon DEF Tallied
  <2> QED
    BY <1>1, <1>2, <2>1
<1>6. CASE rows[p] # <<>> /\ \A d \in Runs : ResendingOf(d, p) = {}
  <2>1. Account(p, rows[p][1].attempts, rows[p][1].status) /\ RowBound(p)
    BY <1>1, <1>6, Zenon DEF Tallied
  <2>2. rows[p][1].attempts \in Nat /\ rows[p][1].attempts <= MaxAttempts
    BY <1>6, <2>1, RowCount, Zenon DEF RowBound
  <2> QED
    BY <1>2, <2>1, <2>2, Zenon
<1> QED
  BY <1>3, <1>4, <1>5, <1>6, Zenon

\* A row recorded as sent is written only when two runs retry it.
LEMMA SentStays ==
  ASSUME RunTypes, LossInv, OnceInv, Next, NEW p \in Wants, NEW i \in DOMAIN rows[p],
         rows[p][i].status = "sent", "overlap" \notin mishaps
  PROVE  rows'[p][i].status = "sent"
<1>1. i \in 1 .. Len(rows[p])
  <2>1. rows[p] \in Seq([status : {"pending", "sent", "failed", "skipped"}, attempts : Nat])
    BY Zenon DEF RunTypes
  <2> QED
    BY <2>1, Lengths, Zenon
<1>2. ASSUME NEW d \in Runs, Commit(d) PROVE rows'[p][i].status = "sent"
  BY <1>1, <1>2, CommitAppends, Zenon
<1>3. ASSUME NEW d \in Runs, CommitRetry(d) PROVE rows'[p][i].status = "sent"
  <2>1. SoleRetry /\ pc[d] = "retry"
    BY <1>3, ZenonT(60) DEF OnceInv, CommitRetry
  <2>2. \A x \in made[d] : x.row # <<p, i>>
    BY <2>1, SMTT(60) DEF SoleRetry
  <2> QED
    BY <1>1, <1>3, <2>2, CommitRetryRewrites, Zenon
<1>4. (\E d \in Runs : Commit(d) \/ CommitRetry(d)) \/ rows' = rows
  BY ZenonT(60) DEF Next, Run, Occur, Disable, Enable, Crash, Take, OpenTenant, ReadFailed, Send, MailNotConfigured, RetryRow
<1> QED
  BY <1>2, <1>3, <1>4, Zenon

\* However the runs overlap and retry, a wanted event reaches its receiver once unless a
\* run stopped before its commit, lost its locks or overlapped another retry or a reply was lost,
\* is sent MAX_ATTEMPTS times at most, and a delivery recorded as sent stays so
\* (dispatch_pending's skip_locked, retry_failed's filter on status and attempts).
THEOREM EachDeliveredOnce == Spec => DeliveredOnce
<1> DEFINE Inv == RunTypes /\ LossInv /\ OnceInv
<1>1. Spec => []Inv
  BY LossInvariant, OnceInit, OnceStepKeeps, PTL DEF Spec
<1>2. Inv => Copies
  BY OnceCopies, Zenon
<1>3. Inv /\ Copies' /\ [Next]_vars =>
        [/\ mishaps' = {} => \A p \in Wants : received'[p] <= 1
         /\ mishaps' \subseteq {"lost_reply"} => \A p \in Wants : tries'[p] <= MaxAttempts
         /\ \A p \in Wants : \A i \in DOMAIN rows[p] :
              rows[p][i].status = "sent" /\ "overlap" \notin mishaps => rows'[p][i].status = "sent"]_vars
  <2> SUFFICES ASSUME Inv, Copies', Next
               PROVE  /\ mishaps' = {} => \A p \in Wants : received'[p] <= 1
                      /\ mishaps' \subseteq {"lost_reply"} => \A p \in Wants : tries'[p] <= MaxAttempts
                      /\ \A p \in Wants : \A i \in DOMAIN rows[p] :
                           rows[p][i].status = "sent" /\ "overlap" \notin mishaps => rows'[p][i].status = "sent"
    BY Zenon
  <2>1. Wants' = Wants
    BY Zenon DEF Next, Wants
  <2> QED
    BY <2>1, SentStays, Zenon DEF Copies
<1> HIDE DEF Inv
<1> QED
  BY <1>1, <1>2, <1>3, PTL DEF Spec, DeliveredOnce

-----------------------------------------------------------------------------
(* Integrations and scanner keys. *)

Transactions == [phase : {"idle", "read", "flushed", "done"}, kind : {None, "put", "clear", "delete", "set", "unset"},
                 on : Channels \union Providers \union {None}, had : Ids, sid : Ids]

ChannelRows == [Channels -> [state : {"unborn", "there", "gone"}, secret : Ids]]
SecretRows == [Channels \union Providers -> Ids]

LEMMA TypeInit == IntegrationsInit => IntegrationsTypeOK
BY DEF IntegrationsInit, IntegrationsTypeOK, NoCall, Ids

\* What a commit writes has the types of the rows it is given.
LEMMA CommitTypes ==
  ASSUME IntegrationsTypeOK, NEW r \in Calls, NEW channels \in [Channels -> [state : {"unborn", "there", "gone"}, secret : Ids]],
         NEW secrets \in [Channels \union Providers -> Ids], CommitsWith(r, channels, secrets)
  PROVE  /\ channel' \in [Channels -> [state : {"unborn", "there", "gone"}, secret : Ids]]
         /\ vault' \in [Channels \union Providers -> Ids]
         /\ call' \in [Calls -> Transactions]
BY ZenonT(60) DEF CommitsWith, CallOver, NoCall, IntegrationsTypeOK, Ids, Transactions

LEMMA TypeStep ==
  ASSUME IntegrationsTypeOK, \A r \in Calls : CallOnItsRow(r), [IntegrationsNext]_integrations
  PROVE  IntegrationsTypeOK'
<1> DEFINE Ch == [Channels -> [state : {"unborn", "there", "gone"}, secret : Ids]]
           Va == [Channels \union Providers -> Ids]
<1>0. channel \in Ch /\ vault \in Va /\ call \in [Calls -> Transactions] /\ bereft \subseteq Channels /\ Calls \subseteq Ids /\ None \in Ids
  BY Zenon DEF IntegrationsTypeOK, Transactions, Ids
<1>t. ASSUME channel' \in Ch, vault' \in Va, call' \in [Calls -> Transactions], bereft' \subseteq Channels PROVE IntegrationsTypeOK'
  BY <1>t, Zenon DEF IntegrationsTypeOK, Transactions
<1>f. ASSUME NEW r \in Calls, Fails(r) PROVE IntegrationsTypeOK'
  <2>1. call' \in [Calls -> Transactions]
    BY <1>0, <1>f, Zenon DEF Fails, CallOver, NoCall, Transactions
  <2> QED
    BY <1>0, <1>f, <1>t, <2>1, Zenon DEF Fails
<1>r. ASSUME NEW r \in Calls, NEW kind \in {"put", "clear", "delete", "set", "unset"},
             NEW on \in Channels \union Providers, NEW had \in Ids, Reads(r, kind, on, had)
      PROVE  IntegrationsTypeOK'
  <2>1. call' \in [Calls -> Transactions]
    BY <1>0, <1>r, Zenon DEF Reads, Transactions
  <2> QED
    BY <1>0, <1>r, <1>t, <2>1, Zenon DEF Reads
<1> HIDE DEF Ch, Va
<1>1. ASSUME NEW r \in Calls, create_integration(r) PROVE IntegrationsTypeOK'
  <2>1. PICK c \in Channels, secret \in {None, r} :
          /\ CommitsWith(r, [channel EXCEPT ![c] = [state |-> "there", secret |-> secret]], [vault EXCEPT ![c] = secret])
          /\ UNCHANGED bereft
    BY <1>1, Zenon DEF create_integration
  <2>2. [channel EXCEPT ![c] = [state |-> "there", secret |-> secret]] \in Ch /\ [vault EXCEPT ![c] = secret] \in Va
    BY <1>0, Zenon DEF Ch, Va
  <2> QED
    BY <1>0, <1>t, <2>1, <2>2, CommitTypes, Zenon DEF Ch, Va
<1>2. ASSUME NEW r \in Calls, update_integration(r) \/ delete_integration(r) PROVE IntegrationsTypeOK'
  BY <1>0, <1>2, <1>r, Zenon DEF update_integration, delete_integration, Ch
<1>3. ASSUME NEW r \in Calls, set_credential(r) \/ delete_credential(r) PROVE IntegrationsTypeOK'
  BY <1>0, <1>3, <1>r, Zenon DEF set_credential, delete_credential, Va
<1>a. ASSUME NEW r \in Calls, call[r].phase \in {"read", "flushed"}
      PROVE  /\ call[r].on \in Channels \union Providers /\ vault[call[r].on] \in Ids /\ call[r].sid \in Ids /\ call[r].had \in Ids
             /\ call[r].kind \in {"put", "clear", "delete"} => call[r].on \in Channels
  <2>1. call[r].on \in Channels \union Providers /\ (call[r].kind \in {"put", "clear", "delete"} => call[r].on \in Channels)
    BY <1>a, Zenon DEF CallOnItsRow
  <2> QED
    BY <1>0, <2>1, Zenon DEF Va, Transactions
<1>4. ASSUME NEW r \in Calls, put_secret(r) PROVE IntegrationsTypeOK'
  <2>1. vault[call[r].on] \in Ids
    BY <1>4, <1>a, Zenon DEF put_secret
  <2>2. call' \in [Calls -> Transactions]
    <3> DEFINE sid == IF vault[call[r].on] = None THEN r ELSE vault[call[r].on]
               row == [call[r] EXCEPT !.phase = "flushed", !.sid = sid]
    <3>1. sid \in Ids
      BY <2>1, Zenon DEF Ids
    <3> HIDE DEF sid
    <3>2. row \in Transactions
      BY <1>0, <3>1, Zenon DEF Transactions
    <3>3. call' = [call EXCEPT ![r] = row]
      BY <1>4, Zenon DEF put_secret, sid
    <3> HIDE DEF row
    <3> QED
      BY <1>0, <3>2, <3>3
  <2> QED
    BY <1>0, <1>4, <1>t, <2>2, Zenon DEF put_secret
<1>5. ASSUME NEW r \in Calls, ClearFlushed(r) PROVE IntegrationsTypeOK'
  <2>1. CASE Fails(r)
    BY <2>1, <1>f, Zenon
  <2>2. CASE call' = [call EXCEPT ![r].phase = "flushed"] /\ UNCHANGED <<channel, vault, bereft>>
    <3>1. call' \in [Calls -> Transactions]
      BY <1>0, <2>2 DEF Transactions
    <3> QED
      BY <1>0, <1>t, <2>2, <3>1, Zenon
  <2> QED
    BY <1>5, <2>1, <2>2, Zenon DEF ClearFlushed
<1>w. ASSUME NEW r \in Calls, NEW channels \in Ch, NEW secrets \in Va, CommitsWith(r, channels, secrets), bereft' \subseteq Channels
      PROVE  IntegrationsTypeOK'
  BY <1>t, <1>w, CommitTypes, Zenon DEF Ch, Va
<1>6. ASSUME NEW r \in Calls, PutCommits(r) PROVE IntegrationsTypeOK'
  <2> DEFINE c == call[r].on
             stored == [vault EXCEPT ![c] = call[r].sid]
  <2>1. c \in Channels /\ call[r].sid \in Ids
    BY <1>6, <1>a, Zenon DEF PutCommits
  <2>2. stored \in Va /\ [channel EXCEPT ![c].secret = call[r].sid] \in Ch
    BY <1>0, <2>1, Zenon DEF Ch, Va
  <2>3. CASE Fails(r)
    BY <2>3, <1>f, Zenon
  <2>4. CASE CommitsWith(r, channel, stored) /\ UNCHANGED bereft
    BY <1>0, <1>w, <2>2, <2>4, Zenon
  <2>5. CASE CommitsWith(r, [channel EXCEPT ![c].secret = call[r].sid], stored) /\ UNCHANGED bereft
    BY <1>0, <1>w, <2>2, <2>5, Zenon
  <2> QED
    BY <1>6, <2>3, <2>4, <2>5, Zenon DEF PutCommits
<1>7. ASSUME NEW r \in Calls, ClearCommits(r) PROVE IntegrationsTypeOK'
  <2>1. call[r].on \in Channels
    BY <1>7, <1>a, Zenon DEF ClearCommits
  <2>2. [channel EXCEPT ![call[r].on].secret = None] \in Ch /\ [vault EXCEPT ![call[r].on] = None] \in Va
    BY <1>0, <2>1, Zenon DEF Ch, Va
  <2> QED
    BY <1>0, <1>7, <1>w, <2>2, Zenon DEF ClearCommits
<1>8. ASSUME NEW r \in Calls, DeleteCommits(r) PROVE IntegrationsTypeOK'
  <2> DEFINE c == call[r].on
             left == IF call[r].had = None THEN vault ELSE [vault EXCEPT ![c] = None]
             row == [channel EXCEPT ![c] = [state |-> "gone", secret |-> None]]
  <2>1. c \in Channels
    BY <1>8, <1>a, Zenon DEF DeleteCommits
  <2>2. left \in Va /\ row \in Ch
    BY <1>0, <2>1, Zenon DEF Ch, Va
  <2>3. CASE Fails(r)
    BY <2>3, <1>f, Zenon
  <2>4. CASE CommitsWith(r, row, left) /\ bereft' = bereft \union {x \in {c} : call[r].had = None /\ vault[c] # None}
    BY <1>0, <1>w, <2>1, <2>2, <2>4, Zenon
  <2> QED
    BY <1>8, <2>3, <2>4, Zenon DEF DeleteCommits
<1>9. ASSUME NEW r \in Calls, CredentialCommits(r) PROVE IntegrationsTypeOK'
  <2> DEFINE p == call[r].on
             unset == [vault EXCEPT ![p] = IF @ = call[r].had THEN None ELSE @]
  <2>1. p \in Channels \union Providers /\ vault[p] \in Ids /\ call[r].sid \in Ids
    BY <1>9, <1>a, Zenon DEF CredentialCommits
  <2>2. [vault EXCEPT ![p] = call[r].sid] \in Va /\ unset \in Va
    BY <1>0, <2>1, Zenon DEF Va
  <2> QED
    BY <1>0, <1>9, <1>w, <2>2, Zenon DEF CredentialCommits
<1>10. ASSUME UNCHANGED integrations PROVE IntegrationsTypeOK'
  BY <1>0, <1>10, <1>t, Zenon DEF integrations
<1> QED
  BY <1>1, <1>2, <1>3, <1>4, <1>5, <1>6, <1>7, <1>8, <1>9, <1>10, <1>f, Zenon DEF IntegrationsNext, CallFails

-----------------------------------------------------------------------------
LEMMA NoneIsNoCall == \A x \in Calls : x # None
BY IntegrationsAssumption DEF Calls

\* A step that writes no row keeps the invariant if what it records of its call is true of the rows.
LEMMA CallStepKeeps ==
  ASSUME SecretInv, UNCHANGED <<channel, vault, bereft>>, NEW r \in Calls, \A o \in Calls \ {r} : call'[o] = call[o],
         CallOnItsRow(r)', call[r].phase # "done",
         \A x \in Calls : call[x].phase # "done" => call'[r].had # x /\ (call'[r].sid = x => x = r),
         Storing(r)' => /\ call'[r].sid = IF vault[call'[r].on] = None THEN r ELSE vault[call'[r].on]
                        /\ \A o \in Calls \ {r} : ~(Storing(o) /\ call[o].on = call'[r].on)
  PROVE  SecretInv'
<1>1. SecretsFollowUse'
  BY Zenon DEF SecretInv, SecretsFollowUse
<1>2. ASSUME NEW x \in Calls PROVE CallOnItsRow(x)'
  BY <1>2, Zenon DEF SecretInv, CallOnItsRow
<1>3. ASSUME NEW x \in Calls PROVE IdUnused(x)'
  <2>1. CASE call'[x].phase = "done"
    BY <2>1, Zenon DEF IdUnused
  <2>2. CASE call'[x].phase # "done"
    <3>1. call[x].phase # "done"
      BY <2>2, Zenon
    <3>2. /\ \A o \in Channels \union Providers : vault[o] # x
          /\ \A c \in Channels : channel[c].secret # x
          /\ \A o \in Calls : call[o].had # x /\ (call[o].sid = x => o = x)
      BY <3>1, Zenon DEF SecretInv, IdUnused
    <3>3. \A o \in Calls : call'[o].had # x /\ (call'[o].sid = x => o = x)
      BY <3>1, <3>2, ZenonT(60)
    <3> QED
      BY <3>2, <3>3, Zenon DEF IdUnused
  <2> QED
    BY <2>1, <2>2, Zenon
<1>4. \A x \in Calls \ {r} : Storing(x)' <=> Storing(x)
  BY Zenon DEF Storing
<1>5. ASSUME NEW x \in Calls, Storing(x)' PROVE call'[x].sid = IF vault'[call'[x].on] = None THEN x ELSE vault'[call'[x].on]
  BY <1>4, <1>5, SMTT(60) DEF SecretInv
<1>6. ASSUME NEW x \in Calls, NEW o \in Calls, Storing(x)', Storing(o)', call'[x].on = call'[o].on PROVE x = o
  BY <1>4, <1>6 DEF SecretInv
<1> QED
  BY <1>1, <1>2, <1>3, <1>5, <1>6, Zenon DEF SecretInv

(* A commit that writes the row and the secret of one name keeps the        *)
(* invariant: what it leaves there agrees, its ids were in use or are its   *)
(* own, and a call that has flushed a secret of that name sees no change.   *)
CommitEffect(r, c) ==
    /\ call' = [call EXCEPT ![r] = CallOver] /\ call[r].phase # "done"
    /\ \A o \in (Channels \union Providers) \ {c} : vault'[o] = vault[o]
    /\ \A d \in Channels \ {c} : channel'[d].state = channel[d].state /\ channel'[d].secret = channel[d].secret
    /\ bereft \subseteq bereft'
    /\ c \in Channels => /\ channel'[c].state # "unborn"
                         /\ channel'[c].secret # None => channel'[c].state = "there" /\ vault'[c] = channel'[c].secret
                         /\ vault'[c] # None /\ c \notin bereft' => channel'[c].secret = vault'[c]
                         /\ channel'[c].secret \in {None, r, vault[c], channel[c].secret}
    /\ vault'[c] \in {None, r, vault[c]}
    /\ \A o \in Calls \ {r} : Storing(o) /\ call[o].on = c => vault'[c] = vault[c]

LEMMA CommitKeepsSecrets ==
  ASSUME SecretInv, NEW r \in Calls, NEW c \in Channels \union Providers, call \in [Calls -> Transactions], CommitEffect(r, c)
  PROVE  SecretInv'
<1> USE DEF CommitEffect
<1>0. call'[r] = CallOver /\ \A o \in Calls \ {r} : call'[o] = call[o]
  BY Zenon
<1>1. CallOver.phase = "done" /\ CallOver.had = None /\ CallOver.sid = None
  BY Zenon DEF CallOver, NoCall
<1>2. SecretsFollowUse'
  <2> SUFFICES ASSUME NEW d \in Channels
               PROVE  /\ channel'[d].secret # None => channel'[d].state = "there" /\ vault'[d] = channel'[d].secret
                      /\ vault'[d] # None /\ d \notin bereft' => channel'[d].secret = vault'[d]
    BY Zenon DEF SecretsFollowUse
  <2>1. CASE d = c
    BY <2>1, Zenon
  <2>2. CASE d # c
    BY <2>2, ZenonT(60) DEF SecretInv, SecretsFollowUse
  <2> QED
    BY <2>1, <2>2, Zenon
<1>3. ASSUME NEW x \in Calls PROVE CallOnItsRow(x)'
  <2>1. CASE x = r
    BY <2>1, <1>0, <1>1, Zenon DEF CallOnItsRow
  <2>2. CASE x # r
    <3>1. call'[x] = call[x] /\ CallOnItsRow(x)
      BY <2>2, <1>0, Zenon DEF SecretInv
    <3>2. \A d \in Channels : channel[d].state # "unborn" => channel'[d].state # "unborn"
      BY Zenon
    <3> QED
      BY <3>1, <3>2, Zenon DEF CallOnItsRow
  <2> QED
    BY <2>1, <2>2, Zenon
<1>4. ASSUME NEW x \in Calls PROVE IdUnused(x)'
  <2>1. CASE call'[x].phase = "done"
    BY <2>1, Zenon DEF IdUnused
  <2>2. CASE call'[x].phase # "done"
    <3>1. x # r /\ call[x].phase # "done"
      BY <2>2, <1>0, <1>1, Zenon
    <3>2. /\ \A o \in Channels \union Providers : vault[o] # x
          /\ \A d \in Channels : channel[d].secret # x
          /\ \A o \in Calls : call[o].had # x /\ (call[o].sid = x => o = x)
      BY <3>1, Zenon DEF SecretInv, IdUnused
    <3>3. x # None
      BY NoneIsNoCall, Zenon
    <3>4. \A o \in Channels \union Providers : vault'[o] # x
      BY <3>1, <3>2, <3>3, Zenon
    <3>5. \A d \in Channels : channel'[d].secret # x
      BY <3>1, <3>2, <3>3, Zenon
    <3>6. \A o \in Calls : call'[o].had # x /\ (call'[o].sid = x => o = x)
      BY <1>0, <1>1, <3>1, <3>2, <3>3, Zenon
    <3> QED
      BY <3>4, <3>5, <3>6, Zenon DEF IdUnused
  <2> QED
    BY <2>1, <2>2, Zenon
<1>5. \A x \in Calls : Storing(x)' => x # r /\ Storing(x) /\ call'[x] = call[x]
  BY <1>0, <1>1, Zenon DEF Storing
<1>6. ASSUME NEW x \in Calls, Storing(x)' PROVE call'[x].sid = IF vault'[call'[x].on] = None THEN x ELSE vault'[call'[x].on]
  <2>1. x # r /\ Storing(x) /\ call'[x] = call[x]
    BY <1>5, <1>6, Zenon
  <2>2. CallOnItsRow(x) /\ call[x].sid = IF vault[call[x].on] = None THEN x ELSE vault[call[x].on]
    BY <2>1, Zenon DEF SecretInv
  <2>3. call[x].on \in Channels \union Providers
    BY <2>1, <2>2, Zenon DEF CallOnItsRow, Storing
  <2>4. vault'[call[x].on] = vault[call[x].on]
    BY <2>1, <2>3, Zenon
  <2> QED
    BY <2>1, <2>2, <2>4, Zenon
<1>7. ASSUME NEW x \in Calls, NEW o \in Calls, Storing(x)', Storing(o)', call'[x].on = call'[o].on PROVE x = o
  BY <1>5, <1>7, Zenon DEF SecretInv
<1> QED
  BY <1>2, <1>3, <1>4, <1>6, <1>7, Zenon DEF SecretInv

-----------------------------------------------------------------------------
(* The steps, one by one.                                                  *)

IntegrationsInv == IntegrationsTypeOK /\ SecretInv

LEMMA FailKeeps == ASSUME IntegrationsInv, NEW r \in Calls, call[r].phase # "done", Fails(r) PROVE SecretInv'
<1>1. call'[r] = CallOver /\ (\A o \in Calls \ {r} : call'[o] = call[o]) /\ UNCHANGED <<channel, vault, bereft>>
  BY Zenon DEF Fails, IntegrationsInv, IntegrationsTypeOK
<1>2. CallOver.phase = "done" /\ CallOver.had = None /\ CallOver.sid = None
  BY Zenon DEF CallOver, NoCall
<1>3. CallOnItsRow(r)' /\ ~Storing(r)'
  BY <1>1, <1>2, Zenon DEF CallOnItsRow, Storing
<1> QED
  BY <1>1, <1>2, <1>3, NoneIsNoCall, CallStepKeeps, Zenon DEF IntegrationsInv

LEMMA ReadKeepsSecrets ==
  ASSUME IntegrationsInv, NEW r \in Calls, NEW kind, NEW on, NEW had, Reads(r, kind, on, had),
         \/ kind \in {"put", "clear", "delete"} /\ on \in Channels /\ channel[on].state # "unborn"
         \/ kind \in {"set", "unset"} /\ on \in Providers,
         \A x \in Calls : call[x].phase # "done" => had # x
  PROVE  SecretInv'
<1>1. /\ call[r].phase = "idle" /\ UNCHANGED <<channel, vault, bereft>>
      /\ call' = [call EXCEPT ![r] = [phase |-> "read", kind |-> kind, on |-> on, had |-> had, sid |-> None]]
  BY Zenon DEF Reads, Called
<1>2. /\ \A o \in Calls \ {r} : call'[o] = call[o]
      /\ call'[r].phase = "read" /\ call'[r].kind = kind /\ call'[r].on = on /\ call'[r].had = had /\ call'[r].sid = None
  BY <1>1, Zenon DEF IntegrationsInv, IntegrationsTypeOK
<1>3. CallOnItsRow(r)' /\ ~Storing(r)'
  BY <1>1, <1>2, Zenon DEF CallOnItsRow, Storing
<1> QED
  BY <1>1, <1>2, <1>3, NoneIsNoCall, CallStepKeeps, Zenon DEF IntegrationsInv

LEMMA FlushKeeps ==
  ASSUME IntegrationsInv, NEW r \in Calls, put_secret(r) \/ ClearFlushed(r) PROVE SecretInv'
<1>0. call \in [Calls -> Transactions] /\ SecretInv /\ CallOnItsRow(r)
  BY Zenon DEF IntegrationsInv, IntegrationsTypeOK, SecretInv, Transactions
<1>1. CASE put_secret(r)
  <2>1. /\ call[r].phase = "read" /\ call[r].kind \in {"put", "set"} /\ SecretFree(r) /\ UNCHANGED <<channel, vault, bereft>>
        /\ call' = [call EXCEPT ![r].phase = "flushed", ![r].sid = IF vault[call[r].on] = None THEN r ELSE vault[call[r].on]]
    BY <1>1, Zenon DEF put_secret
  <2>2. /\ \A o \in Calls \ {r} : call'[o] = call[o]
        /\ call'[r].phase = "flushed" /\ call'[r].kind = call[r].kind /\ call'[r].on = call[r].on /\ call'[r].had = call[r].had
        /\ call'[r].sid = IF vault[call[r].on] = None THEN r ELSE vault[call[r].on]
    BY <1>0, <2>1, Zenon DEF Transactions
  <2>3. CallOnItsRow(r)' /\ call[r].on \in Channels \union Providers
    BY <1>0, <2>1, <2>2, ZenonT(60) DEF CallOnItsRow
  <2>4. \A x \in Calls : call[x].phase # "done" => call'[r].had # x /\ (call'[r].sid = x => x = r)
    BY <1>0, <2>2, <2>3 DEF SecretInv, IdUnused
  <2>5. \A o \in Calls \ {r} : ~(Storing(o) /\ call[o].on = call'[r].on)
    BY <2>1, <2>2, Zenon DEF SecretFree, Storing
  <2> QED
    BY <1>0, <2>1, <2>2, <2>3, <2>4, <2>5, CallStepKeeps, SMTT(60)
<1>2. CASE ClearFlushed(r)
  <2>1. call[r].phase = "read" /\ call[r].kind = "clear"
    BY <1>2, Zenon DEF ClearFlushed
  <2>2. CASE Fails(r)
    BY <2>1, <2>2, FailKeeps, Zenon
  <2>3. CASE call' = [call EXCEPT ![r].phase = "flushed"] /\ UNCHANGED <<channel, vault, bereft>>
    <3>1. /\ \A o \in Calls \ {r} : call'[o] = call[o]
          /\ call'[r].phase = "flushed" /\ call'[r].kind = call[r].kind /\ call'[r].on = call[r].on /\ call'[r].had = call[r].had
          /\ call'[r].sid = call[r].sid
      BY <1>0, <2>3, Zenon DEF Transactions
    <3>2. CallOnItsRow(r)' /\ ~Storing(r)'
      BY <1>0, <2>1, <2>3, <3>1, ZenonT(60) DEF CallOnItsRow, Storing
    <3>3. \A x \in Calls : call[x].phase # "done" => call'[r].had # x /\ (call'[r].sid = x => x = r)
      BY <1>0, <3>1 DEF SecretInv, IdUnused
    <3> QED
      BY <1>0, <2>1, <2>3, <3>1, <3>2, <3>3, CallStepKeeps, ZenonT(60)
  <2> QED
    BY <1>2, <2>2, <2>3, Zenon DEF ClearFlushed
<1> QED
  BY <1>1, <1>2, Zenon

LEMMA CreateKeeps == ASSUME IntegrationsInv, NEW r \in Calls, create_integration(r) PROVE SecretInv'
<1>0. /\ call \in [Calls -> Transactions] /\ SecretInv /\ channel \in [Channels -> [state : {"unborn", "there", "gone"}, secret : Ids]]
      /\ vault \in [Channels \union Providers -> Ids] /\ Calls \subseteq Ids /\ None \in Ids
  BY Zenon DEF IntegrationsInv, IntegrationsTypeOK, Transactions, Ids
<1>1. PICK c \in Channels, secret \in {None, r} :
        /\ call[r].phase = "idle" /\ channel[c].state = "unborn" /\ bereft' = bereft
        /\ CommitsWith(r, [channel EXCEPT ![c] = [state |-> "there", secret |-> secret]], [vault EXCEPT ![c] = secret])
  BY Zenon DEF create_integration, Called
<1> DEFINE channels == [channel EXCEPT ![c] = [state |-> "there", secret |-> secret]]
           secrets == [vault EXCEPT ![c] = secret]
<1>2. /\ channels \in [Channels -> [state : {"unborn", "there", "gone"}, secret : Ids]] /\ secrets \in [Channels \union Providers -> Ids]
      /\ channels[c].state = "there" /\ channels[c].secret = secret /\ secrets[c] = secret
      /\ \A d \in Channels \ {c} : channels[d] = channel[d]
      /\ \A d \in (Channels \union Providers) \ {c} : secrets[d] = vault[d]
  BY <1>0, Zenon
<1> HIDE DEF channels, secrets
<1>3. /\ vault' = secrets /\ call' = [call EXCEPT ![r] = CallOver]
      /\ \A d \in Channels : /\ channel'[d].state = channels[d].state
                             /\ channel'[d].secret = IF secrets[d] = None THEN None ELSE channels[d].secret
  <2>1. CommitsWith(r, channels, secrets)
    BY <1>1, Zenon DEF channels, secrets
  <2> QED
    BY <1>2, <2>1, Zenon DEF CommitsWith
<1>4. \A d \in Channels : vault[d] = None => channel[d].secret = None
  BY <1>0, Zenon DEF SecretInv, SecretsFollowUse
<1>5. \A o \in Calls \ {r} : ~(Storing(o) /\ call[o].on = c)
  <2> SUFFICES ASSUME NEW o \in Calls, Storing(o), call[o].on = c PROVE FALSE
    BY Zenon
  <2>1. CallOnItsRow(o) /\ call[o].phase = "flushed"
    BY <1>0, Zenon DEF SecretInv, Storing
  <2>2. c \notin Providers
    BY IntegrationsAssumption, Zenon
  <2> QED
    BY <1>1, <2>1, <2>2, Zenon DEF CallOnItsRow
<1>6. \A o \in (Channels \union Providers) \ {c} : vault'[o] = vault[o]
  BY <1>2, <1>3, Zenon
<1>7. \A d \in Channels \ {c} : channel'[d].state = channel[d].state /\ channel'[d].secret = channel[d].secret
  BY <1>2, <1>3, <1>4, Zenon
<1>8. channel'[c].state = "there" /\ channel'[c].secret = secret /\ vault'[c] = secret /\ c \in Channels \union Providers
  BY <1>2, <1>3, Zenon
<1>9. CommitEffect(r, c)
  BY <1>1, <1>3, <1>5, <1>6, <1>7, <1>8, ZenonT(60) DEF CommitEffect
<1> QED
  BY <1>0, <1>9, CommitKeepsSecrets, Zenon

\* The rows after a commit, where it writes under one name only.
LEMMA CommitRows ==
  ASSUME IntegrationsInv, NEW r \in Calls, NEW c \in Channels \union Providers,
         NEW channels \in ChannelRows,
         NEW secrets \in SecretRows, CommitsWith(r, channels, secrets),
         \A d \in Channels \ {c} : channels[d] = channel[d], \A o \in (Channels \union Providers) \ {c} : secrets[o] = vault[o]
  PROVE  /\ call' = [call EXCEPT ![r] = CallOver] /\ vault'[c] = secrets[c]
         /\ \A o \in (Channels \union Providers) \ {c} : vault'[o] = vault[o]
         /\ \A d \in Channels \ {c} : channel'[d].state = channel[d].state /\ channel'[d].secret = channel[d].secret
         /\ c \in Channels => /\ channel'[c].state = channels[c].state
                              /\ channel'[c].secret = IF secrets[c] = None THEN None ELSE channels[c].secret
<1>1. /\ vault' = secrets /\ call' = [call EXCEPT ![r] = CallOver]
      /\ \A d \in Channels : /\ channel'[d].state = channels[d].state
                             /\ channel'[d].secret = IF secrets[d] = None THEN None ELSE channels[d].secret
  BY Zenon DEF CommitsWith, ChannelRows, SecretRows
<1>2. \A d \in Channels : vault[d] = None => channel[d].secret = None
  BY Zenon DEF IntegrationsInv, SecretInv, SecretsFollowUse
<1> QED
  BY <1>1, <1>2, Zenon

\* What the invariant says of a call that is at work.
LEMMA CallAtWork ==
  ASSUME IntegrationsInv, NEW r \in Calls, call[r].phase \in {"read", "flushed"}
  PROVE  /\ call \in [Calls -> Transactions] /\ SecretInv /\ channel \in ChannelRows
         /\ vault \in SecretRows /\ call[r].sid \in Ids /\ None \in Ids /\ call[r].had # r
         /\ call[r].on \in Channels \union Providers
         /\ call[r].kind \in {"put", "clear", "delete"} => call[r].on \in Channels /\ channel[call[r].on].state # "unborn"
         /\ call[r].kind \in {"set", "unset"} => call[r].on \in Providers \ Channels
         /\ Storing(r) => call[r].sid = (IF vault[call[r].on] = None THEN r ELSE vault[call[r].on]) /\ call[r].sid # None
         /\ Storing(r) \/ SecretFree(r) => \A o \in Calls \ {r} : ~(Storing(o) /\ call[o].on = call[r].on)
<1>1. call \in [Calls -> Transactions] /\ channel \in ChannelRows
      /\ vault \in SecretRows /\ None \in Ids /\ SecretInv
  BY Zenon DEF IntegrationsInv, IntegrationsTypeOK, Ids, Transactions, ChannelRows, SecretRows
<1>2. call[r].sid \in Ids
  BY <1>1, Zenon DEF Transactions
<1>3. CallOnItsRow(r) /\ call[r].had # r
  BY <1>1, Zenon DEF SecretInv, IdUnused
<1>4. /\ call[r].on \in Channels \union Providers
      /\ call[r].kind \in {"put", "clear", "delete"} => call[r].on \in Channels /\ channel[call[r].on].state # "unborn"
      /\ call[r].kind \in {"set", "unset"} => call[r].on \in Providers
  BY <1>3, Zenon DEF CallOnItsRow
<1>5. Storing(r) => call[r].sid = (IF vault[call[r].on] = None THEN r ELSE vault[call[r].on]) /\ call[r].sid # None
  BY <1>1, NoneIsNoCall, Zenon DEF SecretInv
<1>6. Storing(r) \/ SecretFree(r) => \A o \in Calls \ {r} : ~(Storing(o) /\ call[o].on = call[r].on)
  BY <1>1, Zenon DEF SecretInv, SecretFree, Storing
<1> QED
  BY <1>1, <1>2, <1>3, <1>4, <1>5, <1>6, IntegrationsAssumption, ZenonT(60)

LEMMA PutKeeps == ASSUME IntegrationsInv, NEW r \in Calls, PutCommits(r) PROVE SecretInv'
<1> DEFINE c == call[r].on
           secrets == [vault EXCEPT ![c] = call[r].sid]
           channels == [channel EXCEPT ![c].secret = call[r].sid]
<1>1. Storing(r) /\ call[r].phase = "flushed" /\ call[r].kind = "put"
  BY Zenon DEF PutCommits, Storing
<1>2. /\ call \in [Calls -> Transactions] /\ SecretInv /\ channel \in ChannelRows
      /\ vault \in SecretRows /\ call[r].sid \in Ids /\ call[r].had # r
      /\ c \in Channels /\ channel[c].state # "unborn"
      /\ call[r].sid = (IF vault[c] = None THEN r ELSE vault[c]) /\ call[r].sid # None
      /\ \A o \in Calls \ {r} : ~(Storing(o) /\ call[o].on = c)
  BY <1>1, CallAtWork, Zenon
<1>3. /\ secrets \in SecretRows /\ secrets[c] = call[r].sid
      /\ \A o \in (Channels \union Providers) \ {c} : secrets[o] = vault[o]
      /\ channels \in ChannelRows
      /\ channels[c].state = channel[c].state /\ channels[c].secret = call[r].sid
      /\ \A d \in Channels \ {c} : channels[d] = channel[d]
  BY <1>2, Zenon DEF ChannelRows, SecretRows
<1>4. CASE call[r].sid = call[r].had /\ CommitsWith(r, channel, secrets) /\ bereft' = bereft
  <2> HIDE DEF secrets, channels, c
  <2>1. vault[c] = call[r].sid
    BY <1>2, <1>4, ZenonT(60)
  <2>2. /\ call' = [call EXCEPT ![r] = CallOver] /\ vault'[c] = call[r].sid
        /\ \A o \in (Channels \union Providers) \ {c} : vault'[o] = vault[o]
        /\ \A d \in Channels \ {c} : channel'[d].state = channel[d].state /\ channel'[d].secret = channel[d].secret
        /\ channel'[c].state = channel[c].state /\ channel'[c].secret = channel[c].secret
    BY <1>2, <1>3, <1>4, CommitRows
  <2>3. /\ channel[c].secret # None => channel[c].state = "there" /\ vault[c] = channel[c].secret
        /\ vault[c] # None /\ c \notin bereft => channel[c].secret = vault[c]
    BY <1>2, Zenon DEF SecretInv, SecretsFollowUse
  <2>4. CommitEffect(r, c)
    BY <1>1, <1>2, <1>4, <2>1, <2>2, <2>3, ZenonT(60) DEF CommitEffect
  <2> QED
    BY <1>2, <2>4, CommitKeepsSecrets, Zenon
<1>5. CASE channel[c].state = "there" /\ CommitsWith(r, channels, secrets) /\ bereft' = bereft
  <2> HIDE DEF secrets, channels, c
  <2>2. /\ call' = [call EXCEPT ![r] = CallOver] /\ vault'[c] = call[r].sid
        /\ \A o \in (Channels \union Providers) \ {c} : vault'[o] = vault[o]
        /\ \A d \in Channels \ {c} : channel'[d].state = channel[d].state /\ channel'[d].secret = channel[d].secret
        /\ channel'[c].state = channel[c].state /\ channel'[c].secret = call[r].sid
    BY <1>2, <1>3, <1>5, CommitRows
  <2>4. CommitEffect(r, c)
    BY <1>1, <1>2, <1>5, <2>2, Zenon DEF CommitEffect
  <2> QED
    BY <1>2, <2>4, CommitKeepsSecrets, Zenon
<1>6. CASE Fails(r)
  BY <1>1, <1>6, FailKeeps, Zenon
<1> QED
  BY <1>4, <1>5, <1>6, Zenon DEF PutCommits

LEMMA ClearKeeps == ASSUME IntegrationsInv, NEW r \in Calls, ClearCommits(r) PROVE SecretInv'
<1> DEFINE c == call[r].on
           secrets == [vault EXCEPT ![c] = None]
           channels == [channel EXCEPT ![c].secret = None]
<1>1. /\ call[r].phase = "flushed" /\ call[r].kind = "clear" /\ SecretFree(r) /\ bereft' = bereft
      /\ CommitsWith(r, channels, secrets)
  BY Zenon DEF ClearCommits
<1>2. /\ call \in [Calls -> Transactions] /\ SecretInv /\ channel \in ChannelRows /\ vault \in SecretRows /\ None \in Ids
      /\ c \in Channels /\ channel[c].state # "unborn" /\ \A o \in Calls \ {r} : ~(Storing(o) /\ call[o].on = c)
  BY <1>1, CallAtWork, Zenon
<1>3. /\ secrets \in SecretRows /\ secrets[c] = None /\ \A o \in (Channels \union Providers) \ {c} : secrets[o] = vault[o]
      /\ channels \in ChannelRows /\ channels[c].state = channel[c].state
      /\ \A d \in Channels \ {c} : channels[d] = channel[d]
  BY <1>2, ZenonT(60) DEF ChannelRows, SecretRows
<1> HIDE DEF secrets, channels, c
<1>4. /\ call' = [call EXCEPT ![r] = CallOver] /\ vault'[c] = None
      /\ \A o \in (Channels \union Providers) \ {c} : vault'[o] = vault[o]
      /\ \A d \in Channels \ {c} : channel'[d].state = channel[d].state /\ channel'[d].secret = channel[d].secret
      /\ channel'[c].state = channel[c].state /\ channel'[c].secret = None
  BY <1>1, <1>2, <1>3, CommitRows
<1>5. CommitEffect(r, c)
  BY <1>1, <1>2, <1>4, Zenon DEF CommitEffect
<1> QED
  BY <1>2, <1>5, CommitKeepsSecrets, Zenon

LEMMA DeleteKeeps == ASSUME IntegrationsInv, NEW r \in Calls, DeleteCommits(r) PROVE SecretInv'
<1> DEFINE c == call[r].on
           secrets == IF call[r].had = None THEN vault ELSE [vault EXCEPT ![c] = None]
           channels == [channel EXCEPT ![c] = [state |-> "gone", secret |-> None]]
<1>1. call[r].phase = "read" /\ call[r].kind = "delete" /\ (call[r].had # None => SecretFree(r))
  BY Zenon DEF DeleteCommits
<1>2. CASE Fails(r)
  BY <1>1, <1>2, FailKeeps, Zenon
<1>3. CASE CommitsWith(r, channels, secrets) /\ bereft' = bereft \union {x \in {c} : call[r].had = None /\ vault[c] # None}
  <2>1. /\ call \in [Calls -> Transactions] /\ SecretInv /\ channel \in ChannelRows /\ vault \in SecretRows /\ None \in Ids
        /\ c \in Channels /\ (call[r].had # None => \A o \in Calls \ {r} : ~(Storing(o) /\ call[o].on = c))
    BY <1>1, CallAtWork, Zenon
  <2>2. /\ secrets \in SecretRows /\ secrets[c] = (IF call[r].had = None THEN vault[c] ELSE None)
        /\ \A o \in (Channels \union Providers) \ {c} : secrets[o] = vault[o]
        /\ channels \in ChannelRows /\ channels[c].state = "gone" /\ channels[c].secret = None
        /\ \A d \in Channels \ {c} : channels[d] = channel[d]
    BY <2>1, ZenonT(60) DEF ChannelRows, SecretRows
  <2> HIDE DEF secrets, channels, c
  <2>3. /\ call' = [call EXCEPT ![r] = CallOver] /\ vault'[c] = (IF call[r].had = None THEN vault[c] ELSE None)
        /\ \A o \in (Channels \union Providers) \ {c} : vault'[o] = vault[o]
        /\ \A d \in Channels \ {c} : channel'[d].state = channel[d].state /\ channel'[d].secret = channel[d].secret
        /\ channel'[c].state = "gone" /\ channel'[c].secret = None
    BY <1>3, <2>1, <2>2, CommitRows
  <2>4. bereft \subseteq bereft' /\ (call[r].had = None /\ vault[c] # None => c \in bereft')
    BY <1>3, Zenon
  <2>5. CommitEffect(r, c)
    BY <1>1, <2>1, <2>3, <2>4, ZenonT(60) DEF CommitEffect
  <2> QED
    BY <2>1, <2>5, CommitKeepsSecrets, Zenon
<1> QED
  BY <1>2, <1>3, Zenon DEF DeleteCommits

LEMMA CredentialKeeps == ASSUME IntegrationsInv, NEW r \in Calls, CredentialCommits(r) PROVE SecretInv'
<1> DEFINE p == call[r].on
<1>1. bereft' = bereft /\ call[r].phase \in {"read", "flushed"} /\ call[r].kind \in {"set", "unset"}
  BY Zenon DEF CredentialCommits
<1>2. /\ call \in [Calls -> Transactions] /\ SecretInv /\ channel \in ChannelRows /\ vault \in SecretRows /\ None \in Ids /\ call[r].sid \in Ids
      /\ p \in Providers \ Channels
      /\ Storing(r) => call[r].sid = (IF vault[p] = None THEN r ELSE vault[p])
      /\ Storing(r) \/ SecretFree(r) => \A o \in Calls \ {r} : ~(Storing(o) /\ call[o].on = p)
  BY <1>1, CallAtWork, Zenon
<1>3. ASSUME NEW secrets \in SecretRows, \A o \in (Channels \union Providers) \ {p} : secrets[o] = vault[o],
             CommitsWith(r, channel, secrets), secrets[p] \in {None, r, vault[p]}, Storing(r) \/ SecretFree(r)
      PROVE  SecretInv'
  <2> HIDE DEF p
  <2>1. /\ call' = [call EXCEPT ![r] = CallOver] /\ vault'[p] = secrets[p]
        /\ \A o \in (Channels \union Providers) \ {p} : vault'[o] = vault[o]
        /\ \A d \in Channels \ {p} : channel'[d].state = channel[d].state /\ channel'[d].secret = channel[d].secret
    BY <1>2, <1>3, CommitRows
  <2>2. CommitEffect(r, p)
    BY <1>1, <1>2, <1>3, <2>1, Zenon DEF CommitEffect
  <2> QED
    BY <1>2, <2>2, CommitKeepsSecrets, ZenonT(60)
<1>4. CASE Storing(r) /\ CommitsWith(r, channel, [vault EXCEPT ![p] = call[r].sid])
  <2>1. /\ [vault EXCEPT ![p] = call[r].sid] \in SecretRows /\ [vault EXCEPT ![p] = call[r].sid][p] \in {None, r, vault[p]}
        /\ \A o \in (Channels \union Providers) \ {p} : [vault EXCEPT ![p] = call[r].sid][o] = vault[o]
    BY <1>2, <1>4, Zenon DEF SecretRows
  <2> QED
    BY <1>3, <1>4, <2>1, Zenon
<1>5. CASE SecretFree(r) /\ CommitsWith(r, channel, [vault EXCEPT ![p] = IF @ = call[r].had THEN None ELSE @])
  <2> DEFINE secrets == [vault EXCEPT ![p] = IF @ = call[r].had THEN None ELSE @]
  <2>1. /\ secrets \in SecretRows /\ secrets[p] \in {None, r, vault[p]}
        /\ \A o \in (Channels \union Providers) \ {p} : secrets[o] = vault[o]
    BY <1>2, Zenon DEF SecretRows
  <2> QED
    BY <1>3, <1>5, <2>1, Zenon
<1> QED
  BY <1>4, <1>5, Zenon DEF CredentialCommits, Storing

-----------------------------------------------------------------------------
LEMMA SecretInit == IntegrationsInit => SecretInv
<1> SUFFICES ASSUME IntegrationsInit PROVE SecretInv
  BY Zenon
<1>1. /\ \A c \in Channels : channel[c].secret = None
      /\ \A o \in Channels \union Providers : vault[o] = None
      /\ \A r \in Calls : call[r].phase = "idle" /\ call[r].had = None /\ call[r].sid = None
  BY Zenon DEF IntegrationsInit, NoCall
<1> QED
  BY <1>1, NoneIsNoCall, Zenon DEF SecretInv, SecretsFollowUse, CallOnItsRow, IdUnused, Storing

LEMMA SecretStep == IntegrationsInv /\ [IntegrationsNext]_integrations => IntegrationsInv'
<1> SUFFICES ASSUME IntegrationsInv, [IntegrationsNext]_integrations PROVE IntegrationsInv'
  BY Zenon
<1>0. IntegrationsTypeOK'
  BY TypeStep, Zenon DEF IntegrationsInv, SecretInv
<1>u. \A x \in Calls : call[x].phase # "done" => (\A c \in Channels : channel[c].secret # x) /\ (\A p \in Channels \union Providers : vault[p] # x)
  BY Zenon DEF IntegrationsInv, SecretInv, IdUnused
<1>1. ASSUME NEW r \in Calls, update_integration(r) PROVE SecretInv'
  BY <1>1, <1>u, ReadKeepsSecrets, ZenonT(60) DEF update_integration
<1>2. ASSUME NEW r \in Calls, delete_integration(r) PROVE SecretInv'
  BY <1>2, <1>u, ReadKeepsSecrets, Zenon DEF delete_integration
<1>3. ASSUME NEW r \in Calls, set_credential(r) PROVE SecretInv'
  BY <1>3, NoneIsNoCall, ReadKeepsSecrets, Zenon DEF set_credential
<1>4. ASSUME NEW r \in Calls, delete_credential(r) PROVE SecretInv'
  BY <1>4, <1>u, ReadKeepsSecrets, Zenon DEF delete_credential
<1>5. ASSUME NEW r \in Calls, CallFails(r) PROVE SecretInv'
  BY <1>5, FailKeeps, ZenonT(60) DEF CallFails
<1>6. ASSUME UNCHANGED integrations PROVE SecretInv'
  BY <1>6 DEF integrations, IntegrationsInv, SecretInv, SecretsFollowUse, CallOnItsRow, IdUnused, Storing
<1>7. SecretInv'
  BY ZenonT(60), <1>1, <1>2, <1>3, <1>4, <1>5, <1>6, CreateKeeps, FlushKeeps, PutKeeps, ClearKeeps, DeleteKeeps, CredentialKeeps
     DEF IntegrationsNext
<1> QED
  BY <1>0, <1>7, Zenon DEF IntegrationsInv

(* The secrets of integrations follow their use: for any number of         *)
(* integrations, scanner keys and concurrent calls of                      *)
(* api/v1/integrations.py.                                                 *)
THEOREM SecretsFollow == IntegrationsSpec => []SecretsFollowUse
<1>1. IntegrationsInit => IntegrationsInv
  BY TypeInit, SecretInit, Zenon DEF IntegrationsInv
<1>2. IntegrationsInv => SecretsFollowUse
  BY Zenon DEF IntegrationsInv, SecretInv
<1> QED
  BY <1>1, <1>2, SecretStep, PTL DEF IntegrationsSpec
==============================================================================
