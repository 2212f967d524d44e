---------------------------- MODULE Notifications ----------------------------
(***************************************************************************)
(* The notification engine (integrations/notifications.py).  A run of the  *)
(* task dispatch_notifications takes a batch of events nobody has been     *)
(* told of, locks their rows, and tenant by tenant sends them to the       *)
(* integrations and members that want them and commits what it did.  Then  *)
(* it retries the deliveries that failed.  Runs overlap: the task is       *)
(* started every minute, after every scan and by maintenance.              *)
(*                                                                         *)
(* A message leaves at once; rows change when the transaction commits.     *)
(* What a policy or a member wants of an event (kind, severity,            *)
(* organization, baseline) is given by Wants.                              *)
(***************************************************************************)
EXTENDS Naturals, Sequences, FiniteSets

CONSTANTS
    Runs,          \* overlapping executions of the task
    NoRun,         \* no run
    NumEvents,     \* events are numbered in the order they occur
    Backlog,       \* events that wait when the engine starts
    Setups,        \* who owns the events and who wants them: records of the three below
    Integrations,  \* channels of the tenants
    Users,         \* members who want alerts in their inbox
    Throttling,    \* integrations whose policy has throttle_minutes
    Limit,         \* events in one batch (1000)
    RetryLimit,    \* failed rows read by one retry (200)
    MaxAttempts,   \* MAX_ATTEMPTS
    MaxUpsets      \* crashes, lost replies and disabled receivers in one behaviour

Events == 1 .. NumEvents
Receivers == Integrations \union Users

ASSUME NotificationsAssumption ==
    /\ MaxUpsets \in Nat /\ NumEvents \in Nat /\ Backlog \in 0 .. NumEvents /\ {Limit, RetryLimit, MaxAttempts} \subseteq Nat \ {0}
    /\ NoRun \notin Runs /\ Integrations \intersect Users = {}
    /\ \A s \in Setups : /\ DOMAIN s.tenantOf = Events
                         /\ s.wants \subseteq Events \X Receivers /\ s.alike \subseteq Events \X Events
    /\ Throttling \subseteq Integrations

VARIABLES
    setup,      \* one of Setups, never changed
    occurred,   \* number of events so far
    notified,   \* events marked notified
    lock,       \* event -> run that holds its row lock
    rows,       \* wanted pair -> its rows of notification_deliveries
    enabled,    \* integrations that are enabled, members that are active
    pc,         \* run -> step
    batch,      \* run -> events taken and not yet processed
    todo,       \* run -> receivers to send to, or rows to retry
    made,       \* run -> what its transaction is going to write
    tries,      \* history: wanted pair -> attempts to send it, while they are bounded
    received,   \* history: wanted pair -> copies received, until a mishap
    paused,     \* history: receivers that were ever disabled
    upsets,
    mishaps     \* history: which of Mishaps have happened

history == <<tries, received, paused, upsets, mishaps>>
vars == <<setup, occurred, notified, lock, rows, enabled, pc, batch, todo, made, history>>

TenantOf == setup.tenantOf  \* event -> tenant
Wants == setup.wants        \* pairs of an event and a receiver its policy or preference selects
Alike == setup.alike        \* pairs of events of the same kind on the same asset

\* What makes a message leave twice: a run that stops before its commit; a
\* receiver that got the message although the call failed; a commit that releases the locks
\* of the other tenants' events; two runs retrying the same row.
Mishaps == {"crash", "lost_reply", "unlocked", "overlap"}

Row == [status : {"sent", "failed", "skipped"}, attempts : 1 .. MaxAttempts]

TypeOK ==
    /\ setup \in Setups
    /\ occurred \in 0 .. NumEvents /\ notified \subseteq 1 .. occurred
    /\ lock \in [Events -> Runs \union {NoRun}]
    /\ rows \in [Wants -> Seq(Row)]
    /\ enabled \subseteq Receivers /\ paused \subseteq Receivers
    /\ pc \in [Runs -> {"idle", "tenant", "send", "read", "retry"}]
    /\ batch \in [Runs -> SUBSET Events]
    /\ tries \in [Wants -> Nat] /\ received \in [Wants -> Nat]
    /\ upsets \in 0 .. MaxUpsets /\ mishaps \subseteq Mishaps

Init ==
    /\ setup \in Setups
    /\ occurred = Backlog /\ notified = {} /\ lock = [e \in Events |-> NoRun]
    /\ rows = [p \in Wants |-> <<>>] /\ enabled = Receivers
    /\ pc = [d \in Runs |-> "idle"] /\ batch = [d \in Runs |-> {}]
    /\ todo = [d \in Runs |-> {}] /\ made = [d \in Runs |-> {}]
    /\ tries = [p \in Wants |-> 0] /\ received = [p \in Wants |-> 0]
    /\ paused = {} /\ upsets = 0 /\ mishaps = {}

Upset == upsets < MaxUpsets /\ upsets' = upsets + 1

Step(d, step) == pc' = [pc EXCEPT ![d] = step]

Unlock(d) == [e \in Events |-> IF lock[e] = d THEN NoRun ELSE lock[e]]

-----------------------------------------------------------------------------
(* dispatch_pending.                                                       *)

\* Ingestion and maintenance write events.
Occur ==
    /\ occurred < NumEvents
    /\ occurred' = occurred + 1
    /\ UNCHANGED <<notified, lock, rows, enabled, pc, batch, todo, made, history>>

\* Variant: rows another run has locked are not skipped.
AnyUnnotified == (1 .. occurred) \ notified

\* Events a run may take: not notified, not locked (skip_locked).
Takeable == {e \in 1 .. occurred : e \notin notified /\ lock[e] = NoRun}

\* The first Limit of them in the order they occurred.
Batch == {e \in Takeable : Cardinality({f \in Takeable : f < e}) < Limit}

\* Variant: the events are marked when they are taken.
TakeMarked(d) ==
    /\ pc[d] = "idle" /\ Batch # {}
    /\ batch' = [batch EXCEPT ![d] = Batch] /\ Step(d, "tenant")
    /\ notified' = notified \union Batch
    /\ UNCHANGED <<occurred, lock, rows, enabled, todo, made, history>>

Take(d) ==
    /\ pc[d] = "idle"
    /\ batch' = [batch EXCEPT ![d] = Batch]
    /\ lock' = [e \in Events |-> IF e \in Batch THEN d ELSE lock[e]]
    /\ Step(d, IF Batch = {} THEN "read" ELSE "tenant")
    /\ UNCHANGED <<occurred, notified, rows, enabled, todo, made, history>>

Earliest(B) == CHOOSE e \in B : \A f \in B : e <= f

\* The events of the tenant the run is working on.
Current(d) == {e \in batch[d] : TenantOf[e] = TenantOf[Earliest(batch[d])]}

SentTo(p) == \E i \in 1 .. Len(rows[p]) : rows[p][i].status = "sent"

\* A message about the like has been sent and committed within the throttle time.
Throttled(p) ==
    p[2] \in Throttling /\ \E e \in Events : <<e, p[1]>> \in Alike /\ <<e, p[2]>> \in Wants /\ SentTo(<<e, p[2]>>)

Outbox(d) == {p \in Wants : p[1] \in Current(d) /\ p[2] \in enabled /\ ~Throttled(p)}

\* The outbox is put together; made holds its deliveries, without an outcome.
OpenTenant(d) ==
    /\ pc[d] = "tenant"
    /\ todo' = [todo EXCEPT ![d] = {p[2] : p \in Outbox(d)}]
    /\ made' = [made EXCEPT ![d] = {[row |-> <<p, 0>>, status |-> "pending", attempts |-> 1] : p \in Outbox(d)}]
    /\ Step(d, "send")
    /\ UNCHANGED <<occurred, notified, lock, rows, enabled, batch, history>>

NoTally == [p \in Wants |-> 0]
Tally(f, P) == [p \in Wants |-> IF p \in P THEN f[p] + 1 ELSE f[p]]

\* What a send does: it succeeds, it fails, or it fails although the receiver got it.
Attempt(P, status) ==
    /\ tries' = IF mishaps \subseteq {"lost_reply"} THEN Tally(tries, P) ELSE tries
    /\ \/ /\ received' = IF mishaps = {} /\ status = "sent" THEN Tally(received, P) ELSE received
          /\ UNCHANGED <<upsets, mishaps>>
       \/ /\ status = "failed" /\ Upset
          /\ received' = NoTally
          /\ mishaps' = mishaps \union {"lost_reply"}
    /\ UNCHANGED paused

\* One of the Mishaps that make a repetition possible happens, or none.
Mishap(m) ==
    /\ mishaps' = mishaps \union m
    /\ tries' = IF m = {} THEN tries ELSE NoTally
    /\ received' = IF m = {} THEN received ELSE NoTally

Settle(d, P, status) == {IF x.row[1] \in P THEN [x EXCEPT !.status = status] ELSE x : x \in made[d]}

\* One batched message to a receiver, integrations before members.
Send(d, r) ==
    /\ pc[d] = "send" /\ r \in todo[d]
    /\ r \in Users => todo[d] \intersect Integrations = {}
    /\ LET P == {x.row[1] : x \in {y \in made[d] : y.row[1][2] = r}}
       IN \E status \in {"sent", "failed"} :
            Attempt(P, status) /\ made' = [made EXCEPT ![d] = Settle(d, P, status)]
    /\ todo' = [todo EXCEPT ![d] = @ \ {r}]
    /\ UNCHANGED <<occurred, notified, lock, rows, enabled, pc, batch>>

\* There is no mail server: this member's rows are skipped, the other members get none.
MailNotConfigured(d, r) ==
    /\ pc[d] = "send" /\ r \in todo[d] \intersect Users
    /\ todo[d] \intersect Integrations = {}
    /\ made' = [made EXCEPT ![d] = {IF x.row[1][2] = r THEN [x EXCEPT !.status = "skipped"] ELSE x :
                                      x \in {y \in @ : y.row[1][2] \notin todo[d] \ {r}}}]
    /\ todo' = [todo EXCEPT ![d] = {}]
    /\ UNCHANGED <<occurred, notified, lock, rows, enabled, pc, batch, history>>

NewRows(d, p) == {x \in made[d] : x.row = <<p, 0>>}

\* The tenant's events are marked and its deliveries stored in one commit, which
\* ends every row lock of the run.  The update waits for a run that has locked one
\* of the events in the meantime.
Commit(d) ==
    /\ pc[d] = "send" /\ todo[d] = {}
    /\ \A e \in Current(d) : lock[e] \in {d, NoRun}
    /\ notified' = notified \union Current(d)
    /\ rows' = [p \in Wants |-> IF NewRows(d, p) = {} THEN rows[p]
                                ELSE Append(rows[p], [status |-> (CHOOSE x \in NewRows(d, p) : TRUE).status,
                                                      attempts |-> 1])]
    /\ lock' = Unlock(d)
    /\ batch' = [batch EXCEPT ![d] = @ \ Current(d)]
    /\ made' = [made EXCEPT ![d] = {}]
    /\ Step(d, IF batch[d] = Current(d) THEN "read" ELSE "tenant")
    /\ Mishap(IF batch[d] = Current(d) THEN {} ELSE {"unlocked"})
    /\ UNCHANGED <<occurred, enabled, todo, paused, upsets>>

-----------------------------------------------------------------------------
(* retry_failed.                                                           *)

Retryable(row) == row.status = "failed" /\ row.attempts < MaxAttempts

\* The failed rows one retry may read, in no order.
Failed ==
    LET all == {x \in UNION {{p} \X DOMAIN rows[p] : p \in Wants} : Retryable(rows[x[1]][x[2]])}
    IN {R \in SUBSET all : Cardinality(R) <= RetryLimit}

\* Rows are read without a lock; those of R are past their back-off of 2 ^ attempts
\* minutes.
ReadFailed(d, R) ==
    /\ pc[d] = "read"
    /\ todo' = [todo EXCEPT ![d] = {[row |-> x, attempts |-> rows[x[1]][x[2]].attempts] : x \in R}]
    /\ Step(d, IF R = {} THEN "idle" ELSE "retry")
    /\ Mishap(IF R # {} /\ \E o \in Runs \ {d} : pc[o] = "retry" THEN {"overlap"} ELSE {})
    /\ UNCHANGED <<occurred, notified, lock, rows, enabled, batch, made, paused, upsets>>

\* Variant: the attempt is not counted.
Uncounted(x, status) == [row |-> x.row, status |-> status, attempts |-> x.attempts]

\* What a retry is going to write.
Counted(x, status) == [row |-> x.row, status |-> status, attempts |-> x.attempts + 1]

\* One row: skipped when its receiver is gone, otherwise sent again.
RetryRow(d, x) ==
    /\ pc[d] = "retry" /\ x \in todo[d]
    /\ \/ /\ x.row[1][2] \notin enabled
          /\ made' = [made EXCEPT ![d] = @ \union {[row |-> x.row, status |-> "skipped", attempts |-> x.attempts]}]
          /\ UNCHANGED history
       \/ /\ x.row[1][2] \in enabled
          /\ \E status \in {"sent", "failed"} :
               Attempt({x.row[1]}, status) /\ made' = [made EXCEPT ![d] = @ \union {Counted(x, status)}]
       \/ /\ x.row[1][2] \in enabled \intersect Users
          /\ made' = [made EXCEPT ![d] = @ \union {Counted(x, "skipped")}]
          /\ UNCHANGED history
    /\ todo' = [todo EXCEPT ![d] = @ \ {x}]
    /\ UNCHANGED <<occurred, notified, lock, rows, enabled, pc, batch>>

\* The row after the update: a failed retry leaves the status another run has set.
Written(old, x) ==
    [status |-> IF x.status = "failed" THEN old.status ELSE x.status, attempts |-> x.attempts]

CommitRetry(d) ==
    /\ pc[d] = "retry" /\ todo[d] = {}
    /\ rows' = [p \in Wants |-> [i \in 1 .. Len(rows[p]) |->
                  IF \E x \in made[d] : x.row = <<p, i>>
                  THEN Written(rows[p][i], CHOOSE x \in made[d] : x.row = <<p, i>>) ELSE rows[p][i]]]
    /\ made' = [made EXCEPT ![d] = {}]
    /\ Step(d, "idle")
    /\ UNCHANGED <<occurred, notified, lock, enabled, batch, todo, history>>

-----------------------------------------------------------------------------
(* The environment.                                                        *)

\* The worker dies, or a channel raises what the engine does not catch: rollback.
Crash(d) ==
    /\ pc[d] \notin {"idle", "read"} /\ Upset
    /\ Mishap({"crash"}) /\ Step(d, "idle")
    /\ lock' = Unlock(d)
    /\ batch' = [batch EXCEPT ![d] = {}] /\ todo' = [todo EXCEPT ![d] = {}]
    /\ made' = [made EXCEPT ![d] = {}]
    /\ UNCHANGED <<occurred, notified, rows, enabled, paused>>

\* An administrator disables an integration or a member, or enables it again.
Disable(r) ==
    /\ r \in enabled /\ Upset
    /\ enabled' = enabled \ {r} /\ paused' = paused \union {r}
    /\ UNCHANGED <<occurred, notified, lock, rows, pc, batch, todo, made, tries, received, mishaps>>

Enable(r) ==
    /\ r \in Receivers \ enabled
    /\ enabled' = enabled \union {r}
    /\ UNCHANGED <<occurred, notified, lock, rows, pc, batch, todo, made, history>>

Run(d) ==
    \/ Take(d) \/ OpenTenant(d) \/ Commit(d) \/ CommitRetry(d)
    \/ \E R \in Failed : ReadFailed(d, R)
    \/ \E r \in Receivers : Send(d, r) \/ MailNotConfigured(d, r)
    \/ \E x \in todo[d] : RetryRow(d, x)

Next ==
    /\ UNCHANGED setup
    /\ \/ Occur
       \/ \E d \in Runs : Run(d) \/ Crash(d)
       \/ \E r \in Receivers : Disable(r) \/ Enable(r)

Spec == Init /\ [][Next]_vars

\* Beat starts the task every minute, a run goes on until it ends, and a back-off is
\* half an hour at most: time and again a failed row that is read is past it.
Fairness ==
    \A d \in Runs :
        /\ WF_vars(Run(d) /\ UNCHANGED setup)
        /\ SF_vars((\E R \in Failed \ {{}} : ReadFailed(d, R)) /\ UNCHANGED setup)

FairSpec == Spec /\ Fairness

-----------------------------------------------------------------------------
(* What is checked.                                                        *)

\* A member's alert was skipped for want of a mail server.
NoMailFor(q) == q[2] \in Users /\ \E i \in DOMAIN rows[q] : rows[q][i].status = "skipped"

\* No wanted event is dropped (dispatch_pending marks an event in the commit that
\* stores its deliveries): once an event is marked notified, every receiver that wants it
\* has a delivery row, sent or still to be retried, unless the receiver was disabled,
\* the message was throttled by one about the like, or there is no mail server, which
\* another alert of the tenant says.
NothingLost ==
    \A p \in Wants : p[1] \in notified /\ p[2] \notin paused =>
        \/ rows[p] # <<>>
        \/ Throttled(p)
        \/ p[2] \in Users /\ \E q \in Wants : NoMailFor(q) /\ TenantOf[q[1]] = TenantOf[p[1]]

(* What NothingLost rests on.  While a run sends, its transaction holds a   *)
(* delivery for everything wanted of the events it is about to mark, or the *)
(* reason why there is none; what a retry is going to write concerns rows   *)
(* that exist, and skips those of disabled integrations only.  A row stored *)
(* as skipped is never read again, so it stays so.                          *)
Entries == [row : Wants \X Nat, status : {"pending", "sent", "failed", "skipped"}, attempts : Nat]
Readings == [row : Wants \X Nat, attempts : Nat]

RunTypes ==
    /\ setup \in Setups /\ occurred \in 0 .. NumEvents
    /\ rows \in [Wants -> Seq([status : {"pending", "sent", "failed", "skipped"}, attempts : Nat])]
    /\ pc \in [Runs -> {"idle", "tenant", "send", "read", "retry"}] /\ batch \in [Runs -> SUBSET Events]
    /\ todo \in [Runs -> SUBSET (Receivers \union Readings)] /\ made \in [Runs -> SUBSET Entries]

\* The row exists, and run d has read it when it could be retried.
Refers(d, q, i) == pc[d] = "retry" /\ ((\E x \in todo[d] : x.row = <<q, i>>) \/ \E x \in made[d] : x.row = <<q, i>>)

NoMailRow(q, i) == rows[q][i].status = "skipped" /\ \A d \in Runs : ~Refers(d, q, i)

\* One new row at most for a wanted pair, about an event that is about to be marked.
OwnRows(d) == \A x \in made[d] : x.row[2] = 0 /\ x.row[1][1] \in Current(d) /\ \A y \in made[d] : x.row = y.row => x = y

\* Who is still to be sent to has a row; members are skipped when all others were sent to.
Reached(d) ==
    /\ \A x \in made[d] : x.status = "skipped" => todo[d] = {}
    /\ \A r \in todo[d] : \E x \in made[d] : x.row[1][2] = r

Accounted(d) ==
    \A p \in Wants : p[1] \in Current(d) /\ p[2] \notin paused =>
        \/ \E x \in made[d] : x.row = <<p, 0>>
        \/ Throttled(p)
        \/ p[2] \in Users /\ \E x \in made[d] : x.status = "skipped" /\ x.row[1][2] \in Users

Dispatching(d) == pc[d] = "send" => OwnRows(d) /\ Reached(d) /\ Accounted(d)

Retrying(d) ==
    pc[d] = "retry" =>
        /\ todo[d] \subseteq Readings /\ \A x \in todo[d] : x.row[2] \in 1 .. Len(rows[x.row[1]])
        /\ \A x \in made[d] : /\ x.row[2] \in 1 .. Len(rows[x.row[1]]) /\ x.status # "pending"
                              /\ x.status = "skipped" => x.row[1][2] \in Users \union paused

Recorded(p) ==
    \/ rows[p] # <<>>
    \/ Throttled(p)
    \/ p[2] \in Users /\ \E q \in Wants : /\ q[2] \in Users /\ TenantOf[q[1]] = TenantOf[p[1]]
                                          /\ \E i \in DOMAIN rows[q] : NoMailRow(q, i)

MarkedRecorded == \A p \in Wants : p[1] \in notified /\ p[2] \notin paused => Recorded(p)

LossInv ==
    /\ Receivers \ enabled \subseteq paused
    /\ \A d \in Runs : Dispatching(d) /\ Retrying(d) /\ (pc[d] \notin {"send", "retry"} => made[d] = {})
    /\ MarkedRecorded

\* However the runs overlap (skip_locked, the retry of failed rows only), a receiver
\* gets an event once unless one of Mishaps happened, it is sent an event at most
\* MAX_ATTEMPTS times unless a run stopped before its commit, lost its locks or overlapped
\* another retry, and a delivery recorded as sent stays sent unless two runs retried it.
DeliveredOnce ==
    [][/\ mishaps' = {} => \A p \in Wants : received'[p] <= 1
       /\ mishaps' \subseteq {"lost_reply"} => \A p \in Wants : tries'[p] <= MaxAttempts
       /\ \A p \in Wants : \A i \in DOMAIN rows[p] :
            rows[p][i].status = "sent" /\ "overlap" \notin mishaps => rows'[p][i].status = "sent"]_vars

(* What DeliveredOnce rests on.  As long as no run overlapped another's     *)
(* retry, the rows a retry has read are as they were; as long as no run     *)
(* stopped before its commit or lost its locks either, the events of a      *)
(* batch are its own and the rows, or what a run is going to write over     *)
(* them, account for every message that was sent.                           *)
SoleRetry ==
    /\ \A d, o \in Runs : pc[d] = "retry" /\ pc[o] = "retry" => d = o
    /\ \A d \in Runs : pc[d] = "retry" =>
        /\ \A x \in todo[d] : /\ rows[x.row[1]][x.row[2]].status = "failed"
                              /\ rows[x.row[1]][x.row[2]].attempts = x.attempts /\ x.attempts < MaxAttempts
        /\ \A x \in made[d] : /\ rows[x.row[1]][x.row[2]].status = "failed" /\ x.attempts <= MaxAttempts
                              /\ \A y \in made[d] : x.row = y.row => x = y
                              /\ \A y \in todo[d] : x.row # y.row

Unsent(d) == pc[d] = "send" => \A x \in made[d] : x.row[1][2] \in todo[d] => x.status = "pending"

Held(d) == /\ pc[d] \notin {"tenant", "send"} => batch[d] = {}
           /\ \A e \in batch[d] : lock[e] = d /\ e \notin notified

\* No more attempts and copies than a row with that many attempts and that status accounts for.
Account(p, attempts, status) ==
    tries[p] <= attempts /\ (mishaps = {} => received[p] <= IF status = "sent" THEN 1 ELSE 0)

SendingOf(d, p) == {x \in made[d] : pc[d] = "send" /\ x.row = <<p, 0>>}
ResendingOf(d, p) == {x \in made[d] : pc[d] = "retry" /\ x.row = <<p, 1>>}

RowBound(p) ==
    /\ p[1] \notin notified => rows[p] = <<>>
    /\ Len(rows[p]) <= 1 /\ (rows[p] # <<>> => rows[p][1].attempts <= MaxAttempts)

Tallied(p) ==
    /\ RowBound(p)
    /\ \A d \in Runs :
        /\ \A x \in SendingOf(d, p) : Account(p, IF x.status \in {"sent", "failed"} THEN 1 ELSE 0, x.status)
        /\ \A x \in ResendingOf(d, p) : Account(p, x.attempts, x.status)
    /\ rows[p] = <<>> /\ (\A d \in Runs : SendingOf(d, p) = {}) => Account(p, 0, "none")
    /\ rows[p] # <<>> /\ (\A d \in Runs : ResendingOf(d, p) = {}) => Account(p, rows[p][1].attempts, rows[p][1].status)

OnceInv ==
    /\ tries \in [Wants -> Nat] /\ received \in [Wants -> Nat] /\ lock \in [Events -> Runs \union {NoRun}]
    /\ \A d \in Runs : Unsent(d)
    /\ "overlap" \notin mishaps => SoleRetry
    /\ mishaps \subseteq {"lost_reply"} => (\A d \in Runs : Held(d)) /\ \A p \in Wants : Tallied(p)

\* Every event is dealt with, after any crash and whatever the receivers do, and a
\* failed delivery is sent, given up or skipped in the end.
EverythingSettles ==
    /\ \A e \in Events : occurred >= e ~> e \in notified
    /\ <>[](\A p \in Wants : \A i \in DOMAIN rows[p] : ~Retryable(rows[p][i]))
=============================================================================
