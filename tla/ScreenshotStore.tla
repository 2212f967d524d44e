-------------------------- MODULE ScreenshotStore --------------------------
(***************************************************************************)
(* The images of website captures: a result stores an object and then      *)
(* commits its record, retention and users delete the object and then the  *)
(* record, and deleting an organization leaves pending deletions behind.   *)
(*                                                                         *)
(* The object store is not transactional: a put or a delete takes effect   *)
(* at once, the rows when the transaction commits.  A result that is being *)
(* received holds the lock of its own row until it commits.  One tenant    *)
(* with one organization; every image has size one.                        *)
(***************************************************************************)
EXTENDS ScreenshotCaptures

CONSTANTS
    Keep,         \* policy retention_per_endpoint
    Quota         \* policy storage_quota_mb, in images

\* What sets objects and records apart: a crash between put and commit; a crash between the deletion of objects and
\* that of their records; a result received while the organization is deleted;
\* two results of the tenant received at the same time.
StoreMishaps == {"crash_after_put", "crash_in_delete", "organization_race", "parallel_results"}

ASSUME StoreAssumption ==
    /\ NumCaptures \in Nat /\ DOMAIN AssetOf = Captures /\ Keep \in Nat \ {0} /\ Quota \in Nat
    /\ MaxUpsets \in Nat

VARIABLES
    row,        \* capture -> status; the storage key is set when "succeeded"
    objects,    \* captures whose image is in the store
    pending,    \* captures whose image has a storage_deletions row
    org,        \* "present", "queued" once its images are queued, "deleted"
    queued,     \* the images the deletion of the organization found
    inbox,      \* results on the results queue, not acknowledged
    receiver,   \* capture -> where the transaction applying its result stands
    drop,       \* capture -> older captures its result replaces
    deleter,    \* captures whose image a user or retention has just deleted
    purger,     \* pending deletions whose object has just been deleted
    storeMishaps     \* history: which of StoreMishaps have happened

store == <<row, objects, pending, org, queued, inbox, receiver, drop, deleter, purger, upsets, storeMishaps>>
RowStatus == {"absent", "running", "succeeded", "failed", "gone"}
ReceiverSteps == {"idle", "checked", "put", "dropping", "dropped"}

StoreTypeOK ==
    /\ row \in [Captures -> RowStatus] /\ objects \subseteq Captures /\ pending \subseteq Captures
    /\ org \in {"present", "queued", "deleted"} /\ queued \subseteq Captures /\ inbox \subseteq Captures
    /\ receiver \in [Captures -> ReceiverSteps] /\ drop \in [Captures -> SUBSET Captures]
    /\ deleter \subseteq Captures /\ purger \subseteq Captures /\ upsets \in 0 .. MaxUpsets
    /\ storeMishaps \subseteq StoreMishaps

StoreInit ==
    /\ row = [c \in Captures |-> "absent"] /\ objects = {} /\ pending = {}
    /\ org = "present" /\ queued = {} /\ inbox = {}
    /\ receiver = [c \in Captures |-> "idle"] /\ drop = [c \in Captures |-> {}]
    /\ deleter = {} /\ purger = {} /\ upsets = 0 /\ storeMishaps = {}

Stored == {c \in Captures : row[c] = "succeeded"}
Usage == Cardinality(Stored) + Cardinality(pending)
\* Transactions that hold the lock of a capture's row.
Locked(c) == receiver[c] \in {"checked", "put"}

\* older[keep - 1:] of the endpoint's images, newest first.
Replaced(older) == {o \in older : Cardinality({p \in older : p > o}) >= Keep - 1}
OlderOf(c) == {o \in Stored \ {c} : AssetOf[o] = AssetOf[c]}
\* row_number() > keep within each endpoint.
Extra == {c \in Stored : Cardinality({d \in Stored : AssetOf[d] = AssetOf[c] /\ d > c}) >= Keep}

-----------------------------------------------------------------------------
(* Captures and results *)

\* A capture is dispatched, at most one per endpoint; its result may come any time.
Dispatch(c) ==
    /\ row[c] = "absent" /\ \A d \in Captures : d < c => row[d] # "absent"
    /\ org # "deleted"
    /\ \A d \in Captures : row[d] = "running" => AssetOf[d] # AssetOf[c]
    /\ row' = [row EXCEPT ![c] = "running"] /\ inbox' = inbox \cup {c}
    /\ UNCHANGED <<objects, pending, org, queued, receiver, drop, deleter, purger, upsets, storeMishaps>>

\* Cancelled by a user, or failed by the watchdog (which skips locked rows).
Abandon(c) ==
    /\ row[c] = "running" /\ ~Locked(c)
    /\ row' = [row EXCEPT ![c] = "failed"]
    /\ UNCHANGED <<objects, pending, org, queued, inbox, receiver, drop, deleter, purger, upsets, storeMishaps>>

\* Variant: the new image itself is not counted.
FitsUnlessFull(c) == Usage - Cardinality(Replaced(OlderOf(c))) <= Quota
Fits(c) == Usage - Cardinality(Replaced(OlderOf(c))) + 1 <= Quota

\* receive_result up to the quota check, which fails the capture or lets it go on.
Check(c) ==
    /\ c \in inbox /\ row[c] = "running" /\ receiver[c] = "idle"
    /\ storeMishaps' = storeMishaps \cup (IF \E d \in Captures : Locked(d) THEN {"parallel_results"} ELSE {})
                          \cup (IF org = "queued" THEN {"organization_race"} ELSE {})
    /\ \/ /\ Fits(c)
          /\ receiver' = [receiver EXCEPT ![c] = "checked"]
          /\ drop' = [drop EXCEPT ![c] = Replaced(OlderOf(c))]
          /\ UNCHANGED <<row, inbox>>
       \/ /\ ~Fits(c)
          /\ row' = [row EXCEPT ![c] = "failed"] /\ inbox' = inbox \ {c}
          /\ UNCHANGED <<receiver, drop>>
    /\ UNCHANGED <<objects, pending, org, queued, deleter, purger, upsets>>

RefusedStatus == "failed"

\* The result is not bound to a running capture any more, or holds no valid image.
Refuse(c) ==
    /\ c \in inbox /\ receiver[c] = "idle"
    /\ inbox' = inbox \ {c}
    /\ row' = IF row[c] = "running" THEN [row EXCEPT ![c] = RefusedStatus] ELSE row
    /\ UNCHANGED <<objects, pending, org, queued, receiver, drop, deleter, purger, upsets, storeMishaps>>

Put(c) ==
    /\ receiver[c] = "checked"
    /\ objects' = objects \cup {c} /\ receiver' = [receiver EXCEPT ![c] = "put"]
    /\ UNCHANGED <<row, pending, org, queued, inbox, drop, deleter, purger, upsets, storeMishaps>>

Commit(c) ==
    /\ receiver[c] = "put"
    /\ row' = [row EXCEPT ![c] = "succeeded"] /\ receiver' = [receiver EXCEPT ![c] = "dropping"]
    /\ UNCHANGED <<objects, pending, org, queued, inbox, drop, deleter, purger, upsets, storeMishaps>>

\* Variant: a failed commit leaves the image behind.
KeepObject(c) == objects
RemoveObject(c) == objects \ {c}

\* The commit raises: roll back, delete the object, give up on the message.
CommitFails(c) ==
    /\ receiver[c] = "put" /\ Upset
    /\ objects' = RemoveObject(c)
    /\ receiver' = [receiver EXCEPT ![c] = "idle"] /\ inbox' = inbox \ {c}
    /\ UNCHANGED <<row, pending, org, queued, drop, deleter, purger, storeMishaps>>

\* Every replaced image is deleted, or the store refuses some of them.
DropObjects(c) ==
    /\ receiver[c] = "dropping"
    /\ \E refused \in SUBSET drop[c] :
        /\ refused # {} => upsets < MaxUpsets
        /\ upsets' = IF refused = {} THEN upsets ELSE upsets + 1
        /\ objects' = objects \ (drop[c] \ refused)
        /\ drop' = [drop EXCEPT ![c] = @ \ refused]
    /\ receiver' = [receiver EXCEPT ![c] = "dropped"]
    /\ UNCHANGED <<row, pending, org, queued, inbox, deleter, purger, storeMishaps>>

Gone(S) == [c \in Captures |-> IF c \in S /\ row[c] # "absent" THEN "gone" ELSE row[c]]

DropRecords(c) ==
    /\ receiver[c] = "dropped"
    /\ row' = Gone(drop[c])
    /\ receiver' = [receiver EXCEPT ![c] = "idle"] /\ drop' = [drop EXCEPT ![c] = {}]
    /\ inbox' = inbox \ {c}
    /\ UNCHANGED <<objects, pending, org, queued, deleter, purger, upsets, storeMishaps>>

\* The consumer dies; its message is delivered again.
ReceiverCrash(c) ==
    /\ receiver[c] # "idle" /\ Upset
    /\ storeMishaps' = storeMishaps \cup (IF receiver[c] = "put" THEN {"crash_after_put"} ELSE {})
                          \cup (IF receiver[c] = "dropped" THEN {"crash_in_delete"} ELSE {})
    /\ receiver' = [receiver EXCEPT ![c] = "idle"] /\ drop' = [drop EXCEPT ![c] = {}]
    /\ UNCHANGED <<row, objects, pending, org, queued, inbox, deleter, purger>>

-----------------------------------------------------------------------------
(* Users, retention and organizations *)

\* delete_capture of one image, or apply_retention of all extra ones.
DeleteObjects(S) ==
    /\ deleter = {} /\ S # {}
    /\ objects' = objects \ S /\ deleter' = S
    /\ UNCHANGED <<row, pending, org, queued, inbox, receiver, drop, purger, storeMishaps>>

UserDeletes(c) == row[c] = "succeeded" /\ DeleteObjects({c}) /\ UNCHANGED upsets

\* An image the store refuses to delete keeps its record for the next run.
Retention ==
    \E S \in SUBSET Extra :
        /\ DeleteObjects(S)
        /\ S # Extra => upsets < MaxUpsets
        /\ upsets' = IF S = Extra THEN upsets ELSE upsets + 1

DeleteRecords ==
    /\ deleter # {}
    /\ row' = Gone(deleter) /\ deleter' = {}
    /\ UNCHANGED <<objects, pending, org, queued, inbox, receiver, drop, purger, upsets, storeMishaps>>

DeleterCrash ==
    /\ deleter # {} /\ Upset
    /\ storeMishaps' = storeMishaps \cup {"crash_in_delete"}
    /\ deleter' = {}
    /\ UNCHANGED <<row, objects, pending, org, queued, inbox, receiver, drop, purger>>

\* Old failed, blocked and cancelled records hold no image.
PurgeFailed(c) ==
    /\ row[c] = "failed"
    /\ row' = [row EXCEPT ![c] = "gone"]
    /\ UNCHANGED <<objects, pending, org, queued, inbox, receiver, drop, deleter, purger, upsets, storeMishaps>>

\* Variant: the images are looked up after their records are gone.
NothingQueued == {}
QueueOrganizationObjects == Stored

\* delete_organization queues the images it can see ...
QueueOrganization ==
    /\ org = "present"
    /\ storeMishaps' = storeMishaps \cup (IF \E c \in Captures : Locked(c) THEN {"organization_race"} ELSE {})
    /\ org' = "queued" /\ queued' = QueueOrganizationObjects
    /\ UNCHANGED <<row, objects, pending, inbox, receiver, drop, deleter, purger, upsets>>

\* ... and deletes the organization; the cascade waits for locked capture rows.
DeleteOrganization ==
    /\ org = "queued" /\ \A c \in Captures : ~Locked(c)
    /\ org' = "deleted" /\ row' = Gone(Captures)
    /\ pending' = pending \cup queued /\ queued' = {}
    /\ UNCHANGED <<objects, inbox, receiver, drop, deleter, purger, upsets, storeMishaps>>

\* Variant: the row of an object the store refused to delete goes too.
PurgeIgnoringErrors ==
    /\ purger = {} /\ pending # {}
    /\ \E S \in SUBSET pending :
        /\ S # pending => upsets < MaxUpsets
        /\ upsets' = IF S = pending THEN upsets ELSE upsets + 1
        /\ objects' = objects \ S /\ purger' = pending
    /\ UNCHANGED <<row, pending, org, queued, inbox, receiver, drop, deleter, storeMishaps>>

\* purge_pending_deletions: each object first, its row with the commit.
PurgeObjects ==
    /\ purger = {}
    /\ \E S \in SUBSET pending :
        /\ S # {}
        /\ S # pending => upsets < MaxUpsets
        /\ upsets' = IF S = pending THEN upsets ELSE upsets + 1
        /\ objects' = objects \ S /\ purger' = S
    /\ UNCHANGED <<row, pending, org, queued, inbox, receiver, drop, deleter, storeMishaps>>

PurgeCommit ==
    /\ purger # {}
    /\ pending' = pending \ purger /\ purger' = {}
    /\ UNCHANGED <<row, objects, org, queued, inbox, receiver, drop, deleter, upsets, storeMishaps>>

PurgeCrash ==
    /\ purger # {} /\ Upset
    /\ purger' = {}
    /\ UNCHANGED <<row, objects, pending, org, queued, inbox, receiver, drop, deleter, storeMishaps>>

Receive(c) == Check(c) \/ Put(c) \/ Commit(c) \/ DropObjects(c) \/ DropRecords(c)

StoreNext ==
    \/ \E c \in Captures :
        \/ Dispatch(c) \/ Abandon(c) \/ Refuse(c) \/ Receive(c)
        \/ CommitFails(c) \/ ReceiverCrash(c) \/ UserDeletes(c) \/ PurgeFailed(c)
    \/ Retention \/ DeleteRecords \/ DeleterCrash
    \/ QueueOrganization \/ DeleteOrganization
    \/ PurgeObjects \/ PurgeCommit \/ PurgeCrash

StoreSpec == StoreInit /\ [][StoreNext]_store

\* A started transaction goes on; maintenance runs every hour.
StoreFairSpec ==
    /\ StoreSpec
    /\ \A c \in Captures : WF_store(Put(c) \/ Commit(c) \/ DropObjects(c) \/ DropRecords(c))
    /\ WF_store(Retention) /\ WF_store(DeleteRecords)
    /\ WF_store(DeleteOrganization) /\ WF_store(PurgeObjects) /\ WF_store(PurgeCommit)

-----------------------------------------------------------------------------
(* Properties *)

(* Every image in the store belongs to a record, to a pending deletion or   *)
(* to a running capture whose result may still be applied: none is left     *)
(* behind, whether commits fail, images are replaced or the organization is *)
(* deleted; only a crash right after the put and a result that races the    *)
(* deletion of the organization can leave one.                              *)
NoOrphanImage ==
    storeMishaps \cap {"crash_after_put", "organization_race"} = {} =>
    \A c \in objects : row[c] \in {"succeeded", "running"} \/ c \in pending

(* A record never points at an image that was deleted without it, except    *)
(* for the moment between the deletion and its commit, unless the process   *)
(* dies in that moment.                                                     *)
NoDanglingRecord ==
    "crash_in_delete" \notin storeMishaps =>
    \A c \in Stored : c \in objects \/ c \in deleter \/ \E d \in Captures : receiver[d] = "dropped" /\ c \in drop[d]

(* Store and database agree, both ways, but for the crashes and the race    *)
(* named above.                                                             *)
ImagesMatchRecords == NoOrphanImage /\ NoDanglingRecord

(* What ImagesMatchRecords rests on: a result that is being applied keeps   *)
(* its row running, an image about to be replaced, deleted or purged is not *)
(* in the store any more, and whoever deletes an organization has seen all  *)
(* its images.                                                              *)
ResultInv(c) ==
    /\ Locked(c) => row[c] = "running"
    /\ receiver[c] = "put" => c \in objects
    /\ \A d \in drop[c] : row[d] \in {"succeeded", "gone"} /\ (receiver[c] = "dropped" => d \notin objects)
    /\ row[c] = "absent" => c \notin objects
    /\ c \in objects /\ row[c] = "running" /\ "crash_after_put" \notin storeMishaps => receiver[c] = "put"

DeletionInv ==
    /\ \A d \in deleter : row[d] \in {"succeeded", "gone"} /\ d \notin objects
    /\ \A d \in queued : row[d] \in {"succeeded", "gone"}
    /\ \A d \in pending : row[d] = "gone" /\ (d \in purger => d \notin objects)
    /\ purger \subseteq pending

OrganizationInv ==
    org = "queued" /\ "organization_race" \notin storeMishaps => Stored \subseteq queued /\ \A c \in Captures : ~Locked(c)

StoreInv == ImagesMatchRecords /\ (\A c \in Captures : ResultInv(c)) /\ DeletionInv /\ OrganizationInv

(* Apart from images that are to be replaced, a tenant never stores more    *)
(* than its quota, counting images whose record is already gone, unless two *)
(* of its results are received at the same time.                            *)
QuotaHolds ==
    org # "deleted" /\ "parallel_results" \notin storeMishaps =>
        Cardinality(Stored \ Extra) + Cardinality(pending) <= Quota

(* What QuotaHolds rests on: however many of the tenant's images are        *)
(* removed, and whichever, the images the policy keeps of the rest fit; the *)
(* one result that is being received has been counted with them.            *)
PolicyKeeps(T) == \A t \in T : Cardinality({u \in T : AssetOf[u] = AssetOf[t]}) <= Keep
WithinQuota(S) == \A T \in SUBSET S : PolicyKeeps(T) => Cardinality(T) <= Quota

QuotaInv ==
    /\ org # "deleted" => pending = {}
    /\ org # "deleted" /\ "parallel_results" \notin storeMishaps =>
        /\ WithinQuota(Stored)
        /\ \A c \in Captures : Locked(c) => WithinQuota(Stored \cup {c}) /\ \A d \in Captures : Locked(d) => d = c

(* Deletions finish, although the store refuses some of them and consumers, *)
(* maintenance and the purge crash: no endpoint keeps more images than the  *)
(* policy allows, and the images of a deleted organization are removed.     *)
DeletionsFinish ==
    /\ <>[](Extra = {})
    /\ \A c \in Captures : c \in pending ~> c \notin pending /\ c \notin objects
=============================================================================
