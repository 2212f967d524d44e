---------------------------- MODULE Integrations ----------------------------
(***************************************************************************)
(* Notification channels and scanner keys (api/v1/integrations.py) and the *)
(* secrets they own (services/secrets.py).  Calls run concurrently at READ *)
(* COMMITTED.  A row a call has flushed is locked until its transaction    *)
(* ends; every call takes the audit chain's lock before it commits, so     *)
(* from there to the commit nothing else commits.  Calls that wait for     *)
(* each other are a deadlock the database ends by failing one of them.     *)
(***************************************************************************)
EXTENDS ReadCommitted

CONSTANTS
    Channels,          \* integrations that may be created
    Providers,         \* providers a scanner key may be stored for
    MaxCalls, MaxCallsUnderWay     \* calls in a behaviour, calls under way together

Calls == 1..MaxCalls

\* Secrets of integrations and of scanner keys are stored under different names.
ASSUME IntegrationsAssumption == MaxCalls \in Nat /\ None \notin Nat /\ Channels \intersect Providers = {}

VARIABLES
    channel,      \* integration -> its row
    vault,        \* integration or provider -> the id of the secret stored under its name, or None
    call,         \* call -> its transaction
    bereft        \* history: integrations deleted by a call that had read them before their first secret

integrations == <<channel, vault, call, bereft>>

NoCall == [phase |-> "idle", kind |-> None, on |-> None, had |-> None, sid |-> None]
CallOver == [NoCall EXCEPT !.phase = "done"]

Ids == Calls \union {None}

IntegrationsTypeOK ==
    /\ channel \in [Channels -> [state : {"unborn", "there", "gone"}, secret : Ids]]
    /\ vault \in [Channels \union Providers -> Ids]
    /\ call \in [Calls -> [phase : {"idle", "read", "flushed", "done"}, kind : {None, "put", "clear", "delete", "set", "unset"},
                          on : Channels \union Providers \union {None}, had : Ids, sid : Ids]]
    /\ bereft \subseteq Channels

IntegrationsInit ==
    /\ channel = [c \in Channels |-> [state |-> "unborn", secret |-> None]]
    /\ vault = [o \in Channels \union Providers |-> None]
    /\ call = [r \in Calls |-> NoCall]
    /\ bereft = {}

-----------------------------------------------------------------------------
(* What the session and the database do for a call.                        *)

Called(r) ==
    /\ call[r].phase = "idle" /\ (r > 1 => call[r - 1].phase # "idle")
    /\ Cardinality({o \in Calls : call[o].phase \in {"read", "flushed"}}) < MaxCallsUnderWay

\* The rows are read; had is the secret the integration refers to, or the credential's id.
Reads(r, kind, on, had) ==
    /\ Called(r)
    /\ call' = [call EXCEPT ![r] = [phase |-> "read", kind |-> kind, on |-> on, had |-> had, sid |-> None]]
    /\ UNCHANGED <<channel, vault, bereft>>

SecretFree(r) == \A o \in Calls \ {r} : ~(call[o].phase = "flushed" /\ call[o].kind \in {"put", "set"} /\ call[o].on = call[r].on)
ChannelFree(r) == \A o \in Calls \ {r} : ~(call[o].phase = "flushed" /\ call[o].kind = "clear" /\ call[o].on = call[r].on)

Fails(r) == call' = [call EXCEPT ![r] = CallOver] /\ UNCHANGED <<channel, vault, bereft>>

\* The transaction ends with these rows; a channel that referred to a deleted secret no longer does (ON DELETE SET NULL).
CommitsWith(r, channels, secrets) ==
    /\ channel' = [c \in Channels |-> IF secrets[c] = None THEN [channels[c] EXCEPT !.secret = None] ELSE channels[c]]
    /\ vault' = secrets
    /\ call' = [call EXCEPT ![r] = CallOver]

-----------------------------------------------------------------------------
\* Fresh rows under a fresh id: nobody else sees them before the commit.
create_integration(r) ==
    \E c \in Channels, secret \in {None, r} :
        /\ Called(r) /\ channel[c].state = "unborn"
        /\ CommitsWith(r, [channel EXCEPT ![c] = [state |-> "there", secret |-> secret]], [vault EXCEPT ![c] = secret])
        /\ UNCHANGED bereft

\* PATCH with a new secret, or with clear_secret where there is one; otherwise the secret is not touched.
update_integration(r) ==
    \E c \in Channels :
        /\ channel[c].state = "there"
        /\ \/ Reads(r, "put", c, channel[c].secret)
           \/ channel[c].secret # None /\ Reads(r, "clear", c, channel[c].secret)

delete_integration(r) == \E c \in Channels : channel[c].state = "there" /\ Reads(r, "delete", c, channel[c].secret)

set_credential(r) == \E p \in Providers : Reads(r, "set", p, None)

delete_credential(r) == \E p \in Providers : vault[p] # None /\ Reads(r, "unset", p, vault[p])

\* The secret of that name is replaced, or inserted if there is none, and flushed.
put_secret(r) ==
    /\ call[r].phase = "read" /\ call[r].kind \in {"put", "set"} /\ SecretFree(r)
    /\ call' = [call EXCEPT ![r].phase = "flushed", ![r].sid = IF vault[call[r].on] = None THEN r ELSE vault[call[r].on]]
    /\ UNCHANGED <<channel, vault, bereft>>

\* secret_id = None is flushed, then the secret is looked for; either row may be gone.
ClearFlushed(r) ==
    /\ call[r].phase = "read" /\ call[r].kind = "clear" /\ ChannelFree(r)
    /\ IF channel[call[r].on].state = "there" /\ vault[call[r].on] = call[r].had
       THEN call' = [call EXCEPT ![r].phase = "flushed"] /\ UNCHANGED <<channel, vault, bereft>>
       ELSE Fails(r)

\* The update's end: the integration is written only if its secret_id changed, and then must exist.
PutCommits(r) ==
    LET c == call[r].on IN
    /\ call[r].phase = "flushed" /\ call[r].kind = "put"
    /\ IF call[r].sid = call[r].had THEN CommitsWith(r, channel, [vault EXCEPT ![c] = call[r].sid]) /\ UNCHANGED bereft
       ELSE /\ ChannelFree(r)
            /\ IF channel[c].state # "there" THEN Fails(r)
               ELSE /\ CommitsWith(r, [channel EXCEPT ![c].secret = call[r].sid], [vault EXCEPT ![c] = call[r].sid])
                    /\ UNCHANGED bereft

ClearCommits(r) ==
    /\ call[r].phase = "flushed" /\ call[r].kind = "clear" /\ SecretFree(r)
    /\ CommitsWith(r, [channel EXCEPT ![call[r].on].secret = None], [vault EXCEPT ![call[r].on] = None])
    /\ UNCHANGED bereft

\* A deletion that leaves the secret to whoever stored it.
DeleteKeepsSecret(r) ==
    LET c == call[r].on IN
    /\ call[r].phase = "read" /\ call[r].kind = "delete" /\ ChannelFree(r)
    /\ CommitsWith(r, [channel EXCEPT ![c] = [state |-> "gone", secret |-> None]], vault)
    /\ bereft' = bereft \union {x \in {c} : call[r].had = None /\ vault[c] # None}

\* The row, then the secret it referred to when it was read; a secret gone since is an error.
DeleteCommits(r) ==
    LET c == call[r].on
        had == call[r].had IN
    /\ call[r].phase = "read" /\ call[r].kind = "delete" /\ ChannelFree(r) /\ (had # None => SecretFree(r))
    /\ IF had # None /\ vault[c] # had THEN Fails(r)
       ELSE /\ CommitsWith(r, [channel EXCEPT ![c] = [state |-> "gone", secret |-> None]],
                           IF had = None THEN vault ELSE [vault EXCEPT ![c] = None])
            /\ bereft' = bereft \union {x \in {c} : had = None /\ vault[c] # None}

\* set_credential and delete_credential; deleting a row that is gone deletes nothing.
CredentialCommits(r) ==
    LET p == call[r].on IN
    /\ \/ /\ call[r].phase = "flushed" /\ call[r].kind = "set"
          /\ CommitsWith(r, channel, [vault EXCEPT ![p] = call[r].sid])
       \/ /\ call[r].phase = "read" /\ call[r].kind = "unset" /\ SecretFree(r)
          /\ CommitsWith(r, channel, [vault EXCEPT ![p] = IF @ = call[r].had THEN None ELSE @])
    /\ UNCHANGED bereft

\* A constraint, a deadlock, or a request cut off: nothing is written.
CallFails(r) == call[r].phase \in {"read", "flushed"} /\ Fails(r)

IntegrationsNext ==
    \E r \in Calls :
        \/ create_integration(r) \/ update_integration(r) \/ delete_integration(r) \/ set_credential(r) \/ delete_credential(r)
        \/ put_secret(r) \/ ClearFlushed(r) \/ PutCommits(r) \/ ClearCommits(r) \/ DeleteCommits(r)
        \/ CredentialCommits(r) \/ CallFails(r)

IntegrationsSpec == IntegrationsInit /\ [][IntegrationsNext]_integrations

-----------------------------------------------------------------------------
(* An integration's secret is stored exactly as long as the integration    *)
(* refers to it, whatever changes, clearings and deletions overlap: none   *)
(* is left behind and none is missing when a notification needs it.        *)
(* Except after a deletion that read the integration before a concurrent   *)
(* update stored its first secret: delete_integration keeps the secret_id  *)
(* it read before it took the audit lock.                                  *)
SecretsFollowUse ==
    \A c \in Channels :
        /\ channel[c].secret # None => channel[c].state = "there" /\ vault[c] = channel[c].secret
        /\ vault[c] # None /\ c \notin bereft => channel[c].secret = vault[c]

\* The call has put a secret and not yet committed.
Storing(r) == call[r].phase = "flushed" /\ call[r].kind \in {"put", "set"}

\* A call works on an integration that exists or did, or on a scanner key.
CallOnItsRow(r) ==
    call[r].phase \in {"read", "flushed"} =>
        \/ call[r].kind \in {"put", "clear", "delete"} /\ call[r].on \in Channels /\ channel[call[r].on].state # "unborn"
        \/ call[r].kind \in {"set", "unset"} /\ call[r].on \in Providers

\* The id of a secret a call may still insert is not in use.
IdUnused(r) ==
    call[r].phase # "done" =>
        /\ \A o \in Channels \union Providers : vault[o] # r
        /\ \A c \in Channels : channel[c].secret # r
        /\ \A o \in Calls : call[o].had # r /\ (call[o].sid = r => o = r)

(* What SecretsFollowUse rests on: of the calls that store a secret under   *)
(* one name one is flushed at a time, and what it has found there stays so  *)
(* until it commits.                                                        *)
SecretInv ==
    /\ SecretsFollowUse
    /\ \A r \in Calls : CallOnItsRow(r) /\ IdUnused(r)
    /\ \A r \in Calls : Storing(r) => call[r].sid = IF vault[call[r].on] = None THEN r ELSE vault[call[r].on]
    /\ \A r, o \in Calls : Storing(r) /\ Storing(o) /\ call[r].on = call[o].on => r = o

=============================================================================
