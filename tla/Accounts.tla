------------------------------ MODULE Accounts ------------------------------
(***************************************************************************)
(* Sign-in sessions, passwords, members and the audit chain (auth/         *)
(* service.py, api/deps.py, api/v1/auth.py, users.py and tenants.py,       *)
(* services/audit.py).  Every request is a transaction at READ COMMITTED:  *)
(* it reads, then writes the columns its objects changed under row locks,  *)
(* then commits; anything may happen in between.  A handler's outcome is   *)
(* the columns it writes, the sessions it revokes with an UPDATE ... WHERE *)
(* and the audit chain it appends to.                                      *)
(***************************************************************************)
EXTENDS ReadCommitted, Sequences, FiniteSetsExt

CONSTANTS
    Users, Tenants, PlatformAdmins,
    DefaultTenant,     \* user -> tenant
    GivenMember,       \* user -> tenant -> role at the start, "none" if not a member
    GivenSession,      \* sequence of [user, tenant]: sessions open at the start
    GivenMfa,          \* users with a second factor at the start
    Agendas,           \* sets of calls that are mixed in one behaviour
    MaxRequests, MaxUnderWay, MaxClock,
    Threshold,         \* account_lockout_threshold
    MaxUsers,          \* plan.max_users
    IdleTtl, Ttl       \* idle timeout; life of sessions, links, challenges and lockouts

Given == Len(GivenSession)
Requests == 1..MaxRequests
Fresh(r) == Given + r                     \* the session and the tokens a request makes
Sessions == 1..(Given + MaxRequests)
Role == {"viewer", "tenant_admin", "platform_admin"}
Rank == [none |-> 0, viewer |-> 1, tenant_admin |-> 2, platform_admin |-> 3]
Platform == "platform"
Chains == Tenants \union {Platform}

Open == {"login", "mfa_verify", "refresh", "forgot", "reset"}
Interactive == {"logout", "switch_tenant", "change_password", "mfa_setup", "mfa_enable", "mfa_disable", "revoke_token"}
UsersWrite == {"create_user", "update_user", "reset_mfa", "remove_user"}
RequestKinds == Open \union Interactive \union UsersWrite \union {"create_token", "update_tenant"}

ASSUME AccountsAssumption ==
    /\ IsFiniteSet(Users) /\ \A calls \in Agendas : calls \subseteq RequestKinds \union {"time"}
    /\ PlatformAdmins \subseteq Users /\ DefaultTenant \in [Users -> Tenants]
    /\ GivenMember \in [Users -> [Tenants -> {"none", "viewer", "tenant_admin"}]]
    /\ GivenSession \in Seq([user : Users, tenant : Tenants]) /\ MaxRequests \in Nat
    /\ \A s \in DOMAIN GivenSession : \E t \in Tenants : GivenMember[GivenSession[s].user][t] # "none"
    /\ Threshold \in Nat \ {0} /\ MaxUsers \in Nat /\ IdleTtl \in Nat /\ Ttl \in Nat

U(u) == <<"user", u>>
M(u, t) == <<"member", u, t>>
S(s) == <<"session", s>>
L(r) == <<"link", r>>
C(r) == <<"challenge", r>>
K(r) == <<"token", r>>
T(t) == <<"tenant", t>>

VARIABLES
    clock,
    agenda,       \* one of Agendas, never changed
    db,           \* row -> column -> committed value
    audit,        \* chain -> its entries, in the order of their ids
    entries,      \* ids given to audit entries so far
    request,      \* request -> its transaction
    mishaps       \* history: overlaps the code does not guard against

accounts == <<clock, agenda, db, audit, entries, request, mishaps>>

UserRows == {U(u) : u \in Users}
MemberRows == {M(u, t) : u \in Users, t \in Tenants}
SessionRows == {S(s) : s \in Sessions}

GivenUser(u) ==
    [exists |-> \E t \in Tenants : GivenMember[u][t] # "none",
     hash |-> IF \E t \in Tenants : GivenMember[u][t] # "none" THEN <<0, "old">> ELSE <<None, "new">>, mfa |-> u \in GivenMfa,
     secret |-> IF u \in GivenMfa THEN 0 ELSE None, fails |-> 0, locked |-> 0, last_login |-> 0]

NoSession ==
    [user |-> None, tenant |-> None, token |-> 0, previous |-> 0, expires |-> 0, absolute |-> 0, used |-> 0,
     revoked |-> FALSE, password |-> 0]

\* The sessions open at the start are about to run out.
OpenSession(s) ==
    [NoSession EXCEPT !.user = GivenSession[s].user, !.tenant = GivenSession[s].tenant, !.token = s,
                      !.expires = 1, !.absolute = Ttl]

NoLink == [user |-> None, expires |-> 0, used |-> FALSE]
NoChallenge == [user |-> None, tenant |-> None, password |-> 0, expires |-> 0]
NoToken == [user |-> None, tenant |-> None, role |-> "viewer", revoked |-> FALSE]

Idle == [phase |-> "idle", call |-> None, actor |-> None, out |-> None]
Done == [Idle EXCEPT !.phase = "done"]

AccountsInit ==
    /\ clock = 0 /\ agenda \in Agendas /\ entries = 0 /\ mishaps = {}
    /\ db = [k \in UserRows |-> GivenUser(k[2])]
            ++ [k \in MemberRows |-> [role |-> GivenMember[k[2]][k[3]], active |-> GivenMember[k[2]][k[3]] # "none"]]
            ++ [k \in SessionRows |-> IF k[2] <= Given THEN OpenSession(k[2]) ELSE NoSession]
            ++ [k \in {L(r) : r \in Requests} |-> NoLink] ++ [k \in {C(r) : r \in Requests} |-> NoChallenge]
            ++ [k \in {K(r) : r \in Requests} |-> NoToken] ++ [k \in {T(t) : t \in Tenants} |-> [status |-> "active"]]
    /\ audit = [t \in Chains |-> <<>>]
    /\ request = [r \in Requests |-> Idle]

-----------------------------------------------------------------------------
(* What a handler reads, and the outcome it prepares.                      *)

active_membership(u, t) == db[M(u, t)].role # "none" /\ db[M(u, t)].active /\ db[T(t)].status = "active"

\* The tenant of a session: the requested one or nothing; otherwise the default, else any, else none.
resolve_tenant(u, requested) ==
    LET own == {t \in Tenants : active_membership(u, t)} IN
    IF requested # None
    THEN IF requested \in own \/ (u \in PlatformAdmins /\ db[T(requested)].status = "active") THEN requested ELSE "forbidden"
    ELSE IF DefaultTenant[u] \in own THEN DefaultTenant[u]
    ELSE IF own # {} THEN CHOOSE t \in own : TRUE
    ELSE IF u \in PlatformAdmins THEN None ELSE "forbidden"

Outcome(writes, revoke, chain) == [writes |-> Dirty(db, writes), revoke |-> revoke, chain |-> chain]
Refused == [writes |-> <<>>, revoke |-> {}, chain |-> None]

\* The WHERE of revoke_user_sessions and of logout; None matches every value.
SessionsOf(u, t) == [session |-> None, user |-> u, tenant |-> t]
Matches(s, where) ==
    /\ db[S(s)].user # None /\ ~db[S(s)].revoked
    /\ where.session \in {None, s} /\ where.user \in {None, db[S(s)].user} /\ where.tenant \in {None, db[S(s)].tenant}

ChainOf(t) == IF t = None THEN Platform ELSE t

issue_session(r, u, t, password) ==
    Assign(S(Fresh(r)), [user |-> u, tenant |-> t, token |-> Fresh(r), expires |-> clock + Ttl, absolute |-> clock + Ttl,
                      used |-> clock, password |-> password])

CountFailure(u) ==
    LET fails == db[U(u)].fails + 1 IN
    Assign(U(u), IF fails >= Threshold THEN [fails |-> 0, locked |-> clock + Ttl] ELSE [fails |-> fails])

authenticate(r, call) ==
    LET u == call.user
        row == db[U(u)]
        rehashed == IF row.hash[2] = "old" THEN <<row.hash[1], "new">> ELSE row.hash
        cleared == Assign(U(u), [fails |-> 0, locked |-> 0, hash |-> rehashed])
        t == resolve_tenant(u, None) IN
    IF ~row.exists \/ row.hash[1] = None \/ row.locked > clock THEN Outcome(<<>>, {}, Platform)
    ELSE IF call.arg # row.hash[1] THEN Outcome(CountFailure(u), {}, DefaultTenant[u])
    ELSE IF t = "forbidden" THEN Refused
    ELSE IF row.mfa
    THEN Outcome(cleared ++ Assign(C(r), [user |-> u, tenant |-> t, password |-> call.arg, expires |-> clock + 1]), {}, None)
    ELSE Outcome(cleared ++ Assign(U(u), [last_login |-> r]) ++ issue_session(r, u, t, call.arg), {}, ChainOf(t))

complete_mfa(r, call) ==
    LET challenge == db[C(call.arg)]
        u == challenge.user
        t == resolve_tenant(u, challenge.tenant) IN
    IF u = None THEN Refused
    ELSE IF challenge.expires <= clock \/ ~db[U(u)].mfa THEN Refused
    ELSE IF call.wrong THEN Outcome(CountFailure(u), {}, Platform)
    ELSE IF t = "forbidden" THEN Refused
    ELSE Outcome(Assign(U(u), [fails |-> 0, last_login |-> r]) ++ issue_session(r, u, t, challenge.password), {}, ChainOf(t))

Holding(column, token) == {s \in Sessions : db[S(s)].user # None /\ db[S(s)][column] = token}

refresh(r, call) ==
    LET current == Holding("token", call.arg)
        rotated == Holding("previous", call.arg)
        s == CHOOSE x \in current : TRUE
        old == CHOOSE x \in rotated : TRUE
        row == db[S(s)]
        t == resolve_tenant(row.user, row.tenant) IN
    IF current = {}
    THEN IF rotated = {} THEN Refused
         ELSE IF db[S(old)].revoked THEN Refused
         ELSE Outcome(Assign(S(old), [revoked |-> TRUE]), {}, ChainOf(db[S(old)].tenant))
    ELSE IF row.revoked \/ row.expires <= clock \/ row.absolute <= clock THEN Refused
    ELSE IF clock - row.used > IdleTtl \/ t = "forbidden" THEN Outcome(Assign(S(s), [revoked |-> TRUE]), {}, None)
    ELSE Outcome(Assign(S(s), [previous |-> row.token, token |-> Fresh(r), expires |-> Min({clock + Ttl, row.absolute}),
                            used |-> clock]), {}, None)

logout(actor) == Outcome(<<>>, {[session |-> actor.session, user |-> None, tenant |-> None]}, ChainOf(actor.tenant))

\* The session is read without a lock.
switch_tenant(r, actor, call) ==
    LET row == db[S(actor.session)]
        t == resolve_tenant(actor.user, call.arg) IN
    IF row.revoked \/ t = "forbidden" THEN Refused
    ELSE Outcome(Assign(S(actor.session), [tenant |-> t, previous |-> row.token, token |-> Fresh(r)]), {}, t)

set_password(r, u) == Assign(U(u), [hash |-> <<r, "new">>, fails |-> 0, locked |-> 0])

change_password(r, actor, call) ==
    IF db[U(actor.user)].hash[1] # call.arg THEN Refused
    ELSE Outcome(set_password(r, actor.user), {SessionsOf(actor.user, None)}, DefaultTenant[actor.user])

\* request_password_reset; the link is mailed, and a failure to mail it is only logged.
forgot_password(r, call) ==
    IF ~db[U(call.user)].exists THEN Refused
    ELSE Outcome(Assign(L(r), [user |-> call.user, expires |-> clock + 1]), {}, DefaultTenant[call.user])

\* A reset that signs out of the default tenant only.
reset_password_one_tenant(r, call) ==
    LET link == db[L(call.arg)] IN
    IF link.user = None \/ link.used \/ link.expires <= clock THEN Refused
    ELSE Outcome(set_password(r, link.user) ++ Assign(L(call.arg), [used |-> TRUE]),
                 {SessionsOf(link.user, DefaultTenant[link.user])}, DefaultTenant[link.user])

reset_password(r, call) ==
    LET link == db[L(call.arg)] IN
    IF link.user = None \/ link.used \/ link.expires <= clock THEN Refused
    ELSE Outcome(set_password(r, link.user) ++ Assign(L(call.arg), [used |-> TRUE]),
                 {SessionsOf(link.user, None)}, DefaultTenant[link.user])

mfa_begin_setup(r, actor) ==
    IF db[U(actor.user)].mfa THEN Refused ELSE Outcome(Assign(U(actor.user), [secret |-> r]), {}, None)

mfa_enable(actor) ==
    IF db[U(actor.user)].mfa \/ db[U(actor.user)].secret = None THEN Refused
    ELSE Outcome(Assign(U(actor.user), [mfa |-> TRUE]), {}, DefaultTenant[actor.user])

mfa_disable(actor) ==
    IF ~db[U(actor.user)].mfa THEN Refused
    ELSE Outcome(Assign(U(actor.user), [mfa |-> FALSE, secret |-> None]), {}, DefaultTenant[actor.user])

can_assign(role, target) == target # "platform_admin" /\ Rank[role] >= Rank[target]
ActorRole(actor) == IF actor.role = "platform_admin" THEN "tenant_admin" ELSE actor.role

create_api_token(r, actor, call) ==
    IF actor.session = None \/ ~can_assign(ActorRole(actor), call.arg) THEN Refused
    ELSE Outcome(Assign(K(r), [user |-> actor.user, tenant |-> actor.tenant, role |-> call.arg]), {}, actor.tenant)

revoke_api_token(actor, call) ==
    LET token == db[K(call.arg)] IN
    IF token.user # actor.user \/ token.tenant # actor.tenant THEN Refused
    ELSE Outcome(Assign(K(call.arg), [revoked |-> TRUE]), {}, token.tenant)

Admins(t) == Cardinality({u \in Users : db[M(u, t)].role = "tenant_admin" /\ db[M(u, t)].active})
check_can_add_user(t) == Cardinality({u \in Users : db[M(u, t)].role # "none" /\ db[M(u, t)].active}) < MaxUsers

create_user(r, actor, call) ==
    LET u == call.user
        t == actor.tenant
        invited == Assign(U(u), [exists |-> TRUE]) ++ Assign(L(r), [user |-> u, expires |-> clock + Ttl]) IN
    IF ~can_assign(ActorRole(actor), call.arg) \/ ~check_can_add_user(t) \/ db[M(u, t)].role # "none" THEN Refused
    ELSE Outcome(Assign(M(u, t), [role |-> call.arg, active |-> TRUE]) ++ (IF db[U(u)].exists THEN <<>> ELSE invited), {}, t)

LastAdmin(u, t) == db[M(u, t)].role = "tenant_admin" /\ Admins(t) <= 1

\* An update that counts the administrators only when it changes a role.
update_user_unchecked(actor, call) ==
    LET u == call.user
        t == actor.tenant
        m == db[M(u, t)] IN
    IF m.role = "none" \/ call.arg \in Role \/ m.active = (call.arg = "active") \/ u = actor.user THEN Refused
    ELSE Outcome(Assign(M(u, t), [active |-> ~m.active]), IF m.active THEN {SessionsOf(u, t)} ELSE {}, t)

\* The change asked for is a role, or "active" or "inactive".
update_user(actor, call) ==
    LET u == call.user
        t == actor.tenant
        m == db[M(u, t)] IN
    IF m.role = "none" THEN Refused
    ELSE IF call.arg \in Role
    THEN IF call.arg = m.role THEN Outcome(<<>>, {}, t)
         ELSE IF ~can_assign(ActorRole(actor), call.arg) \/ ~can_assign(ActorRole(actor), m.role) \/ LastAdmin(u, t) THEN Refused
         ELSE Outcome(Assign(M(u, t), [role |-> call.arg]), {SessionsOf(u, t)}, t)
    ELSE IF m.active = (call.arg = "active") THEN Outcome(<<>>, {}, t)
    ELSE IF u = actor.user \/ (m.active /\ LastAdmin(u, t)) THEN Refused
    ELSE Outcome(Assign(M(u, t), [active |-> ~m.active]), IF m.active THEN {SessionsOf(u, t)} ELSE {}, t)

reset_mfa(actor, call) ==
    LET u == call.user
        t == actor.tenant
        shared == u \in PlatformAdmins \/ \E o \in Tenants \ {t} : db[M(u, o)].role # "none" IN
    IF db[M(u, t)].role = "none" \/ u = actor.user \/ ~db[U(u)].mfa THEN Refused
    ELSE IF ~actor.platform /\ (~can_assign(ActorRole(actor), db[M(u, t)].role) \/ shared) THEN Refused
    ELSE Outcome(Assign(U(u), [mfa |-> FALSE, secret |-> None]), {SessionsOf(u, None)}, t)

remove_user(actor, call) ==
    LET u == call.user
        t == actor.tenant IN
    IF \/ db[M(u, t)].role = "none" \/ u = actor.user \/ LastAdmin(u, t)
       \/ ~can_assign(ActorRole(actor), db[M(u, t)].role) THEN Refused
    ELSE Outcome(Assign(M(u, t), [role |-> "none", active |-> FALSE]), {SessionsOf(u, t)}, t)

\* PATCH /tenants: the members' sessions in a suspended tenant end with it.
update_tenant(actor, call) ==
    LET t == call.tenant IN
    IF call.arg = "suspended" /\ t = actor.tenant THEN Refused
    ELSE Outcome(Assign(T(t), [status |-> call.arg]),
                 IF call.arg = "suspended" /\ db[T(t)].status = "active"
                 THEN {SessionsOf(u, t) : u \in {u \in Users : db[M(u, t)].role # "none"}} ELSE {}, t)

-----------------------------------------------------------------------------
(* One request: the caller is recognised in a transaction of its own, then *)
(* the handler reads, writes and commits.                                  *)

Bearer(session, token) == [session |-> session, token |-> token]

resolve_api_token(k) == db[K(k)].user # None /\ ~db[K(k)].revoked

\* The caller, or None: always with the role the member has now.
get_principal(bearer) ==
    LET row == IF bearer.session # None THEN db[S(bearer.session)] ELSE db[K(bearer.token)]
        u == row.user
        t == row.tenant
        admin == u \in PlatformAdmins
        member == IF t = None THEN FALSE ELSE active_membership(u, t)
        own == IF admin THEN "platform_admin" ELSE db[M(u, t)].role IN
    IF u = None \/ row.revoked THEN None
    ELSE IF ~admin /\ ~member THEN None
    ELSE IF bearer.session = None
    THEN [user |-> u, session |-> None, tenant |-> t, role |-> IF Rank[row.role] <= Rank[own] THEN row.role ELSE own, platform |-> FALSE]
    ELSE IF row.absolute <= clock THEN None
    ELSE [user |-> u, session |-> bearer.session, tenant |-> t, role |-> own, platform |-> admin]

\* require, require_tenant and interactive_principal.
Permitted(actor, kind) ==
    /\ actor # None
    /\ kind \in Interactive => actor.session # None
    /\ kind \in UsersWrite => Rank[actor.role] >= Rank["tenant_admin"] /\ actor.tenant # None
    /\ kind = "create_token" => actor.tenant # None
    /\ kind = "update_tenant" => actor.role = "platform_admin"

Handled(r, actor, call) ==
    CASE call.kind = "login" -> authenticate(r, call)
      [] call.kind = "mfa_verify" -> complete_mfa(r, call)
      [] call.kind = "refresh" -> refresh(r, call)
      [] call.kind = "forgot" -> forgot_password(r, call)
      [] call.kind = "reset" -> reset_password(r, call)
      [] call.kind = "logout" -> logout(actor)
      [] call.kind = "switch_tenant" -> switch_tenant(r, actor, call)
      [] call.kind = "change_password" -> change_password(r, actor, call)
      [] call.kind = "mfa_setup" -> mfa_begin_setup(r, actor)
      [] call.kind = "mfa_enable" -> mfa_enable(actor)
      [] call.kind = "mfa_disable" -> mfa_disable(actor)
      [] call.kind = "create_token" -> create_api_token(r, actor, call)
      [] call.kind = "revoke_token" -> revoke_api_token(actor, call)
      [] call.kind = "create_user" -> create_user(r, actor, call)
      [] call.kind = "update_user" -> update_user(actor, call)
      [] call.kind = "reset_mfa" -> reset_mfa(actor, call)
      [] call.kind = "remove_user" -> remove_user(actor, call)
      [] call.kind = "update_tenant" -> update_tenant(actor, call)

\* Rows a request has locked: those it selected FOR UPDATE, and once it has written, those too.
ForUpdate(call) ==
    CASE call.kind = "refresh" -> {S(s) : s \in Holding("token", call.arg)}
      [] call.kind = "reset" -> {L(call.arg)}
      [] OTHER -> {}
Locked(r) ==
    IF request[r].phase = "written" THEN RowsOf(request[r].out.writes) \union request[r].out.held
    ELSE IF request[r].phase = "read" THEN request[r].out.held ELSE {}
Free(rows, r) == \A o \in Requests \ {r} : rows \intersect Locked(o) = {}

Written(r) == RowsOf(request[r].out.writes)
UnderWay == {r \in Requests : request[r].phase \in {"checked", "read", "written"}}
Reading == {r \in UnderWay : request[r].phase # "checked"}

\* The handler's reads; a SELECT ... FOR UPDATE waits for whoever holds the row and then reads it anew.
Read(r, actor, call) ==
    LET out == Handled(r, actor, call) IN
    /\ Free(ForUpdate(call), r)
    /\ request' = [request EXCEPT ![r] =
           IF out = Refused THEN Done
           ELSE [phase |-> "read", call |-> call, actor |-> actor,
                 out |-> [writes |-> out.writes, revoke |-> out.revoke, chain |-> out.chain, held |-> ForUpdate(call),
                          entry |-> None]]]

Arrive(r, call) ==
    /\ request[r].phase = "idle" /\ (r > 1 => request[r - 1].phase # "idle")
    /\ Cardinality(UnderWay) < MaxUnderWay
    /\ IF call.kind \in Open THEN Read(r, None, call)
       ELSE LET actor == get_principal(call.bearer) IN
            request' = [request EXCEPT ![r] =
                IF Permitted(actor, call.kind) THEN [Idle EXCEPT !.phase = "checked", !.call = call, !.actor = actor] ELSE Done]
    /\ UNCHANGED <<clock, agenda, db, audit, entries, mishaps>>

Handle(r) ==
    /\ request[r].phase = "checked"
    /\ Read(r, request[r].actor, request[r].call)
    /\ UNCHANGED <<clock, agenda, db, audit, entries, mishaps>>

\* The row to insert exists by now, or the row to update is gone: the flush fails.
Clash(r) ==
    LET call == request[r].call
        row == db[M(call.user, request[r].actor.tenant)] IN
    \/ call.kind = "create_user" /\ (row.role # "none" \/ (U(call.user) \in Written(r) /\ db[U(call.user)].exists))
    \/ call.kind = "update_user" /\ Written(r) # {} /\ row.role = "none"

\* record without pg_advisory_xact_lock.
ChainFreeUnlocked(r) == TRUE

\* pg_advisory_xact_lock: one transaction at a time between an append and its commit.
ChainFree(r) ==
    request[r].out.chain # None =>
        \A o \in Requests \ {r} : request[o].phase = "written" => request[o].out.chain # request[r].out.chain

\* record: the number and the hash link come from the last committed entry.
Entry(chain) ==
    [id |-> entries + 1, seq |-> Len(chain) + 1, prev |-> IF chain = <<>> THEN 0 ELSE chain[Len(chain)].id]

\* The flush: changed columns, UPDATE ... WHERE over the sessions committed so far, the audit entry.
Write(r) ==
    LET out == request[r].out
        revoked == {s \in Sessions : \E where \in out.revoke : Matches(s, where)}
        writes == [x \in {<<S(s), "revoked">> : s \in revoked} |-> TRUE] ++ out.writes IN
    /\ request[r].phase = "read" /\ ~Clash(r) /\ ChainFree(r)
    /\ Free(RowsOf(writes), r)
    /\ request' = [request EXCEPT ![r] = [request[r] EXCEPT !.phase = "written", !.out =
           [out EXCEPT !.writes = writes, !.entry = IF out.chain = None THEN None ELSE Entry(audit[out.chain])]]]
    /\ entries' = IF out.chain = None THEN entries ELSE entries + 1
    /\ UNCHANGED <<clock, agenda, db, audit, mishaps>>

MemberChange == {"update_user", "remove_user"}
SetsPassword(r, u) == <<U(u), "hash">> \in DOMAIN request[r].out.writes /\ request[r].out.writes[<<U(u), "hash">>][1] = r
SigningIn(u) ==
    \/ \E o \in Reading : request[o].call.kind = "login" /\ request[o].call.user = u
    \/ \E c \in Requests : db[C(c)].user = u /\ db[C(c)].expires > clock
    \/ \E o \in Reading : request[o].call.kind = "mfa_verify"

Overlaps(r) ==
    {"sign_in" : u \in {u \in Users : SetsPassword(r, u) /\ SigningIn(u)}}
        \union {"members" : o \in {o \in Reading \ {r} : request[o].call.kind \in MemberChange
                                                        /\ request[r].call.kind \in MemberChange}}

\* The chain is read in the order of the entries' ids, whenever they were committed.
Inserted(chain, entry) ==
    LET n == Cardinality({i \in DOMAIN chain : chain[i].id < entry.id}) IN
    SubSeq(chain, 1, n) \o <<entry>> \o SubSeq(chain, n + 1, Len(chain))

Commit(r) ==
    LET out == request[r].out IN
    /\ request[r].phase = "written"
    /\ db' = Applied(db, out.writes)
    /\ audit' = IF out.chain = None THEN audit ELSE [audit EXCEPT ![out.chain] = Inserted(audit[out.chain], out.entry)]
    /\ mishaps' = mishaps \union Overlaps(r)
    /\ request' = [request EXCEPT ![r] = Done]
    /\ UNCHANGED <<clock, agenda, entries>>

\* The transaction is rolled back: the client is gone, the database fails, the flush is refused.
Rollback(r) ==
    /\ request[r].phase = "written" \/ (request[r].phase = "read" /\ Clash(r))
    /\ request' = [request EXCEPT ![r] = Done]
    /\ UNCHANGED <<clock, agenda, db, audit, entries, mishaps>>

TimePasses ==
    /\ "time" \in agenda /\ clock < MaxClock
    /\ clock' = clock + 1
    /\ UNCHANGED <<agenda, db, audit, entries, request, mishaps>>

-----------------------------------------------------------------------------
Opened == {s \in Sessions : db[S(s)].user # None}
Bearers == {Bearer(s, None) : s \in Opened} \union {Bearer(None, k) : k \in {k \in Requests : db[K(k)].user # None}}

UsersFor(kind) == IF kind \in UsersWrite \union {"login", "forgot"} THEN Users ELSE {None}
ArgsFor(kind, bearer, u) ==
    CASE kind = "login" -> {0, db[U(u)].hash[1]} \ {None}
      [] kind = "change_password" -> IF bearer.session = None THEN {} ELSE {db[U(db[S(bearer.session)].user)].hash[1]}
      [] kind = "mfa_verify" -> {c \in Requests : db[C(c)].user # None}
      [] kind = "refresh" -> ({db[S(s)].token : s \in Opened} \union {db[S(s)].previous : s \in Opened}) \ {0}
      [] kind = "reset" -> {l \in Requests : db[L(l)].user # None}
      [] kind = "switch_tenant" -> Tenants
      [] kind \in {"create_token", "create_user"} -> {"viewer", "tenant_admin"}
      [] kind = "revoke_token" -> {k \in Requests : db[K(k)].user # None}
      [] kind = "update_user" -> {"viewer", "tenant_admin", "active", "inactive"}
      [] kind = "update_tenant" -> {"suspended", "active"}
      [] OTHER -> {None}

AccountsNext ==
    \/ TimePasses
    \/ \E r \in Requests :
        \/ Handle(r) \/ Write(r) \/ Commit(r) \/ Rollback(r)
        \/ \E kind \in agenda \ {"time"}, wrong \in BOOLEAN :
            \E bearer \in IF kind \in Open THEN {None} ELSE Bearers, u \in UsersFor(kind),
               t \in IF kind = "update_tenant" THEN Tenants ELSE {None} :
                \E arg \in ArgsFor(kind, bearer, u) :
                    /\ wrong => kind = "mfa_verify"
                    /\ Arrive(r, [kind |-> kind, bearer |-> bearer, user |-> u, tenant |-> t, arg |-> arg, wrong |-> wrong])

AccountsSpec == AccountsInit /\ [][AccountsNext]_accounts

-----------------------------------------------------------------------------
(* After a password was changed or reset, every session that is still      *)
(* honoured proved the password in force, unless a sign-in was already     *)
(* under way or waited for its second factor when the password changed     *)
(* (change_password and reset_password, with revoke_user_sessions).  A     *)
(* request that read its session before it was revoked does not bring it   *)
(* back: it writes the columns it changed (switch_tenant, refresh).        *)
PasswordEndsSessions ==
    "sign_in" \notin mishaps =>
        \A s \in Opened : ~db[S(s)].revoked => db[S(s)].password = db[U(db[S(s)].user)].hash[1]

(* A tenant that has an administrator keeps one, unless two changes of its *)
(* members overlapped: the count is taken without a lock (_admins in       *)
(* update_user and remove_user).                                           *)
AdministratorRemains ==
    "members" \notin mishaps =>
        \A t \in Tenants : (\E u \in Users : GivenMember[u][t] = "tenant_admin") => Admins(t) >= 1

(* check_chain finds every audit chain intact, however the transactions    *)
(* that append to it interleave and whichever are rolled back (record).    *)
ChainIntact ==
    \A t \in Chains : \A i \in DOMAIN audit[t] :
        /\ audit[t][i].seq = i
        /\ audit[t][i].prev = IF i = 1 THEN 0 ELSE audit[t][i - 1].id

(* What ChainIntact rests on: at most one transaction has an entry for a    *)
(* chain that is not committed, it follows on the last one that is, and its *)
(* id is larger than any before it.                                         *)
LastId(chain) == IF chain = <<>> THEN 0 ELSE chain[Len(chain)].id
Appends(r, t) == request[r].phase = "written" /\ request[r].out.chain = t /\ t # None

\* The entry comes next in the chain, of the ids given so far.
Continues(entry, chain, given) ==
    /\ entry \in [id : 0..given, seq : {Len(chain) + 1}, prev : {LastId(chain)}]
    /\ \A i \in DOMAIN chain : chain[i].id < entry.id

HasOutcome(req) == /\ {"phase", "call", "actor", "out"} \subseteq DOMAIN req
                 /\ {"writes", "revoke", "chain", "held", "entry"} \subseteq DOMAIN req.out

ChainInv ==
    /\ entries \in Nat /\ DOMAIN request = Requests
    /\ audit \in [Chains -> Seq([id : Nat, seq : Nat, prev : Nat])]
    /\ \A t \in Chains : \A i \in DOMAIN audit[t] : audit[t][i].id <= entries
    /\ \A r \in Requests : request[r].phase = "read" => HasOutcome(request[r])
    /\ \A r \in Requests, t \in Chains : Appends(r, t) => Continues(request[r].out.entry, audit[t], entries)
    /\ \A r, o \in Requests, t \in Chains : Appends(r, t) /\ Appends(o, t) => r = o
    /\ ChainIntact

(* What AdministratorRemains rests on: only the three member operations     *)
(* write a member's row, one each, locked until they commit; one that adds  *)
(* a member finds none there, and one that changes or removes an            *)
(* administrator has counted another, which is still there if no other      *)
(* change has been committed meanwhile.                                     *)
MemberWrites(r) == RowsOf(request[r].out.writes) \intersect MemberRows
ActiveAdmin(u, t) == db[M(u, t)].role = "tenant_admin" /\ db[M(u, t)].active
LeavesAnother(row) ==
    \A u \in Users, t \in Tenants : row = M(u, t) =>
        /\ db[row].role # "none"
        /\ ActiveAdmin(u, t) => \E o \in Users \ {u} : ActiveAdmin(o, t)

RequestInv(r) ==
    /\ request[r].phase = "checked" => request[r].call.kind \in RequestKinds
    /\ request[r].phase \in {"read", "written"} =>
        /\ HasOutcome(request[r])
        /\ MemberWrites(r) \subseteq IF request[r].call.kind \in MemberChange \union {"create_user"}
                                     THEN {M(request[r].call.user, request[r].actor.tenant)} ELSE {}
        /\ request[r].call.kind \in MemberChange /\ "members" \notin mishaps => \A row \in MemberWrites(r) : LeavesAnother(row)
    /\ request[r].phase = "written" /\ request[r].call.kind = "create_user" => \A row \in MemberWrites(r) : db[row].role = "none"

AdminInv ==
    /\ agenda \in Agendas /\ DOMAIN request = Requests
    /\ \A row \in MemberRows : row \in DOMAIN db /\ {"role", "active"} \subseteq DOMAIN db[row]
    /\ \A r \in Requests : RequestInv(r)
    /\ \A r, o \in Requests : r # o /\ request[r].phase = "written" /\ request[o].phase = "written" =>
        MemberWrites(r) \intersect MemberWrites(o) = {}
    /\ "members" \notin mishaps =>
        \A t \in Tenants : (\E u \in Users : GivenMember[u][t] = "tenant_admin") => \E u \in Users : ActiveAdmin(u, t)

(* What PasswordEndsSessions rests on: a sign-in fills a session and a      *)
(* challenge of its own, which nobody else touches, with the password it    *)
(* has verified, and locks the user's row before its session is there; who  *)
(* sets a password revokes the sessions that were there when it locked that *)
(* row, and nothing brings a revoked session back.                          *)
SignsIn == {"login", "mfa_verify"}
Untouched(r) ==
    /\ db[S(Fresh(r))].user = None /\ db[S(Fresh(r))].password = 0
    /\ db[C(r)].user = None /\ db[C(r)].password = 0
    /\ \A u \in Users : db[U(u)].last_login # r

\* Who writes the columns in question, and what.
Columns(r, call, w) ==
    /\ \A s \in Sessions : {<<S(s), "user">>, <<S(s), "password">>} \intersect DOMAIN w # {} => call.kind \in SignsIn /\ s = Fresh(r)
    /\ \A s \in Sessions : <<S(s), "revoked">> \in DOMAIN w => w[<<S(s), "revoked">>] = TRUE
    /\ \A c \in Requests : C(c) \in RowsOf(w) => call.kind = "login" /\ c = r
    /\ <<C(r), "expires">> \in DOMAIN w => w[<<C(r), "expires">>] \in Nat
    /\ \A u \in Users : <<U(u), "last_login">> \in DOMAIN w => w[<<U(u), "last_login">>] = r
    /\ \A u \in Users : <<U(u), "hash">> \in DOMAIN w =>
        \/ call.kind = "login" /\ u = call.user
        \/ call.kind \in {"change_password", "reset"} /\ w[<<U(u), "hash">>][1] = r

\* The password in the row a sign-in writes: the column is left alone if it stays 0.
PasswordIn(w, row) == IF <<row, "password">> \in DOMAIN w THEN w[<<row, "password">>] ELSE 0
Verified(r, call, w) ==
    /\ \A row \in {S(Fresh(r)), C(r)} : <<row, "user">> \in DOMAIN w =>
        /\ w[<<row, "user">>] \in Users /\ (call.kind = "login" => w[<<row, "user">>] = call.user)
        /\ row = S(Fresh(r)) => U(w[<<row, "user">>]) \in RowsOf(w)
        /\ "sign_in" \notin mishaps => PasswordIn(w, row) = db[U(w[<<row, "user">>])].hash[1]
    /\ "sign_in" \notin mishaps /\ call.kind = "login" =>
        \A u \in Users : <<U(u), "hash">> \in DOMAIN w => w[<<U(u), "hash">>][1] = db[U(u)].hash[1]

\* What holds of the request r in the state q.
ResetsHash(q, u) == q.call.kind # "login" /\ <<U(u), "hash">> \in DOMAIN q.out.writes
PasswordRequest(r, q) ==
    /\ q.phase # "done" => Untouched(r)
    /\ q.phase = "checked" => q.call.kind \in RequestKinds \ Open
    /\ q.phase \in {"read", "written"} => HasOutcome(q) /\ Columns(r, q.call, q.out.writes) /\ Verified(r, q.call, q.out.writes)
    /\ q.phase = "read" => \A u \in Users : ResetsHash(q, u) => SessionsOf(u, None) \in q.out.revoke
    /\ q.phase = "written" =>
        \A u \in Users : ResetsHash(q, u) =>
            \A s \in Opened : db[S(s)].user = u /\ ~db[S(s)].revoked => <<S(s), "revoked">> \in DOMAIN q.out.writes

PasswordInv ==
    /\ clock \in Nat /\ agenda \in Agendas /\ DOMAIN request = Requests
    /\ \A u \in Users : U(u) \in DOMAIN db /\ {"hash", "last_login"} \subseteq DOMAIN db[U(u)]
    /\ \A s \in Sessions : S(s) \in DOMAIN db /\ {"user", "password", "revoked"} \subseteq DOMAIN db[S(s)]
    /\ \A c \in Requests : C(c) \in DOMAIN db /\ {"user", "password", "expires"} \subseteq DOMAIN db[C(c)]
    /\ \A s \in Opened : db[S(s)].user \in Users
    /\ \A c \in Requests : db[C(c)].user \in Users \union {None} /\ db[C(c)].expires \in Nat
    /\ \A r \in Requests : PasswordRequest(r, request[r])
    /\ \A r, o \in Requests : r # o /\ request[r].phase = "written" /\ request[o].phase = "written" => Written(r) \intersect Written(o) = {}
    /\ "sign_in" \notin mishaps =>
        \A c \in Requests : db[C(c)].user # None /\ db[C(c)].expires > clock => db[C(c)].password = db[U(db[C(c)].user)].hash[1]
    /\ PasswordEndsSessions

=============================================================================
