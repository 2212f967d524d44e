-------------------------- MODULE PasswordsProofs --------------------------
(***************************************************************************)
(* A new password ends the sessions of the old one, for any users, tenants *)
(* and number of requests.                                                 *)
(*                                                                         *)
(* Three kinds of requests matter: those that set a password (Sets), those *)
(* that sign somebody in (SignsIn) and all others (Plain).  PasswordInv    *)
(* says of each what its writes hold from the read to the commit: a setter *)
(* revokes every session it leaves behind; a sign-in fills a session or a  *)
(* challenge nobody else touches, with the password it verified, which is  *)
(* still the user's unless the two overlapped.                             *)
(***************************************************************************)
EXTENDS Accounts, TLAPS

\* Keys of what a request writes.
LEMMA AssignKeys ==
  ASSUME NEW row, NEW columns
  PROVE  /\ \A x \in DOMAIN Assign(row, columns) : \E c \in DOMAIN columns : x = <<row, c>>
         /\ \A c \in DOMAIN columns : <<row, c>> \in DOMAIN Assign(row, columns) /\ Assign(row, columns)[<<row, c>>] = columns[c]
<1>1. \A x \in DOMAIN Assign(row, columns) : \E c \in DOMAIN columns : x = <<row, c>>
  BY Zenon DEF Assign
<1>2. ASSUME NEW c \in DOMAIN columns
      PROVE  <<row, c>> \in DOMAIN Assign(row, columns) /\ Assign(row, columns)[<<row, c>>] = columns[c]
  <2>1. <<row, c>> \in DOMAIN Assign(row, columns) /\ Assign(row, columns)[<<row, c>>] = columns[<<row, c>>[2]]
    BY Zenon DEF Assign
  <2>2. <<row, c>>[2] = c
    OBVIOUS
  <2> QED
    BY <2>1, <2>2, Zenon
<1> QED
  BY <1>1, <1>2, Zenon

LEMMA AssignKey ==
  ASSUME NEW row, NEW columns, NEW k, NEW c
  PROVE  <<k, c>> \in DOMAIN Assign(row, columns) <=> k = row /\ c \in DOMAIN columns
BY AssignKeys

LEMMA KeyRow == \A w, k, c : <<k, c>> \in DOMAIN w => k \in RowsOf(w)
<1>1. \A k, c : <<k, c>>[1] = k
  OBVIOUS
<1> QED
  BY <1>1, Zenon DEF RowsOf

LEMMA DirtyKeys ==
  ASSUME NEW rows, NEW w, NEW k, NEW c
  PROVE  /\ <<k, c>> \in DOMAIN Dirty(rows, w) <=> <<k, c>> \in DOMAIN w /\ rows[k][c] # w[<<k, c>>]
         /\ <<k, c>> \in DOMAIN Dirty(rows, w) => Dirty(rows, w)[<<k, c>>] = w[<<k, c>>]
<1>1. <<k, c>>[1] = k /\ <<k, c>>[2] = c
  OBVIOUS
<1> QED
  BY <1>1, Zenon DEF Dirty

LEMMA OverKeys ==
  ASSUME NEW f, NEW g
  PROVE  /\ DOMAIN (f ++ g) = DOMAIN f \union DOMAIN g
         /\ \A x \in DOMAIN f : (f ++ g)[x] = f[x]
         /\ \A x \in DOMAIN g : x \notin DOMAIN f => (f ++ g)[x] = g[x]
BY Zenon DEF ++

LEMMA RowKinds ==
  /\ \A s, c, u : S(s) # C(c) /\ S(s) # U(u) /\ C(c) # U(u)
  /\ \A x, s : S(s) # L(x) /\ S(s) # K(x) /\ S(s) # T(x) /\ C(s) # L(x) /\ C(s) # K(x) /\ C(s) # T(x)
  /\ \A x, s : U(s) # L(x) /\ U(s) # K(x) /\ U(s) # T(x)
  /\ \A x, y, s : S(s) # M(x, y) /\ C(s) # M(x, y) /\ U(s) # M(x, y)
  /\ \A s, o : (S(s) = S(o) <=> s = o) /\ (C(s) = C(o) <=> s = o) /\ (U(s) = U(o) <=> s = o)
<1>1. /\ \A s, c, u : S(s) # C(c) /\ S(s) # U(u) /\ C(c) # U(u)
      /\ \A x, s : S(s) # L(x) /\ S(s) # K(x) /\ S(s) # T(x) /\ C(s) # L(x) /\ C(s) # K(x) /\ C(s) # T(x)
  BY DEF S, C, U, L, K, T
<1>2. /\ \A x, s : U(s) # L(x) /\ U(s) # K(x) /\ U(s) # T(x)
      /\ \A s, o : (S(s) = S(o) <=> s = o) /\ (C(s) = C(o) <=> s = o) /\ (U(s) = U(o) <=> s = o)
  BY DEF S, C, U, L, K, T
<1>3. \A x, y, s : S(s) # M(x, y) /\ C(s) # M(x, y) /\ U(s) # M(x, y)
  BY DEF S, C, U, M
<1> QED
  BY <1>1, <1>2, <1>3, Zenon

\* Writes that sign nobody in and set no password.
Plain(w) ==
  /\ \A s \in Sessions : /\ <<S(s), "user">> \notin DOMAIN w /\ <<S(s), "password">> \notin DOMAIN w
                         /\ <<S(s), "revoked">> \in DOMAIN w => w[<<S(s), "revoked">>] = TRUE
  /\ \A c \in Requests : C(c) \notin RowsOf(w)
  /\ \A u \in Users : <<U(u), "hash">> \notin DOMAIN w /\ <<U(u), "last_login">> \notin DOMAIN w

LEMMA AssignRows ==
  ASSUME NEW row, NEW columns
  PROVE  RowsOf(Assign(row, columns)) \subseteq {row}
<1>1. \A c : <<row, c>>[1] = row
  OBVIOUS
<1>2. \A x \in DOMAIN Assign(row, columns) : x[1] = row
  BY <1>1, AssignKeys
<1> QED
  BY <1>2, Zenon DEF RowsOf

LEMMA DirtyRows ==
  ASSUME NEW rows, NEW writes
  PROVE  RowsOf(Dirty(rows, writes)) \subseteq RowsOf(writes)
BY Zenon DEF RowsOf, Dirty

LEMMA OverRows ==
  ASSUME NEW f, NEW g
  PROVE  RowsOf(f ++ g) = RowsOf(f) \union RowsOf(g)
<1>1. DOMAIN (f ++ g) = DOMAIN f \union DOMAIN g
  BY Zenon DEF ++
<1> QED
  BY <1>1 DEF RowsOf

LEMMA PlainWrites ==
  /\ Plain(<<>>)
  /\ \A x, columns : Plain(Assign(L(x), columns)) /\ Plain(Assign(K(x), columns)) /\ Plain(Assign(T(x), columns))
  /\ \A x, y, columns : Plain(Assign(M(x, y), columns))
  /\ \A s, columns : {"user", "password"} \intersect DOMAIN columns = {} /\ ("revoked" \in DOMAIN columns => columns["revoked"] = TRUE)
                        => Plain(Assign(S(s), columns))
  /\ \A u, columns : {"hash", "last_login"} \intersect DOMAIN columns = {} => Plain(Assign(U(u), columns))
  /\ \A f, g : Plain(f) /\ Plain(g) => Plain(f ++ g)
  /\ \A rows, f : Plain(f) => Plain(Dirty(rows, f))
<1>1. Plain(<<>>)
  <2>1. DOMAIN <<>> = {}
    OBVIOUS
  <2> QED
    BY <2>1, Zenon DEF Plain, RowsOf
<1>2. ASSUME NEW row, NEW columns, \A s : row # S(s) /\ row # C(s) /\ row # U(s) PROVE Plain(Assign(row, columns))
  <2>1. \A k, c : <<k, c>> \in DOMAIN Assign(row, columns) => k = row
    BY AssignKey, Zenon
  <2>2. RowsOf(Assign(row, columns)) \subseteq {row}
    BY AssignRows, Zenon
  <2> QED
    BY <1>2, <2>1, <2>2, Zenon DEF Plain
<1>3. ASSUME NEW s, NEW columns, {"user", "password"} \intersect DOMAIN columns = {}, "revoked" \in DOMAIN columns => columns["revoked"] = TRUE
      PROVE  Plain(Assign(S(s), columns))
  <2>1. \A k, c : <<k, c>> \in DOMAIN Assign(S(s), columns) => k = S(s) /\ c \in DOMAIN columns
    BY AssignKey, Zenon
  <2>2. RowsOf(Assign(S(s), columns)) \subseteq {S(s)}
    BY AssignRows, Zenon
  <2>3. "revoked" \in DOMAIN columns => Assign(S(s), columns)[<<S(s), "revoked">>] = columns["revoked"]
    BY AssignKeys, ZenonT(60)
  <2> QED
    BY <1>3, <2>1, <2>2, <2>3, RowKinds DEF Plain
<1>4. ASSUME NEW u, NEW columns, {"hash", "last_login"} \intersect DOMAIN columns = {} PROVE Plain(Assign(U(u), columns))
  <2>1. \A k, c : <<k, c>> \in DOMAIN Assign(U(u), columns) => k = U(u) /\ c \in DOMAIN columns
    BY AssignKey, Zenon
  <2>2. RowsOf(Assign(U(u), columns)) \subseteq {U(u)}
    BY AssignRows, Zenon
  <2> QED
    BY <1>4, <2>1, <2>2, RowKinds DEF Plain
<1>5. ASSUME NEW f, NEW g, Plain(f), Plain(g) PROVE Plain(f ++ g)
  <2>1. /\ DOMAIN (f ++ g) = DOMAIN f \union DOMAIN g
        /\ \A x \in DOMAIN f : (f ++ g)[x] = f[x]
        /\ \A x \in DOMAIN g : x \notin DOMAIN f => (f ++ g)[x] = g[x]
    BY OverKeys, Zenon
  <2>2. RowsOf(f ++ g) = RowsOf(f) \union RowsOf(g)
    BY OverRows, Zenon
  <2> HIDE DEF ++
  <2> QED
    BY <1>5, <2>1, <2>2, Zenon DEF Plain
<1>6. ASSUME NEW rows, NEW f, Plain(f) PROVE Plain(Dirty(rows, f))
  BY <1>6, DirtyKeys, DirtyRows DEF Plain
<1>7. \A x, columns : Plain(Assign(L(x), columns)) /\ Plain(Assign(K(x), columns)) /\ Plain(Assign(T(x), columns))
  BY <1>2, RowKinds
<1>8. \A x, y, columns : Plain(Assign(M(x, y), columns))
  BY <1>2, RowKinds
<1> QED
  BY <1>1, <1>3, <1>4, <1>5, <1>6, <1>7, <1>8, Zenon

LEMMA PlainColumns ==
  /\ \A s : Plain(Assign(S(s), [revoked |-> TRUE]))
  /\ \A s, a, b, c, d : Plain(Assign(S(s), [previous |-> a, token |-> b, expires |-> c, used |-> d]))
  /\ \A s, a, b, c : Plain(Assign(S(s), [tenant |-> a, previous |-> b, token |-> c]))
  /\ \A u, a : Plain(Assign(U(u), [secret |-> a])) /\ Plain(Assign(U(u), [mfa |-> a])) /\ Plain(Assign(U(u), [exists |-> a]))
  /\ \A u, a : Plain(Assign(U(u), [fails |-> a]))
  /\ \A u, a, b : Plain(Assign(U(u), [mfa |-> a, secret |-> b])) /\ Plain(Assign(U(u), [fails |-> a, locked |-> b]))
<1> DEFINE OfSession(columns) == {"user", "password"} \intersect DOMAIN columns = {} /\ ("revoked" \in DOMAIN columns => columns["revoked"] = TRUE)
           OfUser(columns) == {"hash", "last_login"} \intersect DOMAIN columns = {}
<1>1. \A s, columns : OfSession(columns) => Plain(Assign(S(s), columns))
  BY PlainWrites, Zenon
<1>2. \A u, columns : OfUser(columns) => Plain(Assign(U(u), columns))
  BY PlainWrites, Zenon
<1>3. OfSession([revoked |-> TRUE])
  OBVIOUS
<1>4. \A a, b, c, d : OfSession([previous |-> a, token |-> b, expires |-> c, used |-> d])
  OBVIOUS
<1>5. \A a, b, c : OfSession([tenant |-> a, previous |-> b, token |-> c])
  OBVIOUS
<1>6. \A a : OfUser([secret |-> a]) /\ OfUser([mfa |-> a]) /\ OfUser([exists |-> a]) /\ OfUser([fails |-> a])
  OBVIOUS
<1>7. \A a, b : OfUser([mfa |-> a, secret |-> b]) /\ OfUser([fails |-> a, locked |-> b])
  OBVIOUS
<1> HIDE DEF OfSession, OfUser
<1>8. \A s : Plain(Assign(S(s), [revoked |-> TRUE]))
  BY <1>1, <1>3, Zenon
<1>9. \A s, a, b, c, d : Plain(Assign(S(s), [previous |-> a, token |-> b, expires |-> c, used |-> d]))
  BY <1>1, <1>4, Zenon
<1>10. \A s, a, b, c : Plain(Assign(S(s), [tenant |-> a, previous |-> b, token |-> c]))
  BY <1>1, <1>5, Zenon
<1>11. \A u, a : Plain(Assign(U(u), [secret |-> a])) /\ Plain(Assign(U(u), [mfa |-> a])) /\ Plain(Assign(U(u), [exists |-> a]))
                /\ Plain(Assign(U(u), [fails |-> a]))
  BY <1>2, <1>6, Zenon
<1>12. \A u, a, b : Plain(Assign(U(u), [mfa |-> a, secret |-> b])) /\ Plain(Assign(U(u), [fails |-> a, locked |-> b]))
  BY <1>2, <1>7, Zenon
<1> QED
  BY <1>8, <1>9, <1>10, <1>11, <1>12, Zenon

LEMMA OutcomeParts ==
  /\ Refused.writes = <<>> /\ Refused.revoke = {}
  /\ \A w, s, t : Outcome(w, s, t).writes = Dirty(db, w) /\ Outcome(w, s, t).revoke = s
<1>1. Refused.writes = <<>> /\ Refused.revoke = {}
  BY DEF Refused
<1>2. ASSUME NEW w, NEW s, NEW t PROVE Outcome(w, s, t).writes = Dirty(db, w) /\ Outcome(w, s, t).revoke = s
  <2>1. PICK d : d = Dirty(db, w)
    OBVIOUS
  <2>2. Outcome(w, s, t) = [writes |-> d, revoke |-> s, chain |-> t]
    BY <2>1, Zenon DEF Outcome
  <2> QED
    BY <2>1, <2>2
<1> QED
  BY <1>1, <1>2, Zenon

LEMMA PlainCalls ==
  ASSUME NEW r, NEW actor, NEW call
  PROVE  /\ Plain(refresh(r, call).writes)
         /\ Plain(forgot_password(r, call).writes)
         /\ Plain(logout(actor).writes)
         /\ Plain(switch_tenant(r, actor, call).writes)
         /\ Plain(mfa_begin_setup(r, actor).writes)
         /\ Plain(mfa_enable(actor).writes)
         /\ Plain(mfa_disable(actor).writes)
         /\ Plain(create_api_token(r, actor, call).writes)
         /\ Plain(revoke_api_token(actor, call).writes)
         /\ Plain(create_user(r, actor, call).writes)
         /\ Plain(update_user(actor, call).writes)
         /\ Plain(reset_mfa(actor, call).writes)
         /\ Plain(remove_user(actor, call).writes)
         /\ Plain(update_tenant(actor, call).writes)
<1>1. /\ Plain(Refused.writes)
      /\ \A w, s, t : Plain(w) => Plain(Outcome(w, s, t).writes)
  <2>1. ASSUME NEW w, NEW s, NEW t, Plain(w) PROVE Plain(Outcome(w, s, t).writes)
    <3>1. Plain(Dirty(db, w))
      BY <2>1, PlainWrites, Zenon
    <3>2. Outcome(w, s, t).writes = Dirty(db, w)
      BY OutcomeParts, Zenon
    <3> QED
      BY <3>1, <3>2, Zenon
  <2>2. Plain(Refused.writes)
    BY OutcomeParts, PlainWrites, Zenon
  <2> QED
    BY <2>1, <2>2, Zenon
<1>2. /\ Plain(<<>>)
      /\ \A x, columns : Plain(Assign(L(x), columns)) /\ Plain(Assign(K(x), columns)) /\ Plain(Assign(T(x), columns))
      /\ \A x, y, columns : Plain(Assign(M(x, y), columns))
      /\ \A f, g : Plain(f) /\ Plain(g) => Plain(f ++ g)
  BY PlainWrites, Zenon
<1>3. Plain(refresh(r, call).writes)
  <2>1. \/ refresh(r, call) = Refused
        \/ \E s, t : refresh(r, call) = Outcome(Assign(S(s), [revoked |-> TRUE]), {}, t)
        \/ \E s, a, b, c, d : refresh(r, call) = Outcome(Assign(S(s), [previous |-> a, token |-> b, expires |-> c, used |-> d]), {}, None)
    BY Zenon DEF refresh
  <2> QED
    BY <1>1, <2>1, PlainColumns, Zenon
<1>4. Plain(forgot_password(r, call).writes)
  BY <1>1, <1>2, Zenon DEF forgot_password
<1>5. Plain(logout(actor).writes)
  BY <1>1, <1>2, Zenon DEF logout
<1>6. Plain(switch_tenant(r, actor, call).writes)
  BY <1>1, PlainColumns, Zenon DEF switch_tenant
<1>7. Plain(mfa_begin_setup(r, actor).writes)
  BY <1>1, PlainColumns, Zenon DEF mfa_begin_setup
<1>8. Plain(mfa_enable(actor).writes)
  BY <1>1, PlainColumns, Zenon DEF mfa_enable
<1>9. Plain(mfa_disable(actor).writes)
  BY <1>1, PlainColumns, Zenon DEF mfa_disable
<1>10. Plain(create_api_token(r, actor, call).writes)
  BY <1>1, <1>2, Zenon DEF create_api_token
<1>11. Plain(revoke_api_token(actor, call).writes)
  BY <1>1, <1>2, Zenon DEF revoke_api_token
<1>12. Plain(create_user(r, actor, call).writes)
  BY <1>1, <1>2, PlainColumns, Zenon DEF create_user
<1>13. Plain(update_user(actor, call).writes)
  BY <1>1, <1>2, Zenon DEF update_user
<1>14. Plain(reset_mfa(actor, call).writes)
  BY <1>1, PlainColumns, Zenon DEF reset_mfa
<1>15. Plain(remove_user(actor, call).writes)
  BY <1>1, <1>2, Zenon DEF remove_user
<1>16. Plain(update_tenant(actor, call).writes)
  BY <1>1, <1>2, Zenon DEF update_tenant
<1> QED
  BY <1>3, <1>4, <1>5, <1>6, <1>7, <1>8, <1>9, <1>10, <1>11, <1>12, <1>13, <1>14, <1>15, <1>16, ZenonT(60)

\* What PasswordInv asks of a request that has read.
Prepared(r, call, out) ==
  /\ Columns(r, call, out.writes) /\ Verified(r, call, out.writes)
  /\ call.kind # "login" => \A u \in Users : <<U(u), "hash">> \in DOMAIN out.writes => SessionsOf(u, None) \in out.revoke

LEMMA FreshSession ==
  /\ Given \in Nat /\ \A r \in Requests : Fresh(r) \in Sessions
  /\ \A r, o \in Requests : Fresh(r) = Fresh(o) => r = o
<1>1. Given \in Nat /\ MaxRequests \in Nat
  BY AccountsAssumption DEF Given
<1> HIDE DEF Given
<1> QED
  BY <1>1 DEF Fresh, Sessions, Requests

LEMMA PlainPrepared ==
  ASSUME NEW r \in Requests, NEW call, NEW out, Plain(out.writes)
  PROVE  Prepared(r, call, out)
<1> PICK w : w = out.writes
  OBVIOUS
<1>1. Plain(w)
  OBVIOUS
<1>2. Fresh(r) \in Sessions
  BY FreshSession, Zenon
<1>3. \A row, c : <<row, c>> \in DOMAIN w => row \in RowsOf(w)
  BY KeyRow, Zenon
<1>4. Columns(r, call, w)
  BY <1>1, <1>3, Zenon DEF Plain, Columns
<1>5. Verified(r, call, w)
  BY <1>1, <1>2, <1>3, Zenon DEF Plain, Verified
<1> QED
  BY <1>1, <1>4, <1>5, Zenon DEF Plain, Prepared

\* Setting a password, with whatever else is written that signs nobody in.
Sets(r, u, w) ==
  /\ \A s \in Sessions : /\ <<S(s), "user">> \notin DOMAIN w /\ <<S(s), "password">> \notin DOMAIN w
                         /\ <<S(s), "revoked">> \in DOMAIN w => w[<<S(s), "revoked">>] = TRUE
  /\ \A c \in Requests : C(c) \notin RowsOf(w)
  /\ \A v \in Users : /\ <<U(v), "last_login">> \notin DOMAIN w
                      /\ <<U(v), "hash">> \in DOMAIN w => v = u /\ w[<<U(v), "hash">>] = <<r, "new">>

LEMMA SetsWrites ==
  ASSUME NEW r, NEW u
  PROVE  /\ Sets(r, u, set_password(r, u))
         /\ \A f : Plain(f) => Sets(r, u, set_password(r, u) ++ f)
<1> PICK columns : columns = [hash |-> <<r, "new">>, fails |-> 0, locked |-> 0]
  BY Zenon
<1> PICK w : w = Assign(U(u), columns)
  OBVIOUS
<1>1. set_password(r, u) = w
  BY Zenon DEF set_password
<1>2. DOMAIN columns = {"hash", "fails", "locked"} /\ columns["hash"] = <<r, "new">>
  OBVIOUS
<1>3. \A k, c : <<k, c>> \in DOMAIN w => k = U(u) /\ c \in DOMAIN columns
  BY AssignKey
<1>4. w[<<U(u), "hash">>] = <<r, "new">>
  BY <1>2, AssignKeys, Zenon
<1>5. RowsOf(w) \subseteq {U(u)}
  BY AssignRows, Zenon
<1>6. Sets(r, u, w)
  BY <1>2, <1>3, <1>4, <1>5, RowKinds DEF Sets
<1>7. ASSUME NEW f, Plain(f) PROVE Sets(r, u, w ++ f)
  <2>1. /\ DOMAIN (w ++ f) = DOMAIN w \union DOMAIN f
        /\ \A x \in DOMAIN w : (w ++ f)[x] = w[x]
        /\ \A x \in DOMAIN f : x \notin DOMAIN w => (w ++ f)[x] = f[x]
    BY Zenon DEF ++
  <2>2. RowsOf(w ++ f) = RowsOf(w) \union RowsOf(f)
    BY OverRows, Zenon
  <2> QED
    BY <1>6, <1>7, <2>1, <2>2, Zenon DEF Plain, Sets
<1> QED
  BY <1>1, <1>6, <1>7, Zenon

LEMMA SetsPrepared ==
  ASSUME NEW r \in Requests, NEW call, call.kind \in {"change_password", "reset"}, NEW u, NEW f, Sets(r, u, f), NEW t
  PROVE  Prepared(r, call, Outcome(f, {SessionsOf(u, None)}, t))
<1> PICK out : out = Outcome(f, {SessionsOf(u, None)}, t)
  OBVIOUS
<1> PICK w : w = Dirty(db, f)
  OBVIOUS
<1>1. out.writes = w /\ out.revoke = {SessionsOf(u, None)}
  BY OutcomeParts, ZenonT(60)
<1>2. RowsOf(w) \subseteq RowsOf(f)
  BY DirtyRows, Zenon
<1>3. \A k, c : <<k, c>> \in DOMAIN w => <<k, c>> \in DOMAIN f /\ w[<<k, c>>] = f[<<k, c>>]
  BY DirtyKeys
<1>4. Sets(r, u, w)
  BY <1>2, <1>3, Zenon DEF Sets
<1>5. Fresh(r) \in Sessions
  BY FreshSession, Zenon
<1>6. \A row, c : <<row, c>> \in DOMAIN w => row \in RowsOf(w)
  BY KeyRow, Zenon
<1>7. <<r, "new">>[1] = r /\ "change_password" # "login" /\ "reset" # "login"
  OBVIOUS
<1>8. Columns(r, call, w)
  BY <1>4, <1>6, <1>7, Zenon DEF Sets, Columns
<1>9. Verified(r, call, w)
  BY <1>4, <1>5, <1>6, <1>7, Zenon DEF Sets, Verified
<1> QED
  BY <1>1, <1>4, <1>8, <1>9, Zenon DEF Sets, Prepared

\* Signing in: a session or a challenge of its own with the password p, and the user's row.
SignsUserIn(r, u, p, row, w) ==
  /\ RowsOf(w) \subseteq {U(u), row}
  /\ <<row, "revoked">> \notin DOMAIN w
  /\ <<row, "user">> \in DOMAIN w => w[<<row, "user">>] = u
  /\ <<row, "password">> \in DOMAIN w /\ w[<<row, "password">>] = p
  /\ <<row, "expires">> \in DOMAIN w => w[<<row, "expires">>] \in Nat
  /\ <<U(u), "last_login">> \in DOMAIN w => w[<<U(u), "last_login">>] = r
  /\ row = S(Fresh(r)) => <<U(u), "last_login">> \in DOMAIN w
  /\ <<U(u), "hash">> \in DOMAIN w => w[<<U(u), "hash">>][1] = db[U(u)].hash[1]

LEMMA SignInPrepared ==
  ASSUME NEW r \in Requests, Untouched(r), NEW call, NEW u \in Users, NEW p, NEW row \in {S(Fresh(r)), C(r)}, NEW f, NEW t,
         SignsUserIn(r, u, p, row, f), "sign_in" \notin mishaps => p = db[U(u)].hash[1],
         \/ call.kind = "login" /\ call.user = u
         \/ call.kind = "mfa_verify" /\ row = S(Fresh(r)) /\ <<U(u), "hash">> \notin DOMAIN f
  PROVE  Prepared(r, call, Outcome(f, {}, t))
<1>a. PICK out : out = Outcome(f, {}, t)
  OBVIOUS
<1>w. PICK w : w = Dirty(db, f)
  OBVIOUS
<1>1. out.writes = w
  BY <1>a, <1>w, OutcomeParts, Zenon
<1>2. \A k, c : /\ <<k, c>> \in DOMAIN w <=> <<k, c>> \in DOMAIN f /\ db[k][c] # f[<<k, c>>]
                /\ <<k, c>> \in DOMAIN w => w[<<k, c>>] = f[<<k, c>>]
  <2>1. \A k, c : /\ <<k, c>> \in DOMAIN Dirty(db, f) <=> <<k, c>> \in DOMAIN f /\ db[k][c] # f[<<k, c>>]
                  /\ <<k, c>> \in DOMAIN Dirty(db, f) => Dirty(db, f)[<<k, c>>] = f[<<k, c>>]
    BY DirtyKeys, Zenon
  <2> QED
    BY <1>w, <2>1, Zenon
<1>3. RowsOf(w) \subseteq {U(u), row}
  BY <1>w, DirtyRows, Zenon DEF SignsUserIn
<1>4. \A k, c : <<k, c>> \in DOMAIN w => k \in {U(u), row}
  BY <1>3, KeyRow, Zenon
<1>5. Fresh(r) \in Sessions
  BY FreshSession, Zenon
<1>6. /\ db[S(Fresh(r))].user = None /\ db[S(Fresh(r))].password = 0
      /\ db[C(r)].user = None /\ db[C(r)].password = 0
      /\ db[U(u)].last_login # r
  BY Zenon DEF Untouched
<1>7. /\ call.kind \in SignsIn /\ (row = C(r) => call.kind = "login") /\ (<<U(u), "hash">> \in DOMAIN w => call.kind = "login")
      /\ call.kind = "login" => call.user = u
      /\ call.kind # "login" => <<U(u), "hash">> \notin DOMAIN w
  BY <1>2, RowKinds DEF SignsIn
<1>8. Columns(r, call, w)
  <2>1. \A s \in Sessions : {<<S(s), "user">>, <<S(s), "password">>} \intersect DOMAIN w # {} => call.kind \in SignsIn /\ s = Fresh(r)
    BY <1>4, <1>7, RowKinds
  <2>2. \A s \in Sessions : <<S(s), "revoked">> \in DOMAIN w => w[<<S(s), "revoked">>] = TRUE
    <3>1. <<row, "revoked">> \notin DOMAIN w
      BY <1>2, ZenonT(60) DEF SignsUserIn
    <3> QED
      BY <1>4, <3>1, RowKinds
  <2>3. \A c \in Requests : C(c) \in RowsOf(w) => call.kind = "login" /\ c = r
    BY <1>3, <1>7, RowKinds, SMTT(60)
  <2>4. <<C(r), "expires">> \in DOMAIN w => w[<<C(r), "expires">>] \in Nat
    <3>1. <<row, "expires">> \in DOMAIN w => w[<<row, "expires">>] \in Nat
      BY <1>2, Zenon DEF SignsUserIn
    <3> QED
      BY <1>4, <3>1, RowKinds
  <2>5. \A v \in Users : <<U(v), "last_login">> \in DOMAIN w => w[<<U(v), "last_login">>] = r
    <3>1. <<U(u), "last_login">> \in DOMAIN w => w[<<U(u), "last_login">>] = r
      BY <1>2, ZenonT(60) DEF SignsUserIn
    <3> QED
      BY <1>4, <3>1, RowKinds
  <2>6. \A v \in Users : <<U(v), "hash">> \in DOMAIN w => call.kind = "login" /\ v = call.user
    BY <1>4, <1>7, RowKinds
  <2> QED
    BY <2>1, <2>2, <2>3, <2>4, <2>5, <2>6, ZenonT(60) DEF Columns
<1>9. Verified(r, call, w)
  <2>1. ASSUME NEW own \in {S(Fresh(r)), C(r)}, <<own, "user">> \in DOMAIN w
        PROVE  /\ w[<<own, "user">>] \in Users /\ (call.kind = "login" => w[<<own, "user">>] = call.user)
               /\ own = S(Fresh(r)) => U(w[<<own, "user">>]) \in RowsOf(w)
               /\ "sign_in" \notin mishaps => PasswordIn(w, own) = db[U(w[<<own, "user">>])].hash[1]
    <3>1. own = row
      BY <1>4, <2>1, RowKinds
    <3>2. w[<<own, "user">>] = u
      BY <1>2, <2>1, <3>1, ZenonT(60) DEF SignsUserIn
    <3>3. own = S(Fresh(r)) => <<U(u), "last_login">> \in DOMAIN w
      <4>1. row = S(Fresh(r)) => <<U(u), "last_login">> \in DOMAIN f /\ f[<<U(u), "last_login">>] = r
        BY Zenon DEF SignsUserIn
      <4> QED
        BY <1>2, <1>6, <3>1, <4>1
    <3>4. own = S(Fresh(r)) => U(u) \in RowsOf(w)
      <4>1. <<U(u), "last_login">> \in DOMAIN w => U(u) \in RowsOf(w)
        BY KeyRow, Zenon
      <4> QED
        BY <3>3, <4>1, Zenon
    <3>5. PasswordIn(w, own) = p
      <4>1. db[row].password = 0
        BY <1>6
      <4>2. <<row, "password">> \in DOMAIN f /\ f[<<row, "password">>] = p
        BY Zenon DEF SignsUserIn
      <4> QED
        BY <1>2, <3>1, <4>1, <4>2, SMTT(60) DEF PasswordIn
    <3> QED
      BY <1>7, <3>2, <3>4, <3>5, ZenonT(60)
  <2>2. ASSUME NEW v \in Users, <<U(v), "hash">> \in DOMAIN w PROVE w[<<U(v), "hash">>][1] = db[U(v)].hash[1]
    <3>1. v = u
      BY <1>4, <2>2, RowKinds
    <3>2. <<U(u), "hash">> \in DOMAIN w => w[<<U(u), "hash">>][1] = db[U(u)].hash[1]
      <4>1. <<U(u), "hash">> \in DOMAIN f => f[<<U(u), "hash">>][1] = db[U(u)].hash[1]
        BY Zenon DEF SignsUserIn
      <4> QED
        BY <1>2, <4>1, ZenonT(60)
    <3> QED
      BY <2>2, <3>1, <3>2, ZenonT(60)
  <2> QED
    BY <2>1, <2>2, Zenon DEF Verified
<1>10. \A v \in Users : <<U(v), "hash">> \in DOMAIN w => call.kind = "login"
  BY <1>4, <1>7, RowKinds
<1> QED
  BY <1>a, <1>1, <1>8, <1>9, <1>10, ZenonT(60) DEF Prepared

LEMMA SignInWrites ==
  ASSUME NEW r, NEW u, NEW p, NEW row \in {S(Fresh(r)), C(r)}, NEW own, NEW columns,
         RowsOf(own) \subseteq {U(u)},
         <<U(u), "last_login">> \in DOMAIN own => own[<<U(u), "last_login">>] = r,
         row = S(Fresh(r)) => <<U(u), "last_login">> \in DOMAIN own,
         <<U(u), "hash">> \in DOMAIN own => own[<<U(u), "hash">>][1] = db[U(u)].hash[1],
         "revoked" \notin DOMAIN columns, columns["user"] = u, "password" \in DOMAIN columns, columns["password"] = p,
         "expires" \in DOMAIN columns => columns["expires"] \in Nat
  PROVE  /\ SignsUserIn(r, u, p, row, own ++ Assign(row, columns))
         /\ <<U(u), "hash">> \in DOMAIN (own ++ Assign(row, columns)) => <<U(u), "hash">> \in DOMAIN own
<1>g. PICK g : g = Assign(row, columns)
  OBVIOUS
<1>w. PICK w : w = own ++ g
  OBVIOUS
<1>1. row # U(u)
  BY RowKinds
<1>2. /\ \A c : <<row, c>> \in DOMAIN g <=> c \in DOMAIN columns
      /\ \A c \in DOMAIN columns : g[<<row, c>>] = columns[c]
      /\ \A c : <<U(u), c>> \notin DOMAIN g
  <2>1. \A k, c : <<k, c>> \in DOMAIN g <=> k = row /\ c \in DOMAIN columns
    BY <1>g, AssignKey, Zenon
  <2>2. \A c \in DOMAIN columns : g[<<row, c>>] = columns[c]
    BY <1>g, AssignKeys, ZenonT(60)
  <2> QED
    BY <1>1, <2>1, <2>2, Zenon
<1>3. RowsOf(g) \subseteq {row}
  BY <1>g, AssignRows, Zenon
<1>4. \A c : <<row, c>> \notin DOMAIN own
  BY <1>1, KeyRow, Zenon
<1>5. /\ DOMAIN w = DOMAIN own \union DOMAIN g
      /\ \A x \in DOMAIN own : w[x] = own[x]
      /\ \A x \in DOMAIN g : x \notin DOMAIN own => w[x] = g[x]
  BY <1>w, Zenon DEF ++
<1>6. RowsOf(w) \subseteq {U(u), row}
  BY <1>w, <1>3, OverRows, Zenon
<1>7. \A c : /\ <<row, c>> \in DOMAIN w <=> c \in DOMAIN columns
             /\ c \in DOMAIN columns => w[<<row, c>>] = columns[c]
  BY <1>2, <1>4, <1>5, Zenon
<1>8. \A c : /\ <<U(u), c>> \in DOMAIN w <=> <<U(u), c>> \in DOMAIN own
             /\ <<U(u), c>> \in DOMAIN own => w[<<U(u), c>>] = own[<<U(u), c>>]
  BY <1>2, <1>5, Zenon
<1>9. SignsUserIn(r, u, p, row, w)
  BY <1>6, <1>7, <1>8, Zenon DEF SignsUserIn
<1> QED
  BY <1>g, <1>w, <1>8, <1>9, ZenonT(60)

LEMMA SessionIssued ==
  ASSUME NEW r, NEW u, NEW t, NEW p, NEW own, clock \in Nat,
         RowsOf(own) \subseteq {U(u)},
         <<U(u), "last_login">> \in DOMAIN own, own[<<U(u), "last_login">>] = r,
         <<U(u), "hash">> \in DOMAIN own => own[<<U(u), "hash">>][1] = db[U(u)].hash[1]
  PROVE  /\ SignsUserIn(r, u, p, S(Fresh(r)), own ++ issue_session(r, u, t, p))
         /\ <<U(u), "hash">> \in DOMAIN (own ++ issue_session(r, u, t, p)) => <<U(u), "hash">> \in DOMAIN own
<1>1. PICK columns : columns = [user |-> u, tenant |-> t, token |-> Fresh(r), expires |-> clock + Ttl, absolute |-> clock + Ttl,
                                used |-> clock, password |-> p]
  BY Zenon
<1>a. PICK n, x : n = Fresh(r) /\ x = clock + Ttl
  OBVIOUS
<1>2. issue_session(r, u, t, p) = Assign(S(Fresh(r)), columns)
  BY <1>1, Zenon DEF issue_session
<1>3. clock + Ttl \in Nat
  BY AccountsAssumption
<1>4. /\ "revoked" \notin DOMAIN columns /\ columns["user"] = u /\ "password" \in DOMAIN columns /\ columns["password"] = p
      /\ columns["expires"] \in Nat
  BY <1>a, <1>1, <1>3
<1>5. PICK g : g = Assign(S(Fresh(r)), columns)
  OBVIOUS
<1>6. /\ SignsUserIn(r, u, p, S(Fresh(r)), own ++ g)
      /\ <<U(u), "hash">> \in DOMAIN (own ++ g) => <<U(u), "hash">> \in DOMAIN own
  BY <1>4, <1>5, SignInWrites, Zenon
<1> QED
  BY <1>2, <1>5, <1>6, ZenonT(60)

LEMMA ChallengeIssued ==
  ASSUME NEW r, NEW u, NEW t, NEW p, NEW own, clock \in Nat,
         RowsOf(own) \subseteq {U(u)},
         <<U(u), "last_login">> \notin DOMAIN own,
         <<U(u), "hash">> \in DOMAIN own => own[<<U(u), "hash">>][1] = db[U(u)].hash[1]
  PROVE  SignsUserIn(r, u, p, C(r), own ++ Assign(C(r), [user |-> u, tenant |-> t, password |-> p, expires |-> clock + 1]))
<1>1. PICK columns : columns = [user |-> u, tenant |-> t, password |-> p, expires |-> clock + 1]
  BY Zenon
<1>2. clock + 1 \in Nat
  OBVIOUS
<1>3. /\ "revoked" \notin DOMAIN columns /\ columns["user"] = u /\ "password" \in DOMAIN columns /\ columns["password"] = p
      /\ columns["expires"] \in Nat
  BY <1>1, <1>2
<1>4. C(r) # S(Fresh(r))
  BY RowKinds
<1> QED
  BY <1>1, <1>3, <1>4, SignInWrites, Zenon

LEMMA OnlyUser ==
  ASSUME NEW u, NEW columns, NEW c
  PROVE  /\ RowsOf(Assign(U(u), columns)) \subseteq {U(u)}
         /\ <<U(u), c>> \in DOMAIN Assign(U(u), columns) <=> c \in DOMAIN columns
         /\ c \in DOMAIN columns => Assign(U(u), columns)[<<U(u), c>>] = columns[c]
<1>1. RowsOf(Assign(U(u), columns)) \subseteq {U(u)}
  BY AssignRows, Zenon
<1>2. <<U(u), c>> \in DOMAIN Assign(U(u), columns) <=> c \in DOMAIN columns
  BY AssignKey, Zenon
<1>3. c \in DOMAIN columns => Assign(U(u), columns)[<<U(u), c>>] = columns[c]
  BY AssignKeys, Zenon
<1> QED
  BY <1>1, <1>2, <1>3, Zenon

LEMMA FailurePlain == \A u : Plain(CountFailure(u))
BY PlainColumns, Zenon DEF CountFailure

LEMMA LoginPrepared ==
  ASSUME NEW r \in Requests, Untouched(r), clock \in Nat, NEW call, call.kind = "login", call.user \in Users
  PROVE  Prepared(r, call, authenticate(r, call))
<1>1. PICK u : u = call.user
  OBVIOUS
<1>2. PICK h : h = (IF db[U(u)].hash[2] = "old" THEN <<db[U(u)].hash[1], "new">> ELSE db[U(u)].hash)
  BY Zenon
<1>3. PICK columns : columns = [fails |-> 0, locked |-> 0, hash |-> h]
  BY Zenon
<1>4. PICK t : t = resolve_tenant(u, None)
  OBVIOUS
<1>5. PICK p : p = call.arg
  OBVIOUS
<1>6. \/ authenticate(r, call) = Refused
      \/ authenticate(r, call) = Outcome(<<>>, {}, Platform)
      \/ authenticate(r, call) = Outcome(CountFailure(u), {}, DefaultTenant[u])
      \/ /\ p = db[U(u)].hash[1]
         /\ \/ authenticate(r, call) =
                 Outcome(Assign(U(u), columns) ++ Assign(C(r), [user |-> u, tenant |-> t, password |-> p, expires |-> clock + 1]), {}, None)
            \/ authenticate(r, call) =
                 Outcome(Assign(U(u), columns) ++ Assign(U(u), [last_login |-> r]) ++ issue_session(r, u, t, p), {}, ChainOf(t))
  BY <1>1, <1>2, <1>3, <1>4, <1>5, ZenonT(60) DEF authenticate
<1>7. h[1] = db[U(u)].hash[1]
  BY <1>2
<1>8. DOMAIN columns = {"fails", "locked", "hash"} /\ columns["hash"] = h
  BY <1>3
<1>9. PICK cleared : cleared = Assign(U(u), columns)
  OBVIOUS
<1>10. /\ RowsOf(cleared) \subseteq {U(u)}
       /\ <<U(u), "last_login">> \notin DOMAIN cleared
       /\ <<U(u), "hash">> \in DOMAIN cleared => cleared[<<U(u), "hash">>][1] = db[U(u)].hash[1]
  <2>1. "last_login" \notin DOMAIN columns /\ "hash" \in DOMAIN columns
    BY <1>8
  <2> QED
    BY <1>7, <1>8, <1>9, <2>1, OnlyUser, ZenonT(60)
<1>11. \A w, s, x : Plain(w) => Prepared(r, call, Outcome(w, s, x))
  <2> SUFFICES ASSUME NEW w, NEW s, NEW x, Plain(w) PROVE Prepared(r, call, Outcome(w, s, x))
    BY Zenon
  <2>1. Plain(Dirty(db, w)) /\ Outcome(w, s, x).writes = Dirty(db, w)
    BY PlainWrites, OutcomeParts, Zenon
  <2> QED
    BY <2>1, PlainPrepared, Zenon
<1>12. CASE authenticate(r, call) = Refused
  <2>1. Plain(Refused.writes)
    BY OutcomeParts, PlainWrites, Zenon
  <2> QED
    BY <1>12, <2>1, PlainPrepared, Zenon
<1>13. CASE authenticate(r, call) = Outcome(<<>>, {}, Platform)
  BY <1>11, <1>13, PlainWrites, Zenon
<1>14. CASE authenticate(r, call) = Outcome(CountFailure(u), {}, DefaultTenant[u])
  BY <1>11, <1>14, FailurePlain, Zenon
<1>15. ASSUME p = db[U(u)].hash[1], NEW f, NEW row \in {S(Fresh(r)), C(r)}, NEW x, SignsUserIn(r, u, p, row, f)
       PROVE  Prepared(r, call, Outcome(f, {}, x))
  BY <1>1, <1>15, SignInPrepared, Zenon
<1>16. ASSUME p = db[U(u)].hash[1],
              authenticate(r, call) =
                 Outcome(Assign(U(u), columns) ++ Assign(C(r), [user |-> u, tenant |-> t, password |-> p, expires |-> clock + 1]), {}, None)
       PROVE  Prepared(r, call, authenticate(r, call))
  <2>1. PICK f : f = cleared ++ Assign(C(r), [user |-> u, tenant |-> t, password |-> p, expires |-> clock + 1])
    OBVIOUS
  <2>2. SignsUserIn(r, u, p, C(r), f)
    BY <1>10, <2>1, ChallengeIssued, Zenon
  <2>3. authenticate(r, call) = Outcome(f, {}, None)
    BY <1>9, <1>16, <2>1, Zenon
  <2> QED
    BY <1>15, <1>16, <2>2, <2>3, ZenonT(60)
<1>17. ASSUME p = db[U(u)].hash[1],
              authenticate(r, call) =
                 Outcome(Assign(U(u), columns) ++ Assign(U(u), [last_login |-> r]) ++ issue_session(r, u, t, p), {}, ChainOf(t))
       PROVE  Prepared(r, call, authenticate(r, call))
  <2>1. PICK stamp : stamp = Assign(U(u), [last_login |-> r])
    OBVIOUS
  <2>2. PICK own : own = cleared ++ stamp
    OBVIOUS
  <2>3. RowsOf(stamp) \subseteq {U(u)} /\ <<U(u), "last_login">> \in DOMAIN stamp /\ <<U(u), "hash">> \notin DOMAIN stamp
        /\ stamp[<<U(u), "last_login">>] = r
    <3>1. PICK last : last = [last_login |-> r]
      BY Zenon
    <3>2. "last_login" \in DOMAIN last /\ "hash" \notin DOMAIN last /\ last["last_login"] = r
      BY <3>1
    <3> QED
      BY <2>1, <3>1, <3>2, OnlyUser, ZenonT(60)
  <2>4. DOMAIN own = DOMAIN cleared \union DOMAIN stamp /\ (\A x \in DOMAIN cleared : own[x] = cleared[x])
        /\ (\A x \in DOMAIN stamp : x \notin DOMAIN cleared => own[x] = stamp[x])
    BY <2>2, Zenon DEF ++
  <2>5. RowsOf(own) = RowsOf(cleared) \union RowsOf(stamp)
    BY <2>2, OverRows, Zenon
  <2>6. /\ RowsOf(own) \subseteq {U(u)}
        /\ <<U(u), "last_login">> \in DOMAIN own /\ own[<<U(u), "last_login">>] = r
        /\ <<U(u), "hash">> \in DOMAIN own => own[<<U(u), "hash">>][1] = db[U(u)].hash[1]
    BY <1>10, <2>3, <2>4, <2>5, Zenon
  <2>7. PICK f : f = own ++ issue_session(r, u, t, p)
    OBVIOUS
  <2>8. SignsUserIn(r, u, p, S(Fresh(r)), f)
    BY <2>6, <2>7, SessionIssued, Zenon
  <2>9. authenticate(r, call) = Outcome(f, {}, ChainOf(t))
    BY <1>9, <1>17, <2>1, <2>2, <2>7, Zenon
  <2> QED
    BY <1>15, <1>17, <2>8, <2>9, ZenonT(60)
<1> QED
  BY <1>6, <1>12, <1>13, <1>14, <1>16, <1>17, ZenonT(60)

LEMMA PlainOutcomePrepared ==
  ASSUME NEW r \in Requests, NEW call
  PROVE  /\ Prepared(r, call, Refused)
         /\ \A w, s, x : Plain(w) => Prepared(r, call, Outcome(w, s, x))
<1>1. Plain(Refused.writes)
  BY OutcomeParts, PlainWrites, Zenon
<1>2. ASSUME NEW w, NEW s, NEW x, Plain(w) PROVE Prepared(r, call, Outcome(w, s, x))
  <2>1. Plain(Dirty(db, w)) /\ Outcome(w, s, x).writes = Dirty(db, w)
    BY <1>2, PlainWrites, OutcomeParts, Zenon
  <2> QED
    BY <2>1, PlainPrepared, Zenon
<1> QED
  BY <1>1, <1>2, PlainPrepared, Zenon

LEMMA MfaPrepared ==
  ASSUME NEW r \in Requests, Untouched(r), clock \in Nat, NEW call, call.kind = "mfa_verify",
         db[C(call.arg)].user \in Users \union {None}, db[C(call.arg)].expires \in Nat,
         "sign_in" \notin mishaps => (db[C(call.arg)].user # None /\ db[C(call.arg)].expires > clock
                                        => db[C(call.arg)].password = db[U(db[C(call.arg)].user)].hash[1])
  PROVE  Prepared(r, call, complete_mfa(r, call))
<1>1. PICK u : u = db[C(call.arg)].user
  OBVIOUS
<1>2. PICK p : p = db[C(call.arg)].password
  OBVIOUS
<1>3. PICK t : t = resolve_tenant(u, db[C(call.arg)].tenant)
  OBVIOUS
<1>4. \/ complete_mfa(r, call) = Refused
      \/ complete_mfa(r, call) = Outcome(CountFailure(u), {}, Platform)
      \/ /\ u # None /\ ~(db[C(call.arg)].expires <= clock)
         /\ complete_mfa(r, call) = Outcome(Assign(U(u), [fails |-> 0, last_login |-> r]) ++ issue_session(r, u, t, p), {}, ChainOf(t))
  BY <1>1, <1>2, <1>3, Zenon DEF complete_mfa
<1>5. CASE complete_mfa(r, call) = Refused
  BY <1>5, PlainOutcomePrepared, Zenon
<1>6. CASE complete_mfa(r, call) = Outcome(CountFailure(u), {}, Platform)
  BY <1>6, FailurePlain, PlainOutcomePrepared, Zenon
<1>7. ASSUME u # None, ~(db[C(call.arg)].expires <= clock),
             complete_mfa(r, call) = Outcome(Assign(U(u), [fails |-> 0, last_login |-> r]) ++ issue_session(r, u, t, p), {}, ChainOf(t))
      PROVE  Prepared(r, call, complete_mfa(r, call))
  <2>1. u \in Users
    BY <1>1, <1>7, ZenonT(60)
  <2>2. db[C(call.arg)].expires > clock
    BY <1>7
  <2>3. "sign_in" \notin mishaps => p = db[U(u)].hash[1]
    BY <1>1, <1>2, <1>7, <2>2, ZenonT(60)
  <2>4. PICK columns : columns = [fails |-> 0, last_login |-> r]
    BY Zenon
  <2>5. "last_login" \in DOMAIN columns /\ "hash" \notin DOMAIN columns /\ columns["last_login"] = r
    BY <2>4
  <2>6. PICK own : own = Assign(U(u), columns)
    OBVIOUS
  <2>7. /\ RowsOf(own) \subseteq {U(u)}
        /\ <<U(u), "last_login">> \in DOMAIN own /\ own[<<U(u), "last_login">>] = r
        /\ <<U(u), "hash">> \notin DOMAIN own
    BY <2>5, <2>6, OnlyUser, Zenon
  <2>8. PICK f : f = own ++ issue_session(r, u, t, p)
    OBVIOUS
  <2>9. SignsUserIn(r, u, p, S(Fresh(r)), f) /\ <<U(u), "hash">> \notin DOMAIN f
    BY <2>7, <2>8, SessionIssued, Zenon
  <2>10. complete_mfa(r, call) = Outcome(f, {}, ChainOf(t))
    BY <1>7, <2>4, <2>6, <2>8, ZenonT(60)
  <2>11. Prepared(r, call, Outcome(f, {}, ChainOf(t)))
    BY <2>1, <2>3, <2>9, SignInPrepared, ZenonT(60)
  <2> QED
    BY <2>10, <2>11, Zenon
<1> QED
  BY <1>4, <1>5, <1>6, <1>7, ZenonT(60)

LEMMA SetterPrepared ==
  ASSUME NEW r \in Requests, NEW call, NEW actor
  PROVE  /\ call.kind = "change_password" => Prepared(r, call, change_password(r, actor, call))
         /\ call.kind = "reset" => Prepared(r, call, reset_password(r, call))
<1>1. ASSUME call.kind = "change_password" PROVE Prepared(r, call, change_password(r, actor, call))
  <2>1. PICK u : u = actor.user
    OBVIOUS
  <2>2. \/ change_password(r, actor, call) = Refused
        \/ change_password(r, actor, call) = Outcome(set_password(r, u), {SessionsOf(u, None)}, DefaultTenant[u])
    BY <2>1, Zenon DEF change_password
  <2>3. Prepared(r, call, Outcome(set_password(r, u), {SessionsOf(u, None)}, DefaultTenant[u]))
    <3>1. Sets(r, u, set_password(r, u)) /\ call.kind \in {"change_password", "reset"}
      BY <1>1, SetsWrites, Zenon
    <3> QED
      BY <3>1, SetsPrepared
  <2> QED
    BY <2>2, <2>3, PlainOutcomePrepared, Zenon
<1>2. ASSUME call.kind = "reset" PROVE Prepared(r, call, reset_password(r, call))
  <2>1. PICK u : u = db[L(call.arg)].user
    OBVIOUS
  <2>2. PICK f : f = Assign(L(call.arg), [used |-> TRUE])
    OBVIOUS
  <2>3. \/ reset_password(r, call) = Refused
        \/ reset_password(r, call) = Outcome(set_password(r, u) ++ f, {SessionsOf(u, None)}, DefaultTenant[u])
    BY <2>1, <2>2, Zenon DEF reset_password
  <2>4. Plain(f)
    BY <2>2, PlainWrites, Zenon
  <2>5. Prepared(r, call, Outcome(set_password(r, u) ++ f, {SessionsOf(u, None)}, DefaultTenant[u]))
    <3>1. Sets(r, u, set_password(r, u) ++ f) /\ call.kind \in {"change_password", "reset"}
      BY <1>2, <2>4, SetsWrites, Zenon
    <3> QED
      BY <3>1, SetsPrepared
  <2> QED
    BY <2>3, <2>5, PlainOutcomePrepared, Zenon
<1> QED
  BY <1>1, <1>2, Zenon

LEMMA HandledPrepared ==
  ASSUME PasswordInv, NEW r \in Requests, Untouched(r), NEW actor, NEW call, call.kind \in RequestKinds,
         call.kind = "login" => call.user \in Users, call.kind = "mfa_verify" => call.arg \in Requests
  PROVE  Prepared(r, call, Handled(r, actor, call))
<1>1. /\ clock \in Nat
      /\ \A c \in Requests : db[C(c)].user \in Users \union {None} /\ db[C(c)].expires \in Nat
      /\ "sign_in" \notin mishaps =>
          \A c \in Requests : db[C(c)].user # None /\ db[C(c)].expires > clock => db[C(c)].password = db[U(db[C(c)].user)].hash[1]
  BY Zenon DEF PasswordInv
<1>2. CASE call.kind = "login"
  <2>1. Handled(r, actor, call) = authenticate(r, call)
    BY <1>2 DEF Handled
  <2> QED
    BY <1>1, <1>2, <2>1, LoginPrepared, ZenonT(60)
<1>3. CASE call.kind = "mfa_verify"
  <2>1. Handled(r, actor, call) = complete_mfa(r, call)
    BY <1>3 DEF Handled
  <2>2. /\ db[C(call.arg)].user \in Users \union {None} /\ db[C(call.arg)].expires \in Nat
        /\ "sign_in" \notin mishaps => (db[C(call.arg)].user # None /\ db[C(call.arg)].expires > clock
                                          => db[C(call.arg)].password = db[U(db[C(call.arg)].user)].hash[1])
    BY <1>1, <1>3, Zenon
  <2>3. Prepared(r, call, complete_mfa(r, call))
    BY <1>1, <1>3, <2>2, MfaPrepared, ZenonT(60)
  <2> QED
    BY <2>1, <2>3, Zenon
<1>4. CASE call.kind = "change_password"
  <2>1. Handled(r, actor, call) = change_password(r, actor, call)
    BY <1>4 DEF Handled
  <2> QED
    BY <1>4, <2>1, SetterPrepared, Zenon
<1>5. CASE call.kind = "reset"
  <2>1. Handled(r, actor, call) = reset_password(r, call)
    BY <1>5 DEF Handled
  <2> QED
    BY <1>5, <2>1, SetterPrepared, Zenon
<1>6. CASE call.kind \notin {"login", "mfa_verify", "change_password", "reset"}
  <2>1. Plain(Handled(r, actor, call).writes)
    <3>1. call.kind \in {"refresh", "forgot", "logout", "switch_tenant", "mfa_setup", "mfa_enable", "mfa_disable", "create_token", "revoke_token",
                         "create_user", "update_user", "reset_mfa", "remove_user", "update_tenant"}
      BY <1>6 DEF RequestKinds, Open, Interactive, UsersWrite
    <3> QED
      BY <3>1, PlainCalls, ZenonT(60) DEF Handled
  <2> QED
    BY <2>1, PlainPrepared, Zenon
<1> QED
  BY <1>2, <1>3, <1>4, <1>5, <1>6, ZenonT(60)

LEMMA SameRows ==
  ASSUME db' = db, mishaps' = mishaps
  PROVE  \A r, q : PasswordRequest(r, q) => PasswordRequest(r, q)'
<1> SUFFICES ASSUME NEW r, NEW q, PasswordRequest(r, q) PROVE PasswordRequest(r, q)'
  OBVIOUS
<1>1. Untouched(r) => Untouched(r)'
  BY Zenon DEF Untouched
<1>2. \A call, w : Verified(r, call, w) => Verified(r, call, w)'
  BY ZenonT(60) DEF Verified
<1>3. Opened' = Opened
  BY Zenon DEF Opened
<1> QED
  BY <1>1, <1>2, <1>3, ZenonT(60) DEF PasswordRequest

\* A step that leaves the rows alone.
LEMMA PassFrame ==
  ASSUME PasswordInv, db' = db, mishaps' = mishaps, agenda' = agenda, clock' \in Nat, clock' >= clock, DOMAIN request' = Requests,
         \A r \in Requests : PasswordRequest(r, request'[r]),
         \A r, o \in Requests : r # o /\ request'[r].phase = "written" /\ request'[o].phase = "written" =>
            RowsOf(request'[r].out.writes) \intersect RowsOf(request'[o].out.writes) = {}
  PROVE  PasswordInv'
<1>1. \A r \in Requests : PasswordRequest(r, request[r])'
  <2> SUFFICES ASSUME NEW r \in Requests PROVE PasswordRequest(r, request[r])'
    OBVIOUS
  <2>1. PICK q : q = request'[r]
    OBVIOUS
  <2>2. PasswordRequest(r, q)
    BY <2>1, Zenon
  <2>3. PasswordRequest(r, q)'
    BY <2>2, SameRows, Zenon
  <2> QED
    BY <2>1, <2>3, Zenon DEF PasswordRequest, ResetsHash
<1>2. /\ agenda' \in Agendas
      /\ \A u \in Users : U(u) \in DOMAIN db' /\ {"hash", "last_login"} \subseteq DOMAIN db'[U(u)]
      /\ \A s \in Sessions : S(s) \in DOMAIN db' /\ {"user", "password", "revoked"} \subseteq DOMAIN db'[S(s)]
      /\ \A c \in Requests : C(c) \in DOMAIN db' /\ {"user", "password", "expires"} \subseteq DOMAIN db'[C(c)]
      /\ \A c \in Requests : db'[C(c)].user \in Users \union {None} /\ db'[C(c)].expires \in Nat
  BY Zenon DEF PasswordInv
<1>3. Opened' = Opened
  BY Zenon DEF Opened
<1>4. \A s \in Opened' : db'[S(s)].user \in Users
  BY <1>3, Zenon DEF PasswordInv
<1>5. \A c \in Requests : db[C(c)].expires > clock' => db[C(c)].expires > clock
  <2>1. clock \in Nat /\ \A c \in Requests : db[C(c)].expires \in Nat
    BY Zenon DEF PasswordInv
  <2> QED
    BY <2>1
<1>6. "sign_in" \notin mishaps' =>
        \A c \in Requests : db'[C(c)].user # None /\ db'[C(c)].expires > clock' => db'[C(c)].password = db'[U(db'[C(c)].user)].hash[1]
  BY <1>5, Zenon DEF PasswordInv
<1>7. PasswordEndsSessions'
  <2>1. PasswordEndsSessions
    BY Zenon DEF PasswordInv
  <2> QED
    BY <1>3, <2>1, Zenon DEF PasswordEndsSessions
<1>8. \A r, o \in Requests : r # o /\ request'[r].phase = "written" /\ request'[o].phase = "written" => Written(r)' \intersect Written(o)' = {}
  BY Zenon DEF Written
<1> QED
  BY <1>1, <1>2, <1>4, <1>6, <1>7, <1>8, Zenon DEF PasswordInv

\* A request that moves on, and holds no written row afterwards.
LEMMA PassGoesOn ==
  ASSUME PasswordInv, NEW r \in Requests, NEW q, request' = [request EXCEPT ![r] = q], q.phase # "written", PasswordRequest(r, q),
         UNCHANGED <<clock, agenda, db, mishaps>>
  PROVE  PasswordInv'
<1>1. request'[r] = q /\ (\A o \in Requests \ {r} : request'[o] = request[o]) /\ DOMAIN request' = Requests
  BY DEF PasswordInv
<1>2. \A o \in Requests : PasswordRequest(o, request'[o])
  <2> SUFFICES ASSUME NEW o \in Requests PROVE PasswordRequest(o, request'[o])
    OBVIOUS
  <2>1. CASE o = r
    BY <1>1, <2>1
  <2>2. CASE o # r
    BY <1>1, <2>2, Zenon DEF PasswordInv
  <2> QED
    BY <2>1, <2>2, Zenon
<1>3. \A x, o \in Requests : x # o /\ request'[x].phase = "written" /\ request'[o].phase = "written" =>
            RowsOf(request'[x].out.writes) \intersect RowsOf(request'[o].out.writes) = {}
  <2> SUFFICES ASSUME NEW x \in Requests, NEW o \in Requests, x # o, request'[x].phase = "written", request'[o].phase = "written"
               PROVE  RowsOf(request'[x].out.writes) \intersect RowsOf(request'[o].out.writes) = {}
    BY Zenon
  <2>1. request'[x] = request[x] /\ request'[o] = request[o]
    BY <1>1, Zenon
  <2>2. Written(x) \intersect Written(o) = {}
    BY <2>1, Zenon DEF PasswordInv
  <2> QED
    BY <2>1, <2>2, Zenon DEF Written
<1>4. clock' = clock /\ db' = db /\ mishaps' = mishaps /\ agenda' = agenda
  BY SMTT(60)
<1>5. clock' \in Nat /\ clock' >= clock
  BY <1>4 DEF PasswordInv
<1> QED
  BY <1>1, <1>2, <1>3, <1>4, <1>5, PassFrame, ZenonT(60)

LEMMA DonePassword == \A r : PasswordRequest(r, Done) /\ Done.phase # "written"
<1>1. Done.phase = "done"
  BY DEF Done, Idle
<1>2. Done.phase \notin {"checked", "read", "written"} /\ Done.phase # "written" /\ Done.phase # "read" /\ Done.phase # "checked"
      /\ Done.phase \notin {"read", "written"}
  BY <1>1
<1> QED
  BY <1>1, <1>2, Zenon DEF PasswordRequest

LEMMA PassRead ==
  ASSUME PasswordInv, NEW r \in Requests, Untouched(r), NEW actor, NEW call, call.kind \in RequestKinds,
         call.kind = "login" => call.user \in Users, call.kind = "mfa_verify" => call.arg \in Requests,
         Read(r, actor, call), UNCHANGED <<clock, agenda, db, mishaps>>
  PROVE  PasswordInv'
<1> DEFINE out == Handled(r, actor, call)
           q == [phase |-> "read", call |-> call, actor |-> actor,
                 out |-> [writes |-> out.writes, revoke |-> out.revoke, chain |-> out.chain, held |-> ForUpdate(call),
                          entry |-> None]]
<1>1. CASE out = Refused
  <2>1. request' = [request EXCEPT ![r] = Done]
    BY <1>1, Zenon DEF Read
  <2> QED
    BY <2>1, DonePassword, PassGoesOn, Zenon
<1>2. CASE out # Refused
  <2>1. request' = [request EXCEPT ![r] = q]
    BY <1>2, Zenon DEF Read
  <2>2. Prepared(r, call, out)
    BY HandledPrepared, ZenonT(60)
  <2>3. q.phase = "read" /\ q.call = call /\ q.out.writes = out.writes /\ q.out.revoke = out.revoke /\ HasOutcome(q)
    <3> HIDE DEF out
    <3> QED
      BY DEF HasOutcome
  <2> HIDE DEF q, out
  <2>4. q.phase # "written" /\ q.phase # "checked"
    BY <2>3
  <2>5. PasswordRequest(r, q)
    BY <2>2, <2>3, <2>4, ZenonT(60) DEF PasswordRequest, Prepared, ResetsHash
  <2> QED
    BY <2>1, <2>4, <2>5, PassGoesOn, ZenonT(60)
<1> QED
  BY <1>1, <1>2, Zenon

LEMMA PassArrive ==
  ASSUME PasswordInv, NEW r \in Requests, NEW call, call.kind \in RequestKinds,
         call.kind = "login" => call.user \in Users, call.kind = "mfa_verify" => call.arg \in Requests, Arrive(r, call)
  PROVE  PasswordInv'
<1>1. UNCHANGED <<clock, agenda, db, mishaps>> /\ request[r].phase = "idle"
  BY Zenon DEF Arrive
<1>2. Untouched(r)
  <2>1. PasswordRequest(r, request[r]) /\ request[r].phase # "done"
    BY <1>1, Zenon DEF PasswordInv
  <2> QED
    BY <2>1, Zenon DEF PasswordRequest
<1>3. CASE call.kind \in Open
  BY <1>1, <1>2, <1>3, PassRead, ZenonT(60) DEF Arrive
<1>4. CASE call.kind \notin Open
  <2>1. PICK actor : request' = [request EXCEPT ![r] =
                IF Permitted(actor, call.kind) THEN [Idle EXCEPT !.phase = "checked", !.call = call, !.actor = actor] ELSE Done]
    BY <1>4, Zenon DEF Arrive
  <2>2. PICK q : /\ q = IF Permitted(actor, call.kind) THEN [Idle EXCEPT !.phase = "checked", !.call = call, !.actor = actor] ELSE Done
                 /\ request' = [request EXCEPT ![r] = q]
    BY <2>1, Zenon
  <2>3. q.phase = "done" \/ (q.phase = "checked" /\ q.call = call)
    BY <2>2 DEF Done, Idle
  <2>4. q.phase \notin {"read", "written"} /\ q.phase # "written" /\ q.phase # "read" /\ (q.phase = "checked" => q.call = call)
    BY <2>3
  <2>5. PasswordRequest(r, q)
    BY <1>2, <1>4, <2>4, ZenonT(60) DEF PasswordRequest
  <2> QED
    BY <1>1, <2>2, <2>4, <2>5, PassGoesOn, ZenonT(60)
<1> QED
  BY <1>3, <1>4, Zenon

LEMMA PassHandle == ASSUME PasswordInv, NEW r \in Requests, Handle(r) PROVE PasswordInv'
<1>1. request[r].phase = "checked" /\ PasswordRequest(r, request[r])
  BY Zenon DEF Handle, PasswordInv
<1>2. Untouched(r) /\ request[r].call.kind \in RequestKinds \ Open
  BY <1>1, Zenon DEF PasswordRequest
<1>3. request[r].call.kind # "login" /\ request[r].call.kind # "mfa_verify"
  BY <1>2, Zenon DEF Open
<1> QED
  BY <1>2, <1>3, PassRead, ZenonT(60) DEF Handle

LEMMA PassRollback == ASSUME PasswordInv, NEW r \in Requests, Rollback(r) PROVE PasswordInv'
<1>1. request' = [request EXCEPT ![r] = Done] /\ UNCHANGED <<clock, agenda, db, mishaps>>
  BY Zenon DEF Rollback
<1> QED
  BY <1>1, DonePassword, PassGoesOn, Zenon

\* Time and steps of nobody.
LEMMA PassIdles ==
  ASSUME PasswordInv, UNCHANGED <<agenda, db, request, mishaps>>, clock' = clock \/ clock' = clock + 1
  PROVE  PasswordInv'
<1>1. clock' \in Nat /\ clock' >= clock
  <2>1. clock \in Nat
    BY Zenon DEF PasswordInv
  <2> QED
    BY <2>1
<1>2. agenda' = agenda /\ db' = db /\ request' = request /\ mishaps' = mishaps
  OBVIOUS
<1>3. /\ DOMAIN request' = Requests /\ \A r \in Requests : PasswordRequest(r, request'[r])
      /\ \A r, o \in Requests : r # o /\ request'[r].phase = "written" /\ request'[o].phase = "written" =>
            RowsOf(request'[r].out.writes) \intersect RowsOf(request'[o].out.writes) = {}
  BY <1>2, ZenonT(60) DEF PasswordInv, Written
<1> QED
  BY <1>1, <1>2, <1>3, PassFrame, ZenonT(60)

LEMMA PassWrite == ASSUME PasswordInv, NEW r \in Requests, Write(r) PROVE PasswordInv'
<1> DEFINE out == request[r].out
           revoked == {s \in Sessions : \E where \in out.revoke : Matches(s, where)}
<1>1. PICK w, entry :
        /\ w = [x \in {<<S(s), "revoked">> : s \in revoked} |-> TRUE] ++ out.writes
        /\ request' = [request EXCEPT ![r] = [request[r] EXCEPT !.phase = "written", !.out = [out EXCEPT !.writes = w, !.entry = entry]]]
        /\ request[r].phase = "read" /\ Free(RowsOf(w), r) /\ UNCHANGED <<clock, agenda, db, mishaps>>
  BY Zenon DEF Write
<1>2. PICK q : q = [request[r] EXCEPT !.phase = "written", !.out = [out EXCEPT !.writes = w, !.entry = entry]]
  BY SMTT(60)
<1>3. request'[r] = q /\ (\A o \in Requests \ {r} : request'[o] = request[o]) /\ DOMAIN request' = Requests
  <2>1. request' = [request EXCEPT ![r] = q]
    BY <1>1, <1>2, ZenonT(60)
  <2> QED
    BY <2>1 DEF PasswordInv
<1>r. PasswordRequest(r, request[r]) /\ request[r].phase \in {"read", "written"} /\ request[r].phase # "done"
  BY <1>1, ZenonT(60) DEF PasswordInv
<1>4. q.phase = "written" /\ q.call = request[r].call /\ q.out.writes = w /\ HasOutcome(q)
  <2>1. HasOutcome(request[r])
    BY <1>r, ZenonT(60) DEF PasswordRequest
  <2> QED
    BY <1>2, <2>1, Zenon DEF HasOutcome
<1>5. PICK f : f = [x \in {<<S(s), "revoked">> : s \in revoked} |-> TRUE]
  BY Zenon
<1>6. PICK g : g = out.writes
  OBVIOUS
<1>7. /\ \A s \in revoked : <<S(s), "revoked">> \in DOMAIN f
      /\ \A x \in DOMAIN f : f[x] = TRUE
      /\ \A k, c : <<k, c>> \in DOMAIN f => c = "revoked" /\ \E s \in revoked : k = S(s)
  <2>1. DOMAIN f = {<<S(s), "revoked">> : s \in revoked} /\ \A x \in DOMAIN f : f[x] = TRUE
    BY <1>5, Zenon
  <2> HIDE DEF revoked
  <2> QED
    BY <2>1
<1>8. /\ DOMAIN w = DOMAIN f \union DOMAIN g
      /\ \A x \in DOMAIN f : w[x] = f[x]
      /\ \A x \in DOMAIN g : x \notin DOMAIN f => w[x] = g[x]
  <2>1. w = f ++ g
    BY <1>1, <1>5, <1>6, Zenon
  <2> QED
    BY <2>1, Zenon DEF ++
<1>9. \A k, c : c # "revoked" =>
        /\ <<k, c>> \in DOMAIN w <=> <<k, c>> \in DOMAIN g
        /\ <<k, c>> \in DOMAIN w => w[<<k, c>>] = g[<<k, c>>]
  <2> SUFFICES ASSUME NEW k, NEW c, c # "revoked"
               PROVE  (<<k, c>> \in DOMAIN w <=> <<k, c>> \in DOMAIN g) /\ (<<k, c>> \in DOMAIN w => w[<<k, c>>] = g[<<k, c>>])
    BY Zenon
  <2>1. <<k, c>> \notin DOMAIN f
    <3> HIDE DEF revoked
    <3> QED
      BY <1>7
  <2> QED
    BY <1>8, <2>1, Zenon
<1>10. RowsOf(g) \subseteq RowsOf(w) /\ \A k \in RowsOf(w) : k \in RowsOf(g) \/ \E s \in revoked : k = S(s)
  <2>1. RowsOf(w) = RowsOf(f) \union RowsOf(g)
    BY <1>1, <1>5, <1>6, OverRows, ZenonT(60)
  <2>2. ASSUME NEW k \in RowsOf(f) PROVE \E s \in revoked : k = S(s)
    <3>1. PICK x \in DOMAIN f : k = x[1]
      BY Zenon DEF RowsOf
    <3>2. PICK s \in revoked : x = <<S(s), "revoked">>
      BY <1>5, Zenon
    <3>3. k = S(s)
      BY <3>1, <3>2
    <3> QED
      BY <3>2, <3>3, Zenon
  <2> QED
    BY <2>1, <2>2, Zenon
<1>11. Columns(r, q.call, g) /\ Verified(r, q.call, g)
  BY <1>r, <1>4, <1>6, ZenonT(60) DEF PasswordRequest
<1>12. "user" # "revoked" /\ "password" # "revoked" /\ "hash" # "revoked" /\ "last_login" # "revoked" /\ "expires" # "revoked"
  OBVIOUS
<1>13. Columns(r, q.call, w)
  <2>1. \A s \in Sessions : {<<S(s), "user">>, <<S(s), "password">>} \intersect DOMAIN w # {} => q.call.kind \in SignsIn /\ s = Fresh(r)
    BY <1>9, <1>11, <1>12, ZenonT(60) DEF Columns
  <2>2. \A s \in Sessions : <<S(s), "revoked">> \in DOMAIN w => w[<<S(s), "revoked">>] = TRUE
    BY <1>7, <1>8, <1>11, ZenonT(60) DEF Columns
  <2>3. \A c \in Requests : C(c) \in RowsOf(w) => q.call.kind = "login" /\ c = r
    <3>1. \A c \in Requests : C(c) \in RowsOf(g) => q.call.kind = "login" /\ c = r
      BY <1>11, Zenon DEF Columns
    <3> QED
      BY <1>10, <3>1, RowKinds
  <2>4. <<C(r), "expires">> \in DOMAIN w => w[<<C(r), "expires">>] \in Nat
    <3>1. <<C(r), "expires">> \in DOMAIN g => g[<<C(r), "expires">>] \in Nat
      BY <1>11, Zenon DEF Columns
    <3> QED
      BY <1>9, <1>12, <3>1, ZenonT(60)
  <2>5. \A u \in Users : <<U(u), "last_login">> \in DOMAIN w => w[<<U(u), "last_login">>] = r
    <3>1. \A u \in Users : <<U(u), "last_login">> \in DOMAIN g => g[<<U(u), "last_login">>] = r
      BY <1>11, Zenon DEF Columns
    <3> QED
      BY <1>9, <1>12, <3>1, ZenonT(60)
  <2>6. \A u \in Users : <<U(u), "hash">> \in DOMAIN w =>
        \/ q.call.kind = "login" /\ u = q.call.user
        \/ q.call.kind \in {"change_password", "reset"} /\ w[<<U(u), "hash">>][1] = r
    <3> SUFFICES ASSUME NEW u \in Users, <<U(u), "hash">> \in DOMAIN w
                 PROVE  \/ q.call.kind = "login" /\ u = q.call.user
                        \/ q.call.kind \in {"change_password", "reset"} /\ w[<<U(u), "hash">>][1] = r
      BY Zenon
    <3>1. <<U(u), "hash">> \in DOMAIN g /\ w[<<U(u), "hash">>] = g[<<U(u), "hash">>]
      BY <1>9, <1>12, Zenon
    <3>2. \/ q.call.kind = "login" /\ u = q.call.user
          \/ q.call.kind \in {"change_password", "reset"} /\ g[<<U(u), "hash">>][1] = r
      BY <1>11, <3>1, ZenonT(60) DEF Columns
    <3> QED
      BY <3>1, <3>2, Zenon
  <2> QED
    BY <2>1, <2>2, <2>3, <2>4, <2>5, <2>6, ZenonT(60) DEF Columns
<1>14. Verified(r, q.call, w)
  <2>1. \A row : /\ <<row, "user">> \in DOMAIN w <=> <<row, "user">> \in DOMAIN g
                 /\ <<row, "user">> \in DOMAIN w => w[<<row, "user">>] = g[<<row, "user">>]
                 /\ PasswordIn(w, row) = PasswordIn(g, row)
    BY <1>9, <1>12, Zenon DEF PasswordIn
  <2>2. \A u : /\ <<U(u), "hash">> \in DOMAIN w <=> <<U(u), "hash">> \in DOMAIN g
               /\ <<U(u), "hash">> \in DOMAIN w => w[<<U(u), "hash">>] = g[<<U(u), "hash">>]
    BY <1>9, <1>12, Zenon
  <2>3. ASSUME NEW row \in {S(Fresh(r)), C(r)}, <<row, "user">> \in DOMAIN w
        PROVE  /\ w[<<row, "user">>] \in Users /\ (q.call.kind = "login" => w[<<row, "user">>] = q.call.user)
               /\ row = S(Fresh(r)) => U(w[<<row, "user">>]) \in RowsOf(w)
               /\ "sign_in" \notin mishaps => PasswordIn(w, row) = db[U(w[<<row, "user">>])].hash[1]
    <3>1. <<row, "user">> \in DOMAIN g /\ w[<<row, "user">>] = g[<<row, "user">>] /\ PasswordIn(w, row) = PasswordIn(g, row)
      BY <2>1, <2>3, Zenon
    <3>2. /\ g[<<row, "user">>] \in Users /\ (q.call.kind = "login" => g[<<row, "user">>] = q.call.user)
          /\ row = S(Fresh(r)) => U(g[<<row, "user">>]) \in RowsOf(g)
          /\ "sign_in" \notin mishaps => PasswordIn(g, row) = db[U(g[<<row, "user">>])].hash[1]
      BY <1>11, <3>1, Zenon DEF Verified
    <3> QED
      BY <1>10, <3>1, <3>2, ZenonT(60)
  <2>4. "sign_in" \notin mishaps /\ q.call.kind = "login" =>
            \A u \in Users : <<U(u), "hash">> \in DOMAIN w => w[<<U(u), "hash">>][1] = db[U(u)].hash[1]
    <3>1. "sign_in" \notin mishaps /\ q.call.kind = "login" =>
            \A u \in Users : <<U(u), "hash">> \in DOMAIN g => g[<<U(u), "hash">>][1] = db[U(u)].hash[1]
      BY <1>11, Zenon DEF Verified
    <3> SUFFICES ASSUME "sign_in" \notin mishaps, q.call.kind = "login", NEW u \in Users, <<U(u), "hash">> \in DOMAIN w
                 PROVE  w[<<U(u), "hash">>][1] = db[U(u)].hash[1]
      BY Zenon
    <3>2. <<U(u), "hash">> \in DOMAIN g /\ w[<<U(u), "hash">>] = g[<<U(u), "hash">>]
      BY <2>2, Zenon
    <3>3. g[<<U(u), "hash">>][1] = db[U(u)].hash[1]
      BY <3>1, <3>2, Zenon
    <3> QED
      BY <3>2, <3>3, Zenon
  <2> QED
    BY <2>3, <2>4, Zenon DEF Verified
<1>15. ASSUME NEW u \in Users, ResetsHash(q, u), NEW s \in Opened, db[S(s)].user = u, ~db[S(s)].revoked
       PROVE  <<S(s), "revoked">> \in DOMAIN w
  <2>1. q.call.kind # "login" /\ <<U(u), "hash">> \in DOMAIN w
    BY <1>4, <1>15, Zenon DEF ResetsHash
  <2>2. <<U(u), "hash">> \in DOMAIN g
    BY <1>9, <1>12, <2>1, ZenonT(60)
  <2>3. ResetsHash(request[r], u)
    BY <1>4, <1>6, <2>1, <2>2, ZenonT(60) DEF ResetsHash
  <2>4. SessionsOf(u, None) \in out.revoke
    BY <1>1, <1>r, <2>3, ZenonT(60) DEF PasswordRequest
  <2>5. SessionsOf(u, None).session = None /\ SessionsOf(u, None).user = u /\ SessionsOf(u, None).tenant = None
    BY DEF SessionsOf
  <2>6. s \in Sessions /\ db[S(s)].user # None
    BY Zenon DEF Opened
  <2>7. Matches(s, SessionsOf(u, None))
    BY <1>15, <2>5, <2>6, ZenonT(60) DEF Matches
  <2>8. s \in revoked
    BY <2>4, <2>6, <2>7, ZenonT(60)
  <2> QED
    BY <1>7, <1>8, <2>8, ZenonT(60)
<1>16. PasswordRequest(r, q)
  <2>1. Untouched(r)
    BY <1>r, Zenon DEF PasswordRequest
  <2>2. q.phase # "checked" /\ q.phase # "read"
    BY <1>4
  <2> QED
    BY <1>4, <1>13, <1>14, <1>15, <2>1, <2>2, ZenonT(60) DEF PasswordRequest
<1>17. \A o \in Requests : PasswordRequest(o, request'[o])
  <2> SUFFICES ASSUME NEW o \in Requests PROVE PasswordRequest(o, request'[o])
    OBVIOUS
  <2>1. CASE o = r
    BY <1>3, <1>16, <2>1
  <2>2. CASE o # r
    BY <1>3, <2>2, ZenonT(60) DEF PasswordInv
  <2> QED
    BY <2>1, <2>2, Zenon
<1>18. ASSUME NEW o \in Requests \ {r}, request[o].phase = "written" PROVE RowsOf(w) \intersect RowsOf(request[o].out.writes) = {}
  <2>1. RowsOf(w) \intersect Locked(o) = {}
    BY <1>1, Zenon DEF Free
  <2>2. RowsOf(request[o].out.writes) \subseteq Locked(o)
    BY <1>18, Zenon DEF Locked
  <2> QED
    BY <2>1, <2>2, Zenon
<1>19. \A x, o \in Requests : x # o /\ request'[x].phase = "written" /\ request'[o].phase = "written" =>
            RowsOf(request'[x].out.writes) \intersect RowsOf(request'[o].out.writes) = {}
  <2> SUFFICES ASSUME NEW x \in Requests, NEW o \in Requests, x # o, request'[x].phase = "written", request'[o].phase = "written"
               PROVE  RowsOf(request'[x].out.writes) \intersect RowsOf(request'[o].out.writes) = {}
    BY Zenon
  <2>1. CASE x = r
    <3>1. request'[x].out.writes = w /\ request'[o] = request[o] /\ o \in Requests \ {r}
      BY <1>3, <1>4, <2>1, ZenonT(60)
    <3> QED
      BY <1>18, <3>1, Zenon
  <2>2. CASE o = r
    <3>1. request'[o].out.writes = w /\ request'[x] = request[x] /\ x \in Requests \ {r}
      BY <1>3, <1>4, <2>2, ZenonT(60)
    <3>2. RowsOf(w) \intersect RowsOf(request[x].out.writes) = {}
      BY <1>18, <3>1, Zenon
    <3> QED
      BY <3>1, <3>2, Zenon
  <2>3. CASE x # r /\ o # r
    <3>1. request'[x] = request[x] /\ request'[o] = request[o]
      BY <1>3, <2>3, ZenonT(60)
    <3>2. Written(x) \intersect Written(o) = {}
      BY <3>1, ZenonT(60) DEF PasswordInv
    <3> QED
      BY <3>1, <3>2, Zenon DEF Written
  <2> QED
    BY <2>1, <2>2, <2>3, ZenonT(60)
<1>20. clock' = clock /\ db' = db /\ mishaps' = mishaps /\ agenda' = agenda
  BY <1>1
<1>21. clock' \in Nat /\ clock' >= clock
  <2>1. clock \in Nat
    BY Zenon DEF PasswordInv
  <2> QED
    BY <1>20, <2>1
<1> QED
  BY <1>3, <1>17, <1>19, <1>20, <1>21, PassFrame, Zenon

\* Every column after the writes: the one written, or the one that was there.
LEMMA ColumnAfter ==
  ASSUME NEW rows, NEW w, NEW k \in DOMAIN rows, NEW c \in DOMAIN rows[k]
  PROVE  /\ k \in DOMAIN Applied(rows, w) /\ DOMAIN Applied(rows, w)[k] = DOMAIN rows[k]
         /\ <<k, c>> \in DOMAIN w => Applied(rows, w)[k][c] = w[<<k, c>>]
         /\ <<k, c>> \notin DOMAIN w => Applied(rows, w)[k][c] = rows[k][c]
<1>1. CASE k \notin RowsOf(w)
  <2>1. k \in DOMAIN Applied(rows, w) /\ Applied(rows, w)[k] = rows[k]
    BY <1>1, Zenon DEF Applied, ++
  <2>2. <<k, c>> \notin DOMAIN w
    BY <1>1, KeyRow, Zenon
  <2> QED
    BY <2>1, <2>2, ZenonT(60)
<1>2. CASE k \in RowsOf(w)
  <2>1. /\ k \in DOMAIN Applied(rows, w)
        /\ Applied(rows, w)[k] = [d \in DOMAIN rows[k] |-> IF <<k, d>> \in DOMAIN w THEN w[<<k, d>>] ELSE rows[k][d]]
    BY <1>2, ZenonT(60) DEF Applied, ++
  <2> QED
    BY <1>2, <2>1, ZenonT(60)
<1> QED
  BY <1>1, <1>2, Zenon

\* What a commit does to the columns in question.
Kept(k, c) == db'[k][c] = db[k][c]
Follows(r, w) ==
  /\ \A s \in Sessions : s # Fresh(r) => Kept(S(s), "user") /\ Kept(S(s), "password")
  /\ \A s \in Sessions : <<S(s), "revoked">> \in DOMAIN w => db'[S(s)].revoked = TRUE
  /\ \A s \in Sessions : <<S(s), "revoked">> \notin DOMAIN w => Kept(S(s), "revoked")
  /\ \A c \in Requests : c # r => Kept(C(c), "user") /\ Kept(C(c), "password") /\ Kept(C(c), "expires")
  /\ \A row \in {S(Fresh(r)), C(r)} :
        \/ <<row, "user">> \notin DOMAIN w /\ db'[row].user = None
        \/ <<row, "user">> \in DOMAIN w /\ db'[row].user = w[<<row, "user">>]
  /\ \A row \in {S(Fresh(r)), C(r)} : db'[row].password = PasswordIn(w, row)
  /\ db'[C(r)].expires \in Nat
  /\ \A u \in Users : db'[U(u)].last_login \in {r, db[U(u)].last_login}
  /\ \A u \in Users : <<U(u), "hash">> \notin DOMAIN w => Kept(U(u), "hash")
  /\ \A u \in Users : <<U(u), "hash">> \in DOMAIN w => db'[U(u)].hash = w[<<U(u), "hash">>]

LEMMA CommitFollows ==
  ASSUME PasswordInv, NEW r \in Requests, NEW call, NEW w, db' = Applied(db, w), Columns(r, call, w), Untouched(r)
  PROVE  /\ Follows(r, w)
         /\ \A u \in Users : U(u) \in DOMAIN db' /\ {"hash", "last_login"} \subseteq DOMAIN db'[U(u)]
         /\ \A s \in Sessions : S(s) \in DOMAIN db' /\ {"user", "password", "revoked"} \subseteq DOMAIN db'[S(s)]
         /\ \A c \in Requests : C(c) \in DOMAIN db' /\ {"user", "password", "expires"} \subseteq DOMAIN db'[C(c)]
<1>1. /\ \A u \in Users : U(u) \in DOMAIN db /\ {"hash", "last_login"} \subseteq DOMAIN db[U(u)]
      /\ \A s \in Sessions : S(s) \in DOMAIN db /\ {"user", "password", "revoked"} \subseteq DOMAIN db[S(s)]
      /\ \A c \in Requests : C(c) \in DOMAIN db /\ {"user", "password", "expires"} \subseteq DOMAIN db[C(c)] /\ db[C(c)].expires \in Nat
  BY ZenonT(60) DEF PasswordInv
<1>2. ASSUME NEW k \in DOMAIN db, NEW c \in DOMAIN db[k]
      PROVE  /\ k \in DOMAIN db' /\ DOMAIN db'[k] = DOMAIN db[k]
             /\ <<k, c>> \in DOMAIN w => db'[k][c] = w[<<k, c>>]
             /\ <<k, c>> \notin DOMAIN w => Kept(k, c)
  <2>1. /\ k \in DOMAIN Applied(db, w) /\ DOMAIN Applied(db, w)[k] = DOMAIN db[k]
        /\ <<k, c>> \in DOMAIN w => Applied(db, w)[k][c] = w[<<k, c>>]
        /\ <<k, c>> \notin DOMAIN w => Applied(db, w)[k][c] = db[k][c]
    BY ColumnAfter
  <2> QED
    BY <2>1, SMTT(60) DEF Kept
<1>3. \A u \in Users : /\ U(u) \in DOMAIN db' /\ {"hash", "last_login"} \subseteq DOMAIN db'[U(u)]
                       /\ \A c \in {"hash", "last_login"} : /\ <<U(u), c>> \in DOMAIN w => db'[U(u)][c] = w[<<U(u), c>>]
                                                            /\ <<U(u), c>> \notin DOMAIN w => Kept(U(u), c)
  BY <1>1, <1>2, Zenon
<1>4. \A s \in Sessions : /\ S(s) \in DOMAIN db' /\ {"user", "password", "revoked"} \subseteq DOMAIN db'[S(s)]
                          /\ \A c \in {"user", "password", "revoked"} : /\ <<S(s), c>> \in DOMAIN w => db'[S(s)][c] = w[<<S(s), c>>]
                                                                        /\ <<S(s), c>> \notin DOMAIN w => Kept(S(s), c)
  BY <1>1, <1>2, Zenon
<1>5. \A x \in Requests : /\ C(x) \in DOMAIN db' /\ {"user", "password", "expires"} \subseteq DOMAIN db'[C(x)]
                          /\ \A c \in {"user", "password", "expires"} : /\ <<C(x), c>> \in DOMAIN w => db'[C(x)][c] = w[<<C(x), c>>]
                                                                        /\ <<C(x), c>> \notin DOMAIN w => Kept(C(x), c)
  BY <1>1, <1>2, Zenon
<1>6. \A s \in Sessions : s # Fresh(r) => Kept(S(s), "user") /\ Kept(S(s), "password")
  <2>1. \A s \in Sessions : s # Fresh(r) => <<S(s), "user">> \notin DOMAIN w /\ <<S(s), "password">> \notin DOMAIN w
    BY Zenon DEF Columns
  <2> QED
    BY <1>4, <2>1, Zenon
<1>7. \A s \in Sessions : /\ <<S(s), "revoked">> \in DOMAIN w => db'[S(s)].revoked = TRUE
                          /\ <<S(s), "revoked">> \notin DOMAIN w => Kept(S(s), "revoked")
  <2>1. \A s \in Sessions : <<S(s), "revoked">> \in DOMAIN w => w[<<S(s), "revoked">>] = TRUE
    BY Zenon DEF Columns
  <2> QED
    BY <1>4, <2>1, Zenon
<1>8. \A c \in Requests : c # r => Kept(C(c), "user") /\ Kept(C(c), "password") /\ Kept(C(c), "expires")
  <2>1. \A c \in Requests : c # r => \A d : <<C(c), d>> \notin DOMAIN w
    BY KeyRow, Zenon DEF Columns
  <2> QED
    BY <1>5, <2>1, ZenonT(60)
<1>9. Fresh(r) \in Sessions
  BY FreshSession, Zenon
<1>10. ASSUME NEW row \in {S(Fresh(r)), C(r)}
       PROVE  /\ \/ <<row, "user">> \notin DOMAIN w /\ db'[row].user = None
                 \/ <<row, "user">> \in DOMAIN w /\ db'[row].user = w[<<row, "user">>]
              /\ db'[row].password = PasswordIn(w, row)
  <2>1. db[row].user = None /\ db[row].password = 0
    BY Zenon DEF Untouched
  <2>2. \A c \in {"user", "password"} : /\ <<row, c>> \in DOMAIN w => db'[row][c] = w[<<row, c>>]
                                        /\ <<row, c>> \notin DOMAIN w => db'[row][c] = db[row][c]
    BY <1>4, <1>5, <1>9, ZenonT(60) DEF Kept
  <2> QED
    BY <2>1, <2>2, ZenonT(60) DEF PasswordIn
<1>11. db'[C(r)].expires \in Nat
  <2>1. <<C(r), "expires">> \in DOMAIN w => w[<<C(r), "expires">>] \in Nat
    BY Zenon DEF Columns
  <2>2. db[C(r)].expires \in Nat
    BY <1>1, Zenon
  <2> QED
    BY <1>5, <2>1, <2>2, ZenonT(60) DEF Kept
<1>12. \A u \in Users : db'[U(u)].last_login \in {r, db[U(u)].last_login}
  <2>1. \A u \in Users : <<U(u), "last_login">> \in DOMAIN w => w[<<U(u), "last_login">>] = r
    BY Zenon DEF Columns
  <2> QED
    BY <1>3, <2>1, ZenonT(60) DEF Kept
<1>13. \A u \in Users : /\ <<U(u), "hash">> \notin DOMAIN w => Kept(U(u), "hash")
                        /\ <<U(u), "hash">> \in DOMAIN w => db'[U(u)].hash = w[<<U(u), "hash">>]
  BY <1>3, Zenon
<1>14. Follows(r, w)
  BY <1>6, <1>7, <1>8, <1>10, <1>11, <1>12, <1>13, ZenonT(60) DEF Follows
<1> QED
  BY <1>3, <1>4, <1>5, <1>14, ZenonT(60)

\* The committed request, and what it leaves of the passwords unless a sign-in overlaps.
Commits(r, call, w) ==
  /\ request[r].phase = "written" /\ request[r].call = call /\ request[r].out.writes = w
  /\ Columns(r, call, w) /\ Verified(r, call, w) /\ Follows(r, w)
  /\ "sign_in" \notin mishaps' => "sign_in" \notin mishaps
  /\ "sign_in" \notin mishaps' =>
        \A u \in Users : db'[U(u)].hash[1] = db[U(u)].hash[1] \/ (ResetsHash(request[r], u) /\ ~SigningIn(u))

LEMMA CommitCommits ==
  ASSUME PasswordInv, NEW r \in Requests, Commit(r)
  PROVE  /\ Commits(r, request[r].call, request[r].out.writes)
         /\ \A u \in Users : U(u) \in DOMAIN db' /\ {"hash", "last_login"} \subseteq DOMAIN db'[U(u)]
         /\ \A s \in Sessions : S(s) \in DOMAIN db' /\ {"user", "password", "revoked"} \subseteq DOMAIN db'[S(s)]
         /\ \A c \in Requests : C(c) \in DOMAIN db' /\ {"user", "password", "expires"} \subseteq DOMAIN db'[C(c)]
<1>1. /\ request[r].phase = "written"
      /\ db' = Applied(db, request[r].out.writes) /\ mishaps' = mishaps \union Overlaps(r)
  BY Zenon DEF Commit
<1>2. PICK w : w = request[r].out.writes
  OBVIOUS
<1>3. PICK call : call = request[r].call
  OBVIOUS
<1>4. PasswordRequest(r, request[r]) /\ request[r].phase # "done" /\ request[r].phase \in {"read", "written"}
  BY <1>1, ZenonT(60) DEF PasswordInv
<1>5. Columns(r, call, w) /\ Verified(r, call, w) /\ Untouched(r)
  BY <1>2, <1>3, <1>4, ZenonT(60) DEF PasswordRequest
<1>6. db' = Applied(db, w)
  BY <1>1, <1>2, ZenonT(60)
<1>7. /\ Follows(r, w)
      /\ \A u \in Users : U(u) \in DOMAIN db' /\ {"hash", "last_login"} \subseteq DOMAIN db'[U(u)]
      /\ \A s \in Sessions : S(s) \in DOMAIN db' /\ {"user", "password", "revoked"} \subseteq DOMAIN db'[S(s)]
      /\ \A c \in Requests : C(c) \in DOMAIN db' /\ {"user", "password", "expires"} \subseteq DOMAIN db'[C(c)]
  BY <1>5, <1>6, CommitFollows, ZenonT(60)
<1>8. ASSUME "sign_in" \notin mishaps', NEW u \in Users
      PROVE  db'[U(u)].hash[1] = db[U(u)].hash[1] \/ (ResetsHash(request[r], u) /\ ~SigningIn(u))
  <2>0. "sign_in" \notin mishaps /\ "sign_in" \notin Overlaps(r)
    BY <1>1, <1>8, Zenon
  <2>1. CASE <<U(u), "hash">> \notin DOMAIN w
    BY <1>7, <2>1, ZenonT(60) DEF Follows, Kept
  <2>2. CASE <<U(u), "hash">> \in DOMAIN w /\ call.kind = "login"
    <3>1. w[<<U(u), "hash">>][1] = db[U(u)].hash[1]
      BY <1>5, <2>0, <2>2, ZenonT(60) DEF Verified
    <3>2. db'[U(u)].hash = w[<<U(u), "hash">>]
      BY <1>7, <2>2, ZenonT(60) DEF Follows
    <3> QED
      BY <3>1, <3>2, ZenonT(60)
  <2>3. CASE <<U(u), "hash">> \in DOMAIN w /\ call.kind # "login"
    <3>1. w[<<U(u), "hash">>][1] = r
      BY <1>5, <2>3, ZenonT(60) DEF Columns
    <3>2. SetsPassword(r, u)
      BY <1>2, <2>3, <3>1, ZenonT(60) DEF SetsPassword
    <3>3. SigningIn(u) => "sign_in" \in Overlaps(r)
      BY <3>2, Zenon DEF Overlaps
    <3>4. ResetsHash(request[r], u)
      BY <1>2, <1>3, <2>3, ZenonT(60) DEF ResetsHash
    <3> QED
      BY <2>0, <3>3, <3>4, ZenonT(60)
  <2> QED
    BY <2>1, <2>2, <2>3, ZenonT(60)
<1>9. "sign_in" \notin mishaps' => "sign_in" \notin mishaps
  BY <1>1, Zenon
<1>10. Commits(r, call, w)
  BY <1>1, <1>2, <1>3, <1>5, <1>7, <1>8, <1>9, ZenonT(60) DEF Commits
<1> QED
  BY <1>2, <1>3, <1>7, <1>10, ZenonT(60)

\* A request that has read and signs somebody in is a sign-in under way.
LEMMA UnderWaySignsIn ==
  ASSUME NEW o \in Requests, request[o].phase \in {"read", "written"}
  PROVE  /\ request[o].call.kind = "login" => SigningIn(request[o].call.user)
         /\ request[o].call.kind = "mfa_verify" => \A u : SigningIn(u)
<1>1. o \in Reading
  <2>1. request[o].phase # "checked" /\ request[o].phase \in {"checked", "read", "written"}
    OBVIOUS
  <2> QED
    BY <2>1, Zenon DEF Reading, UnderWay
<1> QED
  BY <1>1, Zenon DEF SigningIn

\* Nobody else's commit touches what a request is about to fill.
LEMMA CommitUntouched ==
  ASSUME NEW r \in Requests, NEW w, Follows(r, w), NEW o \in Requests \ {r}, Untouched(o)
  PROVE  Untouched(o)'
<1>1. Fresh(o) \in Sessions /\ Fresh(o) # Fresh(r)
  BY FreshSession, Zenon
<1>2. Kept(S(Fresh(o)), "user") /\ Kept(S(Fresh(o)), "password") /\ Kept(C(o), "user") /\ Kept(C(o), "password")
  BY <1>1, Zenon DEF Follows
<1>3. \A u \in Users : db'[U(u)].last_login # o
  BY Zenon DEF Follows, Untouched
<1> QED
  BY <1>2, <1>3, Zenon DEF Kept, Untouched

\* The password a sign-in under way has verified is still the user's.
LEMMA CommitVerified ==
  ASSUME NEW r \in Requests, NEW own, NEW ww, Commits(r, own, ww), NEW o \in Requests \ {r}, request[o].phase \in {"read", "written"},
         NEW call, NEW w, call = request[o].call, w = request[o].out.writes,
         Columns(o, call, w), Verified(o, call, w)
  PROVE  Verified(o, call, w)'
<1>1. ASSUME "sign_in" \notin mishaps', NEW u \in Users, \/ call.kind = "login" /\ u = call.user
                                                         \/ call.kind = "mfa_verify"
      PROVE  db'[U(u)].hash[1] = db[U(u)].hash[1]
  <2>1. SigningIn(u)
    BY <1>1, UnderWaySignsIn, Zenon
  <2> QED
    BY <1>1, <2>1, Zenon DEF Commits
<1>2. "sign_in" \notin mishaps' => "sign_in" \notin mishaps
  BY Zenon DEF Commits
<1>3. ASSUME NEW row \in {S(Fresh(o)), C(o)}, <<row, "user">> \in DOMAIN w
      PROVE  /\ w[<<row, "user">>] \in Users /\ (call.kind = "login" => w[<<row, "user">>] = call.user)
             /\ row = S(Fresh(o)) => U(w[<<row, "user">>]) \in RowsOf(w)
             /\ "sign_in" \notin mishaps' => PasswordIn(w, row) = db'[U(w[<<row, "user">>])].hash[1]
  <2>1. /\ w[<<row, "user">>] \in Users /\ (call.kind = "login" => w[<<row, "user">>] = call.user)
        /\ row = S(Fresh(o)) => U(w[<<row, "user">>]) \in RowsOf(w)
        /\ "sign_in" \notin mishaps => PasswordIn(w, row) = db[U(w[<<row, "user">>])].hash[1]
    BY <1>3, Zenon DEF Verified
  <2>2. call.kind \in SignsIn
    <3>1. CASE row = S(Fresh(o))
      <4>1. Fresh(o) \in Sessions
        BY FreshSession, Zenon
      <4> QED
        BY <1>3, <3>1, <4>1, ZenonT(60) DEF Columns
    <3>2. CASE row = C(o)
      <4>1. C(o) \in RowsOf(w)
        BY <1>3, <3>2, KeyRow, ZenonT(60)
      <4>2. call.kind = "login"
        BY <4>1, Zenon DEF Columns
      <4> QED
        BY <4>2, Zenon DEF SignsIn
    <3> QED
      BY <3>1, <3>2, ZenonT(60)
  <2>3. "sign_in" \notin mishaps' => db'[U(w[<<row, "user">>])].hash[1] = db[U(w[<<row, "user">>])].hash[1]
    BY <1>1, <2>1, <2>2, ZenonT(60) DEF SignsIn
  <2> QED
    BY <1>2, <2>1, <2>3, ZenonT(60)
<1>4. ASSUME "sign_in" \notin mishaps', call.kind = "login", NEW u \in Users, <<U(u), "hash">> \in DOMAIN w
      PROVE  w[<<U(u), "hash">>][1] = db'[U(u)].hash[1]
  <2>1. w[<<U(u), "hash">>][1] = db[U(u)].hash[1]
    BY <1>2, <1>4, ZenonT(60) DEF Verified
  <2>2. u = call.user
    <3>1. call.kind \notin {"change_password", "reset"}
      BY <1>4
    <3> QED
      BY <1>4, <3>1, ZenonT(60) DEF Columns
  <2> QED
    BY <1>1, <1>4, <2>1, <2>2, ZenonT(60)
<1> QED
  BY <1>3, <1>4, ZenonT(60) DEF Verified

\* Sessions that are honoured after a commit were before it, or are the new one.
LEMMA CommitOpened ==
  ASSUME NEW r \in Requests, NEW w, Follows(r, w), NEW s \in Opened', ~db'[S(s)].revoked
  PROVE  /\ s \in Sessions /\ <<S(s), "revoked">> \notin DOMAIN w
         /\ \/ s = Fresh(r) /\ <<S(s), "user">> \in DOMAIN w /\ db'[S(s)].user = w[<<S(s), "user">>] /\ db'[S(s)].password = PasswordIn(w, S(s))
            \/ s \in Opened /\ ~db[S(s)].revoked /\ db'[S(s)].user = db[S(s)].user /\ db'[S(s)].password = db[S(s)].password
<1>1. s \in Sessions /\ db'[S(s)].user # None
  BY Zenon DEF Opened
<1>2. <<S(s), "revoked">> \notin DOMAIN w /\ db'[S(s)].revoked = db[S(s)].revoked
  BY <1>1, Zenon DEF Follows, Kept
<1>3. CASE s = Fresh(r)
  <2>1. <<S(s), "user">> \in DOMAIN w /\ db'[S(s)].user = w[<<S(s), "user">>]
    BY <1>1, <1>3, ZenonT(60) DEF Follows
  <2>2. db'[S(s)].password = PasswordIn(w, S(s))
    BY <1>3, Zenon DEF Follows
  <2> QED
    BY <1>1, <1>2, <1>3, <2>1, <2>2, ZenonT(60)
<1>4. CASE s # Fresh(r)
  <2>1. db'[S(s)].user = db[S(s)].user /\ db'[S(s)].password = db[S(s)].password
    BY <1>1, <1>4, ZenonT(60) DEF Follows, Kept
  <2>2. s \in Opened
    BY <1>1, <2>1, ZenonT(60) DEF Opened
  <2> QED
    BY <1>1, <1>2, <2>1, <2>2, ZenonT(60)
<1> QED
  BY <1>3, <1>4, ZenonT(60)

LEMMA PassCommit == ASSUME PasswordInv, NEW r \in Requests, Commit(r) PROVE PasswordInv'
<1>1. request' = [request EXCEPT ![r] = Done] /\ clock' = clock /\ agenda' = agenda
  BY Zenon DEF Commit
<1>2. PICK w : w = request[r].out.writes
  OBVIOUS
<1>3. PICK call : call = request[r].call
  OBVIOUS
<1>4. /\ Commits(r, call, w)
      /\ \A u \in Users : U(u) \in DOMAIN db' /\ {"hash", "last_login"} \subseteq DOMAIN db'[U(u)]
      /\ \A s \in Sessions : S(s) \in DOMAIN db' /\ {"user", "password", "revoked"} \subseteq DOMAIN db'[S(s)]
      /\ \A c \in Requests : C(c) \in DOMAIN db' /\ {"user", "password", "expires"} \subseteq DOMAIN db'[C(c)]
  BY <1>2, <1>3, CommitCommits, ZenonT(60)
<1>5. /\ request[r].phase = "written" /\ Columns(r, call, w) /\ Verified(r, call, w) /\ Follows(r, w)
      /\ "sign_in" \notin mishaps' => "sign_in" \notin mishaps
  BY <1>4, ZenonT(60) DEF Commits
<1>6. request'[r] = Done /\ (\A o \in Requests \ {r} : request'[o] = request[o]) /\ DOMAIN request' = Requests
  BY <1>1 DEF PasswordInv
<1>7. Fresh(r) \in Sessions
  BY FreshSession, Zenon
<1>8. <<S(Fresh(r)), "user">> \in DOMAIN w =>
        /\ w[<<S(Fresh(r)), "user">>] \in Users /\ U(w[<<S(Fresh(r)), "user">>]) \in RowsOf(w) /\ call.kind \in SignsIn
        /\ "sign_in" \notin mishaps => PasswordIn(w, S(Fresh(r))) = db[U(w[<<S(Fresh(r)), "user">>])].hash[1]
  <2>1. <<S(Fresh(r)), "user">> \in DOMAIN w => call.kind \in SignsIn
    BY <1>5, <1>7, ZenonT(60) DEF Columns
  <2> QED
    BY <1>5, <2>1, ZenonT(60) DEF Verified
<1>9. \A u \in Users : ResetsHash(request[r], u) => call.kind \notin SignsIn
  <2> SUFFICES ASSUME NEW u \in Users, ResetsHash(request[r], u) PROVE call.kind \notin SignsIn
    BY Zenon
  <2>1. call.kind # "login" /\ <<U(u), "hash">> \in DOMAIN w
    BY <1>2, <1>3, ZenonT(60) DEF ResetsHash
  <2>2. call.kind = "change_password" \/ call.kind = "reset"
    BY <1>5, <2>1, ZenonT(60) DEF Columns
  <2> QED
    BY <2>2 DEF SignsIn
<1>10. \A u \in Users : ResetsHash(request[r], u) =>
         \A s \in Opened : db[S(s)].user = u /\ ~db[S(s)].revoked => <<S(s), "revoked">> \in DOMAIN w
  <2>1. PasswordRequest(r, request[r])
    BY Zenon DEF PasswordInv
  <2> QED
    BY <1>2, <1>5, <2>1, ZenonT(60) DEF PasswordRequest
<1>11. \A s \in Opened' : db'[S(s)].user \in Users
  <2> SUFFICES ASSUME NEW s \in Opened' PROVE db'[S(s)].user \in Users
    BY Zenon
  <2>1. s \in Sessions /\ db'[S(s)].user # None
    BY Zenon DEF Opened
  <2>2. CASE s = Fresh(r)
    BY <1>5, <1>8, <2>1, <2>2, ZenonT(60) DEF Follows
  <2>3. CASE s # Fresh(r)
    <3>1. db'[S(s)].user = db[S(s)].user
      BY <1>5, <2>1, <2>3, ZenonT(60) DEF Follows, Kept
    <3>2. s \in Opened
      BY <2>1, <3>1, ZenonT(60) DEF Opened
    <3> QED
      BY <3>1, <3>2, ZenonT(60) DEF PasswordInv
  <2> QED
    BY <2>2, <2>3, ZenonT(60)
<1>12. PasswordEndsSessions'
  <2> SUFFICES ASSUME "sign_in" \notin mishaps', NEW s \in Opened', ~db'[S(s)].revoked
               PROVE  db'[S(s)].password = db'[U(db'[S(s)].user)].hash[1]
    BY Zenon DEF PasswordEndsSessions
  <2>0. PICK u : u = db'[S(s)].user
    OBVIOUS
  <2>1. u \in Users
    BY <1>11, <2>0, ZenonT(60)
  <2>2. "sign_in" \notin mishaps
    BY <1>5, Zenon
  <2>3. /\ s \in Sessions /\ <<S(s), "revoked">> \notin DOMAIN w
        /\ \/ s = Fresh(r) /\ <<S(s), "user">> \in DOMAIN w /\ db'[S(s)].user = w[<<S(s), "user">>] /\ db'[S(s)].password = PasswordIn(w, S(s))
           \/ s \in Opened /\ ~db[S(s)].revoked /\ db'[S(s)].user = db[S(s)].user /\ db'[S(s)].password = db[S(s)].password
    BY <1>5, CommitOpened, ZenonT(60)
  <2>4. db'[U(u)].hash[1] = db[U(u)].hash[1] \/ ResetsHash(request[r], u)
    BY <1>4, <2>1, ZenonT(60) DEF Commits
  <2>5. CASE s = Fresh(r) /\ <<S(s), "user">> \in DOMAIN w /\ db'[S(s)].user = w[<<S(s), "user">>] /\ db'[S(s)].password = PasswordIn(w, S(s))
    <3>1. call.kind \in SignsIn /\ PasswordIn(w, S(s)) = db[U(u)].hash[1]
      BY <1>8, <2>0, <2>2, <2>5, ZenonT(60)
    <3>2. db'[U(u)].hash[1] = db[U(u)].hash[1]
      BY <1>9, <2>1, <2>4, <3>1, ZenonT(60)
    <3> QED
      BY <2>0, <2>5, <3>1, <3>2, ZenonT(60)
  <2>6. CASE s \in Opened /\ ~db[S(s)].revoked /\ db'[S(s)].user = db[S(s)].user /\ db'[S(s)].password = db[S(s)].password
    <3>1. db[S(s)].user = u
      BY <2>0, <2>6, ZenonT(60)
    <3>2. ~ResetsHash(request[r], u)
      BY <1>10, <2>1, <2>3, <2>6, <3>1, ZenonT(60)
    <3>3. PasswordEndsSessions
      BY Zenon DEF PasswordInv
    <3>4. db[S(s)].password = db[U(db[S(s)].user)].hash[1]
      BY <2>2, <2>6, <3>3, ZenonT(60) DEF PasswordEndsSessions
    <3> QED
      BY <2>0, <2>4, <2>6, <3>1, <3>2, <3>4, ZenonT(60)
  <2> QED
    BY <2>3, <2>5, <2>6, ZenonT(60)
<1>13. <<C(r), "user">> \in DOMAIN w =>
        /\ w[<<C(r), "user">>] \in Users /\ call.kind \in SignsIn
        /\ "sign_in" \notin mishaps => PasswordIn(w, C(r)) = db[U(w[<<C(r), "user">>])].hash[1]
  <2>1. <<C(r), "user">> \in DOMAIN w => C(r) \in RowsOf(w)
    BY KeyRow, Zenon
  <2>2. <<C(r), "user">> \in DOMAIN w => call.kind \in SignsIn
    BY <1>5, <2>1, ZenonT(60) DEF Columns, SignsIn
  <2> QED
    BY <1>5, <2>2, ZenonT(60) DEF Verified
<1>14. \A c \in Requests : db'[C(c)].user \in Users \union {None} /\ db'[C(c)].expires \in Nat
  <2> SUFFICES ASSUME NEW c \in Requests PROVE db'[C(c)].user \in Users \union {None} /\ db'[C(c)].expires \in Nat
    BY Zenon
  <2>1. CASE c = r
    BY <1>5, <1>13, <2>1, ZenonT(60) DEF Follows
  <2>2. CASE c # r
    <3>1. db'[C(c)].user = db[C(c)].user /\ db'[C(c)].expires = db[C(c)].expires
      BY <1>5, <2>2, ZenonT(60) DEF Follows, Kept
    <3>2. db[C(c)].user \in Users \union {None} /\ db[C(c)].expires \in Nat
      BY Zenon DEF PasswordInv
    <3> QED
      BY <3>1, <3>2, ZenonT(60)
  <2> QED
    BY <2>1, <2>2, ZenonT(60)
<1>15. "sign_in" \notin mishaps' =>
        \A c \in Requests : db'[C(c)].user # None /\ db'[C(c)].expires > clock' => db'[C(c)].password = db'[U(db'[C(c)].user)].hash[1]
  <2> SUFFICES ASSUME "sign_in" \notin mishaps', NEW c \in Requests, db'[C(c)].user # None, db'[C(c)].expires > clock
               PROVE  db'[C(c)].password = db'[U(db'[C(c)].user)].hash[1]
    BY <1>1, ZenonT(60)
  <2>0. PICK u : u = db'[C(c)].user
    OBVIOUS
  <2>1. u \in Users
    BY <1>14, <2>0, ZenonT(60)
  <2>2. "sign_in" \notin mishaps
    BY <1>5, Zenon
  <2>3. db'[U(u)].hash[1] = db[U(u)].hash[1] \/ (ResetsHash(request[r], u) /\ ~SigningIn(u))
    BY <1>4, <2>1, ZenonT(60) DEF Commits
  <2>4. CASE c = r
    <3>1. <<C(r), "user">> \in DOMAIN w /\ w[<<C(r), "user">>] = u
      BY <1>5, <2>0, <2>4, ZenonT(60) DEF Follows
    <3>2. db'[C(r)].password = PasswordIn(w, C(r))
      BY <1>5, Zenon DEF Follows
    <3>3. call.kind \in SignsIn /\ PasswordIn(w, C(r)) = db[U(u)].hash[1]
      BY <1>13, <2>2, <3>1, ZenonT(60)
    <3>4. db'[U(u)].hash[1] = db[U(u)].hash[1]
      BY <1>9, <2>1, <2>3, <3>3, ZenonT(60)
    <3> QED
      BY <2>0, <2>4, <3>2, <3>3, <3>4, ZenonT(60)
  <2>5. CASE c # r
    <3>1. db[C(c)].user = u /\ db'[C(c)].password = db[C(c)].password /\ db'[C(c)].expires = db[C(c)].expires
      BY <1>5, <2>0, <2>5, ZenonT(60) DEF Follows, Kept
    <3>2. db[C(c)].user # None /\ db[C(c)].expires > clock
      BY <2>0, <3>1, ZenonT(60)
    <3>3. SigningIn(u)
      BY <3>1, <3>2, ZenonT(60) DEF SigningIn
    <3>4. db[C(c)].password = db[U(db[C(c)].user)].hash[1]
      BY <2>2, <3>2, ZenonT(60) DEF PasswordInv
    <3> QED
      BY <2>0, <2>3, <3>1, <3>3, <3>4, ZenonT(60)
  <2> QED
    BY <2>4, <2>5, ZenonT(60)
<1>16. ASSUME NEW o \in Requests \ {r} PROVE PasswordRequest(o, request[o])'
  <2>1. PICK q : q = request[o]
    OBVIOUS
  <2>2. request'[o] = q /\ PasswordRequest(o, q)
    BY <1>6, <2>1, ZenonT(60) DEF PasswordInv
  <2>3. q.phase # "done" => Untouched(o)'
    BY <1>5, <2>2, CommitUntouched, ZenonT(60) DEF PasswordRequest
  <2>4. ASSUME q.phase \in {"read", "written"} PROVE Verified(o, q.call, q.out.writes)'
    <3>1. PICK c : c = q.call
      OBVIOUS
    <3>2. PICK f : f = q.out.writes
      OBVIOUS
    <3>3. Columns(o, c, f) /\ Verified(o, c, f)
      BY <2>2, <2>4, <3>1, <3>2, ZenonT(60) DEF PasswordRequest
    <3>4. Verified(o, c, f)'
      BY <1>4, <2>1, <2>4, <3>1, <3>2, <3>3, CommitVerified, ZenonT(60)
    <3> QED
      BY <3>1, <3>2, <3>4, ZenonT(60)
  <2>5. ASSUME q.phase = "written", NEW u \in Users, ResetsHash(q, u), NEW s \in Opened', db'[S(s)].user = u, ~db'[S(s)].revoked
        PROVE  <<S(s), "revoked">> \in DOMAIN q.out.writes
    <3>1. \/ s = Fresh(r) /\ <<S(s), "user">> \in DOMAIN w /\ db'[S(s)].user = w[<<S(s), "user">>]
          \/ s \in Opened /\ ~db[S(s)].revoked /\ db'[S(s)].user = db[S(s)].user
      BY <1>5, <2>5, CommitOpened, ZenonT(60)
    <3>2. CASE s \in Opened /\ ~db[S(s)].revoked /\ db'[S(s)].user = db[S(s)].user
      BY <2>2, <2>5, <3>2, Zenon DEF PasswordRequest
    <3>3. CASE s = Fresh(r) /\ <<S(s), "user">> \in DOMAIN w /\ db'[S(s)].user = w[<<S(s), "user">>]
      <4>1. U(u) \in RowsOf(w)
        BY <1>8, <2>5, <3>3, ZenonT(60)
      <4>2. <<U(u), "hash">> \in DOMAIN q.out.writes
        BY <2>5, Zenon DEF ResetsHash
      <4>3. U(u) \in RowsOf(q.out.writes)
        BY <4>2, KeyRow, ZenonT(60)
      <4>4. Written(r) \intersect Written(o) = {}
        BY <1>5, <2>1, <2>5, ZenonT(60) DEF PasswordInv
      <4>5. Written(r) = RowsOf(w) /\ Written(o) = RowsOf(q.out.writes)
        BY <1>2, <2>1, ZenonT(60) DEF Written
      <4> QED
        BY <4>1, <4>3, <4>4, <4>5, ZenonT(60)
    <3> QED
      BY <3>1, <3>2, <3>3, ZenonT(60)
  <2>6. PasswordRequest(o, q)'
    BY <2>2, <2>3, <2>4, <2>5, ZenonT(60) DEF PasswordRequest
  <2> QED
    BY <2>2, <2>6, ZenonT(60) DEF PasswordRequest, ResetsHash
<1>17. PasswordRequest(r, request[r])'
  <2>1. Done.phase = "done"
    BY DEF Done, Idle
  <2>2. Done.phase # "checked" /\ Done.phase # "read" /\ Done.phase # "written" /\ Done.phase \notin {"read", "written"}
    BY <2>1
  <2> QED
    BY <1>6, <2>1, <2>2, ZenonT(60) DEF PasswordRequest
<1>18. \A o \in Requests : PasswordRequest(o, request[o])'
  <2> SUFFICES ASSUME NEW o \in Requests PROVE PasswordRequest(o, request[o])'
    OBVIOUS
  <2>1. CASE o = r
    BY <1>17, <2>1
  <2> QED
    BY <1>16, <2>1, ZenonT(60)
<1>19. \A x, o \in Requests : x # o /\ request'[x].phase = "written" /\ request'[o].phase = "written" => Written(x)' \intersect Written(o)' = {}
  <2> SUFFICES ASSUME NEW x \in Requests, NEW o \in Requests, x # o, request'[x].phase = "written", request'[o].phase = "written"
               PROVE  Written(x)' \intersect Written(o)' = {}
    BY Zenon
  <2>1. Done.phase # "written"
    BY DEF Done, Idle
  <2>2. x # r /\ o # r
    BY <1>6, <2>1, ZenonT(60)
  <2>3. request'[x] = request[x] /\ request'[o] = request[o]
    BY <1>6, <2>2, ZenonT(60)
  <2>4. Written(x) \intersect Written(o) = {}
    BY <2>3, Zenon DEF PasswordInv
  <2> QED
    BY <2>3, <2>4, ZenonT(60) DEF Written
<1>20. clock' \in Nat /\ agenda' \in Agendas
  BY <1>1, ZenonT(60) DEF PasswordInv
<1> QED
  BY <1>4, <1>6, <1>11, <1>12, <1>14, <1>15, <1>18, <1>19, <1>20, ZenonT(60) DEF PasswordInv

\* The rows there are at the start.
LEMMA FirstRows ==
  ASSUME AccountsInit
  PROVE  /\ \A u \in Users : U(u) \in DOMAIN db /\ db[U(u)] = GivenUser(u)
         /\ \A s \in Sessions : S(s) \in DOMAIN db /\ db[S(s)] = IF s <= Given THEN OpenSession(s) ELSE NoSession
         /\ \A c \in Requests : C(c) \in DOMAIN db /\ db[C(c)] = NoChallenge
<1> DEFINE users == [k \in UserRows |-> GivenUser(k[2])]
           members == [k \in MemberRows |-> [role |-> GivenMember[k[2]][k[3]], active |-> GivenMember[k[2]][k[3]] # "none"]]
           sessions == [k \in SessionRows |-> IF k[2] <= Given THEN OpenSession(k[2]) ELSE NoSession]
           links == [k \in {L(r) : r \in Requests} |-> NoLink]
           challenges == [k \in {C(r) : r \in Requests} |-> NoChallenge]
<1>1. PICK tokens, tenants : db = users ++ members ++ sessions ++ links ++ challenges ++ tokens ++ tenants
  BY Zenon DEF AccountsInit
<1>2. /\ DOMAIN users = UserRows /\ \A k \in UserRows : users[k] = GivenUser(k[2])
      /\ DOMAIN members = MemberRows
      /\ DOMAIN sessions = SessionRows /\ \A k \in SessionRows : sessions[k] = IF k[2] <= Given THEN OpenSession(k[2]) ELSE NoSession
      /\ DOMAIN links = {L(r) : r \in Requests}
      /\ DOMAIN challenges = {C(r) : r \in Requests} /\ \A k \in {C(r) : r \in Requests} : challenges[k] = NoChallenge
  BY ZenonT(60)
<1> HIDE DEF users, members, sessions, links, challenges
<1>3. \A f, g : /\ \A x \in DOMAIN f : x \in DOMAIN (f ++ g) /\ (f ++ g)[x] = f[x]
                /\ \A x \in DOMAIN g : x \notin DOMAIN f => x \in DOMAIN (f ++ g) /\ (f ++ g)[x] = g[x]
                /\ \A x : x \notin DOMAIN f /\ x \notin DOMAIN g => x \notin DOMAIN (f ++ g)
  BY ZenonT(60) DEF ++
<1>a. PICK um : um = users ++ members
  OBVIOUS
<1>b. PICK ums : ums = um ++ sessions
  OBVIOUS
<1>c. PICK umsl : umsl = ums ++ links
  OBVIOUS
<1>d. PICK umslc : umslc = umsl ++ challenges
  OBVIOUS
<1>e. PICK most : most = umslc ++ tokens
  OBVIOUS
<1>f. db = most ++ tenants
  BY <1>1, <1>a, <1>b, <1>c, <1>d, <1>e, ZenonT(60)
<1>g. /\ \A x \in DOMAIN umslc : x \in DOMAIN db /\ db[x] = umslc[x]
      /\ \A x \in DOMAIN umsl : x \in DOMAIN umslc /\ umslc[x] = umsl[x]
      /\ \A x \in DOMAIN ums : x \in DOMAIN umsl /\ umsl[x] = ums[x]
      /\ \A x \in DOMAIN um : x \in DOMAIN ums /\ ums[x] = um[x]
      /\ \A x \in DOMAIN users : x \in DOMAIN um /\ um[x] = users[x]
  <2>1. \A x \in DOMAIN umslc : x \in DOMAIN most /\ most[x] = umslc[x]
    BY <1>3, <1>e, ZenonT(60)
  <2>2. \A x \in DOMAIN most : x \in DOMAIN db /\ db[x] = most[x]
    BY <1>3, <1>f, ZenonT(60)
  <2>3. \A x \in DOMAIN umslc : x \in DOMAIN db /\ db[x] = umslc[x]
    BY <2>1, <2>2, Zenon
  <2>4. \A x \in DOMAIN umsl : x \in DOMAIN umslc /\ umslc[x] = umsl[x]
    BY <1>3, <1>d, ZenonT(60)
  <2>5. \A x \in DOMAIN ums : x \in DOMAIN umsl /\ umsl[x] = ums[x]
    BY <1>3, <1>c, ZenonT(60)
  <2>6. \A x \in DOMAIN um : x \in DOMAIN ums /\ ums[x] = um[x]
    BY <1>3, <1>b, Zenon
  <2>7. \A x \in DOMAIN users : x \in DOMAIN um /\ um[x] = users[x]
    BY <1>3, <1>a, ZenonT(60)
  <2> QED
    BY <2>3, <2>4, <2>5, <2>6, <2>7, ZenonT(60)
<1>h. /\ \A x \in DOMAIN sessions : x \notin DOMAIN um => x \in DOMAIN ums /\ ums[x] = sessions[x]
      /\ \A x \in DOMAIN challenges : x \notin DOMAIN umsl => x \in DOMAIN umslc /\ umslc[x] = challenges[x]
  <2>1. \A f, g : \A x \in DOMAIN g : x \notin DOMAIN f => x \in DOMAIN (f ++ g) /\ (f ++ g)[x] = g[x]
    BY <1>3, Zenon
  <2>2. \A x \in DOMAIN sessions : x \notin DOMAIN um => x \in DOMAIN (um ++ sessions) /\ (um ++ sessions)[x] = sessions[x]
    BY <2>1, Zenon
  <2>3. \A x \in DOMAIN challenges : x \notin DOMAIN umsl => x \in DOMAIN (umsl ++ challenges) /\ (umsl ++ challenges)[x] = challenges[x]
    BY <2>1, Zenon
  <2> QED
    BY <2>2, <2>3, <1>b, <1>d, Zenon
<1>4. ASSUME NEW u \in Users PROVE U(u) \in DOMAIN db /\ db[U(u)] = GivenUser(u)
  <2>1. U(u) \in UserRows /\ U(u)[2] = u
    BY DEF UserRows, U
  <2>2. U(u) \in DOMAIN users /\ users[U(u)] = GivenUser(u)
    BY <1>2, <2>1, ZenonT(60)
  <2> QED
    BY <1>g, <2>2, ZenonT(60)
<1>5. ASSUME NEW s \in Sessions PROVE S(s) \in DOMAIN db /\ db[S(s)] = IF s <= Given THEN OpenSession(s) ELSE NoSession
  <2>1. S(s) \in SessionRows /\ S(s)[2] = s
    BY SMTT(60) DEF SessionRows, S
  <2>2. S(s) \notin UserRows /\ S(s) \notin MemberRows
    BY RowKinds DEF UserRows, MemberRows
  <2>3. /\ S(s) \notin DOMAIN users /\ S(s) \notin DOMAIN members
        /\ S(s) \in DOMAIN sessions /\ sessions[S(s)] = IF s <= Given THEN OpenSession(s) ELSE NoSession
    BY <1>2, <2>1, <2>2, ZenonT(60)
  <2>4. S(s) \notin DOMAIN um
    BY <1>3, <1>a, <2>3, ZenonT(60)
  <2>5. S(s) \in DOMAIN ums /\ ums[S(s)] = sessions[S(s)]
    BY <1>h, <2>3, <2>4, ZenonT(60)
  <2>6. S(s) \in DOMAIN db /\ db[S(s)] = ums[S(s)]
    BY <1>g, <2>5, ZenonT(60)
  <2> QED
    BY <2>3, <2>5, <2>6, ZenonT(60)
<1>6. ASSUME NEW c \in Requests PROVE C(c) \in DOMAIN db /\ db[C(c)] = NoChallenge
  <2>1. C(c) \in DOMAIN challenges /\ challenges[C(c)] = NoChallenge
    BY <1>2, ZenonT(60)
  <2>2. C(c) \notin UserRows /\ C(c) \notin MemberRows /\ C(c) \notin SessionRows /\ C(c) \notin {L(r) : r \in Requests}
    BY RowKinds DEF UserRows, MemberRows, SessionRows
  <2>3. C(c) \notin DOMAIN um
    BY <1>2, <1>3, <1>a, <2>2, ZenonT(60)
  <2>4. C(c) \notin DOMAIN ums
    BY <1>2, <1>3, <1>b, <2>2, <2>3, ZenonT(60)
  <2>5. C(c) \notin DOMAIN umsl
    BY <1>2, <1>3, <1>c, <2>2, <2>4, ZenonT(60)
  <2>6. C(c) \in DOMAIN umslc /\ umslc[C(c)] = challenges[C(c)]
    BY <1>h, <2>1, <2>5, ZenonT(60)
  <2>7. C(c) \in DOMAIN db /\ db[C(c)] = umslc[C(c)]
    BY <1>g, <2>6, ZenonT(60)
  <2> QED
    BY <2>1, <2>6, <2>7, ZenonT(60)
<1> QED
  BY <1>4, <1>5, <1>6, ZenonT(60)

LEMMA FirstColumns ==
  /\ \A u : {"hash", "last_login"} \subseteq DOMAIN GivenUser(u) /\ GivenUser(u).last_login = 0
  /\ \A u : (\E t \in Tenants : GivenMember[u][t] # "none") => GivenUser(u).hash[1] = 0
  /\ \A s : {"user", "password", "revoked"} \subseteq DOMAIN OpenSession(s) /\ OpenSession(s).user = GivenSession[s].user /\ OpenSession(s).password = 0
  /\ {"user", "password", "revoked"} \subseteq DOMAIN NoSession /\ NoSession.user = None /\ NoSession.password = 0
  /\ {"user", "password", "expires"} \subseteq DOMAIN NoChallenge /\ NoChallenge.user = None /\ NoChallenge.password = 0 /\ NoChallenge.expires = 0
<1>1. ASSUME NEW u
      PROVE  /\ {"hash", "last_login"} \subseteq DOMAIN GivenUser(u) /\ GivenUser(u).last_login = 0
             /\ (\E t \in Tenants : GivenMember[u][t] # "none") => GivenUser(u).hash[1] = 0
  <2>1. PICK exists, mfa : exists = (\E t \in Tenants : GivenMember[u][t] # "none") /\ mfa = (u \in GivenMfa)
    BY Zenon
  <2>2. PICK hash : hash = IF \E t \in Tenants : GivenMember[u][t] # "none" THEN <<0, "old">> ELSE <<None, "new">>
    BY Zenon
  <2>3. PICK secret : secret = IF u \in GivenMfa THEN 0 ELSE None
    OBVIOUS
  <2>4. GivenUser(u) = [exists |-> exists, hash |-> hash, mfa |-> mfa, secret |-> secret, fails |-> 0, locked |-> 0, last_login |-> 0]
    BY <2>1, <2>2, <2>3, ZenonT(60) DEF GivenUser
  <2>5. (\E t \in Tenants : GivenMember[u][t] # "none") => hash[1] = 0
    <3>1. (\E t \in Tenants : GivenMember[u][t] # "none") => hash = <<0, "old">>
      BY <2>2, ZenonT(60)
    <3> QED
      BY <3>1
  <2>6. {"hash", "last_login"} \subseteq DOMAIN GivenUser(u) /\ GivenUser(u).last_login = 0 /\ GivenUser(u).hash = hash
    BY <2>4, SMTT(60)
  <2> QED
    BY <2>5, <2>6, ZenonT(60)
<1>2. /\ {"user", "password", "revoked"} \subseteq DOMAIN NoSession /\ NoSession.user = None /\ NoSession.password = 0
      /\ {"user", "password", "expires"} \subseteq DOMAIN NoChallenge /\ NoChallenge.user = None /\ NoChallenge.password = 0 /\ NoChallenge.expires = 0
  BY DEF NoSession, NoChallenge
<1>3. ASSUME NEW s
      PROVE  {"user", "password", "revoked"} \subseteq DOMAIN OpenSession(s) /\ OpenSession(s).user = GivenSession[s].user /\ OpenSession(s).password = 0
  <2>1. PICK u : u = GivenSession[s].user
    OBVIOUS
  <2>2. PICK t : t = GivenSession[s].tenant
    OBVIOUS
  <2>3. OpenSession(s) = [NoSession EXCEPT !.user = u, !.tenant = t, !.token = s, !.expires = 1, !.absolute = Ttl]
    BY <2>1, <2>2, ZenonT(60) DEF OpenSession
  <2> QED
    BY <2>1, <2>3 DEF NoSession
<1> QED
  BY <1>1, <1>2, <1>3, ZenonT(60)

LEMMA PassInit == AccountsInit => PasswordInv
<1> SUFFICES ASSUME AccountsInit PROVE PasswordInv
  OBVIOUS
<1>1. clock = 0 /\ agenda \in Agendas /\ DOMAIN request = Requests /\ (\A r \in Requests : request[r] = Idle)
  BY Zenon DEF AccountsInit
<1>2. /\ \A u \in Users : U(u) \in DOMAIN db /\ db[U(u)] = GivenUser(u)
      /\ \A s \in Sessions : S(s) \in DOMAIN db /\ db[S(s)] = IF s <= Given THEN OpenSession(s) ELSE NoSession
      /\ \A c \in Requests : C(c) \in DOMAIN db /\ db[C(c)] = NoChallenge
  BY FirstRows, ZenonT(60)
<1>3. Idle.phase = "idle"
  BY DEF Idle
<1>4. /\ \A u \in Users : {"hash", "last_login"} \subseteq DOMAIN db[U(u)] /\ db[U(u)].last_login = 0
      /\ \A s \in Sessions : {"user", "password", "revoked"} \subseteq DOMAIN db[S(s)] /\ db[S(s)].password = 0
      /\ \A c \in Requests : /\ {"user", "password", "expires"} \subseteq DOMAIN db[C(c)] /\ db[C(c)].user = None
                             /\ db[C(c)].password = 0 /\ db[C(c)].expires = 0
  <2>1. \A s \in Sessions : db[S(s)] = OpenSession(s) \/ db[S(s)] = NoSession
    BY <1>2, Zenon
  <2> QED
    BY <1>2, <2>1, FirstColumns, ZenonT(60)
<1>5. ASSUME NEW s \in Opened PROVE s \in DOMAIN GivenSession /\ db[S(s)].user = GivenSession[s].user
  <2>1. s \in Sessions /\ db[S(s)].user # None
    BY Zenon DEF Opened
  <2>2. s <= Given /\ db[S(s)] = OpenSession(s)
    <3>1. NoSession.user = None
      BY FirstColumns, ZenonT(60)
    <3> QED
      BY <1>2, <2>1, <3>1, ZenonT(60)
  <2>3. s \in 1..Given
    BY <2>1, <2>2, FreshSession, AccountsAssumption, SMTT(60) DEF Sessions
  <2>4. GivenSession \in Seq([user : Users, tenant : Tenants])
    BY AccountsAssumption, Zenon
  <2>5. DOMAIN GivenSession = 1..Given
    BY <2>4 DEF Given
  <2> QED
    BY <2>2, <2>3, <2>5, FirstColumns, ZenonT(60)
<1>6. ASSUME NEW s \in DOMAIN GivenSession PROVE GivenSession[s].user \in Users /\ GivenUser(GivenSession[s].user).hash[1] = 0
  <2>1. GivenSession \in Seq([user : Users, tenant : Tenants]) /\ (\E t \in Tenants : GivenMember[GivenSession[s].user][t] # "none")
    BY AccountsAssumption, Zenon
  <2> HIDE DEF Given
  <2>a. PICK row : row = [user : Users, tenant : Tenants]
    BY Zenon
  <2>b. GivenSession \in Seq(row)
    BY <2>1, <2>a, Zenon
  <2>c. GivenSession[s] \in row
    BY <2>b, <1>6
  <2>2. GivenSession[s] \in [user : Users, tenant : Tenants]
    BY <2>a, <2>c, Zenon
  <2>3. GivenSession[s].user \in Users
    BY <2>2
  <2> QED
    BY <2>1, <2>3, FirstColumns, ZenonT(60)
<1>7. \A s \in Opened : db[S(s)].user \in Users /\ db[S(s)].password = db[U(db[S(s)].user)].hash[1]
  <2> SUFFICES ASSUME NEW s \in Opened PROVE db[S(s)].user \in Users /\ db[S(s)].password = db[U(db[S(s)].user)].hash[1]
    BY Zenon
  <2>1. PICK u : u = GivenSession[s].user
    OBVIOUS
  <2>2. db[S(s)].user = u /\ u \in Users /\ GivenUser(u).hash[1] = 0
    BY <1>5, <1>6, <2>1, ZenonT(60)
  <2>3. db[U(u)].hash[1] = 0
    BY <1>2, <2>2, ZenonT(60)
  <2>4. db[S(s)].password = 0
    BY <1>4, Zenon DEF Opened
  <2> QED
    BY <2>2, <2>3, <2>4, Zenon
<1>8. ASSUME NEW r \in Requests PROVE PasswordRequest(r, request[r])
  <2>1. Fresh(r) \in Sessions /\ ~(Fresh(r) <= Given) /\ r # 0
    <3>1. Given \in Nat /\ Fresh(r) \in Sessions
      BY FreshSession, Zenon
    <3> HIDE DEF Given
    <3> QED
      BY <3>1 DEF Fresh, Requests
  <2>2. db[S(Fresh(r))].user = None
    BY <1>2, <2>1, FirstColumns, ZenonT(60)
  <2>3. Untouched(r)
    BY <1>4, <2>1, <2>2, ZenonT(60) DEF Untouched
  <2>4. request[r].phase = "idle"
    BY <1>1, <1>3, ZenonT(60)
  <2>5. request[r].phase # "checked" /\ request[r].phase # "read" /\ request[r].phase # "written" /\ request[r].phase \notin {"read", "written"}
    BY <2>4
  <2> QED
    BY <2>3, <2>5, ZenonT(60) DEF PasswordRequest
<1>9. \A r \in Requests : request[r].phase # "written"
  <2>1. "idle" # "written"
    OBVIOUS
  <2> QED
    BY <1>1, <1>3, <2>1, ZenonT(60)
<1>10. clock \in Nat /\ 0 \in Nat
  BY <1>1
<1>11. PasswordEndsSessions
  BY <1>7, Zenon DEF PasswordEndsSessions
<1>12. /\ \A c \in Requests : db[C(c)].user \in Users \union {None} /\ db[C(c)].expires \in Nat
       /\ \A c \in Requests : db[C(c)].user = None
  BY <1>4, <1>10, ZenonT(60)
<1> QED
  BY <1>1, <1>2, <1>4, <1>7, <1>8, <1>9, <1>10, <1>11, <1>12, ZenonT(60) DEF PasswordInv

LEMMA PassInvariant == AccountsSpec => []PasswordInv
<1>1. ASSUME PasswordInv, [AccountsNext]_accounts PROVE PasswordInv'
  <2>1. CASE UNCHANGED <<agenda, db, request, mishaps>> /\ (clock' = clock \/ clock' = clock + 1)
    BY <1>1, <2>1, PassIdles, Zenon
  <2>2. ASSUME NEW r \in Requests, \/ Handle(r) \/ Write(r) \/ Commit(r) \/ Rollback(r)
                                  \/ \E call : /\ call.kind \in RequestKinds
                                               /\ call.kind = "login" => call.user \in Users
                                               /\ call.kind = "mfa_verify" => call.arg \in Requests
                                               /\ Arrive(r, call)
        PROVE PasswordInv'
    BY <1>1, <2>2, PassHandle, PassWrite, PassCommit, PassRollback, PassArrive, Zenon
  <2>3. \/ UNCHANGED <<agenda, db, request, mishaps>> /\ (clock' = clock \/ clock' = clock + 1)
        \/ \E r \in Requests : \/ Handle(r) \/ Write(r) \/ Commit(r) \/ Rollback(r)
                              \/ \E kind \in agenda \ {"time"} : \E bearer, u, t, arg, wrong :
                                    /\ u \in UsersFor(kind) /\ arg \in ArgsFor(kind, bearer, u)
                                    /\ Arrive(r, [kind |-> kind, bearer |-> bearer, user |-> u, tenant |-> t, arg |-> arg, wrong |-> wrong])
    BY <1>1, ZenonT(60) DEF AccountsNext, TimePasses, accounts
  <2>4. ASSUME NEW kind \in agenda \ {"time"}, NEW bearer, NEW u \in UsersFor(kind), NEW t, NEW arg \in ArgsFor(kind, bearer, u), NEW wrong,
               NEW call, call = [kind |-> kind, bearer |-> bearer, user |-> u, tenant |-> t, arg |-> arg, wrong |-> wrong]
        PROVE  /\ call.kind \in RequestKinds /\ (call.kind = "login" => call.user \in Users)
               /\ call.kind = "mfa_verify" => call.arg \in Requests
    <3>1. kind \in RequestKinds
      BY <1>1, AccountsAssumption, Zenon DEF PasswordInv
    <3>2. kind = "login" => u \in Users
      BY Zenon DEF UsersFor
    <3>3. kind = "mfa_verify" => arg \in Requests
      <4> SUFFICES ASSUME kind = "mfa_verify" PROVE arg \in Requests
        OBVIOUS
      <4>1. ArgsFor(kind, bearer, u) = {c \in Requests : db[C(c)].user # None}
        BY DEF ArgsFor
      <4> QED
        BY <4>1, Zenon
    <3>4. call.kind = kind /\ call.user = u /\ call.arg = arg
      BY <2>4
    <3> QED
      BY <3>1, <3>2, <3>3, <3>4, Zenon
  <2> QED
    BY <2>1, <2>2, <2>3, <2>4, ZenonT(60)
<1> QED
  BY <1>1, PassInit, PTL DEF AccountsSpec

(* PasswordEndsSessions, for any users, tenants and number of requests: once  *)
(* change_password or reset_password has committed, every session still       *)
(* honoured proved the password in force (revoke_user_sessions), unless a     *)
(* sign-in of the user was under way then.                                    *)
THEOREM PasswordsEndSessions == AccountsSpec => []PasswordEndsSessions
<1>1. PasswordInv => PasswordEndsSessions
  BY Zenon DEF PasswordInv
<1> QED
  BY <1>1, PassInvariant, PTL

=============================================================================
