--------------------------- MODULE AccountsProofs ---------------------------
(***************************************************************************)
(* What a tenant's administrators decide. Audit chains stay intact and     *)
(* every tenant keeps an administrator, for any users, tenants and number  *)
(* of requests; and only what was authorized is scanned, for any scope     *)
(* entries and any calls that change them.                                 *)
(***************************************************************************)
EXTENDS Accounts, Scope, FiniteSetTheorems, WellFoundedInduction, TLAPS

AuditEntries == [id : Nat, seq : Nat, prev : Nat]
Chain(c) == \A i \in DOMAIN c : /\ c[i].seq = i
                                /\ c[i].prev = IF i = 1 THEN 0 ELSE c[i - 1].id

\* An entry with the largest id comes last.
LEMMA InsertedLast ==
  ASSUME NEW chain \in Seq(AuditEntries), NEW entry \in AuditEntries, \A i \in DOMAIN chain : chain[i].id < entry.id
  PROVE  Inserted(chain, entry) = Append(chain, entry)
<1>1. Len(chain) \in Nat /\ DOMAIN chain = 1..Len(chain)
  OBVIOUS
<1>2. {i \in DOMAIN chain : chain[i].id < entry.id} = 1..Len(chain)
  BY <1>1
<1>3. Cardinality(1..Len(chain)) = Len(chain)
  BY <1>1, FS_Interval, SMTT(60)
<1>4. Inserted(chain, entry) = SubSeq(chain, 1, Len(chain)) \o <<entry>> \o SubSeq(chain, Len(chain) + 1, Len(chain))
  BY <1>2, <1>3, Zenon DEF Inserted
<1>5. SubSeq(chain, 1, Len(chain)) = chain /\ SubSeq(chain, Len(chain) + 1, Len(chain)) = <<>>
  BY <1>1
<1>6. chain \o <<entry>> \o <<>> = Append(chain, entry)
  OBVIOUS
<1> QED
  BY <1>4, <1>5, <1>6, Zenon

\* An entry that follows on the last one keeps the chain intact.
LEMMA Extended ==
  ASSUME NEW chain \in Seq(AuditEntries), Chain(chain), NEW entry \in AuditEntries,
         entry.seq = Len(chain) + 1, entry.prev = LastId(chain)
  PROVE  Append(chain, entry) \in Seq(AuditEntries) /\ Chain(Append(chain, entry))
<1>1. PICK c : c = Append(chain, entry)
  BY Zenon
<1>2. /\ c \in Seq(AuditEntries) /\ Len(chain) \in Nat /\ DOMAIN chain = 1..Len(chain) /\ DOMAIN c = 1..(Len(chain) + 1)
      /\ \A i \in 1..Len(chain) : c[i] = chain[i]
      /\ c[Len(chain) + 1] = entry
  BY <1>1
<1>3. LastId(chain) = IF Len(chain) = 0 THEN 0 ELSE chain[Len(chain)].id
  BY DEF LastId
<1>4. ASSUME NEW i \in DOMAIN c PROVE c[i].seq = i /\ c[i].prev = IF i = 1 THEN 0 ELSE c[i - 1].id
  <2>1. CASE i \in 1..Len(chain)
    <3>1. c[i] = chain[i] /\ (i # 1 => i - 1 \in 1..Len(chain))
      BY <1>2, <2>1
    <3>2. i # 1 => c[i - 1] = chain[i - 1]
      BY <1>2, <3>1, Zenon
    <3>3. chain[i].seq = i /\ chain[i].prev = IF i = 1 THEN 0 ELSE chain[i - 1].id
      BY <1>2, <2>1, Zenon DEF Chain
    <3> QED
      BY <3>1, <3>2, <3>3, Zenon
  <2>2. CASE i = Len(chain) + 1
    <3>1. c[i] = entry /\ (i = 1 <=> Len(chain) = 0) /\ i - 1 = Len(chain) /\ (i # 1 => Len(chain) \in 1..Len(chain))
      BY <1>2, <2>2
    <3>2. i # 1 => c[i - 1] = chain[Len(chain)]
      BY <1>2, <3>1, Zenon
    <3> QED
      BY <1>3, <2>2, <3>1, <3>2, Zenon
  <2> QED
    BY <1>2, <2>1, <2>2
<1> QED
  BY <1>1, <1>2, <1>4, Zenon DEF Chain

LEMMA ChainInit == AccountsInit => ChainInv
<1> SUFFICES ASSUME AccountsInit PROVE ChainInv
  OBVIOUS
<1>1. entries = 0 /\ DOMAIN request = Requests /\ DOMAIN audit = Chains /\ (\A t \in Chains : audit[t] = <<>>) /\ \A r \in Requests : request[r] = Idle
  BY Zenon DEF AccountsInit
<1>2. Idle.phase = "idle"
  BY DEF Idle
<1>3. \A r \in Requests : request[r].phase # "read" /\ \A t \in Chains : ~Appends(r, t)
  <2>1. \A r \in Requests : request[r].phase = "idle"
    BY <1>1, <1>2, Zenon
  <2> QED
    BY <2>1 DEF Appends
<1>4. audit \in [Chains -> Seq([id : Nat, seq : Nat, prev : Nat])]
  <2>1. audit = [t \in Chains |-> <<>>]
    BY Zenon DEF AccountsInit
  <2>2. <<>> \in Seq([id : Nat, seq : Nat, prev : Nat])
    OBVIOUS
  <2> QED
    BY <2>1, <2>2, Zenon
<1>5. \A t \in Chains : DOMAIN audit[t] = {}
  BY <1>1
<1>6. entries \in Nat
  BY <1>1
<1> QED
  BY <1>1, <1>3, <1>4, <1>5, <1>6, Zenon DEF ChainInv, ChainIntact

\* The chains as they are keep their properties while more ids are given.
LEMMA ChainsUnchanged ==
  ASSUME ChainInv, UNCHANGED audit
  PROVE  ChainIntact' /\ audit' \in [Chains -> Seq([id : Nat, seq : Nat, prev : Nat])]
<1>1. audit' = audit
  OBVIOUS
<1>2. ChainIntact'
  <2>1. \A t \in Chains : Chain(audit[t])
    BY Zenon DEF ChainInv, ChainIntact, Chain
  <2>2. \A t \in Chains : Chain(audit'[t])
    BY <1>1, <2>1, Zenon
  <2> QED
    BY <2>2, Zenon DEF ChainIntact, Chain
<1> QED
  BY <1>1, <1>2, Zenon DEF ChainInv

\* A request that has not written anything yet, or has ended.
LEMMA NotWritten ==
  ASSUME ChainInv, NEW r \in Requests, NEW e, request' = [request EXCEPT ![r] = e], e.phase # "written",
         e.phase = "read" => HasOutcome(e), UNCHANGED <<audit, entries>>
  PROVE  ChainInv'
<1>1. request'[r] = e /\ (\A o \in Requests \ {r} : request'[o] = request[o]) /\ DOMAIN request' = Requests
  BY DEF ChainInv
<1>2. \A o \in Requests, t \in Chains : Appends(o, t)' => o # r /\ Appends(o, t) /\ request'[o] = request[o]
  BY <1>1, Zenon DEF Appends
<1>3. \A o \in Requests : request'[o].phase = "read" => HasOutcome(request'[o])
  BY <1>1, Zenon DEF ChainInv
<1>4. audit' = audit /\ entries' = entries
  OBVIOUS
<1>5. \A o \in Requests, t \in Chains : Appends(o, t)' => Continues(request'[o].out.entry, audit'[t], entries')
  <2>1. \A o \in Requests, t \in Chains : Appends(o, t) => Continues(request[o].out.entry, audit[t], entries)
    BY Zenon DEF ChainInv
  <2> QED
    BY <1>2, <1>4, <2>1, Zenon
<1>6. \A x, o \in Requests, t \in Chains : Appends(x, t)' /\ Appends(o, t)' => x = o
  BY <1>2, Zenon DEF ChainInv
<1>7. entries' \in Nat /\ \A t \in Chains : \A i \in DOMAIN audit'[t] : audit'[t][i].id <= entries'
  BY <1>4, Zenon DEF ChainInv
<1> QED
  BY <1>1, <1>3, <1>4, <1>5, <1>6, <1>7, ChainsUnchanged, ZenonT(60) DEF ChainInv

LEMMA ReadStep ==
  ASSUME ChainInv, NEW r \in Requests, NEW actor, NEW call, Read(r, actor, call), UNCHANGED <<audit, entries>>
  PROVE  ChainInv'
<1> DEFINE out == Handled(r, actor, call)
           e == [phase |-> "read", call |-> call, actor |-> actor,
                 out |-> [writes |-> out.writes, revoke |-> out.revoke, chain |-> out.chain, held |-> ForUpdate(call),
                          entry |-> None]]
<1>1. CASE out = Refused
  <2>1. request' = [request EXCEPT ![r] = Done]
    BY <1>1, Zenon DEF Read
  <2>2. Done.phase = "done"
    BY DEF Done, Idle
  <2>3. Done.phase # "written" /\ Done.phase # "read"
    BY <2>2
  <2> QED
    BY <2>1, <2>3, NotWritten, Zenon
<1>2. CASE out # Refused
  <2>1. request' = [request EXCEPT ![r] = e]
    BY <1>2, Zenon DEF Read
  <2>2. e.phase # "written" /\ HasOutcome(e)
    <3> HIDE DEF out
    <3> QED
      BY DEF HasOutcome
  <2> HIDE DEF e
  <2> QED
    BY <2>1, <2>2, NotWritten, Zenon
<1> QED
  BY <1>1, <1>2, Zenon

LEMMA ArriveStep == ASSUME ChainInv, NEW r \in Requests, NEW call, Arrive(r, call) PROVE ChainInv'
<1>1. UNCHANGED <<audit, entries>>
  BY Zenon DEF Arrive
<1>2. CASE call.kind \in Open
  BY <1>1, <1>2, ReadStep, Zenon DEF Arrive
<1>3. CASE call.kind \notin Open
  <2>1. PICK actor : request' = [request EXCEPT ![r] =
                IF Permitted(actor, call.kind) THEN [Idle EXCEPT !.phase = "checked", !.call = call, !.actor = actor] ELSE Done]
    BY <1>3, Zenon DEF Arrive
  <2>2. PICK e : /\ e = IF Permitted(actor, call.kind) THEN [Idle EXCEPT !.phase = "checked", !.call = call, !.actor = actor] ELSE Done
                 /\ request' = [request EXCEPT ![r] = e]
    BY <2>1, Zenon
  <2>3. e.phase \in {"checked", "done"}
    BY <2>2 DEF Done, Idle
  <2>4. e.phase # "written" /\ e.phase # "read"
    BY <2>3
  <2> QED
    BY <1>1, <2>2, <2>4, NotWritten, Zenon
<1> QED
  BY <1>2, <1>3, Zenon

LEMMA HandleStep == ASSUME ChainInv, NEW r \in Requests, Handle(r) PROVE ChainInv'
BY ReadStep, Zenon DEF Handle

LEMMA AccountsRollbackStep == ASSUME ChainInv, NEW r \in Requests, Rollback(r) PROVE ChainInv'
<1>1. Done.phase = "done"
  BY DEF Done, Idle
<1>2. Done.phase # "written" /\ Done.phase # "read"
  BY <1>1
<1> QED
  BY <1>2, NotWritten, Zenon DEF Rollback

LEMMA EntryContinues ==
  ASSUME NEW chain \in Seq(AuditEntries), entries \in Nat, \A i \in DOMAIN chain : chain[i].id <= entries
  PROVE  Continues(Entry(chain), chain, entries + 1)
<1>1. PICK e : e = Entry(chain)
  OBVIOUS
<1>2. e = [id |-> entries + 1, seq |-> Len(chain) + 1, prev |-> LastId(chain)]
  BY <1>1, Zenon DEF Entry, LastId
<1>3. \A i \in DOMAIN chain : chain[i].id \in Nat /\ chain[i].id < entries + 1
  <2>1. \A i \in DOMAIN chain : chain[i] \in AuditEntries
    OBVIOUS
  <2> QED
    BY <2>1 DEF AuditEntries
<1>4. e.id = entries + 1
  BY <1>2
<1>5. e \in [id : 0..(entries + 1), seq : {Len(chain) + 1}, prev : {LastId(chain)}]
  BY <1>2
<1> QED
  BY <1>1, <1>3, <1>4, <1>5, Zenon DEF Continues

LEMMA WriteStep == ASSUME ChainInv, NEW r \in Requests, Write(r) PROVE ChainInv'
<1> DEFINE out == request[r].out
<1>1. PICK w : /\ request' = [request EXCEPT ![r] = [request[r] EXCEPT !.phase = "written", !.out =
                     [out EXCEPT !.writes = w, !.entry = IF out.chain = None THEN None ELSE Entry(audit[out.chain])]]]
               /\ entries' = (IF out.chain = None THEN entries ELSE entries + 1)
               /\ request[r].phase = "read" /\ ChainFree(r) /\ UNCHANGED audit
  BY Zenon DEF Write
<1>2. PICK entry : entry = IF out.chain = None THEN None ELSE Entry(audit[out.chain])
  OBVIOUS
<1>3. PICK e : e = [request[r] EXCEPT !.phase = "written", !.out = [out EXCEPT !.writes = w, !.entry = entry]]
  OBVIOUS
<1>4. request'[r] = e /\ (\A o \in Requests \ {r} : request'[o] = request[o]) /\ DOMAIN request' = Requests
  <2>1. request' = [request EXCEPT ![r] = e]
    BY <1>1, <1>2, <1>3, Zenon
  <2> QED
    BY <2>1 DEF ChainInv
<1>5. e.phase = "written" /\ e.out.chain = out.chain /\ e.out.entry = entry
  <2>1. HasOutcome(request[r])
    BY <1>1, Zenon DEF ChainInv
  <2> QED
    BY <1>3, <2>1, Zenon DEF HasOutcome
<1>6. entries \in Nat /\ entries' \in Nat /\ entries <= entries'
  <2>1. entries \in Nat
    BY Zenon DEF ChainInv
  <2> QED
    BY <1>1, <2>1
<1>7. \A t \in Chains : audit[t] \in Seq(AuditEntries) /\ \A i \in DOMAIN audit[t] : audit[t][i].id <= entries
  BY Zenon DEF ChainInv, AuditEntries
<1>8. \A t \in Chains : \A i \in DOMAIN audit[t] : audit[t][i].id <= entries'
  <2> SUFFICES ASSUME NEW t \in Chains, NEW i \in DOMAIN audit[t] PROVE audit[t][i].id <= entries'
    OBVIOUS
  <2>1. audit[t][i] \in AuditEntries /\ audit[t][i].id <= entries
    BY <1>7
  <2> QED
    BY <1>6, <2>1 DEF AuditEntries
<1>9. ASSUME NEW t \in Chains, Appends(r, t)' PROVE Continues(entry, audit[t], entries')
  <2>1. out.chain = t /\ t # None
    BY <1>4, <1>5, <1>9, Zenon DEF Appends
  <2>2. entry = Entry(audit[t]) /\ entries' = entries + 1
    BY <1>1, <1>2, <2>1, Zenon
  <2> QED
    BY <1>6, <1>7, <1>9, <2>2, EntryContinues, SMTT(60)
<1>10. ASSUME NEW o \in Requests \ {r}, NEW t \in Chains, Appends(o, t)'
       PROVE  Appends(o, t) /\ ~Appends(r, t)' /\ Continues(request'[o].out.entry, audit[t], entries')
  <2>1. Appends(o, t)
    BY <1>4, <1>10, Zenon DEF Appends
  <2>2. Continues(request[o].out.entry, audit[t], entries)
    BY <2>1, Zenon DEF ChainInv
  <2>3. \A x : Continues(x, audit[t], entries) => Continues(x, audit[t], entries')
    BY <1>6 DEF Continues
  <2>4. ~Appends(r, t)'
    BY <1>1, <1>4, <1>5, <2>1, ZenonT(60) DEF Appends, ChainFree
  <2> QED
    BY <1>4, <2>1, <2>2, <2>3, <2>4, ZenonT(60)
<1>11. \A o \in Requests, t \in Chains : Appends(o, t)' => Continues(request'[o].out.entry, audit[t], entries')
  BY <1>4, <1>5, <1>9, <1>10, Zenon
<1>12. \A x, o \in Requests, t \in Chains : Appends(x, t)' /\ Appends(o, t)' => x = o
  <2>1. \A x, o \in Requests, t \in Chains : Appends(x, t) /\ Appends(o, t) => x = o
    BY Zenon DEF ChainInv
  <2>2. \A o \in Requests, t \in Chains : Appends(o, t)' => o = r \/ (Appends(o, t) /\ ~Appends(r, t)')
    BY <1>10, Zenon
  <2>3. \A x \in Requests, t \in Chains : x = r /\ Appends(x, t)' => Appends(r, t)'
    BY Zenon DEF Appends
  <2> QED
    BY <2>1, <2>2, <2>3, Zenon
<1>13. \A o \in Requests : request'[o].phase = "read" => HasOutcome(request'[o])
  <2>1. request'[r].phase # "read"
    BY <1>4, <1>5
  <2> QED
    BY <1>4, <2>1, Zenon DEF ChainInv
<1>14. audit' = audit
  BY <1>1, Zenon
<1>15. \A t \in Chains : \A i \in DOMAIN audit'[t] : audit'[t][i].id <= entries'
  BY <1>8, <1>14, Zenon
<1>16. \A o \in Requests, t \in Chains : Appends(o, t)' => Continues(request'[o].out.entry, audit'[t], entries')
  BY <1>11, <1>14, Zenon
<1> QED
  BY <1>4, <1>6, <1>12, <1>13, <1>14, <1>15, <1>16, ChainsUnchanged, ZenonT(60) DEF ChainInv

LEMMA AccountsCommitStep == ASSUME ChainInv, NEW r \in Requests, Commit(r) PROVE ChainInv'
<1> DEFINE out == request[r].out
<1>1. /\ request[r].phase = "written" /\ request' = [request EXCEPT ![r] = Done] /\ UNCHANGED entries
      /\ audit' = (IF out.chain = None THEN audit ELSE [audit EXCEPT ![out.chain] = Inserted(audit[out.chain], out.entry)])
  BY Zenon DEF Commit
<1>2. Done.phase = "done"
  BY DEF Done, Idle
<1>3. request'[r] = Done /\ (\A o \in Requests \ {r} : request'[o] = request[o]) /\ DOMAIN request' = Requests
  BY <1>1 DEF ChainInv
<1>4. \A o \in Requests, t \in Chains : Appends(o, t)' => o # r /\ Appends(o, t) /\ request'[o] = request[o]
  BY <1>2, <1>3, Zenon DEF Appends
<1>5. \A o \in Requests : request'[o].phase = "read" => HasOutcome(request'[o])
  <2>1. request'[r].phase # "read"
    BY <1>2, <1>3
  <2> QED
    BY <1>3, <2>1, Zenon DEF ChainInv
<1>6. /\ entries \in Nat /\ DOMAIN audit' = Chains /\ DOMAIN audit = Chains
      /\ \A t \in Chains : ~Appends(r, t) => audit'[t] = audit[t]
  <2>1. entries \in Nat /\ DOMAIN audit = Chains
    BY Zenon DEF ChainInv
  <2> QED
    BY <1>1, <2>1 DEF Appends
<1>7. ASSUME NEW t \in Chains, Appends(r, t)
      PROVE  /\ audit'[t] \in Seq(AuditEntries) /\ Chain(audit'[t])
             /\ \A i \in DOMAIN audit'[t] : audit'[t][i].id <= entries
  <2>1. audit[t] \in Seq(AuditEntries) /\ Chain(audit[t]) /\ Continues(out.entry, audit[t], entries)
    BY <1>7, Zenon DEF ChainInv, ChainIntact, Chain, AuditEntries
  <2>2. audit'[t] = Inserted(audit[t], out.entry)
    BY <1>1, <1>6, <1>7 DEF Appends
  <2>3. PICK entry, chain : entry = out.entry /\ chain = audit[t]
    OBVIOUS
  <2>4. chain \in Seq(AuditEntries)
    BY <2>1, <2>3
  <2>5. entry \in AuditEntries /\ entry.id <= entries /\ entry.seq = Len(chain) + 1 /\ entry.prev = LastId(chain)
    <3>1. LastId(chain) \in Nat /\ Len(chain) + 1 \in Nat
      <4>1. chain # <<>> => chain[Len(chain)] \in AuditEntries
        BY <2>4
      <4> QED
        BY <2>4, <4>1 DEF LastId, AuditEntries
    <3>2. entry \in [id : 0..entries, seq : {Len(chain) + 1}, prev : {LastId(chain)}]
      BY <2>1, <2>3, Zenon DEF Continues
    <3> HIDE DEF LastId
    <3> QED
      BY <1>6, <3>1, <3>2 DEF AuditEntries
  <2>6. audit'[t] = Append(chain, entry)
    <3>1. \A i \in DOMAIN chain : chain[i].id < entry.id
      BY <2>1, <2>3, Zenon DEF Continues
    <3> QED
      BY <2>2, <2>3, <2>4, <2>5, <3>1, InsertedLast, ZenonT(60)
  <2>7. Append(chain, entry) \in Seq(AuditEntries) /\ Chain(Append(chain, entry))
    BY <2>1, <2>3, <2>4, <2>5, Extended, ZenonT(60)
  <2>8. \A i \in DOMAIN chain : chain[i].id <= entries
    BY <1>7, <2>3, Zenon DEF ChainInv
  <2>9. \A i \in DOMAIN Append(chain, entry) : Append(chain, entry)[i].id <= entries
    BY <2>4, <2>5, <2>8
  <2> QED
    BY <2>6, <2>7, <2>9, Zenon
<1>8. \A t \in Chains : /\ audit'[t] \in Seq(AuditEntries) /\ Chain(audit'[t])
                        /\ \A i \in DOMAIN audit'[t] : audit'[t][i].id <= entries
  <2>1. ASSUME NEW t \in Chains, ~Appends(r, t)
        PROVE  /\ audit'[t] \in Seq(AuditEntries) /\ Chain(audit'[t])
               /\ \A i \in DOMAIN audit'[t] : audit'[t][i].id <= entries
    <3>1. audit'[t] = audit[t]
      BY <1>6, <2>1, Zenon
    <3>2. audit[t] \in Seq(AuditEntries) /\ Chain(audit[t]) /\ \A i \in DOMAIN audit[t] : audit[t][i].id <= entries
      BY <2>1, Zenon DEF ChainInv, ChainIntact, Chain, AuditEntries
    <3> QED
      BY <3>1, <3>2, Zenon
  <2> QED
    BY <1>7, <2>1, Zenon
<1>9. audit' \in [Chains -> Seq(AuditEntries)]
  <2>1. audit' = [t \in Chains |-> audit'[t]]
    <3>1. \E f : audit = [t \in Chains |-> f[t]]
      BY Zenon DEF ChainInv
    <3> QED
      BY <1>1, <3>1
  <2> QED
    BY <1>8, <2>1, ZenonT(60)
<1>10. ASSUME NEW o \in Requests, NEW t \in Chains, Appends(o, t)'
       PROVE  Continues(request'[o].out.entry, audit'[t], entries)
  <2>1. o # r /\ Appends(o, t) /\ request'[o] = request[o]
    BY <1>4, <1>10, Zenon
  <2>2. ~Appends(r, t)
    BY <2>1, Zenon DEF ChainInv
  <2>3. audit'[t] = audit[t]
    BY <1>6, <2>2, Zenon
  <2>4. Continues(request[o].out.entry, audit[t], entries)
    BY <2>1, Zenon DEF ChainInv
  <2> QED
    BY <2>1, <2>3, <2>4, Zenon
<1>11. \A x, o \in Requests, t \in Chains : Appends(x, t)' /\ Appends(o, t)' => x = o
  BY <1>4, Zenon DEF ChainInv
<1>12. ChainIntact'
  BY <1>8, Zenon DEF ChainIntact, Chain
<1>13. \A t \in Chains : \A i \in DOMAIN audit'[t] : audit'[t][i].id <= entries'
  BY <1>1, <1>8, Zenon
<1>14. entries' \in Nat /\ audit' \in [Chains -> Seq([id : Nat, seq : Nat, prev : Nat])]
  BY <1>1, <1>6, <1>9, Zenon DEF AuditEntries
<1>15. \A o \in Requests, t \in Chains : Appends(o, t)' => Continues(request'[o].out.entry, audit'[t], entries')
  BY <1>1, <1>10, Zenon
<1> QED
  BY <1>3, <1>5, <1>11, <1>12, <1>13, <1>14, <1>15, ZenonT(60) DEF ChainInv

LEMMA ChainInvariant == AccountsSpec => []ChainInv
<1>1. ASSUME ChainInv, [AccountsNext]_accounts PROVE ChainInv'
  <2>1. CASE UNCHANGED <<audit, entries, request>>
    <3>1. audit' = audit /\ entries' = entries /\ request' = request
      BY <2>1, Zenon
    <3>2. /\ \A o \in Requests, t \in Chains : Appends(o, t)' => Continues(request'[o].out.entry, audit'[t], entries')
          /\ \A x, o \in Requests, t \in Chains : Appends(x, t)' /\ Appends(o, t)' => x = o
          /\ \A o \in Requests : request'[o].phase = "read" => HasOutcome(request'[o])
      BY <1>1, <3>1, ZenonT(60) DEF ChainInv, Appends
    <3>3. /\ entries' \in Nat /\ DOMAIN request' = Requests
          /\ \A t \in Chains : \A i \in DOMAIN audit'[t] : audit'[t][i].id <= entries'
      BY <1>1, <3>1, Zenon DEF ChainInv
    <3> QED
      BY <1>1, <3>1, <3>2, <3>3, ChainsUnchanged, ZenonT(60) DEF ChainInv
  <2>2. ASSUME NEW r \in Requests, Handle(r) \/ Write(r) \/ Commit(r) \/ Rollback(r) \/ \E call : Arrive(r, call) PROVE ChainInv'
    BY <1>1, <2>2, HandleStep, WriteStep, AccountsCommitStep, AccountsRollbackStep, ArriveStep, Zenon
  <2>3. \/ UNCHANGED <<audit, entries, request>>
        \/ \E r \in Requests : Handle(r) \/ Write(r) \/ Commit(r) \/ Rollback(r) \/ \E call : Arrive(r, call)
    BY <1>1, ZenonT(60) DEF AccountsNext, TimePasses, accounts
  <2> QED
    BY <2>1, <2>2, <2>3, Zenon
<1> QED
  BY <1>1, ChainInit, PTL DEF AccountsSpec

(* ChainIntact, for any tenants, users and number of requests: each entry of *)
(* an audit chain has the next number and the hash link of the one before,   *)
(* whichever transactions roll back (record, under pg_advisory_xact_lock).   *)
THEOREM ChainsStayIntact == AccountsSpec => []ChainIntact
<1>1. ChainInv => ChainIntact
  BY Zenon DEF ChainInv
<1> QED
  BY <1>1, ChainInvariant, PTL

-----------------------------------------------------------------------------
(* Administrators *)

NoMember(writes) == RowsOf(writes) \intersect MemberRows = {}

LEMMA OtherRowKinds ==
  /\ \A u : U(u) \notin MemberRows
  /\ \A s : S(s) \notin MemberRows /\ L(s) \notin MemberRows /\ C(s) \notin MemberRows /\ K(s) \notin MemberRows
  /\ \A t : T(t) \notin MemberRows
  /\ \A u \in Users, t \in Tenants : M(u, t) \in MemberRows
BY DEF U, S, L, C, K, T, M, MemberRows

LEMMA MemberRow == \A u, t, v, w : M(u, t) = M(v, w) <=> u = v /\ t = w
BY DEF M

LEMMA AssignRows ==
  ASSUME NEW row, NEW columns
  PROVE  RowsOf(Assign(row, columns)) \subseteq {row}
<1>1. \A c : <<row, c>>[1] = row
  OBVIOUS
<1>2. \A x \in DOMAIN Assign(row, columns) : x[1] = row
  <2>1. \A x \in DOMAIN Assign(row, columns) : \E c \in DOMAIN columns : x = <<row, c>>
    BY Zenon DEF Assign
  <2> QED
    BY <1>1, <2>1, Zenon
<1> QED
  BY <1>2, Zenon DEF RowsOf

LEMMA DirtyRows ==
  ASSUME NEW rows, NEW writes
  PROVE  RowsOf(Dirty(rows, writes)) \subseteq RowsOf(writes)
BY Zenon DEF RowsOf, Dirty

LEMMA OverRows ==
  ASSUME NEW f, NEW g
  PROVE  RowsOf(f ++ g) = RowsOf(f) \union RowsOf(g)
<1>1. DOMAIN (f ++ g) = DOMAIN f \union DOMAIN g
  BY Zenon DEF ++
<1> QED
  BY <1>1 DEF RowsOf

\* What prepares no write to a member's row.
LEMMA NoMemberWrites ==
  /\ NoMember(<<>>)
  /\ \A row, columns : row \notin MemberRows => NoMember(Assign(row, columns))
  /\ \A f, g : NoMember(f) /\ NoMember(g) => NoMember(f ++ g)
  /\ \A rows, f : NoMember(f) => NoMember(Dirty(rows, f))
<1>1. NoMember(<<>>)
  <2>1. DOMAIN <<>> = {}
    OBVIOUS
  <2> QED
    BY <2>1, Zenon DEF NoMember, RowsOf
<1>2. \A row, columns : row \notin MemberRows => NoMember(Assign(row, columns))
  <2> SUFFICES ASSUME NEW row, NEW columns, row \notin MemberRows PROVE NoMember(Assign(row, columns))
    BY Zenon
  <2>1. RowsOf(Assign(row, columns)) \subseteq {row}
    BY AssignRows, Zenon
  <2> QED
    BY <2>1, Zenon DEF NoMember
<1>3. \A f, g : NoMember(f) /\ NoMember(g) => NoMember(f ++ g)
  <2> SUFFICES ASSUME NEW f, NEW g, NoMember(f), NoMember(g) PROVE NoMember(f ++ g)
    BY Zenon
  <2>1. RowsOf(f ++ g) = RowsOf(f) \union RowsOf(g)
    BY OverRows, Zenon
  <2> QED
    BY <2>1, Zenon DEF NoMember
<1>4. \A rows, f : NoMember(f) => NoMember(Dirty(rows, f))
  BY DirtyRows, Zenon DEF NoMember
<1> QED
  BY <1>1, <1>2, <1>3, <1>4, ZenonT(60)

LEMMA NoMemberOutcome ==
  /\ NoMember(Refused.writes)
  /\ \A w, s, t : NoMember(w) => NoMember(Outcome(w, s, t).writes)
<1>1. Refused.writes = <<>>
  BY DEF Refused
<1>2. ASSUME NEW w, NEW s, NEW t PROVE Outcome(w, s, t).writes = Dirty(db, w)
  <2>1. PICK d : d = Dirty(db, w)
    OBVIOUS
  <2>2. Outcome(w, s, t) = [writes |-> d, revoke |-> s, chain |-> t]
    BY <2>1, Zenon DEF Outcome
  <2> QED
    BY <2>1, <2>2
<1> QED
  BY <1>1, <1>2, NoMemberWrites, Zenon

LEMMA OpenCalls ==
  ASSUME NEW r, NEW actor, NEW call
  PROVE  /\ NoMember(authenticate(r, call).writes)
         /\ NoMember(complete_mfa(r, call).writes)
         /\ NoMember(refresh(r, call).writes)
         /\ NoMember(forgot_password(r, call).writes)
         /\ NoMember(reset_password(r, call).writes)
         /\ NoMember(logout(actor).writes)
         /\ NoMember(switch_tenant(r, actor, call).writes)
         /\ NoMember(change_password(r, actor, call).writes)
         /\ NoMember(mfa_begin_setup(r, actor).writes)
         /\ NoMember(mfa_enable(actor).writes)
         /\ NoMember(mfa_disable(actor).writes)
         /\ NoMember(create_api_token(r, actor, call).writes)
         /\ NoMember(revoke_api_token(actor, call).writes)
         /\ NoMember(reset_mfa(actor, call).writes)
         /\ NoMember(update_tenant(actor, call).writes)
<1> USE OtherRowKinds, NoMemberWrites, NoMemberOutcome
<1>1. NoMember(authenticate(r, call).writes)
  BY ZenonT(60) DEF authenticate, CountFailure, issue_session
<1>2. NoMember(complete_mfa(r, call).writes)
  BY Zenon DEF complete_mfa, CountFailure, issue_session
<1>3. NoMember(refresh(r, call).writes)
  BY Zenon DEF refresh
<1>4. NoMember(forgot_password(r, call).writes)
  BY Zenon DEF forgot_password
<1>5. NoMember(reset_password(r, call).writes)
  BY Zenon DEF reset_password, set_password
<1>6. NoMember(logout(actor).writes)
  BY Zenon DEF logout
<1>7. NoMember(switch_tenant(r, actor, call).writes)
  BY Zenon DEF switch_tenant
<1>8. NoMember(change_password(r, actor, call).writes)
  BY Zenon DEF change_password, set_password
<1>9. NoMember(mfa_begin_setup(r, actor).writes)
  BY Zenon DEF mfa_begin_setup
<1>10. NoMember(mfa_enable(actor).writes)
  BY Zenon DEF mfa_enable
<1>11. NoMember(mfa_disable(actor).writes)
  BY Zenon DEF mfa_disable
<1>12. NoMember(create_api_token(r, actor, call).writes)
  BY Zenon DEF create_api_token
<1>13. NoMember(revoke_api_token(actor, call).writes)
  BY Zenon DEF revoke_api_token
<1>14. NoMember(reset_mfa(actor, call).writes)
  BY Zenon DEF reset_mfa
<1>15. NoMember(update_tenant(actor, call).writes)
  BY Zenon DEF update_tenant
<1> QED
  BY <1>1, <1>2, <1>3, <1>4, <1>5, <1>6, <1>7, <1>8, <1>9, <1>10, <1>11, <1>12, <1>13, <1>14, <1>15, ZenonT(60)

LEMMA MemberOutcome ==
  ASSUME NEW row, NEW columns, NEW rest, NoMember(rest), NEW s, NEW t
  PROVE  RowsOf(Outcome(Assign(row, columns) ++ rest, s, t).writes) \intersect MemberRows \subseteq {row}
<1>1. PICK w : w = Assign(row, columns) ++ rest
  OBVIOUS
<1>2. PICK d : d = Dirty(db, w)
  OBVIOUS
<1>3. Outcome(w, s, t) = [writes |-> d, revoke |-> s, chain |-> t]
  BY <1>2, Zenon DEF Outcome
<1>4. Outcome(w, s, t).writes = d
  BY <1>3
<1>5. RowsOf(d) \subseteq RowsOf(w) /\ RowsOf(w) = RowsOf(Assign(row, columns)) \union RowsOf(rest) /\ RowsOf(Assign(row, columns)) \subseteq {row}
  BY <1>1, <1>2, DirtyRows, OverRows, AssignRows, ZenonT(60)
<1> QED
  BY <1>1, <1>4, <1>5, Zenon DEF NoMember

LEMMA MemberOutcomeOnly ==
  ASSUME NEW row, NEW columns, NEW s, NEW t
  PROVE  RowsOf(Outcome(Assign(row, columns), s, t).writes) \intersect MemberRows \subseteq {row}
<1>1. PICK w : w = Assign(row, columns)
  BY SMTT(60)
<1>2. PICK d : d = Dirty(db, w)
  OBVIOUS
<1>3. Outcome(w, s, t) = [writes |-> d, revoke |-> s, chain |-> t]
  BY <1>2, Zenon DEF Outcome
<1>4. Outcome(w, s, t).writes = d
  BY <1>3
<1>5. RowsOf(d) \subseteq RowsOf(w) /\ RowsOf(w) \subseteq {row}
  BY <1>1, <1>2, DirtyRows, AssignRows, ZenonT(60)
<1> QED
  BY <1>1, <1>4, <1>5, ZenonT(60)

LEMMA MemberCalls ==
  ASSUME NEW r, NEW actor, NEW call
  PROVE  /\ RowsOf(create_user(r, actor, call).writes) \intersect MemberRows \subseteq {M(call.user, actor.tenant)}
         /\ RowsOf(update_user(actor, call).writes) \intersect MemberRows \subseteq {M(call.user, actor.tenant)}
         /\ RowsOf(remove_user(actor, call).writes) \intersect MemberRows \subseteq {M(call.user, actor.tenant)}
<1> DEFINE row == M(call.user, actor.tenant)
           Fits(out) == RowsOf(out.writes) \intersect MemberRows \subseteq {row}
<1>1. \A out : NoMember(out.writes) => Fits(out)
  BY Zenon DEF NoMember
<1>2. Fits(Refused) /\ \A s, t : Fits(Outcome(<<>>, s, t))
  BY <1>1, NoMemberOutcome, NoMemberWrites, Zenon
<1>3. \A columns, s, t : Fits(Outcome(Assign(row, columns), s, t))
  BY MemberOutcomeOnly, Zenon
<1>4. \A columns, rest, s, t : NoMember(rest) => Fits(Outcome(Assign(row, columns) ++ rest, s, t))
  BY MemberOutcome, Zenon
<1> HIDE DEF Fits
<1>5. Fits(update_user(actor, call)) /\ Fits(remove_user(actor, call))
  BY <1>2, <1>3, Zenon DEF update_user, remove_user
<1>6. Fits(create_user(r, actor, call))
  <2>1. PICK invited : invited = Assign(U(call.user), [exists |-> TRUE]) ++ Assign(L(r), [user |-> call.user, expires |-> clock + Ttl])
    OBVIOUS
  <2>2. PICK rest : rest = (IF db[U(call.user)].exists THEN <<>> ELSE invited)
    OBVIOUS
  <2>3. NoMember(rest)
    BY <2>1, <2>2, OtherRowKinds, NoMemberWrites, ZenonT(60)
  <2>4. create_user(r, actor, call) \in {Refused, Outcome(Assign(row, [role |-> call.arg, active |-> TRUE]) ++ rest, {}, actor.tenant)}
    BY <2>1, <2>2, Zenon DEF create_user
  <2> QED
    BY <1>2, <1>4, <2>3, <2>4, ZenonT(60)
<1> QED
  BY <1>5, <1>6, Zenon DEF Fits

\* Only the member operations write members' rows, one each.
LEMMA HandledRows ==
  ASSUME NEW r, NEW actor, NEW call, call.kind \in RequestKinds
  PROVE  RowsOf(Handled(r, actor, call).writes) \intersect MemberRows
            \subseteq IF call.kind \in MemberChange \union {"create_user"} THEN {M(call.user, actor.tenant)} ELSE {}
<1>1. CASE call.kind = "create_user"
  <2>1. Handled(r, actor, call) = create_user(r, actor, call)
    BY <1>1 DEF Handled
  <2> QED
    BY <1>1, <2>1, MemberCalls, Zenon
<1>2. CASE call.kind = "update_user"
  <2>1. Handled(r, actor, call) = update_user(actor, call)
    BY <1>2 DEF Handled
  <2>2. call.kind \in MemberChange
    BY <1>2, Zenon DEF MemberChange
  <2> QED
    BY <2>1, <2>2, MemberCalls, Zenon
<1>3. CASE call.kind = "remove_user"
  <2>1. Handled(r, actor, call) = remove_user(actor, call)
    BY <1>3 DEF Handled
  <2>2. call.kind \in MemberChange
    BY <1>3, Zenon DEF MemberChange
  <2> QED
    BY <2>1, <2>2, MemberCalls, Zenon
<1>4. CASE call.kind \notin {"create_user", "update_user", "remove_user"}
  <2>1. NoMember(Handled(r, actor, call).writes)
    BY <1>4, OpenCalls, ZenonT(60) DEF Handled, RequestKinds, Open, Interactive, UsersWrite
  <2> QED
    BY <2>1 DEF NoMember
<1> QED
  BY <1>1, <1>2, <1>3, <1>4, ZenonT(60)

\* More than one administrator counted is one besides the member.
LEMMA CountedAnother ==
  ASSUME NEW u, NEW t, ~(Admins(t) <= 1)
  PROVE  \E o \in Users \ {u} : ActiveAdmin(o, t)
<1> DEFINE admins == {o \in Users : db[M(o, t)].role = "tenant_admin" /\ db[M(o, t)].active}
<1> SUFFICES ASSUME admins \subseteq {u} PROVE Admins(t) <= 1
  BY Zenon DEF ActiveAdmin
<1>1. Admins(t) = Cardinality(admins)
  BY Zenon DEF Admins
<1>2. IsFiniteSet({u}) /\ Cardinality({u}) = 1
  BY FS_Singleton, Zenon
<1> HIDE DEF admins
<1>3. Cardinality(admins) <= Cardinality({u})
  BY <1>2, FS_Subset
<1> QED
  BY <1>1, <1>2, <1>3

\* A change of an administrator has counted another.
LEMMA ChangeLeaves ==
  ASSUME NEW r, NEW actor, NEW call, call.kind \in MemberChange,
         NEW row \in RowsOf(Handled(r, actor, call).writes) \intersect MemberRows
  PROVE  LeavesAnother(row)
<1> DEFINE u == call.user
           t == actor.tenant
           Sound == db[M(u, t)].role # "none" /\ (ActiveAdmin(u, t) => ~LastAdmin(u, t))
<1>1. row = M(u, t)
  <2>1. call.kind \in RequestKinds
    BY Zenon DEF MemberChange, RequestKinds, UsersWrite
  <2> QED
    BY <2>1, HandledRows, Zenon
<1>2. \A out : NoMember(out.writes) => out # Handled(r, actor, call)
  BY Zenon DEF NoMember
<1>3. NoMember(Refused.writes) /\ NoMember(Outcome(<<>>, {}, t).writes)
  BY NoMemberOutcome, NoMemberWrites, Zenon
<1>4. Sound
  <2>1. CASE call.kind = "update_user"
    <3>1. Handled(r, actor, call) = update_user(actor, call)
      BY <2>1 DEF Handled
    <3>2. update_user(actor, call) # Refused /\ update_user(actor, call) # Outcome(<<>>, {}, t)
      BY <1>2, <1>3, <3>1, Zenon
    <3> QED
      BY <3>2, Zenon DEF update_user, ActiveAdmin
  <2>2. CASE call.kind = "remove_user"
    <3>1. Handled(r, actor, call) = remove_user(actor, call)
      BY <2>2 DEF Handled
    <3>2. remove_user(actor, call) # Refused
      BY <1>2, <1>3, <3>1, Zenon
    <3> QED
      BY <3>2, Zenon DEF remove_user
  <2> QED
    BY <2>1, <2>2, Zenon DEF MemberChange
<1>5. ActiveAdmin(u, t) => ~(Admins(t) <= 1)
  BY <1>4, Zenon DEF ActiveAdmin, LastAdmin
<1>6. ActiveAdmin(u, t) => \E o \in Users \ {u} : ActiveAdmin(o, t)
  BY <1>5, CountedAnother, Zenon
<1> QED
  <2> SUFFICES ASSUME NEW v \in Users, NEW w \in Tenants, row = M(v, w)
               PROVE  db[row].role # "none" /\ (ActiveAdmin(v, w) => \E o \in Users \ {v} : ActiveAdmin(o, w))
    BY Zenon DEF LeavesAnother
  <2>1. v = u /\ w = t
    <3>1. M(v, w) = M(call.user, actor.tenant)
      BY <1>1, Zenon
    <3> QED
      BY <3>1 DEF M
  <2> HIDE DEF u, t
  <2> QED
    BY <1>1, <1>4, <1>6, <2>1, ZenonT(60)

LEMMA AdminInit == AccountsInit => AdminInv
<1> SUFFICES ASSUME AccountsInit PROVE AdminInv
  OBVIOUS
<1>1. agenda \in Agendas /\ DOMAIN request = Requests /\ (\A r \in Requests : request[r] = Idle)
  BY Zenon DEF AccountsInit
<1>2. Idle.phase = "idle"
  BY DEF Idle
<1>3. \A r \in Requests : request[r].phase = "idle" /\ RequestInv(r)
  <2>1. \A r \in Requests : request[r].phase = "idle"
    BY <1>1, <1>2, Zenon
  <2>2. "idle" # "checked" /\ "idle" # "read" /\ "idle" # "written" /\ "idle" \notin {"read", "written"}
    OBVIOUS
  <2> QED
    BY <2>1, <2>2, Zenon DEF RequestInv
<1>4. ASSUME NEW u \in Users, NEW t \in Tenants
      PROVE  /\ M(u, t) \in DOMAIN db /\ {"role", "active"} \subseteq DOMAIN db[M(u, t)]
             /\ GivenMember[u][t] = "tenant_admin" => ActiveAdmin(u, t)
  <2>1. M(u, t) \in MemberRows /\ M(u, t) \notin UserRows
    BY OtherRowKinds, Zenon DEF UserRows
  <2>2. PICK rest1, rest2, rest3, rest4, rest5, rest6 :
         db = [k \in UserRows |-> GivenUser(k[2])]
              ++ [k \in MemberRows |-> [role |-> GivenMember[k[2]][k[3]], active |-> GivenMember[k[2]][k[3]] # "none"]]
              ++ rest1 ++ rest2 ++ rest3 ++ rest4 ++ rest5
    BY ZenonT(60) DEF AccountsInit
  <2>3. M(u, t) \in DOMAIN db /\ db[M(u, t)] = [role |-> GivenMember[M(u, t)[2]][M(u, t)[3]], active |-> GivenMember[M(u, t)[2]][M(u, t)[3]] # "none"]
    BY <2>1, <2>2, ZenonT(60) DEF ++
  <2>4. PICK role, active : role = GivenMember[u][t] /\ active = (GivenMember[u][t] # "none")
    OBVIOUS
  <2>5. M(u, t)[2] = u /\ M(u, t)[3] = t
    BY DEF M
  <2>6. db[M(u, t)] = [role |-> role, active |-> active]
    BY <2>3, <2>4, <2>5, ZenonT(60)
  <2>7. DOMAIN db[M(u, t)] = {"role", "active"} /\ db[M(u, t)].role = role /\ db[M(u, t)].active = active
    BY <2>6
  <2>8. role = "tenant_admin" => active
    BY <2>4, Zenon
  <2> QED
    BY <2>3, <2>4, <2>7, <2>8, ZenonT(60) DEF ActiveAdmin
<1>5. \A row \in MemberRows : row \in DOMAIN db /\ {"role", "active"} \subseteq DOMAIN db[row]
  <2> SUFFICES ASSUME NEW row \in MemberRows PROVE row \in DOMAIN db /\ {"role", "active"} \subseteq DOMAIN db[row]
    BY Zenon
  <2>1. PICK u \in Users, t \in Tenants : row = M(u, t)
    BY DEF MemberRows
  <2> QED
    BY <1>4, <2>1, Zenon
<1>6. \A r \in Requests : request[r].phase # "written"
  BY <1>3
<1> QED
  BY <1>1, <1>3, <1>4, <1>5, <1>6, ZenonT(60) DEF AdminInv

\* A request that is checked, has read, or has ended.
LEMMA AdminGoesOn ==
  ASSUME AdminInv, NEW r \in Requests, NEW e, request' = [request EXCEPT ![r] = e], UNCHANGED <<agenda, db, mishaps>>,
         e.phase # "written", RequestInv(r)'
  PROVE  AdminInv'
<1>1. request'[r] = e /\ (\A o \in Requests \ {r} : request'[o] = request[o]) /\ DOMAIN request' = Requests
  BY DEF AdminInv
<1>2. agenda' = agenda /\ db' = db /\ mishaps' = mishaps
  OBVIOUS
<1>3. ASSUME NEW o \in Requests \ {r} PROVE RequestInv(o)' /\ MemberWrites(o)' = MemberWrites(o)
  <2>1. MemberWrites(o)' = MemberWrites(o)
    BY <1>1, Zenon DEF MemberWrites
  <2>2. \A row : LeavesAnother(row) => LeavesAnother(row)'
    BY <1>2, Zenon DEF LeavesAnother, ActiveAdmin
  <2>3. request'[o] = request[o] /\ RequestInv(o)
    BY <1>1, Zenon DEF AdminInv
  <2> QED
    BY <1>2, <2>1, <2>2, <2>3, ZenonT(60) DEF RequestInv
<1>4. \A x, o \in Requests : x # o /\ request'[x].phase = "written" /\ request'[o].phase = "written" =>
        MemberWrites(x)' \intersect MemberWrites(o)' = {}
  <2> SUFFICES ASSUME NEW x \in Requests, NEW o \in Requests, x # o, request'[x].phase = "written", request'[o].phase = "written"
               PROVE  MemberWrites(x)' \intersect MemberWrites(o)' = {}
    BY Zenon
  <2>1. x # r /\ o # r
    BY <1>1, Zenon
  <2>2. MemberWrites(x)' = MemberWrites(x) /\ MemberWrites(o)' = MemberWrites(o)
    BY <1>3, <2>1, Zenon
  <2>3. request[x].phase = "written" /\ request[o].phase = "written"
    BY <1>1, <2>1, Zenon
  <2>4. MemberWrites(x) \intersect MemberWrites(o) = {}
    BY <2>3, Zenon DEF AdminInv
  <2> QED
    BY <2>2, <2>4, Zenon
<1>5. \A o \in Requests : RequestInv(o)'
  <2> SUFFICES ASSUME NEW o \in Requests PROVE RequestInv(o)'
    OBVIOUS
  <2>1. CASE o = r
    BY <2>1
  <2> QED
    BY <1>3, <2>1, Zenon
<1>6. /\ agenda' \in Agendas
      /\ \A row \in MemberRows : row \in DOMAIN db' /\ {"role", "active"} \subseteq DOMAIN db'[row]
  BY <1>2, Zenon DEF AdminInv
<1>7. "members" \notin mishaps' =>
        \A t \in Tenants : (\E u \in Users : GivenMember[u][t] = "tenant_admin") => \E u \in Users : ActiveAdmin(u, t)'
  BY <1>2, Zenon DEF AdminInv, ActiveAdmin
<1> QED
  BY <1>1, <1>4, <1>5, <1>6, <1>7, ZenonT(60) DEF AdminInv

LEMMA AdminRead ==
  ASSUME AdminInv, NEW r \in Requests, NEW actor, NEW call, call.kind \in RequestKinds, Read(r, actor, call), UNCHANGED <<agenda, db, mishaps>>
  PROVE  AdminInv'
<1> DEFINE out == Handled(r, actor, call)
           e == [phase |-> "read", call |-> call, actor |-> actor,
                 out |-> [writes |-> out.writes, revoke |-> out.revoke, chain |-> out.chain, held |-> ForUpdate(call),
                          entry |-> None]]
<1>1. CASE out = Refused
  <2>1. request' = [request EXCEPT ![r] = Done]
    BY <1>1, Zenon DEF Read
  <2>2. Done.phase = "done"
    BY DEF Done, Idle
  <2>3. Done.phase # "written" /\ Done.phase \notin {"checked", "read", "written"}
    BY <2>2
  <2>4. request'[r] = Done
    BY <2>1 DEF AdminInv
  <2>5. RequestInv(r)'
    BY <2>3, <2>4, Zenon DEF RequestInv
  <2> QED
    BY <2>1, <2>3, <2>5, AdminGoesOn, ZenonT(60)
<1>2. CASE out # Refused
  <2>1. request' = [request EXCEPT ![r] = e]
    BY <1>2, ZenonT(60) DEF Read
  <2>2. e.phase = "read" /\ e.call = call /\ e.actor = actor /\ e.out.writes = out.writes /\ HasOutcome(e)
    <3> HIDE DEF out
    <3> QED
      BY DEF HasOutcome
  <2> HIDE DEF e
  <2>3. request'[r] = e
    BY <2>1 DEF AdminInv
  <2>4. MemberWrites(r)' = RowsOf(out.writes) \intersect MemberRows
    BY <2>2, <2>3, Zenon DEF MemberWrites
  <2>5. MemberWrites(r)' \subseteq IF call.kind \in MemberChange \union {"create_user"} THEN {M(call.user, actor.tenant)} ELSE {}
    BY <2>4, HandledRows, Zenon
  <2>6. call.kind \in MemberChange => \A row \in MemberWrites(r)' : LeavesAnother(row)'
    <3> SUFFICES ASSUME call.kind \in MemberChange, NEW row \in MemberWrites(r)' PROVE LeavesAnother(row)'
      BY Zenon
    <3>1. LeavesAnother(row)
      BY <2>4, ChangeLeaves, ZenonT(60)
    <3> QED
      BY <3>1, Zenon DEF LeavesAnother, ActiveAdmin
  <2>7. e.phase # "written" /\ e.phase # "checked"
    BY <2>2
  <2>8. RequestInv(r)'
    BY <2>2, <2>3, <2>5, <2>6, <2>7, ZenonT(60) DEF RequestInv
  <2> QED
    BY <2>1, <2>7, <2>8, AdminGoesOn, ZenonT(60)
<1> QED
  BY <1>1, <1>2, Zenon

LEMMA AdminArrive ==
  ASSUME AdminInv, NEW r \in Requests, NEW call, call.kind \in RequestKinds, Arrive(r, call)
  PROVE  AdminInv'
<1>1. UNCHANGED <<agenda, db, mishaps>>
  BY Zenon DEF Arrive
<1>2. CASE call.kind \in Open
  BY <1>1, <1>2, AdminRead, Zenon DEF Arrive
<1>3. CASE call.kind \notin Open
  <2>1. PICK actor : request' = [request EXCEPT ![r] =
                IF Permitted(actor, call.kind) THEN [Idle EXCEPT !.phase = "checked", !.call = call, !.actor = actor] ELSE Done]
    BY <1>3, Zenon DEF Arrive
  <2>2. PICK e : /\ e = IF Permitted(actor, call.kind) THEN [Idle EXCEPT !.phase = "checked", !.call = call, !.actor = actor] ELSE Done
                 /\ request' = [request EXCEPT ![r] = e]
    BY <2>1, Zenon
  <2>3. e.phase = "done" \/ (e.phase = "checked" /\ e.call = call)
    BY <2>2 DEF Done, Idle
  <2>4. e.phase \notin {"read", "written"} /\ e.phase # "written" /\ (e.phase = "checked" => e.call = call)
    BY <2>3
  <2>5. request'[r] = e
    BY <2>2 DEF AdminInv
  <2>6. RequestInv(r)'
    BY <2>4, <2>5, Zenon DEF RequestInv
  <2> QED
    BY <1>1, <2>2, <2>4, <2>6, AdminGoesOn, ZenonT(60)
<1> QED
  BY <1>2, <1>3, Zenon

LEMMA AdminHandle == ASSUME AdminInv, NEW r \in Requests, Handle(r) PROVE AdminInv'
<1>1. request[r].call.kind \in RequestKinds
  BY Zenon DEF AdminInv, RequestInv, Handle
<1> QED
  BY <1>1, AdminRead, Zenon DEF Handle

LEMMA AdminRollback == ASSUME AdminInv, NEW r \in Requests, Rollback(r) PROVE AdminInv'
<1>1. Done.phase = "done"
  BY DEF Done, Idle
<1>2. Done.phase \notin {"checked", "read", "written"} /\ Done.phase # "written"
  BY <1>1
<1>3. request' = [request EXCEPT ![r] = Done] /\ UNCHANGED <<agenda, db, mishaps>>
  BY Zenon DEF Rollback
<1>4. request'[r] = Done
  BY <1>3 DEF AdminInv
<1>5. RequestInv(r)'
  BY <1>2, <1>4, Zenon DEF RequestInv
<1> QED
  BY <1>2, <1>3, <1>5, AdminGoesOn, ZenonT(60)

LEMMA AdminWrite == ASSUME AdminInv, NEW r \in Requests, Write(r) PROVE AdminInv'
<1> DEFINE out == request[r].out
<1>1. PICK revoked, w, entry :
        /\ w = [x \in {<<S(s), "revoked">> : s \in revoked} |-> TRUE] ++ out.writes
        /\ request' = [request EXCEPT ![r] = [request[r] EXCEPT !.phase = "written", !.out = [out EXCEPT !.writes = w, !.entry = entry]]]
        /\ request[r].phase = "read" /\ ~Clash(r) /\ Free(RowsOf(w), r) /\ UNCHANGED <<agenda, db, mishaps>>
  BY Zenon DEF Write
<1>2. PICK e : e = [request[r] EXCEPT !.phase = "written", !.out = [out EXCEPT !.writes = w, !.entry = entry]]
  OBVIOUS
<1>3. request'[r] = e /\ (\A o \in Requests \ {r} : request'[o] = request[o]) /\ DOMAIN request' = Requests
  <2>1. request' = [request EXCEPT ![r] = e]
    BY <1>1, <1>2, Zenon
  <2> QED
    BY <2>1 DEF AdminInv
<1>r. RequestInv(r) /\ request[r].phase \in {"read", "written"}
  BY <1>1, Zenon DEF AdminInv
<1>4. e.phase = "written" /\ e.call = request[r].call /\ e.actor = request[r].actor /\ e.out.writes = w /\ HasOutcome(e)
  <2>1. HasOutcome(request[r])
    BY <1>r, Zenon DEF RequestInv
  <2> QED
    BY <1>2, <2>1, Zenon DEF HasOutcome
<1>5. MemberWrites(r)' = MemberWrites(r) /\ MemberWrites(r) \subseteq RowsOf(w)
  <2>1. PICK f : f = [x \in {<<S(s), "revoked">> : s \in revoked} |-> TRUE]
    BY Zenon
  <2>2. RowsOf(w) = RowsOf(f) \union RowsOf(out.writes)
    BY <1>1, <2>1, OverRows, Zenon
  <2>3. RowsOf(f) \intersect MemberRows = {}
    <3>1. ASSUME NEW x \in DOMAIN f PROVE x[1] \notin MemberRows
      <4>1. PICK s \in revoked : x = <<S(s), "revoked">>
        BY <2>1, Zenon
      <4>2. x[1] = S(s)
        BY <4>1
      <4> QED
        BY <4>2, OtherRowKinds, Zenon
    <3> QED
      BY <3>1, Zenon DEF RowsOf
  <2>4. MemberWrites(r)' = RowsOf(w) \intersect MemberRows
    BY <1>3, <1>4, Zenon DEF MemberWrites
  <2>5. MemberWrites(r) = RowsOf(out.writes) \intersect MemberRows
    BY Zenon DEF MemberWrites
  <2> HIDE DEF out
  <2> QED
    BY <2>2, <2>3, <2>4, <2>5, SMTT(60)
<1>6. agenda' = agenda /\ db' = db /\ mishaps' = mishaps
  BY <1>1
<1>7. \A row : LeavesAnother(row) => LeavesAnother(row)'
  BY <1>6, Zenon DEF LeavesAnother, ActiveAdmin
<1>8. ASSUME NEW o \in Requests \ {r} PROVE RequestInv(o)' /\ MemberWrites(o)' = MemberWrites(o)
  <2>1. MemberWrites(o)' = MemberWrites(o)
    BY <1>3, Zenon DEF MemberWrites
  <2>2. request'[o] = request[o] /\ RequestInv(o)
    BY <1>3, Zenon DEF AdminInv
  <2> QED
    BY <1>6, <1>7, <2>1, <2>2, ZenonT(60) DEF RequestInv
<1>9. RequestInv(r)'
  <2>1. MemberWrites(r)' \subseteq IF e.call.kind \in MemberChange \union {"create_user"} THEN {M(e.call.user, e.actor.tenant)} ELSE {}
    BY <1>r, <1>4, <1>5, ZenonT(60) DEF RequestInv
  <2>2. e.call.kind \in MemberChange /\ "members" \notin mishaps => \A row \in MemberWrites(r)' : LeavesAnother(row)'
    BY <1>r, <1>4, <1>5, <1>7, ZenonT(60) DEF RequestInv
  <2>3. e.call.kind = "create_user" => \A row \in MemberWrites(r)' : db'[row].role = "none"
    BY <1>1, <1>4, <1>6, <2>1, ZenonT(60) DEF Clash
  <2>4. e.phase # "checked"
    BY <1>4
  <2> QED
    BY <1>3, <1>4, <1>6, <2>1, <2>2, <2>3, <2>4, ZenonT(60) DEF RequestInv
<1>10. \A o \in Requests \ {r} : request[o].phase = "written" => MemberWrites(r)' \intersect MemberWrites(o) = {}
  <2> SUFFICES ASSUME NEW o \in Requests \ {r}, request[o].phase = "written" PROVE MemberWrites(r)' \intersect MemberWrites(o) = {}
    BY Zenon
  <2>1. RowsOf(w) \intersect Locked(o) = {}
    BY <1>1, Zenon DEF Free
  <2>2. MemberWrites(o) \subseteq Locked(o)
    BY Zenon DEF Locked, MemberWrites
  <2> QED
    BY <1>5, <2>1, <2>2, ZenonT(60)
<1>11. \A x, o \in Requests : x # o /\ request'[x].phase = "written" /\ request'[o].phase = "written" =>
        MemberWrites(x)' \intersect MemberWrites(o)' = {}
  <2> SUFFICES ASSUME NEW x \in Requests, NEW o \in Requests, x # o, request'[x].phase = "written", request'[o].phase = "written"
               PROVE  MemberWrites(x)' \intersect MemberWrites(o)' = {}
    BY Zenon
  <2>s. \A a, b : a \intersect b = {} => b \intersect a = {}
    OBVIOUS
  <2>1. CASE x = r
    <3>1. MemberWrites(o)' = MemberWrites(o) /\ request[o].phase = "written" /\ o \in Requests \ {r}
      BY <1>3, <1>8, <2>1, Zenon
    <3>2. MemberWrites(r)' \intersect MemberWrites(o) = {}
      BY <1>10, <3>1, ZenonT(60)
    <3> QED
      BY <2>1, <3>1, <3>2
  <2>2. CASE o = r
    <3>1. MemberWrites(x)' = MemberWrites(x) /\ request[x].phase = "written" /\ x \in Requests \ {r}
      BY <1>3, <1>8, <2>2, ZenonT(60)
    <3>2. MemberWrites(r)' \intersect MemberWrites(x) = {}
      BY <1>10, <3>1, Zenon
    <3> QED
      BY <2>2, <3>1, <3>2
  <2>3. CASE x # r /\ o # r
    <3>1. /\ MemberWrites(x)' = MemberWrites(x) /\ MemberWrites(o)' = MemberWrites(o)
          /\ request[x].phase = "written" /\ request[o].phase = "written"
      BY <1>3, <1>8, <2>3, ZenonT(60)
    <3>2. MemberWrites(x) \intersect MemberWrites(o) = {}
      BY <3>1, Zenon DEF AdminInv
    <3> QED
      BY <3>1, <3>2, Zenon
  <2> QED
    BY <2>1, <2>2, <2>3, ZenonT(60)
<1>12. \A o \in Requests : RequestInv(o)'
  <2> SUFFICES ASSUME NEW o \in Requests PROVE RequestInv(o)'
    OBVIOUS
  <2>1. CASE o = r
    BY <1>9, <2>1
  <2> QED
    BY <1>8, <2>1, ZenonT(60)
<1>13. /\ agenda' \in Agendas
       /\ \A row \in MemberRows : row \in DOMAIN db' /\ {"role", "active"} \subseteq DOMAIN db'[row]
  BY <1>6, Zenon DEF AdminInv
<1>14. "members" \notin mishaps' =>
        \A t \in Tenants : (\E u \in Users : GivenMember[u][t] = "tenant_admin") => \E u \in Users : ActiveAdmin(u, t)'
  BY <1>6, Zenon DEF AdminInv, ActiveAdmin
<1> QED
  BY <1>3, <1>11, <1>12, <1>13, <1>14, ZenonT(60) DEF AdminInv

\* A member's row that is not written stays as it is.
LEMMA RowKept ==
  ASSUME NEW rows, NEW writes, NEW k \in DOMAIN rows
  PROVE  /\ k \in DOMAIN Applied(rows, writes) /\ DOMAIN Applied(rows, writes)[k] = DOMAIN rows[k]
         /\ k \notin RowsOf(writes) => Applied(rows, writes)[k] = rows[k]
<1>1. CASE k \notin RowsOf(writes)
  <2>1. k \in DOMAIN Applied(rows, writes) /\ Applied(rows, writes)[k] = rows[k]
    BY <1>1, Zenon DEF Applied, ++
  <2> QED
    BY <2>1, Zenon
<1>2. CASE k \in RowsOf(writes)
  <2>1. /\ k \in DOMAIN Applied(rows, writes)
        /\ Applied(rows, writes)[k] = [c \in DOMAIN rows[k] |-> IF <<k, c>> \in DOMAIN writes THEN writes[<<k, c>>] ELSE rows[k][c]]
    BY <1>2, ZenonT(60) DEF Applied, ++
  <2> QED
    BY <1>2, <2>1, ZenonT(60)
<1> QED
  BY <1>1, <1>2, Zenon

LEMMA AdminCommit == ASSUME AdminInv, NEW r \in Requests, Commit(r) PROVE AdminInv'
<1>1. /\ request[r].phase = "written" /\ request' = [request EXCEPT ![r] = Done] /\ UNCHANGED agenda
      /\ db' = Applied(db, request[r].out.writes) /\ mishaps' = mishaps \union Overlaps(r)
  BY ZenonT(60) DEF Commit
<1>2. Done.phase = "done"
  BY DEF Done, Idle
<1>3. Done.phase \notin {"checked", "read", "written"} /\ Done.phase # "written"
  BY <1>2
<1>4. request'[r] = Done /\ (\A o \in Requests \ {r} : request'[o] = request[o]) /\ DOMAIN request' = Requests
  BY <1>1 DEF AdminInv
<1>5. ASSUME NEW row \in MemberRows
      PROVE  /\ row \in DOMAIN db' /\ {"role", "active"} \subseteq DOMAIN db'[row]
             /\ row \notin MemberWrites(r) => db'[row] = db[row]
  <2>1. row \in DOMAIN db /\ {"role", "active"} \subseteq DOMAIN db[row]
    BY Zenon DEF AdminInv
  <2>2. PICK w : w = request[r].out.writes
    OBVIOUS
  <2>3. /\ row \in DOMAIN Applied(db, w) /\ DOMAIN Applied(db, w)[row] = DOMAIN db[row]
        /\ row \notin RowsOf(w) => Applied(db, w)[row] = db[row]
    BY <2>1, RowKept, Zenon
  <2>4. db' = Applied(db, w)
    BY <1>1, <2>2, Zenon
  <2> QED
    BY <2>1, <2>2, <2>3, <2>4, ZenonT(60) DEF MemberWrites
<1>6. ASSUME NEW u \in Users, NEW t \in Tenants, M(u, t) \notin MemberWrites(r)
      PROVE  db'[M(u, t)] = db[M(u, t)] /\ (ActiveAdmin(u, t)' <=> ActiveAdmin(u, t))
  <2>1. db'[M(u, t)] = db[M(u, t)]
    BY <1>5, <1>6, OtherRowKinds, ZenonT(60)
  <2> QED
    BY <2>1, Zenon DEF ActiveAdmin
<1>r. RequestInv(r) /\ request[r].phase \in {"read", "written"}
  BY <1>1, Zenon DEF AdminInv
<1>7. ASSUME NEW u \in Users, NEW t \in Tenants, M(u, t) \in MemberWrites(r), "members" \notin mishaps
      PROVE  \/ request[r].call.kind = "create_user" /\ db[M(u, t)].role = "none"
             \/ request[r].call.kind \in MemberChange /\ LeavesAnother(M(u, t))
  BY <1>1, <1>r, <1>7, ZenonT(60) DEF RequestInv
<1>8. ASSUME NEW t \in Tenants, NEW u \in Users, ActiveAdmin(u, t), "members" \notin mishaps
      PROVE  \E o \in Users : ActiveAdmin(o, t)'
  <2>1. CASE M(u, t) \notin MemberWrites(r)
    BY <1>6, <1>8, <2>1, ZenonT(60)
  <2>2. CASE M(u, t) \in MemberWrites(r)
    <3>1. db[M(u, t)].role # "none"
      <4>1. db[M(u, t)].role = "tenant_admin"
        BY <1>8, Zenon DEF ActiveAdmin
      <4> QED
        BY <4>1
    <3>2. LeavesAnother(M(u, t))
      BY <1>7, <1>8, <2>2, <3>1, ZenonT(60)
    <3>3. PICK o \in Users \ {u} : ActiveAdmin(o, t)
      BY <1>8, <3>2, Zenon DEF LeavesAnother
    <3>4. M(o, t) \notin MemberWrites(r)
      <4>1. \A x, y \in MemberWrites(r) : x = y
        BY <1>r, Zenon DEF RequestInv
      <4>2. M(o, t) # M(u, t)
        BY <3>3 DEF M
      <4> QED
        BY <2>2, <4>1, <4>2, ZenonT(60)
    <3> QED
      BY <1>6, <3>3, <3>4, ZenonT(60)
  <2> QED
    BY <2>1, <2>2, Zenon
<1>9. "members" \notin mishaps' =>
        \A t \in Tenants : (\E u \in Users : GivenMember[u][t] = "tenant_admin") => \E u \in Users : ActiveAdmin(u, t)'
  <2> SUFFICES ASSUME "members" \notin mishaps', NEW t \in Tenants, \E u \in Users : GivenMember[u][t] = "tenant_admin"
               PROVE  \E u \in Users : ActiveAdmin(u, t)'
    BY Zenon
  <2>1. "members" \notin mishaps
    BY <1>1, Zenon
  <2>2. PICK u \in Users : ActiveAdmin(u, t)
    BY <2>1, Zenon DEF AdminInv
  <2> QED
    BY <1>8, <2>1, <2>2, ZenonT(60)
<1>10. ASSUME NEW o \in Requests \ {r} PROVE RequestInv(o)' /\ MemberWrites(o)' = MemberWrites(o)
  <2>1. MemberWrites(o)' = MemberWrites(o)
    BY <1>4, Zenon DEF MemberWrites
  <2>2. request'[o] = request[o] /\ RequestInv(o)
    BY <1>4, Zenon DEF AdminInv
  <2>3. ASSUME request[o].phase \in {"read", "written"}, request[o].call.kind \in MemberChange, "members" \notin mishaps',
               NEW row \in MemberWrites(o)
        PROVE  LeavesAnother(row)'
    <3>0. "members" \notin mishaps
      BY <1>1, <2>3, Zenon
    <3>1. LeavesAnother(row)
      BY <2>2, <2>3, <3>0, ZenonT(60) DEF RequestInv
    <3>2. request[r].call.kind \notin MemberChange
      <4>1. o \in Reading \ {r}
        <5>1. request[o].phase # "checked" /\ request[o].phase \in {"checked", "read", "written"}
          BY <2>3
        <5> QED
          BY <5>1, Zenon DEF Reading, UnderWay
      <4>2. request[r].call.kind \in MemberChange => "members" \in Overlaps(r)
        BY <2>3, <4>1, Zenon DEF Overlaps
      <4> QED
        BY <1>1, <2>3, <4>2, ZenonT(60)
    <3> SUFFICES ASSUME NEW u \in Users, NEW t \in Tenants, row = M(u, t)
                 PROVE  db'[row].role # "none" /\ (ActiveAdmin(u, t)' => \E x \in Users \ {u} : ActiveAdmin(x, t)')
      BY Zenon DEF LeavesAnother
    <3>3. db[row].role # "none" /\ (ActiveAdmin(u, t) => \E x \in Users \ {u} : ActiveAdmin(x, t))
      BY <3>1, Zenon DEF LeavesAnother
    <3>4. \A v \in Users, w \in Tenants : db[M(v, w)].role # "none" => M(v, w) \notin MemberWrites(r)
      BY <1>7, <3>0, <3>2, ZenonT(60)
    <3>5. db'[row].role # "none" /\ (ActiveAdmin(u, t)' <=> ActiveAdmin(u, t))
      BY <1>6, <3>3, <3>4, ZenonT(60)
    <3>6. ASSUME NEW x \in Users \ {u}, ActiveAdmin(x, t) PROVE ActiveAdmin(x, t)'
      <4>1. db[M(x, t)].role = "tenant_admin"
        BY <3>6, Zenon DEF ActiveAdmin
      <4>2. db[M(x, t)].role # "none"
        BY <4>1
      <4> QED
        BY <1>6, <3>4, <3>6, <4>2, ZenonT(60)
    <3> QED
      BY <3>3, <3>5, <3>6, ZenonT(60)
  <2>4. ASSUME request[o].phase = "written", request[o].call.kind = "create_user", NEW row \in MemberWrites(o)
        PROVE  db'[row].role = "none"
    <3>1. db[row].role = "none"
      BY <2>2, <2>4, ZenonT(60) DEF RequestInv
    <3>2. MemberWrites(r) \intersect MemberWrites(o) = {}
      BY <1>1, <2>4, ZenonT(60) DEF AdminInv
    <3>3. row \in MemberRows /\ row \notin MemberWrites(r)
      BY <2>4, <3>2, Zenon DEF MemberWrites
    <3> QED
      BY <1>5, <3>1, <3>3, ZenonT(60)
  <2> QED
    BY <2>1, <2>2, <2>3, <2>4, ZenonT(60) DEF RequestInv
<1>11. RequestInv(r)'
  BY <1>3, <1>4, ZenonT(60) DEF RequestInv
<1>12. \A o \in Requests : RequestInv(o)'
  <2> SUFFICES ASSUME NEW o \in Requests PROVE RequestInv(o)'
    OBVIOUS
  <2>1. CASE o = r
    BY <1>11, <2>1
  <2> QED
    BY <1>10, <2>1, Zenon
<1>13. \A x, o \in Requests : x # o /\ request'[x].phase = "written" /\ request'[o].phase = "written" =>
        MemberWrites(x)' \intersect MemberWrites(o)' = {}
  <2> SUFFICES ASSUME NEW x \in Requests, NEW o \in Requests, x # o, request'[x].phase = "written", request'[o].phase = "written"
               PROVE  MemberWrites(x)' \intersect MemberWrites(o)' = {}
    BY Zenon
  <2>1. x # r /\ o # r
    BY <1>3, <1>4, Zenon
  <2>2. /\ MemberWrites(x)' = MemberWrites(x) /\ MemberWrites(o)' = MemberWrites(o)
        /\ request[x].phase = "written" /\ request[o].phase = "written"
    BY <1>4, <1>10, <2>1, ZenonT(60)
  <2>3. MemberWrites(x) \intersect MemberWrites(o) = {}
    BY <2>2, Zenon DEF AdminInv
  <2> QED
    BY <2>2, <2>3, Zenon
<1>14. agenda' \in Agendas
  BY <1>1, Zenon DEF AdminInv
<1> QED
  BY <1>4, <1>5, <1>9, <1>12, <1>13, <1>14, ZenonT(60) DEF AdminInv

LEMMA AdminUnchanged == ASSUME AdminInv, UNCHANGED <<agenda, db, request, mishaps>> PROVE AdminInv'
<1>1. agenda' = agenda /\ db' = db /\ request' = request /\ mishaps' = mishaps
  OBVIOUS
<1>2. \A row : LeavesAnother(row) => LeavesAnother(row)'
  BY <1>1, Zenon DEF LeavesAnother, ActiveAdmin
<1>3. \A r \in Requests : MemberWrites(r)' = MemberWrites(r)
  BY <1>1, Zenon DEF MemberWrites
<1>4. ASSUME NEW r \in Requests PROVE RequestInv(r)'
  <2>1. RequestInv(r) /\ MemberWrites(r)' = MemberWrites(r)
    BY <1>3, Zenon DEF AdminInv
  <2> QED
    BY <1>1, <1>2, <2>1, ZenonT(60) DEF RequestInv
<1>5. \A x, o \in Requests : x # o /\ request'[x].phase = "written" /\ request'[o].phase = "written" =>
        MemberWrites(x)' \intersect MemberWrites(o)' = {}
  BY <1>1, <1>3, ZenonT(60) DEF AdminInv
<1>6. /\ agenda' \in Agendas /\ DOMAIN request' = Requests
      /\ \A row \in MemberRows : row \in DOMAIN db' /\ {"role", "active"} \subseteq DOMAIN db'[row]
  BY <1>1, Zenon DEF AdminInv
<1>7. "members" \notin mishaps' =>
        \A t \in Tenants : (\E u \in Users : GivenMember[u][t] = "tenant_admin") => \E u \in Users : ActiveAdmin(u, t)'
  BY <1>1, Zenon DEF AdminInv, ActiveAdmin
<1> QED
  BY <1>4, <1>5, <1>6, <1>7, ZenonT(60) DEF AdminInv

LEMMA AdminInvariant == AccountsSpec => []AdminInv
<1>1. ASSUME AdminInv, [AccountsNext]_accounts PROVE AdminInv'
  <2>1. CASE UNCHANGED <<agenda, db, request, mishaps>>
    BY <1>1, <2>1, AdminUnchanged, ZenonT(60)
  <2>2. ASSUME NEW r \in Requests, \/ Handle(r) \/ Write(r) \/ Commit(r) \/ Rollback(r)
                                  \/ \E call : call.kind \in RequestKinds /\ Arrive(r, call)
        PROVE AdminInv'
    BY <1>1, <2>2, AdminHandle, AdminWrite, AdminCommit, AdminRollback, AdminArrive, ZenonT(60)
  <2>3. \/ UNCHANGED <<agenda, db, request, mishaps>>
        \/ \E r \in Requests : \/ Handle(r) \/ Write(r) \/ Commit(r) \/ Rollback(r)
                              \/ \E kind \in agenda \ {"time"} : \E bearer, u, t, arg, wrong :
                                    Arrive(r, [kind |-> kind, bearer |-> bearer, user |-> u, tenant |-> t, arg |-> arg, wrong |-> wrong])
    BY <1>1, ZenonT(60) DEF AccountsNext, TimePasses, accounts
  <2>4. \A kind \in agenda \ {"time"} : \A bearer, u, t, arg, wrong :
            [kind |-> kind, bearer |-> bearer, user |-> u, tenant |-> t, arg |-> arg, wrong |-> wrong].kind \in RequestKinds
    <3>1. \A kind \in agenda \ {"time"} : kind \in RequestKinds
      BY <1>1, AccountsAssumption, Zenon DEF AdminInv
    <3> QED
      BY <3>1
  <2> QED
    BY <2>1, <2>2, <2>3, <2>4, Zenon
<1> QED
  BY <1>1, AdminInit, PTL DEF AccountsSpec

(* AdministratorRemains, for any finite set of users, any tenants and number  *)
(* of requests: a tenant that starts with an administrator keeps one unless   *)
(* two changes of members overlapped (_admins in update_user, remove_user).   *)
THEOREM AnAdministratorRemains == AccountsSpec => []AdministratorRemains
<1>1. ASSUME AdminInv PROVE AdministratorRemains
  <2> SUFFICES ASSUME "members" \notin mishaps, NEW t \in Tenants, \E u \in Users : GivenMember[u][t] = "tenant_admin"
               PROVE  Admins(t) >= 1
    BY Zenon DEF AdministratorRemains
  <2> DEFINE admins == {u \in Users : db[M(u, t)].role = "tenant_admin" /\ db[M(u, t)].active}
  <2>1. admins # {} /\ admins \subseteq Users
    BY <1>1, Zenon DEF AdminInv, ActiveAdmin
  <2>2. Admins(t) = Cardinality(admins)
    BY Zenon DEF Admins
  <2> HIDE DEF admins
  <2>3. IsFiniteSet(admins)
    BY <2>1, AccountsAssumption, FS_Subset
  <2>4. Cardinality(admins) \in Nat /\ Cardinality(admins) # 0
    BY <2>1, <2>3, FS_CardinalityType, FS_EmptySet
  <2> QED
    BY <2>2, <2>4
<1> QED
  BY <1>1, AdminInvariant, PTL

-----------------------------------------------------------------------------
(* The scope. *)

\* What a flush or a commit writes, row by row (Assign, Dirty, ++).
LEMMA AssignWrites ==
  ASSUME NEW row, NEW columns
  PROVE  /\ DOMAIN Assign(row, columns) = {<<row, c>> : c \in DOMAIN columns}
         /\ \A c \in DOMAIN columns : Assign(row, columns)[<<row, c>>] = columns[c]
BY Zenon DEF Assign

LEMMA DirtyWrites ==
  ASSUME NEW tbl, NEW writes
  PROVE  /\ DOMAIN Dirty(tbl, writes) \subseteq DOMAIN writes
         /\ \A x \in DOMAIN Dirty(tbl, writes) : Dirty(tbl, writes)[x] = writes[x]
BY Zenon DEF Dirty

LEMMA OverWrites ==
  ASSUME NEW f, NEW g
  PROVE  \A x : /\ x \in DOMAIN (f ++ g) <=> x \in DOMAIN f \/ x \in DOMAIN g
                /\ x \in DOMAIN f => (f ++ g)[x] = f[x]
                /\ x \in DOMAIN g /\ x \notin DOMAIN f => (f ++ g)[x] = g[x]
BY Zenon DEF ++

LEMMA EntryRow == \A k \in EntryRows : k = E(k[2], k[3]) /\ k[2] \in Values /\ k[3] \in BOOLEAN
BY SMT DEF EntryRows, E

LEMMA OtherRows == \A k \in EntryRows : (\A v : k # A(v)) /\ k # TenantRow /\ k # OrganizationRow
BY SMT DEF EntryRows, E, A, TenantRow, OrganizationRow

\* A write to a column of a row is a write to the row.
LEMMA WrittenRow ==
  ASSUME NEW writes, NEW k, NEW c, <<k, c>> \in DOMAIN writes
  PROVE  k \in RowsOf(writes)
<1>1. <<k, c>>[1] = k
  OBVIOUS
<1> QED
  BY <1>1, Zenon DEF RowsOf

\* Writes to assets, to the tenant and to the organization prove nothing.
NoEntryIn(writes) == RowsOf(writes) \intersect EntryRows = {}

LEMMA NoEntryProves ==
  ASSUME NEW writes, NoEntryIn(writes)
  PROVE  \A ask : ProvesOnly(ask, writes) /\ \A k \in EntryRows : ~Verifies(writes, k)
<1>1. \A k \in EntryRows : \A c : <<k, c>> \notin DOMAIN writes
  BY WrittenRow, Zenon DEF NoEntryIn
<1> QED
  BY <1>1, Zenon DEF ProvesOnly, Verifies, Replaces

LEMMA EmptyWrites == DOMAIN <<>> = {} /\ NoEntryIn(<<>>)
<1>1. DOMAIN <<>> = {}
  OBVIOUS
<1> QED
  BY <1>1, Zenon DEF NoEntryIn, RowsOf

\* Writes that verify nothing may come over others.
LEMMA OverProves ==
  ASSUME NEW ask, NEW f, NEW g, ProvesOnly(ask, f), ProvesOnly(ask, g), \A k \in EntryRows : ~Verifies(f, k)
  PROVE  /\ ProvesOnly(ask, f ++ g)
         /\ \A k \in EntryRows : Verifies(f ++ g, k) => Verifies(g, k)
<1> SUFFICES ASSUME NEW k \in EntryRows
             PROVE  /\ Verifies(f ++ g, k) => Proving(ask) /\ k = ask.row
                    /\ Replaces(f ++ g, k) => <<k, "verification">> \in DOMAIN (f ++ g) /\ ~Verifies(f ++ g, k)
                    /\ Verifies(f ++ g, k) => Verifies(g, k)
  BY Zenon DEF ProvesOnly
<1>1. /\ Verifies(f, k) => Proving(ask) /\ k = ask.row
      /\ Replaces(f, k) => <<k, "verification">> \in DOMAIN f /\ ~Verifies(f, k)
      /\ Verifies(g, k) => Proving(ask) /\ k = ask.row
      /\ Replaces(g, k) => <<k, "verification">> \in DOMAIN g /\ ~Verifies(g, k)
  BY Zenon DEF ProvesOnly
<1>0. \A x : /\ x \in DOMAIN (f ++ g) <=> x \in DOMAIN f \/ x \in DOMAIN g
             /\ x \in DOMAIN f => (f ++ g)[x] = f[x]
             /\ x \in DOMAIN g /\ x \notin DOMAIN f => (f ++ g)[x] = g[x]
  BY OverWrites, ZenonT(60)
<1>f. ~Verifies(f, k)
  OBVIOUS
<1>2. Verifies(f ++ g, k) => Verifies(g, k)
  BY <1>0, <1>f, Zenon DEF Verifies
<1>3. Replaces(f ++ g, k) => <<k, "verification">> \in DOMAIN (f ++ g) /\ ~Verifies(f ++ g, k)
  BY <1>0, <1>1, Zenon DEF Verifies, Replaces
<1> QED
  BY <1>1, <1>2, <1>3, ZenonT(60)

-----------------------------------------------------------------------------
(* What the calls write to the entries.                                     *)

\* rescope_assets and sync_scope_assets change assets only.
LEMMA RescopesAssets ==
  ASSUME NEW c, NEW tbl, NEW k \in EntryRows, k \in DOMAIN tbl
  PROVE  rescope_assets(c, tbl)[k] = tbl[k]
BY OtherRows, ZenonT(60) DEF rescope_assets, ++

LEMMA MaterializesAssets ==
  ASSUME NEW tbl, NEW k \in EntryRows, k \in DOMAIN tbl
  PROVE  Materialized(tbl)[k] = tbl[k]
BY OtherRows, Zenon DEF Materialized, ++

LEMMA DifferenceRows ==
  ASSUME NEW before, NEW after, \A k \in EntryRows : k \in DOMAIN before => after[k] = before[k]
  PROVE  NoEntryIn(Difference(before, after))
<1> SUFFICES ASSUME NEW x \in DOMAIN Difference(before, after) PROVE x[1] \notin EntryRows
  BY Zenon DEF NoEntryIn, RowsOf
<1>1. PICK k \in DOMAIN before : \E c \in DOMAIN before[k] : before[k][c] # after[k][c] /\ x = <<k, c>>
  BY Zenon DEF Difference
<1>2. x[1] = k
  BY <1>1
<1> QED
  BY <1>1, <1>2, Zenon

LEMMA SyncWrites == ASSUME NEW tbl PROVE NoEntryIn(sync_scope_assets(tbl))
<1> DEFINE first == Materialized(tbl)
           second == rescope_assets(load_checker(first), first)
<1>1. NoEntryIn(Difference(tbl, first))
  BY MaterializesAssets, DifferenceRows, Zenon
<1>2. NoEntryIn(Difference(first, second))
  <2> HIDE DEF first
  <2> QED
    BY RescopesAssets, DifferenceRows, Zenon
<1>3. DOMAIN sync_scope_assets(tbl) = DOMAIN Difference(tbl, first) \union DOMAIN Difference(first, second)
  BY Zenon DEF sync_scope_assets
<1> HIDE DEF first, second
<1> QED
  BY <1>1, <1>2, <1>3, ZenonT(60) DEF NoEntryIn, RowsOf

LEMMA AssignAt ==
  ASSUME NEW row, NEW columns, NEW k, NEW c
  PROVE  /\ <<k, c>> \in DOMAIN Assign(row, columns) <=> k = row /\ c \in DOMAIN columns
         /\ k = row /\ c \in DOMAIN columns => Assign(row, columns)[<<k, c>>] = columns[c]
<1>1. \A d : <<k, c>> = <<row, d>> <=> k = row /\ c = d
  OBVIOUS
<1>2. <<k, c>> \in DOMAIN Assign(row, columns) <=> \E d \in DOMAIN columns : <<k, c>> = <<row, d>>
  BY Zenon DEF Assign
<1>3. c \in DOMAIN columns => Assign(row, columns)[<<row, c>>] = columns[c]
  BY AssignWrites, Zenon
<1> QED
  BY <1>1, <1>2, <1>3, ZenonT(60)

\* A flush of changed columns verifies or replaces no more than what was assigned.
LEMMA DirtyProves ==
  ASSUME NEW ask, NEW tbl, NEW writes, ProvesOnly(ask, writes), \A k \in EntryRows : ~Replaces(writes, k)
  PROVE  ProvesOnly(ask, Dirty(tbl, writes))
<1> SUFFICES ASSUME NEW k \in EntryRows
             PROVE  (Verifies(Dirty(tbl, writes), k) => Proving(ask) /\ k = ask.row) /\ ~Replaces(Dirty(tbl, writes), k)
  BY Zenon DEF ProvesOnly
<1>1. (Verifies(writes, k) => Proving(ask) /\ k = ask.row) /\ ~Replaces(writes, k)
  BY Zenon DEF ProvesOnly
<1>2. \A x : x \in DOMAIN Dirty(tbl, writes) => x \in DOMAIN writes /\ Dirty(tbl, writes)[x] = writes[x]
  BY DirtyWrites, Zenon
<1> QED
  BY <1>1, <1>2, Zenon DEF Verifies, Replaces

\* What a ask writes to its own row (update_entry, remove_entry, approve_entry, verify_entry,
\* update_settings, update_organization).
LEMMA OwnProves ==
  ASSUME NEW r, NEW ask, Asked(r, ask) # None,
         ask.kind \in {"add", "update", "remove", "approve", "verify", "settings", "organization", "ingest"}
  PROVE  ProvesOnly(ask, Asked(r, ask))
<1>e. ProvesOnly(ask, <<>>)
  BY EmptyWrites, NoEntryProves, Zenon
<1>1. CASE ask.kind \in {"add", "ingest"}
  <2>1. Asked(r, ask) = <<>>
    BY <1>1, ZenonT(60) DEF Asked
  <2> QED
    BY <1>e, <2>1, Zenon
<1>2. CASE ask.kind = "update"
  <2>0. Asked(r, ask) = update_entry(ask)
    BY <1>2, Zenon DEF Asked
  <2>1. ASSUME NEW columns, DOMAIN columns \in {{"subs"}, {"active"}}
        PROVE  ProvesOnly(ask, Dirty(table, Assign(ask.row, columns)))
    <3>1. \A k : <<k, "verification">> \notin DOMAIN Assign(ask.row, columns) /\ <<k, "id">> \notin DOMAIN Assign(ask.row, columns)
      BY <2>1, AssignAt
    <3> QED
      BY <3>1, DirtyProves, ZenonT(60) DEF ProvesOnly, Verifies, Replaces
  <2>2. DOMAIN [subs |-> ask.value] = {"subs"} /\ DOMAIN [active |-> ask.value /\ ~ask.row[3]] = {"active"}
    OBVIOUS
  <2> QED
    BY <2>0, <2>1, <2>2 DEF update_entry
<1>3. CASE ask.kind = "remove"
  <2>0. Asked(r, ask) = Assign(ask.row, NoEntry)
    BY <1>3, Zenon DEF Asked, remove_entry
  <2>1. "verification" \in DOMAIN NoEntry /\ NoEntry["verification"] # "verified"
    BY DEF NoEntry
  <2>2. \A k : /\ <<k, "verification">> \in DOMAIN Assign(ask.row, NoEntry) => Assign(ask.row, NoEntry)[<<k, "verification">>] # "verified"
               /\ <<k, "id">> \in DOMAIN Assign(ask.row, NoEntry) => <<k, "verification">> \in DOMAIN Assign(ask.row, NoEntry)
    BY <2>1, AssignAt
  <2> QED
    BY <2>0, <2>2, Zenon DEF ProvesOnly, Verifies, Replaces
<1>4. CASE ask.kind \in {"approve", "verify"}
  <2>1. ASSUME NEW value, value = "verified" => Proving(ask)
        PROVE  ProvesOnly(ask, Dirty(table, Assign(ask.row, [verification |-> value])))
    <3>1. DOMAIN [verification |-> value] = {"verification"} /\ [verification |-> value]["verification"] = value
      OBVIOUS
    <3>2. \A k : /\ <<k, "verification">> \in DOMAIN Assign(ask.row, [verification |-> value])
                      => k = ask.row /\ Assign(ask.row, [verification |-> value])[<<k, "verification">>] = value
                 /\ <<k, "id">> \notin DOMAIN Assign(ask.row, [verification |-> value])
      BY <3>1, AssignAt
    <3> QED
      <4> DEFINE own == Assign(ask.row, [verification |-> value])
      <4>1. \A k \in EntryRows : ~Replaces(own, k)
        BY <3>2, Zenon DEF Replaces
      <4>2. \A k \in EntryRows : Verifies(own, k) => Proving(ask) /\ k = ask.row
        BY <2>1, <3>2, Zenon DEF Verifies
      <4> HIDE DEF own
      <4>3. ProvesOnly(ask, own)
        BY <4>1, <4>2, Zenon DEF ProvesOnly
      <4>4. ProvesOnly(ask, Dirty(table, own))
        BY <4>1, <4>3, DirtyProves, ZenonT(60)
      <4> QED
        BY <4>4, Zenon DEF own
  <2>2. CASE ask.kind = "approve"
    <3>1. Asked(r, ask) = Dirty(table, Assign(ask.row, [verification |-> "verified"]))
      BY <2>2, Zenon DEF Asked, approve_entry
    <3> QED
      BY <2>1, <2>2, <3>1, ZenonT(60) DEF Proving
  <2>3. CASE ask.kind = "verify"
    <3>1. Asked(r, ask) = Dirty(table, Assign(ask.row, [verification |-> IF ask.value THEN "verified" ELSE "pending"]))
      BY <2>3, Zenon DEF Asked, verify_entry
    <3> QED
      BY <2>1, <2>3, <3>1, ZenonT(60) DEF Proving
  <2> QED
    BY <1>4, <2>2, <2>3, ZenonT(60)
<1>5. CASE ask.kind \in {"settings", "organization"}
  <2>1. \E row \in {TenantRow, OrganizationRow} : \E columns : Asked(r, ask) = Dirty(table, Assign(row, columns))
    BY <1>5, Zenon DEF Asked, update_settings, update_organization
  <2> QED
    BY <2>1, OtherRows, AssignRows, DirtyRows, NoEntryProves, SMTT(60) DEF NoEntryIn
<1> QED
  BY <1>1, <1>2, <1>3, <1>4, <1>5, ZenonT(60)

\* A new entry starts unproven (add_entry).
LEMMA AddProves ==
  ASSUME NEW r, NEW tbl, NEW v, NEW ask, add_entry(r, tbl, v, ask) # None
  PROVE  /\ ProvesOnly(ask, add_entry(r, tbl, v, ask))
         /\ \A k \in EntryRows : ~Verifies(add_entry(r, tbl, v, ask), k)
         /\ RowsOf(add_entry(r, tbl, v, ask)) \subseteq {E(v, ask.exclusion)}
<1> DEFINE status == IF tbl[TenantRow].require /\ ~ask.exclusion THEN "unverified" ELSE "not_required"
           new == [id |-> r, subs |-> ask.subs /\ v \in Names, active |-> ask.active /\ ~ask.exclusion, verification |-> status]
           row == E(v, ask.exclusion)
           own == add_entry(r, tbl, v, ask)
<1>1. own = Assign(row, [subs |-> TRUE]) \/ own = Assign(row, new)
  BY ZenonT(60) DEF add_entry
<1>2. /\ "verification" \notin DOMAIN [subs |-> TRUE] /\ "id" \notin DOMAIN [subs |-> TRUE]
      /\ "verification" \in DOMAIN new /\ new["verification"] # "verified"
  OBVIOUS
<1> HIDE DEF new, row, own
<1>3. \A k : /\ ~Verifies(own, k)
             /\ Replaces(own, k) => <<k, "verification">> \in DOMAIN own
  <2>1. CASE own = Assign(row, [subs |-> TRUE])
    <3>1. \A k : <<k, "verification">> \notin DOMAIN own /\ <<k, "id">> \notin DOMAIN own
      BY <1>2, <2>1, AssignAt
    <3> QED
      BY <3>1, ZenonT(60) DEF Verifies, Replaces
  <2>2. CASE own = Assign(row, new)
    <3>1. \A k : /\ <<k, "verification">> \in DOMAIN own => own[<<k, "verification">>] # "verified"
                 /\ <<k, "id">> \in DOMAIN own => <<k, "verification">> \in DOMAIN own
      BY <1>2, <2>2, AssignAt
    <3> QED
      BY <3>1, ZenonT(60) DEF Verifies, Replaces
  <2> QED
    BY <1>1, <2>1, <2>2, ZenonT(60)
<1>4. RowsOf(own) \subseteq {row}
  BY <1>1, AssignRows, Zenon
<1>5. ProvesOnly(ask, own) /\ \A k \in EntryRows : ~Verifies(own, k)
  BY <1>3, Zenon DEF ProvesOnly
<1> QED
  BY <1>4, <1>5, Zenon DEF own, row

\* Requiring verification takes no entry for proven (apply_verification_policy).
LEMMA PolicyProves ==
  ASSUME NEW tbl, NEW ask
  PROVE  /\ ProvesOnly(ask, apply_verification_policy(tbl))
         /\ \A k \in EntryRows : ~Verifies(apply_verification_policy(tbl), k)
<1> DEFINE own == apply_verification_policy(tbl)
<1>1. \A x \in DOMAIN own : own[x] = "unverified" /\ \E v : x = <<E(v, FALSE), "verification">>
  <2>1. CASE ~tbl[TenantRow].require
    BY <2>1, EmptyWrites, Zenon DEF apply_verification_policy
  <2>2. CASE tbl[TenantRow].require
    BY <2>2, Zenon DEF apply_verification_policy
  <2> QED
    BY <2>1, <2>2, Zenon
<1>2. \A k, v : <<k, "id">> # <<E(v, FALSE), "verification">>
  OBVIOUS
<1> HIDE DEF own
<1>3. \A k : ~Verifies(own, k) /\ ~Replaces(own, k)
  BY <1>1, <1>2, Zenon DEF Verifies, Replaces
<1>4. ProvesOnly(ask, own) /\ \A k \in EntryRows : ~Verifies(own, k)
  BY <1>3, Zenon DEF ProvesOnly
<1> QED
  BY <1>4, Zenon DEF own

\* An ingestion writes to assets only (_apply_asset).
LEMMA ApplyAssetRows == ASSUME NEW v, NEW status, NEW noise PROVE NoEntryIn(ApplyAsset(v, status, noise))
<1>1. ASSUME NEW columns PROVE NoEntryIn(Assign(A(v), columns)) /\ NoEntryIn(Dirty(table, Assign(A(v), columns)))
  <2>1. RowsOf(Assign(A(v), columns)) \subseteq {A(v)} /\ RowsOf(Dirty(table, Assign(A(v), columns))) \subseteq RowsOf(Assign(A(v), columns))
    BY AssignRows, DirtyRows, Zenon
  <2>2. A(v) \notin EntryRows
    BY OtherRows, Zenon
  <2> QED
    BY <2>1, <2>2, Zenon DEF NoEntryIn
<1>2. NoEntryIn(<<>>) /\ NoEntryIn(Dirty(table, <<>>))
  BY EmptyWrites, DirtyRows, Zenon DEF NoEntryIn
<1> DEFINE kept == v \in Addrs /\ status = "out_of_scope" /\ table[A(v)].status = "derived"
<1>3. CASE kept
  BY <1>1, <1>2, <1>3, ZenonT(60) DEF ApplyAsset
<1>4. CASE ~kept
  BY <1>1, <1>2, <1>4, ZenonT(60) DEF ApplyAsset
<1> QED
  BY <1>3, <1>4, Zenon

-----------------------------------------------------------------------------
(* ProvenInv is inductive.                                                  *)

\* A transaction that goes on keeps to what it has read and locked.
LEMMA EditGoesOn ==
  ASSUME ProvenInv, NEW r \in 1..Edits, NEW e, edit' = [edit EXCEPT ![r] = e], DOMAIN e = DOMAIN Waiting,
         UNCHANGED <<programme, table, relation, proven, overlap>>,
         e.phase \notin {"idle", "done"} =>
            /\ ProvesOnly(e.call, e.own) /\ ProvesOnly(e.call, e.writes) /\ (e.phase \notin {"flushed", "audited"} => e.writes = <<>>)
            /\ \A k \in EntryRows : Verifies(e.writes, k) => table[k].id = e.seen.id,
         e.phase \in {"flushed", "audited"} =>
            \A o \in 1..Edits \ {r} : RowsOf(e.writes) \intersect EntryRows \intersect LockedBy(o) = {}
  PROVE  ProvenInv'
<1>1. edit'[r] = e /\ (\A o \in 1..Edits \ {r} : edit'[o] = edit[o]) /\ DOMAIN edit' = 1..Edits
  BY DEF ProvenInv
<1>2. EditInv(r)'
  BY <1>1, Zenon DEF EditInv
<1>3. \A o \in 1..Edits \ {r} : EditInv(o)'
  BY <1>1, Zenon DEF EditInv, ProvenInv
<1>4. LockedBy(r)' = IF e.phase \in {"flushed", "audited"} THEN RowsOf(e.writes) \intersect EntryRows ELSE {}
  BY <1>1, Zenon DEF LockedBy
<1>5. \A o \in 1..Edits \ {r} : LockedBy(o)' = LockedBy(o)
  BY <1>1, Zenon DEF LockedBy
<1>6. \A o \in 1..Edits \ {r} : LockedBy(r)' \intersect LockedBy(o) = {}
  BY <1>4, Zenon
<1>7. ASSUME NEW x \in 1..Edits, NEW o \in 1..Edits, x # o PROVE LockedBy(x)' \intersect LockedBy(o)' = {}
  <2>1. CASE x = r
    BY <1>5, <1>6, <1>7, <2>1, ZenonT(60)
  <2>2. CASE o = r
    <3>1. LockedBy(r)' \intersect LockedBy(x) = {} /\ LockedBy(x)' = LockedBy(x)
      BY <1>5, <1>6, <1>7, <2>2, ZenonT(60)
    <3>2. \A a, b : a \intersect b = {} => b \intersect a = {}
      OBVIOUS
    <3> QED
      BY <2>2, <3>1, <3>2, ZenonT(60)
  <2>3. CASE x # r /\ o # r
    <3>1. LockedBy(x) \intersect LockedBy(o) = {}
      BY <1>7, Zenon DEF ProvenInv
    <3>2. LockedBy(x)' = LockedBy(x) /\ LockedBy(o)' = LockedBy(o)
      BY <1>5, <2>3, Zenon
    <3> QED
      BY <3>1, <3>2, Zenon
  <2> QED
    BY <2>1, <2>2, <2>3, ZenonT(60)
<1>8. \A o \in 1..Edits : EditInv(o)'
  BY <1>2, <1>3, Zenon
<1> QED
  BY <1>1, <1>7, <1>8, ZenonT(60) DEF ProvenInv

LEMMA EditEnds ==
  ASSUME ProvenInv, NEW r \in 1..Edits, edit' = [edit EXCEPT ![r] = Ended],
         UNCHANGED <<programme, table, relation, proven, overlap>>
  PROVE  ProvenInv'
<1>1. DOMAIN Ended = DOMAIN Waiting /\ Ended.phase = "done"
  BY DEF Ended, Waiting
<1>2. Ended.phase \in {"idle", "done"} /\ Ended.phase \notin {"flushed", "audited"}
  BY <1>1
<1> HIDE DEF Ended, ProvenInv
<1> QED
  BY <1>1, <1>2, EditGoesOn, ZenonT(60)

LEMMA ProvenInit == ScopeInit => ProvenInv
<1> SUFFICES ASSUME ScopeInit PROVE ProvenInv
  OBVIOUS
<1>1. PICK given \in GivenScopes, require \in BOOLEAN :
        table = [k \in EntryRows |-> IF k[2] \in given /\ ~k[3]
                     THEN [id |-> GivenId, subs |-> k[2] \in Names, active |-> TRUE,
                           verification |-> IF require THEN "unverified" ELSE "not_required"]
                     ELSE NoEntry]
                ++ [k \in AssetRows |-> IF k[2] \in given THEN Declared(k[2]) ELSE NoAsset]
                ++ [k \in {TenantRow} |-> [require |-> require]] ++ [k \in {OrganizationRow} |-> [derived |-> TRUE]]
  BY Zenon DEF ScopeInit
<1>a. PICK status : status = (IF require THEN "unverified" ELSE "not_required") /\ status # "verified"
  <2>1. (IF require THEN "unverified" ELSE "not_required") # "verified"
    OBVIOUS
  <2> QED
    BY <2>1, Zenon
<1>2. ASSUME NEW k \in EntryRows
      PROVE  k \in DOMAIN table /\ table[k] \in {NoEntry, [id |-> GivenId, subs |-> k[2] \in Names, active |-> TRUE, verification |-> status]}
  BY <1>1, <1>2, <1>a, ZenonT(60) DEF ++
<1>3. ASSUME NEW k \in EntryRows
      PROVE  k \in DOMAIN table /\ {"id", "verification"} \subseteq DOMAIN table[k] /\ table[k].verification # "verified"
  <2>1. PICK sub : sub = (k[2] \in Names)
    OBVIOUS
  <2>2. k \in DOMAIN table /\ table[k] \in {NoEntry, [id |-> GivenId, subs |-> sub, active |-> TRUE, verification |-> status]}
    BY <1>2, <2>1, ZenonT(60)
  <2>3. {"id", "verification"} \subseteq DOMAIN NoEntry /\ NoEntry.verification # "verified"
    BY DEF NoEntry
  <2>4. CASE table[k] = [id |-> GivenId, subs |-> sub, active |-> TRUE, verification |-> status]
    BY <1>a, <2>2, <2>4
  <2>5. CASE table[k] = NoEntry
    BY <2>2, <2>3, <2>5, ZenonT(60)
  <2> QED
    BY <2>2, <2>4, <2>5, ZenonT(60)
<1>4. programme \in Programmes /\ DOMAIN edit = 1..Edits /\ \A r \in 1..Edits : edit[r] = Waiting
  BY Zenon DEF ScopeInit
<1>5. Waiting.phase = "idle"
  BY DEF Waiting
<1>6. \A r \in 1..Edits : EditInv(r) /\ LockedBy(r) = {}
  BY <1>4, <1>5, Zenon DEF EditInv, LockedBy
<1> QED
  BY <1>3, <1>4, <1>6, ZenonT(60) DEF ProvenInv

\* A ask that begins has written nothing yet.
LEMMA CallStep == ASSUME ProvenInv, NEW r \in 1..Edits, NEW ask \in programme, Call(r, ask) PROVE ProvenInv'
<1> DEFINE own == Asked(r, ask)
           e == [phase |-> "read", call |-> ask, own |-> own, writes |-> <<>>,
                 loaded |-> IF ask.kind \in {"ingest", "organization"} THEN load_checker(table) ELSE None,
                 seen |-> IF ask.kind \in OnEntry THEN table[ask.row] ELSE None,
                 todo |-> IF ask.kind = "add" THEN ask.values ELSE IF ask.kind = "settings" THEN {"policy"} ELSE {}]
<1>1. CASE own = None
  <2>1. edit' = [edit EXCEPT ![r] = Ended] /\ UNCHANGED <<programme, table, relation, proven, overlap>>
    BY <1>1, Zenon DEF Call
  <2> QED
    BY <2>1, EditEnds, Zenon
<1>2. CASE own # None
  <2>1. edit' = [edit EXCEPT ![r] = e] /\ UNCHANGED <<programme, table, relation, proven, overlap>>
    BY <1>2, ZenonT(60) DEF Call
  <2>2. e.phase = "read" /\ e.call = ask /\ e.own = own /\ e.writes = <<>>
    BY SMTT(60)
  <2>3. DOMAIN e = DOMAIN Waiting
    BY DEF Waiting
  <2>4. ProvesOnly(ask, own)
    BY <1>2, OwnProves, ScopeAssumption, ZenonT(60) DEF ProvenInv
  <2>5. ProvesOnly(ask, <<>>) /\ \A k \in EntryRows : ~Verifies(<<>>, k)
    BY EmptyWrites, NoEntryProves, ZenonT(60)
  <2> HIDE DEF e, own
  <2>6. e.phase \notin {"flushed", "audited"}
    BY <2>2
  <2> QED
    BY <2>1, <2>2, <2>3, <2>4, <2>5, <2>6, EditGoesOn, ZenonT(60)
<1> QED
  BY <1>1, <1>2, Zenon

\* The rows nobody else has locked.
LEMMA UnlockedRows ==
  ASSUME ProvenInv, NEW r \in 1..Edits, NEW tbl, Unlocked(tbl, r)
  PROVE  \A o \in 1..Edits \ {r} : tbl \intersect LockedBy(o) = {}
<1> SUFFICES ASSUME NEW o \in 1..Edits \ {r} PROVE tbl \intersect LockedBy(o) = {}
  OBVIOUS
<1>1. CASE o \in Busy
  BY <1>1, Zenon DEF Unlocked
<1>2. CASE o \notin Busy
  BY <1>2, Zenon DEF Busy, LockedBy
<1> QED
  BY <1>1, <1>2, ZenonT(60)

\* What a transaction has written, it has locked.
LEMMA OwnLocks ==
  ASSUME ProvenInv, NEW r \in 1..Edits, edit[r].phase \in {"read", "flushed", "audited"}
  PROVE  \A o \in 1..Edits \ {r} : RowsOf(edit[r].writes) \intersect EntryRows \intersect LockedBy(o) = {}
<1> SUFFICES ASSUME NEW o \in 1..Edits \ {r} PROVE RowsOf(edit[r].writes) \intersect EntryRows \intersect LockedBy(o) = {}
  OBVIOUS
<1>1. CASE edit[r].phase = "read"
  <2>1. edit[r].writes = <<>>
    BY <1>1, Zenon DEF ProvenInv, EditInv
  <2> QED
    BY <2>1, EmptyWrites, Zenon DEF NoEntryIn
<1>2. CASE edit[r].phase \in {"flushed", "audited"}
  <2>1. LockedBy(r) = RowsOf(edit[r].writes) \intersect EntryRows
    BY <1>2, Zenon DEF LockedBy
  <2>2. LockedBy(r) \intersect LockedBy(o) = {}
    BY Zenon DEF ProvenInv
  <2> QED
    BY <2>1, <2>2, ZenonT(60)
<1> QED
  BY <1>1, <1>2, ZenonT(60)

LEMMA FlushAddStep == ASSUME ProvenInv, NEW r \in 1..Edits, FlushAdd(r) PROVE ProvenInv'
<1> DEFINE own(v) == add_entry(r, Mine(r), v, edit[r].call)
           rest(v) == edit[r].todo \ {v}
           new(v) == IF own(v) # None
                     THEN [edit[r] EXCEPT !.phase = "flushed", !.writes = own(v) ++ edit[r].writes, !.todo = rest(v)]
                     ELSE IF rest(v) = {} /\ edit[r].phase = "read" THEN Ended ELSE [edit[r] EXCEPT !.todo = rest(v)]
<1>a. PICK v \in edit[r].todo :
        /\ Unlocked({E(v, edit[r].call.exclusion)}, r)
        /\ edit' = [edit EXCEPT ![r] = new(v)]
        /\ edit[r].phase \in {"read", "audited"} /\ UNCHANGED <<programme, table, relation, proven, overlap>>
  BY Zenon DEF FlushAdd
<1>b. PICK e : e = new(v)
  BY Zenon
<1>1. /\ edit' = [edit EXCEPT ![r] = e]
      /\ own(v) # None => e = [edit[r] EXCEPT !.phase = "flushed", !.writes = own(v) ++ edit[r].writes, !.todo = rest(v)]
      /\ own(v) = None => e = Ended \/ e = [edit[r] EXCEPT !.todo = rest(v)]
      /\ Unlocked({E(v, edit[r].call.exclusion)}, r)
      /\ edit[r].phase \in {"read", "audited"} /\ UNCHANGED <<programme, table, relation, proven, overlap>>
  BY <1>a, <1>b, Zenon
<1> HIDE DEF new
<1> HIDE DEF rest
<1>0. /\ DOMAIN edit[r] = DOMAIN Waiting /\ edit[r].phase \notin {"idle", "done"}
      /\ ProvesOnly(edit[r].call, edit[r].own) /\ ProvesOnly(edit[r].call, edit[r].writes)
      /\ edit[r].phase \notin {"flushed", "audited"} => edit[r].writes = <<>>
      /\ \A k \in EntryRows : Verifies(edit[r].writes, k) => table[k].id = edit[r].seen.id
  <2>1. EditInv(r)
    BY Zenon DEF ProvenInv
  <2>2. edit[r].phase \notin {"idle", "done"}
    BY <1>1, SMTT(60)
  <2> QED
    BY <2>1, <2>2, Zenon DEF EditInv
<1>d. {"phase", "call", "own", "writes", "seen", "todo"} \subseteq DOMAIN edit[r]
  BY <1>0 DEF Waiting
<1>2. CASE own(v) # None
  <2>1. PICK w : w = own(v) ++ edit[r].writes
    OBVIOUS
  <2>2. e = [edit[r] EXCEPT !.phase = "flushed", !.writes = w, !.todo = rest(v)]
    BY <1>1, <1>2, <2>1, ZenonT(60)
  <2>3. /\ DOMAIN e = DOMAIN edit[r] /\ e.phase = "flushed" /\ e.writes = w
        /\ e.call = edit[r].call /\ e.own = edit[r].own /\ e.seen = edit[r].seen
    BY <1>d, <2>2
  <2>4. /\ ProvesOnly(edit[r].call, own(v)) /\ (\A k \in EntryRows : ~Verifies(own(v), k))
        /\ RowsOf(own(v)) \subseteq {E(v, edit[r].call.exclusion)}
    BY <1>2, AddProves, ZenonT(60)
  <2> HIDE DEF own
  <2>5. /\ ProvesOnly(edit[r].call, w)
        /\ \A k \in EntryRows : Verifies(w, k) => Verifies(edit[r].writes, k)
    BY <1>0, <2>1, <2>4, OverProves, ZenonT(60)
  <2>6. ASSUME NEW o \in 1..Edits \ {r} PROVE RowsOf(w) \intersect EntryRows \intersect LockedBy(o) = {}
    <3>1. RowsOf(w) = RowsOf(own(v)) \union RowsOf(edit[r].writes)
      BY <2>1, OverRows, Zenon
    <3>2. {E(v, edit[r].call.exclusion)} \intersect LockedBy(o) = {}
      BY <1>1, UnlockedRows, Zenon
    <3>3. RowsOf(edit[r].writes) \intersect EntryRows \intersect LockedBy(o) = {}
      BY <1>0, <1>1, OwnLocks, ZenonT(60)
    <3> QED
      BY <2>4, <3>1, <3>2, <3>3, ZenonT(60)
  <2>7. e.phase \notin {"idle", "done"} /\ e.phase \in {"flushed", "audited"}
    BY <2>3
  <2>8. /\ DOMAIN e = DOMAIN Waiting /\ ProvesOnly(e.call, e.own) /\ ProvesOnly(e.call, e.writes)
        /\ \A k \in EntryRows : Verifies(e.writes, k) => table[k].id = e.seen.id
        /\ \A o \in 1..Edits \ {r} : RowsOf(e.writes) \intersect EntryRows \intersect LockedBy(o) = {}
    BY <1>0, <2>3, <2>5, <2>6, ZenonT(60)
  <2> QED
    BY <1>1, <2>7, <2>8, EditGoesOn, ZenonT(60)
<1>3. CASE own(v) = None /\ e # Ended
  <2>1. e = [edit[r] EXCEPT !.todo = rest(v)]
    BY <1>1, <1>3, ZenonT(60)
  <2>2. /\ DOMAIN e = DOMAIN edit[r] /\ e.phase = edit[r].phase /\ e.writes = edit[r].writes
        /\ e.call = edit[r].call /\ e.own = edit[r].own /\ e.seen = edit[r].seen
    BY <1>d, <2>1
  <2>3. \A o \in 1..Edits \ {r} : RowsOf(e.writes) \intersect EntryRows \intersect LockedBy(o) = {}
    BY <1>1, <2>2, OwnLocks, ZenonT(60)
  <2>4. /\ DOMAIN e = DOMAIN Waiting /\ ProvesOnly(e.call, e.own) /\ ProvesOnly(e.call, e.writes)
        /\ e.phase \notin {"flushed", "audited"} => e.writes = <<>>
        /\ \A k \in EntryRows : Verifies(e.writes, k) => table[k].id = e.seen.id
    BY <1>0, <2>2, ZenonT(60)
  <2> QED
    BY <1>1, <2>3, <2>4, EditGoesOn, ZenonT(60)
<1>4. CASE e = Ended
  BY <1>1, <1>4, EditEnds, ZenonT(60)
<1> QED
  BY <1>2, <1>3, <1>4, ZenonT(60)

\* A transaction under way has the columns the steps refer to.
LEMMA EditFields ==
  ASSUME ProvenInv, NEW r \in 1..Edits, edit[r].phase \in {"read", "flushed", "audited"}
  PROVE  /\ DOMAIN edit[r] = DOMAIN Waiting /\ {"phase", "call", "own", "writes", "seen", "todo"} \subseteq DOMAIN edit[r]
         /\ ProvesOnly(edit[r].call, edit[r].own) /\ ProvesOnly(edit[r].call, edit[r].writes)
         /\ \A k \in EntryRows : Verifies(edit[r].writes, k) => table[k].id = edit[r].seen.id
<1>1. EditInv(r)
  BY Zenon DEF ProvenInv
<1>2. edit[r].phase \notin {"idle", "done"}
  OBVIOUS
<1>3. {"phase", "call", "own", "writes", "seen", "todo"} \subseteq DOMAIN Waiting
  BY DEF Waiting
<1> QED
  BY <1>1, <1>2, <1>3, ZenonT(60) DEF EditInv

\* A transaction under way adds to its writes.
Adding(r, e, f, g) ==
    /\ edit[r].phase \in {"read", "flushed", "audited"} /\ e.phase \in {"flushed", "audited", "done"}
    /\ DOMAIN e = DOMAIN edit[r] /\ e.call = edit[r].call /\ e.own = edit[r].own /\ e.seen = edit[r].seen
    /\ e.writes \in {f ++ g, g}
    /\ ProvesOnly(edit[r].call, f) /\ \A k \in EntryRows : ~Verifies(f, k)
    /\ \A o \in 1..Edits \ {r} : RowsOf(f) \intersect EntryRows \intersect LockedBy(o) = {}
    /\ ProvesOnly(edit[r].call, g) /\ \A k \in EntryRows : Verifies(g, k) => table[k].id = edit[r].seen.id
    /\ \A o \in 1..Edits \ {r} : RowsOf(g) \intersect EntryRows \intersect LockedBy(o) = {}

LEMMA WritesStep ==
  ASSUME ProvenInv, NEW r \in 1..Edits, NEW e, NEW f, NEW g, Adding(r, e, f, g),
         edit' = [edit EXCEPT ![r] = e], UNCHANGED <<programme, table, relation, proven, overlap>>
  PROVE  ProvenInv'
<1> USE DEF Adding
<1>1. DOMAIN e = DOMAIN Waiting /\ ProvesOnly(e.call, e.own)
  BY EditFields, Zenon
<1>2. /\ ProvesOnly(e.call, f ++ g)
      /\ \A k \in EntryRows : Verifies(f ++ g, k) => Verifies(g, k)
  BY OverProves, Zenon
<1>3. /\ ProvesOnly(e.call, e.writes)
      /\ \A k \in EntryRows : Verifies(e.writes, k) => table[k].id = e.seen.id
  BY <1>2, Zenon
<1>4. ASSUME NEW o \in 1..Edits \ {r} PROVE RowsOf(e.writes) \intersect EntryRows \intersect LockedBy(o) = {}
  <2>1. RowsOf(f ++ g) = RowsOf(f) \union RowsOf(g)
    BY OverRows, ZenonT(60)
  <2>2. RowsOf(f) \intersect EntryRows \intersect LockedBy(o) = {} /\ RowsOf(g) \intersect EntryRows \intersect LockedBy(o) = {}
    BY SMTT(60)
  <2> QED
    BY <2>1, <2>2, Zenon
<1>5. e.phase \notin {"idle", "done"} => e.phase \in {"flushed", "audited"}
  OBVIOUS
<1> QED
  BY <1>1, <1>3, <1>4, <1>5, EditGoesOn, ZenonT(60)

LEMMA FlushStep == ASSUME ProvenInv, NEW r \in 1..Edits, Flush(r) PROVE ProvenInv'
<1> DEFINE assets == Difference(table, rescope_assets(edit[r].loaded, table))
           own == edit[r].own
<1>1. PICK w : /\ w \in {assets ++ own, own}
               /\ edit' = [edit EXCEPT ![r] = [edit[r] EXCEPT !.phase = "flushed", !.writes = w]]
               /\ edit[r].phase = "read" /\ ~Gone(r) /\ Unlocked(RowsOf(own), r) /\ UNCHANGED <<programme, table, relation, proven, overlap>>
  BY Zenon DEF Flush
<1>2. NoEntryIn(assets)
  BY RescopesAssets, DifferenceRows, ZenonT(60)
<1>3. PICK e : e = [edit[r] EXCEPT !.phase = "flushed", !.writes = w]
  OBVIOUS
<1>p. edit[r].phase \in {"read", "flushed", "audited"}
  BY <1>1
<1>4. /\ DOMAIN e = DOMAIN edit[r] /\ e.phase = "flushed" /\ e.writes = w
      /\ e.call = edit[r].call /\ e.own = edit[r].own /\ e.seen = edit[r].seen
  <2>1. {"phase", "call", "own", "writes", "seen", "todo"} \subseteq DOMAIN edit[r]
    BY <1>p, EditFields, ZenonT(60)
  <2> QED
    BY <1>3, <2>1
<1> HIDE DEF assets
<1>5. ProvesOnly(edit[r].call, own)
  BY <1>p, EditFields, Zenon
<1>6. \A k \in EntryRows : Verifies(own, k) => table[k].id = edit[r].seen.id
  <2>1. Proving(edit[r].call) => edit[r].call.kind \in OnEntry
    BY Zenon DEF Proving, OnEntry
  <2>2. edit[r].call.kind \in OnEntry => table[edit[r].call.row].id = edit[r].seen.id
    BY <1>1, Zenon DEF Gone
  <2> QED
    BY <1>5, <2>1, <2>2, ZenonT(60) DEF ProvesOnly
<1>7. ProvesOnly(edit[r].call, assets) /\ (\A k \in EntryRows : ~Verifies(assets, k))
  BY <1>2, NoEntryProves, ZenonT(60)
<1>8. \A o \in 1..Edits \ {r} : RowsOf(assets) \intersect EntryRows \intersect LockedBy(o) = {}
  BY <1>2, Zenon DEF NoEntryIn
<1>9. \A o \in 1..Edits \ {r} : RowsOf(own) \intersect EntryRows \intersect LockedBy(o) = {}
  <2>1. \A o \in 1..Edits \ {r} : RowsOf(own) \intersect LockedBy(o) = {}
    BY <1>1, UnlockedRows, ZenonT(60)
  <2> QED
    BY <2>1, Zenon
<1>10. e.phase \in {"flushed", "audited", "done"} /\ e.writes \in {assets ++ own, own} /\ edit' = [edit EXCEPT ![r] = e]
  BY <1>1, <1>3, <1>4, ZenonT(60)
<1>a. Adding(r, e, assets, own)
  BY <1>p, <1>4, <1>5, <1>6, <1>7, <1>8, <1>9, <1>10, ZenonT(60) DEF Adding
<1> QED
  BY <1>1, <1>a, <1>10, WritesStep, ZenonT(60)

LEMMA AuditStep == ASSUME ProvenInv, NEW r \in 1..Edits, Audit(r) PROVE ProvenInv'
<1> DEFINE assets == sync_scope_assets(Mine(r))
<1>1. PICK w : /\ w \in {assets ++ edit[r].writes, edit[r].writes}
               /\ edit' = [edit EXCEPT ![r] = [edit[r] EXCEPT !.phase = "audited", !.writes = w]]
               /\ edit[r].phase = "flushed" /\ UNCHANGED <<programme, table, relation, proven, overlap>>
  BY Zenon DEF Audit
<1>2. NoEntryIn(assets)
  BY SyncWrites, Zenon
<1>3. PICK e : e = [edit[r] EXCEPT !.phase = "audited", !.writes = w]
  OBVIOUS
<1>p. edit[r].phase \in {"read", "flushed", "audited"}
  BY <1>1
<1>4. /\ DOMAIN e = DOMAIN edit[r] /\ e.phase = "audited" /\ e.writes = w
      /\ e.call = edit[r].call /\ e.own = edit[r].own /\ e.seen = edit[r].seen
  <2>1. {"phase", "call", "own", "writes", "seen", "todo"} \subseteq DOMAIN edit[r]
    BY <1>p, EditFields, Zenon
  <2> QED
    BY <1>3, <2>1, SMTT(60)
<1> HIDE DEF assets
<1>5. ProvesOnly(edit[r].call, assets) /\ (\A k \in EntryRows : ~Verifies(assets, k))
  BY <1>2, NoEntryProves, Zenon
<1>6. \A o \in 1..Edits \ {r} : RowsOf(assets) \intersect EntryRows \intersect LockedBy(o) = {}
  BY <1>2, Zenon DEF NoEntryIn
<1>7. /\ ProvesOnly(edit[r].call, edit[r].writes)
      /\ \A k \in EntryRows : Verifies(edit[r].writes, k) => table[k].id = edit[r].seen.id
      /\ \A o \in 1..Edits \ {r} : RowsOf(edit[r].writes) \intersect EntryRows \intersect LockedBy(o) = {}
  BY <1>p, EditFields, OwnLocks, ZenonT(60)
<1>8. e.phase \in {"flushed", "audited", "done"} /\ e.writes \in {assets ++ edit[r].writes, edit[r].writes} /\ edit' = [edit EXCEPT ![r] = e]
  BY <1>1, <1>3, <1>4, ZenonT(60)
<1>a. Adding(r, e, assets, edit[r].writes)
  BY <1>p, <1>4, <1>5, <1>6, <1>7, <1>8, ZenonT(60) DEF Adding
<1> QED
  BY <1>1, <1>a, <1>8, WritesStep, ZenonT(60)

LEMMA PolicyStep == ASSUME ProvenInv, NEW r \in 1..Edits, Policy(r) PROVE ProvenInv'
<1> DEFINE own == apply_verification_policy(Mine(r))
<1>1. /\ edit' = [edit EXCEPT ![r] = [edit[r] EXCEPT !.writes = own ++ edit[r].writes, !.todo = {}]]
      /\ edit[r].phase = "audited" /\ Unlocked(RowsOf(own), r) /\ UNCHANGED <<programme, table, relation, proven, overlap>>
  BY Zenon DEF Policy
<1>2. ProvesOnly(edit[r].call, own) /\ (\A k \in EntryRows : ~Verifies(own, k))
  BY PolicyProves, ZenonT(60)
<1> HIDE DEF own
<1>3. PICK w, e : w = own ++ edit[r].writes /\ e = [edit[r] EXCEPT !.writes = w, !.todo = {}]
  BY Zenon
<1>p. edit[r].phase \in {"read", "flushed", "audited"}
  BY <1>1
<1>4. /\ DOMAIN e = DOMAIN edit[r] /\ e.phase = "audited" /\ e.writes = w
      /\ e.call = edit[r].call /\ e.own = edit[r].own /\ e.seen = edit[r].seen
  <2>1. {"phase", "call", "own", "writes", "seen", "todo"} \subseteq DOMAIN edit[r]
    BY <1>p, EditFields, Zenon
  <2>2. edit[r].phase = "audited"
    BY <1>1
  <2> QED
    BY <1>3, <2>1, <2>2, SMTT(60)
<1>5. \A o \in 1..Edits \ {r} : RowsOf(own) \intersect EntryRows \intersect LockedBy(o) = {}
  <2>1. \A o \in 1..Edits \ {r} : RowsOf(own) \intersect LockedBy(o) = {}
    BY <1>1, UnlockedRows, ZenonT(60)
  <2> QED
    BY <2>1, Zenon
<1>6. /\ ProvesOnly(edit[r].call, edit[r].writes)
      /\ \A k \in EntryRows : Verifies(edit[r].writes, k) => table[k].id = edit[r].seen.id
      /\ \A o \in 1..Edits \ {r} : RowsOf(edit[r].writes) \intersect EntryRows \intersect LockedBy(o) = {}
  BY <1>p, EditFields, OwnLocks, Zenon
<1>7. e.phase \in {"flushed", "audited", "done"} /\ e.writes \in {own ++ edit[r].writes, edit[r].writes} /\ edit' = [edit EXCEPT ![r] = e]
  BY <1>1, <1>3, <1>4, ZenonT(60)
<1>a. Adding(r, e, own, edit[r].writes)
  BY <1>p, <1>2, <1>4, <1>5, <1>6, <1>7, ZenonT(60) DEF Adding
<1> QED
  BY <1>1, <1>a, <1>7, WritesStep, ZenonT(60)

LEMMA IngestStep == ASSUME ProvenInv, NEW r \in 1..Edits, Ingest(r) PROVE ProvenInv'
<1> DEFINE v == edit[r].call.name
           u == edit[r].call.address
           statuses == IngestedStatuses(edit[r].loaded, v, u)
           s == statuses.name
           t == statuses.address
           noise == Noise(statuses)
           phase == IF noise THEN "done" ELSE "audited"
<1>1. /\ phase \in {"done", "audited"}
      /\ edit' = [edit EXCEPT ![r] = [edit[r] EXCEPT !.phase = phase, !.writes = ApplyAsset(v, s, noise) ++ ApplyAsset(u, t, noise)]]
      /\ edit[r].phase = "read" /\ UNCHANGED <<programme, table, relation, proven, overlap>>
  BY Zenon DEF Ingest
<1> HIDE DEF v, u, statuses, s, t, noise, phase
<1>2. PICK f, g : f = ApplyAsset(v, s, noise) /\ g = ApplyAsset(u, t, noise) /\ NoEntryIn(f) /\ NoEntryIn(g)
  BY ApplyAssetRows, ZenonT(60)
<1>3. PICK w, e : w = f ++ g /\ e = [edit[r] EXCEPT !.phase = phase, !.writes = w]
  BY Zenon
<1>p. edit[r].phase \in {"read", "flushed", "audited"}
  BY <1>1
<1>4. /\ DOMAIN e = DOMAIN edit[r] /\ e.phase = phase /\ e.writes = w
      /\ e.call = edit[r].call /\ e.own = edit[r].own /\ e.seen = edit[r].seen
  <2>1. {"phase", "call", "own", "writes", "seen", "todo"} \subseteq DOMAIN edit[r]
    BY <1>p, EditFields, Zenon
  <2> QED
    BY <1>1, <1>3, <2>1, SMTT(60)
<1>5. /\ ProvesOnly(edit[r].call, f) /\ ProvesOnly(edit[r].call, g)
      /\ \A k \in EntryRows : ~Verifies(f, k) /\ ~Verifies(g, k)
  BY <1>2, NoEntryProves, ZenonT(60)
<1>6. \A o \in 1..Edits \ {r} : /\ RowsOf(f) \intersect EntryRows \intersect LockedBy(o) = {}
                               /\ RowsOf(g) \intersect EntryRows \intersect LockedBy(o) = {}
  BY <1>2, Zenon DEF NoEntryIn
<1>7. e.phase \in {"flushed", "audited", "done"} /\ e.writes \in {f ++ g, g} /\ edit' = [edit EXCEPT ![r] = e]
  BY <1>1, <1>2, <1>3, <1>4, ZenonT(60)
<1>a. Adding(r, e, f, g)
  BY <1>p, <1>4, <1>5, <1>6, <1>7, ZenonT(60) DEF Adding
<1> QED
  BY <1>1, <1>a, <1>7, WritesStep, ZenonT(60)

\* What a row holds once writes to it are applied.
LEMMA AppliedRow ==
  ASSUME NEW tbl, NEW writes, NEW k \in DOMAIN tbl
  PROVE  /\ k \in DOMAIN Applied(tbl, writes) /\ DOMAIN Applied(tbl, writes)[k] = DOMAIN tbl[k]
         /\ k \notin RowsOf(writes) => Applied(tbl, writes)[k] = tbl[k]
         /\ \A c \in DOMAIN tbl[k] :
              /\ <<k, c>> \in DOMAIN writes => Applied(tbl, writes)[k][c] = writes[<<k, c>>]
              /\ <<k, c>> \notin DOMAIN writes => Applied(tbl, writes)[k][c] = tbl[k][c]
<1>1. CASE k \notin RowsOf(writes)
  <2>1. k \in DOMAIN Applied(tbl, writes) /\ Applied(tbl, writes)[k] = tbl[k]
    BY <1>1, Zenon DEF Applied, ++
  <2>2. \A c : <<k, c>> \notin DOMAIN writes
    BY <1>1, WrittenRow, ZenonT(60)
  <2> QED
    BY <2>1, <2>2, ZenonT(60)
<1>2. CASE k \in RowsOf(writes)
  <2>1. /\ k \in DOMAIN Applied(tbl, writes)
        /\ Applied(tbl, writes)[k] = [c \in DOMAIN tbl[k] |-> IF <<k, c>> \in DOMAIN writes THEN writes[<<k, c>>] ELSE tbl[k][c]]
    BY <1>2, Zenon DEF Applied, ++
  <2> QED
    BY <1>2, <2>1, ZenonT(60)
<1> QED
  BY <1>1, <1>2, ZenonT(60)

LEMMA CommitStep == ASSUME ProvenInv, NEW r \in 1..Edits, CommitEdit(r) PROVE ProvenInv'
<1> DEFINE w == edit[r].writes
<1>1. /\ edit[r].phase \in {"flushed", "audited"} /\ table' = Applied(table, w) /\ edit' = [edit EXCEPT ![r] = Ended]
      /\ proven' = (IF Proving(edit[r].call) THEN proven \union {<<edit[r].call.row, edit[r].seen.id>>} ELSE proven)
      /\ UNCHANGED programme
  BY ZenonT(60) DEF CommitEdit, Proving
<1>2. edit'[r] = Ended /\ (\A o \in 1..Edits \ {r} : edit'[o] = edit[o]) /\ DOMAIN edit' = 1..Edits
  BY <1>1 DEF ProvenInv
<1>3. ProvesOnly(edit[r].call, w) /\ \A k \in EntryRows : Verifies(w, k) => table[k].id = edit[r].seen.id
  <2>1. edit[r].phase \in {"read", "flushed", "audited"}
    BY <1>1
  <2> QED
    BY <2>1, EditFields, ZenonT(60)
<1>4. ASSUME NEW k \in EntryRows
      PROVE  /\ k \in DOMAIN table' /\ {"id", "verification"} \subseteq DOMAIN table'[k]
             /\ k \notin RowsOf(w) => table'[k] = table[k]
             /\ table'[k].verification = "verified" => <<k, table'[k].id>> \in proven'
  <2>1. k \in DOMAIN table /\ "id" \in DOMAIN table[k] /\ "verification" \in DOMAIN table[k]
    BY <1>4, Zenon DEF ProvenInv
  <2>2. /\ k \in DOMAIN table' /\ DOMAIN table'[k] = DOMAIN table[k]
        /\ k \notin RowsOf(w) => table'[k] = table[k]
        /\ <<k, "verification">> \in DOMAIN w => table'[k]["verification"] = w[<<k, "verification">>]
        /\ <<k, "verification">> \notin DOMAIN w => table'[k]["verification"] = table[k]["verification"]
        /\ <<k, "id">> \notin DOMAIN w => table'[k]["id"] = table[k]["id"]
    <3> HIDE DEF w
    <3>1. LET t == Applied(table, w) IN
          /\ k \in DOMAIN t /\ DOMAIN t[k] = DOMAIN table[k]
          /\ k \notin RowsOf(w) => t[k] = table[k]
          /\ \A c \in DOMAIN table[k] : /\ <<k, c>> \in DOMAIN w => t[k][c] = w[<<k, c>>]
                                        /\ <<k, c>> \notin DOMAIN w => t[k][c] = table[k][c]
      BY <2>1, AppliedRow
    <3> QED
      BY <1>1, <2>1, <3>1, ZenonT(60)
  <2>3. ASSUME table'[k].verification = "verified" PROVE <<k, table'[k].id>> \in proven'
    <3>1. CASE <<k, "verification">> \in DOMAIN w
      <4>1. Verifies(w, k)
        BY <2>2, <2>3, <3>1, ZenonT(60) DEF Verifies
      <4>2. Proving(edit[r].call) /\ k = edit[r].call.row /\ table[k].id = edit[r].seen.id /\ <<k, "id">> \notin DOMAIN w
        BY <1>3, <4>1, ZenonT(60) DEF ProvesOnly, Replaces
      <4>3. table'[k].id = edit[r].seen.id
        BY <2>2, <4>2, ZenonT(60)
      <4> QED
        BY <1>1, <4>2, <4>3, ZenonT(60)
    <3>2. CASE <<k, "verification">> \notin DOMAIN w
      <4>1. <<k, "id">> \notin DOMAIN w
        BY <1>3, <3>2, ZenonT(60) DEF ProvesOnly, Replaces
      <4>2. table'[k].id = table[k].id /\ table[k].verification = "verified"
        BY <2>2, <2>3, <3>2, <4>1, ZenonT(60)
      <4>3. <<k, table[k].id>> \in proven
        BY <4>2, Zenon DEF ProvenInv
      <4> QED
        BY <1>1, <4>2, <4>3, ZenonT(60)
    <3> QED
      BY <3>1, <3>2, ZenonT(60)
  <2> QED
    BY <2>1, <2>2, <2>3, ZenonT(60)
<1>5. EditInv(r)' /\ LockedBy(r)' = {}
  <2>1. DOMAIN Ended = DOMAIN Waiting /\ Ended.phase = "done"
    BY DEF Ended, Waiting
  <2> QED
    BY <1>2, <2>1, ZenonT(60) DEF EditInv, LockedBy
<1>6. \A o \in 1..Edits \ {r} : LockedBy(o)' = LockedBy(o)
  BY <1>2, Zenon DEF LockedBy
<1>7. ASSUME NEW o \in 1..Edits \ {r} PROVE EditInv(o)'
  <2>1. EditInv(o) /\ edit'[o] = edit[o]
    BY <1>2, ZenonT(60) DEF ProvenInv
  <2>2. ASSUME NEW k \in EntryRows, edit[o].phase \notin {"idle", "done"}, Verifies(edit[o].writes, k)
        PROVE  table'[k].id = edit[o].seen.id
    <3>1. table[k].id = edit[o].seen.id
      BY <2>1, <2>2, ZenonT(60) DEF EditInv
    <3>2. k \in RowsOf(edit[o].writes)
      BY <2>2, WrittenRow, ZenonT(60) DEF Verifies
    <3>3. edit[o].phase \in {"flushed", "audited"}
      <4>1. edit[o].phase \notin {"flushed", "audited"} => edit[o].writes = <<>>
        BY <2>1, <2>2, ZenonT(60) DEF EditInv
      <4>2. <<k, "verification">> \in DOMAIN edit[o].writes
        BY <2>2, Zenon DEF Verifies
      <4> QED
        BY <4>1, <4>2, EmptyWrites, ZenonT(60)
    <3>4. k \in LockedBy(o)
      BY <2>2, <3>2, <3>3, ZenonT(60) DEF LockedBy
    <3>5. k \notin LockedBy(r)
      <4>1. LockedBy(r) \intersect LockedBy(o) = {}
        BY Zenon DEF ProvenInv
      <4> QED
        BY <3>4, <4>1, ZenonT(60)
    <3>6. k \notin RowsOf(w)
      BY <1>1, <2>2, <3>5, ZenonT(60) DEF LockedBy
    <3> QED
      BY <1>4, <2>2, <3>1, <3>6, ZenonT(60)
  <2> QED
    BY <2>1, <2>2, ZenonT(60) DEF EditInv
<1>8. ASSUME NEW x \in 1..Edits, NEW o \in 1..Edits, x # o PROVE LockedBy(x)' \intersect LockedBy(o)' = {}
  <2>1. CASE x = r \/ o = r
    <3>1. \A a : a \intersect {} = {} /\ {} \intersect a = {}
      OBVIOUS
    <3> QED
      BY <1>5, <2>1, <3>1, ZenonT(60)
  <2>2. CASE x # r /\ o # r
    <3>1. LockedBy(x) \intersect LockedBy(o) = {}
      BY <1>8, Zenon DEF ProvenInv
    <3>2. LockedBy(x)' = LockedBy(x) /\ LockedBy(o)' = LockedBy(o)
      BY <1>6, <2>2, ZenonT(60)
    <3> QED
      BY <3>1, <3>2, ZenonT(60)
  <2> QED
    BY <2>1, <2>2, ZenonT(60)
<1>9. \A o \in 1..Edits : EditInv(o)'
  BY <1>5, <1>7, ZenonT(60)
<1>10. programme' \in Programmes
  BY <1>1, Zenon DEF ProvenInv
<1> QED
  BY <1>2, <1>4, <1>8, <1>9, <1>10, ZenonT(60) DEF ProvenInv

LEMMA RollbackStep == ASSUME ProvenInv, NEW r \in 1..Edits, RollbackEdit(r) PROVE ProvenInv'
<1>1. edit' = [edit EXCEPT ![r] = Ended] /\ UNCHANGED <<programme, table, relation, proven, overlap>>
  BY Zenon DEF RollbackEdit
<1> QED
  BY <1>1, EditEnds, ZenonT(60)

LEMMA ProvenUnchanged == ASSUME ProvenInv, UNCHANGED scoping PROVE ProvenInv'
<1>1. UNCHANGED <<programme, table, edit, proven>>
  BY ZenonT(60) DEF scoping
<1> QED
  BY <1>1, ZenonT(60) DEF ProvenInv, EditInv, LockedBy

LEMMA ProvenInvariant == ScopeSpec => []ProvenInv
<1>1. ASSUME ProvenInv, [ScopeNext]_scoping PROVE ProvenInv'
  <2>1. CASE UNCHANGED scoping
    BY <1>1, <2>1, ProvenUnchanged, ZenonT(60)
  <2>2. CASE ScopeNext
    <3>1. PICK r \in 1..Edits :
            \/ \E ask \in programme : Call(r, ask)
            \/ FlushAdd(r) \/ Flush(r) \/ Audit(r) \/ Policy(r) \/ Ingest(r) \/ CommitEdit(r) \/ RollbackEdit(r)
      BY <2>2, Zenon DEF ScopeNext
    <3> QED
      BY <1>1, <3>1, CallStep, FlushAddStep, FlushStep, AuditStep, PolicyStep, IngestStep, CommitStep, RollbackStep, ZenonT(60)
  <2> QED
    BY <1>1, <2>1, <2>2, ZenonT(60)
<1> QED
  BY <1>1, ProvenInit, PTL DEF ScopeSpec

LEMMA Least == ASSUME NEW set, set \subseteq Nat, set # {} PROVE \E m \in set : \A x \in set : m <= x
<1> DEFINE R == OpToRel(<, Nat)
<1>1. IsWellFoundedOn(R, Nat)
  BY NatLessThanWellFounded, Zenon
<1>2. \A x, y \in Nat : y < x => <<y, x>> \in R
  BY DEF OpToRel
<1> HIDE DEF R
<1>3. PICK m \in set : \A y \in set : ~ (<<y, m>> \in R)
  BY <1>1, WFMin, ZenonT(60)
<1>4. ASSUME NEW y \in set PROVE m <= y
  <2>1. m \in Nat /\ y \in Nat
    OBVIOUS
  <2>2. ~(y < m)
    BY <1>2, <1>3, <2>1, ZenonT(60)
  <2> QED
    BY <2>1, <2>2
<1> QED
  BY <1>4

LEMMA Greatest == ASSUME NEW set, NEW n \in Nat, set \subseteq 0 .. n, set # {} PROVE \E m \in set : \A x \in set : x <= m
<1> DEFINE D == {n - x : x \in set}
<1>1. D \subseteq Nat /\ D # {}
  <2>1. PICK x \in set : TRUE
    BY Zenon
  <2>2. n - x \in D
    OBVIOUS
  <2>3. \A y \in set : n - y \in Nat
    OBVIOUS
  <2> QED
    BY <2>2, <2>3
<1>2. PICK d \in D : \A x \in D : d <= x
  <2> HIDE DEF D
  <2> QED
    BY <1>1, Least, ZenonT(60)
<1>3. PICK m \in set : d = n - m
  OBVIOUS
<1>4. ASSUME NEW x \in set PROVE x <= m
  <2>1. n - x \in D
    OBVIOUS
  <2>2. d <= n - x
    BY <1>2, <2>1
  <2> QED
    BY <1>3, <2>2
<1> QED
  BY <1>4

\* There is a most specific rule, whatever the rules: prefixes have at most 128 bits.
LEMMA MostSpecificRule ==
  ASSUME NEW rules, rules # {}, \A o \in rules : o.value \in Values
  PROVE  MostSpecific(rules) \in rules
<1> DEFINE sizes == {Length[o.value] : o \in rules}
<1>1. sizes \subseteq 0..128 /\ sizes # {}
  BY ScopeAssumption
<1>2. PICK m \in sizes : \A x \in sizes : x <= m
  <2> HIDE DEF sizes
  <2> QED
    BY <1>1, Greatest, ZenonT(60)
<1>3. PICK o \in rules : m = Length[o.value]
  BY ZenonT(60)
<1>4. \A x \in rules : Length[o.value] >= Length[x.value]
  BY <1>1, <1>2, <1>3, SMTT(60)
<1>5. \E y \in rules : \A x \in rules : Length[y.value] >= Length[x.value]
  BY <1>4, Zenon
<1> QED
  BY <1>5, ZenonT(60) DEF MostSpecific

\* The rule of an entry.
LEMMA RuleOfEntry ==
  ASSUME NEW k \in EntryRows, NEW rule, rule = from_entry(table, k[2], k[3])
  PROVE  /\ rule.value = k[2] /\ rule.exclusion = k[3] /\ rule.subs = table[k].subs
         /\ rule.verified <=> table[k].verification = "verified"
<1>1. k = E(k[2], k[3])
  BY EntryRow, ZenonT(60)
<1>2. PICK e, proof : e = table[k] /\ proof = (e.verification = "verified")
  OBVIOUS
<1>3. rule = [id |-> e.id, value |-> k[2], subs |-> e.subs, exclusion |-> k[3], active |-> e.active, verified |-> proof]
  BY <1>1, <1>2, ZenonT(60) DEF from_entry
<1>4. rule.value = k[2] /\ rule.exclusion = k[3] /\ rule.subs = e.subs /\ rule.verified = proof
  BY <1>3, SMTT(60)
<1> QED
  BY <1>2, <1>4, ZenonT(60)

LEMMA RulesOfEntries ==
  ASSUME NEW c, c = load_checker(table)
  PROVE  /\ c.rules = {from_entry(table, k[2], k[3]) : k \in EntriesNow}
         /\ c.require = table[TenantRow].require
<1>1. PICK rules, req, der :
        /\ rules = {from_entry(table, k[2], k[3]) : k \in EntriesNow}
        /\ req = table[TenantRow].require /\ der = table[OrganizationRow].derived
  BY Zenon
<1>2. c = [rules |-> rules, require |-> req, derived |-> der]
  BY <1>1, Zenon DEF load_checker, EntriesNow
<1> QED
  BY <1>1, <1>2

\* The proof that an active scan of v rests on.
RestsOn(k, v) == k \in EntriesNow /\ ~k[3] /\ <<k, table[k].id>> \in proven /\ Covers(k, v)

LEMMA AuthorizedRule ==
  ASSUME ProvenInv, NEW c, c = load_checker(table), NEW rule \in c.rules, authorize_rule(c, rule, TRUE), table[TenantRow].require
  PROVE  \E k \in EntriesNow : /\ rule.value = k[2] /\ rule.exclusion = k[3] /\ rule.subs = table[k].subs
                               /\ <<k, table[k].id>> \in proven
<1>1. PICK k \in EntriesNow : rule = from_entry(table, k[2], k[3])
  BY RulesOfEntries, Zenon
<1>2. k \in EntryRows
  BY Zenon DEF EntriesNow
<1>3. /\ rule.value = k[2] /\ rule.exclusion = k[3] /\ rule.subs = table[k].subs
      /\ rule.verified <=> table[k].verification = "verified"
  BY <1>1, <1>2, RuleOfEntry, ZenonT(60)
<1>4. rule.verified
  BY RulesOfEntries, Zenon DEF authorize_rule
<1> QED
  BY <1>2, <1>3, <1>4, ZenonT(60) DEF ProvenInv

\* Every rule is about a value and either includes or excludes.
LEMMA RuleValues ==
  ASSUME NEW c, c = load_checker(table)
  PROVE  \A rule \in c.rules : rule.value \in Values
<1> SUFFICES ASSUME NEW rule \in c.rules PROVE rule.value \in Values
  OBVIOUS
<1>1. PICK k \in EntriesNow : rule = from_entry(table, k[2], k[3])
  BY RulesOfEntries, Zenon
<1>2. k \in EntryRows
  BY Zenon DEF EntriesNow
<1> QED
  BY <1>1, <1>2, RuleOfEntry, EntryRow, ZenonT(60)

LEMMA NameRestsOn ==
  ASSUME ProvenInv, NEW h \in Names, CheckName(load_checker(table), h, TRUE), table[TenantRow].require
  PROVE  \E k : RestsOn(k, h)
<1>1. PICK c : c = load_checker(table)
  OBVIOUS
<1> DEFINE rules == domain_rules(c, h, FALSE)
<1>2. rules # {} /\ authorize_rule(c, MostSpecific(rules), TRUE)
  <2>1. hostname_status(c, h) = "in_scope" /\ authorize_rule(c, MostSpecific(rules), TRUE)
    BY <1>1, ZenonT(60) DEF CheckName
  <2>2. "in_scope" # "out_of_scope"
    OBVIOUS
  <2> QED
    BY <2>1, <2>2, ZenonT(60) DEF hostname_status, StatusFrom
<1>3. PICK rule \in rules : rule = MostSpecific(rules)
  <2>1. \A o \in rules : o.value \in Values
    BY <1>1, RuleValues, ZenonT(60) DEF domain_rules
  <2> HIDE DEF rules
  <2> QED
    BY <1>2, <2>1, MostSpecificRule, ZenonT(60)
<1>4. rule \in c.rules /\ rule.exclusion = FALSE /\ (h = rule.value \/ (rule.subs /\ rule.value \in Above[h]))
  BY Zenon DEF domain_rules
<1>5. PICK k \in EntriesNow : /\ rule.value = k[2] /\ rule.exclusion = k[3] /\ rule.subs = table[k].subs
                             /\ <<k, table[k].id>> \in proven
  <2>1. authorize_rule(c, rule, TRUE)
    BY <1>2, <1>3, ZenonT(60)
  <2> HIDE DEF rules
  <2> QED
    BY <1>1, <1>4, <2>1, AuthorizedRule, ZenonT(60)
<1> QED
  BY <1>4, <1>5, ZenonT(60) DEF RestsOn, Covers

LEMMA AddressesOfValues ==
  /\ \A v \in Names : AddressesOf(v) = {}
  /\ \A v \in Addrs : AddressesOf(v) = {v}
  /\ \A v \in Nets : AddressesOf(v) = Inside[v] /\ Inside[v] # {}
<1>1. \A v \in Names : v \notin Nets /\ {v} \intersect Addrs = {}
  BY ScopeAssumption
<1>2. \A v \in Addrs : v \notin Nets /\ {v} \intersect Addrs = {v}
  BY ScopeAssumption
<1>3. \A v \in Nets : Inside[v] # {}
  <2>1. \A v \in Nets : Inside[v] \in (SUBSET Addrs) \ {{}}
    BY ScopeAssumption, Zenon
  <2> QED
    BY <2>1, Zenon
<1> QED
  BY <1>1, <1>2, <1>3, ZenonT(60) DEF AddressesOf

LEMMA AddressRestsOn ==
  ASSUME ProvenInv, NEW v \in Addrs, NEW c, c = load_checker(table), ip_rules(c, v, FALSE) # {},
         authorize_rule(c, MostSpecific(ip_rules(c, v, FALSE)), TRUE), table[TenantRow].require
  PROVE  \E k : RestsOn(k, v)
<1> DEFINE rules == ip_rules(c, v, FALSE)
<1>1. PICK rule \in rules : rule = MostSpecific(rules)
  <2>1. \A o \in rules : o.value \in Values
    BY RuleValues, Zenon DEF ip_rules
  <2>2. rules # {}
    BY Zenon
  <2> HIDE DEF rules
  <2> QED
    BY <2>1, <2>2, MostSpecificRule, ZenonT(60)
<1>2. rule \in c.rules /\ rule.exclusion = FALSE /\ v \in AddressesOf(rule.value)
  BY Zenon DEF ip_rules
<1>3. PICK k \in EntriesNow : rule.value = k[2] /\ rule.exclusion = k[3] /\ <<k, table[k].id>> \in proven
  BY <1>1, <1>2, AuthorizedRule, ZenonT(60)
<1>4. v \notin Names /\ k[2] \notin Names /\ AddressesOf(v) \subseteq AddressesOf(k[2])
  BY <1>2, <1>3, AddressesOfValues, ScopeAssumption, SMTT(60)
<1> QED
  BY <1>2, <1>3, <1>4, ZenonT(60) DEF RestsOn, Covers

LEMMA NetworkRestsOn ==
  ASSUME ProvenInv, NEW v \in Nets, NEW c, c = load_checker(table), check_network(c, v, TRUE), table[TenantRow].require
  PROVE  \E k : RestsOn(k, v)
<1>1. PICK rule \in c.rules : /\ ~rule.exclusion /\ rule.value \notin Names /\ Inside[v] \subseteq AddressesOf(rule.value)
                            /\ authorize_rule(c, rule, TRUE)
  BY Zenon DEF check_network
<1>2. PICK k \in EntriesNow : rule.value = k[2] /\ rule.exclusion = k[3] /\ <<k, table[k].id>> \in proven
  BY <1>1, AuthorizedRule, ZenonT(60)
<1>3. v \notin Names /\ AddressesOf(v) = Inside[v]
  BY AddressesOfValues, ScopeAssumption
<1> QED
  BY <1>1, <1>2, <1>3, ZenonT(60) DEF RestsOn, Covers

\* Nothing that is checked is excluded.
LEMMA NothingExcluded ==
  ASSUME NEW v \in Values, NEW active \in BOOLEAN, check(load_checker(table), v, active, resolution_map),
         NEW k \in EntriesNow, k[3]
  PROVE  ~Covers(k, v) /\ AddressesOf(v) \intersect AddressesOf(k[2]) = {}
<1>1. PICK c : c = load_checker(table)
  OBVIOUS
<1>2. k \in EntryRows /\ k[3] = TRUE
  <2>1. k \in EntryRows
    BY Zenon DEF EntriesNow
  <2> QED
    BY <2>1, EntryRow, ZenonT(60)
<1>3. PICK rule \in c.rules : rule.value = k[2] /\ rule.exclusion = TRUE /\ rule.subs = table[k].subs
  <2>1. PICK rule : rule = from_entry(table, k[2], k[3])
    BY Zenon
  <2>2. rule \in c.rules
    BY <1>1, <2>1, RulesOfEntries, ZenonT(60)
  <2>3. rule.value = k[2] /\ rule.exclusion = k[3] /\ rule.subs = table[k].subs
    BY <1>2, <2>1, RuleOfEntry, ZenonT(60)
  <2> QED
    BY <1>2, <2>2, <2>3, ZenonT(60)
<1>4. CASE v \in Names
  <2>1. v \notin Nets /\ Above[v] \subseteq Names
    BY <1>4, ScopeAssumption
  <2>2. domain_rules(c, v, TRUE) = {}
    <3>1. hostname_status(c, v) = "in_scope"
      BY <1>1, <1>4, <2>1, ZenonT(60) DEF check, check_host, CheckName
    <3>2. "in_scope" # "out_of_scope"
      OBVIOUS
    <3> QED
      BY <3>1, <3>2, ZenonT(60) DEF hostname_status, StatusFrom
  <2>3. ~Covers(k, v)
    <3> SUFFICES ASSUME Covers(k, v) PROVE rule \in domain_rules(c, v, TRUE)
      BY <2>2, Zenon
    <3>1. k[2] = v \/ (table[k].subs /\ k[2] \in Above[v])
      BY <1>4, ZenonT(60) DEF Covers
    <3> QED
      BY <1>3, <1>4, <2>1, <3>1, ZenonT(60) DEF domain_rules
  <2> QED
    BY <1>4, <2>3, AddressesOfValues, SMTT(60)
<1>5. CASE v \in Addrs
  <2>1. v \notin Nets /\ v \notin Names /\ AddressesOf(v) = {v}
    BY <1>5, ScopeAssumption, AddressesOfValues, SMTT(60)
  <2>2. ip_rules(c, v, TRUE) = {}
    BY <1>1, <2>1, ZenonT(60) DEF check, check_host, is_excluded_ip
  <2>3. v \notin AddressesOf(k[2])
    BY <1>3, <2>2, ZenonT(60) DEF ip_rules
  <2> QED
    BY <2>1, <2>3, SMTT(60) DEF Covers
<1>6. CASE v \in Nets
  <2>1. AddressesOf(rule.value) \intersect Inside[v] = {}
    BY <1>1, <1>3, <1>6, ZenonT(60) DEF check, check_network
  <2>2. v \notin Names /\ AddressesOf(v) = Inside[v] /\ Inside[v] # {}
    BY <1>6, ScopeAssumption, AddressesOfValues, SMTT(60)
  <2> QED
    BY <1>3, <2>1, <2>2, SMTT(60) DEF Covers
<1> QED
  BY <1>4, <1>5, <1>6, ZenonT(60) DEF Values

LEMMA ProvenAuthorizes == ProvenInv => OnlyAuthorizedScanned
<1> SUFFICES ASSUME ProvenInv, NEW active \in BOOLEAN, NEW v \in Values, check(load_checker(table), v, active, resolution_map)
             PROVE  /\ \A k \in EntriesNow : k[3] => ~Covers(k, v) /\ AddressesOf(v) \intersect AddressesOf(k[2]) = {}
                    /\ active /\ v \notin Names => v \in Public \/ NonPublicAllowed
                    /\ active /\ table[TenantRow].require =>
                         \E k \in EntriesNow : /\ ~k[3] /\ <<k, table[k].id>> \in proven
                                               /\ Covers(k, v) \/ \E h \in Names : <<h, v>> \in relation /\ Covers(k, h)
  BY Zenon DEF OnlyAuthorizedScanned, Authorized
<1>1. \A k \in EntriesNow : k[3] => ~Covers(k, v) /\ AddressesOf(v) \intersect AddressesOf(k[2]) = {}
  BY NothingExcluded, Zenon
<1>2. active /\ v \notin Names => v \in Public \/ NonPublicAllowed
  BY Zenon DEF check, check_network, check_host, public_only
<1>3. ASSUME active, table[TenantRow].require
      PROVE  \E k \in EntriesNow : /\ ~k[3] /\ <<k, table[k].id>> \in proven
                                   /\ Covers(k, v) \/ \E h \in Names : <<h, v>> \in relation /\ Covers(k, h)
  <2>1. active = TRUE
    BY <1>3, ZenonT(60)
  <2>2. PICK c : c = load_checker(table)
    OBVIOUS
  <2>3. CASE v \in Nets
    BY <1>3, <2>1, <2>2, <2>3, NetworkRestsOn, ZenonT(60) DEF check, RestsOn
  <2>4. CASE v \in Names
    <3>1. v \notin Nets
      BY <2>4, ScopeAssumption
    <3>2. CheckName(load_checker(table), v, TRUE)
      BY <2>1, <2>4, <3>1, ZenonT(60) DEF check, check_host
    <3> QED
      BY <1>3, <2>4, <3>2, NameRestsOn, ZenonT(60) DEF RestsOn
  <2>5. CASE v \in Addrs
    <3>1. v \notin Nets /\ v \notin Names
      BY <2>5, ScopeAssumption
    <3>2. check_host(c, v, TRUE, resolution_map)
      BY <2>1, <2>2, <3>1, ZenonT(60) DEF check
    <3>3. CASE ip_rules(c, v, FALSE) # {}
      <4>1. authorize_rule(c, MostSpecific(ip_rules(c, v, FALSE)), TRUE)
        BY <3>1, <3>2, <3>3, ZenonT(60) DEF check_host
      <4> QED
        BY <1>3, <2>2, <2>5, <3>3, <4>1, AddressRestsOn, ZenonT(60) DEF RestsOn
    <3>4. CASE ip_rules(c, v, FALSE) = {}
      <4>1. PICK h \in resolution_map[v] : CheckName(c, h, TRUE)
        BY <3>1, <3>2, <3>4, ZenonT(60) DEF check_host
      <4>2. h \in Names /\ <<h, v>> \in relation
        BY <2>5, Zenon DEF resolution_map
      <4> QED
        BY <1>3, <2>2, <4>1, <4>2, NameRestsOn, ZenonT(60) DEF RestsOn
    <3> QED
      BY <3>3, <3>4, ZenonT(60)
  <2> QED
    BY <2>3, <2>4, <2>5, ZenonT(60) DEF Values
<1> QED
  BY <1>1, <1>2, <1>3, ZenonT(60)

(* OnlyAuthorizedScanned, for any names, addresses, networks, calls and     *)
(* number of transactions: what check lets through is never excluded, is    *)
(* public if the scan is active, and where verification is required rests   *)
(* on an entry proven or approved since it was added (scope/checker.py,     *)
(* scope/service.py, apply_verification_policy).                            *)
THEOREM ScansAreAuthorized == ScopeSpec => []OnlyAuthorizedScanned
BY ProvenInvariant, ProvenAuthorizes, PTL
=============================================================================
