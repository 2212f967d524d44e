---------------------------- MODULE SurfaceProofs ----------------------------
(***************************************************************************)
(* Proofs about the inventory (AttackSurface).                             *)
(*                                                                         *)
(* Ingestion is a function from the rows read to the rows written, built   *)
(* from a few steps: observe, miss, deactivate, cut relations, resolve.    *)
(* For each there is a predicate that says what it does to the rows (Sees, *)
(* Misses, Deactivates, Cuts, Closes) and a lemma that it does; together   *)
(* they give what a whole ingestion does (Ingested, Tracks).  SurfaceInv   *)
(* keeps that of the ingestion that has read and not committed, and says   *)
(* of the others that they only retire assets (Quiet), so that a commit    *)
(* over rows that were changed in between still does what it should.       *)
(* MissInv adds what the counters of misses need.                          *)
(***************************************************************************)
EXTENDS AttackSurface, TLAPS

\* A state of the three tables: what the kinds of rows may say.
Table(w) ==
    /\ w \in [Ids -> Row]
    /\ \A i \in Assets \union Relations : w[i].state \notin FindingStatus
    /\ \A f \in Findings : w[f].state \in FindingStatus \union {"absent"}

Loses(w, v, i) == w[i].state = "active" /\ v[i].state = "inactive"

\* The relations a port and an endpoint are found by.
OfPort(p) == <<AddressOf[p], p>>
OfEndpoint(e) == <<HostOf[e], e>>

\* From w to v things only disappear, none of those seen, and with their findings.
Ebbs(w, v, seen) ==
    /\ Table(v)
    /\ \A i \in Assets \union Relations : v[i].state = w[i].state \/ Loses(w, v, i)
    /\ \A i \in Assets \union Relations : v[i].missed >= w[i].missed
    /\ \A a \in Assets \intersect seen : v[a].state = w[a].state /\ v[a].missed = w[a].missed
    /\ \A f \in Findings : v[f].state = w[f].state \/ (w[f].state \in OPEN_FINDING_STATES /\ v[f].state = "remediated")
    /\ \A f \in Findings : Loses(w, v, On[f]) => v[f].state \notin OPEN_FINDING_STATES

\* Why an asset may disappear.
Reason(w, v, a, cov) ==
    \/ a \in cov /\ v[a].missed >= Threshold[a]
    \/ \E o \in Assets : <<o, a>> \in Owned /\ Loses(w, v, o)
    \/ a \in Addresses /\ \A n \in Names : v[<<n, a>>].state # "active"

Justified(w, v, cov) == \A a \in Assets : Loses(w, v, a) => Reason(w, v, a, cov)

-----------------------------------------------------------------------------
(* The steps of an ingestion on rows.                                      *)

\* The kinds of rows are apart.
LEMMA Apart ==
  /\ Owned \subseteq Relations /\ resolves_to \subseteq Relations
  /\ Relations \subseteq Ids /\ Assets \subseteq Ids /\ Findings \subseteq Ids
  /\ Names \subseteq Assets /\ Addresses \subseteq Assets /\ Ports \subseteq Assets
  /\ Services \subseteq Assets /\ Endpoints \subseteq Assets
  /\ \A f \in Findings : On[f] \in Assets /\ f \notin Assets /\ f \notin Relations
  /\ \A a \in Assets : a \notin Relations
BY AttackSurfaceAssumption DEF Owned, Relations, Ids, Assets

\* A relation of OWNED_CHILDREN leads to a port, service or endpoint, the latter by one relation only.
LEMMA OwnedPairs ==
  ASSUME NEW r \in Owned
  PROVE  /\ r = <<r[1], r[2]>> /\ r[1] \in Assets /\ r[2] \in Assets
         /\ r[2] \in Ports \union Services \union Endpoints
         /\ r[2] \in Ports => r = OfPort(r[2])
         /\ r[2] \in Endpoints => r = OfEndpoint(r[2])
<1>1. CASE r \in serves
  <2>1. PICK e \in Endpoints : r = <<HostOf[e], e>>
    BY <1>1 DEF serves
  <2> QED
    BY <2>1, AttackSurfaceAssumption DEF Assets, OfEndpoint
<1>2. CASE r \in has_port
  <2>1. PICK p \in Ports : r = <<AddressOf[p], p>>
    BY <1>2 DEF has_port
  <2> QED
    BY <2>1, AttackSurfaceAssumption DEF Assets, OfPort
<1>3. CASE r \in runs_service
  <2>1. PICK s \in Services : r = <<PortOf[s], s>>
    BY <1>3 DEF runs_service
  <2> QED
    BY <2>1, AttackSurfaceAssumption DEF Assets
<1> QED
  BY <1>1, <1>2, <1>3, Zenon DEF Owned

\* Nothing owns an address.
LEMMA OwnedAddress == \A o : \A a \in Addresses : <<o, a>> \notin Owned
<1> SUFFICES ASSUME NEW o, NEW a \in Addresses, <<o, a>> \in Owned
             PROVE  FALSE
  BY Zenon
<1>1. <<o, a>>[2] = a
  OBVIOUS
<1>2. a \in Ports \union Services \union Endpoints
  BY <1>1, OwnedPairs, Zenon
<1> QED
  BY <1>2, AttackSurfaceAssumption, Zenon

\* has_port leads from an address to its port.
LEMMA PortRelation ==
  ASSUME NEW p \in Ports
  PROVE  /\ OfPort(p) \in Owned /\ OfPort(p) \in has_port /\ OfPort(p)[1] = AddressOf[p] /\ OfPort(p)[2] = p
         /\ AddressOf[p] \in Addresses
<1>1. OfPort(p) \in has_port
  BY DEF has_port, OfPort
<1> QED
  BY <1>1, AttackSurfaceAssumption DEF OfPort, Owned

\* What _deactivate does: it takes away a set of active assets that nobody saw, each asked
\* for or reached from another, and cuts relations below them.
Cascade(w, v, A, seen, gone, cut) ==
    /\ A \subseteq gone /\ gone \subseteq Active(w, Assets) \ seen
    /\ cut \subseteq Active(w, Owned)
    /\ \A c \in gone \ A : \E o \in gone : <<o, c>> \in Owned
    /\ \A p \in Ports : OfPort(p) \in cut => AddressOf[p] \in A /\ p \in gone \union seen
    /\ v = [i \in Ids |->
               IF i \in {f \in Findings : On[f] \in gone /\ w[f].state \in OPEN_FINDING_STATES}
               THEN [w[i] EXCEPT !.state = "remediated"]
               ELSE IF i \in gone \union cut THEN [w[i] EXCEPT !.state = "inactive"] ELSE w[i]]

\* What goes with an owner is active, not seen, owned by it and no address.
LEMMA ChildrenOf ==
  ASSUME NEW w, NEW G, NEW seen
  PROVE  /\ Children(w, G, seen) \subseteq Active(w, Assets) \ seen
         /\ \A c \in Children(w, G, seen) : \E o \in G : <<o, c>> \in Owned
         /\ \A c \in Children(w, G, seen) : c \notin Addresses
<1>1. Children(w, G, seen) \subseteq Active(w, Assets) \ seen
  BY Zenon DEF Children
<1>2. ASSUME NEW c \in Children(w, G, seen)
      PROVE  \E o \in G : <<o, c>> \in Owned
  BY <1>2, Zenon DEF Children, Active
<1> QED
  BY <1>1, <1>2, OwnedAddress, Zenon

\* _deactivate takes away a set of assets closed under ownership, and cuts relations.
LEMMA DeactivateCascade ==
  ASSUME NEW w, Table(w), NEW seen, NEW A, A \subseteq Active(w, Assets) \ seen
  PROVE  \E gone, cut : Cascade(w, Deactivate(w, A, seen), A, seen, gone, cut)
<1> DEFINE one == A \union Children(w, A, seen)
           gone == one \union Children(w, one, seen)
           cut == {r \in Active(w, Owned) : r[1] \in gone /\ r[2] \in Active(w, Assets)}
           left == [i \in Ids |-> IF i \in gone \union cut THEN [w[i] EXCEPT !.state = "inactive"] ELSE w[i]]
           open == {f \in Findings : On[f] \in gone /\ left[f].state \in OPEN_FINDING_STATES}
           kept == {f \in Findings : On[f] \in gone /\ w[f].state \in OPEN_FINDING_STATES}
<1>1. Deactivate(w, A, seen) = [i \in Ids |-> IF i \in open THEN [left[i] EXCEPT !.state = "remediated"] ELSE left[i]]
  BY Zenon DEF Deactivate, resolve_for_inactive_asset
<1>2. /\ A \subseteq gone /\ gone \subseteq Active(w, Assets) \ seen
      /\ \A c \in gone \ A : \E o \in gone : <<o, c>> \in Owned
      /\ \A c \in gone \ A : c \notin Addresses
  <2>1. A \subseteq gone /\ gone \subseteq Active(w, Assets) \ seen
    BY ChildrenOf, ZenonT(60)
  <2>2. ASSUME NEW c \in gone \ A
        PROVE  c \notin Addresses /\ \E o \in gone : <<o, c>> \in Owned
    <3>1. CASE c \in Children(w, A, seen)
      <4>1. PICK o \in A : <<o, c>> \in Owned
        BY <3>1, ChildrenOf, Zenon
      <4>2. c \notin Addresses
        BY <3>1, ChildrenOf, Zenon
      <4> QED
        BY <4>1, <4>2, Zenon
    <3>2. CASE c \in Children(w, one, seen)
      <4> HIDE DEF one
      <4>1. PICK o \in one : <<o, c>> \in Owned
        BY <3>2, ChildrenOf, Zenon
      <4>2. c \notin Addresses
        BY <3>2, ChildrenOf, Zenon
      <4> USE DEF one
      <4> QED
        BY <4>1, <4>2, Zenon
    <3> QED
      BY <2>2, <3>1, <3>2, Zenon
  <2> QED
    BY <2>1, <2>2, Zenon
<1>3. cut \subseteq Active(w, Owned)
  OBVIOUS
<1>4. ASSUME NEW p \in Ports, OfPort(p) \in cut
      PROVE  AddressOf[p] \in A /\ p \in gone \union seen
  <2>1. AddressOf[p] \in gone /\ p \in Active(w, Assets) /\ OfPort(p) \in Active(w, Owned)
    BY <1>4, PortRelation, Zenon
  <2>2. AddressOf[p] \in A
    BY <2>1, <1>2, PortRelation, Zenon
  <2>3. p \notin Endpoints
    BY AttackSurfaceAssumption, Zenon
  <2>4. p \notin seen => p \in Children(w, A, seen)
    BY <2>1, <2>2, <2>3, Zenon DEF Children, OfPort
  <2> QED
    BY <2>2, <2>4, Zenon
<1>5. \A f \in Findings : f \notin gone \union cut
  BY <1>2, <1>3, Apart, Zenon DEF Active
<1>6. \A f \in Findings : f \in Ids /\ left[f] = w[f]
  BY <1>5, Apart, Zenon
<1>7. open = kept
  BY <1>6, Zenon
<1>8. Deactivate(w, A, seen) = [i \in Ids |-> IF i \in kept THEN [w[i] EXCEPT !.state = "remediated"]
                                 ELSE IF i \in gone \union cut THEN [w[i] EXCEPT !.state = "inactive"] ELSE w[i]]
  <2>1. ASSUME NEW i \in Ids
        PROVE  (IF i \in open THEN [left[i] EXCEPT !.state = "remediated"] ELSE left[i])
               = (IF i \in kept THEN [w[i] EXCEPT !.state = "remediated"]
                  ELSE IF i \in gone \union cut THEN [w[i] EXCEPT !.state = "inactive"] ELSE w[i])
    <3>1. i \in kept => left[i] = w[i]
      BY <1>6, Zenon
    <3>2. left[i] = IF i \in gone \union cut THEN [w[i] EXCEPT !.state = "inactive"] ELSE w[i]
      BY Zenon
    <3> HIDE DEF left, kept, open, gone, cut
    <3> QED
      BY <3>1, <3>2, <1>7, Zenon
  <2> HIDE DEF left, kept, open, gone, cut
  <2> QED
    BY <1>1, <2>1, Zenon
<1> HIDE DEF left, open, gone, cut
<1> WITNESS gone, cut
<1> QED
  BY <1>2, <1>3, <1>4, <1>8, Zenon DEF Cascade

\* What it makes of each row.
Taken(w, v, gone, cut) ==
    /\ \A i \in Assets \union Relations :
           /\ v[i].missed = w[i].missed
           /\ i \in gone \union cut => Loses(w, v, i)
           /\ i \notin gone \union cut => v[i].state = w[i].state
    /\ \A f \in Findings :
           /\ v[f].missed = w[f].missed
           /\ On[f] \in gone /\ w[f].state \in OPEN_FINDING_STATES => v[f].state = "remediated"
           /\ ~(On[f] \in gone /\ w[f].state \in OPEN_FINDING_STATES) => v[f].state = w[f].state
    /\ Table(v)

\* What such a cascade does to the rows.
LEMMA CascadeRows ==
  ASSUME NEW w, Table(w), NEW seen, NEW A, NEW gone, NEW cut, NEW v, Cascade(w, v, A, seen, gone, cut)
  PROVE  Taken(w, v, gone, cut)
<1> DEFINE open == {f \in Findings : On[f] \in gone /\ w[f].state \in OPEN_FINDING_STATES}
<1>1. v = [i \in Ids |-> IF i \in open THEN [w[i] EXCEPT !.state = "remediated"]
                          ELSE IF i \in gone \union cut THEN [w[i] EXCEPT !.state = "inactive"] ELSE w[i]]
  BY Zenon DEF Cascade
<1>2. \A i \in gone \union cut : i \in Assets \union Relations /\ w[i].state = "active"
  BY Apart, Zenon DEF Cascade, Active
<1>3. w \in [Ids -> Row]
  BY Zenon DEF Table
<1>4. ASSUME NEW i \in Ids
      PROVE  /\ [w[i] EXCEPT !.state = "remediated"] \in Row /\ [w[i] EXCEPT !.state = "inactive"] \in Row /\ w[i] \in Row
             /\ [w[i] EXCEPT !.state = "remediated"].state = "remediated" /\ [w[i] EXCEPT !.state = "inactive"].state = "inactive"
             /\ [w[i] EXCEPT !.state = "remediated"].missed = w[i].missed /\ [w[i] EXCEPT !.state = "inactive"].missed = w[i].missed
  BY <1>3 DEF Row, FindingStatus
<1>5. v \in [Ids -> Row]
  BY <1>1, <1>4, Zenon
<1>6. ASSUME NEW i \in Assets \union Relations
      PROVE  /\ v[i].missed = w[i].missed
             /\ i \in gone \union cut => Loses(w, v, i)
             /\ i \notin gone \union cut => v[i].state = w[i].state
  <2>1. i \in Ids /\ i \notin open
    BY Apart, Zenon
  <2>2. v[i] = IF i \in gone \union cut THEN [w[i] EXCEPT !.state = "inactive"] ELSE w[i]
    BY <1>1, <2>1, Zenon
  <2> QED
    BY <2>1, <2>2, <1>2, <1>4, Zenon DEF Loses
<1>7. ASSUME NEW f \in Findings
      PROVE  /\ v[f].missed = w[f].missed
             /\ f \in open => v[f].state = "remediated"
             /\ f \notin open => v[f].state = w[f].state
  <2>1. f \in Ids /\ f \notin gone \union cut
    BY <1>2, Apart, Zenon
  <2>2. v[f] = IF f \in open THEN [w[f] EXCEPT !.state = "remediated"] ELSE w[f]
    BY <1>1, <2>1, Zenon
  <2> QED
    BY <2>1, <2>2, <1>4, Zenon
<1>8. \A i \in Assets \union Relations : v[i].state \notin FindingStatus
  <2>1. "inactive" \notin FindingStatus
    BY DEF FindingStatus, OPEN_FINDING_STATES
  <2> QED
    BY <1>6, <2>1, Zenon DEF Table, Loses
<1>9. \A f \in Findings : v[f].state \in FindingStatus \union {"absent"}
  BY <1>7, Zenon DEF Table, FindingStatus
<1> QED
  BY <1>5, <1>6, <1>7, <1>8, <1>9, Zenon DEF Table, Taken

\* A table only has natural counters.
LEMMA Counters == \A w : Table(w) => \A i \in Ids : w[i].missed \in Nat /\ w[i] \in Row
BY DEF Table, Row

\* _deactivate: only things that nobody saw disappear, each asked for or with its owner; the
\* relation of a port goes only with the port.
Deactivates(w, v, A, seen) ==
    /\ Ebbs(w, v, seen)
    /\ \A i \in Assets \union Relations : v[i].missed = w[i].missed
    /\ \A a \in A : v[a].state = "inactive"
    /\ \A a \in Assets : Loses(w, v, a) => a \in A \/ \E o \in Assets : <<o, a>> \in Owned /\ Loses(w, v, o)
    /\ (\A p \in Ports \intersect seen : AddressOf[p] \in seen)
         => \A p \in Ports : Loses(w, v, OfPort(p)) => v[p].state = "inactive"

\* _deactivate: what it takes was asked for or goes with its owner.
LEMMA DeactivateStep ==
  ASSUME NEW w, Table(w), NEW seen, NEW A, A \subseteq Active(w, Assets) \ seen,
         NEW v, v = Deactivate(w, A, seen)
  PROVE  Deactivates(w, v, A, seen)
<1>1. PICK gone, cut : Cascade(w, v, A, seen, gone, cut)
  BY DeactivateCascade, Zenon
<1>0. Taken(w, v, gone, cut)
  BY <1>1, CascadeRows, Zenon
<1>2. /\ \A i \in Assets \union Relations :
             /\ v[i].missed = w[i].missed
             /\ i \in gone \union cut => Loses(w, v, i)
             /\ i \notin gone \union cut => v[i].state = w[i].state
      /\ \A f \in Findings :
             /\ v[f].missed = w[f].missed
             /\ On[f] \in gone /\ w[f].state \in OPEN_FINDING_STATES => v[f].state = "remediated"
             /\ ~(On[f] \in gone /\ w[f].state \in OPEN_FINDING_STATES) => v[f].state = w[f].state
      /\ Table(v)
  BY <1>0, Zenon DEF Taken
<1>3. \A i \in Assets \union Relations : Loses(w, v, i) => i \in gone \union cut
  <2>1. "active" # "inactive"
    OBVIOUS
  <2> QED
    BY <1>2, <2>1, Zenon DEF Loses
<1>4. gone \subseteq Assets \ seen /\ A \subseteq gone /\ cut \subseteq Owned /\ cut \intersect Assets = {} /\ gone \intersect Relations = {}
  BY <1>1, Apart, Zenon DEF Cascade, Active
<1>5. \A i \in Assets \union Relations : v[i].missed >= w[i].missed
  <2>1. \A i \in Assets \union Relations : w[i].missed \in Nat
    BY Counters, Apart, Zenon
  <2>2. \A i \in Assets \union Relations : v[i].missed = w[i].missed
    BY <1>2, Zenon
  <2> QED
    BY <2>1, <2>2
<1>6. ASSUME NEW f \in Findings, Loses(w, v, On[f])
      PROVE  v[f].state \notin OPEN_FINDING_STATES
  <2>1. On[f] \in gone
    BY <1>6, <1>3, <1>4, Apart, Zenon
  <2>2. "remediated" \notin OPEN_FINDING_STATES
    BY DEF OPEN_FINDING_STATES
  <2> QED
    BY <1>2, <2>1, <2>2, Zenon
<1>7. Ebbs(w, v, seen)
  <2>1. \A i \in Assets \union Relations : v[i].state = w[i].state \/ Loses(w, v, i)
    BY <1>2, Zenon
  <2>2. \A a \in Assets \intersect seen : v[a].state = w[a].state /\ v[a].missed = w[a].missed
    BY <1>2, <1>4, Zenon
  <2>3. \A f \in Findings : v[f].state = w[f].state \/ (w[f].state \in OPEN_FINDING_STATES /\ v[f].state = "remediated")
    BY <1>2, Zenon
  <2> QED
    BY <1>2, <1>5, <1>6, <2>1, <2>2, <2>3, Zenon DEF Ebbs
<1>8. \A a \in A : v[a].state = "inactive"
  BY <1>2, <1>4, Zenon DEF Loses
<1>9. ASSUME NEW a \in Assets, Loses(w, v, a), a \notin A
      PROVE  \E o \in Assets : <<o, a>> \in Owned /\ Loses(w, v, o)
  <2>1. a \in gone
    BY <1>9, <1>3, <1>4, Zenon
  <2>2. PICK o \in gone : <<o, a>> \in Owned
    BY <2>1, <1>9, <1>1, Zenon DEF Cascade
  <2> QED
    BY <2>2, <1>2, <1>4, Zenon
<1>11. ASSUME \A p \in Ports \intersect seen : AddressOf[p] \in seen, NEW p \in Ports, Loses(w, v, OfPort(p))
       PROVE  v[p].state = "inactive"
  <2>1. OfPort(p) \in cut
    BY <1>11, <1>3, <1>4, PortRelation, Apart, Zenon
  <2>2. AddressOf[p] \in A /\ p \in gone \union seen
    BY <2>1, <1>1, Zenon DEF Cascade
  <2>3. p \in gone
    BY <2>2, <1>4, <1>11, Zenon
  <2> QED
    BY <2>3, <1>2, Apart, Zenon DEF Loses
<1>12. \A a \in Assets : Loses(w, v, a) => a \in A \/ \E o \in Assets : <<o, a>> \in Owned /\ Loses(w, v, o)
  BY <1>9, Zenon
<1>13. \A i \in Assets \union Relations : v[i].missed = w[i].missed
  BY <1>2, Zenon
<1>14. (\A p \in Ports \intersect seen : AddressOf[p] \in seen)
         => \A p \in Ports : Loses(w, v, OfPort(p)) => v[p].state = "inactive"
  BY <1>11, Zenon
<1> QED
  BY <1>7, <1>8, <1>12, <1>13, <1>14, Zenon DEF Deactivates

\* Disappearing twice.
LEMMA EbbsTrans ==
  ASSUME NEW w, NEW v, NEW u, NEW seen, Table(w), Ebbs(w, v, seen), Ebbs(v, u, seen)
  PROVE  Ebbs(w, u, seen)
<1>1. Table(v) /\ Table(u)
  BY Zenon DEF Ebbs
<1>2. \A i \in Assets \union Relations : u[i].state = w[i].state \/ Loses(w, u, i)
  BY ZenonT(60) DEF Ebbs, Loses
<1>3. ASSUME NEW i \in Assets \union Relations
      PROVE  u[i].missed >= w[i].missed
  <2>1. w[i].missed \in Nat /\ v[i].missed \in Nat /\ u[i].missed \in Nat
    BY <1>1, Counters, Apart, Zenon
  <2>2. v[i].missed >= w[i].missed /\ u[i].missed >= v[i].missed
    BY Zenon DEF Ebbs
  <2> QED
    BY <2>1, <2>2
<1>4. \A a \in Assets \intersect seen : u[a].state = w[a].state /\ u[a].missed = w[a].missed
  BY Zenon DEF Ebbs
<1>5. "remediated" \notin OPEN_FINDING_STATES /\ "active" # "inactive"
  BY DEF OPEN_FINDING_STATES
<1>6. \A f \in Findings : u[f].state = w[f].state \/ (w[f].state \in OPEN_FINDING_STATES /\ u[f].state = "remediated")
  BY <1>5, Zenon DEF Ebbs
<1>7. ASSUME NEW f \in Findings, Loses(w, u, On[f])
      PROVE  u[f].state \notin OPEN_FINDING_STATES
  <2>1. Loses(w, v, On[f]) \/ Loses(v, u, On[f])
    BY <1>7, Apart, Zenon DEF Ebbs, Loses
  <2>2. CASE Loses(w, v, On[f])
    <3>1. v[f].state \notin OPEN_FINDING_STATES
      BY <2>2, Zenon DEF Ebbs
    <3>2. u[f].state = v[f].state \/ u[f].state = "remediated"
      BY Zenon DEF Ebbs
    <3> QED
      BY <3>1, <3>2, <1>5, Zenon
  <2>3. CASE Loses(v, u, On[f])
    BY <2>3, Zenon DEF Ebbs
  <2> QED
    BY <2>1, <2>2, <2>3, Zenon
<1> QED
  BY <1>1, <1>2, <1>3, <1>4, <1>6, <1>7, Zenon DEF Ebbs

\* Reasons carry over two steps.
LEMMA JustifiedTrans ==
  ASSUME NEW w, NEW v, NEW u, NEW seen, NEW cov, Table(w), Ebbs(w, v, seen), Ebbs(v, u, seen),
         Justified(w, v, cov), Justified(v, u, cov)
  PROVE  Justified(w, u, cov)
<1>1. \A o \in Assets : Loses(w, v, o) \/ Loses(v, u, o) => Loses(w, u, o)
  <2>1. "active" # "inactive"
    OBVIOUS
  <2> QED
    BY <2>1, Zenon DEF Ebbs, Loses
<1>2. ASSUME NEW a \in Assets, Loses(w, u, a)
      PROVE  Reason(w, u, a, cov)
  <2>1. Loses(w, v, a) \/ Loses(v, u, a)
    BY <1>2, Zenon DEF Ebbs, Loses
  <2>2. CASE Loses(w, v, a)
    <3>1. Reason(w, v, a, cov)
      BY <2>2, Zenon DEF Justified
    <3>2. CASE a \in cov /\ v[a].missed >= Threshold[a]
      <4>1. u[a].missed >= v[a].missed
        BY Zenon DEF Ebbs
      <4>2. v[a].missed \in Nat /\ u[a].missed \in Nat /\ Threshold[a] \in Nat
        BY Counters, Apart, AttackSurfaceAssumption, Zenon DEF Ebbs
      <4>3. u[a].missed >= Threshold[a]
        BY <3>2, <4>1, <4>2
      <4> QED
        BY <3>2, <4>3, Zenon DEF Reason
    <3>3. CASE \E o \in Assets : <<o, a>> \in Owned /\ Loses(w, v, o)
      BY <3>3, <1>1, Zenon DEF Reason
    <3>4. CASE a \in Addresses /\ \A n \in Names : v[<<n, a>>].state # "active"
      <4>1. ASSUME NEW n \in Names
            PROVE  u[<<n, a>>].state # "active"
        <5>1. <<n, a>> \in Relations
          BY <3>4 DEF Relations, resolves_to
        <5>2. u[<<n, a>>].state = v[<<n, a>>].state \/ Loses(v, u, <<n, a>>)
          BY <5>1, Zenon DEF Ebbs
        <5> QED
          BY <5>2, <3>4, Zenon DEF Loses
      <4> QED
        BY <3>4, <4>1, Zenon DEF Reason
    <3> QED
      BY <3>1, <3>2, <3>3, <3>4, Zenon DEF Reason
  <2>3. CASE Loses(v, u, a)
    <3>1. Reason(v, u, a, cov)
      BY <2>3, Zenon DEF Justified
    <3> QED
      BY <3>1, <1>1, Zenon DEF Reason
  <2> QED
    BY <2>1, <2>2, <2>3, Zenon
<1> QED
  BY <1>2, Zenon DEF Justified

\* A counter counts one more, up to its threshold.
LEMMA CountRow ==
  ASSUME NEW row \in Row, NEW t \in Nat
  PROVE  /\ Count(row, t) \in Nat /\ Count(row, t) >= row.missed
         /\ Count(row, t) < t => Count(row, t) = row.missed + 1
         /\ row.missed < t => Count(row, t) = row.missed + 1
         /\ row.missed >= t => Count(row, t) = row.missed
BY DEF Count, Row

\* Counting changes no status.
Counting(w, M, v) ==
    /\ v = [i \in Ids |-> v[i]]
    /\ \A i \in Ids \ M : v[i] = w[i]
    /\ \A i \in Ids \intersect M : \E t \in Nat : v[i] = [w[i] EXCEPT !.missed = Count(w[i], t)]

\* Counting misses changes no status.
LEMMA CountedRows ==
  ASSUME NEW w, Table(w), NEW M, NEW v, Counting(w, M, v)
  PROVE  Table(v) /\ \A i \in Ids : v[i].state = w[i].state /\ v[i].missed >= w[i].missed
<1>1. ASSUME NEW i \in Ids
      PROVE  v[i] \in Row /\ v[i].state = w[i].state /\ v[i].missed >= w[i].missed
  <2>0. w[i] \in Row
    BY Counters, Zenon
  <2>1. CASE i \in M
    <3>1. PICK t \in Nat : v[i] = [w[i] EXCEPT !.missed = Count(w[i], t)]
      BY <2>1, Zenon DEF Counting
    <3>2. Count(w[i], t) \in Nat /\ Count(w[i], t) >= w[i].missed
      BY <2>0, CountRow, Zenon
    <3> QED
      BY <2>0, <3>1, <3>2 DEF Row
  <2>2. CASE i \notin M
    <3>1. v[i] = w[i]
      BY <2>2, Zenon DEF Counting
    <3> QED
      BY <2>0, <3>1 DEF Row
  <2> QED
    BY <2>1, <2>2, Zenon
<1>2. v \in [Ids -> Row]
  <2>1. v = [i \in Ids |-> v[i]]
    BY Zenon DEF Counting
  <2> QED
    BY <2>1, <1>1, Zenon
<1> QED
  BY <1>1, <1>2, Apart, Zenon DEF Table

\* What _missed does to the covered assets S.
Misses(w, v, S, seen) ==
    /\ Ebbs(w, v, seen)
    /\ \A i \in Assets \union Relations : i \notin Active(w, S) \ seen => v[i].missed = w[i].missed
    /\ \A a \in Active(w, S) \ seen : v[a].missed = Count(w[a], Threshold[a]) /\ (v[a].missed < Threshold[a] \/ v[a].state = "inactive")
    /\ \A a \in Assets : Loses(w, v, a) =>
          \/ a \in S \ seen /\ v[a].missed >= Threshold[a]
          \/ \E o \in Assets : <<o, a>> \in Owned /\ Loses(w, v, o)
    /\ (\A p \in Ports \intersect seen : AddressOf[p] \in seen)
         => \A p \in Ports : Loses(w, v, OfPort(p)) => v[p].state = "inactive"

\* _missed: each miss counts, and what reaches its threshold is gone.
LEMMA MissedStep ==
  ASSUME NEW w, Table(w), NEW S, S \subseteq Assets, NEW seen, NEW v, v = Missed(w, S, seen)
  PROVE  Misses(w, v, S, seen)
<1> DEFINE M == Active(w, S) \ seen
           C == [i \in Ids |-> IF i \in M THEN [w[i] EXCEPT !.missed = Count(w[i], Threshold[i])] ELSE w[i]]
           A == {a \in M : C[a].missed >= Threshold[a]}
<1>1. v = Deactivate(C, A, seen)
  BY Zenon DEF Missed
<1>2. M \subseteq Assets /\ M \subseteq Ids /\ \A a \in M : w[a].state = "active" /\ Threshold[a] \in Nat /\ w[a] \in Row
  <2>1. M \subseteq Assets /\ \A a \in M : w[a].state = "active"
    BY Zenon DEF Active
  <2> QED
    BY <2>1, Apart, Counters, AttackSurfaceAssumption, Zenon
<1>3. Table(C) /\ \A i \in Ids : C[i].state = w[i].state /\ C[i].missed >= w[i].missed
  <2>1. C = [i \in Ids |-> C[i]]
    BY Zenon
  <2>2. \A i \in Ids \ M : C[i] = w[i]
    BY Zenon
  <2>3. \A i \in Ids \intersect M : \E t \in Nat : C[i] = [w[i] EXCEPT !.missed = Count(w[i], t)]
    BY <1>2, Zenon
  <2> HIDE DEF C, M
  <2>4. Counting(w, M, C)
    BY <2>1, <2>2, <2>3, Zenon DEF Counting
  <2> QED
    BY <2>4, CountedRows, Zenon
<1>4. \A a \in M : C[a].missed = Count(w[a], Threshold[a]) /\ C[a].missed \in Nat
  <2> SUFFICES ASSUME NEW a \in M
               PROVE  C[a].missed = Count(w[a], Threshold[a]) /\ C[a].missed \in Nat
    BY Zenon
  <2>1. C[a] = [w[a] EXCEPT !.missed = Count(w[a], Threshold[a])]
    BY <1>2, Zenon
  <2>2. Count(w[a], Threshold[a]) \in Nat
    BY <1>2, CountRow, Zenon
  <2> HIDE DEF C, M
  <2> QED
    BY <2>1, <2>2, <1>2 DEF Row
<1>5. \A i \in Ids \ M : C[i] = w[i]
  BY Zenon
<1> HIDE DEF C, M
<1>6. A \subseteq Active(C, Assets) \ seen
  <2>1. M \intersect seen = {}
    BY Zenon DEF M
  <2> QED
    BY <1>2, <1>3, <2>1, Zenon DEF Active
<1>7. /\ Ebbs(C, v, seen)
      /\ \A i \in Assets \union Relations : v[i].missed = C[i].missed
      /\ \A a \in A : v[a].state = "inactive"
      /\ \A a \in Assets : Loses(C, v, a) => a \in A \/ \E o \in Assets : <<o, a>> \in Owned /\ Loses(C, v, o)
      /\ (\A p \in Ports \intersect seen : AddressOf[p] \in seen)
           => \A p \in Ports : Loses(C, v, OfPort(p)) => v[p].state = "inactive"
  <2> HIDE DEF A
  <2>1. Deactivates(C, v, A, seen)
    BY <1>1, <1>3, <1>6, DeactivateStep, Zenon
  <2> QED
    BY <2>1, Zenon DEF Deactivates
<1>8. \A i \in Assets \union Relations : Loses(C, v, i) <=> Loses(w, v, i)
  BY <1>3, Apart, Zenon DEF Loses
<1>9. Ebbs(w, v, seen)
  <2>1. Ebbs(w, C, seen)
    <3>1. \A f \in Findings : ~Loses(w, C, On[f])
      <4>1. "active" # "inactive"
        OBVIOUS
      <4> QED
        BY <4>1, <1>3, Apart, Zenon DEF Loses
    <3>2. \A a \in Assets \intersect seen : C[a].state = w[a].state /\ C[a].missed = w[a].missed
      <4>1. M \intersect seen = {}
        BY Zenon DEF M
      <4> QED
        BY <4>1, <1>5, Apart, Zenon
    <3> QED
      BY <1>3, <3>1, <3>2, Apart, Zenon DEF Ebbs
  <2> QED
    BY <2>1, <1>7, EbbsTrans, Zenon
<1>10. \A i \in Assets \union Relations : i \notin M => v[i].missed = w[i].missed
  BY <1>5, <1>7, Apart, Zenon
<1>11. ASSUME NEW a \in M
       PROVE  v[a].missed = Count(w[a], Threshold[a]) /\ (v[a].missed < Threshold[a] \/ v[a].state = "inactive")
  <2>1. v[a].missed = C[a].missed
    BY <1>2, <1>7, Zenon
  <2>2. C[a].missed >= Threshold[a] => v[a].state = "inactive"
    BY <1>7, Zenon
  <2>3. C[a].missed \in Nat /\ Threshold[a] \in Nat
    BY <1>2, <1>4, Zenon
  <2>4. v[a].missed < Threshold[a] \/ v[a].state = "inactive"
    BY <2>1, <2>2, <2>3
  <2> QED
    BY <2>1, <2>4, <1>4, Zenon
<1>12. ASSUME NEW a \in Assets, Loses(w, v, a)
       PROVE  \/ a \in S \ seen /\ v[a].missed >= Threshold[a]
              \/ \E o \in Assets : <<o, a>> \in Owned /\ Loses(w, v, o)
  <2>1. a \in A \/ \E o \in Assets : <<o, a>> \in Owned /\ Loses(w, v, o)
    BY <1>12, <1>7, <1>8, Zenon
  <2>2. a \in A => a \in S \ seen /\ v[a].missed >= Threshold[a]
    <3>1. M \subseteq S \ seen
      BY Zenon DEF M, Active
    <3> QED
      BY <3>1, <1>7, Zenon
  <2> QED
    BY <2>1, <2>2, Zenon
<1>13. (\A p \in Ports \intersect seen : AddressOf[p] \in seen)
         => \A p \in Ports : Loses(w, v, OfPort(p)) => v[p].state = "inactive"
  BY <1>7, <1>8, PortRelation, Apart, Zenon
<1> QED
  BY <1>9, <1>10, <1>11, <1>12, <1>13, Zenon DEF Misses, M

\* Relations in M are missed, and broken at the threshold.
Cuts(w, c, M) ==
    /\ Table(c)
    /\ \A i \in Ids \ M : c[i] = w[i]
    /\ \A r \in M :
          /\ c[r].missed = Count(w[r], RelationThreshold)
          /\ c[r].missed < RelationThreshold => c[r].state = w[r].state
          /\ c[r].missed >= RelationThreshold => c[r].state = "inactive"

Cutting(w, M, C, B, c) ==
    /\ M \subseteq Relations
    /\ C = [i \in Ids |-> IF i \in M THEN [w[i] EXCEPT !.missed = Count(w[i], RelationThreshold)] ELSE w[i]]
    /\ B = {r \in M : C[r].missed >= RelationThreshold}
    /\ c = [i \in Ids |-> IF i \in B THEN [C[i] EXCEPT !.state = "inactive"] ELSE C[i]]

\* A relation breaks at its threshold.
LEMMA CutStep ==
  ASSUME NEW w, Table(w), NEW M, NEW C, NEW B, NEW c, Cutting(w, M, C, B, c)
  PROVE  Cuts(w, c, M)
<1>0. M \subseteq Relations /\ M \subseteq Ids /\ RelationThreshold \in Nat
  BY Apart, AttackSurfaceAssumption, Zenon DEF Cutting
<1>1. Table(C)
  <2>1. C = [i \in Ids |-> C[i]] /\ \A i \in Ids \ M : C[i] = w[i]
    BY Zenon DEF Cutting
  <2>2. \A i \in Ids \intersect M : \E t \in Nat : C[i] = [w[i] EXCEPT !.missed = Count(w[i], t)]
    BY <1>0, Zenon DEF Cutting
  <2>3. Counting(w, M, C)
    BY <2>1, <2>2, Zenon DEF Counting
  <2> QED
    BY <2>3, CountedRows, Zenon
<1>2. ASSUME NEW r \in M
      PROVE  C[r].missed = Count(w[r], RelationThreshold) /\ C[r].missed \in Nat /\ C[r].state = w[r].state /\ C[r] \in Row
  <2>1. r \in Ids /\ w[r] \in Row
    BY <1>0, Counters, Zenon
  <2>2. C[r] = [w[r] EXCEPT !.missed = Count(w[r], RelationThreshold)]
    BY <2>1, Zenon DEF Cutting
  <2>3. Count(w[r], RelationThreshold) \in Nat
    BY <2>1, <1>0, CountRow, Zenon
  <2> QED
    BY <2>1, <2>2, <2>3 DEF Row
<1>3. \A i \in Ids \ M : C[i] = w[i] /\ c[i] = w[i]
  <2>1. \A i \in Ids \ M : C[i] = w[i]
    BY Zenon DEF Cutting
  <2> QED
    BY <2>1, Zenon DEF Cutting
<1>4. ASSUME NEW r \in M
      PROVE  /\ c[r] \in Row /\ c[r].missed = C[r].missed
             /\ c[r].missed < RelationThreshold => c[r].state = w[r].state
             /\ c[r].missed >= RelationThreshold => c[r].state = "inactive"
             /\ c[r].state = w[r].state \/ c[r].state = "inactive"
  <2>1. c[r] = IF r \in B THEN [C[r] EXCEPT !.state = "inactive"] ELSE C[r]
    BY <1>0, Zenon DEF Cutting
  <2>2. CASE r \in B
    <3>1. c[r] = [C[r] EXCEPT !.state = "inactive"]
      BY <2>1, <2>2, Zenon
    <3>2. C[r].missed >= RelationThreshold
      BY <2>2, Zenon DEF Cutting
    <3>3. C[r] \in Row
      BY <1>2, Zenon
    <3>4. c[r] \in Row /\ c[r].missed = C[r].missed /\ c[r].state = "inactive"
      BY <3>1, <3>3 DEF Row
    <3>5. C[r].missed \in Nat
      BY <3>3 DEF Row
    <3>6. ~(c[r].missed < RelationThreshold)
      <4>1. \A m, t \in Nat : m >= t => ~(m < t)
        OBVIOUS
      <4> QED
        BY <4>1, <3>2, <3>4, <3>5, <1>0, Zenon
    <3> QED
      BY <3>4, <3>6, Zenon
  <2>3. CASE r \notin B
    <3>1. c[r] = C[r]
      BY <2>1, <2>3, Zenon
    <3>2. ~(C[r].missed >= RelationThreshold)
      BY <2>3, Zenon DEF Cutting
    <3> QED
      BY <3>1, <3>2, <1>2
  <2> QED
    BY <2>2, <2>3, Zenon
<1>5. Table(c)
  <2>1. \A i \in Ids : c[i] \in Row
    BY <1>3, <1>4, Counters, Zenon
  <2>2. c \in [Ids -> Row]
    <3>1. c = [i \in Ids |-> c[i]]
      BY Zenon DEF Cutting
    <3> QED
      BY <2>1, <3>1, Zenon
  <2>3. \A i \in Assets \union Relations : c[i].state = w[i].state \/ c[i].state = "inactive"
    BY <1>3, <1>4, Apart, Zenon
  <2>4. "inactive" \notin FindingStatus
    BY DEF FindingStatus, OPEN_FINDING_STATES
  <2>5. \A f \in Findings : c[f] = w[f]
    BY <1>0, <1>3, Apart, Zenon
  <2> QED
    BY <2>2, <2>3, <2>4, <2>5, Zenon DEF Table
<1> QED
  BY <1>2, <1>3, <1>4, <1>5, Zenon DEF Cuts

\* Both ends of a relation are assets.
LEMMA RelationEnds == \A r \in Relations : r[1] \in Assets /\ r[2] \in Assets
<1> SUFFICES ASSUME NEW r \in Relations
             PROVE  r[1] \in Assets /\ r[2] \in Assets
  BY Zenon
<1>1. CASE r \in Owned
  BY <1>1, OwnedPairs, Zenon
<1>2. CASE r \in resolves_to \union hosted_on
  BY <1>2 DEF resolves_to, hosted_on, Assets
<1> QED
  BY <1>1, <1>2, Zenon DEF Relations, Owned

\* The three parts of _apply_relation_coverage: relations M missed, addresses U that no
\* relation names any more, children K missed.
Recovers(w, v, M, seen, c, U, d) ==
    /\ Cuts(w, c, M)
    /\ U \subseteq Active(c, Addresses) \ seen
    /\ \A a \in U : \A n \in Names : c[<<n, a>>].state # "active"
    /\ Deactivates(c, d, U, seen)
    /\ Misses(d, v, {r[2] : r \in M} \ Addresses, seen)

\* _apply_relation_coverage cuts relations, retires addresses nobody names and misses the rest.
LEMMA RelationParts ==
  ASSUME NEW w, Table(w), NEW R, R \subseteq Relations, NEW seenR, NEW seen
  PROVE  \E c, U, d : Recovers(w, RelationCoverage(w, R, seenR, seen), Active(w, R) \ seenR, seen, c, U, d)
<1> DEFINE M == Active(w, R) \ seenR
           C == [i \in Ids |-> IF i \in M THEN [w[i] EXCEPT !.missed = Count(w[i], RelationThreshold)] ELSE w[i]]
           B == {r \in M : C[r].missed >= RelationThreshold}
           c == [i \in Ids |-> IF i \in B THEN [C[i] EXCEPT !.state = "inactive"] ELSE C[i]]
           U == {a \in Active(c, Addresses) \ seen :
                    /\ \E r \in B \intersect resolves_to : r[2] = a
                    /\ \A r \in Active(c, resolves_to \union hosted_on) : r[2] # a}
           K == {r[2] : r \in M} \ Addresses
           d == Deactivate(c, U, seen)
<1>1. RelationCoverage(w, R, seenR, seen) = Missed(d, K, seen)
  BY Zenon DEF RelationCoverage
<1>2. M \subseteq Relations
  BY Zenon DEF Active
<1>3. Cuts(w, c, M)
  <2> HIDE DEF M
  <2>1. PICK CC : CC = C
    BY Zenon
  <2>2. CC = [i \in Ids |-> IF i \in M THEN [w[i] EXCEPT !.missed = Count(w[i], RelationThreshold)] ELSE w[i]]
    BY <2>1, Zenon
  <2> HIDE DEF C
  <2>3. PICK BB : BB = B
    BY Zenon
  <2>4. BB = {r \in M : CC[r].missed >= RelationThreshold}
    BY <2>1, <2>3, Zenon
  <2> HIDE DEF B
  <2>5. PICK cc : cc = c
    BY Zenon
  <2>6. cc = [i \in Ids |-> IF i \in BB THEN [CC[i] EXCEPT !.state = "inactive"] ELSE CC[i]]
    <3>1. cc = [i \in Ids |-> IF i \in B THEN [C[i] EXCEPT !.state = "inactive"] ELSE C[i]]
      BY <2>5, Zenon
    <3>2. \A i \in Ids : (IF i \in B THEN [C[i] EXCEPT !.state = "inactive"] ELSE C[i])
                        = (IF i \in BB THEN [CC[i] EXCEPT !.state = "inactive"] ELSE CC[i])
      BY <2>1, <2>3, Zenon
    <3> HIDE DEF c
    <3> QED
      BY <3>1, <3>2, Zenon
  <2> HIDE DEF c
  <2>7. Cuts(w, cc, M)
    <3>1. Cutting(w, M, CC, BB, cc)
      BY <2>2, <2>4, <2>6, <1>2, Zenon DEF Cutting
    <3> QED
      BY <3>1, CutStep, Zenon
  <2> QED
    BY <2>5, <2>7, Zenon
<1>4. U \subseteq Active(c, Addresses) \ seen
  BY Zenon
<1>5. ASSUME NEW a \in U, NEW n \in Names
      PROVE  c[<<n, a>>].state # "active"
  <2>1. a \in Addresses
    BY <1>4, ZenonT(60) DEF Active
  <2>2. <<n, a>> \in resolves_to /\ <<n, a>>[2] = a
    BY <2>1, Zenon DEF resolves_to
  <2>3. \A r \in Active(c, resolves_to \union hosted_on) : r[2] # a
    BY Zenon
  <2> HIDE DEF c, U
  <2> QED
    BY <2>2, <2>3, Zenon DEF Active
<1> HIDE DEF c, U, M
<1>6. Deactivates(c, d, U, seen)
  <2>1. Table(c)
    BY <1>3, Zenon DEF Cuts
  <2>2. U \subseteq Active(c, Assets) \ seen
    BY <1>4, Apart, Zenon DEF Active
  <2> QED
    BY <2>1, <2>2, DeactivateStep, Zenon
<1> HIDE DEF d
<1>7. Misses(d, RelationCoverage(w, R, seenR, seen), K, seen)
  <2>1. Table(d)
    BY <1>6, Zenon DEF Deactivates, Ebbs
  <2>2. K \subseteq Assets
    BY <1>2, RelationEnds, Zenon
  <2> HIDE DEF K
  <2> QED
    BY <2>1, <2>2, <1>1, MissedStep, Zenon
<1>8. Recovers(w, RelationCoverage(w, R, seenR, seen), M, seen, c, U, d)
  BY <1>3, <1>4, <1>5, <1>6, <1>7, Zenon DEF Recovers
<1> QED
  BY <1>8, Zenon DEF M

\* What covering the parents of the children K does to assets.
Covers(w, v, K, seen) ==
    /\ Ebbs(w, v, seen)
    /\ \A a \in Assets : \/ v[a].missed = w[a].missed
                         \/ a \in K \ seen /\ w[a].state = "active" /\ v[a].missed = Count(w[a], Threshold[a])
    /\ \A a \in K \ seen : w[a].state = "active" =>
          v[a].state = "inactive" \/ (v[a].missed = Count(w[a], Threshold[a]) /\ v[a].missed < Threshold[a])
    /\ Justified(w, v, K \ seen)

\* _apply_relation_coverage: each child of a missed relation is missed once.
LEMMA RelationStep ==
  ASSUME NEW w, Table(w), NEW v, NEW M, M \subseteq Active(w, Relations), NEW seen, NEW c, NEW U, NEW d,
         Recovers(w, v, M, seen, c, U, d)
  PROVE  Covers(w, v, {r[2] : r \in M} \ Addresses, seen)
<1> DEFINE K == {r[2] : r \in M} \ Addresses
<1>0. M \subseteq Relations /\ K \subseteq Assets /\ M \subseteq Ids
  <2>1. M \subseteq Relations
    BY Zenon DEF Active
  <2> QED
    BY <2>1, RelationEnds, Apart, Zenon
<1> HIDE DEF K
<1>1. Cuts(w, c, M) /\ Deactivates(c, d, U, seen) /\ Misses(d, v, K, seen) /\ Table(c) /\ Table(d) /\ Table(v)
  BY Zenon DEF Recovers, Cuts, Deactivates, Misses, Ebbs, K
<1>2. \A a \in Assets : c[a] = w[a]
  BY <1>0, <1>1, Apart, Zenon DEF Cuts
<1>3. \A f \in Findings : c[f] = w[f]
  BY <1>0, <1>1, Apart, Zenon DEF Cuts
<1>4. ASSUME NEW r \in Relations
      PROVE  (c[r].state = w[r].state \/ Loses(w, c, r)) /\ c[r].missed >= w[r].missed
  <2>1. w[r].missed \in Nat /\ c[r].missed \in Nat /\ w[r] \in Row /\ RelationThreshold \in Nat
    BY <1>1, Counters, Apart, AttackSurfaceAssumption, Zenon
  <2>2. CASE r \in M
    <3>1. w[r].state = "active"
      BY <2>2, Zenon DEF Active
    <3>2. c[r].missed = Count(w[r], RelationThreshold)
      BY <2>2, <1>1, Zenon DEF Cuts
    <3>3. c[r].missed >= w[r].missed
      BY <3>2, <2>1, CountRow, Zenon
    <3>4. c[r].missed < RelationThreshold \/ c[r].missed >= RelationThreshold
      BY <2>1
    <3>5. c[r].state = w[r].state \/ c[r].state = "inactive"
      BY <3>4, <2>2, <1>1, Zenon DEF Cuts
    <3> QED
      BY <3>1, <3>3, <3>5, Zenon DEF Loses
  <2>3. CASE r \notin M
    <3>1. c[r] = w[r]
      BY <2>3, <1>1, Apart, Zenon DEF Cuts
    <3> QED
      BY <3>1, <2>1
  <2> QED
    BY <2>2, <2>3, Zenon
<1>5. Ebbs(w, c, seen)
  <2>1. \A i \in Assets : c[i].missed >= w[i].missed
    <3>1. \A a \in Assets : w[a].missed \in Nat
      BY Counters, Apart, Zenon
    <3> QED
      BY <3>1, <1>2
  <2>2. \A i \in Assets \union Relations : (c[i].state = w[i].state \/ Loses(w, c, i)) /\ c[i].missed >= w[i].missed
    BY <2>1, <1>2, <1>4, Zenon
  <2>3. \A f \in Findings : ~Loses(w, c, On[f])
    <3>1. "active" # "inactive"
      OBVIOUS
    <3> QED
      BY <3>1, <1>2, Apart, Zenon DEF Loses
  <2> QED
    BY <1>1, <1>2, <1>3, <2>2, <2>3, Zenon DEF Ebbs
<1>6. Ebbs(c, d, seen) /\ Ebbs(d, v, seen)
  BY <1>1, Zenon DEF Deactivates, Misses
<1>7. Ebbs(w, d, seen)
  BY <1>1, <1>5, <1>6, EbbsTrans, Zenon
<1>8. Ebbs(w, v, seen)
  BY <1>1, <1>7, <1>6, EbbsTrans, Zenon
<1>9. Justified(w, v, K \ seen)
  <2>1. Justified(w, c, K \ seen)
    <3>1. "active" # "inactive"
      OBVIOUS
    <3> QED
      BY <3>1, <1>2, Zenon DEF Justified, Loses
  <2>2. ASSUME NEW a \in Assets, Loses(c, d, a)
        PROVE  Reason(c, d, a, K \ seen)
    <3>1. CASE a \in U
      <4>1. a \in Addresses /\ \A n \in Names : c[<<n, a>>].state # "active"
        BY <3>1, Zenon DEF Recovers, Active
      <4>2. ASSUME NEW n \in Names
            PROVE  d[<<n, a>>].state # "active"
        <5>1. <<n, a>> \in Relations
          BY <4>1 DEF Relations, resolves_to
        <5>2. d[<<n, a>>].state = c[<<n, a>>].state \/ Loses(c, d, <<n, a>>)
          BY <5>1, <1>6, Zenon DEF Ebbs
        <5> QED
          BY <5>2, <4>1, Zenon DEF Loses
      <4> QED
        BY <4>1, <4>2, Zenon DEF Reason
    <3>2. CASE \E o \in Assets : <<o, a>> \in Owned /\ Loses(c, d, o)
      BY <3>2, Zenon DEF Reason
    <3> QED
      BY <2>2, <3>1, <3>2, <1>1, Zenon DEF Deactivates
  <2>3. Justified(c, d, K \ seen)
    BY <2>2, Zenon DEF Justified
  <2>4. Justified(d, v, K \ seen)
    BY <1>1, Zenon DEF Misses, Justified, Reason
  <2>5. Justified(w, d, K \ seen)
    BY <2>1, <2>3, <1>5, <1>6, JustifiedTrans, Zenon
  <2> QED
    BY <2>5, <2>4, <1>7, <1>6, JustifiedTrans, Zenon
<1>10. ASSUME NEW a \in Assets
       PROVE  /\ d[a].missed = w[a].missed
              /\ Count(d[a], Threshold[a]) = Count(w[a], Threshold[a])
              /\ d[a].state = "active" => w[a].state = "active"
              /\ w[a].state = "active" => d[a].state = "active" \/ d[a].state = "inactive"
  <2>1. d[a].missed = w[a].missed
    BY <1>1, <1>2, Zenon DEF Deactivates
  <2>2. d[a].state = w[a].state \/ Loses(w, d, a)
    BY <1>7, Zenon DEF Ebbs
  <2>3. Count(d[a], Threshold[a]) = Count(w[a], Threshold[a])
    BY <2>1, Zenon DEF Count
  <2> QED
    BY <2>1, <2>2, <2>3, Zenon DEF Loses
<1>11. ASSUME NEW a \in Assets
       PROVE  \/ v[a].missed = w[a].missed
              \/ a \in K \ seen /\ w[a].state = "active" /\ v[a].missed = Count(w[a], Threshold[a])
  <2>1. CASE a \in Active(d, K) \ seen
    BY <2>1, <1>1, <1>10, Zenon DEF Misses, Active
  <2>2. CASE a \notin Active(d, K) \ seen
    BY <2>2, <1>1, <1>10, Zenon DEF Misses
  <2> QED
    BY <2>1, <2>2, Zenon
<1>12. ASSUME NEW a \in K \ seen, w[a].state = "active"
       PROVE  v[a].state = "inactive" \/ (v[a].missed = Count(w[a], Threshold[a]) /\ v[a].missed < Threshold[a])
  <2>1. a \in Assets
    BY <1>0, Zenon
  <2>2. CASE d[a].state = "active"
    <3>1. a \in Active(d, K) \ seen
      BY <2>2, Zenon DEF Active
    <3> QED
      BY <3>1, <2>1, <1>1, <1>10, Zenon DEF Misses
  <2>3. CASE d[a].state = "inactive"
    BY <2>1, <2>3, <1>6, Zenon DEF Ebbs, Loses
  <2> QED
    BY <2>1, <2>2, <2>3, <1>10, <1>12, Zenon
<1>13. Covers(w, v, K, seen)
  BY <1>8, <1>9, <1>11, <1>12, Zenon DEF Covers
<1> QED
  BY <1>13, Zenon DEF K

\* A port that is active was found by a relation that is active and was missed no more often.
PortsHold(w) ==
    \A p \in Ports : w[p].state = "active" =>
        w[OfPort(p)].state = "active" /\ w[OfPort(p)].missed =< w[p].missed

\* settings.inactivity: a relation is given up no sooner than a port, as by default.
RelationsLast == \A p \in Ports : Threshold[p] =< RelationThreshold

\* Ports are seen with their addresses, and those of the relations M are not seen.
PortsSeen(M, seen) ==
    /\ \A p \in Ports \intersect seen : AddressOf[p] \in seen
    /\ \A p \in Ports : OfPort(p) \in M => p \notin seen

\* A port keeps the relation it was found by, if relations are given up no sooner than ports.
LEMMA RelationPorts ==
  ASSUME NEW w, Table(w), NEW v, NEW M, M \subseteq Active(w, Relations), NEW seen, NEW c, NEW U, NEW d,
         Recovers(w, v, M, seen, c, U, d), RelationsLast, PortsHold(w), PortsSeen(M, seen)
  PROVE  PortsHold(v)
<1> DEFINE K == {r[2] : r \in M} \ Addresses
<1>0. M \subseteq Relations /\ K \subseteq Assets /\ M \subseteq Ids
  <2>1. M \subseteq Relations
    BY Zenon DEF Active
  <2> QED
    BY <2>1, RelationEnds, Apart, Zenon
<1>1. Cuts(w, c, M) /\ Deactivates(c, d, U, seen) /\ Misses(d, v, K, seen) /\ Table(c) /\ Table(d) /\ Table(v)
  <2> HIDE DEF K
  <2> QED
    BY Zenon DEF Recovers, Cuts, Deactivates, Misses, Ebbs, K
<1>2. SUFFICES ASSUME NEW p \in Ports, v[p].state = "active"
               PROVE  v[OfPort(p)].state = "active" /\ v[OfPort(p)].missed =< v[p].missed
  BY Zenon DEF PortsHold
<1>a. PICK r : r = OfPort(p)
  OBVIOUS
<1>3. p \in Assets /\ p \in Ids /\ r \in Relations /\ r \in Ids /\ p \notin M /\ r \notin Assets /\ p \notin Addresses
  BY <1>0, <1>a, Apart, PortRelation, AttackSurfaceAssumption, Zenon
<1>4. c[p] = w[p]
  BY <1>1, <1>3, Zenon DEF Cuts
<1>5. d[p].state = "active" /\ w[p].state = "active" /\ d[p].missed = w[p].missed
  <2>1. d[p].state = "active"
    BY <1>1, <1>2, <1>3, Zenon DEF Misses, Ebbs, Loses
  <2>2. w[p].state = "active"
    BY <2>1, <1>1, <1>3, <1>4, Zenon DEF Deactivates, Ebbs, Loses
  <2> QED
    BY <2>1, <2>2, <1>1, <1>3, <1>4, Zenon DEF Deactivates
<1>6. w[r].state = "active" /\ w[r].missed =< w[p].missed
  BY <1>5, <1>a, Zenon DEF PortsHold
<1>7. /\ w[r].missed \in Nat /\ w[p].missed \in Nat /\ c[r].missed \in Nat /\ v[p].missed \in Nat /\ v[r].missed \in Nat
      /\ w[r] \in Row /\ d[p] \in Row
      /\ Threshold[p] \in Nat /\ RelationThreshold \in Nat /\ Threshold[p] =< RelationThreshold
  BY <1>1, <1>3, Counters, AttackSurfaceAssumption, Zenon DEF RelationsLast
<1>8. c[r].state = "active" /\ c[r].missed =< v[p].missed
  <2>1. CASE r \in M
    <3>1. p \in Active(d, K) \ seen
      <4>1. p = r[2]
        BY <1>a, PortRelation, Zenon
      <4>2. p \in K
        BY <4>1, <2>1, <1>3, Zenon
      <4> QED
        BY <4>2, <1>5, <1>a, <2>1, Zenon DEF Active, PortsSeen
    <3>2. v[p].missed = Count(d[p], Threshold[p]) /\ (v[p].missed < Threshold[p] \/ v[p].state = "inactive")
      <4> HIDE DEF K
      <4> QED
        BY <3>1, <1>1, Zenon DEF Misses
    <3>3. v[p].missed < Threshold[p]
      BY <3>2, <1>2
    <3>4. v[p].missed = w[p].missed + 1
      <4>1. Count(d[p], Threshold[p]) < Threshold[p]
        BY <3>2, <3>3, Zenon
      <4>2. Count(d[p], Threshold[p]) = d[p].missed + 1
        BY <4>1, <1>7, CountRow, Zenon
      <4> QED
        BY <4>2, <3>2, <1>5, Zenon
    <3>5. w[r].missed < RelationThreshold
      BY <3>3, <3>4, <1>6, <1>7
    <3>6. c[r].missed = w[r].missed + 1
      <4>1. c[r].missed = Count(w[r], RelationThreshold)
        BY <2>1, <1>1, Zenon DEF Cuts
      <4> QED
        BY <4>1, <3>5, <1>7, CountRow, Zenon
    <3>7. c[r].missed =< v[p].missed /\ c[r].missed < RelationThreshold
      BY <3>3, <3>4, <3>6, <1>6, <1>7
    <3> QED
      BY <3>7, <2>1, <1>1, <1>6, Zenon DEF Cuts
  <2>2. CASE r \notin M
    <3>1. c[r] = w[r]
      BY <2>2, <1>1, <1>3, Zenon DEF Cuts
    <3>2. v[p].missed >= d[p].missed
      <4> HIDE DEF K
      <4> QED
        BY <1>1, <1>3, Zenon DEF Misses, Ebbs
    <3> QED
      BY <3>1, <3>2, <1>5, <1>6, <1>7
  <2> QED
    BY <2>1, <2>2, Zenon
<1>9. d[r].state = "active" /\ d[r].missed = c[r].missed
  <2>1. "active" # "inactive"
    OBVIOUS
  <2>2. ~Loses(c, d, r)
    BY <2>1, <1>1, <1>5, <1>a, Zenon DEF Deactivates, PortsSeen
  <2> QED
    BY <2>2, <1>1, <1>3, <1>8, Zenon DEF Deactivates, Ebbs
<1>10. v[r].state = "active" /\ v[r].missed = d[r].missed
  <2> HIDE DEF K
  <2>1. "active" # "inactive"
    OBVIOUS
  <2>2. ~Loses(d, v, r)
    BY <2>1, <1>1, <1>2, <1>a, Zenon DEF Misses, PortsSeen
  <2>3. r \notin Active(d, K)
    BY <1>0, <1>3, Zenon DEF Active
  <2> QED
    BY <2>2, <2>3, <1>1, <1>3, <1>9, Zenon DEF Misses, Ebbs
<1> QED
  BY <1>8, <1>9, <1>10, <1>a, Zenon

-----------------------------------------------------------------------------
(* What sensors report.                                                    *)

\* What the targets of a stage are (build_targets).
Aims(sensor, targets) ==
    /\ targets \subseteq Assets
    /\ sensor \in {"dnsx", "httpx"} => targets \subseteq Names
    /\ sensor \in {"naabu", "shodan"} => targets \subseteq Addresses
    /\ sensor = "nuclei" => targets \subseteq Endpoints

\* What a report holds together: a port comes with its relation and its address, and only
\* httpx reports what serves an endpoint.
Sighting(sensor, rep) ==
    /\ rep.assets \subseteq Assets /\ rep.relations \subseteq Relations /\ rep.found \subseteq Findings
    /\ \A p \in Ports : p \in rep.assets <=> OfPort(p) \in rep.relations
    /\ \A p \in Ports : p \in rep.assets => AddressOf[p] \in rep.assets
    /\ \A e \in Endpoints : OfEndpoint(e) \in rep.relations => sensor = "httpx" /\ e \in rep.assets

\* Components of a pair.
LEMMA Pairs == \A x, y : <<x, y>>[1] = x /\ <<x, y>>[2] = y
OBVIOUS

\* Equal pairs have equal components.
LEMMA SamePair == \A x, y, u, v : <<x, y>> = <<u, v>> => x = u /\ y = v
OBVIOUS

\* What dnsx reports.
LEMMA dnsxSighting ==
  ASSUME NEW targets, Aims("dnsx", targets), setup \in Setups, NEW rep \in dnsx(targets)
  PROVE  Sighting("dnsx", rep)
<1>1. PICK answers \in SUBSET (resolves_to \intersect (targets \X universe)) :
         rep = [assets |-> {r[1] : r \in answers} \union {r[2] : r \in answers}, relations |-> answers, found |-> {}]
  BY Zenon DEF dnsx
<1>2. rep.assets = {r[1] : r \in answers} \union {r[2] : r \in answers} /\ rep.relations = answers /\ rep.found = {}
  BY <1>1
<1>3. answers \subseteq resolves_to
  BY <1>1, Zenon
<1>4. \A r \in answers : r[1] \in Names /\ r[2] \in Addresses
  BY <1>3 DEF resolves_to
<1>5. rep.assets \subseteq Names \union Addresses
  BY <1>2, <1>4, Zenon
<1>6. \A p \in Ports : p \notin rep.assets
  BY <1>5, AttackSurfaceAssumption, Zenon
<1>7. \A p \in Ports : OfPort(p) \notin answers
  BY <1>4, PortRelation, AttackSurfaceAssumption, Zenon
<1>8. \A e \in Endpoints : OfEndpoint(e) \notin answers
  BY <1>4, Pairs, AttackSurfaceAssumption, Zenon DEF OfEndpoint
<1> QED
  BY <1>2, <1>3, <1>5, <1>6, <1>7, <1>8, Apart, Zenon DEF Sighting

\* What naabu reports.
LEMMA naabuSighting ==
  ASSUME NEW targets, Aims("naabu", targets), setup \in Setups, NEW rep \in naabu(targets)
  PROVE  Sighting("naabu", rep)
<1>1. PICK open \in SUBSET {p \in Ports \intersect universe : AddressOf[p] \in targets} :
         rep = [assets |-> open \union {AddressOf[p] : p \in open}, relations |-> {<<AddressOf[p], p>> : p \in open}, found |-> {}]
  BY Zenon DEF naabu
<1>2. rep.assets = open \union {AddressOf[p] : p \in open} /\ rep.relations = {OfPort(p) : p \in open} /\ rep.found = {}
  BY <1>1 DEF OfPort
<1>3. open \subseteq Ports
  BY <1>1, Zenon
<1>a. \A p \in open : p \in Ports /\ AddressOf[p] \in Addresses /\ OfPort(p) \in Owned
  BY <1>3, PortRelation, Zenon
<1>4. rep.assets \subseteq Ports \union Addresses /\ rep.relations \subseteq Owned
  BY <1>2, <1>a, Zenon
<1>5. ASSUME NEW p \in Ports
      PROVE  (p \in rep.assets <=> p \in open) /\ (OfPort(p) \in rep.relations <=> p \in open)
  <2>1. p \in rep.assets => p \in open
    <3>1. \A q \in open : AddressOf[q] # p
      BY <1>a, AttackSurfaceAssumption, ZenonT(60)
    <3> QED
      BY <3>1, <1>2, Zenon
  <2>2. OfPort(p) \in rep.relations => p \in open
    <3>1. \A q : OfPort(p) = OfPort(q) => p = q
      BY SamePair, Zenon DEF OfPort
    <3> QED
      BY <3>1, <1>2, Zenon
  <2> QED
    BY <2>1, <2>2, <1>2, Zenon
<1>6. \A e \in Endpoints : OfEndpoint(e) \notin rep.relations
  <2> SUFFICES ASSUME NEW e \in Endpoints, OfEndpoint(e) \in rep.relations
               PROVE  FALSE
    BY Zenon
  <2>1. PICK p \in open : OfEndpoint(e) = OfPort(p)
    BY <1>2, Zenon
  <2>2. e = p
    BY <2>1, SamePair, Zenon DEF OfEndpoint, OfPort
  <2> QED
    BY <2>2, <1>3, AttackSurfaceAssumption, Zenon
<1>7. \A p \in open : AddressOf[p] \in rep.assets
  BY <1>2, Zenon
<1> QED
  BY <1>2, <1>4, <1>5, <1>6, <1>7, Apart, Zenon DEF Sighting

\* What nuclei reports.
LEMMA nucleiSighting ==
  ASSUME NEW targets, Aims("nuclei", targets), NEW rep \in nuclei(targets)
  PROVE  Sighting("nuclei", rep)
<1>1. PICK F \in SUBSET {f \in Findings : Source[f] = "nuclei" /\ On[f] \in targets} :
         rep = [assets |-> {On[f] : f \in F}, relations |-> {}, found |-> F]
  BY Zenon DEF nuclei
<1>2. rep.assets = {On[f] : f \in F} /\ rep.relations = {} /\ rep.found = F
  BY <1>1
<1>3. F \subseteq Findings /\ \A f \in F : On[f] \in Endpoints
  <2>1. targets \subseteq Endpoints
    BY Zenon DEF Aims
  <2> QED
    BY <1>1, <2>1, Zenon
<1>a. rep.assets \subseteq Endpoints
  BY <1>2, <1>3, Zenon
<1>4. \A p \in Ports : p \notin rep.assets
  BY <1>a, AttackSurfaceAssumption, Zenon
<1> QED
  BY <1>2, <1>3, <1>4, <1>a, Apart, Zenon DEF Sighting

\* The kinds do not meet.
LEMMA Kinds ==
  /\ \A p \in Ports : p \notin Names /\ p \notin Addresses /\ p \notin Services /\ p \notin Endpoints
  /\ \A e \in Endpoints : e \notin Names /\ e \notin Addresses /\ e \notin Services
  /\ \A s \in Services : s \notin Names /\ s \notin Addresses
  /\ \A a \in Addresses : a \notin Names
BY AttackSurfaceAssumption, Zenon

\* A service is owned by its port.
LEMMA ServiceRelation == \A s \in Services : <<PortOf[s], s>> \in Owned
BY DEF Owned, runs_service

\* An endpoint is owned by the name in its URL.
LEMMA EndpointRelation == \A e \in Endpoints : OfEndpoint(e) \in Owned /\ HostOf[e] \in Names
BY AttackSurfaceAssumption DEF Owned, serves, OfEndpoint

\* Two relations found by what they lead to are the same only for the same asset.
LEMMA Unmixed ==
  /\ \A p, q : OfPort(p) = OfPort(q) => p = q
  /\ \A p, e : OfPort(p) = OfEndpoint(e) => p = e
  /\ \A d, e : OfEndpoint(d) = OfEndpoint(e) => d = e
  /\ \A p, x, y : OfPort(p) = <<x, y>> => p = y
  /\ \A e, x, y : OfEndpoint(e) = <<x, y>> => e = y
BY SamePair, Zenon DEF OfPort, OfEndpoint

\* What httpx reports.
LEMMA httpxSighting ==
  ASSUME NEW targets, NEW rep \in httpx(targets)
  PROVE  Sighting("httpx", rep)
<1> DEFINE P(E, at) == {p \in Ports \intersect universe : \E e \in E : AddressOf[p] = at[e]}
           S(E, at) == {s \in Services \intersect universe : PortOf[s] \in P(E, at)}
           answering(E, at) ==
             [assets |-> E \union {HostOf[e] : e \in E} \union ({at[e] : e \in E} \ {None}) \union P(E, at) \union S(E, at),
              relations |-> {<<HostOf[e], e>> : e \in E} \union {<<e, at[e]>> : e \in {x \in E : at[x] # None}}
                              \union {<<AddressOf[p], p>> : p \in P(E, at)} \union {<<PortOf[s], s>> : s \in S(E, at)},
              found |-> {}]
           probed == {e \in Endpoints \intersect universe : HostOf[e] \in targets}
<1>1. httpx(targets) = UNION {{answering(E, at) : at \in [E -> (Addresses \intersect universe) \union {None}]} : E \in SUBSET probed}
  BY Zenon DEF httpx
<1> HIDE DEF answering
<1>2. PICK E \in SUBSET probed : \E at \in [E -> (Addresses \intersect universe) \union {None}] : rep = answering(E, at)
  BY <1>1, Zenon
<1>3. PICK at \in [E -> (Addresses \intersect universe) \union {None}] : rep = answering(E, at)
  BY <1>2, Zenon
<1>4. E \subseteq Endpoints
  BY <1>2, Zenon
<1>5. \A e \in E : at[e] \in Addresses \/ at[e] = None
  BY <1>3, Zenon
<1>p. PICK Q : Q = P(E, at)
  BY Zenon
<1>s. PICK T : T = S(E, at)
  BY Zenon
<1>6. Q \subseteq Ports /\ T \subseteq Services /\ \A p \in Q : \E e \in E : AddressOf[p] = at[e]
  BY <1>p, <1>s, Zenon
<1> HIDE DEF P, S, probed
<1>7. rep = [assets |-> E \union {HostOf[e] : e \in E} \union ({at[e] : e \in E} \ {None}) \union Q \union T,
             relations |-> {<<HostOf[e], e>> : e \in E} \union {<<e, at[e]>> : e \in {x \in E : at[x] # None}}
                             \union {<<AddressOf[p], p>> : p \in Q} \union {<<PortOf[s], s>> : s \in T},
             found |-> {}]
  BY <1>3, <1>p, <1>s, Zenon DEF answering
<1>8. /\ rep.assets = E \union {HostOf[e] : e \in E} \union ({at[e] : e \in E} \ {None}) \union Q \union T
      /\ rep.relations = {<<HostOf[e], e>> : e \in E} \union {<<e, at[e]>> : e \in {x \in E : at[x] # None}}
                             \union {<<AddressOf[p], p>> : p \in Q} \union {<<PortOf[s], s>> : s \in T}
      /\ rep.found = {}
  BY <1>7
<1>9. /\ \A e \in E : e \in Endpoints /\ HostOf[e] \in Names
      /\ \A e \in E : at[e] # None => at[e] \in Addresses
      /\ \A p \in Q : p \in Ports /\ AddressOf[p] \in Addresses /\ AddressOf[p] # None
      /\ \A s \in T : s \in Services
  <2>1. \A e \in E : e \in Endpoints /\ HostOf[e] \in Names
    BY <1>4, EndpointRelation, Zenon
  <2>2. \A p \in Q : p \in Ports /\ AddressOf[p] \in Addresses
    BY <1>6, PortRelation, Zenon
  <2>3. None \notin Addresses
    BY AttackSurfaceAssumption, Zenon
  <2> QED
    BY <1>5, <1>6, <2>1, <2>2, <2>3, Zenon
<1>10. rep.assets \subseteq Assets
  <2>1. {HostOf[e] : e \in E} \subseteq Names /\ {at[e] : e \in E} \ {None} \subseteq Addresses
    BY <1>9, Zenon
  <2>2. E \subseteq Assets /\ Q \subseteq Assets /\ T \subseteq Assets /\ Names \subseteq Assets /\ Addresses \subseteq Assets
    BY <1>4, <1>6, Apart, Zenon
  <2> QED
    BY <1>8, <2>1, <2>2, Zenon
<1>11. rep.relations \subseteq Relations
  <2>1. \A e \in E : <<HostOf[e], e>> \in Relations
    BY <1>9, EndpointRelation, Apart, Zenon DEF OfEndpoint
  <2>2. \A e \in E : at[e] # None => <<e, at[e]>> \in Relations
    BY <1>9 DEF Relations, hosted_on
  <2>3. \A p \in Q : <<AddressOf[p], p>> \in Relations
    BY <1>9, PortRelation, Apart, Zenon DEF OfPort
  <2>4. \A s \in T : <<PortOf[s], s>> \in Relations
    BY <1>9, ServiceRelation, Apart, Zenon
  <2> QED
    BY <1>8, <2>1, <2>2, <2>3, <2>4, Zenon
<1>12. \A p \in Ports : p \in rep.assets => p \in Q
  <2> SUFFICES ASSUME NEW p \in Ports, p \in rep.assets, p \notin Q
               PROVE  FALSE
    BY Zenon
  <2>1. p \notin Names /\ p \notin Addresses /\ p \notin Services /\ p \notin Endpoints
    BY Kinds, Zenon
  <2> QED
    <3>1. p \notin {HostOf[e] : e \in E} /\ p \notin {at[e] : e \in E} \ {None}
      BY <2>1, <1>9, Zenon
    <3>2. p \notin E /\ p \notin T
      BY <2>1, <1>4, <1>6, Zenon
    <3> QED
      BY <3>1, <3>2, <1>8, Zenon
<1>13. \A p \in Ports : OfPort(p) \in rep.relations => p \in Q
  <2> SUFFICES ASSUME NEW p \in Ports, OfPort(p) \in rep.relations
               PROVE  p \in Q
    BY Zenon
  <2>1. p \notin Addresses /\ p \notin Services /\ p \notin Endpoints
    BY Kinds, Zenon
  <2>2. CASE \E e \in E : OfPort(p) = <<HostOf[e], e>>
    BY <2>1, <2>2, <1>9, Unmixed, Zenon
  <2>3. CASE \E e \in E : at[e] # None /\ OfPort(p) = <<e, at[e]>>
    <3>1. PICK e \in E : at[e] # None /\ OfPort(p) = <<e, at[e]>>
      BY <2>3, Zenon
    <3>2. p = at[e]
      BY <3>1, Unmixed, Zenon
    <3> QED
      BY <3>1, <3>2, <2>1, <1>9, Zenon
  <2>4. CASE \E q \in Q : OfPort(p) = <<AddressOf[q], q>>
    BY <2>4, Unmixed, Zenon
  <2>5. CASE \E s \in T : OfPort(p) = <<PortOf[s], s>>
    BY <2>1, <2>5, <1>9, Unmixed, ZenonT(60)
  <2> QED
    BY <2>2, <2>3, <2>4, <2>5, <1>8, Zenon
<1>14. \A p \in Q : p \in rep.assets /\ OfPort(p) \in rep.relations
  BY <1>8, Zenon DEF OfPort
<1>15. \A p \in Q : AddressOf[p] \in rep.assets
  <2> SUFFICES ASSUME NEW p \in Q
               PROVE  AddressOf[p] \in rep.assets
    BY Zenon
  <2>1. PICK e \in E : AddressOf[p] = at[e]
    BY <1>6, Zenon
  <2>2. at[e] \in {at[x] : x \in E} \ {None}
    BY <2>1, <1>9, Zenon
  <2> QED
    BY <2>1, <2>2, <1>8, Zenon
<1>16. \A e \in Endpoints : OfEndpoint(e) \in rep.relations => e \in rep.assets
  <2> SUFFICES ASSUME NEW e \in Endpoints, OfEndpoint(e) \in rep.relations
               PROVE  e \in E
    BY <1>8, Zenon
  <2>1. e \notin Addresses /\ e \notin Services /\ e \notin Ports
    BY Kinds, Zenon
  <2>2. CASE \E x \in E : OfEndpoint(e) = <<HostOf[x], x>>
    BY <2>2, Unmixed, Zenon
  <2>3. CASE \E x \in E : at[x] # None /\ OfEndpoint(e) = <<x, at[x]>>
    <3>1. PICK x \in E : at[x] # None /\ OfEndpoint(e) = <<x, at[x]>>
      BY <2>3, Zenon
    <3>2. e = at[x]
      BY <3>1, Unmixed, Zenon
    <3> QED
      BY <3>1, <3>2, <2>1, <1>9, Zenon
  <2>4. CASE \E q \in Q : OfEndpoint(e) = <<AddressOf[q], q>>
    BY <2>1, <2>4, <1>9, Unmixed, Zenon
  <2>5. CASE \E s \in T : OfEndpoint(e) = <<PortOf[s], s>>
    BY <2>1, <2>5, <1>9, Unmixed, Zenon
  <2> QED
    BY <2>2, <2>3, <2>4, <2>5, <1>8, Zenon
<1>17. rep.found \subseteq Findings
  BY <1>8, Zenon
<1>18. \A p \in Ports : (p \in rep.assets <=> OfPort(p) \in rep.relations) /\ (p \in rep.assets => AddressOf[p] \in rep.assets)
  BY <1>12, <1>13, <1>14, <1>15, Zenon
<1> QED
  BY <1>10, <1>11, <1>16, <1>17, <1>18, Zenon DEF Sighting

\* What shodan reports.
LEMMA shodanSighting ==
  ASSUME NEW targets, Aims("shodan", targets), NEW rep \in shodan(targets)
  PROVE  Sighting("shodan", rep)
<1> DEFINE S(P) == {s \in Services \intersect universe : PortOf[s] \in P}
           hosts(P, F) == [assets |-> targets \union P \union S(P),
                           relations |-> {<<AddressOf[p], p>> : p \in P} \union {<<PortOf[s], s>> : s \in S(P)}, found |-> F]
           FF(P) == {f \in Findings : Source[f] = "shodan" /\ On[f] \in targets \union P}
           PP == {p \in Ports \intersect universe : AddressOf[p] \in targets}
<1>1. shodan(targets) = UNION {{hosts(P, F) : F \in SUBSET FF(P)} : P \in SUBSET PP}
  BY Zenon DEF shodan
<1> HIDE DEF hosts
<1>2. PICK P \in SUBSET PP : \E F \in SUBSET FF(P) : rep = hosts(P, F)
  BY <1>1, Zenon
<1>3. PICK F \in SUBSET FF(P) : rep = hosts(P, F)
  BY <1>2, Zenon
<1>4. F \subseteq Findings /\ P \subseteq Ports /\ \A p \in P : AddressOf[p] \in targets
  BY <1>2, <1>3, Zenon
<1>s. PICK T : T = S(P)
  BY Zenon
<1>5. T \subseteq Services
  BY <1>s, Zenon
<1> HIDE DEF S, FF, PP
<1>6. rep = [assets |-> targets \union P \union T,
             relations |-> {<<AddressOf[p], p>> : p \in P} \union {<<PortOf[s], s>> : s \in T}, found |-> F]
  BY <1>3, <1>s, Zenon DEF hosts
<1>7. /\ rep.assets = targets \union P \union T
      /\ rep.relations = {<<AddressOf[p], p>> : p \in P} \union {<<PortOf[s], s>> : s \in T}
      /\ rep.found = F
  BY <1>6
<1>8. targets \subseteq Addresses
  BY DEF Aims
<1>9. rep.relations \subseteq Relations
  <2>1. \A p \in P : <<AddressOf[p], p>> \in Relations
    BY <1>4, PortRelation, Apart, Zenon DEF OfPort
  <2>2. \A s \in T : <<PortOf[s], s>> \in Relations
    BY <1>5, ServiceRelation, Apart, Zenon
  <2> QED
    BY <1>7, <2>1, <2>2, Zenon
<1>10. \A p \in Ports : p \in rep.assets => p \in P
  BY <1>5, <1>7, <1>8, Kinds, Zenon
<1>11. \A p \in Ports : OfPort(p) \in rep.relations => p \in P
  <2> SUFFICES ASSUME NEW p \in Ports, OfPort(p) \in rep.relations
               PROVE  p \in P
    BY Zenon
  <2>1. CASE \E q \in P : OfPort(p) = <<AddressOf[q], q>>
    BY <2>1, Unmixed, Zenon
  <2>2. CASE \E s \in T : OfPort(p) = <<PortOf[s], s>>
    BY <2>2, <1>5, Unmixed, Kinds, ZenonT(60)
  <2> QED
    BY <2>1, <2>2, <1>7, Zenon
<1>12. \A p \in P : p \in rep.assets /\ OfPort(p) \in rep.relations /\ AddressOf[p] \in rep.assets
  BY <1>4, <1>7, Zenon DEF OfPort
<1>13. \A e \in Endpoints : OfEndpoint(e) \notin rep.relations
  <2> SUFFICES ASSUME NEW e \in Endpoints, OfEndpoint(e) \in rep.relations
               PROVE  FALSE
    BY Zenon
  <2>0. e \notin Services /\ e \notin Ports
    BY Kinds, Zenon
  <2>1. CASE \E q \in P : OfEndpoint(e) = <<AddressOf[q], q>>
    <3>1. PICK q \in P : OfEndpoint(e) = <<AddressOf[q], q>>
      BY <2>1, Zenon
    <3>2. e = q
      BY <3>1, Unmixed, Zenon
    <3> QED
      BY <3>2, <2>0, <1>4, Zenon
  <2>2. CASE \E s \in T : OfEndpoint(e) = <<PortOf[s], s>>
    <3>1. PICK s \in T : OfEndpoint(e) = <<PortOf[s], s>>
      BY <2>2, Zenon
    <3>2. e = s
      BY <3>1, Unmixed, Zenon
    <3> QED
      BY <3>2, <2>0, <1>5, Zenon
  <2> QED
    BY <2>1, <2>2, <1>7, Zenon
<1>14. rep.assets \subseteq Assets /\ rep.found \subseteq Findings
  BY <1>4, <1>5, <1>7, <1>8, Apart, Zenon
<1>15. \A p \in Ports : (p \in rep.assets <=> OfPort(p) \in rep.relations) /\ (p \in rep.assets => AddressOf[p] \in rep.assets)
  BY <1>10, <1>11, <1>12, Zenon
<1> QED
  BY <1>9, <1>13, <1>14, <1>15, Zenon DEF Sighting

\* Every report holds these together.
LEMMA Sightings ==
  ASSUME NEW sensor \in Sensors, NEW targets, Aims(sensor, targets), setup \in Setups, NEW rep \in reports(sensor, targets)
  PROVE  Sighting(sensor, rep)
<1>1. CASE sensor = "dnsx"
  BY <1>1, dnsxSighting DEF reports
<1>2. CASE sensor = "naabu"
  BY <1>2, naabuSighting DEF reports
<1>3. CASE sensor = "httpx"
  BY <1>3, httpxSighting DEF reports
<1>4. CASE sensor = "nuclei"
  BY <1>4, nucleiSighting DEF reports
<1>5. CASE sensor = "shodan"
  BY <1>5, shodanSighting DEF reports
<1> QED
  BY <1>1, <1>2, <1>3, <1>4, <1>5, Zenon DEF Sensors

-----------------------------------------------------------------------------
(* Coverage, by sensor.                                                    *)

\* What connects a with the name, address or port it was found at.
Tracked(w, a) == a \in Names \/ \E r \in Active(w, Owned) : r[2] = a

\* What the coverage of a complete result does to assets.
Settles(w, v, cov, seen) ==
    /\ Ebbs(w, v, seen)
    /\ \A a \in Assets : \/ v[a].missed = w[a].missed
                         \/ a \in cov \ seen /\ w[a].state = "active" /\ v[a].missed = Count(w[a], Threshold[a])
    /\ \A a \in cov \ seen : w[a].state = "active" /\ Tracked(w, a) =>
          v[a].state = "inactive" \/ (v[a].missed = Count(w[a], Threshold[a]) /\ v[a].missed < Threshold[a])
    /\ Justified(w, v, cov \ seen)

\* Reasons hold for a larger coverage.
LEMMA JustifiedMore ==
  ASSUME NEW w, NEW v, NEW X, NEW Y, X \subseteq Y, Justified(w, v, X)
  PROVE  Justified(w, v, Y)
BY Zenon DEF Justified, Reason

\* resolve_unobserved only closes findings.
Closes(w, v, seen) == Ebbs(w, v, seen) /\ \A i \in Assets \union Relations : v[i] = w[i]

\* resolve_unobserved touches findings only.
LEMMA UnobservedStep ==
  ASSUME NEW w, Table(w), NEW S, NEW sensor, NEW found, NEW v, v = resolve_unobserved(w, S, sensor, found), NEW seen
  PROVE  Closes(w, v, seen)
<1> DEFINE M == {f \in Findings \ found : On[f] \in S /\ Source[f] = sensor /\ w[f].state \in OPEN_FINDING_STATES}
           N(i) == [state |-> IF Count(w[i], FindingThreshold) >= FindingThreshold THEN "remediated" ELSE w[i].state,
                    missed |-> Count(w[i], FindingThreshold)]
<1>1. v = [i \in Ids |-> IF i \notin M THEN w[i] ELSE N(i)]
  BY Zenon DEF resolve_unobserved
<1>2. M \subseteq Findings /\ \A f \in M : w[f].state \in OPEN_FINDING_STATES
  BY Zenon
<1>3. ASSUME NEW f \in M
      PROVE  N(f) \in Row /\ (N(f).state = w[f].state \/ N(f).state = "remediated")
  <2>1. w[f] \in Row /\ FindingThreshold \in Nat
    BY <1>2, Apart, Counters, AttackSurfaceAssumption, Zenon
  <2>2. Count(w[f], FindingThreshold) \in Nat
    BY <2>1, CountRow, Zenon
  <2>3. w[f].state \in {"absent", "active", "inactive"} \union FindingStatus /\ "remediated" \in FindingStatus
    BY <2>1 DEF Row, FindingStatus
  <2> QED
    BY <2>2, <2>3 DEF Row
<1> HIDE DEF M, N
<1>4. \A i \in Assets \union Relations : v[i] = w[i]
  BY <1>1, <1>2, Apart, Zenon
<1>5. v \in [Ids -> Row]
  <2>1. \A i \in Ids : (IF i \notin M THEN w[i] ELSE N(i)) \in Row
    BY <1>3, Counters, Zenon
  <2> QED
    BY <1>1, <2>1, Zenon
<1>6. \A f \in Findings : v[f].state = w[f].state \/ (w[f].state \in OPEN_FINDING_STATES /\ v[f].state = "remediated")
  BY <1>1, <1>2, <1>3, Apart, ZenonT(60)
<1>7. Table(v)
  <2>1. "remediated" \in FindingStatus
    BY DEF FindingStatus
  <2> QED
    BY <1>4, <1>5, <1>6, <2>1, Zenon DEF Table
<1>8. \A i \in Assets \union Relations : v[i].missed >= w[i].missed
  <2>1. \A i \in Assets \union Relations : w[i].missed \in Nat
    BY Counters, Apart, Zenon
  <2> QED
    BY <2>1, <1>4
<1>9. \A f \in Findings : ~Loses(w, v, On[f])
  <2>1. "active" # "inactive"
    OBVIOUS
  <2> QED
    BY <2>1, <1>4, Apart, Zenon DEF Loses
<1> QED
  BY <1>4, <1>6, <1>7, <1>8, <1>9, Zenon DEF Ebbs, Closes

\* resolve_unobserved as the whole coverage of nuclei and shodan.
LEMMA UnobservedSettles ==
  ASSUME NEW w, Table(w), NEW S, NEW sensor, NEW found, NEW v, v = resolve_unobserved(w, S, sensor, found), NEW seen
  PROVE  Settles(w, v, {}, seen) /\ (PortsHold(w) => PortsHold(v))
<1>1. Ebbs(w, v, seen) /\ \A i \in Assets \union Relations : v[i] = w[i]
  <2>1. Closes(w, v, seen)
    BY UnobservedStep, Zenon
  <2> QED
    BY <2>1, Zenon DEF Closes
<1>2. Justified(w, v, {} \ seen)
  <2>1. "active" # "inactive"
    OBVIOUS
  <2> QED
    BY <2>1, <1>1, Zenon DEF Justified, Loses
<1>3. \A p \in Ports : v[p] = w[p] /\ v[OfPort(p)] = w[OfPort(p)]
  BY <1>1, PortRelation, Apart, Zenon
<1> QED
  BY <1>1, <1>2, <1>3, Zenon DEF Settles, PortsHold

\* Names covered by dnsx: their misses disturb no port.
LEMMA MissesPorts ==
  ASSUME NEW w, Table(w), NEW S, S \subseteq Names, NEW seen, NEW v, Misses(w, v, S, seen), PortsHold(w),
         \A p \in Ports \intersect seen : AddressOf[p] \in seen
  PROVE  PortsHold(v)
<1> SUFFICES ASSUME NEW p \in Ports, v[p].state = "active"
             PROVE  v[OfPort(p)].state = "active" /\ v[OfPort(p)].missed =< v[p].missed
  BY Zenon DEF PortsHold
<1>1. p \in Assets /\ p \notin S /\ OfPort(p) \in Relations /\ OfPort(p) \notin S
  BY Kinds, Apart, PortRelation, Zenon
<1>2. v[p].missed = w[p].missed /\ v[OfPort(p)].missed = w[OfPort(p)].missed
  BY <1>1, Zenon DEF Misses, Active
<1>3. w[p].state = "active"
  BY <1>1, Zenon DEF Misses, Ebbs, Loses
<1>4. w[OfPort(p)].state = "active" /\ w[OfPort(p)].missed =< w[p].missed
  BY <1>3, Zenon DEF PortsHold
<1>5. ~Loses(w, v, OfPort(p))
  <2>1. "active" # "inactive"
    OBVIOUS
  <2> QED
    BY <2>1, Zenon DEF Misses
<1>6. v[OfPort(p)].state = "active"
  BY <1>1, <1>4, <1>5, Zenon DEF Misses, Ebbs
<1> QED
  BY <1>2, <1>4, <1>6, Zenon

\* A report as coverage sees it.
Seeing(rep) ==
    /\ \A p \in Ports : p \in rep.assets => AddressOf[p] \in rep.assets
    /\ \A p \in Ports : p \in rep.assets => OfPort(p) \in rep.relations
    /\ \A p \in Ports : OfPort(p) \in rep.relations => p \in rep.assets
    /\ \A e \in Endpoints : OfEndpoint(e) \in rep.relations => e \in rep.assets

\* _apply_relation_coverage by relations R that lead to the children cov.
LeadsTo(R, rep, cov) ==
    /\ R \subseteq Relations /\ \A r \in R : r[2] \in cov \union Addresses
    /\ cov \intersect (Names \union Addresses) = {}
    /\ \A a \in cov \ rep.assets : \A r \in Owned : r[2] = a => r \in R /\ r \notin rep.relations

\* _apply_relation_coverage as the coverage of a sensor.
LEMMA ParentsSettle ==
  ASSUME NEW w, Table(w), NEW R, NEW rep, Seeing(rep), NEW cov, LeadsTo(R, rep, cov), NEW v,
         v = RelationCoverage(w, R, rep.relations, rep.assets)
  PROVE  Settles(w, v, cov, rep.assets) /\ (RelationsLast /\ PortsHold(w) => PortsHold(v))
<1> DEFINE M == Active(w, R) \ rep.relations
           K == {r[2] : r \in M} \ Addresses
<1>1. PICK c, U, d : Recovers(w, v, M, rep.assets, c, U, d)
  <2>1. R \subseteq Relations
    BY Zenon DEF LeadsTo
  <2> QED
    BY <2>1, RelationParts, Zenon
<1>2. M \subseteq Active(w, Relations) /\ M \subseteq R
  BY Zenon DEF Active, LeadsTo
<1>3. K \subseteq cov
  BY <1>2, Zenon DEF LeadsTo
<1>4. Covers(w, v, K, rep.assets)
  <2> HIDE DEF M
  <2> QED
    BY <1>1, <1>2, RelationStep, Zenon
<1>5. ASSUME NEW a \in cov \ rep.assets, w[a].state = "active", Tracked(w, a)
      PROVE  a \in K
  <2>1. PICK r \in Active(w, Owned) : r[2] = a
    BY <1>5, Zenon DEF Tracked, LeadsTo
  <2>2. r \in M /\ r[2] \notin Addresses
    BY <2>1, Zenon DEF Active, LeadsTo
  <2> QED
    BY <2>1, <2>2, Zenon
<1>6. Settles(w, v, cov, rep.assets)
  <2> HIDE DEF K
  <2>1. Justified(w, v, cov \ rep.assets)
    <3>1. K \ rep.assets \subseteq cov \ rep.assets
      BY <1>3, Zenon
    <3>2. Justified(w, v, K \ rep.assets)
      BY <1>4, Zenon DEF Covers
    <3> QED
      BY <3>1, <3>2, JustifiedMore, Zenon
  <2>2. \A a \in cov \ rep.assets : w[a].state = "active" /\ Tracked(w, a) =>
          v[a].state = "inactive" \/ (v[a].missed = Count(w[a], Threshold[a]) /\ v[a].missed < Threshold[a])
    BY <1>4, <1>5, Zenon DEF Covers
  <2>3. ASSUME NEW a \in Assets
        PROVE  \/ v[a].missed = w[a].missed
               \/ a \in cov \ rep.assets /\ w[a].state = "active" /\ v[a].missed = Count(w[a], Threshold[a])
    <3>1. \/ v[a].missed = w[a].missed
          \/ a \in K \ rep.assets /\ w[a].state = "active" /\ v[a].missed = Count(w[a], Threshold[a])
      BY <1>4, Zenon DEF Covers
    <3> QED
      BY <1>3, <3>1, Zenon
  <2> QED
    BY <1>4, <2>1, <2>2, <2>3, Zenon DEF Settles, Covers
<1>7. ASSUME RelationsLast, PortsHold(w)
      PROVE  PortsHold(v)
  <2>1. \A p \in Ports : OfPort(p) \in M => p \notin rep.assets
    BY Zenon DEF Seeing
  <2>2. \A p \in Ports \intersect rep.assets : AddressOf[p] \in rep.assets
    BY Zenon DEF Seeing
  <2> HIDE DEF M
  <2>3. PortsSeen(M, rep.assets)
    BY <2>1, <2>2, Zenon DEF PortsSeen
  <2> QED
    BY <1>1, <1>2, <1>7, <2>3, RelationPorts, Zenon
<1> QED
  BY <1>6, <1>7, Zenon

\* A report sees ports and endpoints with their relations.
LEMMA SightingSeeing == \A sensor, rep : Sighting(sensor, rep) => Seeing(rep)
BY Zenon DEF Sighting, Seeing

\* Coverage by names.
LEMMA dnsxSettles ==
  ASSUME NEW w, Table(w), NEW targets, targets \subseteq Names, NEW rep, Seeing(rep), NEW R,
         R = {r \in resolves_to : r[1] \in targets},
         NEW v, v = RelationCoverage(Missed(w, targets, rep.assets), R, rep.relations, rep.assets)
  PROVE  Settles(w, v, targets, rep.assets) /\ (RelationsLast /\ PortsHold(w) => PortsHold(v))
<1>0. PICK u : u = Missed(w, targets, rep.assets)
  BY Zenon
<1>1. targets \subseteq Assets
  BY Apart, Zenon
<1>2. Misses(w, u, targets, rep.assets)
  BY <1>0, <1>1, MissedStep, Zenon
<1>3. Table(u)
  BY <1>2, Zenon DEF Misses, Ebbs
<1>4. R \subseteq Relations /\ \A r \in R : r[2] \in {} \union Addresses
  <2>1. \A r \in resolves_to : r[2] \in Addresses
    BY DEF resolves_to
  <2> QED
    BY <2>1, Apart, Zenon
<1>5. v = RelationCoverage(u, R, rep.relations, rep.assets)
  BY <1>0, Zenon
<1>6. Settles(u, v, {}, rep.assets) /\ (RelationsLast /\ PortsHold(u) => PortsHold(v))
  <2>1. LeadsTo(R, rep, {})
    BY <1>4, Zenon DEF LeadsTo
  <2> QED
    BY <2>1, <1>3, <1>5, ParentsSettle, Zenon
<1>7. Ebbs(w, u, rep.assets) /\ Ebbs(u, v, rep.assets)
  BY <1>2, <1>6, Zenon DEF Misses, Settles
<1>8. Ebbs(w, v, rep.assets)
  BY <1>7, EbbsTrans, Zenon
<1>9. \A a \in Assets : v[a].missed = u[a].missed
  BY <1>6, Zenon DEF Settles
<1>10. ASSUME NEW a \in Assets
       PROVE  \/ v[a].missed = w[a].missed
              \/ a \in targets \ rep.assets /\ w[a].state = "active" /\ v[a].missed = Count(w[a], Threshold[a])
  <2>1. CASE a \in Active(w, targets) \ rep.assets
    BY <2>1, <1>2, <1>9, Zenon DEF Misses, Active
  <2>2. CASE a \notin Active(w, targets) \ rep.assets
    BY <2>2, <1>2, <1>9, Zenon DEF Misses
  <2> QED
    BY <2>1, <2>2, Zenon
<1>11. ASSUME NEW a \in targets \ rep.assets, w[a].state = "active"
       PROVE  v[a].state = "inactive" \/ (v[a].missed = Count(w[a], Threshold[a]) /\ v[a].missed < Threshold[a])
  <2>1. a \in Active(w, targets) \ rep.assets /\ a \in Assets
    BY <1>11, <1>1, Zenon DEF Active
  <2>2. u[a].missed = Count(w[a], Threshold[a]) /\ (u[a].missed < Threshold[a] \/ u[a].state = "inactive")
    BY <2>1, <1>2, Zenon DEF Misses
  <2>3. u[a].state = "inactive" => v[a].state = "inactive"
    BY <2>1, <1>7, Zenon DEF Ebbs, Loses
  <2>4. v[a].missed = u[a].missed
    BY <2>1, <1>9, Zenon
  <2> QED
    BY <2>2, <2>3, <2>4, Zenon
<1>12. Justified(w, v, targets \ rep.assets)
  <2>1. Justified(w, u, targets \ rep.assets)
    BY <1>2, Zenon DEF Misses, Justified, Reason
  <2>2. Justified(u, v, {} \ rep.assets)
    BY <1>6, Zenon DEF Settles
  <2>3. Justified(u, v, targets \ rep.assets)
    BY <2>2, JustifiedMore, Zenon
  <2> QED
    BY <2>1, <2>3, <1>7, JustifiedTrans, Zenon
<1>13. Settles(w, v, targets, rep.assets)
  BY <1>8, <1>10, <1>11, <1>12, Zenon DEF Settles
<1>14. ASSUME PortsHold(w)
       PROVE  PortsHold(u)
  <2>1. \A p \in Ports \intersect rep.assets : AddressOf[p] \in rep.assets
    BY Zenon DEF Seeing
  <2> QED
    BY <2>1, <1>2, <1>14, MissesPorts, Zenon
<1> QED
  BY <1>6, <1>13, <1>14, Zenon

\* Coverage by addresses.
naabuCovers(R, cov, targets) == R = {r \in has_port : r[1] \in targets} /\ cov = {p \in Ports : AddressOf[p] \in targets}

\* The coverage of naabu.
LEMMA naabuSettles ==
  ASSUME NEW w, Table(w), NEW targets, NEW rep, Seeing(rep), NEW R, NEW cov, naabuCovers(R, cov, targets),
         NEW v, v = RelationCoverage(w, R, rep.relations, rep.assets)
  PROVE  Settles(w, v, cov, rep.assets) /\ (RelationsLast /\ PortsHold(w) => PortsHold(v))
<1>1. \A r \in has_port : r \in Owned /\ r[2] \in Ports /\ r[1] = AddressOf[r[2]]
  BY DEF has_port, Owned
<1>2. R \subseteq Relations /\ \A r \in R : r[2] \in cov \union Addresses
  BY <1>1, Apart, Zenon DEF naabuCovers
<1>3. cov \intersect (Names \union Addresses) = {}
  BY Kinds, Zenon DEF naabuCovers
<1>4. ASSUME NEW a \in cov \ rep.assets, NEW r \in Owned, r[2] = a
      PROVE  r \in R /\ r \notin rep.relations
  <2>1. a \in Ports /\ AddressOf[a] \in targets
    BY Zenon DEF naabuCovers
  <2>2. r = OfPort(a)
    BY <1>4, <2>1, OwnedPairs, Zenon
  <2>3. r \notin rep.relations
    BY <2>1, <2>2, Zenon DEF Seeing
  <2>4. r \in has_port /\ r[1] = AddressOf[a]
    BY <2>1, <2>2, PortRelation, Zenon
  <2> QED
    BY <2>1, <2>3, <2>4, Zenon DEF naabuCovers
<1>5. LeadsTo(R, rep, cov)
  BY <1>2, <1>3, <1>4, Zenon DEF LeadsTo
<1>6. v = RelationCoverage(w, R, rep.relations, rep.assets)
  OBVIOUS
<1>7. Settles(w, v, cov, rep.assets)
  BY <1>5, <1>6, ParentsSettle, Zenon
<1>8. RelationsLast /\ PortsHold(w) => PortsHold(v)
  BY <1>5, <1>6, ParentsSettle, Zenon
<1> QED
  BY <1>7, <1>8, Zenon

\* Coverage by hosts.
httpxCovers(R, cov, targets) == R = {r \in serves : r[1] \in targets} /\ cov = {e \in Endpoints : HostOf[e] \in targets}

\* The coverage of httpx.
LEMMA httpxSettles ==
  ASSUME NEW w, Table(w), NEW targets, NEW rep, Seeing(rep), NEW R, NEW cov, httpxCovers(R, cov, targets),
         NEW v, v = RelationCoverage(w, R, rep.relations, rep.assets)
  PROVE  Settles(w, v, cov, rep.assets) /\ (RelationsLast /\ PortsHold(w) => PortsHold(v))
<1>1. \A r \in serves : r \in Owned /\ r[2] \in Endpoints /\ r[1] = HostOf[r[2]]
  BY DEF serves, Owned
<1>2. R \subseteq Relations /\ \A r \in R : r[2] \in cov \union Addresses
  BY <1>1, Apart, Zenon DEF httpxCovers
<1>3. cov \intersect (Names \union Addresses) = {}
  BY Kinds, Zenon DEF httpxCovers
<1>4. ASSUME NEW a \in cov \ rep.assets, NEW r \in Owned, r[2] = a
      PROVE  r \in R /\ r \notin rep.relations
  <2>1. a \in Endpoints /\ HostOf[a] \in targets
    BY Zenon DEF httpxCovers
  <2>2. r = OfEndpoint(a)
    BY <1>4, <2>1, OwnedPairs, Zenon
  <2>3. r \notin rep.relations
    BY <2>1, <2>2, Zenon DEF Seeing
  <2>4. r \in serves
    BY <2>1, <2>2, Zenon DEF serves, OfEndpoint
  <2>5. r[1] = HostOf[a]
    BY <2>2, Pairs, Zenon DEF OfEndpoint
  <2> QED
    BY <2>1, <2>3, <2>4, <2>5, Zenon DEF httpxCovers
<1>5. LeadsTo(R, rep, cov)
  BY <1>2, <1>3, <1>4, Zenon DEF LeadsTo
<1>6. v = RelationCoverage(w, R, rep.relations, rep.assets)
  OBVIOUS
<1>7. Settles(w, v, cov, rep.assets)
  BY <1>5, <1>6, ParentsSettle, Zenon
<1>8. RelationsLast /\ PortsHold(w) => PortsHold(v)
  BY <1>5, <1>6, ParentsSettle, Zenon
<1> QED
  BY <1>7, <1>8, Zenon

\* Whatever the sensor.
LEMMA CoveredSettles ==
  ASSUME NEW w, Table(w), NEW sensor \in Sensors, NEW targets, Aims(sensor, targets), NEW rep, Seeing(rep),
         NEW v, v = Covered(w, sensor, targets, rep)
  PROVE  Settles(w, v, covered(sensor, targets), rep.assets) /\ (RelationsLast /\ PortsHold(w) => PortsHold(v))
<1>1. CASE sensor = "dnsx"
  <2>1. targets \subseteq Names
    BY <1>1 DEF Aims
  <2>2. covered(sensor, targets) = targets
    BY <1>1 DEF covered
  <2>3. PICK R : R = {r \in resolves_to : r[1] \in targets}
    BY Zenon
  <2>4. v = RelationCoverage(Missed(w, targets, rep.assets), R, rep.relations, rep.assets)
    BY <1>1, <2>3 DEF Covered
  <2> QED
    BY <2>1, <2>2, <2>3, <2>4, dnsxSettles, Zenon
<1>2. CASE sensor = "naabu"
  <2>1. PICK cov : cov = {p \in Ports : AddressOf[p] \in targets}
    BY Zenon
  <2>2. covered(sensor, targets) = cov
    BY <1>2, <2>1 DEF covered
  <2>3. PICK R : R = {r \in has_port : r[1] \in targets}
    BY Zenon
  <2>4. v = RelationCoverage(w, R, rep.relations, rep.assets)
    BY <1>2, <2>3 DEF Covered
  <2> QED
    <3>1. naabuCovers(R, cov, targets)
      BY <2>1, <2>3, Zenon DEF naabuCovers
    <3> QED
      BY <3>1, <2>2, <2>4, naabuSettles, Zenon
<1>3. CASE sensor = "httpx"
  <2>1. PICK cov : cov = {e \in Endpoints : HostOf[e] \in targets}
    BY Zenon
  <2>2. covered(sensor, targets) = cov
    BY <1>3, <2>1 DEF covered
  <2>3. PICK R : R = {r \in serves : r[1] \in targets}
    BY Zenon
  <2>4. v = RelationCoverage(w, R, rep.relations, rep.assets)
    BY <1>3, <2>3 DEF Covered
  <2> QED
    <3>1. httpxCovers(R, cov, targets)
      BY <2>1, <2>3, Zenon DEF httpxCovers
    <3> QED
      BY <3>1, <2>2, <2>4, httpxSettles, Zenon
<1>4. CASE sensor = "nuclei"
  <2>1. covered(sensor, targets) = {}
    BY <1>4 DEF covered
  <2>2. v = resolve_unobserved(w, targets, "nuclei", rep.found)
    BY <1>4 DEF Covered
  <2> QED
    BY <2>1, <2>2, UnobservedSettles, Zenon
<1>5. CASE sensor = "shodan"
  <2>1. covered(sensor, targets) = {}
    BY <1>5 DEF covered
  <2>2. v = resolve_unobserved(w, rep.assets, "shodan", rep.found)
    BY <1>5 DEF Covered
  <2> QED
    BY <2>1, <2>2, UnobservedSettles, Zenon
<1> QED
  BY <1>1, <1>2, <1>3, <1>4, <1>5, Zenon DEF Sensors

-----------------------------------------------------------------------------
(* A whole ingestion.                                                      *)

\* A sighting that counts.
Seen(o, res, a) == a \in res.seen /\ (res.live \/ o[a].state = "absent")

Decided == {"accepted_risk", "false_positive"}

\* What the observations of a result do to the rows o.
Sees(o, w, rep, res) ==
    /\ Table(w)
    /\ \A a \in Assets : Seen(o, res, a) => w[a].state = "active" /\ w[a].missed = 0
    /\ \A a \in Assets : ~Seen(o, res, a) => w[a].state = o[a].state /\ w[a].missed = o[a].missed
    /\ \A r \in Relations : r \notin rep.relations => w[r].state = o[r].state /\ w[r].missed = o[r].missed
    /\ \A r \in rep.relations : w[r].state = "active"
    /\ \A r \in rep.relations : w[r].missed = IF res.live \/ o[r].state = "absent" THEN 0 ELSE o[r].missed
    /\ \A f \in Findings : o[f].state \in Decided => w[f].state = o[f].state

\* _apply_asset and _upsert_relations on one row.
LEMMA ObserveRow ==
  ASSUME NEW row \in Row, NEW live \in BOOLEAN
  PROVE  /\ apply_asset(row, live) \in Row
         /\ live \/ row.state = "absent" => apply_asset(row, live).state = "active" /\ apply_asset(row, live).missed = 0
         /\ ~(live \/ row.state = "absent") => apply_asset(row, live) = row
         /\ upsert_relation(row, live) \in Row
         /\ upsert_relation(row, live).state = "active"
         /\ upsert_relation(row, live).missed = IF live \/ row.state = "absent" THEN 0 ELSE row.missed
BY DEF Row, apply_asset, upsert_relation

\* upsert_observation on one row: a decision stays.
LEMMA ReportRow ==
  ASSUME NEW row \in Row, row.state \in FindingStatus \union {"absent"}
  PROVE  /\ upsert_observation(row) \in Row
         /\ upsert_observation(row).state \in FindingStatus
         /\ row.state \in Decided => upsert_observation(row).state = row.state
BY DEF Row, upsert_observation, FindingStatus, OPEN_FINDING_STATES, Decided

\* The observations of a result.
LEMMA ObserveStep ==
  ASSUME NEW o, Table(o), NEW sensor, NEW rep, Sighting(sensor, rep), NEW res, res.seen = rep.assets, res.live \in BOOLEAN,
         NEW w, w = Report(Observe(o, rep.assets, rep.relations, res.live), rep.found)
  PROVE  Sees(o, w, rep, res)
<1>f. [state |-> "active", missed |-> 0].state = "active" /\ [state |-> "active", missed |-> 0].missed = 0
  OBVIOUS
<1>s. rep.assets \subseteq Assets /\ rep.relations \subseteq Relations /\ rep.found \subseteq Findings
  BY Zenon DEF Sighting
<1>0. PICK u : u = Observe(o, rep.assets, rep.relations, res.live)
  BY Zenon
<1>1. u = [i \in Ids |-> IF i \in rep.assets THEN apply_asset(o[i], res.live)
                         ELSE IF i \in rep.relations THEN upsert_relation(o[i], res.live) ELSE o[i]]
  BY <1>0, Zenon DEF Observe
<1>2. w = [i \in Ids |-> IF i \in rep.found THEN upsert_observation(u[i]) ELSE u[i]]
  BY <1>0, Zenon DEF Report
<1>3. \A i \in Ids : o[i] \in Row
  BY Counters, Zenon
<1>4. \A i \in Ids : u[i] \in Row
  BY <1>1, <1>3, ObserveRow, Zenon
<1>5. \A f \in Findings : u[f] = o[f]
  BY <1>1, <1>s, Apart, Zenon
<1>6. ASSUME NEW f \in Findings
      PROVE  /\ w[f] \in Row
             /\ w[f].state \in FindingStatus \union {"absent"}
             /\ o[f].state \in Decided => w[f].state = o[f].state
  <2>1. f \in Ids /\ o[f] \in Row /\ o[f].state \in FindingStatus \union {"absent"}
    BY <1>3, Apart, Zenon DEF Table
  <2>2. w[f] = IF f \in rep.found THEN upsert_observation(o[f]) ELSE o[f]
    BY <2>1, <1>2, <1>5, Zenon
  <2> QED
    BY <2>1, <2>2, ReportRow, Zenon
<1>7. \A i \in Assets \union Relations : w[i] = u[i]
  BY <1>2, <1>s, Apart, Zenon
<1>8. w \in [Ids -> Row]
  <2>1. \A i \in Ids : w[i] \in Row
    BY <1>4, <1>6, <1>7, Zenon DEF Ids
  <2>2. w = [i \in Ids |-> w[i]]
    BY <1>2, Zenon
  <2> QED
    BY <2>1, <2>2, Zenon
<1>9. ASSUME NEW a \in Assets
      PROVE  /\ Seen(o, res, a) => w[a].state = "active" /\ w[a].missed = 0
             /\ ~Seen(o, res, a) => w[a] = o[a]
  <2>1. a \in Ids /\ a \notin rep.relations /\ o[a] \in Row
    BY <1>s, <1>3, Apart, Zenon
  <2>2. w[a] = IF a \in rep.assets THEN apply_asset(o[a], res.live) ELSE o[a]
    BY <2>1, <1>1, <1>7, Zenon
  <2>3. /\ res.live \/ o[a].state = "absent" => apply_asset(o[a], res.live).state = "active" /\ apply_asset(o[a], res.live).missed = 0
        /\ ~(res.live \/ o[a].state = "absent") => apply_asset(o[a], res.live) = o[a]
    BY <1>f, Zenon DEF apply_asset
  <2> QED
    BY <2>2, <2>3, Zenon DEF Seen
<1>10. ASSUME NEW r \in Relations
       PROVE  /\ r \notin rep.relations => w[r] = o[r]
              /\ r \in rep.relations => /\ w[r].state = "active"
                                        /\ w[r].missed = IF res.live \/ o[r].state = "absent" THEN 0 ELSE o[r].missed
  <2>1. r \in Ids /\ r \notin rep.assets /\ o[r] \in Row
    BY <1>s, <1>3, Apart, Zenon
  <2>2. w[r] = IF r \in rep.relations THEN upsert_relation(o[r], res.live) ELSE o[r]
    BY <2>1, <1>1, <1>7, Zenon
  <2>3. /\ upsert_relation(o[r], res.live).state = "active"
        /\ upsert_relation(o[r], res.live).missed = IF res.live \/ o[r].state = "absent" THEN 0 ELSE o[r].missed
    <3>1. [o[r] EXCEPT !.state = "active"].state = "active" /\ [o[r] EXCEPT !.state = "active"].missed = o[r].missed
      BY <2>1 DEF Row
    <3> QED
      BY <3>1, <1>f, Zenon DEF upsert_relation
  <2> QED
    BY <2>2, <2>3, Zenon
<1>11. \A i \in Assets \union Relations : w[i].state \notin FindingStatus
  <2>1. "active" \notin FindingStatus
    BY DEF FindingStatus, OPEN_FINDING_STATES
  <2>2. \A a \in Assets : w[a].state = "active" \/ w[a].state = o[a].state
    BY <1>9, Zenon
  <2>3. \A r \in Relations : w[r].state = "active" \/ w[r].state = o[r].state
    BY <1>10, Zenon
  <2> QED
    BY <2>1, <2>2, <2>3, Zenon DEF Table
<1>12. Table(w)
  BY <1>6, <1>8, <1>11, Zenon DEF Table
<1> QED
  BY <1>s, <1>6, <1>9, <1>10, <1>12, Zenon DEF Sees

\* A result without coverage changes nothing more.
LEMMA SettlesNothing ==
  ASSUME NEW w, Table(w), NEW seen
  PROVE  Settles(w, w, {}, seen)
<1>1. \A i : ~Loses(w, w, i)
  <2>1. "active" # "inactive"
    OBVIOUS
  <2> QED
    BY <2>1, Zenon DEF Loses
<1>2. \A i \in Assets \union Relations : w[i].missed >= w[i].missed
  <2>1. \A i \in Assets \union Relations : w[i].missed \in Nat
    BY Counters, Apart, Zenon
  <2> QED
    BY <2>1
<1> QED
  BY <1>1, <1>2, Zenon DEF Settles, Ebbs, Justified

\* What an ingestion makes of the rows it read.
Ingested(o, n, res) ==
    /\ Table(n)
    /\ \A f \in Findings : o[f].state \in Decided => n[f].state = o[f].state
    /\ \A f \in Findings : Loses(o, n, On[f]) => n[f].state \notin OPEN_FINDING_STATES
    /\ \A a \in Assets : Seen(o, res, a) => n[a].state = "active" /\ n[a].missed = 0
    /\ \A a \in Assets : ~Seen(o, res, a) => n[a].state = o[a].state \/ Loses(o, n, a)
    /\ \A a \in Assets : ~Seen(o, res, a) =>
          \/ n[a].missed = o[a].missed
          \/ a \in res.covered \ res.seen /\ o[a].state = "active" /\ n[a].missed = Count(o[a], Threshold[a])
    /\ Justified(o, n, res.covered \ res.seen)
    /\ ~res.live => res.covered = {}

\* Observations, then coverage: what an ingestion does.
LEMMA IngestedStep ==
  ASSUME NEW o, Table(o), NEW rep, NEW res, res.seen = rep.assets, NEW w, Sees(o, w, rep, res),
         NEW n, Settles(w, n, res.covered, rep.assets), ~res.live => res.covered = {}
  PROVE  Ingested(o, n, res)
<1>0. Table(w) /\ Table(n) /\ Ebbs(w, n, res.seen) /\ "active" # "inactive"
  BY DEF Sees, Settles, Ebbs
<1>1. \A f \in Findings : o[f].state \in Decided => n[f].state = o[f].state
  <2>1. \A s \in Decided : s \notin OPEN_FINDING_STATES
    BY DEF Decided, OPEN_FINDING_STATES
  <2> QED
    BY <2>1, <1>0, Zenon DEF Sees, Ebbs
<1>2. ASSUME NEW a \in Assets, Seen(o, res, a)
      PROVE  n[a].state = "active" /\ n[a].missed = 0
  <2>1. a \in res.seen /\ w[a].state = "active" /\ w[a].missed = 0
    BY <1>2, Zenon DEF Seen, Sees
  <2> QED
    BY <2>1, <1>0, Zenon DEF Ebbs
<1>3. ASSUME NEW a \in Assets, ~Seen(o, res, a)
      PROVE  w[a].state = o[a].state /\ w[a].missed = o[a].missed /\ Count(w[a], Threshold[a]) = Count(o[a], Threshold[a])
  <2>1. w[a].state = o[a].state /\ w[a].missed = o[a].missed
    BY <1>3, Zenon DEF Sees
  <2> QED
    BY <2>1, Zenon DEF Count
<1>4. ASSUME NEW a \in Assets, ~Seen(o, res, a)
      PROVE  n[a].state = o[a].state \/ Loses(o, n, a)
  <2>1. n[a].state = w[a].state \/ Loses(w, n, a)
    BY <1>0, Zenon DEF Ebbs
  <2> QED
    BY <2>1, <1>3, <1>4, Zenon DEF Loses
<1>5. ASSUME NEW a \in Assets, ~Seen(o, res, a)
      PROVE  \/ n[a].missed = o[a].missed
             \/ a \in res.covered \ res.seen /\ o[a].state = "active" /\ n[a].missed = Count(o[a], Threshold[a])
  <2>1. \/ n[a].missed = w[a].missed
        \/ a \in res.covered \ res.seen /\ w[a].state = "active" /\ n[a].missed = Count(w[a], Threshold[a])
    BY Zenon DEF Settles
  <2> QED
    BY <2>1, <1>3, <1>5, Zenon
<1>6. ASSUME NEW a \in Assets
      PROVE  Loses(o, n, a) <=> Loses(w, n, a)
  <2>1. CASE Seen(o, res, a)
    BY <2>1, <1>0, <1>2, Zenon DEF Loses
  <2>2. CASE ~Seen(o, res, a)
    BY <2>2, <1>3, Zenon DEF Loses
  <2> QED
    BY <2>1, <2>2, Zenon
<1>7. \A f \in Findings : Loses(o, n, On[f]) => n[f].state \notin OPEN_FINDING_STATES
  BY <1>0, <1>6, Apart, Zenon DEF Ebbs
<1>8. Justified(o, n, res.covered \ res.seen)
  <2>1. ASSUME NEW a \in Assets, Loses(o, n, a)
        PROVE  Reason(o, n, a, res.covered \ res.seen)
    <3>1. Reason(w, n, a, res.covered \ res.seen)
      BY <2>1, <1>6, Zenon DEF Settles, Justified
    <3> QED
      BY <3>1, <1>6, Zenon DEF Reason
  <2> QED
    BY <2>1, Zenon DEF Justified
<1> QED
  BY <1>0, <1>1, <1>2, <1>4, <1>5, <1>7, <1>8, ZenonT(60) DEF Ingested

\* A port that is not known has no relation.
PortsAbsent(w) == \A p \in Ports : w[p].state = "absent" => w[OfPort(p)].state = "absent"

\* What an ingestion makes of what is tracked.
Tracks(o, n, res) ==
    /\ \A a \in (res.covered \ res.seen) \intersect Assets : o[a].state = "active" /\ Tracked(o, a) =>
          n[a].state = "inactive" \/ (n[a].missed = Count(o[a], Threshold[a]) /\ n[a].missed < Threshold[a])
    /\ PortsHold(n) /\ PortsAbsent(n)
    /\ \A e \in Endpoints : n[OfEndpoint(e)].state = "active" => o[OfEndpoint(e)].state = "active" \/ Seen(o, res, e)
    /\ res.covered \intersect Services = {}

\* Observations keep ports with their relations.
LEMMA SeesPorts ==
  ASSUME NEW o, Table(o), NEW sensor, NEW rep, Sighting(sensor, rep), NEW res, res.seen = rep.assets, NEW w, Sees(o, w, rep, res),
         PortsHold(o), PortsAbsent(o)
  PROVE  PortsHold(w) /\ PortsAbsent(w)
<1>1. ASSUME NEW p \in Ports
      PROVE  /\ w[p].state = "active" => w[OfPort(p)].state = "active" /\ w[OfPort(p)].missed =< w[p].missed
             /\ w[p].state = "absent" => w[OfPort(p)].state = "absent"
  <2>a. PICK r : r = OfPort(p)
    BY Zenon
  <2>0. p \in Assets /\ p \in Ids /\ r \in Relations /\ r \in Ids /\ w[r].missed \in Nat /\ w[p].missed \in Nat /\ "absent" # "active"
    <3>1. p \in Assets /\ p \in Ids /\ r \in Relations /\ r \in Ids
      BY <2>a, Apart, PortRelation, Zenon
    <3>2. w[r].missed \in Nat /\ w[p].missed \in Nat
      BY <3>1, Counters, Zenon DEF Sees
    <3>3. "absent" # "active"
      OBVIOUS
    <3> QED
      BY <3>1, <3>2, <3>3, Zenon
  <2>h. /\ o[p].state = "active" => o[r].state = "active" /\ o[r].missed =< o[p].missed
        /\ o[p].state = "absent" => o[r].state = "absent"
    BY <2>a, Zenon DEF PortsHold, PortsAbsent
  <2>1. CASE p \notin rep.assets
    <3>1. r \notin rep.relations /\ ~Seen(o, res, p)
      BY <2>1, <2>a, Zenon DEF Sighting, Seen
    <3>2. w[p].state = o[p].state /\ w[p].missed = o[p].missed /\ w[r].state = o[r].state /\ w[r].missed = o[r].missed
      BY <3>1, <2>0, Zenon DEF Sees
    <3> QED
      BY <3>2, <2>h, <2>a, Zenon
  <2>2. CASE p \in rep.assets /\ Seen(o, res, p)
    <3>1. r \in rep.relations
      BY <2>2, <2>a, Zenon DEF Sighting
    <3>2. res.live \/ o[r].state = "absent"
      BY <2>2, <2>h, Zenon DEF Seen
    <3>3. w[r].missed = IF res.live \/ o[r].state = "absent" THEN 0 ELSE o[r].missed
      BY <3>1, Zenon DEF Sees
    <3>4. w[r].state = "active" /\ w[p].state = "active" /\ w[p].missed = 0
      BY <3>1, <2>0, <2>2, Zenon DEF Sees
    <3>5. w[r].missed = 0
      BY <3>2, <3>3, Zenon
    <3>6. w[r].missed =< w[p].missed
      BY <3>4, <3>5
    <3> QED
      BY <3>4, <3>6, <2>0, <2>a, Zenon
  <2>3. CASE p \in rep.assets /\ ~Seen(o, res, p)
    <3>1. r \in rep.relations
      BY <2>3, <2>a, Zenon DEF Sighting
    <3>2. ~res.live /\ o[p].state # "absent"
      BY <2>3, Zenon DEF Seen
    <3>3. w[p].state = o[p].state /\ w[p].missed = o[p].missed /\ w[r].state = "active"
      BY <3>1, <2>3, <2>0, Zenon DEF Sees
    <3>4. w[r].missed = IF res.live \/ o[r].state = "absent" THEN 0 ELSE o[r].missed
      BY <3>1, Zenon DEF Sees
    <3>5. o[p].state = "active" => o[r].state # "absent"
      BY <2>h, <2>0, Zenon
    <3>6. o[p].state = "active" => w[r].missed = o[r].missed
      BY <3>2, <3>4, <3>5, Zenon
    <3> QED
      BY <3>2, <3>3, <3>6, <2>h, <2>a, Zenon
  <2> QED
    BY <2>1, <2>2, <2>3, Zenon
<1> QED
  BY <1>1, Zenon DEF PortsHold, PortsAbsent

\* Observations, then coverage: what an ingestion does to what is tracked.
LEMMA TracksStep ==
  ASSUME NEW o, Table(o), NEW sensor, NEW rep, Sighting(sensor, rep), NEW res, res.seen = rep.assets, NEW w, Sees(o, w, rep, res),
         NEW n, Settles(w, n, res.covered, rep.assets), res.live <=> sensor # "shodan",
         PortsAbsent(o), PortsHold(o), PortsHold(w) => PortsHold(n), res.covered \intersect Services = {}
  PROVE  Tracks(o, n, res)
<1>0. Table(w) /\ Table(n) /\ Ebbs(w, n, res.seen)
  BY Zenon DEF Sees, Settles, Ebbs
<1>1. PortsHold(w) /\ PortsAbsent(w)
  BY SeesPorts, Zenon
<1>2. PortsAbsent(n)
  <2> SUFFICES ASSUME NEW p \in Ports, n[p].state = "absent"
               PROVE  n[OfPort(p)].state = "absent"
    BY ZenonT(60) DEF PortsAbsent
  <2>0. "absent" # "inactive" /\ "absent" # "active"
    OBVIOUS
  <2>1. p \in Assets /\ OfPort(p) \in Relations
    BY Apart, PortRelation, Zenon
  <2>2. w[p].state = "absent"
    BY <2>0, <2>1, <1>0, Zenon DEF Ebbs, Loses
  <2>3. w[OfPort(p)].state = "absent"
    BY <2>2, <1>1, Zenon DEF PortsAbsent
  <2> QED
    BY <2>0, <2>1, <2>3, <1>0, Zenon DEF Ebbs, Loses
<1>3. ASSUME NEW e \in Endpoints, n[OfEndpoint(e)].state = "active", o[OfEndpoint(e)].state # "active"
      PROVE  Seen(o, res, e)
  <2>0. OfEndpoint(e) \in Relations /\ "httpx" # "shodan" /\ "active" # "inactive"
    <3>1. OfEndpoint(e) \in Relations
      BY Apart, EndpointRelation, Zenon
    <3> QED
      BY <3>1
  <2>1. w[OfEndpoint(e)].state = "active"
    BY <2>0, <1>0, <1>3, Zenon DEF Ebbs, Loses
  <2>2. OfEndpoint(e) \in rep.relations
    BY <2>0, <2>1, <1>3, Zenon DEF Sees
  <2>3. sensor = "httpx" /\ e \in rep.assets
    BY <2>2, Zenon DEF Sighting
  <2> QED
    BY <2>0, <2>3, Zenon DEF Seen
<1>4. ASSUME NEW a \in (res.covered \ res.seen) \intersect Assets, o[a].state = "active", Tracked(o, a)
      PROVE  n[a].state = "inactive" \/ (n[a].missed = Count(o[a], Threshold[a]) /\ n[a].missed < Threshold[a])
  <2>1. ~Seen(o, res, a)
    BY Zenon DEF Seen
  <2>2. w[a].state = o[a].state /\ w[a].missed = o[a].missed
    BY <2>1, Zenon DEF Sees
  <2>3. Count(w[a], Threshold[a]) = Count(o[a], Threshold[a])
    BY <2>2, Zenon DEF Count
  <2>4. Tracked(w, a)
    <3>1. \A r \in Active(o, Owned) : r \in Active(w, Owned)
      <4>1. \A r \in Relations : o[r].state = "active" => w[r].state = "active"
        BY Zenon DEF Sees
      <4> QED
        BY <4>1, Apart, Zenon DEF Active
    <3> QED
      BY <3>1, <1>4, Zenon DEF Tracked
  <2>5. n[a].state = "inactive" \/ (n[a].missed = Count(w[a], Threshold[a]) /\ n[a].missed < Threshold[a])
    BY <2>2, <2>4, <1>4, Zenon DEF Settles
  <2> QED
    BY <2>3, <2>5, Zenon
<1> QED
  BY <1>1, <1>2, <1>3, <1>4, Zenon DEF Tracks

-----------------------------------------------------------------------------
(* The inductive invariants.                                               *)

\* Between o and w assets were only retired, as maintenance does; relations stayed.
Quiet(o, w) ==
    /\ \A a \in Assets : w[a].missed = o[a].missed /\ (w[a].state = o[a].state \/ Loses(o, w, a))
    /\ \A r \in Relations : w[r].state = o[r].state /\ w[r].missed = o[r].missed

\* No asset of o is gone from w.
Late(o, w) == \A a \in Assets : w[a].state = "absent" => o[a].state = "absent"

\* What a transaction read, and what it is going to write.
Old(writer) == pending[writer].old
New(writer) == pending[writer].new

\* What every open transaction read and is going to write: maintenance and analysts only
\* retire assets, and nothing but that happened since an ingestion read its rows.  Misses
\* that a row counts are misses of its streak.
SurfaceInv ==
    /\ TypeOK
    /\ result.live \in BOOLEAN
    /\ \A s \in Sensors : Aims(s, job[s])
    /\ \A w \in Writers : pending[w] # None =>
          Table(Old(w)) /\ Table(New(w)) /\ Late(Old(w), rows)
    /\ \A w \in {"maintenance", "analyst"} : pending[w] # None => Quiet(Old(w), New(w))
    /\ pending["ingest"] # None => Ingested(Old("ingest"), New("ingest"), result) /\ Quiet(Old("ingest"), rows)
    /\ \A a \in Assets : rows[a].state = "active" => streak[a] >= rows[a].missed

\* What is connected counts every miss of its streak and is below its threshold.  A port
\* keeps its relation, so that it is connected as long as it is active.
MissInv ==
    /\ PortsHold(rows) /\ PortsAbsent(rows)
    /\ \A a \in Assets : rows[a].state = "active" /\ Tracked(rows, a) => streak[a] =< rows[a].missed /\ rows[a].missed < Threshold[a]
    /\ \A s \in Services : streak[s] = 0
    /\ pending["ingest"] # None => Tracks(Old("ingest"), New("ingest"), result)

\* The rows are a table.
LEMMA RowsTable == TypeOK => Table(rows)
BY Zenon DEF TypeOK, Table

\* A commit changes the columns that the transaction changed.
Merged(o, n, w, v) ==
    /\ Table(v)
    /\ \A i \in Ids : /\ v[i].state = IF n[i].state = o[i].state THEN w[i].state ELSE n[i].state
                      /\ v[i].missed = IF n[i].missed = o[i].missed THEN w[i].missed ELSE n[i].missed

\* Write merges what the transaction changed into the rows as they are now.
LEMMA WriteStep ==
  ASSUME NEW writer \in Writers, NEW seen, Write(writer, seen), Table(rows), Table(Old(writer)), Table(New(writer))
  PROVE  Merged(Old(writer), New(writer), rows, rows')
<1>1. rows' = [i \in Ids |-> [c \in {"state", "missed"} |->
                 IF New(writer)[i][c] = Old(writer)[i][c] THEN rows[i][c] ELSE New(writer)[i][c]]]
  BY Zenon DEF Write, Old, New
<1>2. ASSUME NEW i \in Ids
      PROVE  /\ rows'[i] \in Row
             /\ rows'[i].state = IF New(writer)[i].state = Old(writer)[i].state THEN rows[i].state ELSE New(writer)[i].state
             /\ rows'[i].missed = IF New(writer)[i].missed = Old(writer)[i].missed THEN rows[i].missed ELSE New(writer)[i].missed
  <2>0. PICK o, n, r : o = Old(writer)[i] /\ n = New(writer)[i] /\ r = rows[i]
    OBVIOUS
  <2>1. o \in Row /\ n \in Row /\ r \in Row
    BY <2>0, Counters, Zenon
  <2>2. rows'[i] = [c \in {"state", "missed"} |-> IF n[c] = o[c] THEN r[c] ELSE n[c]]
    BY <1>1, <2>0, Zenon
  <2>3. /\ [c \in {"state", "missed"} |-> IF n[c] = o[c] THEN r[c] ELSE n[c]] \in Row
        /\ [c \in {"state", "missed"} |-> IF n[c] = o[c] THEN r[c] ELSE n[c]].state = IF n.state = o.state THEN r.state ELSE n.state
        /\ [c \in {"state", "missed"} |-> IF n[c] = o[c] THEN r[c] ELSE n[c]].missed = IF n.missed = o.missed THEN r.missed ELSE n.missed
    BY <2>1 DEF Row
  <2> QED
    BY <2>0, <2>2, <2>3, Zenon
<1>3. rows' \in [Ids -> Row]
  BY <1>1, <1>2, Zenon
<1>4. \A i \in Assets \union Relations : rows'[i].state \notin FindingStatus
  BY <1>2, Apart, Zenon DEF Table
<1>5. \A f \in Findings : rows'[f].state \in FindingStatus \union {"absent"}
  BY <1>2, Apart, Zenon DEF Table
<1> QED
  BY <1>2, <1>3, <1>4, <1>5, Zenon DEF Merged, Table

\* Quiet changes add up.
LEMMA QuietTrans ==
  ASSUME NEW o, NEW w, NEW v, Quiet(o, w), Quiet(w, v)
  PROVE  Quiet(o, v)
<1>1. "active" # "inactive"
  OBVIOUS
<1>2. \A a \in Assets : v[a].missed = o[a].missed /\ (v[a].state = o[a].state \/ Loses(o, v, a))
  BY <1>1, Zenon DEF Quiet, Loses
<1> QED
  BY <1>2, Zenon DEF Quiet

\* No change is a quiet change.
LEMMA QuietSelf == \A w : Quiet(w, w) /\ Late(w, w)
BY Zenon DEF Quiet, Late

\* A quiet transaction commits quietly, even when what it read is old.
LEMMA QuietMerge ==
  ASSUME NEW o, NEW n, NEW w, NEW v, Table(w), Quiet(o, n), Late(o, w), Merged(o, n, w, v)
  PROVE  Quiet(w, v) /\ Late(w, v)
<1>0. "active" # "inactive" /\ "absent" # "inactive" /\ "absent" # "active"
  OBVIOUS
<1>1. ASSUME NEW a \in Assets
      PROVE  v[a].missed = w[a].missed /\ (v[a].state = w[a].state \/ Loses(w, v, a))
  <2>0. a \in Ids
    BY Apart, Zenon
  <2>1. v[a].missed = w[a].missed
    BY <2>0, Zenon DEF Quiet, Merged
  <2>2. CASE n[a].state = o[a].state
    BY <2>0, <2>1, <2>2, Zenon DEF Merged
  <2>3. CASE Loses(o, n, a)
    <3>1. v[a].state = "inactive"
      BY <2>0, <2>3, <1>0, Zenon DEF Merged, Loses
    <3>2. w[a].state # "absent"
      BY <2>3, <1>0, Zenon DEF Late, Loses
    <3>3. w[a].state \in {"absent", "active", "inactive"} \union FindingStatus
      BY <2>0, Counters DEF Row
    <3>4. w[a].state \notin FindingStatus
      BY Zenon DEF Table
    <3>5. w[a].state = "active" \/ w[a].state = "inactive"
      BY <3>2, <3>3, <3>4, Zenon
    <3> QED
      BY <2>1, <3>1, <3>5, Zenon DEF Loses
  <2> QED
    BY <2>2, <2>3, Zenon DEF Quiet
<1>2. \A r \in Relations : v[r].state = w[r].state /\ v[r].missed = w[r].missed
  BY Apart, Zenon DEF Quiet, Merged
<1>3. Quiet(w, v)
  BY <1>1, <1>2, Zenon DEF Quiet
<1> QED
  BY <1>0, <1>3, Zenon DEF Quiet, Late, Loses

\* What a commit of writer leaves of the other transactions.
LEMMA Ended ==
  ASSUME NEW writer \in Writers, DOMAIN pending = Writers, pending' = [pending EXCEPT ![writer] = None]
  PROVE  /\ DOMAIN pending' = Writers /\ pending'[writer] = None
         /\ \A w \in Writers : pending'[w] # None => w # writer /\ pending[w] # None /\ Old(w)' = Old(w) /\ New(w)' = New(w)
         /\ \A w \in Writers \ {writer} : pending'[w] = pending[w]
<1>1. DOMAIN pending' = Writers /\ pending'[writer] = None /\ \A w \in Writers \ {writer} : pending'[w] = pending[w]
  BY Zenon
<1> QED
  BY <1>1, Zenon DEF Old, New

\* What a read of writer leaves of the other transactions.
LEMMA Begun ==
  ASSUME NEW writer \in Writers, NEW v, DOMAIN pending = Writers, Read(writer, v)
  PROVE  /\ DOMAIN pending' = Writers
         /\ Old(writer)' = rows /\ New(writer)' = v
         /\ \A w \in Writers \ {writer} : pending'[w] = pending[w] /\ Old(w)' = Old(w) /\ New(w)' = New(w)
<1>1. /\ DOMAIN pending' = Writers /\ pending'[writer] = [old |-> rows, new |-> v]
      /\ \A w \in Writers \ {writer} : pending'[w] = pending[w]
  BY Zenon DEF Read
<1>2. [old |-> rows, new |-> v].old = rows /\ [old |-> rows, new |-> v].new = v
  OBVIOUS
<1> QED
  BY <1>1, <1>2, Zenon DEF Old, New

\* The commits of maintenance and of analysts.
LEMMA QuietCommit ==
  ASSUME SurfaceInv, NEW writer \in {"maintenance", "analyst"}, Write(writer, {}), UNCHANGED <<job, result, streak, setup>>
  PROVE  SurfaceInv' /\ Quiet(rows, rows') /\ pending'["ingest"] = pending["ingest"]
<1>0. /\ writer \in Writers /\ "ingest" \in Writers \ {writer} /\ {"maintenance", "analyst"} \subseteq Writers
      /\ job' = job /\ result' = result /\ streak' = streak /\ setup' = setup
  BY DEF Writers
<1>t. TypeOK
  BY Zenon DEF SurfaceInv
<1>1. Table(rows) /\ pending[writer] # None /\ DOMAIN pending = Writers
  BY <1>t, RowsTable, Zenon DEF TypeOK, Write
<1>2. Table(Old(writer)) /\ Table(New(writer)) /\ Late(Old(writer), rows) /\ Quiet(Old(writer), New(writer))
  BY <1>0, <1>1, Zenon DEF SurfaceInv
<1>3. Merged(Old(writer), New(writer), rows, rows')
  BY <1>0, <1>1, <1>2, WriteStep, Zenon
<1>4. Quiet(rows, rows') /\ Late(rows, rows') /\ Table(rows')
  BY <1>1, <1>2, <1>3, QuietMerge, Zenon DEF Merged
<1>5. pending' = [pending EXCEPT ![writer] = None] /\ stale' \subseteq stale
  BY Zenon DEF Write
<1>6. /\ DOMAIN pending' = Writers
      /\ \A w \in Writers : pending'[w] # None => pending[w] # None /\ Old(w)' = Old(w) /\ New(w)' = New(w)
      /\ pending'["ingest"] = pending["ingest"]
  BY <1>0, <1>1, <1>5, Ended, Zenon
<1>7. TypeOK'
  BY <1>0, <1>t, <1>4, <1>5, <1>6, Zenon DEF TypeOK, Table
<1>8. ASSUME NEW w \in Writers, pending'[w] # None
      PROVE  Table(Old(w)') /\ Table(New(w)') /\ Late(Old(w)', rows')
  <2>1. Table(Old(w)) /\ Table(New(w)) /\ Late(Old(w), rows) /\ Old(w)' = Old(w) /\ New(w)' = New(w)
    BY <1>6, <1>8, Zenon DEF SurfaceInv
  <2>2. Late(Old(w), rows')
    BY <2>1, <1>4, Zenon DEF Late
  <2> QED
    BY <2>1, <2>2, Zenon
<1>9. \A w \in {"maintenance", "analyst"} : pending'[w] # None => Quiet(Old(w)', New(w)')
  BY <1>0, <1>6, Zenon DEF SurfaceInv
<1>10. pending'["ingest"] # None => Ingested(Old("ingest")', New("ingest")', result') /\ Quiet(Old("ingest")', rows')
  <2> SUFFICES ASSUME pending'["ingest"] # None
               PROVE  Ingested(Old("ingest")', New("ingest")', result') /\ Quiet(Old("ingest")', rows')
    BY Zenon
  <2>1. Old("ingest")' = Old("ingest") /\ New("ingest")' = New("ingest") /\ pending["ingest"] # None
    BY <1>0, <1>6, Zenon
  <2>2. Ingested(Old("ingest"), New("ingest"), result) /\ Quiet(Old("ingest"), rows)
    BY <2>1, Zenon DEF SurfaceInv
  <2>3. Quiet(Old("ingest"), rows')
    BY <2>2, <1>4, QuietTrans, Zenon
  <2> QED
    BY <2>1, <2>2, <2>3, <1>0, Zenon
<1>11. ASSUME NEW a \in Assets, rows'[a].state = "active"
       PROVE  streak'[a] >= rows'[a].missed
  <2>1. "active" # "inactive"
    OBVIOUS
  <2>2. rows[a].state = "active" /\ rows'[a].missed = rows[a].missed
    BY <2>1, <1>4, <1>11, Zenon DEF Quiet, Loses
  <2> QED
    BY <2>2, <1>0, Zenon DEF SurfaceInv
<1>12. result'.live \in BOOLEAN /\ \A s \in Sensors : Aims(s, job'[s])
  BY <1>0, Zenon DEF SurfaceInv
<1>13. SurfaceInv'
  BY <1>7, <1>8, <1>9, <1>10, <1>11, <1>12, Zenon DEF SurfaceInv
<1> QED
  BY <1>4, <1>6, <1>13, Zenon

-----------------------------------------------------------------------------
(* SurfaceInv, action by action.                                           *)

\* A transaction that reads the rows and is going to make them v.
Reads(writer, v) ==
    /\ Read(writer, v) /\ Table(v) /\ rows' = rows /\ streak' = streak /\ setup' = setup /\ stale' = stale
    /\ job' \in [Sensors -> SUBSET Assets] /\ \A s \in Sensors : Aims(s, job'[s])
    /\ writer = "ingest" => result'.live \in BOOLEAN /\ Ingested(rows, v, result')
    /\ writer # "ingest" => result' = result /\ Quiet(rows, v)

\* A transaction begins.
LEMMA ReadsStep ==
  ASSUME SurfaceInv, NEW writer \in Writers, NEW v, Reads(writer, v)
  PROVE  SurfaceInv'
<1>0. rows' = rows /\ streak' = streak /\ setup' = setup /\ stale' = stale /\ Table(v) /\ Read(writer, v)
  BY Zenon DEF Reads
<1>t. TypeOK /\ Table(rows) /\ DOMAIN pending = Writers
  BY RowsTable, Zenon DEF SurfaceInv, TypeOK
<1>1. /\ DOMAIN pending' = Writers
      /\ Old(writer)' = rows /\ New(writer)' = v
      /\ \A w \in Writers \ {writer} : pending'[w] = pending[w] /\ Old(w)' = Old(w) /\ New(w)' = New(w)
  BY <1>0, <1>t, Begun, Zenon
<1>2. TypeOK'
  BY <1>0, <1>1, <1>t, Zenon DEF TypeOK, Reads
<1>3. ASSUME NEW w \in Writers, pending'[w] # None
      PROVE  Table(Old(w)') /\ Table(New(w)') /\ Late(Old(w)', rows')
  <2>1. CASE w = writer
    BY <2>1, <1>0, <1>1, <1>t, QuietSelf, Zenon
  <2>2. CASE w # writer
    BY <2>2, <1>0, <1>1, <1>3, Zenon DEF SurfaceInv
  <2> QED
    BY <2>1, <2>2, Zenon
<1>4. ASSUME NEW w \in {"maintenance", "analyst"}, pending'[w] # None
      PROVE  Quiet(Old(w)', New(w)')
  <2>0. w \in Writers /\ w # "ingest"
    BY DEF Writers
  <2>1. CASE w = writer
    BY <2>0, <2>1, <1>1, Zenon DEF Reads
  <2>2. CASE w # writer
    BY <2>0, <2>2, <1>1, <1>4, Zenon DEF SurfaceInv
  <2> QED
    BY <2>1, <2>2, Zenon
<1>5. ASSUME pending'["ingest"] # None
      PROVE  Ingested(Old("ingest")', New("ingest")', result') /\ Quiet(Old("ingest")', rows')
  <2>0. "ingest" \in Writers
    BY DEF Writers
  <2>1. CASE writer = "ingest"
    BY <2>1, <1>0, <1>1, QuietSelf, Zenon DEF Reads
  <2>2. CASE writer # "ingest"
    BY <2>0, <2>2, <1>0, <1>1, <1>5, Zenon DEF SurfaceInv, Reads
  <2> QED
    BY <2>1, <2>2, Zenon
<1>6. \A a \in Assets : rows'[a].state = "active" => streak'[a] >= rows'[a].missed
  BY <1>0, Zenon DEF SurfaceInv
<1>7. result'.live \in BOOLEAN /\ \A s \in Sensors : Aims(s, job'[s])
  BY Zenon DEF Reads, SurfaceInv
<1> QED
  BY <1>2, <1>3, <1>4, <1>5, <1>6, <1>7, Zenon DEF SurfaceInv

\* A stage begins: build_targets gives it targets of its kind.
LEMMA DispatchStep ==
  ASSUME SurfaceInv, NEW sensor \in Sensors, Dispatch(sensor), setup' = setup
  PROVE  SurfaceInv'
<1>0. UNCHANGED <<rows, stale, pending, result, streak>> /\ job' = [job EXCEPT ![sensor] = build_targets(sensor)] /\ TypeOK
  BY Zenon DEF Dispatch, SurfaceInv
<1>1. Aims(sensor, build_targets(sensor))
  <2>1. HostOf \in [Endpoints -> Names]
    BY AttackSurfaceAssumption, Zenon
  <2>2. Names \subseteq Assets /\ Addresses \subseteq Assets /\ Endpoints \subseteq Assets
    BY Apart, Zenon
  <2>3. Active(rows, Addresses) \subseteq Addresses /\ Active(rows, Endpoints) \subseteq Endpoints /\ Active(rows, Names) \subseteq Names
    BY Zenon DEF Active
  <2>4. {HostOf[e] : e \in Active(rows, Endpoints)} \subseteq Names
    BY <2>1, <2>3, Zenon
  <2>5. CASE sensor = "dnsx"
    BY <2>5, <2>2 DEF Aims, build_targets
  <2>6. CASE sensor = "shodan"
    BY <2>6, <2>2, <2>3 DEF Aims, build_targets
  <2>7. CASE sensor = "naabu"
    BY <2>7, <2>2, <2>3 DEF Aims, build_targets
  <2>8. CASE sensor = "httpx"
    BY <2>8, <2>2, <2>3, <2>4 DEF Aims, build_targets
  <2>9. CASE sensor = "nuclei"
    BY <2>9, <2>2, <2>3 DEF Aims, build_targets
  <2> QED
    BY <2>5, <2>6, <2>7, <2>8, <2>9 DEF Sensors
<1>2. job' \in [Sensors -> SUBSET Assets] /\ \A s \in Sensors : Aims(s, job'[s])
  <2>1. job \in [Sensors -> SUBSET Assets] /\ build_targets(sensor) \in SUBSET Assets
    BY <1>0, <1>1, Zenon DEF TypeOK, Aims
  <2>2. job' \in [Sensors -> SUBSET Assets] /\ \A s \in Sensors : job'[s] = IF s = sensor THEN build_targets(sensor) ELSE job[s]
    BY <2>1, <1>0, Zenon
  <2> QED
    BY <2>2, <1>1, Zenon DEF SurfaceInv
<1>3. /\ TypeOK' /\ rows' = rows /\ pending' = pending /\ result' = result /\ streak' = streak
      /\ \A w \in Writers : Old(w)' = Old(w) /\ New(w)' = New(w)
  BY <1>0, <1>2, Zenon DEF TypeOK, Old, New
<1>4. Old("ingest")' = Old("ingest") /\ New("ingest")' = New("ingest") /\ \A w \in {"maintenance", "analyst"} : Old(w)' = Old(w) /\ New(w)' = New(w)
  BY <1>0, Zenon DEF Old, New
<1> QED
  BY <1>2, <1>3, <1>4, Zenon DEF SurfaceInv

\* Time passes.
LEMMA AgeStep ==
  ASSUME SurfaceInv, NEW a \in Assets, Age(a), setup' = setup
  PROVE  SurfaceInv'
<1>1. /\ rows' = rows /\ pending' = pending /\ result' = result /\ streak' = streak /\ job' = job
      /\ \A w : Old(w)' = Old(w) /\ New(w)' = New(w)
  BY Zenon DEF Age, Old, New
<1>2. TypeOK'
  BY <1>1, Zenon DEF Age, TypeOK, SurfaceInv
<1> QED
  BY <1>1, <1>2, Zenon DEF SurfaceInv

\* Nothing happens.
LEMMA StutterStep ==
  ASSUME SurfaceInv, UNCHANGED vars
  PROVE  SurfaceInv'
<1>1. /\ rows' = rows /\ pending' = pending /\ result' = result /\ streak' = streak /\ job' = job /\ setup' = setup /\ stale' = stale
      /\ \A w : Old(w)' = Old(w) /\ New(w)' = New(w)
  BY Zenon DEF vars, Old, New
<1>2. TypeOK'
  BY <1>1, Zenon DEF TypeOK, SurfaceInv
<1> QED
  BY <1>1, <1>2, Zenon DEF SurfaceInv

\* Maintenance retires assets and reopens findings.
LEMMA MaintainStep ==
  ASSUME SurfaceInv, NEW expired \in SUBSET Findings, Maintain(expired), setup' = setup
  PROVE  SurfaceInv'
<1>0. "active" # "inactive" /\ "inactive" \notin FindingStatus /\ "reopened" \in FindingStatus
  BY DEF FindingStatus, OPEN_FINDING_STATES
<1>1. Table(rows) /\ TypeOK
  BY RowsTable, Zenon DEF SurfaceInv
<1>2. PICK u : u = age_out_assets(rows)
  BY Zenon
<1>3. PICK v : v = expire_risk_acceptance(u, expired)
  BY Zenon
<1>4. ASSUME NEW i \in Ids
      PROVE  /\ u[i] \in Row /\ u[i].missed = rows[i].missed
             /\ u[i].state = IF i \in Active(rows, Assets) \intersect stale THEN "inactive" ELSE rows[i].state
  <2>1. rows[i] \in Row
    BY <1>1, Counters, Zenon
  <2>2. u[i] = IF i \in Active(rows, Assets) \intersect stale THEN [rows[i] EXCEPT !.state = "inactive"] ELSE rows[i]
    BY <1>2, Zenon DEF age_out_assets
  <2> QED
    BY <2>1, <2>2 DEF Row
<1>5. ASSUME NEW i \in Ids
      PROVE  /\ v[i] \in Row /\ v[i].missed = rows[i].missed
             /\ v[i].state = IF i \in expired /\ u[i].state = "accepted_risk" THEN "reopened" ELSE u[i].state
  <2>1. u[i] \in Row /\ u[i].missed = rows[i].missed
    BY <1>4, Zenon
  <2>2. v[i] = IF i \in expired /\ u[i].state = "accepted_risk" THEN [u[i] EXCEPT !.state = "reopened"] ELSE u[i]
    BY <1>3, Zenon DEF expire_risk_acceptance
  <2> QED
    BY <2>1, <2>2 DEF Row, FindingStatus, OPEN_FINDING_STATES
<1>6. v \in [Ids -> Row]
  <2>1. v = [i \in Ids |-> v[i]]
    BY <1>3, Zenon DEF expire_risk_acceptance
  <2> QED
    BY <2>1, <1>5, Zenon
<1>7. ASSUME NEW i \in Assets \union Relations
      PROVE  /\ v[i].missed = rows[i].missed
             /\ v[i].state = IF i \in Active(rows, Assets) \intersect stale THEN "inactive" ELSE rows[i].state
  <2>1. i \in Ids /\ i \notin expired
    BY Apart, Zenon
  <2> QED
    BY <2>1, <1>4, <1>5, Zenon
<1>8. ASSUME NEW f \in Findings
      PROVE  v[f].state \in FindingStatus \union {"absent"}
  <2>1. f \in Ids /\ f \notin Active(rows, Assets)
    BY Apart, Zenon DEF Active
  <2>2. rows[f].state \in FindingStatus \union {"absent"}
    BY <1>1, Zenon DEF Table
  <2>3. u[f].state = rows[f].state
    BY <2>1, <1>4, Zenon
  <2> QED
    BY <2>1, <2>2, <2>3, <1>0, <1>5, Zenon
<1>9. Table(v)
  BY <1>0, <1>1, <1>6, <1>7, <1>8, Zenon DEF Table
<1>10. Quiet(rows, v)
  <2>1. \A r \in Relations : r \notin Active(rows, Assets)
    BY Apart, Zenon DEF Active
  <2> QED
    BY <2>1, <1>7, Zenon DEF Quiet, Loses, Active
<1>11. Read("maintenance", v) /\ rows' = rows /\ stale' = stale /\ job' = job /\ result' = result /\ streak' = streak
  BY <1>2, <1>3, Zenon DEF Maintain
<1>12. "maintenance" \in Writers /\ "maintenance" # "ingest"
  BY DEF Writers
<1>13. job' \in [Sensors -> SUBSET Assets] /\ \A s \in Sensors : Aims(s, job'[s])
  BY <1>1, <1>11, Zenon DEF SurfaceInv, TypeOK
<1>14. Reads("maintenance", v)
  BY <1>9, <1>10, <1>11, <1>12, <1>13, Zenon DEF Reads
<1> QED
  BY <1>12, <1>14, ReadsStep, Zenon

\* An analyst changes one finding.
LEMMA UpdateStep ==
  ASSUME SurfaceInv, NEW f \in Findings, NEW status \in FindingStatus, Update(f, status), setup' = setup
  PROVE  SurfaceInv'
<1>1. Table(rows) /\ TypeOK
  BY RowsTable, Zenon DEF SurfaceInv
<1>2. PICK v : v = [rows EXCEPT ![f].state = status]
  BY Zenon
<1>3. f \in Ids /\ rows \in [Ids -> Row] /\ rows[f] \in Row
  BY <1>1, Apart, Counters, Zenon DEF Table
<1>4. [rows[f] EXCEPT !.state = status] \in Row /\ [rows[f] EXCEPT !.state = status].state = status
  BY <1>3 DEF Row
<1>5. v \in [Ids -> Row] /\ v[f].state = status /\ \A i \in Ids \ {f} : v[i] = rows[i]
  BY <1>2, <1>3, <1>4
<1>6. ASSUME NEW i \in Assets \union Relations
      PROVE  v[i] = rows[i]
  <2>1. i \in Ids /\ i # f
    BY Apart, Zenon
  <2> QED
    BY <2>1, <1>5, Zenon
<1>7. \A g \in Findings : v[g].state \in FindingStatus \union {"absent"}
  BY <1>1, <1>5, Apart, Zenon DEF Table
<1>9. Table(v)
  BY <1>1, <1>5, <1>6, <1>7, Zenon DEF Table
<1>10. Quiet(rows, v)
  BY <1>6, Zenon DEF Quiet
<1>11. Read("analyst", v) /\ rows' = rows /\ stale' = stale /\ job' = job /\ result' = result /\ streak' = streak
  BY <1>2, Zenon DEF Update
<1>12. "analyst" \in Writers /\ "analyst" # "ingest"
  BY DEF Writers
<1>13. job' \in [Sensors -> SUBSET Assets] /\ \A s \in Sensors : Aims(s, job'[s])
  BY <1>1, <1>11, Zenon DEF SurfaceInv, TypeOK
<1>14. Reads("analyst", v)
  BY <1>9, <1>10, <1>11, <1>12, <1>13, ZenonT(60) DEF Reads
<1> QED
  BY <1>12, <1>14, ReadsStep, Zenon

\* No sensor covers a service, and shodan covers nothing.
LEMMA CoveredKinds ==
  ASSUME NEW sensor \in Sensors, NEW targets, Aims(sensor, targets)
  PROVE  covered(sensor, targets) \intersect Services = {} /\ (sensor = "shodan" => covered(sensor, targets) = {})
<1>1. CASE sensor = "dnsx"
  BY <1>1, Kinds DEF covered, Aims
<1>2. CASE sensor = "naabu"
  BY <1>2, Kinds DEF covered
<1>3. CASE sensor = "httpx"
  BY <1>3, Kinds DEF covered
<1>4. CASE sensor \in {"nuclei", "shodan"}
  BY <1>4 DEF covered
<1> QED
  BY <1>1, <1>2, <1>3, <1>4 DEF Sensors

\* What an ingestion reads and is going to write.
LEMMA IngestParts ==
  ASSUME SurfaceInv, NEW sensor \in Sensors, NEW complete \in BOOLEAN, NEW rep \in reports(sensor, job[sensor]),
         Ingest(sensor, complete, rep), setup' = setup
  PROVE  \E v : /\ Reads("ingest", v)
                /\ RelationsLast /\ PortsHold(rows) /\ PortsAbsent(rows) => Tracks(rows, v, result')
<1>0. TypeOK /\ Table(rows) /\ setup \in Setups /\ Aims(sensor, job[sensor])
  BY RowsTable, Zenon DEF SurfaceInv, TypeOK
<1>1. Sighting(sensor, rep)
  BY <1>0, Sightings, Zenon
<1>2. Seeing(rep)
  BY <1>1, SightingSeeing, Zenon
<1>3. PICK w : w = Report(Observe(rows, rep.assets, rep.relations, sensor # "shodan"), rep.found)
  BY Zenon
<1>4. PICK v : v = IF complete THEN Covered(w, sensor, job[sensor], rep) ELSE w
  BY Zenon
<1>5. /\ Read("ingest", v)
      /\ result' = [seen |-> rep.assets, covered |-> IF complete THEN covered(sensor, job[sensor]) ELSE {}, live |-> sensor # "shodan"]
      /\ job' = [job EXCEPT ![sensor] = {}] /\ rows' = rows /\ stale' = stale /\ streak' = streak
  BY <1>3, <1>4, Zenon DEF Ingest
<1>6. /\ result'.seen = rep.assets /\ result'.live = (sensor # "shodan")
      /\ result'.covered = IF complete THEN covered(sensor, job[sensor]) ELSE {}
  BY <1>5
<1>7. PICK res : res = result'
  BY Zenon
<1>8. res.live \in BOOLEAN /\ (res.live <=> sensor # "shodan") /\ res.seen = rep.assets
  BY <1>6, <1>7, Zenon
<1>9. Sees(rows, w, rep, res)
  <2>1. w = Report(Observe(rows, rep.assets, rep.relations, res.live), rep.found)
    BY <1>3, <1>6, <1>7, Zenon
  <2> QED
    BY <2>1, <1>0, <1>1, <1>8, ObserveStep, Zenon
<1>10. Table(w)
  BY <1>9, Zenon DEF Sees
<1>11. Settles(w, v, res.covered, rep.assets) /\ (RelationsLast /\ PortsHold(w) => PortsHold(v))
  <2>1. CASE complete
    <3>1. v = Covered(w, sensor, job[sensor], rep) /\ res.covered = covered(sensor, job[sensor])
      BY <2>1, <1>4, <1>6, <1>7, Zenon
    <3>2. v = Covered(w, sensor, job[sensor], rep)
      BY <3>1, Zenon
    <3>4. PICK targets : targets = job[sensor]
      BY Zenon
    <3>5. Aims(sensor, targets) /\ v = Covered(w, sensor, targets, rep)
      BY <3>2, <3>4, <1>0, Zenon
    <3>6. Aims(sensor, targets)
      BY <3>5, Zenon
    <3>7. v = Covered(w, sensor, targets, rep)
      BY <3>5, Zenon
    <3>8. Settles(w, v, covered(sensor, targets), rep.assets)
      BY <3>6, <3>7, <1>2, <1>10, CoveredSettles, Zenon
    <3>9. RelationsLast /\ PortsHold(w) => PortsHold(v)
      BY <3>6, <3>7, <1>2, <1>10, CoveredSettles, Zenon
    <3>3. Settles(w, v, covered(sensor, job[sensor]), rep.assets) /\ (RelationsLast /\ PortsHold(w) => PortsHold(v))
      BY <3>4, <3>8, <3>9, Zenon
    <3> QED
      BY <3>1, <3>3, Zenon
  <2>2. CASE ~complete
    <3>1. v = w /\ res.covered = {}
      BY <2>2, <1>4, <1>6, <1>7, Zenon
    <3> QED
      BY <3>1, <1>10, SettlesNothing, Zenon
  <2> QED
    BY <2>1, <2>2, Zenon
<1>12. res.covered \intersect Services = {} /\ (~res.live => res.covered = {})
  <2>1. covered(sensor, job[sensor]) \intersect Services = {} /\ (sensor = "shodan" => covered(sensor, job[sensor]) = {})
    BY <1>0, CoveredKinds, Zenon
  <2> QED
    BY <2>1, <1>6, <1>7, <1>8, Zenon
<1>13. Settles(w, v, res.covered, rep.assets)
  BY <1>11, Zenon
<1>14. Ingested(rows, v, res)
  BY <1>0, <1>8, <1>9, <1>12, <1>13, IngestedStep, ZenonT(60)
<1>15. job' \in [Sensors -> SUBSET Assets] /\ \A s \in Sensors : Aims(s, job'[s])
  <2>1. job \in [Sensors -> SUBSET Assets] /\ \A s : Aims(s, {})
    BY <1>0, Zenon DEF TypeOK, Aims
  <2>2. job' \in [Sensors -> SUBSET Assets] /\ \A s \in Sensors : job'[s] = {} \/ job'[s] = job[s]
    BY <2>1, <1>5, Zenon
  <2> QED
    BY <2>1, <2>2, Zenon DEF SurfaceInv
<1>16. Table(v)
  BY <1>14, Zenon DEF Ingested
<1>17. Reads("ingest", v)
  BY <1>5, <1>7, <1>8, <1>14, <1>15, <1>16, Zenon DEF Reads
<1>18. ASSUME RelationsLast, PortsHold(rows), PortsAbsent(rows)
       PROVE  Tracks(rows, v, result')
  <2>1. PortsHold(w) => PortsHold(v)
    BY <1>11, <1>18, Zenon
  <2>2. Tracks(rows, v, res)
    BY <2>1, <1>0, <1>1, <1>8, <1>9, <1>12, <1>13, <1>18, TracksStep, ZenonT(60)
  <2> QED
    BY <2>2, <1>7, Zenon
<1> QED
  BY <1>17, <1>18, Zenon

\* What the commit of an ingestion makes of the rows: the counters and relations are those
\* it wrote, and nothing came back that it did not see.
Commits(o, n, w, v, res) ==
    /\ Ingested(o, n, res) /\ Quiet(o, w) /\ Late(o, w) /\ Table(o) /\ Table(w) /\ Merged(o, n, w, v)

Carried(o, n, w, v, res, a) ==
    /\ v[a].missed = n[a].missed
    /\ w[a].missed = o[a].missed
    /\ w[a].state = "absent" <=> o[a].state = "absent"
    /\ v[a].state = "absent" => w[a].state = "absent" /\ n[a].state = "absent"
    /\ v[a].state = "active" => n[a].state = "active"
    /\ v[a].state = "active" /\ ~Seen(o, res, a) => o[a].state = "active" /\ w[a].state = "active"
    /\ w[a].state = "active" => o[a].state = "active"
    /\ Loses(w, v, a) => Loses(o, n, a)

\* What the commit of an ingestion makes of an asset.
LEMMA CommitRows ==
  ASSUME NEW o, NEW n, NEW w, NEW v, NEW res, Commits(o, n, w, v, res), NEW a \in Assets
  PROVE  Carried(o, n, w, v, res, a)
<1>0. a \in Ids /\ "active" # "inactive" /\ "absent" # "inactive" /\ "absent" # "active"
  BY Apart
<1>1. w[a].missed = o[a].missed /\ (w[a].state = o[a].state \/ Loses(o, w, a))
  BY Zenon DEF Commits, Quiet
<1>2. /\ v[a].state = IF n[a].state = o[a].state THEN w[a].state ELSE n[a].state
      /\ v[a].missed = IF n[a].missed = o[a].missed THEN w[a].missed ELSE n[a].missed
  BY <1>0, Zenon DEF Commits, Merged
<1>3. v[a].missed = n[a].missed
  BY <1>1, <1>2, Zenon
<1>4. w[a].state = "absent" <=> o[a].state = "absent"
  BY <1>0, <1>1, Zenon DEF Loses
<1>5. Seen(o, res, a) => n[a].state = "active"
  BY Zenon DEF Commits, Ingested
<1>6. ~Seen(o, res, a) => n[a].state = o[a].state \/ Loses(o, n, a)
  BY Zenon DEF Commits, Ingested
<1>7. v[a].state = "absent" => w[a].state = "absent" /\ n[a].state = "absent"
  BY <1>0, <1>2, <1>4, <1>5, <1>6, Zenon DEF Loses
<1>8. w[a].state = "active" => o[a].state = "active"
  BY <1>0, <1>1, Zenon DEF Loses
<1>9. v[a].state = "active" => n[a].state = "active"
  BY <1>0, <1>2, <1>8, Zenon
<1>10. v[a].state = "active" /\ ~Seen(o, res, a) => o[a].state = "active" /\ w[a].state = "active"
  BY <1>0, <1>2, <1>6, <1>8, Zenon DEF Loses
<1>11. Loses(w, v, a) => Loses(o, n, a)
  BY <1>0, <1>2, <1>8, Zenon DEF Loses
<1> QED
  BY <1>1, <1>3, <1>4, <1>7, <1>8, <1>9, <1>10, <1>11, ZenonT(60) DEF Carried

Linked(o, n, w, v) ==
    \A r \in Relations : v[r].state = n[r].state /\ v[r].missed = n[r].missed /\ w[r].state = o[r].state

\* What the commit of an ingestion makes of relations.
LEMMA CommitRelations ==
  ASSUME NEW o, NEW n, NEW w, NEW v, NEW res, Commits(o, n, w, v, res)
  PROVE  Linked(o, n, w, v)
<1>1. Relations \subseteq Ids
  BY Apart, Zenon
<1> QED
  BY <1>1, Zenon DEF Commits, Quiet, Merged, Linked

\* The streaks after the commit of an ingestion of res into rows w.
Streaks(o, w, res, s, t) ==
    /\ t \in [Assets -> Nat] /\ s \in [Assets -> Nat]
    /\ \A a \in Assets : Seen(o, res, a) => t[a] = 0
    /\ \A a \in Assets : ~Seen(o, res, a) =>
          t[a] = IF a \in res.covered /\ w[a].state = "active" /\ s[a] < Threshold[a] THEN s[a] + 1 ELSE s[a]

\* What IngestCommit does.
LEMMA CommitParts ==
  ASSUME SurfaceInv, IngestCommit, setup' = setup
  PROVE  /\ Commits(Old("ingest"), New("ingest"), rows, rows', result)
         /\ Streaks(Old("ingest"), rows, result, streak, streak')
         /\ pending["ingest"] # None /\ pending' = [pending EXCEPT !["ingest"] = None]
         /\ stale' \subseteq stale /\ job' = job /\ result' = NoResult
<1>0. "ingest" \in Writers
  BY DEF Writers
<1>t. TypeOK /\ Table(rows)
  BY RowsTable, Zenon DEF SurfaceInv
<1>1. PICK S : S = {a \in result.seen : result.live \/ Is(a, "absent")}
  BY Zenon
<1>2. /\ Write("ingest", S) /\ job' = job /\ result' = NoResult
      /\ streak' = [a \in Assets |->
                         IF a \in S THEN 0
                         ELSE IF a \in result.covered /\ Is(a, "active") /\ streak[a] < Threshold[a] THEN streak[a] + 1
                         ELSE streak[a]]
  BY <1>1, Zenon DEF IngestCommit
<1>3. pending["ingest"] # None /\ pending' = [pending EXCEPT !["ingest"] = None] /\ stale' \subseteq stale
  BY <1>2, Zenon DEF Write
<1>4. /\ Table(Old("ingest")) /\ Table(New("ingest")) /\ Late(Old("ingest"), rows)
      /\ Ingested(Old("ingest"), New("ingest"), result) /\ Quiet(Old("ingest"), rows)
  BY <1>0, <1>3, Zenon DEF SurfaceInv
<1>5. Merged(Old("ingest"), New("ingest"), rows, rows')
  BY <1>0, <1>2, <1>4, <1>t, WriteStep, Zenon
<1>6. Commits(Old("ingest"), New("ingest"), rows, rows', result)
  BY <1>4, <1>5, <1>t, Zenon DEF Commits
<1>7. ASSUME NEW a \in Assets
      PROVE  a \in S <=> Seen(Old("ingest"), result, a)
  <2>1. Carried(Old("ingest"), New("ingest"), rows, rows', result, a)
    BY <1>6, CommitRows, Zenon
  <2> QED
    BY <2>1, <1>1, Zenon DEF Is, Seen, Carried
<1>8. streak \in [Assets -> Nat]
  BY <1>t, Zenon DEF TypeOK
<1>9. ASSUME NEW a \in Assets
      PROVE  /\ streak'[a] \in Nat
             /\ Seen(Old("ingest"), result, a) => streak'[a] = 0
             /\ ~Seen(Old("ingest"), result, a) =>
                   streak'[a] = IF a \in result.covered /\ rows[a].state = "active" /\ streak[a] < Threshold[a]
                                THEN streak[a] + 1 ELSE streak[a]
  <2>1. streak[a] \in Nat
    BY <1>8, Zenon
  <2>2. 0 \in Nat /\ streak[a] + 1 \in Nat
    BY <2>1
  <2>3. streak'[a] = IF a \in S THEN 0
                     ELSE IF a \in result.covered /\ Is(a, "active") /\ streak[a] < Threshold[a] THEN streak[a] + 1
                     ELSE streak[a]
    BY <1>2, Zenon
  <2> QED
    BY <2>1, <2>2, <2>3, <1>7, Zenon DEF Is
<1>10. streak' \in [Assets -> Nat]
  <2>1. streak' = [a \in Assets |-> streak'[a]]
    BY <1>2, Zenon
  <2> QED
    BY <2>1, <1>9, Zenon
<1>11. Streaks(Old("ingest"), rows, result, streak, streak')
  BY <1>8, <1>9, <1>10, Zenon DEF Streaks
<1> QED
  BY <1>2, <1>3, <1>6, <1>11, Zenon

\* A streak is never shorter than the counter of the row.
LEMMA StreakAbove ==
  ASSUME NEW o, NEW n, NEW w, NEW v, NEW res, Commits(o, n, w, v, res), NEW s, NEW t, Streaks(o, w, res, s, t),
         NEW a \in Assets, w[a].state = "active" => s[a] >= w[a].missed, Seen(o, res, a) \/ w[a].state = "active"
  PROVE  t[a] >= v[a].missed
<1>c. Carried(o, n, w, v, res, a)
  BY CommitRows, Zenon
<1>0. /\ v[a].missed = n[a].missed /\ w[a].missed = o[a].missed
      /\ ~Seen(o, res, a) => o[a].state = "active" /\ w[a].state = "active"
  BY <1>c, Zenon DEF Carried
<1>1. t[a] \in Nat /\ s[a] \in Nat /\ o[a] \in Row /\ o[a].missed \in Nat /\ Threshold[a] \in Nat
  <2>1. t[a] \in Nat /\ s[a] \in Nat
    BY Zenon DEF Streaks
  <2>2. o[a] \in Row /\ o[a].missed \in Nat
    BY Counters, Apart, Zenon DEF Commits
  <2>3. Threshold[a] \in Nat
    BY AttackSurfaceAssumption, ZenonT(60)
  <2> QED
    BY <2>1, <2>2, <2>3, Zenon
<1>2. CASE Seen(o, res, a)
  <2>1. t[a] = 0 /\ n[a].missed = 0
    BY <1>2, Zenon DEF Streaks, Commits, Ingested
  <2> QED
    BY <2>1, <1>0
<1>3. CASE ~Seen(o, res, a)
  <2>1. /\ t[a] = IF a \in res.covered /\ w[a].state = "active" /\ s[a] < Threshold[a] THEN s[a] + 1 ELSE s[a]
        /\ s[a] >= o[a].missed /\ w[a].state = "active"
    BY <1>0, <1>3, Zenon DEF Streaks
  <2>2. \/ n[a].missed = o[a].missed
        \/ a \in res.covered /\ n[a].missed = Count(o[a], Threshold[a])
    BY <1>3, ZenonT(60) DEF Commits, Ingested
  <2>3. CASE n[a].missed = o[a].missed
    <3>1. t[a] = s[a] + 1 \/ t[a] = s[a]
      BY <2>1, ZenonT(60)
    <3> QED
      BY <3>1, <2>1, <2>3, <1>0, <1>1
  <2>4. CASE a \in res.covered /\ n[a].missed = Count(o[a], Threshold[a])
    <3>1. /\ o[a].missed < Threshold[a] => n[a].missed = o[a].missed + 1
          /\ o[a].missed >= Threshold[a] => n[a].missed = o[a].missed
      BY <2>4, <1>1, CountRow, Zenon
    <3>2. t[a] = IF s[a] < Threshold[a] THEN s[a] + 1 ELSE s[a]
      BY <2>1, <2>4, Zenon
    <3> QED
      BY <3>1, <3>2, <2>1, <1>0, <1>1
  <2> QED
    BY <2>2, <2>3, <2>4, Zenon
<1> QED
  BY <1>2, <1>3, Zenon

\* The commit of an ingestion.
LEMMA IngestCommitStep ==
  ASSUME SurfaceInv, IngestCommit, setup' = setup
  PROVE  SurfaceInv'
<1>0. "ingest" \in Writers /\ {"maintenance", "analyst"} \subseteq Writers
  BY DEF Writers
<1>1. /\ Commits(Old("ingest"), New("ingest"), rows, rows', result)
      /\ Streaks(Old("ingest"), rows, result, streak, streak')
  BY CommitParts, Zenon
<1>2. /\ pending["ingest"] # None /\ pending' = [pending EXCEPT !["ingest"] = None]
      /\ stale' \subseteq stale /\ job' = job /\ result' = NoResult
  BY CommitParts, Zenon
<1>t. TypeOK /\ DOMAIN pending = Writers
  BY Zenon DEF SurfaceInv, TypeOK
<1>3. /\ DOMAIN pending' = Writers /\ pending'["ingest"] = None
      /\ \A w \in Writers : pending'[w] # None => pending[w] # None /\ Old(w)' = Old(w) /\ New(w)' = New(w)
  BY <1>0, <1>2, <1>t, Ended, Zenon
<1>4. TypeOK'
  BY <1>1, <1>2, <1>3, <1>t, ZenonT(60) DEF TypeOK, Table, Commits, Merged, Streaks
<1>5. result'.live \in BOOLEAN
  BY <1>2 DEF NoResult
<1>6. Late(rows, rows')
  <2>1. \A a \in Assets : Carried(Old("ingest"), New("ingest"), rows, rows', result, a)
    BY <1>1, CommitRows, Zenon
  <2> QED
    BY <2>1, Zenon DEF Late, Carried
<1>7. ASSUME NEW w \in Writers, pending'[w] # None
      PROVE  Table(Old(w)') /\ Table(New(w)') /\ Late(Old(w)', rows')
  <2>1. Table(Old(w)) /\ Table(New(w)) /\ Late(Old(w), rows) /\ Old(w)' = Old(w) /\ New(w)' = New(w)
    BY <1>3, <1>7, Zenon DEF SurfaceInv
  <2>2. Late(Old(w), rows')
    BY <2>1, <1>6, Zenon DEF Late
  <2> QED
    BY <2>1, <2>2, Zenon
<1>8. \A w \in {"maintenance", "analyst"} : pending'[w] # None => Quiet(Old(w)', New(w)')
  BY <1>0, <1>3, Zenon DEF SurfaceInv
<1>9. ASSUME NEW a \in Assets, rows'[a].state = "active"
      PROVE  streak'[a] >= rows'[a].missed
  <2>1. rows[a].state = "active" => streak[a] >= rows[a].missed
    BY Zenon DEF SurfaceInv
  <2>2. Carried(Old("ingest"), New("ingest"), rows, rows', result, a)
    BY <1>1, CommitRows, Zenon
  <2>3. Seen(Old("ingest"), result, a) \/ rows[a].state = "active"
    BY <2>2, <1>9, Zenon DEF Carried
  <2> QED
    BY <2>1, <2>3, <1>1, StreakAbove, Zenon
<1>10. \A s \in Sensors : Aims(s, job'[s])
  BY <1>2, Zenon DEF SurfaceInv
<1> QED
  BY <1>3, <1>4, <1>5, <1>7, <1>8, <1>9, <1>10, ZenonT(60) DEF SurfaceInv

\* SurfaceInv holds at first.
LEMMA SurfaceInit == Init => SurfaceInv
<1> SUFFICES ASSUME Init
             PROVE  SurfaceInv
  OBVIOUS
<1>0. setup \in Setups /\ stale = {} /\ job = [s \in Sensors |-> {}] /\ pending = [w \in Writers |-> None]
      /\ result = NoResult /\ streak = [a \in Assets |-> 0]
  BY Zenon DEF Init
<1>1. ASSUME NEW i \in Ids
      PROVE  /\ rows[i] \in Row /\ rows[i].missed = 0
             /\ rows[i].state = IF i \notin setup.known THEN "absent" ELSE IF i \in Findings THEN "new" ELSE "active"
  <2>1. rows[i] = [state |-> IF i \notin setup.known THEN "absent" ELSE IF i \in Findings THEN "new" ELSE "active", missed |-> 0]
    BY Zenon DEF Init
  <2> QED
    BY <2>1 DEF Row, FindingStatus, OPEN_FINDING_STATES
<1>2. rows \in [Ids -> Row]
  <2>1. rows = [i \in Ids |-> rows[i]]
    BY Zenon DEF Init
  <2> QED
    BY <2>1, <1>1, Zenon
<1>3. "active" \notin FindingStatus /\ "absent" \notin FindingStatus /\ "new" \in FindingStatus
  BY DEF FindingStatus, OPEN_FINDING_STATES
<1>4. \A i \in Assets \union Relations : rows[i].state \notin FindingStatus
  BY <1>1, <1>3, Apart, Zenon
<1>5. \A f \in Findings : rows[f].state \in FindingStatus \union {"absent"}
  BY <1>1, <1>3, Apart, Zenon
<1>6. 0 \in Nat /\ 0 >= 0 /\ "ingest" \in Writers /\ {"maintenance", "analyst"} \subseteq Writers
  BY DEF Writers
<1>7. TypeOK
  BY <1>0, <1>2, <1>4, <1>5, <1>6, ZenonT(60) DEF TypeOK
<1>8. result.live \in BOOLEAN
  BY <1>0 DEF NoResult
<1>9. \A s \in Sensors : Aims(s, job[s])
  BY <1>0, Zenon DEF Aims
<1>10. \A w \in Writers : pending[w] = None
  BY <1>0, Zenon
<1>11. \A a \in Assets : streak[a] >= rows[a].missed
  BY <1>0, <1>1, <1>6, Apart, Zenon
<1> QED
  BY <1>6, <1>7, <1>8, <1>9, <1>10, <1>11, ZenonT(60) DEF SurfaceInv

\* SurfaceInv is inductive.
LEMMA SurfaceStep == SurfaceInv /\ [Next]_vars => SurfaceInv'
<1> SUFFICES ASSUME SurfaceInv, [Next]_vars
             PROVE  SurfaceInv'
  OBVIOUS
<1>0. "ingest" \in Writers /\ "maintenance" \in {"maintenance", "analyst"} /\ "analyst" \in {"maintenance", "analyst"}
  BY DEF Writers
<1>1. CASE UNCHANGED vars
  BY <1>1, StutterStep, Zenon
<1>n. CASE Next
  <2>u. setup' = setup
    BY <1>n, Zenon DEF Next
  <2>1. ASSUME NEW s \in Sensors, Dispatch(s)
        PROVE  SurfaceInv'
    BY <2>u, <2>1, DispatchStep, Zenon
  <2>2. ASSUME NEW s \in Sensors, NEW complete \in BOOLEAN, NEW rep \in reports(s, job[s]), Ingest(s, complete, rep)
        PROVE  SurfaceInv'
    <3>1. PICK v : Reads("ingest", v)
      BY <2>u, <2>2, IngestParts, Zenon
    <3> QED
      BY <3>1, <1>0, ReadsStep, Zenon
  <2>3. CASE IngestCommit
    BY <2>u, <2>3, IngestCommitStep, Zenon
  <2>4. ASSUME NEW expired \in SUBSET Findings, Maintain(expired)
        PROVE  SurfaceInv'
    BY <2>u, <2>4, MaintainStep, Zenon
  <2>5. CASE MaintainCommit
    <3>1. Write("maintenance", {}) /\ UNCHANGED <<job, result, streak, setup>>
      BY <2>u, <2>5, Zenon DEF MaintainCommit
    <3> QED
      BY <3>1, <1>0, QuietCommit, Zenon
  <2>6. ASSUME NEW f \in Findings, NEW status \in FindingStatus, Update(f, status)
        PROVE  SurfaceInv'
    BY <2>u, <2>6, UpdateStep, Zenon
  <2>7. CASE UpdateCommit
    <3>1. Write("analyst", {}) /\ UNCHANGED <<job, result, streak, setup>>
      BY <2>u, <2>7, ZenonT(60) DEF UpdateCommit
    <3> QED
      BY <3>1, <1>0, QuietCommit, Zenon
  <2>8. ASSUME NEW a \in Assets, Age(a)
        PROVE  SurfaceInv'
    BY <2>u, <2>8, AgeStep, Zenon
  <2> QED
    BY <1>n, <2>1, <2>2, <2>3, <2>4, <2>5, <2>6, <2>7, <2>8, ZenonT(60) DEF Next
<1> QED
  BY <1>1, <1>n, Zenon

-----------------------------------------------------------------------------
(* The action properties.                                                  *)

\* A step that is not the commit of an ingestion.
Calm == Quiet(rows, rows') /\ ~Committing("ingest")

\* Only an ingestion changes the rows other than quietly.
LEMMA CommitOrQuiet ==
  ASSUME SurfaceInv, [Next]_vars
  PROVE  (IngestCommit /\ setup' = setup) \/ Calm
<1>0. "maintenance" \in {"maintenance", "analyst"} /\ "analyst" \in {"maintenance", "analyst"}
      /\ "ingest" \in Writers /\ "maintenance" \in Writers /\ "analyst" \in Writers
      /\ "ingest" # "maintenance" /\ "ingest" # "analyst"
  BY DEF Writers
<1>p. DOMAIN pending = Writers
  BY Zenon DEF SurfaceInv, TypeOK
<1>1. ASSUME rows' = rows, pending' = pending
      PROVE  Calm
  BY <1>1, QuietSelf, Zenon DEF Calm, Committing
<1>2. ASSUME NEW writer \in Writers, NEW v, Read(writer, v), rows' = rows
      PROVE  Calm
  <2>1. writer = "ingest" => pending["ingest"] = None
    BY <1>2, Zenon DEF Read
  <2>2. writer # "ingest" => pending'["ingest"] = pending["ingest"]
    BY <1>0, <1>2, <1>p, Begun, Zenon
  <2> QED
    BY <2>1, <2>2, <1>2, QuietSelf, Zenon DEF Calm, Committing
<1>3. ASSUME NEW writer \in {"maintenance", "analyst"}, Write(writer, {}), UNCHANGED <<job, result, streak, setup>>
      PROVE  Calm
  BY <1>3, QuietCommit, Zenon DEF Calm, Committing
<1>4. CASE UNCHANGED vars
  BY <1>1, <1>4, Zenon DEF vars
<1>n. CASE Next
  <2>u. setup' = setup
    BY <1>n, Zenon DEF Next
  <2>1. ASSUME NEW s \in Sensors, Dispatch(s)
        PROVE  Calm
    BY <2>1, <1>1, Zenon DEF Dispatch
  <2>2. ASSUME NEW s \in Sensors, NEW complete \in BOOLEAN, NEW rep \in reports(s, job[s]), Ingest(s, complete, rep)
        PROVE  Calm
    <3>1. PICK v : Reads("ingest", v)
      BY <2>u, <2>2, IngestParts, Zenon
    <3> QED
      BY <3>1, <1>0, <1>2, ZenonT(60) DEF Reads
  <2>4. ASSUME NEW expired \in SUBSET Findings, Maintain(expired)
        PROVE  Calm
    BY <2>4, <1>0, <1>2, Zenon DEF Maintain
  <2>5. MaintainCommit => Calm
    BY <2>u, <1>0, <1>3, Zenon DEF MaintainCommit
  <2>6. ASSUME NEW f \in Findings, NEW status \in FindingStatus, Update(f, status)
        PROVE  Calm
    BY <2>6, <1>0, <1>2, Zenon DEF Update
  <2>7. UpdateCommit => Calm
    BY <2>u, <1>0, <1>3, Zenon DEF UpdateCommit
  <2>8. ASSUME NEW a \in Assets, Age(a)
        PROVE  Calm
    BY <2>8, <1>1, Zenon DEF Age
  <2> QED
    BY <1>n, <2>u, <2>1, <2>2, <2>4, <2>5, <2>6, <2>7, <2>8, ZenonT(60) DEF Next
<1> QED
  BY <1>4, <1>n, Zenon

\* What an ingestion that overwrites nothing leaves of a row it did not change.
LEMMA Unoverwritten ==
  ASSUME ~Overwrites("ingest"), NEW i \in Ids
  PROVE  New("ingest")[i] = Old("ingest")[i] \/ rows[i] = Old("ingest")[i]
BY Zenon DEF Overwrites, Old, New

\* The commit of an ingestion leaves a decided finding alone.
LEMMA DecisionStep ==
  ASSUME SurfaceInv, [Next]_vars, NEW f \in Findings, Committing("ingest"),
         rows[f].state \in {"accepted_risk", "false_positive"}, ~Overwrites("ingest")
  PROVE  rows'[f].state = rows[f].state
<1>0. f \in Ids
  BY Apart, Zenon
<1>1. IngestCommit /\ setup' = setup
  BY CommitOrQuiet, Zenon DEF Calm
<1>2. PICK o, n : o = Old("ingest") /\ n = New("ingest")
  BY Zenon
<1>3. Commits(o, n, rows, rows', result)
  BY <1>1, <1>2, CommitParts, Zenon
<1>4. n[f] = o[f] \/ rows[f] = o[f]
  BY <1>0, <1>2, Unoverwritten, Zenon
<1>5. rows'[f].state = IF n[f].state = o[f].state THEN rows[f].state ELSE n[f].state
  BY <1>0, <1>3, Zenon DEF Commits, Merged
<1>6. o[f].state \in {"accepted_risk", "false_positive"} => n[f].state = o[f].state
  BY <1>3, Zenon DEF Commits, Ingested, Decided
<1> QED
  BY <1>4, <1>5, <1>6, Zenon

\* The commit of an ingestion that takes an asset away takes its open findings.
LEMMA LeaveStep ==
  ASSUME SurfaceInv, [Next]_vars, NEW f \in Findings, Committing("ingest"), Vanishes(On[f])
  PROVE  rows'[f].state \notin OPEN_FINDING_STATES \/ pending["ingest"].old[f].state \notin OPEN_FINDING_STATES
<1>0. f \in Ids /\ On[f] \in Assets
  BY Apart, Zenon
<1>1. IngestCommit /\ setup' = setup
  BY CommitOrQuiet, Zenon DEF Calm
<1>2. PICK o, n : o = Old("ingest") /\ n = New("ingest")
  BY Zenon
<1>3. Commits(o, n, rows, rows', result)
  BY <1>1, <1>2, CommitParts, Zenon
<1>4. Carried(o, n, rows, rows', result, On[f])
  BY <1>0, <1>3, CommitRows, Zenon
<1>5. Loses(o, n, On[f])
  BY <1>4, Zenon DEF Carried, Vanishes, Is, Loses
<1>6. n[f].state \notin OPEN_FINDING_STATES
  BY <1>3, <1>5, Zenon DEF Commits, Ingested
<1>7. rows'[f].state = IF n[f].state = o[f].state THEN rows[f].state ELSE n[f].state
  BY <1>0, <1>3, Zenon DEF Commits, Merged
<1> QED
  BY <1>2, <1>6, <1>7, Zenon DEF Old

\* The commit of an ingestion takes an asset away for a reason.
LEMMA GoneStep ==
  ASSUME SurfaceInv, [Next]_vars, NEW a \in Assets, Committing("ingest"), Vanishes(a), ~Overwrites("ingest")
  PROVE  \/ streak'[a] >= Threshold[a]
         \/ \E o \in Assets : <<o, a>> \in Owned /\ Vanishes(o)
         \/ a \in Addresses /\ \A n \in Names : rows'[<<n, a>>].state # "active"
<1>1. IngestCommit /\ setup' = setup
  BY CommitOrQuiet, Zenon DEF Calm
<1>2. PICK o, n : o = Old("ingest") /\ n = New("ingest")
  BY Zenon
<1>3. Commits(o, n, rows, rows', result) /\ Streaks(o, rows, result, streak, streak')
  BY <1>1, <1>2, CommitParts, Zenon
<1>4. Carried(o, n, rows, rows', result, a)
  BY <1>3, CommitRows, Zenon
<1>5. Loses(o, n, a) /\ rows[a].state = "active"
  BY <1>4, Zenon DEF Carried, Vanishes, Is, Loses
<1>6. Reason(o, n, a, result.covered \ result.seen)
  BY <1>3, <1>5, Zenon DEF Commits, Ingested, Justified
<1>7. CASE n[a].missed >= Threshold[a]
  <2>1. streak[a] >= rows[a].missed
    BY <1>5, Zenon DEF SurfaceInv
  <2>2. streak'[a] >= rows'[a].missed
    BY <2>1, <1>3, <1>5, StreakAbove, Zenon
  <2>3. rows'[a].missed = n[a].missed
    BY <1>4, Zenon DEF Carried
  <2>4. streak'[a] \in Nat /\ n[a].missed \in Nat /\ Threshold[a] \in Nat
    <3>1. streak'[a] \in Nat
      BY <1>3, Zenon DEF Streaks
    <3>2. n[a].missed \in Nat
      BY <1>3, Apart, Counters, Zenon DEF Commits, Ingested
    <3>3. Threshold[a] \in Nat
      BY AttackSurfaceAssumption, Zenon
    <3> QED
      BY <3>1, <3>2, <3>3, Zenon
  <2> QED
    BY <1>7, <2>2, <2>3, <2>4
<1>8. ASSUME NEW x \in Assets, <<x, a>> \in Owned, Loses(o, n, x)
      PROVE  Vanishes(x)
  <2>0. x \in Ids /\ "active" # "inactive"
    BY Apart
  <2>1. n[x] = o[x] \/ rows[x] = o[x]
    BY <2>0, <1>2, Unoverwritten, Zenon
  <2>2. rows[x] = o[x]
    BY <2>0, <2>1, <1>8, Zenon DEF Loses
  <2>3. rows'[x].state = IF n[x].state = o[x].state THEN rows[x].state ELSE n[x].state
    BY <2>0, <1>3, Zenon DEF Commits, Merged
  <2> QED
    BY <2>0, <2>2, <2>3, <1>8, ZenonT(60) DEF Loses, Vanishes, Is
<1>9. ASSUME a \in Addresses, NEW m \in Names, n[<<m, a>>].state # "active"
      PROVE  rows'[<<m, a>>].state # "active"
  <2>1. <<m, a>> \in Relations
    BY <1>9 DEF Relations, resolves_to
  <2>2. Linked(o, n, rows, rows')
    BY <1>3, CommitRelations, Zenon
  <2> QED
    BY <2>1, <2>2, <1>9, ZenonT(60) DEF Linked
<1> QED
  BY <1>6, <1>7, <1>8, <1>9, Zenon DEF Reason

\* Only a live sighting brings an asset back.
LEMMA ReviveStep ==
  ASSUME SurfaceInv, [Next]_vars, NEW a \in Assets, Is(a, "inactive"), rows'[a].state = "active"
  PROVE  Committing("ingest") /\ result.live /\ a \in result.seen
<1>0. "active" # "inactive" /\ "absent" # "inactive" /\ "ingest" \in Writers /\ DOMAIN pending = Writers
  BY Zenon DEF SurfaceInv, TypeOK, Writers
<1>1. IngestCommit /\ setup' = setup
  BY <1>0, CommitOrQuiet, Zenon DEF Calm, Quiet, Loses, Is
<1>2. PICK o, n : o = Old("ingest") /\ n = New("ingest")
  BY Zenon
<1>3. Commits(o, n, rows, rows', result)
  BY <1>1, <1>2, CommitParts, Zenon
<1>4. Carried(o, n, rows, rows', result, a)
  BY <1>3, CommitRows, Zenon
<1>5. pending["ingest"] # None /\ pending' = [pending EXCEPT !["ingest"] = None]
  BY <1>1, CommitParts, Zenon
<1>6. Committing("ingest")
  BY <1>0, <1>5, Zenon DEF Committing
<1>7. Seen(o, result, a)
  BY <1>0, <1>4, Zenon DEF Carried, Is
<1>8. o[a].state # "absent"
  BY <1>0, <1>4, Zenon DEF Carried, Is
<1> QED
  BY <1>6, <1>7, <1>8, Zenon DEF Seen

-----------------------------------------------------------------------------
(* MissInv, action by action.                                              *)

\* A quiet step keeps MissInv if it keeps what is known of the ingestion.
LEMMA MissKept ==
  ASSUME MissInv, Quiet(rows, rows'), streak' = streak,
         pending'["ingest"] # None => Tracks(Old("ingest")', New("ingest")', result')
  PROVE  MissInv'
<1>0. "active" # "inactive" /\ "absent" # "inactive"
  OBVIOUS
<1>1. \A a \in Assets : /\ rows'[a].state = "active" => rows[a].state = "active"
                        /\ rows'[a].state = "absent" => rows[a].state = "absent"
                        /\ rows'[a].missed = rows[a].missed
  BY <1>0, Zenon DEF Quiet, Loses
<1>2. \A r \in Relations : rows'[r].state = rows[r].state /\ rows'[r].missed = rows[r].missed
  BY Zenon DEF Quiet
<1>3. \A p \in Ports : p \in Assets /\ OfPort(p) \in Relations
  BY Apart, PortRelation, Zenon
<1>4. PortsHold(rows')
  BY <1>1, <1>2, <1>3, Zenon DEF PortsHold, MissInv
<1>5. PortsAbsent(rows')
  BY <1>1, <1>2, <1>3, Zenon DEF PortsAbsent, MissInv
<1>6. \A a : Tracked(rows', a) => Tracked(rows, a)
  BY <1>2, Apart, Zenon DEF Tracked, Active
<1>7. \A a \in Assets : rows'[a].state = "active" /\ Tracked(rows', a) => streak'[a] =< rows'[a].missed /\ rows'[a].missed < Threshold[a]
  BY <1>1, <1>6, Zenon DEF MissInv
<1>8. \A s \in Services : streak'[s] = 0
  BY Zenon DEF MissInv
<1> QED
  BY <1>4, <1>5, <1>7, <1>8, ZenonT(60) DEF MissInv

\* What was tracked before an ingestion is what is tracked after it and not seen by it.
LEMMA StillTracked ==
  ASSUME NEW o, NEW n, NEW w, NEW v, NEW res, Commits(o, n, w, v, res), Tracks(o, n, res), PortsHold(w),
         NEW a \in Assets, v[a].state = "active", Tracked(v, a), ~Seen(o, res, a), a \notin Services
  PROVE  Tracked(w, a) /\ Tracked(o, a)
<1>0. Linked(o, n, w, v) /\ Carried(o, n, w, v, res, a)
  BY CommitRelations, CommitRows, Zenon
<1>1. CASE a \in Names
  BY <1>1, Zenon DEF Tracked
<1>2. CASE a \notin Names
  <2>1. PICK r : r \in Owned /\ v[r].state = "active" /\ r[2] = a
    BY <1>2, Zenon DEF Tracked, Active
  <2>2. r \in Relations /\ r[2] \in Ports \union Services \union Endpoints
    BY <2>1, Apart, OwnedPairs, Zenon
  <2>3. w[r].state = "active" /\ o[r].state = "active"
    <3>1. w[r].state = o[r].state /\ v[r].state = n[r].state
      BY <1>0, <2>2, Zenon DEF Linked
    <3>2. CASE a \in Ports
      <4>1. r = OfPort(a)
        BY <3>2, <2>1, OwnedPairs, Zenon
      <4>2. w[a].state = "active"
        BY <1>0, Zenon DEF Carried
      <4> QED
        BY <4>1, <4>2, <3>1, <3>2, ZenonT(60) DEF PortsHold
    <3>3. CASE a \in Endpoints
      <4>1. r = OfEndpoint(a)
        BY <3>3, <2>1, OwnedPairs, Zenon
      <4> QED
        BY <4>1, <3>1, <3>3, <2>1, Zenon DEF Tracks
    <3> QED
      BY <2>1, <2>2, <3>2, <3>3, Zenon
  <2> QED
    BY <2>1, <2>3, Zenon DEF Tracked, Active
<1> QED
  BY <1>1, <1>2, Zenon

\* A counter of what is tracked is never shorter than its streak, nor at the threshold.
LEMMA StreakBelow ==
  ASSUME NEW o, NEW n, NEW w, NEW v, NEW res, Commits(o, n, w, v, res), Tracks(o, n, res), PortsHold(w),
         NEW s, NEW t, Streaks(o, w, res, s, t), NEW a \in Assets, v[a].state = "active", Tracked(v, a),
         w[a].state = "active" => s[a] >= w[a].missed,
         w[a].state = "active" /\ Tracked(w, a) => s[a] =< w[a].missed /\ w[a].missed < Threshold[a],
         a \in Services => s[a] = 0
  PROVE  t[a] =< v[a].missed /\ v[a].missed < Threshold[a]
<1>0. Carried(o, n, w, v, res, a)
  BY CommitRows, Zenon
<1>1. t[a] \in Nat /\ s[a] \in Nat /\ o[a] \in Row /\ o[a].missed \in Nat /\ Threshold[a] \in Nat \ {0}
  <2>1. t[a] \in Nat /\ s[a] \in Nat
    BY Zenon DEF Streaks
  <2>2. o[a] \in Row /\ o[a].missed \in Nat
    BY Counters, Apart, Zenon DEF Commits
  <2>3. Threshold[a] \in Nat \ {0}
    BY AttackSurfaceAssumption, Zenon
  <2> QED
    BY <2>1, <2>2, <2>3, Zenon
<1>2. v[a].missed = n[a].missed /\ w[a].missed = o[a].missed
  BY <1>0, ZenonT(60) DEF Carried
<1>3. CASE Seen(o, res, a)
  <2>1. t[a] = 0 /\ n[a].missed = 0
    BY <1>3, Zenon DEF Streaks, Commits, Ingested
  <2> QED
    BY <2>1, <1>1, <1>2
<1>4. CASE ~Seen(o, res, a)
  <2>1. w[a].state = "active" /\ o[a].state = "active" /\ n[a].state = "active"
    BY <1>0, <1>4, Zenon DEF Carried
  <2>2. t[a] = IF a \in res.covered /\ w[a].state = "active" /\ s[a] < Threshold[a] THEN s[a] + 1 ELSE s[a]
    BY <1>4, Zenon DEF Streaks
  <2>3. a \in res.covered => a \notin res.seen
    BY <1>4, Zenon DEF Commits, Ingested, Seen
  <2>4. s[a] =< o[a].missed /\ o[a].missed < Threshold[a]
    <3>1. CASE a \in Services
      <4>1. s[a] = 0 /\ s[a] >= o[a].missed
        BY <3>1, <2>1, <1>2, Zenon
      <4> QED
        BY <4>1, <1>1
    <3>2. CASE a \notin Services
      <4>1. Tracked(w, a)
        BY <3>2, <1>4, StillTracked, ZenonT(60)
      <4> QED
        BY <4>1, <2>1, <1>2, Zenon
    <3> QED
      BY <3>1, <3>2, ZenonT(60)
  <2>5. CASE a \in res.covered
    <3>1. a \notin Services
      BY <2>5, Zenon DEF Tracks
    <3>2. Tracked(o, a)
      BY <3>1, <1>4, StillTracked, ZenonT(60)
    <3>3. "active" # "inactive"
      OBVIOUS
    <3>4. n[a].missed = Count(o[a], Threshold[a]) /\ n[a].missed < Threshold[a]
      BY <3>2, <3>3, <2>1, <2>3, <2>5, ZenonT(60) DEF Tracks
    <3>5. o[a].missed < Threshold[a] => Count(o[a], Threshold[a]) = o[a].missed + 1
      <4>1. Threshold[a] \in Nat
        BY <1>1
      <4> QED
        BY <4>1, <1>1, CountRow, ZenonT(60)
    <3>6. t[a] = IF s[a] < Threshold[a] THEN s[a] + 1 ELSE s[a]
      BY <2>1, <2>2, <2>5, Zenon
    <3> QED
      BY <3>4, <3>5, <3>6, <2>4, <1>1, <1>2, SMTT(60)
  <2>6. CASE a \notin res.covered
    <3>1. n[a].missed = o[a].missed
      BY <2>6, <1>4, Zenon DEF Commits, Ingested
    <3>2. t[a] = s[a]
      BY <2>2, <2>6, Zenon
    <3> QED
      BY <3>1, <3>2, <2>4, <1>2, ZenonT(60)
  <2> QED
    BY <2>5, <2>6, Zenon
<1> QED
  BY <1>3, <1>4, Zenon

\* The commit of an ingestion keeps MissInv.
LEMMA MissCommit ==
  ASSUME SurfaceInv, MissInv, IngestCommit, setup' = setup
  PROVE  MissInv'
<1>0. "ingest" \in Writers /\ DOMAIN pending = Writers
  BY Zenon DEF Writers, SurfaceInv, TypeOK
<1>1. PICK o, n : o = Old("ingest") /\ n = New("ingest")
  BY Zenon
<1>2. Commits(o, n, rows, rows', result) /\ Streaks(o, rows, result, streak, streak')
  BY <1>1, CommitParts, Zenon
<1>3. pending["ingest"] # None /\ pending' = [pending EXCEPT !["ingest"] = None]
  BY CommitParts, Zenon
<1>4. pending'["ingest"] = None
  BY <1>0, <1>3, Zenon
<1>5. Tracks(o, n, result)
  BY <1>1, <1>3, Zenon DEF MissInv
<1>6. Linked(o, n, rows, rows')
  BY <1>2, CommitRelations, Zenon
<1>7. \A a \in Assets : Carried(o, n, rows, rows', result, a)
  BY <1>2, CommitRows, Zenon
<1>8. \A p \in Ports : p \in Assets /\ OfPort(p) \in Relations
  BY Apart, PortRelation, Zenon
<1>9. PortsHold(rows')
  <2> SUFFICES ASSUME NEW p \in Ports, rows'[p].state = "active"
               PROVE  rows'[OfPort(p)].state = "active" /\ rows'[OfPort(p)].missed =< rows'[p].missed
    BY Zenon DEF PortsHold
  <2>1. n[p].state = "active" /\ rows'[p].missed = n[p].missed
    BY <1>7, <1>8, Zenon DEF Carried
  <2>2. n[OfPort(p)].state = "active" /\ n[OfPort(p)].missed =< n[p].missed
    BY <2>1, <1>5, Zenon DEF Tracks, PortsHold
  <2>3. rows'[OfPort(p)].state = n[OfPort(p)].state /\ rows'[OfPort(p)].missed = n[OfPort(p)].missed
    BY <1>6, <1>8, Zenon DEF Linked
  <2> QED
    BY <2>1, <2>2, <2>3, Zenon
<1>10. PortsAbsent(rows')
  <2> SUFFICES ASSUME NEW p \in Ports, rows'[p].state = "absent"
               PROVE  rows'[OfPort(p)].state = "absent"
    BY Zenon DEF PortsAbsent
  <2>1. n[p].state = "absent"
    BY <1>7, <1>8, Zenon DEF Carried
  <2>2. n[OfPort(p)].state = "absent"
    BY <2>1, <1>5, Zenon DEF Tracks, PortsAbsent
  <2> QED
    BY <2>2, <1>6, <1>8, Zenon DEF Linked
<1>11. ASSUME NEW a \in Assets, rows'[a].state = "active", Tracked(rows', a)
       PROVE  streak'[a] =< rows'[a].missed /\ rows'[a].missed < Threshold[a]
  <2>1. PortsHold(rows)
    BY Zenon DEF MissInv
  <2>2. rows[a].state = "active" => streak[a] >= rows[a].missed
    BY Zenon DEF SurfaceInv
  <2>3. rows[a].state = "active" /\ Tracked(rows, a) => streak[a] =< rows[a].missed /\ rows[a].missed < Threshold[a]
    BY Zenon DEF MissInv
  <2>4. a \in Services => streak[a] = 0
    BY Zenon DEF MissInv
  <2>5. Commits(o, n, rows, rows', result)
    BY <1>2, Zenon
  <2>6. Streaks(o, rows, result, streak, streak')
    BY <1>2, Zenon
  <2> QED
    BY <2>1, <2>2, <2>3, <2>4, <2>5, <2>6, <1>5, <1>11, StreakBelow, ZenonT(60)
<1>12. ASSUME NEW s \in Services
       PROVE  streak'[s] = 0
  <2>1. s \in Assets /\ s \notin result.covered /\ streak[s] = 0
    BY <1>5, Apart, Zenon DEF Tracks, MissInv
  <2> QED
    BY <2>1, <1>2, Zenon DEF Streaks
<1> QED
  BY <1>4, <1>9, <1>10, <1>11, <1>12, ZenonT(60) DEF MissInv

\* The ingestion that has read the rows, if there is one, is still the same.
SameIngest == pending'["ingest"] = pending["ingest"] /\ result' = result /\ streak' = streak

\* A step beside the ingestion keeps MissInv.
LEMMA MissSame ==
  ASSUME MissInv, Quiet(rows, rows'), SameIngest
  PROVE  MissInv'
<1>1. streak' = streak /\ (pending'["ingest"] # None => Tracks(Old("ingest")', New("ingest")', result'))
  BY Zenon DEF SameIngest, MissInv, Old, New
<1> QED
  BY <1>1, MissKept, Zenon

\* MissInv is inductive relative to SurfaceInv.
LEMMA MissStep == RelationsLast /\ SurfaceInv /\ MissInv /\ [Next]_vars => MissInv'
<1> SUFFICES ASSUME RelationsLast, SurfaceInv, MissInv, [Next]_vars
             PROVE  MissInv'
  OBVIOUS
<1>0. /\ "maintenance" \in {"maintenance", "analyst"} /\ "analyst" \in {"maintenance", "analyst"}
      /\ "ingest" \in Writers /\ "maintenance" \in Writers /\ "analyst" \in Writers
      /\ "ingest" # "maintenance" /\ "ingest" # "analyst"
  BY DEF Writers
<1>p. DOMAIN pending = Writers
  BY Zenon DEF SurfaceInv, TypeOK
<1>1. ASSUME rows' = rows, pending' = pending, result' = result, streak' = streak
      PROVE  MissInv'
  BY <1>1, QuietSelf, MissSame, Zenon DEF SameIngest
<1>2. ASSUME NEW writer \in Writers \ {"ingest"}, NEW v, Read(writer, v), rows' = rows, result' = result, streak' = streak
      PROVE  MissInv'
  <2>1. pending'["ingest"] = pending["ingest"]
    BY <1>0, <1>2, <1>p, Begun, ZenonT(60)
  <2> QED
    BY <2>1, <1>2, QuietSelf, MissSame, ZenonT(60) DEF SameIngest
<1>3. ASSUME NEW writer \in {"maintenance", "analyst"}, Write(writer, {}), UNCHANGED <<job, result, streak, setup>>
      PROVE  MissInv'
  <2>1. Quiet(rows, rows') /\ pending'["ingest"] = pending["ingest"]
    BY <1>3, QuietCommit, Zenon
  <2> QED
    BY <2>1, <1>3, MissSame, Zenon DEF SameIngest
<1>4. CASE UNCHANGED vars
  BY <1>1, <1>4, Zenon DEF vars
<1>n. CASE Next
  <2>u. setup' = setup
    BY <1>n, Zenon DEF Next
  <2>1. ASSUME NEW s \in Sensors, Dispatch(s)
        PROVE  MissInv'
    BY <2>1, <1>1, Zenon DEF Dispatch
  <2>2. ASSUME NEW s \in Sensors, NEW complete \in BOOLEAN, NEW rep \in reports(s, job[s]), Ingest(s, complete, rep)
        PROVE  MissInv'
    <3>1. PICK v : /\ Reads("ingest", v)
                   /\ RelationsLast /\ PortsHold(rows) /\ PortsAbsent(rows) => Tracks(rows, v, result')
      BY <2>u, <2>2, IngestParts, Zenon
    <3>2. Tracks(rows, v, result')
      BY <3>1, Zenon DEF MissInv
    <3>3. Read("ingest", v) /\ rows' = rows /\ streak' = streak
      BY <3>1, Zenon DEF Reads
    <3>4. Old("ingest")' = rows /\ New("ingest")' = v
      BY <3>3, <1>0, <1>p, Begun, ZenonT(60)
    <3>5. Tracks(Old("ingest")', New("ingest")', result')
      BY <3>2, <3>4, Zenon
    <3> QED
      BY <3>3, <3>5, QuietSelf, MissKept, ZenonT(60)
  <2>3. CASE IngestCommit
    BY <2>u, <2>3, MissCommit, Zenon
  <2>4. ASSUME NEW expired \in SUBSET Findings, Maintain(expired)
        PROVE  MissInv'
    BY <2>4, <1>0, <1>2, Zenon DEF Maintain
  <2>5. CASE MaintainCommit
    BY <2>u, <2>5, <1>0, <1>3, ZenonT(60) DEF MaintainCommit
  <2>6. ASSUME NEW f \in Findings, NEW status \in FindingStatus, Update(f, status)
        PROVE  MissInv'
    BY <2>6, <1>0, <1>2, Zenon DEF Update
  <2>7. CASE UpdateCommit
    BY <2>u, <2>7, <1>0, <1>3, ZenonT(60) DEF UpdateCommit
  <2>8. ASSUME NEW a \in Assets, Age(a)
        PROVE  MissInv'
    BY <2>8, <1>1, Zenon DEF Age
  <2> QED
    BY <1>n, <2>1, <2>2, <2>3, <2>4, <2>5, <2>6, <2>7, <2>8, ZenonT(60) DEF Next
<1> QED
  BY <1>4, <1>n, Zenon

\* MissInv holds at first.
LEMMA MissInit == Init => MissInv
<1> SUFFICES ASSUME Init
             PROVE  MissInv
  OBVIOUS
<1>0. setup \in Setups /\ pending = [w \in Writers |-> None] /\ streak = [a \in Assets |-> 0] /\ "active" # "absent"
  BY DEF Init
<1>1. ASSUME NEW i \in Ids, i \notin Findings
      PROVE  rows[i].missed = 0 /\ rows[i].state = IF i \notin setup.known THEN "absent" ELSE "active"
  <2>1. rows[i] = [state |-> IF i \notin setup.known THEN "absent" ELSE IF i \in Findings THEN "new" ELSE "active", missed |-> 0]
    BY Zenon DEF Init
  <2> QED
    BY <2>1, <1>1
<1>2. ASSUME NEW p \in Ports
      PROVE  /\ rows[p].state = IF p \notin setup.known THEN "absent" ELSE "active"
             /\ rows[OfPort(p)].state = IF OfPort(p) \notin setup.known THEN "absent" ELSE "active"
             /\ rows[p].missed = 0 /\ rows[OfPort(p)].missed = 0
             /\ p \in setup.known <=> OfPort(p) \in setup.known
  <2>1. p \in Ids /\ p \notin Findings /\ OfPort(p) \in Ids /\ OfPort(p) \notin Findings /\ OfPort(p) \in Relations /\ OfPort(p)[2] = p
    BY Apart, PortRelation, Zenon
  <2>2. p \in setup.known => OfPort(p) \in setup.known
    BY <1>0, AttackSurfaceAssumption, Zenon DEF OfPort
  <2>3. OfPort(p) \in setup.known => p \in setup.known
    <3>1. \A r \in setup.known \intersect Relations : {r[1], r[2]} \subseteq setup.known
      BY <1>0, AttackSurfaceAssumption, Zenon
    <3> QED
      BY <3>1, <2>1, Zenon
  <2> QED
    BY <2>1, <2>2, <2>3, <1>1, ZenonT(60)
<1>3. 0 =< 0 /\ \A a \in Assets : 0 < Threshold[a]
  <2>1. \A a \in Assets : Threshold[a] \in Nat \ {0}
    BY AttackSurfaceAssumption, Zenon
  <2> QED
    BY <2>1
<1>4. PortsHold(rows) /\ PortsAbsent(rows)
  BY <1>0, <1>2, <1>3, Zenon DEF PortsHold, PortsAbsent
<1>5. \A a \in Assets : streak[a] = 0 /\ rows[a].missed = 0
  BY <1>0, <1>1, Apart, Zenon
<1>6. "ingest" \in Writers
  BY DEF Writers
<1>7. pending["ingest"] = None
  BY <1>0, <1>6, Zenon
<1> QED
  BY <1>3, <1>4, <1>5, <1>7, Apart, ZenonT(60) DEF MissInv

\* What has been missed often enough and is active is an orphan.
LEMMA MissedEnough == SurfaceInv /\ MissInv => MissedEnoughIsGone
<1> SUFFICES ASSUME SurfaceInv, MissInv, NEW a \in Active(rows, Assets), streak[a] >= Threshold[a]
             PROVE  a \notin Names /\ Orphan(a)
  BY Zenon DEF MissedEnoughIsGone
<1>1. a \in Assets /\ rows[a].state = "active"
  BY Zenon DEF Active
<1>2. streak[a] \in Nat /\ rows[a].missed \in Nat /\ Threshold[a] \in Nat
  <2>1. TypeOK /\ Table(rows) /\ streak[a] \in Nat
    BY <1>1, RowsTable, Zenon DEF SurfaceInv, TypeOK
  <2>2. rows[a].missed \in Nat
    BY <2>1, <1>1, Apart, Counters, ZenonT(60)
  <2>3. Threshold[a] \in Nat
    BY <1>1, AttackSurfaceAssumption, Zenon
  <2> QED
    BY <2>1, <2>2, <2>3, Zenon
<1>3. ~Tracked(rows, a)
  <2>1. Tracked(rows, a) => streak[a] =< rows[a].missed /\ rows[a].missed < Threshold[a]
    BY <1>1, Zenon DEF MissInv
  <2>2. ~(streak[a] =< rows[a].missed /\ rows[a].missed < Threshold[a])
    BY <1>2
  <2> QED
    BY <2>1, <2>2, Zenon
<1> QED
  BY <1>3, Zenon DEF Tracked, Orphan

-----------------------------------------------------------------------------
(* Theorems.                                                               *)

\* SurfaceInv holds in every state.
LEMMA SurfaceSafety == Spec => []SurfaceInv
<1>1. Init => SurfaceInv
  BY SurfaceInit, Zenon
<1>2. SurfaceInv /\ [Next]_vars => SurfaceInv'
  BY SurfaceStep, Zenon
<1> QED
  BY <1>1, <1>2, PTL DEF Spec

\* The tables keep their kinds of rows: an asset or relation never gets the status of a
\* finding nor a finding one of theirs, whatever transactions commit over each other (Write).
THEOREM SurfaceTypes == Spec => []TypeOK
<1>1. SurfaceInv => TypeOK
  BY Zenon DEF SurfaceInv
<1> QED
  BY <1>1, SurfaceSafety, PTL

\* No scan undoes an analyst's decision, for any inventory, number of scans and transactions
\* in between, unless it read the finding before the decision (upsert_observation,
\* resolve_unobserved, resolve_for_inactive_asset).
THEOREM DecisionsSurviveScans == Spec => DecisionsStand
<1>1. SurfaceInv /\ [Next]_vars =>
        [\A f \in Findings : Committing("ingest") /\ rows[f].state \in {"accepted_risk", "false_positive"} /\ ~Overwrites("ingest")
          => rows'[f].state = rows[f].state]_vars
  BY DecisionStep, Zenon
<1> QED
  BY <1>1, SurfaceSafety, PTL DEF Spec, DecisionsStand

\* An asset that a scan finds gone takes its open findings with it, however it went: missed,
\* with its owner, or unnamed (resolve_for_inactive_asset at every call of _deactivate).
THEOREM FindingsGoWithAssets == Spec => FindingsLeaveWithAsset
<1>1. SurfaceInv /\ [Next]_vars =>
        [\A f \in Findings : Committing("ingest") /\ Vanishes(On[f]) /\ ~Overwrites("ingest")
          => \/ rows'[f].state \notin OPEN_FINDING_STATES
             \/ pending["ingest"].old[f].state \notin OPEN_FINDING_STATES]_vars
  BY LeaveStep, Zenon
<1> QED
  BY <1>1, SurfaceSafety, PTL DEF Spec, FindingsLeaveWithAsset

\* An ingestion takes an asset away only after as many misses as settings.inactivity asks
\* for, with its owner, or when no name resolves to it, and only a live sighting brings one
\* back (_missed, _deactivate, _apply_relation_coverage, IngestContext.historical).
THEOREM StatusesNeedEvidence == Spec => StatusNeedsEvidence
<1>1. SurfaceInv /\ [Next]_vars =>
        [\A a \in Assets :
        /\ Committing("ingest") /\ Vanishes(a) /\ ~Overwrites("ingest")
           => \/ streak'[a] >= Threshold[a]
              \/ \E o \in Assets : <<o, a>> \in Owned /\ Vanishes(o)
              \/ a \in Addresses /\ \A n \in Names : rows'[<<n, a>>].state # "active"
        /\ Is(a, "inactive") /\ rows'[a].state = "active"
           => Committing("ingest") /\ result.live /\ a \in result.seen]_vars
  <2>1. ASSUME SurfaceInv, [Next]_vars, NEW a \in Assets
        PROVE  /\ Committing("ingest") /\ Vanishes(a) /\ ~Overwrites("ingest")
                  => \/ streak'[a] >= Threshold[a]
                     \/ \E o \in Assets : <<o, a>> \in Owned /\ Vanishes(o)
                     \/ a \in Addresses /\ \A n \in Names : rows'[<<n, a>>].state # "active"
               /\ Is(a, "inactive") /\ rows'[a].state = "active"
                  => Committing("ingest") /\ result.live /\ a \in result.seen
    BY <2>1, GoneStep, ReviveStep, Zenon
  <2> QED
    BY <2>1, Zenon
<1> QED
  BY <1>1, SurfaceSafety, PTL DEF Spec, StatusNeedsEvidence

\* Where a relation is given up no sooner than a port, as by default, a name, port or
\* endpoint that enough covering scans in a row missed is not active, unless nothing connects
\* it any more (_missed, _apply_relation_coverage).
THEOREM MissesAreCounted == ASSUME RelationsLast PROVE Spec => []MissedEnoughIsGone
<1>1. Init => MissInv
  BY MissInit, Zenon
<1>2. SurfaceInv /\ MissInv /\ [Next]_vars => MissInv'
  BY MissStep, Zenon
<1>3. SurfaceInv /\ MissInv => MissedEnoughIsGone
  BY MissedEnough, Zenon
<1> QED
  BY <1>1, <1>2, <1>3, SurfaceSafety, PTL DEF Spec

=============================================================================
