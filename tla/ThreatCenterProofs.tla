------------------------- MODULE ThreatCenterProofs -------------------------
EXTENDS ThreatCenter, FiniteSetTheorems, TLAPS

\* The assessment is the only column assess sets.
Reassessed(n, m) == /\ n \in Match /\ n.run = m.run /\ n.outcome = m.outcome

\* assess computes an assessment and nothing else of the row changes.
LEMMA AssessedRow ==
  ASSUME NEW m \in Match
  PROVE  Reassessed(Assessed(m), m)
<1>1. assess(m) \in Assessment
  <2>1. m.status \in MatchStatus /\ m.outcome \in CheckOutcome
    BY DEF Match
  <2> QED
    BY <2>1, Zenon DEF assess, Assessment
<1>2. Assessed(m) = [m EXCEPT !.assessment = assess(m)]
  BY DEF Assessed
<1> QED
  BY <1>1, <1>2 DEF Reassessed, Match

\* What recording the result of a run does to the rows.
SyncedRow(n, m, mine, end, a, reported, reached) ==
    /\ ~mine => n = m
    /\ mine => /\ n \in Match /\ n.run = m.run /\ n.outcome # "pending"
               /\ n.outcome = "not_detected" => end = "clean" /\ a \in reached \ reported

IsSynced(db, r, end, reported, reached, new) ==
    /\ \A a \in Assets : SyncedRow(new.match[a], db.match[a],
                                   a \in db.run[r].assets /\ db.match[a] # None /\ db.match[a].run = r, end, a, reported, reached)
    /\ \A x \in Runs \ {r} : new.run[x] = db.run[x]
    /\ Stopped(new.run[r], db.run[r])
    /\ new \in Rows

\* sync_check_run changes the matches of its run only, and ends the run.
LEMMA Synced ==
  ASSUME NEW db \in Rows, NEW r \in Runs, db.run[r] \in Run, NEW end, NEW reported, NEW reached
  PROVE  IsSynced(db, r, end, reported, reached, sync_check_run(db, r, end, reported, reached))
<1> DEFINE new == sync_check_run(db, r, end, reported, reached)
           owned == {a \in db.run[r].assets : db.match[a] # None /\ db.match[a].run = r}
           outcome(a) == IF Current # 0 /\ ~run_applies(db.run[r], content[Current]) THEN "none"
                         ELSE Outcome(r, end, a, reported, reached)
           status == CASE end = "cancelled" -> "cancelled" [] end = "clean" -> "completed" [] OTHER -> "inconclusive"
           m == [a \in Assets |-> IF a \in owned THEN Assessed([db.match[a] EXCEPT !.outcome = outcome(a)]) ELSE db.match[a]]
           u == [db.run EXCEPT ![r].status = status]
<1>1. new = [match |-> m, run |-> u]
  BY Zenon DEF sync_check_run
<1>2. new.match = m /\ new.run = u
  BY <1>1
<1>3. db.match \in [Assets -> Match \union {None}] /\ db.run \in [Runs -> Run \union {None}]
  BY DEF Rows
<1>4. \A a : outcome(a) \in CheckOutcome \ {"pending"} /\ (outcome(a) = "not_detected" => end = "clean" /\ a \in reached \ reported)
  BY DEF Outcome, CheckOutcome
<1>5. status \in {"completed", "inconclusive", "cancelled"}
  OBVIOUS
<1> HIDE DEF new, outcome, status
<1>6. ASSUME NEW a \in Assets
      PROVE  SyncedRow(m[a], db.match[a], a \in db.run[r].assets /\ db.match[a] # None /\ db.match[a].run = r, end, a, reported, reached)
  <2>1. CASE a \in owned
    <3> DEFINE w == [db.match[a] EXCEPT !.outcome = outcome(a)]
    <3>1. db.match[a] \in Match
      BY <1>3, <2>1, Zenon
    <3>2. w \in Match /\ w.run = db.match[a].run /\ w.outcome = outcome(a)
      BY <1>4, <3>1 DEF Match
    <3>3. m[a] = Assessed(w)
      BY <2>1, Zenon
    <3> HIDE DEF w, m
    <3>4. Reassessed(m[a], w)
      BY <3>2, <3>3, AssessedRow, Zenon
    <3> QED
      BY <1>4, <2>1, <3>2, <3>4, Zenon DEF SyncedRow, Reassessed
  <2>2. CASE a \notin owned
    BY <2>2, Zenon DEF SyncedRow
  <2> QED
    BY <2>1, <2>2, Zenon
<1>7. \A x \in Runs \ {r} : u[x] = db.run[x]
  BY <1>3, Zenon
<1>8. u[r] = [db.run[r] EXCEPT !.status = status]
  BY <1>3, Zenon
<1>9. Stopped(u[r], db.run[r])
  BY <1>5, <1>8, Zenon DEF Stopped
<1>10. u \in [Runs -> Run \union {None}]
  <2>1. u[r] \in Run
    BY <1>5, <1>8 DEF Run
  <2> QED
    BY <1>3, <1>7, <2>1, Zenon
<1>11. m \in [Assets -> Match \union {None}]
  <2>1. \A a \in Assets : m[a] \in Match \union {None}
    BY <1>3, <1>6, Zenon DEF SyncedRow
  <2> QED
    BY <2>1, Zenon
<1>12. new \in Rows
  BY <1>1, <1>10, <1>11, Zenon DEF Rows
<1> HIDE DEF m, u
<1> QED
  BY <1>2, <1>6, <1>7, <1>9, <1>12, Zenon DEF new, IsSynced

\* A match that is no longer observed keeps its check.
LEMMA RetiredFields ==
  ASSUME NEW m \in Match
  PROVE  LET x == [m EXCEPT !.status = "no_longer_observed", !.verified = FALSE] IN
         x \in Match /\ x.run = m.run /\ x.outcome = m.outcome
<1> DEFINE y == [m EXCEPT !.status = "no_longer_observed"]
           x == [m EXCEPT !.status = "no_longer_observed", !.verified = FALSE]
<1>1. x = [y EXCEPT !.verified = FALSE]
  BY Zenon
<1>2. y \in Match /\ y.run = m.run /\ y.outcome = m.outcome
  BY DEF Match, MatchStatus
<1> HIDE DEF x, y
<1>3. x \in Match /\ x.run = m.run /\ x.outcome = m.outcome
  BY <1>1, <1>2, Zenon DEF Match
<1> QED
  BY <1>3, Zenon DEF x

\* What an evaluation does to a row: it keeps the run, and the outcome or none.
EvaluatedRow(n, m) ==
    /\ n \in Match \union {None}
    /\ m # None => n # None /\ n.run = m.run /\ n.outcome \in {m.outcome, "none"}
    /\ m = None => n = None \/ (n.run = 0 /\ n.outcome = "none")

IsEvaluated(db, new) == /\ new \in Rows /\ new.run = db.run
                        /\ \A a \in Assets : EvaluatedRow(new.match[a], db.match[a])

\* evaluate_org keeps the runs, and of every match the check it belongs to.
LEMMA EvaluatedRows ==
  ASSUME NEW db \in Rows, NEW version, NEW visible, NEW complete
  PROVE  IsEvaluated(db, Evaluated(db, version, visible, complete))
<1> DEFINE ask == content[version]
           verified(a) == <<a, ask>> \in found
           evident == {a \in visible : seen[a] # {} \/ verified(a)}
           keeps(a) == db.match[a] # None /\ (db.match[a].outcome \in Conclusive =>
                            db.match[a].run # 0 /\ run_applies(run[db.match[a].run], ask))
           raw(a) == [verified |-> verified(a), assessment |-> "",
                      status |-> IF seen[a] # {} THEN match_status(seen[a]) ELSE "potentially_affected",
                      basis |-> IF seen[a] = {} THEN "finding"
                                ELSE IF third_party_only(seen[a]) /\ ~verified(a) THEN "third_party" ELSE "product",
                      outcome |-> IF keeps(a) THEN db.match[a].outcome ELSE "none",
                      run |-> IF db.match[a] = None THEN 0 ELSE db.match[a].run]
           m == [a \in Assets |-> IF a \in evident THEN Assessed(raw(a))
                                  ELSE IF db.match[a] # None /\ complete THEN Retire(db.match[a]) ELSE db.match[a]]
           new == Evaluated(db, version, visible, complete)
<1>1. new = [db EXCEPT !.match = m]
  BY Zenon DEF Evaluated
<1>2. db.match \in [Assets -> Match \union {None}] /\ db.run \in [Runs -> Run \union {None}]
  BY DEF Rows
<1> HIDE DEF new
<1>3. ASSUME NEW a \in Assets
      PROVE  EvaluatedRow(m[a], db.match[a])
  <2>1. CASE a \in evident
    <3> DEFINE v == verified(a)
               s == IF seen[a] # {} THEN match_status(seen[a]) ELSE "potentially_affected"
               b == IF seen[a] = {} THEN "finding"
                    ELSE IF third_party_only(seen[a]) /\ ~verified(a) THEN "third_party" ELSE "product"
               o == IF keeps(a) THEN db.match[a].outcome ELSE "none"
               u == IF db.match[a] = None THEN 0 ELSE db.match[a].run
    <3>1. raw(a) = [verified |-> v, assessment |-> "", status |-> s, basis |-> b, outcome |-> o, run |-> u]
      BY Zenon
    <3>2. v \in BOOLEAN /\ s \in MatchStatus /\ b \in {"product", "finding", "third_party"}
      BY DEF match_status, MatchStatus
    <3>3. db.match[a] \in Match \union {None}
      BY <1>2, Zenon
    <3>4. db.match[a] # None => db.match[a].outcome \in CheckOutcome /\ db.match[a].run \in Runs \union {0}
      BY <3>3 DEF Match
    <3>5. o \in CheckOutcome /\ o \in {db.match[a].outcome, "none"} /\ (db.match[a] = None => o = "none")
      BY <3>4 DEF CheckOutcome
    <3>6. u \in Runs \union {0} /\ (db.match[a] # None => u = db.match[a].run) /\ (db.match[a] = None => u = 0)
      BY <3>4, Zenon
    <3> HIDE DEF v, s, b, o, u
    <3> DEFINE x == [verified |-> v, assessment |-> "", status |-> s, basis |-> b, outcome |-> o, run |-> u]
    <3>7. m[a] = Assessed(x)
      BY <2>1, <3>1, Zenon
    <3> HIDE DEF raw, m
    <3>8. x \in Match /\ x.run = u /\ x.outcome = o
      BY <3>2, <3>5, <3>6 DEF Match, Assessment
    <3> HIDE DEF x
    <3>9. Reassessed(m[a], x)
      BY <3>7, <3>8, AssessedRow, Zenon
    <3>10. m[a] # None
      BY <3>9, ThreatCenterAssumption, Zenon DEF Reassessed
    <3> QED
      BY <3>5, <3>6, <3>8, <3>9, <3>10, Zenon DEF Reassessed, EvaluatedRow
  <2>2. CASE a \notin evident /\ db.match[a] # None /\ complete
    <3> DEFINE y == db.match[a]
               x == [y EXCEPT !.status = "no_longer_observed", !.verified = FALSE]
    <3>1. y \in Match
      BY <1>2, <2>2, Zenon
    <3>2. x \in Match /\ x.run = y.run /\ x.outcome = y.outcome
      <4> HIDE DEF y
      <4> QED
        BY <3>1, RetiredFields, Zenon
    <3>3. m[a] = Assessed(x)
      BY <2>2, Zenon DEF Retire
    <3> HIDE DEF x, m
    <3>4. Reassessed(m[a], x)
      BY <3>2, <3>3, AssessedRow, Zenon
    <3>5. m[a] # None
      BY <3>4, ThreatCenterAssumption, Zenon DEF Reassessed
    <3> QED
      BY <2>2, <3>2, <3>4, <3>5, Zenon DEF Reassessed, EvaluatedRow
  <2>3. CASE a \notin evident /\ ~(db.match[a] # None /\ complete)
    <3>1. m[a] = db.match[a]
      BY <2>3, Zenon
    <3> HIDE DEF m
    <3> QED
      BY <1>2, <3>1, Zenon DEF EvaluatedRow
  <2> QED
    BY <2>1, <2>2, <2>3, Zenon
<1>4. \A a \in Assets : m[a] \in Match \union {None}
  BY <1>3, Zenon DEF EvaluatedRow
<1>5. m \in [Assets -> Match \union {None}]
  BY <1>4, Zenon
<1> HIDE DEF m
<1>6. new.match = m /\ new.run = db.run /\ new \in Rows
  BY <1>1, <1>5 DEF Rows
<1> QED
  BY <1>3, <1>6, Zenon DEF new, IsEvaluated

\* The columns of a row that has been read, changed, and found as now.
Columns(o, n, now) == [c \in DOMAIN now |-> IF n[c] = o[c] THEN now[c] ELSE n[c]]

Column(old, new, now) == IF now = None \/ old = None THEN (IF new = old THEN now ELSE new) ELSE Columns(old, new, now)

\* What a transaction makes of a match row, and of a run row, it finds as now.
MergedMatch(o, n, now, x) ==
    /\ x \in Match \union {None}
    /\ o # None /\ now # None => /\ x \in Match
                                 /\ x.run = IF n.run = o.run THEN now.run ELSE n.run
                                 /\ x.outcome = IF n.outcome = o.outcome THEN now.outcome ELSE n.outcome
    /\ n = o => x = now
    /\ (o = None \/ now = None) /\ n # o => x = n
MergedRun(o, n, now, x) ==
    /\ x \in Run \union {None}
    /\ n = o => x = now
    /\ o = now => x = n

\* Writing the changed columns of a match row gives a match row.
LEMMA MatchColumns ==
  ASSUME NEW o \in Match, NEW n \in Match, NEW now \in Match
  PROVE  MergedMatch(o, n, now, Columns(o, n, now))
<1> DEFINE x == Columns(o, n, now)
<1>1. DOMAIN now = {"status", "basis", "verified", "outcome", "run", "assessment"}
  BY DEF Match
<1>2. x = [c \in {"status", "basis", "verified", "outcome", "run", "assessment"} |-> IF n[c] = o[c] THEN now[c] ELSE n[c]]
  BY <1>1, Zenon DEF Columns
<1>3. /\ x["status"] = IF n["status"] = o["status"] THEN now["status"] ELSE n["status"]
      /\ x["basis"] = IF n["basis"] = o["basis"] THEN now["basis"] ELSE n["basis"]
      /\ x["verified"] = IF n["verified"] = o["verified"] THEN now["verified"] ELSE n["verified"]
      /\ x["outcome"] = IF n["outcome"] = o["outcome"] THEN now["outcome"] ELSE n["outcome"]
      /\ x["run"] = IF n["run"] = o["run"] THEN now["run"] ELSE n["run"]
      /\ x["assessment"] = IF n["assessment"] = o["assessment"] THEN now["assessment"] ELSE n["assessment"]
  BY <1>2, Zenon
<1>4. DOMAIN x = {"status", "basis", "verified", "outcome", "run", "assessment"}
  BY <1>2, Zenon
<1>41. x = [c \in DOMAIN x |-> x[c]]
  BY <1>2, Zenon
<1> HIDE DEF x
<1>5. x = [status |-> x["status"], basis |-> x["basis"], verified |-> x["verified"], outcome |-> x["outcome"],
           run |-> x["run"], assessment |-> x["assessment"]]
  BY <1>4, <1>41
<1>6. x \in Match
  BY <1>3, <1>5 DEF Match
<1>7. now = [status |-> now["status"], basis |-> now["basis"], verified |-> now["verified"], outcome |-> now["outcome"],
           run |-> now["run"], assessment |-> now["assessment"]]
  BY DEF Match
<1>8. n = o => x = now
  BY <1>3, <1>5, <1>7, Zenon
<1>9. o # None /\ n # None /\ now # None
  BY ThreatCenterAssumption, Zenon
<1> QED
  BY <1>3, <1>6, <1>8, <1>9, Zenon DEF x, MergedMatch

\* Writing the changed columns of a run row gives a run row.
LEMMA RunColumns ==
  ASSUME NEW o \in Run, NEW n \in Run, NEW now \in Run
  PROVE  MergedRun(o, n, now, Columns(o, n, now))
<1> DEFINE x == Columns(o, n, now)
<1>1. DOMAIN now = {"status", "ask", "assets"}
  BY DEF Run
<1>2. x = [c \in {"status", "ask", "assets"} |-> IF n[c] = o[c] THEN now[c] ELSE n[c]]
  BY <1>1, Zenon DEF Columns
<1>3. /\ x["status"] = IF n["status"] = o["status"] THEN now["status"] ELSE n["status"]
      /\ x["ask"] = IF n["ask"] = o["ask"] THEN now["ask"] ELSE n["ask"]
      /\ x["assets"] = IF n["assets"] = o["assets"] THEN now["assets"] ELSE n["assets"]
  BY <1>2, Zenon
<1>4. DOMAIN x = {"status", "ask", "assets"} /\ x = [c \in DOMAIN x |-> x[c]]
  BY <1>2, Zenon
<1> HIDE DEF x
<1>5. x = [status |-> x["status"], ask |-> x["ask"], assets |-> x["assets"]]
  BY <1>4
<1>6. x \in Run
  BY <1>3, <1>5 DEF Run
<1>7. /\ now = [status |-> now["status"], ask |-> now["ask"], assets |-> now["assets"]]
      /\ n = [status |-> n["status"], ask |-> n["ask"], assets |-> n["assets"]]
  BY DEF Run
<1>8. (n = o => x = now) /\ (o = now => x = n)
  BY <1>3, <1>5, <1>7, Zenon
<1> QED
  BY <1>6, <1>8, Zenon DEF x, MergedRun

\* Nothing that was read is going to be deleted.
Keeps(t) == /\ \A a \in Assets : t.old.match[a] # None => t.new.match[a] # None
            /\ \A r \in Runs : t.old.run[r] # None => t.new.run[r] # None
IsMerge(t) ==
    /\ Merged(t) \in Rows
    /\ \A a \in Assets : MergedMatch(t.old.match[a], t.new.match[a], match[a], Merged(t).match[a])
    /\ \A r \in Runs : MergedRun(t.old.run[r], t.new.run[r], run[r], Merged(t).run[r])

\* The same where one of the rows may be missing.
LEMMA MergeMatch ==
  ASSUME NEW o \in Match \union {None}, NEW n \in Match \union {None}, NEW now \in Match \union {None}, o # None => n # None
  PROVE  MergedMatch(o, n, now, Column(o, n, now))
<1>1. CASE now = None \/ o = None
  BY <1>1, Zenon DEF MergedMatch, Column
<1>2. CASE now # None /\ o # None
  <2>1. o \in Match /\ n \in Match /\ now \in Match /\ Column(o, n, now) = Columns(o, n, now)
    BY <1>2, Zenon DEF Column
  <2> QED
    BY <2>1, MatchColumns, Zenon
<1> QED
  BY <1>1, <1>2, Zenon

\* The same for runs.
LEMMA MergeRun ==
  ASSUME NEW o \in Run \union {None}, NEW n \in Run \union {None}, NEW now \in Run \union {None}, o # None => n # None
  PROVE  MergedRun(o, n, now, Column(o, n, now))
<1>1. CASE now = None \/ o = None
  BY <1>1, Zenon DEF MergedRun, Column
<1>2. CASE now # None /\ o # None
  <2>1. o \in Run /\ n \in Run /\ now \in Run /\ Column(o, n, now) = Columns(o, n, now)
    BY <1>2, Zenon DEF Column
  <2> QED
    BY <2>1, RunColumns, Zenon
<1> QED
  BY <1>1, <1>2, Zenon

\* A transaction that deletes nothing merges its rows with the rows as they are.
LEMMA MergedRows ==
  ASSUME NEW t, t.old \in Rows, t.new \in Rows, DB \in Rows, Keeps(t)
  PROVE  IsMerge(t)
<1> DEFINE m == [a \in Assets |-> Column(t.old.match[a], t.new.match[a], match[a])]
           u == [r \in Runs |-> Column(t.old.run[r], t.new.run[r], run[r])]
<1>1. Merged(t) = [match |-> m, run |-> u]
  BY Zenon DEF Merged, Column, Columns
<1>2. Merged(t).match = m /\ Merged(t).run = u
  BY <1>1
<1>3. /\ t.old.match \in [Assets -> Match \union {None}] /\ t.new.match \in [Assets -> Match \union {None}]
      /\ t.old.run \in [Runs -> Run \union {None}] /\ t.new.run \in [Runs -> Run \union {None}]
      /\ match \in [Assets -> Match \union {None}] /\ run \in [Runs -> Run \union {None}]
  BY DEF Rows, DB
<1>4. ASSUME NEW a \in Assets
      PROVE  MergedMatch(t.old.match[a], t.new.match[a], match[a], m[a])
  <2>1. /\ t.old.match[a] \in Match \union {None} /\ t.new.match[a] \in Match \union {None} /\ match[a] \in Match \union {None}
        /\ t.old.match[a] # None => t.new.match[a] # None
    BY <1>3, Zenon DEF Keeps
  <2>2. m[a] = Column(t.old.match[a], t.new.match[a], match[a])
    BY Zenon
  <2> QED
    BY <2>1, <2>2, MergeMatch, Zenon
<1>5. ASSUME NEW r \in Runs
      PROVE  MergedRun(t.old.run[r], t.new.run[r], run[r], u[r])
  <2>1. /\ t.old.run[r] \in Run \union {None} /\ t.new.run[r] \in Run \union {None} /\ run[r] \in Run \union {None}
        /\ t.old.run[r] # None => t.new.run[r] # None
    BY <1>3, Zenon DEF Keeps
  <2>2. u[r] = Column(t.old.run[r], t.new.run[r], run[r])
    BY Zenon
  <2> QED
    BY <2>1, <2>2, MergeRun, Zenon
<1>6. m \in [Assets -> Match \union {None}] /\ u \in [Runs -> Run \union {None}]
  <2>1. \A a \in Assets : m[a] \in Match \union {None}
    BY <1>4, Zenon DEF MergedMatch
  <2>2. \A r \in Runs : u[r] \in Run \union {None}
    BY <1>5, Zenon DEF MergedRun
  <2> QED
    BY <2>1, <2>2, Zenon
<1> HIDE DEF m, u
<1>7. Merged(t) \in Rows
  BY <1>1, <1>6 DEF Rows
<1> QED
  BY <1>2, <1>4, <1>5, <1>7, Zenon DEF IsMerge

\* What the others do to what a transaction of w has read.
UndisturbedRow(now, then, evaluated) ==
    /\ now # None => then # None /\ then.run = now.run /\ (then.outcome = "pending" => now.outcome = "pending")
    /\ now = None /\ evaluated => then = None
Undisturbed(w) ==
    /\ tx'[w] = tx[w]
    /\ \A a \in Assets : UndisturbedRow(match[a], match'[a], tx[w].step = "evaluated")
    /\ \A r \in Recorded(tx[w]) : /\ run'[r] = run[r] /\ tested'[r] = tested[r] /\ detected'[r] = detected[r]
                                  /\ w = "daily" => scan'[r] = scan[r] /\ (hits'[r] = detected'[r] => hits[r] = detected[r])

\* What a transaction relies on survives the steps of the others that do not disturb it.
LEMMA HeldKept ==
  ASSUME NEW w \in Transaction, HeldInv(w), tx[w] # None => Undisturbed(w), tx'[w] = tx[w]
  PROVE  HeldInv(w)'
<1> SUFFICES ASSUME tx[w] # None PROVE HeldInv(w)'
  BY Zenon DEF HeldInv
<1> PICK t : t = tx[w]
  BY Zenon
<1>1. Undisturbed(w) /\ ReadInv(t) /\ RecordedInv(t, w) /\ OutcomeInv(t, w)
  BY Zenon DEF HeldInv
<1>2. ReadInv(t)'
  <2> SUFFICES ASSUME NEW a \in Assets
               PROVE  ReadRow(t.old.match[a], t.new.match[a], match'[a], t.step = "evaluated") /\ (a \in t.loaded => t.old.match[a] # None)
    BY Zenon DEF ReadInv
  <2>1. UndisturbedRow(match[a], match'[a], t.step = "evaluated")
    BY <1>1, Zenon DEF Undisturbed
  <2>2. ReadRow(t.old.match[a], t.new.match[a], match[a], t.step = "evaluated") /\ (a \in t.loaded => t.old.match[a] # None)
    BY <1>1, Zenon DEF ReadInv
  <2> QED
    BY <2>1, <2>2, Zenon DEF ReadRow, UndisturbedRow
<1>3. RecordedInv(t, w)'
  <2> SUFFICES ASSUME NEW r \in Recorded(t)
               PROVE  /\ RecordedRun(t, w, r, run'[r], scan'[r])
                      /\ \A a \in Assets : Awaited(t.old.match[a], t.new.match[a], match'[a], r)
    BY Zenon DEF RecordedInv
  <2>1. RecordedRun(t, w, r, run[r], scan[r]) /\ \A a \in Assets : Awaited(t.old.match[a], t.new.match[a], match[a], r)
    BY <1>1, Zenon DEF RecordedInv
  <2>2. run'[r] = run[r] /\ (w = "daily" => scan'[r] = scan[r])
    BY <1>1, Zenon DEF Undisturbed
  <2>3. RecordedRun(t, w, r, run'[r], scan'[r])
    BY <2>1, <2>2, Zenon DEF RecordedRun
  <2>4. ASSUME NEW a \in Assets
        PROVE  Awaited(t.old.match[a], t.new.match[a], match'[a], r)
    <3>1. UndisturbedRow(match[a], match'[a], t.step = "evaluated")
      BY <1>1, Zenon DEF Undisturbed
    <3>2. t.old.match[a] # None => match[a] # None
      BY <1>1, Zenon DEF ReadInv, ReadRow
    <3>3. Awaited(t.old.match[a], t.new.match[a], match[a], r)
      BY <2>1, Zenon
    <3> QED
      BY <3>1, <3>2, <3>3, Zenon DEF Awaited, UndisturbedRow
  <2> QED
    BY <2>3, <2>4, Zenon
<1>4. OutcomeInv(t, w)'
  <2> SUFFICES ASSUME NEW a \in Assets, Judged(t.old.match[a], t.new.match[a])
               PROVE  LET r == t.new.match[a].run
                      IN  /\ r \in Recorded(t)
                          /\ w = "finish" => t.end = "clean" /\ a \in tested'[r] \ detected'[r]
                          /\ w = "daily" => Clean(r, a)'
    BY Zenon DEF OutcomeInv
  <2> PICK r : r = t.new.match[a].run
    BY Zenon
  <2>1. /\ r \in Recorded(t)
        /\ w = "finish" => t.end = "clean" /\ a \in tested[r] \ detected[r]
        /\ w = "daily" => Clean(r, a)
    BY <1>1, Zenon DEF OutcomeInv
  <2>2. /\ tested'[r] = tested[r] /\ detected'[r] = detected[r]
        /\ w = "daily" => scan'[r] = scan[r] /\ (hits'[r] = detected'[r] => hits[r] = detected[r])
    BY <1>1, <2>1, Zenon DEF Undisturbed
  <2>3. w = "daily" => Clean(r, a)'
    BY <2>1, <2>2, Zenon DEF Clean
  <2> QED
    BY <2>1, <2>2, <2>3, Zenon
<1>5. t = tx'[w]
  OBVIOUS
<1> QED
  BY <1>2, <1>3, <1>4, <1>5, Zenon DEF HeldInv, ReadInv, RecordedInv, OutcomeInv, Clean

Sessions == {"finish", "daily", "request", "editor"}

Writes(w, x) == /\ DOMAIN tx' = Sessions /\ tx'[w] = x
                /\ \A v \in Sessions \ {w} : tx'[v] = tx[v]

\* A step that sets one transaction leaves the others.
LEMMA TxWritten ==
  ASSUME Typed, NEW w \in Sessions, NEW x, tx' = [tx EXCEPT ![w] = x]
  PROVE  Writes(w, x)
BY Zenon DEF Typed, TxTyped, Writes, Sessions

\* A step that leaves the rows, and what ended scans have shown, as they are.
EndedKept(r) == /\ scan'[r] = scan[r] /\ tested'[r] = tested[r] /\ detected'[r] = detected[r]
                /\ hits'[r] = detected'[r] => hits[r] = detected[r]
TablesKept ==
    /\ UNCHANGED <<match, run, announced>>
    /\ \A r \in Runs : scan'[r] = "active" => scan[r] = "active"
    /\ \A r \in Runs : hits'[r] \subseteq detected'[r]
    /\ \A r \in Runs : scan[r] \in Ends => EndedKept(r)

\* Such a step keeps what the invariant says of the rows, and of a request.
LEMMA RowsKept ==
  ASSUME ThreatInv, TablesKept
  PROVE  RowsLinked' /\ PendingInv' /\ CleanInv' /\ AnnouncedInv' /\ (tx'["request"] = tx["request"] => RequestInv')
<1>1. match' = match /\ run' = run /\ announced' = announced
  BY Zenon DEF TablesKept
<1>2. Requested' = Requested
  BY <1>1, Zenon DEF Requested
<1>3. RowsLinked'
  <2>1. RowsLinked
    BY Zenon DEF ThreatInv
  <2>2. \A r \in Runs : scan'[r] = "active" => Active(r)'
    BY <1>1, <2>1, Zenon DEF RowsLinked, TablesKept, Active
  <2>3. \A r \in Runs : hits'[r] \subseteq detected'[r]
    BY Zenon DEF TablesKept
  <2> QED
    BY <1>1, <1>2, <2>1, <2>2, <2>3, Zenon DEF RowsLinked
<1>4. PendingInv'
  BY <1>1, Zenon DEF ThreatInv, PendingInv, Active
<1>5. CleanInv'
  <2> SUFFICES ASSUME NEW a \in Assets, match[a] # None, match[a].outcome = "not_detected"
               PROVE  match[a].run # 0 /\ scan'[match[a].run] \in Ends /\ Clean(match[a].run, a)'
    BY <1>1, Zenon DEF CleanInv, Clean
  <2> PICK r : r = match[a].run
    BY Zenon
  <2>1. r # 0 /\ scan[r] \in Ends /\ Clean(r, a)
    BY Zenon DEF ThreatInv, CleanInv
  <2>2. r \in Runs
    <3>1. match[a] \in Match
      BY Zenon DEF ThreatInv, Typed, TypeOK
    <3>2. match[a].run \in Runs \union {0}
      BY <3>1 DEF Match
    <3> QED
      BY <2>1, <3>2, Zenon
  <2>3. EndedKept(r)
    BY <2>1, <2>2, Zenon DEF TablesKept
  <2> QED
    BY <1>1, <2>1, <2>3, Zenon DEF EndedKept, Clean
<1>6. AnnouncedInv'
  BY <1>1, Zenon DEF ThreatInv, AnnouncedInv
<1>7. ASSUME tx'["request"] = tx["request"]
      PROVE  RequestInv'
  BY <1>1, <1>2, <1>7, Zenon DEF ThreatInv, RequestInv, Active
<1> QED
  BY <1>3, <1>4, <1>5, <1>6, <1>7, Zenon

\* Such a step keeps what it says of a transaction that does not take it.
LEMMA HeldTablesKept ==
  ASSUME ThreatInv, TablesKept, NEW w \in Transaction, tx'[w] = tx[w],
         tx["finish"] # None => UNCHANGED <<tested, detected>>
  PROVE  HeldInv(w)'
<1>1. HeldInv(w)
  BY Zenon DEF ThreatInv, EvaluationInv
<1>2. ASSUME tx[w] # None
      PROVE  Undisturbed(w)
  <2>1. \A a \in Assets : UndisturbedRow(match[a], match'[a], tx[w].step = "evaluated")
    BY Zenon DEF TablesKept, UndisturbedRow
  <2>2. ASSUME NEW r \in Recorded(tx[w])
        PROVE  /\ run'[r] = run[r] /\ tested'[r] = tested[r] /\ detected'[r] = detected[r]
               /\ w = "daily" => scan'[r] = scan[r] /\ (hits'[r] = detected'[r] => hits[r] = detected[r])
    <3>1. RecordedRun(tx[w], w, r, run[r], scan[r])
      BY <1>1, <1>2, Zenon DEF HeldInv, RecordedInv
    <3>2. r \in Runs
      BY Zenon DEF Recorded
    <3>3. run'[r] = run[r]
      BY Zenon DEF TablesKept
    <3>4. CASE w = "finish"
      BY <1>2, <3>3, <3>4, Zenon
    <3>5. CASE w = "daily"
      <4>1. scan[r] \in Ends
        BY <3>1, <3>5, Zenon DEF RecordedRun
      <4> QED
        BY <3>2, <3>3, <4>1, Zenon DEF TablesKept, EndedKept
    <3> QED
      BY <3>4, <3>5, Zenon DEF Transaction
  <2> QED
    BY <2>1, <2>2, Zenon DEF Undisturbed
<1> QED
  BY <1>1, <1>2, HeldKept, Zenon

\* A step of the catalog, of the inventory, or of a later scan.
Quiet ==
    /\ UNCHANGED <<match, run, announced, scan, tested, detected>>
    /\ \A r \in Runs : hits'[r] \subseteq hits[r]
    /\ \A w \in Sessions \ {"editor"} : tx'[w] = tx[w]

\* A quiet step keeps the invariant.
LEMMA QuietStep ==
  ASSUME ThreatInv, Quiet, Typed'
  PROVE  ThreatInv'
<1>1. TablesKept
  <2>1. ASSUME NEW r \in Runs
        PROVE  hits'[r] \subseteq detected'[r] /\ EndedKept(r)
    <3>1. hits'[r] \subseteq hits[r] /\ hits[r] \subseteq detected[r] /\ detected'[r] = detected[r]
      BY Zenon DEF Quiet, ThreatInv, RowsLinked
    <3>2. hits'[r] \subseteq detected'[r] /\ (hits'[r] = detected'[r] => hits[r] = detected[r])
      BY <3>1
    <3> QED
      BY <3>2, Zenon DEF Quiet, EndedKept
  <2> QED
    BY <2>1, Zenon DEF TablesKept, Quiet
<1>2. \A w \in Transaction : tx'[w] = tx[w] /\ HeldInv(w)'
  <2> SUFFICES ASSUME NEW w \in Transaction
               PROVE  tx'[w] = tx[w] /\ HeldInv(w)'
    BY Zenon
  <2>1. tx'[w] = tx[w]
    BY DEF Transaction, Sessions, Quiet
  <2>2. UNCHANGED <<tested, detected>>
    BY Zenon DEF Quiet
  <2> QED
    BY <1>1, <2>1, <2>2, HeldTablesKept, Zenon
<1>3. EvaluationInv'
  <2>1. tx'["finish"] = tx["finish"] /\ tx'["daily"] = tx["daily"] /\ scan' = scan
    BY <1>2, Zenon DEF Transaction, Quiet
  <2> QED
    BY <1>2, <2>1, Zenon DEF ThreatInv, EvaluationInv
<1>4. tx'["request"] = tx["request"]
  BY DEF Quiet, Sessions
<1>5. RowsLinked' /\ PendingInv' /\ CleanInv' /\ AnnouncedInv' /\ RequestInv'
  BY <1>1, <1>4, RowsKept, Zenon
<1> QED
  BY <1>3, <1>5, Zenon DEF ThreatInv

TxValue(w, x) ==
    \/ x = None
    \/ w \in Transaction /\ x \in Evaluation
    \/ w = "request" /\ x \in Request
    \/ w = "editor" /\ x \in [version : Versions, ask : Asks]

\* A step that sets one transaction to a value of its type keeps the types.
LEMMA TxTypedKept ==
  ASSUME TxTyped, NEW w \in Sessions, NEW x, Writes(w, x), TxValue(w, x)
  PROVE  TxTyped'
<1>1. \A v \in Sessions : tx'[v] = IF v = w THEN x ELSE tx[v]
  BY Zenon DEF Writes
<1>2. DOMAIN tx' = {"finish", "daily", "request", "editor"}
  BY Zenon DEF Writes, Sessions
<1>3. \A v \in Transaction : tx'[v] # None => tx'[v] \in Evaluation
  BY <1>1 DEF TxTyped, TxValue, Transaction, Sessions
<1>4. tx'["request"] # None => tx'["request"] \in Request
  BY <1>1 DEF TxTyped, TxValue, Transaction, Sessions
<1>5. tx'["editor"] # None => tx'["editor"] \in [version : Versions, ask : Asks]
  <2> DEFINE E == [version : Versions, ask : Asks]
  <2> HIDE DEF E
  <2>1. (tx["editor"] # None => tx["editor"] \in E) /\ (w = "editor" => x = None \/ x \in E)
    BY Zenon DEF TxTyped, TxValue, Transaction, E
  <2>2. tx'["editor"] # None => tx'["editor"] \in E
    BY <1>1, <2>1 DEF Sessions
  <2> QED
    BY <2>2, Zenon DEF E
<1> QED
  BY <1>2, <1>3, <1>4, <1>5, Zenon DEF TxTyped

\* save_draft, publish, save_check, set_archived, and changes of the inventory and of findings.
LEMMA QuietActions ==
  ASSUME ThreatInv, UNCHANGED setup,
         \/ \E ask \in Asks : save_draft(ask)
         \/ SaveDraftCommit
         \/ publish
         \/ \E old, new \in Asks : save_check(old, new)
         \/ set_archived
         \/ \E a \in Assets : Inventory(a) \/ Rescan(a)
  PROVE  ThreatInv'
<1>0. MaxVersion \in Nat \ {0}
  BY ThreatCenterAssumption, Zenon
<1>1. Typed /\ TypeOK /\ TxTyped
  BY Zenon DEF ThreatInv, Typed
<1>2. ASSUME tx' = tx PROVE TxTyped' /\ \A w \in Sessions \ {"editor"} : tx'[w] = tx[w]
  BY <1>1, <1>2, Zenon DEF TxTyped
<1>3. ASSUME NEW x, Writes("editor", x), TxValue("editor", x)
      PROVE  TxTyped' /\ \A w \in Sessions \ {"editor"} : tx'[w] = tx[w]
  <2>1. "editor" \in Sessions
    BY DEF Sessions
  <2> QED
    BY <1>1, <1>3, <2>1, TxTypedKept, Zenon DEF Writes
<1>4. CASE \E ask \in Asks : save_draft(ask)
  <2> PICK ask \in Asks : save_draft(ask)
    BY <1>4, Zenon
  <2> DEFINE x == [version |-> DraftVersion, ask |-> ask]
  <2>1. Writes("editor", x)
    <3>1. tx' = [tx EXCEPT !["editor"] = x]
      BY Zenon DEF save_draft
    <3>2. "editor" \in Sessions
      BY DEF Sessions
    <3> HIDE DEF x
    <3> QED
      BY <1>1, <3>1, <3>2, TxWritten, Zenon
  <2>2. TxValue("editor", x)
    BY Zenon DEF TxValue, save_draft
  <2> HIDE DEF x
  <2>3. TxTyped' /\ \A w \in Sessions \ {"editor"} : tx'[w] = tx[w]
    BY <1>3, <2>1, <2>2, Zenon
  <2>4. TypeOK'
    BY <1>1 DEF TypeOK, save_draft, catalog, inventory, tables, scans
  <2>5. Quiet
    BY <2>3 DEF Quiet, save_draft, tables, scans
  <2> QED
    BY <2>3, <2>4, <2>5, QuietStep, Zenon DEF Typed
<1>5. CASE SaveDraftCommit
  <2>1. Writes("editor", None)
    <3>1. tx' = [tx EXCEPT !["editor"] = None]
      BY <1>5, Zenon DEF SaveDraftCommit
    <3>2. "editor" \in Sessions
      BY DEF Sessions
    <3> QED
      BY <1>1, <3>1, <3>2, TxWritten, Zenon
  <2>2. TxValue("editor", None)
    BY Zenon DEF TxValue
  <2>3. TxTyped' /\ \A w \in Sessions \ {"editor"} : tx'[w] = tx[w]
    BY <1>3, <2>1, <2>2, Zenon
  <2>4. tx["editor"].version \in Versions /\ tx["editor"].ask \in Asks
    BY <1>1, <1>5 DEF TxTyped, SaveDraftCommit
  <2>5. content' \in [Versions -> Asks] /\ draft' \in 0..MaxVersion
    BY <1>0, <1>1, <1>5, <2>4 DEF TypeOK, SaveDraftCommit, Versions
  <2>6. TypeOK'
    BY <1>1, <1>5, <2>5 DEF TypeOK, SaveDraftCommit, inventory, tables, scans
  <2>7. Quiet
    BY <1>5, <2>3 DEF Quiet, SaveDraftCommit, tables, scans
  <2> QED
    BY <2>3, <2>6, <2>7, QuietStep, Zenon DEF Typed
<1>6. CASE publish
  <2>0. published' \in 0..MaxVersion /\ archived' \in BOOLEAN /\ draft' = 0
    BY <1>1, <1>6, Zenon DEF TypeOK, publish
  <2>00. draft' \in 0..MaxVersion
    BY <1>0, <2>0
  <2>1. TypeOK' /\ tx' = tx
    BY <1>1, <1>6, <2>0, <2>00, Zenon DEF TypeOK, publish, inventory, tables, scans
  <2>2. Quiet
    BY <1>6, <2>1, <1>2 DEF Quiet, publish, tables, scans
  <2> QED
    BY <2>1, <2>2, <1>2, QuietStep, Zenon DEF Typed
<1>7. CASE \E old, new \in Asks : save_check(old, new)
  <2> PICK old \in Asks, new \in Asks : save_check(old, new)
    BY <1>7, Zenon
  <2>1. TypeOK' /\ tx' = tx
    BY <1>1 DEF TypeOK, save_check, inventory, tables, scans
  <2>2. Quiet
    BY <2>1, <1>2 DEF Quiet, save_check, tables, scans
  <2> QED
    BY <2>1, <2>2, <1>2, QuietStep, Zenon DEF Typed
<1>8. CASE set_archived
  <2>1. TypeOK' /\ tx' = tx
    BY <1>1, <1>8 DEF TypeOK, set_archived, inventory, tables, scans
  <2>2. Quiet
    BY <1>8, <2>1, <1>2 DEF Quiet, set_archived, tables, scans
  <2> QED
    BY <2>1, <2>2, <1>2, QuietStep, Zenon DEF Typed
<1>9. ASSUME NEW a \in Assets, Inventory(a)
      PROVE  ThreatInv'
  <2>0. seen' \in [Assets -> Inventories] /\ found' \subseteq Assets \X Asks
    BY <1>1, <1>9 DEF TypeOK, Inventory
  <2>1. TypeOK' /\ tx' = tx
    BY <1>1, <1>9, <2>0 DEF TypeOK, Inventory, catalog, tables, scans
  <2>2. Quiet
    BY <1>9, <2>1, <1>2 DEF Quiet, Inventory, tables, scans
  <2> QED
    BY <2>1, <2>2, <1>2, QuietStep, Zenon DEF Typed
<1>10. ASSUME NEW a \in Assets, Rescan(a)
       PROVE  ThreatInv'
  <2>1. TypeOK' /\ tx' = tx
    BY <1>1, <1>10 DEF TypeOK, Rescan, catalog, inventory, tables
  <2>2. Quiet
    BY <1>10, <2>1, <1>2 DEF Quiet, Rescan, tables
  <2> QED
    BY <2>1, <2>2, <1>2, QuietStep, Zenon DEF Typed
<1> QED
  BY <1>4, <1>5, <1>6, <1>7, <1>8, <1>9, <1>10, Zenon

\* Recording the end of an active run changes its row, and only the status.
LEMMA StoppedDiffers ==
  ASSUME NEW m \in Run, m.status = "active", NEW n, Stopped(n, m)
  PROVE  n # m /\ n \in Run /\ n.status # "active" /\ n.assets = m.assets
<1> PICK s \in {"completed", "inconclusive", "cancelled"} : n = [m EXCEPT !.status = s]
  BY Zenon DEF Stopped
<1> QED
  BY DEF Run

\* A transaction w that has just read the rows and recorded the runs E.
FreshRow(n, o, E) ==
    /\ o = None \/ o.run \notin E => n = o
    /\ o # None /\ o.run \in E => n \in Match /\ n.run = o.run /\ n.outcome # "pending"
Fresh(w, t, E) ==
    /\ t.old = DB /\ t.step = "synced" /\ E \subseteq Runs
    /\ \A r \in E : Active(r) /\ Stopped(t.new.run[r], run[r]) /\ run[r].assets \subseteq t.loaded
    /\ \A r \in Runs \ E : t.new.run[r] = run[r]
    /\ w = "finish" => E \subseteq {t.scan}
    /\ w = "daily" => \A r \in E : scan[r] \in Ends
    /\ \A a \in t.loaded : a \in Assets => match[a] # None
    /\ \A a \in Assets : FreshRow(t.new.match[a], match[a], E)
\* The results it has recorded, with what is known of the scans after the step.
FreshOutcome(w, t, E) ==
    \A a \in Assets : match[a] # None /\ match[a].run \in E /\ t.new.match[a].outcome = "not_detected" =>
        LET r == match[a].run
        IN  /\ w = "finish" => t.end = "clean" /\ a \in tested'[r] \ detected'[r]
            /\ w = "daily" => (hits'[r] = detected'[r] => scan'[r] = "clean" /\ a \in tested'[r] \ detected'[r])

\* A transaction that has just recorded results of ended runs keeps to the invariant.
LEMMA FreshHeld ==
  ASSUME ThreatInv, UNCHANGED <<match, run, scan>>, NEW w \in Transaction, NEW t, tx'[w] = t,
         NEW E, Fresh(w, t, E), FreshOutcome(w, t, E)
  PROVE  HeldInv(w)'
<1>1. t.old.match = match /\ t.old.run = run
  BY DEF Fresh, DB
<1>2. match \in [Assets -> Match \union {None}] /\ run \in [Runs -> Run \union {None}]
  BY Zenon DEF ThreatInv, Typed, TypeOK
<1>3. t.step # "evaluated"
  BY DEF Fresh
<1>4. ASSUME NEW a \in Assets
      PROVE  ReadRow(t.old.match[a], t.new.match[a], match'[a], t.step = "evaluated") /\ (a \in t.loaded => t.old.match[a] # None)
  <2>1. FreshRow(t.new.match[a], match[a], E) /\ (a \in t.loaded => match[a] # None)
    BY Zenon DEF Fresh
  <2>2. None \notin Match
    BY ThreatCenterAssumption, Zenon
  <2> QED
    BY <1>1, <1>3, <2>1, <2>2, Zenon DEF ReadRow, FreshRow
<1>5. Recorded(t) = E
  <2>1. \A r \in Runs \ E : t.new.run[r] = t.old.run[r]
    BY <1>1, Zenon DEF Fresh
  <2>2. ASSUME NEW r \in E
        PROVE  r \in Runs /\ t.new.run[r] # t.old.run[r]
    <3>1. r \in Runs /\ Active(r) /\ Stopped(t.new.run[r], run[r])
      BY Zenon DEF Fresh
    <3>2. run[r] \in Run /\ run[r].status = "active"
      BY <1>2, <3>1, Zenon DEF Active
    <3> QED
      BY <1>1, <3>1, <3>2, StoppedDiffers, Zenon
  <2> QED
    BY <2>1, <2>2, Zenon DEF Recorded
<1>6. ASSUME NEW r \in Recorded(t)
      PROVE  /\ RecordedRun(t, w, r, run'[r], scan'[r])
             /\ \A a \in Assets : Awaited(t.old.match[a], t.new.match[a], match'[a], r)
  <2>1. RecordedRun(t, w, r, run'[r], scan'[r])
    BY <1>1, <1>5, Zenon DEF Fresh, RecordedRun, Active
  <2>2. ASSUME NEW a \in Assets
        PROVE  Awaited(t.old.match[a], t.new.match[a], match'[a], r)
    <3>1. FreshRow(t.new.match[a], match[a], E)
      BY Zenon DEF Fresh
    <3> QED
      BY <1>1, <1>5, <3>1, Zenon DEF FreshRow, Awaited
  <2> QED
    BY <2>1, <2>2, Zenon
<1>7. ASSUME NEW a \in Assets, Judged(t.old.match[a], t.new.match[a])
      PROVE  LET r == t.new.match[a].run
             IN  /\ r \in Recorded(t)
                 /\ w = "finish" => t.end = "clean" /\ a \in tested'[r] \ detected'[r]
                 /\ w = "daily" => (hits'[r] = detected'[r] => scan'[r] = "clean" /\ a \in tested'[r] \ detected'[r])
  <2>1. FreshRow(t.new.match[a], match[a], E)
    BY Zenon DEF Fresh
  <2>2. /\ match[a] # None /\ match[a].run \in E /\ t.new.match[a].run = match[a].run
        /\ t.new.match[a].outcome = "not_detected"
    BY <1>1, <1>7, <2>1, Zenon DEF FreshRow, Judged
  <2> QED
    BY <1>5, <2>2, Zenon DEF FreshOutcome
<1> QED
  BY <1>4, <1>6, <1>7, Zenon DEF HeldInv, ReadInv, RecordedInv, OutcomeInv, Clean

\* A step of one transaction that leaves the rows as they are.
Holders ==
    /\ tx["finish"] # None /\ tx["finish"].scan # 0 => scan[tx["finish"].scan] = "active"
    /\ tx["daily"] # None => tx["daily"].scan = 0
    /\ tx["finish"] # None /\ tx["daily"] # None => tx["finish"].step = "synced" \/ tx["daily"].step = "synced"

\* A step of one evaluating transaction that leaves the rows keeps the invariant.
LEMMA SessionStep ==
  ASSUME ThreatInv, TablesKept, Typed', NEW w \in Transaction, NEW x, Writes(w, x), HeldInv(w)', Holders',
         tx["finish"] # None => UNCHANGED <<tested, detected>>
  PROVE  ThreatInv'
<1>1. ASSUME NEW v \in Transaction
      PROVE  HeldInv(v)'
  <2>1. CASE v = w
    BY <2>1, Zenon
  <2>2. CASE v # w
    <3>1. tx'[v] = tx[v]
      BY <2>2, Zenon DEF Writes, Transaction, Sessions
    <3> QED
      BY <3>1, HeldTablesKept, Zenon
  <2> QED
    BY <2>1, <2>2, Zenon
<1>2. tx'["request"] = tx["request"]
  BY DEF Writes, Transaction, Sessions
<1>3. RowsLinked' /\ PendingInv' /\ CleanInv' /\ AnnouncedInv' /\ RequestInv'
  BY <1>2, RowsKept, Zenon
<1>4. EvaluationInv'
  BY <1>1, Zenon DEF EvaluationInv, Holders
<1> QED
  BY <1>3, <1>4, Zenon DEF ThreatInv

\* The published version is a version, or 0.
LEMMA CurrentType ==
  ASSUME TypeOK
  PROVE  Current \in 0..MaxVersion
<1>1. MaxVersion \in Nat
  BY ThreatCenterAssumption, Zenon
<1> QED
  BY <1>1 DEF TypeOK, Current

\* The tables are rows.
LEMMA DBType ==
  ASSUME TypeOK
  PROVE  DB \in Rows /\ DB.match = match /\ DB.run = run
BY DEF TypeOK, DB, Rows

\* on_scan_finished up to the lock: the result of the check whose scan is active.
LEMMA FinishStep ==
  ASSUME ThreatInv, UNCHANGED setup, NEW r \in Runs, NEW end \in Ends, NEW reached \in SUBSET Assets, NEW reported \in SUBSET Assets,
         Finish(r, end, reached, reported)
  PROVE  ThreatInv'
<1> DEFINE new == sync_check_run(DB, r, end, reported, reached)
           version == IF end \in {"failed", "cancelled"} THEN 0 ELSE Current
           locked == {a \in Assets : new.match[a] # match[a]}
           t == [scan |-> r, end |-> end, version |-> version, old |-> DB, new |-> new, loaded |-> run[r].assets, locked |-> locked, step |-> "synced"]
<1>1. TypeOK /\ TxTyped /\ Typed /\ RowsLinked
  BY Zenon DEF ThreatInv, Typed
<1>2. scan[r] = "active" /\ tx["finish"] = None /\ tx' = [tx EXCEPT !["finish"] = t]
  BY Zenon DEF Finish
<1>3. Active(r) /\ run[r] \in Run /\ run[r].status = "active"
  BY <1>1, <1>2, Zenon DEF RowsLinked, Active, TypeOK
<1>4. run[r].assets \in SUBSET Assets /\ run[r].ask \in Asks
  BY <1>3 DEF Run
<1>5. DB \in Rows /\ DB.match = match /\ DB.run = run
  BY <1>1, DBType, Zenon
<1>6. /\ \A a \in Assets : SyncedRow(new.match[a], match[a], a \in run[r].assets /\ match[a] # None /\ match[a].run = r, end, a, reported, reached)
      /\ \A x \in Runs \ {r} : new.run[x] = run[x]
      /\ Stopped(new.run[r], run[r])
      /\ new \in Rows
  <2> HIDE DEF new
  <2>1. DB.run[r] \in Run
    BY <1>3, <1>5, Zenon
  <2>2. IsSynced(DB, r, end, reported, reached, new)
    BY <1>5, <2>1, Synced, Zenon DEF new
  <2> QED
    BY <1>5, <2>2, Zenon DEF IsSynced
<1>7. version \in 0..MaxVersion
  <2>1. Current \in 0..MaxVersion /\ MaxVersion \in Nat
    BY <1>1, CurrentType, ThreatCenterAssumption, Zenon
  <2> QED
    BY <2>1
<1>8. locked \in SUBSET Assets
  BY Zenon
<1> HIDE DEF new, version, locked
<1>9. /\ t \in Evaluation
      /\ t.scan = r /\ t.end = end /\ t.old = DB /\ t.new = new /\ t.loaded = run[r].assets /\ t.step = "synced"
  BY <1>4, <1>5, <1>6, <1>7, <1>8 DEF Evaluation
<1> HIDE DEF t
<1>10. Writes("finish", t)
  <2>1. "finish" \in Sessions
    BY DEF Sessions
  <2> QED
    BY <1>1, <1>2, <2>1, TxWritten, Zenon
<1>11. /\ UNCHANGED <<catalog, seen, tables, scan, others, announced>>
       /\ tested' = [tested EXCEPT ![r] = reached] /\ hits' = [hits EXCEPT ![r] = reported]
       /\ detected' = [detected EXCEPT ![r] = reported] /\ found' = found \union (reported \X {run[r].ask})
  BY Zenon DEF Finish
<1>12. /\ tested'[r] = reached /\ hits'[r] = reported /\ detected'[r] = reported
       /\ \A x \in Runs \ {r} : tested'[x] = tested[x] /\ hits'[x] = hits[x] /\ detected'[x] = detected[x]
       /\ tested' \in [Runs -> SUBSET Assets] /\ hits' \in [Runs -> SUBSET Assets] /\ detected' \in [Runs -> SUBSET Assets]
  BY <1>1, <1>11, Zenon DEF TypeOK
<1>13. Typed'
  <2>1. found' \subseteq Assets \X Asks
    BY <1>1, <1>4, <1>11 DEF TypeOK
  <2>2. TypeOK'
    BY <1>1, <1>11, <1>12, <2>1, Zenon DEF TypeOK, catalog, tables
  <2>3. TxValue("finish", t) /\ "finish" \in Sessions
    BY <1>9 DEF TxValue, Transaction, Sessions
  <2> QED
    BY <1>1, <1>10, <2>2, <2>3, TxTypedKept, Zenon DEF Typed
<1>14. TablesKept
  <2>1. UNCHANGED <<match, run, announced, scan>>
    BY <1>11, Zenon DEF tables
  <2>2. \A x \in Runs : hits'[x] \subseteq detected'[x]
    BY <1>1, <1>12, Zenon DEF RowsLinked
  <2>3. ASSUME NEW x \in Runs, scan[x] \in Ends
        PROVE  EndedKept(x)
    <3>1. x # r
      BY <1>2, <2>3 DEF Ends
    <3> QED
      BY <1>12, <2>1, <3>1, Zenon DEF EndedKept
  <2> QED
    BY <2>1, <2>2, <2>3, Zenon DEF TablesKept
<1>15. HeldInv("finish")'
  <2>1. Fresh("finish", t, {r})
    <3>1. ASSUME NEW a \in Assets
          PROVE  FreshRow(t.new.match[a], match[a], {r}) /\ (a \in t.loaded => match[a] # None)
      <4>1. SyncedRow(new.match[a], match[a], a \in run[r].assets /\ match[a] # None /\ match[a].run = r, end, a, reported, reached)
        BY <1>6, Zenon
      <4>2. match[a] # None /\ match[a].run = r => a \in run[r].assets
        <5>1. r # 0
          BY DEF Runs
        <5> QED
          BY <1>1, <5>1, Zenon DEF RowsLinked
      <4>3. a \in run[r].assets => match[a] # None
        BY <1>1, <1>3, Zenon DEF RowsLinked, Active
      <4> QED
        BY <1>9, <4>1, <4>2, <4>3, Zenon DEF SyncedRow, FreshRow
    <3>2. /\ Stopped(t.new.run[r], run[r]) /\ \A x \in Runs \ {r} : t.new.run[x] = run[x]
      BY <1>6, <1>9, Zenon
    <3>3. "finish" # "daily" 
      OBVIOUS
    <3> QED
      BY <1>3, <1>9, <3>1, <3>2, <3>3, Zenon DEF Fresh
  <2>2. FreshOutcome("finish", t, {r})
    <3> SUFFICES ASSUME NEW a \in Assets, match[a] # None, match[a].run = r, t.new.match[a].outcome = "not_detected"
                 PROVE  t.end = "clean" /\ a \in tested'[r] \ detected'[r]
      <4>1. "finish" # "daily"
        OBVIOUS
      <4> QED
        BY <4>1, Zenon DEF FreshOutcome
    <3>1. SyncedRow(new.match[a], match[a], a \in run[r].assets /\ match[a] # None /\ match[a].run = r, end, a, reported, reached)
      BY <1>6, Zenon
    <3>2. a \in run[r].assets
      <4>1. r # 0
        BY DEF Runs
      <4> QED
        BY <1>1, <4>1, Zenon DEF RowsLinked
    <3> QED
      BY <1>9, <1>12, <3>1, <3>2, Zenon DEF SyncedRow
  <2>3. tx'["finish"] = t /\ "finish" \in Transaction /\ UNCHANGED <<match, run, scan>>
    BY <1>10, <1>11, Zenon DEF Writes, Transaction, tables
  <2> QED
    BY <2>1, <2>2, <2>3, FreshHeld, Zenon
<1>16. Holders'
  <2>1. tx'["finish"] = t /\ tx'["daily"] = tx["daily"] /\ scan' = scan
    BY <1>10, <1>11 DEF Writes, Sessions
  <2> QED
    BY <1>2, <1>9, <2>1, Zenon DEF Holders, ThreatInv, EvaluationInv
<1> QED
  <2>1. "finish" \in Transaction
    BY DEF Transaction
  <2> QED
    BY <1>2, <1>10, <1>13, <1>14, <1>15, <1>16, <2>1, SessionStep, Zenon

\* Steps that touch nothing but the transaction of w.
OnlySession ==
    UNCHANGED <<catalog, inventory, tables, scan, tested, hits, detected, announced>>

\* Such a step keeps the rows, the scans and their types.
LEMMA OnlySessionKept ==
  ASSUME ThreatInv, OnlySession, UNCHANGED setup, others' \in Nat
  PROVE  TablesKept /\ TypeOK'
<1>1. UNCHANGED <<match, run, announced, scan, tested, hits, detected>>
  BY Zenon DEF OnlySession, tables
<1>2. RowsLinked /\ TypeOK
  BY Zenon DEF ThreatInv, Typed
<1>3. TablesKept
  BY <1>1, <1>2, Zenon DEF TablesKept, EndedKept, RowsLinked
<1>4. TypeOK'
  BY <1>1, <1>2, Zenon DEF TypeOK, OnlySession, catalog, inventory
<1> QED
  BY <1>3, <1>4, Zenon

\* The end of a scan that is no check.
LEMMA FinishOtherStep ==
  ASSUME ThreatInv, UNCHANGED setup, FinishOther
  PROVE  ThreatInv'
<1> DEFINE t == GoingToEvaluate(DB, {})
<1>1. TypeOK /\ TxTyped /\ Typed
  BY Zenon DEF ThreatInv, Typed
<1>2. tx["finish"] = None /\ tx' = [tx EXCEPT !["finish"] = t] /\ OnlySession
  BY Zenon DEF FinishOther, OnlySession
<1>3. DB \in Rows /\ DB.match = match /\ DB.run = run /\ Current \in 0..MaxVersion
  BY <1>1, DBType, CurrentType, Zenon
<1>4. /\ t \in Evaluation
      /\ t.scan = 0 /\ t.old = DB /\ t.new = DB /\ t.loaded = {} /\ t.step = "synced"
  BY <1>3 DEF Evaluation, GoingToEvaluate
<1> HIDE DEF t
<1>5. Writes("finish", t)
  <2>1. "finish" \in Sessions
    BY DEF Sessions
  <2> QED
    BY <1>1, <1>2, <2>1, TxWritten, Zenon
<1>6. TablesKept /\ TypeOK'
  <2>1. others' \in Nat
    BY <1>1 DEF TypeOK, FinishOther
  <2> QED
    BY <1>2, <2>1, OnlySessionKept, Zenon
<1>7. Typed'
  <2>3. TxValue("finish", t) /\ "finish" \in Sessions
    BY <1>4 DEF TxValue, Transaction, Sessions
  <2> QED
    BY <1>1, <1>5, <1>6, <2>3, TxTypedKept, Zenon DEF Typed
<1>8. HeldInv("finish")'
  <2>1. Fresh("finish", t, {})
    BY <1>3, <1>4, Zenon DEF Fresh, FreshRow
  <2>2. FreshOutcome("finish", t, {})
    BY Zenon DEF FreshOutcome
  <2>3. tx'["finish"] = t /\ "finish" \in Transaction /\ UNCHANGED <<match, run, scan>>
    BY <1>2, <1>5, Zenon DEF Writes, Transaction, tables, OnlySession
  <2> QED
    BY <2>1, <2>2, <2>3, FreshHeld, Zenon
<1>9. Holders'
  <2>1. tx'["finish"] = t /\ tx'["daily"] = tx["daily"] /\ scan' = scan
    BY <1>2, <1>5 DEF Writes, Sessions, OnlySession
  <2> QED
    BY <1>4, <2>1, Zenon DEF Holders, ThreatInv, EvaluationInv
<1> QED
  <2>1. "finish" \in Transaction
    BY DEF Transaction
  <2> QED
    BY <1>2, <1>5, <1>6, <1>7, <1>8, <1>9, <2>1, SessionStep, Zenon

\* reconcile_check_runs: the results of active runs whose scan is over.
LEMMA ReconcileStep ==
  ASSUME ThreatInv, UNCHANGED setup, Reconcile
  PROVE  ThreatInv'
<1> DEFINE ended == {r \in Runs : Active(r) /\ scan[r] \notin {"none", "active"}}
           synced(r) == sync_check_run(DB, r, scan[r], hits[r], tested[r])
           m == [a \in Assets |-> IF match[a] # None /\ match[a].run \in ended THEN synced(match[a].run).match[a] ELSE match[a]]
           u == [r \in Runs |-> IF r \in ended THEN synced(r).run[r] ELSE run[r]]
           new == [match |-> m, run |-> u]
           loaded == UNION {run[r].assets : r \in ended}
           locked == {a \in Assets : new.match[a] # match[a]}
           t == [scan |-> 0, end |-> "none", version |-> Current, old |-> DB, new |-> new, loaded |-> loaded, locked |-> locked, step |-> "synced"]
<1>1. TypeOK /\ TxTyped /\ Typed /\ RowsLinked
  BY Zenon DEF ThreatInv, Typed
<1>2. tx["daily"] = None /\ tx' = [tx EXCEPT !["daily"] = t] /\ OnlySession /\ others' = others
  BY Zenon DEF Reconcile, GoingToEvaluate, OnlySession, scans
<1>3. DB \in Rows /\ DB.match = match /\ DB.run = run /\ Current \in 0..MaxVersion
  BY <1>1, DBType, CurrentType, Zenon
<1>4. ASSUME NEW r \in ended
      PROVE  r \in Runs /\ Active(r) /\ run[r] \in Run /\ run[r].status = "active" /\ scan[r] \in Ends
  <2>1. r \in Runs /\ Active(r) /\ scan[r] \notin {"none", "active"}
    BY <1>4, Zenon
  <2>2. scan[r] \in {"none", "active", "clean", "unclear", "failed", "cancelled"}
    BY <1>1, <2>1, Zenon DEF TypeOK
  <2> QED
    BY <1>1, <2>1, <2>2, Zenon DEF Active, TypeOK, Ends
<1>5. ASSUME NEW r \in ended
      PROVE  /\ \A a \in Assets : SyncedRow(synced(r).match[a], match[a], a \in run[r].assets /\ match[a] # None /\ match[a].run = r, scan[r], a, hits[r], tested[r])
             /\ Stopped(synced(r).run[r], run[r])
             /\ synced(r) \in Rows
  <2>1. r \in Runs /\ DB.run[r] \in Run
    BY <1>3, <1>4, Zenon
  <2>2. IsSynced(DB, r, scan[r], hits[r], tested[r], synced(r))
    BY <1>3, <2>1, Synced, Zenon
  <2> QED
    BY <1>3, <2>2, Zenon DEF IsSynced
<1> HIDE DEF synced, ended
<1>6. ASSUME NEW a \in Assets, match[a] # None, match[a].run \in ended
      PROVE  SyncedRow(m[a], match[a], TRUE, scan[match[a].run], a, hits[match[a].run], tested[match[a].run])
  <2> PICK r : r = match[a].run
    BY Zenon
  <2>1. r \in ended /\ m[a] = synced(r).match[a]
    BY <1>6, Zenon
  <2>2. SyncedRow(synced(r).match[a], match[a], a \in run[r].assets /\ match[a] # None /\ match[a].run = r, scan[r], a, hits[r], tested[r])
    BY <1>5, <2>1, Zenon
  <2>3. r # 0
    BY <1>4, <2>1 DEF Runs
  <2>4. a \in run[r].assets
    BY <1>1, <1>6, <2>3, Zenon DEF RowsLinked
  <2> QED
    BY <1>6, <2>1, <2>2, <2>4, Zenon
<1>7. \A a \in Assets : FreshRow(m[a], match[a], ended)
  <2> SUFFICES ASSUME NEW a \in Assets PROVE FreshRow(m[a], match[a], ended)
    BY Zenon
  <2>1. CASE match[a] # None /\ match[a].run \in ended
    BY <1>6, <2>1, Zenon DEF FreshRow, SyncedRow
  <2>2. CASE ~(match[a] # None /\ match[a].run \in ended)
    BY <2>2, Zenon DEF FreshRow
  <2> QED
    BY <2>1, <2>2, Zenon
<1>8. /\ \A r \in ended : Stopped(u[r], run[r]) /\ u[r] \in Run
      /\ \A r \in Runs \ ended : u[r] = run[r]
  <2>1. ASSUME NEW r \in ended
        PROVE  Stopped(u[r], run[r]) /\ u[r] \in Run
    <3>1. r \in Runs /\ run[r] \in Run /\ run[r].status = "active"
      BY <1>4, Zenon
    <3>2. Stopped(u[r], run[r])
      BY <1>5, <3>1, Zenon
    <3> HIDE DEF u
    <3> QED
      BY <3>1, <3>2, StoppedDiffers, Zenon
  <2> QED
    BY <2>1, Zenon
<1>9. new \in Rows
  <2>1. m \in [Assets -> Match \union {None}]
    <3>1. \A a \in Assets : m[a] \in Match \union {None}
      <4> SUFFICES ASSUME NEW a \in Assets PROVE m[a] \in Match \union {None}
        BY Zenon
      <4>1. match[a] \in Match \union {None} /\ FreshRow(m[a], match[a], ended)
        BY <1>1, <1>7, Zenon DEF TypeOK
      <4> HIDE DEF m
      <4> QED
        BY <4>1, Zenon DEF FreshRow
    <3> QED
      BY <3>1, Zenon
  <2>2. u \in [Runs -> Run \union {None}]
    <3>1. \A r \in Runs : u[r] \in Run \union {None}
      <4> SUFFICES ASSUME NEW r \in Runs PROVE u[r] \in Run \union {None}
        BY Zenon
      <4>1. run[r] \in Run \union {None}
        BY <1>1, Zenon DEF TypeOK
      <4> QED
        BY <1>8, <4>1, Zenon
    <3> QED
      BY <3>1, Zenon
  <2> HIDE DEF m, u
  <2> QED
    BY <2>1, <2>2 DEF Rows
<1>10. loaded \in SUBSET Assets
  <2>1. \A r \in ended : run[r].assets \subseteq Assets
    BY <1>4 DEF Run
  <2> QED
    BY <2>1
<1>11. locked \in SUBSET Assets
  BY Zenon
<1>12. new.match = m /\ new.run = u
  <2> HIDE DEF m, u
  <2> QED
    OBVIOUS
<1>13. \A r \in ended : run[r].assets \subseteq loaded /\ \A a \in run[r].assets : match[a] # None
  <2>1. \A r \in ended : \A a \in run[r].assets : match[a] # None
    BY <1>1, <1>4, Zenon DEF RowsLinked, Active
  <2> QED
    BY <2>1
<1>14. \A a \in loaded : match[a] # None
  BY <1>13
<1> HIDE DEF new, m, u, loaded, locked
<1>15. /\ t \in Evaluation
       /\ t.scan = 0 /\ t.old = DB /\ t.new = new /\ t.loaded = loaded /\ t.step = "synced"
  BY <1>3, <1>9, <1>10, <1>11 DEF Evaluation
<1> HIDE DEF t
<1>16. Writes("daily", t)
  <2>1. "daily" \in Sessions
    BY DEF Sessions
  <2> QED
    BY <1>1, <1>2, <2>1, TxWritten, Zenon
<1>17. TablesKept /\ TypeOK'
  <2>1. others' \in Nat
    BY <1>1, <1>2, Zenon DEF TypeOK
  <2> QED
    BY <1>2, <2>1, OnlySessionKept, Zenon
<1>18. Typed'
  <2>3. TxValue("daily", t) /\ "daily" \in Sessions
    BY <1>15 DEF TxValue, Transaction, Sessions
  <2> QED
    BY <1>1, <1>16, <1>17, <2>3, TxTypedKept, Zenon DEF Typed
<1>19. HeldInv("daily")'
  <2>1. Fresh("daily", t, ended)
    <3>1. \A r \in ended : r \in Runs /\ Active(r) /\ Stopped(t.new.run[r], run[r]) /\ run[r].assets \subseteq t.loaded
      BY <1>4, <1>8, <1>12, <1>13, <1>15, Zenon
    <3>2. \A r \in Runs \ ended : t.new.run[r] = run[r]
      BY <1>8, <1>12, <1>15, Zenon
    <3>3. \A a \in Assets : FreshRow(t.new.match[a], match[a], ended)
      BY <1>7, <1>12, <1>15, Zenon
    <3>4. "daily" # "finish"
      OBVIOUS
    <3> QED
      BY <1>4, <1>14, <1>15, <3>1, <3>2, <3>3, <3>4, Zenon DEF Fresh
  <2>2. FreshOutcome("daily", t, ended)
    <3> SUFFICES ASSUME NEW a \in Assets, match[a] # None, match[a].run \in ended, t.new.match[a].outcome = "not_detected",
                        hits'[match[a].run] = detected'[match[a].run]
                 PROVE  scan'[match[a].run] = "clean" /\ a \in tested'[match[a].run] \ detected'[match[a].run]
      <4>1. "finish" # "daily"
        OBVIOUS
      <4> QED
        BY <4>1, Zenon DEF FreshOutcome
    <3>1. SyncedRow(m[a], match[a], TRUE, scan[match[a].run], a, hits[match[a].run], tested[match[a].run])
      BY <1>6, Zenon
    <3>2. m[a].outcome = "not_detected"
      BY <1>12, <1>15, Zenon
    <3>3. UNCHANGED <<scan, tested, hits, detected>>
      BY <1>2, Zenon DEF OnlySession
    <3> QED
      BY <3>1, <3>2, <3>3, Zenon DEF SyncedRow
  <2>3. tx'["daily"] = t /\ "daily" \in Transaction /\ UNCHANGED <<match, run, scan>>
    BY <1>2, <1>16, Zenon DEF Writes, Transaction, tables, OnlySession
  <2> QED
    BY <2>1, <2>2, <2>3, FreshHeld, Zenon
<1>20. Holders'
  <2>1. tx'["daily"] = t /\ tx'["finish"] = tx["finish"] /\ scan' = scan
    BY <1>2, <1>16 DEF Writes, Sessions, OnlySession
  <2> QED
    BY <1>15, <2>1, Zenon DEF Holders, ThreatInv, EvaluationInv
<1> QED
  <2>1. "daily" \in Transaction /\ UNCHANGED <<tested, detected>>
    BY <1>2 DEF Transaction, OnlySession
  <2> QED
    BY <1>16, <1>17, <1>18, <1>19, <1>20, <2>1, SessionStep, Zenon

HasEvaluated(x, t, o, n) ==
    /\ x \in Evaluation
    /\ x.scan = t.scan /\ x.end = t.end /\ x.loaded = t.loaded /\ x.old = o /\ x.new = n /\ x.step = "evaluated"

\* The evaluated transaction, field by field.
LEMMA EvaluatedFields ==
  ASSUME NEW t \in Evaluation, NEW o \in Rows, NEW n \in Rows
  PROVE  HasEvaluated([t EXCEPT !.old = o, !.step = "evaluated", !.new = n], t, o, n)
<1> DEFINE x == [t EXCEPT !.old = o]
           y == [x EXCEPT !.step = "evaluated"]
           z == [y EXCEPT !.new = n]
<1>1. x \in Evaluation /\ x.scan = t.scan /\ x.end = t.end /\ x.loaded = t.loaded /\ x.old = o
  BY DEF Evaluation
<1> HIDE DEF x
<1>2. y \in Evaluation /\ y.scan = t.scan /\ y.end = t.end /\ y.loaded = t.loaded /\ y.old = o /\ y.step = "evaluated"
  BY <1>1 DEF Evaluation
<1> HIDE DEF y
<1>3. /\ z \in Evaluation /\ z.scan = t.scan /\ z.end = t.end /\ z.loaded = t.loaded /\ z.old = o /\ z.step = "evaluated" /\ z.new = n
  BY <1>2 DEF Evaluation
<1> HIDE DEF z
<1>4. z = [t EXCEPT !.old = o, !.step = "evaluated", !.new = n]
  BY Zenon DEF x, y, z
<1> QED
  BY <1>3, <1>4, Zenon DEF HasEvaluated

\* The rows of a session: what it has loaded as it was, the others as they are now.
Session(t, rows) == [match |-> [a \in Assets |-> IF a \in t.loaded THEN rows.match[a] ELSE match[a]], run |-> rows.run]

\* The rows of a session are rows.
LEMMA SessionRows ==
  ASSUME TypeOK, NEW t, NEW rows \in Rows
  PROVE  /\ Session(t, rows) \in Rows /\ Session(t, rows).run = rows.run
         /\ \A a \in Assets : Session(t, rows).match[a] = IF a \in t.loaded THEN rows.match[a] ELSE match[a]
<1> DEFINE m == [a \in Assets |-> IF a \in t.loaded THEN rows.match[a] ELSE match[a]]
<1>1. rows.match \in [Assets -> Match \union {None}] /\ rows.run \in [Runs -> Run \union {None}]
  BY DEF Rows
<1>2. m \in [Assets -> Match \union {None}]
  BY <1>1, Zenon DEF TypeOK
<1>3. \A a \in Assets : m[a] = IF a \in t.loaded THEN rows.match[a] ELSE match[a]
  BY Zenon
<1>4. Session(t, rows) = [match |-> m, run |-> rows.run]
  BY Zenon DEF Session
<1> HIDE DEF m
<1> QED
  BY <1>1, <1>2, <1>3, <1>4 DEF Rows

\* evaluate_org, on rows some of which were read before the lock was granted.
LEMMA EvaluateStep ==
  ASSUME ThreatInv, UNCHANGED setup, NEW w \in Transaction, NEW visible, NEW complete, evaluate_org(w, visible, complete)
  PROVE  ThreatInv'
<1> PICK t : t = tx[w]
  BY Zenon
<1> PICK o : o = Session(t, t.old)
  BY Zenon
<1> PICK mid : mid = Session(t, t.new)
  BY Zenon
<1> PICK n : n = Evaluated(mid, t.version, visible, complete)
  BY Zenon
<1> DEFINE x == [t EXCEPT !.old = o, !.step = "evaluated", !.new = n]
<1>1. TypeOK /\ TxTyped /\ Typed /\ RowsLinked /\ HeldInv(w) /\ Holders
  BY Zenon DEF ThreatInv, Typed, EvaluationInv, Holders
<1>2. tx[w] # None /\ t.step = "synced" /\ LockFree(w) /\ tx' = [tx EXCEPT ![w] = x] /\ OnlySession /\ others' = others
  BY Zenon DEF evaluate_org, OnlySession, scans, Session
<1>3. t \in Evaluation /\ ReadInv(t) /\ RecordedInv(t, w) /\ OutcomeInv(t, w)
  BY <1>1, <1>2, Zenon DEF TxTyped, HeldInv
<1>4. t.old \in Rows /\ t.new \in Rows /\ t.loaded \subseteq Assets
  BY <1>3 DEF Evaluation
<1>5. /\ o \in Rows /\ o.run = t.old.run
      /\ \A a \in Assets : o.match[a] = IF a \in t.loaded THEN t.old.match[a] ELSE match[a]
  BY <1>1, <1>4, SessionRows, Zenon
<1>6. /\ mid \in Rows /\ mid.run = t.new.run
      /\ \A a \in Assets : mid.match[a] = IF a \in t.loaded THEN t.new.match[a] ELSE match[a]
  BY <1>1, <1>4, SessionRows, Zenon
<1>7. n \in Rows /\ n.run = mid.run /\ \A a \in Assets : EvaluatedRow(n.match[a], mid.match[a])
  <2>1. IsEvaluated(mid, n)
    BY <1>6, EvaluatedRows, Zenon
  <2> QED
    BY <2>1, Zenon DEF IsEvaluated
<1>8. HasEvaluated(x, t, o, n)
  BY <1>3, <1>5, <1>7, EvaluatedFields, Zenon
<1> HIDE DEF x
<1>9. /\ x \in Evaluation /\ x.scan = t.scan /\ x.end = t.end /\ x.loaded = t.loaded /\ x.old = o /\ x.new = n
      /\ x.step = "evaluated"
  BY <1>8, Zenon DEF HasEvaluated
<1>10. Writes(w, x) /\ w \in Sessions
  <2>1. w \in Sessions
    BY DEF Sessions, Transaction
  <2> QED
    BY <1>1, <1>2, <2>1, TxWritten, Zenon
<1>11. TablesKept /\ TypeOK'
  <2>1. others' \in Nat
    BY <1>1, <1>2, Zenon DEF TypeOK
  <2> QED
    BY <1>2, <2>1, OnlySessionKept, Zenon
<1>12. Typed'
  <2>1. TxValue(w, x)
    BY <1>9, Zenon DEF TxValue
  <2> QED
    BY <1>1, <1>10, <1>11, <2>1, TxTypedKept, Zenon DEF Typed
<1>13. UNCHANGED <<match, run, scan, tested, hits, detected>>
  BY <1>2, Zenon DEF OnlySession, tables
<1>14. ASSUME NEW a \in Assets
       PROVE  /\ ReadRow(x.old.match[a], x.new.match[a], match[a], TRUE)
              /\ a \in x.loaded => x.old.match[a] # None
  <2>1. EvaluatedRow(n.match[a], mid.match[a])
    BY <1>7, Zenon
  <2>2. ReadRow(t.old.match[a], t.new.match[a], match[a], t.step = "evaluated") /\ (a \in t.loaded => t.old.match[a] # None)
    BY <1>3, Zenon DEF ReadInv
  <2>3. CASE a \in t.loaded
    <3>1. o.match[a] = t.old.match[a] /\ mid.match[a] = t.new.match[a] /\ t.old.match[a] # None
      BY <1>5, <1>6, <2>2, <2>3, Zenon
    <3>2. n.match[a] # None /\ n.match[a].run = t.new.match[a].run /\ n.match[a].outcome \in {t.new.match[a].outcome, "none"}
      BY <2>1, <2>2, <3>1, Zenon DEF EvaluatedRow, ReadRow
    <3>3. "none" # "pending"
      OBVIOUS
    <3> QED
      BY <1>9, <2>2, <3>1, <3>2, <3>3, Zenon DEF ReadRow
  <2>4. CASE a \notin t.loaded
    <3>1. o.match[a] = match[a] /\ mid.match[a] = match[a]
      BY <1>5, <1>6, <2>4, Zenon
    <3>2. "none" # "pending"
      OBVIOUS
    <3> QED
      BY <1>9, <2>1, <2>4, <3>1, <3>2, Zenon DEF ReadRow, EvaluatedRow
  <2> QED
    BY <2>3, <2>4, Zenon
<1>15. Recorded(x) = Recorded(t)
  BY <1>5, <1>6, <1>7, <1>9, Zenon DEF Recorded
<1>16. ASSUME NEW r \in Recorded(t)
       PROVE  /\ RecordedRun(x, w, r, run[r], scan[r])
              /\ \A a \in Assets : Awaited(x.old.match[a], x.new.match[a], match[a], r)
  <2>1. RecordedRun(t, w, r, run[r], scan[r]) /\ \A a \in Assets : Awaited(t.old.match[a], t.new.match[a], match[a], r)
    BY <1>3, Zenon DEF RecordedInv
  <2>2. RecordedRun(x, w, r, run[r], scan[r])
    BY <1>5, <1>6, <1>7, <1>9, <2>1, Zenon DEF RecordedRun
  <2>3. ASSUME NEW a \in Assets
        PROVE  Awaited(x.old.match[a], x.new.match[a], match[a], r)
    <3>1. EvaluatedRow(n.match[a], mid.match[a])
      BY <1>7, Zenon
    <3>2. CASE a \in t.loaded
      <4>1. o.match[a] = t.old.match[a] /\ mid.match[a] = t.new.match[a] /\ t.old.match[a] # None /\ t.new.match[a] # None
        <5>1. o.match[a] = t.old.match[a] /\ mid.match[a] = t.new.match[a]
          BY <1>5, <1>6, <3>2, Zenon
        <5> QED
          BY <1>3, <3>2, <5>1, Zenon DEF ReadInv, ReadRow
      <4>2. n.match[a].outcome \in {t.new.match[a].outcome, "none"} /\ "none" # "pending"
        BY <3>1, <4>1 DEF EvaluatedRow
      <4>3. Awaited(t.old.match[a], t.new.match[a], match[a], r)
        BY <2>1, Zenon
      <4> QED
        BY <1>9, <4>1, <4>2, <4>3, Zenon DEF Awaited
    <3>3. CASE a \notin t.loaded
      <4>1. o.match[a] = match[a]
        BY <1>5, <3>3, Zenon
      <4>2. r # 0
        BY DEF Recorded, Runs
      <4>3. match[a] # None /\ match[a].run = r => a \in run[r].assets
        BY <1>1, <4>2, Zenon DEF RowsLinked
      <4>4. run[r].assets \subseteq t.loaded
        BY <2>1, Zenon DEF RecordedRun
      <4>5. ~(match[a] # None /\ match[a].run = r)
        BY <3>3, <4>3, <4>4, Zenon
      <4> QED
        BY <1>9, <4>1, <4>5, Zenon DEF Awaited
    <3> QED
      BY <3>2, <3>3, Zenon
  <2> QED
    BY <2>2, <2>3, Zenon
<1>17. ASSUME NEW a \in Assets, Judged(x.old.match[a], x.new.match[a])
       PROVE  LET r == x.new.match[a].run
              IN  /\ r \in Recorded(t)
                  /\ w = "finish" => x.end = "clean" /\ a \in tested[r] \ detected[r]
                  /\ w = "daily" => Clean(r, a)
  <2>1. EvaluatedRow(n.match[a], mid.match[a]) /\ "none" # "not_detected"
    BY <1>7
  <2>2. CASE a \notin t.loaded
    <3>1. o.match[a] = match[a] /\ mid.match[a] = match[a]
      BY <1>5, <1>6, <2>2, Zenon
    <3> QED
      BY <1>9, <1>17, <2>1, <3>1, Zenon DEF EvaluatedRow, Judged
  <2>3. CASE a \in t.loaded
    <3>1. o.match[a] = t.old.match[a] /\ mid.match[a] = t.new.match[a] /\ t.old.match[a] # None /\ t.new.match[a] # None
      BY <1>3, <1>5, <1>6, <2>3, Zenon DEF ReadInv, ReadRow
    <3>2. n.match[a].run = t.new.match[a].run /\ n.match[a].outcome = t.new.match[a].outcome
      BY <1>9, <1>17, <2>1, <3>1, Zenon DEF EvaluatedRow, Judged
    <3>3. Judged(t.old.match[a], t.new.match[a])
      BY <1>9, <1>17, <3>1, <3>2, Zenon DEF Judged
    <3> QED
      BY <1>3, <1>9, <3>2, <3>3, Zenon DEF OutcomeInv
  <2> QED
    BY <2>2, <2>3, Zenon
<1>18. tx'[w] = x
  BY <1>10, Zenon DEF Writes
<1>19. HeldInv(w)'
  BY <1>9, <1>13, <1>14, <1>15, <1>16, <1>17, <1>18, Zenon DEF HeldInv, ReadInv, RecordedInv, OutcomeInv, Clean
<1>20. Holders'
  <2>1. CASE w = "finish"
    <3>1. tx'["daily"] = tx["daily"] /\ scan' = scan
      BY <1>10, <1>13, <2>1 DEF Writes, Sessions
    <3>2. tx["daily"] # None => tx["daily"].step = "synced"
      <4>1. tx["daily"] # None => tx["daily"].step # "evaluated" /\ tx["daily"] \in Evaluation
        BY <1>1, <1>2, <2>1 DEF LockFree, Others, TxTyped, Transaction
      <4> QED
        BY <4>1 DEF Evaluation
    <3> QED
      BY <1>1, <1>2, <1>9, <1>18, <2>1, <3>1, <3>2, Zenon DEF Holders
  <2>2. CASE w = "daily"
    <3>1. tx'["finish"] = tx["finish"] /\ scan' = scan
      BY <1>10, <1>13, <2>2 DEF Writes, Sessions
    <3>2. tx["finish"] # None => tx["finish"].step = "synced"
      <4>1. tx["finish"] # None => tx["finish"].step # "evaluated" /\ tx["finish"] \in Evaluation
        BY <1>1, <1>2, <2>2 DEF LockFree, Others, TxTyped, Transaction
      <4> QED
        BY <4>1 DEF Evaluation
    <3> QED
      BY <1>1, <1>2, <1>9, <1>18, <2>2, <3>1, <3>2, Zenon DEF Holders
  <2> QED
    BY <2>1, <2>2, Zenon DEF Transaction
<1> QED
  BY <1>10, <1>11, <1>12, <1>13, <1>19, <1>20, SessionStep, Zenon

\* How a scan stands once the transaction of its end is over.
ScanAfter(t) == IF t.scan = 0 THEN scan ELSE [scan EXCEPT ![t.scan] = t.end]

\* A transaction's end can end only the scan it is about, which was active.
LEMMA ScanEnds ==
  ASSUME ThreatInv, NEW w \in Transaction, tx[w] # None, scan' = ScanAfter(tx[w])
  PROVE  /\ scan' \in [Runs -> {"none", "active", "clean", "unclear", "failed", "cancelled"}]
         /\ \A r \in Runs : scan'[r] = "active" => scan[r] = "active" /\ (w = "finish" => r # tx[w].scan)
         /\ \A r \in Runs : scan[r] \in Ends => scan'[r] = scan[r]
         /\ tx[w].scan # 0 => scan'[tx[w].scan] = tx[w].end
         /\ w = "daily" => scan' = scan
<1> DEFINE S == {"none", "active", "clean", "unclear", "failed", "cancelled"}
<1>1. scan \in [Runs -> S] /\ tx[w] \in Evaluation
  BY Zenon DEF ThreatInv, Typed, TypeOK, TxTyped
<1>2. tx[w].scan \in Runs \union {0} /\ tx[w].end \in S /\ tx[w].end # "active"
  BY <1>1 DEF Evaluation, Ends
<1>3. tx[w].scan # 0 => w = "finish" /\ scan[tx[w].scan] = "active"
  BY DEF ThreatInv, EvaluationInv, Transaction
<1>4. CASE tx[w].scan = 0
  <2>1. scan' = scan
    BY <1>4, Zenon DEF ScanAfter
  <2>2. \A r \in Runs : r # tx[w].scan
    BY <1>4 DEF Runs
  <2> QED
    BY <1>1, <1>4, <2>1, <2>2, Zenon
<1>5. CASE tx[w].scan # 0
  <2>1. scan' = [scan EXCEPT ![tx[w].scan] = tx[w].end] /\ tx[w].scan \in Runs
    BY <1>2, <1>5, Zenon DEF ScanAfter
  <2>2. scan'[tx[w].scan] = tx[w].end /\ \A r \in Runs \ {tx[w].scan} : scan'[r] = scan[r]
    BY <1>1, <2>1, Zenon
  <2>3. scan' \in [Runs -> S]
    BY <1>1, <1>2, <2>1, Zenon
  <2>4. "active" \notin Ends /\ w # "daily"
    BY <1>3, <1>5 DEF Ends
  <2> QED
    BY <1>2, <1>3, <1>5, <2>2, <2>3, <2>4, Zenon
<1> QED
  BY <1>4, <1>5, Zenon

\* A rolled-back transaction: its scan ends, its result is lost.
LEMMA AbortStep ==
  ASSUME ThreatInv, UNCHANGED setup, NEW w \in Transaction, Abort(w)
  PROVE  ThreatInv'
<1>1. TypeOK /\ TxTyped /\ Typed /\ RowsLinked /\ Holders
  BY Zenon DEF ThreatInv, Typed, EvaluationInv, Holders
<1>2. /\ tx[w] # None /\ tx' = [tx EXCEPT ![w] = None] /\ scan' = ScanAfter(tx[w])
      /\ UNCHANGED <<catalog, inventory, tables, tested, hits, detected, others, announced>>
  BY Zenon DEF Abort, ScanAfter
<1>3. Writes(w, None) /\ w \in Sessions
  <2>1. w \in Sessions
    BY DEF Sessions, Transaction
  <2> QED
    BY <1>1, <1>2, <2>1, TxWritten, Zenon
<1>4. /\ scan' \in [Runs -> {"none", "active", "clean", "unclear", "failed", "cancelled"}]
      /\ \A r \in Runs : scan'[r] = "active" => scan[r] = "active" /\ (w = "finish" => r # tx[w].scan)
      /\ \A r \in Runs : scan[r] \in Ends => scan'[r] = scan[r]
      /\ tx[w].scan # 0 => scan'[tx[w].scan] = tx[w].end
      /\ w = "daily" => scan' = scan
  BY <1>2, ScanEnds, Zenon
<1>5. TablesKept
  BY <1>1, <1>2, <1>4, Zenon DEF TablesKept, EndedKept, RowsLinked, tables
<1>6. Typed'
  <2>1. TypeOK'
    BY <1>1, <1>2, <1>4, Zenon DEF TypeOK, catalog, inventory, tables
  <2>2. TxValue(w, None)
    BY Zenon DEF TxValue
  <2> QED
    BY <1>1, <1>3, <2>1, <2>2, TxTypedKept, Zenon DEF Typed
<1>7. tx'[w] = None
  BY <1>3, Zenon DEF Writes
<1>8. HeldInv(w)'
  BY <1>7, Zenon DEF HeldInv
<1>9. Holders'
  <2>1. CASE w = "finish"
    <3>1. tx'["daily"] = tx["daily"]
      BY <1>3, <2>1 DEF Writes, Sessions
    <3> QED
      BY <1>1, <1>7, <2>1, <3>1, Zenon DEF Holders
  <2>2. CASE w = "daily"
    <3>1. tx'["finish"] = tx["finish"] /\ scan' = scan
      BY <1>3, <1>4, <2>2 DEF Writes, Sessions
    <3> QED
      BY <1>1, <1>7, <2>2, <3>1, Zenon DEF Holders
  <2> QED
    BY <2>1, <2>2, Zenon DEF Transaction
<1> QED
  BY <1>2, <1>3, <1>5, <1>6, <1>8, <1>9, SessionStep, Zenon

\* The number a request takes is not in use.
LEMMA NextRun ==
  ASSUME RowsLinked
  PROVE  Cardinality(Requested) \in Nat /\ \A r \in Runs : r = Cardinality(Requested) + 1 => run[r] = None
<1>1. IsFiniteSet(Requested)
  <2>1. MaxRuns \in Int
    BY ThreatCenterAssumption
  <2>2. IsFiniteSet(Runs)
    BY <2>1, FS_Interval DEF Runs
  <2>3. Requested \subseteq Runs
    BY Zenon DEF Requested
  <2> QED
    BY <2>2, <2>3, FS_Subset, Zenon
<1>2. Cardinality(Requested) \in Nat
  BY <1>1, FS_CardinalityType, Zenon
<1>3. Requested = 1..Cardinality(Requested)
  BY Zenon DEF RowsLinked
<1>4. \A r \in Runs : r = Cardinality(Requested) + 1 => r \notin Requested
  BY <1>2, <1>3
<1> QED
  BY <1>2, <1>4, Zenon DEF Requested

Asked(x, r) == x \in Match /\ x.run = r /\ x.outcome = "pending"

\* A match that waits for the run r, field by field.
LEMMA AskedFields ==
  ASSUME NEW m \in Match, NEW r \in Runs
  PROVE  Asked([m EXCEPT !.outcome = "pending", !.run = r], r)
<1> DEFINE x == [m EXCEPT !.outcome = "pending"]
           y == [x EXCEPT !.run = r]
<1>1. x \in Match /\ x.outcome = "pending"
  BY DEF Match, CheckOutcome
<1> HIDE DEF x
<1>2. y \in Match /\ y.outcome = "pending" /\ y.run = r
  BY <1>1 DEF Match
<1> HIDE DEF y
<1>3. y = [m EXCEPT !.outcome = "pending", !.run = r]
  BY Zenon DEF x, y
<1> QED
  BY <1>2, <1>3, Zenon DEF Asked

\* request_checks up to its commit.
LEMMA RequestStep ==
  ASSUME ThreatInv, UNCHANGED setup, NEW A \in SUBSET Assets, request_checks(A)
  PROVE  ThreatInv'
<1> PICK r : r = Cardinality(Requested) + 1
  BY Zenon
<1> DEFINE new_run == [status |-> "active", ask |-> content[Current], assets |-> A]
           m == [a \in Assets |-> IF a \in A THEN Assessed([match[a] EXCEPT !.outcome = "pending", !.run = r]) ELSE match[a]]
           u == [run EXCEPT ![r] = new_run]
           q == [scan |-> r, old |-> DB, new |-> [match |-> m, run |-> u]]
<1>1. TypeOK /\ TxTyped /\ Typed /\ RowsLinked /\ PendingInv
  BY Zenon DEF ThreatInv, Typed
<1>2. /\ tx["request"] = None /\ Current # 0 /\ r \in 1..setup.runs /\ \A x \in Runs : ~Active(x)
      /\ \A a \in A : match[a] # None
      /\ tx' = [tx EXCEPT !["request"] = q] /\ OnlySession /\ others' = others
  BY Zenon DEF request_checks, Requested, OnlySession, scans
<1>3. r \in Runs /\ run[r] = None
  <2>1. setup.runs \in Runs
    <3>1. setup \in [changes : SUBSET Changes, runs : Runs, others : Nat]
      BY <1>1, ThreatCenterAssumption, Zenon DEF TypeOK
    <3> QED
      BY <3>1
  <2>2. MaxRuns \in Nat
    BY ThreatCenterAssumption
  <2>3. r \in 1..setup.runs
    BY <1>2, Zenon
  <2>4. r \in Runs
    BY <2>1, <2>2, <2>3 DEF Runs
  <2> QED
    BY <1>1, <2>4, NextRun, Zenon
<1>4. content[Current] \in Asks
  <2>1. Current \in Versions
    <3>1. Current \in 0..MaxVersion /\ MaxVersion \in Nat \ {0} /\ Current # 0
      BY <1>1, <1>2, CurrentType, ThreatCenterAssumption, Zenon
    <3> QED
      BY <3>1 DEF Versions
  <2> QED
    BY <1>1, <2>1, Zenon DEF TypeOK
<1>5. DB \in Rows /\ DB.match = match /\ DB.run = run
  BY <1>1, DBType, Zenon
<1>6. new_run \in Run /\ new_run.status = "active" /\ new_run.assets = A
  BY <1>4 DEF Run
<1> HIDE DEF new_run
<1>7. u[r] = new_run /\ (\A x \in Runs \ {r} : u[x] = run[x]) /\ u \in [Runs -> Run \union {None}]
  BY <1>1, <1>3, <1>6, Zenon DEF TypeOK
<1>8. ASSUME NEW a \in A
      PROVE  Asked(m[a], r)
  <2>1. a \in Assets /\ match[a] \in Match
    BY <1>1, <1>2, Zenon DEF TypeOK
  <2> PICK c : c = match[a]
    BY Zenon
  <2> DEFINE x == [c EXCEPT !.outcome = "pending", !.run = r]
  <2>2. m[a] = Assessed(x)
    BY <2>1, Zenon
  <2>3. Asked(x, r)
    BY <1>3, <2>1, AskedFields, Zenon
  <2> HIDE DEF x, m
  <2>4. Reassessed(m[a], x)
    BY <2>2, <2>3, AssessedRow, Zenon DEF Asked
  <2> QED
    BY <2>3, <2>4, Zenon DEF Asked, Reassessed
<1>9. \A a \in Assets \ A : m[a] = match[a]
  BY Zenon
<1>10. m \in [Assets -> Match \union {None}]
  <2>1. \A a \in Assets : m[a] \in Match \union {None}
    <3> SUFFICES ASSUME NEW a \in Assets PROVE m[a] \in Match \union {None}
      BY Zenon
    <3>1. match[a] \in Match \union {None}
      BY <1>1, Zenon DEF TypeOK
    <3> HIDE DEF m
    <3> QED
      BY <1>8, <1>9, <3>1, Zenon DEF Asked
  <2> QED
    BY <2>1, Zenon
<1> HIDE DEF m, u
<1>11. q \in Request /\ q.scan = r /\ q.old = DB /\ q.new.match = m /\ q.new.run = u
  <2>1. [match |-> m, run |-> u] \in Rows
    BY <1>7, <1>10 DEF Rows
  <2> QED
    BY <1>3, <1>5, <2>1 DEF Request
<1> HIDE DEF q
<1>12. Writes("request", q) /\ "request" \in Sessions
  <2>1. "request" \in Sessions
    BY DEF Sessions
  <2> QED
    BY <1>1, <1>2, <2>1, TxWritten, Zenon
<1>13. TablesKept /\ TypeOK'
  <2>1. others' \in Nat
    BY <1>1, <1>2, Zenon DEF TypeOK
  <2> QED
    BY <1>2, <2>1, OnlySessionKept, Zenon
<1>14. Typed'
  <2>1. TxValue("request", q)
    BY <1>11, Zenon DEF TxValue
  <2> QED
    BY <1>1, <1>12, <1>13, <2>1, TxTypedKept, Zenon DEF Typed
<1>15. UNCHANGED <<match, run, scan, tested, hits, detected>>
  BY <1>2, Zenon DEF OnlySession, tables
<1>16. EvaluationInv'
  <2>1. \A w \in Transaction : tx'[w] = tx[w]
    BY <1>12 DEF Writes, Sessions, Transaction
  <2>2. \A w \in Transaction : HeldInv(w)'
    <3> SUFFICES ASSUME NEW w \in Transaction PROVE HeldInv(w)'
      BY Zenon
    <3>1. UNCHANGED <<tested, detected>>
      BY <1>15, Zenon
    <3> QED
      BY <1>13, <2>1, <3>1, HeldTablesKept, Zenon
  <2>3. tx'["finish"] = tx["finish"] /\ tx'["daily"] = tx["daily"]
    BY <2>1, Zenon DEF Transaction
  <2> QED
    BY <1>15, <2>2, <2>3, Zenon DEF ThreatInv, EvaluationInv
<1>17. RequestInv'
  <2>1. tx'["request"] = q
    BY <1>12, Zenon DEF Writes
  <2>2. Requested' = Requested
    BY <1>15, Zenon DEF Requested
  <2>3. \A x \in Runs : ~Active(x)'
    BY <1>2, <1>15, Zenon DEF Active
  <2>4. ASSUME NEW a \in Assets
        PROVE  AskedRow(q.old.match[a], q.new.match[a], match'[a], r, A, a)
    <3>1. q.old.match[a] = match[a] /\ q.new.match[a] = m[a] /\ match'[a] = match[a]
      BY <1>5, <1>11, <1>15, Zenon
    <3>2. CASE a \notin A
      BY <1>9, <3>1, <3>2, Zenon DEF AskedRow
    <3>3. CASE a \in A
      <4>1. match[a] # None /\ Asked(m[a], r)
        BY <1>2, <1>8, <3>3, Zenon
      <4>2. m[a] # None
        BY <4>1, ThreatCenterAssumption, Zenon DEF Asked
      <4>3. match[a].run \in Runs \union {0} /\ r # 0
        <5>1. match[a] \in Match
          BY <1>1, <4>1, Zenon DEF TypeOK
        <5> QED
          BY <1>3, <5>1 DEF Match, Runs
      <4>4. match[a].outcome # "pending"
        BY <1>1, <1>2, <4>1, <4>3, Zenon DEF PendingInv
      <4>5. match[a].run # r
        BY <1>1, <1>3, <4>1, <4>3, Zenon DEF RowsLinked
      <4> QED
        BY <3>1, <3>3, <4>1, <4>2, <4>4, <4>5, Zenon DEF AskedRow, Asked
    <3> QED
      BY <3>2, <3>3, Zenon
  <2>5. /\ q.old.run[r] = None /\ \A x \in Runs \ {r} : q.new.run[x] = q.old.run[x]
        /\ q.new.run[r] # None /\ q.new.run[r].status = "active" /\ q.new.run[r].assets = A
    <3>1. new_run # None
      BY <1>6, ThreatCenterAssumption, Zenon
    <3> QED
      BY <1>3, <1>5, <1>6, <1>7, <1>11, <3>1, Zenon
  <2>6. \A a \in A : match'[a] # None
    BY <1>2, <1>15, Zenon
  <2>7. q.scan = Cardinality(Requested)' + 1 /\ q.scan = r
    BY <1>11, <2>2, Zenon
  <2> QED
    BY <2>1, <2>3, <2>4, <2>5, <2>6, <2>7, Zenon DEF RequestInv
<1>18. RowsLinked' /\ PendingInv' /\ CleanInv' /\ AnnouncedInv'
  BY <1>13, RowsKept, Zenon
<1> QED
  BY <1>14, <1>16, <1>17, <1>18, Zenon DEF ThreatInv

\* What the commit of a transaction makes of the rows.
CommittedRow(o, n, now, then, evaluated) ==
    /\ o # None => /\ now # None /\ then \in Match /\ then.run = now.run
                   /\ then.outcome = IF n.outcome = o.outcome THEN now.outcome ELSE n.outcome
                   /\ n.outcome = o.outcome \/ n.outcome # "pending"
    /\ o = None /\ n = None => then = now
    /\ o = None /\ n # None => now = None /\ then = n /\ n.run = 0 /\ n.outcome = "none" /\ evaluated
CommittedRun(now, then, recorded) ==
    /\ ~recorded => then = now
    /\ recorded => now \in Run /\ now.status = "active" /\ then \in Run /\ then.status # "active" /\ then.assets = now.assets
Committed(t) ==
    /\ DB' \in Rows
    /\ \A a \in Assets : CommittedRow(t.old.match[a], t.new.match[a], match[a], match'[a], t.step = "evaluated")
    /\ \A r \in Runs : CommittedRun(run[r], run'[r], r \in Recorded(t))

\* A commit changes the outcome of a match or creates one, and ends the recorded runs.
LEMMA CommittedRows ==
  ASSUME ThreatInv, NEW w \in Transaction, NEW t, t = tx[w], t # None,
         match' = Merged(t).match, run' = Merged(t).run
  PROVE  Committed(t)
<1>1. TypeOK /\ t \in Evaluation /\ ReadInv(t) /\ RecordedInv(t, w)
  BY Zenon DEF ThreatInv, Typed, TxTyped, EvaluationInv, HeldInv
<1>2. t.old \in Rows /\ t.new \in Rows
  BY <1>1 DEF Evaluation
<1>3. ASSUME NEW r \in Recorded(t)
      PROVE  /\ r \in Runs /\ run[r] \in Run /\ run[r].status = "active" /\ t.old.run[r] = run[r]
             /\ t.new.run[r] \in Run /\ t.new.run[r].status # "active" /\ t.new.run[r].assets = run[r].assets
  <2>1. RecordedRun(t, w, r, run[r], scan[r]) /\ r \in Runs
    BY <1>1, Zenon DEF RecordedInv, Recorded
  <2>2. run[r] \in Run /\ run[r].status = "active" /\ t.old.run[r] = run[r] /\ Stopped(t.new.run[r], run[r])
    BY <1>1, <2>1, Zenon DEF RecordedRun, TypeOK
  <2> QED
    BY <2>1, <2>2, StoppedDiffers, Zenon
<1>4. Keeps(t)
  <2>1. \A a \in Assets : t.old.match[a] # None => t.new.match[a] # None
    BY <1>1, Zenon DEF ReadInv, ReadRow
  <2>2. ASSUME NEW r \in Runs, t.old.run[r] # None
        PROVE  t.new.run[r] # None
    <3>1. CASE r \in Recorded(t)
      BY <1>3, <3>1, ThreatCenterAssumption, Zenon
    <3>2. CASE r \notin Recorded(t)
      BY <2>2, <3>2, Zenon DEF Recorded
    <3> QED
      BY <3>1, <3>2, Zenon
  <2> QED
    BY <2>1, <2>2, Zenon DEF Keeps
<1>5. IsMerge(t)
  BY <1>1, <1>2, <1>4, MergedRows, DBType, Zenon
<1>6. DB' \in Rows
  <2>1. Merged(t) \in Rows
    BY <1>5, Zenon DEF IsMerge
  <2>2. match' \in [Assets -> Match \union {None}] /\ run' \in [Runs -> Run \union {None}]
    BY <2>1 DEF Rows
  <2> QED
    BY <2>2 DEF DB, Rows
<1>7. ASSUME NEW a \in Assets
      PROVE  CommittedRow(t.old.match[a], t.new.match[a], match[a], match'[a], t.step = "evaluated")
  <2>1. MergedMatch(t.old.match[a], t.new.match[a], match[a], match'[a])
    BY <1>5, Zenon DEF IsMerge
  <2>2. ReadRow(t.old.match[a], t.new.match[a], match[a], t.step = "evaluated")
    BY <1>1, Zenon DEF ReadInv
  <2> QED
    BY <2>1, <2>2, Zenon DEF MergedMatch, ReadRow, CommittedRow
<1>8. ASSUME NEW r \in Runs
      PROVE  CommittedRun(run[r], run'[r], r \in Recorded(t))
  <2>1. MergedRun(t.old.run[r], t.new.run[r], run[r], run'[r])
    BY <1>5, Zenon DEF IsMerge
  <2>2. CASE r \in Recorded(t)
    BY <1>3, <2>1, <2>2, Zenon DEF MergedRun, CommittedRun
  <2>3. CASE r \notin Recorded(t)
    BY <2>1, <2>3, Zenon DEF MergedRun, CommittedRun, Recorded
  <2> QED
    BY <2>2, <2>3, Zenon
<1> QED
  BY <1>6, <1>7, <1>8, Zenon DEF Committed

\* The commit of on_scan_finished, or of a daily evaluation.
LEMMA CommitStep ==
  ASSUME ThreatInv, UNCHANGED setup, NEW w \in Transaction, Commit(w)
  PROVE  ThreatInv'
<1> PICK t : t = tx[w]
  BY Zenon
<1>1. TypeOK /\ TxTyped /\ Typed /\ RowsLinked /\ PendingInv /\ CleanInv /\ Holders /\ AnnouncedInv /\ RequestInv
  BY Zenon DEF ThreatInv, Typed, EvaluationInv, Holders
<1>2. /\ t # None /\ tx' = [tx EXCEPT ![w] = None] /\ scan' = ScanAfter(t)
      /\ match' = Merged(t).match /\ run' = Merged(t).run
      /\ UNCHANGED <<catalog, inventory, tested, hits, detected, others>>
  BY Zenon DEF Commit, ScanAfter
<1>3. t \in Evaluation /\ ReadInv(t) /\ RecordedInv(t, w) /\ OutcomeInv(t, w)
  BY <1>2, Zenon DEF ThreatInv, Typed, TxTyped, EvaluationInv, HeldInv
<1>4. Committed(t)
  BY <1>2, CommittedRows, Zenon
<1>5. /\ scan' \in [Runs -> {"none", "active", "clean", "unclear", "failed", "cancelled"}]
      /\ \A r \in Runs : scan'[r] = "active" => scan[r] = "active" /\ (w = "finish" => r # t.scan)
      /\ \A r \in Runs : scan[r] \in Ends => scan'[r] = scan[r]
      /\ t.scan # 0 => scan'[t.scan] = t.end
      /\ w = "daily" => scan' = scan
  BY <1>2, ScanEnds, Zenon
<1>6. Writes(w, None) /\ w \in Sessions
  <2>1. w \in Sessions
    BY DEF Sessions, Transaction
  <2> QED
    BY <1>1, <1>2, <2>1, TxWritten, Zenon
<1>7. ASSUME NEW a \in Assets
      PROVE  CommittedRow(t.old.match[a], t.new.match[a], match[a], match'[a], t.step = "evaluated")
  BY <1>4, Zenon DEF Committed
<1>8. ASSUME NEW r \in Runs
      PROVE  CommittedRun(run[r], run'[r], r \in Recorded(t))
  BY <1>4, Zenon DEF Committed
<1>9. ASSUME NEW r \in Recorded(t)
      PROVE  r \in Runs /\ RecordedRun(t, w, r, run[r], scan[r])
  BY <1>3, Zenon DEF RecordedInv, Recorded
<1>10. None \notin Match /\ None \notin Run
  BY ThreatCenterAssumption, Zenon
<1>11. ASSUME NEW a \in Assets, match[a] # None
       PROVE  match'[a] # None /\ match'[a].run = match[a].run
  BY <1>7, <1>10, <1>11, Zenon DEF CommittedRow
<1>12. ASSUME NEW r \in Runs
       PROVE  (run'[r] # None <=> run[r] # None) /\ (run[r] # None => run'[r].assets = run[r].assets)
  BY <1>8, <1>10, Zenon DEF CommittedRun
<1>13. ASSUME NEW a \in Assets, match'[a] # None, match'[a].run # 0
       PROVE  match[a] # None /\ match'[a].run = match[a].run
  BY <1>7, <1>13, Zenon DEF CommittedRow
<1>14. Typed'
  <2>1. match' \in [Assets -> Match \union {None}] /\ run' \in [Runs -> Run \union {None}]
    BY <1>4 DEF Committed, DB, Rows
  <2>2. announced' \in [Assets -> Nat]
    <3>1. announced \in [Assets -> Nat]
      BY <1>1, Zenon DEF TypeOK
    <3> DEFINE new(a) == /\ tx[w].step = "evaluated" /\ tx[w].old.match[a] = None /\ tx[w].new.match[a] # None
                         /\ tx[w].new.match[a].assessment \in AFFECTED_ASSESSMENTS
    <3>2. announced' = [a \in Assets |-> announced[a] + IF new(a) THEN 1 ELSE 0]
      BY Zenon DEF Commit
    <3> HIDE DEF new
    <3> QED
      BY <3>1, <3>2
  <2>3. TypeOK'
    BY <1>1, <1>2, <1>5, <2>1, <2>2, Zenon DEF TypeOK, catalog, inventory
  <2>4. TxValue(w, None)
    BY Zenon DEF TxValue
  <2> QED
    BY <1>1, <1>6, <2>3, <2>4, TxTypedKept, Zenon DEF Typed
<1>15. RowsLinked'
  <2>1. ASSUME NEW a \in Assets, match'[a] # None, match'[a].run # 0
        PROVE  run'[match'[a].run] # None /\ a \in run'[match'[a].run].assets
    <3> PICK r : r = match[a].run
      BY Zenon
    <3>1. match[a] # None /\ match'[a].run = r /\ r # 0
      BY <1>13, <2>1, Zenon
    <3>2. run[r] # None /\ a \in run[r].assets
      BY <1>1, <3>1, Zenon DEF RowsLinked
    <3>3. r \in Runs
      <4>1. match[a] \in Match
        BY <1>1, <3>1, Zenon DEF TypeOK
      <4>2. match[a].run \in Runs \union {0}
        BY <4>1 DEF Match
      <4> QED
        BY <3>1, <4>2, Zenon
    <3> QED
      BY <1>12, <3>1, <3>2, <3>3, Zenon
  <2>2. ASSUME NEW r \in Runs, run'[r] # None, NEW a \in run'[r].assets
        PROVE  match'[a] # None
    <3>1. run[r] # None /\ a \in run[r].assets
      BY <1>12, <2>2, Zenon
    <3>2. match[a] # None
      BY <1>1, <3>1, Zenon DEF RowsLinked
    <3>3. a \in Assets
      <4>1. run[r] \in Run
        BY <1>1, <3>1, Zenon DEF TypeOK
      <4> QED
        BY <3>1, <4>1 DEF Run
    <3> QED
      BY <1>11, <3>2, <3>3, Zenon
  <2>3. ASSUME NEW r \in Runs, scan'[r] = "active"
        PROVE  Active(r)'
    <3>1. scan[r] = "active" /\ (w = "finish" => r # t.scan) /\ Active(r)
      BY <1>1, <1>5, <2>3, Zenon DEF RowsLinked
    <3>2. r \notin Recorded(t)
      <4>1. "active" \notin Ends
        BY DEF Ends
      <4> QED
        BY <1>9, <3>1, <4>1, Zenon DEF RecordedRun, Transaction
    <3> QED
      BY <1>8, <3>1, <3>2, Zenon DEF CommittedRun, Active
  <2>4. \A r \in Runs : hits'[r] \subseteq detected'[r]
    BY <1>1, <1>2, Zenon DEF RowsLinked
  <2>5. Requested' = Requested
    BY <1>12, Zenon DEF Requested
  <2>6. Requested' = 1..Cardinality(Requested')
    BY <1>1, <2>5, Zenon DEF RowsLinked
  <2> QED
    BY <2>1, <2>2, <2>3, <2>4, <2>6, Zenon DEF RowsLinked
<1>16. PendingInv'
  <2> SUFFICES ASSUME NEW a \in Assets, match'[a] # None, match'[a].outcome = "pending"
               PROVE  match'[a].run # 0 /\ run'[match'[a].run] # None /\ run'[match'[a].run].status = "active"
    BY Zenon DEF PendingInv, Active
  <2> PICK r : r = match[a].run
    BY Zenon
  <2>1. CommittedRow(t.old.match[a], t.new.match[a], match[a], match'[a], t.step = "evaluated")
    BY <1>7, Zenon
  <2>2. match[a] # None /\ match[a].outcome = "pending" /\ match'[a].run = r
    BY <2>1 DEF CommittedRow
  <2>3. r # 0 /\ Active(r)
    BY <1>1, <2>2, Zenon DEF PendingInv
  <2>4. r \in Runs
    <3>1. match[a] \in Match
      BY <1>1, <2>2, Zenon DEF TypeOK
    <3>2. match[a].run \in Runs \union {0}
      BY <3>1 DEF Match
    <3> QED
      BY <2>3, <3>2, Zenon
  <2>5. ASSUME r \in Recorded(t) PROVE FALSE
    <3>1. RecordedRun(t, w, r, run[r], scan[r]) /\ Awaited(t.old.match[a], t.new.match[a], match[a], r)
      BY <1>3, <2>5, Zenon DEF RecordedInv
    <3>2. a \in run[r].assets
      BY <1>1, <2>2, <2>3, Zenon DEF RowsLinked
    <3>3. t.old.match[a] # None
      BY <1>3, <3>1, <3>2, Zenon DEF RecordedRun, ReadInv
    <3>4. t.old.match[a].run = r /\ t.new.match[a].outcome # "pending" /\ t.old.match[a].outcome = "pending"
      BY <2>2, <3>1, <3>3, Zenon DEF Awaited
    <3> QED
      BY <2>1, <3>3, <3>4, Zenon DEF CommittedRow
  <2>6. run'[r] = run[r]
    BY <1>8, <2>4, <2>5, Zenon DEF CommittedRun
  <2> QED
    BY <2>2, <2>3, <2>6, Zenon DEF Active
<1>17. CleanInv'
  <2> SUFFICES ASSUME NEW a \in Assets, match'[a] # None, match'[a].outcome = "not_detected"
               PROVE  LET r == match'[a].run
                      IN  r # 0 /\ scan'[r] \in Ends /\ (hits'[r] = detected'[r] => scan'[r] = "clean" /\ a \in tested'[r] \ detected'[r])
    BY Zenon DEF CleanInv, Clean
  <2> PICK r : r = match[a].run
    BY Zenon
  <2>1. CommittedRow(t.old.match[a], t.new.match[a], match[a], match'[a], t.step = "evaluated")
    BY <1>7, Zenon
  <2>2. match[a] # None /\ match'[a].run = r
    BY <2>1, Zenon DEF CommittedRow
  <2>3. match[a].run \in Runs \union {0}
    <3>1. match[a] \in Match
      BY <1>1, <2>2, Zenon DEF TypeOK
    <3> QED
      BY <3>1 DEF Match
  <2>4. CASE match[a].outcome = "not_detected"
    <3>1. r # 0 /\ scan[r] \in Ends /\ Clean(r, a)
      BY <1>1, <2>2, <2>4, Zenon DEF CleanInv
    <3>2. scan'[r] = scan[r]
      BY <1>5, <2>3, <3>1, Zenon
    <3> QED
      BY <1>2, <2>2, <3>1, <3>2, Zenon DEF Clean
  <2>5. CASE match[a].outcome # "not_detected"
    <3>1. Judged(t.old.match[a], t.new.match[a])
      BY <2>1, <2>5, Zenon DEF CommittedRow, Judged
    <3>2. t.new.match[a].run = t.old.match[a].run /\ t.old.match[a] # None
      BY <1>3, <3>1, Zenon DEF ReadInv, ReadRow, Judged
    <3> PICK x : x = t.new.match[a].run
      BY Zenon
    <3>3. /\ x \in Recorded(t)
          /\ w = "finish" => t.end = "clean" /\ a \in tested[x] \ detected[x]
          /\ w = "daily" => Clean(x, a)
      BY <1>3, <3>1, Zenon DEF OutcomeInv
    <3>4. RecordedRun(t, w, x, run[x], scan[x]) /\ Awaited(t.old.match[a], t.new.match[a], match[a], x) /\ x \in Runs
      BY <1>3, <3>3, Zenon DEF RecordedInv, Recorded
    <3>5. x = r /\ r # 0
      <4>1. x = r
        BY <3>2, <3>4, Zenon DEF Awaited
      <4> QED
        BY <3>4, <4>1 DEF Runs
    <3>6. CASE w = "finish"
      <4>0. r = t.scan /\ t.end = "clean" /\ a \in tested[r] \ detected[r]
        BY <3>3, <3>4, <3>5, <3>6, Zenon DEF RecordedRun
      <4>1. r = t.scan /\ scan'[r] = "clean" /\ a \in tested[r] \ detected[r]
        BY <1>5, <3>5, <4>0, Zenon
      <4>2. "clean" \in Ends
        BY DEF Ends
      <4> QED
        BY <1>2, <2>2, <3>5, <4>1, <4>2, Zenon DEF Clean
    <3>7. CASE w = "daily"
      <4>1. scan[r] \in Ends /\ scan' = scan /\ Clean(r, a)
        BY <1>5, <3>3, <3>4, <3>5, <3>7, Zenon DEF RecordedRun
      <4> QED
        BY <1>2, <2>2, <3>5, <4>1, Zenon DEF Clean
    <3> QED
      BY <3>6, <3>7, Zenon DEF Transaction
  <2> QED
    BY <2>4, <2>5, Zenon
<1>18. ASSUME NEW v \in Transaction, v # w
       PROVE  HeldInv(v)'
  <2>1. tx'[v] = tx[v]
    BY <1>6, <1>18 DEF Writes, Sessions, Transaction
  <2>2. HeldInv(v)
    BY Zenon DEF ThreatInv, EvaluationInv
  <2>3. ASSUME tx[v] # None
        PROVE  Undisturbed(v)
    <3>1. ASSUME NEW a \in Assets
          PROVE  UndisturbedRow(match[a], match'[a], tx[v].step = "evaluated")
      <4>1. CommittedRow(t.old.match[a], t.new.match[a], match[a], match'[a], t.step = "evaluated")
        BY <1>7, Zenon
      <4>2. ~(tx[v].step = "evaluated" /\ t.step = "evaluated")
        BY <1>1, <1>2, <1>18, <2>3 DEF Holders, Transaction
      <4>3. match[a] # None => match'[a] # None /\ match'[a].run = match[a].run
        BY <1>11, Zenon
      <4>4. match[a] # None /\ match'[a].outcome = "pending" => match[a].outcome = "pending"
        BY <4>1, Zenon DEF CommittedRow
      <4>5. match[a] = None /\ tx[v].step = "evaluated" => match'[a] = None
        BY <4>1, <4>2, Zenon DEF CommittedRow
      <4> QED
        BY <4>3, <4>4, <4>5, Zenon DEF UndisturbedRow
    <3>2. ASSUME NEW r \in Recorded(tx[v])
          PROVE  run'[r] = run[r] /\ (v = "daily" => scan'[r] = scan[r])
      <4>1. RecordedRun(tx[v], v, r, run[r], scan[r]) /\ r \in Runs
        BY <2>2, <2>3, Zenon DEF HeldInv, RecordedInv, Recorded
      <4>2. r \notin Recorded(t)
        <5> SUFFICES ASSUME r \in Recorded(t) PROVE FALSE
          BY Zenon
        <5>1. RecordedRun(t, w, r, run[r], scan[r])
          BY <1>9, Zenon
        <5>2. tx["finish"] # None /\ r = tx["finish"].scan /\ scan[r] \in Ends
          BY <1>2, <1>18, <2>3, <4>1, <5>1 DEF RecordedRun, Transaction
        <5>3. r # 0 /\ "active" \notin Ends
          BY <4>1 DEF Runs, Ends
        <5> QED
          BY <1>1, <5>2, <5>3, Zenon DEF Holders
      <4>3. v = "daily" => scan'[r] = scan[r]
        BY <1>5, <4>1, Zenon DEF RecordedRun
      <4> QED
        BY <1>8, <4>1, <4>2, <4>3, Zenon DEF CommittedRun
    <3> QED
      BY <1>2, <2>1, <3>1, <3>2, Zenon DEF Undisturbed
  <2> QED
    BY <2>1, <2>2, <2>3, HeldKept, Zenon
<1>19. EvaluationInv'
  <2>1. tx'[w] = None /\ HeldInv(w)'
    BY <1>6, Zenon DEF Writes, HeldInv
  <2>2. \A v \in Transaction : HeldInv(v)'
    BY <1>18, <2>1, Zenon
  <2>3. Holders'
    <3>1. CASE w = "finish"
      <4>1. tx'["daily"] = tx["daily"]
        BY <1>6, <3>1 DEF Writes, Sessions
      <4> QED
        BY <1>1, <2>1, <3>1, <4>1, Zenon DEF Holders
    <3>2. CASE w = "daily"
      <4>1. tx'["finish"] = tx["finish"] /\ scan' = scan
        BY <1>5, <1>6, <3>2 DEF Writes, Sessions
      <4> QED
        BY <1>1, <2>1, <3>2, <4>1, Zenon DEF Holders
    <3> QED
      BY <3>1, <3>2, Zenon DEF Transaction
  <2> QED
    BY <2>2, <2>3, Zenon DEF EvaluationInv, Holders
<1>20. RequestInv'
  <2> PICK q : q = tx["request"]
    BY Zenon
  <2>1. tx'["request"] = q
    BY <1>6 DEF Writes, Sessions, Transaction
  <2> SUFFICES ASSUME q # None PROVE RequestInv'
    BY <2>1, Zenon DEF RequestInv
  <2>2. \A x \in Runs : ~Active(x)
    BY <1>1, Zenon DEF RequestInv
  <2>3. \A x \in Runs : run'[x] = run[x]
    BY <1>8, <2>2, <1>10, Zenon DEF CommittedRun, Active
  <2>4. \A x \in Runs : ~Active(x)'
    BY <2>2, <2>3, Zenon DEF Active
  <2>5. Requested' = Requested
    BY <1>12, Zenon DEF Requested
  <2>6. q \in Request
    BY <1>1, Zenon DEF TxTyped
  <2>7. q.scan \in Runs /\ q.new.run \in [Runs -> Run \union {None}]
    BY <2>6 DEF Request, Rows
  <2>8. q.new.run[q.scan] # None
    BY <1>1, Zenon DEF RequestInv
  <2>9. q.new.run[q.scan].assets \subseteq Assets
    <3>1. q.new.run[q.scan] \in Run
      BY <2>7, <2>8, Zenon
    <3> QED
      BY <3>1 DEF Run
  <2>10. \A a \in q.new.run[q.scan].assets : match'[a] # None
    BY <1>1, <1>11, <2>9, Zenon DEF RequestInv
  <2>11. \A a \in Assets : AskedRow(q.old.match[a], q.new.match[a], match'[a], q.scan, q.new.run[q.scan].assets, a)
    BY <1>1, <1>11, Zenon DEF RequestInv, AskedRow
  <2> QED
    BY <1>1, <2>1, <2>4, <2>5, <2>10, <2>11, Zenon DEF RequestInv
<1>21. AnnouncedInv'
  <2> SUFFICES ASSUME NEW a \in Assets
               PROVE  announced'[a] <= 1 /\ (announced'[a] # 0 => match'[a] # None)
    BY Zenon DEF AnnouncedInv
  <2> DEFINE new == /\ t.step = "evaluated" /\ t.old.match[a] = None /\ t.new.match[a] # None
                    /\ t.new.match[a].assessment \in AFFECTED_ASSESSMENTS
  <2>1. announced'[a] = announced[a] + IF new THEN 1 ELSE 0
    BY Zenon DEF Commit
  <2>2. announced[a] \in Nat /\ announced[a] <= 1 /\ (announced[a] # 0 => match[a] # None)
    BY <1>1, Zenon DEF TypeOK, AnnouncedInv
  <2>3. new => match[a] = None /\ match'[a] # None
    BY <1>7, Zenon DEF CommittedRow
  <2>4. match[a] # None => match'[a] # None
    BY <1>11, Zenon
  <2> HIDE DEF new
  <2> QED
    BY <2>1, <2>2, <2>3, <2>4
<1> QED
  BY <1>14, <1>15, <1>16, <1>17, <1>19, <1>20, <1>21, Zenon DEF ThreatInv

\* The commit of a request: its run and its scan are active from now on.
LEMMA RequestCommitStep ==
  ASSUME ThreatInv, UNCHANGED setup, RequestCommit
  PROVE  ThreatInv'
<1> PICK q : q = tx["request"]
  BY Zenon
<1> PICK r : r = q.scan
  BY Zenon
<1> PICK A : A = q.new.run[r].assets
  BY Zenon
<1>1. TypeOK /\ TxTyped /\ Typed /\ RowsLinked /\ PendingInv /\ CleanInv /\ Holders /\ AnnouncedInv /\ RequestInv
  BY Zenon DEF ThreatInv, Typed, EvaluationInv, Holders
<1>2. /\ q # None /\ tx' = [tx EXCEPT !["request"] = None] /\ scan' = [scan EXCEPT ![r] = "active"]
      /\ match' = Merged(q).match /\ run' = Merged(q).run
      /\ UNCHANGED <<catalog, inventory, tested, hits, detected, others, announced>>
  BY Zenon DEF RequestCommit
<1>3. /\ \A x \in Runs : ~Active(x)
      /\ r = Cardinality(Requested) + 1 /\ q.old.run[r] = None
      /\ \A x \in Runs \ {r} : q.new.run[x] = q.old.run[x]
      /\ q.new.run[r] # None /\ q.new.run[r].status = "active"
      /\ \A a \in A : match[a] # None
      /\ \A a \in Assets : AskedRow(q.old.match[a], q.new.match[a], match[a], r, A, a)
  BY <1>1, <1>2, Zenon DEF RequestInv
<1>4. q \in Request
  BY <1>1, <1>2, Zenon DEF TxTyped
<1>5. q.old \in Rows /\ q.new \in Rows /\ r \in Runs
  BY <1>4 DEF Request
<1>6. run[r] = None
  BY <1>1, <1>3, <1>5, NextRun, Zenon
<1>7. IsMerge(q)
  <2>1. ASSUME NEW a \in Assets, q.old.match[a] # None
        PROVE  q.new.match[a] # None
    <3>1. AskedRow(q.old.match[a], q.new.match[a], match[a], r, A, a)
      BY <1>3, Zenon
    <3> QED
      BY <2>1, <3>1, Zenon DEF AskedRow
  <2>2. \A x \in Runs : q.old.run[x] # None => q.new.run[x] # None
    BY <1>3, Zenon
  <2>3. Keeps(q)
    BY <2>1, <2>2, Zenon DEF Keeps
  <2> QED
    BY <1>1, <1>5, <2>3, MergedRows, DBType, Zenon
<1>8. ASSUME NEW a \in Assets
      PROVE  \/ match'[a] = match[a]
             \/ match[a] # None /\ match'[a] \in Match /\ match'[a].run = r /\ match'[a].outcome = "pending" /\ a \in A
  <2>1. MergedMatch(q.old.match[a], q.new.match[a], match[a], match'[a])
    BY <1>2, <1>7, Zenon DEF IsMerge
  <2>2. AskedRow(q.old.match[a], q.new.match[a], match[a], r, A, a)
    BY <1>3, Zenon
  <2>3. CASE q.new.match[a] = q.old.match[a]
    BY <2>1, <2>3, Zenon DEF MergedMatch
  <2>4. CASE q.new.match[a] # q.old.match[a]
    BY <2>1, <2>2, <2>4, Zenon DEF MergedMatch, AskedRow
  <2> QED
    BY <2>3, <2>4, Zenon
<1>9. /\ \A x \in Runs \ {r} : run'[x] = run[x]
      /\ run'[r] = q.new.run[r]
  <2>1. \A x \in Runs : MergedRun(q.old.run[x], q.new.run[x], run[x], run'[x])
    BY <1>2, <1>7, Zenon DEF IsMerge
  <2> QED
    BY <1>3, <1>5, <1>6, <2>1, Zenon DEF MergedRun
<1>10. None \notin Match /\ None \notin Run
  BY ThreatCenterAssumption, Zenon
<1>11. \A a \in Assets : match'[a] # None <=> match[a] # None
  BY <1>8, <1>10, Zenon
<1>12. scan'[r] = "active" /\ (\A x \in Runs \ {r} : scan'[x] = scan[x])
       /\ scan' \in [Runs -> {"none", "active", "clean", "unclear", "failed", "cancelled"}]
  <2> DEFINE S == {"none", "active", "clean", "unclear", "failed", "cancelled"}
  <2>1. scan \in [Runs -> S] /\ "active" \in S
    BY <1>1, Zenon DEF TypeOK
  <2> HIDE DEF S
  <2>2. scan'[r] = "active" /\ (\A x \in Runs \ {r} : scan'[x] = scan[x]) /\ scan' \in [Runs -> S]
    BY <1>2, <1>5, <2>1, Zenon
  <2> QED
    BY <2>2, Zenon DEF S
<1>13. \A x \in Runs : scan[x] # "active"
  BY <1>1, <1>3, Zenon DEF RowsLinked
<1>14. Writes("request", None) /\ "request" \in Sessions
  <2>1. "request" \in Sessions
    BY DEF Sessions
  <2> QED
    BY <1>1, <1>2, <2>1, TxWritten, Zenon
<1>15. Typed'
  <2>1. match' \in [Assets -> Match \union {None}] /\ run' \in [Runs -> Run \union {None}]
    <3>1. Merged(q) \in Rows
      BY <1>7, Zenon DEF IsMerge
    <3> QED
      BY <1>2, <3>1 DEF Rows
  <2>2. TypeOK'
    BY <1>1, <1>2, <1>12, <2>1, Zenon DEF TypeOK, catalog, inventory
  <2>3. TxValue("request", None)
    BY Zenon DEF TxValue
  <2> QED
    BY <1>1, <1>14, <2>2, <2>3, TxTypedKept, Zenon DEF Typed
<1>16. ASSUME NEW a \in Assets, match[a] # None, match[a].run # 0
       PROVE  match[a].run \in Runs \ {r} /\ run[match[a].run] # None /\ a \in run[match[a].run].assets
  <2>1. match[a] \in Match
    BY <1>1, <1>16, Zenon DEF TypeOK
  <2>2. match[a].run \in Runs \union {0}
    BY <2>1 DEF Match
  <2> QED
    BY <1>1, <1>6, <1>16, <2>2, Zenon DEF RowsLinked
<1>17. RowsLinked'
  <2>1. ASSUME NEW a \in Assets, match'[a] # None, match'[a].run # 0
        PROVE  run'[match'[a].run] # None /\ a \in run'[match'[a].run].assets
    <3>1. CASE match'[a] = match[a]
      BY <1>9, <1>16, <2>1, <3>1, Zenon
    <3>2. CASE match'[a] # match[a]
      BY <1>3, <1>8, <1>9, <3>2, Zenon
    <3> QED
      BY <3>1, <3>2, Zenon
  <2>2. ASSUME NEW x \in Runs, run'[x] # None, NEW a \in run'[x].assets
        PROVE  match'[a] # None
    <3>1. match[a] # None
      BY <1>1, <1>3, <1>9, <2>2, Zenon DEF RowsLinked
    <3>2. a \in Assets
      <4>1. run'[x] \in Run
        BY <1>15, <2>2, Zenon DEF Typed, TypeOK
      <4> QED
        BY <2>2, <4>1 DEF Run
    <3> QED
      BY <1>11, <3>1, <3>2, Zenon
  <2>3. ASSUME NEW x \in Runs, scan'[x] = "active"
        PROVE  Active(x)'
    <3>1. x = r
      BY <1>12, <1>13, <2>3, Zenon
    <3> QED
      BY <1>3, <1>9, <3>1, Zenon DEF Active
  <2>4. \A x \in Runs : hits'[x] \subseteq detected'[x]
    BY <1>1, <1>2, Zenon DEF RowsLinked
  <2>5. Requested' = 1..Cardinality(Requested')
    <3> PICK k : k = Cardinality(Requested)
      BY Zenon
    <3>1. k \in Nat /\ Requested = 1..k /\ r = k + 1
      BY <1>1, <1>3, NextRun, Zenon DEF RowsLinked
    <3>2. Requested' = Requested \union {r}
      BY <1>3, <1>5, <1>9, Zenon DEF Requested
    <3>3. Requested' = 1..(k + 1)
      <4>1. k \in Nat
        BY <3>1, Zenon
      <4>2. (1..k) \union {k + 1} = 1..(k + 1)
        BY <4>1
      <4> QED
        BY <3>1, <3>2, <4>2, Zenon
    <3>4. Cardinality(1..(k + 1)) = k + 1
      <4>1. Cardinality(1..(k + 1)) = IF 1 > k + 1 THEN 0 ELSE (k + 1) - 1 + 1
        <5>1. 1 \in Int /\ k + 1 \in Int
          BY <3>1
        <5> QED
          BY <5>1, FS_Interval
      <4> QED
        BY <3>1, <4>1
    <3> QED
      BY <3>3, <3>4, Zenon
  <2> QED
    BY <2>1, <2>2, <2>3, <2>4, <2>5, Zenon DEF RowsLinked
<1>18. PendingInv'
  <2> SUFFICES ASSUME NEW a \in Assets, match'[a] # None, match'[a].outcome = "pending"
               PROVE  match'[a].run # 0 /\ run'[match'[a].run] # None /\ run'[match'[a].run].status = "active"
    BY Zenon DEF PendingInv, Active
  <2>1. match'[a] # match[a]
    <3> SUFFICES ASSUME match'[a] = match[a] PROVE FALSE
      BY Zenon
    <3>1. match[a] # None /\ match[a].outcome = "pending"
      BY Zenon
    <3>2. match[a].run # 0 /\ Active(match[a].run)
      BY <1>1, <3>1, Zenon DEF PendingInv
    <3> QED
      BY <1>3, <1>16, <3>1, <3>2, Zenon
  <2>2. r # 0
    BY <1>5 DEF Runs
  <2> QED
    BY <1>3, <1>8, <1>9, <2>1, <2>2, Zenon
<1>19. CleanInv'
  <2> SUFFICES ASSUME NEW a \in Assets, match'[a] # None, match'[a].outcome = "not_detected"
               PROVE  LET x == match'[a].run
                      IN  x # 0 /\ scan'[x] \in Ends /\ (hits'[x] = detected'[x] => scan'[x] = "clean" /\ a \in tested'[x] \ detected'[x])
    BY Zenon DEF CleanInv, Clean
  <2>1. match'[a] = match[a]
    BY <1>8, Zenon
  <2> PICK x : x = match[a].run
    BY Zenon
  <2>2. x # 0 /\ scan[x] \in Ends /\ Clean(x, a)
    BY <1>1, <2>1, Zenon DEF CleanInv
  <2>3. x \in Runs \ {r}
    BY <1>16, <2>1, <2>2, Zenon
  <2> QED
    BY <1>2, <1>12, <2>1, <2>2, <2>3, Zenon DEF Clean
<1>20. ASSUME NEW w \in Transaction, tx[w] # None
       PROVE  Recorded(tx[w]) = {}
  <2> SUFFICES ASSUME NEW x \in Recorded(tx[w]) PROVE FALSE
    BY Zenon
  <2>1. HeldInv(w)
    BY Zenon DEF ThreatInv, EvaluationInv
  <2>2. RecordedRun(tx[w], w, x, run[x], scan[x]) /\ x \in Runs
    BY <1>20, <2>1, Zenon DEF HeldInv, RecordedInv, Recorded
  <2> QED
    BY <1>3, <2>2, Zenon DEF RecordedRun, Active
<1>21. ASSUME NEW w \in Transaction
       PROVE  tx'[w] = tx[w] /\ HeldInv(w)'
  <2>1. tx'[w] = tx[w]
    BY <1>14 DEF Writes, Sessions, Transaction
  <2>2. HeldInv(w)
    BY Zenon DEF ThreatInv, EvaluationInv
  <2> SUFFICES ASSUME tx[w] # None PROVE HeldInv(w)'
    BY <2>1, Zenon DEF HeldInv
  <2> PICK t : t = tx[w]
    BY Zenon
  <2>3. ReadInv(t) /\ OutcomeInv(t, w) /\ Recorded(t) = {}
    BY <1>20, <2>2, Zenon DEF HeldInv
  <2>4. ASSUME NEW a \in Assets
        PROVE  ReadRow(t.old.match[a], t.new.match[a], match'[a], t.step = "evaluated") /\ (a \in t.loaded => t.old.match[a] # None)
    BY <1>11, <2>3, Zenon DEF ReadInv, ReadRow
  <2>5. \A a \in Assets : ~Judged(t.old.match[a], t.new.match[a])
    BY <2>3, Zenon DEF OutcomeInv
  <2> QED
    BY <2>1, <2>3, <2>4, <2>5, Zenon DEF HeldInv, ReadInv, RecordedInv, OutcomeInv
<1>22. EvaluationInv'
  <2>1. tx'["finish"] = tx["finish"] /\ tx'["daily"] = tx["daily"]
    BY <1>21, Zenon DEF Transaction
  <2>2. tx["finish"] # None => tx["finish"].scan = 0
    <3>1. tx["finish"] # None => tx["finish"].scan \in Runs \union {0}
      <4>1. tx["finish"] # None => tx["finish"] \in Evaluation
        BY <1>1, Zenon DEF TxTyped, Transaction
      <4> QED
        BY <4>1 DEF Evaluation
    <3> QED
      BY <1>1, <1>13, <3>1, Zenon DEF Holders
  <2> QED
    BY <1>1, <1>21, <2>1, <2>2, Zenon DEF EvaluationInv, Holders
<1>23. RequestInv'
  BY <1>14, Zenon DEF RequestInv, Writes
<1>24. AnnouncedInv'
  BY <1>1, <1>2, <1>11, Zenon DEF AnnouncedInv
<1> QED
  BY <1>15, <1>17, <1>18, <1>19, <1>22, <1>23, <1>24, Zenon DEF ThreatInv

\* The invariant holds initially.
LEMMA ThreatInit ==
  ASSUME Init
  PROVE  ThreatInv
<1>1. TypeOK
  <2>1. MaxVersion \in Nat \ {0} /\ Asks # {}
    BY ThreatCenterAssumption, Zenon
  <2>2. draft \in 0..MaxVersion /\ published \in 0..MaxVersion
    BY <2>1 DEF Init
  <2>3. content \in [Versions -> Asks]
    <3>1. (CHOOSE ask \in Asks : TRUE) \in Asks
      BY <2>1, Zenon
    <3> QED
      BY <3>1, Zenon DEF Init
  <2>4. seen \in [Assets -> Inventories]
    BY ThreatCenterAssumption, Zenon DEF Init
  <2>5. setup \in Setups /\ others \in Nat
    <3>1. setup \in [changes : SUBSET Changes, runs : Runs, others : Nat]
      BY ThreatCenterAssumption, Zenon DEF Init
    <3> QED
      BY <3>1 DEF Init
  <2>6. announced \in [Assets -> Nat]
    BY DEF Init
  <2>7. /\ match \in [Assets -> Match \union {None}] /\ run \in [Runs -> Run \union {None}]
        /\ tested \in [Runs -> SUBSET Assets] /\ hits \in [Runs -> SUBSET Assets] /\ detected \in [Runs -> SUBSET Assets]
        /\ found \subseteq Assets \X Asks /\ archived \in BOOLEAN
    BY Zenon DEF Init
  <2>8. scan \in [Runs -> {"none", "active", "clean", "unclear", "failed", "cancelled"}]
    BY DEF Init
  <2> QED
    BY <2>2, <2>3, <2>4, <2>5, <2>6, <2>7, <2>8, Zenon DEF TypeOK
<1>2. DOMAIN tx = Sessions /\ \A w \in Sessions : tx[w] = None
  BY Zenon DEF Init, Sessions
<1>3. tx["finish"] = None /\ tx["daily"] = None /\ tx["request"] = None /\ tx["editor"] = None
  BY <1>2, Zenon DEF Sessions
<1>4. TxTyped
  BY <1>2, <1>3, Zenon DEF TxTyped, Transaction, Sessions
<1>5. (\A a \in Assets : match[a] = None) /\ (\A r \in Runs : run[r] = None /\ scan[r] = "none" /\ hits[r] = {})
  BY Zenon DEF Init
<1>6. RowsLinked
  <2>1. Requested = {}
    BY <1>5, Zenon DEF Requested
  <2>2. Cardinality(Requested) = 0
    BY <2>1, FS_EmptySet
  <2>3. Requested = 1..Cardinality(Requested)
    BY <2>1, <2>2
  <2>4. \A r \in Runs : scan[r] # "active"
    BY <1>5
  <2> QED
    BY <1>5, <2>3, <2>4, Zenon DEF RowsLinked
<1>7. PendingInv /\ CleanInv
  BY <1>5, Zenon DEF PendingInv, CleanInv
<1>8. EvaluationInv /\ RequestInv
  BY <1>3, Zenon DEF EvaluationInv, HeldInv, RequestInv, Transaction
<1>9. AnnouncedInv
  BY DEF Init, AnnouncedInv
<1> QED
  BY <1>1, <1>4, <1>6, <1>7, <1>8, <1>9, Zenon DEF ThreatInv, Typed

\* Every step keeps it.
LEMMA ThreatNext ==
  ASSUME ThreatInv, [Next]_vars
  PROVE  ThreatInv'
<1>1. CASE Next
  BY <1>1, QuietActions, FinishStep, FinishOtherStep, ReconcileStep, EvaluateStep, CommitStep, AbortStep, RequestStep,
     RequestCommitStep, Zenon DEF Next
<1>2. CASE UNCHANGED vars
  <2>1. Typed'
    <3>1. Typed
      BY Zenon DEF ThreatInv
    <3> QED
      BY <1>2, <3>1, Zenon DEF Typed, TypeOK, TxTyped, vars, catalog, inventory, tables, scans
  <2>2. Quiet
    BY <1>2 DEF Quiet, vars, tables, scans
  <2> QED
    BY <2>1, <2>2, QuietStep, Zenon
<1> QED
  BY <1>1, <1>2, Zenon

\* The inductive invariant of the Threat Center.
LEMMA ThreatInvariant == Spec => []ThreatInv
<1>1. Init => ThreatInv
  BY ThreatInit, Zenon
<1>2. ThreatInv /\ [Next]_vars => ThreatInv'
  BY ThreatNext, Zenon
<1> QED
  BY <1>1, <1>2, PTL DEF Spec

\* For any assets, versions and checks: a match waits only for a run that is still active,
\* whatever requests, ends of scans, repairs and evaluations interleave (sync_check_run).
THEOREM PendingIsAwaited == Spec => []PendingHasRun
<1>1. ThreatInv => PendingHasRun
  BY Zenon DEF ThreatInv, PendingInv, PendingHasRun
<1> QED
  BY <1>1, ThreatInvariant, PTL

\* For any assets, versions and checks: "not detected" says that the asset's last check ended
\* cleanly, tested the asset and found nothing, unless a later scan took a finding over (sync_check_run).
THEOREM NotDetectedIsClean == Spec => []NotDetectedMeansClean
<1>1. ThreatInv => NotDetectedMeansClean
  BY Zenon DEF ThreatInv, CleanInv, Clean, NotDetectedMeansClean
<1> QED
  BY <1>1, ThreatInvariant, PTL

\* For any assets, versions and checks: overlapping evaluations announce an asset at most
\* once (_match_event under the advisory lock of evaluate_org).
THEOREM AnnouncedAtMostOnce == Spec => []AnnouncedOnce
<1>1. ThreatInv => AnnouncedOnce
  BY Zenon DEF ThreatInv, AnnouncedInv, AnnouncedOnce
<1> QED
  BY <1>1, ThreatInvariant, PTL
=============================================================================
