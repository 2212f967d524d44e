---------------------------- MODULE StageLedger -----------------------------
(***************************************************************************)
(* What the scan pipeline promises about the work of a scan, whatever its  *)
(* queues, workers and database transactions do: the stages of a scan are  *)
(* worked on one at a time and in order, a stage's outcome is applied to   *)
(* the inventory at most once, and a closed stage stays closed.            *)
(***************************************************************************)
EXTENDS Naturals

CONSTANTS Scans, Positions

VARIABLE phase   \* <<scan, position>> -> how far the work on that stage is

Phases == {"waiting", "working", "applied", "closed"}
Open == {"waiting", "working"}

Init == phase = [p \in Scans \X Positions |-> "waiting"]

\* Work starts on stage i; the stages passed over are closed without work.
Start(s, i) ==
    /\ phase[<<s, i>>] = "waiting"
    /\ \A k \in Positions : phase[<<s, k>>] # "working"
    /\ phase' = [p \in Scans \X Positions |->
                   IF p = <<s, i>> THEN "working"
                   ELSE IF p[1] = s /\ p[2] < i /\ phase[p] = "waiting" THEN "closed"
                   ELSE phase[p]]

\* The outcome of the work is applied.
Apply(s, i) ==
    /\ phase[<<s, i>>] = "working"
    /\ phase' = [phase EXCEPT ![<<s, i>>] = "applied"]

\* Open stages are given up: failed, skipped or cancelled.
Close ==
    /\ \A p \in Scans \X Positions : phase'[p] = phase[p] \/ (phase[p] \in Open /\ phase'[p] = "closed")
    /\ phase' \in [Scans \X Positions -> Phases]

Next == (\E s \in Scans : \E i \in Positions : Start(s, i) \/ Apply(s, i)) \/ Close

Spec == Init /\ [][Next]_phase
=============================================================================
