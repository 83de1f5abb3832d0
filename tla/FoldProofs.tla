----------------------------- MODULE FoldProofs -----------------------------
(***************************************************************************)
(* Proofs about Fold, for every --stall-after, every cluster and every     *)
(* order of the controllers' changes.                                      *)
(***************************************************************************)
EXTENDS Fold, TLAPS

USE DEF Infrastructure, ControlPlane, Workers, Addons, Phase

\* No report is newer than the last change of its phase, and a condition that is
\* there has a time.
FoldInv ==
    /\ FactsOK
    /\ \A p \in Phase :
          /\ own[p] <= changed[p]
          /\ \A c \in ConditionsOf(p) :
                /\ cond[c].at <= changed[p]
                /\ Present(c) => cond[c].at # 0

-----------------------------------------------------------------------------
(* The clock of a phase.                                                   *)

\* Which conditions of the Cluster each phase has.
LEMMA ConditionsByPhase ==
    /\ ConditionsOf(1) = {"InfrastructureReady", "TopologyReconciled"}
    /\ ConditionsOf(2) = {"ControlPlaneInitialized", "ControlPlaneAvailable"}
    /\ ConditionsOf(3) = {"WorkersAvailable"}
    /\ ConditionsOf(4) = {}
BY DEF ConditionsOf

\* A condition belongs to one phase.
LEMMA ConditionsApart ==
    ASSUME NEW p \in Phase, NEW q \in Phase, p # q, NEW c \in ConditionsOf(p)
    PROVE  c \in Conditions /\ c \notin ConditionsOf(q)
<1>1. p \in {1, 2, 3, 4} /\ q \in {1, 2, 3, 4}
  OBVIOUS
<1>2. c \notin ConditionsOf(q)
  BY <1>1, ConditionsByPhase
<1> QED
  BY <1>2 DEF Conditions

\* A phase's conditions are among those of the Cluster that Fold knows.
LEMMA ConditionOfPhase ==
    ASSUME NEW p \in Phase
    PROVE  ConditionsOf(p) \subseteq Conditions
BY DEF Conditions

\* The clock shows the latest of the times the phase has seen.
LEMMA ClockIsLatest ==
    ASSUME FactsOK, NEW p \in Phase
    PROVE  /\ LastTransition(p) \in 0 .. now
           /\ own[p] <= LastTransition(p)
           /\ \A c \in ConditionsOf(p) : cond[c].at <= LastTransition(p)
           /\ \/ LastTransition(p) = own[p]
              \/ \E c \in ConditionsOf(p) : LastTransition(p) = cond[c].at
<1>1. own[p] \in 0 .. now /\ now \in Nat
  BY DEF FactsOK
<1>2. \A c \in ConditionsOf(p) : cond[c].at \in 0 .. now
  BY ConditionOfPhase DEF FactsOK
<1>3. Seen(p) \subseteq 0 .. now /\ own[p] \in Seen(p)
  BY <1>1, <1>2 DEF Seen
<1>4. \E t \in Seen(p) : \A u \in Seen(p) : u <= t
  <2>1. CASE p = 1
    <3> DEFINE a == cond["InfrastructureReady"].at
               b == cond["TopologyReconciled"].at
    <3>1. Seen(p) = {a, b, own[p]} /\ a \in Int /\ b \in Int /\ own[p] \in Int
      BY <1>1, <1>2, <2>1, ConditionsByPhase DEF Seen
    <3> QED
      BY <3>1
  <2>2. CASE p = 2
    <3> DEFINE a == cond["ControlPlaneInitialized"].at
               b == cond["ControlPlaneAvailable"].at
    <3>1. Seen(p) = {a, b, own[p]} /\ a \in Int /\ b \in Int /\ own[p] \in Int
      BY <1>1, <1>2, <2>2, ConditionsByPhase DEF Seen
    <3> QED
      BY <3>1
  <2>3. CASE p = 3
    <3> DEFINE a == cond["WorkersAvailable"].at
    <3>1. Seen(p) = {a, own[p]} /\ a \in Int /\ own[p] \in Int
      BY <1>1, <1>2, <2>3, ConditionsByPhase DEF Seen
    <3> QED
      BY <3>1
  <2>4. CASE p = 4
    <3>1. Seen(p) = {own[p]}
      BY <2>4, ConditionsByPhase DEF Seen
    <3> QED
      BY <1>1, <3>1
  <2> QED
    BY <2>1, <2>2, <2>3, <2>4
<1>5. LastTransition(p) \in Seen(p) /\ \A u \in Seen(p) : u <= LastTransition(p)
  BY <1>4 DEF LastTransition
<1> QED
  BY <1>3, <1>5 DEF Seen

\* Without regard to time a phase is one of three things.
LEMMA UnstalledType ==
    ASSUME NEW p \in Phase
    PROVE  Unstalled(p) \in {"pending", "running", "done"}
<1>1. p \in {1, 2, 3, 4}
  OBVIOUS
<1>2. FoldInfrastructure \in {"pending", "running", "done"}
  BY DEF FoldInfrastructure
<1>3. FoldControlPlane \in {"pending", "running", "done"}
  BY DEF FoldControlPlane
<1>4. FoldWorkers \in {"pending", "running", "done"}
  BY DEF FoldWorkers
<1>5. FoldAddons \in {"pending", "running", "done"}
  BY DEF FoldAddons
<1> QED
  BY <1>1, <1>2, <1>3, <1>4, <1>5 DEF Unstalled

\* A stall is a running frontier; nothing else about a phase is changed by time.
LEMMA StateIsUnstalled ==
    ASSUME NEW p \in Phase
    PROVE  /\ State(p) \in {"pending", "running", "done", "stalled"}
           /\ State(p) = "done" <=> Unstalled(p) = "done"
           /\ State(p) = "stalled" <=>
                Unstalled(p) = "running" /\ IsFrontier(p) /\ StallDue(p)
           /\ State(p) \in {"running", "stalled"} <=> Unstalled(p) = "running"
BY UnstalledType DEF State

\* A phase starts at the creation or at the last transition of an earlier one.
LEMMA StartIsInThePast ==
    ASSUME FoldInv, NEW p \in Phase
    PROVE  StartedAt(p) \in 1 .. now
<1> DEFINE before == {q \in Phase : q < p /\ Ended(q)}
<1>1. FactsOK /\ now \in Nat \ {0}
  BY DEF FoldInv, FactsOK
<1>2. CASE before = {}
  <2>1. StartedAt(p) = 1
    BY <1>2 DEF StartedAt
  <2> QED
    BY <1>1, <2>1
<1>3. CASE before # {}
  <2>1. \E q \in before : \A r \in before : r <= q
    <3>1. before \subseteq {1, 2, 3, 4}
      OBVIOUS
    <3>2. CASE 4 \in before
      BY <3>1, <3>2
    <3>3. CASE 4 \notin before /\ 3 \in before
      BY <3>1, <3>3
    <3>4. CASE 4 \notin before /\ 3 \notin before /\ 2 \in before
      BY <3>1, <3>4
    <3>5. CASE 4 \notin before /\ 3 \notin before /\ 2 \notin before
      BY <1>3, <3>1, <3>5
    <3> QED
      BY <3>2, <3>3, <3>4, <3>5
  <2>2. PICK q \in before : StartedAt(p) = LastTransition(q)
    BY <1>3, <2>1 DEF StartedAt
  <2>3. LastTransition(q) \in 0 .. now /\ LastTransition(q) # 0
    BY <1>1, <2>2, ClockIsLatest DEF Ended
  <2> QED
    BY <1>1, <2>2, <2>3
<1> QED
  BY <1>2, <1>3

\* A phase ends by now, and only a phase that is done has ended before.
LEMMA EndIsInThePast ==
    ASSUME FoldInv, NEW p \in Phase
    PROVE  /\ End(p) \in 1 .. now
           /\ Unstalled(p) # "done" => End(p) = now
<1>1. FactsOK /\ now \in Nat \ {0}
  BY DEF FoldInv, FactsOK
<1> QED
  BY <1>1, ClockIsLatest DEF End, Ended

-----------------------------------------------------------------------------
(* The controllers.                                                        *)

\* A cluster found at any stage of its life has no report newer than the finding.
LEMMA FoldInvInit == Init => FoldInv
<1> SUFFICES ASSUME Init PROVE FoldInv
  OBVIOUS
<1>1. now = 1 /\ changed = [p \in Phase |-> 1]
  BY DEF Init
<1>2. PICK stage \in 0 .. 4 :
        /\ cond = FoundAt(stage)
        /\ own = [p \in Phase |-> IF stage # 0 /\ p # Addons THEN 1 ELSE 0]
        /\ cpRef = (stage # 0)
  BY DEF Init
<1>3. \A c \in Conditions : cond[c] \in {Since("True", 1), Since("False", 1), Absent}
  BY <1>2 DEF FoundAt
<1>4. cond \in [Conditions -> [status : {"absent", "False", "True"}, at : 0 .. now]]
  <2>1. {Since("True", 1), Since("False", 1), Absent}
            \subseteq [status : {"absent", "False", "True"}, at : 0 .. now]
    BY <1>1 DEF Since, Absent
  <2>2. DOMAIN cond = Conditions /\ cond = [c \in Conditions |-> cond[c]]
    BY <1>2 DEF FoundAt
  <2> QED
    BY <1>3, <2>1, <2>2
<1>5. own \in [Phase -> 0 .. now] /\ own[4] = 0 /\ \A p \in Phase : own[p] <= 1
  BY <1>1, <1>2
<1>6. FactsOK
  <2>1. rollup \in [Sections -> Counts] /\ counters \in [Sections -> Counts]
    BY DEF Init, Zero, Counts
  <2>2. applied \in [bindings : BOOLEAN, applied : Nat, total : Nat]
    <3>1. PICK t \in {0, 1} : applied = [bindings |-> t = 1, applied |-> 0, total |-> t]
      BY DEF Init
    <3>2. (t = 1) \in BOOLEAN /\ 0 \in Nat /\ t \in Nat
      OBVIOUS
    <3> QED
      BY <3>1, <3>2
  <2>3. changed \in [Phase -> 1 .. now]
    BY <1>1
  <2>4. /\ provisioned \in BOOLEAN /\ cpRef \in BOOLEAN /\ hosted \in BOOLEAN
        /\ pools \in BOOLEAN /\ changes \in Nat
    BY <1>2 DEF Init
  <2> QED
    BY <1>1, <1>4, <1>5, <2>1, <2>2, <2>3, <2>4 DEF FactsOK
<1>7. \A p \in Phase, c \in Conditions :
         cond[c].at <= changed[p] /\ (Present(c) => cond[c].at # 0)
  BY <1>1, <1>3 DEF Since, Absent, Present
<1> QED
  BY <1>1, <1>5, <1>6, <1>7, ConditionOfPhase DEF FoldInv

\* What a change records, and what it leaves alone.
LEMMA ChangeRecords ==
    ASSUME FactsOK, NEW p \in Phase, Change(p)
    PROVE  /\ now' = now /\ hosted' = hosted /\ changes' \in Nat
           /\ changed' \in [Phase -> 1 .. now]
           /\ changed'[p] = now
           /\ \A q \in Phase : changed[q] <= changed'[q]
BY DEF FactsOK, Change

\* A condition that flips is as new as the change of its phase.
LEMMA FlipConditionKeepsFoldInv ==
    ASSUME FoldInv, NEW p \in Phase, NEW c \in ConditionsOf(p),
           NEW status \in {"False", "True"}, FlipCondition(p, c, status)
    PROVE  FoldInv'
<1>1. FactsOK /\ now \in Nat \ {0}
  BY DEF FoldInv, FactsOK
<1>2. Change(p) /\ UNCHANGED <<own, provisioned, cpRef, rollup, counters, pools, applied>>
  BY DEF FlipCondition
<1>3. /\ now' = now /\ hosted' = hosted /\ changes' \in Nat
      /\ changed' \in [Phase -> 1 .. now] /\ changed'[p] = now
      /\ \A q \in Phase : changed[q] <= changed'[q]
  BY <1>1, <1>2, ChangeRecords
<1>4. c \in Conditions
  BY ConditionOfPhase
<1>5. /\ cond' \in [Conditions -> [status : {"absent", "False", "True"}, at : 0 .. now]]
      /\ cond'[c].at = now
      /\ \A d \in Conditions : d # c => cond'[d] = cond[d]
  BY <1>1, <1>4 DEF FlipCondition, FactsOK, Since
<1>6. FactsOK'
  BY <1>1, <1>2, <1>3, <1>5 DEF FactsOK
<1>7. ASSUME NEW q \in Phase PROVE own'[q] <= changed'[q]
  <2>1. own[q] <= changed[q] /\ own[q] \in Int /\ changed[q] \in Int /\ changed'[q] \in Int
    BY <1>1, <1>3 DEF FoldInv, FactsOK
  <2> QED
    BY <1>2, <1>3, <2>1
<1>8. ASSUME NEW q \in Phase, NEW d \in ConditionsOf(q)
      PROVE  cond'[d].at <= changed'[q] /\ (cond'[d].status # "absent" => cond'[d].at # 0)
  <2>1. CASE d = c
    <3>1. q = p
      BY <2>1, ConditionsApart
    <3> QED
      BY <1>1, <1>3, <1>5, <2>1, <3>1
  <2>2. CASE d # c
    <3>1. cond'[d] = cond[d]
      BY <1>5, <2>2, ConditionOfPhase
    <3>2. cond[d].at <= changed[q] /\ (cond[d].status # "absent" => cond[d].at # 0)
      BY DEF FoldInv, Present
    <3>3. cond[d].at \in Int /\ changed[q] \in Int /\ changed'[q] \in Int
      BY <1>1, <1>3, ConditionOfPhase DEF FactsOK
    <3> QED
      BY <1>3, <3>1, <3>2, <3>3
  <2> QED
    BY <2>1, <2>2
<1> QED
  BY <1>6, <1>7, <1>8 DEF FoldInv, Present

\* So is an object of the phase that reports.
LEMMA FlipOwnKeepsFoldInv ==
    ASSUME FoldInv, NEW p \in Phase, FlipOwn(p)
    PROVE  FoldInv'
<1>1. FactsOK /\ now \in Nat \ {0}
  BY DEF FoldInv, FactsOK
<1>2. /\ Change(p) /\ p # 4 /\ own' = [own EXCEPT ![p] = now]
      /\ UNCHANGED <<cond, provisioned, cpRef, rollup, counters, pools, applied>>
  BY DEF FlipOwn
<1>3. /\ now' = now /\ hosted' = hosted /\ changes' \in Nat
      /\ changed' \in [Phase -> 1 .. now] /\ changed'[p] = now
      /\ \A q \in Phase : changed[q] <= changed'[q]
  BY <1>1, <1>2, ChangeRecords
<1>4. /\ own' \in [Phase -> 0 .. now] /\ own'[4] = 0 /\ own'[p] = now
      /\ \A q \in Phase : q # p => own'[q] = own[q]
  BY <1>1, <1>2 DEF FactsOK
<1>5. FactsOK'
  BY <1>1, <1>2, <1>3, <1>4 DEF FactsOK
<1>6. ASSUME NEW q \in Phase PROVE own'[q] <= changed'[q]
  <2>1. own[q] <= changed[q] /\ own[q] \in Int /\ changed[q] \in Int /\ changed'[q] \in Int
    BY <1>1, <1>3 DEF FoldInv, FactsOK
  <2> QED
    BY <1>1, <1>3, <1>4, <2>1
<1>7. ASSUME NEW q \in Phase, NEW d \in ConditionsOf(q)
      PROVE  cond'[d].at <= changed'[q] /\ (cond'[d].status # "absent" => cond'[d].at # 0)
  <2>1. cond[d].at <= changed[q] /\ (cond[d].status # "absent" => cond[d].at # 0)
    BY DEF FoldInv, Present
  <2>2. cond[d].at \in Int /\ changed[q] \in Int /\ changed'[q] \in Int
    BY <1>1, <1>3, ConditionOfPhase DEF FactsOK
  <2> QED
    BY <1>2, <1>3, <2>1, <2>2
<1> QED
  BY <1>5, <1>6, <1>7 DEF FoldInv, Present

\* A step that moves no report forward keeps every report in its place.
LEMMA NoReportKeepsFoldInv ==
    ASSUME FoldInv, FactsOK', UNCHANGED <<cond, own>>,
           \A q \in Phase : changed[q] <= changed'[q]
    PROVE  FoldInv'
<1>1. ASSUME NEW q \in Phase PROVE own'[q] <= changed'[q]
  <2>1. /\ own[q] <= changed[q] /\ changed[q] <= changed'[q]
        /\ own[q] \in Int /\ changed[q] \in Int /\ changed'[q] \in Int
    BY DEF FoldInv, FactsOK
  <2> QED
    BY <2>1
<1>2. ASSUME NEW q \in Phase, NEW d \in ConditionsOf(q)
      PROVE  cond'[d].at <= changed'[q] /\ (cond'[d].status # "absent" => cond'[d].at # 0)
  <2>1. /\ cond[d].at <= changed[q] /\ (cond[d].status # "absent" => cond[d].at # 0)
        /\ changed[q] <= changed'[q]
    BY DEF FoldInv, Present
  <2>2. cond[d].at \in Int /\ changed[q] \in Int /\ changed'[q] \in Int
    BY ConditionOfPhase DEF FoldInv, FactsOK
  <2> QED
    BY <2>1, <2>2
<1> QED
  BY <1>1, <1>2 DEF FoldInv, Present

\* Whatever the controllers do, reports stay behind the changes they are reports of.
LEMMA NextKeepsFoldInv == FoldInv /\ [Next]_vars => FoldInv'
<1> SUFFICES ASSUME FoldInv, [Next]_vars PROVE FoldInv'
  OBVIOUS
<1>1. FactsOK /\ now \in Nat \ {0}
  BY DEF FoldInv, FactsOK
<1>2. ASSUME NEW p \in Phase, NEW c \in ConditionsOf(p), NEW status \in {"False", "True"},
             FlipCondition(p, c, status)
      PROVE  FoldInv'
  BY <1>2, FlipConditionKeepsFoldInv
<1>3. ASSUME NEW p \in Phase, FlipOwn(p)
      PROVE  FoldInv'
  BY <1>3, FlipOwnKeepsFoldInv
<1>4. CASE Provision
  <2>1. Change(1) /\ UNCHANGED <<cond, own, cpRef, rollup, counters, pools, applied>>
        /\ provisioned' = TRUE
    BY <1>4 DEF Provision
  <2>2. FactsOK' /\ \A q \in Phase : changed[q] <= changed'[q]
    BY <1>1, <2>1, ChangeRecords DEF FactsOK
  <2> QED
    BY <2>1, <2>2, NoReportKeepsFoldInv
<1>5. CASE SetControlPlaneRef
  <2>1. Change(2) /\ UNCHANGED <<cond, own, provisioned, rollup, counters, pools, applied>>
        /\ cpRef' = TRUE
    BY <1>5 DEF SetControlPlaneRef
  <2>2. FactsOK' /\ \A q \in Phase : changed[q] <= changed'[q]
    BY <1>1, <2>1, ChangeRecords DEF FactsOK
  <2> QED
    BY <2>1, <2>2, NoReportKeepsFoldInv
<1>6. CASE AddPool
  <2>1. Change(3) /\ UNCHANGED <<cond, own, provisioned, cpRef, rollup, counters, applied>>
        /\ pools' = TRUE
    BY <1>6 DEF AddPool
  <2>2. FactsOK' /\ \A q \in Phase : changed[q] <= changed'[q]
    BY <1>1, <2>1, ChangeRecords DEF FactsOK
  <2> QED
    BY <2>1, <2>2, NoReportKeepsFoldInv
<1>7. CASE Apply
  <2>1. Change(4) /\ UNCHANGED <<cond, own, provisioned, cpRef, rollup, counters, pools>>
        /\ applied' \in [bindings : BOOLEAN, applied : Nat, total : Nat]
    BY <1>1, <1>7 DEF Apply, FactsOK
  <2>2. FactsOK' /\ \A q \in Phase : changed[q] <= changed'[q]
    BY <1>1, <2>1, ChangeRecords DEF FactsOK
  <2> QED
    BY <2>1, <2>2, NoReportKeepsFoldInv
<1>8. ASSUME NEW s \in Sections, Recount(s)
      PROVE  FoldInv'
  <2>1. s \in Phase /\ Change(s) /\ UNCHANGED <<cond, own, provisioned, cpRef, pools, applied>>
    BY <1>8 DEF Recount, Sections
  <2>2. {Zero, Some, Full} \subseteq Counts
    BY DEF Zero, Some, Full, Counts
  <2>3. rollup' \in [Sections -> Counts] /\ counters' \in [Sections -> Counts]
    BY <1>1, <1>8, <2>2 DEF Recount, FactsOK
  <2>4. FactsOK' /\ \A q \in Phase : changed[q] <= changed'[q]
    BY <1>1, <2>1, <2>3, ChangeRecords DEF FactsOK
  <2> QED
    BY <2>1, <2>4, NoReportKeepsFoldInv
<1>9. CASE Tick
  <2>1. /\ now' = now + 1
        /\ UNCHANGED <<cond, own, provisioned, cpRef, hosted, rollup, counters, pools, applied,
                       changed, changes>>
    BY <1>9 DEF Tick
  <2>2. 0 .. now \subseteq 0 .. now' /\ 1 .. now \subseteq 1 .. now' /\ now' \in Nat \ {0}
    BY <1>1, <2>1
  <2>3. cond' \in [Conditions -> [status : {"absent", "False", "True"}, at : 0 .. now']]
    BY <1>1, <2>1, <2>2 DEF FactsOK
  <2>4. own' \in [Phase -> 0 .. now'] /\ changed' \in [Phase -> 1 .. now']
    BY <1>1, <2>1, <2>2 DEF FactsOK
  <2>5. FactsOK'
    BY <1>1, <2>1, <2>2, <2>3, <2>4 DEF FactsOK
  <2>6. \A q \in Phase : changed[q] <= changed'[q]
    BY <1>1, <2>1 DEF FactsOK
  <2> QED
    BY <2>1, <2>5, <2>6, NoReportKeepsFoldInv
<1>10. CASE UNCHANGED vars
  <2>1. FactsOK' /\ UNCHANGED <<cond, own, changed>>
    BY <1>1, <1>10 DEF vars, FactsOK
  <2>2. \A q \in Phase : changed[q] <= changed'[q]
    BY <1>1, <2>1 DEF FactsOK
  <2> QED
    BY <2>1, <2>2, NoReportKeepsFoldInv
<1> QED
  BY <1>2, <1>3, <1>4, <1>5, <1>6, <1>7, <1>8, <1>9, <1>10 DEF Next

\* The inductive invariant holds of every run: the times Fold reads are those of
\* changes that were made.
THEOREM FoldInvariant == Spec => []FoldInv
BY FoldInvInit, NextKeepsFoldInv, PTL DEF Spec

-----------------------------------------------------------------------------

\* Every result is of its type; an elapsed time is never negative and never
\* longer than the cluster's age (fold.go:129-143).
THEOREM FoldTypeOK == Spec => []TypeOK
<1>1. FoldInv => TypeOK
  <2> SUFFICES ASSUME FoldInv PROVE TypeOK
    OBVIOUS
  <2>1. FactsOK /\ now \in Nat \ {0}
    BY DEF FoldInv, FactsOK
  <2>2. ASSUME NEW p \in Phase PROVE Elapsed(p) \in 0 .. now - 1
    <3>1. StartedAt(p) \in 1 .. now /\ End(p) \in 1 .. now
      BY StartIsInThePast, EndIsInThePast
    <3> QED
      BY <2>1, <3>1 DEF Elapsed
  <2> QED
    BY <2>1, <2>2, StateIsUnstalled DEF TypeOK
<1> QED
  BY <1>1, FoldInvariant, PTL

\* The durations of the phases fit the run.
THEOREM FoldDurationsFit == Spec => []DurationsFit
<1>1. FoldInv => DurationsFit
  <2> SUFFICES ASSUME FoldInv, NEW p \in Phase
               PROVE  /\ 1 <= StartedAt(p)
                      /\ StartedAt(p) + Elapsed(p) <= now
                      /\ State(p) # "done" => StartedAt(p) + Elapsed(p) = now
    BY DEF DurationsFit
  <2>1. StartedAt(p) \in 1 .. now /\ End(p) \in 1 .. now
    BY StartIsInThePast, EndIsInThePast
  <2>2. State(p) # "done" => End(p) = now
    BY EndIsInThePast, StateIsUnstalled
  <2>3. now \in Nat
    BY DEF FoldInv, FactsOK
  <2> QED
    BY <2>1, <2>2, <2>3 DEF Elapsed
<1> QED
  BY <1>1, FoldInvariant, PTL

\* A frontier phase that has reported and fallen silent is called stalled, whatever
\* the Cluster's other conditions do (fold.go:534-537).
THEOREM FoldStallsInTime == Spec => []StallsInTime
<1>1. FoldInv => StallsInTime
  <2> SUFFICES ASSUME FoldInv, NEW p \in Phase,
                      State(p) \in {"running", "stalled"},
                      \A q \in Phase : q < p => State(q) = "done",
                      own[p] # 0 \/ \E c \in ConditionsOf(p) : Present(c),
                      now - changed[p] > StallAfter
               PROVE  State(p) = "stalled"
    BY DEF StallsInTime
  <2>1. Unstalled(p) = "running" /\ IsFrontier(p)
    BY StateIsUnstalled DEF IsFrontier
  <2>2. FactsOK
    BY DEF FoldInv
  <2>3. now \in Nat /\ changed[p] \in Nat /\ own[p] \in Nat /\ StallAfter \in Nat
    BY FoldAssumption DEF FoldInv, FactsOK
  <2>4. \A c \in ConditionsOf(p) : cond[c].at \in Nat
    BY ConditionOfPhase DEF FoldInv, FactsOK
  <2>5. /\ LastTransition(p) \in 0 .. now
        /\ own[p] <= LastTransition(p)
        /\ \A c \in ConditionsOf(p) : cond[c].at <= LastTransition(p)
        /\ \/ LastTransition(p) = own[p]
           \/ \E c \in ConditionsOf(p) : LastTransition(p) = cond[c].at
    BY <2>2, ClockIsLatest
  <2>6. LastTransition(p) # 0
    BY <2>3, <2>4, <2>5 DEF FoldInv
  <2>7. LastTransition(p) <= changed[p]
    BY <2>5 DEF FoldInv
  <2>8. StallDue(p)
    BY <2>3, <2>5, <2>6, <2>7 DEF StallDue
  <2> QED
    BY <2>1, <2>8, StateIsUnstalled
<1> QED
  BY <1>1, FoldInvariant, PTL
-----------------------------------------------------------------------------
(* Steps: what a report does to its own phase, and what it does to another's. *)

\* Nothing that phase r is folded from is changed by the step.
Untouched(r) ==
    /\ now' = now
    /\ own'[r] = own[r]
    /\ \A c \in ConditionsOf(r) : cond'[c] = cond[c]
    /\ r = 1 => provisioned' = provisioned
    /\ r = 2 => /\ cpRef' = cpRef /\ hosted' = hosted
                /\ rollup'[2] = rollup[2] /\ counters'[2] = counters[2]
    /\ r = 3 => pools' = pools /\ rollup'[3] = rollup[3] /\ counters'[3] = counters[3]
    /\ r = 4 => applied' = applied

\* A phase is folded from its own facts alone.
LEMMA UntouchedStays ==
    ASSUME NEW r \in Phase, Untouched(r)
    PROVE  Unstalled(r)' = Unstalled(r) /\ LastTransition(r)' = LastTransition(r)
<1>1. /\ now' = now /\ own'[r] = own[r] /\ \A c \in ConditionsOf(r) : cond'[c] = cond[c]
  BY DEF Untouched
<1>2. Seen(r)' = Seen(r)
  <2>1. {cond'[c].at : c \in ConditionsOf(r)} = {cond[c].at : c \in ConditionsOf(r)}
    BY <1>1
  <2>2. Seen(r)' = {cond'[c].at : c \in ConditionsOf(r)} \cup {own'[r]}
    BY DEF Seen, ConditionsOf
  <2> QED BY <1>1, <2>1, <2>2 DEF Seen
<1>3. LastTransition(r)' = LastTransition(r)
  <2>1. LastTransition(r)' = CHOOSE t \in Seen(r)' : \A u \in Seen(r)' : u <= t
    BY DEF LastTransition
  <2> QED BY <1>2, <2>1 DEF LastTransition
<1>4. CASE r = 1
  <2>1. cond'["InfrastructureReady"] = cond["InfrastructureReady"] /\ provisioned' = provisioned
    BY <1>1, <1>4, ConditionsByPhase DEF Untouched
  <2>2. FoldInfrastructure' = FoldInfrastructure
    BY <2>1 DEF FoldInfrastructure, IsTrue, Present
  <2> QED BY <1>3, <1>4, <2>2 DEF Unstalled
<1>5. CASE r = 2
  <2>1. /\ cond'["ControlPlaneAvailable"] = cond["ControlPlaneAvailable"]
        /\ cpRef' = cpRef /\ hosted' = hosted
        /\ rollup'[2] = rollup[2] /\ counters'[2] = counters[2]
    BY <1>1, <1>5, ConditionsByPhase DEF Untouched
  <2>2. ReplicaCounts(2)' = ReplicaCounts(2)
    BY <2>1 DEF ReplicaCounts
  <2>3. ControlPlaneCounts' = ControlPlaneCounts
    BY <2>1, <2>2 DEF ControlPlaneCounts
  <2>4. FoldControlPlane' = FoldControlPlane
    BY <2>1, <2>3 DEF FoldControlPlane, IsTrue, Present
  <2> QED BY <1>3, <1>5, <2>4 DEF Unstalled
<1>6. CASE r = 3
  <2>1. /\ cond'["WorkersAvailable"] = cond["WorkersAvailable"]
        /\ pools' = pools /\ rollup'[3] = rollup[3] /\ counters'[3] = counters[3]
    BY <1>1, <1>6, ConditionsByPhase DEF Untouched
  <2>2. WorkerCounts' = WorkerCounts
    BY <2>1 DEF WorkerCounts
  <2>3. FoldWorkers' = FoldWorkers
    BY <2>1, <2>2 DEF FoldWorkers, IsTrue
  <2> QED BY <1>3, <1>6, <2>3 DEF Unstalled
<1>7. CASE r = 4
  <2>1. FoldAddons' = FoldAddons
    BY <1>7 DEF FoldAddons, Untouched
  <2> QED BY <1>3, <1>7, <2>1 DEF Unstalled
<1> QED BY <1>4, <1>5, <1>6, <1>7

\* A change is of one phase, and leaves the facts of the others alone.
LEMMA ChangeIsOfOnePhase ==
    ASSUME FactsOK, [Next]_vars, NEW q \in Phase, changed'[q] # changed[q],
           NEW r \in Phase, r # q
    PROVE  Untouched(r)
<1>1. ASSUME NEW p \in Phase, Change(p) PROVE p = q /\ now' = now /\ hosted' = hosted
  <2>1. changed' = [changed EXCEPT ![p] = now] /\ changed \in [Phase -> 1 .. now]
    BY <1>1 DEF Change, FactsOK
  <2> QED BY <1>1, <2>1 DEF Change
<1>2. ASSUME NEW p \in Phase, NEW c \in ConditionsOf(p), NEW status \in {"False", "True"},
             FlipCondition(p, c, status)
      PROVE  Untouched(r)
  <2>1. /\ Change(p) /\ cond' = [cond EXCEPT ![c] = Since(status, now)]
        /\ UNCHANGED <<own, provisioned, cpRef, rollup, counters, pools, applied>>
    BY <1>2 DEF FlipCondition
  <2>2. p = q /\ now' = now /\ hosted' = hosted
    BY <1>1, <2>1
  <2>3. ASSUME NEW d \in ConditionsOf(r) PROVE cond'[d] = cond[d]
    <3>1. d # c /\ d \in Conditions
      BY <2>2, ConditionsApart
    <3> QED BY <2>1, <3>1 DEF FactsOK
  <2> QED BY <2>1, <2>2, <2>3 DEF Untouched
<1>3. ASSUME NEW p \in Phase, FlipOwn(p) PROVE Untouched(r)
  <2>1. /\ Change(p) /\ own' = [own EXCEPT ![p] = now]
        /\ UNCHANGED <<cond, provisioned, cpRef, rollup, counters, pools, applied>>
    BY <1>3 DEF FlipOwn
  <2>2. p = q /\ now' = now /\ hosted' = hosted
    BY <1>1, <2>1
  <2>3. own'[r] = own[r]
    BY <2>1, <2>2 DEF FactsOK
  <2> QED BY <2>1, <2>2, <2>3 DEF Untouched
<1>4. CASE Provision
  <2>1. Change(1) /\ UNCHANGED <<cond, own, cpRef, rollup, counters, pools, applied>>
    BY <1>4 DEF Provision
  <2>2. q = 1 /\ now' = now /\ hosted' = hosted
    BY <1>1, <2>1
  <2> QED BY <2>1, <2>2 DEF Untouched
<1>5. CASE SetControlPlaneRef
  <2>1. Change(2) /\ UNCHANGED <<cond, own, provisioned, rollup, counters, pools, applied>>
    BY <1>5 DEF SetControlPlaneRef
  <2>2. q = 2 /\ now' = now /\ hosted' = hosted
    BY <1>1, <2>1
  <2> QED BY <2>1, <2>2 DEF Untouched
<1>6. CASE AddPool
  <2>1. Change(3) /\ UNCHANGED <<cond, own, provisioned, cpRef, rollup, counters, applied>>
    BY <1>6 DEF AddPool
  <2>2. q = 3 /\ now' = now /\ hosted' = hosted
    BY <1>1, <2>1
  <2> QED BY <2>1, <2>2 DEF Untouched
<1>7. CASE Apply
  <2>1. Change(4) /\ UNCHANGED <<cond, own, provisioned, cpRef, rollup, counters, pools>>
    BY <1>7 DEF Apply
  <2>2. q = 4 /\ now' = now /\ hosted' = hosted
    BY <1>1, <2>1
  <2> QED BY <2>1, <2>2 DEF Untouched
<1>8. ASSUME NEW s \in Sections, Recount(s) PROVE Untouched(r)
  <2>1. /\ s \in Phase /\ s \in {2, 3} /\ Change(s)
        /\ UNCHANGED <<cond, own, provisioned, cpRef, pools, applied>>
    BY <1>8 DEF Recount, Sections
  <2>2. s = q /\ now' = now /\ hosted' = hosted
    BY <1>1, <2>1
  <2>3. \A t \in Sections : t # s => rollup'[t] = rollup[t] /\ counters'[t] = counters[t]
    BY <1>8 DEF Recount, FactsOK
  <2>4. /\ r = 2 => rollup'[2] = rollup[2] /\ counters'[2] = counters[2]
        /\ r = 3 => rollup'[3] = rollup[3] /\ counters'[3] = counters[3]
    BY <2>1, <2>2, <2>3 DEF Sections
  <2> QED BY <2>1, <2>2, <2>4 DEF Untouched
<1>9. CASE Tick \/ UNCHANGED vars
  BY <1>9 DEF Tick, vars
<1> QED
  BY <1>2, <1>3, <1>4, <1>5, <1>6, <1>7, <1>8, <1>9 DEF Next

\* What reports reports now.
LEMMA ReportsAreNew ==
    ASSUME FactsOK, [Next]_vars, NEW p \in Phase
    PROVE  /\ own'[p] # own[p] => own'[p] = now'
           /\ \A c \in ConditionsOf(p) : cond'[c] # cond[c] => cond'[c].at = now'
<1>1. ASSUME NEW q \in Phase, NEW c \in ConditionsOf(q), NEW status \in {"False", "True"},
             FlipCondition(q, c, status), NEW d \in ConditionsOf(p), cond'[d] # cond[d]
      PROVE  cond'[d].at = now' /\ own' = own
  <2>1. /\ cond' = [cond EXCEPT ![c] = Since(status, now)] /\ now' = now /\ own' = own
        /\ c \in Conditions /\ d \in Conditions
    BY <1>1, ConditionOfPhase DEF FlipCondition, Change
  <2>2. cond \in [Conditions -> [status : {"absent", "False", "True"}, at : 0 .. now]]
    BY DEF FactsOK
  <2>3. d = c /\ cond'[d] = Since(status, now)
    BY <1>1, <2>1, <2>2
  <2> QED BY <2>1, <2>3 DEF Since
<1>2. ASSUME NEW q \in Phase, NEW c \in ConditionsOf(q), NEW status \in {"False", "True"},
             FlipCondition(q, c, status)
      PROVE  own' = own
  BY <1>2 DEF FlipCondition
<1>3. ASSUME NEW q \in Phase, FlipOwn(q)
      PROVE  cond' = cond /\ (own'[p] # own[p] => own'[p] = now')
  BY <1>3 DEF FlipOwn, Change, FactsOK
<1>4. CASE Provision \/ SetControlPlaneRef \/ AddPool \/ Apply \/ Tick \/ UNCHANGED vars
  BY <1>4 DEF Provision, SetControlPlaneRef, AddPool, Apply, Tick, vars
<1>5. ASSUME NEW s \in Sections, Recount(s) PROVE UNCHANGED <<cond, own>>
  BY <1>5 DEF Recount
<1> QED
  BY <1>1, <1>2, <1>3, <1>4, <1>5 DEF Next

\* A stall clears as soon as an object of its phase reports, and no report of a later
\* phase clears it: for every cluster and every --stall-after (PLAN.md:397, fold.go:534-537).
THEOREM FoldStallClears == Spec => StallClears
<1> DEFINE Clears(p) ==
             State(p) = "stalled" =>
               /\ (own'[p] # own[p] \/ \E c \in ConditionsOf(p) : cond'[c] # cond[c])
                     => State(p)' # "stalled"
               /\ \A q \in Phase : (q # p /\ now' = now /\ changed'[q] # changed[q] /\ q > p)
                     => State(p)' = "stalled"
<1>1. ASSUME FoldInv, FoldInv', [Next]_vars, NEW p \in Phase, State(p) = "stalled"
      PROVE  Clears(p)
  <2>1. FactsOK /\ FactsOK'
    BY <1>1 DEF FoldInv
  <2>2. State(p)' = "stalled" <=> (Unstalled(p) = "running" /\ IsFrontier(p) /\ StallDue(p))'
    <3>1. (Unstalled(p) \in {"pending", "running", "done"})'
      BY UnstalledType, PTL
    <3> QED BY <3>1 DEF State
  <2>3. ASSUME own'[p] # own[p] \/ \E c \in ConditionsOf(p) : cond'[c] # cond[c]
        PROVE  State(p)' # "stalled"
    <3>1. /\ LastTransition(p)' \in 0 .. now'
          /\ own'[p] <= LastTransition(p)'
          /\ \A c \in ConditionsOf(p) : cond'[c].at <= LastTransition(p)'
      <4>1. FactsOK => /\ LastTransition(p) \in 0 .. now
                       /\ own[p] <= LastTransition(p)
                       /\ \A c \in ConditionsOf(p) : cond[c].at <= LastTransition(p)
        BY ClockIsLatest
      <4>2. (FactsOK => /\ LastTransition(p) \in 0 .. now
                        /\ own[p] <= LastTransition(p)
                        /\ \A c \in ConditionsOf(p) : cond[c].at <= LastTransition(p))'
        BY ClockIsLatest, PTL
      <4> QED BY <2>1, <4>2 DEF ConditionsOf
    <3>2. now' <= LastTransition(p)' /\ now' \in Nat
      BY <1>1, <2>1, <2>3, <3>1, ReportsAreNew DEF FactsOK
    <3>3. ~(now' - LastTransition(p)' > StallAfter)
      BY <3>1, <3>2, FoldAssumption
    <3> QED BY <2>2, <3>3 DEF StallDue
  <2>4. ASSUME NEW q \in Phase, q # p, now' = now, changed'[q] # changed[q], q > p
        PROVE  State(p)' = "stalled"
    <3>1. \A r \in Phase : r <= p =>
             Unstalled(r)' = Unstalled(r) /\ LastTransition(r)' = LastTransition(r)
      BY <1>1, <2>1, <2>4, ChangeIsOfOnePhase, UntouchedStays
    <3>2. Unstalled(p) = "running" /\ IsFrontier(p) /\ StallDue(p)
      BY <1>1, StateIsUnstalled
    <3>3. IsFrontier(p)'
      BY <3>1, <3>2 DEF IsFrontier
    <3>4. StallDue(p)'
      BY <2>4, <3>1, <3>2 DEF StallDue
    <3> QED BY <2>2, <3>1, <3>2, <3>3, <3>4
  <2> QED BY <2>3, <2>4
<1>2. FoldInv /\ FoldInv' /\ [Next]_vars =>
        [\A p \in Phase : Clears(p)]_vars
  BY <1>1
<1> QED
  BY <1>2, FoldInvariant, PTL DEF Spec, StallClears
=============================================================================
