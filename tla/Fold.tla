-------------------------------- MODULE Fold --------------------------------
(***************************************************************************)
(* internal/fold/fold.go: Fold, which turns the objects of one cluster and *)
(* the time into four phases, and internal/snapshot as far as Fold reads   *)
(* through it.                                                             *)
(*                                                                         *)
(* Fold is a pure function, so the variables are its argument: what the    *)
(* cluster's objects say, and the time.  The Cluster API controllers       *)
(* change it in small steps, each object in its own time; whatever they do *)
(* between two steps is an envelope that Fold may be given.                *)
(*                                                                         *)
(* Times count from 1, the Cluster's creation; 0 is Go's zero time.  The   *)
(* detail texts are left out.                                              *)
(***************************************************************************)
EXTENDS Integers, FiniteSets

CONSTANTS
    StallAfter,  \* --stall-after
    MaxTime,     \* bound: the last instant at which Fold is asked
    MaxChanges   \* bound: how often the controllers change something

ASSUME FoldAssumption ==
    /\ StallAfter \in Nat \ {0}
    /\ MaxTime \in Nat
    /\ MaxChanges \in Nat

VARIABLES
    now,      \* Options.Now
    cond,     \* the Cluster's conditions: [status, at], at being lastTransitionTime
    own,      \* the latest transition on the objects that exist for one phase alone
    provisioned, \* status.initialization.infrastructureProvisioned
    cpRef,    \* whether spec.controlPlaneRef is set
    hosted,   \* whether the kind controlPlaneRef names is in hostedControlPlaneKinds
    rollup,   \* the Cluster's own replica counts, per section: [ready, desired]
    counters, \* the control plane object's, and the sum over the pools
    pools,    \* whether the cluster has worker pools
    applied,  \* the resources of the bindings: [bindings, applied, total]
    changed,  \* history: when anything a phase is folded from last changed
    changes   \* how often the controllers have changed something

vars == <<now, cond, own, provisioned, cpRef, hosted, rollup, counters, pools, applied,
          changed, changes>>

Infrastructure == 1
ControlPlane == 2
Workers == 3
Addons == 4

\* Order
Phase == Infrastructure .. Addons

\* The conditions of the Cluster that belong to each phase (clock.only).
ConditionsOf(p) ==
    CASE p = Infrastructure -> {"InfrastructureReady", "TopologyReconciled"}
      [] p = ControlPlane   -> {"ControlPlaneInitialized", "ControlPlaneAvailable"}
      [] p = Workers        -> {"WorkersAvailable"}
      [] p = Addons         -> {}

Conditions == UNION {ConditionsOf(p) : p \in Phase}

Sections == {ControlPlane, Workers}
Counts == [ready : Nat, desired : Nat]

\* Object.Condition tells a condition that is absent from one that is not True.
Present(c) == cond[c].status # "absent"
IsTrue(c) == cond[c].status = "True"

-----------------------------------------------------------------------------
(* The four phases, without regard to time.                                *)

FoldInfrastructure ==
    IF provisioned \/ IsTrue("InfrastructureReady") THEN "done"
    ELSE IF Present("InfrastructureReady") THEN "running"
    ELSE "pending"

Larger(m, n) == IF m < n THEN n ELSE m

\* replicaCounts: the Cluster's rollup if it wants any, else whichever is larger.
ReplicaCounts(section) ==
    LET r == rollup[section]
        c == counters[section]
    IN  IF r.desired > 0 THEN r
        ELSE [ready |-> Larger(r.ready, c.ready), desired |-> Larger(r.desired, c.desired)]

\* A hosted control plane has no machines to count.
ControlPlaneCounts ==
    IF cpRef /\ hosted THEN [ready |-> 0, desired |-> 0] ELSE ReplicaCounts(ControlPlane)

FoldControlPlane ==
    LET n == ControlPlaneCounts
    IN  IF IsTrue("ControlPlaneAvailable") /\ (n.desired = 0 \/ n.ready >= n.desired) THEN "done"
        ELSE IF Present("ControlPlaneAvailable") \/ cpRef THEN "running"
        ELSE "pending"

\* The rollup, with the pools' own counters added when it wants none.
WorkerCounts ==
    LET r == rollup[Workers]
        c == counters[Workers]
    IN  IF r.desired > 0 THEN r
        ELSE [ready |-> r.ready + c.ready, desired |-> c.desired]

FoldWorkers ==
    LET n == WorkerCounts
    IN  IF rollup[Workers].desired = 0 /\ ~pools THEN "done"
        ELSE IF n.desired > 0 /\ n.ready >= n.desired THEN "done"
        ELSE IF IsTrue("WorkersAvailable") THEN "done"
        ELSE IF pools THEN "running"
        ELSE "pending"

FoldAddons ==
    IF ~applied.bindings THEN "done"
    ELSE IF applied.total > 0 /\ applied.applied >= applied.total THEN "done"
    ELSE "running"

Unstalled(p) ==
    CASE p = Infrastructure -> FoldInfrastructure
      [] p = ControlPlane   -> FoldControlPlane
      [] p = Workers        -> FoldWorkers
      [] p = Addons         -> FoldAddons

-----------------------------------------------------------------------------
(* Time.                                                                   *)

\* Mutant: the Cluster's conditions count for every phase.
WholeCluster(p) == {cond[c].at : c \in Conditions} \cup {own[p]}

\* Mutant: only the Cluster's conditions count.
ClusterAlone(p) == {cond[c].at : c \in ConditionsOf(p)} \cup {0}

\* clock: what belongs to the phase, the Cluster's conditions picked by name.  No
\* binding has a condition, so own[Addons] stays 0.
Seen(p) == {cond[c].at : c \in ConditionsOf(p)} \cup {own[p]}

LastTransition(p) == CHOOSE t \in Seen(p) : \A u \in Seen(p) : u <= t

IsFrontier(p) ==
    /\ Unstalled(p) # "done"
    /\ \A q \in Phase : q < p => Unstalled(q) = "done"

StallDue(p) == LastTransition(p) # 0 /\ now - LastTransition(p) > StallAfter

State(p) ==
    IF Unstalled(p) = "running" /\ IsFrontier(p) /\ StallDue(p)
    THEN "stalled" ELSE Unstalled(p)

Ready == \A p \in Phase : Unstalled(p) = "done"

\* Mutant: a phase that is done ended at its last transition, known or not.
EndedAnyhow(p) == Unstalled(p) = "done"

Ended(p) == Unstalled(p) = "done" /\ LastTransition(p) # 0

\* prevEnd: the end of the last phase before p that has one, or the creation.
StartedAt(p) ==
    LET before == {q \in Phase : q < p /\ Ended(q)}
    IN  IF before = {} THEN 1
        ELSE LastTransition(CHOOSE q \in before : \A r \in before : r <= q)

End(p) == IF Ended(p) THEN LastTransition(p) ELSE now

\* Mutant: the end is not compared with the start.
SignedElapsed(p) == End(p) - StartedAt(p)

Elapsed(p) == IF End(p) > StartedAt(p) THEN End(p) - StartedAt(p) ELSE 0

-----------------------------------------------------------------------------
(* The cluster is found at some stage of its life, and the controllers go on *)
(* from there.                                                             *)

Zero == [ready |-> 0, desired |-> 0]
Some == [ready |-> 0, desired |-> 1]
Full == [ready |-> 1, desired |-> 1]

Absent == [status |-> "absent", at |-> 0]
Since(status, t) == [status |-> status, at |-> t]

\* The phases before `stage` are complete, that one is under way, the Cluster says
\* nothing yet of the ones behind it.
FoundAt(stage) ==
    [c \in Conditions |->
        LET p == CHOOSE q \in Phase : c \in ConditionsOf(q)
        IN  IF p < stage THEN Since("True", 1)
            ELSE IF p = stage THEN Since("False", 1) ELSE Absent]

Init ==
    /\ now = 1
    /\ \E stage \in 0 .. Addons :
          /\ cond = FoundAt(stage)
          /\ own = [p \in Phase |-> IF stage # 0 /\ p # Addons THEN 1 ELSE 0]
          /\ cpRef = (stage # 0)
    /\ hosted \in BOOLEAN
    /\ pools \in BOOLEAN
    /\ provisioned = FALSE
    /\ rollup = [s \in Sections |-> Zero]
    /\ counters = [s \in Sections |-> Zero]
    /\ applied \in {[bindings |-> t = 1, applied |-> 0, total |-> t] : t \in {0, 1}}
    /\ changed = [p \in Phase |-> 1]
    /\ changes = 0

Change(p) ==
    /\ changes < MaxChanges
    /\ changes' = changes + 1
    /\ changed' = [changed EXCEPT ![p] = now]
    /\ UNCHANGED <<now, hosted>>

\* A condition of the Cluster appears or flips.
FlipCondition(p, c, status) ==
    /\ cond[c].status # status
    /\ cond' = [cond EXCEPT ![c] = Since(status, now)]
    /\ Change(p)
    /\ UNCHANGED <<own, provisioned, cpRef, rollup, counters, pools, applied>>

\* A condition of an object of the phase, or of one of its machines, flips.
FlipOwn(p) ==
    /\ p # Addons
    /\ own' = [own EXCEPT ![p] = now]
    /\ Change(p)
    /\ UNCHANGED <<cond, provisioned, cpRef, rollup, counters, pools, applied>>

Provision ==
    /\ ~provisioned
    /\ provisioned' = TRUE
    /\ Change(Infrastructure)
    /\ UNCHANGED <<cond, own, cpRef, rollup, counters, pools, applied>>

SetControlPlaneRef ==
    /\ ~cpRef
    /\ cpRef' = TRUE
    /\ Change(ControlPlane)
    /\ UNCHANGED <<cond, own, provisioned, rollup, counters, pools, applied>>

\* A count changes: a machine is wanted, or comes up, or goes.
Recount(s) ==
    /\ \/ \E n \in {Zero, Some, Full} :
             rollup' = [rollup EXCEPT ![s] = n] /\ UNCHANGED counters
       \/ \E n \in {Zero, Some, Full} :
             counters' = [counters EXCEPT ![s] = n] /\ UNCHANGED rollup
    /\ Change(s)
    /\ UNCHANGED <<cond, own, provisioned, cpRef, pools, applied>>

AddPool ==
    /\ ~pools
    /\ pools' = TRUE
    /\ Change(Workers)
    /\ UNCHANGED <<cond, own, provisioned, cpRef, rollup, counters, applied>>

\* A resource set is bound, gets its resources, and has them applied.
Apply ==
    /\ applied' = IF ~applied.bindings THEN [applied EXCEPT !.bindings = TRUE]
                  ELSE IF applied.total = 0 THEN [applied EXCEPT !.total = 1]
                  ELSE [applied EXCEPT !.applied = 1]
    /\ applied' # applied
    /\ Change(Addons)
    /\ UNCHANGED <<cond, own, provisioned, cpRef, rollup, counters, pools>>

Tick ==
    /\ now < MaxTime
    /\ now' = now + 1
    /\ UNCHANGED <<cond, own, provisioned, cpRef, hosted, rollup, counters, pools, applied,
                   changed, changes>>

Next ==
    \/ \E p \in Phase :
          \/ \E c \in ConditionsOf(p), status \in {"False", "True"} : FlipCondition(p, c, status)
          \/ FlipOwn(p)
    \/ Provision \/ SetControlPlaneRef \/ AddPool \/ Apply
    \/ \E s \in Sections : Recount(s)
    \/ Tick

Spec == Init /\ [][Next]_vars

-----------------------------------------------------------------------------

\* What the objects say is of its type, and none is from the future.
FactsOK ==
    /\ now \in Nat \ {0}
    /\ cond \in [Conditions -> [status : {"absent", "False", "True"}, at : 0 .. now]]
    /\ own \in [Phase -> 0 .. now]
    /\ own[Addons] = 0
    /\ provisioned \in BOOLEAN
    /\ cpRef \in BOOLEAN
    /\ hosted \in BOOLEAN
    /\ rollup \in [Sections -> Counts]
    /\ counters \in [Sections -> Counts]
    /\ pools \in BOOLEAN
    /\ applied \in [bindings : BOOLEAN, applied : Nat, total : Nat]
    /\ changed \in [Phase -> 1 .. now]
    /\ changes \in Nat

\* Every variable and every result is of its type: in particular no phase has
\* lasted longer than the cluster, or less than no time, though a later phase may
\* have had its last transition before an earlier one (fold.go:141).
TypeOK ==
    /\ FactsOK
    /\ \A p \in Phase :
          /\ State(p) \in {"pending", "running", "done", "stalled"}
          /\ Elapsed(p) \in 0 .. now - 1

\* The durations fit the run: every phase starts after the cluster and, if it has
\* lasted, ends by now; and the phases that are not done have not ended
\* (fold.go:129-143).
DurationsFit ==
    \A p \in Phase :
        /\ 1 <= StartedAt(p)
        /\ StartedAt(p) + Elapsed(p) <= now
        /\ State(p) # "done" => StartedAt(p) + Elapsed(p) = now

\* A phase the cluster is waiting on, of which some object has ever reported and
\* none has changed for longer than --stall-after, is called stalled, however busy
\* the other phases' conditions on the same Cluster are (fold.go:534-537).
StallsInTime ==
    \A p \in Phase :
        (/\ State(p) \in {"running", "stalled"}
         /\ \A q \in Phase : q < p => State(q) = "done"
         /\ own[p] # 0 \/ \E c \in ConditionsOf(p) : Present(c)
         /\ now - changed[p] > StallAfter)
            => State(p) = "stalled"

\* A stall clears as soon as any object of the phase reports again, the machines
\* and their infrastructure included, and is not cleared by what other phases
\* report (PLAN.md:397).
StallClears ==
    [][\A p \in Phase : State(p) = "stalled" =>
          /\ (own'[p] # own[p] \/ \E c \in ConditionsOf(p) : cond'[c] # cond[c])
                => State(p)' # "stalled"
          /\ \A q \in Phase : (q # p /\ now' = now /\ changed'[q] # changed[q] /\ q > p)
                => State(p)' = "stalled"]_vars
=============================================================================
