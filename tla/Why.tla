-------------------------------- MODULE Why ---------------------------------
(***************************************************************************)
(* internal/why/why.go: Rank, which names one object out of everything     *)
(* that is wrong, and cmd/cluster/why.go, the command that prints it.      *)
(*                                                                         *)
(* Rank is a pure function of one envelope, so the variables are the       *)
(* envelope: the conditions of the cluster's objects, which the Cluster    *)
(* API controllers change one at a time.  sort.SliceStable is modelled by  *)
(* what it returns for a strict weak order; WhyProofs shows the comparator *)
(* is one.  Messages are reduced to what classify reads in them.           *)
(***************************************************************************)
EXTENDS Integers, Sequences, FiniteSets

CONSTANTS
    Object,       \* the objects of one cluster
    TheCluster,   \* the Cluster among them
    Kind,         \* Kind[o]
    Name,         \* Name[o]: names as numbers, in their alphabetical order
    TypesOf,      \* TypesOf[o]: the types of o's conditions, as status lists them
    Infra,        \* Infra[o]: what o's spec.infrastructureRef names, or None
    Bootstrap,    \* Bootstrap[o]: what o's spec.bootstrapRef names, or None
    None,
    Contributors, \* Contributors[p]: fold's contributors of phase p, in order
    Watched,      \* Watched[p]: the objects whose every condition fold's clock reads
    StallAfter,   \* --stall-after
    MaxTime,      \* bound: the last instant
    MaxChanges    \* bound: how often the controllers change something

ASSUME WhyAssumption ==
    /\ TheCluster \in Object /\ None \notin Object
    /\ Kind \in [Object -> STRING] /\ Kind[TheCluster] = "Cluster"
    /\ Name \in [Object -> Nat]
    /\ TypesOf \in [Object -> Seq(STRING)]
    /\ \A o \in Object : \A i, j \in 1 .. Len(TypesOf[o]) :  \* status lists a type once
         TypesOf[o][i] = TypesOf[o][j] => i = j
    /\ Infra \in [Object -> Object \cup {None}]
    /\ Bootstrap \in [Object -> Object \cup {None}]
    /\ Contributors \in [1 .. 4 -> Seq(Object)]
    /\ Watched \in [1 .. 4 -> SUBSET Object]
    /\ StallAfter \in Nat /\ MaxTime \in Nat /\ MaxChanges \in Nat

\* fold reads the conditions of a phase's contributors and of their infrastructure
\* (fold.go:206-214, 254-264, 367-374, 431-433).
ASSUME ClockAssumption ==
    \A p \in 1 .. 4 : \A i \in 1 .. Len(Contributors[p]) :
        LET o == Contributors[p][i]
        IN  o \in Watched[p] /\ (Infra[o] # None => Infra[o] \in Watched[p])

VARIABLES
    phase,   \* the frontier: 1 to 4, or 5 when every phase is done
    running, \* the frontier phase has begun: it is not pending
    found,   \* the objects that are in the envelope
    cond,    \* cond[c]: [status, waits, severity, image, at] of each condition
    now,     \* Options.Now
    changes  \* how often the controllers have changed something

vars == <<phase, running, found, cond, now, changes>>

Infrastructure == 1
ControlPlane == 2
Workers == 3
Addons == 4

\* A condition is the object it is on and its type.
Condition == UNION {{<<o, TypesOf[o][i]>> : i \in 1 .. Len(TypesOf[o])} : o \in Object}

NoType == ""
TypeNames == {c[2] : c \in Condition} \cup {NoType}

\* waits is the type that a reason "WaitingForX" names; image says whether the
\* message or the reason speaks of an image of the version that was asked for.
Report ==
    [status : {"absent", "Unknown", "True", "False"}, waits : TypeNames,
     severity : {"", "Info", "Warning", "Error"}, image : BOOLEAN, at : Nat]

negativePolarity ==
    {"Paused", "Deleting", "Remediating", "RollingOut", "ScalingUp", "ScalingDown", "Updating"}
summaryConditions == {"Ready", "Available", "MachinesReady", "MachinesUpToDate"}
etcdConditions == {"EtcdClusterHealthy", "EtcdMemberHealthy", "EtcdProvisioned"}
nodeConditions == {"NodeHealthy", "NodeReady", "NodeProvisioned"}
machineKinds == {"Machine", "DevMachine", "DockerMachine", "KubeadmConfig", "K0sWorkerConfig"}

specificity(kind) ==
    CASE kind \in machineKinds \ {"Machine"} -> 45
      [] kind = "Machine" -> 40
      [] kind = "MachineSet" -> 30
      [] kind \in {"MachineDeployment", "MachinePool", "DevMachinePool"} -> 25
      [] kind \in {"KubeadmControlPlane", "K0sControlPlane", "K0smotronControlPlane"} -> 20
      [] kind \in {"DevCluster", "DockerCluster", "ClusterResourceSetBinding"} -> 15
      [] kind = "Cluster" -> 10
      [] OTHER -> 5

\* Two objects that fold hands to the ranking of a phase and that share their rank
\* and their name come with one and the same contributor: a kind has a name once, and
\* what has a name in common is a machine's or a pool's infrastructure and bootstrap.
\* A MachineDeployment and a MachinePool of one name are left out.
ASSUME NamesAssumption ==
    \A p \in 1 .. 4 :
        LET cs == {Contributors[p][i] : i \in 1 .. Len(Contributors[p])}
            brought(o) == {o, Infra[o], Bootstrap[o]} \ {None}
        IN  \A x, y \in {TheCluster} \cup UNION {brought(o) : o \in cs} :
               (x # y /\ Name[x] = Name[y] /\ specificity(Kind[x]) = specificity(Kind[y])) =>
                   \E o \in cs : \A z \in {x, y} :
                       /\ z \in brought(o) \ {TheCluster}
                       /\ \A m \in cs : z \in brought(m) => m = o

severityRank(s) ==
    CASE s = "Error" -> 3 [] s = "Warning" -> 2 [] s = "Info" -> 1 [] OTHER -> 0

IsFalse(c) == cond[c].status = "False"
Failing(o) == {c \in Condition : c[1] = o /\ IsFalse(c) /\ c[2] \notin negativePolarity}

-----------------------------------------------------------------------------
(* collect: the contributors in the order given, what each points at, then *)
(* the Cluster; an object is taken where it is first met.                  *)

Slots(order) == 1 .. 3 * Len(order) + 1

Slot(order, k) ==
    LET o == order[(k + 2) \div 3]
    IN  IF k = 3 * Len(order) + 1 THEN TheCluster
        ELSE IF o \notin found THEN None
        ELSE CASE k % 3 = 1 -> o [] k % 3 = 2 -> Infra[o] [] k % 3 = 0 -> Bootstrap[o]

Met(order) == {Slot(order, k) : k \in Slots(order)} \cap found

\* Mutant: False is a failure whatever the condition reports.
collectActivities(order) == {c \in Condition : c[1] \in Met(order) /\ IsFalse(c)}

collect(order) == UNION {Failing(o) : o \in Met(order)}

\* Where collect puts c, among those it collects.
Place(order, o) ==
    CHOOSE k \in Slots(order) :
        /\ Slot(order, k) = o
        /\ \A j \in Slots(order) : Slot(order, j) = o => k <= j

CollectedBefore(order, c, d) ==
    IF c[1] # d[1] THEN Place(order, c[1]) < Place(order, d[1])
    ELSE \E i, j \in 1 .. Len(TypesOf[c[1]]) :
            i < j /\ TypesOf[c[1]][i] = c[2] /\ TypesOf[c[1]][j] = d[2]

-----------------------------------------------------------------------------
(* The order.                                                              *)

waitsFor(c, all) == <<c[1], cond[c].waits>> \in all

\* The six keys of the comparator.
Key(c, all) ==
    [specificity |-> specificity(Kind[c[1]]), summary |-> c[2] \in summaryConditions,
     waits |-> waitsFor(c, all), at |-> cond[c].at,
     severity |-> severityRank(cond[c].severity), name |-> Name[c[1]]]

\* Mutant: the transition is compared before what is waited for.
LessByTime(a, b) ==
    IF a.specificity # b.specificity THEN a.specificity > b.specificity
    ELSE IF a.summary # b.summary THEN ~a.summary
    ELSE IF a.at # b.at THEN a.at > b.at
    ELSE IF a.waits # b.waits THEN ~a.waits
    ELSE IF a.severity # b.severity THEN a.severity > b.severity
    ELSE a.name < b.name

\* Mutant: the names are not compared.
LessNoName(a, b) ==
    IF a.specificity # b.specificity THEN a.specificity > b.specificity
    ELSE IF a.summary # b.summary THEN ~a.summary
    ELSE IF a.waits # b.waits THEN ~a.waits
    ELSE IF a.at # b.at THEN a.at > b.at
    ELSE a.severity > b.severity

\* The function given to sort.SliceStable.
Less(a, b) ==
    IF a.specificity # b.specificity THEN a.specificity > b.specificity
    ELSE IF a.summary # b.summary THEN ~a.summary
    ELSE IF a.waits # b.waits THEN ~a.waits
    ELSE IF a.at # b.at THEN a.at > b.at
    ELSE IF a.severity # b.severity THEN a.severity > b.severity
    ELSE a.name < b.name

\* What the sort puts first: a stable sort leaves what the comparator does not tell
\* apart as it was collected.
Winner(order) ==
    LET all == collect(order)
        key == [c \in all |-> Key(c, all)]
    IN  CHOOSE c \in all : \A d \in all \ {c} :
            \/ Less(key[c], key[d])
            \/ ~Less(key[d], key[c]) /\ CollectedBefore(order, c, d)

\* Mutant: the transitions are looked at before what is waited for.
LostToByTime(loser, win) ==
    IF loser.specificity < win.specificity THEN "less specific object"
    ELSE IF loser.summary /\ ~win.summary THEN "summary condition"
    ELSE IF loser.at < win.at THEN "older transition"
    ELSE IF loser.waits /\ ~win.waits THEN "waiting"
    ELSE IF loser.severity < win.severity THEN "lower severity"
    ELSE "later in name order"

\* explainLosses: the first of these that holds.
LostTo(loser, win) ==
    IF loser.specificity < win.specificity THEN "less specific object"
    ELSE IF loser.summary /\ ~win.summary THEN "summary condition"
    ELSE IF loser.waits /\ ~win.waits THEN "waiting"
    ELSE IF loser.at < win.at THEN "older transition"
    ELSE IF loser.severity < win.severity THEN "lower severity"
    ELSE "later in name order"

classify(c) ==
    IF Kind[c[1]] = "Cluster" /\ c[2] = "TopologyReconciled" THEN "CAPI-TOPO-001"
    ELSE IF cond[c].image THEN "CAPI-VERSION-001"
    ELSE IF c[2] \in nodeConditions THEN "CAPI-WRK-002"
    ELSE CASE phase = Infrastructure -> "CAPI-INFRA-001"
           [] phase = ControlPlane -> IF c[2] \in etcdConditions THEN "CAPI-CP-003"
                                      ELSE IF Kind[c[1]] \in machineKinds THEN "CAPI-CP-002"
                                      ELSE "CAPI-CP-001"
           [] phase = Workers -> "CAPI-WRK-001"
           [] phase = Addons -> "CAPI-ADDON-001"

-----------------------------------------------------------------------------
(* Rank and the command, for the envelope there is.                        *)

\* fold's clock: the objects of the phase, and of the Cluster only what is about it.
ClusterConditions(p) ==
    CASE p = Infrastructure -> {"InfrastructureReady", "TopologyReconciled"}
      [] p = ControlPlane -> {"ControlPlaneInitialized", "ControlPlaneAvailable"}
      [] p = Workers -> {"WorkersAvailable"}
      [] OTHER -> {}

\* Mutant: the infrastructure of the phase's machines is not on the clock.
OnTheClockNoInfra(p) ==
    {c \in Condition : \/ c[1] \in Watched[p] \cap found /\ c[1] \notin {Infra[o] : o \in Object}
                       \/ c[1] = TheCluster /\ c[2] \in ClusterConditions(p)}

OnTheClock(p) ==
    {c \in Condition : \/ c[1] \in Watched[p] \cap found
                       \/ c[1] = TheCluster /\ c[2] \in ClusterConditions(p)}

LastTransition(p) ==
    LET times == {cond[c].at : c \in OnTheClock(p)} \cup {0}
    IN  CHOOSE t \in times : \A u \in times : u <= t

Stalled ==
    /\ running
    /\ LastTransition(phase) # 0
    /\ now - LastTransition(phase) > StallAfter

\* Rank answers for the stalled phase, or else for the first that is not done.
Named == phase \in 1 .. 4 /\ collect(Contributors[phase]) # {}

Blamed == Winner(Contributors[phase])

\* Mutant: a condition without a time has been so since the zero time.
SinceZero(c) == now - cond[c].at

Since(c) == IF cond[c].at = 0 THEN 0 ELSE now - cond[c].at

\* What `cluster why` prints and exits with.
Answer ==
    IF ~Named THEN [says |-> "not waiting on anything", exit |-> 0]
    ELSE [says |-> classify(Blamed), exit |-> IF Stalled THEN 2 ELSE 0]

-----------------------------------------------------------------------------
(* The cluster is found at some stage of its life, with all of its objects *)
(* failing, or none, as where its phase is pending, and the controllers go *)
(* on from there.                                                          *)

Said(status, t) ==
    [status |-> status, waits |-> NoType, severity |-> "", image |-> FALSE, at |-> t]

\* What a phase that is not done may be: the addons are never pending.
RunningIn(p) == CASE p \in {Infrastructure, ControlPlane, Workers} -> BOOLEAN
                  [] p = Addons -> {TRUE}
                  [] OTHER -> {FALSE}

Init ==
    /\ phase \in 1 .. 4
    /\ running \in RunningIn(phase)
    /\ found = Object
    /\ \E failing \in IF running THEN {{}, Object} ELSE {{}} :
          cond = [c \in Condition |-> Said(IF c[1] \in failing THEN "False" ELSE "True", 1)]
    /\ now = 2
    /\ changes = 0

Change ==
    /\ changes < MaxChanges
    /\ changes' = changes + 1
    /\ UNCHANGED now

\* A condition flips, with whatever its controller has to say about it.  A reason
\* that names a condition names one of the same object.
Flip(c) ==
    /\ c[1] \in found
    /\ \E status \in {"Unknown", "True", "False"} \ {cond[c].status} :
          \E waits \in {d[2] : d \in {e \in Condition : e[1] = c[1]}} \cup {NoType} :
             /\ status # "False" => waits = NoType
             /\ cond' = [cond EXCEPT ![c] = [Said(status, now) EXCEPT !.waits = waits]]
    /\ Change
    /\ UNCHANGED <<phase, running, found>>

\* A provider of the old contract gives a severity, one leaves the time out, the
\* message of another names an image.
Elaborate(c) ==
    /\ c[1] \in found /\ IsFalse(c) /\ cond[c].at = now
    /\ \/ cond[c].severity = "" /\ cond' = [cond EXCEPT ![c].severity = "Error"]
       \/ cond' = [cond EXCEPT ![c].at = 0]
       \/ ~cond[c].image /\ cond' = [cond EXCEPT ![c].image = TRUE]
    /\ Change
    /\ UNCHANGED <<phase, running, found>>

\* A machine is deleted, or one is created.
Replace(o) ==
    /\ o # TheCluster
    /\ found' = IF o \in found THEN found \ {o} ELSE found \cup {o}
    /\ cond' = [c \in Condition |-> IF c[1] = o THEN Said("absent", 0) ELSE cond[c]]
    /\ Change
    /\ UNCHANGED <<phase, running>>

\* What the phase waits for appears, or goes: a reference, a pool, what the Cluster
\* says of its infrastructure.
BeginOrPend ==
    /\ running' \in RunningIn(phase) \ {running}
    /\ Change
    /\ UNCHANGED <<phase, found, cond>>

Proceed ==
    /\ phase < 5
    /\ phase' = phase + 1
    /\ running' \in RunningIn(phase + 1)
    /\ Change
    /\ UNCHANGED <<found, cond>>

Tick ==
    /\ now < MaxTime
    /\ now' = now + 1
    /\ UNCHANGED <<phase, running, found, cond, changes>>

Next ==
    \/ \E c \in Condition : Flip(c) \/ Elaborate(c)
    \/ \E o \in Object : Replace(o)
    \/ BeginOrPend
    \/ Proceed
    \/ Tick

Spec == Init /\ [][Next]_vars

-----------------------------------------------------------------------------

\* msg's codes of class Stall, which are the ones that exit 2.
StallCodes ==
    {"CAPI-INFRA-001", "CAPI-CP-001", "CAPI-CP-002", "CAPI-CP-003", "CAPI-WRK-001",
     "CAPI-WRK-002", "CAPI-TOPO-001", "CAPI-ADDON-001", "CAPI-VERSION-001"}

\* Every variable is of its type, and so is what the line says: a code of class
\* Stall, and an age the cluster can have (why.go:246-249).
TypeOK ==
    /\ phase \in 1 .. 5
    /\ running \in RunningIn(phase)
    /\ found \subseteq Object
    /\ cond \in [Condition -> Report]
    /\ \A c \in Condition : cond[c].at <= now
    /\ now \in Nat \ {0}
    /\ changes \in 0 .. MaxChanges
    /\ Named => Answer.says \in StallCodes /\ Since(Blamed) \in 0 .. now - 1

Orders(s) ==
    {q \in [1 .. Len(s) -> {s[i] : i \in 1 .. Len(s)}] :
        \A i, j \in 1 .. Len(s) : q[i] = q[j] => i = j}

\* The line names the same condition in whatever order the envelope lists the
\* contributors: the informers' order, or that of a fixture, does not decide whom
\* to blame.  Candidates of one machine, its infrastructure and its bootstrap share
\* a name, so the last key alone does not see to it (why.go:171-189).
WinnerIsOrderFree ==
    Named => \A order \in Orders(Contributors[phase]) : Winner(order) = Blamed

\* What is named is the root of the waits on its object: it waits for something
\* else that fails only if all its peers there do, that is, only if they wait for
\* each other in a circle (why.go:38-42).
RootOfTheWaits ==
    Named => LET all == collect(Contributors[phase])
             IN  waitsFor(Blamed, all) =>
                    \A d \in Failing(Blamed[1]) :
                        (d[2] \in summaryConditions <=> Blamed[2] \in summaryConditions)
                            => waitsFor(d, all)

Rules == <<"less specific object", "summary condition", "waiting", "older transition",
           "lower severity", "later in name order">>
Keys == <<"specificity", "summary", "waits", "at", "severity", "name">>

\* Documented (why.go:104): LostTo "says which rule decided it".  explainLosses
\* compares each loser with the winner by tests of its own; they name the first
\* key of the comparator on which the two differ, or the last when they differ on
\* none and only the order of collection decided.
LossesAreExplained ==
    Named =>
        LET all == collect(Contributors[phase])
            win == Key(Blamed, all)
        IN  \A d \in all \ {Blamed} :
                LET loser == Key(d, all)
                IN  \E r \in 1 .. 6 :
                        /\ LostTo(loser, win) = Rules[r]
                        /\ \A j \in 1 .. r - 1 : loser[Keys[j]] = win[Keys[j]]
                        /\ loser[Keys[r]] # win[Keys[r]] \/ r = 6

\* A stall that is blamed on a contributor, or on a contributor's infrastructure, has
\* lasted for longer than --stall-after on that very condition: fold's clock has
\* read every object why may blame, the Cluster's other conditions and what only
\* spec.bootstrapRef leads to excepted (fold.go:250-257, why.go:253-263).
StallIsAsOldAsItSays ==
    (Stalled /\ Named /\ cond[Blamed].at # 0) =>
        \/ Blamed[1] = TheCluster
        \/ Blamed[1] \in {Bootstrap[o] : o \in Object}
        \/ Since(Blamed) > StallAfter

\* One condition at a time changes the blame only for a reason: a new failure takes
\* it, or leaves it, or exposes that the one blamed was waiting for it; a repair
\* elsewhere moves it only to what was waiting for the repaired one; and an
\* activity that starts or ends moves nothing (why.go:17-26, 43-55).
BlameMovesForAReason ==
    [][(Named /\ Named' /\ UNCHANGED <<phase, found>>) =>
        \A c \in {d \in Condition : cond'[d].status # cond[d].status} :
            IF c[2] \in negativePolarity THEN Blamed' = Blamed
            ELSE IF cond'[c].status = "False"
            THEN \/ Blamed' \in {Blamed, c}
                 \/ Blamed[1] = c[1] /\ cond[Blamed].waits = c[2]
            ELSE (c # Blamed /\ cond[c].status = "False" /\ Blamed' # Blamed) =>
                    Blamed'[1] = c[1] /\ cond[Blamed'].waits = c[2]]_vars

\* Documented (docs/user-guide.md:103): "One object is named: the most specific one
\* that is failing".
MostSpecificIsNamed ==
    (Stalled /\ Named) =>
        \A o \in Watched[phase] \cap found :
            Failing(o) # {} => specificity(Kind[o]) <= specificity(Kind[Blamed[1]])
=============================================================================
