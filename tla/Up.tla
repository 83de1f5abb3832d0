--------------------------------- MODULE Up ---------------------------------
(***************************************************************************)
(* The applying half of `cluster up` (cmd/cluster/up.go, class.go,         *)
(* apply.go), `cluster new` (simple.go) and the six fields both rest on    *)
(* (internal/gen/gen.go), beside the admission policy the same rules are   *)
(* written in a second time (policy/vap), the webhook in front of it and   *)
(* what kubectl apply makes of a file when there is a Cluster already.     *)
(*                                                                         *)
(* A name that ends in "-hosted" is a base and a flag, and a version is    *)
(* what follows its v and whether it has one.  Break-glass is a label in   *)
(* the file and a group of the user.  All files are of one Cluster;        *)
(* `up` without a file only waits, and is Follow's.                        *)
(***************************************************************************)
EXTENDS Integers, SequencesExt

CONSTANTS
    File,       \* the files a user may write
    Flags,      \* what `cluster new` may be asked for
    ClassOrder, \* every ClusterClass there may be, in the order kubectl lists them
    Spelling,   \* Spelling[c]: the letters of a class name, of a class there may be or one asked for
    ns,         \* globals.namespace
    TheName,    \* the name of the Cluster the files are of
    NameArg,    \* what `up` may be given as NAME; "" is nothing
    NoClass, NoFile, None,
    MaxRuns,    \* bound: how many commands are run
    MaxChanges  \* bound: how often anyone else changes anything

VARIABLES
    file,    \* the file given to `up`, or NoFile
    made,    \* the Spec `new` wrote it from, or NoFile
    up,      \* the command: where it is, what FromYAML returned, what
             \* installedClasses answered ({} when it was no answer), what it
             \* suggests, the name it waits for, its exit code
    stored,  \* the Cluster the API server holds, or NoFile
    last,    \* kubectl's last-applied annotation, or NoFile
    edited,  \* someone else has written the topology of that Cluster
    classes, \* the ClusterClasses installed in ns
    group,   \* the user is in sixfields:break-glass
    runs, changes

vars == <<file, made, up, stored, last, edited, classes, group, runs, changes>>

DefaultClass == "std"
hosted == "hosted"
Class == ToSet(ClassOrder)

ManagedKinds == {"KubeadmControlPlane", "MachineDeployment", "Machine", "DockerCluster"}
Templates == {"KubeadmConfigTemplate", "DockerMachineTemplate"}
IsManagedKind(kind) == kind \in ManagedKinds \cup Templates

\* The objects in a Cluster that the lists of keys are about.
Level == {"spec", "topology", "classRef", "controlPlane", "workers", "variables", "pool"}

\* The keys FromObject takes ...
GenAllows ==
    [level \in Level |->
        CASE level = "spec" -> {"topology"}
          [] level = "topology" -> {"classRef", "version", "variables", "workers", "controlPlane"}
          [] level = "classRef" -> {"name", "namespace"}
          [] level = "controlPlane" -> {"replicas"}
          [] level = "workers" -> {"machineDeployments", "machinePools"}
          [] level = "variables" -> {"size", "placement"}
          [] level = "pool" -> {"name", "class", "replicas"}]

\* Mutant: the policy has a key of a pool that gen has not.
PolicyAllowsMore ==
    [level \in Level |->
        CASE level = "pool" -> {"name", "class", "replicas", "healthCheck"}
          [] level = "topology" -> GenAllows[level] \cup {"class"}
          [] OTHER -> GenAllows[level]]

\* ... and those the policy does, which also has the class as v1beta1 spells it.
PolicyAllows ==
    [level \in Level |->
        CASE level = "spec" -> {"topology"}
          [] level = "topology" ->
                {"classRef", "class", "version", "workers", "variables", "controlPlane"}
          [] level = "classRef" -> {"name", "namespace"}
          [] level = "controlPlane" -> {"replicas"}
          [] level = "workers" -> {"machineDeployments", "machinePools"}
          [] level = "variables" -> {"size", "placement"}
          [] level = "pool" -> {"name", "class", "replicas"}]

Version == [v : BOOLEAN, rest : STRING]
NoVersion == [v |-> FALSE, rest |-> ""]

\* keys are those of the entry beside the three.
Pool == [name : STRING, backend : {"machineDeployments", "machinePools"},
         replicas : Int, keys : SUBSET STRING]

\* managed are the keys with their values, each at its level, beside those that
\* the other fields stand for.
Manifest ==
    [kind : STRING, name : STRING, class : [base : STRING, hosted : BOOLEAN] \cup {NoClass},
     classNamespace : STRING, version : Version, size : STRING, placement : STRING,
     replicas : Int \cup {None}, managed : SUBSET (Level \X STRING \X STRING),
     pools : Seq(Pool), label : BOOLEAN, more : BOOLEAN]

Spec6 ==
    [name : STRING, class : [base : STRING, hosted : BOOLEAN] \cup {NoClass}, version : Version,
     size : STRING, placement : STRING, pools : Seq(Pool)]

ASSUME UpAssumption ==
    /\ File \subseteq Manifest /\ NoFile \notin Manifest /\ NoFile \notin Spec6
    /\ Flags \subseteq Spec6
    /\ \A f \in File \cup Flags : f.name \in {TheName, ""}
    /\ \A f \in Flags : \A i \in 1 .. Len(f.pools) : f.pools[i].keys = {}
    /\ ClassOrder \in Seq([base : STRING, hosted : BOOLEAN])
    /\ NoClass \notin [base : STRING, hosted : BOOLEAN]
    /\ Class \subseteq DOMAIN Spelling /\ Spelling \in [DOMAIN Spelling -> Seq(STRING)]
    /\ ns \in STRING /\ TheName \in STRING \ {""} /\ NameArg \subseteq STRING
    /\ None \notin Int
    /\ MaxRuns \in Nat /\ MaxChanges \in Nat
    /\ {"", "Cluster", "std", "dev", "ha", "self", "infrastructureRef", "theirs"} \subseteq STRING

-----------------------------------------------------------------------------
(* gen: defaults, denials, and both directions between a Spec and a file.  *)

ClassFor(class, placement) ==
    IF placement = hosted THEN [class EXCEPT !.hosted = TRUE] ELSE class

ControlPlaneReplicas(size) == IF size = "ha" THEN 3 ELSE 1

asStored(version) == IF version = NoVersion THEN version ELSE [version EXCEPT !.v = TRUE]

\* kubernetesVersion.MatchString; these are all the versions there are.
IsVersion(version) == version.v /\ version.rest \in {"1.34.11", "1.35.0"}

Default(v, d) == IF v = "" THEN d ELSE v

Defaults(s) ==
    [s EXCEPT !.class = IF @ = NoClass THEN [base |-> DefaultClass, hosted |-> FALSE] ELSE @,
              !.size = Default(@, "dev"), !.placement = Default(@, "self")]

When(condition, denials) == IF condition THEN denials ELSE {}
Denial(code, level, key) == [code |-> code, level |-> level, key |-> key]
Managed(level, key) == Denial("FieldManaged", level, key)
Unknown(variable) == Denial("VariableUnknown", "variables", variable)
Malformed == Denial("VersionMalformed", "topology", "version")

PoolDenials(pools) ==
    When(\E i \in 1 .. Len(pools) :
            pools[i].name = "" \/ \E j \in 1 .. i - 1 : pools[j].name = pools[i].name,
         {Managed("pool", "name")})
    \cup When(\E i \in 1 .. Len(pools) : pools[i].replicas < 0, {Managed("pool", "replicas")})

Validate(s) ==
    When(s.name = "", {Managed("metadata", "name")})
    \cup When(~IsVersion(asStored(s.version)), {Malformed})
    \cup When(s.size \notin {"", "dev", "ha"}, {Unknown("size")})
    \cup When(s.placement \notin {"", "self", hosted}, {Unknown("placement")})
    \cup PoolDenials(s.pools)

\* What `new` prints.
Cluster(s) ==
    LET d == Defaults(s)
    IN  [kind |-> "Cluster", name |-> d.name, class |-> ClassFor(d.class, d.placement),
         classNamespace |-> "", version |-> d.version, size |-> d.size,
         placement |-> d.placement, replicas |-> ControlPlaneReplicas(d.size),
         managed |-> {}, pools |-> d.pools, label |-> FALSE, more |-> FALSE]

KeyDenied(level, key) == IF level = "variables" THEN Unknown(key) ELSE Managed(level, key)

\* Mutant: the keys beside the topology are not looked at.
FieldDenialsInside(f) ==
    {KeyDenied(p[1], p[2]) : p \in {q \in f.managed : q[1] # "spec" /\ q[2] \notin GenAllows[q[1]]}}
    \cup {Managed("pool", key) :
            key \in (UNION {p.keys : p \in ToSet(f.pools)}) \ GenAllows["pool"]}
    \cup When(f.replicas \notin {None, ControlPlaneReplicas(f.size)},
              {Managed("controlPlane", "replicas")})

\* The class a denial names is left out: see the README for how it differs.
FieldDenials(f) ==
    {KeyDenied(p[1], p[2]) : p \in {q \in f.managed : q[2] \notin GenAllows[q[1]]}}
    \cup {Managed("pool", key) :
            key \in (UNION {p.keys : p \in ToSet(f.pools)}) \ GenAllows["pool"]}
    \cup When(f.replicas \notin {None, ControlPlaneReplicas(f.size)},
              {Managed("controlPlane", "replicas")})

\* Mutant: the suffix stays on.
SpecOfSuffixed(f) ==
    [name |-> f.name, class |-> f.class, version |-> f.version, size |-> f.size,
     placement |-> f.placement, pools |-> f.pools]

SpecOf(f) ==
    [name |-> f.name,
     class |-> IF f.class = NoClass THEN NoClass ELSE [f.class EXCEPT !.hosted = FALSE],
     version |-> f.version, size |-> f.size, placement |-> f.placement, pools |-> f.pools]

\* Mutant: the spec is returned as it was read.
FromYAMLBare(f) ==
    CASE f.kind = "not YAML" -> [spec |-> NoFile, errs |-> {Managed("", "the file")}]
      [] IsManagedKind(f.kind) ->
            [spec |-> NoFile, errs |-> {Denial("KindManaged", "kind", f.kind)}]
      [] OTHER -> [spec |-> [SpecOf(f) EXCEPT !.class = IF @ = NoClass THEN Defaults(SpecOf(f)).class ELSE @],
                   errs |-> FieldDenials(f) \cup Validate(SpecOf(f))]

\* FromYAML reads the first document of a file.
FromYAML(f) ==
    CASE f.kind = "not YAML" -> [spec |-> NoFile, errs |-> {Managed("", "the file")}]
      [] IsManagedKind(f.kind) ->
            [spec |-> NoFile, errs |-> {Denial("KindManaged", "kind", f.kind)}]
      [] OTHER -> [spec |-> Defaults(SpecOf(f)),
                   errs |-> FieldDenials(f) \cup Validate(SpecOf(f))]

\* A class that a command may look up has a spelling, whether there is such a class or not.
ASSUME SpellingAssumption ==
    \A f \in File \cup {Cluster(s) : s \in Flags} :
        LET read == FromYAML(f)
        IN  read.errs = {} => ClassFor(read.spec.class, read.spec.placement) \in DOMAIN Spelling

\* The registry's class of a code, and the exit code it means.
ExitCode(code) ==
    IF code \in {"FieldManaged", "KindManaged", "VariableUnknown", "VersionMalformed"} THEN 3
    ELSE 4  \* ClusterNotFound, ClassNotFound, NoRuntime

-----------------------------------------------------------------------------
(* The server's half: kubectl's merge, Cluster API's webhook, the policy.  *)

HasVariables(f) ==
    f # NoFile /\ (f.size # "" \/ f.placement # "" \/ \E p \in f.managed : p[1] = "variables")

\* A list is replaced whole; what the last apply wrote and this one does not is
\* removed; what neither wrote stays.
Merge(f, old, before) ==
    IF old = NoFile THEN f
    ELSE LET vs == HasVariables(f) \/ HasVariables(before)
             mine == IF before = NoFile THEN {} ELSE before.managed
             named == {<<p[1], p[2]>> : p \in f.managed}
             stays(p) == <<p[1], p[2]>> \notin named /\ ~(vs /\ p[1] = "variables")
         IN  [f EXCEPT
                !.size = IF vs THEN @ ELSE old.size,
                !.placement = IF vs THEN @ ELSE old.placement,
                !.replicas = IF @ # None THEN @
                             ELSE IF before # NoFile /\ before.replicas # None THEN None
                             ELSE old.replicas,
                !.managed = @ \cup {p \in old.managed \ mine : stays(p)}]

\* The webhook completes the version, and the variables a class gives a default.
Webhook(f, installed) ==
    [f EXCEPT !.version = asStored(@),
              !.size = IF f.class \in installed THEN Default(@, "dev") ELSE @,
              !.placement = IF f.class \in installed THEN Default(@, "self") ELSE @]

denied(f, old) ==
    LET was == IF old = NoFile THEN {} ELSE old.managed
        had == IF old = NoFile THEN {} ELSE ToSet(old.pools)
    IN  \/ \E p \in f.managed \ was : p[2] \notin PolicyAllows[p[1]]
        \/ \E p \in ToSet(f.pools) \ had : \E key \in p.keys : key \notin PolicyAllows["pool"]
        \/ f.replicas \notin {None, ControlPlaneReplicas(f.size)}

versionMalformed(f, old) ==
    /\ f.version # (IF old = NoFile THEN NoVersion ELSE old.version)
    /\ ~IsVersion(f.version)

Admits(f, old, inGroup) ==
    \/ f.label /\ inGroup
    \/ /\ ~IsManagedKind(f.kind)
       /\ f.kind = "Cluster" => ~denied(f, old) /\ ~versionMalformed(f, old)

Submitted == Webhook(Merge(file, stored, last), classes)

-----------------------------------------------------------------------------
(* nearest and distance: two rows of the table, one character at a time.   *)

Smaller(a, b) == IF a < b THEN a ELSE b

\* Mutant: a letter too many in the second word is no edit of one.
distanceOneWay(a, b) ==
    LET Row(prev, i) == [j \in 0 .. Len(b) |->
            IF j = 0 THEN i
            ELSE Smaller(prev[j] + 1, prev[j - 1] + IF a[i] = b[j] THEN 0 ELSE 1)]
        rows[i \in 0 .. Len(a)] ==
            IF i = 0 THEN [j \in 0 .. Len(b) |-> j] ELSE Row(rows[i - 1], i)
    IN  rows[Len(a)][Len(b)]

distance(a, b) ==
    LET Row(prev, i) ==
            LET current[j \in 0 .. Len(b)] ==
                    IF j = 0 THEN i
                    ELSE Smaller(prev[j] + 1,
                                 Smaller(current[j - 1] + 1,
                                         prev[j - 1] + IF a[i] = b[j] THEN 0 ELSE 1))
            IN  current
        rows[i \in 0 .. Len(a)] ==
            IF i = 0 THEN [j \in 0 .. Len(b) |-> j] ELSE Row(rows[i - 1], i)
    IN  rows[Len(a)][Len(b)]

\* The candidates are the installed classes, in the order kubectl lists them.
nearest(class, installed, budget) ==
    LET best[i \in 0 .. Len(ClassOrder)] ==
            IF i = 0 THEN [class |-> NoClass, distance |-> budget]
            ELSE LET c == ClassOrder[i]
                     d == distance(Spelling[class], Spelling[c])
                 IN  IF c \in installed /\ d < best[i - 1].distance
                     THEN [class |-> c, distance |-> d] ELSE best[i - 1]
    IN  best[Len(ClassOrder)].class

-----------------------------------------------------------------------------
Idle ==
    [step |-> "idle", spec |-> NoFile, errs |-> {}, looked |-> {},
     suggestion |-> NoClass, name |-> "", exit |-> None]

Init ==
    /\ file = NoFile /\ made = NoFile
    /\ up = Idle
    /\ stored = NoFile /\ last = NoFile /\ edited = FALSE
    /\ classes \in SUBSET Class
    /\ group \in BOOLEAN
    /\ runs = 0 /\ changes = 0

Unserved == UNCHANGED <<stored, last, edited, classes, group>>

\* The user writes a file, or has `new` write one.
Write ==
    /\ file = NoFile /\ runs < MaxRuns
    /\ file' \in File
    /\ Unserved /\ UNCHANGED <<made, up, runs, changes>>

New ==
    /\ file = NoFile /\ runs < MaxRuns
    /\ \E s \in Flags :
        /\ Validate(s) = {}
        /\ file' = Cluster(s) /\ made' = s
    /\ Unserved /\ UNCHANGED <<up, runs, changes>>

Start ==
    /\ up.step = "idle" /\ file # NoFile
    /\ LET read == FromYAML(file)
           begun == [Idle EXCEPT !.spec = read.spec, !.errs = read.errs]
       IN  IF read.errs = {} THEN up' = [begun EXCEPT !.step = "class"]
           ELSE \E e \in read.errs :
                    up' = [begun EXCEPT !.step = "denied", !.exit = ExitCode(e.code)]
    /\ Unserved /\ UNCHANGED <<file, made, runs, changes>>

\* `plan`: the same denials, and otherwise the word that `up` would apply the file.
Plan ==
    /\ up.step = "idle" /\ file # NoFile
    /\ FromYAML(file).errs = {}
    /\ up' = [Idle EXCEPT !.step = "planned", !.spec = FromYAML(file).spec]
    /\ Unserved /\ UNCHANGED <<file, made, runs, changes>>

ReadFails ==
    /\ up.step = "idle" /\ file # NoFile
    /\ up' = [Idle EXCEPT !.step = "failed", !.exit = ExitCode("ClusterNotFound")]
    /\ Unserved /\ UNCHANGED <<file, made, runs, changes>>

\* Mutant: the class is looked up without its placement.
WantedClassPlain == up.spec.class

WantedClass == ClassFor(up.spec.class, up.spec.placement)

CheckClass ==
    /\ up.step = "class"
    /\ up' = IF WantedClass \in classes \/ classes = {}
             THEN [up EXCEPT !.step = "apply", !.looked = classes]
             ELSE [up EXCEPT !.step = "failed", !.looked = classes,
                             !.exit = ExitCode("ClassNotFound"),
                             !.suggestion = nearest(WantedClass, classes, 3)]
    /\ Unserved /\ UNCHANGED <<file, made, runs, changes>>

\* --replay: neither looked up nor applied.
Replay ==
    /\ up.step = "class"
    /\ up' = [up EXCEPT !.step = "replay"]
    /\ Unserved /\ UNCHANGED <<file, made, runs, changes>>

LookupFails ==
    /\ up.step = "class"
    /\ up' = [up EXCEPT !.step = "apply"]
    /\ Unserved /\ UNCHANGED <<file, made, runs, changes>>

Store ==
    /\ Admits(Submitted, stored, group)
    /\ stored' = Submitted /\ last' = file /\ UNCHANGED edited

\* The file is a single document, and kubectl says it is applied.
Apply ==
    /\ up.step = "apply" /\ ~file.more
    /\ Store
    /\ up' = [up EXCEPT !.step = "setup"]
    /\ UNCHANGED <<file, made, classes, group, runs, changes>>

\* kubectl fails: the policy, the API server's own rules, a second document that
\* is refused, a server that cannot be reached, or a reply that is lost.
ApplyFails ==
    /\ up.step = "apply"
    /\ Store \/ UNCHANGED <<stored, last, edited>>
    /\ up' = [up EXCEPT !.step = "failed", !.exit = ExitCode("FieldManaged")]
    /\ UNCHANGED <<file, made, classes, group, runs, changes>>

NoKubectl ==
    /\ up.step = "apply" /\ up.looked = {}
    /\ up' = [up EXCEPT !.step = "failed", !.exit = ExitCode("NoRuntime")]
    /\ Unserved /\ UNCHANGED <<file, made, runs, changes>>

\* setup and newLiveSource: what is waited for is the NAME of the arguments, be it
\* that of the file or not, and without one there is nothing to wait for.
Setup ==
    /\ up.step = "setup"
    /\ \E name \in NameArg :
          up' = IF name = ""
                THEN [up EXCEPT !.step = "failed", !.exit = ExitCode("ClusterNotFound")]
                ELSE [up EXCEPT !.step = "watch", !.name = name]
    /\ Unserved /\ UNCHANGED <<file, made, runs, changes>>

\* watch.New has no cluster to talk to.
NoClient ==
    /\ up.step = "setup"
    /\ up' = [up EXCEPT !.step = "failed", !.exit = ExitCode("NoRuntime")]
    /\ Unserved /\ UNCHANGED <<file, made, runs, changes>>

\* The command ends; for a Cluster that was applied, the wait is Follow's.
End ==
    /\ up.step \in {"denied", "failed", "watch", "replay", "planned"}
    /\ up' = Idle /\ file' = NoFile /\ made' = NoFile
    /\ runs' = runs + 1
    /\ Unserved /\ UNCHANGED changes

\* The controllers are exempt; another user's write is admitted or is none.
Others ==
    /\ changes < MaxChanges /\ changes' = changes + 1
    /\ UNCHANGED <<file, made, up, group, runs>>

WriteBack ==
    /\ stored # NoFile
    /\ stored' = [stored EXCEPT !.managed =
                    {p \in @ : p[2] # "infrastructureRef"}
                        \cup {<<"spec", "infrastructureRef", "theirs">>}]
    /\ UNCHANGED <<last, edited, classes>>
    /\ Others

Edit ==
    /\ stored # NoFile
    /\ \E size \in {"", "dev", "ha"}, replicas \in {None, 1, 3} :
        LET new == [stored EXCEPT !.size = size, !.replicas = replicas]
        IN  /\ Admits(Webhook(new, classes), stored, FALSE)
            /\ stored' = Webhook(new, classes)
    /\ edited' = TRUE
    /\ UNCHANGED <<last, classes>>
    /\ Others

Delete ==
    /\ stored # NoFile
    /\ stored' = NoFile /\ last' = NoFile /\ edited' = FALSE
    /\ UNCHANGED classes
    /\ Others

Install ==
    /\ \E c \in Class : classes' \in {classes \cup {c}, classes \ {c}} \ {classes}
    /\ UNCHANGED <<stored, last, edited>>
    /\ Others

Next ==
    \/ Write \/ New \/ Start \/ Plan \/ ReadFails \/ CheckClass \/ Replay \/ LookupFails
    \/ Apply \/ ApplyFails \/ NoKubectl \/ Setup \/ NoClient \/ End
    \/ WriteBack \/ Edit \/ Delete \/ Install

Spec == Init /\ [][Next]_vars

-----------------------------------------------------------------------------
(* Properties.                                                             *)

Step == {"idle", "class", "apply", "setup", "watch", "replay", "planned", "denied", "failed"}

\* Every variable has the type its declaration says; what goes on past FromYAML
\* is a spec with its defaults filled in, and nothing goes on with a denial.
TypeOK ==
    /\ file \in Manifest \cup {NoFile} /\ made \in Spec6 \cup {NoFile}
    /\ (up.step # "idle") => file # NoFile
    /\ DOMAIN up = DOMAIN Idle
    /\ up.step \in Step /\ up.spec \in Spec6 \cup {NoFile}
    /\ up.looked \in SUBSET Class
    /\ up.suggestion \in Class \cup {NoClass}
    /\ up.exit \in {None, 3, 4} /\ (up.exit # None <=> up.step \in {"denied", "failed"})
    /\ (up.errs # {}) <=> (up.step = "denied")
    /\ up.name \in NameArg \cup {""} /\ (up.name # "" <=> up.step = "watch")
    /\ up.step \in {"class", "apply", "setup", "watch", "replay", "planned"} =>
          up.spec # NoFile /\ up.spec.class # NoClass /\ up.spec.size \in {"dev", "ha"}
    /\ stored \in Manifest \cup {NoFile} /\ last \in Manifest \cup {NoFile}
    /\ (stored = NoFile) <=> (last = NoFile)
    /\ edited \in BOOLEAN /\ classes \subseteq Class /\ group \in BOOLEAN
    /\ runs \in 0 .. MaxRuns /\ changes \in 0 .. MaxChanges

\* A file that gen accepts, for `plan` or for `up`, is not denied by the policy,
\* whether the Cluster is created or updated and whatever the controllers have
\* written into it since; a Cluster that someone else has edited past kubectl
\* apply is the exception (gen.go:5-8: what admission would deny is denied before
\* submitting; simple.go:109: "the question `up` would answer a second later").
AcceptedIsAdmitted ==
    up.step \in {"apply", "planned"} /\ ~edited => Admits(Submitted, stored, group)

\* The denials of gen that the policy has a rule for.  It matches Clusters and the
\* managed kinds, whatever else a file may hold; the other denials are about values
\* only the API server's schema knows.  One key the two judge differently: gen
\* denies spec.topology.class, which the policy lets v1beta1 write
\* (gen_test.go:86, cluster-fields.yaml:40-45, 224).
Ruled(e) ==
    \/ e.code = "KindManaged"
    \/ /\ file.kind = "Cluster"
       /\ \/ /\ e.level \in Level
             /\ ~(e.level = "pool" /\ e.key \in {"name", "replicas"})
             /\ ~(e.level = "topology" /\ e.key \in {"class", "version"})
             /\ ~(e.level = "variables" /\ e.key \in {"size", "placement"})
          \/ e = Malformed /\ file.version # NoVersion

\* A file that gen denies for a reason the policy has is denied by the policy
\* when it would create the Cluster: `up` and `plan` refuse nothing admission
\* would take (gen.go:128-135), break-glass and the v1beta1 spelling aside.
DeniedIsDenied ==
    up.step = "denied" /\ stored = NoFile /\ ~(file.label /\ group)
        /\ (\E e \in up.errs : Ruled(e))
    => ~Admits(Submitted, NoFile, group)

\* What `new` writes is accepted by `up` and by the policy, reads back as the
\* spec it was written from, and is looked up under the class it names; a class
\* given with its suffix reads back without it (gen.go:308-310).
NewRoundTrips ==
    made # NoFile =>
        LET read == FromYAML(file)
        IN  /\ read.errs = {} /\ Admits(Webhook(file, classes), NoFile, group)
            /\ made.class = NoClass \/ ~made.class.hosted =>
                  /\ read.spec = Defaults(made)
                  /\ ClassFor(read.spec.class, read.spec.placement) = file.class

\* The class the file names is the class its placement resolves to, in the
\* namespace the class is looked up in.
Agrees(f) ==
    /\ f.class # NoClass /\ f.class.hosted = (f.placement = hosted)
    /\ f.classNamespace \in {"", ns}

\* `up`, given the name that is in the file, waits only for a Cluster that is stored
\* as the file has it, and when the file's class and placement agree and the lookup
\* was answered, of a class that was installed when it was looked up (up.go:38-60,
\* class.go:13-24).  Given another name it waits for what it has not applied.
WaitsForWhatItApplied ==
    up.step = "watch" /\ up.name = file.name /\ stored # NoFile /\ ~edited =>
        /\ stored.name = up.name
        /\ stored.class = file.class /\ stored.version = asStored(file.version)
        /\ stored.pools = file.pools
        /\ stored.replicas = file.replicas
        /\ ControlPlaneReplicas(stored.size) = ControlPlaneReplicas(file.size)
        /\ Agrees(file) /\ up.looked # {} => stored.class \in up.looked

\* How many edits make one word of another, 3 for more than two.
Letters == UNION {ToSet(Spelling[c]) : c \in DOMAIN Spelling}
OneEdit(w) ==
    {RemoveAt(w, i) : i \in 1 .. Len(w)}
    \cup {ReplaceAt(w, i, l) : i \in 1 .. Len(w), l \in Letters}
    \cup {InsertAt(w, i, l) : i \in 1 .. Len(w) + 1, l \in Letters}
Edits ==
    [c \in DOMAIN Spelling |-> [d \in DOMAIN Spelling |->
        LET v == Spelling[c]  w == Spelling[d]
        IN  IF v = w THEN 0 ELSE IF w \in OneEdit(v) THEN 1
            ELSE IF OneEdit(v) \cap OneEdit(w) # {} THEN 2 ELSE 3]]

\* A refusal suggests the first of the installed classes that are the fewest
\* edits away, if that is fewer than three (class.go:66-69, simple.go:198-230).
SuggestionIsNearest ==
    up.step = "failed" /\ up.looked # {} /\ WantedClass \notin up.looked =>
        LET Far(c) == Edits[WantedClass][c]
            near == {c \in up.looked : Far(c) < 3 /\ \A d \in up.looked : Far(c) <= Far(d)}
        IN  IF near = {} THEN up.suggestion = NoClass
            ELSE up.suggestion = ClassOrder[Min({i \in DOMAIN ClassOrder : ClassOrder[i] \in near})]
=============================================================================
