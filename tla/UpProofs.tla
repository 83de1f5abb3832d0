------------------------------ MODULE UpProofs ------------------------------
(***************************************************************************)
(* What holds of `new`, `plan` and `up` for every file, every set of       *)
(* classes and whatever others do: the client's rules are as strict as the *)
(* policy's, what is waited for is what was applied, and what `new` writes *)
(* is accepted and reads back.                                             *)
(***************************************************************************)
EXTENDS Up, TLAPS, WellFoundedInduction, SequenceTheorems

\* The command as a record.
UpRecord(u) ==
    u = [step |-> u.step, spec |-> u.spec, errs |-> u.errs, looked |-> u.looked,
         suggestion |-> u.suggestion, name |-> u.name, exit |-> u.exit]

\* The file is one, and what goes on is the spec FromYAML accepted in it.
Accepted ==
    /\ UpRecord(up)
    /\ file \in Manifest \cup {NoFile}
    /\ up.step \in {"class", "apply", "setup", "watch", "replay", "planned"} =>
          /\ file \in Manifest
          /\ FromYAML(file).errs = {} /\ up.spec = FromYAML(file).spec
    /\ up.step = "class" => up.looked = {}
    /\ up.step \in {"apply", "setup", "watch"} /\ up.looked # {} => WantedClass \in up.looked

\* The Cluster in the API server is the last one applied, as far as nobody edited it.
LastApplied ==
    /\ stored = NoFile <=> last = NoFile
    /\ edited \in BOOLEAN
    /\ stored # NoFile =>
          /\ stored \in Manifest /\ last \in Manifest
          /\ FromYAML(last).errs = {}
          /\ ~edited => /\ stored.replicas = last.replicas
                        /\ ControlPlaneReplicas(stored.size) = ControlPlaneReplicas(last.size)

\* From the apply to the end of the wait the last file applied is the file of the command.
Waited ==
    up.step \in {"setup", "watch"} /\ stored # NoFile /\ ~edited =>
        /\ stored.name = file.name
        /\ stored.class = file.class /\ stored.version = asStored(file.version)
        /\ stored.pools = file.pools
        /\ stored.replicas = file.replicas
        /\ ControlPlaneReplicas(stored.size) = ControlPlaneReplicas(file.size)

UInv == Accepted /\ LastApplied /\ Waited

-----------------------------------------------------------------------------
(* The client's rules.                                                     *)

\* A file without a denial is of no managed kind, or is not read as one.
LEMMA NoDenials ==
    ASSUME NEW f \in Manifest, FromYAML(f).errs = {}
    PROVE  /\ ~IsManagedKind(f.kind)
           /\ FieldDenials(f) = {} /\ Validate(SpecOf(f)) = {}
           /\ FromYAML(f).spec = Defaults(SpecOf(f))
<1>1. f.kind # "not YAML"
  BY DEF FromYAML
<1>2. ~IsManagedKind(f.kind)
  BY <1>1 DEF FromYAML
<1>3. FromYAML(f) = [spec |-> Defaults(SpecOf(f)), errs |-> FieldDenials(f) \cup Validate(SpecOf(f))]
  BY <1>1, <1>2 DEF FromYAML
<1> QED BY <1>2, <1>3

\* What a file says that the client does not deny.
LEMMA NoFieldDenials ==
    ASSUME NEW f \in Manifest, FieldDenials(f) = {}
    PROVE  /\ \A p \in f.managed : p[2] \in GenAllows[p[1]]
           /\ f.replicas \in {None, ControlPlaneReplicas(f.size)}
           /\ \A p \in ToSet(f.pools) : p.keys \subseteq GenAllows["pool"]
<1>1. {KeyDenied(p[1], p[2]) : p \in {q \in f.managed : q[2] \notin GenAllows[q[1]]}} = {}
  BY DEF FieldDenials
<1>2. {Managed("pool", key) : key \in (UNION {p.keys : p \in ToSet(f.pools)}) \ GenAllows["pool"]} = {}
  BY DEF FieldDenials
<1>3. f.replicas \in {None, ControlPlaneReplicas(f.size)}
  BY DEF FieldDenials, When
<1>4. \A p \in f.managed : p[2] \in GenAllows[p[1]]
  BY <1>1
<1>5. \A p \in ToSet(f.pools) : p.keys \subseteq GenAllows["pool"]
  <2> SUFFICES ASSUME NEW p \in ToSet(f.pools), NEW key \in p.keys, key \notin GenAllows["pool"]
               PROVE  FALSE
    OBVIOUS
  <2>1. key \in (UNION {q.keys : q \in ToSet(f.pools)}) \ GenAllows["pool"]
    <3>1. p.keys \in {q.keys : q \in ToSet(f.pools)}
      BY Zenon
    <3>2. key \in UNION {q.keys : q \in ToSet(f.pools)}
      BY <3>1, Zenon
    <3> QED BY <3>2, Zenon
  <2>2. Managed("pool", key) \in
           {Managed("pool", k) : k \in (UNION {q.keys : q \in ToSet(f.pools)}) \ GenAllows["pool"]}
    BY <2>1, Zenon
  <2> QED BY <1>2, <2>2, Zenon
<1> QED BY <1>3, <1>4, <1>5

\* Every key that gen takes the policy takes as well.
LEMMA PolicyAllowsAll == \A level \in Level : GenAllows[level] \subseteq PolicyAllows[level]
BY DEF Level, GenAllows, PolicyAllows

\* The one key the policy takes and gen does not is the class as v1beta1 spells it.
LEMMA PolicyAllowsOneMore ==
    ASSUME NEW level \in Level, NEW key, key \in PolicyAllows[level], key \notin GenAllows[level]
    PROVE  level = "topology" /\ key = "class"
BY DEF Level, GenAllows, PolicyAllows

\* A version that is not denied is one when it is stored.
LEMMA NoValidation ==
    ASSUME NEW s, Validate(s) = {}
    PROVE  IsVersion(asStored(s.version))
BY DEF Validate, When, Malformed

\* Defaults do not change how many control planes a size means.
LEMMA DefaultSize == \A v : ControlPlaneReplicas(Default(v, "dev")) = ControlPlaneReplicas(v)
BY DEF ControlPlaneReplicas, Default

\* Storing a stored version changes nothing.
LEMMA AsStoredTwice == \A v : IsVersion(asStored(v)) => asStored(asStored(v)) = asStored(v)
BY DEF IsVersion, asStored

-----------------------------------------------------------------------------
(* The server's half.                                                      *)

\* The webhook leaves all but the version and the variables alone.
LEMMA WebhookFields ==
    ASSUME NEW m \in Manifest, NEW installed
    PROVE  LET g == Webhook(m, installed)
           IN  /\ g \in Manifest
               /\ g.kind = m.kind /\ g.name = m.name /\ g.class = m.class /\ g.pools = m.pools
               /\ g.label = m.label /\ g.replicas = m.replicas /\ g.managed = m.managed
               /\ g.version = asStored(m.version)
               /\ g.size \in {m.size, Default(m.size, "dev")}
               /\ ControlPlaneReplicas(g.size) = ControlPlaneReplicas(m.size)
<1> DEFINE v == asStored(m.version)
           s == IF m.class \in installed THEN Default(m.size, "dev") ELSE m.size
           p == IF m.class \in installed THEN Default(m.placement, "self") ELSE m.placement
           g == [m EXCEPT !.version = v, !.size = s, !.placement = p]
<1>1. m.version \in Version /\ m.size \in STRING /\ m.placement \in STRING
  BY DEF Manifest
<1>2. v \in Version
  BY <1>1 DEF asStored, Version
<1>3. s \in STRING /\ p \in STRING
  BY <1>1, UpAssumption DEF Default
<1>4. Webhook(m, installed) = g
  BY DEF Webhook, Manifest
<1>5. s \in {m.size, Default(m.size, "dev")}
  OBVIOUS
<1>6. ControlPlaneReplicas(s) = ControlPlaneReplicas(m.size)
  BY DefaultSize
<1> HIDE DEF v, s, p
<1>7. /\ g \in Manifest
      /\ g.kind = m.kind /\ g.name = m.name /\ g.class = m.class /\ g.pools = m.pools
      /\ g.label = m.label /\ g.replicas = m.replicas /\ g.managed = m.managed
      /\ g.version = v /\ g.size = s
  BY <1>2, <1>3 DEF Manifest
<1> QED BY <1>4, <1>5, <1>6, <1>7 DEF v

\* Unless somebody has edited it, a Cluster that an accepted file is merged into
\* says what the file says, and has no managed field that it had not before.
LEMMA MergeFields ==
    ASSUME NEW f \in Manifest, FieldDenials(f) = {},
           NEW old \in Manifest \cup {NoFile}, NEW before,
           old = NoFile <=> before = NoFile,
           old # NoFile => before \in Manifest /\ FieldDenials(before) = {}
    PROVE  LET m == Merge(f, old, before)
           IN  /\ m \in Manifest
               /\ m.kind = f.kind /\ m.name = f.name /\ m.class = f.class /\ m.pools = f.pools
               /\ m.label = f.label /\ m.version = f.version
               /\ m.managed \subseteq f.managed \cup (IF old = NoFile THEN {} ELSE old.managed)
               /\ (old # NoFile => /\ old.replicas = before.replicas
                                   /\ ControlPlaneReplicas(old.size) = ControlPlaneReplicas(before.size))
                     => /\ m.replicas = f.replicas
                        /\ ControlPlaneReplicas(m.size) = ControlPlaneReplicas(f.size)
<1> DEFINE m == Merge(f, old, before)
<1>2. CASE old = NoFile
  <2>1. m = f
    BY <1>2 DEF Merge
  <2> QED BY <1>2, <2>1
<1>3. CASE old # NoFile
  <2> DEFINE vs == HasVariables(f) \/ HasVariables(before)
             size == IF vs THEN f.size ELSE old.size
             placement == IF vs THEN f.placement ELSE old.placement
             replicas == IF f.replicas # None THEN f.replicas
                         ELSE IF before # NoFile /\ before.replicas # None THEN None
                         ELSE old.replicas
             named == {<<p[1], p[2]>> : p \in f.managed}
             stays(p) == <<p[1], p[2]>> \notin named /\ ~(vs /\ p[1] = "variables")
             managed == f.managed \cup {p \in old.managed \ before.managed : stays(p)}
  <2>1. old \in Manifest /\ before \in Manifest /\ before # NoFile /\ f # NoFile
    BY <1>3, UpAssumption
  <2>2. m = [f EXCEPT !.size = size, !.placement = placement, !.replicas = replicas,
                      !.managed = managed]
    BY <1>3, <2>1 DEF Merge, Manifest
  <2>3. size \in STRING /\ placement \in STRING /\ replicas \in Int \cup {None}
    BY <2>1 DEF Manifest
  <2>4. /\ managed \in SUBSET (Level \X STRING \X STRING)
        /\ managed \subseteq f.managed \cup old.managed
    <3>1. /\ old.managed \in SUBSET (Level \X STRING \X STRING)
          /\ f.managed \in SUBSET (Level \X STRING \X STRING)
      BY <2>1 DEF Manifest
    <3> HIDE DEF stays
    <3> QED BY <3>1
  <2>5. old.replicas = before.replicas => replicas = f.replicas
    <3>1. before # NoFile
      BY <2>1
    <3> QED BY <3>1
  <2>6. ControlPlaneReplicas(old.size) = ControlPlaneReplicas(before.size) =>
            ControlPlaneReplicas(size) = ControlPlaneReplicas(f.size)
    <3>1. CASE vs
      BY <3>1
    <3>2. CASE ~vs
      <4>1. f.size = "" /\ before.size = ""
        BY <2>1, <3>2 DEF HasVariables
      <4> QED BY <3>2, <4>1
    <3> QED BY <3>1, <3>2
  <2> HIDE DEF vs, size, placement, replicas, named, stays, managed
  <2>7. /\ m \in Manifest
        /\ m.kind = f.kind /\ m.name = f.name /\ m.class = f.class /\ m.pools = f.pools
        /\ m.label = f.label /\ m.version = f.version /\ m.size = size
        /\ m.replicas = replicas /\ m.managed = managed
    <3> HIDE DEF m
    <3> QED BY <2>2, <2>3, <2>4 DEF Manifest
  <2>8. old.managed = IF old = NoFile THEN {} ELSE old.managed
    BY <1>3
  <2> HIDE DEF m
  <2>9. /\ m.managed \subseteq f.managed \cup (IF old = NoFile THEN {} ELSE old.managed)
        /\ (old # NoFile => /\ old.replicas = before.replicas
                            /\ ControlPlaneReplicas(old.size) = ControlPlaneReplicas(before.size))
              => /\ m.replicas = f.replicas
                 /\ ControlPlaneReplicas(m.size) = ControlPlaneReplicas(f.size)
    BY <1>3, <2>4, <2>5, <2>6, <2>7, <2>8
  <2> QED BY <2>7, <2>9 DEF m
<1> QED BY <1>2, <1>3

\* What is submitted of an accepted file: the file, completed, and nothing managed
\* that the stored Cluster has not.
LEMMA SubmittedFields ==
    ASSUME LastApplied, file \in Manifest, FromYAML(file).errs = {}
    PROVE  /\ Submitted \in Manifest /\ Submitted # NoFile
           /\ Submitted.kind = file.kind /\ Submitted.name = file.name
           /\ Submitted.class = file.class
           /\ Submitted.pools = file.pools /\ Submitted.version = asStored(file.version)
           /\ Submitted.managed \subseteq
                 file.managed \cup (IF stored = NoFile THEN {} ELSE stored.managed)
           /\ ~edited => /\ Submitted.replicas = file.replicas
                         /\ ControlPlaneReplicas(Submitted.size) = ControlPlaneReplicas(file.size)
<1> DEFINE m == Merge(file, stored, last)
<1>1. FieldDenials(file) = {}
  BY NoDenials
<1>2. stored \in Manifest \cup {NoFile} /\ (stored = NoFile <=> last = NoFile)
  BY DEF LastApplied
<1>3. stored # NoFile => last \in Manifest /\ FieldDenials(last) = {}
  BY NoDenials DEF LastApplied
<1>4. ~edited => (stored # NoFile => /\ stored.replicas = last.replicas
                                     /\ ControlPlaneReplicas(stored.size) = ControlPlaneReplicas(last.size))
  BY DEF LastApplied
<1>5. /\ m \in Manifest
      /\ m.kind = file.kind /\ m.name = file.name /\ m.class = file.class
      /\ m.pools = file.pools /\ m.version = file.version
      /\ m.managed \subseteq file.managed \cup (IF stored = NoFile THEN {} ELSE stored.managed)
      /\ ~edited => /\ m.replicas = file.replicas
                    /\ ControlPlaneReplicas(m.size) = ControlPlaneReplicas(file.size)
  BY <1>1, <1>2, <1>3, <1>4, MergeFields
<1> HIDE DEF m
<1> DEFINE g == Webhook(m, classes)
<1>6. /\ g \in Manifest
      /\ g.kind = m.kind /\ g.name = m.name /\ g.class = m.class /\ g.pools = m.pools
      /\ g.replicas = m.replicas /\ g.managed = m.managed
      /\ g.version = asStored(m.version)
      /\ ControlPlaneReplicas(g.size) = ControlPlaneReplicas(m.size)
  BY <1>5, WebhookFields
<1>7. Submitted = g
  BY DEF Submitted, m
<1> HIDE DEF g
<1>8. g # NoFile
  BY <1>6, UpAssumption
<1> QED BY <1>5, <1>6, <1>7, <1>8

\* What `new` writes is a file of the shape files have.
LEMMA ClusterIsFile ==
    ASSUME NEW s \in Flags
    PROVE  LET f == Cluster(s)
           IN  /\ f \in Manifest
               /\ f.kind = "Cluster" /\ f.name = s.name /\ f.version = s.version
               /\ f.size = Default(s.size, "dev") /\ f.placement = Default(s.placement, "self")
               /\ f.class = ClassFor(Defaults(s).class, Default(s.placement, "self"))
               /\ f.replicas = ControlPlaneReplicas(Default(s.size, "dev"))
               /\ f.managed = {} /\ f.pools = s.pools
<1> DEFINE d == Defaults(s)
           c == ClassFor(d.class, d.placement)
           f == Cluster(s)
<1>1. s \in Spec6
  BY UpAssumption
<1>2. /\ d.name = s.name /\ d.version = s.version /\ d.pools = s.pools
      /\ d.size = Default(s.size, "dev") /\ d.placement = Default(s.placement, "self")
      /\ d.class = IF s.class = NoClass THEN [base |-> DefaultClass, hosted |-> FALSE] ELSE s.class
  BY <1>1 DEF Defaults, Spec6
<1>3. d.class \in [base : STRING, hosted : BOOLEAN]
  <2>1. s.class \in [base : STRING, hosted : BOOLEAN] \cup {NoClass}
    BY <1>1 DEF Spec6
  <2>2. "std" \in STRING
    BY UpAssumption
  <2>3. [base |-> DefaultClass, hosted |-> FALSE] \in [base : STRING, hosted : BOOLEAN]
    BY <2>2 DEF DefaultClass
  <2> QED BY <1>2, <2>1, <2>3
<1>4. c \in [base : STRING, hosted : BOOLEAN]
  BY <1>3 DEF ClassFor
<1>5. d.size \in STRING /\ d.placement \in STRING
  BY <1>1, <1>2, UpAssumption DEF Default, Spec6
<1>6. d.name \in STRING /\ d.version \in Version /\ d.pools \in Seq(Pool)
  BY <1>1, <1>2 DEF Spec6
<1>7. ControlPlaneReplicas(d.size) \in Int
  BY DEF ControlPlaneReplicas
<1>8. f = [kind |-> "Cluster", name |-> d.name, class |-> c, classNamespace |-> "",
           version |-> d.version, size |-> d.size, placement |-> d.placement,
           replicas |-> ControlPlaneReplicas(d.size), managed |-> {}, pools |-> d.pools,
           label |-> FALSE, more |-> FALSE]
  BY DEF Cluster
<1>9. "Cluster" \in STRING /\ "" \in STRING
  BY UpAssumption
<1>10. c = ClassFor(Defaults(s).class, Default(s.placement, "self"))
  BY <1>2
<1> HIDE DEF d, c, f
<1>11. f \in Manifest
  BY <1>4, <1>5, <1>6, <1>7, <1>8, <1>9 DEF Manifest
<1>12. /\ f.kind = "Cluster" /\ f.name = s.name /\ f.version = s.version
       /\ f.size = Default(s.size, "dev") /\ f.placement = Default(s.placement, "self")
       /\ f.class = c /\ f.replicas = ControlPlaneReplicas(Default(s.size, "dev"))
       /\ f.managed = {} /\ f.pools = s.pools
  BY <1>2, <1>8
<1> QED BY <1>10, <1>11, <1>12 DEF f

-----------------------------------------------------------------------------
(* The invariant.                                                          *)

\* Nothing has been read and nothing is stored at first.
LEMMA UInit == Init => UInv
<1> SUFFICES ASSUME Init PROVE UInv
  OBVIOUS
<1>1. UpRecord(up) /\ up.step = "idle"
  BY DEF Init, Idle, UpRecord
<1> QED BY <1>1 DEF Init, UInv, Accepted, LastApplied, Waited

\* Reading, looking up and ending touch no Cluster and no file but to drop it.
LEMMA UOwnStep ==
    ASSUME UInv, Write \/ New \/ Start \/ Plan \/ ReadFails \/ CheckClass \/ Replay
                       \/ LookupFails \/ NoKubectl \/ Setup \/ NoClient \/ End
    PROVE  UInv'
<1> USE DEF UInv
<1>1. LastApplied'
  BY DEF Write, New, Start, Plan, ReadFails, CheckClass, Replay, LookupFails, NoKubectl, Setup,
         NoClient, End, Unserved, LastApplied
<1>2. CASE Write \/ New
  <2>1. file = NoFile /\ file' \in Manifest /\ up' = up
    BY <1>2, UpAssumption, ClusterIsFile DEF Write, New
  <2>2. up.step \notin {"class", "apply", "setup", "watch", "replay", "planned"}
    BY <2>1, UpAssumption DEF Accepted
  <2> QED BY <1>1, <2>1, <2>2 DEF Accepted, Waited, UpRecord
<1>3. CASE Start
  <2>1. file' = file /\ file \in Manifest
    BY <1>3 DEF Start, Accepted
  <2>2. CASE FromYAML(file).errs = {}
    <3>1. up' = [[Idle EXCEPT !.spec = FromYAML(file).spec, !.errs = FromYAML(file).errs]
                   EXCEPT !.step = "class"]
      BY <1>3, <2>2 DEF Start
    <3>2. /\ UpRecord(up)' /\ up'.step = "class" /\ up'.looked = {}
          /\ up'.spec = FromYAML(file).spec
      BY <3>1 DEF Idle, UpRecord
    <3> QED BY <1>1, <2>1, <2>2, <3>2 DEF Accepted, Waited
  <2>3. CASE FromYAML(file).errs # {}
    <3>1. UpRecord(up)' /\ up'.step = "denied"
      BY <1>3, <2>3 DEF Start, Idle, UpRecord
    <3> QED BY <1>1, <2>1, <3>1 DEF Accepted, Waited
  <2> QED BY <2>2, <2>3
<1>4. CASE Plan
  <2>1. /\ file' = file /\ file \in Manifest /\ FromYAML(file).errs = {}
        /\ up' = [Idle EXCEPT !.step = "planned", !.spec = FromYAML(file).spec]
    BY <1>4 DEF Plan, Accepted
  <2>2. UpRecord(up)' /\ up'.step = "planned" /\ up'.spec = FromYAML(file).spec
    BY <2>1 DEF Idle, UpRecord
  <2> QED BY <1>1, <2>1, <2>2 DEF Accepted, Waited
<1>5. CASE ReadFails
  <2>1. file' = file /\ UpRecord(up)' /\ up'.step = "failed"
    BY <1>5 DEF ReadFails, Idle, UpRecord
  <2> QED BY <1>1, <2>1 DEF Accepted, Waited
<1>6. CASE CheckClass
  <2>1. /\ file' = file /\ UpRecord(up)' /\ up'.spec = up.spec /\ up'.looked = classes
        /\ up.step = "class"
        /\ up'.step = IF WantedClass \in classes \/ classes = {} THEN "apply" ELSE "failed"
    BY <1>6 DEF CheckClass, Accepted, UpRecord
  <2>2. WantedClass' = WantedClass
    BY <2>1 DEF WantedClass
  <2> QED BY <1>1, <2>1, <2>2 DEF Accepted, Waited
<1>7. CASE Replay
  <2>1. /\ file' = file /\ UpRecord(up)' /\ up'.spec = up.spec
        /\ up.step = "class" /\ up'.step = "replay"
    BY <1>7 DEF Replay, Accepted, UpRecord
  <2> QED BY <1>1, <2>1 DEF Accepted, Waited
<1>8. CASE LookupFails
  <2>1. /\ file' = file /\ UpRecord(up)' /\ up'.spec = up.spec
        /\ up.step = "class" /\ up'.step = "apply" /\ up'.looked = {}
    BY <1>8 DEF LookupFails, Accepted, UpRecord
  <2> QED BY <1>1, <2>1 DEF Accepted, Waited
<1>9. CASE NoKubectl \/ NoClient
  <2>1. file' = file /\ UpRecord(up)' /\ up'.step = "failed"
    BY <1>9 DEF NoKubectl, NoClient, Accepted, UpRecord
  <2> QED BY <1>1, <2>1 DEF Accepted, Waited
<1>11. CASE Setup
  <2>1. /\ file' = file /\ UpRecord(up)' /\ up'.spec = up.spec /\ up'.looked = up.looked
        /\ up.step = "setup" /\ up'.step \in {"failed", "watch"}
        /\ UNCHANGED <<stored, edited>>
    BY <1>11 DEF Setup, Unserved, Accepted, UpRecord
  <2>2. WantedClass' = WantedClass
    BY <2>1 DEF WantedClass
  <2> QED BY <1>1, <2>1, <2>2 DEF Accepted, Waited
<1>10. CASE End
  <2>1. file' = NoFile /\ UpRecord(up)' /\ up'.step = "idle"
    BY <1>10 DEF End, Idle, UpRecord
  <2> QED BY <1>1, <2>1 DEF Accepted, Waited
<1> QED BY <1>2, <1>3, <1>4, <1>5, <1>6, <1>7, <1>8, <1>9, <1>10, <1>11

\* kubectl stores the accepted file, or nothing.
LEMMA UApply == ASSUME UInv, Apply \/ ApplyFails PROVE UInv'
<1> USE DEF UInv
<1>1. /\ up.step = "apply" /\ file' = file
      /\ file \in Manifest /\ FromYAML(file).errs = {} /\ up.spec = FromYAML(file).spec
  BY DEF Apply, ApplyFails, Accepted
<1>2. /\ Submitted \in Manifest /\ Submitted # NoFile /\ file # NoFile
      /\ Submitted.name = file.name /\ Submitted.class = file.class
      /\ Submitted.pools = file.pools /\ Submitted.version = asStored(file.version)
      /\ ~edited => /\ Submitted.replicas = file.replicas
                    /\ ControlPlaneReplicas(Submitted.size) = ControlPlaneReplicas(file.size)
  BY <1>1, SubmittedFields, UpAssumption
<1>3. Store => LastApplied'
  BY <1>1, <1>2 DEF Store, LastApplied
<1>4. CASE Apply
  <2>1. /\ UpRecord(up)' /\ up'.step = "setup" /\ up'.spec = up.spec /\ up'.looked = up.looked
        /\ Store
    BY <1>4 DEF Apply, Accepted, UpRecord
  <2>2. Accepted'
    <3>1. WantedClass' = WantedClass
      BY <2>1 DEF WantedClass
    <3> QED BY <1>1, <2>1, <3>1 DEF Accepted
  <2>3. Waited'
    BY <1>1, <1>2, <2>1 DEF Waited, Store
  <2> QED BY <1>3, <2>1, <2>2, <2>3
<1>5. CASE ApplyFails
  <2>1. UpRecord(up)' /\ up'.step = "failed"
    BY <1>5 DEF ApplyFails, Accepted, UpRecord
  <2>2. LastApplied'
    BY <1>3, <1>5 DEF ApplyFails, LastApplied
  <2> QED BY <1>1, <2>1, <2>2 DEF Accepted, Waited
<1> QED BY <1>4, <1>5

\* The numbers another user may write are ones a file may hold.
LEMMA EditedReplicas == \A r \in {None, 1, 3} : r \in Int \cup {None}
OBVIOUS

\* The controllers write a managed field, another user the topology, or the
\* Cluster goes.
LEMMA UOthers == ASSUME UInv, WriteBack \/ Edit \/ Delete \/ Install PROVE UInv'
<1> USE DEF UInv
<1>1. file' = file /\ up' = up
  BY DEF WriteBack, Edit, Delete, Install, Others
<1>2. Accepted'
  BY <1>1 DEF Accepted, UpRecord, WantedClass
<1>3. CASE WriteBack
  <2> DEFINE mine == {p \in stored.managed : p[2] # "infrastructureRef"}
                        \cup {<<"spec", "infrastructureRef", "theirs">>}
  <2>1. /\ stored # NoFile /\ stored \in Manifest /\ last' = last /\ edited' = edited
        /\ stored' = [stored EXCEPT !.managed = mine]
    BY <1>3 DEF WriteBack, LastApplied
  <2>2. mine \in SUBSET (Level \X STRING \X STRING)
    <3>1. stored.managed \subseteq Level \X STRING \X STRING
      BY <2>1 DEF Manifest
    <3>2. "spec" \in Level /\ "infrastructureRef" \in STRING /\ "theirs" \in STRING
      BY UpAssumption DEF Level
    <3>3. <<"spec", "infrastructureRef", "theirs">> \in Level \X STRING \X STRING
      BY <3>2
    <3> QED BY <3>1, <3>3
  <2> HIDE DEF mine
  <2>3. /\ stored' \in Manifest /\ stored'.name = stored.name
        /\ stored'.class = stored.class /\ stored'.version = stored.version
        /\ stored'.pools = stored.pools /\ stored'.replicas = stored.replicas
        /\ stored'.size = stored.size
    BY <2>1, <2>2 DEF Manifest
  <2>4. stored' # NoFile
    BY <2>3, UpAssumption
  <2> QED BY <1>1, <1>2, <2>1, <2>3, <2>4 DEF LastApplied, Waited
<1>4. CASE Edit
  <2>1. /\ stored # NoFile /\ stored \in Manifest /\ last' = last /\ edited' = TRUE
    BY <1>4 DEF Edit, LastApplied
  <2>2. PICK size \in {"", "dev", "ha"}, replicas \in {None, 1, 3} :
            stored' = Webhook([stored EXCEPT !.size = size, !.replicas = replicas], classes)
    BY <1>4 DEF Edit
  <2>3. size \in STRING /\ replicas \in Int \cup {None}
    <3>1. size \in STRING
      <4>1. {"", "dev", "ha"} \subseteq STRING
        BY UpAssumption
      <4> QED BY <4>1
    <3>2. replicas \in Int \cup {None}
      <4>1. replicas \in {None, 1, 3}
        OBVIOUS
      <4> QED BY <4>1, EditedReplicas
    <3> QED BY <3>1, <3>2
  <2> DEFINE new == [stored EXCEPT !.size = size, !.replicas = replicas]
  <2>4. new \in Manifest
    BY <2>1, <2>3 DEF Manifest
  <2> HIDE DEF new
  <2>5. Webhook(new, classes) \in Manifest
    BY <2>4, WebhookFields
  <2>6. stored' \in Manifest /\ stored' # NoFile
    BY <2>2, <2>5, UpAssumption DEF new
  <2> QED BY <1>1, <1>2, <2>1, <2>6 DEF LastApplied, Waited
<1>5. CASE Delete
  BY <1>1, <1>2, <1>5 DEF Delete, LastApplied, Waited
<1>6. CASE Install
  <2>1. UNCHANGED <<stored, last, edited>>
    BY <1>6 DEF Install
  <2> QED BY <1>1, <1>2, <2>1 DEF LastApplied, Waited
<1> QED BY <1>3, <1>4, <1>5, <1>6

\* Every step keeps it.
LEMMA UInductive == Spec => []UInv
<1>1. ASSUME UInv, UNCHANGED vars PROVE UInv'
  BY <1>1 DEF vars, UInv, Accepted, UpRecord, WantedClass, LastApplied, Waited
<1>2. UInv /\ [Next]_vars => UInv'
  BY <1>1, UOwnStep, UApply, UOthers DEF Next
<1> QED BY UInit, <1>2, PTL DEF Spec

-----------------------------------------------------------------------------
(* The properties.                                                         *)

\* A file that gen accepts is not denied by the policy, unless somebody has
\* edited the Cluster past kubectl apply: for any files, classes, and whatever
\* the controllers have written.
THEOREM UpAcceptedIsAdmitted == Spec => []AcceptedIsAdmitted
<1>1. UInv => AcceptedIsAdmitted
  <2> SUFFICES ASSUME UInv, up.step \in {"apply", "planned"}, ~edited
               PROVE  Admits(Submitted, stored, group)
    BY DEF AcceptedIsAdmitted
  <2> DEFINE m == Submitted
  <2>1. /\ file \in Manifest /\ FromYAML(file).errs = {}
        /\ LastApplied
    BY DEF UInv, Accepted
  <2>2. /\ m \in Manifest /\ m.kind = file.kind
        /\ m.pools = file.pools /\ m.version = asStored(file.version)
        /\ m.managed \subseteq file.managed \cup (IF stored = NoFile THEN {} ELSE stored.managed)
        /\ m.replicas = file.replicas
        /\ ControlPlaneReplicas(m.size) = ControlPlaneReplicas(file.size)
    BY <2>1, SubmittedFields
  <2>3. /\ ~IsManagedKind(file.kind)
        /\ file.replicas \in {None, ControlPlaneReplicas(file.size)}
        /\ \A p \in ToSet(file.pools) : p.keys \subseteq GenAllows["pool"]
        /\ \A p \in file.managed : p[2] \in GenAllows[p[1]]
    BY <2>1, NoDenials, NoFieldDenials
  <2>4. IsVersion(asStored(file.version))
    <3>1. Validate(SpecOf(file)) = {}
      BY <2>1, NoDenials
    <3>2. SpecOf(file).version = file.version
      BY DEF SpecOf
    <3> QED BY <3>1, <3>2, NoValidation
  <2>5. \A p \in ToSet(m.pools) : \A key \in p.keys : key \in PolicyAllows["pool"]
    <3>1. "pool" \in Level
      BY DEF Level
    <3> QED BY <2>2, <2>3, <3>1, PolicyAllowsAll
  <2> HIDE DEF m
  <2>6. ~denied(m, stored)
    <3>1. \A p \in m.managed \ (IF stored = NoFile THEN {} ELSE stored.managed) :
              p[2] \in PolicyAllows[p[1]]
      <4>1. \A p \in file.managed : p[1] \in Level
        BY <2>1 DEF Manifest
      <4> QED BY <2>2, <2>3, <4>1, PolicyAllowsAll
    <3>2. m.replicas \in {None, ControlPlaneReplicas(m.size)}
      BY <2>2, <2>3
    <3> QED BY <2>5, <3>1, <3>2 DEF denied
  <2>7. ~versionMalformed(m, stored)
    BY <2>2, <2>4 DEF versionMalformed
  <2>8. Admits(m, stored, group)
    BY <2>2, <2>3, <2>6, <2>7 DEF Admits
  <2> QED BY <2>8 DEF m
<1> QED BY <1>1, UInductive, PTL

\* The class that is looked up is the class the file names, when that agrees with
\* the file's placement.
LEMMA AgreeingClass ==
    ASSUME NEW f \in Manifest, Agrees(f)
    PROVE  LET s == Defaults(SpecOf(f)) IN ClassFor(s.class, s.placement) = f.class
<1> DEFINE s == Defaults(SpecOf(f))
<1>1. f.class \in [base : STRING, hosted : BOOLEAN]
  BY DEF Agrees, Manifest
<1>2. [f.class EXCEPT !.hosted = FALSE] # NoClass
  BY <1>1, UpAssumption
<1>3. s.class = [f.class EXCEPT !.hosted = FALSE] /\ s.placement = Default(f.placement, "self")
  BY <1>2 DEF Defaults, SpecOf, Agrees
<1>4. s.placement = hosted <=> f.placement = hosted
  BY <1>3 DEF Default, hosted
<1>5. f.class.hosted = (f.placement = hosted)
  BY DEF Agrees
<1>6. CASE f.placement = hosted
  <2>1. ClassFor(s.class, s.placement) = [[f.class EXCEPT !.hosted = FALSE] EXCEPT !.hosted = TRUE]
    BY <1>3, <1>4, <1>6 DEF ClassFor
  <2>2. f.class.hosted = TRUE
    BY <1>5, <1>6
  <2> QED BY <1>1, <2>1, <2>2
<1>7. CASE f.placement # hosted
  <2>1. ClassFor(s.class, s.placement) = [f.class EXCEPT !.hosted = FALSE]
    BY <1>3, <1>4, <1>7 DEF ClassFor
  <2>2. f.class.hosted = FALSE
    BY <1>5, <1>7
  <2> QED BY <1>1, <2>1, <2>2
<1> QED BY <1>6, <1>7

\* While `up`, given the name that is in the file, waits for a Cluster, that Cluster
\* is stored as the file has it, and of a class that was installed when it was looked
\* up, for any files, names and classes.
THEOREM UpWaitsForWhatItApplied == Spec => []WaitsForWhatItApplied
<1>1. UInv => WaitsForWhatItApplied
  <2> SUFFICES ASSUME UInv, up.step = "watch", up.name = file.name, stored # NoFile, ~edited
               PROVE  /\ stored.name = up.name
                      /\ stored.class = file.class /\ stored.version = asStored(file.version)
                      /\ stored.pools = file.pools
                      /\ stored.replicas = file.replicas
                      /\ ControlPlaneReplicas(stored.size) = ControlPlaneReplicas(file.size)
                      /\ Agrees(file) /\ up.looked # {} => stored.class \in up.looked
    BY DEF WaitsForWhatItApplied
  <2>1. /\ stored.name = up.name
        /\ stored.class = file.class /\ stored.version = asStored(file.version)
        /\ stored.pools = file.pools
        /\ stored.replicas = file.replicas
        /\ ControlPlaneReplicas(stored.size) = ControlPlaneReplicas(file.size)
    BY DEF UInv, Waited
  <2>2. /\ file \in Manifest /\ FromYAML(file).errs = {} /\ up.spec = FromYAML(file).spec
        /\ up.looked # {} => WantedClass \in up.looked
    BY DEF UInv, Accepted
  <2>3. up.spec = Defaults(SpecOf(file))
    BY <2>2, NoDenials
  <2>4. Agrees(file) => WantedClass = file.class
    BY <2>2, <2>3, AgreeingClass DEF WantedClass
  <2> QED BY <2>1, <2>2, <2>4
<1> QED BY <1>1, UInductive, PTL

-----------------------------------------------------------------------------
(* What `new` writes.                                                      *)

\* The file of the command is the one `new` wrote from `made`.
Written == made # NoFile => made \in Flags /\ Validate(made) = {} /\ file = Cluster(made)

\* No step but `new` writes a file from flags, and the command's end drops both.
LEMMA WrittenInductive == Spec => []Written
<1>1. Init => Written
  BY DEF Init, Written
<1>2. Written /\ [Next]_vars => Written'
  <2> SUFFICES ASSUME Written, [Next]_vars PROVE Written'
    OBVIOUS
  <2>1. CASE Write
    <3>1. made # NoFile => file # NoFile
      BY ClusterIsFile, UpAssumption DEF Written
    <3> QED BY <2>1, <3>1 DEF Write, Written
  <2>2. CASE New
    BY <2>2 DEF New, Written
  <2>3. CASE End
    BY <2>3 DEF End, Written
  <2>4. CASE UNCHANGED <<file, made>>
    BY <2>4 DEF Written
  <2>5. Start \/ Plan \/ ReadFails \/ CheckClass \/ Replay \/ LookupFails \/ NoKubectl
          \/ Apply \/ ApplyFails \/ Setup \/ NoClient => UNCHANGED <<file, made>>
    BY DEF Start, Plan, ReadFails, CheckClass, Replay, LookupFails, NoKubectl, Apply, ApplyFails,
           Setup, NoClient
  <2>6. WriteBack \/ Edit \/ Delete \/ Install \/ UNCHANGED vars => UNCHANGED <<file, made>>
    BY DEF WriteBack, Edit, Delete, Install, Others, vars
  <2> QED BY <2>1, <2>2, <2>3, <2>4, <2>5, <2>6 DEF Next
<1> QED BY <1>1, <1>2, PTL DEF Spec

\* A file that `new` writes has nothing that gen denies.
LEMMA ClusterAccepted ==
    ASSUME NEW s \in Flags, Validate(s) = {}
    PROVE  LET f == Cluster(s)
           IN  /\ FromYAML(f).errs = {} /\ FromYAML(f).spec = Defaults(SpecOf(f))
               /\ ~IsManagedKind(f.kind)
               /\ f.replicas = ControlPlaneReplicas(f.size)
               /\ f.managed = {} /\ \A p \in ToSet(f.pools) : p.keys = {}
               /\ IsVersion(asStored(f.version))
<1> DEFINE f == Cluster(s)
<1>1. /\ f \in Manifest
      /\ f.kind = "Cluster" /\ f.name = s.name /\ f.version = s.version
      /\ f.size = Default(s.size, "dev") /\ f.placement = Default(s.placement, "self")
      /\ f.replicas = ControlPlaneReplicas(Default(s.size, "dev"))
      /\ f.managed = {} /\ f.pools = s.pools
  BY ClusterIsFile
<1> HIDE DEF f
<1>2. \A p \in ToSet(f.pools) : p.keys = {}
  <2>1. f.pools \in Seq(Pool)
    BY <1>1 DEF Manifest
  <2>2. \A i \in 1 .. Len(f.pools) : f.pools[i].keys = {}
    BY <1>1, UpAssumption
  <2> QED BY <2>1, <2>2 DEF ToSet
<1>3. FieldDenials(f) = {}
  <2>1. {KeyDenied(p[1], p[2]) : p \in {q \in f.managed : q[2] \notin GenAllows[q[1]]}} = {}
    BY <1>1
  <2>2. {Managed("pool", key) :
            key \in (UNION {p.keys : p \in ToSet(f.pools)}) \ GenAllows["pool"]} = {}
    BY <1>2
  <2>3. f.replicas = ControlPlaneReplicas(f.size)
    BY <1>1
  <2> QED BY <2>1, <2>2, <2>3 DEF FieldDenials, When
<1>4. /\ s.name # "" /\ IsVersion(asStored(s.version)) /\ s.size \in {"", "dev", "ha"}
      /\ s.placement \in {"", "self", hosted} /\ PoolDenials(s.pools) = {}
  BY DEF Validate, When
<1>5. f.size \in {"", "dev", "ha"} /\ f.placement \in {"", "self", hosted}
  BY <1>1, <1>4 DEF Default
<1>6. /\ SpecOf(f).name = s.name /\ SpecOf(f).version = s.version /\ SpecOf(f).pools = s.pools
      /\ SpecOf(f).size = f.size /\ SpecOf(f).placement = f.placement
  BY <1>1 DEF SpecOf
<1>7. Validate(SpecOf(f)) = {}
  BY <1>4, <1>5, <1>6 DEF Validate, When
<1>8. f.kind # "not YAML" /\ ~IsManagedKind(f.kind)
  BY <1>1 DEF IsManagedKind, ManagedKinds, Templates
<1>9. FromYAML(f) = [spec |-> Defaults(SpecOf(f)), errs |-> FieldDenials(f) \cup Validate(SpecOf(f))]
  BY <1>8 DEF FromYAML
<1>11. /\ FromYAML(f).errs = {} /\ FromYAML(f).spec = Defaults(SpecOf(f))
       /\ f.replicas = ControlPlaneReplicas(f.size)
       /\ IsVersion(asStored(f.version))
  <2>1. FromYAML(f).errs = {} /\ FromYAML(f).spec = Defaults(SpecOf(f))
    BY <1>3, <1>7, <1>9
  <2>2. f.replicas = ControlPlaneReplicas(f.size)
    BY <1>1
  <2>3. IsVersion(asStored(f.version))
    BY <1>1, <1>4
  <2> QED BY <2>1, <2>2, <2>3
<1> QED BY <1>1, <1>2, <1>8, <1>11 DEF f

\* It reads back as the flags with their defaults, but for the suffix of a class.
LEMMA ClusterReadsBack ==
    ASSUME NEW s \in Flags, s.class = NoClass \/ ~s.class.hosted
    PROVE  Defaults(SpecOf(Cluster(s))) = Defaults(s)
<1> DEFINE f == Cluster(s)
           r == SpecOf(f)
           c == IF s.class = NoClass THEN [base |-> DefaultClass, hosted |-> FALSE] ELSE s.class
<1>1. s \in Spec6
  BY UpAssumption
<1>2. s.class \in [base : STRING, hosted : BOOLEAN] \cup {NoClass}
  BY <1>1 DEF Spec6
<1>3. c \in [base : STRING, hosted : BOOLEAN] /\ c.hosted = FALSE
  <2>1. CASE s.class = NoClass
    <3>1. "std" \in STRING
      BY UpAssumption
    <3> QED BY <2>1, <3>1 DEF DefaultClass
  <2>2. CASE s.class # NoClass
    BY <1>2, <2>2
  <2> QED BY <2>1, <2>2
<1>4. Defaults(s).class = c
  BY <1>1 DEF Defaults, Spec6
<1>5. /\ f.name = s.name /\ f.version = s.version /\ f.pools = s.pools
      /\ f.size = Default(s.size, "dev") /\ f.placement = Default(s.placement, "self")
      /\ f.class = ClassFor(c, Default(s.placement, "self"))
  BY <1>4, ClusterIsFile
<1> HIDE DEF c, f
<1>6. f.class \in [base : STRING, hosted : BOOLEAN] /\ [f.class EXCEPT !.hosted = FALSE] = c
  BY <1>3, <1>5 DEF ClassFor
<1>7. f.class # NoClass /\ c # NoClass
  BY <1>3, <1>6, UpAssumption
<1>8. r = [name |-> s.name, class |-> c, version |-> s.version, size |-> Default(s.size, "dev"),
           placement |-> Default(s.placement, "self"), pools |-> s.pools]
  BY <1>5, <1>6, <1>7 DEF SpecOf
<1> HIDE DEF r
<1>9. Default(r.size, "dev") = r.size /\ Default(r.placement, "self") = r.placement
  BY <1>8 DEF Default
<1>10. Defaults(r) = r
  <2>1. r.class # NoClass
    BY <1>7, <1>8
  <2>2. Defaults(r) = [r EXCEPT !.class = r.class, !.size = r.size, !.placement = r.placement]
    BY <1>8, <1>9, <2>1 DEF Defaults
  <2> QED BY <1>8, <2>2
<1>11. Defaults(s) = [s EXCEPT !.class = c, !.size = Default(s.size, "dev"),
                              !.placement = Default(s.placement, "self")]
  BY <1>1 DEF Defaults, Spec6, c
<1>12. Defaults(s) = r
  BY <1>1, <1>8, <1>11 DEF Spec6
<1> QED BY <1>10, <1>12 DEF r, f

\* What `new` writes is accepted by `up` and by the policy and reads back as the
\* flags it was written from, for any flags and any classes.
THEOREM UpNewRoundTrips == Spec => []NewRoundTrips
<1>1. Written => NewRoundTrips
  <2> SUFFICES ASSUME Written, made # NoFile
               PROVE  /\ FromYAML(file).errs = {} /\ Admits(Webhook(file, classes), NoFile, group)
                      /\ made.class = NoClass \/ ~made.class.hosted =>
                            /\ FromYAML(file).spec = Defaults(made)
                            /\ ClassFor(FromYAML(file).spec.class, FromYAML(file).spec.placement)
                                 = file.class
    BY DEF NewRoundTrips
  <2>1. made \in Flags /\ Validate(made) = {} /\ file = Cluster(made)
    BY DEF Written
  <2>2. /\ FromYAML(file).errs = {} /\ FromYAML(file).spec = Defaults(SpecOf(file))
        /\ ~IsManagedKind(file.kind)
        /\ file.replicas = ControlPlaneReplicas(file.size)
        /\ file.managed = {} /\ \A p \in ToSet(file.pools) : p.keys = {}
        /\ IsVersion(asStored(file.version))
    BY <2>1, ClusterAccepted
  <2>3. /\ file \in Manifest
        /\ file.class = ClassFor(Defaults(made).class, Default(made.placement, "self"))
    BY <2>1, ClusterIsFile
  <2>4. Admits(Webhook(file, classes), NoFile, group)
    <3> DEFINE g == Webhook(file, classes)
    <3>1. /\ g.kind = file.kind /\ g.pools = file.pools /\ g.replicas = file.replicas
          /\ g.managed = file.managed /\ g.version = asStored(file.version)
          /\ ControlPlaneReplicas(g.size) = ControlPlaneReplicas(file.size)
      BY <2>3, WebhookFields
    <3> HIDE DEF g
    <3>2. \A p \in ToSet(g.pools) : p.keys = {}
      BY <2>2, <3>1
    <3>3. g.replicas \in {None, ControlPlaneReplicas(g.size)} /\ g.managed = {}
      BY <2>2, <3>1
    <3>4. ~denied(g, NoFile)
      BY <3>2, <3>3 DEF denied
    <3>5. ~versionMalformed(g, NoFile)
      BY <2>2, <3>1 DEF versionMalformed
    <3>6. Admits(g, NoFile, group)
      BY <2>2, <3>1, <3>4, <3>5 DEF Admits
    <3> QED BY <3>6 DEF g
  <2>5. ASSUME made.class = NoClass \/ ~made.class.hosted
        PROVE  /\ FromYAML(file).spec = Defaults(made)
               /\ ClassFor(FromYAML(file).spec.class, FromYAML(file).spec.placement) = file.class
    <3>1. FromYAML(file).spec = Defaults(made)
      BY <2>1, <2>2, <2>5, ClusterReadsBack
    <3>2. Defaults(made).placement = Default(made.placement, "self")
      BY <2>1, UpAssumption DEF Defaults, Spec6
    <3> QED BY <2>3, <3>1, <3>2
  <2> QED BY <2>2, <2>4, <2>5
<1> QED BY <1>1, WrittenInductive, PTL

-----------------------------------------------------------------------------
(* What the policy makes of a file that gen denies, and the types.         *)

\* Some number of a set of naturals is the least.
LEMMA LeastNumber ==
    ASSUME NEW S, S \subseteq Nat, S # {}
    PROVE  \E n \in S : \A k \in S : n <= k
<1> DEFINE R == {p \in Nat \X Nat : p[1] < p[2]}
<1>1. R = OpToRel(<, Nat)
  BY Zenon DEF OpToRel
<1>2. IsWellFoundedOn(R, Nat)
  BY <1>1, NatLessThanWellFounded
<1>3. \E n \in S : \A k \in S : ~(<<k, n>> \in R)
  <2> HIDE DEF R
  <2> QED BY <1>2, WFMin
<1>4. PICK n \in S : \A k \in S : ~(<<k, n>> \in R)
  BY <1>3
<1>5. ASSUME NEW k \in S PROVE n <= k
  <2>1. <<k, n>> \in Nat \X Nat
    OBVIOUS
  <2>2. ~(k < n)
    BY <2>1, <1>4, Zenon
  <2> QED BY <2>2
<1> QED BY <1>5

\* Counting up to n: a set that has 0, and with each number the next, has them all.
LEMMA CountUp ==
    ASSUME NEW n \in Nat, NEW S, 0 \in S, \A k \in 0 .. n : k < n /\ k \in S => k + 1 \in S
    PROVE  \A k \in 0 .. n : k \in S
<1> SUFFICES ASSUME {k \in 0 .. n : k \notin S} # {} PROVE FALSE
  OBVIOUS
<1>1. PICK m \in {k \in 0 .. n : k \notin S} : \A k \in {j \in 0 .. n : j \notin S} : m <= k
  <2>1. {k \in 0 .. n : k \notin S} \subseteq Nat
    OBVIOUS
  <2> QED BY <2>1, LeastNumber
<1>2. m \in 1 .. n /\ m \notin S
  BY <1>1
<1>3. m - 1 \in 0 .. n /\ m - 1 < n /\ (m - 1) + 1 = m /\ ~(m <= m - 1)
  BY <1>2
<1>4. m - 1 \in S
  BY <1>1, <1>3
<1> QED BY <1>2, <1>3, <1>4

\* What is assumed of the bounds and of the classes.
LEMMA Bounds ==
    /\ MaxRuns \in Nat /\ MaxChanges \in Nat
    /\ ClassOrder \in Seq([base : STRING, hosted : BOOLEAN])
BY UpAssumption, Zenon

\* The classes are the members of the order they are listed in.
LEMMA ListedClasses ==
    /\ Len(ClassOrder) \in Nat
    /\ \A i \in 1 .. Len(ClassOrder) : ClassOrder[i] \in Class
BY Bounds DEF Class, ToSet

-----------------------------------------------------------------------------
(* The distance of the code is the number of edits.                        *)

\* g begins with base and takes each of its values from the one before.
Steps(g, n, base, F) == g[0] = base /\ \A i \in 1 .. n : g[i] = F[<<g[i - 1], i>>]

\* Such a function exists.
LEMMA StepByStep ==
    ASSUME NEW n \in Nat, NEW V, NEW base \in V, NEW F \in [V \X (1 .. n) -> V]
    PROVE  \E g \in [0 .. n -> V] : Steps(g, n, base, F)
<1> USE DEF Steps
<1> DEFINE Upto(g, k) == g \in [0 .. k -> V] /\ Steps(g, k, base, F)
           S == {k \in 0 .. n : \E g : Upto(g, k)}
<1>1. 0 \in S
  <2> DEFINE h == [i \in 0 .. 0 |-> base]
  <2>1. Upto(h, 0)
    OBVIOUS
  <2> HIDE DEF h
  <2> QED BY <2>1
<1>2. ASSUME NEW k \in 0 .. n, k < n, k \in S PROVE k + 1 \in S
  <2>1. PICK g : Upto(g, k)
    BY <1>2
  <2> DEFINE h == [i \in 0 .. k + 1 |-> IF i = k + 1 THEN F[<<g[k], k + 1>>] ELSE g[i]]
  <2>2. g[k] \in V /\ k + 1 \in 1 .. n /\ F[<<g[k], k + 1>>] \in V
    BY <1>2, <2>1
  <2>3. h \in [0 .. k + 1 -> V] /\ h[0] = base
    BY <2>1, <2>2
  <2>4. ASSUME NEW i \in 1 .. k + 1 PROVE h[i] = F[<<h[i - 1], i>>]
    <3>1. CASE i = k + 1
      <4>1. h[i] = F[<<g[k], k + 1>>] /\ h[i - 1] = g[k] /\ i - 1 = k
        BY <3>1
      <4> QED BY <3>1, <4>1
    <3>2. CASE i # k + 1
      <4>1. i \in 1 .. k /\ h[i] = g[i] /\ h[i - 1] = g[i - 1]
        BY <3>2
      <4> QED BY <2>1, <4>1
    <3> QED BY <3>1, <3>2
  <2> HIDE DEF h
  <2>5. Upto(h, k + 1) /\ k + 1 \in 0 .. n
    BY <2>2, <2>3, <2>4
  <2> QED BY <2>5
<1> HIDE DEF S
<1>3. n \in S
  BY <1>1, <1>2, CountUp
<1> QED BY <1>3 DEF S

\* The table of the distances between the beginnings of a and those of b.
IsTable(D, a, b) ==
    /\ D \in [0 .. Len(a) -> [0 .. Len(b) -> Nat]]
    /\ \A j \in 0 .. Len(b) : D[0][j] = j
    /\ \A i \in 1 .. Len(a) :
          /\ D[i][0] = i
          /\ \A j \in 1 .. Len(b) :
                D[i][j] = Smaller(D[i - 1][j] + 1,
                                  Smaller(D[i][j - 1] + 1,
                                          D[i - 1][j - 1] + IF a[i] = b[j] THEN 0 ELSE 1))

\* It exists, and the distance is its last number.
LEMMA DistanceTable ==
    ASSUME NEW L, NEW a \in Seq(L), NEW b \in Seq(L)
    PROVE  \E D : IsTable(D, a, b) /\ distance(a, b) = D[Len(a)][Len(b)]
<1> DEFINE n == Len(a)
           m == Len(b)
           Cell(prev, i, v, j) ==
               Smaller(prev[j] + 1, Smaller(v + 1, prev[j - 1] + IF a[i] = b[j] THEN 0 ELSE 1))
           IsRow(r, prev, i) ==
               r = [j \in 0 .. m |-> IF j = 0 THEN i ELSE Cell(prev, i, r[j - 1], j)]
           Row(prev, i) == CHOOSE r : IsRow(r, prev, i)
           top == [j \in 0 .. m |-> j]
           AreRows(R) == R = [i \in 0 .. n |-> IF i = 0 THEN top ELSE Row(R[i - 1], i)]
           rows == CHOOSE R : AreRows(R)
           Width == [0 .. m -> Nat]
<1>1. distance(a, b) = rows[n][m]
  BY DEF distance
<1>2. n \in Nat /\ m \in Nat
  OBVIOUS
<1>3. \A prev \in Width, i, v \in Nat, j \in 1 .. m : Cell(prev, i, v, j) \in Nat
  <2> TAKE prev \in Width, i, v \in Nat, j \in 1 .. m
  <2> DEFINE x == prev[j] + 1
             y == v + 1
             z == prev[j - 1] + IF a[i] = b[j] THEN 0 ELSE 1
  <2>1. prev[j] \in Nat /\ prev[j - 1] \in Nat
    BY SMTT(30), <1>2
  <2>2. x \in Nat /\ y \in Nat /\ z \in Nat
    BY <2>1
  <2> HIDE DEF x, y, z
  <2>3. Smaller(x, Smaller(y, z)) \in Nat
    BY <2>2 DEF Smaller
  <2> QED BY <2>3 DEF x, y, z
<1> HIDE DEF n, m, Cell
<1>4. ASSUME NEW prev \in Width, NEW i \in Nat
      PROVE  /\ Row(prev, i) \in Width /\ Row(prev, i)[0] = i
             /\ \A j \in 1 .. m : Row(prev, i)[j] = Cell(prev, i, Row(prev, i)[j - 1], j)
  <2> DEFINE F == [p \in Nat \X (1 .. m) |-> Cell(prev, i, p[1], p[2])]
             r == Row(prev, i)
  <2>1. F \in [Nat \X (1 .. m) -> Nat]
    BY <1>3
  <2>2. \A v \in Nat, j \in 1 .. m : F[<<v, j>>] = Cell(prev, i, v, j)
    OBVIOUS
  <2> HIDE DEF F
  <2>3. PICK g \in [0 .. m -> Nat] : Steps(g, m, i, F)
    BY <1>2, <2>1, StepByStep
  <2>4. IsRow(g, prev, i)
    <3>1. ASSUME NEW j \in 0 .. m
          PROVE  g[j] = IF j = 0 THEN i ELSE Cell(prev, i, g[j - 1], j)
      <4>1. CASE j # 0
        <5>1. j \in 1 .. m /\ j - 1 \in 0 .. m /\ g[j - 1] \in Nat
          BY <1>2, <2>3, <4>1
        <5> QED BY <2>2, <2>3, <4>1, <5>1 DEF Steps
      <4> QED BY <2>3, <4>1 DEF Steps
    <3>2. g = [j \in 0 .. m |-> g[j]]
      BY <2>3
    <3> QED BY <3>1, <3>2, Zenon
  <2>5. IsRow(r, prev, i)
    BY <2>4
  <2> HIDE DEF r
  <2>6. r[0] = i /\ \A j \in 1 .. m : r[j] = Cell(prev, i, r[j - 1], j)
    <3>1. \A j \in 0 .. m : r[j] = IF j = 0 THEN i ELSE Cell(prev, i, r[j - 1], j)
      BY <2>5, Zenon
    <3>2. 0 \in 0 .. m /\ \A j \in 1 .. m : j \in 0 .. m /\ j # 0
      BY <1>2
    <3> QED BY <3>1, <3>2, Zenon
  <2>7. \A j \in 0 .. m : r[j] \in Nat
    <3> DEFINE S == {j \in 0 .. m : r[j] \in Nat}
    <3>1. 0 \in S
      BY <1>2, <2>6
    <3>2. ASSUME NEW k \in 0 .. m, k < m, k \in S PROVE k + 1 \in S
      <4>1. k + 1 \in 1 .. m /\ (k + 1) - 1 = k /\ k + 1 \in 0 .. m
        BY <1>2, <3>2
      <4>2. r[k + 1] = Cell(prev, i, r[k], k + 1)
        BY <2>6, <4>1
      <4>3. Cell(prev, i, r[k], k + 1) \in Nat
        BY <1>3, <3>2, <4>1, Zenon
      <4> QED BY <4>1, <4>2, <4>3
    <3> HIDE DEF S
    <3>3. \A j \in 0 .. m : j \in S
      BY <1>2, <3>1, <3>2, CountUp
    <3> QED BY <3>3 DEF S
  <2>8. r \in Width
    <3>1. r = [j \in 0 .. m |-> r[j]]
      BY <2>5
    <3> QED BY <2>7, <3>1, Zenon
  <2> QED BY <2>6, <2>8 DEF r
<1> HIDE DEF Row, Width
<1>5. top \in Width
  BY DEF Width
<1> HIDE DEF top
<1>6. \E R : AreRows(R)
  <2> DEFINE F == [p \in Width \X (1 .. n) |-> Row(p[1], p[2])]
  <2>1. F \in [Width \X (1 .. n) -> Width]
    BY <1>2, <1>4
  <2>2. \A w \in Width, i \in 1 .. n : F[<<w, i>>] = Row(w, i)
    OBVIOUS
  <2> HIDE DEF F
  <2>3. PICK g \in [0 .. n -> Width] : Steps(g, n, top, F)
    BY <1>2, <1>5, <2>1, StepByStep
  <2>4. ASSUME NEW i \in 0 .. n PROVE g[i] = IF i = 0 THEN top ELSE Row(g[i - 1], i)
    <3>1. CASE i # 0
      <4>1. i \in 1 .. n /\ i - 1 \in 0 .. n /\ g[i - 1] \in Width
        BY <1>2, <2>3, <3>1
      <4> QED BY <2>2, <2>3, <3>1, <4>1 DEF Steps
    <3> QED BY <2>3, <3>1 DEF Steps
  <2>5. g = [i \in 0 .. n |-> g[i]]
    BY <2>3
  <2> QED BY <2>4, <2>5, Zenon
<1>7. AreRows(rows)
  BY <1>6
<1> HIDE DEF rows
<1>8. rows[0] = top /\ \A i \in 1 .. n : rows[i] = Row(rows[i - 1], i)
  <2>1. \A i \in 0 .. n : rows[i] = IF i = 0 THEN top ELSE Row(rows[i - 1], i)
    BY <1>7, Zenon
  <2>2. 0 \in 0 .. n /\ \A i \in 1 .. n : i \in 0 .. n /\ i # 0
    BY <1>2
  <2> QED BY <2>1, <2>2, Zenon
<1>9. \A i \in 0 .. n : rows[i] \in Width
  <2> DEFINE S == {i \in 0 .. n : rows[i] \in Width}
  <2>1. 0 \in S
    BY <1>2, <1>5, <1>8
  <2>2. ASSUME NEW k \in 0 .. n, k < n, k \in S PROVE k + 1 \in S
    <3>1. k + 1 \in 1 .. n /\ (k + 1) - 1 = k /\ k + 1 \in 0 .. n /\ k + 1 \in Nat
      BY <1>2, <2>2
    <3>2. rows[k + 1] = Row(rows[k], k + 1)
      BY <1>8, <3>1
    <3> QED BY <1>4, <2>2, <3>1, <3>2
  <2> HIDE DEF S
  <2>3. \A i \in 0 .. n : i \in S
    BY <1>2, <2>1, <2>2, CountUp
  <2> QED BY <2>3 DEF S
<1>10. IsTable(rows, a, b)
  <2>1. rows \in [0 .. n -> Width]
    <3>1. rows = [i \in 0 .. n |-> rows[i]]
      BY <1>7
    <3> QED BY <1>9, <3>1, Zenon
  <2>2. \A j \in 0 .. m : rows[0][j] = j
    BY <1>8 DEF top
  <2>3. ASSUME NEW i \in 1 .. n
        PROVE  /\ rows[i][0] = i
               /\ \A j \in 1 .. m : rows[i][j] = Cell(rows[i - 1], i, rows[i][j - 1], j)
    <3>1. rows[i - 1] \in Width /\ i \in Nat
      BY <1>2, <1>9
    <3>2. rows[i] = Row(rows[i - 1], i)
      BY <1>8
    <3>3. /\ Row(rows[i - 1], i)[0] = i
          /\ \A j \in 1 .. m : Row(rows[i - 1], i)[j]
                                 = Cell(rows[i - 1], i, Row(rows[i - 1], i)[j - 1], j)
      BY <1>4, <3>1, Zenon
    <3> QED BY <3>2, <3>3, Zenon
  <2> QED BY <2>1, <2>2, <2>3 DEF IsTable, Cell, n, m, Width
<1> QED BY <1>1, <1>10 DEF n, m

\* The number d in a cell whose upper, left and diagonal neighbours are x, y and z.
FromNeighbours(d, x, y, z, same) ==
    /\ d \in Nat /\ x \in Nat /\ y \in Nat /\ z \in Nat
    /\ d <= x + 1 /\ d <= y + 1 /\ d <= z + 1
    /\ same => d <= z
    /\ d = x + 1 \/ d = y + 1 \/ (d = z + 1 /\ ~same) \/ (d = z /\ same)

\* The edges of a table, and what is in it.
LEMMA TableEdges ==
    ASSUME NEW L, NEW a \in Seq(L), NEW b \in Seq(L), NEW D, IsTable(D, a, b)
    PROVE  /\ \A i \in 0 .. Len(a), j \in 0 .. Len(b) : D[i][j] \in Nat
           /\ \A i \in 0 .. Len(a) : D[i][0] = i
           /\ \A j \in 0 .. Len(b) : D[0][j] = j
<1>1. 0 \in 0 .. Len(b) /\ \A i \in 0 .. Len(a) : i = 0 \/ i \in 1 .. Len(a)
  OBVIOUS
<1>2. D \in [0 .. Len(a) -> [0 .. Len(b) -> Nat]]
  BY Zenon DEF IsTable
<1>3. \A j \in 0 .. Len(b) : D[0][j] = j
  BY Zenon DEF IsTable
<1>4. \A i \in 1 .. Len(a) : D[i][0] = i
  BY Zenon DEF IsTable
<1>5. \A i \in 0 .. Len(a), j \in 0 .. Len(b) : D[i][j] \in Nat
  BY <1>2
<1>6. \A i \in 0 .. Len(a) : D[i][0] = i
  BY <1>1, <1>3, <1>4
<1> QED BY <1>3, <1>5, <1>6

\* The rest of it.
LEMMA TableCell ==
    ASSUME NEW L, NEW a \in Seq(L), NEW b \in Seq(L), NEW D, IsTable(D, a, b),
           NEW i \in 1 .. Len(a), NEW j \in 1 .. Len(b)
    PROVE  FromNeighbours(D[i][j], D[i - 1][j], D[i][j - 1], D[i - 1][j - 1], a[i] = b[j])
<1> DEFINE x == D[i - 1][j]
           y == D[i][j - 1]
           z == D[i - 1][j - 1]
           c == IF a[i] = b[j] THEN 0 ELSE 1
           d == D[i][j]
<1>1. x \in Nat /\ y \in Nat /\ z \in Nat
  <2>1. i - 1 \in 0 .. Len(a) /\ j - 1 \in 0 .. Len(b) /\ i \in 0 .. Len(a) /\ j \in 0 .. Len(b)
    OBVIOUS
  <2> QED BY <2>1, TableEdges
<1>2. c \in {0, 1} /\ (a[i] = b[j] <=> c = 0)
  OBVIOUS
<1>3. d = Smaller(x + 1, Smaller(y + 1, z + c))
  BY DEF IsTable
<1> HIDE DEF x, y, z, c, d
<1>4. /\ d \in Nat /\ d <= x + 1 /\ d <= y + 1 /\ d <= z + c
      /\ d = x + 1 \/ d = y + 1 \/ d = z + c
  BY <1>1, <1>2, <1>3 DEF Smaller
<1>5. /\ d <= x + 1 /\ d <= y + 1 /\ d <= z + 1
      /\ c = 0 => d <= z
      /\ d = x + 1 \/ d = y + 1 \/ (d = z + 1 /\ c # 0) \/ (d = z /\ c = 0)
  BY <1>1, <1>2, <1>4
<1>6. FromNeighbours(d, x, y, z, a[i] = b[j])
  BY <1>1, <1>2, <1>4, <1>5, Zenon DEF FromNeighbours
<1> QED BY <1>6 DEF x, y, z, d

\* Two tables with the same letters behind two rows stay as far apart as these rows are.
LEMMA RowsFollow ==
    ASSUME NEW L, NEW v \in Seq(L), NEW u \in Seq(L), NEW w \in Seq(L),
           NEW V, IsTable(V, v, w), NEW U, IsTable(U, u, w),
           NEW i \in Nat, NEW k \in Nat, NEW r \in Nat, NEW e \in Nat,
           i + r <= Len(v), k + r <= Len(u),
           \A t \in 1 .. r : v[i + t] = u[k + t],
           \A j \in 0 .. Len(w) : V[i][j] <= U[k][j] + e
    PROVE  \A j \in 0 .. Len(w) : V[i + r][j] <= U[k + r][j] + e
<1> DEFINE n == Len(v)
           l == Len(u)
           m == Len(w)
           S == {t \in 0 .. r : \A j \in 0 .. m : V[i + t][j] <= U[k + t][j] + e}
<1>1. n \in Nat /\ l \in Nat /\ m \in Nat
  OBVIOUS
<1>2. 0 \in S
  <2>1. i + 0 = i /\ k + 0 = k
    OBVIOUS
  <2> QED BY <2>1
<1>3. i <= k + e
  <2>1. 0 \in 0 .. m /\ i \in 0 .. n /\ k \in 0 .. l
    BY <1>1
  <2>2. V[i][0] = i /\ U[k][0] = k
    BY <2>1, TableEdges
  <2> QED BY <2>1, <2>2
<1>4. ASSUME NEW t \in 0 .. r, t < r, t \in S PROVE t + 1 \in S
  <2> DEFINE x == i + t + 1
             y == k + t + 1
             T == {j \in 0 .. m : V[x][j] <= U[y][j] + e}
  <2>1. /\ x \in 1 .. n /\ y \in 1 .. l /\ x \in 0 .. n /\ y \in 0 .. l /\ t + 1 \in 1 .. r
        /\ x - 1 = i + t /\ y - 1 = k + t /\ x - 1 \in 0 .. n /\ y - 1 \in 0 .. l
        /\ i + (t + 1) = x /\ k + (t + 1) = y
    BY <1>1, <1>4
  <2>2. v[x] = u[y]
    <3>1. v[i + (t + 1)] = u[k + (t + 1)]
      BY <2>1
    <3> QED BY <2>1, <3>1
  <2>3. \A j \in 0 .. m : V[x - 1][j] <= U[y - 1][j] + e
    BY <1>4, <2>1
  <2>4. 0 \in T
    <3>1. V[x][0] = x /\ U[y][0] = y /\ 0 \in 0 .. m
      BY <1>1, <2>1, TableEdges
    <3>2. x <= y + e
      BY SMTT(30), <1>3, <1>4
    <3> QED BY <3>1, <3>2
  <2> HIDE DEF x, y, n, l, m
  <2>5. ASSUME NEW j \in 0 .. m, j < m, j \in T PROVE j + 1 \in T
    <3>1. j + 1 \in 1 .. m /\ j + 1 \in 0 .. m /\ (j + 1) - 1 = j
      BY <1>1, <2>5
    <3> DEFINE V0 == V[x - 1][j]      U0 == U[y - 1][j]
               V1 == V[x - 1][j + 1]  U1 == U[y - 1][j + 1]
               V2 == V[x][j]          U2 == U[y][j]
               V3 == V[x][j + 1]      U3 == U[y][j + 1]
    <3>2. FromNeighbours(V3, V1, V2, V0, v[x] = w[j + 1])
      <4>1. FromNeighbours(V[x][j + 1], V[x - 1][j + 1], V[x][(j + 1) - 1], V[x - 1][(j + 1) - 1],
                           v[x] = w[j + 1])
        <5>1. x \in 1 .. Len(v) /\ j + 1 \in 1 .. Len(w)
          BY <2>1, <3>1 DEF n, m
        <5> QED BY <5>1, TableCell, Zenon
      <4> QED BY <3>1, <4>1
    <3>3. FromNeighbours(U3, U1, U2, U0, u[y] = w[j + 1])
      <4>1. FromNeighbours(U[y][j + 1], U[y - 1][j + 1], U[y][(j + 1) - 1], U[y - 1][(j + 1) - 1],
                           u[y] = w[j + 1])
        <5>1. y \in 1 .. Len(u) /\ j + 1 \in 1 .. Len(w)
          BY <2>1, <3>1 DEF l, m
        <5> QED BY <5>1, TableCell, Zenon
      <4> QED BY <3>1, <4>1
    <3>4. V0 <= U0 + e /\ V1 <= U1 + e /\ V2 <= U2 + e
      BY <2>3, <2>5, <3>1
    <3> HIDE DEF V0, V1, V2, V3, U0, U1, U2, U3
    <3>5. V3 <= U3 + e
      BY <2>2, <3>2, <3>3, <3>4 DEF FromNeighbours
    <3> QED BY <3>1, <3>5 DEF V3, U3
  <2> HIDE DEF T
  <2>6. \A j \in 0 .. m : j \in T
    BY <1>1, <2>4, <2>5, CountUp
  <2>7. \A j \in 0 .. m : V[x][j] <= U[y][j] + e
    BY <2>6 DEF T
  <2> QED BY <2>1, <2>7
<1> HIDE DEF S
<1>5. r \in S
  <2>1. \A t \in 0 .. r : t \in S
    BY <1>2, <1>4, CountUp
  <2> QED BY <2>1
<1> QED BY <1>5 DEF S

\* One row further down is at most one more, and at most one less.
LEMMA RowsAreClose ==
    ASSUME NEW L, NEW u \in Seq(L), NEW w \in Seq(L), NEW U, IsTable(U, u, w),
           NEW i \in 1 .. Len(u)
    PROVE  \A j \in 0 .. Len(w) : U[i][j] <= U[i - 1][j] + 1 /\ U[i - 1][j] <= U[i][j] + 1
<1> DEFINE m == Len(w)
           S == {j \in 0 .. m : U[i][j] <= U[i - 1][j] + 1 /\ U[i - 1][j] <= U[i][j] + 1}
<1>1. m \in Nat /\ Len(u) \in Nat /\ i - 1 \in 0 .. Len(u) /\ i \in 0 .. Len(u)
  OBVIOUS
<1>2. 0 \in S
  <2>1. U[i][0] = i /\ U[i - 1][0] = i - 1 /\ 0 \in 0 .. m
    BY <1>1, TableEdges
  <2> QED BY <2>1
<1>3. ASSUME NEW j \in 0 .. m, j < m, j \in S PROVE j + 1 \in S
  <2>1. j + 1 \in 1 .. m /\ j + 1 \in 0 .. m /\ (j + 1) - 1 = j
    BY <1>1, <1>3
  <2> DEFINE U0 == U[i - 1][j]  U1 == U[i - 1][j + 1]  U2 == U[i][j]  U3 == U[i][j + 1]
  <2>2. FromNeighbours(U3, U1, U2, U0, u[i] = w[j + 1])
    <3>1. FromNeighbours(U[i][j + 1], U[i - 1][j + 1], U[i][(j + 1) - 1], U[i - 1][(j + 1) - 1],
                         u[i] = w[j + 1])
      <4>1. j + 1 \in 1 .. Len(w)
        BY <2>1
      <4> QED BY <4>1, TableCell, Zenon
    <3> QED BY <2>1, <3>1
  <2>3. U1 <= U0 + 1
    <3>1. CASE i - 1 = 0
      <4>1. U1 = j + 1 /\ U0 = j
        BY <1>1, <2>1, <3>1, TableEdges
      <4> QED BY <4>1
    <3>2. CASE i - 1 # 0
      <4>1. i - 1 \in 1 .. Len(u)
        BY <1>1, <3>2
      <4>2. FromNeighbours(U[i - 1][j + 1], U[(i - 1) - 1][j + 1], U[i - 1][(j + 1) - 1],
                           U[(i - 1) - 1][(j + 1) - 1], u[i - 1] = w[j + 1])
        <5>1. j + 1 \in 1 .. Len(w)
          BY <2>1
        <5> QED BY <4>1, <5>1, TableCell, Zenon
      <4> QED BY <2>1, <4>2 DEF FromNeighbours
    <3> QED BY <3>1, <3>2
  <2>4. U2 <= U0 + 1 /\ U0 <= U2 + 1
    BY <1>3
  <2> HIDE DEF U0, U1, U2, U3
  <2>5. U3 <= U1 + 1 /\ U1 <= U3 + 1
    BY <2>2, <2>3, <2>4 DEF FromNeighbours
  <2> QED BY <2>1, <2>5 DEF U1, U3
<1> HIDE DEF S
<1>4. \A j \in 0 .. m : j \in S
  BY <1>1, <1>2, <1>3, CountUp
<1> QED BY <1>4 DEF S

\* The three edits, letter by letter.
Replaced(r, s, p, l) ==
    Len(r) = Len(s) /\ r[p] = l /\ \A k \in 1 .. Len(s) : k # p => r[k] = s[k]
Cut(r, s, p) ==
    /\ Len(r) = Len(s) - 1
    /\ \A k \in 1 .. p - 1 : r[k] = s[k]
    /\ \A k \in p .. Len(s) - 1 : r[k] = s[k + 1]
Grown(r, s, p, l) ==
    /\ Len(r) = Len(s) + 1 /\ r[p] = l
    /\ \A k \in 1 .. p - 1 : r[k] = s[k]
    /\ \A k \in p + 1 .. Len(s) + 1 : r[k] = s[k - 1]

\* A letter replaced.
LEMMA WordReplaced ==
    ASSUME NEW L, NEW s \in Seq(L), NEW p \in 1 .. Len(s), NEW l \in L
    PROVE  ReplaceAt(s, p, l) \in Seq(L) /\ Replaced(ReplaceAt(s, p, l), s, p, l)
BY DEF ReplaceAt, Replaced

\* A letter cut.
LEMMA WordCut ==
    ASSUME NEW L, NEW s \in Seq(L), NEW p \in 1 .. Len(s)
    PROVE  RemoveAt(s, p) \in Seq(L) /\ Cut(RemoveAt(s, p), s, p)
<1> DEFINE x == SubSeq(s, 1, p - 1)
           y == SubSeq(s, p + 1, Len(s))
<1>1. Len(s) \in Nat
  OBVIOUS
<1>2. x \in Seq(L) /\ Len(x) = p - 1 /\ \A k \in 1 .. p - 1 : x[k] = s[k]
  OBVIOUS
<1>3. /\ y \in Seq(L) /\ Len(y) = Len(s) - p
      /\ \A k \in 1 .. Len(s) - p : y[k] = s[p + k]
  OBVIOUS
<1> HIDE DEF x, y
<1>4. /\ x \o y \in Seq(L) /\ Len(x \o y) = Len(s) - 1
      /\ \A k \in 1 .. Len(s) - 1 : (x \o y)[k] = IF k <= p - 1 THEN x[k] ELSE y[k - (p - 1)]
  <2>1. /\ x \o y \in Seq(L) /\ Len(x \o y) = Len(x) + Len(y)
        /\ \A i \in 1 .. Len(x) + Len(y) :
              (x \o y)[i] = IF i <= Len(x) THEN x[i] ELSE y[i - Len(x)]
    BY <1>2, <1>3, ConcatProperties, Zenon
  <2>2. Len(x) + Len(y) = Len(s) - 1
    BY <1>1, <1>2, <1>3
  <2> QED BY <1>2, <2>1, <2>2
<1>5. ASSUME NEW k \in 1 .. p - 1 PROVE (x \o y)[k] = s[k]
  BY <1>1, <1>2, <1>4
<1>6. ASSUME NEW k \in p .. Len(s) - 1 PROVE (x \o y)[k] = s[k + 1]
  <2>1. k \in 1 .. Len(s) - 1 /\ ~(k <= p - 1) /\ k - (p - 1) \in 1 .. Len(s) - p
        /\ p + (k - (p - 1)) = k + 1
    BY <1>1
  <2> QED BY <1>3, <1>4, <2>1
<1> QED BY <1>4, <1>5, <1>6 DEF x, y, RemoveAt, Cut

\* A letter put in.
LEMMA WordGrown ==
    ASSUME NEW L, NEW s \in Seq(L), NEW p \in 1 .. Len(s) + 1, NEW l \in L
    PROVE  InsertAt(s, p, l) \in Seq(L) /\ Grown(InsertAt(s, p, l), s, p, l)
<1> DEFINE x == SubSeq(s, 1, p - 1)
           y == SubSeq(s, p, Len(s))
           z == x \o <<l>>
<1>1. Len(s) \in Nat
  OBVIOUS
<1>2. x \in Seq(L) /\ Len(x) = p - 1 /\ \A k \in 1 .. p - 1 : x[k] = s[k]
  OBVIOUS
<1>3. /\ y \in Seq(L) /\ Len(y) = Len(s) - p + 1
      /\ \A k \in 1 .. Len(s) - p + 1 : y[k] = s[p + k - 1]
  OBVIOUS
<1> HIDE DEF x, y
<1>4. /\ z \in Seq(L) /\ Len(z) = p /\ z[p] = l
      /\ \A k \in 1 .. p - 1 : z[k] = x[k]
  BY SMTT(30), <1>1, <1>2
<1> HIDE DEF z
<1>5. /\ z \o y \in Seq(L) /\ Len(z \o y) = Len(s) + 1
      /\ \A k \in 1 .. Len(s) + 1 : (z \o y)[k] = IF k <= p THEN z[k] ELSE y[k - p]
  <2>1. /\ z \o y \in Seq(L) /\ Len(z \o y) = Len(z) + Len(y)
        /\ \A i \in 1 .. Len(z) + Len(y) :
              (z \o y)[i] = IF i <= Len(z) THEN z[i] ELSE y[i - Len(z)]
    BY <1>3, <1>4, ConcatProperties, Zenon
  <2>2. Len(z) + Len(y) = Len(s) + 1
    BY <1>1, <1>3, <1>4
  <2> QED BY <1>4, <2>1, <2>2
<1>6. (z \o y)[p] = l /\ \A k \in 1 .. p - 1 : (z \o y)[k] = s[k]
  BY <1>1, <1>2, <1>4, <1>5
<1>7. ASSUME NEW k \in p + 1 .. Len(s) + 1 PROVE (z \o y)[k] = s[k - 1]
  <2>1. k \in 1 .. Len(s) + 1 /\ ~(k <= p) /\ k - p \in 1 .. Len(s) - p + 1
        /\ p + (k - p) - 1 = k - 1
    BY <1>1
  <2> QED BY <1>3, <1>5, <2>1
<1> QED BY <1>5, <1>6, <1>7 DEF x, y, z, InsertAt, Grown

\* Words of the same letters are one.
LEMMA SameWord ==
    ASSUME NEW L, NEW s \in Seq(L), NEW t \in Seq(L), Len(s) = Len(t),
           \A k \in 1 .. Len(s) : s[k] = t[k]
    PROVE  s = t
OBVIOUS

\* What one edit has done, one edit undoes.
LEMMA EditsAreUndone ==
    ASSUME NEW v \in Seq(Letters), NEW u \in OneEdit(v)
    PROVE  u \in Seq(Letters) /\ v \in OneEdit(u)
<1>1. Len(v) \in Nat /\ \A k \in 1 .. Len(v) : v[k] \in Letters
  OBVIOUS
<1>2. CASE \E p \in 1 .. Len(v) : u = RemoveAt(v, p)
  <2>1. PICK p \in 1 .. Len(v) : u = RemoveAt(v, p)
    BY <1>2
  <2>2. u \in Seq(Letters) /\ Cut(u, v, p)
    BY <2>1, WordCut, Zenon
  <2> DEFINE r == InsertAt(u, p, v[p])
  <2>3. p \in 1 .. Len(u) + 1 /\ v[p] \in Letters
    BY <1>1, <2>2 DEF Cut, Grown, Replaced
  <2>4. r \in Seq(Letters) /\ Grown(r, u, p, v[p])
    BY <2>2, <2>3, WordGrown, Zenon
  <2>5. r \in OneEdit(u)
    BY <2>3 DEF OneEdit
  <2> HIDE DEF r
  <2>6. ASSUME NEW k \in 1 .. Len(v) PROVE r[k] = v[k]
    <3>1. CASE k < p
      BY <1>1, <2>2, <2>4, <3>1 DEF Cut, Grown, Replaced
    <3>2. CASE k > p
      <4>1. k \in p + 1 .. Len(u) + 1 /\ k - 1 \in p .. Len(v) - 1 /\ (k - 1) + 1 = k
        BY <1>1, <2>2, <3>2 DEF Cut, Grown, Replaced
      <4>2. r[k] = u[k - 1] /\ u[k - 1] = v[(k - 1) + 1]
        BY <2>2, <2>4, <4>1 DEF Cut, Grown, Replaced
      <4> QED BY <4>1, <4>2
    <3> QED BY <1>1, <2>4, <3>1, <3>2 DEF Cut, Grown, Replaced
  <2>7. r = v
    <3>1. Len(r) = Len(v)
      BY <1>1, <2>2, <2>4 DEF Cut, Grown, Replaced
    <3> QED BY <2>4, <2>6, <3>1, SameWord DEF Cut, Grown, Replaced
  <2> QED BY <2>2, <2>5, <2>7
<1>3. CASE \E p \in 1 .. Len(v), l \in Letters : u = ReplaceAt(v, p, l)
  <2>1. PICK p \in 1 .. Len(v), l \in Letters : u = ReplaceAt(v, p, l)
    BY <1>3
  <2>2. u \in Seq(Letters) /\ Replaced(u, v, p, l)
    BY <2>1, WordReplaced, Zenon
  <2> DEFINE r == ReplaceAt(u, p, v[p])
  <2>0. p \in 1 .. Len(u) /\ v[p] \in Letters
    BY <1>1, <2>2 DEF Replaced
  <2>3. r \in Seq(Letters) /\ Replaced(r, u, p, v[p])
    BY <2>0, <2>2, WordReplaced, Zenon
  <2>4. r \in OneEdit(u)
    BY <2>0 DEF OneEdit
  <2> HIDE DEF r
  <2>5. \A k \in 1 .. Len(r) : r[k] = v[k]
    BY <2>2, <2>3 DEF Cut, Grown, Replaced
  <2>6. r = v
    BY <2>2, <2>3, <2>5, SameWord DEF Cut, Grown, Replaced
  <2> QED BY <2>2, <2>4, <2>6
<1>4. CASE \E p \in 1 .. Len(v) + 1, l \in Letters : u = InsertAt(v, p, l)
  <2>1. PICK p \in 1 .. Len(v) + 1, l \in Letters : u = InsertAt(v, p, l)
    BY <1>4
  <2>2. u \in Seq(Letters) /\ Grown(u, v, p, l)
    BY <2>1, WordGrown, Zenon
  <2> DEFINE r == RemoveAt(u, p)
  <2>3. p \in 1 .. Len(u)
    BY <1>1, <2>2 DEF Cut, Grown, Replaced
  <2>4. r \in Seq(Letters) /\ Cut(r, u, p)
    BY <2>2, <2>3, WordCut, Zenon
  <2>5. r \in OneEdit(u)
    BY <2>3 DEF OneEdit
  <2> HIDE DEF r
  <2>6. ASSUME NEW k \in 1 .. Len(r) PROVE r[k] = v[k]
    <3>1. CASE k < p
      BY <1>1, <2>2, <2>4, <3>1 DEF Cut, Grown, Replaced
    <3>2. CASE k >= p
      <4>1. k \in p .. Len(u) - 1 /\ k + 1 \in p + 1 .. Len(v) + 1 /\ (k + 1) - 1 = k
        <5>1. Len(r) = Len(u) - 1 /\ Len(u) = Len(v) + 1
          BY <2>2, <2>4, Zenon DEF Cut, Grown
        <5> QED BY <1>1, <3>2, <5>1
      <4>2. r[k] = u[k + 1] /\ u[k + 1] = v[(k + 1) - 1]
        BY <2>2, <2>4, <4>1 DEF Cut, Grown, Replaced
      <4> QED BY <4>1, <4>2
    <3> QED BY <1>1, <2>4, <3>1, <3>2 DEF Cut, Grown, Replaced
  <2>7. r = v
    <3>1. Len(r) = Len(v)
      BY <1>1, <2>2, <2>4 DEF Cut, Grown, Replaced
    <3> QED BY <2>4, <2>6, <3>1, SameWord DEF Cut, Grown, Replaced
  <2> QED BY <2>2, <2>5, <2>7
<1> QED BY <1>2, <1>3, <1>4 DEF OneEdit

\* Behind the same letters the number is no more.
LEMMA FollowMatch ==
    ASSUME NEW L, NEW a \in Seq(L), NEW b \in Seq(L), NEW D, IsTable(D, a, b),
           NEW i \in Nat, NEW j \in Nat, NEW r \in Nat, i + r <= Len(a), j + r <= Len(b),
           \A t \in 1 .. r : a[i + t] = b[j + t]
    PROVE  D[i + r][j + r] <= D[i][j]
<1> DEFINE S == {t \in 0 .. r : D[i + t][j + t] <= D[i][j]}
<1>1. 0 \in S
  <2>1. i \in 0 .. Len(a) /\ j \in 0 .. Len(b) /\ i + 0 = i /\ j + 0 = j
    OBVIOUS
  <2>2. D[i][j] \in Nat
    BY <2>1, TableEdges
  <2> QED BY <2>1, <2>2
<1>2. ASSUME NEW t \in 0 .. r, t < r, t \in S PROVE t + 1 \in S
  <2> DEFINE x == i + t + 1
             y == j + t + 1
  <2>1. /\ x \in 1 .. Len(a) /\ y \in 1 .. Len(b) /\ t + 1 \in 1 .. r /\ t + 1 \in 0 .. r
        /\ x - 1 = i + t /\ y - 1 = j + t /\ i + (t + 1) = x /\ j + (t + 1) = y
    BY <1>2
  <2>2. a[x] = b[y]
    <3>1. a[i + (t + 1)] = b[j + (t + 1)]
      BY <2>1
    <3> QED BY <2>1, <3>1
  <2>3. D[i + t][j + t] <= D[i][j]
    BY <1>2
  <2>4. i \in 0 .. Len(a) /\ j \in 0 .. Len(b)
    OBVIOUS
  <2>5. D[i][j] \in Nat
    BY <2>4, TableEdges
  <2> HIDE DEF x, y
  <2>6. FromNeighbours(D[x][y], D[x - 1][y], D[x][y - 1], D[x - 1][y - 1], a[x] = b[y])
    BY <2>1, TableCell, Zenon
  <2>7. D[x][y] <= D[x - 1][y - 1] /\ D[x - 1][y - 1] \in Nat /\ D[x][y] \in Nat
    BY <2>2, <2>6, Zenon DEF FromNeighbours
  <2>8. D[x - 1][y - 1] = D[i + t][j + t]
    BY <2>1
  <2>9. D[x][y] <= D[i][j]
    BY SMTT(30), <2>3, <2>5, <2>7, <2>8
  <2> QED BY <2>1, <2>9
<1> HIDE DEF S
<1>3. r \in S
  <2>1. \A t \in 0 .. r : t \in S
    BY <1>1, <1>2, CountUp
  <2> QED BY <2>1
<1> QED BY <1>3 DEF S

\* Words that begin alike have tables that begin alike.
LEMMA SamePrefix ==
    ASSUME NEW L, NEW v \in Seq(L), NEW u \in Seq(L), NEW w \in Seq(L),
           NEW V, IsTable(V, v, w), NEW U, IsTable(U, u, w),
           NEW p \in Nat, p <= Len(v), p <= Len(u), \A t \in 1 .. p : v[t] = u[t]
    PROVE  \A j \in 0 .. Len(w) : V[p][j] <= U[p][j]
<1>1. \A j \in 0 .. Len(w) : V[0][j] <= U[0][j] + 0
  <2> TAKE j \in 0 .. Len(w)
  <2>1. V[0][j] = j /\ U[0][j] = j
    BY TableEdges
  <2> QED BY <2>1
<1>2. 0 \in Nat /\ 0 + p = p /\ 0 + p <= Len(v) /\ 0 + p <= Len(u)
  OBVIOUS
<1>3. \A t \in 1 .. p : v[0 + t] = u[0 + t]
  OBVIOUS
<1>4. \A j \in 0 .. Len(w) : V[0 + p][j] <= U[0 + p][j] + 0
  BY <1>1, <1>2, <1>3, RowsFollow, Zenon
<1>5. \A j \in 0 .. Len(w) : U[p][j] \in Nat
  <2>1. p \in 0 .. Len(u)
    OBVIOUS
  <2> QED BY <2>1, TableEdges
<1> QED BY <1>2, <1>4, <1>5

\* A letter that is another one makes a row at most one more.
LEMMA RowAfterChange ==
    ASSUME NEW L, NEW v \in Seq(L), NEW u \in Seq(L), NEW w \in Seq(L),
           NEW V, IsTable(V, v, w), NEW U, IsTable(U, u, w),
           NEW p \in 1 .. Len(v), p <= Len(u),
           \A j \in 0 .. Len(w) : V[p - 1][j] <= U[p - 1][j]
    PROVE  \A j \in 0 .. Len(w) : V[p][j] <= U[p][j] + 1
<1> DEFINE m == Len(w)
           S == {j \in 0 .. m : V[p][j] <= U[p][j] + 1}
<1>1. m \in Nat /\ p \in 1 .. Len(u) /\ p \in 0 .. Len(u) /\ p \in 0 .. Len(v)
  OBVIOUS
<1>2. 0 \in S
  <2>1. V[p][0] = p /\ U[p][0] = p /\ 0 \in 0 .. m
    BY <1>1, TableEdges
  <2> QED BY <2>1
<1>3. ASSUME NEW j \in 0 .. m, j < m, j \in S PROVE j + 1 \in S
  <2>1. j + 1 \in 1 .. m /\ j + 1 \in 0 .. m /\ (j + 1) - 1 = j
    BY <1>1, <1>3
  <2> DEFINE V0 == V[p - 1][j]      U0 == U[p - 1][j]
             V1 == V[p - 1][j + 1]  U1 == U[p - 1][j + 1]
             V2 == V[p][j]          U2 == U[p][j]
             V3 == V[p][j + 1]      U3 == U[p][j + 1]
  <2>2. FromNeighbours(V3, V1, V2, V0, v[p] = w[j + 1])
    <3>1. FromNeighbours(V[p][j + 1], V[p - 1][j + 1], V[p][(j + 1) - 1], V[p - 1][(j + 1) - 1],
                         v[p] = w[j + 1])
      <4>1. j + 1 \in 1 .. Len(w)
        BY <2>1
      <4> QED BY <4>1, TableCell, Zenon
    <3> QED BY <2>1, <3>1
  <2>3. FromNeighbours(U3, U1, U2, U0, u[p] = w[j + 1])
    <3>1. FromNeighbours(U[p][j + 1], U[p - 1][j + 1], U[p][(j + 1) - 1], U[p - 1][(j + 1) - 1],
                         u[p] = w[j + 1])
      <4>1. j + 1 \in 1 .. Len(w)
        BY <2>1
      <4> QED BY <1>1, <4>1, TableCell, Zenon
    <3> QED BY <2>1, <3>1
  <2>4. V0 <= U0 /\ V1 <= U1 /\ V2 <= U2 + 1
    BY <1>3, <2>1
  <2> HIDE DEF V0, V1, V2, V3, U0, U1, U2, U3
  <2>5. V3 <= U3 + 1
    BY <2>2, <2>3, <2>4 DEF FromNeighbours
  <2> QED BY <2>1, <2>5 DEF V3, U3
<1> HIDE DEF S
<1>4. \A j \in 0 .. m : j \in S
  BY <1>1, <1>2, <1>3, CountUp
<1> QED BY <1>4 DEF S

\* An edit makes a word at most one closer.
LEMMA OneLess ==
    ASSUME NEW v \in Seq(Letters), NEW u \in OneEdit(v), NEW w \in Seq(Letters)
    PROVE  distance(v, w) <= distance(u, w) + 1
<1>1. u \in Seq(Letters)
  BY EditsAreUndone, Zenon
<1>2. PICK V : IsTable(V, v, w) /\ distance(v, w) = V[Len(v)][Len(w)]
  BY DistanceTable, Zenon
<1>3. PICK U : IsTable(U, u, w) /\ distance(u, w) = U[Len(u)][Len(w)]
  BY <1>1, DistanceTable, Zenon
<1> DEFINE n == Len(v)
           l == Len(u)
           m == Len(w)
<1>4. n \in Nat /\ l \in Nat /\ m \in Nat /\ m \in 0 .. m
  BY <1>1
<1>5. ASSUME NEW i \in Nat, NEW k \in Nat, NEW r \in Nat, i + r = n, k + r = l,
             \A t \in 1 .. r : v[i + t] = u[k + t],
             \A j \in 0 .. m : V[i][j] <= U[k][j] + 1
      PROVE  V[n][m] <= U[l][m] + 1
  <2>1. i + r <= Len(v) /\ k + r <= Len(u) /\ 1 \in Nat
    BY <1>4, <1>5
  <2>2. \A j \in 0 .. Len(w) : V[i + r][j] <= U[k + r][j] + 1
    BY <1>1, <1>2, <1>3, <1>5, <2>1, RowsFollow, Zenon
  <2> QED BY <1>4, <1>5, <2>2
<1>6. CASE \E p \in 1 .. Len(v) : u = RemoveAt(v, p)
  <2>1. PICK p \in 1 .. Len(v) : u = RemoveAt(v, p)
    BY <1>6
  <2>2. Cut(u, v, p)
    BY <2>1, WordCut, Zenon
  <2>3. /\ p \in Nat /\ p - 1 \in Nat /\ n - p \in Nat /\ p + (n - p) = n
        /\ (p - 1) + (n - p) = l /\ p - 1 <= Len(v) /\ p - 1 <= Len(u)
    BY <1>4, <2>2 DEF Cut
  <2>4. \A t \in 1 .. p - 1 : v[t] = u[t]
    BY <2>2, Zenon DEF Cut
  <2>5. \A j \in 0 .. m : V[p - 1][j] <= U[p - 1][j]
    BY <1>1, <1>2, <1>3, <2>3, <2>4, SamePrefix, Zenon
  <2>6. \A j \in 0 .. m : V[p][j] <= V[p - 1][j] + 1
    BY <1>2, RowsAreClose, Zenon
  <2>7. \A j \in 0 .. m : V[p][j] \in Nat /\ V[p - 1][j] \in Nat /\ U[p - 1][j] \in Nat
    <3>1. p \in 0 .. Len(v) /\ p - 1 \in 0 .. Len(v) /\ p - 1 \in 0 .. Len(u)
      BY <1>4, <2>3
    <3> QED BY <1>1, <1>2, <1>3, <3>1, TableEdges
  <2>8. \A j \in 0 .. m : V[p][j] <= U[p - 1][j] + 1
    BY SMTT(30), <2>5, <2>6, <2>7
  <2>9. \A t \in 1 .. n - p : v[p + t] = u[(p - 1) + t]
    <3> TAKE t \in 1 .. n - p
    <3>1. (p - 1) + t \in p .. Len(v) - 1 /\ ((p - 1) + t) + 1 = p + t
      BY <1>4
    <3>2. u[(p - 1) + t] = v[((p - 1) + t) + 1]
      BY <2>2, <3>1, Zenon DEF Cut
    <3> QED BY <3>1, <3>2
  <2> HIDE DEF n, l, m
  <2>10. V[n][m] <= U[l][m] + 1
    BY <1>5, <2>3, <2>8, <2>9, Zenon
  <2> QED BY <1>2, <1>3, <2>10 DEF n, l, m
<1>7. CASE \E p \in 1 .. Len(v), x \in Letters : u = ReplaceAt(v, p, x)
  <2>1. PICK p \in 1 .. Len(v), x \in Letters : u = ReplaceAt(v, p, x)
    BY <1>7
  <2>2. Replaced(u, v, p, x)
    BY <2>1, WordReplaced, Zenon
  <2>3. /\ p \in Nat /\ p - 1 \in Nat /\ n - p \in Nat /\ p + (n - p) = n
        /\ p + (n - p) = l /\ p - 1 <= Len(v) /\ p - 1 <= Len(u) /\ p <= Len(u)
    BY <1>4, <2>2 DEF Replaced
  <2>4. \A t \in 1 .. p - 1 : v[t] = u[t]
    BY <1>4, <2>2 DEF Replaced
  <2>5. \A j \in 0 .. m : V[p - 1][j] <= U[p - 1][j]
    BY <1>1, <1>2, <1>3, <2>3, <2>4, SamePrefix, Zenon
  <2>6. \A j \in 0 .. m : V[p][j] <= U[p][j] + 1
    BY <1>1, <1>2, <1>3, <2>3, <2>5, RowAfterChange, Zenon
  <2>7. \A t \in 1 .. n - p : v[p + t] = u[p + t]
    <3> TAKE t \in 1 .. n - p
    <3>1. p + t \in 1 .. Len(v) /\ p + t # p
      BY <1>4
    <3> QED BY <2>2, <3>1, Zenon DEF Replaced
  <2> HIDE DEF n, l, m
  <2>8. V[n][m] <= U[l][m] + 1
    BY <1>5, <2>3, <2>6, <2>7, Zenon
  <2> QED BY <1>2, <1>3, <2>8 DEF n, l, m
<1>8. CASE \E p \in 1 .. Len(v) + 1, x \in Letters : u = InsertAt(v, p, x)
  <2>1. PICK p \in 1 .. Len(v) + 1, x \in Letters : u = InsertAt(v, p, x)
    BY <1>8
  <2>2. Grown(u, v, p, x)
    BY <2>1, WordGrown, Zenon
  <2>3. /\ p \in Nat /\ p - 1 \in Nat /\ n - (p - 1) \in Nat /\ (p - 1) + (n - (p - 1)) = n
        /\ p + (n - (p - 1)) = l /\ p - 1 <= Len(v) /\ p - 1 <= Len(u) /\ p \in 1 .. Len(u)
    <3>1. l = n + 1 /\ p \in 1 .. n + 1 /\ Len(v) = n /\ Len(u) = l
      BY <2>2, Zenon DEF Grown
    <3> HIDE DEF n, l
    <3> QED BY <1>4, <3>1
  <2>4. \A t \in 1 .. p - 1 : v[t] = u[t]
    BY <2>2, Zenon DEF Grown
  <2>5. \A j \in 0 .. m : V[p - 1][j] <= U[p - 1][j]
    BY <1>1, <1>2, <1>3, <2>3, <2>4, SamePrefix, Zenon
  <2>6. \A j \in 0 .. m : U[p - 1][j] <= U[p][j] + 1
    BY <1>1, <1>3, <2>3, RowsAreClose, Zenon
  <2>7. \A j \in 0 .. m : V[p - 1][j] \in Nat /\ U[p - 1][j] \in Nat /\ U[p][j] \in Nat
    <3>1. p - 1 \in 0 .. Len(v) /\ p - 1 \in 0 .. Len(u) /\ p \in 0 .. Len(u)
      BY <1>4, <2>3
    <3> QED BY <1>1, <1>2, <1>3, <3>1, TableEdges
  <2>8. \A j \in 0 .. m : V[p - 1][j] <= U[p][j] + 1
    <3> TAKE j \in 0 .. m
    <3>1. V[p - 1][j] <= U[p - 1][j] /\ U[p - 1][j] <= U[p][j] + 1
      BY <2>5, <2>6, Zenon
    <3>2. V[p - 1][j] \in Nat /\ U[p - 1][j] \in Nat /\ U[p][j] \in Nat
      BY <2>7, Zenon
    <3> QED BY SMTT(30), <3>1, <3>2
  <2>9. \A t \in 1 .. n - (p - 1) : v[(p - 1) + t] = u[p + t]
    <3> TAKE t \in 1 .. n - (p - 1)
    <3>1. p + t \in p + 1 .. Len(v) + 1 /\ (p + t) - 1 = (p - 1) + t
      BY <1>4
    <3>2. u[p + t] = v[(p + t) - 1]
      BY <2>2, <3>1, Zenon DEF Grown
    <3> QED BY <3>1, <3>2
  <2> HIDE DEF n, l, m
  <2>10. V[n][m] <= U[l][m] + 1
    BY <1>5, <2>3, <2>8, <2>9, Zenon
  <2> QED BY <1>2, <1>3, <2>10 DEF n, l, m
<1> QED BY <1>6, <1>7, <1>8 DEF OneEdit

\* Where the equal letters at the end of two words end: k letters from their ends the number is
\* still the distance, and one before that there is one that is one less.
Ending(V, v, w, k) ==
    LET i == Len(v) - k  j == Len(w) - k
    IN  /\ k <= Len(v) /\ k <= Len(w)
        /\ \A t \in 1 .. k : v[i + t] = w[j + t]
        /\ V[i][j] = V[Len(v)][Len(w)]
        /\ \/ i = 0 /\ j = 0
           \/ i > 0 /\ V[i - 1][j] + 1 = V[i][j]
           \/ j > 0 /\ V[i][j - 1] + 1 = V[i][j]
           \/ i > 0 /\ j > 0 /\ V[i - 1][j - 1] + 1 = V[i][j]

\* Every two words have such an ending.
LEMMA EndingExists ==
    ASSUME NEW L, NEW v \in Seq(L), NEW w \in Seq(L), NEW V, IsTable(V, v, w)
    PROVE  \E k \in Nat : Ending(V, v, w, k)
<1> DEFINE n == Len(v)
           m == Len(w)
           Same(k) == /\ k <= m /\ \A t \in 1 .. k : v[(n - k) + t] = w[(m - k) + t]
                      /\ V[n - k][m - k] = V[n][m]
           S == {k \in 0 .. n : Same(k)}
<1>1. n \in Nat /\ m \in Nat
  OBVIOUS
<1>2. SUFFICES ASSUME \A k \in Nat : ~Ending(V, v, w, k) PROVE FALSE
  OBVIOUS
<1>3. 0 \in S
  BY <1>1
<1>4. ASSUME NEW k \in 0 .. n, k \in S
      PROVE  LET i == n - k  j == m - k
             IN  /\ ~(i = 0 /\ j = 0)
                 /\ ~(i > 0 /\ V[i - 1][j] + 1 = V[i][j])
                 /\ ~(j > 0 /\ V[i][j - 1] + 1 = V[i][j])
                 /\ ~(i > 0 /\ j > 0 /\ V[i - 1][j - 1] + 1 = V[i][j])
  <2>1. ~Ending(V, v, w, k) /\ k <= n
    BY <1>1, <1>2
  <2> QED BY <1>4, <2>1, Zenon DEF Ending
<1>5. ASSUME NEW k \in 0 .. n, k \in S PROVE n - k > 0 /\ m - k > 0
  <2> DEFINE i == n - k
             j == m - k
  <2>1. i \in 0 .. n /\ j \in 0 .. m /\ n - k = i /\ m - k = j
    BY <1>1, <1>5
  <2>2. i # 0
    <3> SUFFICES ASSUME i = 0 PROVE FALSE
      OBVIOUS
    <3>1. j > 0
      BY <1>4, <1>5, <2>1
    <3>2. j - 1 \in 0 .. m
      BY <1>1, <2>1, <3>1
    <3>3. V[0][j] = j /\ V[0][j - 1] = j - 1
      BY <2>1, <3>2, TableEdges
    <3>4. V[i][j - 1] + 1 = V[i][j]
      BY <2>1, <3>3
    <3> QED BY <1>4, <1>5, <2>1, <3>1, <3>4
  <2>3. j # 0
    <3> SUFFICES ASSUME j = 0 PROVE FALSE
      OBVIOUS
    <3>1. i > 0 /\ i - 1 \in 0 .. n
      BY <1>1, <2>1, <2>2
    <3>2. V[i][0] = i /\ V[i - 1][0] = i - 1
      BY <2>1, <3>1, TableEdges
    <3>3. V[i - 1][j] + 1 = V[i][j]
      <4>1. V[i - 1][j] = i - 1 /\ V[i][j] = i
        BY <3>2, Zenon
      <4> HIDE DEF i, j
      <4> QED BY <2>1, <4>1
    <3> QED BY <1>4, <1>5, <2>1, <3>1, <3>3
  <2> QED BY <2>1, <2>2, <2>3
<1>6. ASSUME NEW k \in 0 .. n, k < n, k \in S PROVE k + 1 \in S
  <2> DEFINE i == n - k
             j == m - k
  <2>1. i > 0 /\ j > 0
    BY <1>5, <1>6
  <2>2. /\ ~(V[i - 1][j] + 1 = V[i][j]) /\ ~(V[i][j - 1] + 1 = V[i][j])
        /\ ~(V[i - 1][j - 1] + 1 = V[i][j])
    BY <1>4, <1>6, <2>1
  <2>3. i \in 1 .. Len(v) /\ j \in 1 .. Len(w)
    BY <1>1, <1>6, <2>1
  <2>4. FromNeighbours(V[i][j], V[i - 1][j], V[i][j - 1], V[i - 1][j - 1], v[i] = w[j])
    BY <2>3, TableCell, Zenon
  <2>5. v[i] = w[j] /\ V[i - 1][j - 1] = V[i][j]
    BY <2>2, <2>4 DEF FromNeighbours
  <2>6. /\ k + 1 \in 0 .. n /\ k + 1 <= m /\ n - (k + 1) = i - 1 /\ m - (k + 1) = j - 1
        /\ \A t \in 1 .. k : v[i + t] = w[j + t]
        /\ V[i][j] = V[n][m]
    BY <1>1, <1>6, <2>1
  <2>7. \A t \in 1 .. k + 1 : v[(i - 1) + t] = w[(j - 1) + t]
    <3> TAKE t \in 1 .. k + 1
    <3>1. CASE t = 1
      <4>1. (i - 1) + t = i /\ (j - 1) + t = j
        BY <2>3, <3>1
      <4> QED BY <2>5, <4>1
    <3>2. CASE t # 1
      <4>1. t - 1 \in 1 .. k /\ (i - 1) + t = i + (t - 1) /\ (j - 1) + t = j + (t - 1)
        BY <2>3, <3>2
      <4>2. v[i + (t - 1)] = w[j + (t - 1)]
        BY <2>6, <4>1, Zenon
      <4> QED BY <4>1, <4>2
    <3> QED BY <3>1, <3>2
  <2> HIDE DEF i, j
  <2> QED BY <2>5, <2>6, <2>7
<1> HIDE DEF S
<1>7. n \in S
  <2>1. \A k \in 0 .. n : k \in S
    BY <1>1, <1>3, <1>6, CountUp
  <2> QED BY <1>1, <2>1
<1> QED BY <1>1, <1>5, <1>7

\* A word at a distance has another one edit away that is closer.
LEMMA NextWord ==
    ASSUME NEW v \in Seq(Letters), NEW w \in Seq(Letters), distance(v, w) # 0
    PROVE  \E u \in OneEdit(v) : distance(u, w) + 1 <= distance(v, w)
<1>1. PICK V : IsTable(V, v, w) /\ distance(v, w) = V[Len(v)][Len(w)]
  BY DistanceTable, Zenon
<1>2. PICK k \in Nat : Ending(V, v, w, k)
  BY <1>1, EndingExists, Zenon
<1> DEFINE n == Len(v)
           m == Len(w)
           i == n - k
           j == m - k
           d == distance(v, w)
<1>3. /\ n \in Nat /\ m \in Nat /\ k <= n /\ k <= m /\ i \in 0 .. n /\ j \in 0 .. m
      /\ i + k = n /\ j + k = m
  BY <1>2 DEF Ending
<1>4. (\A t \in 1 .. k : v[i + t] = w[j + t]) /\ V[i][j] = d
  BY <1>1, <1>2, Zenon DEF Ending
<1>5. ~(i = 0 /\ j = 0)
  <2> SUFFICES ASSUME i = 0, j = 0 PROVE FALSE
    OBVIOUS
  <2>1. V[0][0] = 0 /\ V[i][j] = V[0][0]
    BY <1>1, <1>3, TableEdges
  <2> QED BY <1>4, <2>1
<1>6. \/ i > 0 /\ V[i - 1][j] + 1 = V[i][j]
      \/ j > 0 /\ V[i][j - 1] + 1 = V[i][j]
      \/ i > 0 /\ j > 0 /\ V[i - 1][j - 1] + 1 = V[i][j]
  BY <1>2, <1>5, Zenon DEF Ending
<1>7. /\ \A t \in 1 .. n : v[t] \in Letters
      /\ \A t \in 1 .. m : w[t] \in Letters
  OBVIOUS
<1>8. \A x \in 0 .. n, y \in 0 .. m : V[x][y] \in Nat
  BY <1>1, TableEdges
<1>9. d \in Nat
  BY <1>3, <1>4, <1>8
\* The letters behind k from the end of another word are w's too: it is no further from w than
\* the beginnings before them are from each other.
<1>10. ASSUME NEW u \in Seq(Letters), NEW p \in Nat, NEW q \in Nat, p + k = Len(u), q + k = m,
              \A t \in 1 .. k : u[p + t] = w[q + t],
              \A U : IsTable(U, u, w) => U[p][q] + 1 <= d
       PROVE  distance(u, w) + 1 <= d
  <2>1. PICK U : IsTable(U, u, w) /\ distance(u, w) = U[Len(u)][Len(w)]
    BY DistanceTable, Zenon
  <2>2. p + k <= Len(u) /\ q + k <= Len(w)
    BY <1>3, <1>10
  <2>3. U[p + k][q + k] <= U[p][q]
    BY <1>10, <2>1, <2>2, FollowMatch, Zenon
  <2>4. U[p][q] + 1 <= d
    BY <1>10, <2>1
  <2>5. U[p][q] \in Nat /\ U[p + k][q + k] \in Nat
    <3>1. p \in 0 .. Len(u) /\ p + k \in 0 .. Len(u) /\ q \in 0 .. Len(w) /\ q + k \in 0 .. Len(w)
      BY <1>3, <1>10
    <3> QED BY <2>1, <3>1, TableEdges
  <2>6. U[p + k][q + k] + 1 <= d
    <3> DEFINE x == U[p][q]
               y == U[p + k][q + k]
    <3> HIDE DEF d, x, y
    <3>1. x + 1 <= d /\ y <= x /\ x \in Nat /\ y \in Nat
      BY <2>3, <2>4, <2>5, Zenon DEF x, y
    <3>2. y + 1 <= d
      BY <1>9, <3>1
    <3> QED BY <3>2 DEF y
  <2> QED BY <1>10, <2>1, <2>6
<1> HIDE DEF n, m, i, j, d
\* A word that begins as v does up to p letters has the same row there.
<1>11. ASSUME NEW u \in Seq(Letters), NEW p \in Nat, p <= n, p <= Len(u),
              \A t \in 1 .. p : u[t] = v[t], NEW U, IsTable(U, u, w), NEW y \in 0 .. m
       PROVE  U[p][y] <= V[p][y] /\ U[p][y] \in Nat /\ V[p][y] \in Nat
  <2>1. p <= Len(v) /\ y \in 0 .. Len(w) /\ p \in 0 .. n /\ p \in 0 .. Len(u)
    BY <1>3, <1>11 DEF n, m
  <2>2. U[p][y] <= V[p][y]
    BY <1>1, <1>11, <2>1, SamePrefix, Zenon
  <2>3. U[p][y] \in Nat
    BY <1>11, <2>1, TableEdges, Zenon
  <2> QED BY <1>8, <2>1, <2>2, <2>3
<1>12. CASE i > 0 /\ V[i - 1][j] + 1 = V[i][j]
  <2> DEFINE u == RemoveAt(v, i)
  <2>1. i \in 1 .. Len(v) /\ i - 1 \in Nat /\ i - 1 <= n /\ i - 1 + k = n - 1 /\ j \in Nat
    BY <1>3, <1>12 DEF n
  <2>2. u \in Seq(Letters) /\ Cut(u, v, i)
    BY <2>1, WordCut, Zenon
  <2>3. u \in OneEdit(v)
    BY <2>1 DEF OneEdit
  <2> HIDE DEF u
  <2>4. i - 1 + k = Len(u) /\ i - 1 <= Len(u)
    <3>1. Len(u) = n - 1
      BY <2>2, Zenon DEF Cut, n
    <3> QED BY <1>3, <2>1, <3>1
  <2>5. \A t \in 1 .. k : u[i - 1 + t] = w[j + t]
    <3> TAKE t \in 1 .. k
    <3>1. i - 1 + t \in i .. Len(v) - 1 /\ (i - 1 + t) + 1 = i + t
      BY <1>3, <2>1 DEF n
    <3>2. u[i - 1 + t] = v[(i - 1 + t) + 1]
      BY <2>2, <3>1, Zenon DEF Cut
    <3> QED BY <1>4, <3>1, <3>2
  <2>6. ASSUME NEW U, IsTable(U, u, w) PROVE U[i - 1][j] + 1 <= d
    <3>1. \A t \in 1 .. i - 1 : u[t] = v[t]
      BY <2>2, Zenon DEF Cut
    <3>2. U[i - 1][j] <= V[i - 1][j] /\ U[i - 1][j] \in Nat /\ V[i - 1][j] \in Nat
      BY <1>3, <1>11, <2>1, <2>2, <2>4, <2>6, <3>1, Zenon
    <3> QED BY <1>4, <1>12, <3>2
  <2>7. distance(u, w) + 1 <= d
    BY <1>3, <1>10, <2>1, <2>2, <2>4, <2>5, <2>6, Zenon
  <2> QED BY <2>3, <2>7 DEF d
<1>13. CASE j > 0 /\ V[i][j - 1] + 1 = V[i][j]
  <2> DEFINE u == InsertAt(v, i + 1, w[j])
  <2>1. /\ i + 1 \in 1 .. Len(v) + 1 /\ i + 1 \in Nat /\ i \in Nat /\ i <= n /\ j \in Nat
        /\ w[j] \in Letters /\ j \in 1 .. Len(w) /\ j - 1 \in 0 .. m /\ i + 1 + k = n + 1
        /\ (i + 1) - 1 = i
    BY SMTT(30), <1>3, <1>7, <1>13 DEF n, m
  <2>2. u \in Seq(Letters) /\ Grown(u, v, i + 1, w[j])
    BY <2>1, WordGrown, Zenon
  <2>3. u \in OneEdit(v)
    BY <2>1 DEF OneEdit
  <2> HIDE DEF u
  <2>4. i + 1 + k = Len(u) /\ i <= Len(u) /\ i + 1 \in 1 .. Len(u) /\ Len(u) = n + 1
    <3>1. Len(u) = n + 1
      BY <2>2, Zenon DEF Grown, n
    <3> QED BY <1>3, <2>1, <3>1
  <2>5. \A t \in 1 .. k : u[i + 1 + t] = w[j + t]
    <3> TAKE t \in 1 .. k
    <3>1. i + 1 + t \in i + 1 + 1 .. Len(v) + 1 /\ (i + 1 + t) - 1 = i + t
      BY <1>3, <2>1 DEF n
    <3>2. u[i + 1 + t] = v[(i + 1 + t) - 1]
      BY <2>2, <3>1, Zenon DEF Grown
    <3> QED BY <1>4, <3>1, <3>2
  <2>6. ASSUME NEW U, IsTable(U, u, w) PROVE U[i + 1][j] + 1 <= d
    <3>1. \A t \in 1 .. i : u[t] = v[t]
      BY <2>1, <2>2 DEF Grown
    <3>2. U[i][j - 1] <= V[i][j - 1] /\ U[i][j - 1] \in Nat /\ V[i][j - 1] \in Nat
      BY <1>11, <2>1, <2>2, <2>4, <2>6, <3>1, Zenon
    <3>3. u[i + 1] = w[j]
      BY <2>2, Zenon DEF Grown
    <3>4. FromNeighbours(U[i + 1][j], U[(i + 1) - 1][j], U[i + 1][j - 1], U[(i + 1) - 1][j - 1],
                         u[i + 1] = w[j])
      BY <2>1, <2>2, <2>4, <2>6, TableCell, Zenon
    <3>5. U[i + 1][j] <= U[i][j - 1] /\ U[i + 1][j] \in Nat
      BY <2>1, <3>3, <3>4 DEF FromNeighbours
    <3> QED BY SMTT(30), <1>4, <1>13, <3>2, <3>5
  <2>7. distance(u, w) + 1 <= d
    BY <1>3, <1>10, <2>1, <2>2, <2>4, <2>5, <2>6, Zenon
  <2> QED BY <2>3, <2>7 DEF d
<1>14. CASE i > 0 /\ j > 0 /\ V[i - 1][j - 1] + 1 = V[i][j]
  <2> DEFINE u == ReplaceAt(v, i, w[j])
  <2>1. /\ i \in 1 .. Len(v) /\ i - 1 \in Nat /\ i \in Nat /\ i - 1 <= n /\ j \in Nat
        /\ w[j] \in Letters /\ j \in 1 .. Len(w) /\ j - 1 \in 0 .. m
    BY <1>3, <1>7, <1>14 DEF n, m
  <2>2. u \in Seq(Letters) /\ Replaced(u, v, i, w[j])
    BY <2>1, WordReplaced, Zenon
  <2>3. u \in OneEdit(v)
    BY <2>1 DEF OneEdit
  <2> HIDE DEF u
  <2>4. i + k = Len(u) /\ i - 1 <= Len(u) /\ i \in 1 .. Len(u)
    <3>1. Len(u) = n
      BY <2>2, Zenon DEF Replaced, n
    <3> QED BY <1>3, <2>1, <3>1
  <2>5. \A t \in 1 .. k : u[i + t] = w[j + t]
    <3> TAKE t \in 1 .. k
    <3>1. i + t \in 1 .. Len(v) /\ i + t # i
      BY <1>3, <2>1 DEF n
    <3>2. u[i + t] = v[i + t]
      BY <2>2, <3>1, Zenon DEF Replaced
    <3> QED BY <1>4, <3>2
  <2>6. ASSUME NEW U, IsTable(U, u, w) PROVE U[i][j] + 1 <= d
    <3>1. \A t \in 1 .. i - 1 : u[t] = v[t]
      <4> TAKE t \in 1 .. i - 1
      <4>1. t \in 1 .. Len(v) /\ t # i
        BY <1>3, <2>1 DEF n
      <4> QED BY <2>2, <4>1, Zenon DEF Replaced
    <3>2. U[i - 1][j - 1] <= V[i - 1][j - 1] /\ U[i - 1][j - 1] \in Nat /\ V[i - 1][j - 1] \in Nat
      BY <1>11, <2>1, <2>2, <2>4, <2>6, <3>1, Zenon
    <3>3. u[i] = w[j]
      BY <2>2, Zenon DEF Replaced
    <3>4. FromNeighbours(U[i][j], U[i - 1][j], U[i][j - 1], U[i - 1][j - 1], u[i] = w[j])
      BY <2>1, <2>2, <2>4, <2>6, TableCell, Zenon
    <3>5. U[i][j] <= U[i - 1][j - 1] /\ U[i][j] \in Nat
      BY <3>3, <3>4 DEF FromNeighbours
    <3> QED BY SMTT(30), <1>4, <1>14, <3>2, <3>5
  <2>7. distance(u, w) + 1 <= d
    BY <1>3, <1>10, <2>1, <2>2, <2>4, <2>5, <2>6, Zenon
  <2> QED BY <2>3, <2>7 DEF d
<1> QED BY <1>6, <1>12, <1>13, <1>14

\* Only a word is at no distance from itself.
LEMMA ZeroIsEqual ==
    ASSUME NEW L, NEW v \in Seq(L), NEW w \in Seq(L)
    PROVE  distance(v, w) \in Nat /\ (distance(v, w) = 0 <=> v = w)
<1>1. PICK V : IsTable(V, v, w) /\ distance(v, w) = V[Len(v)][Len(w)]
  BY DistanceTable, Zenon
<1>2. Len(v) \in Nat /\ Len(w) \in Nat
  OBVIOUS
<1>3. \A x \in 0 .. Len(v), y \in 0 .. Len(w) : V[x][y] \in Nat
  BY <1>1, TableEdges
<1>4. distance(v, w) \in Nat
  BY <1>1, <1>2, <1>3
<1>5. ASSUME distance(v, w) = 0 PROVE v = w
  <2>1. PICK k \in Nat : Ending(V, v, w, k)
    BY <1>1, EndingExists, Zenon
  <2> DEFINE i == Len(v) - k
             j == Len(w) - k
  <2>2. /\ k <= Len(v) /\ k <= Len(w) /\ \A t \in 1 .. k : v[i + t] = w[j + t]
        /\ V[i][j] = 0
        /\ \/ i = 0 /\ j = 0
           \/ i > 0 /\ V[i - 1][j] + 1 = V[i][j]
           \/ j > 0 /\ V[i][j - 1] + 1 = V[i][j]
           \/ i > 0 /\ j > 0 /\ V[i - 1][j - 1] + 1 = V[i][j]
    BY <1>1, <1>5, <2>1, Zenon DEF Ending
  <2>3. i \in 0 .. Len(v) /\ j \in 0 .. Len(w)
    BY <1>2, <2>2
  <2>4. i = 0 /\ j = 0
    <3> HIDE DEF i, j
    <3>1. ASSUME NEW x \in Nat PROVE x + 1 # 0
      OBVIOUS
    <3>2. ~(i > 0 /\ V[i - 1][j] + 1 = V[i][j])
      <4> SUFFICES ASSUME i > 0, V[i - 1][j] + 1 = V[i][j] PROVE FALSE
        OBVIOUS
      <4>1. i - 1 \in 0 .. Len(v)
        BY <1>2, <2>3
      <4> QED BY <1>3, <2>2, <2>3, <3>1, <4>1
    <3>3. ~(j > 0 /\ V[i][j - 1] + 1 = V[i][j])
      <4> SUFFICES ASSUME j > 0, V[i][j - 1] + 1 = V[i][j] PROVE FALSE
        OBVIOUS
      <4>1. j - 1 \in 0 .. Len(w)
        BY <1>2, <2>3
      <4> QED BY <1>3, <2>2, <2>3, <3>1, <4>1
    <3>4. ~(i > 0 /\ j > 0 /\ V[i - 1][j - 1] + 1 = V[i][j])
      <4> SUFFICES ASSUME i > 0, j > 0, V[i - 1][j - 1] + 1 = V[i][j] PROVE FALSE
        OBVIOUS
      <4>1. i - 1 \in 0 .. Len(v) /\ j - 1 \in 0 .. Len(w)
        BY <1>2, <2>3
      <4> QED BY <1>3, <2>2, <2>3, <3>1, <4>1
    <3> QED BY <2>2, <3>2, <3>3, <3>4
  <2>5. Len(v) = k /\ Len(w) = k
    BY <1>2, <2>4
  <2>6. \A t \in 1 .. Len(v) : v[t] = w[t]
    <3> TAKE t \in 1 .. Len(v)
    <3>1. v[i + t] = w[j + t] /\ i + t = t /\ j + t = t
      BY <2>2, <2>4, <2>5
    <3> QED BY <3>1
  <2> QED BY <2>5, <2>6, SameWord
<1>6. ASSUME v = w PROVE distance(v, w) = 0
  <2>1. /\ 0 \in Nat /\ 0 + Len(v) <= Len(v) /\ 0 + Len(v) <= Len(w)
        /\ \A t \in 1 .. Len(v) : v[0 + t] = w[0 + t]
        /\ 0 + Len(v) = Len(v) /\ Len(w) = Len(v)
    BY <1>2, <1>6
  <2>2. V[0 + Len(v)][0 + Len(v)] <= V[0][0]
    BY <1>1, <1>2, <2>1, FollowMatch, Zenon
  <2>3. V[0][0] = 0
    BY <1>1, <1>2, TableEdges
  <2> QED BY <1>1, <1>4, <2>1, <2>2, <2>3
<1> QED BY <1>4, <1>5, <1>6

\* Edits, as TLC evaluates it by making the words, is the distance of the code up to its budget.
LEMMA EditsAreDistance ==
    ASSUME NEW v \in Seq(Letters), NEW w \in Seq(Letters)
    PROVE  (IF v = w THEN 0 ELSE IF w \in OneEdit(v) THEN 1
            ELSE IF OneEdit(v) \cap OneEdit(w) # {} THEN 2 ELSE 3)
             = IF distance(v, w) < 3 THEN distance(v, w) ELSE 3
<1> DEFINE d == distance(v, w)
<1>1. d \in Nat /\ (d = 0 <=> v = w)
  BY ZeroIsEqual, Zenon
<1>2. ASSUME NEW x \in Seq(Letters), NEW y \in Seq(Letters), y \in OneEdit(x)
      PROVE  distance(x, y) <= 1
  <2>1. distance(x, y) <= distance(y, y) + 1
    BY <1>2, OneLess, Zenon
  <2>2. distance(y, y) = 0
    BY ZeroIsEqual, Zenon
  <2> QED BY <2>1, <2>2
<1>3. ASSUME NEW x \in Seq(Letters), NEW y \in Seq(Letters), distance(x, y) = 1
      PROVE  y \in OneEdit(x)
  <2>1. PICK u \in OneEdit(x) : distance(u, y) + 1 <= distance(x, y)
    BY <1>3, NextWord
  <2>2. u \in Seq(Letters)
    BY EditsAreUndone, Zenon
  <2>3. distance(u, y) \in Nat /\ (distance(u, y) = 0 <=> u = y)
    BY <2>2, ZeroIsEqual, Zenon
  <2> QED BY <1>3, <2>1, <2>3
<1>4. w \in OneEdit(v) /\ v # w => d = 1
  BY <1>1, <1>2
<1>5. d = 1 => w \in OneEdit(v)
  BY <1>3
<1>6. ASSUME d = 2 PROVE OneEdit(v) \cap OneEdit(w) # {}
  <2>1. PICK u \in OneEdit(v) : distance(u, w) + 1 <= d
    BY <1>6, NextWord
  <2>2. u \in Seq(Letters)
    BY EditsAreUndone, Zenon
  <2>3. distance(u, w) \in Nat /\ (distance(u, w) = 0 <=> u = w)
    BY <2>2, ZeroIsEqual, Zenon
  <2>4. distance(u, w) # 0
    <3> SUFFICES ASSUME distance(u, w) = 0 PROVE FALSE
      OBVIOUS
    <3>1. w \in OneEdit(v)
      BY <2>1, <2>3
    <3> QED BY <1>1, <1>4, <1>6, <3>1
  <2>5. distance(u, w) = 1
    BY <1>6, <2>1, <2>3, <2>4
  <2>6. w \in OneEdit(u)
    BY <1>3, <2>2, <2>5
  <2>7. u \in OneEdit(w)
    BY <2>2, <2>6, EditsAreUndone, Zenon
  <2> QED BY <2>1, <2>7
<1>7. ASSUME OneEdit(v) \cap OneEdit(w) # {} PROVE d <= 2
  <2>1. PICK u : u \in OneEdit(v) /\ u \in OneEdit(w)
    BY <1>7
  <2>2. u \in Seq(Letters) /\ w \in OneEdit(u)
    BY <2>1, EditsAreUndone, Zenon
  <2>3. distance(u, w) <= 1
    BY <1>2, <2>2
  <2>4. distance(v, w) <= distance(u, w) + 1
    BY <2>1, OneLess, Zenon
  <2>5. distance(u, w) \in Nat
    BY <2>2, ZeroIsEqual, Zenon
  <2> HIDE DEF d
  <2>6. d <= distance(u, w) + 1
    BY <2>4 DEF d
  <2> QED BY <1>1, <2>3, <2>5, <2>6
<1> HIDE DEF d
<1>8. (IF v = w THEN 0 ELSE IF w \in OneEdit(v) THEN 1
       ELSE IF OneEdit(v) \cap OneEdit(w) # {} THEN 2 ELSE 3) = IF d < 3 THEN d ELSE 3
  <2>1. CASE d = 0
    BY <1>1, <2>1
  <2>2. CASE d = 1
    BY <1>1, <1>5, <2>2
  <2>3. CASE d = 2
    BY <1>1, <1>4, <1>6, <2>3
  <2>4. CASE d >= 3
    BY <1>1, <1>4, <1>7, <2>4
  <2> QED BY <1>1, <2>1, <2>2, <2>3, <2>4
<1> QED BY <1>8 DEF d

-----------------------------------------------------------------------------
(* nearest: one class after the other.                                     *)

\* What is best among the first i - 1 classes and what is when the next is looked at too.
Tried(class, installed, best, i) ==
    LET c == ClassOrder[i]
        d == distance(Spelling[class], Spelling[c])
    IN  IF c \in installed /\ d < best.distance THEN [class |-> c, distance |-> d] ELSE best

\* The loop of nearest ends with what is best among all.
LEMMA NearestByStep ==
    ASSUME NEW class, NEW installed, NEW budget
    PROVE  \E best : /\ best[0] = [class |-> NoClass, distance |-> budget]
                     /\ \A i \in 1 .. Len(ClassOrder) :
                           best[i] = Tried(class, installed, best[i - 1], i)
                     /\ nearest(class, installed, budget) = best[Len(ClassOrder)].class
<1> DEFINE n == Len(ClassOrder)
           Base == [class |-> NoClass, distance |-> budget]
           Try(b, i) == Tried(class, installed, b, i)
           Far == {distance(Spelling[class], Spelling[c]) : c \in Class} \cup {budget}
           Found == [class : Class \cup {NoClass}, distance : Far]
           Run(g) == g = [i \in 0 .. n |-> IF i = 0 THEN Base ELSE Try(g[i - 1], i)]
           best == CHOOSE g : Run(g)
           F == [p \in Found \X (1 .. n) |-> Try(p[1], p[2])]
<1>1. n \in Nat
  BY ListedClasses
<1>2. nearest(class, installed, budget) = best[n].class
  BY DEF nearest, Tried
<1>3. Base \in Found
  OBVIOUS
<1>4. ASSUME NEW b \in Found, NEW i \in 1 .. n PROVE Try(b, i) \in Found
  <2>1. ClassOrder[i] \in Class
    BY ListedClasses
  <2> QED BY <2>1 DEF Tried
<1> HIDE DEF Base, Try, Found
<1>5. F \in [Found \X (1 .. n) -> Found] /\ \A b \in Found, i \in 1 .. n : F[<<b, i>>] = Try(b, i)
  BY <1>4
<1> HIDE DEF n, F
<1>6. PICK g \in [0 .. n -> Found] : Steps(g, n, Base, F)
  BY <1>1, <1>3, <1>5, StepByStep
<1>7. ASSUME NEW i \in 0 .. n PROVE g[i] = IF i = 0 THEN Base ELSE Try(g[i - 1], i)
  <2>1. CASE i # 0
    <3>1. i \in 1 .. n /\ i - 1 \in 0 .. n /\ g[i - 1] \in Found
      BY <1>1, <1>6, <2>1
    <3> QED BY <1>5, <1>6, <2>1, <3>1 DEF Steps
  <2> QED BY <1>6, <2>1 DEF Steps
<1>8. g = [i \in 0 .. n |-> g[i]]
  BY <1>6
<1>9. Run(g)
  BY <1>7, <1>8, Zenon
<1>10. Run(best)
  BY <1>9
<1> HIDE DEF best
<1>11. best[0] = Base /\ \A i \in 1 .. n : best[i] = Try(best[i - 1], i)
  <2>1. \A i \in 0 .. n : best[i] = IF i = 0 THEN Base ELSE Try(best[i - 1], i)
    BY <1>10, Zenon
  <2>2. 0 \in 0 .. n /\ \A i \in 1 .. n : i \in 0 .. n /\ i # 0
    BY <1>1
  <2> QED BY <2>1, <2>2, Zenon
<1> QED BY <1>2, <1>11 DEF n, Base, Try

\* What `up` suggests is one of the classes there are, or none.
LEMMA NearestIsAClass ==
    ASSUME NEW class, NEW installed, NEW budget
    PROVE  nearest(class, installed, budget) \in Class \cup {NoClass}
<1> DEFINE n == Len(ClassOrder)
<1>1. PICK best : /\ best[0] = [class |-> NoClass, distance |-> budget]
                  /\ \A i \in 1 .. n : best[i] = Tried(class, installed, best[i - 1], i)
                  /\ nearest(class, installed, budget) = best[n].class
  BY NearestByStep
<1> DEFINE S == {k \in 0 .. n : best[k].class \in Class \cup {NoClass}}
<1>2. n \in Nat
  BY ListedClasses
<1>3. 0 \in S
  BY <1>1, <1>2
<1>4. ASSUME NEW k \in 0 .. n, k < n, k \in S PROVE k + 1 \in S
  <2>1. k + 1 \in 1 .. n /\ k + 1 \in 0 .. n /\ (k + 1) - 1 = k
    BY <1>2, <1>4
  <2>2. best[k + 1] = Tried(class, installed, best[k], k + 1) /\ ClassOrder[k + 1] \in Class
    BY <1>1, <2>1, ListedClasses
  <2> QED BY <1>4, <2>1, <2>2 DEF Tried
<1> HIDE DEF S, n
<1>5. n \in S
  <2>1. \A k \in 0 .. n : k \in S
    BY <1>2, <1>3, <1>4, CountUp
  <2> QED BY <1>2, <2>1
<1> QED BY <1>1, <1>5 DEF S

Away(class, i) == distance(Spelling[class], Spelling[ClassOrder[i]])

\* The first of those of the first k installed classes that are nearest.
FirstNearest(class, installed, budget, k, i) ==
    /\ i \in 1 .. k /\ ClassOrder[i] \in installed /\ Away(class, i) < budget
    /\ \A j \in 1 .. k : ClassOrder[j] \in installed =>
          /\ Away(class, i) <= Away(class, j)
          /\ Away(class, j) <= Away(class, i) => i <= j

\* None of them is within the budget.
NoneNear(class, installed, budget, k) ==
    \A j \in 1 .. k : ClassOrder[j] \in installed => ~(Away(class, j) < budget)

\* That is the one `up` suggests.
LEMMA NearestIsFirst ==
    ASSUME NEW class \in DOMAIN Spelling, NEW installed, NEW budget \in Nat
    PROVE  LET n == Len(ClassOrder)
               found == nearest(class, installed, budget)
           IN  \/ found = NoClass /\ NoneNear(class, installed, budget, n)
               \/ \E i \in 1 .. n :
                     found = ClassOrder[i] /\ FirstNearest(class, installed, budget, n, i)
<1> DEFINE n == Len(ClassOrder)
           base == [class |-> NoClass, distance |-> budget]
<1>1. PICK best : /\ best[0] = base
                  /\ \A i \in 1 .. n : best[i] = Tried(class, installed, best[i - 1], i)
                  /\ nearest(class, installed, budget) = best[n].class
  BY NearestByStep
<1> DEFINE Found(k, i) == /\ best[k] = [class |-> ClassOrder[i], distance |-> Away(class, i)]
                          /\ FirstNearest(class, installed, budget, k, i)
           Nothing(k) == best[k] = base /\ NoneNear(class, installed, budget, k)
           S == {k \in 0 .. n : Nothing(k) \/ \E i \in 1 .. k : Found(k, i)}
<1>2. n \in Nat
  BY ListedClasses
<1>3. \A i \in 1 .. n : Away(class, i) \in Nat
  <2> TAKE i \in 1 .. n
  <2>1. ClassOrder[i] \in DOMAIN Spelling
    BY ListedClasses, UpAssumption
  <2>2. Spelling[class] \in Seq(STRING) /\ Spelling[ClassOrder[i]] \in Seq(STRING)
    BY <2>1, UpAssumption
  <2> QED BY <2>2, ZeroIsEqual DEF Away
<1>4. 0 \in S
  <2>1. Nothing(0)
    BY <1>1 DEF NoneNear
  <2> QED BY <1>2, <2>1
<1>5. ASSUME NEW k \in 0 .. n, k < n, k \in S PROVE k + 1 \in S
  <2> DEFINE a == Away(class, k + 1)
             c == ClassOrder[k + 1]
  <2>1. /\ k + 1 \in 1 .. n /\ k + 1 \in 0 .. n /\ (k + 1) - 1 = k /\ k + 1 \in 1 .. k + 1
        /\ \A j \in 1 .. k + 1 : j = k + 1 \/ j \in 1 .. k
        /\ \A j \in 1 .. k : j \in 1 .. k + 1 /\ j \in 1 .. n /\ j <= k + 1 /\ ~(k + 1 <= j)
    BY <1>2, <1>5
  <2>2. best[k + 1] = IF c \in installed /\ a < best[k].distance
                      THEN [class |-> c, distance |-> a] ELSE best[k]
    BY <1>1, <2>1 DEF Tried, Away
  <2>3. a \in Nat /\ a = Away(class, k + 1)
    BY <1>3, <2>1
  <2> HIDE DEF a
  <2>4. CASE Nothing(k)
    <3>1. best[k].distance = budget
      BY <2>4
    <3>2. CASE c \in installed /\ a < budget
      <4>1. best[k + 1] = [class |-> c, distance |-> a]
        BY <2>2, <3>1, <3>2
      <4>2. FirstNearest(class, installed, budget, k + 1, k + 1)
        <5>1. ASSUME NEW j \in 1 .. k + 1, ClassOrder[j] \in installed
              PROVE  a <= Away(class, j) /\ (Away(class, j) <= a => k + 1 <= j)
          <6>1. CASE j = k + 1
            BY <2>1, <2>3, <6>1
          <6>2. CASE j \in 1 .. k
            <7>1. ~(Away(class, j) < budget) /\ Away(class, j) \in Nat
              BY <1>3, <2>1, <2>4, <5>1, <6>2 DEF NoneNear
            <7> QED BY <2>3, <3>2, <7>1
          <6> QED BY <2>1, <6>1, <6>2
        <5> QED BY <2>1, <2>3, <3>2, <5>1 DEF FirstNearest
      <4>3. Found(k + 1, k + 1)
        BY <2>3, <4>1, <4>2
      <4> QED BY <2>1, <4>3
    <3>3. CASE ~(c \in installed /\ a < budget)
      <4>1. best[k + 1] = base
        BY <2>2, <2>4, <3>1, <3>3
      <4>2. NoneNear(class, installed, budget, k + 1)
        BY <2>1, <2>3, <2>4, <3>3 DEF NoneNear
      <4> QED BY <2>1, <4>1, <4>2
    <3> QED BY <3>2, <3>3
  <2>5. CASE \E i \in 1 .. k : Found(k, i)
    <3>1. PICK i \in 1 .. k : Found(k, i)
      BY <2>5
    <3> DEFINE e == Away(class, i)
    <3>2. best[k].distance = e /\ e \in Nat /\ e < budget /\ e = Away(class, i)
      BY <1>3, <2>1, <3>1 DEF FirstNearest
    <3> HIDE DEF e
    <3>3. CASE c \in installed /\ a < e
      <4>1. best[k + 1] = [class |-> c, distance |-> a]
        BY <2>2, <3>2, <3>3
      <4>2. FirstNearest(class, installed, budget, k + 1, k + 1)
        <5>1. ASSUME NEW j \in 1 .. k + 1, ClassOrder[j] \in installed
              PROVE  a <= Away(class, j) /\ (Away(class, j) <= a => k + 1 <= j)
          <6>1. CASE j = k + 1
            BY <2>1, <2>3, <6>1
          <6>2. CASE j \in 1 .. k
            <7>1. e <= Away(class, j) /\ Away(class, j) \in Nat
              BY <1>3, <2>1, <3>1, <3>2, <5>1, <6>2 DEF FirstNearest
            <7> QED BY <2>3, <3>2, <3>3, <7>1
          <6> QED BY <2>1, <6>1, <6>2
        <5>2. a < budget
          BY <2>3, <3>2, <3>3
        <5> QED BY <2>1, <2>3, <3>3, <5>1, <5>2 DEF FirstNearest
      <4>3. Found(k + 1, k + 1)
        BY <2>3, <4>1, <4>2
      <4> QED BY <2>1, <4>3
    <3>4. CASE ~(c \in installed /\ a < e)
      <4>1. best[k + 1] = best[k]
        BY <2>2, <3>2, <3>4
      <4>2. FirstNearest(class, installed, budget, k + 1, i)
        <5>1. ASSUME NEW j \in 1 .. k + 1, ClassOrder[j] \in installed
              PROVE  e <= Away(class, j) /\ (Away(class, j) <= e => i <= j)
          <6>1. CASE j = k + 1
            BY <2>1, <2>3, <3>2, <3>4, <5>1, <6>1
          <6>2. CASE j \in 1 .. k
            BY <3>1, <3>2, <5>1, <6>2 DEF FirstNearest
          <6> QED BY <2>1, <6>1, <6>2
        <5> QED BY <2>1, <3>1, <3>2, <5>1 DEF FirstNearest
      <4>3. Found(k + 1, i)
        BY <3>1, <4>1, <4>2
      <4> QED BY <2>1, <3>1, <4>3
    <3> QED BY <3>3, <3>4
  <2> QED BY <1>5, <2>4, <2>5
<1> HIDE DEF S, n
<1>6. n \in S
  <2>1. \A k \in 0 .. n : k \in S
    BY <1>2, <1>4, <1>5, CountUp
  <2> QED BY <1>2, <2>1
<1>7. CASE Nothing(n)
  BY <1>1, <1>7 DEF n
<1>8. CASE \E i \in 1 .. n : Found(n, i)
  BY <1>1, <1>8 DEF n
<1> QED BY <1>6, <1>7, <1>8 DEF S

\* What FromYAML returns beside its denials: nothing, or a spec with its defaults.
LEMMA FromYAMLType ==
    ASSUME NEW f \in Manifest
    PROVE  /\ FromYAML(f).spec \in Spec6 \cup {NoFile}
           /\ FromYAML(f).errs = {} =>
                 /\ FromYAML(f).spec # NoFile /\ FromYAML(f).spec.class # NoClass
                 /\ FromYAML(f).spec.size \in {"dev", "ha"}
<1> DEFINE s == SpecOf(f)
           bare == IF f.class = NoClass THEN NoClass ELSE [f.class EXCEPT !.hosted = FALSE]
           d == Defaults(s)
           class == IF bare = NoClass THEN [base |-> DefaultClass, hosted |-> FALSE] ELSE bare
           size == Default(f.size, "dev")
           placement == Default(f.placement, "self")
<1>1. bare \in [base : STRING, hosted : BOOLEAN] \cup {NoClass}
  <2>1. f.class \in [base : STRING, hosted : BOOLEAN] \cup {NoClass}
    BY DEF Manifest
  <2> QED BY <2>1
<1>2. class \in [base : STRING, hosted : BOOLEAN]
  <2>1. [base |-> DefaultClass, hosted |-> FALSE] \in [base : STRING, hosted : BOOLEAN]
    <3>1. "std" \in STRING
      BY UpAssumption
    <3> QED BY <3>1 DEF DefaultClass
  <2> HIDE DEF bare
  <2> QED BY <1>1, <2>1
<1>3. size \in STRING /\ placement \in STRING
  BY UpAssumption DEF Manifest, Default
<1>4. f.name \in STRING /\ f.version \in Version /\ f.pools \in Seq(Pool)
  BY DEF Manifest
<1>5. s = [name |-> f.name, class |-> bare, version |-> f.version, size |-> f.size,
           placement |-> f.placement, pools |-> f.pools]
  BY DEF SpecOf
<1> HIDE DEF bare
<1>6. d = [s EXCEPT !.class = class, !.size = size, !.placement = placement]
  BY <1>5 DEF Defaults
<1> HIDE DEF s, d, class, size, placement
<1>7. d = [name |-> f.name, class |-> class, version |-> f.version, size |-> size,
           placement |-> placement, pools |-> f.pools]
  BY <1>5, <1>6
<1>8. d \in Spec6 /\ d.class = class /\ d.size = size
  BY <1>2, <1>3, <1>4, <1>7 DEF Spec6
<1>9. d # NoFile /\ class # NoClass
  BY <1>2, <1>8, UpAssumption
<1>10. FromYAML(f).spec = NoFile \/ FromYAML(f).spec = d
  BY DEF FromYAML, d, s
<1>11. ASSUME FromYAML(f).errs = {}
       PROVE  FromYAML(f).spec = d /\ size \in {"dev", "ha"}
  <2>1. Validate(s) = {} /\ FromYAML(f).spec = d
    BY <1>11, NoDenials DEF s, d
  <2>2. s.size \in {"", "dev", "ha"}
    BY <2>1 DEF Validate, When
  <2> QED BY <1>5, <2>1, <2>2 DEF size, Default
<1> QED BY <1>8, <1>9, <1>10, <1>11

\* The command and the counters are of their types; a command that is denied is
\* denied for its file, and a file is there only while a command may run.
Commanded ==
    /\ made \in Spec6 \cup {NoFile}
    /\ up.step \in Step /\ up.spec \in Spec6 \cup {NoFile}
    /\ up.looked \subseteq Class /\ up.suggestion \in Class \cup {NoClass}
    /\ up.exit \in {None, 3, 4} /\ (up.exit # None <=> up.step \in {"denied", "failed"})
    /\ up.errs # {} <=> up.step = "denied"
    /\ up.name \in NameArg \cup {""} /\ (up.name # "" <=> up.step = "watch")
    /\ up.step = "denied" => up.errs = FromYAML(file).errs
    /\ up.step # "idle" => file # NoFile
    /\ file # NoFile => runs < MaxRuns
    /\ classes \subseteq Class /\ group \in BOOLEAN
    /\ runs \in 0 .. MaxRuns /\ changes \in 0 .. MaxChanges

\* An exit code is one of the two, and not the sign that there is none.
LEMMA ExitCodes ==
    /\ \A c : ExitCode(c) \in {3, 4}
    /\ None # 3 /\ None # 4
<1>1. 3 \in Int /\ 4 \in Int
  OBVIOUS
<1> QED BY <1>1, UpAssumption DEF ExitCode

\* Nothing runs at first.
LEMMA CommandedInit == Init => Commanded
<1> SUFFICES ASSUME Init PROVE Commanded
  OBVIOUS
<1>1. /\ up.step = "idle" /\ up.spec = NoFile /\ up.errs = {} /\ up.looked = {}
      /\ up.suggestion = NoClass /\ up.exit = None /\ up.name = ""
  BY DEF Init, Idle
<1>2. 0 \in 0 .. MaxRuns /\ 0 \in 0 .. MaxChanges
  BY Bounds
<1> QED BY <1>1, <1>2 DEF Init, Commanded, Step

\* A step of the command.
LEMMA CommandedOwnStep ==
    ASSUME UInv, Commanded,
           Write \/ New \/ Start \/ Plan \/ ReadFails \/ CheckClass \/ Replay
             \/ LookupFails \/ NoKubectl \/ End \/ Apply \/ ApplyFails \/ Setup \/ NoClient
    PROVE  Commanded'
<1> USE ExitCodes
<1>1. UpRecord(up) /\ file \in Manifest \cup {NoFile}
  BY DEF UInv, Accepted
<1>2. classes' = classes /\ group' = group /\ changes' = changes
  BY DEF Write, New, Start, Plan, ReadFails, CheckClass, Replay, LookupFails, NoKubectl, End,
         Apply, ApplyFails, Setup, NoClient, Unserved
<1>3. CASE Write \/ New
  <2>1. /\ file = NoFile /\ file' # NoFile /\ up' = up /\ runs < MaxRuns /\ runs' = runs
        /\ made' \in Spec6 \cup {NoFile}
    <3>1. CASE Write
      BY <3>1, UpAssumption, Zenon DEF Write, Commanded
    <3>2. CASE New
      <4>1. PICK s \in Flags : file' = Cluster(s) /\ made' = s
        BY <3>2 DEF New
      <4>2. s \in Spec6 /\ Cluster(s) \in Manifest /\ NoFile \notin Manifest
        BY UpAssumption, ClusterIsFile, Zenon
      <4> QED BY <3>2, <4>1, <4>2, Zenon DEF New
    <3> QED BY <1>3, <3>1, <3>2
  <2>2. up.step = "idle"
    BY <2>1 DEF Commanded
  <2> QED BY <1>2, <2>1, <2>2 DEF Commanded
<1>4. CASE Start \/ Plan \/ ReadFails
  <2>1. file' = file /\ file \in Manifest /\ file # NoFile /\ made' = made /\ runs' = runs
    BY <1>1, <1>4 DEF Start, Plan, ReadFails
  <2>2. FromYAML(file).spec \in Spec6 \cup {NoFile}
    BY <2>1, FromYAMLType
  <2>3. CASE Start /\ FromYAML(file).errs = {}
    <3>1. up' = [[Idle EXCEPT !.spec = FromYAML(file).spec, !.errs = FromYAML(file).errs]
                   EXCEPT !.step = "class"]
      BY <2>3 DEF Start
    <3>2. /\ up'.step = "class" /\ up'.looked = {} /\ up'.errs = {} /\ up'.exit = None
          /\ up'.suggestion = NoClass /\ up'.spec = FromYAML(file).spec /\ up'.name = ""
      BY <2>3, <3>1 DEF Idle
    <3> QED BY <1>2, <2>1, <2>2, <3>2 DEF Commanded, Step
  <2>4. CASE Start /\ FromYAML(file).errs # {}
    <3>1. PICK e \in FromYAML(file).errs :
            up' = [[Idle EXCEPT !.spec = FromYAML(file).spec, !.errs = FromYAML(file).errs]
                     EXCEPT !.step = "denied", !.exit = ExitCode(e.code)]
      BY <2>4 DEF Start
    <3>2. /\ up'.step = "denied" /\ up'.looked = {} /\ up'.errs = FromYAML(file).errs
          /\ up'.exit \in {3, 4} /\ up'.suggestion = NoClass /\ up'.spec = FromYAML(file).spec
          /\ up'.name = ""
      BY <3>1 DEF Idle
    <3> QED BY <1>2, <2>1, <2>2, <2>4, <3>2 DEF Commanded, Step
  <2>5. CASE Plan
    <3>1. up' = [Idle EXCEPT !.step = "planned", !.spec = FromYAML(file).spec]
      BY <2>5 DEF Plan
    <3>2. /\ up'.step = "planned" /\ up'.looked = {} /\ up'.errs = {} /\ up'.exit = None
          /\ up'.suggestion = NoClass /\ up'.spec = FromYAML(file).spec /\ up'.name = ""
      BY <3>1 DEF Idle
    <3> QED BY <1>2, <2>1, <2>2, <3>2 DEF Commanded, Step
  <2>6. CASE ReadFails
    <3>1. up' = [Idle EXCEPT !.step = "failed", !.exit = ExitCode("ClusterNotFound")]
      BY <2>6 DEF ReadFails
    <3>2. /\ up'.step = "failed" /\ up'.looked = {} /\ up'.errs = {} /\ up'.exit \in {3, 4}
          /\ up'.suggestion = NoClass /\ up'.spec = NoFile /\ up'.name = ""
      BY <3>1 DEF Idle
    <3> QED BY <1>2, <2>1, <3>2 DEF Commanded, Step
  <2> QED BY <1>4, <2>3, <2>4, <2>5, <2>6
<1>5. CASE CheckClass \/ Replay \/ LookupFails
  <2>1. file' = file /\ made' = made /\ runs' = runs /\ up.step = "class"
    BY <1>5 DEF CheckClass, Replay, LookupFails
  <2>2. up.errs = {} /\ up.exit = None /\ up.name = "" /\ file # NoFile
    BY <2>1 DEF Commanded
  <2>3. nearest(WantedClass, classes, 3) \in Class \cup {NoClass}
    BY NearestIsAClass
  <2>4. CASE CheckClass /\ (WantedClass \in classes \/ classes = {})
    <3>1. up' = [up EXCEPT !.step = "apply", !.looked = classes]
      BY <2>4 DEF CheckClass
    <3>2. /\ up'.step = "apply" /\ up'.looked = classes /\ up'.errs = {} /\ up'.exit = None
          /\ up'.suggestion = up.suggestion /\ up'.spec = up.spec
          /\ up'.name = ""
      BY <1>1, <2>2, <3>1 DEF UpRecord
    <3> QED BY <1>2, <2>1, <2>2, <3>2 DEF Commanded, Step
  <2>5. CASE CheckClass /\ ~(WantedClass \in classes \/ classes = {})
    <3>1. up' = [up EXCEPT !.step = "failed", !.looked = classes,
                           !.exit = ExitCode("ClassNotFound"),
                           !.suggestion = nearest(WantedClass, classes, 3)]
      BY <2>5 DEF CheckClass
    <3>2. /\ up'.step = "failed" /\ up'.looked = classes /\ up'.errs = {} /\ up'.exit \in {3, 4}
          /\ up'.suggestion \in Class \cup {NoClass} /\ up'.spec = up.spec
          /\ up'.name = ""
      BY <1>1, <2>2, <2>3, <3>1 DEF UpRecord
    <3> QED BY <1>2, <2>1, <2>2, <3>2 DEF Commanded, Step
  <2>6. CASE Replay \/ LookupFails
    <3>1. /\ up'.step \in {"replay", "apply"} /\ up'.looked = up.looked /\ up'.errs = {}
          /\ up'.exit = None /\ up'.suggestion = up.suggestion /\ up'.spec = up.spec
          /\ up'.name = ""
      BY <1>1, <2>2, <2>6 DEF Replay, LookupFails, UpRecord
    <3> QED BY <1>2, <2>1, <2>2, <3>1 DEF Commanded, Step
  <2> QED BY <1>5, <2>4, <2>5, <2>6
<1>6. CASE Apply \/ ApplyFails \/ NoKubectl \/ Setup \/ NoClient
  <2>1. file' = file /\ made' = made /\ runs' = runs /\ up.step \in {"apply", "setup"}
    BY <1>6 DEF Apply, ApplyFails, NoKubectl, Setup, NoClient
  <2>2. up.errs = {} /\ up.exit = None /\ up.name = "" /\ file # NoFile
    BY <2>1 DEF Commanded
  <2>3. CASE Apply \/ ApplyFails \/ NoKubectl \/ NoClient
    <3>1. /\ up'.looked = up.looked /\ up'.errs = {} /\ up'.name = ""
          /\ up'.suggestion = up.suggestion /\ up'.spec = up.spec
          /\ \/ up'.step = "setup" /\ up'.exit = None
             \/ up'.step = "failed" /\ up'.exit \in {3, 4}
      BY <1>1, <2>2, <2>3 DEF Apply, ApplyFails, NoKubectl, NoClient, UpRecord
    <3> QED BY <1>2, <2>1, <2>2, <3>1 DEF Commanded, Step
  <2>4. CASE Setup
    <3>1. PICK name \in NameArg :
            up' = IF name = "" THEN [up EXCEPT !.step = "failed", !.exit = ExitCode("ClusterNotFound")]
                  ELSE [up EXCEPT !.step = "watch", !.name = name]
      BY <2>4 DEF Setup
    <3>2. /\ up'.looked = up.looked /\ up'.errs = {}
          /\ up'.suggestion = up.suggestion /\ up'.spec = up.spec
          /\ \/ up'.step = "watch" /\ up'.exit = None /\ up'.name = name /\ name # ""
             \/ up'.step = "failed" /\ up'.exit \in {3, 4} /\ up'.name = ""
      BY <1>1, <2>2, <3>1 DEF UpRecord
    <3> QED BY <1>2, <2>1, <2>2, <3>2 DEF Commanded, Step
  <2> QED BY <1>6, <2>3, <2>4
<1>7. CASE End
  <2>1. /\ file' = NoFile /\ made' = NoFile /\ runs' = runs + 1 /\ up' = Idle
        /\ up.step # "idle"
    BY <1>7 DEF End
  <2>2. runs < MaxRuns /\ runs \in 0 .. MaxRuns
    BY <2>1 DEF Commanded
  <2>3. runs' \in 0 .. MaxRuns
    BY <2>1, <2>2, Bounds
  <2>4. /\ up'.step = "idle" /\ up'.spec = NoFile /\ up'.errs = {} /\ up'.looked = {}
        /\ up'.suggestion = NoClass /\ up'.exit = None /\ up'.name = ""
    BY <2>1 DEF Idle
  <2> QED BY <1>2, <2>1, <2>3, <2>4 DEF Commanded, Step
<1> QED BY <1>3, <1>4, <1>5, <1>6, <1>7

\* What others do leaves the command alone.
LEMMA CommandedOthers ==
    ASSUME Commanded, WriteBack \/ Edit \/ Delete \/ Install
    PROVE  Commanded'
<1>1. /\ UNCHANGED <<file, made, up, group, runs>>
      /\ changes < MaxChanges /\ changes' = changes + 1
  BY DEF WriteBack, Edit, Delete, Install, Others
<1>2. classes' \subseteq Class
  BY DEF WriteBack, Edit, Delete, Install, Commanded
<1>3. changes' \in 0 .. MaxChanges
  <2>1. changes \in 0 .. MaxChanges
    BY DEF Commanded
  <2> QED BY <1>1, <2>1, Bounds
<1> QED BY <1>1, <1>2, <1>3 DEF Commanded

\* Every step keeps it.
LEMMA CommandedInductive == Spec => [](UInv /\ Commanded)
<1>1. ASSUME Commanded, UNCHANGED vars PROVE Commanded'
  BY <1>1 DEF vars, Commanded
<1>2. UInv /\ Commanded /\ [Next]_vars => Commanded'
  BY <1>1, CommandedOwnStep, CommandedOthers DEF Next
<1> QED BY CommandedInit, <1>2, UInductive, PTL DEF Spec

\* Every variable has its type for any files and classes: nothing goes on with a
\* denial, and what goes on is a spec with its defaults filled in (up.go:24-45).
THEOREM UpTypeOK == Spec => []TypeOK
<1>1. UInv /\ Commanded => TypeOK
  <2> SUFFICES ASSUME UInv, Commanded PROVE TypeOK
    OBVIOUS
  <2>1. up.step \in {"class", "apply", "setup", "watch", "replay", "planned"} =>
          up.spec # NoFile /\ up.spec.class # NoClass /\ up.spec.size \in {"dev", "ha"}
    BY FromYAMLType DEF UInv, Accepted
  <2>2. DOMAIN up = DOMAIN Idle
    <3>1. up = [step |-> up.step, spec |-> up.spec, errs |-> up.errs, looked |-> up.looked,
                suggestion |-> up.suggestion, name |-> up.name, exit |-> up.exit]
      BY DEF UInv, Accepted, UpRecord
    <3> DEFINE a == up.step  b == up.spec  c == up.errs  d == up.looked
               e == up.suggestion  f == up.name  g == up.exit
    <3>2. up = [step |-> a, spec |-> b, errs |-> c, looked |-> d, suggestion |-> e, name |-> f,
                exit |-> g]
      BY <3>1
    <3> HIDE DEF a, b, c, d, e, f, g
    <3> QED BY <3>2 DEF Idle
  <2>3. /\ stored \in Manifest \cup {NoFile} /\ last \in Manifest \cup {NoFile}
        /\ stored = NoFile <=> last = NoFile
        /\ edited \in BOOLEAN
    BY DEF UInv, LastApplied
  <2>4. file \in Manifest \cup {NoFile}
    BY DEF UInv, Accepted
  <2> QED BY <2>1, <2>2, <2>3, <2>4 DEF TypeOK, Commanded
<1> QED BY <1>1, CommandedInductive, PTL

\* The file is one of those written or made, and a refusal that looked among some classes
\* suggests what nearest finds among these.
Suggested ==
    /\ file \in File \cup {Cluster(s) : s \in Flags} \cup {NoFile}
    /\ up.step = "failed" /\ up.looked # {} /\ WantedClass \notin up.looked =>
          WantedClass \in DOMAIN Spelling /\ up.suggestion = nearest(WantedClass, up.looked, 3)

\* Every step keeps it.
LEMMA SuggestedInductive == Spec => [](UInv /\ Suggested)
<1>1. Init => Suggested
  <2> SUFFICES ASSUME Init PROVE Suggested
    OBVIOUS
  <2>1. file = NoFile /\ up = Idle
    BY DEF Init
  <2>2. up.step = "idle"
    BY <2>1 DEF Idle
  <2> QED BY <2>1, <2>2 DEF Suggested
<1>2. ASSUME UInv, Suggested, Next PROVE Suggested'
  <2>1. file' \in File \cup {Cluster(s) : s \in Flags} \cup {NoFile}
    BY <1>2 DEF Next, Write, New, Start, Plan, ReadFails, CheckClass, Replay, LookupFails,
                NoKubectl, Setup, NoClient, End, Apply, ApplyFails, WriteBack, Edit, Delete, Install, Others, Suggested
  <2>2. UpRecord(up)
    BY <1>2 DEF UInv, Accepted
  <2>3. CASE Write \/ New \/ WriteBack \/ Edit \/ Delete \/ Install
    <3>1. up' = up
      BY <2>3 DEF Write, New, WriteBack, Edit, Delete, Install, Others
    <3> QED BY <1>2, <2>1, <3>1 DEF Suggested, WantedClass
  <2>4. CASE Start \/ Plan \/ ReadFails \/ End
    <3> SUFFICES up'.looked = {}
      BY <2>1 DEF Suggested
    <3>1. CASE Start /\ FromYAML(file).errs = {}
      <4>1. up' = [[Idle EXCEPT !.spec = FromYAML(file).spec, !.errs = FromYAML(file).errs]
                     EXCEPT !.step = "class"]
        BY <3>1 DEF Start
      <4> QED BY <4>1 DEF Idle
    <3>2. CASE Start /\ FromYAML(file).errs # {}
      <4>1. PICK e \in FromYAML(file).errs :
              up' = [[Idle EXCEPT !.spec = FromYAML(file).spec, !.errs = FromYAML(file).errs]
                       EXCEPT !.step = "denied", !.exit = ExitCode(e.code)]
        BY <3>2 DEF Start
      <4> QED BY <4>1 DEF Idle
    <3>3. CASE Plan
      <4>1. up' = [Idle EXCEPT !.step = "planned", !.spec = FromYAML(file).spec]
        BY <3>3 DEF Plan
      <4> QED BY <4>1 DEF Idle
    <3>4. CASE ReadFails
      <4>1. up' = [Idle EXCEPT !.step = "failed", !.exit = ExitCode("ClusterNotFound")]
        BY <3>4 DEF ReadFails
      <4> QED BY <4>1 DEF Idle
    <3>5. CASE End
      BY <3>5 DEF End, Idle
    <3> QED BY <2>4, <3>1, <3>2, <3>3, <3>4, <3>5
  <2>5. CASE CheckClass
    <3>1. up.step = "class" /\ FromYAML(file).errs = {} /\ up.spec = FromYAML(file).spec
          /\ file \in File \cup {Cluster(s) : s \in Flags}
      BY <1>2, <2>5, UpAssumption DEF CheckClass, UInv, Accepted, Suggested
    <3>2. WantedClass \in DOMAIN Spelling
      BY <3>1, SpellingAssumption DEF WantedClass
    <3>3. CASE WantedClass \in classes \/ classes = {}
      <4>1. up' = [up EXCEPT !.step = "apply", !.looked = classes]
        BY <2>5, <3>3 DEF CheckClass
      <4>2. up'.step = "apply"
        BY <2>2, <4>1 DEF UpRecord
      <4> QED BY <2>1, <4>2 DEF Suggested
    <3>4. CASE ~(WantedClass \in classes \/ classes = {})
      <4>1. up' = [up EXCEPT !.step = "failed", !.looked = classes,
                             !.exit = ExitCode("ClassNotFound"),
                             !.suggestion = nearest(WantedClass, classes, 3)]
        BY <2>5, <3>4 DEF CheckClass
      <4>2. up'.looked = classes /\ up'.suggestion = nearest(WantedClass, classes, 3)
            /\ up'.spec = up.spec
        BY <2>2, <4>1 DEF UpRecord
      <4>3. WantedClass' = WantedClass
        BY <4>2 DEF WantedClass
      <4> QED BY <2>1, <3>2, <4>2, <4>3 DEF Suggested
    <3> QED BY <3>3, <3>4
  <2>6. CASE Replay \/ LookupFails \/ Apply
    <3>1. up'.step \in {"replay", "apply", "setup"}
      BY <2>2, <2>6 DEF Replay, LookupFails, Apply, UpRecord
    <3> QED BY <2>1, <3>1 DEF Suggested
  <2>7. CASE ApplyFails \/ NoKubectl \/ Setup \/ NoClient
    <3>1. up.step \in {"apply", "setup"} /\ up'.looked = up.looked /\ up'.spec = up.spec
      BY <2>2, <2>7 DEF ApplyFails, NoKubectl, Setup, NoClient, UpRecord
    <3>2. up.looked # {} => WantedClass \in up.looked
      BY <1>2, <3>1 DEF UInv, Accepted
    <3>3. WantedClass' = WantedClass
      BY <3>1 DEF WantedClass
    <3> QED BY <2>1, <3>1, <3>2, <3>3 DEF Suggested
  <2> QED BY <1>2, <2>3, <2>4, <2>5, <2>6, <2>7 DEF Next
<1>3. ASSUME Suggested, UNCHANGED vars PROVE Suggested'
  BY <1>3 DEF vars, Suggested, WantedClass
<1>4. UInv /\ Suggested /\ [Next]_vars => Suggested'
  BY <1>2, <1>3
<1> QED BY <1>1, <1>4, UInductive, PTL DEF Spec

\* The letters of a spelling are letters.
LEMMA Spelt == \A c \in DOMAIN Spelling : Spelling[c] \in Seq(Letters)
<1> TAKE c \in DOMAIN Spelling
<1>1. Spelling[c] \in Seq(STRING) /\ ToSet(Spelling[c]) \subseteq Letters
  BY UpAssumption DEF Letters
<1>2. \A i \in 1 .. Len(Spelling[c]) : Spelling[c][i] \in Letters
  BY <1>1 DEF ToSet
<1> DEFINE s == Spelling[c]
<1>3. s \in Seq(STRING) /\ \A i \in 1 .. Len(s) : s[i] \in Letters
  BY <1>1, <1>2
<1> HIDE DEF s
<1>4. s \in Seq(Letters)
  BY <1>3
<1> QED BY <1>4 DEF s

\* Edits is the distance of the code, up to its budget.
LEMMA EditsValue ==
    \A c, d \in DOMAIN Spelling :
        Edits[c][d] = IF distance(Spelling[c], Spelling[d]) < 3
                      THEN distance(Spelling[c], Spelling[d]) ELSE 3
<1> TAKE c, d \in DOMAIN Spelling
<1>1. Spelling[c] \in Seq(Letters) /\ Spelling[d] \in Seq(Letters)
  BY Spelt
<1> DEFINE E(x, y) == LET v == Spelling[x]  w == Spelling[y]
                      IN  IF v = w THEN 0 ELSE IF w \in OneEdit(v) THEN 1
                          ELSE IF OneEdit(v) \cap OneEdit(w) # {} THEN 2 ELSE 3
<1>2. E(c, d) = IF distance(Spelling[c], Spelling[d]) < 3
                THEN distance(Spelling[c], Spelling[d]) ELSE 3
  BY <1>1, EditsAreDistance, Zenon
<1>3. Edits = [x \in DOMAIN Spelling |-> [y \in DOMAIN Spelling |-> E(x, y)]]
  BY DEF Edits
<1> HIDE DEF E
<1>4. Edits[c][d] = E(c, d)
  BY <1>3
<1> QED BY <1>2, <1>4

\* For any classes, files and spellings: a refusal suggests the first of the installed classes
\* that are the fewest edits away, if that is fewer than three, and none otherwise
\* (class.go:66-69, simple.go:198-230).
THEOREM UpSuggestionIsNearest == Spec => []SuggestionIsNearest
<1>1. UInv /\ Commanded /\ Suggested => SuggestionIsNearest
  <2> SUFFICES ASSUME UInv, Commanded, Suggested,
                      up.step = "failed", up.looked # {}, WantedClass \notin up.looked
               PROVE  SuggestionIsNearest
    BY DEF SuggestionIsNearest
  <2> DEFINE n == Len(ClassOrder)
             w == WantedClass
             l == up.looked
             Far(c) == Edits[w][c]
             near == {c \in l : Far(c) < 3 /\ \A d \in l : Far(c) <= Far(d)}
             first == {i \in DOMAIN ClassOrder : ClassOrder[i] \in near}
  <2>1. w \in DOMAIN Spelling /\ up.suggestion = nearest(w, l, 3)
    BY DEF Suggested
  <2>2. n \in Nat /\ DOMAIN ClassOrder = 1 .. n
    BY ListedClasses, Bounds
  <2>3. \A i \in 1 .. n : Away(w, i) \in Nat
                          /\ Far(ClassOrder[i]) = IF Away(w, i) < 3 THEN Away(w, i) ELSE 3
    <3> TAKE i \in 1 .. n
    <3> DEFINE c == ClassOrder[i]
    <3>1. c \in DOMAIN Spelling
      BY ListedClasses, UpAssumption
    <3>2. Spelling[w] \in Seq(Letters) /\ Spelling[c] \in Seq(Letters)
      BY <2>1, <3>1, Spelt
    <3>3. distance(Spelling[w], Spelling[c]) \in Nat
      BY <3>2, ZeroIsEqual, Zenon
    <3>4. Edits[w][c] = IF distance(Spelling[w], Spelling[c]) < 3
                        THEN distance(Spelling[w], Spelling[c]) ELSE 3
      BY <2>1, <3>1, EditsValue, Zenon
    <3> QED BY <3>3, <3>4, Zenon DEF Away
  <2> HIDE DEF Far
  <2>4. \A c \in l : \E i \in 1 .. n : ClassOrder[i] = c
    <3>1. l \subseteq Class
      BY DEF Commanded
    <3> QED BY <2>2, <3>1 DEF Class, ToSet
  <2>5. \/ up.suggestion = NoClass /\ NoneNear(w, l, 3, n)
        \/ \E i \in 1 .. n : up.suggestion = ClassOrder[i] /\ FirstNearest(w, l, 3, n, i)
    BY <2>1, NearestIsFirst
  <2>6. CASE up.suggestion = NoClass /\ NoneNear(w, l, 3, n)
    <3>1. ASSUME NEW c \in l PROVE ~(Far(c) < 3)
      <4>1. PICK i \in 1 .. n : ClassOrder[i] = c
        BY <2>4
      <4>2. ~(Away(w, i) < 3)
        BY <2>6, <4>1 DEF NoneNear
      <4> QED BY <2>3, <4>1, <4>2
    <3>2. near = {}
      BY <3>1
    <3> QED BY <2>6, <3>2, Zenon DEF SuggestionIsNearest, Far
  <2>7. CASE \E i \in 1 .. n : up.suggestion = ClassOrder[i] /\ FirstNearest(w, l, 3, n, i)
    <3>1. PICK i \in 1 .. n : up.suggestion = ClassOrder[i] /\ FirstNearest(w, l, 3, n, i)
      BY <2>7
    <3>2. ClassOrder[i] \in l /\ Away(w, i) < 3 /\ Far(ClassOrder[i]) = Away(w, i)
      BY <2>3, <3>1 DEF FirstNearest
    <3>3. ASSUME NEW j \in 1 .. n, ClassOrder[j] \in l
          PROVE  /\ Far(ClassOrder[i]) <= Far(ClassOrder[j])
                 /\ Far(ClassOrder[j]) <= Far(ClassOrder[i]) => i <= j
      <4>1. /\ Away(w, i) <= Away(w, j)
            /\ Away(w, j) <= Away(w, i) => i <= j
        BY <3>1, <3>3 DEF FirstNearest
      <4> QED BY <2>3, <3>2, <4>1
    <3>4. \A d \in l : Far(ClassOrder[i]) <= Far(d)
      BY <2>4, <3>3
    <3>5. ClassOrder[i] \in near
      BY <3>2, <3>4
    <3>6. i \in first /\ \A j \in first : i <= j
      <4>1. i \in first
        BY <2>2, <3>5
      <4>2. ASSUME NEW j \in first PROVE i <= j
        <5>1. j \in 1 .. n /\ ClassOrder[j] \in l /\ Far(ClassOrder[j]) <= Far(ClassOrder[i])
          BY <2>2, <3>2
        <5> QED BY <3>3, <5>1
      <4> QED BY <4>1, <4>2
    <3>7. first \subseteq Nat
      BY <2>2
    <3> HIDE DEF first
    <3>8. Min(first) = i
      <4>1. Min(first) = CHOOSE k \in first : \A j \in first : k <= j
        BY Zenon DEF Min
      <4>2. \A k \in first : (\A j \in first : k <= j) => k = i
        BY <3>6, <3>7
      <4> QED BY <3>6, <4>1, <4>2, Zenon
    <3>9. near # {} /\ up.suggestion = ClassOrder[Min(first)]
      BY <3>1, <3>5, <3>8
    <3> QED BY <3>9, Zenon DEF SuggestionIsNearest, first, Far
  <2> QED BY <2>5, <2>6, <2>7
<1> QED BY <1>1, CommandedInductive, SuggestedInductive, PTL

\* A version that is there is there when it is stored.
LEMMA StoredVersion == \A v \in Version : v # NoVersion => asStored(v) # NoVersion
BY DEF asStored, NoVersion, Version

\* What the parts of a denial are.
LEMMA DenialParts ==
    /\ \A level, key : /\ Managed(level, key).code = "FieldManaged"
                       /\ Managed(level, key).level = level /\ Managed(level, key).key = key
                       /\ KeyDenied(level, key).code # "KindManaged"
                       /\ KeyDenied(level, key) # Malformed
                       /\ KeyDenied(level, key).level = level /\ KeyDenied(level, key).key = key
    /\ \A key : /\ Unknown(key).code = "VariableUnknown"
                /\ Unknown(key).level = "variables" /\ Unknown(key).key = key
    /\ Malformed.code = "VersionMalformed" /\ Malformed.level = "topology" /\ Malformed.key = "version"
BY DEF Managed, KeyDenied, Unknown, Malformed, Denial

\* The denials of a spec.
LEMMA ValidationDenials ==
    ASSUME NEW s, NEW e \in Validate(s)
    PROVE  \/ e \in {Managed("metadata", "name"), Unknown("size"), Unknown("placement"),
                     Managed("pool", "name"), Managed("pool", "replicas")}
           \/ e = Malformed /\ ~IsVersion(asStored(s.version))
<1>1. CASE e \in PoolDenials(s.pools)
  BY <1>1 DEF PoolDenials, When
<1>2. CASE e \notin PoolDenials(s.pools)
  BY <1>2 DEF Validate, When
<1> QED BY <1>1, <1>2

\* What gen denies in a file has a code of its own, and is about a key, a pool's key or
\* the replicas.
LEMMA FieldDenialsAre ==
    ASSUME NEW f, NEW e \in FieldDenials(f)
    PROVE  \/ \E p \in f.managed : p[2] \notin GenAllows[p[1]] /\ e = KeyDenied(p[1], p[2])
           \/ \E p \in ToSet(f.pools) : \E key \in p.keys :
                 key \notin GenAllows["pool"] /\ e = Managed("pool", key)
           \/ /\ f.replicas \notin {None, ControlPlaneReplicas(f.size)}
              /\ e = Managed("controlPlane", "replicas")
<1>1. CASE e \in {KeyDenied(p[1], p[2]) : p \in {q \in f.managed : q[2] \notin GenAllows[q[1]]}}
  BY <1>1
<1>2. CASE e \in {Managed("pool", key) :
                    key \in (UNION {p.keys : p \in ToSet(f.pools)}) \ GenAllows["pool"]}
  <2>1. PICK key \in (UNION {p.keys : p \in ToSet(f.pools)}) \ GenAllows["pool"] :
            e = Managed("pool", key)
    BY <1>2, Zenon
  <2>2. PICK p \in ToSet(f.pools) : key \in p.keys
    BY <2>1
  <2>3. key \notin GenAllows["pool"]
    BY <2>1, Zenon
  <2> QED BY <2>1, <2>2, <2>3, Zenon
<1>3. CASE e \in When(f.replicas \notin {None, ControlPlaneReplicas(f.size)},
                     {Managed("controlPlane", "replicas")})
  BY <1>3 DEF When
<1> QED BY <1>1, <1>2, <1>3 DEF FieldDenials

\* A file that gen denies for a reason the policy has is denied by the policy when it
\* would create the Cluster: for any files and classes, `up` and `plan` refuse nothing
\* that admission would take (gen.go:128-135), break-glass aside, and aside from the
\* one key that the two lists differ by.
THEOREM UpDeniedIsDenied == Spec => []DeniedIsDenied
<1>1. UInv /\ Commanded => DeniedIsDenied
  <2> SUFFICES ASSUME UInv, Commanded, up.step = "denied", stored = NoFile, ~(file.label /\ group),
                      NEW e \in up.errs, Ruled(e)
               PROVE  ~Admits(Submitted, NoFile, group)
    BY DEF DeniedIsDenied
  <2> DEFINE g == Webhook(file, classes)
  <2>1. file \in Manifest /\ e \in FromYAML(file).errs
    BY DEF UInv, Accepted, Commanded
  <2>2. Submitted = g
    BY DEF Submitted, Merge
  <2>3. /\ g.kind = file.kind /\ g.pools = file.pools /\ g.label = file.label
        /\ g.replicas = file.replicas /\ g.managed = file.managed
        /\ g.version = asStored(file.version)
        /\ ControlPlaneReplicas(g.size) = ControlPlaneReplicas(file.size)
    BY <2>1, WebhookFields
  <2> HIDE DEF g
  <2>4. CASE IsManagedKind(file.kind)
    BY <2>2, <2>3, <2>4 DEF Admits
  <2>5. CASE ~IsManagedKind(file.kind)
    <3>1. file.kind # "not YAML" => e \in FieldDenials(file) \cup Validate(SpecOf(file))
      BY <2>1, <2>5 DEF FromYAML
    <3>2. file.kind = "not YAML" => e = Managed("", "the file")
      <4>1. file.kind = "not YAML" =>
              FromYAML(file) = [spec |-> NoFile, errs |-> {Managed("", "the file")}]
        BY <2>5 DEF FromYAML
      <4>2. [spec |-> NoFile, errs |-> {Managed("", "the file")}].errs = {Managed("", "the file")}
        OBVIOUS
      <4> QED BY <2>1, <4>1, <4>2
    <3>3. e.code # "KindManaged"
      <4>1. CASE file.kind = "not YAML"
        <5>1. Managed("", "the file").code = "FieldManaged"
          BY DEF Managed, Denial
        <5> QED BY <3>2, <4>1, <5>1
      <4>2. CASE e \in FieldDenials(file)
        BY <4>2, FieldDenialsAre, DenialParts
      <4>3. CASE e \in Validate(SpecOf(file))
        BY <4>3, ValidationDenials, DenialParts
      <4> QED BY <3>1, <4>1, <4>2, <4>3
    <3>4. /\ file.kind = "Cluster" /\ file.kind # "not YAML"
          /\ \/ /\ e.level \in Level
                /\ ~(e.level = "pool" /\ e.key \in {"name", "replicas"})
                /\ ~(e.level = "topology" /\ e.key \in {"class", "version"})
                /\ ~(e.level = "variables" /\ e.key \in {"size", "placement"})
             \/ e = Malformed /\ file.version # NoVersion
      BY <3>3 DEF Ruled
    <3>5. denied(g, NoFile) \/ versionMalformed(g, NoFile)
      <4>1. CASE e \in FieldDenials(file)
        <5>1. CASE \E p \in file.managed : p[2] \notin GenAllows[p[1]] /\ e = KeyDenied(p[1], p[2])
          <6>1. PICK p \in file.managed : p[2] \notin GenAllows[p[1]] /\ e = KeyDenied(p[1], p[2])
            BY <5>1
          <6>2. p[1] \in Level
            BY <2>1 DEF Manifest
          <6>3. ~(p[1] = "topology" /\ p[2] = "class")
            BY <3>4, <6>1, DenialParts
          <6>4. p[2] \notin PolicyAllows[p[1]]
            BY <6>1, <6>2, <6>3, PolicyAllowsOneMore
          <6>5. p \in g.managed \ {}
            BY <2>3
          <6> QED BY <6>4, <6>5 DEF denied
        <5>2. CASE \E p \in ToSet(file.pools) : \E key \in p.keys : key \notin GenAllows["pool"]
          <6>1. PICK p \in ToSet(file.pools) : \E key \in p.keys : key \notin GenAllows["pool"]
            BY <5>2
          <6>2. PICK key \in p.keys : key \notin GenAllows["pool"]
            BY <6>1
          <6>3. "pool" \in Level
            BY DEF Level
          <6>4. key \notin PolicyAllows["pool"]
            BY <6>2, <6>3, PolicyAllowsOneMore
          <6>5. p \in ToSet(g.pools) \ {}
            BY <2>3
          <6> QED BY <6>2, <6>4, <6>5 DEF denied
        <5>3. CASE file.replicas \notin {None, ControlPlaneReplicas(file.size)}
          BY <2>3, <5>3 DEF denied
        <5> QED BY <4>1, <5>1, <5>2, <5>3, FieldDenialsAre
      <4>2. CASE e \in Validate(SpecOf(file))
        <5>1. SpecOf(file).version = file.version /\ file.version \in Version
          BY <2>1 DEF SpecOf, Manifest
        <5>2. \/ e \in {Managed("metadata", "name"), Unknown("size"), Unknown("placement"),
                        Managed("pool", "name"), Managed("pool", "replicas")}
              \/ e = Malformed /\ ~IsVersion(asStored(file.version))
          BY <4>2, <5>1, ValidationDenials
        <5>3. "metadata" \notin Level
          BY DEF Level
        <5>4. e = Malformed /\ ~IsVersion(asStored(file.version)) /\ file.version # NoVersion
          BY <3>4, <5>2, <5>3, DenialParts
        <5> QED BY <2>3, <5>1, <5>4, StoredVersion DEF versionMalformed
      <4> QED BY <3>1, <3>4, <4>1, <4>2
    <3> QED BY <2>2, <2>3, <3>4, <3>5 DEF Admits
  <2> QED BY <2>4, <2>5
<1> QED BY <1>1, CommandedInductive, PTL
=============================================================================
