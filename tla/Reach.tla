------------------------------- MODULE Reach --------------------------------
(***************************************************************************)
(* internal/watch/reach.go: Reachable, the objects of a namespace that     *)
(* belong to one cluster.                                                  *)
(*                                                                         *)
(* The objects are numbered in the order of their key, kind then name.     *)
(* What they say of each other is the input: the references they carry,    *)
(* the owner references, and which of them are marked with their cluster's *)
(* name.  It is chosen in the initial state and never changes.  The        *)
(* objects come from a Go map, so the order of every loop over them is     *)
(* left open: a loop is a set of visits that are made one at a time.       *)
(***************************************************************************)
EXTENDS Integers, Sequences, FiniteSets

CONSTANTS
    Object,     \* the objects of the namespace
    KindOf,     \* [Object -> STRING]
    Owner,      \* [Object -> cluster names or Nobody]: the cluster an object really is part of
    Nobody,     \* what Owner says of an object that is part of no single cluster
    Name,       \* the cluster asked for
    MayRefer,   \* the references there may be: <<from, field, to>>; one may dangle
    MayOwn,     \* the owner references there may be: <<owner, owned>>
    MayMark     \* the objects that may be marked with their cluster's name

Field == {"classRef", "templateRef", "clusterResourceSetName", "contractRef"}

\* sharedDefinitions
Shared == {"ClusterClass", "ClusterResourceSet"}

SharedDefinition(o) == KindOf[o] \in Shared

\* What CAPI makes of a namespace: a reference leads to an object of the same
\* cluster or to one of no single cluster, and so does ownership, unless the
\* owner is a definition that many clusters share.
ASSUME ReachAssumption ==
    /\ Object \subseteq Nat
    /\ IsFiniteSet(Object)
    /\ KindOf \in [Object -> STRING]
    /\ MayRefer \subseteq Object \X Field \X Nat
    /\ MayOwn \subseteq Object \X Object
    /\ MayMark \subseteq Object
    /\ Name # Nobody
    /\ \A e \in MayRefer : e[3] \in Object => Owner[e[3]] \in {Owner[e[1]], Nobody}
    /\ \A e \in MayOwn : SharedDefinition(e[1]) \/ Owner[e[2]] \in {Owner[e[1]], Nobody}

VARIABLES
    refers,    \* the references
    owns,      \* the owner references
    marked,    \* the objects with the cluster-name label or spec.clusterName
    included,  \* the keys visited
    queue,     \* the worklist, which is also the result before it is sorted
    i,         \* how many elements of the worklist have been taken
    todo,      \* the visits still to be made for the element taken last
    out        \* the result, or NoResult

input == <<refers, owns, marked>>
vars  == <<refers, owns, marked, included, queue, i, todo, out>>

NoResult == <<-1>>

-----------------------------------------------------------------------------
(* Where one object leads.                                                 *)

\* Which field is read is a matter of the object's kind; a contract reference
\* is read from every object.
Reads(kind) ==
    {"contractRef"} \cup
    CASE kind = "Cluster"                   -> {"classRef"}
      [] kind = "ClusterClass"              -> {"templateRef"}
      [] kind = "ClusterResourceSetBinding" -> {"clusterResourceSetName"}
      [] OTHER                              -> {}

\* Mutant: a reference is followed whether or not its object is there.
ReferredAnyway(o) == {e[3] : e \in {r \in refers : r[1] = o /\ r[2] \in Reads(KindOf[o])}}

Referred(o) == {p \in Object : \E f \in Reads(KindOf[o]) : <<o, f, p>> \in refers}

Owned(o) == {p \in Object : <<o, p>> \in owns}

\* Mutant: what a shared definition owns is followed as well.
FoundThroughShared(o) == Referred(o) \cup Owned(o)

Found(o) == Referred(o) \cup (IF SharedDefinition(o) THEN {} ELSE Owned(o))

\* The Cluster itself and everything marked with its name.
Roots == {o \in Object : /\ Owner[o] = Name
                         /\ KindOf[o] = "Cluster" \/ o \in marked}

-----------------------------------------------------------------------------

Init ==
    /\ refers \in SUBSET MayRefer
    /\ owns \in SUBSET MayOwn
    /\ marked \in SUBSET MayMark
    /\ included = {}
    /\ queue = <<>>
    /\ i = 0
    /\ todo = Roots
    /\ out = NoResult

\* Mutant: visit does not ask whether the object is included already.
VisitAgain(o) ==
    /\ o \in todo
    /\ todo' = todo \ {o}
    /\ included' = included \cup {o}
    /\ queue' = Append(queue, o)
    /\ UNCHANGED <<input, i, out>>

Visit(o) ==
    /\ o \in todo
    /\ todo' = todo \ {o}
    /\ IF o \in included
       THEN UNCHANGED <<included, queue>>
       ELSE included' = included \cup {o} /\ queue' = Append(queue, o)
    /\ UNCHANGED <<input, i, out>>

\* Mutant: the loop is over the elements the roots put there.
TakeRoots ==
    /\ todo = {} /\ out = NoResult
    /\ i < Cardinality(Roots)
    /\ i' = i + 1
    /\ todo' = Found(queue[i + 1])
    /\ UNCHANGED <<input, included, queue, out>>

\* The next element of the worklist, which grows behind it.
Take ==
    /\ todo = {} /\ out = NoResult
    /\ i < Len(queue)
    /\ i' = i + 1
    /\ todo' = Found(queue[i + 1])
    /\ UNCHANGED <<input, included, queue, out>>

\* sort.SliceStable: a permutation of the worklist in the order of the keys, in
\* which equal keys keep their order (they are equal, so any permutation will do).
Sorted(s) ==
    [n \in DOMAIN s |->
        CHOOSE o \in {s[m] : m \in DOMAIN s} :
            /\ Cardinality({m \in DOMAIN s : s[m] < o}) < n
            /\ Cardinality({m \in DOMAIN s : s[m] <= o}) >= n]

\* Mutant: `for _, current := range queue`, which looks at the queue once.
FinishRanged ==
    /\ todo = {} /\ out = NoResult
    /\ i = Cardinality(Roots)
    /\ out' = Sorted(queue)
    /\ UNCHANGED <<input, included, queue, i, todo>>

Finish ==
    /\ todo = {} /\ out = NoResult
    /\ i = Len(queue)
    /\ out' = Sorted(queue)
    /\ UNCHANGED <<input, included, queue, i, todo>>

Next ==
    \/ \E o \in Object : Visit(o)
    \/ Take
    \/ Finish

Spec == Init /\ [][Next]_vars
FairSpec == Spec /\ WF_vars(Next)

-----------------------------------------------------------------------------

\* Every variable is of its type: what is visited is an object of the namespace,
\* though a reference may name one that is not there.
TypeOK ==
    /\ refers \subseteq MayRefer
    /\ owns \subseteq MayOwn
    /\ marked \subseteq MayMark
    /\ included \subseteq Object
    /\ queue \in Seq(Object)
    /\ i \in 0 .. Len(queue)
    /\ todo \subseteq Object
    /\ out = NoResult \/ DOMAIN out = DOMAIN queue

\* S holds the roots and whatever its members lead to.
Spans(S) == Roots \subseteq S /\ \A o \in S : Found(o) \subseteq S

\* Reachable returns exactly the reachable set and nothing else (reach.go:21),
\* whatever order the map gave the objects in: the least set that spans.
ExactlyTheReachableSet ==
    out # NoResult =>
        /\ Spans(included)
        /\ \A S \in SUBSET included : Spans(S) => S = included

\* The result lists each of those objects once and in the order of the keys, so
\* two envelopes of the same cluster are the same document (reach.go:127-135).
OneSortedList ==
    out # NoResult =>
        /\ {out[n] : n \in DOMAIN out} = included
        /\ \A m, n \in DOMAIN out : m < n => out[m] < out[n]

\* No object of another cluster is ever taken in, though a class or a resource
\* set both clusters use owns objects of each (reach.go:148-157).
OneClusterOnly == \A o \in included : Owner[o] \in {Name, Nobody}

\* A worklist over a graph with cycles ends.
Ends == <>(out # NoResult)
=============================================================================
