----------------------------- MODULE ReachProofs -----------------------------
(***************************************************************************)
(* What Reachable returns, for every namespace: any objects, any           *)
(* references between them and any order of the loops.                     *)
(***************************************************************************)
EXTENDS Reach, FiniteSetTheorems, FunctionTheorems, SequenceTheorems, TLAPS

\* What the worklist maintains.  Everything the roots or a taken element lead
\* to is visited or about to be; and nothing is visited that some spanning set
\* could do without.
ReachInv ==
    /\ TypeOK
    /\ included = {queue[n] : n \in 1 .. Len(queue)}
    /\ Roots \subseteq included \cup todo
    /\ \A n \in 1 .. i : Found(queue[n]) \subseteq included \cup todo
    /\ \A S \in SUBSET Object : Spans(S) => included \cup todo \subseteq S
    /\ out # NoResult => todo = {} /\ i = Len(queue)

-----------------------------------------------------------------------------

\* An object leads only to objects of the namespace.
LEMMA FoundIsObjects ==
    ASSUME NEW o
    PROVE  Found(o) \subseteq Object
BY DEF Found, Referred, Owned

\* The input does not change, and so neither does what an object leads to.
LEMMA InputIsFixed ==
    ASSUME UNCHANGED input
    PROVE  /\ Roots' = Roots
           /\ \A o : Found(o)' = Found(o)
           /\ \A S : Spans(S)' = Spans(S)
           /\ \A n : Found(queue[n])' = Found(queue'[n])
<1>1. refers' = refers /\ owns' = owns /\ marked' = marked
  BY DEF input
<1>2. Roots' = Roots
  BY <1>1 DEF Roots
<1>3. \A o : Found(o)' = Found(o)
  BY <1>1 DEF Found, Referred, Owned
<1>4. \A S : Spans(S)' = Spans(S)
  BY <1>2, <1>3 DEF Spans
<1>5. \A n : Found(queue[n])' = Found(queue'[n])
  BY <1>1 DEF Found, Referred, Owned
<1> QED
  BY <1>2, <1>3, <1>4, <1>5

\* The worklist holds nothing at first, and the roots are about to be visited.
LEMMA ReachInvInit == Init => ReachInv
<1> SUFFICES ASSUME Init PROVE ReachInv
  OBVIOUS
<1>1. TypeOK
  BY ReachAssumption DEF Init, TypeOK, Roots
<1>2. included = {queue[n] : n \in 1 .. Len(queue)}
  BY DEF Init
<1>3. \A S \in SUBSET Object : Spans(S) => included \cup todo \subseteq S
  BY DEF Init, Spans
<1> QED
  BY <1>1, <1>2, <1>3 DEF Init, ReachInv

\* A visit moves an object from the visits to make to the worklist.
LEMMA VisitKeepsReachInv ==
    ASSUME ReachInv, NEW v \in Object, Visit(v)
    PROVE  ReachInv'
<1>1. v \in todo /\ todo' = todo \ {v} /\ UNCHANGED <<input, i, out>>
  BY DEF Visit
<1>2. UNCHANGED input
  BY <1>1
<1>3. included' = included \cup {v}
  BY DEF Visit
<1>4. included' \cup todo' = included \cup todo
  BY <1>1, <1>3
<1>5. queue \in Seq(Object) /\ i \in 0 .. Len(queue)
  BY DEF ReachInv, TypeOK
<1>6. /\ queue' \in Seq(Object)
      /\ Len(queue) <= Len(queue')
      /\ \A n \in 1 .. Len(queue) : queue'[n] = queue[n]
  BY <1>5 DEF Visit
<1>7. out = NoResult /\ out' = NoResult
  BY <1>1 DEF ReachInv
<1>8. TypeOK'
  <2>1. refers' \subseteq MayRefer /\ owns' \subseteq MayOwn /\ marked' \subseteq MayMark
    BY <1>1 DEF ReachInv, TypeOK, input
  <2>2. i' \in 0 .. Len(queue')
    BY <1>1, <1>5, <1>6
  <2> QED
    BY <1>1, <1>3, <1>6, <1>7, <2>1, <2>2 DEF ReachInv, TypeOK
<1>9. included' = {queue'[n] : n \in 1 .. Len(queue')}
  <2>1. CASE v \in included
    BY <2>1 DEF Visit, ReachInv
  <2>2. CASE v \notin included
    <3>1. queue' = Append(queue, v)
      BY <2>2 DEF Visit
    <3>2. /\ Len(queue') = Len(queue) + 1
          /\ queue'[Len(queue) + 1] = v
          /\ \A n \in 1 .. Len(queue) : queue'[n] = queue[n]
      BY <3>1, <1>5
    <3>3. Len(queue) \in Nat
      BY <1>5
    <3>4. included = {queue[n] : n \in 1 .. Len(queue)}
      BY DEF ReachInv
    <3> QED
      BY <1>3, <3>2, <3>3, <3>4
  <2> QED
    BY <2>1, <2>2
<1>10. Roots' \subseteq included' \cup todo'
  BY <1>2, <1>4, InputIsFixed DEF ReachInv
<1>11. \A n \in 1 .. i' : Found(queue[n])' \subseteq included' \cup todo'
  <2> SUFFICES ASSUME NEW n \in 1 .. i
               PROVE  Found(queue[n])' \subseteq included' \cup todo'
    BY <1>1
  <2>1. queue'[n] = queue[n]
    BY <1>5, <1>6
  <2>2. Found(queue[n])' = Found(queue[n])
    BY <1>2, <2>1, InputIsFixed
  <2> QED
    BY <1>4, <2>1, <2>2 DEF ReachInv
<1>12. \A S \in SUBSET Object : Spans(S)' => included' \cup todo' \subseteq S
  BY <1>2, <1>4, InputIsFixed DEF ReachInv
<1> QED
  BY <1>7, <1>8, <1>9, <1>10, <1>11, <1>12 DEF ReachInv

\* Taking the next element replaces the visits to make by what it leads to.
LEMMA TakeKeepsReachInv ==
    ASSUME ReachInv, Take
    PROVE  ReachInv'
<1>1. /\ todo = {} /\ out = NoResult /\ i < Len(queue)
      /\ i' = i + 1 /\ todo' = Found(queue[i + 1])
      /\ UNCHANGED <<included, queue, out>>
  BY DEF Take
<1>2. UNCHANGED input
  BY DEF Take
<1>3. queue \in Seq(Object) /\ i \in 0 .. Len(queue)
  BY DEF ReachInv, TypeOK
<1>4. i + 1 \in 1 .. Len(queue) /\ queue[i + 1] \in Object
  BY <1>1, <1>3
<1>5. queue[i + 1] \in included
  BY <1>4 DEF ReachInv
<1>6. TypeOK'
  <2>1. refers' \subseteq MayRefer /\ owns' \subseteq MayOwn /\ marked' \subseteq MayMark
    BY <1>2 DEF ReachInv, TypeOK, input
  <2>2. todo' \subseteq Object
    BY <1>1, FoundIsObjects
  <2>3. i' \in 0 .. Len(queue')
    BY <1>1, <1>3
  <2> QED
    BY <1>1, <2>1, <2>2, <2>3 DEF ReachInv, TypeOK
<1>7. Roots' \subseteq included' \cup todo'
  BY <1>1, <1>2, InputIsFixed DEF ReachInv
<1>8. \A n \in 1 .. i' : Found(queue[n])' \subseteq included' \cup todo'
  <2> SUFFICES ASSUME NEW n \in 1 .. i + 1
               PROVE  Found(queue[n])' \subseteq included \cup Found(queue[i + 1])
    BY <1>1
  <2>1. Found(queue[n])' = Found(queue[n])
    BY <1>1, <1>2, InputIsFixed
  <2>2. CASE n = i + 1
    BY <2>1, <2>2
  <2>3. CASE n # i + 1
    BY <1>1, <1>3, <2>1, <2>3 DEF ReachInv
  <2> QED
    BY <2>2, <2>3
<1>9. \A S \in SUBSET Object : Spans(S)' => included' \cup todo' \subseteq S
  <2> SUFFICES ASSUME NEW S \in SUBSET Object, Spans(S)
               PROVE  included \cup Found(queue[i + 1]) \subseteq S
    BY <1>1, <1>2, InputIsFixed
  <2>1. included \subseteq S
    BY DEF ReachInv
  <2> QED
    BY <1>5, <2>1 DEF Spans
<1> QED
  BY <1>1, <1>6, <1>7, <1>8, <1>9 DEF ReachInv

\* Every step maintains the worklist's invariant.
LEMMA NextKeepsReachInv == ReachInv /\ [Next]_vars => ReachInv'
<1> SUFFICES ASSUME ReachInv, [Next]_vars PROVE ReachInv'
  OBVIOUS
<1>1. CASE \E o \in Object : Visit(o)
  BY <1>1, VisitKeepsReachInv
<1>2. CASE Take
  BY <1>2, TakeKeepsReachInv
<1>3. CASE Finish
  <2>1. /\ todo = {} /\ i = Len(queue) /\ out' = Sorted(queue)
        /\ UNCHANGED <<included, queue, i, todo>> /\ UNCHANGED input
    BY <1>3 DEF Finish
  <2>2. TypeOK'
    BY <2>1 DEF ReachInv, TypeOK, Sorted, input
  <2>3. \A n \in 1 .. i' : Found(queue[n])' \subseteq included' \cup todo'
    BY <2>1, InputIsFixed DEF ReachInv
  <2> QED
    BY <2>1, <2>2, <2>3, InputIsFixed DEF ReachInv
<1>4. CASE UNCHANGED vars
  <2>1. UNCHANGED <<included, queue, i, todo, out>> /\ UNCHANGED input
    BY <1>4 DEF vars, input
  <2>2. TypeOK'
    BY <2>1 DEF ReachInv, TypeOK, input
  <2>3. \A n \in 1 .. i' : Found(queue[n])' \subseteq included' \cup todo'
    BY <2>1, InputIsFixed DEF ReachInv
  <2> QED
    BY <2>1, <2>2, <2>3, InputIsFixed DEF ReachInv
<1> QED
  BY <1>1, <1>2, <1>3, <1>4 DEF Next

\* The worklist's invariant always holds.
THEOREM ReachInvariant == Spec => []ReachInv
BY ReachInvInit, NextKeepsReachInv, PTL DEF Spec

-----------------------------------------------------------------------------

\* Only objects of the namespace are visited, though references may dangle
\* (reach.go:107).
THEOREM ReachTypeOK == Spec => []TypeOK
<1>1. ReachInv => TypeOK
  BY DEF ReachInv
<1> QED
  BY <1>1, ReachInvariant, PTL

\* Reachable returns the least set that holds the roots and what its members
\* lead to (reach.go:21), for every graph and every order of the loops.
THEOREM ReachIsExact == Spec => []ExactlyTheReachableSet
<1>1. ReachInv => ExactlyTheReachableSet
  <2> SUFFICES ASSUME ReachInv, out # NoResult
               PROVE  /\ Spans(included)
                      /\ \A S \in SUBSET included : Spans(S) => S = included
    BY DEF ExactlyTheReachableSet
  <2>1. todo = {} /\ i = Len(queue)
    BY DEF ReachInv
  <2>2. \A o \in included : Found(o) \subseteq included
    BY <2>1 DEF ReachInv
  <2>3. Spans(included)
    BY <2>1, <2>2 DEF ReachInv, Spans
  <2>4. included \subseteq Object
    BY DEF ReachInv, TypeOK
  <2>5. \A S \in SUBSET included : Spans(S) => S = included
    BY <2>4 DEF ReachInv
  <2> QED
    BY <2>3, <2>5
<1> QED
  BY <1>1, ReachInvariant, PTL

\* No object of another cluster is taken in, whatever the shared definitions
\* own (reach.go:148-157): the objects of this cluster and of none span.
THEOREM ReachIsOneCluster == Spec => []OneClusterOnly
<1>1. ReachInv => OneClusterOnly
  <2> SUFFICES ASSUME ReachInv PROVE OneClusterOnly
    OBVIOUS
  <2> DEFINE Mine == {o \in Object : Owner[o] \in {Name, Nobody}}
  <2>1. Roots \subseteq Mine
    BY DEF Roots
  <2>2. ASSUME NEW o \in Mine PROVE Found(o) \subseteq Mine
    <3>1. Referred(o) \subseteq Mine
      <4> SUFFICES ASSUME NEW p \in Object, NEW f, <<o, f, p>> \in refers
                   PROVE  Owner[p] \in {Name, Nobody}
        BY DEF Referred
      <4>1. <<o, f, p>> \in MayRefer
        BY DEF ReachInv, TypeOK
      <4> QED
        BY <4>1, <2>2, ReachAssumption
    <3>2. CASE ~SharedDefinition(o)
      <4>1. Owned(o) \subseteq Mine
        <5> SUFFICES ASSUME NEW p \in Object, <<o, p>> \in owns
                     PROVE  Owner[p] \in {Name, Nobody}
          BY DEF Owned
        <5>1. <<o, p>> \in MayOwn
          BY DEF ReachInv, TypeOK
        <5> QED
          BY <5>1, <2>2, <3>2, ReachAssumption
      <4> QED
        BY <3>1, <4>1 DEF Found
    <3>3. CASE SharedDefinition(o)
      BY <3>1, <3>3 DEF Found
    <3> QED
      BY <3>2, <3>3
  <2>3. Spans(Mine)
    BY <2>1, <2>2 DEF Spans
  <2>4. included \subseteq Mine
    BY <2>3 DEF ReachInv
  <2> QED
    BY <2>4 DEF OneClusterOnly
<1> QED
  BY <1>1, ReachInvariant, PTL

-----------------------------------------------------------------------------
(* The sort.                                                               *)

Distinct(s) == \A m, n \in DOMAIN s : s[m] = s[n] => m = n

\* The elements below o, and the place o has among all of them.
Below(s, o) == {m \in DOMAIN s : s[m] < o}
Place(s, o) == Cardinality(Below(s, o)) + 1

\* A map of 1..n to itself that maps no two numbers to one reaches each of them.
LEMMA InjectionIsOnto ==
    ASSUME NEW n \in Nat, NEW g \in [1 .. n -> 1 .. n],
           \A a, b \in 1 .. n : g[a] = g[b] => a = b
    PROVE  \A k \in 1 .. n : \E a \in 1 .. n : g[a] = k
<1>1. g \in Injection(1 .. n, 1 .. n)
  BY Fun_IsInj
<1>2. IsFiniteSet(1 .. n)
  BY FS_Interval
<1>3. g \in Surjection(1 .. n, 1 .. n)
  BY <1>1, <1>2, FS_Injection
<1> QED BY <1>3 DEF Surjection

\* Different elements have different places, in their order.
LEMMA PlacesAreOrdered ==
    ASSUME NEW s \in Seq(Nat), Distinct(s)
    PROVE  /\ \A k \in DOMAIN s :
                 /\ Place(s, s[k]) \in 1 .. Len(s)
                 /\ Cardinality(Below(s, s[k])) \in Nat
                 /\ Cardinality({m \in DOMAIN s : s[m] <= s[k]}) = Place(s, s[k])
           /\ \A k, l \in DOMAIN s : s[k] < s[l] => Place(s, s[k]) < Place(s, s[l])
<1> DEFINE Upto(o) == {m \in DOMAIN s : s[m] <= o}
<1>1. DOMAIN s = 1 .. Len(s) /\ Len(s) \in Nat /\ \A k \in DOMAIN s : s[k] \in Nat
  OBVIOUS
<1>2. IsFiniteSet(DOMAIN s) /\ Cardinality(DOMAIN s) = Len(s)
  <2>1. /\ IsFiniteSet(1 .. Len(s))
        /\ Cardinality(1 .. Len(s)) = IF 1 > Len(s) THEN 0 ELSE Len(s) - 1 + 1
    BY <1>1, FS_Interval
  <2> QED BY <1>1, <2>1
<1>3. \A o : /\ IsFiniteSet(Below(s, o)) /\ Cardinality(Below(s, o)) \in Nat
             /\ IsFiniteSet(Upto(o)) /\ Cardinality(Upto(o)) \in Nat
             /\ Cardinality(Upto(o)) <= Len(s)
  <2> SUFFICES ASSUME NEW o
               PROVE  /\ IsFiniteSet(Below(s, o)) /\ Cardinality(Below(s, o)) \in Nat
                      /\ IsFiniteSet(Upto(o)) /\ Cardinality(Upto(o)) \in Nat
                      /\ Cardinality(Upto(o)) <= Len(s)
    OBVIOUS
  <2>1. Below(s, o) \in SUBSET DOMAIN s /\ Upto(o) \in SUBSET DOMAIN s
    BY DEF Below
  <2> HIDE DEF Upto
  <2>2. IsFiniteSet(Below(s, o)) /\ IsFiniteSet(Upto(o)) /\ Cardinality(Upto(o)) <= Len(s)
    BY <1>2, <2>1, FS_Subset
  <2> QED BY <2>2, FS_CardinalityType
<1>4. ASSUME NEW k \in DOMAIN s PROVE Cardinality(Upto(s[k])) = Place(s, s[k])
  <2>1. Upto(s[k]) = Below(s, s[k]) \cup {k} /\ k \notin Below(s, s[k])
    <3>1. \A m \in DOMAIN s : s[m] <= s[k] <=> (s[m] < s[k] \/ s[m] = s[k])
      BY <1>1
    <3>2. \A m \in DOMAIN s : s[m] = s[k] <=> m = k
      BY DEF Distinct
    <3>3. ~(s[k] < s[k])
      BY <1>1
    <3> QED BY <3>1, <3>2, <3>3 DEF Below
  <2> HIDE DEF Upto
  <2> QED BY <1>3, <2>1, FS_AddElement DEF Place
<1>5. ASSUME NEW k \in DOMAIN s, NEW l \in DOMAIN s, s[k] < s[l]
      PROVE  Place(s, s[k]) < Place(s, s[l])
  <2>1. Upto(s[k]) \in SUBSET Below(s, s[l])
    BY <1>1, <1>5 DEF Below
  <2> HIDE DEF Upto
  <2>2. Cardinality(Upto(s[k])) <= Cardinality(Below(s, s[l]))
    BY <1>3, <2>1, FS_Subset
  <2>3. Cardinality(Below(s, s[l])) \in Nat
    BY <1>3
  <2> QED BY <1>3, <1>4, <2>2, <2>3 DEF Place
<1> HIDE DEF Upto
<1>6. ASSUME NEW k \in DOMAIN s PROVE Place(s, s[k]) \in 1 .. Len(s)
  BY <1>1, <1>3, <1>4 DEF Place
<1> QED BY <1>3, <1>4, <1>5, <1>6 DEF Upto

\* The sort returns the elements, each of them once and in their order.
LEMMA SortedIsSorted ==
    ASSUME NEW s \in Seq(Nat), Distinct(s)
    PROVE  /\ DOMAIN Sorted(s) = DOMAIN s
           /\ {Sorted(s)[n] : n \in DOMAIN Sorted(s)} = {s[n] : n \in DOMAIN s}
           /\ \A m, n \in DOMAIN Sorted(s) : m < n => Sorted(s)[m] < Sorted(s)[n]
<1> DEFINE R == {s[m] : m \in DOMAIN s}
           T(n, o) == /\ Cardinality({m \in DOMAIN s : s[m] < o}) < n
                      /\ Cardinality({m \in DOMAIN s : s[m] <= o}) >= n
           out_ == Sorted(s)
<1>1. DOMAIN s = 1 .. Len(s) /\ Len(s) \in Nat /\ \A k \in DOMAIN s : s[k] \in Nat
  OBVIOUS
<1>2. /\ \A o \in R : /\ Place(s, o) \in 1 .. Len(s)
                       /\ Cardinality(Below(s, o)) \in Nat
                       /\ Cardinality({m \in DOMAIN s : s[m] <= o}) = Place(s, o)
      /\ \A o, p \in R : o < p => Place(s, o) < Place(s, p)
  BY PlacesAreOrdered
<1>3. \A o \in R, n \in 1 .. Len(s) : T(n, o) <=> Place(s, o) = n
  <2> SUFFICES ASSUME NEW o \in R, NEW n \in 1 .. Len(s) PROVE T(n, o) <=> Place(s, o) = n
    OBVIOUS
  <2>1. Cardinality({m \in DOMAIN s : s[m] < o}) = Cardinality(Below(s, o))
    BY DEF Below
  <2> HIDE DEF R
  <2>2. /\ Cardinality(Below(s, o)) \in Nat /\ Place(s, o) = Cardinality(Below(s, o)) + 1
        /\ Cardinality({m \in DOMAIN s : s[m] <= o}) = Place(s, o)
    BY <1>2 DEF Place
  <2> QED BY <1>1, <2>1, <2>2
<1>4. \A n \in 1 .. Len(s) : \E o \in R : Place(s, o) = n
  <2> DEFINE g == [m \in 1 .. Len(s) |-> Place(s, s[m])]
  <2>1. \A m \in 1 .. Len(s) : Place(s, s[m]) \in 1 .. Len(s)
    BY <1>1, <1>2
  <2>2. \A a, b \in 1 .. Len(s) : Place(s, s[a]) = Place(s, s[b]) => a = b
    <3> SUFFICES ASSUME NEW a \in 1 .. Len(s), NEW b \in 1 .. Len(s),
                        Place(s, s[a]) = Place(s, s[b])
                 PROVE  a = b
      OBVIOUS
    <3>1. ~(Place(s, s[a]) < Place(s, s[b])) /\ ~(Place(s, s[b]) < Place(s, s[a]))
      BY <2>1
    <3>2. ~(s[a] < s[b]) /\ ~(s[b] < s[a])
      BY <1>1, <1>2, <3>1
    <3>3. s[a] = s[b]
      BY <1>1, <3>2
    <3> QED BY <1>1, <3>3 DEF Distinct
  <2>3. g \in [1 .. Len(s) -> 1 .. Len(s)] /\ \A a, b \in 1 .. Len(s) : g[a] = g[b] => a = b
    BY <2>1, <2>2
  <2>4. \A a \in 1 .. Len(s) : g[a] = Place(s, s[a])
    OBVIOUS
  <2> HIDE DEF g
  <2>5. \A k \in 1 .. Len(s) : \E a \in 1 .. Len(s) : g[a] = k
    BY <1>1, <2>3, InjectionIsOnto
  <2>6. \A a \in 1 .. Len(s) : s[a] \in R
    BY <1>1
  <2> HIDE DEF R
  <2>7. ASSUME NEW n \in 1 .. Len(s)
        PROVE  \E o \in R : Place(s, o) = n
    <3>1. PICK a \in 1 .. Len(s) : g[a] = n
      BY <2>5
    <3>2. Place(s, s[a]) = n /\ s[a] \in R
      BY <2>4, <2>6, <3>1
    <3> QED BY <3>2, Zenon
  <2> QED BY <2>7, Zenon
<1>5. DOMAIN out_ = 1 .. Len(s)
  BY <1>1 DEF Sorted
<1>6. \A n \in 1 .. Len(s) : out_[n] \in R /\ Place(s, out_[n]) = n
  <2> SUFFICES ASSUME NEW n \in 1 .. Len(s) PROVE out_[n] \in R /\ Place(s, out_[n]) = n
    OBVIOUS
  <2>1. out_[n] = CHOOSE o \in R : T(n, o)
    BY <1>1 DEF Sorted
  <2> HIDE DEF R, T, out_
  <2>2. \E o \in R : T(n, o)
    BY <1>3, <1>4
  <2> QED BY <1>3, <2>1, <2>2
<1>7. \A o \in R : o \in Nat
  BY <1>1
<1> HIDE DEF R, out_
<1>8. \A o, p \in R : Place(s, o) = Place(s, p) => o = p
  <2> SUFFICES ASSUME NEW o \in R, NEW p \in R, Place(s, o) = Place(s, p) PROVE o = p
    OBVIOUS
  <2>1. Place(s, o) \in Int /\ Place(s, p) \in Int
    <3>1. Place(s, o) \in 1 .. Len(s) /\ Place(s, p) \in 1 .. Len(s)
      BY <1>2
    <3> QED BY <1>1, <3>1
  <2>2. ~(o < p) /\ ~(p < o)
    BY <1>2, <2>1
  <2> QED BY <1>7, <2>2
<1>9. {out_[n] : n \in 1 .. Len(s)} = R
  <2>1. ASSUME NEW o \in R PROVE \E n \in 1 .. Len(s) : out_[n] = o
    BY <1>2, <1>6, <1>8
  <2> QED BY <1>6, <2>1
<1>10. ASSUME NEW m \in 1 .. Len(s), NEW n \in 1 .. Len(s), m < n PROVE out_[m] < out_[n]
  <2>1. /\ out_[m] \in R /\ out_[n] \in R /\ out_[m] \in Nat /\ out_[n] \in Nat
        /\ Place(s, out_[m]) = m /\ Place(s, out_[n]) = n
    BY <1>6, <1>7
  <2>2. ~(out_[n] < out_[m]) /\ out_[n] # out_[m]
    BY <1>2, <1>10, <2>1
  <2> QED BY <2>1, <2>2
<1> QED BY <1>1, <1>5, <1>9, <1>10 DEF R, out_

\* The worklist holds no object twice, and the result is the worklist in order.
Listed == Distinct(queue) /\ (out # NoResult => out = Sorted(queue))

\* A visit adds only what the worklist has not, and the end sorts it.
LEMMA ListedInvariant == Spec => [](ReachInv /\ Listed)
<1>1. Init => Listed
  BY DEF Init, Listed, Distinct
<1>2. ReachInv /\ Listed /\ [Next]_vars => Listed'
  <2> SUFFICES ASSUME ReachInv, Listed, [Next]_vars PROVE Listed'
    OBVIOUS
  <2>1. ASSUME NEW v \in Object, Visit(v) PROVE Listed'
    <3>1. queue \in Seq(Object) /\ included = {queue[n] : n \in 1 .. Len(queue)} /\ out' = NoResult
      BY <2>1 DEF ReachInv, TypeOK, Visit
    <3>2. CASE v \in included
      BY <2>1, <3>1, <3>2 DEF Visit, Listed
    <3>3. CASE v \notin included
      <4>1. queue' = Append(queue, v)
        BY <2>1, <3>3 DEF Visit
      <4>2. /\ DOMAIN queue' = 1 .. Len(queue) + 1 /\ DOMAIN queue = 1 .. Len(queue)
            /\ Len(queue) \in Nat /\ queue'[Len(queue) + 1] = v
            /\ \A n \in 1 .. Len(queue) : queue'[n] = queue[n]
        BY <3>1, <4>1
      <4>3. \A n \in 1 .. Len(queue) : queue[n] # v
        BY <3>1, <3>3
      <4>4. \A n \in 1 .. Len(queue) + 1 : n \in 1 .. Len(queue) \/ n = Len(queue) + 1
        BY <4>2
      <4>5. Distinct(queue')
        BY <4>2, <4>3, <4>4 DEF Listed, Distinct
      <4> QED BY <3>1, <4>5 DEF Listed, Distinct
    <3> QED BY <3>2, <3>3
  <2>2. CASE Take
    BY <2>2 DEF Take, Listed, Distinct
  <2>3. CASE Finish
    BY <2>3 DEF Finish, Listed, Distinct
  <2>4. CASE UNCHANGED vars
    BY <2>4 DEF vars, Listed, Distinct
  <2> QED BY <2>1, <2>2, <2>3, <2>4 DEF Next
<1> QED BY <1>1, <1>2, ReachInvariant, PTL DEF Spec

\* The result lists each object that was visited once and in the order of the keys,
\* whatever order the map gave the objects in (reach.go:127-135).
THEOREM ReachIsOneSortedList == Spec => []OneSortedList
<1>1. ReachInv /\ Listed => OneSortedList
  <2> SUFFICES ASSUME ReachInv, Listed, out # NoResult
               PROVE  /\ {out[n] : n \in DOMAIN out} = included
                      /\ \A m, n \in DOMAIN out : m < n => out[m] < out[n]
    BY DEF OneSortedList
  <2>1. queue \in Seq(Nat)
    <3>1. queue \in Seq(Object) /\ Object \subseteq Nat
      BY ReachAssumption DEF ReachInv, TypeOK
    <3> QED BY <3>1, SeqMonotonic
  <2>2. out = Sorted(queue) /\ Distinct(queue)
    BY DEF Listed
  <2>3. included = {queue[n] : n \in DOMAIN queue}
    BY <2>1 DEF ReachInv
  <2> QED BY <2>1, <2>2, <2>3, SortedIsSorted
<1> QED BY <1>1, ListedInvariant, PTL
=============================================================================
