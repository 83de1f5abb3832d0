------------------------------ MODULE WhyProofs ------------------------------
(***************************************************************************)
(* What holds of the ranking for every cluster: the comparator is a strict *)
(* weak order, so a winner exists and a sort finds it; and from that what  *)
(* the line may say.                                                       *)
(***************************************************************************)
EXTENDS Why, FiniteSetTheorems, TLAPS

-----------------------------------------------------------------------------
(* The comparator.                                                         *)

\* What the comparator reads of a candidate.
KeyRecord ==
    [specificity : 0 .. 45, summary : BOOLEAN, waits : BOOLEAN, at : Nat,
     severity : 0 .. 3, name : Nat]

\* a and b are equal on the first n keys.
Agree(a, b, n) ==
    /\ n >= 1 => a.specificity = b.specificity
    /\ n >= 2 => a.summary = b.summary
    /\ n >= 3 => a.waits = b.waits
    /\ n >= 4 => a.at = b.at
    /\ n >= 5 => a.severity = b.severity
    /\ n >= 6 => a.name = b.name

\* The comparator of Rank is a strict weak order (why.go:171-189): it never puts
\* each of two candidates before the other, it is transitive, and so is being tied
\* under it.  A sort with anything less may name any candidate.
THEOREM LessIsAStrictWeakOrder ==
    ASSUME NEW a \in KeyRecord, NEW b \in KeyRecord, NEW c \in KeyRecord
    PROVE  /\ ~(Less(a, b) /\ Less(b, a))
           /\ Less(a, b) /\ Less(b, c) => Less(a, c)
           /\ ~Less(a, b) /\ ~Less(b, a) /\ ~Less(b, c) /\ ~Less(c, b)
                => ~Less(a, c) /\ ~Less(c, a)
<1>1. ~(Less(a, b) /\ Less(b, a))
  BY DEF Less, KeyRecord
<1>2. Less(a, b) /\ Less(b, c) => Less(a, c)
  BY DEF Less, KeyRecord
<1>3. ~Less(a, b) /\ ~Less(b, a) <=> Agree(a, b, 6)
  BY DEF Less, KeyRecord, Agree
<1>4. ~Less(b, c) /\ ~Less(c, b) <=> Agree(b, c, 6)
  BY DEF Less, KeyRecord, Agree
<1>5. ~Less(a, c) /\ ~Less(c, a) <=> Agree(a, c, 6)
  BY DEF Less, KeyRecord, Agree
<1>6. Agree(a, b, 6) /\ Agree(b, c, 6) => Agree(a, c, 6)
  BY DEF KeyRecord, Agree
<1> QED BY <1>1, <1>2, <1>3, <1>4, <1>5, <1>6

\* A candidate the comparator does not put first lost to the first key on which it
\* differs from the one that is, and LostTo names that key.
LEMMA LostToNamesTheKey ==
    ASSUME NEW loser \in KeyRecord, NEW win \in KeyRecord, ~Less(loser, win)
    PROVE  \E r \in 1 .. 6 :
              /\ LostTo(loser, win) = Rules[r]
              /\ \A j \in 1 .. r - 1 : loser[Keys[j]] = win[Keys[j]]
              /\ loser[Keys[r]] # win[Keys[r]] \/ r = 6
<1> DEFINE Decides(r) == /\ LostTo(loser, win) = Rules[r]
                         /\ \A j \in 1 .. r - 1 : loser[Keys[j]] = win[Keys[j]]
                         /\ loser[Keys[r]] # win[Keys[r]] \/ r = 6
<1>1. CASE loser.specificity # win.specificity
  <2>1. Decides(1)
    BY <1>1 DEF Less, LostTo, KeyRecord, Rules, Keys
  <2> QED BY <2>1
<1>2. CASE Agree(loser, win, 1) /\ loser.summary # win.summary
  <2>1. Decides(2)
    BY <1>2 DEF Less, LostTo, KeyRecord, Rules, Keys, Agree
  <2> QED BY <2>1
<1>3. CASE Agree(loser, win, 2) /\ loser.waits # win.waits
  <2>1. Decides(3)
    BY <1>3 DEF Less, LostTo, KeyRecord, Rules, Keys, Agree
  <2> QED BY <2>1
<1>4. CASE Agree(loser, win, 3) /\ loser.at # win.at
  <2>1. Decides(4)
    BY <1>4 DEF Less, LostTo, KeyRecord, Rules, Keys, Agree
  <2> QED BY <2>1
<1>5. CASE Agree(loser, win, 4) /\ loser.severity # win.severity
  <2>1. Decides(5)
    BY <1>5 DEF Less, LostTo, KeyRecord, Rules, Keys, Agree
  <2> QED BY <2>1
<1>6. CASE Agree(loser, win, 5)
  <2>1. Decides(6)
    BY <1>6 DEF Less, LostTo, KeyRecord, Rules, Keys, Agree
  <2> QED BY <2>1
<1> QED BY <1>1, <1>2, <1>3, <1>4, <1>5, <1>6 DEF Agree

-----------------------------------------------------------------------------
(* A winner exists.                                                        *)

\* Some number of a set of naturals is the least.
LEMMA Least ==
    ASSUME NEW S, S \subseteq Nat, S # {}
    PROVE  \E n \in S : \A k \in S : n <= k
<1> DEFINE R == {p \in Nat \X Nat : p[1] < p[2]}
<1>1. R = OpToRel(<, Nat)
  BY Zenon DEF OpToRel
<1>2. IsWellFoundedOn(R, Nat)
  BY <1>1, NatLessThanWellFounded
<1>3. \E n \in S : \A k \in S : ~(<<k, n>> \in R)
  <2> HIDE DEF R
  <2> QED BY <1>2, WFMin
<1>4. PICK n \in S : \A k \in S : ~(<<k, n>> \in R)
  BY <1>3
<1>5. ASSUME NEW k \in S PROVE n <= k
  <2>1. <<k, n>> \in Nat \X Nat
    OBVIOUS
  <2>2. ~(k < n)
    BY <2>1, <1>4, Zenon
  <2> QED BY <2>2
<1> QED BY <1>5

\* U is what leads T by the key f.
Leads(U, T, f) ==
    /\ U \subseteq T
    /\ \A c, d \in U : f[c] = f[d]
    /\ \A c \in U, d \in T \ U : f[c] < f[d]

\* Every key has its leaders.
LEMMA Leading ==
    ASSUME NEW A, NEW T \in SUBSET A, T # {}, NEW f \in [A -> Nat]
    PROVE  \E U \in SUBSET A : U # {} /\ Leads(U, T, f)
<1> DEFINE S == {f[c] : c \in T}
<1>0. \A c \in T : f[c] \in Nat
  OBVIOUS
<1>1. PICK n \in S : \A k \in S : n <= k
  <2>1. S \subseteq Nat /\ S # {}
    BY <1>0
  <2> QED BY <2>1, Least
<1> DEFINE U == {c \in T : f[c] = n}
<1>2. U \in SUBSET A /\ U \subseteq T /\ U # {}
  BY <1>1
<1>3. \A c, d \in U : f[c] = f[d]
  OBVIOUS
<1>4. ASSUME NEW c \in U, NEW d \in T \ U
      PROVE  f[c] < f[d]
  BY <1>0, <1>1
<1> QED BY <1>2, <1>3, <1>4 DEF Leads

\* The envelope is one that controllers can leave, as far as the ranking reads it.
Readable ==
    /\ cond \in [Condition -> Report]
    /\ now \in Nat
    /\ \A c \in Condition : cond[c].at <= now

\* The keys of a candidate are of their types.
LEMMA KeyType ==
    ASSUME Readable, NEW all, NEW c \in Condition
    PROVE  Key(c, all) \in KeyRecord
<1>1. c[1] \in Object
  BY DEF Condition
<1>2. specificity(Kind[c[1]]) \in 0 .. 45
  BY DEF specificity
<1>3. severityRank(cond[c].severity) \in 0 .. 3
  BY DEF severityRank
<1>4. cond[c].at \in Nat
  BY DEF Readable, Report
<1>5. Name[c[1]] \in Nat
  BY <1>1, WhyAssumption
<1> QED BY <1>2, <1>3, <1>4, <1>5 DEF Key, KeyRecord, waitsFor

\* An object that is met is first met at one slot.
LEMMA PlaceIsASlot ==
    ASSUME NEW order, Len(order) \in Nat, NEW o \in Met(order)
    PROVE  Place(order, o) \in Slots(order) /\ Slot(order, Place(order, o)) = o
<1> DEFINE At == {k \in Slots(order) : Slot(order, k) = o}
<1>1. At # {} /\ At \subseteq Nat
  BY DEF Met, Slots
<1>2. \E k \in At : \A j \in At : k <= j
  BY <1>1, Least
<1>3. \E k \in Slots(order) :
        /\ Slot(order, k) = o
        /\ \A j \in Slots(order) : Slot(order, j) = o => k <= j
  BY <1>2
<1> QED BY <1>3, Zenon DEF Place

\* It is the first of its slots.
LEMMA FirstPlace ==
    ASSUME NEW order, Len(order) \in Nat, NEW o \in Met(order),
           NEW j \in Slots(order), Slot(order, j) = o
    PROVE  Place(order, o) \in Nat /\ Place(order, o) <= j
<1> DEFINE At == {k \in Slots(order) : Slot(order, k) = o}
<1>1. At # {} /\ At \subseteq Nat
  BY DEF Met, Slots
<1>2. \E k \in At : \A l \in At : k <= l
  BY <1>1, Least
<1>3. \E k \in Slots(order) :
        /\ Slot(order, k) = o
        /\ \A l \in Slots(order) : Slot(order, l) = o => k <= l
  BY <1>2
<1>4. /\ Place(order, o) \in Slots(order)
      /\ \A l \in Slots(order) : Slot(order, l) = o => Place(order, o) <= l
  BY <1>3, Zenon DEF Place
<1> QED BY <1>4 DEF Slots

\* The numbers in a key.
LEMMA KeyFields ==
    ASSUME NEW k \in KeyRecord
    PROVE  k.specificity \in 0 .. 45 /\ k.at \in Nat /\ k.severity \in 0 .. 3 /\ k.name \in Nat
BY DEF KeyRecord

\* What is collected is a condition of an object that is met.
LEMMA Collected ==
    ASSUME NEW order, NEW c \in collect(order)
    PROVE  c \in Condition /\ c[1] \in Met(order) /\ c[1] \in Object /\ c \in Failing(c[1])
BY DEF collect, Failing, Condition

\* What Winner chooses.
Wins(c, order) ==
    \A d \in collect(order) \ {c} :
        \/ Less(Key(c, collect(order)), Key(d, collect(order)))
        \/ /\ ~Less(Key(d, collect(order)), Key(c, collect(order)))
           /\ CollectedBefore(order, c, d)

\* Where the type of c first stands in its object's list.
Index(c) == CHOOSE i \in 1 .. Len(TypesOf[c[1]]) :
                /\ TypesOf[c[1]][i] = c[2]
                /\ \A j \in 1 .. Len(TypesOf[c[1]]) : TypesOf[c[1]][j] = c[2] => i <= j

\* A condition's type is in its object's list, and Index finds it.
LEMMA IndexIsOfTheType ==
    ASSUME NEW c \in Condition
    PROVE  Index(c) \in 1 .. Len(TypesOf[c[1]]) /\ TypesOf[c[1]][Index(c)] = c[2]
<1> DEFINE At == {i \in 1 .. Len(TypesOf[c[1]]) : TypesOf[c[1]][i] = c[2]}
<1>0. PICK o \in Object : \E i \in 1 .. Len(TypesOf[o]) : c = <<o, TypesOf[o][i]>>
  BY DEF Condition
<1>1. At # {} /\ At \subseteq Nat
  <2>1. PICK i \in 1 .. Len(TypesOf[o]) : c = <<o, TypesOf[o][i]>>
    BY <1>0
  <2>2. c[1] = o /\ c[2] = TypesOf[o][i]
    BY <2>1
  <2>3. i \in At
    BY <2>2
  <2> QED BY <2>3
<1>2. \E i \in At : \A j \in At : i <= j
  BY <1>1, Least
<1>3. \E i \in 1 .. Len(TypesOf[c[1]]) :
        /\ TypesOf[c[1]][i] = c[2]
        /\ \A j \in 1 .. Len(TypesOf[c[1]]) : TypesOf[c[1]][j] = c[2] => i <= j
  BY <1>2
<1> QED BY <1>3, Zenon DEF Index

\* The object and the index tell a condition from every other.
LEMMA SameIndexSameCondition ==
    ASSUME NEW c \in Condition, NEW d \in Condition, c[1] = d[1], Index(c) = Index(d)
    PROVE  c = d
<1>1. c[2] = d[2]
  BY IndexIsOfTheType
<1> QED BY <1>1 DEF Condition

\* The first key on which two candidates differ decides.
LEMMA FirstDifferenceDecides ==
    ASSUME NEW a \in KeyRecord, NEW b \in KeyRecord
    PROVE  /\ a.specificity > b.specificity => Less(a, b)
           /\ Agree(a, b, 1) /\ ~a.summary /\ b.summary => Less(a, b)
           /\ Agree(a, b, 2) /\ ~a.waits /\ b.waits => Less(a, b)
           /\ Agree(a, b, 3) /\ a.at > b.at => Less(a, b)
           /\ Agree(a, b, 4) /\ a.severity > b.severity => Less(a, b)
           /\ Agree(a, b, 5) /\ a.name < b.name => Less(a, b)
           /\ Agree(a, b, 6) => ~Less(b, a)
BY DEF Less, KeyRecord, Agree

\* Among finitely or infinitely many candidates one wins: the leaders by the first
\* key, of these the leaders by the second, and so on, then by place and by index.
LEMMA SomeoneWins ==
    ASSUME Readable, NEW order, Len(order) \in Nat, collect(order) # {}
    PROVE  \E c \in collect(order) : Wins(c, order)
<1> DEFINE all == collect(order)
           key(c) == Key(c, all)
           Bit(b) == IF b THEN 1 ELSE 0
           f1 == [c \in all |-> 45 - key(c).specificity]
           f2 == [c \in all |-> Bit(key(c).summary)]
           f3 == [c \in all |-> Bit(key(c).waits)]
           f4 == [c \in all |-> now - key(c).at]
           f5 == [c \in all |-> 3 - key(c).severity]
           f6 == [c \in all |-> key(c).name]
           f7 == [c \in all |-> Place(order, c[1])]
           f8 == [c \in all |-> Index(c)]
<1>1. \A c \in all : c \in Condition /\ c[1] \in Met(order)
  BY Collected
<1>2. \A c \in all : key(c) \in KeyRecord /\ key(c).at <= now
  BY <1>1, KeyType DEF Readable, Key
<1>3. \A c \in all : Place(order, c[1]) \in Slots(order) /\ Slot(order, Place(order, c[1])) = c[1]
  BY <1>1, PlaceIsASlot
<1>4. \A c \in all : Index(c) \in 1 .. Len(TypesOf[c[1]])
  BY <1>1, IndexIsOfTheType
<1>5. /\ f1 \in [all -> Nat] /\ f2 \in [all -> Nat] /\ f3 \in [all -> Nat]
      /\ f4 \in [all -> Nat] /\ f5 \in [all -> Nat] /\ f6 \in [all -> Nat]
  <2>1. now \in Nat
    BY DEF Readable
  <2>2. \A c \in all : /\ 45 - key(c).specificity \in Nat /\ now - key(c).at \in Nat
                       /\ 3 - key(c).severity \in Nat /\ key(c).name \in Nat
    <3>1. ASSUME NEW k \in KeyRecord, k.at <= now
          PROVE  45 - k.specificity \in Nat /\ now - k.at \in Nat /\ 3 - k.severity \in Nat /\ k.name \in Nat
      <4>1. k.specificity \in 0 .. 45 /\ k.at \in Nat /\ k.severity \in 0 .. 3 /\ k.name \in Nat
        BY KeyFields
      <4>2. /\ \A p \in 0 .. 45 : 45 - p \in Nat
            /\ \A p \in 0 .. 3 : 3 - p \in Nat
            /\ \A p, q \in Nat : p <= q => q - p \in Nat
        OBVIOUS
      <4> QED BY <4>1, <4>2, <2>1, <3>1, Zenon
    <3> HIDE DEF all, key
    <3> QED BY <1>2, <3>1
  <2> HIDE DEF all, key
  <2> QED BY <2>2
<1>6. f7 \in [all -> Nat]
  BY <1>3 DEF Slots
<1>7. f8 \in [all -> Nat]
  BY <1>4
<1>8. \A c, d \in all :
        /\ f1[c] = f1[d] => key(c).specificity = key(d).specificity
        /\ f1[c] < f1[d] => key(c).specificity > key(d).specificity
        /\ f2[c] = f2[d] => key(c).summary = key(d).summary
        /\ f2[c] < f2[d] => ~key(c).summary /\ key(d).summary
        /\ f3[c] = f3[d] => key(c).waits = key(d).waits
        /\ f3[c] < f3[d] => ~key(c).waits /\ key(d).waits
        /\ f4[c] = f4[d] => key(c).at = key(d).at
        /\ f4[c] < f4[d] => key(c).at > key(d).at
        /\ f5[c] = f5[d] => key(c).severity = key(d).severity
        /\ f5[c] < f5[d] => key(c).severity > key(d).severity
        /\ f6[c] = f6[d] => key(c).name = key(d).name
        /\ f6[c] < f6[d] => key(c).name < key(d).name
  <2>1. now \in Nat
    BY DEF Readable
  <2>2. \A k, l \in KeyRecord :
          /\ 45 - k.specificity = 45 - l.specificity => k.specificity = l.specificity
          /\ 45 - k.specificity < 45 - l.specificity => k.specificity > l.specificity
          /\ now - k.at = now - l.at => k.at = l.at
          /\ now - k.at < now - l.at => k.at > l.at
          /\ 3 - k.severity = 3 - l.severity => k.severity = l.severity
          /\ 3 - k.severity < 3 - l.severity => k.severity > l.severity
    <3>1. \A n, p, q \in Int : /\ n - p = n - q => p = q
                               /\ n - p < n - q => p > q
      OBVIOUS
    <3>2. \A k \in KeyRecord : k.specificity \in Int /\ k.at \in Int /\ k.severity \in Int
      <4>1. \A p \in Nat : p \in Int
        OBVIOUS
      <4>2. \A p \in 0 .. 45 : p \in Int
        OBVIOUS
      <4>3. \A p \in 0 .. 3 : p \in Int
        OBVIOUS
      <4> QED BY <4>1, <4>2, <4>3, KeyFields, Zenon
    <3>3. 45 \in Int /\ 3 \in Int /\ now \in Int
      BY <2>1
    <3> QED BY <3>1, <3>2, <3>3, Zenon
  <2>3. \A k, l \in KeyRecord :
          /\ Bit(k.summary) = Bit(l.summary) => k.summary = l.summary
          /\ Bit(k.summary) < Bit(l.summary) => ~k.summary /\ l.summary
          /\ Bit(k.waits) = Bit(l.waits) => k.waits = l.waits
          /\ Bit(k.waits) < Bit(l.waits) => ~k.waits /\ l.waits
    BY DEF KeyRecord
  <2> HIDE DEF all, key, Bit
  <2> QED BY <1>2, <2>2, <2>3
<1>9. \A c, d \in all : f7[c] = f7[d] => c[1] = d[1]
  <2> HIDE DEF all
  <2> QED BY <1>3
<1>10. \A c, d \in all : f7[c] < f7[d] => CollectedBefore(order, c, d)
  <2>1. \A c, d \in all : f7[c] < f7[d] => Place(order, c[1]) < Place(order, d[1])
    OBVIOUS
  <2>2. \A c, d \in all : Place(order, c[1]) < Place(order, d[1]) => c[1] # d[1]
    BY <1>3 DEF Slots
  <2> QED BY <2>1, <2>2 DEF CollectedBefore
<1>11. ASSUME NEW c \in all, NEW d \in all, c[1] = d[1]
       PROVE  /\ f8[c] = f8[d] => c = d
              /\ f8[c] < f8[d] => CollectedBefore(order, c, d)
  <2>1. c \in Condition /\ d \in Condition
    BY <1>1
  <2>2. f8[c] = f8[d] => c = d
    BY <1>11, <2>1, SameIndexSameCondition
  <2>3. f8[c] < f8[d] => CollectedBefore(order, c, d)
    BY <1>11, <2>1, IndexIsOfTheType DEF CollectedBefore
  <2> QED BY <2>2, <2>3
<1> HIDE DEF all, key, f1, f2, f3, f4, f5, f6, f7, f8
<1>12. all # {}
  BY DEF all
<1>13. PICK U1 \in SUBSET all : U1 # {} /\ Leads(U1, all, f1)
  BY <1>5, <1>12, Leading
<1>14. PICK U2 \in SUBSET all : U2 # {} /\ Leads(U2, U1, f2)
  BY <1>5, <1>13, Leading
<1>15. PICK U3 \in SUBSET all : U3 # {} /\ Leads(U3, U2, f3)
  BY <1>5, <1>14, Leading
<1>16. PICK U4 \in SUBSET all : U4 # {} /\ Leads(U4, U3, f4)
  BY <1>5, <1>15, Leading
<1>17. PICK U5 \in SUBSET all : U5 # {} /\ Leads(U5, U4, f5)
  BY <1>5, <1>16, Leading
<1>18. PICK U6 \in SUBSET all : U6 # {} /\ Leads(U6, U5, f6)
  BY <1>5, <1>17, Leading
<1>19. PICK U7 \in SUBSET all : U7 # {} /\ Leads(U7, U6, f7)
  BY <1>6, <1>18, Leading
<1>20. PICK U8 \in SUBSET all : U8 # {} /\ Leads(U8, U7, f8)
  BY <1>7, <1>19, Leading
<1>21. PICK c \in U8 : TRUE
  BY <1>20
<1>22. /\ U8 \subseteq U7 /\ U7 \subseteq U6 /\ U6 \subseteq U5 /\ U5 \subseteq U4
       /\ U4 \subseteq U3 /\ U3 \subseteq U2 /\ U2 \subseteq U1
  BY <1>14, <1>15, <1>16, <1>17, <1>18, <1>19, <1>20 DEF Leads
<1>23. c \in all /\ c \in U1 /\ c \in U2 /\ c \in U3 /\ c \in U4 /\ c \in U5 /\ c \in U6 /\ c \in U7
  BY <1>21, <1>22
<1>24. \A d \in all :
         /\ d \in U1 => Agree(key(c), key(d), 1)
         /\ d \in U2 => Agree(key(c), key(d), 2)
         /\ d \in U3 => Agree(key(c), key(d), 3)
         /\ d \in U4 => Agree(key(c), key(d), 4)
         /\ d \in U5 => Agree(key(c), key(d), 5)
         /\ d \in U6 => Agree(key(c), key(d), 6)
  <2>1. \A d \in U1 : key(c).specificity = key(d).specificity
    BY <1>8, <1>13, <1>23 DEF Leads
  <2>2. \A d \in U2 : key(c).summary = key(d).summary
    BY <1>8, <1>14, <1>23 DEF Leads
  <2>3. \A d \in U3 : key(c).waits = key(d).waits
    BY <1>8, <1>15, <1>23 DEF Leads
  <2>4. \A d \in U4 : key(c).at = key(d).at
    BY <1>8, <1>16, <1>23 DEF Leads
  <2>5. \A d \in U5 : key(c).severity = key(d).severity
    BY <1>8, <1>17, <1>23 DEF Leads
  <2>6. \A d \in U6 : key(c).name = key(d).name
    BY <1>8, <1>18, <1>23 DEF Leads
  <2> QED BY <1>22, <2>1, <2>2, <2>3, <2>4, <2>5, <2>6 DEF Agree
<1>25. ASSUME NEW d \in all \ {c}
       PROVE  \/ Less(key(c), key(d))
              \/ ~Less(key(d), key(c)) /\ CollectedBefore(order, c, d)
  <2> DEFINE a == key(c)
             b == key(d)
  <2>1. a \in KeyRecord /\ b \in KeyRecord
    BY <1>2, <1>23
  <2>2. CASE d \notin U1
    <3>1. a.specificity > b.specificity
      BY <1>8, <1>13, <1>23, <2>2 DEF Leads
    <3> QED BY <2>1, <3>1, FirstDifferenceDecides
  <2>3. CASE d \in U1 \ U2
    <3>1. ~a.summary /\ b.summary /\ Agree(a, b, 1)
      BY <1>8, <1>14, <1>23, <1>24, <2>3 DEF Leads
    <3> QED BY <2>1, <3>1, FirstDifferenceDecides
  <2>4. CASE d \in U2 \ U3
    <3>1. ~a.waits /\ b.waits /\ Agree(a, b, 2)
      BY <1>8, <1>15, <1>23, <1>24, <2>4 DEF Leads
    <3> QED BY <2>1, <3>1, FirstDifferenceDecides
  <2>5. CASE d \in U3 \ U4
    <3>1. a.at > b.at /\ Agree(a, b, 3)
      BY <1>8, <1>16, <1>23, <1>24, <2>5 DEF Leads
    <3> QED BY <2>1, <3>1, FirstDifferenceDecides
  <2>6. CASE d \in U4 \ U5
    <3>1. a.severity > b.severity /\ Agree(a, b, 4)
      BY <1>8, <1>17, <1>23, <1>24, <2>6 DEF Leads
    <3> QED BY <2>1, <3>1, FirstDifferenceDecides
  <2>7. CASE d \in U5 \ U6
    <3>1. a.name < b.name /\ Agree(a, b, 5)
      BY <1>8, <1>18, <1>23, <1>24, <2>7 DEF Leads
    <3> QED BY <2>1, <3>1, FirstDifferenceDecides
  <2>8. CASE d \in U6
    <3>1. Agree(a, b, 6)
      BY <1>24, <2>8
    <3>2. ~Less(b, a)
      BY <2>1, <3>1, FirstDifferenceDecides
    <3>3. CASE d \notin U7
      <4>1. CollectedBefore(order, c, d)
        BY <1>10, <1>19, <1>23, <2>8, <3>3 DEF Leads
      <4> QED BY <3>2, <4>1
    <3>4. CASE d \in U7
      <4>1. c[1] = d[1]
        BY <1>9, <1>19, <1>23, <3>4 DEF Leads
      <4>2. d \notin U8
        BY <1>11, <1>20, <1>21, <1>23, <4>1 DEF Leads
      <4>3. CollectedBefore(order, c, d)
        BY <1>11, <1>20, <1>21, <1>23, <3>4, <4>1, <4>2 DEF Leads
      <4> QED BY <3>2, <4>3
    <3> QED BY <3>3, <3>4
  <2> QED BY <1>22, <2>2, <2>3, <2>4, <2>5, <2>6, <2>7, <2>8
<1> QED BY <1>23, <1>25 DEF Wins, all, key

\* A type is in a list once.
LEMMA TypesDiffer ==
    ASSUME NEW o \in Object, NEW i \in 1 .. Len(TypesOf[o]), NEW j \in 1 .. Len(TypesOf[o]),
           TypesOf[o][i] = TypesOf[o][j]
    PROVE  i = j
BY WhyAssumption

\* Of two candidates at most one was collected before the other.
LEMMA CollectedOnce ==
    ASSUME NEW order, Len(order) \in Nat, NEW c \in collect(order), NEW d \in collect(order),
           CollectedBefore(order, c, d), CollectedBefore(order, d, c)
    PROVE  FALSE
<1>1. c[1] \in Met(order) /\ d[1] \in Met(order) /\ c[1] \in Object
  BY Collected
<1>2. CASE c[1] # d[1]
  <2>1. Place(order, c[1]) \in Slots(order) /\ Place(order, d[1]) \in Slots(order)
    BY <1>1, PlaceIsASlot
  <2>2. Place(order, c[1]) \in Int /\ Place(order, d[1]) \in Int
    BY <2>1 DEF Slots
  <2>3. Place(order, c[1]) < Place(order, d[1]) /\ Place(order, d[1]) < Place(order, c[1])
    BY <1>2 DEF CollectedBefore
  <2> QED BY <2>2, <2>3
<1>3. CASE c[1] = d[1]
  <2> DEFINE types == TypesOf[c[1]]
  <2>1. PICK i \in 1 .. Len(types), j \in 1 .. Len(types) :
           i < j /\ types[i] = c[2] /\ types[j] = d[2]
    BY <1>3 DEF CollectedBefore
  <2>2. PICK k \in 1 .. Len(types), l \in 1 .. Len(types) :
           k < l /\ types[k] = d[2] /\ types[l] = c[2]
    BY <1>3 DEF CollectedBefore
  <2>3. i = l /\ j = k
    BY <1>1, <2>1, <2>2, TypesDiffer
  <2> QED BY <2>1, <2>2, <2>3
<1> QED BY <1>2, <1>3

\* No two candidates win.
LEMMA OneWins ==
    ASSUME Readable, NEW order, Len(order) \in Nat,
           NEW c \in collect(order), NEW d \in collect(order),
           Wins(c, order), Wins(d, order)
    PROVE  c = d
<1> SUFFICES ASSUME c # d PROVE FALSE
  OBVIOUS
<1> DEFINE k == Key(c, collect(order))
           l == Key(d, collect(order))
<1>1. k \in KeyRecord /\ l \in KeyRecord
  BY Collected, KeyType
<1>2. ~(Less(k, l) /\ Less(l, k))
  BY <1>1, LessIsAStrictWeakOrder
<1>3. Less(k, l) \/ (~Less(l, k) /\ CollectedBefore(order, c, d))
  BY Zenon DEF Wins
<1>4. Less(l, k) \/ (~Less(k, l) /\ CollectedBefore(order, d, c))
  BY Zenon DEF Wins
<1>5. CollectedBefore(order, c, d) /\ CollectedBefore(order, d, c)
  BY <1>2, <1>3, <1>4
<1> QED BY <1>5, CollectedOnce

\* Winner is the candidate that wins.
LEMMA WinnerWins ==
    ASSUME Readable, NEW order, Len(order) \in Nat, collect(order) # {}
    PROVE  /\ Winner(order) \in collect(order)
           /\ Wins(Winner(order), order)
           /\ \A c \in collect(order) : Wins(c, order) => c = Winner(order)
<1> DEFINE all == collect(order)
<1>1. \E c \in all : Wins(c, order)
  BY SomeoneWins
<1>2. Winner(order) = CHOOSE c \in all : Wins(c, order)
  <2>1. \A c \in all : Wins(c, order) <=>
            LET key == [d \in all |-> Key(d, all)]
            IN  \A d \in all \ {c} :
                  \/ Less(key[c], key[d])
                  \/ ~Less(key[d], key[c]) /\ CollectedBefore(order, c, d)
    BY DEF Wins
  <2> QED BY <2>1 DEF Winner
<1>3. Winner(order) \in all /\ Wins(Winner(order), order)
  BY <1>1, <1>2
<1> QED BY <1>3, OneWins

-----------------------------------------------------------------------------
(* The order of the contributors.                                          *)

\* A contributor that is in the envelope takes three slots.
LEMMA SlotsOfOne ==
    ASSUME NEW order, Len(order) \in Nat, NEW i \in 1 .. Len(order), order[i] \in found
    PROVE  /\ 3 * i - 2 \in Slots(order) /\ Slot(order, 3 * i - 2) = order[i]
           /\ 3 * i - 1 \in Slots(order) /\ Slot(order, 3 * i - 1) = Infra[order[i]]
           /\ 3 * i \in Slots(order) /\ Slot(order, 3 * i) = Bootstrap[order[i]]
<1>1. 3 * i - 2 \in Slots(order) /\ 3 * i - 1 \in Slots(order) /\ 3 * i \in Slots(order)
  BY DEF Slots
<1>2. /\ (3 * i - 2 + 2) \div 3 = i /\ (3 * i - 2) % 3 = 1 /\ 3 * i - 2 # 3 * Len(order) + 1
      /\ (3 * i - 1 + 2) \div 3 = i /\ (3 * i - 1) % 3 = 2 /\ 3 * i - 1 # 3 * Len(order) + 1
      /\ (3 * i + 2) \div 3 = i /\ (3 * i) % 3 = 0 /\ 3 * i # 3 * Len(order) + 1
  OBVIOUS
<1>3. ASSUME NEW k \in Int, (k + 2) \div 3 = i, k # 3 * Len(order) + 1
      PROVE  /\ k % 3 = 1 => Slot(order, k) = order[i]
             /\ k % 3 = 2 => Slot(order, k) = Infra[order[i]]
             /\ k % 3 = 0 => Slot(order, k) = Bootstrap[order[i]]
  BY <1>3 DEF Slot
<1>4. 3 * i - 2 \in Int /\ 3 * i - 1 \in Int /\ 3 * i \in Int
  OBVIOUS
<1>5. /\ Slot(order, 3 * i - 2) = order[i]
      /\ Slot(order, 3 * i - 1) = Infra[order[i]]
      /\ Slot(order, 3 * i) = Bootstrap[order[i]]
  BY <1>2, <1>3, <1>4, Zenon
<1> QED BY <1>1, <1>5

\* Every slot is one of those, or the Cluster's.
LEMMA SlotIsOfOne ==
    ASSUME NEW order, Len(order) \in Nat, NEW k \in Slots(order),
           Slot(order, k) # TheCluster, Slot(order, k) # None
    PROVE  \E i \in 1 .. Len(order) :
              /\ order[i] \in found
              /\ \/ k = 3 * i - 2 /\ Slot(order, k) = order[i]
                 \/ k = 3 * i - 1 /\ Slot(order, k) = Infra[order[i]]
                 \/ k = 3 * i /\ Slot(order, k) = Bootstrap[order[i]]
<1> DEFINE i == (k + 2) \div 3
<1>1. k # 3 * Len(order) + 1
  BY DEF Slot
<1>2. i \in 1 .. Len(order)
  BY <1>1 DEF Slots
<1>3. \/ k % 3 = 1 /\ k = 3 * i - 2
      \/ k % 3 = 2 /\ k = 3 * i - 1
      \/ k % 3 = 0 /\ k = 3 * i
  BY DEF Slots
<1>4. Slot(order, k) =
        IF order[i] \notin found THEN None
        ELSE CASE k % 3 = 1 -> order[i] [] k % 3 = 2 -> Infra[order[i]]
               [] k % 3 = 0 -> Bootstrap[order[i]]
  BY <1>1 DEF Slot
<1> HIDE DEF i
<1>5. order[i] \in found
  BY <1>4
<1> QED BY <1>2, <1>3, <1>4, <1>5

\* What is met does not depend on the order.
LEMMA MetIs ==
    ASSUME NEW order, Len(order) \in Nat, None \notin found, NEW o
    PROVE  o \in Met(order) <=>
              /\ o \in found
              /\ \/ o = TheCluster
                 \/ \E i \in 1 .. Len(order) :
                       /\ order[i] \in found
                       /\ o \in {order[i], Infra[order[i]], Bootstrap[order[i]]}
<1>1. ASSUME o \in Met(order), o # TheCluster
      PROVE  \E i \in 1 .. Len(order) :
                /\ order[i] \in found
                /\ o \in {order[i], Infra[order[i]], Bootstrap[order[i]]}
  <2>1. PICK k \in Slots(order) : o = Slot(order, k) /\ o \in found
    BY <1>1 DEF Met
  <2> QED BY <1>1, <2>1, SlotIsOfOne
<1>2. ASSUME o \in found, NEW i \in 1 .. Len(order), order[i] \in found,
             o \in {order[i], Infra[order[i]], Bootstrap[order[i]]}
      PROVE  o \in Met(order)
  BY <1>2, SlotsOfOne DEF Met
<1>3. ASSUME o \in found, o = TheCluster
      PROVE  o \in Met(order)
  <2>1. 3 * Len(order) + 1 \in Slots(order) /\ Slot(order, 3 * Len(order) + 1) = TheCluster
    BY DEF Slots, Slot
  <2> QED BY <1>3, <2>1 DEF Met
<1>4. o \in Met(order) => o \in found
  BY DEF Met
<1> QED BY <1>1, <1>2, <1>3, <1>4

\* Where a contributor o puts z among the three it brings.
Turn(o, z) == IF z = o THEN 0 ELSE IF z = Infra[o] THEN 1 ELSE 2

\* Of two objects that one contributor brings, the one whose turn is first is met
\* first, if nothing else brings the other.
LEMMA TurnDecides ==
    ASSUME NEW order, Len(order) \in Nat, None \notin found,
           NEW o, NEW x \in {o, Infra[o], Bootstrap[o]},
           NEW y \in Met(order), y # TheCluster, x \in Met(order),
           \A i \in 1 .. Len(order) :
              y \in {order[i], Infra[order[i]], Bootstrap[order[i]]} => order[i] = o,
           Turn(o, x) < Turn(o, y)
    PROVE  Place(order, x) < Place(order, y)
<1> DEFINE k == Place(order, y)
<1>1. k \in Slots(order) /\ Slot(order, k) = y /\ y # None
  BY PlaceIsASlot DEF Met
<1>2. PICK i \in 1 .. Len(order) :
         /\ order[i] \in found
         /\ \/ k = 3 * i - 2 /\ y = order[i]
            \/ k = 3 * i - 1 /\ y = Infra[order[i]]
            \/ k = 3 * i /\ y = Bootstrap[order[i]]
  <2> HIDE DEF k
  <2> QED BY <1>1, SlotIsOfOne
<1>3. order[i] = o
  BY <1>2
<1>4. 3 * i - 2 + Turn(o, y) <= k
  <2> HIDE DEF k
  <2> QED BY <1>2, <1>3 DEF Turn
<1> DEFINE j == 3 * i - 2 + Turn(o, x)
<1>5. j \in Slots(order) /\ Slot(order, j) = x
  <2>1. CASE x = o
    BY <1>2, <1>3, <2>1, SlotsOfOne DEF Turn
  <2>2. CASE x # o /\ x = Infra[o]
    <3>1. j = 3 * i - 1
      BY <2>2 DEF Turn
    <3> QED BY <1>2, <1>3, <2>2, <3>1, SlotsOfOne
  <2>3. CASE x # o /\ x # Infra[o]
    <3>1. j = 3 * i
      BY <2>3 DEF Turn
    <3> QED BY <1>2, <1>3, <2>3, <3>1, SlotsOfOne
  <2> QED BY <2>1, <2>2, <2>3
<1>6. Place(order, x) \in Nat /\ Place(order, x) <= j
  <2> HIDE DEF j
  <2> QED BY <1>5, FirstPlace
<1>7. Turn(o, x) \in Nat /\ Turn(o, y) \in Nat /\ k \in Nat
  BY <1>1 DEF Turn, Slots
<1> QED BY <1>4, <1>6, <1>7

\* An order lists what the list it is an order of lists.
LEMMA OrdersListTheSame ==
    ASSUME NEW s \in Seq(Object), NEW q \in Orders(s)
    PROVE  /\ Len(q) = Len(s) /\ Len(q) \in Nat
           /\ {q[i] : i \in 1 .. Len(q)} = {s[i] : i \in 1 .. Len(s)}
<1> DEFINE R == {s[i] : i \in 1 .. Len(s)}
           S == 1 .. Len(s)
           f == [i \in S |-> s[i]]
<1>1. q \in [S -> R] /\ \A i, j \in S : q[i] = q[j] => i = j
  BY DEF Orders
<1>2. Len(s) \in Nat /\ Len(q) = Len(s)
  <2> HIDE DEF R
  <2>1. Len(s) \in Nat
    OBVIOUS
  <2>2. q \in Seq(R) /\ Len(q) = Len(s)
    BY <1>1, <2>1
  <2> QED BY <2>1, <2>2
<1>3. IsFiniteSet(S) /\ Cardinality(S) = Len(s)
  <2>1. /\ IsFiniteSet(1 .. Len(s))
        /\ Cardinality(1 .. Len(s)) = IF 1 > Len(s) THEN 0 ELSE Len(s) - 1 + 1
    <3>1. 1 \in Int /\ Len(s) \in Int
      BY <1>2
    <3> QED BY <3>1, FS_Interval, Zenon
  <2>2. (IF 1 > Len(s) THEN 0 ELSE Len(s) - 1 + 1) = Len(s)
    BY <1>2
  <2> QED BY <2>1, <2>2
<1>4. f \in Surjection(S, R)
  BY DEF Surjection
<1>5. q \in Injection(S, R)
  BY <1>1 DEF Injection, IsInjective
<1> HIDE DEF f, R, S
<1>6. IsFiniteSet(R) /\ Cardinality(R) <= Cardinality(S)
  BY <1>3, <1>4, FS_Surjection
<1>7. Cardinality(S) <= Cardinality(R) /\ (Cardinality(S) = Cardinality(R) <=> q \in Surjection(S, R))
  BY <1>5, <1>6, FS_Injection
<1>8. Cardinality(S) \in Nat /\ Cardinality(R) \in Nat
  BY <1>3, <1>6, FS_CardinalityType
<1>9. q \in Surjection(S, R)
  BY <1>6, <1>7, <1>8
<1>10. \A r \in R : \E i \in S : q[i] = r
  BY <1>9 DEF Surjection
<1>11. {q[i] : i \in S} = R
  BY <1>1, <1>10
<1> QED BY <1>2, <1>11 DEF R, S

-----------------------------------------------------------------------------
(* The theorems.                                                           *)

\* The lists the ranking is given are sequences of objects.
LEMMA ContributorsAreLists ==
    ASSUME phase \in 1 .. 4
    PROVE  Contributors[phase] \in Seq(Object) /\ Len(Contributors[phase]) \in Nat
BY WhyAssumption

\* The one that is named is a candidate, and none comes before it.
LEMMA TheOneNamed ==
    ASSUME Readable, Named
    PROVE  LET all == collect(Contributors[phase])
           IN  /\ Blamed \in all /\ Blamed \in Condition
               /\ \A d \in all : ~Less(Key(d, all), Key(Blamed, all))
<1> DEFINE order == Contributors[phase]
           all == collect(order)
<1>1. phase \in 1 .. 4 /\ all # {}
  BY DEF Named
<1>2. Blamed \in all /\ Wins(Blamed, order)
  BY <1>1, ContributorsAreLists, WinnerWins DEF Blamed
<1>3. Blamed \in Condition
  BY <1>2, Collected
<1>4. ASSUME NEW d \in all
      PROVE  ~Less(Key(d, all), Key(Blamed, all))
  <2>1. Key(d, all) \in KeyRecord /\ Key(Blamed, all) \in KeyRecord
    BY <1>3, Collected, KeyType
  <2> QED BY <1>2, <2>1, LessIsAStrictWeakOrder DEF Wins
<1> QED BY <1>2, <1>3, <1>4

\* TypeOK without what it says of the answer, and nothing that is not in the
\* envelope is False.
IInv ==
    /\ phase \in 1 .. 5
    /\ running \in RunningIn(phase)
    /\ found \subseteq Object
    /\ cond \in [Condition -> Report]
    /\ \A c \in Condition : cond[c].at <= now
    /\ now \in Nat \ {0}
    /\ changes \in 0 .. MaxChanges

\* What a condition can say.
LEMMA SaidIsAReport ==
    ASSUME NEW status \in {"absent", "Unknown", "True", "False"}, NEW t \in Nat
    PROVE  Said(status, t) \in Report /\ Said(status, t).at = t
BY DEF Said, Report, TypeNames

\* Init => IInv.
LEMMA InitIInv == Init => IInv
<1> SUFFICES ASSUME Init PROVE IInv OBVIOUS
<1>1. PICK failing \in {{}, Object} :
        cond = [c \in Condition |-> Said(IF c[1] \in failing THEN "False" ELSE "True", 1)]
  BY DEF Init
<1>2. \A c \in Condition : cond[c] \in Report /\ cond[c].at = 1
  BY <1>1, SaidIsAReport
<1>3. cond \in [Condition -> Report]
  BY <1>1, <1>2
<1> QED BY <1>2, <1>3, WhyAssumption DEF Init, IInv

\* IInv /\ [Next]_vars => IInv'.
LEMMA NextIInv == IInv /\ [Next]_vars => IInv'
<1> SUFFICES ASSUME IInv, [Next]_vars PROVE IInv'
  OBVIOUS
<1>1. Change => changes' \in 0 .. MaxChanges /\ now' = now
  BY WhyAssumption DEF IInv, Change
<1>2. ASSUME NEW c \in Condition, Flip(c) PROVE IInv'
  <2>1. PICK status \in {"Unknown", "True", "False"},
             waits \in {d[2] : d \in {e \in Condition : e[1] = c[1]}} \cup {NoType} :
          cond' = [cond EXCEPT ![c] = [Said(status, now) EXCEPT !.waits = waits]]
    BY <1>2 DEF Flip
  <2>2. waits \in TypeNames
    BY DEF TypeNames
  <2> DEFINE r == [Said(status, now) EXCEPT !.waits = waits]
  <2>3. r \in Report /\ r.at = now
    BY <2>2 DEF Said, Report, IInv, TypeNames
  <2>4. cond' \in [Condition -> Report] /\ \A d \in Condition : cond'[d].at <= now
    <3> HIDE DEF r
    <3>1. cond' = [cond EXCEPT ![c] = r]
      BY <2>1 DEF r
    <3> QED BY <2>3, <3>1 DEF IInv
  <2> QED BY <1>1, <1>2, <2>4 DEF IInv, Flip
<1>3. ASSUME NEW c \in Condition, Elaborate(c) PROVE IInv'
  <2>1. PICK r \in Report : cond' = [cond EXCEPT ![c] = r] /\ r.at <= now
    <3>1. cond[c] \in Report /\ cond[c].at <= now
      BY DEF IInv
    <3>2. CASE cond' = [cond EXCEPT ![c].severity = "Error"]
      <4>1. [cond[c] EXCEPT !.severity = "Error"] \in Report
        BY <3>1 DEF Report
      <4> QED BY <3>1, <3>2, <4>1 DEF Report
    <3>3. CASE cond' = [cond EXCEPT ![c].at = 0]
      <4>1. [cond[c] EXCEPT !.at = 0] \in Report /\ [cond[c] EXCEPT !.at = 0].at = 0
        BY <3>1 DEF Report
      <4>2. cond' = [cond EXCEPT ![c] = [cond[c] EXCEPT !.at = 0]]
        BY <3>3, Zenon DEF IInv
      <4>3. 0 <= now
        BY DEF IInv
      <4> QED BY <4>1, <4>2, <4>3
    <3>4. CASE cond' = [cond EXCEPT ![c].image = TRUE]
      <4>1. [cond[c] EXCEPT !.image = TRUE] \in Report
        BY <3>1 DEF Report
      <4> QED BY <3>1, <3>4, <4>1 DEF Report
    <3> QED BY <1>3, <3>2, <3>3, <3>4 DEF Elaborate
  <2>2. cond' \in [Condition -> Report] /\ \A d \in Condition : cond'[d].at <= now
    BY <2>1 DEF IInv
  <2> QED BY <1>1, <1>3, <2>2 DEF IInv, Elaborate
<1>4. ASSUME NEW o \in Object, Replace(o) PROVE IInv'
  <2>1. Said("absent", 0) \in Report /\ Said("absent", 0).at = 0
    BY SaidIsAReport
  <2>2. cond' \in [Condition -> Report] /\ \A d \in Condition : cond'[d].at <= now
    BY <1>4, <2>1 DEF Replace, IInv
  <2>3. found' \subseteq Object
    BY <1>4 DEF Replace, IInv
  <2> QED BY <1>1, <1>4, <2>2, <2>3 DEF IInv, Replace
<1>5. ASSUME BeginOrPend \/ Proceed PROVE IInv'
  <2>1. UNCHANGED <<found, cond>> /\ Change /\ phase' \in 1 .. 5
    BY <1>5 DEF BeginOrPend, Proceed, IInv
  <2>2. running' \in RunningIn(phase')
    BY <1>5 DEF BeginOrPend, Proceed
  <2>3. RunningIn(phase') = RunningIn(phase)'
    BY DEF RunningIn, Infrastructure, ControlPlane, Workers, Addons
  <2> QED BY <1>1, <2>1, <2>2, <2>3 DEF IInv
<1>6. ASSUME Tick PROVE IInv'
  <2>1. \A c \in Condition : cond'[c].at <= now'
    <3>1. \A c \in Condition : cond[c].at \in Nat
      BY DEF IInv, Report
    <3> QED BY <1>6, <3>1 DEF Tick, IInv
  <2> QED BY <1>6, <2>1 DEF Tick, IInv
<1>7. ASSUME UNCHANGED vars PROVE IInv'
  BY <1>7 DEF vars, IInv
<1> QED BY <1>2, <1>3, <1>4, <1>5, <1>6, <1>7 DEF Next

\* IInv is an invariant.
LEMMA Invariant == Spec => []IInv
BY InitIInv, NextIInv, PTL DEF Spec

\* The lemmas on the ranking apply to every reachable envelope.
LEMMA IInvReadable == IInv => Readable
BY DEF IInv, Readable

\* Every code the line can carry is of class Stall, and the age it gives is one the
\* cluster can have: a missing transition time counts as no age (why.go:238-244).
THEOREM WhyTypeOK == Spec => []TypeOK
<1>1. IInv => TypeOK
  <2> SUFFICES ASSUME IInv PROVE TypeOK
    OBVIOUS
  <2>1. ASSUME Named
        PROVE  Answer.says \in StallCodes
    <3>1. phase \in 1 .. 4
      BY <2>1 DEF Named
    <3>2. classify(Blamed) \in StallCodes
      BY <3>1 DEF classify, StallCodes, Infrastructure, ControlPlane, Workers, Addons
    <3> QED BY <2>1, <3>2 DEF Answer
  <2>2. ASSUME Named
        PROVE  Since(Blamed) \in 0 .. now - 1
    <3>1. Blamed \in Condition
      BY <2>2, IInvReadable, TheOneNamed
    <3>2. cond[Blamed].at \in Nat /\ cond[Blamed].at <= now /\ now \in Nat \ {0}
      BY <3>1 DEF IInv, Report
    <3> QED BY <3>2 DEF Since
  <2> QED BY <2>1, <2>2 DEF TypeOK, IInv
<1> QED BY <1>1, Invariant, PTL

\* The condition named waits for another that fails only if all of its peers on
\* that object do (why.go:38-42): one that did not would come before it.
THEOREM WhyRootOfTheWaits == Spec => []RootOfTheWaits
<1>1. IInv => RootOfTheWaits
  <2> SUFFICES ASSUME IInv, Named,
                      NEW all, all = collect(Contributors[phase]),
                      waitsFor(Blamed, all),
                      NEW d \in Failing(Blamed[1]),
                      d[2] \in summaryConditions <=> Blamed[2] \in summaryConditions
               PROVE  waitsFor(d, all)
    BY DEF RootOfTheWaits
  <2>1. /\ Blamed \in all /\ Blamed \in Condition
        /\ \A e \in all : ~Less(Key(e, all), Key(Blamed, all))
    BY IInvReadable, TheOneNamed
  <2>2. d \in Condition /\ d[1] = Blamed[1]
    BY DEF Failing
  <2>3. d \in all
    <3>1. Blamed[1] \in Met(Contributors[phase])
      BY <2>1, Collected
    <3> QED BY <3>1 DEF collect
  <2>4. Key(d, all) \in KeyRecord /\ Key(Blamed, all) \in KeyRecord
    BY <2>1, <2>2, IInvReadable, KeyType
  <2>5. ASSUME ~waitsFor(d, all) PROVE FALSE
    <3>1. Agree(Key(d, all), Key(Blamed, all), 2) /\ ~Key(d, all).waits /\ Key(Blamed, all).waits
      BY <2>2, <2>5 DEF Agree, Key
    <3>2. Less(Key(d, all), Key(Blamed, all))
      BY <2>4, <3>1, FirstDifferenceDecides
    <3> QED BY <2>1, <2>3, <3>2
  <2> QED BY <2>5
<1> QED BY <1>1, Invariant, PTL

\* The reason given for each loser is the first key on which it differs from the
\* one named (why.go:104, 271-293), for every cluster and every envelope.
THEOREM WhyLossesAreExplained == Spec => []LossesAreExplained
<1>1. IInv => LossesAreExplained
  <2> SUFFICES ASSUME IInv, Named,
                      NEW all, all = collect(Contributors[phase]),
                      NEW d \in all \ {Blamed}
               PROVE  LET loser == Key(d, all)
                          win == Key(Blamed, all)
                      IN  \E r \in 1 .. 6 :
                            /\ LostTo(loser, win) = Rules[r]
                            /\ \A j \in 1 .. r - 1 : loser[Keys[j]] = win[Keys[j]]
                            /\ loser[Keys[r]] # win[Keys[r]] \/ r = 6
    BY DEF LossesAreExplained
  <2>1. /\ Blamed \in all /\ Blamed \in Condition
        /\ \A e \in all : ~Less(Key(e, all), Key(Blamed, all))
    BY IInvReadable, TheOneNamed
  <2>2. Key(d, all) \in KeyRecord /\ Key(Blamed, all) \in KeyRecord
    BY <2>1, IInvReadable, Collected, KeyType
  <2> QED BY <2>1, <2>2, LostToNamesTheKey
<1> QED BY <1>1, Invariant, PTL

\* The last transition of a phase is no earlier than any that its clock reads.
LEMMA LastTransitionIsLast ==
    ASSUME IInv, NEW p \in 1 .. 4, NEW c \in OnTheClock(p)
    PROVE  LastTransition(p) \in Nat /\ cond[c].at <= LastTransition(p)
<1> DEFINE times == {cond[d].at : d \in OnTheClock(p)} \cup {0}
           before == {now - t : t \in times}
<1>1. \A d \in OnTheClock(p) : cond[d].at \in Nat /\ cond[d].at <= now
  <2>1. \A d \in OnTheClock(p) : d \in Condition
    BY DEF OnTheClock
  <2> QED BY <2>1 DEF IInv, Report
<1>2. now \in Nat
  BY DEF IInv
<1>3. \A t \in times : t \in Nat /\ t <= now
  BY <1>1, <1>2
<1>4. \E t \in times : \A u \in times : u <= t
  <2> HIDE DEF times
  <2>1. before # {} /\ before \subseteq Nat
    <3>1. times # {}
      BY DEF times
    <3> QED BY <1>2, <1>3, <3>1
  <2>2. PICK n \in before : \A k \in before : n <= k
    BY <2>1, Least
  <2>3. PICK t \in times : n = now - t
    BY <2>2
  <2>4. \A u \in times : now - t <= now - u
    BY <2>2, <2>3
  <2>5. \A u \in times : u <= t
    BY <1>2, <1>3, <2>4
  <2> QED BY <2>5
<1>5. LastTransition(p) = CHOOSE t \in times : \A u \in times : u <= t
  BY DEF LastTransition
<1>6. LastTransition(p) \in times /\ \A u \in times : u <= LastTransition(p)
  <2> HIDE DEF times
  <2> QED BY <1>4, <1>5
<1>7. cond[c].at \in times
  OBVIOUS
<1> QED BY <1>3, <1>6, <1>7

\* What is met is the Cluster, a contributor, or what a contributor's references name.
LEMMA MetIsOfTheContributors ==
    ASSUME IInv, NEW p \in 1 .. 4, NEW o \in Met(Contributors[p])
    PROVE  \/ o = TheCluster
           \/ o \in {Bootstrap[q] : q \in Object}
           \/ o \in Watched[p] \cap found
<1> DEFINE order == Contributors[p]
<1>1. order \in Seq(Object) /\ Len(order) \in Nat
  BY WhyAssumption
<1>2. PICK k \in Slots(order) : o = Slot(order, k) /\ o \in found
  BY DEF Met
<1>3. CASE k = 3 * Len(order) + 1
  BY <1>2, <1>3 DEF Slot
<1>4. CASE k # 3 * Len(order) + 1
  <2> DEFINE i == (k + 2) \div 3
             q == order[i]
  <2>1. i \in 1 .. Len(order)
    BY <1>1, <1>4 DEF Slots
  <2>2. q \in Object
    BY <1>1, <2>1
  <2>3. q \in Watched[p] /\ (Infra[q] # None => Infra[q] \in Watched[p])
    BY <2>1, ClockAssumption
  <2>4. k % 3 = 0 \/ k % 3 = 1 \/ k % 3 = 2
    BY <1>1 DEF Slots
  <2>5. o = IF q \notin found THEN None
            ELSE CASE k % 3 = 1 -> q [] k % 3 = 2 -> Infra[q] [] k % 3 = 0 -> Bootstrap[q]
    BY <1>2, <1>4 DEF Slot
  <2>6. o # None
    BY <1>2, WhyAssumption DEF IInv
  <2> HIDE DEF q
  <2>7. CASE k % 3 = 1
    BY <1>2, <2>3, <2>5, <2>6, <2>7
  <2>8. CASE k % 3 = 2
    BY <1>2, <2>3, <2>5, <2>6, <2>8
  <2>9. CASE k % 3 = 0
    BY <1>2, <2>2, <2>5, <2>6, <2>9
  <2> QED BY <2>4, <2>7, <2>8, <2>9
<1> QED BY <1>3, <1>4

\* A stall is as old as it says, for every cluster whose phases read the conditions
\* of their contributors and of the contributors' infrastructure.
THEOREM WhyStallIsAsOldAsItSays == Spec => []StallIsAsOldAsItSays
<1>1. IInv => StallIsAsOldAsItSays
  <2> SUFFICES ASSUME IInv, Stalled, Named, cond[Blamed].at # 0,
                      Blamed[1] # TheCluster,
                      Blamed[1] \notin {Bootstrap[o] : o \in Object}
               PROVE  Since(Blamed) > StallAfter
    BY DEF StallIsAsOldAsItSays
  <2>1. phase \in 1 .. 4
    BY DEF Named
  <2>2. Blamed \in Condition /\ Blamed[1] \in Met(Contributors[phase])
    BY IInvReadable, TheOneNamed, Collected
  <2>3. Blamed \in OnTheClock(phase)
    BY <2>1, <2>2, MetIsOfTheContributors DEF OnTheClock
  <2>4. LastTransition(phase) \in Nat /\ cond[Blamed].at <= LastTransition(phase)
    BY <2>1, <2>3, LastTransitionIsLast
  <2>5. cond[Blamed].at \in Nat /\ now \in Nat
    BY <2>2 DEF IInv, Report
  <2>6. now - LastTransition(phase) > StallAfter /\ StallAfter \in Nat
    BY WhyAssumption DEF Stalled
  <2>7. Since(Blamed) = now - cond[Blamed].at
    BY DEF Since
  <2>8. \A n, t, u, s \in Nat : t <= u /\ n - u > s => n - t > s
    OBVIOUS
  <2> QED BY <2>4, <2>5, <2>6, <2>7, <2>8
<1> QED BY <1>1, Invariant, PTL

\* What is met in a phase is the Cluster or what a contributor brings.
LEMMA MetIsBrought ==
    ASSUME None \notin found, phase \in 1 .. 4, NEW x \in Met(Contributors[phase])
    PROVE  x \in {TheCluster} \cup
                UNION {{o, Infra[o], Bootstrap[o]} \ {None} :
                          o \in {Contributors[phase][i] : i \in 1 .. Len(Contributors[phase])}}
<1>1. Len(Contributors[phase]) \in Nat
  BY WhyAssumption
<1>2. x # None
  BY DEF Met
<1> QED BY <1>1, <1>2, MetIs

\* Two different objects that are met in a phase and share their rank and name come
\* with one contributor alone.
LEMMA TiesComeTogether ==
    ASSUME None \notin found, phase \in 1 .. 4,
           NEW x \in Met(Contributors[phase]), NEW y \in Met(Contributors[phase]), x # y,
           specificity(Kind[x]) = specificity(Kind[y]), Name[x] = Name[y]
    PROVE  \E o : \A z \in {x, y} :
              /\ z # TheCluster /\ z \in {o, Infra[o], Bootstrap[o]}
              /\ \A i \in 1 .. Len(Contributors[phase]) :
                    z \in {Contributors[phase][i], Infra[Contributors[phase][i]],
                           Bootstrap[Contributors[phase][i]]} => Contributors[phase][i] = o
<1> DEFINE cs == {Contributors[phase][i] : i \in 1 .. Len(Contributors[phase])}
           brought(o) == {o, Infra[o], Bootstrap[o]} \ {None}
<1>1. /\ x \in {TheCluster} \cup UNION {brought(o) : o \in cs}
      /\ y \in {TheCluster} \cup UNION {brought(o) : o \in cs}
  BY MetIsBrought
<1>2. PICK o \in cs : \A z \in {x, y} :
                       /\ z \in brought(o) \ {TheCluster}
                       /\ \A m \in cs : z \in brought(m) => m = o
  <2> HIDE DEF cs
  <2>1. \A u, v \in {TheCluster} \cup UNION {brought(o) : o \in cs} :
               (u # v /\ Name[u] = Name[v] /\ specificity(Kind[u]) = specificity(Kind[v])) =>
                   \E o \in cs : \A z \in {u, v} :
                       /\ z \in brought(o) \ {TheCluster}
                       /\ \A m \in cs : z \in brought(m) => m = o
    BY NamesAssumption, Zenon DEF cs
  <2> HIDE DEF brought
  <2> QED BY <1>1, <2>1, Zenon
<1>3. x # None /\ y # None
  BY DEF Met
<1>4. \A i \in 1 .. Len(Contributors[phase]) : Contributors[phase][i] \in cs
  OBVIOUS
<1>5. ASSUME NEW z \in {x, y}
      PROVE  /\ z # TheCluster /\ z \in {o, Infra[o], Bootstrap[o]}
             /\ \A i \in 1 .. Len(Contributors[phase]) :
                   z \in {Contributors[phase][i], Infra[Contributors[phase][i]],
                          Bootstrap[Contributors[phase][i]]} => Contributors[phase][i] = o
  <2>1. z # None
    BY <1>3
  <2>2. z \in brought(o) \ {TheCluster} /\ \A m \in cs : z \in brought(m) => m = o
    BY <1>2
  <2>3. ASSUME NEW i \in 1 .. Len(Contributors[phase]),
               z \in {Contributors[phase][i], Infra[Contributors[phase][i]],
                      Bootstrap[Contributors[phase][i]]}
        PROVE  Contributors[phase][i] = o
    <3>1. z \in brought(Contributors[phase][i])
      BY <2>1, <2>3
    <3> HIDE DEF cs, brought
    <3> QED BY <1>4, <2>2, <3>1
  <2> QED BY <2>2, <2>3
<1> HIDE DEF cs, brought
<1> QED BY <1>5, Zenon

\* The line names the same condition in whatever order the contributors are listed
\* (why.go:171-189): what the keys leave tied comes with one contributor, which puts
\* it in the same order wherever it stands itself.
THEOREM WhyWinnerIsOrderFree == Spec => []WinnerIsOrderFree
<1>1. IInv => WinnerIsOrderFree
  <2> SUFFICES ASSUME IInv, Named, NEW q \in Orders(Contributors[phase])
               PROVE  Winner(q) = Blamed
    BY DEF WinnerIsOrderFree
  <2> DEFINE s == Contributors[phase]
             all == collect(s)
  <2>1. phase \in 1 .. 4 /\ all # {} /\ s \in Seq(Object) /\ Len(s) \in Nat /\ Readable
    BY ContributorsAreLists, IInvReadable DEF Named
  <2>2. Len(q) \in Nat /\ {q[i] : i \in 1 .. Len(q)} = {s[i] : i \in 1 .. Len(s)}
    BY <2>1, OrdersListTheSame
  <2>3. None \notin found
    BY WhyAssumption DEF IInv
  <2>4. Met(q) = Met(s)
    <3>1. /\ \A i \in 1 .. Len(q) : \E j \in 1 .. Len(s) : q[i] = s[j]
          /\ \A j \in 1 .. Len(s) : \E i \in 1 .. Len(q) : q[i] = s[j]
      BY <2>2
    <3>2. ASSUME NEW x PROVE x \in Met(q) <=> x \in Met(s)
      <4> HIDE DEF s
      <4>1. /\ x \in Met(q) <=>
                  /\ x \in found
                  /\ \/ x = TheCluster
                     \/ \E i \in 1 .. Len(q) :
                           /\ q[i] \in found /\ x \in {q[i], Infra[q[i]], Bootstrap[q[i]]}
            /\ x \in Met(s) <=>
                  /\ x \in found
                  /\ \/ x = TheCluster
                     \/ \E i \in 1 .. Len(s) :
                           /\ s[i] \in found /\ x \in {s[i], Infra[s[i]], Bootstrap[s[i]]}
        BY <2>1, <2>2, <2>3, MetIs
      <4> QED BY <3>1, <4>1
    <3> QED BY <3>2
  <2>5. collect(q) = all
    BY <2>4 DEF collect
  <2>6. Blamed \in all /\ Wins(Blamed, s)
    BY <2>1, WinnerWins DEF Blamed
  <2>7. ASSUME NEW d \in all \ {Blamed}
        PROVE  \/ Less(Key(Blamed, all), Key(d, all))
               \/ ~Less(Key(d, all), Key(Blamed, all)) /\ CollectedBefore(q, Blamed, d)
    <3> DEFINE x == Blamed[1]
               y == d[1]
    <3> SUFFICES ASSUME ~Less(Key(Blamed, all), Key(d, all))
                 PROVE  ~Less(Key(d, all), Key(Blamed, all)) /\ CollectedBefore(q, Blamed, d)
      OBVIOUS
    <3>1. ~Less(Key(d, all), Key(Blamed, all)) /\ CollectedBefore(s, Blamed, d)
      BY <2>6, <2>7, Zenon DEF Wins
    <3>2. x \in Met(s) /\ y \in Met(s) /\ Blamed \in Condition /\ d \in Condition
      BY <2>6, Collected
    <3>3. CASE x = y
      BY <3>1, <3>3 DEF CollectedBefore
    <3>4. CASE x # y
      <4>1. specificity(Kind[x]) = specificity(Kind[y]) /\ Name[x] = Name[y]
        <5>1. Key(Blamed, all) \in KeyRecord /\ Key(d, all) \in KeyRecord
          BY <2>1, <3>2, KeyType
        <5>2. \A a, b \in KeyRecord : ~Less(a, b) /\ ~Less(b, a) =>
                                         a.specificity = b.specificity /\ a.name = b.name
          BY DEF Less, KeyRecord
        <5>3. /\ Key(Blamed, all).specificity = Key(d, all).specificity
              /\ Key(Blamed, all).name = Key(d, all).name
          BY <3>1, <5>1, <5>2, Zenon
        <5> QED BY <5>3 DEF Key
      <4>2. PICK o : \A z \in {x, y} :
              /\ z # TheCluster /\ z \in {o, Infra[o], Bootstrap[o]}
              /\ \A i \in 1 .. Len(s) : z \in {s[i], Infra[s[i]], Bootstrap[s[i]]} => s[i] = o
        <5> HIDE DEF x, y
        <5> QED BY <2>1, <2>3, <3>2, <3>4, <4>1, TiesComeTogether
      <4>3. \A z \in {x, y} :
              \A i \in 1 .. Len(q) : z \in {q[i], Infra[q[i]], Bootstrap[q[i]]} => q[i] = o
        <5>1. \A i \in 1 .. Len(q) : \E j \in 1 .. Len(s) : q[i] = s[j]
          BY <2>2
        <5> HIDE DEF s, x, y
        <5> QED BY <4>2, <5>1
      <4>4. Turn(o, x) # Turn(o, y) /\ Turn(o, x) \in Nat /\ Turn(o, y) \in Nat
        BY <3>4, <4>2 DEF Turn
      <4>5. x \in {o, Infra[o], Bootstrap[o]} /\ y \in {o, Infra[o], Bootstrap[o]}
            /\ x # TheCluster /\ y # TheCluster
        BY <4>2
      <4>6. Place(s, x) < Place(s, y) /\ Place(s, x) \in Int /\ Place(s, y) \in Int
        <5>1. Place(s, x) < Place(s, y)
          BY <3>1, <3>4 DEF CollectedBefore
        <5>2. Place(s, x) \in Slots(s) /\ Place(s, y) \in Slots(s)
          BY <2>1, <3>2, PlaceIsASlot
        <5> QED BY <5>1, <5>2 DEF Slots
      <4>7. ~(Turn(o, y) < Turn(o, x))
        <5>1. ASSUME Turn(o, y) < Turn(o, x)
              PROVE  Place(s, y) < Place(s, x)
          <6> HIDE DEF s, x, y
          <6> QED BY <2>1, <2>3, <3>2, <4>2, <4>5, <5>1, TurnDecides
        <5> QED BY <4>6, <5>1
      <4>8. Place(q, x) < Place(q, y)
        <5>1. Turn(o, x) < Turn(o, y)
          BY <4>4, <4>7
        <5>2. x \in Met(q) /\ y \in Met(q)
          BY <2>4, <3>2
        <5> HIDE DEF s, x, y
        <5> QED BY <2>2, <2>3, <4>3, <4>5, <5>1, <5>2, TurnDecides
      <4> QED BY <3>1, <3>4, <4>8 DEF CollectedBefore
    <3> QED BY <3>3, <3>4
  <2>8. Wins(Blamed, q)
    BY <2>5, <2>7 DEF Wins
  <2> QED BY <2>1, <2>2, <2>5, <2>6, <2>8, WinnerWins
<1> QED BY <1>1, Invariant, PTL

-----------------------------------------------------------------------------
(* A change of the blame.                                                  *)

\* What is named wins, alone, and every candidate has a key.
LEMMA BlamedWins ==
    IInv /\ Named =>
        LET all == collect(Contributors[phase])
        IN  /\ Blamed \in all /\ Wins(Blamed, Contributors[phase])
            /\ \A c \in all : c \in Condition /\ Key(c, all) \in KeyRecord
<1> SUFFICES ASSUME IInv, Named
             PROVE  LET all == collect(Contributors[phase])
                    IN  /\ Blamed \in all /\ Wins(Blamed, Contributors[phase])
                        /\ \A c \in all : c \in Condition /\ Key(c, all) \in KeyRecord
  OBVIOUS
<1>1. /\ Len(Contributors[phase]) \in Nat /\ Readable
      /\ collect(Contributors[phase]) # {}
  BY ContributorsAreLists, IInvReadable DEF Named
<1>2. Blamed \in collect(Contributors[phase]) /\ Wins(Blamed, Contributors[phase])
  BY <1>1, WinnerWins DEF Blamed
<1>3. \A c \in collect(Contributors[phase]) :
         c \in Condition /\ Key(c, collect(Contributors[phase])) \in KeyRecord
  BY <1>1, Collected, KeyType
<1> QED BY <1>2, <1>3

\* What is named is a candidate.
LEMMA BlamedIsACandidate ==
    IInv /\ Named => Blamed \in collect(Contributors[phase]) /\ Blamed \in Condition
BY BlamedWins

\* a2 and b2 are a and b after a change that makes a wait no more and b no less than
\* before: a stays as far ahead as it was.
LEMMA StaysAhead ==
    ASSUME NEW a \in KeyRecord, NEW a2 \in KeyRecord, NEW b \in KeyRecord, NEW b2 \in KeyRecord,
           a2 = [a EXCEPT !.waits = a2.waits], a2.waits => a.waits,
           b2 = [b EXCEPT !.waits = b2.waits], b.waits => b2.waits
    PROVE  /\ Less(a, b) => Less(a2, b2)
           /\ ~Less(b, a) => ~Less(b2, a2)
<1>1. /\ a2.specificity = a.specificity /\ a2.summary = a.summary /\ a2.at = a.at
      /\ a2.severity = a.severity /\ a2.name = a.name
  BY DEF KeyRecord
<1>2. /\ b2.specificity = b.specificity /\ b2.summary = b.summary /\ b2.at = b.at
      /\ b2.severity = b.severity /\ b2.name = b.name
  BY DEF KeyRecord
<1>3. Less(a, b) => Less(a2, b2)
  BY <1>1, <1>2 DEF Less, KeyRecord
<1>4. Less(b2, a2) => Less(b, a)
  BY <1>1, <1>2 DEF Less, KeyRecord
<1> QED BY <1>3, <1>4

\* What is met, and in which order it is collected, is read from found alone.
LEMMA SamePlaces ==
    ASSUME UNCHANGED found, NEW order
    PROVE  /\ Met(order)' = Met(order)
           /\ \A c, d : CollectedBefore(order, c, d)' <=> CollectedBefore(order, c, d)
<1>1. \A k : Slot(order, k)' = Slot(order, k)
  BY DEF Slot
<1>2. Met(order)' = Met(order)
  BY <1>1 DEF Met
<1>3. \A o : Place(order, o)' = Place(order, o)
  BY <1>1, Zenon DEF Place
<1>4. ASSUME NEW c, NEW d
      PROVE  CollectedBefore(order, c, d)' <=> CollectedBefore(order, c, d)
  BY <1>3 DEF CollectedBefore
<1> QED BY <1>2, <1>4

\* The blame stays where it is when it can, and when neither what is blamed nor what
\* would be says anything new, or comes to be behind by what it waits for.
LEMMA BlameStays ==
    ASSUME IInv, IInv', Named, Named', UNCHANGED <<phase, found>>,
           NEW B, B = Blamed, NEW W, W = Blamed',
           W \in collect(Contributors[phase]), B \in collect(Contributors[phase])',
           cond'[B] = cond[B], cond'[W] = cond[W],
           waitsFor(B, collect(Contributors[phase]))' => waitsFor(B, collect(Contributors[phase])),
           waitsFor(W, collect(Contributors[phase])) => waitsFor(W, collect(Contributors[phase]))'
    PROVE  W = B
<1> SUFFICES ASSUME W # B PROVE FALSE
  OBVIOUS
<1> DEFINE s == Contributors[phase]
           all == collect(s)
<1>1. /\ B \in all /\ Wins(B, s)
      /\ \A c \in all : c \in Condition /\ Key(c, all) \in KeyRecord
  BY BlamedWins
<1>2. /\ W \in all' /\ Wins(W, s)'
      /\ \A c \in all' : c \in Condition /\ Key(c, all)' \in KeyRecord
  <2>1. (IInv /\ Named =>
          /\ Blamed \in all /\ Wins(Blamed, s)
          /\ \A c \in all : c \in Condition /\ Key(c, all) \in KeyRecord)'
    BY BlamedWins, PTL
  <2> QED BY <2>1
<1> DEFINE a == Key(B, all)
           b == Key(W, all)
           a2 == Key(B, all)'
           b2 == Key(W, all)'
<1>3. a \in KeyRecord /\ b \in KeyRecord /\ a2 \in KeyRecord /\ b2 \in KeyRecord
  BY <1>1, <1>2
<1>4. /\ a2 = [a EXCEPT !.waits = a2.waits] /\ (a2.waits => a.waits)
      /\ b2 = [b EXCEPT !.waits = b2.waits] /\ (b.waits => b2.waits)
  BY DEF Key
<1>5. (Less(a, b) => Less(a2, b2)) /\ (~Less(b, a) => ~Less(b2, a2))
  <2> HIDE DEF a, b, a2, b2
  <2> QED BY <1>3, <1>4, StaysAhead
<1>6. Less(a, b) \/ (~Less(b, a) /\ CollectedBefore(s, B, W))
  BY <1>1, Zenon DEF Wins
<1>7. Less(b2, a2) \/ (~Less(a2, b2) /\ CollectedBefore(s, W, B)')
  BY <1>2, Zenon DEF Wins
<1>8. ~(Less(a2, b2) /\ Less(b2, a2))
  BY <1>3, LessIsAStrictWeakOrder
<1>9. CollectedBefore(s, B, W) /\ CollectedBefore(s, W, B)'
  BY <1>5, <1>6, <1>7, <1>8
<1>10. CollectedBefore(s, W, B)' => CollectedBefore(s, W, B)
  <2>1. s' = s
    OBVIOUS
  <2> QED BY SamePlaces
<1>11. Len(s) \in Nat
  BY ContributorsAreLists DEF Named
<1> QED BY <1>1, <1>9, <1>10, <1>11, CollectedOnce

\* One condition at a time changes its status.
LEMMA OneFlips ==
    ASSUME IInv, Next, UNCHANGED <<phase, found>>,
           NEW c \in Condition, cond'[c].status # cond[c].status,
           NEW d \in Condition, d # c
    PROVE  cond'[d] = cond[d]
<1>1. cond \in [Condition -> Report]
  BY DEF IInv
<1>2. ASSUME NEW e \in Condition, Flip(e) PROVE cond'[d] = cond[d]
  <2>1. \A f \in Condition \ {e} : cond'[f] = cond[f]
    BY <1>1, <1>2 DEF Flip
  <2> QED BY <2>1
<1>3. ASSUME NEW e \in Condition, Elaborate(e) PROVE FALSE
  <2>1. \A f \in Condition \ {e} : cond'[f] = cond[f]
    BY <1>1, <1>3 DEF Elaborate
  <2>2. cond'[e].status = cond[e].status
    <3>1. cond[e] \in Report
      BY <1>1
    <3>2. CASE cond' = [cond EXCEPT ![e].severity = "Error"]
      BY <1>1, <3>1, <3>2 DEF Report
    <3>3. CASE cond' = [cond EXCEPT ![e].at = 0]
      BY <1>1, <3>1, <3>3 DEF Report
    <3>4. CASE cond' = [cond EXCEPT ![e].image = TRUE]
      BY <1>1, <3>1, <3>4 DEF Report
    <3> QED BY <1>3, <3>2, <3>3, <3>4 DEF Elaborate
  <2> QED BY <2>1, <2>2
<1>4. ASSUME NEW o \in Object, Replace(o) PROVE FALSE
  <2>1. (o \in found') <=> (o \notin found)
    BY <1>4 DEF Replace
  <2> QED BY <2>1
<1>5. ~Proceed
  BY DEF Proceed, IInv
<1>6. ~Tick /\ ~BeginOrPend
  BY DEF Tick, BeginOrPend
<1> QED BY <1>2, <1>3, <1>4, <1>5, <1>6 DEF Next

\* What is a candidate.
LEMMA Candidates ==
    ASSUME UNCHANGED <<phase, found>>, NEW x
    PROVE  /\ x \in collect(Contributors[phase]) <=>
                 /\ x \in Condition /\ x[1] \in Met(Contributors[phase])
                 /\ cond[x].status = "False" /\ x[2] \notin negativePolarity
           /\ x \in collect(Contributors[phase])' <=>
                 /\ x \in Condition /\ x[1] \in Met(Contributors[phase])
                 /\ cond'[x].status = "False" /\ x[2] \notin negativePolarity
<1>1. Met(Contributors[phase])' = Met(Contributors[phase])
  <2>1. Contributors[phase]' = Contributors[phase]
    OBVIOUS
  <2>2. \A order : Met(order)' = Met(order)
    BY SamePlaces
  <2> QED BY <2>1, <2>2
<1>2. x \in collect(Contributors[phase]) <=>
                 /\ x \in Condition /\ x[1] \in Met(Contributors[phase])
                 /\ cond[x].status = "False" /\ x[2] \notin negativePolarity
  BY DEF collect, Failing, IsFalse
<1>3. x \in collect(Contributors[phase])' <=>
                 /\ x \in Condition /\ x[1] \in Met(Contributors[phase])'
                 /\ cond'[x].status = "False" /\ x[2] \notin negativePolarity
  BY DEF collect, Failing, IsFalse
<1> QED BY <1>1, <1>2, <1>3

\* The blame moves for a reason (why.go:17-26, 43-55): a condition that changes its
\* status adds or removes one candidate at most, and of the keys of the others only
\* whether they wait, and only for it.
THEOREM WhyBlameMovesForAReason == Spec => BlameMovesForAReason
<1> DEFINE Reason ==
      (Named /\ Named' /\ UNCHANGED <<phase, found>>) =>
        \A c \in {d \in Condition : cond'[d].status # cond[d].status} :
            IF c[2] \in negativePolarity THEN Blamed' = Blamed
            ELSE IF cond'[c].status = "False"
            THEN \/ Blamed' \in {Blamed, c}
                 \/ Blamed[1] = c[1] /\ cond[Blamed].waits = c[2]
            ELSE (c # Blamed /\ cond[c].status = "False" /\ Blamed' # Blamed) =>
                    Blamed'[1] = c[1] /\ cond[Blamed'].waits = c[2]
<1>1. ASSUME IInv, IInv', Next PROVE Reason
  <2> SUFFICES ASSUME Named, Named', UNCHANGED <<phase, found>>,
                      NEW c \in Condition, cond'[c].status # cond[c].status,
                      NEW B, B = Blamed, NEW W, W = Blamed'
               PROVE  IF c[2] \in negativePolarity THEN W = B
                      ELSE IF cond'[c].status = "False"
                      THEN W \in {B, c} \/ (B[1] = c[1] /\ cond[B].waits = c[2])
                      ELSE (c # B /\ cond[c].status = "False" /\ W # B) =>
                              W[1] = c[1] /\ cond[W].waits = c[2]
    OBVIOUS
  <2> DEFINE all == collect(Contributors[phase])
             waits(x) == <<x[1], cond[x].waits>>
  <2>1. B \in all /\ B \in Condition /\ W \in all' /\ W \in Condition
    <3>1. Blamed \in all /\ Blamed \in Condition
      BY <1>1, BlamedIsACandidate
    <3>2. (IInv /\ Named => Blamed \in all /\ Blamed \in Condition)'
      BY BlamedIsACandidate, PTL
    <3> QED BY <1>1, <3>1, <3>2
  <2>2. \A d \in Condition : d # c => cond'[d] = cond[d]
    BY <1>1, OneFlips
  <2>3. \A x : /\ x \in all <=>
                    /\ x \in Condition /\ x[1] \in Met(Contributors[phase])
                    /\ cond[x].status = "False" /\ x[2] \notin negativePolarity
               /\ x \in all' <=>
                    /\ x \in Condition /\ x[1] \in Met(Contributors[phase])
                    /\ cond'[x].status = "False" /\ x[2] \notin negativePolarity
    BY Candidates
  <2>4. ASSUME B # c, W # c, W \in all, B \in all',
               waits(B) \in all' => waits(B) \in all, waits(W) \in all => waits(W) \in all'
        PROVE  W = B
    <3>1. cond'[B] = cond[B] /\ cond'[W] = cond[W]
      BY <2>1, <2>2, <2>4
    <3>2. waitsFor(B, all)' => waitsFor(B, all)
      BY <2>4, <3>1 DEF waitsFor
    <3>3. waitsFor(W, all) => waitsFor(W, all)'
      BY <2>4, <3>1 DEF waitsFor
    <3> QED BY <1>1, <2>4, <3>1, <3>2, <3>3, BlameStays
  <2>5. CASE c[2] \in negativePolarity
    <3>1. c \notin all /\ c \notin all'
      BY <2>3, <2>5
    <3>2. \A x : x \in all <=> x \in all'
      BY <2>2, <2>3, <3>1
    <3> QED BY <2>1, <2>4, <2>5, <3>1, <3>2
  <2>6. CASE c[2] \notin negativePolarity /\ cond'[c].status = "False"
    <3>1. c \notin all
      BY <2>3, <2>6
    <3>2. \A x : /\ x \in all => x \in all'
                 /\ x \in all' => x \in all \cup {c}
      BY <2>2, <2>3, <3>1
    <3>3. ASSUME W # c, ~(B[1] = c[1] /\ cond[B].waits = c[2])
          PROVE  W = B
      <4>1. waits(B) # c
        BY <3>3
      <4> QED BY <2>1, <2>4, <3>1, <3>2, <3>3, <4>1
    <3> QED BY <2>6, <3>3
  <2>7. CASE c[2] \notin negativePolarity /\ cond'[c].status # "False"
    <3>1. c \notin all'
      BY <2>3, <2>7
    <3>2. \A x : /\ x \in all' => x \in all
                 /\ x \in all => x \in all' \cup {c}
      BY <2>2, <2>3, <3>1
    <3>3. ASSUME c # B, W # B
          PROVE  W[1] = c[1] /\ cond[W].waits = c[2]
      <4>1. waits(W) = c
        BY <2>1, <2>4, <3>1, <3>2, <3>3
      <4> QED BY <4>1
    <3> QED BY <2>7, <3>3
  <2> QED BY <2>5, <2>6, <2>7
<1>2. ASSUME UNCHANGED vars PROVE [Reason]_vars
  BY <1>2
<1>3. IInv /\ IInv' /\ [Next]_vars => [Reason]_vars
  BY <1>1, <1>2
<1> QED BY <1>3, Invariant, PTL DEF Spec, BlameMovesForAReason
=============================================================================
