---------------------------- MODULE FixtureProofs ----------------------------
(***************************************************************************)
(* Proofs about Fixture, for every interval, padding and interleaving of   *)
(* recorder, generator and replay: the types and what a whole recording    *)
(* is on disk, what a replay shows of it, and that it is not overwritten.  *)
(***************************************************************************)
EXTENDS Fixture, FiniteSetTheorems, FunctionTheorems, SequenceTheorems, TLAPS

-----------------------------------------------------------------------------
(* The order of the names.                                                 *)

\* What the padding makes of a second with a digit too many.
LEMMA LeadingDigits ==
    /\ \A t \in Second : t \div Base \in Nat
    /\ \A s, t \in Second : s <= t => s \div Base <= t \div Base
    /\ \A t \in Second : t \div Base < Wide
    /\ Wide \in Nat
<1> USE FixtureAssumption DEF Second
<1>1. \A t \in Second : t \div Base \in Nat
  OBVIOUS
<1>2. \A s, t \in Second : s <= t => s \div Base <= t \div Base
  OBVIOUS
<1>3. \A t \in Second : t \div Base < Wide
  OBVIOUS
<1> QED
  BY <1>1, <1>2, <1>3

\* Names are ordered, whatever their number of digits.
LEMMA NamesAreOrdered ==
    /\ \A t \in Second : ~Before(t, t)
    /\ \A s, t \in Second : s # t => Before(s, t) \/ Before(t, s)
    /\ \A r, s, t \in Second : Before(r, s) /\ Before(s, t) => Before(r, t)
<1> DEFINE lead == [t \in Second |-> t \div Base]
<1>1. /\ \A t \in Second : t \in Nat /\ lead[t] \in Nat /\ lead[t] < Wide
      /\ \A s, t \in Second : s <= t => lead[s] <= lead[t]
      /\ Wide \in Nat
  BY LeadingDigits DEF Second
<1>2. \A s, t \in Second :
          Before(s, t) <=> IF (s < Wide) = (t < Wide) THEN s < t
                           ELSE IF s < Wide THEN s < lead[t] ELSE lead[s] <= t
  BY DEF Before
<1> HIDE DEF lead
<1>3. ASSUME NEW t \in Second PROVE ~Before(t, t)
  BY <1>1, <1>2
<1>4. ASSUME NEW s \in Second, NEW t \in Second, s # t PROVE Before(s, t) \/ Before(t, s)
  BY <1>1, <1>2, <1>4
<1>5. ASSUME NEW r \in Second, NEW s \in Second, NEW t \in Second, Before(r, s), Before(s, t)
      PROVE  Before(r, t)
  BY <1>1, <1>2, <1>5
<1> QED
  BY <1>3, <1>4, <1>5

-----------------------------------------------------------------------------
(* The listing.                                                            *)

\* The seconds of a set whose names come before that of t.
Earlier(S, t) == {s \in S : Before(s, t)}

\* Each second of a directory has a place of its own, and each place a second.
LEMMA PlacesAreTaken ==
    ASSUME NEW S \in SUBSET Second
    PROVE  /\ IsFiniteSet(S) /\ Cardinality(S) \in Nat
           /\ \A t \in S : Cardinality(Earlier(S, t)) \in 0 .. Cardinality(S) - 1
           /\ \A s, t \in S : Before(s, t) => Cardinality(Earlier(S, s)) < Cardinality(Earlier(S, t))
           /\ \A n \in 1 .. Cardinality(S) : \E t \in S : Cardinality(Earlier(S, t)) = n - 1
<1> DEFINE place == [t \in S |-> Cardinality(Earlier(S, t)) + 1]
<1>1. IsFiniteSet(S) /\ Cardinality(S) \in Nat
  <2>1. IsFiniteSet(Second)
    BY FixtureAssumption, FS_Interval DEF Second
  <2> QED
    BY <2>1, FS_Subset, FS_CardinalityType
<1>2. \A t \in S : /\ Earlier(S, t) \in SUBSET S /\ t \notin Earlier(S, t)
                   /\ IsFiniteSet(Earlier(S, t)) /\ Cardinality(Earlier(S, t)) \in Nat
                   /\ Cardinality(Earlier(S, t)) < Cardinality(S)
  <2> SUFFICES ASSUME NEW t \in S
               PROVE  /\ Earlier(S, t) \in SUBSET S /\ t \notin Earlier(S, t)
                      /\ IsFiniteSet(Earlier(S, t)) /\ Cardinality(Earlier(S, t)) \in Nat
                      /\ Cardinality(Earlier(S, t)) < Cardinality(S)
    OBVIOUS
  <2>1. Earlier(S, t) \in SUBSET S /\ t \notin Earlier(S, t)
    BY NamesAreOrdered DEF Earlier
  <2>2. /\ IsFiniteSet(Earlier(S, t))
        /\ Cardinality(Earlier(S, t)) <= Cardinality(S)
        /\ Cardinality(Earlier(S, t)) = Cardinality(S) => Earlier(S, t) = S
    BY <1>1, <2>1, FS_Subset
  <2>3. Cardinality(Earlier(S, t)) \in Nat
    BY <2>2, FS_CardinalityType
  <2> QED
    BY <1>1, <2>1, <2>2, <2>3
<1>3. ASSUME NEW s \in S, NEW t \in S, Before(s, t)
      PROVE  Cardinality(Earlier(S, s)) < Cardinality(Earlier(S, t))
  <2>1. Earlier(S, s) \in SUBSET Earlier(S, t) /\ s \in Earlier(S, t) /\ s \notin Earlier(S, s)
    BY <1>3, NamesAreOrdered DEF Earlier
  <2>2. /\ Cardinality(Earlier(S, s)) <= Cardinality(Earlier(S, t))
        /\ Cardinality(Earlier(S, s)) = Cardinality(Earlier(S, t)) => Earlier(S, s) = Earlier(S, t)
    BY <1>2, <2>1, FS_Subset
  <2> QED
    BY <1>2, <2>1, <2>2
<1>4. \A n \in 1 .. Cardinality(S) : \E t \in S : Cardinality(Earlier(S, t)) = n - 1
  <2> DEFINE T == 1 .. Cardinality(S)
  <2>1. place \in [S -> T]
    BY <1>1, <1>2
  <2>2. ASSUME NEW s \in S, NEW t \in S, place[s] = place[t] PROVE s = t
    <3>1. ~Before(s, t) /\ ~Before(t, s)
      BY <1>2, <1>3, <2>2
    <3> QED
      BY <3>1, NamesAreOrdered
  <2>3. place \in Injection(S, T)
    <3> HIDE DEF place, T
    <3> QED
      BY <2>1, <2>2, Fun_IsInj
  <2>4. IsFiniteSet(T) /\ Cardinality(T) = Cardinality(S)
    <3>1. /\ IsFiniteSet(1 .. Cardinality(S))
          /\ Cardinality(1 .. Cardinality(S)) =
                IF 1 > Cardinality(S) THEN 0 ELSE Cardinality(S) - 1 + 1
      BY <1>1, FS_Interval
    <3> QED
      BY <1>1, <3>1
  <2>5. place \in Surjection(S, T)
    <3> HIDE DEF place, T
    <3> QED
      BY <2>3, <2>4, FS_Injection
  <2>6. \A n \in T : \E t \in S : place[t] = n
    <3> HIDE DEF place, T
    <3> QED
      BY <2>5 DEF Surjection
  <2> QED
    BY <1>2, <2>6
<1>5. \A t \in S : Cardinality(Earlier(S, t)) \in 0 .. Cardinality(S) - 1
  BY <1>1, <1>2
<1> QED
  BY <1>1, <1>3, <1>4, <1>5

\* Load lists the files and nothing else, in the order of their names.
LEMMA ListingIsOrdered ==
    /\ Listing \in Seq(Second)
    /\ \A n \in 1 .. Len(Listing) : Listing[n] \in Files
    /\ \A m, n \in 1 .. Len(Listing) : m < n => Before(Listing[m], Listing[n])
    /\ Files # {} => Len(Listing) >= 1
<1> DEFINE N == Cardinality(Files)
           Has(n, t) == Cardinality({s \in Files : Before(s, t)}) = n - 1
<1>1. Files \in SUBSET Second
  BY DEF Files
<1>2. N \in Nat /\ IsFiniteSet(Files)
  BY <1>1, PlacesAreTaken
<1>3. Listing = [n \in 1 .. N |-> CHOOSE t \in Files : Has(n, t)]
  BY DEF Listing
<1>4. \A t : Earlier(Files, t) = {s \in Files : Before(s, t)}
  BY DEF Earlier
<1>5. \A n \in 1 .. N : \E t \in Files : Has(n, t)
  BY <1>1, <1>4, PlacesAreTaken
<1>6. \A n \in 1 .. N : Listing[n] \in Files /\ Has(n, Listing[n])
  <2> HIDE DEF Has, N
  <2> QED
    BY <1>3, <1>5
<1>7. Listing \in Seq(Second) /\ Len(Listing) = N
  <2>1. \A n \in 1 .. N : Listing[n] \in Second
    BY <1>1, <1>6
  <2> HIDE DEF Has, N
  <2> QED
    BY <1>2, <1>3, <2>1
<1>8. ASSUME NEW m \in 1 .. N, NEW n \in 1 .. N, m < n PROVE Before(Listing[m], Listing[n])
  <2>1. /\ Listing[m] \in Second /\ Listing[n] \in Second
        /\ Cardinality(Earlier(Files, Listing[m])) = m - 1
        /\ Cardinality(Earlier(Files, Listing[n])) = n - 1
    BY <1>1, <1>4, <1>6
  <2>2. ~Before(Listing[n], Listing[m]) /\ Listing[m] # Listing[n]
    <3>1. m \in Int /\ n \in Int
      BY <1>2
    <3>2. Before(Listing[n], Listing[m]) => n - 1 < m - 1
      BY <1>1, <1>6, <2>1, PlacesAreTaken
    <3> QED
      BY <1>8, <2>1, <3>1, <3>2
  <2> QED
    BY <2>1, <2>2, NamesAreOrdered
<1>9. Files # {} => N >= 1
  <2>1. Files # {} => N # 0
    BY <1>2, FS_EmptySet
  <2> QED
    BY <1>2, <2>1
<1> QED
  BY <1>6, <1>7, <1>8, <1>9

-----------------------------------------------------------------------------
(* Types.                                                                  *)

Instant == Second \cup {None}
Seconds == (SUBSET Second) \cup {None}

WriterType ==
    [left : Seq(Second), wanted : SUBSET Second, open : Instant \cup {Gone}, stale : Seconds,
     alone : BOOLEAN, busy : BOOLEAN]

LoadType ==
    [todo : Seq(Second), got : Seq(Second), first : {None, "synthetic", "recorded"},
     from : Seconds, busy : BOOLEAN]

Typed ==
    /\ cluster \in {"missing", "running", "ready"}
    /\ now \in Second
    /\ tl \in Seq(Second) \cup {None}
    /\ writer \in [Writing -> WriterType]
    /\ dir \in [Second -> Kind]
    /\ whole \in Seconds
    /\ loading \in [Reading -> LoadType]
    /\ play \in [left : Seq(Second), from : Seconds, last : Instant, once : BOOLEAN, on : BOOLEAN]
    /\ clock \in Second
    /\ view \in [of : Instant, next : Instant, at : Instant]
    /\ starts \in 0 .. MaxStarts

\* None and Gone are no seconds, and second 0 is one.
LEMMA NoneIsNoSecond == None \notin Second /\ Gone \notin Second /\ Gone # None /\ 0 \in Second
BY FixtureAssumption DEF Second

\* Nothing is loaded to begin with.
LEMMA NoLoadType ==
    /\ NoLoad \in LoadType
    /\ \A b \in BOOLEAN : [NoLoad EXCEPT !.busy = b] \in LoadType
    /\ \A s \in Seq(Second), S \in Seconds :
          [NoLoad EXCEPT !.todo = s, !.from = S, !.busy = TRUE] \in LoadType
<1>1. NoLoad \in LoadType
  <2>1. None \in Seconds /\ <<>> \in Seq(Second)
    BY DEF Seconds
  <2> QED
    BY <2>1 DEF NoLoad, LoadType
<1>2. /\ \A b \in BOOLEAN : [NoLoad EXCEPT !.busy = b] \in LoadType
      /\ \A s \in Seq(Second), S \in Seconds :
            [NoLoad EXCEPT !.todo = s, !.from = S, !.busy = TRUE] \in LoadType
  BY <1>1 DEF LoadType
<1> QED
  BY <1>1, <1>2

\* The seconds of a sequence, its first, and what is left of it.
LEMMA SequenceOfSeconds ==
    ASSUME NEW s \in Seq(Second)
    PROVE  /\ ToSet(s) \in SUBSET Second
           /\ \A t : t \in ToSet(s) <=> \E i \in 1 .. Len(s) : s[i] = t
           /\ s # <<>> => /\ Head(s) = s[1] /\ Head(s) \in Second
                          /\ Len(s) >= 1
                          /\ Tail(s) \in Seq(Second)
                          /\ Len(Tail(s)) = Len(s) - 1
                          /\ \A i \in 1 .. Len(s) - 1 : Tail(s)[i] = s[i + 1]
                          /\ Last(s) = s[Len(s)] /\ Last(s) \in Second
BY DEF ToSet, Last

\* What the beginning of a write makes of the writers.
LEMMA BeginIs ==
    ASSUME Typed, NEW w \in Writing, NEW times \in Seq(Second), Begin(w, times)
    PROVE  /\ whole' = None
           /\ writer' \in [Writing -> WriterType]
           /\ writer'[w] = [left |-> times, wanted |-> ToSet(times), open |-> None,
                            stale |-> None, alone |-> ~writer[Other(w)].busy, busy |-> TRUE]
           /\ Other(w) \in Writing /\ Other(w) # w
           /\ writer'[Other(w)] = [writer[Other(w)] EXCEPT !.alone = FALSE]
           /\ \A v \in Writing : v = w \/ v = Other(w)
<1> DEFINE new == [left |-> times, wanted |-> ToSet(times), open |-> None,
                   stale |-> None, alone |-> ~writer[Other(w)].busy, busy |-> TRUE]
<1>1. Other(w) \in Writing /\ Other(w) # w /\ \A v \in Writing : v = w \/ v = Other(w)
  BY DEF Other, Writing
<1>2. writer \in [Writing -> WriterType] /\ writer[Other(w)].busy \in BOOLEAN
  BY <1>1 DEF Typed, WriterType
<1>3. new \in WriterType
  BY <1>2, SequenceOfSeconds DEF WriterType, Instant, Seconds
<1>4. writer' = [writer EXCEPT ![w] = new, ![Other(w)].alone = FALSE]
  BY DEF Begin
<1> HIDE DEF new
<1>5. writer'[w] = new /\ writer'[Other(w)] = [writer[Other(w)] EXCEPT !.alone = FALSE]
  BY <1>1, <1>2, <1>4
<1>6. [writer[Other(w)] EXCEPT !.alone = FALSE] \in WriterType
  BY <1>1, <1>2 DEF WriterType
<1>7. writer' \in [Writing -> WriterType]
  BY <1>1, <1>2, <1>3, <1>4, <1>6
<1> QED
  BY <1>1, <1>5, <1>7 DEF Begin, new

\* What the removal of a file makes of the writers.
LEMMA RemoveIs ==
    ASSUME Typed, NEW w \in Writing, RemoveFile(w)
    PROVE  \E t \in writer[w].stale \cap Files :
              /\ t \in Second /\ dir' = [dir EXCEPT ![t] = "none"]
              /\ writer' \in [Writing -> WriterType]
              /\ writer'[w] = [writer[w] EXCEPT !.stale = @ \ {t}]
              /\ Other(w) \in Writing /\ Other(w) # w
              /\ writer'[Other(w)] = [writer[Other(w)] EXCEPT !.open = IF @ = t THEN Gone ELSE @]
              /\ \A v \in Writing : v = w \/ v = Other(w)
<1>1. Other(w) \in Writing /\ Other(w) # w /\ \A v \in Writing : v = w \/ v = Other(w)
  BY DEF Other, Writing
<1>2. /\ writer \in [Writing -> WriterType] /\ writer[w] \in WriterType
      /\ writer[Other(w)] \in WriterType
  BY <1>1 DEF Typed
<1>3. PICK t \in writer[w].stale \cap Files :
          /\ dir' = [dir EXCEPT ![t] = "none"]
          /\ writer' = [writer EXCEPT ![w].stale = @ \ {t},
                                      ![Other(w)].open = IF @ = t THEN Gone ELSE @]
  BY DEF RemoveFile
<1> DEFINE mine == [writer[w] EXCEPT !.stale = @ \ {t}]
           theirs == [writer[Other(w)] EXCEPT !.open = IF @ = t THEN Gone ELSE @]
<1>4. mine \in WriterType
  <2>1. writer[w].stale \in Seconds /\ writer[w].stale # None
    BY <1>2 DEF RemoveFile, WriterType
  <2>2. writer[w].stale \ {t} \in Seconds
    BY <2>1 DEF Seconds
  <2> QED
    BY <1>2, <2>2 DEF WriterType
<1>5. theirs \in WriterType
  BY <1>2 DEF WriterType
<1>6. writer' = [writer EXCEPT ![w] = mine, ![Other(w)] = theirs]
  BY <1>1, <1>2, <1>3
<1> HIDE DEF mine, theirs
<1>7. writer'[w] = mine /\ writer'[Other(w)] = theirs /\ writer' \in [Writing -> WriterType]
  BY <1>1, <1>2, <1>4, <1>5, <1>6
<1>8. t \in Second
  BY DEF Files
<1> QED
  BY <1>1, <1>3, <1>7, <1>8 DEF mine, theirs

\* Every step keeps the types.
LEMMA TypedStep == Typed /\ [Next]_vars => Typed'
<1> USE NoneIsNoSecond
<1> SUFFICES ASSUME Typed, [Next]_vars
             PROVE  Typed'
  OBVIOUS
<1>1. CASE Become \/ Tick \/ Record
  <2>1. CASE Become
    BY <2>1 DEF Become, Typed
  <2>2. CASE Tick
    <3>1. now' \in Second
      BY <2>2, FixtureAssumption DEF Tick, Typed, Second
    <3> QED
      BY <2>2, <3>1 DEF Tick, Typed
  <2>3. CASE Record
    <3>1. starts' \in 0 .. MaxStarts /\ tl' \in Seq(Second) \cup {None}
      BY <2>3, FixtureAssumption DEF Record, Started, Typed
    <3> QED
      BY <2>3, <3>1 DEF Record, Typed
  <2> QED
    BY <1>1, <2>1, <2>2, <2>3
<1>2. CASE Receive
  <2>1. tl \in Seq(Second) /\ Append(tl, now) \in Seq(Second)
    BY <1>2 DEF Receive, Typed
  <2>2. /\ tl' \in Seq(Second) \cup {None}
        /\ writer' \in [Writing -> WriterType]
        /\ whole' \in Seconds
    <3>1. CASE Enough
      <4>1. Begin("record", Append(tl, now)) /\ "record" \in Writing
        BY <1>2, <3>1 DEF Receive, Writing
      <4> QED
        BY <1>2, <2>1, <3>1, <4>1, BeginIs DEF Receive, Seconds
    <3>2. CASE ~Enough
      BY <1>2, <2>1, <3>2 DEF Receive, Typed
    <3> QED
      BY <3>1, <3>2
  <2> QED
    BY <1>2, <2>2 DEF Receive, Typed
<1>3. CASE Synth
  <2>1. writer' \in [Writing -> WriterType] /\ whole' \in Seconds
    <3>1. CASE IsRecorded
      BY <1>3, <3>1 DEF Synth, Typed
    <3>2. CASE ~IsRecorded
      <4>1. Begin("synth", SynthTimes) /\ "synth" \in Writing /\ SynthTimes \in Seq(Second)
        BY <1>3, <3>2, FixtureAssumption DEF Synth, Writing, Second
      <4> QED
        BY <4>1, BeginIs DEF Seconds
    <3> QED
      BY <3>1, <3>2
  <2>2. loading' \in [Reading -> LoadType]
    BY <1>3, NoLoadType DEF Synth, Typed
  <2> QED
    BY <1>3, <2>1, <2>2 DEF Synth, Typed
<1>4. ASSUME NEW w \in Writing,
             OpenFile(w) \/ CloseFile(w) \/ Sweep(w) \/ RemoveFile(w) \/ Done(w) \/ Crash(w)
      PROVE  Typed'
  <2>0. writer[w] \in WriterType /\ None \in Instant /\ None \in Seconds
    BY DEF Typed, Instant, Seconds
  <2>1. Idle \in WriterType
    BY SequenceOfSeconds DEF Idle, WriterType, Instant, Seconds
  <2>2. UNCHANGED <<cluster, now, tl, loading, play, clock, view, starts>>
    BY <1>4 DEF OpenFile, CloseFile, Sweep, RemoveFile, Done, Crash, Others
  <2>3. dir' \in [Second -> Kind] /\ writer' \in [Writing -> WriterType] /\ whole' \in Seconds
    <3>1. CASE OpenFile(w)
      <4>1. /\ Head(writer[w].left) \in Second /\ Tail(writer[w].left) \in Seq(Second)
        BY <2>0, <3>1, SequenceOfSeconds DEF OpenFile, WriterType
      <4>2. dir' \in [Second -> Kind]
        BY <3>1, <4>1 DEF OpenFile, Typed, Kind
      <4>3. writer' = [writer EXCEPT ![w] = [writer[w] EXCEPT !.open = Head(writer[w].left),
                                                              !.left = Tail(writer[w].left)]]
        BY <3>1 DEF OpenFile
      <4>4. [writer[w] EXCEPT !.open = Head(writer[w].left),
                              !.left = Tail(writer[w].left)] \in WriterType
        BY <2>0, <4>1 DEF WriterType, Instant
      <4> QED
        BY <2>0, <3>1, <4>2, <4>3, <4>4 DEF OpenFile, Typed
    <3>2. CASE CloseFile(w)
      <4>1. dir' \in [Second -> Kind]
        <5>1. Marks(w) \in Kind /\ dir \in [Second -> Kind]
          BY DEF Typed, Kind, Marks
        <5>2. dir' = dir \/ dir' = [dir EXCEPT ![writer[w].open] = Marks(w)]
          BY <3>2 DEF CloseFile
        <5> QED
          BY <5>1, <5>2
      <4>2. writer' = [writer EXCEPT ![w] = [writer[w] EXCEPT !.open = None]]
        BY <3>2 DEF CloseFile
      <4>3. [writer[w] EXCEPT !.open = None] \in WriterType
        BY <2>0 DEF WriterType
      <4> QED
        BY <2>0, <3>2, <4>1, <4>2, <4>3 DEF CloseFile, Typed
    <3>3. CASE Sweep(w)
      <4>1. writer' = [writer EXCEPT ![w] = [writer[w] EXCEPT !.stale = Files \ writer[w].wanted]]
        BY <3>3 DEF Sweep
      <4>2. [writer[w] EXCEPT !.stale = Files \ writer[w].wanted] \in WriterType
        BY <2>0 DEF WriterType, Seconds, Files
      <4> QED
        BY <3>3, <4>1, <4>2 DEF Sweep, Typed
    <3>4. CASE RemoveFile(w)
      <4>1. PICK t \in Second : dir' = [dir EXCEPT ![t] = "none"]
        BY <3>4, RemoveIs
      <4>2. dir' \in [Second -> Kind]
        BY <4>1 DEF Typed, Kind
      <4> QED
        BY <2>0, <3>4, <4>2, RemoveIs DEF RemoveFile
    <3>5. CASE Done(w)
      <4>1. whole' \in Seconds
        BY <2>0, <3>5 DEF Done, Seconds, WriterType
      <4> QED
        BY <2>1, <3>5, <4>1 DEF Done, Typed
    <3>6. CASE Crash(w)
      BY <2>1, <3>6 DEF Crash, Typed
    <3> QED
      BY <1>4, <3>1, <3>2, <3>3, <3>4, <3>5, <3>6
  <2> QED
    BY <2>2, <2>3 DEF Typed
<1>5. ASSUME NEW x \in Reading, ReadDir(x) \/ ReadFile(x) \/ ReadFails(x)
      PROVE  Typed'
  <2>1. loading \in [Reading -> LoadType] /\ loading[x] \in LoadType
    BY DEF Typed
  <2>2. loading' \in [Reading -> LoadType] /\ starts' \in 0 .. MaxStarts
    <3>1. CASE ReadDir(x)
      <4>1. [NoLoad EXCEPT !.todo = Listing, !.from = whole, !.busy = TRUE] \in LoadType
        BY ListingIsOrdered, NoLoadType DEF Typed
      <4> QED
        BY <2>1, <3>1, <4>1, FixtureAssumption DEF ReadDir, Started, Typed
    <3>2. CASE ReadFile(x)
      <4> DEFINE s == loading[x]
                 h == Head(s.todo)
                 new == [s EXCEPT !.todo = Tail(@), !.got = Append(@, h),
                                  !.first = IF @ = None THEN dir[h] ELSE @,
                                  !.from = IF @ = whole THEN @ ELSE None]
      <4>1. h \in Second /\ Tail(s.todo) \in Seq(Second) /\ dir[h] \in {"synthetic", "recorded"}
        BY <2>1, <3>2, SequenceOfSeconds DEF ReadFile, LoadType
      <4>2. loading' = [loading EXCEPT ![x] = new]
        BY <2>1, <3>2 DEF ReadFile, LoadType
      <4> HIDE DEF h
      <4>3. new \in LoadType
        <5>1. Append(s.got, h) \in Seq(Second) /\ None \in Seconds
          BY <2>1, <4>1 DEF LoadType, Seconds
        <5>2. (IF s.first = None THEN dir[h] ELSE s.first) \in {None, "synthetic", "recorded"}
          BY <2>1, <4>1 DEF LoadType
        <5>3. (IF s.from = whole THEN s.from ELSE None) \in Seconds
          BY <2>1, <5>1 DEF LoadType
        <5> QED
          BY <2>1, <4>1, <5>1, <5>2, <5>3 DEF LoadType
      <4> HIDE DEF new
      <4>4. loading' \in [Reading -> LoadType]
        BY <2>1, <4>2, <4>3
      <4>5. starts' \in 0 .. MaxStarts
        BY <3>2 DEF ReadFile, Loads, Typed
      <4> QED
        BY <4>4, <4>5
    <3>3. CASE ReadFails(x)
      <4>1. [NoLoad EXCEPT !.busy = (x = "synth")] \in LoadType
        BY NoLoadType
      <4> QED
        BY <2>1, <3>3, <4>1 DEF ReadFails, Loads, Typed
    <3> QED
      BY <1>5, <3>1, <3>2, <3>3
  <2> QED
    BY <1>5, <2>2 DEF ReadDir, ReadFile, ReadFails, Loads, Typed
<1>8. CASE Replay
  <2>1. PICK once \in BOOLEAN :
            play' = [left |-> loading["replay"].got, from |-> loading["replay"].from,
                     last |-> None, once |-> once, on |-> TRUE]
    BY <1>8 DEF Replay
  <2>2. loading["replay"] \in LoadType
    BY DEF Typed, Reading
  <2>3. loading["replay"].got \in Seq(Second) /\ loading["replay"].from \in Seconds
    BY <2>2 DEF LoadType
  <2>4. loading' \in [Reading -> LoadType]
    BY <1>8, NoLoadType DEF Replay, Typed
  <2> QED
    BY <1>8, <2>1, <2>3, <2>4 DEF Replay, Quiet, Typed, Instant
<1>6. CASE Advance \/ Send \/ Look \/ Quit
  <2>1. play.left # <<>> => Head(play.left) \in Second /\ Tail(play.left) \in Seq(Second)
    BY SequenceOfSeconds DEF Typed
  <2>2. CASE Advance
    BY <2>1, <2>2 DEF Advance, Quiet, Typed, Instant
  <2>3. CASE Send
    <3>1. Len(play.left) > 1 => play.left[2] \in Second
      BY DEF Typed
    <3> QED
      BY <2>1, <2>3, <3>1 DEF Send, Quiet, Typed, Instant
  <2>4. CASE Look
    BY <2>4 DEF Look, Quiet, Typed, Instant
  <2>5. CASE Quit
    BY <2>5 DEF Quit, Quiet, Typed, Instant, Seconds, NoPlay, NoView
  <2> QED
    BY <1>6, <2>2, <2>3, <2>4, <2>5
<1>7. CASE UNCHANGED vars
  BY <1>7 DEF vars, Typed
<1> QED
  BY <1>1, <1>2, <1>3, <1>4, <1>5, <1>6, <1>7, <1>8 DEF Next

\* So does the initial state.
LEMMA TypedInit == Init => Typed
<1> SUFFICES ASSUME Init
             PROVE  Typed
  OBVIOUS
<1>1. Idle \in WriterType
  BY NoneIsNoSecond DEF Idle, WriterType, Instant, Seconds
<1>2. NoPlay \in [left : Seq(Second), from : Seconds, last : Instant, once : BOOLEAN, on : BOOLEAN]
  BY DEF NoPlay, Instant, Seconds
<1>3. NoView \in [of : Instant, next : Instant, at : Instant]
  BY DEF NoView, Instant
<1>4. 0 \in 0 .. MaxStarts
  BY FixtureAssumption
<1> QED
  BY <1>1, <1>2, <1>3, <1>4, NoneIsNoSecond, NoLoadType DEF Init, Typed, Seconds, Kind

-----------------------------------------------------------------------------
(* What a recording holds.                                                 *)

Apart(S) == \A s, t \in S : s < t => s + Every <= t

\* The recorder's timeline grows by an interval at least, up to now; what is
\* written, what is whole and what is played of it has the same gaps.
Spaced ==
    /\ tl # None => \A i \in 1 .. Len(tl) :
                       /\ tl[i] <= now
                       /\ \A j \in 1 .. Len(tl) : i < j => tl[i] + Every <= tl[j]
    /\ writer["record"].busy =>
          writer["record"].wanted # {} /\ Apart(writer["record"].wanted)
    /\ whole # None => whole # {} /\ Apart(whole)
    /\ \A x \in Reading : loading[x].from # None => Apart(loading[x].from)
    /\ play.from # None => Apart(play.from)

\* One more envelope keeps the gaps.
LEMMA OneMoreIsApart ==
    ASSUME Typed, Spaced, tl # None, ~TooSoon
    PROVE  LET s == Append(tl, now) IN
           /\ s \in Seq(Second) /\ ToSet(s) # {} /\ Apart(ToSet(s))
           /\ \A i \in 1 .. Len(s) :
                 /\ s[i] <= now
                 /\ \A j \in 1 .. Len(s) : i < j => s[i] + Every <= s[j]
<1> DEFINE s == Append(tl, now)
           n == Len(tl)
<1>1. tl \in Seq(Second) /\ n \in Nat /\ now \in Second /\ Second \subseteq Nat /\ Every \in Nat \ {0}
  BY FixtureAssumption DEF Typed, Second
<1>2. /\ s \in Seq(Second) /\ Len(s) = n + 1 /\ s[n + 1] = now
      /\ \A i \in 1 .. n : s[i] = tl[i] /\ tl[i] \in Nat
  <2>1. s \in Seq(Second) /\ Len(s) = n + 1 /\ s[n + 1] = now /\ \A i \in 1 .. n : s[i] = tl[i]
    BY <1>1
  <2>2. \A i \in 1 .. n : tl[i] \in Second
    BY <1>1, ElementOfSeq
  <2> QED
    BY <1>1, <2>1, <2>2
<1>3. n > 0 => tl[n] + Every <= now
  <2>1. n > 0 => tl # <<>> /\ Last(tl) = tl[n] /\ tl[n] \in Nat
    <3>1. n > 0 => tl # <<>>
      OBVIOUS
    <3> QED
      BY <1>1, <3>1, SequenceOfSeconds
  <2> QED
    BY <1>1, <2>1 DEF TooSoon
<1>4. \A i \in 1 .. n : tl[i] + Every <= now
  <2> SUFFICES ASSUME NEW i \in 1 .. n PROVE tl[i] + Every <= now
    OBVIOUS
  <2>1. CASE i = n
    BY <1>1, <1>3, <2>1
  <2>2. CASE i < n
    <3>1. tl[i] + Every <= tl[n] /\ tl[i] \in Nat /\ tl[n] \in Nat
      BY <1>1, <1>2, <2>2 DEF Spaced
    <3> QED
      BY <1>1, <1>3, <3>1
  <2> QED
    BY <1>1, <2>1, <2>2
<1> HIDE DEF s, n
<1>5. \A i \in 1 .. n + 1 : i \in 1 .. n \/ i = n + 1
  BY <1>1
<1>6. ASSUME NEW i \in 1 .. n + 1, NEW j \in 1 .. n + 1, i < j PROVE s[i] + Every <= s[j]
  <2>1. i \in 1 .. n
    BY <1>1, <1>6
  <2>2. CASE j = n + 1
    BY <1>2, <1>4, <2>1, <2>2
  <2>3. CASE j \in 1 .. n
    <3>1. tl[i] + Every <= tl[j]
      BY <1>6, <2>1, <2>3 DEF Spaced, n
    <3> QED
      BY <1>2, <2>1, <2>3, <3>1
  <2> QED
    BY <1>5, <2>2, <2>3
<1>7. \A i \in 1 .. n + 1 : s[i] \in Nat /\ s[i] <= now
  BY <1>1, <1>2, <1>4, <1>5
<1>8. Apart(ToSet(s)) /\ ToSet(s) # {}
  <2>1. \A t : t \in ToSet(s) <=> \E i \in 1 .. n + 1 : s[i] = t
    BY <1>2, SequenceOfSeconds
  <2>2. ASSUME NEW i \in 1 .. n + 1, NEW j \in 1 .. n + 1, s[i] < s[j]
        PROVE  s[i] + Every <= s[j]
    <3>1. CASE i < j
      BY <1>6, <3>1
    <3>2. CASE i = j
      BY <1>7, <2>2, <3>2
    <3>3. CASE j < i
      <4>1. s[j] + Every <= s[i]
        BY <1>6, <3>3
      <4> QED
        BY <1>1, <1>7, <2>2, <4>1
    <3> QED
      BY <1>1, <3>1, <3>2, <3>3
  <2>3. n + 1 \in 1 .. n + 1
    BY <1>1
  <2> QED
    BY <2>1, <2>2, <2>3 DEF Apart
<1> QED
  BY <1>2, <1>6, <1>7, <1>8 DEF s, n

\* The steps of Write leave alone what is to be written, until it is.
LEMMA WritingKeepsWanted ==
    ASSUME Typed, NEW w \in Writing,
           OpenFile(w) \/ CloseFile(w) \/ Sweep(w) \/ RemoveFile(w) \/ Done(w) \/ Crash(w)
    PROVE  /\ UNCHANGED <<cluster, now, tl, loading, play, clock, view, starts>>
           /\ \A v \in Writing \ {w} :
                 /\ writer'[v].busy = writer[v].busy /\ writer'[v].wanted = writer[v].wanted
                 /\ writer'[v].alone = writer[v].alone
                 /\ writer[v].open = None => writer'[v].open = None
           /\ \/ writer'[w] = Idle
              \/ /\ writer'[w].wanted = writer[w].wanted
                 /\ writer'[w].busy = writer[w].busy
                 /\ writer'[w].alone = writer[w].alone
<1>1. UNCHANGED <<cluster, now, tl, loading, play, clock, view, starts>>
  BY DEF OpenFile, CloseFile, Sweep, RemoveFile, Done, Crash, Others
<1>2. ~RemoveFile(w) => \E new \in {Idle} \cup {x \in WriterType : /\ x.wanted = writer[w].wanted
                                                  /\ x.busy = writer[w].busy
                                                  /\ x.alone = writer[w].alone} :
          writer' = [writer EXCEPT ![w] = new]
  <2>1. writer' \in [Writing -> WriterType]
    BY TypedStep DEF Next, Typed
  <2>2. writer \in [Writing -> WriterType]
    BY DEF Typed
  <2>3. CASE Done(w) \/ Crash(w)
    BY <2>3 DEF Done, Crash
  <2>4. CASE OpenFile(w)
    BY <2>1, <2>2, <2>4 DEF OpenFile, WriterType
  <2>5. CASE CloseFile(w)
    BY <2>1, <2>2, <2>5 DEF CloseFile, WriterType
  <2>6. CASE Sweep(w)
    BY <2>1, <2>2, <2>6 DEF Sweep, WriterType
  <2> QED
    BY <2>3, <2>4, <2>5, <2>6
<1>3. writer \in [Writing -> WriterType]
  BY DEF Typed
<1>4. CASE RemoveFile(w)
  <2>1. PICK t \in Second :
            /\ writer'[w] = [writer[w] EXCEPT !.stale = @ \ {t}]
            /\ writer'[Other(w)] = [writer[Other(w)] EXCEPT !.open = IF @ = t THEN Gone ELSE @]
            /\ Other(w) \in Writing /\ \A v \in Writing : v = w \/ v = Other(w)
    BY <1>4, RemoveIs
  <2>2. writer[w] \in WriterType /\ writer[Other(w)] \in WriterType /\ t # None
    BY <1>3, <2>1, NoneIsNoSecond
  <2>3. /\ writer'[w].wanted = writer[w].wanted /\ writer'[w].busy = writer[w].busy
        /\ writer'[w].alone = writer[w].alone
    BY <2>1, <2>2 DEF WriterType
  <2>4. /\ writer'[Other(w)].wanted = writer[Other(w)].wanted
        /\ writer'[Other(w)].busy = writer[Other(w)].busy
        /\ writer'[Other(w)].alone = writer[Other(w)].alone
        /\ writer'[Other(w)].open = IF writer[Other(w)].open = t THEN Gone ELSE writer[Other(w)].open
    BY <2>1, <2>2 DEF WriterType
  <2> QED
    BY <1>1, <2>1, <2>2, <2>3, <2>4
<1> QED
  BY <1>1, <1>2, <1>3, <1>4

\* The gaps stay.
LEMMA SpacedStep == Typed /\ Spaced /\ [Next]_vars => Spaced'
<1> SUFFICES ASSUME Typed, Spaced, [Next]_vars
             PROVE  Spaced'
  OBVIOUS
<1>0. "record" \in Writing /\ "synth" \in Writing /\ \A S : Apart(S)' = Apart(S)
  BY DEF Writing, Apart
<1>1. CASE Become
  BY <1>0, <1>1 DEF Become, Spaced
<1>2. CASE Tick
  <2>1. now' = now + 1 /\ now \in Nat /\ UNCHANGED <<tl, writer, whole, loading, play>>
    BY <1>2 DEF Tick, Typed, Second
  <2>2. tl # None => \A i \in 1 .. Len(tl) : tl[i] \in Nat
    <3>1. tl # None => \A i \in 1 .. Len(tl) : tl[i] \in Second
      BY ElementOfSeq DEF Typed
    <3> QED
      BY <3>1 DEF Second
  <2> QED
    BY <1>0, <2>1, <2>2 DEF Spaced
<1>3. CASE Record
  BY <1>0, <1>3 DEF Record, Spaced
<1>4. CASE Receive
  <2>1. CASE Enough
    <3>1. /\ Begin("record", Append(tl, now)) /\ tl' = None /\ play' = play /\ loading' = loading
          /\ tl # None /\ ~TooSoon
      BY <1>4, <2>1 DEF Receive
    <3>2. /\ Append(tl, now) \in Seq(Second) /\ Apart(ToSet(Append(tl, now)))
          /\ ToSet(Append(tl, now)) # {}
      BY <3>1, OneMoreIsApart
    <3> DEFINE times == Append(tl, now)
    <3> HIDE DEF times
    <3>3. whole' = None /\ writer'["record"].wanted = ToSet(times)
      <4>1. /\ whole' = None
            /\ writer'["record"] = [left |-> times, wanted |-> ToSet(times), open |-> None,
                                    stale |-> None, alone |-> ~writer[Other("record")].busy,
                                    busy |-> TRUE]
        <5>1. "record" \in Writing
          BY DEF Writing
        <5>2. Begin("record", times) /\ times \in Seq(Second)
          BY <3>1, <3>2 DEF times
        <5> QED
          BY <1>0, <5>1, <5>2, BeginIs, Zenon
      <4> QED
        BY <4>1
    <3> QED
      BY <1>0, <3>1, <3>2, <3>3 DEF Spaced, times
  <2>2. CASE ~Enough
    <3>1. /\ tl' = Append(tl, now) /\ UNCHANGED <<now, writer, whole, loading, play>>
          /\ tl # None /\ ~TooSoon
      BY <1>4, <2>2 DEF Receive
    <3>2. \A i \in 1 .. Len(tl') :
              /\ tl'[i] <= now
              /\ \A j \in 1 .. Len(tl') : i < j => tl'[i] + Every <= tl'[j]
      BY <3>1, OneMoreIsApart
    <3> QED
      BY <1>0, <3>1, <3>2 DEF Spaced
  <2> QED
    BY <2>1, <2>2
<1>5. CASE Synth
  <2>0. \A x \in Reading : loading'[x].from # None => Apart(loading'[x].from)
    <3>1. loading' = [loading EXCEPT !["synth"] = NoLoad] /\ loading \in [Reading -> LoadType]
      BY <1>5 DEF Synth, Typed
    <3>2. \A x \in Reading : loading'[x] = loading[x] \/ loading'[x] = NoLoad
      BY <3>1
    <3> QED
      BY <3>2 DEF Spaced, NoLoad
  <2>1. CASE IsRecorded
    BY <1>0, <1>5, <2>0, <2>1 DEF Synth, Spaced
  <2>2. CASE ~IsRecorded
    <3>1. /\ Begin("synth", SynthTimes) /\ SynthTimes \in Seq(Second)
          /\ UNCHANGED <<tl, now, play>>
      BY <1>5, <2>2, FixtureAssumption DEF Synth, Second
    <3>2. Other("synth") = "record"
      BY DEF Other
    <3>3. /\ whole' = None
          /\ writer'["record"] = [writer["record"] EXCEPT !.alone = FALSE]
      BY <1>0, <3>1, <3>2, BeginIs
    <3>4. writer["record"] \in WriterType
      BY <1>0 DEF Typed
    <3>5. /\ writer'["record"].wanted = writer["record"].wanted
          /\ writer'["record"].busy = writer["record"].busy
      BY <3>3, <3>4 DEF WriterType
    <3> QED
      BY <1>0, <2>0, <3>1, <3>3, <3>5 DEF Spaced
  <2> QED
    BY <2>1, <2>2
<1>6. ASSUME NEW w \in Writing,
             OpenFile(w) \/ CloseFile(w) \/ Sweep(w) \/ RemoveFile(w) \/ Done(w) \/ Crash(w)
      PROVE  Spaced'
  <2>1. UNCHANGED <<tl, now, loading, play>>
    BY <1>6, WritingKeepsWanted
  <2>2. writer'["record"].busy =>
            writer["record"].busy /\ writer'["record"].wanted = writer["record"].wanted
    <3>1. ~Idle.busy
      BY DEF Idle
    <3> QED
      BY <1>0, <1>6, <3>1, WritingKeepsWanted
  <2>3. whole' # None => whole' = whole \/ (whole' = writer["record"].wanted /\ writer["record"].busy)
    BY <1>6 DEF OpenFile, CloseFile, Sweep, RemoveFile, Done, Crash, Written
  <2> QED
    BY <1>0, <2>1, <2>2, <2>3 DEF Spaced
<1>7. ASSUME NEW y \in Reading, ReadDir(y) \/ ReadFile(y) \/ ReadFails(y)
      PROVE  Spaced'
  <2>1. /\ UNCHANGED <<tl, now, writer, whole, play>>
        /\ \A x \in Reading \ {y} : loading'[x] = loading[x]
        /\ loading'[y].from \in {loading[y].from, whole, None}
    <3>1. loading \in [Reading -> LoadType] /\ loading[y] \in LoadType
      BY DEF Typed
    <3>2. CASE ReadDir(y)
      BY <3>1, <3>2 DEF ReadDir, NoLoad
    <3>3. CASE ReadFile(y)
      BY <3>1, <3>3 DEF ReadFile, Loads, LoadType
    <3>4. CASE ReadFails(y)
      BY <3>1, <3>4 DEF ReadFails, Loads, NoLoad
    <3> QED
      BY <1>7, <3>2, <3>3, <3>4
  <2>2. \A x \in Reading : loading'[x].from # None => Apart(loading'[x].from)
    BY <2>1 DEF Spaced
  <2> QED
    BY <1>0, <2>1, <2>2 DEF Spaced
<1>10. CASE Replay
  <2>1. play'.from = loading["replay"].from /\ "replay" \in Reading
    BY <1>10 DEF Replay, Reading
  <2>2. \A x \in Reading : loading'[x] = loading[x] \/ loading'[x] = NoLoad
    BY <1>10 DEF Replay, Typed
  <2>3. \A x \in Reading : loading'[x].from # None => Apart(loading'[x].from)
    BY <2>2 DEF Spaced, NoLoad
  <2> QED
    BY <1>0, <1>10, <2>1, <2>3 DEF Replay, Quiet, Spaced
<1>8. CASE Advance \/ Send \/ Look \/ Quit
  <2>1. play'.from \in {play.from, None}
    BY <1>8 DEF Advance, Send, Look, Quit, NoPlay, Typed
  <2> QED
    BY <1>0, <1>8, <2>1 DEF Advance, Send, Look, Quit, Quiet, Spaced
<1>9. CASE UNCHANGED vars
  BY <1>0, <1>9 DEF vars, Spaced
<1> QED
  BY <1>1, <1>2, <1>3, <1>4, <1>5, <1>6, <1>7, <1>8, <1>9, <1>10 DEF Next

-----------------------------------------------------------------------------
(* What is on disk.                                                        *)

\* What a recorder that has written alone since it began has done so far: a
\* wanted file is written, open or still to come, and a file that is not is
\* among those to remove once they have been looked up.
AloneSoFar ==
    LET r == writer["record"] IN
    r.busy /\ r.alone =>
        /\ ~writer["synth"].busy
        /\ \A t \in r.wanted : dir[t] = "recorded" \/ t = r.open \/ t \in ToSet(r.left)
        /\ r.stale # None =>
              /\ r.left = <<>> /\ r.open = None
              /\ r.stale \cap r.wanted = {}
              /\ \A t \in Second \ r.wanted : dir[t] = "none" \/ t \in r.stale

OnDisk ==
    /\ \A w \in Writing : ~writer[w].busy => writer[w].open = None
    /\ whole # None => \A w \in Writing : ~writer[w].busy
    /\ whole # None => \A t \in Second : dir[t] = IF t \in whole THEN "recorded" ELSE "none"
    /\ AloneSoFar

\* A step that writes nothing leaves what is on disk alone.
LEMMA NotWriting == OnDisk /\ UNCHANGED <<writer, dir, whole>> => OnDisk'
BY DEF OnDisk, AloneSoFar

\* When a write begins nothing of it is done, and the other is not alone anymore.
LEMMA OnDiskBegun ==
    ASSUME Typed, OnDisk, NEW w \in Writing, NEW times \in Seq(Second), Begin(w, times), dir' = dir
    PROVE  OnDisk'
<1> DEFINE new == [left |-> times, wanted |-> ToSet(times), open |-> None,
                   stale |-> None, alone |-> ~writer[Other(w)].busy, busy |-> TRUE]
           old == writer[Other(w)]
<1>1. /\ whole' = None /\ writer'[w] = new
      /\ Other(w) \in Writing /\ Other(w) # w
      /\ writer'[Other(w)] = [old EXCEPT !.alone = FALSE]
      /\ \A v \in Writing : v = w \/ v = Other(w)
  BY BeginIs
<1>2. old \in WriterType
  BY <1>1 DEF Typed
<1>3. /\ writer'[Other(w)].busy = old.busy /\ writer'[Other(w)].open = old.open
      /\ ~writer'[Other(w)].alone
  BY <1>1, <1>2 DEF WriterType
<1>4. ASSUME NEW v \in Writing, ~writer'[v].busy
      PROVE  writer'[v].open = None
  <2>1. v # w
    BY <1>1, <1>4
  <2>2. v = Other(w) /\ ~old.busy
    BY <1>1, <1>3, <1>4, <2>1
  <2> QED
    BY <1>1, <1>3, <2>2 DEF OnDisk
<1>5. AloneSoFar'
  <2>1. CASE w = "record"
    <3>1. Other(w) = "synth"
      BY <2>1 DEF Other
    <3>2. /\ writer'["record"].alone = ~old.busy
          /\ writer'["record"].wanted = ToSet(times) /\ writer'["record"].left = times
          /\ writer'["record"].stale = None
      BY <1>1, <2>1
    <3> QED
      BY <1>3, <3>1, <3>2 DEF AloneSoFar
  <2>2. CASE w = "synth"
    <3>1. Other(w) = "record"
      BY <2>2 DEF Other
    <3> QED
      BY <1>3, <3>1 DEF AloneSoFar
  <2> QED
    BY <2>1, <2>2 DEF Writing
<1> QED
  BY <1>1, <1>4, <1>5 DEF OnDisk

\* A step of Write keeps what is known of the disk.
LEMMA OnDiskWritten ==
    ASSUME Typed, OnDisk, NEW w \in Writing,
           OpenFile(w) \/ CloseFile(w) \/ Sweep(w) \/ RemoveFile(w) \/ Done(w) \/ Crash(w)
    PROVE  OnDisk'
<1> DEFINE r == writer["record"]
           q == writer["synth"]
<1>0. /\ writer \in [Writing -> WriterType] /\ writer[w] \in WriterType /\ r \in WriterType
      /\ "record" \in Writing /\ "synth" \in Writing /\ Writing = {"record", "synth"}
      /\ dir \in [Second -> Kind] /\ "record" # "synth" /\ None \notin Second
  BY NoneIsNoSecond DEF Typed, Writing
<1>1. /\ \A v \in Writing \ {w} :
            /\ writer'[v].busy = writer[v].busy /\ writer'[v].wanted = writer[v].wanted
            /\ writer'[v].alone = writer[v].alone
            /\ writer[v].open = None => writer'[v].open = None
      /\ writer'[w] = Idle \/ /\ writer'[w].wanted = writer[w].wanted
                              /\ writer'[w].busy = writer[w].busy
                              /\ writer'[w].alone = writer[w].alone
  BY WritingKeepsWanted
<1>2. writer[w].busy
  <2>1. writer[w].open # None => writer[w].busy
    BY DEF OnDisk
  <2> QED
    BY <2>1 DEF OpenFile, CloseFile, Sweep, RemoveFile, Done, Crash, Written
<1>3. w = "synth" => ~(r.busy /\ r.alone)
  BY <1>2 DEF OnDisk, AloneSoFar
<1>4. w = "synth" => AloneSoFar'
  <2> SUFFICES ASSUME w = "synth" PROVE AloneSoFar'
    OBVIOUS
  <2>1. writer'["record"].busy = r.busy /\ writer'["record"].alone = r.alone
    BY <1>0, <1>1
  <2> QED
    BY <1>3, <2>1 DEF AloneSoFar
<1>5. ~Idle.busy /\ Idle.open = None
  BY DEF Idle
<1>12. whole = None
  BY <1>2 DEF OnDisk
<1>6. CASE OpenFile(w)
  <2> DEFINE h == Head(writer[w].left)
  <2>1. /\ h \in Second /\ writer[w].left \in Seq(Second) /\ Len(writer[w].left) >= 1
        /\ h = writer[w].left[1]
        /\ \A i \in 1 .. Len(writer[w].left) - 1 : Tail(writer[w].left)[i] = writer[w].left[i + 1]
        /\ Len(Tail(writer[w].left)) = Len(writer[w].left) - 1
        /\ Tail(writer[w].left) \in Seq(Second)
    BY <1>0, <1>6, SequenceOfSeconds DEF OpenFile, WriterType
  <2>2. /\ whole' = None /\ dir' = [dir EXCEPT ![h] = "truncated"]
        /\ writer' = [writer EXCEPT ![w] = [writer[w] EXCEPT !.open = h, !.left = Tail(@)]]
        /\ writer[w].left # <<>>
    BY <1>6 DEF OpenFile
  <2> HIDE DEF h
  <2>3. /\ writer'[w].open = h /\ writer'[w].left = Tail(writer[w].left)
        /\ writer'[w].stale = writer[w].stale /\ writer'[w].busy /\ writer'[w].wanted = writer[w].wanted
        /\ writer'[w].alone = writer[w].alone
    BY <1>0, <1>2, <2>2 DEF WriterType
  <2>4. \A v \in Writing : ~writer'[v].busy => writer'[v].open = None
    BY <1>1, <2>3 DEF OnDisk
  <2>5. w = "record" => AloneSoFar'
    <3> SUFFICES ASSUME w = "record", writer'["record"].busy, writer'["record"].alone
                 PROVE  AloneSoFar'
      BY DEF AloneSoFar
    <3>0. r.busy /\ r.alone
      BY <1>2, <2>3
    <3>1. /\ ~q.busy /\ r.stale = None
          /\ \A t \in r.wanted : dir[t] = "recorded" \/ t = r.open \/ t \in ToSet(r.left)
      BY <3>0, <2>2 DEF OnDisk, AloneSoFar
    <3>2. writer'["synth"].busy = q.busy
      BY <1>0, <1>1
    <3>3. r.open = None
      BY <1>6 DEF OpenFile
    <3>4. ASSUME NEW t \in r.wanted
          PROVE  dir'[t] = "recorded" \/ t = h \/ t \in ToSet(Tail(r.left))
      <4>0. t \in Second /\ t # None
        BY <1>0 DEF WriterType
      <4>1. CASE t = h
        BY <4>1
      <4>2. CASE t # h /\ t \in ToSet(r.left)
        <5>1. PICK i \in 1 .. Len(r.left) : r.left[i] = t
          BY <2>1, <4>2, SequenceOfSeconds
        <5>2. i - 1 \in 1 .. Len(r.left) - 1 /\ (i - 1) + 1 = i
          BY <2>1, <4>2, <5>1
        <5>3. Tail(r.left)[i - 1] = t
          BY <2>1, <5>1, <5>2
        <5>4. i - 1 \in 1 .. Len(Tail(r.left))
          BY <2>1, <5>2
        <5> QED
          BY <2>1, <5>3, <5>4, SequenceOfSeconds
      <4>3. CASE t # h /\ dir[t] = "recorded"
        BY <1>0, <2>2, <4>0, <4>3
      <4> QED
        BY <3>1, <3>3, <4>0, <4>1, <4>2, <4>3
    <3> QED
      BY <2>3, <3>1, <3>2, <3>4 DEF AloneSoFar
  <2> QED
    BY <1>0, <1>4, <2>2, <2>4, <2>5 DEF OnDisk
<1>7. CASE CloseFile(w)
  <2> DEFINE o == writer[w].open
  <2>1. /\ whole' = None /\ dir' = IF o = Gone THEN dir ELSE [dir EXCEPT ![o] = Marks(w)]
        /\ writer' = [writer EXCEPT ![w] = [writer[w] EXCEPT !.open = None]]
        /\ o # None /\ o \in Second \cup {Gone} /\ Gone \notin Second
    BY <1>0, <1>7, NoneIsNoSecond DEF CloseFile, WriterType, Instant
  <2>2. /\ writer'[w].open = None /\ writer'[w].left = writer[w].left
        /\ writer'[w].stale = writer[w].stale /\ writer'[w].busy /\ writer'[w].wanted = writer[w].wanted
        /\ writer'[w].alone = writer[w].alone
    BY <1>0, <1>2, <2>1 DEF WriterType
  <2>3. \A v \in Writing : ~writer'[v].busy => writer'[v].open = None
    BY <1>1, <2>2 DEF OnDisk
  <2>4. w = "record" => AloneSoFar'
    <3> SUFFICES ASSUME w = "record", writer'["record"].busy, writer'["record"].alone
                 PROVE  AloneSoFar'
      BY DEF AloneSoFar
    <3>0. r.busy /\ r.alone
      BY <1>2, <2>2
    <3>1. /\ ~q.busy /\ r.stale = None
          /\ \A t \in r.wanted : dir[t] = "recorded" \/ t = r.open \/ t \in ToSet(r.left)
      BY <3>0, <2>1 DEF OnDisk, AloneSoFar
    <3>2. writer'["synth"].busy = q.busy /\ Marks(w) = "recorded"
      BY <1>0, <1>1 DEF Marks
    <3>3. \A t \in r.wanted : dir'[t] = "recorded" \/ t \in ToSet(r.left)
      <4>1. r.wanted \subseteq Second
        BY <1>0 DEF WriterType
      <4> QED
        BY <1>0, <2>1, <3>1, <3>2, <4>1
    <3> QED
      BY <2>2, <3>1, <3>2, <3>3 DEF AloneSoFar
  <2> QED
    BY <1>0, <1>4, <2>1, <2>3, <2>4 DEF OnDisk
<1>8. CASE Sweep(w)
  <2>1. /\ UNCHANGED <<dir, whole>> /\ Written(w)
        /\ writer' = [writer EXCEPT ![w] = [writer[w] EXCEPT !.stale = Files \ writer[w].wanted]]
    BY <1>8 DEF Sweep
  <2>2. /\ writer'[w].open = writer[w].open /\ writer'[w].left = writer[w].left
        /\ writer'[w].stale = Files \ writer[w].wanted /\ writer'[w].busy
        /\ writer'[w].wanted = writer[w].wanted /\ writer'[w].alone = writer[w].alone
    BY <1>0, <1>2, <2>1 DEF WriterType
  <2>3. \A v \in Writing : ~writer'[v].busy => writer'[v].open = None
    BY <1>1, <2>2 DEF OnDisk
  <2>4. w = "record" => AloneSoFar'
    <3> SUFFICES ASSUME w = "record", writer'["record"].busy, writer'["record"].alone
                 PROVE  AloneSoFar'
      BY DEF AloneSoFar
    <3>0. r.busy /\ r.alone
      BY <1>2, <2>2
    <3>1. /\ ~q.busy /\ r.left = <<>> /\ r.open = None
          /\ \A t \in r.wanted : dir[t] = "recorded" \/ t = r.open \/ t \in ToSet(r.left)
      BY <3>0, <2>1 DEF OnDisk, AloneSoFar, Written
    <3>2. writer'["synth"].busy = q.busy
      BY <1>0, <1>1
    <3>3. \A t \in Second \ r.wanted : dir[t] = "none" \/ t \in Files \ r.wanted
      BY DEF Files
    <3> QED
      BY <2>1, <2>2, <3>1, <3>2, <3>3 DEF AloneSoFar
  <2> QED
    BY <1>0, <1>4, <1>12, <2>1, <2>3, <2>4 DEF OnDisk
<1>9. CASE RemoveFile(w)
  <2>1. PICK t \in writer[w].stale \cap Files :
            /\ dir' = [dir EXCEPT ![t] = "none"]
            /\ writer'[w] = [writer[w] EXCEPT !.stale = @ \ {t}]
    BY <1>9, RemoveIs
  <2>2. whole' = None /\ t \in Second /\ writer[w].stale # None /\ Written(w)
    BY <1>9, <2>1 DEF RemoveFile, Files
  <2>3. /\ writer'[w].open = writer[w].open /\ writer'[w].left = writer[w].left
        /\ writer'[w].stale = writer[w].stale \ {t} /\ writer'[w].busy
        /\ writer'[w].wanted = writer[w].wanted /\ writer'[w].alone = writer[w].alone
    BY <1>0, <1>2, <2>1 DEF WriterType
  <2>4. \A v \in Writing : ~writer'[v].busy => writer'[v].open = None
    BY <1>1, <2>3 DEF OnDisk
  <2>5. w = "record" => AloneSoFar'
    <3> SUFFICES ASSUME w = "record", writer'["record"].busy, writer'["record"].alone
                 PROVE  AloneSoFar'
      BY DEF AloneSoFar
    <3>0. r.busy /\ r.alone
      BY <1>2, <2>3
    <3>1. /\ ~q.busy /\ r.left = <<>> /\ r.open = None
          /\ \A u \in r.wanted : dir[u] = "recorded" \/ u = r.open \/ u \in ToSet(r.left)
          /\ r.stale \cap r.wanted = {}
          /\ \A u \in Second \ r.wanted : dir[u] = "none" \/ u \in r.stale
      BY <3>0, <2>2 DEF OnDisk, AloneSoFar
    <3>2. writer'["synth"].busy = q.busy
      BY <1>0, <1>1
    <3>3. \A u \in r.wanted : dir'[u] = "recorded" \/ u = r.open \/ u \in ToSet(r.left)
      <4>1. t \notin r.wanted /\ r.wanted \subseteq Second
        BY <1>0, <2>1, <3>1 DEF WriterType
      <4> QED
        BY <1>0, <2>1, <3>1, <4>1
    <3>4. \A u \in Second \ r.wanted : dir'[u] = "none" \/ u \in r.stale \ {t}
      BY <1>0, <2>1, <2>2, <3>1
    <3> QED
      BY <2>3, <3>1, <3>2, <3>3, <3>4 DEF AloneSoFar
  <2> QED
    BY <1>0, <1>4, <2>2, <2>4, <2>5 DEF OnDisk
<1>10. CASE Done(w)
  <2>1. /\ writer' = [writer EXCEPT ![w] = Idle] /\ dir' = dir
        /\ whole' = IF w = "record" /\ writer[w].alone THEN writer[w].wanted ELSE None
        /\ writer[w].stale = {} /\ writer[w].left = <<>> /\ writer[w].open = None
    BY <1>10 DEF Done, Written
  <2>2. writer'[w] = Idle
    BY <1>0, <2>1
  <2>3. \A v \in Writing : ~writer'[v].busy => writer'[v].open = None
    BY <1>1, <1>5, <2>2 DEF OnDisk
  <2>4. w = "record" => AloneSoFar'
    BY <1>5, <2>2 DEF AloneSoFar
  <2>5. whole' # None => \A t \in Second : dir'[t] = IF t \in whole' THEN "recorded" ELSE "none"
    <3> SUFFICES ASSUME w = "record", r.alone, NEW t \in Second
                 PROVE  dir[t] = IF t \in r.wanted THEN "recorded" ELSE "none"
      BY <2>1
    <3>1. r.stale = {} /\ r.stale # None /\ r.busy /\ r.left = <<>> /\ r.open = None
      BY <1>2, <2>1, FixtureAssumption
    <3>2. /\ \A u \in r.wanted : dir[u] = "recorded" \/ u = r.open \/ u \in ToSet(r.left)
          /\ \A u \in Second \ r.wanted : dir[u] = "none" \/ u \in r.stale
      BY <3>1 DEF OnDisk, AloneSoFar
    <3>3. ToSet(r.left) = {}
      BY <3>1 DEF ToSet
    <3>4. t # None
      BY <1>0
    <3> QED
      BY <3>1, <3>2, <3>3, <3>4
  <2> QED
    <3>1. whole' # None => \A v \in Writing : ~writer'[v].busy
      <4> SUFFICES ASSUME w = "record", r.alone PROVE \A v \in Writing : ~writer'[v].busy
        BY <2>1
      <4>1. ~q.busy
        BY <1>2 DEF OnDisk, AloneSoFar
      <4> QED
        BY <1>0, <1>1, <1>5, <2>2, <4>1
    <3> QED
      BY <1>0, <1>4, <2>3, <2>4, <2>5, <3>1 DEF OnDisk
<1>11. CASE Crash(w)
  <2>1. writer'[w] = Idle /\ UNCHANGED <<dir, whole>>
    BY <1>0, <1>11 DEF Crash
  <2>2. \A v \in Writing : ~writer'[v].busy => writer'[v].open = None
    BY <1>1, <1>5, <2>1 DEF OnDisk
  <2>3. w = "record" => AloneSoFar'
    BY <1>5, <2>1 DEF AloneSoFar
  <2> QED
    BY <1>0, <1>4, <1>12, <2>1, <2>2, <2>3 DEF OnDisk
<1> QED
  BY <1>6, <1>7, <1>8, <1>9, <1>10, <1>11

\* Every step does.
LEMMA OnDiskStep == Typed /\ OnDisk /\ [Next]_vars => OnDisk'
<1> SUFFICES ASSUME Typed, OnDisk, [Next]_vars
             PROVE  OnDisk'
  OBVIOUS
<1>1. CASE Become \/ Tick \/ Record
  BY <1>1, NotWriting DEF Become, Tick, Record
<1>2. CASE Receive
  <2>1. CASE Enough
    <3>1. /\ Begin("record", Append(tl, now)) /\ dir' = dir /\ "record" \in Writing
          /\ Append(tl, now) \in Seq(Second)
      BY <1>2, <2>1 DEF Receive, Writing, Typed
    <3> QED
      BY <3>1, OnDiskBegun
  <2>2. CASE ~Enough
    BY <1>2, <2>2, NotWriting DEF Receive
  <2> QED
    BY <2>1, <2>2
<1>3. CASE Synth
  <2>1. CASE IsRecorded
    BY <1>3, <2>1, NotWriting DEF Synth
  <2>2. CASE ~IsRecorded
    <3>1. /\ Begin("synth", SynthTimes) /\ dir' = dir /\ "synth" \in Writing
          /\ SynthTimes \in Seq(Second)
      BY <1>3, <2>2, FixtureAssumption DEF Synth, Writing, Second
    <3> QED
      BY <3>1, OnDiskBegun
  <2> QED
    BY <2>1, <2>2
<1>4. CASE Replay \/ Advance \/ Send \/ Look \/ Quit
         \/ \E x \in Reading : ReadDir(x) \/ ReadFile(x) \/ ReadFails(x)
  BY <1>4, NotWriting DEF ReadDir, ReadFile, ReadFails, Loads, Replay, Advance, Send, Look, Quit, Quiet
<1>5. CASE UNCHANGED vars
  BY <1>5, NotWriting DEF vars
<1> QED
  BY <1>1, <1>2, <1>3, <1>4, <1>5, OnDiskWritten DEF Next

\* Nothing is written and the directory is empty.
LEMMA SpacedAndOnDiskInit == Init => Spaced /\ OnDisk
<1> SUFFICES ASSUME Init
             PROVE  Spaced /\ OnDisk
  OBVIOUS
<1>1. /\ "record" \in Writing
      /\ \A w \in Writing : ~writer[w].busy /\ writer[w].open = None
  BY DEF Init, Idle, Writing
<1>2. /\ tl = None /\ whole = None /\ play.from = None
      /\ \A x \in Reading : loading[x].from = None
  BY DEF Init, NoPlay, NoLoad
<1> QED
  BY <1>1, <1>2 DEF Spaced, OnDisk, AloneSoFar

-----------------------------------------------------------------------------
(* What a load has read and has still to read.                             *)

InOrder(s) == \A i, j \in 1 .. Len(s) : i < j => Before(s[i], s[j])

\* What was read comes before what is still to be read, each in the order of the
\* names; what has been a whole recording all along has something to read, all of
\* it recorded.
Looks(l) ==
    /\ ~l.busy => l = NoLoad
    /\ InOrder(l.todo) /\ InOrder(l.got)
    /\ \A i \in 1 .. Len(l.got), j \in 1 .. Len(l.todo) : Before(l.got[i], l.todo[j])
    /\ l.got = <<>> => l.first = None
    /\ l.from # None =>
          /\ \A j \in 1 .. Len(l.todo) : l.todo[j] \in l.from
          /\ \A i \in 1 .. Len(l.got) : l.got[i] \in l.from
          /\ IF l.got = <<>> THEN l.todo # <<>> ELSE l.first = "recorded"

\* One replay after the other.
Looked ==
    /\ \A x \in Reading : Looks(loading[x])
    /\ loading["replay"].busy => ~play.on

\* Who has read nothing knows nothing.
LEMMA LooksAtNothing == Looks(NoLoad) /\ Looks([NoLoad EXCEPT !.busy = TRUE])
<1>1. \A i \in 1 .. Len(<<>>) : FALSE
  OBVIOUS
<1> QED
  BY <1>1 DEF Looks, InOrder, NoLoad

\* A load begins with what is listed.
LEMMA LooksAtListing ==
    ASSUME Typed, Spaced, OnDisk
    PROVE  Looks([NoLoad EXCEPT !.todo = Listing, !.from = whole, !.busy = TRUE])
<1> DEFINE l == [NoLoad EXCEPT !.todo = Listing, !.from = whole, !.busy = TRUE]
<1>1. l.todo = Listing /\ l.got = <<>> /\ l.first = None /\ l.from = whole /\ l.busy
  BY DEF NoLoad
<1>2. \A i \in 1 .. Len(<<>>) : FALSE
  OBVIOUS
<1>3. /\ InOrder(Listing) /\ Listing \in Seq(Second)
      /\ \A n \in 1 .. Len(Listing) : Listing[n] \in Second /\ dir[Listing[n]] # "none"
      /\ Files # {} => Len(Listing) >= 1
  BY ListingIsOrdered DEF InOrder, Files
<1>4. whole # None =>
          /\ \A j \in 1 .. Len(Listing) : Listing[j] \in whole
          /\ Listing # <<>>
  <2> SUFFICES ASSUME whole # None
               PROVE  (\A j \in 1 .. Len(Listing) : Listing[j] \in whole) /\ Listing # <<>>
    OBVIOUS
  <2>1. /\ \A t \in Second : dir[t] = IF t \in whole THEN "recorded" ELSE "none"
        /\ whole # {} /\ whole \subseteq Second
    BY DEF OnDisk, Spaced, Typed, Seconds
  <2>2. Files # {}
    BY <2>1 DEF Files
  <2>3. Len(<<>>) = 0 /\ ~(0 >= 1)
    OBVIOUS
  <2> QED
    BY <1>3, <2>1, <2>2, <2>3
<1> HIDE DEF l
<1>5. InOrder(<<>>)
  BY <1>2 DEF InOrder
<1> QED
  BY <1>1, <1>2, <1>3, <1>4, <1>5 DEF Looks, l

\* Reading one more file keeps it so.
LEMMA LooksOn ==
    ASSUME Typed, OnDisk, NEW x \in Reading, Looks(loading[x]), ReadFile(x)
    PROVE  Looks(loading'[x])
<1> DEFINE s == loading[x]
           h == Head(s.todo)
           d == dir[h]
           n == loading'[x]
<1>1. s \in LoadType /\ loading \in [Reading -> LoadType]
  BY DEF Typed
<1>2. /\ s.todo \in Seq(Second) /\ s.todo # <<>> /\ s.got \in Seq(Second)
      /\ d \in {"synthetic", "recorded"}
      /\ loading' = [loading EXCEPT
                       ![x].todo = Tail(@), ![x].got = Append(@, h),
                       ![x].first = IF @ = None THEN d ELSE @,
                       ![x].from = IF @ = whole THEN @ ELSE None]
  BY <1>1 DEF ReadFile, LoadType
<1>3. /\ h \in Second /\ h = s.todo[1] /\ Len(s.todo) \in Nat /\ Len(s.todo) >= 1
      /\ Tail(s.todo) \in Seq(Second) /\ Len(Tail(s.todo)) = Len(s.todo) - 1
      /\ \A i \in 1 .. Len(s.todo) - 1 : Tail(s.todo)[i] = s.todo[i + 1]
  BY <1>2, SequenceOfSeconds
<1> HIDE DEF d
<1> HIDE DEF h
<1>4. /\ n.todo = Tail(s.todo) /\ n.got = Append(s.got, h) /\ n.busy = s.busy
      /\ n.first = (IF s.first = None THEN d ELSE s.first)
      /\ n.from = (IF s.from = whole THEN s.from ELSE None)
  BY <1>1, <1>2 DEF LoadType
<1>5. s.busy
  BY <1>2 DEF Looks, NoLoad
<1> DEFINE T == Tail(s.todo)
           G == Append(s.got, h)
           k == Len(s.got)
           m == Len(s.todo)
<1>6. /\ k \in Nat /\ Len(G) = k + 1 /\ G[k + 1] = h /\ \A i \in 1 .. k : G[i] = s.got[i]
      /\ m \in Nat /\ m >= 1 /\ Len(T) = m - 1
      /\ \A j \in 1 .. m - 1 : T[j] = s.todo[j + 1] /\ j + 1 \in 1 .. m /\ 1 < j + 1 /\ j \in Int
      /\ 1 \in 1 .. m /\ G # <<>>
  <2>1. /\ k \in Nat /\ Len(G) = k + 1 /\ G[k + 1] = h /\ \A i \in 1 .. k : G[i] = s.got[i]
        /\ G # <<>>
    <3> DEFINE g == s.got
    <3>1. g \in Seq(Second) /\ h \in Second
      BY <1>2, <1>3
    <3> HIDE DEF g
    <3>2. /\ Len(g) \in Nat /\ Len(Append(g, h)) = Len(g) + 1 /\ Append(g, h)[Len(g) + 1] = h
          /\ \A i \in 1 .. Len(g) : Append(g, h)[i] = g[i]
          /\ Append(g, h) # <<>>
      BY <3>1
    <3> QED
      BY <3>2 DEF g
  <2>2. m \in Nat /\ m >= 1 /\ Len(T) = m - 1 /\ \A j \in 1 .. m - 1 : T[j] = s.todo[j + 1]
    BY <1>3
  <2>3. 1 \in 1 .. m /\ \A j \in 1 .. m - 1 : j + 1 \in 1 .. m /\ 1 < j + 1 /\ j \in Int
    <3> HIDE DEF m
    <3> QED
      BY <2>2
  <2> QED
    BY <2>1, <2>2, <2>3
<1>7. /\ \A i, j \in 1 .. m : i < j => Before(s.todo[i], s.todo[j])
      /\ \A i, j \in 1 .. k : i < j => Before(s.got[i], s.got[j])
      /\ \A i \in 1 .. k, j \in 1 .. m : Before(s.got[i], s.todo[j])
      /\ s.got = <<>> => s.first = None
      /\ s.from # None =>
            /\ \A j \in 1 .. m : s.todo[j] \in s.from
            /\ \A i \in 1 .. k : s.got[i] \in s.from
            /\ s.got # <<>> => s.first = "recorded"
  BY DEF Looks, InOrder
<1>8. s.from = whole /\ whole # None => d = "recorded" /\ h \in s.from
  <2>1. s.from = whole /\ whole # None => h \in whole
    BY <1>3, <1>6, <1>7
  <2> QED
    BY <1>3, <2>1 DEF OnDisk, d
<1>12. h = s.todo[1]
  BY <1>3
<1> HIDE DEF s, n, T, G, k, m
<1>9. \A i, j \in 1 .. m - 1 : i < j => Before(T[i], T[j])
  BY <1>6, <1>7
<1>13. \A i \in 1 .. k + 1 : i \in 1 .. k \/ i = k + 1
  BY <1>6
<1>10. \A i \in 1 .. k + 1, j \in 1 .. m - 1 : Before(G[i], T[j])
  BY <1>6, <1>7, <1>12, <1>13
<1>11. \A i, j \in 1 .. k + 1 : i < j => Before(G[i], G[j])
  <2> SUFFICES ASSUME NEW i \in 1 .. k + 1, NEW j \in 1 .. k + 1, i < j
               PROVE  Before(G[i], G[j])
    OBVIOUS
  <2>1. i \in 1 .. k
    BY <1>6
  <2> QED
    BY <1>6, <1>7, <1>12, <1>13, <2>1
<1>14. n.from # None =>
          /\ \A j \in 1 .. m - 1 : T[j] \in n.from
          /\ \A i \in 1 .. k + 1 : G[i] \in n.from
          /\ n.first = "recorded"
  <2> SUFFICES ASSUME n.from # None
               PROVE  /\ \A j \in 1 .. m - 1 : T[j] \in n.from
                      /\ \A i \in 1 .. k + 1 : G[i] \in n.from
                      /\ n.first = "recorded"
    OBVIOUS
  <2>1. s.from = whole /\ whole # None /\ n.from = s.from
    BY <1>4
  <2>2. n.first = "recorded"
    <3>1. CASE s.got = <<>>
      BY <1>4, <1>7, <1>8, <2>1, <3>1
    <3>2. CASE s.got # <<>>
      BY <1>4, <1>7, <1>8, <2>1, <3>2
    <3> QED
      BY <3>1, <3>2
  <2> QED
    BY <1>6, <1>7, <1>8, <1>13, <2>1, <2>2
<1>15. n.todo = T /\ n.got = G /\ Len(T) = m - 1 /\ Len(G) = k + 1 /\ n.busy /\ G # <<>>
  BY <1>4, <1>5, <1>6 DEF T, G
<1> QED
  BY <1>9, <1>10, <1>11, <1>14, <1>15 DEF Looks, InOrder, n

\* Every step does.
LEMMA LookedStep == Typed /\ Spaced /\ OnDisk /\ Looked /\ [Next]_vars => Looked'
<1> SUFFICES ASSUME Typed, Spaced, OnDisk, Looked, [Next]_vars
             PROVE  Looked'
  OBVIOUS
<1>0. /\ loading \in [Reading -> LoadType] /\ "replay" \in Reading /\ "synth" \in Reading
      /\ "replay" # "synth" /\ ~NoLoad.busy
      /\ Looks(NoLoad) /\ Looks([NoLoad EXCEPT !.busy = TRUE])
      /\ NoLoad = [NoLoad EXCEPT !.busy = FALSE]
  <2>1. ~NoLoad.busy
    BY DEF NoLoad
  <2>2. NoLoad = [NoLoad EXCEPT !.busy = FALSE]
    <3>1. NoLoad \in LoadType /\ NoLoad.busy = FALSE
      BY NoLoadType DEF NoLoad
    <3> QED
      BY <3>1 DEF LoadType
  <2> QED
    BY <2>1, <2>2, LooksAtNothing DEF Typed, Reading
<1>1. ASSUME NEW y \in Reading, NEW l, loading' = [loading EXCEPT ![y] = l], Looks(l),
             play'.on => play.on \/ y = "replay",
             (IF y = "replay" THEN l ELSE loading["replay"]).busy => ~play'.on
      PROVE  Looked'
  <2>1. \A x \in Reading : Looks(loading'[x])
    <3>1. \A x \in Reading : loading'[x] = l \/ loading'[x] = loading[x]
      BY <1>0, <1>1
    <3> QED
      BY <1>1, <3>1 DEF Looked
  <2>2. (\A x \in Reading : Looks(loading[x]))'
    BY <2>1 DEF Looks, InOrder, Before, NoLoad
  <2>3. loading'["replay"] = (IF y = "replay" THEN l ELSE loading["replay"])
    BY <1>0, <1>1
  <2> QED
    BY <1>1, <2>2, <2>3 DEF Looked
<1>2. ASSUME UNCHANGED loading, play'.on => play.on
      PROVE  Looked'
  <2>1. (\A x \in Reading : Looks(loading[x]))'
    <3>1. \A x \in Reading : Looks(loading'[x])
      BY <1>2 DEF Looked
    <3> QED
      BY <3>1 DEF Looks, InOrder, Before, NoLoad
  <2> QED
    BY <1>2, <2>1 DEF Looked
<1>3. ASSUME NEW y \in Reading, ReadDir(y)
      PROVE  Looked'
  <2> DEFINE l == [NoLoad EXCEPT !.todo = Listing, !.from = whole, !.busy = TRUE]
  <2>1. loading' = [loading EXCEPT ![y] = l] /\ play' = play /\ Looks(l)
    BY <1>3, LooksAtListing DEF ReadDir
  <2>2. y = "replay" => ~play.on
    BY <1>0, <1>3 DEF ReadDir
  <2> HIDE DEF l
  <2> QED
    BY <1>1, <2>1, <2>2 DEF Looked
<1>4. ASSUME NEW y \in Reading, ReadFile(y)
      PROVE  Looked'
  <2>1. Looks(loading[y]) /\ Looks(loading'[y]) /\ play' = play /\ loading' \in [Reading -> LoadType]
    BY <1>4, LooksOn, TypedStep DEF Looked, ReadFile, Loads, Next, Typed
  <2>2. \A x \in Reading \ {y} : loading'[x] = loading[x]
    BY <1>0, <1>4 DEF ReadFile
  <2>3. loading'[y].busy = loading[y].busy
    BY <1>0, <1>4 DEF ReadFile, LoadType
  <2>4. (\A x \in Reading : Looks(loading[x]))'
    <3>1. \A x \in Reading : Looks(loading'[x])
      BY <2>1, <2>2 DEF Looked
    <3> QED
      BY <3>1 DEF Looks, InOrder, Before, NoLoad
  <2>5. loading'["replay"].busy = loading["replay"].busy
    BY <1>0, <2>2, <2>3
  <2> QED
    BY <2>1, <2>4, <2>5 DEF Looked
<1>5. ASSUME NEW y \in Reading, ReadFails(y)
      PROVE  Looked'
  <2> DEFINE l == [NoLoad EXCEPT !.busy = (y = "synth")]
  <2>1. loading' = [loading EXCEPT ![y] = l] /\ play' = play
    BY <1>5 DEF ReadFails, Loads
  <2>2. Looks(l) /\ (y = "replay" => ~l.busy)
    BY <1>0 DEF Reading, NoLoad
  <2> HIDE DEF l
  <2> QED
    BY <1>1, <2>1, <2>2 DEF Looked
<1>6. CASE Synth
  <2>1. loading' = [loading EXCEPT !["synth"] = NoLoad] /\ play' = play
    BY <1>6 DEF Synth
  <2> QED
    BY <1>0, <1>1, <2>1 DEF Looked
<1>7. CASE Replay
  <2>1. loading' = [loading EXCEPT !["replay"] = NoLoad]
    BY <1>7 DEF Replay
  <2> QED
    BY <1>0, <1>1, <2>1
<1>8. CASE Advance \/ Send \/ Look \/ Quit
  <2>1. loading' = loading /\ (play'.on => play.on)
    BY <1>8 DEF Advance, Send, Look, Quit, Quiet, NoPlay, Typed
  <2> QED
    BY <1>2, <2>1
<1>9. CASE Become \/ Tick \/ Record \/ Receive \/ UNCHANGED vars
  BY <1>2, <1>9 DEF Become, Tick, Record, Receive, vars
<1>10. ASSUME NEW w \in Writing,
              OpenFile(w) \/ CloseFile(w) \/ Sweep(w) \/ RemoveFile(w) \/ Done(w) \/ Crash(w)
       PROVE  Looked'
  BY <1>2, <1>10, WritingKeepsWanted
<1> QED
  BY <1>3, <1>4, <1>5, <1>6, <1>7, <1>8, <1>9, <1>10 DEF Next

-----------------------------------------------------------------------------
(* What a replay shows.                                                    *)

\* What is left to send is of the recording, in the order of the names; the
\* clock is at the envelope that was prepared last, which is the one in the
\* renderer's hands or the one after it.
Playing ==
    /\ play.on =>
          /\ play.from # None => \A i \in 1 .. Len(play.left) : play.left[i] \in play.from
          /\ \A i, j \in 1 .. Len(play.left) : i < j => Before(play.left[i], play.left[j])
          /\ play.last # None => clock = play.last
    /\ view.of # None =>
          /\ play.on
          /\ play.last # None /\ play.last \in {view.of, view.next}
          /\ view.next = None => play.last = view.of /\ play.left = <<>>
          /\ view.next # None => play.left # <<>> /\ view.next = Head(play.left)
    /\ view.at # None =>
          /\ view.of # None
          /\ view.at \in {view.of, view.next}
          /\ view.next = None => view.at = view.of

\* What Load, the goroutine and the renderer do keeps it so.
LEMMA PlayingStep == Typed /\ Looked /\ Playing /\ [Next]_vars => Playing'
<1> SUFFICES ASSUME Typed, Looked, Playing, [Next]_vars
             PROVE  Playing'
  OBVIOUS
<1>0. /\ None \notin Second
      /\ play \in [left : Seq(Second), from : Seconds, last : Instant, once : BOOLEAN, on : BOOLEAN]
      /\ view \in [of : Instant, next : Instant, at : Instant]
      /\ clock \in Second
      /\ play.left # <<>> => Head(play.left) \in Second /\ Head(play.left) = play.left[1]
  BY NoneIsNoSecond, SequenceOfSeconds DEF Typed
<1>1. CASE UNCHANGED <<play, clock, view>>
  BY <1>1 DEF Playing, Before
<1>2. CASE Replay
  <2> DEFINE l == loading["replay"]
  <2>1. /\ play'.left = l.got /\ play'.from = l.from /\ play'.last = None /\ play'.on
        /\ view' = view /\ l.busy
    BY <1>2 DEF Replay, Loaded
  <2>2. view.of = None /\ view.at = None
    BY <2>1 DEF Looked, Playing
  <2>3. /\ l.from # None => \A i \in 1 .. Len(l.got) : l.got[i] \in l.from
        /\ \A i, j \in 1 .. Len(l.got) : i < j => Before(l.got[i], l.got[j])
    BY DEF Looked, Looks, InOrder, Reading
  <2> HIDE DEF l
  <2> QED
    BY <2>1, <2>2, <2>3 DEF Playing, Before
<1>3. CASE Advance
  <2>1. /\ play.on /\ play.left # <<>> /\ clock' = Head(play.left) /\ view' = view
        /\ play' = [play EXCEPT !.last = Head(play.left)]
    BY <1>3 DEF Advance
  <2>2. /\ play'.last = Head(play.left) /\ play'.left = play.left /\ play'.from = play.from
        /\ play'.on = play.on
    BY <1>0, <2>1
  <2>3. view.of # None => view.next = Head(play.left) /\ view.next # None
    BY <1>0, <2>1 DEF Playing
  <2>4. /\ play.from # None => \A i \in 1 .. Len(play.left) : play.left[i] \in play.from
        /\ \A i, j \in 1 .. Len(play.left) : i < j => Before(play.left[i], play.left[j])
    BY <2>1 DEF Playing
  <2>5. view.at # None => /\ view.of # None /\ view.at \in {view.of, view.next}
                          /\ view.next = None => view.at = view.of
    BY DEF Playing
  <2>6. Head(play.left) # None /\ play'.on
    BY <1>0, <2>1, <2>2
  <2> QED
    BY <2>1, <2>2, <2>3, <2>4, <2>5, <2>6 DEF Playing, Before
<1>4. CASE Send
  <2>1. /\ play.on /\ play.left # <<>> /\ play.last = Head(play.left) /\ clock' = clock
        /\ view' = [of |-> Head(play.left), at |-> None,
                    next |-> IF Len(play.left) > 1 THEN play.left[2] ELSE None]
        /\ play' = [play EXCEPT !.left = Tail(@)]
    BY <1>4 DEF Send
  <2>2. /\ Len(play.left) >= 1 /\ Len(play.left) \in Nat
        /\ Tail(play.left) \in Seq(Second)
        /\ Len(Tail(play.left)) = Len(play.left) - 1
        /\ \A i \in 1 .. Len(play.left) - 1 : Tail(play.left)[i] = play.left[i + 1]
    BY <1>0, <2>1, SequenceOfSeconds
  <2>3. /\ play'.last = play.last /\ play'.left = Tail(play.left) /\ play'.from = play.from
        /\ play'.on
    BY <1>0, <2>1
  <2>4. \A i \in 1 .. Len(Tail(play.left)) :
            i + 1 \in 1 .. Len(play.left) /\ Tail(play.left)[i] = play.left[i + 1] /\ i \in Int
    BY <2>2
  <2>5. play.from # None =>
            \A i \in 1 .. Len(Tail(play.left)) : Tail(play.left)[i] \in play.from
    BY <2>1, <2>4 DEF Playing
  <2>6. ASSUME NEW i \in 1 .. Len(Tail(play.left)), NEW j \in 1 .. Len(Tail(play.left)), i < j
        PROVE  Before(Tail(play.left)[i], Tail(play.left)[j])
    <3>1. i + 1 < j + 1
      BY <2>4, <2>6
    <3>2. Before(play.left[i + 1], play.left[j + 1])
      BY <2>1, <2>4, <3>1 DEF Playing
    <3> QED
      BY <2>4, <3>2
  <2>7. /\ view'.of = Head(play.left) /\ view'.at = None /\ view'.of # None
        /\ view'.next = IF Len(play.left) > 1 THEN play.left[2] ELSE None
    BY <1>0, <2>1
  <2>8. /\ view'.next = None => Tail(play.left) = <<>>
        /\ view'.next # None => Tail(play.left) # <<>> /\ view'.next = Head(Tail(play.left))
    <3> DEFINE n == Len(play.left)
    <3>0. n >= 1 /\ n \in Nat
      BY <2>2
    <3> HIDE DEF n
    <3>1. CASE Len(play.left) > 1
      <4>0. 1 \in 1 .. n - 1 /\ 1 + 1 = 2 /\ 2 \in 1 .. n /\ n - 1 >= 1
        BY <3>0, <3>1 DEF n
      <4>1. /\ Len(Tail(play.left)) >= 1 /\ Tail(play.left) # <<>>
            /\ Tail(play.left)[1] = play.left[2] /\ play.left[2] \in Second
        <5>1. Tail(play.left)[1] = play.left[2] /\ Len(Tail(play.left)) >= 1
          BY <2>2, <4>0 DEF n
        <5>2. Tail(play.left) # <<>>
          <6>1. Len(<<>>) = 0
            OBVIOUS
          <6>2. ~(0 >= 1)
            OBVIOUS
          <6> QED
            BY <5>1, <6>1, <6>2, Zenon
        <5>3. play.left[2] \in Second
          BY <1>0, <4>0, ElementOfSeq DEF n
        <5> QED
          BY <5>1, <5>2, <5>3
      <4>2. Head(Tail(play.left)) = Tail(play.left)[1]
        BY <2>2, <4>1, SequenceOfSeconds
      <4> QED
        BY <1>0, <2>7, <3>1, <4>1, <4>2
    <3>2. CASE ~(Len(play.left) > 1)
      <4>0. ~(n > 1)
        BY <3>2 DEF n
      <4>1. Len(Tail(play.left)) = 0
        <5>1. n - 1 = 0
          BY <3>0, <4>0
        <5> QED
          BY <2>2, <5>1 DEF n
      <4> QED
        BY <2>2, <2>7, <3>2, <4>1
    <3> QED
      BY <3>1, <3>2
  <2>9. clock' = play'.last /\ play'.last = view'.of
    BY <1>0, <2>1, <2>3, <2>7 DEF Playing
  <2> QED
    BY <2>3, <2>5, <2>6, <2>7, <2>8, <2>9 DEF Playing, Before
<1>5. CASE Look
  <2>1. /\ view.of # None /\ UNCHANGED <<play, clock>>
        /\ view'.at = clock /\ view'.of = view.of /\ view'.next = view.next
    BY <1>0, <1>5 DEF Look
  <2>2. /\ play.on /\ play.last # None /\ play.last \in {view.of, view.next}
        /\ view.next = None => play.last = view.of
    BY <2>1 DEF Playing
  <2>3. clock = play.last
    BY <2>2 DEF Playing
  <2> QED
    BY <2>1, <2>2, <2>3 DEF Playing, Before
<1>6. CASE Quit
  BY <1>6 DEF Quit, NoPlay, NoView, Playing
<1> QED
  BY <1>1, <1>2, <1>3, <1>4, <1>5, <1>6, WritingKeepsWanted
     DEF Next, Become, Tick, Record, Receive, Synth, ReadDir, ReadFile, ReadFails, Loads, vars

-----------------------------------------------------------------------------

\* All that is known of the recorder, the disk, the loads and the replay.
FixtureInv == Typed /\ Spaced /\ OnDisk /\ Looked /\ Playing

\* It holds in every state.
LEMMA FixtureInvariant == Spec => []FixtureInv
<1>1. Init => Playing
  BY DEF Init, NoPlay, NoView, Playing
<1>2. Init => Looked
  BY LooksAtNothing DEF Init, NoLoad, NoPlay, Looked
<1>3. FixtureInv /\ [Next]_vars => FixtureInv'
  BY TypedStep, SpacedStep, OnDiskStep, LookedStep, PlayingStep DEF FixtureInv
<1>4. Init => FixtureInv
  BY <1>1, <1>2, TypedInit, SpacedAndOnDiskInit DEF FixtureInv
<1> QED
  BY <1>3, <1>4, PTL DEF Spec

\* The variables have their types, and a recording that was written to its end,
\* alone, with nothing written since, is exactly what is on disk: whatever crashed
\* before it and whatever was there, no file of it is missing, torn or another's,
\* and none is left over (write.go:31-71).
THEOREM FixtureTypeOK == Spec => []TypeOK
<1>1. FixtureInv => TypeOK
  <2> SUFFICES ASSUME FixtureInv PROVE TypeOK
    OBVIOUS
  <2>1. \A w \in Writing :
            /\ writer[w].left \in Seq(Second) /\ writer[w].wanted \subseteq Second
            /\ writer[w].open # None => writer[w].open \in Second \cup {Gone} /\ writer[w].busy
            /\ writer[w].stale # None => writer[w].stale \subseteq Second
    <3> SUFFICES ASSUME NEW w \in Writing
                 PROVE  /\ writer[w].left \in Seq(Second) /\ writer[w].wanted \subseteq Second
                        /\ writer[w].open # None =>
                              writer[w].open \in Second \cup {Gone} /\ writer[w].busy
                        /\ writer[w].stale # None => writer[w].stale \subseteq Second
      OBVIOUS
    <3>1. writer[w] \in WriterType
      BY DEF FixtureInv, Typed
    <3>2. writer[w].open # None => writer[w].busy
      BY DEF FixtureInv, OnDisk
    <3> QED
      BY <3>1, <3>2 DEF WriterType, Instant, Seconds
  <2>2. \A x \in Reading :
            /\ loading[x].todo \in Seq(Second) /\ loading[x].got \in Seq(Second)
            /\ loading[x].first \in {None, "synthetic", "recorded"}
            /\ loading[x].from # None => loading[x].from \subseteq Second
    <3> SUFFICES ASSUME NEW x \in Reading
                 PROVE  /\ loading[x].todo \in Seq(Second) /\ loading[x].got \in Seq(Second)
                        /\ loading[x].first \in {None, "synthetic", "recorded"}
                        /\ loading[x].from # None => loading[x].from \subseteq Second
      OBVIOUS
    <3>1. loading[x] \in LoadType
      BY DEF FixtureInv, Typed
    <3> QED
      BY <3>1 DEF LoadType, Seconds
  <2>3. /\ play.left \in Seq(Second) /\ play.last \in Second \cup {None}
        /\ play.from # None => play.from \subseteq Second
        /\ view.of \in Second \cup {None} /\ view.next \in Second \cup {None}
        /\ view.at \in Second \cup {None}
    BY DEF FixtureInv, Typed, Instant, Seconds
  <2>4. /\ cluster \in {"missing", "running", "ready"} /\ now \in Second
        /\ tl = None \/ tl \in Seq(Second)
        /\ dir \in [Second -> Kind] /\ clock \in Second /\ starts \in 0 .. MaxStarts
    BY DEF FixtureInv, Typed
  <2>5. whole # None => \A t \in Second : dir[t] = IF t \in whole THEN "recorded" ELSE "none"
    BY DEF FixtureInv, OnDisk
  <2> QED
    BY <2>1, <2>2, <2>3, <2>4, <2>5 DEF TypeOK
<1> QED
  BY <1>1, FixtureInvariant, PTL

\* Whatever is written while it is loaded, a replay sends its envelopes in the
\* order they were taken, each once, as long as their names are equally long; what
\* was a whole recording for all of the load has no other envelope, and they are
\* an interval apart.  Each view is drawn at its own instant or the next one's,
\* the last one at its own (replay.go:17-18, write.go:14-18, 74).
THEOREM FixtureReplayIsTheTimeline == Spec => []ReplayIsTheTimeline
<1>1. FixtureInv => ReplayIsTheTimeline
  <2> SUFFICES ASSUME FixtureInv, play.on
               PROVE  /\ EquallyLong(ToSet(play.left)) =>
                            \A i, j \in 1 .. Len(play.left) : i < j =>
                                /\ play.left[i] < play.left[j]
                                /\ play.from # None => play.left[i] + Every <= play.left[j]
                      /\ play.from # None => ToSet(play.left) \subseteq play.from
                      /\ view.at # None => /\ view.at \in {view.of, view.next}
                                           /\ view.next = None => view.at = view.of
    BY DEF ReplayIsTheTimeline
  <2>1. /\ play.left \in Seq(Second)
        /\ play.from # None => \A i \in 1 .. Len(play.left) : play.left[i] \in play.from
        /\ \A i, j \in 1 .. Len(play.left) : i < j => Before(play.left[i], play.left[j])
        /\ play.from # None => Apart(play.from)
    BY DEF FixtureInv, Typed, Playing, Spaced, Seconds
  <2>2. ASSUME EquallyLong(ToSet(play.left)),
               NEW i \in 1 .. Len(play.left), NEW j \in 1 .. Len(play.left), i < j
        PROVE  /\ play.left[i] < play.left[j]
               /\ play.from # None => play.left[i] + Every <= play.left[j]
    <3>1. play.left[i] < play.left[j]
      <4>1. /\ play.left[i] \in ToSet(play.left) /\ play.left[j] \in ToSet(play.left)
            /\ play.left[i] \in Second /\ play.left[j] \in Second
        BY <2>1, SequenceOfSeconds, ElementOfSeq
      <4>2. /\ play.left[i] \in Nat /\ play.left[j] \in Nat /\ Wide \in Nat
        BY <4>1, FixtureAssumption DEF Second
      <4>3. (play.left[i] < Wide) = (play.left[j] < Wide)
        BY <2>2, <4>1, <4>2 DEF EquallyLong
      <4>4. Before(play.left[i], play.left[j])
        BY <2>1, <2>2
      <4> QED
        BY <4>3, <4>4 DEF Before
    <3> QED
      BY <2>1, <3>1 DEF Apart
  <2>3. play.from # None => ToSet(play.left) \subseteq play.from
    BY <2>1, SequenceOfSeconds
  <2> QED
    BY <2>2, <2>3 DEF FixtureInv, Playing
<1> QED
  BY <1>1, FixtureInvariant, PTL

\* A recording that was written to its end, alone, is overwritten or disturbed by
\* nothing but the next recording, or a `synth` that had not seen it at its every
\* look: one whose whole load was of that recording steps aside
\* (fixture.go:129-134, write.go:20-22).
THEOREM FixtureRecordingOutranksSynth == Spec => RecordingOutranksSynth
<1> DEFINE Kept == whole # None /\ whole' # whole =>
                      \/ Begins("record")
                      \/ Begins("synth") /\ loading["synth"].from # whole
<1>1. FixtureInv /\ [Next]_vars => Kept
  <2> SUFFICES ASSUME FixtureInv, [Next]_vars, whole # None, whole' # whole
               PROVE  Begins("record") \/ (Begins("synth") /\ loading["synth"].from # whole)
    OBVIOUS
  <2>1. "record" \in Writing /\ "synth" \in Writing /\ "synth" \in Reading
    BY DEF Writing, Reading
  <2>2. Typed /\ \A w \in Writing : ~writer[w].busy /\ writer[w].open = None
    BY DEF FixtureInv, OnDisk
  <2>3. ASSUME NEW w \in Writing,
               OpenFile(w) \/ CloseFile(w) \/ Sweep(w) \/ RemoveFile(w) \/ Done(w) \/ Crash(w)
        PROVE  FALSE
    BY <2>2, <2>3 DEF OpenFile, CloseFile, Sweep, RemoveFile, Done, Crash, Written
  <2>4. CASE Receive
    <3>1. Enough /\ Begin("record", Append(tl, now)) /\ Append(tl, now) \in Seq(Second)
      BY <2>2, <2>4 DEF Receive, Typed
    <3>2. writer'["record"].busy
      <4> DEFINE times == Append(tl, now)
      <4>1. Begin("record", times) /\ times \in Seq(Second)
        BY <3>1
      <4> HIDE DEF times
      <4>2. writer'["record"] = [left |-> times, wanted |-> ToSet(times), open |-> None,
                                 stale |-> None, alone |-> ~writer[Other("record")].busy,
                                 busy |-> TRUE]
        BY <2>1, <2>2, <4>1, BeginIs, Zenon
      <4> QED
        BY <4>2
    <3> QED
      BY <2>1, <2>2, <3>2 DEF Begins
  <2>5. CASE Synth
    <3>1. ~IsRecorded /\ Begin("synth", SynthTimes) /\ SynthTimes \in Seq(Second)
      BY <2>5, FixtureAssumption DEF Synth, Second
    <3>2. Begins("synth")
      <4>1. writer'["synth"] = [left |-> SynthTimes, wanted |-> ToSet(SynthTimes), open |-> None,
                                stale |-> None, alone |-> ~writer[Other("synth")].busy,
                                busy |-> TRUE]
        BY <2>1, <2>2, <3>1, BeginIs, Zenon
      <4> QED
        BY <2>1, <2>2, <4>1 DEF Begins
    <3>3. loading["synth"].from # whole
      <4>1. Looks(loading["synth"])
        BY <2>1 DEF FixtureInv, Looked
      <4>2. loading["synth"].todo = <<>> /\ loading["synth"].first # "recorded"
        BY <2>5, <3>1 DEF Synth, Loaded, IsRecorded
      <4> QED
        BY <4>1, <4>2 DEF Looks
    <3> QED
      BY <3>2, <3>3
  <2> QED
    BY <2>3, <2>4, <2>5
       DEF Next, Become, Tick, Record, ReadDir, ReadFile, ReadFails, Loads, Replay, Advance, Send,
           Look, Quit, Quiet, vars
<1> QED
  BY <1>1, FixtureInvariant, PTL DEF Spec, RecordingOutranksSynth
=============================================================================
