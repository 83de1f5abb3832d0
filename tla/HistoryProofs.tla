---------------------------- MODULE HistoryProofs ----------------------------
(***************************************************************************)
(* Proofs about History: types, that the history never lies, and that it   *)
(* is lost only to a failure or to a command that appends to a stale copy. *)
(***************************************************************************)
EXTENDS History, FiniteSetTheorems, FunctionTheorems, SequenceTheorems, TLAPS

-----------------------------------------------------------------------------
(* Lemmas on the window.                                                   *)

\* LastOf is the end of what it is given, no longer than the window.
LEMMA LastOfIsEnd ==
    ASSUME NEW S, NEW s \in Seq(S)
    PROVE  /\ LastOf(s) \in Seq(S)
           /\ EndOf(LastOf(s), s)
<1> USE HistoryAssumption
<1>1. CASE Len(s) > Window
  <2>1. LastOf(s) = SubSeq(s, Len(s) - Window + 1, Len(s))
    BY <1>1 DEF LastOf
  <2>2. /\ SubSeq(s, Len(s) - Window + 1, Len(s)) \in Seq(S)
        /\ Len(SubSeq(s, Len(s) - Window + 1, Len(s))) = Window
        /\ \A i \in 1..Window : SubSeq(s, Len(s) - Window + 1, Len(s))[i]
                                    = s[Len(s) - Window + i]
    BY <1>1
  <2> QED
    BY <1>1, <2>1, <2>2 DEF EndOf
<1>2. CASE ~(Len(s) > Window)
  BY <1>2 DEF LastOf, EndOf
<1> QED
  BY <1>1, <1>2

\* An entry appended to a list that is the end of a log makes it, trimmed to
\* the window, the end of the longer log.
LEMMA EndOfGrows ==
    ASSUME NEW S, NEW s \in Seq(S), NEW l \in Seq(S), NEW x \in S, EndOf(s, l)
    PROVE  EndOf(LastOf(Append(s, x)), Append(l, x))
<1> USE HistoryAssumption
<1> DEFINE t == Append(s, x)
           m == Append(l, x)
<1>1. /\ t \in Seq(S) /\ m \in Seq(S)
      /\ Len(t) = Len(s) + 1 /\ Len(m) = Len(l) + 1
      /\ \A i \in 1..Len(s) : t[i] = s[i]
      /\ \A i \in 1..Len(l) : m[i] = l[i]
      /\ t[Len(s) + 1] = x /\ m[Len(l) + 1] = x
  OBVIOUS
<1>2. LastOf(t) \in Seq(S) /\ EndOf(LastOf(t), t)
  BY <1>1, LastOfIsEnd
<1> DEFINE e == LastOf(t)
<1> HIDE DEF e, t, m
<1>3. /\ e \in Seq(S) /\ EndOf(e, t)
  BY <1>2 DEF e
<1>4. Len(e) = (IF Len(m) < Window THEN Len(m) ELSE Window)
  BY <1>1, <1>3 DEF EndOf
<1>5. ASSUME NEW i \in DOMAIN e
      PROVE  e[i] = m[Len(m) - Len(e) + i]
  <2>1. i \in 1..Len(e) /\ Len(e) =< Len(t)
    BY <1>1, <1>3 DEF EndOf
  <2>2. e[i] = t[Len(t) - Len(e) + i]
    BY <1>3, <2>1 DEF EndOf
  <2>3. CASE i = Len(e)
    BY <1>1, <1>3, <2>1, <2>2, <2>3
  <2>4. CASE i < Len(e)
    <3> DEFINE j == Len(t) - Len(e) + i
    <3>0. /\ Len(l) \in Nat /\ Len(s) \in Nat /\ Len(s) =< Len(l)
          /\ Len(e) \in Nat /\ Len(t) = Len(s) + 1
      <4>1. Len(l) \in Nat /\ Len(s) \in Nat /\ Len(e) \in Nat
        BY <1>3
      <4> QED
        BY <1>1, <4>1 DEF EndOf
    <3>1. j \in 1..Len(s)
      BY <2>1, <2>4, <3>0
    <3>2. t[j] = s[j]
      BY <1>1, <3>1
    <3>3. s[j] = l[Len(l) - Len(s) + j]
      <4>1. j \in DOMAIN s
        BY <3>0, <3>1
      <4> QED
        BY <4>1 DEF EndOf
    <3>4. /\ Len(l) - Len(s) + j = Len(m) - Len(e) + i
          /\ Len(l) - Len(s) + j \in 1..Len(l)
      BY <1>1, <1>3, <2>1, <3>0, <3>1
    <3> QED
      BY <1>1, <2>2, <3>2, <3>3, <3>4
  <2> QED
    BY <1>3, <2>1, <2>3, <2>4
<1> QED
  BY <1>4, <1>5 DEF EndOf, e, t, m

\* What is drawn from a log is drawn from the longer log.
LEMMA DrawnStays ==
    ASSUME NEW S, NEW s \in Seq(S), NEW l \in Seq(S), NEW x, DrawnFrom(s, l)
    PROVE  DrawnFrom(s, Append(l, x))
<1>1. \A j \in DOMAIN l : j \in DOMAIN Append(l, x) /\ Append(l, x)[j] = l[j]
  OBVIOUS
<1> QED
  BY <1>1 DEF DrawnFrom

\* The newest entry appended to log and list, and the list trimmed, is still
\* drawn from the log.
LEMMA DrawnGrows ==
    ASSUME NEW n \in Nat, NEW s \in Seq(1..n), NEW l \in Seq(1..n), DrawnFrom(s, l)
    PROVE  DrawnFrom(LastOf(Append(s, n + 1)), Append(l, n + 1))
<1> USE HistoryAssumption
<1> DEFINE t == Append(s, n + 1)
           m == Append(l, n + 1)
           e == LastOf(t)
<1>1. /\ t \in Seq(1..(n + 1)) /\ Len(t) = Len(s) + 1 /\ Len(s) \in Nat
      /\ \A i \in 1..Len(s) : t[i] = s[i] /\ t[i] \in 1..n
      /\ t[Len(s) + 1] = n + 1
      /\ DOMAIN s = 1..Len(s)
      /\ DOMAIN m = 1..(Len(l) + 1) /\ DOMAIN l = 1..Len(l) /\ Len(l) \in Nat
      /\ \A i \in 1..Len(l) : m[i] = l[i]
      /\ m[Len(l) + 1] = n + 1
  <2>1. s \in Seq(1..(n + 1)) /\ l \in Seq(1..(n + 1)) /\ n + 1 \in 1..(n + 1)
    OBVIOUS
  <2>2. t \in Seq(1..(n + 1)) /\ Len(t) = Len(s) + 1 /\ Len(s) \in Nat
    BY <2>1
  <2> QED
    BY <2>1, <2>2
<1>2. e \in Seq(1..(n + 1)) /\ EndOf(e, t)
  BY <1>1, LastOfIsEnd
<1> HIDE DEF t, m, e
<1>3. \A i, j \in 1..Len(t) : i < j => t[i] < t[j]
  <2> SUFFICES ASSUME NEW i \in 1..Len(t), NEW j \in 1..Len(t), i < j
               PROVE  t[i] < t[j]
    OBVIOUS
  <2>1. i \in 1..Len(s) /\ t[i] = s[i] /\ t[i] \in 1..n
    <3>1. Len(t) = Len(s) + 1 /\ Len(s) \in Nat
      BY <1>1
    <3>2. i \in 1..Len(s)
      BY <3>1
    <3> QED
      BY <1>1, <3>2
  <2>2. CASE j = Len(s) + 1
    <3>1. t[j] = n + 1
      BY <1>1, <2>2
    <3> QED
      BY <2>1, <3>1
  <2>3. CASE j \in 1..Len(s)
    <3>1. t[j] = s[j] /\ i \in DOMAIN s /\ j \in DOMAIN s
      BY <1>1, <2>1, <2>3
    <3> QED
      BY <2>1, <3>1 DEF DrawnFrom
  <2>4. j \in 1..(Len(s) + 1) /\ Len(s) \in Nat
    <3> HIDE HistoryAssumption
    <3> QED
      BY <1>1
  <2>5. j = Len(s) + 1 \/ j \in 1..Len(s)
    BY <2>4
  <2> QED
    BY <2>2, <2>3, <2>5
<1>4. \A i \in 1..Len(t) : \E j \in DOMAIN m : t[i] = m[j]
  <2> SUFFICES ASSUME NEW i \in 1..Len(t)
               PROVE  \E j \in DOMAIN m : t[i] = m[j]
    OBVIOUS
  <2>1. CASE i = Len(s) + 1
    <3>1. Len(l) + 1 \in DOMAIN m /\ t[i] = m[Len(l) + 1]
      BY <1>1, <2>1
    <3> QED
      BY <3>1
  <2>2. CASE i \in 1..Len(s)
    <3>1. i \in DOMAIN s
      BY <1>1, <2>2
    <3>2. PICK j \in DOMAIN l : s[i] = l[j]
      BY <3>1 DEF DrawnFrom
    <3> QED
      BY <1>1, <2>2, <3>2
  <2> QED
    BY <1>1, <2>1, <2>2
<1>5. /\ Len(e) \in Nat /\ Len(e) =< Window /\ Len(e) =< Len(t) /\ Len(t) \in Nat
      /\ DOMAIN e = 1..Len(e)
  BY <1>1, <1>2 DEF EndOf
<1>6. \A i \in 1..Len(e) : /\ Len(t) - Len(e) + i \in 1..Len(t)
                           /\ e[i] = t[Len(t) - Len(e) + i]
  <2> SUFFICES ASSUME NEW i \in 1..Len(e)
               PROVE  /\ Len(t) - Len(e) + i \in 1..Len(t)
                      /\ e[i] = t[Len(t) - Len(e) + i]
    OBVIOUS
  <2>1. Len(t) - Len(e) + i \in 1..Len(t)
    BY <1>5
  <2>2. e[i] = t[Len(t) - Len(e) + i]
    BY <1>2, <1>5 DEF EndOf
  <2> QED
    BY <2>1, <2>2
<1>7. \A i, j \in DOMAIN e : i < j => e[i] < e[j]
  <2> SUFFICES ASSUME NEW i \in 1..Len(e), NEW j \in 1..Len(e), i < j
               PROVE  e[i] < e[j]
    BY <1>5
  <2>1. Len(t) - Len(e) + i < Len(t) - Len(e) + j
    BY <1>5
  <2> QED
    BY <1>3, <1>6, <2>1
<1>8. ASSUME NEW i \in DOMAIN e
      PROVE  \E j \in DOMAIN m : e[i] = m[j]
  <2>1. i \in 1..Len(e)
    BY <1>5
  <2> DEFINE o == Len(t) - Len(e) + i
  <2>2. o \in 1..Len(t) /\ e[i] = t[o]
    BY <1>6, <2>1
  <2> HIDE DEF o
  <2> QED
    BY <1>4, <2>2
<1>9. DrawnFrom(e, m)
  BY <1>5, <1>7, <1>8 DEF DrawnFrom
<1> QED
  BY <1>9 DEF e, t, m

-----------------------------------------------------------------------------
(* One entry noted.                                                        *)

\* What Note changes, and that it keeps the types.
LEMMA NoteAdds ==
    ASSUME TypeOK, NEW p \in Process, todo[p] # <<>>, Note(p)
    PROVE  LET k == Head(todo[p]) IN
           /\ k \in Key
           /\ appends' = appends + 1
           /\ Lists \subseteq Lists'
           /\ log' \in Lists'
           /\ log'[k] = Append(log[k], appends + 1)
           /\ \A j \in Key \ {k} : log'[j] = log[j]
           /\ Kept \subseteq Kept'
           /\ copy' \in [Process -> [loaded : BOOLEAN, lists : Kept']]
           /\ \A q \in Process \ {p} : copy'[q] = copy[q]
           /\ copy'[p].loaded = copy[p].loaded
           /\ copy'[p].lists[k] = LastOf(Append(copy[p].lists[k], appends + 1))
           /\ \A j \in Key \ {k} : copy'[p].lists[j] = copy[p].lists[j]
           /\ todo' \in [Process -> Seq(Key)]
<1> USE HistoryAssumption
<1> DEFINE k == Head(todo[p])
           n == appends + 1
           lists == copy[p].lists
<1>1. k \in Key /\ Tail(todo[p]) \in Seq(Key)
  BY DEF TypeOK
<1>2. appends' = n /\ appends \in Nat
  BY DEF Note, TypeOK
<1>3. Seq(1..appends) \subseteq Seq(1..n) /\ n \in 1..n
  BY <1>2
<1>4. /\ Lists' = [Key -> Seq(1..n)] /\ Lists \subseteq Lists'
      /\ Kept \subseteq Kept'
      /\ \A l \in Lists' : (\A j \in Key : Len(l[j]) =< Window) => l \in Kept'
  BY <1>2, <1>3 DEF Lists, Kept
<1>5. /\ log \in [Key -> Seq(1..n)] /\ lists \in [Key -> Seq(1..n)]
      /\ \A j \in Key : Len(lists[j]) =< Window
  BY <1>3 DEF TypeOK, Lists, Kept
<1>6. log' = [log EXCEPT ![k] = Append(log[k], n)]
  BY DEF Note
<1>7. Append(log[k], n) \in Seq(1..n) /\ Append(lists[k], n) \in Seq(1..n)
  BY <1>1, <1>3, <1>5
<1>8. LastOf(Append(lists[k], n)) \in Seq(1..n) /\ Len(LastOf(Append(lists[k], n))) =< Window
  <2>1. LastOf(Append(lists[k], n)) \in Seq(1..n) /\ EndOf(LastOf(Append(lists[k], n)), Append(lists[k], n))
    BY <1>7, LastOfIsEnd
  <2>2. Len(Append(lists[k], n)) \in Nat
    BY <1>7
  <2> QED
    BY <2>1, <2>2 DEF EndOf
<1>9. Extended(lists, k) = [lists EXCEPT ![k] = LastOf(Append(lists[k], n))]
  BY DEF Extended
<1>10. Extended(lists, k) \in Kept'
  <2>1. Extended(lists, k) \in [Key -> Seq(1..n)]
    BY <1>1, <1>5, <1>8, <1>9
  <2>2. \A j \in Key : Len(Extended(lists, k)[j]) =< Window
    BY <1>1, <1>5, <1>8, <1>9
  <2> QED
    BY <1>4, <2>1, <2>2
<1>11. copy' = [copy EXCEPT ![p] = [copy[p] EXCEPT !.lists = Extended(lists, k)]]
  BY DEF Note
<1>12. copy \in [Process -> [loaded : BOOLEAN, lists : Kept']]
  BY <1>4 DEF TypeOK
<1>13. [copy[p] EXCEPT !.lists = Extended(lists, k)] \in [loaded : BOOLEAN, lists : Kept']
  BY <1>4, <1>10, <1>12
<1>14. copy' \in [Process -> [loaded : BOOLEAN, lists : Kept']]
  BY <1>11, <1>12, <1>13
<1>15. /\ \A q \in Process \ {p} : copy'[q] = copy[q]
       /\ copy'[p] = [copy[p] EXCEPT !.lists = Extended(lists, k)]
  BY <1>11, <1>12
<1>16. copy'[p].loaded = copy[p].loaded /\ copy'[p].lists = Extended(lists, k)
  BY <1>12, <1>15
<1>17. log' \in Lists'
  BY <1>1, <1>4, <1>5, <1>6, <1>7
<1>18. todo' \in [Process -> Seq(Key)]
  BY <1>1 DEF Note, TypeOK
<1>19. /\ log'[k] = Append(log[k], n)
       /\ \A j \in Key \ {k} : log'[j] = log[j]
  BY <1>1, <1>5, <1>6
<1>20. /\ copy'[p].lists[k] = LastOf(Append(lists[k], n))
       /\ \A j \in Key \ {k} : copy'[p].lists[j] = lists[j]
  BY <1>1, <1>5, <1>9, <1>16
<1> HIDE DEF k, n, lists
<1>21. /\ k \in Key /\ appends' = n /\ Lists \subseteq Lists' /\ log' \in Lists'
       /\ Kept \subseteq Kept'
       /\ copy'[p].loaded = copy[p].loaded
       /\ \A q \in Process \ {p} : copy'[q] = copy[q]
  BY <1>1, <1>2, <1>4, <1>15, <1>16, <1>17
<1> QED
  BY <1>14, <1>18, <1>19, <1>20, <1>21, Zenon DEF k, n, lists

-----------------------------------------------------------------------------
(* Types.                                                                  *)

\* Nothing is known and nothing is recorded at first.
LEMMA TypeInit == Init => TypeOK
<1> USE HistoryAssumption
<1>1. appends = 0 => NoLists \in Lists /\ NoLists \in Kept
  BY DEF NoLists, Lists, Kept
<1> QED
  BY <1>1 DEF Init, TypeOK, Absent, NotLoaded

\* What a write cut short leaves has the types of a file, and each of its lists
\* is the writer's, the file's or empty.
LEMMA CutShortIsAFile ==
    ASSUME TypeOK, NEW p \in Process, NEW f \in CutShort(p)
    PROVE  /\ f \in [state : {"absent", "truncated", "torn", "whole"}, lists : Kept]
           /\ f.state # "whole" => f.lists = NoLists
           /\ \A k \in Key : f.lists[k] \in {file.lists[k], NoLists[k], copy[p].lists[k]}
<1>1. NoLists \in Kept /\ copy[p].lists \in Kept /\ file.lists \in Kept
  BY HistoryAssumption DEF NoLists, TypeOK, Lists, Kept
<1>2. CASE f \in {file, Torn, Whole(copy[p].lists)}
  BY <1>1, <1>2 DEF TypeOK, Torn, Whole
<1>3. ASSUME NEW S \in SUBSET Key,
             f = Whole([k \in Key |-> IF k \in S THEN copy[p].lists[k] ELSE file.lists[k]])
      PROVE  /\ f \in [state : {"absent", "truncated", "torn", "whole"}, lists : Kept]
             /\ f.state # "whole" => f.lists = NoLists
             /\ \A k \in Key : f.lists[k] \in {file.lists[k], NoLists[k], copy[p].lists[k]}
  <2> DEFINE mixed == [k \in Key |-> IF k \in S THEN copy[p].lists[k] ELSE file.lists[k]]
  <2>1. /\ mixed \in Kept
        /\ \A k \in Key : mixed[k] \in {file.lists[k], copy[p].lists[k]}
    BY <1>1 DEF Lists, Kept
  <2> HIDE DEF mixed
  <2>2. f = Whole(mixed)
    BY <1>3 DEF mixed
  <2> QED
    BY <2>1, <2>2 DEF Whole
<1> QED
  BY <1>2, <1>3 DEF CutShort

\* Every step keeps the types.
LEMMA TypeStep == TypeOK /\ [Next]_vars => TypeOK'
<1> USE HistoryAssumption
<1> SUFFICES ASSUME TypeOK, [Next]_vars
             PROVE  TypeOK'
  OBVIOUS
<1>0. NoLists \in Kept /\ appends \in Nat
  BY DEF NoLists, TypeOK, Lists, Kept
<1>1. ASSUME NEW p \in Process, Start(p)
      PROVE  TypeOK'
  <2>1. started' \in 0..MaxRuns
    BY <1>1 DEF Start, TypeOK
  <2>2. pc' \in [Process -> {"off", "follow", "record", "write"}]
    BY <1>1 DEF Start, TypeOK
  <2> QED
    BY <1>1, <2>1, <2>2 DEF Start, TypeOK, Lists, Kept, store, ghost
<1>2. ASSUME NEW p \in Process, Load(p) \/ LoadFails(p)
      PROVE  TypeOK'
  <2>1. PICK lists \in Kept : copy' = [copy EXCEPT ![p] = Loaded(lists)]
    BY <1>0, <1>2 DEF Load, LoadFails, TypeOK
  <2>2. copy' \in [Process -> [loaded : BOOLEAN, lists : Kept]]
    BY <2>1 DEF Loaded, TypeOK
  <2>3. disturbed' \in [Process -> BOOLEAN]
    BY <1>2, Zenon DEF Load, LoadFails, TypeOK
  <2>4. UNCHANGED <<file, pc, todo, started, appends, log, intact>>
    BY <1>2 DEF Load, LoadFails
  <2> QED
    BY <2>2, <2>3, <2>4 DEF TypeOK, Lists, Kept
<1>3. ASSUME NEW p \in Process, Ready(p)
      PROVE  TypeOK'
  <2>1. todo' \in [Process -> Seq(Key)]
    BY <1>3 DEF Ready, TypeOK
  <2> QED
    BY <1>3, <2>1 DEF Ready, TypeOK, Lists, Kept, store, ghost
<1>4. ASSUME NEW p \in Process, AppendEntry(p)
      PROVE  TypeOK'
  <2>1. /\ log' \in Lists'
        /\ copy' \in [Process -> [loaded : BOOLEAN, lists : Kept']]
        /\ todo' \in [Process -> Seq(Key)]
        /\ appends' = appends + 1
        /\ Kept \subseteq Kept'
    BY <1>4, NoteAdds DEF AppendEntry
  <2>2. file' = Truncated /\ NoLists' = NoLists /\ NoLists \in Kept'
    BY <1>0, <1>4, <2>1 DEF AppendEntry, NoLists
  <2>3. /\ file' \in [state : {"absent", "truncated", "torn", "whole"}, lists : Kept']
        /\ file'.lists = NoLists'
    BY <2>2 DEF Truncated
  <2>4. disturbed' \in [Process -> BOOLEAN] /\ intact' \in BOOLEAN
    BY <1>4, Zenon DEF AppendEntry, TypeOK
  <2>5. pc' \in [Process -> {"off", "follow", "record", "write"}] /\ started' = started
    BY <1>4 DEF AppendEntry, TypeOK
  <2> QED
    BY <1>0, <2>1, <2>3, <2>4, <2>5 DEF TypeOK
<1>5. ASSUME NEW p \in Process, AppendFails(p)
      PROVE  TypeOK'
  <2>1. /\ log' \in Lists'
        /\ copy' \in [Process -> [loaded : BOOLEAN, lists : Kept']]
        /\ todo' \in [Process -> Seq(Key)]
        /\ appends' = appends + 1
        /\ Kept \subseteq Kept'
    BY <1>5, NoteAdds DEF AppendFails
  <2>2. file' = file /\ NoLists' = NoLists
    BY <1>5 DEF AppendFails, NoLists
  <2>3. /\ file' \in [state : {"absent", "truncated", "torn", "whole"}, lists : Kept']
        /\ file'.state # "whole" => file'.lists = NoLists'
    BY <2>1, <2>2 DEF TypeOK
  <2>4. disturbed' \in [Process -> BOOLEAN] /\ intact' \in BOOLEAN
    BY <1>5 DEF AppendFails, TypeOK
  <2> QED
    BY <1>0, <1>5, <2>1, <2>3, <2>4 DEF AppendFails, TypeOK
<1>6. ASSUME NEW p \in Process, Write(p) \/ WriteFails(p)
      PROVE  TypeOK'
  <2>1. UNCHANGED <<copy, todo, started, appends, log>>
    BY <1>6 DEF Write, WriteFails, ghost
  <2>2. file' \in CutShort(p)
    BY <1>6 DEF Write, WriteFails, CutShort
  <2>3. Lists' = Lists /\ Kept' = Kept /\ NoLists' = NoLists
    BY <2>1 DEF Lists, Kept, NoLists
  <2>4. /\ file' \in [state : {"absent", "truncated", "torn", "whole"}, lists : Kept']
        /\ file'.state # "whole" => file'.lists = NoLists'
    BY <2>2, <2>3, CutShortIsAFile
  <2>5. /\ pc' \in [Process -> {"off", "follow", "record", "write"}]
        /\ disturbed' \in [Process -> BOOLEAN]
        /\ intact' \in BOOLEAN
    BY <1>6 DEF Write, WriteFails, TypeOK, ghost
  <2> QED
    BY <2>1, <2>3, <2>4, <2>5 DEF TypeOK
<1>7. ASSUME NEW p \in Process, Exit(p) \/ KilledIdle(p) \/ KilledWriting(p)
      PROVE  TypeOK'
  <2>1. Gone(p)
    BY <1>7 DEF Exit, KilledIdle, KilledWriting
  <2>2. UNCHANGED <<started, appends, log>>
    BY <2>1 DEF Gone
  <2>3. Lists' = Lists /\ Kept' = Kept /\ NoLists' = NoLists
    BY <2>2 DEF Lists, Kept, NoLists
  <2>4. file' \in CutShort(p) /\ intact' \in BOOLEAN
    BY <1>7 DEF Exit, KilledIdle, KilledWriting, CutShort, TypeOK
  <2>5. /\ file' \in [state : {"absent", "truncated", "torn", "whole"}, lists : Kept']
        /\ file'.state # "whole" => file'.lists = NoLists'
    BY <2>3, <2>4, CutShortIsAFile
  <2>6. copy' \in [Process -> [loaded : BOOLEAN, lists : Kept']]
    BY <1>0, <2>1, <2>3 DEF Gone, NotLoaded, TypeOK
  <2>7. /\ pc' \in [Process -> {"off", "follow", "record", "write"}]
        /\ todo' \in [Process -> Seq(Key)]
        /\ disturbed' \in [Process -> BOOLEAN]
    BY <2>1 DEF Gone, TypeOK
  <2> QED
    BY <2>2, <2>3, <2>4, <2>5, <2>6, <2>7 DEF TypeOK
<1>8. CASE UNCHANGED vars
  BY <1>8 DEF vars, TypeOK, Lists, Kept, NoLists
<1> QED
  BY <1>1, <1>2, <1>3, <1>4, <1>5, <1>6, <1>7, <1>8 DEF Next

\* The variables have their types in every state.
THEOREM HistoryTypeOK == Spec => []TypeOK
<1> QED
  BY TypeInit, TypeStep, PTL DEF Spec

-----------------------------------------------------------------------------
(* The history does not lie.                                               *)

\* Every list of an empty history is drawn from any log.
LEMMA NoListsAreDrawn ==
    ASSUME NEW k \in Key, NEW l
    PROVE  DrawnFrom(NoLists[k], l)
BY HistoryAssumption DEF NoLists, DrawnFrom

\* Nothing is invented when an entry is noted: all lists are drawn from the
\* longer logs, those of the process that notes it too.
LEMMA NoteInventsNothing ==
    ASSUME TypeOK, NothingInvented, NEW p \in Process, todo[p] # <<>>, Note(p),
           NEW k \in Key
    PROVE  /\ DrawnFrom(file.lists[k], log'[k])
           /\ \A q \in Process : DrawnFrom(copy'[q].lists[k], log'[k])
<1> DEFINE h == Head(todo[p])
           n == appends + 1
<1>1. /\ h \in Key
      /\ log'[h] = Append(log[h], n)
      /\ \A j \in Key \ {h} : log'[j] = log[j]
      /\ \A q \in Process \ {p} : copy'[q] = copy[q]
      /\ copy'[p].lists[h] = LastOf(Append(copy[p].lists[h], n))
      /\ \A j \in Key \ {h} : copy'[p].lists[j] = copy[p].lists[j]
  BY NoteAdds
<1> HIDE DEF h
<1>2. /\ log[k] \in Seq(1..appends) /\ file.lists[k] \in Seq(1..appends)
      /\ \A q \in Process : copy[q].lists[k] \in Seq(1..appends)
      /\ appends \in Nat
  BY DEF TypeOK, Lists, Kept
<1>3. /\ DrawnFrom(file.lists[k], log[k])
      /\ \A q \in Process : DrawnFrom(copy[q].lists[k], log[k])
  BY DEF NothingInvented
<1>4. CASE k # h
  <2>1. log'[k] = log[k] /\ \A q \in Process : copy'[q].lists[k] = copy[q].lists[k]
    BY <1>1, <1>4
  <2> QED
    BY <1>3, <2>1
<1>5. CASE k = h
  <2>1. log'[k] = Append(log[k], n)
    BY <1>1, <1>5
  <2>2. DrawnFrom(file.lists[k], log'[k])
    BY <1>2, <1>3, <2>1, DrawnStays
  <2>3. ASSUME NEW q \in Process
        PROVE  DrawnFrom(copy'[q].lists[k], log'[k])
    <3>1. CASE q # p
      <4>1. copy'[q].lists[k] = copy[q].lists[k]
        BY <1>1, <3>1
      <4>2. DrawnFrom(copy[q].lists[k], log'[k])
        BY <1>2, <1>3, <2>1, DrawnStays
      <4> QED
        BY <4>1, <4>2
    <3>2. CASE q = p
      <4>1. copy'[q].lists[k] = LastOf(Append(copy[q].lists[k], n))
        BY <1>1, <1>5, <3>2
      <4>2. DrawnFrom(LastOf(Append(copy[q].lists[k], n)), Append(log[k], n))
        BY <1>2, <1>3, DrawnGrows
      <4> QED
        BY <2>1, <4>1, <4>2
    <3> QED
      BY <3>1, <3>2
  <2> QED
    BY <2>2, <2>3
<1> QED
  BY <1>4, <1>5

\* A step that notes nothing only moves lists about, or drops them.
LEMMA MovesInventNothing ==
    ASSUME TypeOK, NothingInvented, UNCHANGED log,
           \A k \in Key : file'.lists[k] \in {file.lists[k], NoLists[k]}
                                                \cup {copy[q].lists[k] : q \in Process},
           \A q \in Process : copy'[q].lists \in {copy[q].lists, file.lists, NoLists}
    PROVE  NothingInvented'
<1> SUFFICES ASSUME NEW k \in Key
             PROVE  /\ DrawnFrom(file'.lists[k], log[k])
                    /\ \A q \in Process : DrawnFrom(copy'[q].lists[k], log[k])
  BY DEF NothingInvented, DrawnFrom
<1>1. /\ DrawnFrom(file.lists[k], log[k])
      /\ DrawnFrom(NoLists[k], log[k])
      /\ \A q \in Process : DrawnFrom(copy[q].lists[k], log[k])
  BY NoListsAreDrawn DEF NothingInvented
<1> QED
  BY <1>1

\* Every step keeps the history true.
LEMMA NothingInventedStep == TypeOK /\ NothingInvented /\ [Next]_vars => NothingInvented'
<1> SUFFICES ASSUME TypeOK, NothingInvented, [Next]_vars
             PROVE  NothingInvented'
  OBVIOUS
<1>1. ASSUME NEW p \in Process, AppendEntry(p) \/ AppendFails(p)
      PROVE  NothingInvented'
  <2>1. todo[p] # <<>> /\ Note(p) /\ file' \in {Truncated, file}
    BY <1>1 DEF AppendEntry, AppendFails
  <2>2. ASSUME NEW k \in Key
        PROVE  /\ DrawnFrom(file'.lists[k], log'[k])
               /\ \A q \in Process : DrawnFrom(copy'[q].lists[k], log'[k])
    <3>1. /\ DrawnFrom(file.lists[k], log'[k])
          /\ \A q \in Process : DrawnFrom(copy'[q].lists[k], log'[k])
      BY <2>1, NoteInventsNothing
    <3>2. DrawnFrom(NoLists[k], log'[k])
      BY NoListsAreDrawn
    <3>3. file'.lists \in {file.lists, NoLists}
      BY <2>1 DEF Truncated
    <3> QED
      BY <3>1, <3>2, <3>3
  <2> QED
    BY <2>2 DEF NothingInvented, DrawnFrom
<1>2. ASSUME NEW p \in Process, Load(p) \/ LoadFails(p)
      PROVE  NothingInvented'
  <2>1. /\ UNCHANGED <<file, log>>
        /\ \E lists \in {file.lists, NoLists} : copy' = [copy EXCEPT ![p] = Loaded(lists)]
    BY <1>2 DEF Load, LoadFails
  <2>2. ASSUME NEW q \in Process
        PROVE  copy'[q].lists \in {copy[q].lists, file.lists, NoLists}
    <3>1. PICK lists \in {file.lists, NoLists} : copy' = [copy EXCEPT ![p] = Loaded(lists)]
      BY <2>1
    <3>2. copy'[q] = IF q = p THEN Loaded(lists) ELSE copy[q]
      BY <3>1 DEF TypeOK
    <3>3. Loaded(lists).lists = lists
      BY DEF Loaded
    <3> QED
      BY <3>2, <3>3
  <2> QED
    BY <2>1, <2>2, MovesInventNothing
<1>3. ASSUME NEW p \in Process, Write(p) \/ WriteFails(p)
      PROVE  NothingInvented'
  <2>1. UNCHANGED <<copy, log>> /\ file' \in CutShort(p)
    BY <1>3 DEF Write, WriteFails, CutShort
  <2>2. \A k \in Key : file'.lists[k] \in {file.lists[k], NoLists[k], copy[p].lists[k]}
    BY <2>1, CutShortIsAFile
  <2> QED
    BY <2>1, <2>2, MovesInventNothing
<1>4. ASSUME NEW p \in Process, Exit(p) \/ KilledIdle(p) \/ KilledWriting(p)
      PROVE  NothingInvented'
  <2>1. Gone(p) /\ file' \in CutShort(p)
    BY <1>4 DEF Exit, KilledIdle, KilledWriting, CutShort
  <2>2. /\ UNCHANGED log
        /\ \A k \in Key : file'.lists[k] \in {file.lists[k], NoLists[k], copy[p].lists[k]}
    BY <2>1, CutShortIsAFile DEF Gone
  <2>3. \A q \in Process : copy'[q].lists \in {copy[q].lists, NoLists}
    BY <2>1 DEF Gone, NotLoaded, TypeOK
  <2> QED
    BY <2>2, <2>3, MovesInventNothing
<1>5. ASSUME NEW p \in Process, Start(p) \/ Ready(p)
      PROVE  NothingInvented'
  <2>1. UNCHANGED <<file, copy, log>>
    BY <1>5 DEF Start, Ready, store
  <2> QED
    BY <2>1, MovesInventNothing
<1>6. CASE UNCHANGED vars
  <2>1. UNCHANGED <<file, copy, log>>
    BY <1>6 DEF vars
  <2> QED
    BY <2>1, MovesInventNothing
<1> QED
  BY <1>1, <1>2, <1>3, <1>4, <1>5, <1>6 DEF Next

\* Whatever races, failures and kills do, every list is of entries of its own
\* key's log, in order, none twice and no more than the window.
THEOREM HistoryNothingInvented == Spec => []NothingInvented
<1>1. ASSUME Init
      PROVE  NothingInvented
  <2>1. file.lists = NoLists /\ \A p \in Process : copy[p].lists = NoLists
    BY <1>1 DEF Init, Absent, NotLoaded
  <2> QED
    BY <2>1, NoListsAreDrawn DEF NothingInvented
<1> QED
  BY <1>1, TypeInit, TypeStep, NothingInventedStep, PTL DEF Spec

-----------------------------------------------------------------------------
(* What an intact history holds.                                           *)

\* Only a process that has read the file records, and while one is writing
\* all others that have read the file are disturbed.
OneHand ==
    \A p \in Process :
        /\ pc[p] \in {"record", "write"} => copy[p].loaded
        /\ pc[p] = "write" => \A q \in Process \ {p} : copy[q].loaded => disturbed[q]

\* A writer that nobody disturbed finds the file as it truncated it.
WriterIsAlone ==
    \A p \in Process : pc[p] = "write" /\ ~disturbed[p] => file.state = "truncated"

\* An intact history in the middle of a write is that of the writer's copy.
IntactWriter ==
    intact => \A p \in Process :
        pc[p] = "write" => /\ ~disturbed[p]
                           /\ \A k \in Key : EndOf(copy[p].lists[k], log[k])

StoreInv ==
    /\ OneHand
    /\ WriterIsAlone
    /\ IntactWriter
    /\ UndisturbedHasTheFile
    /\ IntactKeepsLastRuns

\* Starting a command, and beginning to record, leave the store alone.
LEMMA StoreUntouched ==
    ASSUME TypeOK, StoreInv, NEW p \in Process, Start(p) \/ Ready(p)
    PROVE  StoreInv'
<1>1. /\ UNCHANGED <<file, copy, log, disturbed, intact>>
      /\ \A q \in Process \ {p} : pc'[q] = pc[q]
      /\ pc[p] # "write" /\ pc'[p] # "write"
      /\ pc'[p] = "record" => copy[p].loaded
  BY DEF Start, Ready, store, ghost, TypeOK
<1>2. \A q \in Process : pc'[q] = "write" <=> pc[q] = "write"
  BY <1>1
<1>3. OneHand'
  BY <1>1, <1>2 DEF StoreInv, OneHand
<1>4. WriterIsAlone' /\ IntactWriter' /\ UndisturbedHasTheFile'
  BY <1>1, <1>2 DEF StoreInv, WriterIsAlone, IntactWriter, UndisturbedHasTheFile, EndOf
<1>5. IntactKeepsLastRuns'
  BY <1>1, <1>2 DEF StoreInv, IntactKeepsLastRuns, KeepsLastRuns, EndOf
<1> QED
  BY <1>3, <1>4, <1>5 DEF StoreInv

\* A process that reads the file while another writes counts as disturbed.
LEMMA StoreLoaded ==
    ASSUME TypeOK, StoreInv, NEW p \in Process, Load(p) \/ LoadFails(p)
    PROVE  StoreInv'
<1>1. /\ UNCHANGED <<file, pc, log, intact>> /\ pc[p] = "follow"
      /\ copy' = [copy EXCEPT ![p] = copy'[p]]
      /\ disturbed' = [disturbed EXCEPT ![p] = disturbed'[p]]
      /\ copy'[p].loaded
      /\ (\E q \in Process : pc[q] = "write") => disturbed'[p]
      /\ ~disturbed'[p] => copy'[p].lists = file.lists
  <2>1. CASE Load(p)
    BY <2>1 DEF Load, Loaded, TypeOK
  <2>2. CASE LoadFails(p)
    BY <2>2 DEF LoadFails, Loaded, TypeOK
  <2> QED
    BY <2>1, <2>2
<1>2. \A q \in Process \ {p} : copy'[q] = copy[q] /\ disturbed'[q] = disturbed[q]
  BY <1>1 DEF TypeOK
<1>3. OneHand'
  BY <1>1, <1>2 DEF StoreInv, OneHand
<1>4. WriterIsAlone'
  BY <1>1, <1>2 DEF StoreInv, WriterIsAlone
<1>5. IntactWriter'
  BY <1>1, <1>2 DEF StoreInv, IntactWriter
<1>6. UndisturbedHasTheFile'
  BY <1>1, <1>2 DEF StoreInv, UndisturbedHasTheFile
<1>7. IntactKeepsLastRuns'
  BY <1>1 DEF StoreInv, IntactKeepsLastRuns, KeepsLastRuns, EndOf
<1> QED
  BY <1>3, <1>4, <1>5, <1>6, <1>7 DEF StoreInv

\* An append disturbs everybody else, and is harmless if nobody had disturbed it.
LEMMA StoreAppended ==
    ASSUME TypeOK, StoreInv, NEW p \in Process, AppendEntry(p)
    PROVE  StoreInv'
<1> DEFINE h == Head(todo[p])
           n == appends + 1
<1>1. /\ pc[p] = "record" /\ copy[p].loaded
      /\ file'.state = "truncated"
      /\ pc'[p] = "write" /\ \A q \in Process \ {p} : pc'[q] = pc[q]
      /\ intact' = (intact /\ ~disturbed[p])
  BY DEF AppendEntry, Truncated, TypeOK, StoreInv, OneHand
<1>2. \A q \in Process : disturbed'[q] = (disturbed[q] \/ (q # p /\ copy[q].loaded))
  BY DEF AppendEntry
<1>3. /\ h \in Key
      /\ log'[h] = Append(log[h], n)
      /\ \A j \in Key \ {h} : log'[j] = log[j]
      /\ \A q \in Process \ {p} : copy'[q] = copy[q]
      /\ copy'[p].loaded = copy[p].loaded
      /\ copy'[p].lists[h] = LastOf(Append(copy[p].lists[h], n))
      /\ \A j \in Key \ {h} : copy'[p].lists[j] = copy[p].lists[j]
  BY NoteAdds DEF AppendEntry
<1> HIDE DEF h
<1>4. OneHand'
  <2>1. \A q \in Process : copy'[q].loaded = copy[q].loaded
    BY <1>3
  <2>2. ASSUME NEW q \in Process
        PROVE  pc'[q] \in {"record", "write"} => copy'[q].loaded
    BY <1>1, <2>1 DEF StoreInv, OneHand
  <2>3. ASSUME NEW q \in Process, pc'[q] = "write", NEW r \in Process \ {q}, copy[r].loaded
        PROVE  disturbed'[r]
    <3>1. CASE q = p
      BY <1>2, <2>3, <3>1
    <3>2. CASE q # p
      BY <1>1, <1>2, <2>3, <3>2 DEF StoreInv, OneHand
    <3> QED
      BY <3>1, <3>2
  <2> QED
    BY <2>1, <2>2, <2>3 DEF OneHand
<1>5. WriterIsAlone'
  BY <1>1 DEF WriterIsAlone
<1>6. IntactWriter'
  <2> SUFFICES ASSUME intact', NEW q \in Process, pc'[q] = "write"
               PROVE  ~disturbed'[q] /\ \A k \in Key : EndOf(copy'[q].lists[k], log'[k])
    BY DEF IntactWriter
  <2>1. intact /\ ~disturbed[p]
    BY <1>1
  <2>2. \A r \in Process : pc[r] # "write"
    BY <1>1, <2>1 DEF StoreInv, OneHand
  <2>3. q = p /\ ~disturbed'[q]
    BY <1>1, <1>2, <2>1, <2>2
  <2>4. ASSUME NEW k \in Key
        PROVE  EndOf(copy'[p].lists[k], log'[k])
    <3>1. EndOf(copy[p].lists[k], log[k])
      BY <1>1, <2>1, <2>2 DEF StoreInv, IntactKeepsLastRuns, KeepsLastRuns, UndisturbedHasTheFile
    <3>2. CASE k # h
      BY <1>3, <3>1, <3>2
    <3>3. CASE k = h
      <4>1. log[k] \in Seq(1..appends) /\ copy[p].lists[k] \in Seq(1..appends)
            /\ appends \in Nat
        BY DEF TypeOK, Lists, Kept
      <4>2. log[k] \in Seq(Nat) /\ copy[p].lists[k] \in Seq(Nat) /\ n \in Nat
        BY <4>1
      <4>3. EndOf(LastOf(Append(copy[p].lists[k], n)), Append(log[k], n))
        BY <3>1, <4>2, EndOfGrows
      <4> QED
        BY <1>3, <3>3, <4>3
    <3> QED
      BY <3>2, <3>3
  <2> QED
    BY <2>3, <2>4
<1>7. UndisturbedHasTheFile'
  BY <1>1, <1>2, <1>3 DEF UndisturbedHasTheFile
<1>8. IntactKeepsLastRuns'
  BY <1>1 DEF IntactKeepsLastRuns, KeepsLastRuns
<1> QED
  BY <1>4, <1>5, <1>6, <1>7, <1>8 DEF StoreInv

\* An append that cannot open the file leaves it alone.
LEMMA StoreAppendFailed ==
    ASSUME TypeOK, StoreInv, NEW p \in Process, AppendFails(p)
    PROVE  StoreInv'
<1>1. /\ UNCHANGED <<file, pc>> /\ ~intact' /\ pc[p] = "record"
      /\ disturbed'[p] /\ \A q \in Process \ {p} : disturbed'[q] = disturbed[q]
  BY DEF AppendFails, TypeOK
<1>2. /\ copy'[p].loaded = copy[p].loaded
      /\ \A q \in Process \ {p} : copy'[q] = copy[q]
  BY NoteAdds DEF AppendFails
<1>3. OneHand'
  BY <1>1, <1>2 DEF StoreInv, OneHand
<1>4. WriterIsAlone' /\ IntactWriter' /\ UndisturbedHasTheFile' /\ IntactKeepsLastRuns'
  BY <1>1, <1>2 DEF StoreInv, WriterIsAlone, IntactWriter, UndisturbedHasTheFile,
                    IntactKeepsLastRuns
<1> QED
  BY <1>3, <1>4 DEF StoreInv

\* The write completes the history the append began.
LEMMA StoreWritten ==
    ASSUME TypeOK, StoreInv, NEW p \in Process, Write(p)
    PROVE  StoreInv'
<1>1. /\ UNCHANGED <<copy, log, disturbed, intact>>
      /\ pc[p] = "write" /\ pc'[p] = "record"
      /\ \A q \in Process \ {p} : pc'[q] = pc[q]
      /\ file.state = "truncated" => file'.lists = copy[p].lists
  BY DEF Write, Whole, ghost, TypeOK
<1>2. copy[p].loaded /\ \A q \in Process \ {p} : copy[q].loaded => disturbed[q]
  BY <1>1 DEF StoreInv, OneHand
<1>3. \A q \in Process \ {p} : pc[q] = "write" => disturbed[q]
  BY <1>2 DEF StoreInv, OneHand
<1>4. OneHand'
  BY <1>1, <1>2 DEF StoreInv, OneHand
<1>5. WriterIsAlone'
  BY <1>1, <1>3 DEF WriterIsAlone
<1>6. IntactWriter'
  BY <1>1 DEF StoreInv, IntactWriter, EndOf
<1>7. UndisturbedHasTheFile'
  BY <1>1, <1>2 DEF StoreInv, WriterIsAlone, UndisturbedHasTheFile
<1>8. IntactKeepsLastRuns'
  <2> SUFFICES ASSUME intact, NEW k \in Key
               PROVE  EndOf(file'.lists[k], log[k])
    BY <1>1 DEF IntactKeepsLastRuns, KeepsLastRuns, EndOf
  <2>1. ~disturbed[p] /\ EndOf(copy[p].lists[k], log[k])
    BY <1>1 DEF StoreInv, IntactWriter
  <2>2. file.state = "truncated"
    BY <1>1, <2>1 DEF StoreInv, WriterIsAlone
  <2> QED
    BY <1>1, <2>1, <2>2
<1> QED
  BY <1>4, <1>5, <1>6, <1>7, <1>8 DEF StoreInv

\* A write that fails, or is cut short by a kill, harms only the file.
LEMMA StoreWriteFailed ==
    ASSUME TypeOK, StoreInv, NEW p \in Process, WriteFails(p) \/ KilledWriting(p)
    PROVE  StoreInv'
<1>1. /\ ~intact' /\ pc[p] = "write" /\ pc'[p] # "write"
      /\ \A q \in Process \ {p} : /\ pc'[q] = pc[q]
                                   /\ copy'[q] = copy[q]
                                   /\ disturbed'[q] = disturbed[q]
      /\ copy'[p].loaded => copy[p].loaded /\ disturbed'[p]
      /\ pc'[p] = "record" => copy'[p].loaded = copy[p].loaded
  <2>1. CASE WriteFails(p)
    BY <2>1 DEF WriteFails, TypeOK
  <2>2. CASE KilledWriting(p)
    BY <2>2 DEF KilledWriting, Gone, NotLoaded, TypeOK
  <2> QED
    BY <2>1, <2>2
<1>2. copy[p].loaded /\ \A q \in Process \ {p} : copy[q].loaded => disturbed[q]
  BY <1>1 DEF StoreInv, OneHand
<1>3. \A q \in Process \ {p} : pc[q] = "write" => disturbed[q]
  BY <1>2 DEF StoreInv, OneHand
<1>4. OneHand'
  BY <1>1, <1>2 DEF StoreInv, OneHand
<1>5. WriterIsAlone'
  BY <1>1, <1>3 DEF WriterIsAlone
<1>6. UndisturbedHasTheFile'
  BY <1>1, <1>2 DEF UndisturbedHasTheFile
<1> QED
  BY <1>1, <1>4, <1>5, <1>6 DEF StoreInv, IntactWriter, IntactKeepsLastRuns

\* A command that ends outside a write takes only its memory along.
LEMMA StoreLeft ==
    ASSUME TypeOK, StoreInv, NEW p \in Process, Exit(p) \/ KilledIdle(p)
    PROVE  StoreInv'
<1>1. /\ UNCHANGED <<file, log, intact>> /\ pc[p] # "write" /\ pc'[p] = "off"
      /\ ~copy'[p].loaded
      /\ \A q \in Process \ {p} : /\ pc'[q] = pc[q]
                                   /\ copy'[q] = copy[q]
                                   /\ disturbed'[q] = disturbed[q]
  BY DEF Exit, KilledIdle, Gone, NotLoaded, TypeOK
<1>2. \A q \in Process : pc'[q] = "write" <=> pc[q] = "write"
  BY <1>1
<1>3. OneHand'
  BY <1>1 DEF StoreInv, OneHand
<1>4. WriterIsAlone' /\ UndisturbedHasTheFile'
  BY <1>1 DEF StoreInv, WriterIsAlone, UndisturbedHasTheFile
<1>5. IntactWriter'
  BY <1>1 DEF StoreInv, IntactWriter
<1>6. IntactKeepsLastRuns'
  BY <1>1, <1>2 DEF StoreInv, IntactKeepsLastRuns, KeepsLastRuns, EndOf
<1> QED
  BY <1>3, <1>4, <1>5, <1>6 DEF StoreInv

\* Every step keeps what is known of the store.
LEMMA StoreStep == TypeOK /\ StoreInv /\ [Next]_vars => StoreInv'
<1> SUFFICES ASSUME TypeOK, StoreInv, [Next]_vars
             PROVE  StoreInv'
  OBVIOUS
<1>1. CASE UNCHANGED vars
  BY <1>1 DEF vars, StoreInv, OneHand, WriterIsAlone, IntactWriter, UndisturbedHasTheFile,
              IntactKeepsLastRuns, KeepsLastRuns, EndOf
<1>2. CASE Next
  BY <1>2, StoreUntouched, StoreLoaded, StoreAppended, StoreAppendFailed, StoreWritten,
     StoreWriteFailed, StoreLeft DEF Next
<1> QED
  BY <1>1, <1>2

\* A fresh machine has no file and knows no runs.
LEMMA StoreInit == Init => StoreInv
<1> SUFFICES ASSUME Init
             PROVE  StoreInv
  OBVIOUS
<1>1. \A k \in Key : EndOf(file.lists[k], log[k])
  BY HistoryAssumption DEF Init, Absent, NoLists, EndOf
<1>2. \A p \in Process : pc[p] = "off" /\ ~copy[p].loaded
  BY DEF Init, NotLoaded
<1> QED
  BY <1>1, <1>2 DEF StoreInv, OneHand, WriterIsAlone, IntactWriter, UndisturbedHasTheFile,
                    IntactKeepsLastRuns, KeepsLastRuns

\* The file is lost, or falls behind, only to a call that fails, a kill in the
\* middle of a write, or a command that appends to a copy older than the file.
THEOREM HistoryIntactKeepsLastRuns == Spec => []IntactKeepsLastRuns
<1>1. StoreInv => IntactKeepsLastRuns
  BY DEF StoreInv
<1> QED
  BY <1>1, TypeInit, TypeStep, StoreInit, StoreStep, PTL DEF Spec

\* A command that is not disturbed leaves the file whole, with its run in it.
THEOREM HistoryUndisturbedHasTheFile == Spec => []UndisturbedHasTheFile
<1>1. StoreInv => UndisturbedHasTheFile
  BY DEF StoreInv
<1> QED
  BY <1>1, TypeInit, TypeStep, StoreInit, StoreStep, PTL DEF Spec

-----------------------------------------------------------------------------
(* The percentiles.                                                        *)

\* The rank percentile takes is the one nearest to percent*n/100, halves up,
\* and is a place in the list, for every window and not only the small one.
THEOREM RankIsNearest ==
    ASSUME NEW n \in Nat \ {0}, NEW percent \in 1..100, percent * n >= 50
    PROVE  /\ Rank(percent, n) \in 1..n
           /\ 100 * (Rank(percent, n) - 1) =< percent * n - 50
           /\ 100 * Rank(percent, n) > percent * n - 50
<1> DEFINE x == percent * n + 50
           r == x \div 100
<1>1. percent * n \in Nat /\ percent * n =< 100 * n
  OBVIOUS
<1>2. r \in Nat /\ 100 * r =< x /\ x < 100 * r + 100
  BY <1>1
<1>3. r >= 1 /\ r =< n
  BY <1>1, <1>2
<1>4. Rank(percent, n) = r
  BY <1>3 DEF Rank
<1> QED
  BY <1>1, <1>2, <1>3, <1>4

\* A map of 1..n to itself that maps no two numbers to one reaches each of them.
LEMMA InjectionIsOnto ==
    ASSUME NEW n \in Nat, NEW g \in [1..n -> 1..n],
           \A a, b \in 1..n : g[a] = g[b] => a = b
    PROVE  \A k \in 1..n : \E a \in 1..n : g[a] = k
<1>1. g \in Injection(1..n, 1..n)
  BY Fun_IsInj
<1>2. IsFiniteSet(1..n)
  BY FS_Interval
<1>3. g \in Surjection(1..n, 1..n)
  BY <1>1, <1>2, FS_Injection
<1> QED
  BY <1>3 DEF Surjection

\* The places of s whose element is below v, or not above it.
Before(s, v) == {i \in DOMAIN s : s[i] < v}
Upto(s, v)   == {i \in DOMAIN s : s[i] =< v}

\* Each place has a rank of its own, ties going to the earlier place; so there
\* is an element for every rank, with fewer below it and as many up to it.
LEMMA RanksAreTaken ==
    ASSUME NEW s \in Seq(Nat), NEW n \in DOMAIN s
    PROVE  \E i \in DOMAIN s : /\ Cardinality(Before(s, s[i])) < n
                               /\ Cardinality(Upto(s, s[i])) >= n
<1> DEFINE Not(i, j) == s[j] < s[i] \/ (s[j] = s[i] /\ j =< i)
           Until(i) == {j \in DOMAIN s : Not(i, j)}
           g == [i \in 1..Len(s) |-> Cardinality(Until(i))]
<1>1. DOMAIN s = 1..Len(s) /\ Len(s) \in Nat /\ \A i \in DOMAIN s : s[i] \in Nat
  OBVIOUS
<1>2. IsFiniteSet(DOMAIN s) /\ Cardinality(DOMAIN s) = Len(s)
  <2>1. /\ IsFiniteSet(1..Len(s))
        /\ Cardinality(1..Len(s)) = IF 1 > Len(s) THEN 0 ELSE Len(s) - 1 + 1
    BY <1>1, FS_Interval
  <2> QED
    BY <1>1, <2>1
<1>3. \A S \in SUBSET DOMAIN s : IsFiniteSet(S) /\ Cardinality(S) \in 0..Len(s)
  <2> SUFFICES ASSUME NEW S \in SUBSET DOMAIN s
               PROVE  IsFiniteSet(S) /\ Cardinality(S) \in 0..Len(s)
    OBVIOUS
  <2>1. IsFiniteSet(S) /\ Cardinality(S) =< Len(s)
    BY <1>2, FS_Subset
  <2>2. Cardinality(S) \in Nat
    BY <2>1, FS_CardinalityType
  <2> QED
    BY <1>1, <2>1, <2>2
<1>4. \A i \in DOMAIN s : Until(i) \in SUBSET DOMAIN s
  OBVIOUS
<1>5. \A i \in DOMAIN s : Cardinality(Until(i)) \in 1..Len(s)
  <2> SUFFICES ASSUME NEW i \in DOMAIN s
               PROVE  Cardinality(Until(i)) \in 1..Len(s)
    OBVIOUS
  <2>1. i \in Until(i)
    BY <1>1
  <2> HIDE DEF Until
  <2>2. IsFiniteSet(Until(i)) /\ Cardinality(Until(i)) \in 0..Len(s)
    BY <1>3, <1>4
  <2>3. Cardinality(Until(i)) # 0
    BY <2>1, <2>2, FS_EmptySet
  <2> QED
    BY <1>1, <2>2, <2>3
<1>6. ASSUME NEW i \in DOMAIN s, NEW j \in DOMAIN s, Not(j, i), i # j
      PROVE  Cardinality(Until(i)) < Cardinality(Until(j))
  <2>1. ~Not(i, j) /\ \A m \in DOMAIN s : Not(i, m) => Not(j, m)
    BY <1>1, <1>6
  <2>2. j \in Until(j)
    BY <1>1
  <2>3. Until(i) \in SUBSET Until(j) /\ j \notin Until(i)
    BY <2>1
  <2>4. Until(j) \in SUBSET DOMAIN s
    BY <1>4
  <2> HIDE DEF Until, Not
  <2>5. IsFiniteSet(Until(j)) /\ Cardinality(Until(j)) \in Nat
    BY <1>1, <1>3, <2>4
  <2>6. Cardinality(Until(i)) =< Cardinality(Until(j))
    BY <2>3, <2>5, FS_Subset
  <2>7. Cardinality(Until(i)) = Cardinality(Until(j)) => Until(i) = Until(j)
    BY <2>3, <2>5, FS_Subset
  <2>8. Until(i) # Until(j) /\ Cardinality(Until(i)) \in Nat
    BY <1>5, <2>2, <2>3
  <2> QED
    BY <2>5, <2>6, <2>7, <2>8
<1>7. \A i, j \in DOMAIN s : i # j => Cardinality(Until(i)) # Cardinality(Until(j))
  <2> SUFFICES ASSUME NEW i \in DOMAIN s, NEW j \in DOMAIN s, i # j
               PROVE  Cardinality(Until(i)) # Cardinality(Until(j))
    OBVIOUS
  <2>1. Not(j, i) \/ Not(i, j)
    BY <1>1
  <2> HIDE DEF Until, Not
  <2>2. Cardinality(Until(i)) \in Int /\ Cardinality(Until(j)) \in Int
    BY <1>1, <1>5
  <2> QED
    BY <1>6, <2>1, <2>2
<1>8. PICK i \in DOMAIN s : Cardinality(Until(i)) = n
  <2> HIDE DEF Until
  <2>1. g \in [1..Len(s) -> 1..Len(s)] /\ \A a, b \in 1..Len(s) : g[a] = g[b] => a = b
    BY <1>1, <1>5, <1>7
  <2>2. \A a \in 1..Len(s) : g[a] = Cardinality(Until(a))
    OBVIOUS
  <2> HIDE DEF g
  <2>3. \A k \in 1..Len(s) : \E a \in 1..Len(s) : g[a] = k
    BY <1>1, <2>1, InjectionIsOnto
  <2> QED
    BY <1>1, <2>2, <2>3
<1>9. Cardinality(Upto(s, s[i])) >= n
  <2>1. Until(i) \in SUBSET Upto(s, s[i]) /\ Upto(s, s[i]) \in SUBSET DOMAIN s
    BY <1>1 DEF Upto
  <2> HIDE DEF Until
  <2>2. IsFiniteSet(Upto(s, s[i])) /\ Cardinality(Upto(s, s[i])) \in Int
    BY <1>1, <1>3, <2>1
  <2>3. Cardinality(Until(i)) =< Cardinality(Upto(s, s[i]))
    BY <2>1, <2>2, FS_Subset
  <2> QED
    BY <1>1, <1>8, <2>2, <2>3
<1>10. Cardinality(Before(s, s[i])) < n
  <2>1. /\ Before(s, s[i]) \in SUBSET Until(i) /\ Until(i) \in SUBSET DOMAIN s
        /\ i \in Until(i) /\ i \notin Before(s, s[i])
    BY <1>1 DEF Before
  <2> HIDE DEF Until
  <2>2. IsFiniteSet(Until(i))
    BY <1>3, <2>1
  <2>3. /\ Cardinality(Before(s, s[i])) =< Cardinality(Until(i))
        /\ Cardinality(Before(s, s[i])) = Cardinality(Until(i)) => Before(s, s[i]) = Until(i)
    BY <2>1, <2>2, FS_Subset
  <2>4. Before(s, s[i]) # Until(i) /\ Before(s, s[i]) \in SUBSET DOMAIN s
    BY <2>1
  <2>5. Cardinality(Before(s, s[i])) \in Int
    BY <1>1, <1>3, <2>4
  <2> QED
    BY <1>1, <1>8, <2>3, <2>4, <2>5
<1> QED
  BY <1>9, <1>10

\* The n-th of the sorted samples is one of them, with fewer than n below it and
\* at least n up to it; and the sorted samples rise.
LEMMA SortedHasRanks ==
    ASSUME NEW s \in Seq(Nat)
    PROVE  /\ \A n \in DOMAIN s :
                 /\ \E i \in DOMAIN s : Sorted(s)[n] = s[i]
                 /\ Cardinality(Before(s, Sorted(s)[n])) \in 0..(n - 1)
                 /\ Cardinality(Upto(s, Sorted(s)[n])) \in n..Len(s)
           /\ \A m, n \in DOMAIN s : m =< n => Sorted(s)[m] =< Sorted(s)[n]
<1> DEFINE Has(n, v) == /\ Cardinality({i \in DOMAIN s : s[i] < v}) < n
                        /\ Cardinality({i \in DOMAIN s : s[i] =< v}) >= n
           R == {s[i] : i \in DOMAIN s}
<1>1. DOMAIN s = 1..Len(s) /\ Len(s) \in Nat /\ \A i \in DOMAIN s : s[i] \in Nat
  OBVIOUS
<1>2. \A S \in SUBSET DOMAIN s : IsFiniteSet(S) /\ Cardinality(S) \in 0..Len(s)
  <2>1. /\ IsFiniteSet(1..Len(s))
        /\ Cardinality(1..Len(s)) = IF 1 > Len(s) THEN 0 ELSE Len(s) - 1 + 1
    BY <1>1, FS_Interval
  <2>2. IsFiniteSet(DOMAIN s) /\ Cardinality(DOMAIN s) = Len(s)
    BY <1>1, <2>1
  <2> SUFFICES ASSUME NEW S \in SUBSET DOMAIN s
               PROVE  IsFiniteSet(S) /\ Cardinality(S) \in 0..Len(s)
    OBVIOUS
  <2>3. IsFiniteSet(S) /\ Cardinality(S) =< Len(s)
    BY <2>2, FS_Subset
  <2>4. Cardinality(S) \in Nat
    BY <2>3, FS_CardinalityType
  <2> QED
    BY <1>1, <2>3, <2>4
<1>3. \A v : /\ Before(s, v) \in SUBSET DOMAIN s /\ Upto(s, v) \in SUBSET DOMAIN s
             /\ Before(s, v) = {i \in DOMAIN s : s[i] < v}
             /\ Upto(s, v) = {i \in DOMAIN s : s[i] =< v}
  BY DEF Before, Upto
<1>4. ASSUME NEW n \in DOMAIN s
      PROVE  /\ Sorted(s)[n] \in R
             /\ Cardinality(Before(s, Sorted(s)[n])) < n
             /\ Cardinality(Upto(s, Sorted(s)[n])) >= n
  <2>1. Sorted(s)[n] = CHOOSE v \in R : Has(n, v)
    BY DEF Sorted
  <2>2. \E v \in R : Has(n, v)
    BY <1>3, RanksAreTaken
  <2> HIDE DEF R, Has
  <2>3. Sorted(s)[n] \in R /\ Has(n, Sorted(s)[n])
    BY <2>1, <2>2
  <2> QED
    BY <1>3, <2>3 DEF Has
<1>5. ASSUME NEW n \in DOMAIN s
      PROVE  /\ Cardinality(Before(s, Sorted(s)[n])) \in 0..(n - 1)
             /\ Cardinality(Upto(s, Sorted(s)[n])) \in n..Len(s)
  <2>1. /\ Cardinality(Before(s, Sorted(s)[n])) \in 0..Len(s)
        /\ Cardinality(Upto(s, Sorted(s)[n])) \in 0..Len(s)
    BY <1>2, <1>3
  <2> QED
    BY <1>1, <1>4, <2>1
<1>6. ASSUME NEW m \in DOMAIN s, NEW n \in DOMAIN s, m =< n
      PROVE  Sorted(s)[m] =< Sorted(s)[n]
  <2>1. Sorted(s)[m] \in Nat /\ Sorted(s)[n] \in Nat
    BY <1>1, <1>4
  <2> SUFFICES ASSUME Sorted(s)[n] < Sorted(s)[m]
               PROVE  FALSE
    BY <2>1
  <2>2. Upto(s, Sorted(s)[n]) \in SUBSET Before(s, Sorted(s)[m])
    BY <1>1, <2>1 DEF Before, Upto
  <2>3. Cardinality(Upto(s, Sorted(s)[n])) =< Cardinality(Before(s, Sorted(s)[m]))
    BY <1>2, <1>3, <2>2, FS_Subset
  <2> QED
    BY <1>1, <1>5, <1>6, <2>3
<1> QED
  BY <1>4, <1>5, <1>6

\* Every entry has a duration.
Measured == 1..appends \subseteq DOMAIN Took

\* Note counts no further than there are durations.
LEMMA MeasuredStep == TypeOK /\ Measured /\ [Next]_vars => Measured'
<1> SUFFICES ASSUME TypeOK, Measured, [Next]_vars
             PROVE  Measured'
  OBVIOUS
<1>1. CASE appends' = appends
  BY <1>1 DEF Measured
<1>2. ASSUME NEW p \in Process, Note(p)
      PROVE  Measured'
  <2>1. appends \in Nat /\ appends' = appends + 1 /\ appends + 1 \in DOMAIN Took
    BY <1>2 DEF Note, TypeOK
  <2>2. \A n \in 1..appends' : n \in 1..appends \/ n = appends + 1
    BY <2>1
  <2> QED
    BY <2>1, <2>2 DEF Measured
<1> QED
  BY <1>1, <1>2 DEF Next, vars, ghost, store, Start, Load, LoadFails, Ready, AppendEntry,
                    AppendFails, Write, WriteFails, Exit, Gone, KilledIdle, KilledWriting

\* The rank of a percentile of n durations is a place in the list, the nearest to it.
Fits(percent, n) ==
    /\ Rank(percent, n) \in 1..n
    /\ 100 * (Rank(percent, n) - 1) =< percent * n - 50
    /\ 100 * Rank(percent, n) > percent * n - 50

\* The median and the 95th percentile of a list that is not empty have such a rank.
LEMMA RankFits ==
    ASSUME NEW n \in Nat \ {0}, NEW percent \in {50, 95}
    PROVE  Fits(percent, n)
<1>1. CASE percent = 50
  <2>1. 50 * n >= 50 /\ 50 \in 1..100
    OBVIOUS
  <2> QED
    BY <1>1, <2>1, RankIsNearest DEF Fits
<1>2. CASE percent = 95
  <2>1. 95 * n >= 50 /\ 95 \in 1..100
    OBVIOUS
  <2> QED
    BY <1>2, <2>1, RankIsNearest DEF Fits
<1> QED
  BY <1>1, <1>2

\* ... and the second is no lower than the first.
LEMMA RanksRise ==
    ASSUME NEW n \in Nat \ {0}
    PROVE  Rank(50, n) =< Rank(95, n)
<1>1. /\ Rank(50, n) \in 1..n
      /\ 100 * (Rank(50, n) - 1) =< 50 * n - 50
  BY RankFits DEF Fits
<1>2. /\ Rank(95, n) \in 1..n
      /\ 100 * Rank(95, n) > 95 * n - 50
  BY RankFits DEF Fits
<1> QED
  BY <1>1, <1>2

\* What a rank r nearest to x/100 says of the b samples below and the u up to it.
LEMMA RanksBound ==
    ASSUME NEW n \in Nat, NEW r \in Int, NEW x \in Int, NEW b \in 0..(r - 1), NEW u \in r..n,
           100 * (r - 1) =< x - 50, 100 * r > x - 50
    PROVE  100 * b =< x - 50 /\ 100 * u > x - 50
  OBVIOUS

\* What is said of a list of durations no longer than the window.
LEMMA EstimateIsOfTheList ==
    ASSUME NEW s \in Seq(Nat), Len(s) =< Window
    PROVE  LET est == From(s) IN
           /\ est.samples = Len(s)
           /\ est.known <=> Len(s) >= MinSamples
           /\ est.known => /\ HasRank(est.p50, 50, s)
                           /\ HasRank(est.p95, 95, s)
                           /\ est.p50 =< est.p95
<1> DEFINE n == Len(s)
           At(percent) == Sorted(s)[Rank(percent, n)]
<1>1. n \in Nat /\ Window \in Nat /\ MinSamples \in Nat \ {0} /\ DOMAIN s = 1..n
  BY HistoryAssumption
<1>2. LastOf(s) = s
  BY <1>1 DEF LastOf
<1>3. From(s) = IF n < MinSamples THEN Unknown(n)
                ELSE [known |-> TRUE, p50 |-> At(50), p95 |-> At(95), samples |-> n]
  BY <1>2 DEF From
<1>4. CASE n < MinSamples
  BY <1>1, <1>3, <1>4 DEF Unknown
<1>5. CASE n >= MinSamples
  <2>1. n \in Nat \ {0}
    BY <1>1, <1>5
  <2>2. /\ From(s).known /\ From(s).samples = n
        /\ From(s).p50 = At(50) /\ From(s).p95 = At(95)
    BY <1>1, <1>3, <1>5
  <2> HIDE DEF n
  <2>3. ASSUME NEW percent \in {50, 95}
        PROVE  HasRank(At(percent), percent, s)
    <3>1. /\ Rank(percent, n) \in 1..n
          /\ 100 * (Rank(percent, n) - 1) =< percent * n - 50
          /\ 100 * Rank(percent, n) > percent * n - 50
      <4>1. Fits(percent, n)
        BY <2>1, RankFits, Zenon
      <4> QED
        BY <4>1 DEF Fits
    <3>0. Rank(percent, n) \in DOMAIN s /\ Rank(percent, n) \in Int
      BY <1>1, <3>1 DEF n
    <3>2. PICK i \in DOMAIN s : Sorted(s)[Rank(percent, n)] = s[i]
      <4>1. \A m \in DOMAIN s : \E i \in DOMAIN s : Sorted(s)[m] = s[i]
        BY SortedHasRanks
      <4> QED
        BY <3>0, <4>1
    <3>3. /\ Cardinality(Before(s, At(percent))) \in 0..(Rank(percent, n) - 1)
          /\ Cardinality(Upto(s, At(percent))) \in Rank(percent, n)..n
      BY <3>0, SortedHasRanks DEF n
    <3> HIDE DEF At
    <3>4. percent * n \in Int
      BY <2>1
    <3>5. /\ 100 * Cardinality(Before(s, At(percent))) =< percent * n - 50
          /\ 100 * Cardinality(Upto(s, At(percent))) > percent * n - 50
      BY <3>0, <3>1, <3>3, <3>4, <2>1, RanksBound
    <3> QED
      BY <3>2, <3>5 DEF HasRank, Before, Upto, n, At
  <2>4. At(50) =< At(95)
    <3>1. /\ Rank(50, n) \in DOMAIN s /\ Rank(95, n) \in DOMAIN s
          /\ Rank(50, n) =< Rank(95, n)
      BY <1>1, <2>1, RankFits, RanksRise DEF Fits
    <3> QED
      BY <3>1, SortedHasRanks
  <2> HIDE DEF At
  <2> QED
    BY <1>5, <2>2, <2>3, <2>4 DEF n
<1> QED
  BY <1>1, <1>4, <1>5

\* What a view says of a phase's duration rests on enough runs of its own key and
\* has the rank it claims among them, however short or uneven the history is
\* (eta.go:66-101).
THEOREM HistoryEstimatesAreOfTheHistory == Spec => []EstimatesAreOfTheHistory
<1>1. Init => Measured
  BY DEF Init, Measured
<1>2. TypeOK /\ Measured /\ NothingInvented => EstimatesAreOfTheHistory
  <2> SUFFICES ASSUME TypeOK, Measured, NothingInvented, NEW p \in Process, NEW k \in Key
               PROVE  LET est == Estimate(p, k)
                          s   == DurationsOf(copy[p].lists[k])
                      IN  /\ est.samples = Len(s)
                          /\ est.known <=> Len(s) >= MinSamples
                          /\ est.known => /\ HasRank(est.p50, 50, s)
                                          /\ HasRank(est.p95, 95, s)
                                          /\ est.p50 =< est.p95
    BY DEF EstimatesAreOfTheHistory
  <2> DEFINE l == copy[p].lists[k]
             s == DurationsOf(l)
  <2>1. l \in Seq(1..appends) /\ Len(l) =< Window
    BY DEF TypeOK, Lists, Kept, NothingInvented, DrawnFrom
  <2>2. \A n \in 1..appends : Took[n] \in Nat
    BY HistoryAssumption DEF Measured
  <2> HIDE DEF l
  <2>3. s = [i \in 1..Len(l) |-> Took[l[i]]] /\ Len(l) \in Nat
    BY <2>1 DEF DurationsOf
  <2>4. \A i \in 1..Len(l) : Took[l[i]] \in Nat
    <3>1. \A i \in 1..Len(l) : l[i] \in 1..appends
      BY <2>1, ElementOfSeq
    <3> QED
      BY <2>2, <3>1
  <2>5. s \in Seq(Nat) /\ Len(s) = Len(l)
    BY <2>3, <2>4
  <2> HIDE DEF s
  <2>6. Estimate(p, k) = From(s) /\ Len(s) =< Window
    BY <2>1, <2>5 DEF Estimate, l, s
  <2>7. /\ Estimate(p, k).samples = Len(s)
        /\ Estimate(p, k).known <=> Len(s) >= MinSamples
        /\ Estimate(p, k).known => /\ HasRank(Estimate(p, k).p50, 50, s)
                                   /\ HasRank(Estimate(p, k).p95, 95, s)
                                   /\ Estimate(p, k).p50 =< Estimate(p, k).p95
    BY <2>5, <2>6, EstimateIsOfTheList
  <2> QED
    BY <2>7 DEF l, s
<1> QED
  BY <1>1, <1>2, TypeInit, TypeStep, MeasuredStep, HistoryNothingInvented, PTL DEF Spec
=============================================================================
