------------------------------ MODULE History -------------------------------
(***************************************************************************)
(* The history of runs behind the estimates: internal/eta/store.go and     *)
(* internal/eta/eta.go, with recordHistory and estimates of                *)
(* cmd/cluster/stream.go.                                                  *)
(*                                                                         *)
(* Every command of the tool is a process with a FileStore of its own over *)
(* the one file.  It reads the file once, when the first view asks for     *)
(* estimates, and writes all it knows whenever a ready cluster's phase is  *)
(* appended.  Nothing locks the file; WriteFile truncates it and then      *)
(* writes.                                                                 *)
(*                                                                         *)
(* A recorded duration is named by its place in the order of all Append    *)
(* calls; Took is how long it is.                                          *)
(***************************************************************************)
EXTENDS Integers, Sequences, FiniteSets

CONSTANTS
    Process,     \* commands that may be running at one time
    Key,         \* what eta.Key tells apart: provider, class, placement, phase
    Runs,        \* the keys a run that ends ready may record, in the phases' order
    Window,      \* eta.Window
    MinSamples,  \* eta.MinSamples
    Took,        \* the duration of the n-th that is recorded; bound: no more are
    MaxRuns,     \* bound: commands started
    MayFail      \* TRUE: calls to the file system fail and processes are killed

ASSUME HistoryAssumption ==
    /\ Runs \subseteq Seq(Key)
    /\ Window \in Nat \ {0}
    /\ MinSamples \in Nat \ {0}
    /\ MinSamples =< Window
    /\ \A n \in DOMAIN Took : Took[n] \in Nat \ {0}
    /\ MaxRuns \in Nat
    /\ MayFail \in BOOLEAN

VARIABLES
    file,       \* [state, lists]: history.json
    copy,       \* copy[p]: [loaded, lists], FileStore.data
    pc,         \* pc[p]: "off", "follow", "record" (recordHistory) or "write" (in WriteFile)
    todo,       \* todo[p]: the keys recordHistory has still to append to
    started,    \* commands started so far
    appends,    \* Append calls so far
    log,        \* history: log[k] is all that was ever appended to k
    disturbed,  \* history: since p read the file another has opened it, or a call of p's failed
    intact      \* history: nothing has happened that may cost an entry

store == <<file, copy>>
ghost == <<disturbed, intact>>
vars  == <<file, copy, pc, todo, started, appends, log, disturbed, intact>>

NoLists   == [k \in Key |-> <<>>]
Absent    == [state |-> "absent", lists |-> NoLists]

Truncated == [state |-> "truncated", lists |-> NoLists]
Torn      == [state |-> "torn", lists |-> NoLists]
Whole(lists) == [state |-> "whole", lists |-> lists]

NotLoaded == [loaded |-> FALSE, lists |-> NoLists]
Loaded(lists) == [loaded |-> TRUE, lists |-> lists]

\* Mutant: the trim keeps the oldest.
FirstOf(s) == IF Len(s) > Window THEN SubSeq(s, 1, Window) ELSE s

\* Mutant: the trim comes one entry late.
LastOfLate(s) == IF Len(s) > Window + 1 THEN SubSeq(s, Len(s) - Window + 1, Len(s)) ELSE s

\* s.data[key][len-Window:]
LastOf(s) == IF Len(s) > Window THEN SubSeq(s, Len(s) - Window + 1, Len(s)) ELSE s

Init ==
    /\ file = Absent
    /\ copy = [p \in Process |-> NotLoaded]
    /\ pc = [p \in Process |-> "off"]
    /\ todo = [p \in Process |-> <<>>]
    /\ started = 0
    /\ appends = 0
    /\ log = NoLists
    /\ disturbed = [p \in Process |-> FALSE]
    /\ intact = TRUE

-----------------------------------------------------------------------------
(* A command from its start to the moment the cluster is ready.            *)

Start(p) ==
    /\ pc[p] = "off"
    /\ started < MaxRuns
    /\ started' = started + 1
    /\ pc' = [pc EXCEPT ![p] = "follow"]
    /\ UNCHANGED <<store, todo, appends, log, ghost>>

\* The first view: estimates asks for a key and load reads the file.  A file
\* that is absent or does not parse counts as an empty history.
Load(p) ==
    /\ pc[p] = "follow"
    /\ ~copy[p].loaded
    /\ copy' = [copy EXCEPT ![p] = Loaded(file.lists)]
    /\ disturbed' = [disturbed EXCEPT ![p] = \E q \in Process : pc[q] = "write"]
    /\ UNCHANGED <<file, pc, todo, started, appends, log, intact>>

\* The map is made before the file is read: the call that fails returns the
\* error, and the next one finds an empty history.
LoadFails(p) ==
    /\ MayFail
    /\ pc[p] = "follow"
    /\ ~copy[p].loaded
    /\ copy' = [copy EXCEPT ![p] = Loaded(NoLists)]
    /\ disturbed' = [disturbed EXCEPT ![p] = TRUE]
    /\ UNCHANGED <<file, pc, todo, started, appends, log, intact>>

\* A view is ready: recordHistory goes through the phases that are done and
\* took time.
Ready(p) ==
    /\ pc[p] = "follow"
    /\ copy[p].loaded
    /\ \E run \in Runs : todo' = [todo EXCEPT ![p] = run]
    /\ pc' = [pc EXCEPT ![p] = "record"]
    /\ UNCHANGED <<store, started, appends, log, ghost>>

-----------------------------------------------------------------------------
(* recordHistory: Append and, in it, save.                                 *)

\* Mutant: the newest entry goes to the front.
ExtendedInFront(lists, k) == [lists EXCEPT ![k] = LastOf(<<appends + 1>> \o @)]

Extended(lists, k) == [lists EXCEPT ![k] = LastOf(Append(@, appends + 1))]

Note(p) ==
    LET k == Head(todo[p]) IN
    /\ appends + 1 \in DOMAIN Took
    /\ appends' = appends + 1
    /\ log' = [log EXCEPT ![k] = Append(@, appends + 1)]
    /\ copy' = [copy EXCEPT ![p].lists = Extended(@, k)]
    /\ todo' = [todo EXCEPT ![p] = Tail(@)]

\* Append up to the moment WriteFile has opened, and so truncated, the file.
AppendEntry(p) ==
    /\ pc[p] = "record"
    /\ todo[p] # <<>>
    /\ Note(p)
    /\ file' = Truncated
    /\ pc' = [pc EXCEPT ![p] = "write"]
    /\ disturbed' = [q \in Process |-> disturbed[q] \/ (q # p /\ copy[q].loaded)]
    /\ intact' = (intact /\ ~disturbed[p])
    /\ UNCHANGED started

\* The directory cannot be made or the file not opened; recordHistory ignores
\* the error and goes on to the next phase.
AppendFails(p) ==
    /\ MayFail
    /\ pc[p] = "record"
    /\ todo[p] # <<>>
    /\ Note(p)
    /\ disturbed' = [disturbed EXCEPT ![p] = TRUE]
    /\ intact' = FALSE
    /\ UNCHANGED <<file, pc, started>>

\* The write.  If another process wrote in between, its text is overwritten
\* from the start, and what is longer than ours remains behind it.
Write(p) ==
    /\ pc[p] = "write"
    /\ \/ file' = Whole(copy[p].lists)
       \/ file.state # "truncated" /\ file' = Torn
    /\ pc' = [pc EXCEPT ![p] = "record"]
    /\ UNCHANGED <<copy, todo, started, appends, log, ghost>>

\* What a write cut short may leave.  Over another's text it may still parse,
\* with some of our lists and some of the other's; a cut within a list is taken
\* for one that does not parse.
CutShort(p) ==
    LET Mixed(S) == [k \in Key |-> IF k \in S THEN copy[p].lists[k] ELSE file.lists[k]]
    IN  {file, Torn, Whole(copy[p].lists)}
            \cup {Whole(Mixed(S)) : S \in {T \in SUBSET Key : file.state = "whole"}}

WriteFails(p) ==
    /\ MayFail
    /\ pc[p] = "write"
    /\ file' \in CutShort(p)
    /\ pc' = [pc EXCEPT ![p] = "record"]
    /\ disturbed' = [disturbed EXCEPT ![p] = TRUE]
    /\ intact' = FALSE
    /\ UNCHANGED <<copy, todo, started, appends, log>>

-----------------------------------------------------------------------------
(* The end of a command, and of its memory.                                *)

Gone(p) ==
    /\ pc' = [pc EXCEPT ![p] = "off"]
    /\ copy' = [copy EXCEPT ![p] = NotLoaded]
    /\ todo' = [todo EXCEPT ![p] = <<>>]
    /\ disturbed' = [disturbed EXCEPT ![p] = FALSE]
    /\ UNCHANGED <<started, appends, log>>

\* run returns: all is recorded, or the wait ended before the cluster was ready.
Exit(p) ==
    /\ pc[p] = "follow" \/ (pc[p] = "record" /\ todo[p] = <<>>)
    /\ Gone(p)
    /\ UNCHANGED <<file, intact>>

\* Killed between two calls, with nothing of it half done.
KilledIdle(p) ==
    /\ MayFail
    /\ pc[p] = "record"
    /\ Gone(p)
    /\ UNCHANGED <<file, intact>>

\* Killed in WriteFile.
KilledWriting(p) ==
    /\ MayFail
    /\ pc[p] = "write"
    /\ Gone(p)
    /\ file' \in CutShort(p)
    /\ intact' = FALSE

Next == \E p \in Process :
    \/ Start(p) \/ Load(p) \/ LoadFails(p) \/ Ready(p)
    \/ AppendEntry(p) \/ AppendFails(p) \/ Write(p) \/ WriteFails(p)
    \/ Exit(p) \/ KilledIdle(p) \/ KilledWriting(p)

Spec == Init /\ [][Next]_vars

-----------------------------------------------------------------------------
(* The estimate.                                                           *)

\* Mutant: the rank is rounded down.
RankDown(percent, n) ==
    LET r == (percent * n) \div 100 IN
    IF r < 1 THEN 1 ELSE IF r > n THEN n ELSE r

\* percentile on n samples in ascending order: int(p*n + 0.5), within 1..n.
Rank(percent, n) ==
    LET r == (percent * n + 50) \div 100 IN
    IF r < 1 THEN 1 ELSE IF r > n THEN n ELSE r

\* sort.Slice: the durations in ascending order.
Sorted(s) ==
    [n \in DOMAIN s |->
        CHOOSE v \in {s[i] : i \in DOMAIN s} :
            /\ Cardinality({i \in DOMAIN s : s[i] < v}) < n
            /\ Cardinality({i \in DOMAIN s : s[i] =< v}) >= n]

Unknown(n) == [known |-> FALSE, p50 |-> 0, p95 |-> 0, samples |-> n]

From(durations) ==
    LET used   == LastOf(durations)
        n      == Len(used)
        sorted == Sorted(used)
    IN  IF n < MinSamples THEN Unknown(n)
        ELSE [known |-> TRUE, p50 |-> sorted[Rank(50, n)], p95 |-> sorted[Rank(95, n)],
              samples |-> n]

DurationsOf(list) == [i \in DOMAIN list |-> Took[list[i]]]

\* estimates: what the views of process p say of key k.
Estimate(p, k) == From(DurationsOf(copy[p].lists[k]))

-----------------------------------------------------------------------------
(* Properties.                                                             *)

Lists == [Key -> Seq(1..appends)]
Kept  == {lists \in Lists : \A k \in Key : Len(lists[k]) =< Window}

\* The variables have their types, and no list in the file or in a copy of it
\* outgrows the window.
TypeOK ==
    /\ file \in [state : {"absent", "truncated", "torn", "whole"}, lists : Kept]
    /\ file.state # "whole" => file.lists = NoLists
    /\ copy \in [Process -> [loaded : BOOLEAN, lists : Kept]]
    /\ pc \in [Process -> {"off", "follow", "record", "write"}]
    /\ todo \in [Process -> Seq(Key)]
    /\ started \in 0..MaxRuns
    /\ appends \in Nat
    /\ log \in Lists
    /\ disturbed \in [Process -> BOOLEAN]
    /\ intact \in BOOLEAN

\* s holds no more than Window of l's entries, each once and in l's order.
DrawnFrom(s, l) ==
    /\ Len(s) =< Window
    /\ \A i, j \in DOMAIN s : i < j => s[i] < s[j]
    /\ \A i \in DOMAIN s : \E j \in DOMAIN l : s[i] = l[j]

\* Whatever races, failures and kills do to the history, a list in it is of
\* runs that were recorded under its own key, oldest first, none twice and
\* none too many: the file may forget but it does not lie.
NothingInvented ==
    \A k \in Key :
        /\ DrawnFrom(file.lists[k], log[k])
        /\ \A p \in Process : DrawnFrom(copy[p].lists[k], log[k])

\* s is the last Window entries of l, or all of them.
EndOf(s, l) ==
    /\ Len(s) = (IF Len(l) < Window THEN Len(l) ELSE Window)
    /\ \A i \in DOMAIN s : s[i] = l[Len(l) - Len(s) + i]

\* README.md:160: the timings of the last twenty runs are remembered.  Here:
\* whenever no command is at the file, it holds the last Window entries.
KeepsLastRuns ==
    (\A p \in Process : pc[p] # "write") => \A k \in Key : EndOf(file.lists[k], log[k])

\* That is so as long as no command appends after another one has written
\* since it read the file, and no call fails: commands that only look, run at
\* the same time or are killed between two writes do no harm.
IntactKeepsLastRuns == intact => KeepsLastRuns

\* A command that nobody disturbs has the file as its copy, and so leaves it
\* whole when it has recorded its run, also if it found it torn or empty.
UndisturbedHasTheFile ==
    \A p \in Process :
        copy[p].loaded /\ pc[p] # "write" /\ ~disturbed[p] => file.lists = copy[p].lists

\* v has the rank percent*n, rounded to the nearest, among the samples s.
HasRank(v, percent, s) ==
    LET Below(w)  == Cardinality({i \in DOMAIN s : s[i] < w})
        Within(w) == Cardinality({i \in DOMAIN s : s[i] =< w})
    IN  /\ \E i \in DOMAIN s : s[i] = v
        /\ 100 * Below(v) =< percent * Len(s) - 50
        /\ 100 * Within(v) > percent * Len(s) - 50

\* An estimate is made of at least MinSamples runs of its key, its p50 and p95
\* are durations of such runs with half and 95% of them below, to the nearest
\* run, and its samples are all a view's process knows of the key.
EstimatesAreOfTheHistory ==
    \A p \in Process, k \in Key :
        LET est == Estimate(p, k)
            s   == DurationsOf(copy[p].lists[k])
        IN  /\ est.samples = Len(s)
            /\ est.known <=> Len(s) >= MinSamples
            /\ est.known => /\ HasRank(est.p50, 50, s)
                            /\ HasRank(est.p95, 95, s)
                            /\ est.p50 =< est.p95
=============================================================================
