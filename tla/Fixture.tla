------------------------------ MODULE Fixture -------------------------------
(***************************************************************************)
(* One scenario directory and the commands around it: `cluster fixture     *)
(* record` and `synth` (cmd/cluster/fixture.go), which fill it through     *)
(* fixture.Write, and a replay (cmd/cluster/replay.go), which loads it and *)
(* hands it to a renderer over a channel and a clock they share            *)
(* (internal/fixture/write.go).                                            *)
(*                                                                         *)
(* An envelope is the second it was taken at and whether it is synthetic.  *)
(* The cluster is created at second 0.  Recordings are made one after the  *)
(* other, and so are replays and runs of `synth`; the three run whenever   *)
(* they like, file by file.                                                *)
(***************************************************************************)
EXTENDS Integers, FiniteSets, SequencesExt

CONSTANTS
    Every,      \* --every
    MaxPoints,  \* --max-points
    SynthTimes, \* the seconds of the synthetic timeline, in its order
    Wide,       \* the first second with a digit more than the padding: 10000
    Base,       \* ten
    MaxTime,    \* bound: the last second
    MaxStarts,  \* bound: how many commands are started
    Gone,       \* a file that is open and removed
    None

ASSUME FixtureAssumption ==
    /\ Every \in Nat \ {0} /\ MaxPoints \in Nat \ {0} /\ MaxTime \in Nat
    /\ SynthTimes \in Seq(0 .. MaxTime) /\ SynthTimes # <<>>
    /\ Wide \in Nat \ {0} /\ Base \in Nat \ {0} /\ MaxTime < Base * Wide
    /\ MaxStarts \in Nat /\ None \notin Nat /\ None # {}
    /\ Gone \notin Nat /\ Gone # None

VARIABLES
    cluster,  \* "missing", "running" or "ready"
    now,      \* seconds since the Cluster was created
    tl,       \* the recorder: the seconds of Timeline.Envelopes, or None
    writer,   \* writer[w]: fixture.Write under way in `record` and in `synth`
    dir,      \* dir[t]: what t+NNNNs.json holds
    whole,    \* the timeline of the recording that was written last and to its
              \* end, or None when anything has been written since
    loading,  \* loading[r]: fixture.Load under way in a replay and in `synth`:
              \* the files to read, the seconds of those read, what the first of
              \* them holds, and what was whole at ReadDir and at every file since
    play,     \* the replay: what is left to send, and for whom
    clock,    \* the clock that replay and renderer share
    view,     \* the renderer: the envelope in its hands, and the instant it read
    starts

vars == <<cluster, now, tl, writer, dir, whole, loading, play, clock, view, starts>>

Second == 0 .. MaxTime
Kind == {"none", "synthetic", "recorded", "truncated"}
Writing == {"record", "synth"}
Reading == {"replay", "synth"}
Marks(w) == IF w = "record" THEN "recorded" ELSE "synthetic"

Idle ==
    [left |-> <<>>, wanted |-> {}, open |-> None, stale |-> None, alone |-> FALSE, busy |-> FALSE]
NoLoad == [todo |-> <<>>, got |-> <<>>, first |-> None, from |-> None, busy |-> FALSE]
NoPlay == [left |-> <<>>, from |-> None, last |-> None, once |-> FALSE, on |-> FALSE]
NoView == [of |-> None, next |-> None, at |-> None]

\* A directory lists names as strings: a fifth digit is compared with the 's'
\* that follows four.
Before(s, t) ==
    IF (s < Wide) = (t < Wide) THEN s < t
    ELSE IF s < Wide THEN s < t \div Base ELSE s \div Base <= t

Files == {t \in Second : dir[t] # "none"}
Listing ==
    [n \in 1 .. Cardinality(Files) |->
        CHOOSE t \in Files : Cardinality({s \in Files : Before(s, t)}) = n - 1]

-----------------------------------------------------------------------------
Init ==
    /\ cluster = "missing" /\ now = 0
    /\ tl = None /\ writer = [w \in Writing |-> Idle]
    /\ dir = [t \in Second |-> "none"] /\ whole = None
    /\ loading = [r \in Reading |-> NoLoad] /\ play = NoPlay /\ clock = 0 /\ view = NoView
    /\ starts = 0

Started == starts < MaxStarts /\ starts' = starts + 1

\* The controllers; the bound leaves a recorder its interval before time ends.
Become ==
    /\ now + Every < MaxTime
    /\ cluster' \in {"running", "ready"} \ {cluster}
    /\ UNCHANGED <<now, tl, writer, dir, whole, loading, play, clock, view, starts>>

Tick ==
    /\ now < MaxTime /\ now' = now + 1
    /\ UNCHANGED <<cluster, tl, writer, dir, whole, loading, play, clock, view, starts>>

Record ==
    /\ tl = None /\ ~writer["record"].busy
    /\ Started
    /\ tl' = <<>>
    /\ UNCHANGED <<cluster, now, writer, dir, whole, loading, play, clock, view>>

Other(w) == IF w = "record" THEN "synth" ELSE "record"

\* fixture.Write begins: the files in order, then the removals.
Begin(w, times) ==
    /\ writer' = [writer EXCEPT
                    ![w] = [left |-> times, wanted |-> ToSet(times), open |-> None,
                            stale |-> None, alone |-> ~writer[Other(w)].busy, busy |-> TRUE],
                    ![Other(w)].alone = FALSE]
    /\ whole' = None

TooSoon == tl # <<>> /\ now - Last(tl) < Every

Enough == cluster = "ready" \/ Len(tl) + 1 >= MaxPoints

\* An envelope arrives: the watch sends one whenever something changes, and one
\* with every heartbeat.
Receive ==
    /\ tl # None /\ cluster # "missing" /\ ~TooSoon
    /\ IF Enough THEN tl' = None /\ Begin("record", Append(tl, now))
       ELSE tl' = Append(tl, now) /\ UNCHANGED <<writer, whole>>
    /\ UNCHANGED <<cluster, now, dir, loading, play, clock, view, starts>>

-----------------------------------------------------------------------------
(* fixture.Load, for a replay and for IsRecorded.                          *)

\* os.ReadDir.
ReadDir(r) ==
    /\ ~loading[r].busy
    /\ IF r = "synth" THEN ~writer["synth"].busy ELSE ~play.on
    /\ Started
    /\ loading' = [loading EXCEPT
                     ![r] = [NoLoad EXCEPT !.todo = Listing, !.from = whole, !.busy = TRUE]]
    /\ UNCHANGED <<cluster, now, tl, writer, dir, whole, play, clock, view>>

Loads == UNCHANGED <<cluster, now, tl, writer, dir, whole, play, clock, view, starts>>

\* One os.ReadFile.
ReadFile(r) ==
    /\ loading[r].todo # <<>>
    /\ LET t == Head(loading[r].todo)
       IN  /\ dir[t] \in {"synthetic", "recorded"}
           /\ loading' = [loading EXCEPT
                            ![r].todo = Tail(@), ![r].got = Append(@, t),
                            ![r].first = IF @ = None THEN dir[t] ELSE @,
                            ![r].from = IF @ = whole THEN @ ELSE None]
    /\ Loads

\* The file has been removed, or cannot be decoded: the replay is an error, and
\* the scenario is not recorded.
ReadFails(r) ==
    /\ loading[r].todo # <<>> /\ dir[Head(loading[r].todo)] \in {"none", "truncated"}
    /\ loading' = [loading EXCEPT ![r] = [NoLoad EXCEPT !.busy = (r = "synth")]]
    /\ Loads

Loaded(r) == loading[r].busy /\ loading[r].todo = <<>>

\* Mutant: the envelope of second 0 says.
IsRecordedAtStart ==
    loading["synth"].first = "recorded" /\ Head(loading["synth"].got) = 0

\* The first envelope that was read says; nothing to read is no recording.
IsRecorded == loading["synth"].first = "recorded"

\* `synth` steps aside, or begins to write.
Synth ==
    /\ Loaded("synth")
    /\ loading' = [loading EXCEPT !["synth"] = NoLoad]
    /\ IF IsRecorded THEN UNCHANGED <<writer, whole>>
       ELSE Begin("synth", SynthTimes)
    /\ UNCHANGED <<cluster, now, tl, dir, play, clock, view, starts>>

-----------------------------------------------------------------------------
(* fixture.Write, for `record` and for `synth`.                            *)

Others == UNCHANGED <<cluster, now, tl, loading, play, clock, view, starts>>

\* os.WriteFile truncates and then writes.
OpenFile(w) ==
    /\ writer[w].busy /\ writer[w].left # <<>> /\ writer[w].open = None
    /\ dir' = [dir EXCEPT ![Head(writer[w].left)] = "truncated"]
    /\ writer' = [writer EXCEPT ![w].open = Head(writer[w].left), ![w].left = Tail(@)]
    /\ whole' = None /\ Others

\* What is written to a file that the other has removed is nowhere.
CloseFile(w) ==
    /\ writer[w].open # None
    /\ dir' = IF writer[w].open = Gone THEN dir ELSE [dir EXCEPT ![writer[w].open] = Marks(w)]
    /\ writer' = [writer EXCEPT ![w].open = None]
    /\ whole' = None /\ Others

Written(w) == writer[w].busy /\ writer[w].left = <<>> /\ writer[w].open = None

\* Mutant: what the timeline no longer has is left in the directory.
SweepNothing(w) ==
    /\ Written(w) /\ writer[w].stale = None
    /\ writer' = [writer EXCEPT ![w].stale = {}]
    /\ UNCHANGED <<dir, whole>> /\ Others

\* os.ReadDir, and then one os.Remove after the other.
Sweep(w) ==
    /\ Written(w) /\ writer[w].stale = None
    /\ writer' = [writer EXCEPT ![w].stale = Files \ writer[w].wanted]
    /\ UNCHANGED <<dir, whole>> /\ Others

RemoveFile(w) ==
    /\ Written(w) /\ writer[w].stale # None
    /\ \E t \in writer[w].stale \cap Files :
        /\ dir' = [dir EXCEPT ![t] = "none"]
        /\ writer' = [writer EXCEPT ![w].stale = @ \ {t},
                                    ![Other(w)].open = IF @ = t THEN Gone ELSE @]
    /\ whole' = None /\ Others

Done(w) ==
    /\ Written(w) /\ writer[w].stale = {}
    /\ writer' = [writer EXCEPT ![w] = Idle]
    /\ whole' = IF w = "record" /\ writer[w].alone THEN writer[w].wanted ELSE None
    /\ UNCHANGED dir /\ Others

\* Killed, or any step of Write failed: what is on disk stays.
Crash(w) ==
    /\ writer[w].busy
    /\ writer' = [writer EXCEPT ![w] = Idle]
    /\ UNCHANGED <<dir, whole>> /\ Others

-----------------------------------------------------------------------------
(* replaySource, and a renderer that reads the clock.                      *)

Quiet == UNCHANGED <<cluster, now, tl, writer, dir, whole>>

\* once: lastSnapshot drains the channel and reads the clock when it is closed.
Replay ==
    /\ Loaded("replay")
    /\ loading' = [loading EXCEPT !["replay"] = NoLoad]
    /\ \E once \in BOOLEAN :
        play' = [left |-> loading["replay"].got, from |-> loading["replay"].from,
                 last |-> None, once |-> once, on |-> TRUE]
    /\ Quiet /\ UNCHANGED <<clock, view, starts>>

\* Mutant: every timeline starts at the constant epoch.
AdvanceEpoch ==
    /\ play.on /\ play.left # <<>> /\ play.last # Head(play.left)
    /\ clock' = 0
    /\ play' = [play EXCEPT !.last = Head(play.left)]
    /\ Quiet /\ UNCHANGED <<loading, view, starts>>

\* NowFor, and the goroutine is on to the send.
Advance ==
    /\ play.on /\ play.left # <<>> /\ play.last # Head(play.left)
    /\ clock' = Head(play.left)
    /\ play' = [play EXCEPT !.last = Head(play.left)]
    /\ Quiet /\ UNCHANGED <<loading, view, starts>>

\* The channel is unbuffered; the renderer is done with the envelope before.
Send ==
    /\ play.on /\ play.left # <<>> /\ play.last = Head(play.left)
    /\ play.once \/ view.of = None \/ view.at # None
    /\ view' = [of |-> Head(play.left), at |-> None,
                next |-> IF Len(play.left) > 1 THEN play.left[2] ELSE None]
    /\ play' = [play EXCEPT !.left = Tail(@)]
    /\ Quiet /\ UNCHANGED <<loading, clock, starts>>

Look ==
    /\ view.of # None /\ view.at = None
    /\ play.once => play.left = <<>>
    /\ view' = [view EXCEPT !.at = clock]
    /\ Quiet /\ UNCHANGED <<loading, play, clock, starts>>

\* The channel is closed, or the run has seen enough.
Quit ==
    /\ play.on
    /\ view.at # None \/ (view.of = None /\ play.left = <<>>)
    /\ play' = NoPlay /\ view' = NoView
    /\ Quiet /\ UNCHANGED <<loading, clock, starts>>

Next ==
    \/ Become \/ Tick \/ Record \/ Receive
    \/ \E r \in Reading : ReadDir(r) \/ ReadFile(r) \/ ReadFails(r)
    \/ Synth
    \/ \E w \in Writing : OpenFile(w) \/ CloseFile(w) \/ Sweep(w) \/ RemoveFile(w) \/ Done(w) \/ Crash(w)
    \/ Replay \/ Advance \/ Send \/ Look \/ Quit

Spec == Init /\ [][Next]_vars

-----------------------------------------------------------------------------
(* Properties.                                                             *)

\* Every variable has the type its declaration says, and a recording that was
\* written to its end, with nothing written since, is what is on disk: every file
\* of it and no other (write.go:31-33).
TypeOK ==
    /\ cluster \in {"missing", "running", "ready"} /\ now \in Second
    /\ tl = None \/ tl \in Seq(Second)
    /\ \A w \in Writing :
          /\ writer[w].left \in Seq(Second) /\ writer[w].wanted \subseteq Second
          /\ writer[w].open # None => writer[w].open \in Second \cup {Gone} /\ writer[w].busy
          /\ writer[w].stale # None => writer[w].stale \subseteq Second
    /\ dir \in [Second -> Kind]
    /\ whole # None => \A t \in Second : dir[t] = IF t \in whole THEN "recorded" ELSE "none"
    /\ \A r \in Reading :
          /\ loading[r].todo \in Seq(Second) /\ loading[r].got \in Seq(Second)
          /\ loading[r].first \in {None, "synthetic", "recorded"}
          /\ loading[r].from # None => loading[r].from \subseteq Second
    /\ play.left \in Seq(Second) /\ play.last \in Second \cup {None}
    /\ play.from # None => play.from \subseteq Second
    /\ clock \in Second
    /\ view.of \in Second \cup {None} /\ view.next \in Second \cup {None}
    /\ view.at \in Second \cup {None}
    /\ starts \in 0 .. MaxStarts

EquallyLong(S) == (\A t \in S : t < Wide) \/ (\A t \in S : t >= Wide)

\* Whatever was written while it was loaded, a replay has its envelopes in the
\* order they were taken, each once, as long as their names have the same number
\* of digits (write.go:14-18, 74); when it was a whole recording for all of the
\* load, no envelope is of anything else and they are at least --every apart.  A
\* view is drawn at its envelope's instant or, when the goroutine has gone ahead,
\* at the next one's, and the last envelope is always drawn at its own
\* (replay.go:17-18).
ReplayIsTheTimeline ==
    play.on =>
        /\ EquallyLong(ToSet(play.left)) =>
              \A i, j \in 1 .. Len(play.left) : i < j =>
                  /\ play.left[i] < play.left[j]
                  /\ play.from # None => play.left[i] + Every <= play.left[j]
        /\ play.from # None => ToSet(play.left) \subseteq play.from
        /\ view.at # None =>
              view.at \in {view.of, view.next} /\ (view.next = None => view.at = view.of)

Begins(w) == ~writer[w].busy /\ writer'[w].busy

\* A recording that was written to its end, alone, is lost only to the next
\* recording, or to a `synth` that had begun to look before it was there: one
\* that has looked at nothing else steps aside (fixture.go:129-134,
\* write.go:20-22).
RecordingOutranksSynth ==
    [][whole # None /\ whole' # whole =>
          \/ Begins("record")
          \/ Begins("synth") /\ loading["synth"].from # whole]_vars
=============================================================================
