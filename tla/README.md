# SixFields in TLA+

SixFields is `cluster`, a command-line tool over Cluster API (CAPI): it applies a
`Cluster`, follows the objects the controllers create for it, folds them into four
phases, says which object a stalled cluster is stuck on, and ends with an exit code
that scripts rely on. This directory holds a model of it in TLA+, the TLC runs that
check the model on small instances, and TLAPS proofs of its main safety properties
for instances of any size. `PROJECT.json` maps every definition to the lines it
stands for.

## 1. The system

```
 API server --list/watch--> watch.Client --envelope--> run --view--> render.Stream --> terminal
                            (goroutines,   (channel)   |  ^
                             shared cache)             |  +-- fold.Fold, why.Rank, eta.Get
                                                       +----> exit code, history.json
 kubectl apply <-- up <-- gen.FromYAML, checkClass         replay / fixture record: the same
                                                           channel from and to files
```

| component | state | operations | hard behaviour | correct when |
|---|---|---|---|---|
| `internal/watch/client.go` | cache, one-slot `events`, the emitter's `dirty` and `last`, a ticker | `Snapshot`, `Watch`, `put`, `envelope` | one goroutine per resource, twice; signals dropped on purpose; a send that blocks; watches that end | no change is left without a wake-up; the view never goes back; a silent cluster still talks; cancelling closes |
| `internal/watch/reach.go` | worklist, visited set (local) | `Reachable` | input in map order; cycles; definitions shared by clusters | exactly the least set, sorted, of one cluster |
| `cmd/cluster/stream.go`, `live.go`, `status.go`, `up.go` | `last`, the deadline | `run`, `build`, `finish` | timer against envelope; ready at start; writes that fail | the exit code speaks for the last view; readiness ends the wait |
| `internal/render/stream.go` and the renderers | `lastAt`, `renders`, what each renderer rendered last | `Update`, `Render`, `Heartbeat` | frames dropped by the rate limit; a heartbeat inside a heartbeat | what is printed catches up; silence is bounded |
| `internal/fold` | none (pure) | `Fold` | four phases on one object's conditions; transitions out of order; time | durations fit the run; a stall is called in time and clears |
| `internal/snapshot` | none (pure) | reading conditions and references | absent values read as zero | as its readers need |
| `internal/why`, `cmd/cluster/why.go` | none (pure) | `Rank`, `classify`, the command | a six-key comparator over the list it sorts; other objects than fold's clock reads | one winner, whatever the order, and true reasons for the rest |
| `internal/eta` | `history.json`, a copy per process | `Append`, `Durations`, `From` | processes without a lock; a write that is not atomic; a load that fails once | no run's durations are lost; an estimate is in the history |
| `cmd/cluster/replay.go`, `fixture.go`, `internal/fixture/write.go` | a clock shared with the consumer; the points recorded; a directory of files | replay, record, synth | clock written beside the channel; files written one by one; two writers of one directory | a replay is the timeline on its clock; a `synth` that looks steps aside for a recording |
| `cmd/cluster/up.go`, `class.go`, `apply.go`, `simple.go` | none | `new`, `plan`; validate, look up the class, apply, wait | three calls of kubectl with the world changing between | what is waited for is what was applied, of a class that was there |
| `internal/gen`, `policy/vap` | none | validate and generate; admission | two implementations of one rule | they accept the same Clusters |
| `internal/explain` | the anonymiser's table | `Hide`, `Reveal`, `Validate` | answers of a model that may be anything | nothing hidden leaves, everything shown is grounded |
| `internal/msg` | registry | `ExitCodeOf` | | a class per code |

The rest (fixtures written as Go code, `doctor`, `kubeconfig`, `skills`, `docs`,
`bench`, the ClusterClass YAML, `hack`, `e2e`) keeps no state: other programs are
called and text is printed. `PROJECT.json` lists each part with its status.

How they interact: one channel of envelopes joins the source to `run`, and is
unbuffered in `Watch` and in the replay; the cache joins the watch goroutines to the
emitter and is behind a mutex; views go down by call; the exit code and
`history.json` are what the command leaves behind. Nothing calls
`signal.NotifyContext`, so in production the context ends only with the process and
`--timeout` is the one way a wait is cut short; the cancelling paths serve the tests
and are modelled because the code has them.

## 2. Modules

| module | what it is |
|---|---|
| `Feed` | the promise of a watch to its consumer: a conflating feed of the server's versions |
| `Watch` | `Snapshot` and `Watch`: lists, watches, cache, signals, ticker, emitter; implements `Feed` and `Offers` |
| `Offers` | the promise of a watch to `cluster up`: when it offers what its cache holds, counted in ticks of its timer; `Watch` implements it, and so does the source of `Follow` |
| `WatchProofs` | type correctness, no lost wake-up, and the refinements of `Feed` and of `Offers` |
| `Reach` | `Reachable`, one visit at a time in any order |
| `ReachProofs` | it returns exactly the least set, of one cluster, as one sorted list |
| `Follow` | the live source (reduced to `Offers`, with a cache that may stop following the cluster), `run`, `finish`, `Stream.Update`, the three renderers, in discrete time |
| `FollowProofs` | the types, what an exit code says of what was printed, how late and how silent the screen can be, and the refinement of `Offers` |
| `Fold` | the four phases, stall detection and durations, under every step of the controllers |
| `FoldProofs` | the type and duration bounds, and that stalls are called in time and clear |
| `History` | `eta.FileStore` under several processes, `recordHistory`, the estimate |
| `HistoryProofs` | what the file can never hold, what may cost an entry, the percentile's rank and what an estimate rests on |
| `Why` | `Rank`, `collect`, the comparator, `explainLosses`, `classify` and the `why` command, over every change of a condition |
| `WhyProofs` | the comparator is a strict weak order, exactly one candidate wins, in any order of the contributors, what the line may say and when it may change |
| `Up` | `new`, `plan`, `up`: `gen` and the admission policy as one relation over files, the class lookup, `kubectl apply` and its failures, the NAME that is waited for |
| `UpProofs` | the types, the client's rules against the policy's in both directions, what is waited for, what `new` writes, and that the class suggested is the nearest by edits |
| `Fixture` | `record`, `synth` and a replay over one scenario directory, written and loaded file by file |
| `FixtureProofs` | a finished recording is what is on disk, a replay of it is its timeline, and a `synth` that sees it leaves it alone |
| `MCWatch`, `MCReach`, `MCFollow`, `MCFold`, `MCHistory`, `MCWhy`, `MCUp`, `MCFixture` | instances for TLC |

**Watch.** An object is its version number. `list`, `answer` and `PutList` are the
goroutines of `Snapshot`; `AllListed` is `wg.Wait`. `OpenWatch` begins with the
objects that exist, as a watch opened at no resource version does. `Put` and `Signal`
are the two halves of a watch goroutine's loop body, apart because the emitter can
run between them. The emitter is `emit`: in its `select`, blocked in the send, or
closed. `tick` is the value in `ticker.C` and keeps the time at which it fired, so a
slow consumer makes `now.Sub(last)` small, as in the code. All the puts of one list
are one step: nothing reads the cache before the wait group is released. A watch ends
after an event without an object (`Error`), which the goroutine skips, or without one.
The API server and the context are external.

**Offers.** It joins the two: its source changes, its timer ticks, and the look at a tick
(`Look`) offers the state if a noticed change has not been offered or if `Heartbeat` ticks
have gone by without an offer. A change may be noticed later (`late`), because in `Watch`
its signal and the tick are taken in either order. The timer holds one tick, and drops
those that fire while it waits: `quiet` is the time of the tick that waits, as
`now.Sub(last)` will read it, and `spare` what has passed since. `Watch` maps its cache to
the state, `dirty` to `fresh`, a signal on its way to `late`, and `emit` to the turn, with
no supposition about how fast the consumer is. `Follow` needs less: its steps take no time
but the lag, which is less than a debounce, so that every tick is looked at when it fires
(`spare` is 0) and a change is noticed at once (`late` is FALSE). It maps its time since the
last offer to whole ticks; a snapshot makes no offers, and there the source stays "off".

**Reach.** Objects are numbered in the order of their keys, so that sorting by kind
and name is sorting by number. `MayRefer` and `MayOwn` are what a namespace may
contain and Init chooses any part of it. Which YAML path holds a reference is
abstracted to a field that is read of certain kinds only. The assumption
`ReachAssumption` says what CAPI guarantees of ownership: only a shared definition
owns objects of several clusters.

**Follow.** The cluster is what a view shows: absent, building (with a text per
progress made) or ready, and the time since it changed. `world` is the API server's and
`cache` what the watch holds of it. The two are one while every list has been answered,
every watch is open and nothing has been deleted. `Listed` and `LoseSight` end that: a
list or the opening of a watch fails, a watch ends and is not opened again
(client.go:201-207), or an object is deleted and stays in the cache (256-260). From then on
`world` is `Unseen`, since what the cluster is makes no difference to the program, and
the cache shows whatever the watches that are left make of it (`Mix`), or the same for ever.
`StartFails` is discovery failing, with which the command ends. The watch is reduced to
its proved contract, `Offers`: an envelope of the cache at a debounce tick when something
changed or when the heartbeat is due. A step takes no time except the fold-and-render lag
before `Update` reads the clock. `Handle` is one envelope: build, `Update`, readiness, the
one-shot return. `Mute` are the states in which nothing has a failing condition, so
that `why.Rank` finds nobody to blame and a stalled view carries no stall.

**Fold.** The variables are the function's argument, and the actions are the
controllers' steps between two calls. Times start at 1 for the creation; 0 is Go's
zero time, which the code treats apart. `own[p]` is the latest transition on the
objects that belong to one phase alone, machines and their infrastructure included.
The histories `changed` and `changes` are read by no definition of the code, only by
the properties and the bound.

**History.** Every command is a process with its own `FileStore`: `copy` is
`FileStore.data`, read once by the first view's estimates and written back whole by every
`Append`. `AppendEntry` runs up to the moment `os.WriteFile` has truncated the file and
`Write` is the rest, apart because another process can read, truncate or write in between; a
shorter text written over a longer one leaves a file that does not parse. A write that is
cut short over another's text (`CutShort`) leaves that text, ours, a file that does not
parse, or one that does with some lists of each; a cut within a list is taken as one that
does not parse. Reads and writes fail and processes are killed at any step. A duration is
named by its place among all `Append` calls, so that lists can be compared with `log`, the
record of everything that was ever appended; `Took` is how long it was (as many durations
are given as entries can be made). `sort.Slice` is `Sorted`, by counting. The ghosts
`disturbed` and `intact` are read by the properties only. A run that sees a ready cluster is
the choice of a member of `Runs`, the phases that are done and took time; everything else
`run` does is in `Follow`.

**Why.** The variables are the argument of `Rank`, one envelope, and the actions are
what controllers do to it between two calls: a condition flips with whatever its
controller says, a machine comes or goes, the phase begins or is pending again
(`running`, as only a running phase stalls), the frontier moves, time passes. A condition
is the pair of its object and type; its reason is reduced to the type that a
`WaitingForX` names and its message to whether it speaks of an image. `Contributors`
and `Watched` are what `fold` hands over and what its clock reads; that the second
contains the first and its infrastructure is `ClockAssumption`, read off `fold.go`.
`sort.SliceStable` is `Winner`, what it puts first, and `WhyProofs` shows that the
comparator is of the kind for which it puts one first. The names of objects are
numbers in their alphabetical order. That an object lists a type once is Kubernetes'
rule for conditions. `NamesAssumption` says which objects may be equal in rank and in
name: those that one contributor brings, as a machine's infrastructure and its bootstrap
configuration. The API server sees to it within a kind; a MachineDeployment and a
MachinePool of one name are outside it, and of those the order of collection decides.

**Up.** A file is a record of what `FromObject` and the policy read of a Cluster:
class and placement, version (what follows the v, and whether it has one), size, replicas,
pools with their keys, and any other keys at the levels the sources look at: `spec`,
`topology`, `classRef`, `controlPlane`, `workers`, the variables, a pool. `GenAllows` are the
keys the client takes at each level and `PolicyAllows` those of the CEL, written down twice
as in the code, so that one can drift from the other; they differ in
`spec.topology.class`. `FieldDenials` and `Validate` are the client's rules, `denied` and
`versionMalformed` the policy's. All files are of one Cluster, but `up` may be given another
NAME, the file's or none (`Setup`), and waits for that. `Submitted` is kubectl's three-way
merge of the file, the last applied one and the stored object, which decides what admission
sees on an update; `Webhook` is Cluster API's own defaulting of it. The class a denial names
is left out. Others write defaults back, edit past kubectl, delete the
Cluster, and install or remove classes, at any step. The edit distance is the code's
dynamic program: `rows` is a recursive function, one row of the table after the other, and
`current` one row, a cell after the other, over the spellings of the class names. `nearest`
is a recursive function over the classes in kubectl's order. `Edits`, which the property
compares it with, knows nothing of tables: letters are cut, replaced and put in.

**Fixture.** The directory maps a second to the kind of its file. `Write` is five
steps (its beginning, a file truncated, the file complete, the sweep's listing, each
removal), for `record` and `synth` alike, and either can crash at each; a file removed
while it is open is `Gone`, and what is written to it is nowhere. `Load` is `ReadDir` and
then one `ReadFile` per file, for a replay and for the look of `synth` alike, with writes
in between; it fails on a file that is gone or cut short (errors of the disk itself are
left out). `Synth` is what follows its last read: it steps aside or begins to write.
`Advance` and `Send` are the two halves of the replay's loop body: the clock is written
before the send, and `Look` is the consumer reading it, in either order of the two that the
channel leaves open. `Listing` is what `os.ReadDir` returns, the names in their order;
`synth` writes a timeline of its own (`SynthTimes`). `whole` and `from` are read by the
properties only: the recording that was written last, to its end and alone, with nothing
written since, and the one that was there for all of a load.

## 3. What is checked

Runs that pass:

| run | instance | shows |
|---|---|---|
| `watch` | 2 resources, 1 object each, versions to 2 and 1, heartbeat 2, lists and watches that fail, watches that end (838 thousand states) | `NoLostWakeup`, `ImplementsFeed`, `ImplementsOffers` |
| `watch_live` | 1 resource, 1 object, versions to 3 | `EveryChangeArrives`, `EmitterNeverHangs` under fairness |
| `follow` | 3 renderers, 2 texts, one of them mute, debounce 2, heartbeats 4 and 6, rate limit 2, stall after 5, lag 1, lists and watches that fail or end, deletions (522 thousand states) | `ScreenCatchesUp`, `SilenceIsBounded`, `ExitSaysWhatWasSeen`, `ReadyEndsTheRun`, `ImplementsOffers` |
| `reach` | 8 objects of 2 clusters, every subset of 6 references, 5 ownerships and 3 labels | `ExactlyTheReachableSet`, `OneSortedList`, `OneClusterOnly`, `Ends` |
| `history` | 2 commands at a time, 4 in all, 3 keys, window 3, estimates from 2 | `NothingInvented`, `IntactKeepsLastRuns`, `EstimatesAreOfTheHistory` |
| `fold` | 4 instants, 2 changes from every stage, stall after 1 | `DurationsFit`, `StallsInTime`, `StallClears` |
| `why` | 11 objects, 11 conditions, 2 changes, 3 instants, stall after 1 (128 thousand states) | `WinnerIsOrderFree`, `RootOfTheWaits`, `LossesAreExplained`, `StallIsAsOldAsItSays`, `BlameMovesForAReason` |
| `up` | 35 files that differ from a good one in one or two respects, 4 sets of flags for `new`, 3 class names, 3 values of NAME, 2 commands, 2 changes by others (1.3 million states) | `AcceptedIsAdmitted`, `DeniedIsDenied`, `NewRoundTrips`, `WaitsForWhatItApplied`, `SuggestionIsNearest` |
| `fixture` | seconds 0 to 6, names one digit wider from 4 on, recordings of up to 3 points, 3 commands (2.4 million states) | `ReplayIsTheTimeline`, `RecordingOutranksSynth` |

Runs that TLC refutes, each a statement of a comment or a document the code does not
keep:

| run | what is said | what happens |
|---|---|---|
| `watch_ghosts` | client.go:188: `Watch` keeps the cache current | deleted objects stay in it |
| `follow_exit` | user-guide.md:155: still running when the wait ended exits 2 | it exits 4 |
| `why_worker` | user-guide.md:103: the most specific object that is failing is named | a worker Machine never is: the workers phase hands over its pools alone |

Other places where the models show a document and the code apart, without a run of
their own:

- A watch that ended, or could not be opened, is not opened again (client.go:201-207),
  against "keeps the cache current" (188). From then on the screen of `cluster up` may be
  out of date for ever, and a wait for a cluster that has become ready need not end; the
  same after a deletion, as nothing is taken out of the cache (256-260). So
  `EveryChangeArrives` is promised only while the watch is open, and `ReadyEndsTheRun`
  and what `ScreenCatchesUp` says of the cluster itself only while every list and watch
  has succeeded and nothing has been deleted. What `ScreenCatchesUp` says of the cache
  holds afterwards too.
- A plain run can be silent for six seconds where render/stream.go:23 says five is the
  longest: the watch speaks at 3 s and 6 s, and only then is the silence looked at.
  `SilenceIsBounded` has the bound that holds.
- A phase whose objects carry no condition, as add-ons, is never called stalled
  (fold.go:168), against user-guide.md:91. `StallsInTime` speaks of phases that have
  reported.
- Of two commands that overlap, the one that records last erases the other's durations
  (store.go:67, 94), against README.md:160. `IntactKeepsLastRuns` names the causes.
- A phase stalled on conditions that are all `Unknown` has no candidate: `why` says
  "not waiting on anything" and exits 0.
- why.go reads `spec.bootstrapRef`, where a Machine has `spec.bootstrap.configRef`: of
  real Machines no bootstrap configuration is ever a candidate. The model follows the
  code; `Bootstrap` is what such a field would name.
- `LostTo` says "later in name order" of two conditions that share a name too, where
  only the order of collection decided; `LossesAreExplained` allows the last rule there.
- A Cluster exported from the API server carries fields its controllers wrote: the
  client denies it, admission takes it on an update that leaves them as they are. The
  client also knows no break-glass label, reads only the first document of a file,
  and denies kinds ending in Template of any API group. `DeniedIsDenied` is about
  creation, without break-glass, for rules that both have; the policy's rules on the
  six fields are about Clusters only, and `gen` applies its own to any kind of file.
- `spec.topology.class`, the class as v1beta1 spells it, is denied by the client
  (gen.go:331-337, gen_test.go:86) and let through by the policy on purpose
  (cluster-fields.yaml:40-45, 224), against "the client stays the same answer as
  admission" (gen.go:128-134). It is the one key in which the two lists differ
  (`PolicyAllowsAll`, `PolicyAllowsOneMore`), and the one that `Ruled` leaves out.
- The class a denial names, which the models leave out, differs too: the client names
  `classRef.name` without `-hosted`, and `std` where there is none (gen.go:306-314); the
  policy names it as written, or else `class` (cluster-fields.yaml:146-152).
- `up` waits for the NAME of its arguments, whatever is in the file (up.go:60,
  status.go:68-72): `up dev-1 -f other.yaml` applies one Cluster and waits for another,
  and `up -f cluster.yaml` applies its Cluster and then exits 4. `WaitsForWhatItApplied`
  is about the name that is in the file.
- A recording that ends between the look of `synth` and its write, or while it writes, is
  overwritten or mixed with it (fixture.go:132-136), against "must not be overwritten"
  (write.go:20-22). `RecordingOutranksSynth` is about a recording written to its end with
  no other writer, and a `synth` that looks at nothing but that.
- Of two `size` variables the policy reads the first and the client the last.
- An unreachable server, a lost answer and a refusal all exit 3 (apply.go:29-36), after
  which the Cluster may be stored; user-guide.md:156 says "rejected at admission".
- An edit of another user survives kubectl's merge, so that a file the client accepts
  can be refused for a field it does not have: `edited` in `AcceptedIsAdmitted`.
- A recording that goes past 9999 s replays out of order, since the file names are
  padded to four digits (write.go:14-18); `ReplayIsTheTimeline` compares names of one
  width. A crash inside a recording's last file makes it look synthetic, and `synth`
  then writes over it. A recorder of a Cluster that never appears waits for ever.

Every property of a passing run has a mutant: a plausible slip in the code (a signal
sent before the put, a rate limit after the render, `range` over the growing queue,
the Cluster's whole last transition as the clock, a comparator that looks at the time
before the waits, a class looked up without its suffix) with which TLC violates it.

**Bounds and why they are enough.** `Watch`: two goroutines of each sort interleave with the
emitter and the server, and two versions of one of them are enough for a late answer to undo
a newer event; time saturates at the heartbeat, beyond which no guard tells durations apart.
The liveness run is smaller in objects and larger in versions, since its hazard is one
object changing under a busy emitter. `Follow`: the ratios keep the order of the real
durations, debounce and rate limit below the watch's heartbeat below the renderer's, and
counters saturate above every comparison. `Reach`: one object of each sort the code treats
differently, two of those that two clusters can share; a cycle, a dangling reference, a
stale ownership. `Fold`: two changes are enough to put two phases' last transitions out of
order or to make one fall silent while another is busy, and starting from every stage makes
the history before them short. `History`: two commands race in every way two can, the first
four fill the window of three and overflow it, and the durations neither rise nor fall. A
window of three cannot tell the 95th percentile from the longest run; the rank for larger
ones is proved (`RankIsNearest`). It is the nearest rank by rounding, not by rounding up:
with eleven to nineteen samples the `p95` shown can be one sample below the smallest one
that covers 95% of them. `Why`: the control plane has two of everything a machine has and
one bootstrap configuration, which is what ties and waits need; two changes of an envelope
in which nothing or everything fails reach every pair of reports, and three instants put a
transition before, at and after the edge of a stall. `Up`: a property of validation speaks
of a rule, or of two that hide each other, so files differ from a good one in one or two
respects; two commands are enough for the second to find what the first applied, with two
changes by others before, between or during them. `Fixture`: three points are the least for
which a replay has an envelope before, at and after the one being drawn, and one second lies
on the far side of the width of a name. Deadlock is not checked in these runs because every
model may come to its end: the command exits, the list is done, the bound on time is
reached.

**Fairness.** `Watch`: each goroutine that can run does (Go's scheduler), a list or
watch call returns, the timer fires, and the consumer comes back to its receive while
the context lives, which `run`'s loop does. `Follow`: time passes and the program's own
steps happen. `Reach`: the loop goes on. Never assumed: that the cluster moves,
that a watch opens, stays or ends, that a timeout is given, that a write fails. Where a
property needs a watch that is open it says so.

## 4. What is proved

`tlapm` checks these for every value of the constants that satisfies the modules'
named assumptions.

**Watch** (`WatchAssumption`). `NoLostWakeup` is inductive once it is known that
`dirty` is still TRUE when the emitter starts (`StartsDirty`) and that the lists are
over by then (`ListsFirst`): the lists fill the cache and signal nobody. The refinement
rests on `FeedInv`, in three parts: versions are ordered along the way of an object,
seen, held, cache, truth (`InOrder`); nothing is queued, cached or held out of turn
while lists are still out (`ListsThenWatches`); the events of a queue are in order, no
older than the cache and no newer than the server (`QueueInOrder`). The second part is
where `wg.Wait` enters: without it a late answer undoes an event. Each step of `Watch`
is then a delivery, a change or a stutter of `Feed`: `WatchImplementsFeed`.

`WatchImplementsOffers` rests on the types, `StartsDirty` and `ListsFirst`. What a list puts
is a change of the source while `dirty` is still TRUE, so that the first look offers it. What
a watch puts is a change that is `late` until its signal is taken. The timer's tick, the look
at it, the consumer's receive and the closing are the steps of the source of the same sort,
and every other step leaves it as it is. Nothing is supposed of the timing: the consumer may
be slow, a tick may wait while the emitter is blocked, and others be dropped meanwhile.

**Reach** (`ReachAssumption`). `ReachInv` says that the visited set is the worklist,
that everything the roots and the elements taken so far lead to is visited or about to
be, and that every set which spans contains all of that. `Finish` requires the worklist
exhausted, so the result spans and is the least that does: `ReachIsExact`. With the
ownership assumption, `ReachIsOneCluster`. That the loop does not follow a shared
definition's ownership is needed exactly there. `ReachIsOneSortedList` needs that the
worklist never holds an object twice (`Listed`); then counting the elements with a
smaller key is an injection of the places into themselves, hence onto
(`InjectionIsOnto`), and the sort has an element for each place.

**Follow** (`FollowAssumption`). `FInv` has six parts besides the types, one of them the
property. A run that does not wait has built nothing before its one view (`OneView`).
Nothing is taken out of the cache, so nothing was seen of the cluster before an envelope in
which it is absent (`AbsentFirst`); hence what is printed is what the renderer remembers
(`told = mem`), though the renderers print nothing of an absent cluster. And `Dropped`
bounds how long ago the rate limit was last open while a stall it dropped is the last view,
by what the heartbeat's timer, the debounce and the envelope on its way say of the time the
next one takes. Until a list or a watch fails or ends, or something is deleted, the cache
shows the cluster (`InSight`). The bound of `FollowExitSaysWhatWasSeen` is the sum, for any
six durations.

`FollowScreenCatchesUp` and `FollowSilenceIsBounded` need `IntervalsAssumption`: the rate
limit is no longer than the debounce and no longer than the renderer's heartbeat, and the
watch's heartbeat is a whole number of debounce ticks, as the program's constants are.
`Timely` is what is inductive then. It is about the cache, whatever has become of the
watches. Offers are made at debounce ticks and the watch's timer runs out at one
(`Aligned`); an envelope that waits to be handled is no older than the lag or is still what
is the case (`Fresh`); a frame young enough for the rate limit was printed at most the lag
after a tick, and what it left unsaid has been the case no longer than since that tick
(`Recent`); hence what is not printed is at most one tick older than the time between two
offers (`Late`), and whoever has something to say is heard at the first offer after its
heartbeat (`Heard`).

`FollowImplementsOffers` needs the same. The source counts ticks and the run counts time,
so that `TicksSince` divides: the time since an offer is a whole number of debounce
intervals and what has passed of the next (`Aligned`), hence a tick of the clock at which
the timer fires is one tick more for the source and any other none (`TicksCompare`), and
the heartbeat is due at the same tick for both. With `WatchImplementsOffers` this is what
joins the two modules: each offers as the same source does.

**Fold** (`FoldAssumption`). `FoldInv` says that no report is newer than the last
change of its phase and that a condition which is there has a time. It is needed
because `StallsInTime` speaks of changes while the code sees reports only. From it:
`FoldTypeOK` (no duration is negative or exceeds the cluster's age, though
transitions come out of order), `FoldDurationsFit`, `FoldStallsInTime`.
`FoldStallClears` is about one step: what changes belongs to one phase
(`ChangeIsOfOnePhase`), a phase none of whose facts changed is folded as before
(`UntouchedStays`), and what reports does so at the present (`ReportsAreNew`).

**History** (`HistoryAssumption`). `NothingInvented` is inductive with the types: the
newest entry is larger than all before it, and the trim takes an end of a sequence
(`DrawnGrows`). That an intact history holds the last `Window` entries rests on
`StoreInv`: while one process writes, all others that have read the file are disturbed
(`OneHand`); a writer nobody disturbed finds the file as it truncated it
(`WriterIsAlone`); and in the middle of an intact write the history is the writer's
copy (`IntactWriter`). The step that matters is the append, by `EndOfGrows`. That a
process nobody disturbed finds what it read in the file (`UndisturbedHasTheFile`) is one
of its parts, and has no run of its own either. For
`HistoryEstimatesAreOfTheHistory` every place of a list gets a rank of its own by counting,
ties going to the earlier one, so that each rank is taken (`RanksAreTaken`) and the sorted
samples have as many below and up to them as their place says (`SortedHasRanks`); with
`RankIsNearest` that bounds the share of runs an estimate covers (`RanksBound`).

**Why** (`WhyAssumption`, `ClockAssumption`, `NamesAssumption`). `LessIsAStrictWeakOrder` is
about the comparator alone. That somebody wins (`SomeoneWins`) is then shown key by key: of
any candidates some lead by the first key (`Leading`, which rests on the least element of a
set of naturals), of these some by the second, and so on through the six keys, the place an
object is collected at and the index of its condition. Whoever wins is a candidate that none
comes before (`TheOneNamed`), from which `WhyRootOfTheWaits` and `WhyLossesAreExplained`
follow for every cluster. `WhyStallIsAsOldAsItSays` adds that what is met is the Cluster, a
bootstrap configuration, or read by the phase's clock, and that the clock's last transition
is no earlier than any it reads. The inductive invariant is `TypeOK` without what it says of
the answer, which follows from it.

No two candidates win, for a type is in a list once and an object at one place
(`OneWins`); so to show who is named it is enough to show who wins. For
`WhyWinnerIsOrderFree`: every order of the contributors meets the same objects
(`OrdersListTheSame`, `MetIs`), and two of them that the keys leave tied either are
conditions of one object or come with one contributor, which puts its own three in the
same order wherever it stands itself (`TurnDecides`). For `WhyBlameMovesForAReason`: a step
changes the status of one condition (`OneFlips`), which adds or removes that candidate and
alters the keys of the others in one place, whether they wait, and only for it; a winner
that has come to wait no more than before is still ahead of a loser that waits no less
(`StaysAhead`), so the blame stays unless one of the reasons applies (`BlameStays`).

**Up** (`UpAssumption`, which also states that the literals the code writes into a file are
strings). Without a denial a file has no key that is not in the client's list, the replicas
its size means and a version once that is stored (`NoDenials`, `NoFieldDenials`,
`NoValidation`). The two lists of keys meet in two lemmas: every key the client takes the
policy takes (`PolicyAllowsAll`), and the one it takes beyond that is `spec.topology.class`
(`PolicyAllowsOneMore`). `MergeFields` and `WebhookFields` say which of that is still true
of what the server makes of it. `UInv` adds what the cases share: the step past validation
has an accepted file and its spec (`Accepted`); the last applied file was accepted and the
stored Cluster has its replicas and size unless somebody edited it (`LastApplied`), without
which kubectl's merge could keep a number that the file's size denies; and from the apply to
the end of the wait the stored Cluster is the file's (`Waited`), whatever name is waited
for. With these, `UpAcceptedIsAdmitted` and `UpWaitsForWhatItApplied`; `UpNewRoundTrips`
needs only that the file is the one `new` wrote (`Written`). `UpDeniedIsDenied` takes the
converse direction rule by rule: each denial the two have in common (`Ruled`) is there for
something in the file (`DenialParts`, `ValidationDenials`, `FieldDenialsAre`), which the
webhook leaves there (`WebhookFields`) and a rule of the policy matches. `Commanded` ties a
denied command to its file. That `nearest` returns a class (`UpTypeOK`) needs that its
recursive function exists, shown by counting up (`CountUp`).

`UpSuggestionIsNearest` is about the same function and the table below it. First the
table: its recursive functions exist (`StepByStep`) and each cell follows from its three
neighbours (`DistanceTable`, `TableCell`), so that a cell is at most one more or one less
than the one above it (`RowsAreClose`). The tables of two words that begin alike begin
alike (`SamePrefix`), a letter cut, replaced or put in makes a row at most one more
(`RowAfterChange`), and what follows alike keeps it so (`RowsFollow`): an edit brings a
word at most one closer (`OneLess`). Conversely, behind the ending the two words share
lies a cell whose number comes from a neighbour that is one less (`EndingExists`), and the
edit that neighbour stands for makes a word that is closer (`NextWord`); only a word itself
is at no distance (`ZeroIsEqual`). Together they are `EditsAreDistance`, for words of any
length over any letters. Then the loop: what it keeps is the first of the nearest so far
(`NearestIsFirst`), and `Suggested` carries that from the lookup to the end of the command.
The inductions, over rows, columns and the list of classes, are all `CountUp`: a set that
holds 0, and with each number up to n the next, holds all of them. `SpellingAssumption` is
what is assumed of the spellings.

**Fixture** (`FixtureAssumption`). `FixtureInv` has four parts besides the types. The
recorder's timeline grows by an interval at least, and what is written, whole and played of
it has the same gaps (`Spaced`). `OnDisk` follows a write file by file: as long as no other
has begun, a file that is wanted holds the recording, is open or is still to come, and once
the sweep has listed the rest, everything else is gone or in its list; so when the last of
that is removed exactly the recording is there. `Looked` follows a load: what it has read
and what it is still to read are in the order of the names, and of the recording if that was
whole throughout; then the first file it read was a recorded one. `Playing` says that what
is left to send is of the recording in the order of the names, and the clock at the envelope
prepared last, which is the one in the renderer's hands or the one after it.
`FixtureReplayIsTheTimeline` adds that names of one width are ordered as their seconds are
(`LeadingDigits`). `FixtureRecordingOutranksSynth` rests on `Looked`: a `synth` that looked
at nothing but the whole recording has found its first file recorded, and does not begin to
write.

**Only model-checked.** Liveness (`EveryChangeArrives`, `EmitterNeverHangs`,
`ReadyEndsTheRun`, `Ends`) is out of the prover's reach, which has no rules
for fairness. Every other property of a passing run is a theorem.

## 5. What is not modelled, and the plan

Left out for good: discovery and authentication (their result is a set of resources),
YAML and JSON as text, the layout and wording of frames, colour and width, `explain`
(a runbook, or an answer of a model over the network with names substituted before and
after: its correctness is about strings), and the one-shot commands named above, which
keep no state.

What could still be done: `Follow` on a source whose ticks wait and are dropped, as
`Offers` has them, with frames that take longer than a debounce and bounds that grow by what
is skipped; and the refusals of kubectl other than the policy's, one by one.
