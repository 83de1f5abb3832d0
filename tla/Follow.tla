------------------------------- MODULE Follow -------------------------------
(***************************************************************************)
(* `cluster up` and `cluster status`: run and finish of                    *)
(* cmd/cluster/stream.go, the source of cmd/cluster/live.go, and the       *)
(* frame budget of internal/render/stream.go with its three renderers.     *)
(*                                                                         *)
(* The watch goroutines are reduced to what Watch.tla shows of them: at a  *)
(* debounce tick the source offers what its cache holds, if that has       *)
(* changed or if WatchHeartbeat has passed since the last offer.  The      *)
(* cache follows the cluster until a watch ends or cannot be opened, a     *)
(* list fails, or an object is deleted; from then on it may show an older  *)
(* state of it, or a mixture of an older and a newer one, for ever, and    *)
(* what the cluster itself is makes no difference to the program.  The     *)
(* cluster is reduced to what a view shows: whether it exists, the text of *)
(* its phases, whether it is ready, and when it last changed.              *)
(*                                                                         *)
(* Time is discrete.  A step of the program takes none, except that up to  *)
(* Lag passes between a tick and the moment Update reads the clock, which  *)
(* is the time it takes to fold, rank and render.                          *)
(***************************************************************************)
EXTENDS Integers

CONSTANTS
    Renderers,       \* the renderers to choose from: "plain", "tty", "json"
    Texts,           \* what the phases of a cluster that is coming up can say
    Mute,            \* the texts behind which no object has a failing condition
    Debounce,        \* snapshotDebounce
    WatchHeartbeat,  \* watch.Heartbeat
    MinInterval,     \* render.DefaultMinInterval
    RenderHeartbeat, \* render.DefaultHeartbeat
    StallAfter,      \* --stall-after
    Lag,             \* the longest time from a tick to Update's reading of the clock
    TimesOut         \* TRUE: --timeout may be given

ASSUME FollowAssumption ==
    /\ Renderers \subseteq {"plain", "tty", "json"}
    /\ Mute \subseteq Texts
    /\ {Debounce, WatchHeartbeat, MinInterval, RenderHeartbeat, StallAfter} \subseteq Nat \ {0}
    /\ Lag \in Nat
    /\ Lag < Debounce
    /\ MinInterval < WatchHeartbeat
    /\ TimesOut \in BOOLEAN

\* How the program's own four intervals relate (live.go:22, client.go:186,
\* render/stream.go:35): 500 ms is not less than 500 ms, nor 5 s than 500 ms, and
\* 3 s are six times 500 ms, so that a heartbeat falls due at a debounce tick.
ASSUME IntervalsAssumption ==
    /\ MinInterval <= Debounce
    /\ MinInterval <= RenderHeartbeat
    /\ \E n \in 1 .. WatchHeartbeat : WatchHeartbeat = n * Debounce

VARIABLES
    renderer,  \* the renderer chooseRenderer picked
    blocking,  \* streamOptions.blocking: `up` and `status --watch` wait, `status` does not
    world,     \* the API server's cluster: [kind, text], or Unseen once a change may be missed
    cache,     \* the cluster as the source's cache shows it
    idle,      \* time since what the cache shows last changed
    phase,     \* time since the last debounce tick
    due,       \* a debounce tick has fired and has not been looked at
    changed,   \* the watch's `dirty`
    sinceEnv,  \* time since the watch's last offer
    env,       \* the envelope on offer: [kind, text, idle], or NoEnv
    lag,       \* time since that offer was made
    pc,        \* run: "start", "follow", "once" or "exited"
    last,      \* run's `last`: the last view built, or NoView
    first,     \* Stream.renders is 0
    silent,    \* time since Stream.lastAt
    mem,       \* the renderer's memory of the view it last rendered
    told,      \* the view that was printed last
    behind,    \* time for which what is printed has not been what the cache shows
    exit       \* the exit code, or NoExit

clockVars  == <<phase, due, sinceEnv, lag>>
streamVars == <<first, silent, mem, told>>
options    == <<renderer, blocking>>
server     == <<world, cache, idle>>
vars       == <<renderer, blocking, world, cache, idle, phase, due, changed, sinceEnv, env, lag,
                pc, last, first, silent, mem, told, behind, exit>>

NoEnv == [kind |-> "none", text |-> 0, idle |-> 0]
NoExit == -1
View(kind, text) == [kind |-> kind, text |-> text]
NoView == View("none", 0)
Absent == View("absent", 0)
Unseen == View("unseen", 0)

\* Past these, two durations make no difference to any guard or property.
Horizon == RenderHeartbeat + WatchHeartbeat + Lag + 1
Upto(cap, n) == IF n < cap THEN n ELSE cap

\* build: the fold calls the frontier phase stalled when nothing has changed
\* for longer than --stall-after, and ranks a stall for it.
ViewOf(w, quiet) ==
    IF w.kind = "building" /\ quiet > StallAfter THEN View("stalled", w.text)
                                                 ELSE View(w.kind, w.text)

Now == ViewOf(cache, idle)

Worlds == {Absent} \cup {View(k, t) : k \in {"building", "ready"}, t \in Texts}
Views == Worlds \cup {View("stalled", t) : t \in Texts}

Init ==
    /\ renderer \in Renderers
    /\ blocking \in BOOLEAN
    /\ world \in Worlds
    /\ cache = world
    /\ idle \in {0, StallAfter + 1}
    /\ phase = 0 /\ due = FALSE
    /\ changed = TRUE
    /\ sinceEnv = 0
    /\ env = NoEnv /\ lag = 0
    /\ pc = "start"
    /\ last = NoView
    /\ first = TRUE
    /\ silent = 0
    /\ mem = Absent
    /\ told = Absent
    /\ behind = 0
    /\ exit = NoExit

-----------------------------------------------------------------------------
(* The cluster, and what the cache shows of it.                            *)

\* The cache shows c from now on, which last changed so long ago, and the emitter is woken.
Show(c, age) ==
    /\ cache' = c
    /\ idle' = age
    /\ changed' = TRUE
    /\ behind' = 0

Become(w) ==
    /\ pc # "exited"
    /\ world' = w
    /\ Show(w, 0)
    /\ UNCHANGED <<options, clockVars, env, pc, last, streamVars, exit>>

Appear   == world.kind = "absent" /\ \E t \in Texts : Become(View("building", t))
Progress == world.kind = "building" /\ \E t \in Texts : Become(View("building", t))
Finish   == world.kind = "building" /\ Become(View("ready", world.text))
Relapse  == world.kind = "ready" /\ Become(View("building", world.text))

\* From here on a change may be missed: a watch ends, its goroutine returns and nothing opens
\* it again; or an object is deleted, and stays in the cache as the event shows it.
LoseSight ==
    /\ pc \in {"follow", "once"}
    /\ world' = Unseen
    /\ UNCHANGED <<options, cache, idle, clockVars, changed, env, pc, last, streamVars,
                   behind, exit>>

\* What a deletion's event or the watches that are left report of a change the cache shows
\* together with what it had, whatever that makes; nothing is ever taken out of it.
Mix ==
    /\ pc \in {"follow", "once"}
    /\ world = Unseen
    /\ \E c \in Worlds, age \in {0, idle} : (c = Absent => cache = Absent) /\ Show(c, age)
    /\ UNCHANGED <<options, world, clockVars, env, pc, last, streamVars, exit>>

\* The watches are of the whole namespace: an object of another cluster, or a
\* field no phase is folded from, wakes the emitter as well.
Elsewhere ==
    /\ pc = "follow"
    /\ ~changed
    /\ changed' = TRUE
    /\ UNCHANGED <<options, server, clockVars, env, pc, last, streamVars, behind, exit>>

-----------------------------------------------------------------------------
(* Time.  A tick is looked at when it fires, an offer is taken within Lag. *)

Tick ==
    /\ pc \in {"follow", "once"}
    /\ ~due
    /\ env # NoEnv => lag < Lag
    /\ phase' = (phase + 1) % Debounce
    /\ due' = (pc = "follow" /\ phase' = 0)
    /\ sinceEnv' = Upto(WatchHeartbeat, sinceEnv + 1)
    /\ lag' = IF env = NoEnv THEN 0 ELSE lag + 1
    /\ env' = IF env = NoEnv THEN NoEnv
                             ELSE [env EXCEPT !.idle = Upto(StallAfter + 1, @ + 1)]
    /\ idle' = Upto(StallAfter + 1, idle + 1)
    /\ silent' = Upto(Horizon, silent + 1)
    /\ behind' = IF told = Now \/ ViewOf(cache, idle + 1) # Now
                 THEN 0 ELSE Upto(Horizon, behind + 1)
    /\ UNCHANGED <<options, world, cache, changed, pc, last, first, mem, told, exit>>

-----------------------------------------------------------------------------
(* The source.                                                             *)

Envelope == [kind |-> cache.kind, text |-> cache.text, idle |-> idle]

\* The lists fill the cache: with the cluster, and the watches that follow are all opened; or
\* with a part of it, because a list or the opening of a watch failed.
Listed ==
    \/ UNCHANGED server
    \/ /\ cache' \in IF world = Absent THEN {Absent} ELSE Worlds
       /\ idle' \in {idle, StallAfter + 1}
       /\ world' = Unseen

\* `up` and `status --watch`: a watch, which does not ask whether the cluster
\* exists.  The deadline starts here.
StartWatch ==
    /\ pc = "start"
    /\ blocking
    /\ Listed
    /\ pc' = "follow"
    /\ UNCHANGED <<options, clockVars, changed, env, last, streamVars, behind, exit>>

\* `status`: one snapshot, and an error if the cluster is not in it.
StartOnce ==
    /\ pc = "start"
    /\ ~blocking
    /\ Listed
    /\ IF cache'.kind = "absent"
       THEN pc' = "exited" /\ exit' = 4 /\ env' = NoEnv
       ELSE pc' = "once" /\ exit' = exit /\ env' = Envelope'
    /\ UNCHANGED <<options, clockVars, changed, last, streamVars, behind>>

\* Discovery fails, and with it the command.
StartFails ==
    /\ pc = "start"
    /\ pc' = "exited" /\ exit' = 4
    /\ UNCHANGED <<options, server, clockVars, changed, env, last, streamVars, behind>>

\* Mutant: the time of the last offer is not kept.
OfferAgain ==
    /\ pc = "follow"
    /\ due
    /\ env = NoEnv
    /\ due' = FALSE
    /\ IF changed \/ sinceEnv >= WatchHeartbeat
       THEN env' = Envelope /\ changed' = FALSE /\ lag' = 0 /\ UNCHANGED sinceEnv
       ELSE UNCHANGED <<env, changed, sinceEnv, lag>>
    /\ UNCHANGED <<options, server, phase, pc, last, streamVars, behind, exit>>

Offer ==
    /\ pc = "follow"
    /\ due
    /\ env = NoEnv
    /\ due' = FALSE
    /\ IF changed \/ sinceEnv >= WatchHeartbeat
       THEN env' = Envelope /\ changed' = FALSE /\ sinceEnv' = 0 /\ lag' = 0
       ELSE UNCHANGED <<env, changed, sinceEnv, lag>>
    /\ UNCHANGED <<options, server, phase, pc, last, streamVars, behind, exit>>

-----------------------------------------------------------------------------
(* The renderers.                                                          *)

\* Whether Render(v) has anything to say, given what it rendered before.
\* Plain prints what differs, and nothing for a cluster with no phases; a TTY
\* frame also carries times, so the same view may or may not be a new frame;
\* JSON is a whole document every time.
Renders(v, says) ==
    CASE renderer = "plain" -> says = (v # mem /\ v.kind # "absent")
      [] renderer = "tty"   -> v # mem => says
      [] renderer = "json"  -> says

\* Mutant: nothing repeats itself.
NeverBeats(v) == FALSE

\* Whether the renderer is a Heartbeater with something to repeat.
Beats(v) ==
    \/ renderer = "plain" /\ v.kind \in {"building", "stalled"}
    \/ renderer = "tty" /\ v.kind # "ready"

\* A frame is written, unless it is the empty first one.
Write(v, says) ==
    /\ first' = FALSE
    /\ silent' = 0
    /\ told' = IF says THEN v ELSE told

Quiet == UNCHANGED <<first, silent, told>>

\* Mutant: the frame is rendered before the rate limit is looked at.
UpdateRendersFirst(v) ==
    /\ mem' = IF v.kind = "absent" THEN mem ELSE v
    /\ \E says \in BOOLEAN :
          /\ Renders(v, says)
          /\ IF ~first /\ silent < MinInterval THEN Quiet
             ELSE IF says \/ first THEN Write(v, says)
             ELSE IF silent >= RenderHeartbeat /\ Beats(v) THEN Write(v, TRUE)
             ELSE Quiet

\* Stream.Update: the rate limit comes before Render, so that a frame it drops
\* is still new to the renderer the next time.
Update(v) ==
    \/ /\ ~first /\ silent < MinInterval
       /\ UNCHANGED streamVars
    \/ /\ first \/ silent >= MinInterval
       /\ mem' = IF v.kind = "absent" THEN mem ELSE v
       /\ \E says \in BOOLEAN :
             /\ Renders(v, says)
             /\ IF says \/ first THEN Write(v, says)
                ELSE IF silent >= RenderHeartbeat /\ Beats(v) THEN Write(v, TRUE)
                ELSE Quiet

-----------------------------------------------------------------------------
(* run and finish.                                                         *)

\* build ranks an object for a stalled phase only if one has a failing condition.
Blamed(v) == v.kind = "stalled" /\ v.text \notin Mute

\* Mutant: finish does not look for a stall.
FinishCodeNoStall(v) ==
    CASE v.kind = "ready" -> 0
      [] OTHER            -> IF blocking \/ v = NoView THEN 4 ELSE 0

\* Mutant: what is not a message of the registry exits 1.
FinishCodeOne(v) ==
    CASE v.kind = "ready" -> 0
      [] Blamed(v)        -> 2
      [] OTHER            -> IF blocking \/ v = NoView THEN 1 ELSE 0

\* finish(last): the exit code for the last view built.
FinishCode(v) ==
    CASE v.kind = "ready" -> 0
      [] Blamed(v)        -> 2
      [] OTHER            -> IF blocking \/ v = NoView THEN 4 ELSE 0

\* Mutant: the run ends when it sees the cluster become ready.
HandleOnTransition ==
    /\ pc \in {"follow", "once"}
    /\ env # NoEnv
    /\ LET v == ViewOf(env, env.idle)
       IN  /\ last' = v
           /\ Update(v)
           /\ IF v.kind = "ready" /\ last \notin {NoView, v}
              THEN pc' = "exited" /\ exit' = 0
              ELSE IF ~blocking THEN pc' = "exited" /\ exit' = FinishCode(v)
              ELSE UNCHANGED <<pc, exit>>
           /\ behind' = IF told' = Now THEN 0 ELSE behind
    /\ env' = NoEnv /\ lag' = 0
    /\ UNCHANGED <<options, server, phase, due, changed, sinceEnv>>

\* An envelope is received, folded, rendered, and looked at.
Handle ==
    /\ pc \in {"follow", "once"}
    /\ env # NoEnv
    /\ LET v == ViewOf(env, env.idle)
       IN  /\ last' = v
           /\ Update(v)
           /\ IF v.kind = "ready"
              THEN pc' = "exited" /\ exit' = 0
              ELSE IF ~blocking THEN pc' = "exited" /\ exit' = FinishCode(v)
              ELSE UNCHANGED <<pc, exit>>
           /\ behind' = IF told' = Now THEN 0 ELSE behind
    /\ env' = NoEnv /\ lag' = 0
    /\ UNCHANGED <<options, server, phase, due, changed, sinceEnv>>

\* Writing the frame fails: the error ends the run, and is an environment error.
HandleFails ==
    /\ pc \in {"follow", "once"}
    /\ env # NoEnv
    /\ first \/ silent >= MinInterval
    /\ LET v == ViewOf(env, env.idle)
       IN  /\ last' = v
           /\ Renders(v, TRUE) \/ (silent >= RenderHeartbeat /\ Beats(v))
    /\ pc' = "exited" /\ exit' = 4
    /\ env' = NoEnv /\ lag' = 0
    /\ UNCHANGED <<options, server, phase, due, changed, sinceEnv, streamVars, behind>>

\* --timeout ran out, or the context ended.
GiveUp ==
    /\ TimesOut
    /\ pc \in {"follow", "once"}
    /\ pc' = "exited"
    /\ exit' = FinishCode(last)
    /\ UNCHANGED <<options, server, clockVars, changed, env, last, streamVars, behind>>

-----------------------------------------------------------------------------

Next ==
    \/ Appear \/ Progress \/ Finish \/ Relapse \/ LoseSight \/ Mix \/ Elsewhere
    \/ Tick
    \/ StartWatch \/ StartOnce \/ StartFails \/ Offer
    \/ Handle \/ HandleFails \/ GiveUp

(***************************************************************************)
(* Time passes, and the program takes the steps time waits for.  Nothing   *)
(* is assumed of the cluster, of the watches, of the timeout or of failing *)
(* writes.                                                                 *)
(***************************************************************************)
Fairness ==
    /\ WF_vars(Tick)
    /\ WF_vars(StartWatch \/ StartOnce \/ StartFails)
    /\ WF_vars(Offer)
    /\ WF_vars(Handle)

Spec == Init /\ [][Next]_vars
FairSpec == Spec /\ Fairness

-----------------------------------------------------------------------------

\* Every variable is of its type, and no envelope waits for longer than Lag.
TypeOK ==
    /\ renderer \in Renderers
    /\ blocking \in BOOLEAN
    /\ world \in Worlds \cup {Unseen} /\ cache \in Worlds
    /\ idle \in 0 .. StallAfter + 1
    /\ phase \in 0 .. Debounce - 1
    /\ due \in BOOLEAN
    /\ changed \in BOOLEAN
    /\ sinceEnv \in 0 .. WatchHeartbeat
    /\ env = NoEnv \/ (View(env.kind, env.text) \in Worlds /\ env.idle \in 0 .. StallAfter + 1)
    /\ lag \in 0 .. Lag
    /\ pc \in {"start", "follow", "once", "exited"}
    /\ last \in Views \cup {NoView}
    /\ first \in BOOLEAN
    /\ silent \in 0 .. Horizon
    /\ mem \in Views
    /\ told \in Views
    /\ behind \in 0 .. Horizon
    /\ exit \in {NoExit, 0, 2, 4}

\* What is printed is never out of date for longer than one debounce interval,
\* one heartbeat of the watch and the lag: against what the cache shows, and so
\* against the cluster itself while every list and watch has succeeded and nothing
\* has been deleted.  (Afterwards the screen may be wrong for ever: client.go:201-207,
\* 256-260.)  A frame the rate limit drops, or a stall that sets in without any
\* object changing, is made good by the next heartbeat (stream.go:69,
\* client.go:240; "the stall line appears within stallAfter + 10 s of the last
\* transition", PLAN.md:381).
ScreenCatchesUp ==
    pc = "follow" =>
        /\ behind <= Debounce + WatchHeartbeat + Lag
        /\ world # Unseen => cache = world

\* A run that is waiting for a cluster is never silent for longer than the two
\* heartbeats together (stream.go:77, client.go:240).  Only a plain run that has
\* not seen the cluster at all has nothing to say.
SilenceIsBounded ==
    (pc = "follow" /\ (renderer = "plain" => told.kind # "absent"))
        => silent <= RenderHeartbeat + WatchHeartbeat + Lag

\* The exit code speaks for the last view: 0 from a run that waits means that
\* view was ready; 2 means it was a stall with an object to blame, and such a
\* view never ends in 0, not even when the command did not wait (stream.go:87-91,
\* 157-172).  A run that exits with 2 has printed that stall, as finish takes it
\* to have (stream.go:160-165), unless the rate limit dropped it and the next
\* heartbeat of the watch has not been drawn.
ExitSaysWhatWasSeen ==
    pc = "exited" =>
        /\ exit = 0 /\ blocking => last.kind = "ready"
        /\ exit = 2 => Blamed(last)
        /\ exit = 2 /\ told # last =>
              blocking /\ silent < MinInterval + WatchHeartbeat + Debounce + Lag
        /\ exit = 0 => ~Blamed(last) /\ last # NoView

\* A cluster that becomes ready and stays so ends the run, whatever the rate limit
\* dropped and however settled the cluster was when the run began, as long as every
\* list and watch succeeds and nothing is deleted (stream.go:83-86, client.go:235-240).
\* A run whose watch has ended may wait for ever.
ReadyEndsTheRun == <>[](world.kind = "ready") => <>(pc = "exited")

\* The offers `cluster up` is answered with are those of a source that offers a change at the
\* tick after it and what has not changed at the heartbeat, in time however much time a frame
\* takes within Lag (live.go:22-30, client.go:206-252); Watch is shown to be such a source.  A
\* snapshot makes no offers.
Turn ==
    CASE ~blocking \/ pc = "start" -> "off" [] blocking /\ pc = "exited" -> "closed"
      [] OTHER -> IF env # NoEnv THEN "sent" ELSE "idle"
Source == INSTANCE Offers WITH
    State <- Worlds, NoOffer <- NoView, Heartbeat <- WatchHeartbeat \div Debounce,
    state <- cache,
    fresh <- changed,
    late <- FALSE,
    quiet <- IF blocking THEN sinceEnv \div Debounce ELSE 0,
    spare <- 0,
    due <- blocking /\ due,
    turn <- Turn,
    offer <- IF Turn = "sent" THEN View(env.kind, env.text) ELSE NoView
ImplementsOffers == Source!Init /\ [][Source!Next]_(Source!vars)

\* Documented (docs/user-guide.md:155, up.go:19): a run that waited and gave up on
\* a cluster that is still coming up exits 2; 4 is for the environment.
StillRunningExitsTwo ==
    [][GiveUp /\ blocking /\ last.kind \in {"building", "stalled"} => exit' = 2]_vars
=============================================================================
