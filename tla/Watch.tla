------------------------------- MODULE Watch --------------------------------
(***************************************************************************)
(* internal/watch/client.go: Snapshot and Watch.                           *)
(*                                                                         *)
(* One goroutine per resource lists it into a shared cache; when all have  *)
(* finished, one watch per resource is opened and a goroutine per watch    *)
(* puts every event's object into the cache and signals a one-slot         *)
(* channel.  The emitter goroutine turns signals and ticks of a debounce   *)
(* timer into envelopes, which it hands to the consumer over an unbuffered *)
(* channel.                                                                *)
(*                                                                         *)
(* An object's contents are its version number.  Time is counted in        *)
(* debounce intervals and saturates at Heartbeat, past which nothing in    *)
(* the code tells two durations apart.                                     *)
(***************************************************************************)
EXTENDS Integers, Sequences, SequencesExt

CONSTANTS
    Resource,      \* the resources discovery returned
    Object,        \* the objects that may come to exist
    NoObject,      \* what an ERROR event carries in an object's place
    ResourceOf,    \* [Object -> Resource]
    Heartbeat,     \* watch.Heartbeat, in debounce intervals
    MaxVersion,    \* bound: [Object -> Nat], how often the API server changes each object
    WatchesEnd     \* TRUE: the API server may end a watch it has opened

ASSUME WatchAssumption ==
    /\ IsFiniteSet(Object)
    /\ NoObject \notin Object
    /\ ResourceOf \in [Object -> Resource]
    /\ Heartbeat \in Nat \ {0}
    /\ MaxVersion \in [Object -> Nat]
    /\ WatchesEnd \in BOOLEAN

VARIABLES
    truth,     \* API server: the version of each object, 0 before it exists
    live,      \* API server: which objects exist now
    list,      \* each resource's list: "asked", "answered" or "done"
    answer,    \* the version of each object in the answer to its resource's list
    stream,    \* each resource's watch: "none", "open" or "ended"
    queue,     \* the events of each watch that its goroutine has not received
    signalling,\* the resources whose goroutine is between put and the channel send
    cache,     \* Client.cache: the version held of each object, 0 if none
    token,     \* how many signals the channel `events` holds
    emit,      \* the emitter: "off", "select", "send" or "closed"
    dirty,     \* the emitter's local `dirty`
    tick,      \* the tick waiting in ticker.C, as its time minus `last`, or NoTick
    since,     \* intervals since the waiting tick, or since `last` if none waits
    held,      \* the envelope built at the last due tick
    seen,      \* the last envelope the consumer received
    ctx        \* the caller's context: "live" or "cancelled"

server  == <<truth, live>>
startup == <<list, answer>>
emitter == <<emit, dirty, tick, since, held>>
vars    == <<truth, live, list, answer, stream, queue, signalling, cache, token,
             emit, dirty, tick, since, held, seen, ctx>>

NoTick == -1
Nothing == [o \in Object |-> 0]
ObjectsOf(r) == {o \in Object : ResourceOf[o] = r}
Event == [obj : Object, ver : Nat]
Error == [obj |-> NoObject, ver |-> 0]
Saturate(n) == IF n < Heartbeat THEN n ELSE Heartbeat

Init ==
    /\ truth \in [Object -> {0, 1}]
    /\ live = [o \in Object |-> truth[o] = 1]
    /\ list = [r \in Resource |-> "asked"]
    /\ answer = Nothing
    /\ stream = [r \in Resource |-> "none"]
    /\ queue = [r \in Resource |-> <<>>]
    /\ signalling = {}
    /\ cache = Nothing
    /\ token = 0
    /\ emit = "off"
    /\ dirty = TRUE
    /\ tick = NoTick
    /\ since = 0
    /\ held = Nothing
    /\ seen = Nothing
    /\ ctx = "live"

-----------------------------------------------------------------------------
(* The API server: an object is written or deleted, and every open watch of *)
(* its resource gets an event carrying the object as it is after that.     *)

Announce(o) ==
    LET r == ResourceOf[o]
    IN  queue' = IF stream[r] = "open"
                 THEN [queue EXCEPT ![r] = Append(@, [obj |-> o, ver |-> truth'[o]])]
                 ELSE queue

Write(o) ==
    /\ truth[o] < MaxVersion[o]
    /\ truth' = [truth EXCEPT ![o] = @ + 1]
    /\ live' = [live EXCEPT ![o] = TRUE]
    /\ Announce(o)
    /\ UNCHANGED <<startup, stream, signalling, cache, token, emitter, seen, ctx>>

Delete(o) ==
    /\ live[o]
    /\ truth[o] < MaxVersion[o]
    /\ truth' = [truth EXCEPT ![o] = @ + 1]
    /\ live' = [live EXCEPT ![o] = FALSE]
    /\ Announce(o)
    /\ UNCHANGED <<startup, stream, signalling, cache, token, emitter, seen, ctx>>

\* A watch ends when the server times it out or the caller's context does, after a
\* last event that says why or without one.
EndWatch(r) ==
    /\ stream[r] = "open"
    /\ WatchesEnd \/ ctx = "cancelled"
    /\ stream' = [stream EXCEPT ![r] = "ended"]
    /\ queue' \in {queue, [queue EXCEPT ![r] = Append(@, Error)]}
    /\ UNCHANGED <<server, startup, signalling, cache, token, emitter, seen, ctx>>

-----------------------------------------------------------------------------
(* Snapshot: the lists, each in a goroutine, and wg.Wait.                  *)

AnswerList(r) ==
    /\ list[r] = "asked"
    /\ list' = [list EXCEPT ![r] = "answered"]
    /\ answer' = [o \in Object |->
                    IF ResourceOf[o] = r /\ live[o] THEN truth[o] ELSE answer[o]]
    /\ UNCHANGED <<server, stream, queue, signalling, cache, token, emitter, seen, ctx>>

\* A list that fails is a gap in the view, not an error.
FailList(r) ==
    /\ list[r] = "asked"
    /\ list' = [list EXCEPT ![r] = "done"]
    /\ UNCHANGED <<server, answer, stream, queue, signalling, cache, token, emitter, seen, ctx>>

PutList(r) ==
    /\ list[r] = "answered"
    /\ list' = [list EXCEPT ![r] = "done"]
    /\ cache' = [o \in Object |->
                    IF ResourceOf[o] = r /\ answer[o] # 0 THEN answer[o] ELSE cache[o]]
    /\ UNCHANGED <<server, answer, stream, queue, signalling, token, emitter, seen, ctx>>

\* Mutant: the wait group is released when a list is answered, before its puts.
AllAnswered == \A r \in Resource : list[r] # "asked"

AllListed == \A r \in Resource : list[r] = "done"

-----------------------------------------------------------------------------
(* Watch: the watches, one goroutine each.                                 *)

\* A watch opened at no particular version begins with every existing object.
OpenWatch(r) ==
    /\ AllListed
    /\ stream[r] = "none"
    /\ stream' = [stream EXCEPT ![r] = "open"]
    /\ \E q \in SetToSeqs({o \in ObjectsOf(r) : live[o]}) :
          queue' = [queue EXCEPT ![r] = [i \in DOMAIN q |-> [obj |-> q[i], ver |-> truth[q[i]]]]]
    /\ UNCHANGED <<server, startup, signalling, cache, token, emitter, seen, ctx>>

FailWatch(r) ==
    /\ AllListed
    /\ stream[r] = "none"
    /\ stream' = [stream EXCEPT ![r] = "ended"]
    /\ UNCHANGED <<server, startup, queue, signalling, cache, token, emitter, seen, ctx>>

\* The goroutine of a watch has received an event that carries an object.
Receives(r) ==
    /\ queue[r] # <<>>
    /\ Head(queue[r]) # Error
    /\ r \notin signalling

\* Mutant: put keeps what it already has.
PutIfAbsent(r) ==
    /\ Receives(r)
    /\ LET e == Head(queue[r])
       IN  cache' = [cache EXCEPT ![e.obj] = IF @ = 0 THEN e.ver ELSE @]
    /\ queue' = [queue EXCEPT ![r] = Tail(@)]
    /\ signalling' = signalling \cup {r}
    /\ UNCHANGED <<server, startup, stream, token, emitter, seen, ctx>>

\* Whatever the event's type, its object goes into the cache.
Put(r) ==
    /\ Receives(r)
    /\ LET e == Head(queue[r]) IN cache' = [cache EXCEPT ![e.obj] = e.ver]
    /\ queue' = [queue EXCEPT ![r] = Tail(@)]
    /\ signalling' = signalling \cup {r}
    /\ UNCHANGED <<server, startup, stream, token, emitter, seen, ctx>>

\* An event without an object is neither put nor signalled.
Skip(r) ==
    /\ queue[r] # <<>>
    /\ Head(queue[r]) = Error
    /\ r \notin signalling
    /\ queue' = [queue EXCEPT ![r] = Tail(@)]
    /\ UNCHANGED <<server, startup, stream, signalling, cache, token, emitter, seen, ctx>>

\* Mutant: the send is made whether or not the channel has room.
SignalAlways(r) ==
    /\ r \in signalling
    /\ signalling' = signalling \ {r}
    /\ token' = token + 1
    /\ UNCHANGED <<server, startup, stream, queue, cache, emitter, seen, ctx>>

\* select { case events <- struct{}{}: default: }
Signal(r) ==
    /\ r \in signalling
    /\ signalling' = signalling \ {r}
    /\ token' = 1
    /\ UNCHANGED <<server, startup, stream, queue, cache, emitter, seen, ctx>>

\* Mutant: the goroutine signals before it puts.
SignalThenPut(r) ==
    \/ /\ Receives(r)
       /\ signalling' = signalling \cup {r}
       /\ token' = 1
       /\ UNCHANGED <<server, startup, stream, queue, cache, emitter, seen, ctx>>
    \/ /\ r \in signalling
       /\ signalling' = signalling \ {r}
       /\ LET e == Head(queue[r]) IN cache' = [cache EXCEPT ![e.obj] = e.ver]
       /\ queue' = [queue EXCEPT ![r] = Tail(@)]
       /\ UNCHANGED <<server, startup, stream, token, emitter, seen, ctx>>

Worker(r) == Put(r) \/ Skip(r) \/ Signal(r)

-----------------------------------------------------------------------------
(* The emitter.                                                            *)

StartEmitter ==
    /\ emit = "off"
    /\ AllListed
    /\ \A r \in Resource : stream[r] # "none"
    /\ emit' = "select"
    /\ UNCHANGED <<server, startup, stream, queue, signalling, cache, token,
                   dirty, tick, since, held, seen, ctx>>

\* One debounce interval passes.  ticker.C has one slot: a tick that finds it
\* full is dropped, and the one waiting keeps its time.
Tick ==
    /\ emit \in {"select", "send"}
    /\ IF tick = NoTick
       THEN tick' = Saturate(since + 1) /\ since' = 0
       ELSE tick' = tick /\ since' = Saturate(since + 1)
    /\ UNCHANGED <<server, startup, stream, queue, signalling, cache, token,
                   emit, dirty, held, seen, ctx>>

TakeSignal ==
    /\ emit = "select"
    /\ token = 1
    /\ token' = 0
    /\ dirty' = TRUE
    /\ UNCHANGED <<server, startup, stream, queue, signalling, cache,
                   emit, tick, since, held, seen, ctx>>

Due == dirty \/ tick >= Heartbeat

\* Mutant: `last` moves at every look, whether or not an envelope goes out.
TakeTickResetsLast ==
    /\ emit = "select"
    /\ tick # NoTick
    /\ tick' = NoTick
    /\ since' = since
    /\ IF Due THEN dirty' = FALSE /\ held' = cache /\ emit' = "send"
              ELSE UNCHANGED <<dirty, held, emit>>
    /\ UNCHANGED <<server, startup, stream, queue, signalling, cache, token, seen, ctx>>

TakeTick ==
    /\ emit = "select"
    /\ tick # NoTick
    /\ tick' = NoTick
    /\ IF Due
       THEN /\ dirty' = FALSE
            /\ since' = since
            /\ held' = cache
            /\ emit' = "send"
       ELSE /\ since' = Saturate(tick + since)
            /\ UNCHANGED <<dirty, held, emit>>
    /\ UNCHANGED <<server, startup, stream, queue, signalling, cache, token, seen, ctx>>

\* The consumer takes the envelope the emitter is blocked on.
Receive ==
    /\ emit = "send"
    /\ emit' = "select"
    /\ seen' = held
    /\ UNCHANGED <<server, startup, stream, queue, signalling, cache, token,
                   dirty, tick, since, held, ctx>>

Cancel ==
    /\ ctx = "live"
    /\ ctx' = "cancelled"
    /\ UNCHANGED <<server, startup, stream, queue, signalling, cache, token, emitter, seen>>

\* Mutant: the send of an envelope does not watch the context.
StopInSelect ==
    /\ ctx = "cancelled"
    /\ emit = "select"
    /\ emit' = "closed"
    /\ UNCHANGED <<server, startup, stream, queue, signalling, cache, token,
                   dirty, tick, since, held, seen, ctx>>

Stop ==
    /\ ctx = "cancelled"
    /\ emit \in {"select", "send"}
    /\ emit' = "closed"
    /\ UNCHANGED <<server, startup, stream, queue, signalling, cache, token,
                   dirty, tick, since, held, seen, ctx>>

-----------------------------------------------------------------------------

Next ==
    \/ \E o \in Object : Write(o) \/ Delete(o)
    \/ \E r \in Resource :
          \/ EndWatch(r)
          \/ AnswerList(r) \/ FailList(r) \/ PutList(r)
          \/ OpenWatch(r) \/ FailWatch(r)
          \/ Worker(r)
    \/ StartEmitter \/ Tick \/ TakeSignal \/ TakeTick \/ Receive
    \/ Cancel \/ Stop

(***************************************************************************)
(* The Go scheduler runs every goroutine that can run, a list or a watch   *)
(* call returns one way or the other, an open watch delivers what it has,  *)
(* and the timer fires.  The consumer is run()'s loop, which goes back to  *)
(* its receive until the context ends.  Nothing is assumed of the server's *)
(* writes, of a watch ending, or of the caller cancelling.                 *)
(***************************************************************************)
Fairness ==
    /\ \A r \in Resource :
          /\ WF_vars(AnswerList(r) \/ FailList(r))
          /\ WF_vars(PutList(r))
          /\ WF_vars(OpenWatch(r) \/ FailWatch(r))
          /\ WF_vars(Worker(r))
    /\ WF_vars(StartEmitter)
    /\ WF_vars(Tick)
    /\ WF_vars(TakeSignal)
    /\ WF_vars(TakeTick)
    /\ WF_vars(ctx = "live" /\ Receive)
    /\ WF_vars(Stop)

Spec == Init /\ [][Next]_vars
FairSpec == Spec /\ Fairness

-----------------------------------------------------------------------------

\* Every variable is of its type; in particular the one-slot channel `events`
\* never holds two signals.
TypeOK ==
    /\ truth \in [Object -> Nat]
    /\ live \in [Object -> BOOLEAN]
    /\ list \in [Resource -> {"asked", "answered", "done"}]
    /\ answer \in [Object -> Nat]
    /\ stream \in [Resource -> {"none", "open", "ended"}]
    /\ queue \in [Resource -> Seq(Event \cup {Error})]
    /\ signalling \subseteq Resource
    /\ cache \in [Object -> Nat]
    /\ token \in {0, 1}
    /\ emit \in {"off", "select", "send", "closed"}
    /\ dirty \in BOOLEAN
    /\ tick \in {NoTick} \cup (0 .. Heartbeat)
    /\ since \in 0 .. Heartbeat
    /\ held \in [Object -> Nat]
    /\ seen \in [Object -> Nat]
    /\ ctx \in {"live", "cancelled"}

\* A change that reached the cache after the last envelope was built has a
\* wake-up on its way to the emitter: in `dirty`, in the channel, or in a
\* goroutine that is about to send it.  Otherwise the emitter would sit on a
\* change until the next heartbeat (client.go: events, dirty).
NoLostWakeup ==
    cache # held => dirty \/ token = 1 \/ signalling # {}

\* The consumer's view is a conflating feed of the server's (Feed.tla): it
\* never shows a version that does not exist and never moves an object back.
\* The two lists, the watch goroutines and the emitter share the cache, and a
\* late list answer or an envelope held over a slow consumer could break this.
ServerFeed == INSTANCE Feed WITH Object <- Object, truth <- truth, seen <- seen
ImplementsFeed == ServerFeed!Init /\ [][ServerFeed!Next]_<<truth, seen>>

\* The emitter, its timer and the signals of the watches are a source of offers of what the
\* cache holds (Offers.tla): a noticed change goes out at the next look at a tick, an unchanged
\* cache at the heartbeat, and nothing else is offered, however slowly the consumer receives
\* and however many ticks are dropped meanwhile (client.go:206-252).
Turn ==
    CASE emit = "select" -> "idle" [] emit = "send" -> "sent" [] OTHER -> emit
Source == INSTANCE Offers WITH
    State <- [Object -> Nat], NoOffer <- <<>>,
    state <- cache,
    fresh <- dirty,
    late <- token = 1 \/ signalling # {},
    quiet <- IF tick = NoTick THEN since ELSE tick,
    spare <- IF tick = NoTick THEN 0 ELSE since,
    due <- tick # NoTick,
    turn <- Turn,
    offer <- IF emit = "send" THEN held ELSE <<>>
ImplementsOffers == Source!Init /\ [][Source!Next]_(Source!vars)

\* While its watch stays open and the caller stays, every version of an object
\* reaches the consumer, or a newer one does.
EveryChangeArrives ==
    \A o \in Object : \A v \in 1 .. MaxVersion[o] :
        (live[o] /\ truth[o] = v /\ stream[ResourceOf[o]] = "open")
            ~> (seen[o] >= v \/ stream[ResourceOf[o]] = "ended" \/ ctx = "cancelled")

\* The emitter never hangs.  It does not wait for ever in its select: with no
\* events at all the heartbeat still sends, so a consumer of a settled cluster is
\* answered (client.go:240).  And a cancelled context closes the channel, whether
\* or not anyone still reads from it (client.go:245-248).
EmitterNeverHangs ==
    /\ (emit = "select") ~> (emit # "select")
    /\ (ctx = "cancelled") ~> (emit = "closed")

\* Documented (client.go:188, "Watch keeps the cache current"): once every
\* event has been put, the cache holds no object the server no longer has.
NoGhosts ==
    (/\ emit # "off"
     /\ \A r \in Resource : stream[r] = "open" /\ queue[r] = <<>>)
        => \A o \in Object : cache[o] # 0 => live[o]
=============================================================================
