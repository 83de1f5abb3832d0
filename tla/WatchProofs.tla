---------------------------- MODULE WatchProofs -----------------------------
(***************************************************************************)
(* Proofs about Watch for every set of resources and objects and every     *)
(* Heartbeat: its type invariant, that no wake-up is lost, that what the   *)
(* consumer sees is a conflating feed of the API server (Feed.tla), and    *)
(* that the emitter is the source of offers of Offers.tla.                 *)
(***************************************************************************)
EXTENDS Watch, FiniteSetTheorems, TLAPS

USE DEF server, startup, emitter, vars

-----------------------------------------------------------------------------
(* The events a new watch begins with are one per existing object.         *)

\* The events a watch begins with name each existing object of its resource once, at
\* the server's version (client.go:201).
LEMMA OpeningEvents ==
    ASSUME TypeOK, NEW r \in Resource,
           NEW q \in SetToSeqs({o \in ObjectsOf(r) : live[o]}),
           NEW es, es = [i \in DOMAIN q |-> [obj |-> q[i], ver |-> truth[q[i]]]]
    PROVE  /\ es \in Seq(Event) /\ es \in Seq(Event \cup {Error})
           /\ \A i \in 1 .. Len(es) :
                 /\ ResourceOf[es[i].obj] = r
                 /\ es[i].ver = truth[es[i].obj]
           /\ \A i, j \in 1 .. Len(es) : es[i].obj = es[j].obj => es[i].ver = es[j].ver
<1> DEFINE S == {o \in ObjectsOf(r) : live[o]}
           n == Cardinality(S)
<1>1. S \subseteq Object /\ \A o \in S : ResourceOf[o] = r
  BY DEF ObjectsOf
<1>2. n \in Nat
  BY <1>1, WatchAssumption, FS_Subset, FS_CardinalityType DEF WatchAssumption
<1>3. q \in [1 .. n -> S]
  BY DEF SetToSeqs
<1> HIDE DEF S, n
<1>4. DOMAIN q = 1 .. n /\ \A i \in 1 .. n : q[i] \in S
  BY <1>3
<1>5. \A i \in 1 .. n : [obj |-> q[i], ver |-> truth[q[i]]] \in Event
  BY <1>1, <1>4 DEF TypeOK, Event
<1>6. es \in [1 .. n -> Event]
  BY <1>4, <1>5
<1>7. es \in Seq(Event) /\ es \in Seq(Event \cup {Error}) /\ Len(es) = n
  BY <1>2, <1>6
<1>8. QED
  BY <1>1, <1>4, <1>7

-----------------------------------------------------------------------------
(* Types.                                                                  *)

\* Every step keeps every variable of its type; `events` holds at most one
\* signal (client.go:199).
THEOREM WatchTypeOK == Spec => []TypeOK
<1>1. Init => TypeOK
  BY WatchAssumption DEF WatchAssumption, Init, TypeOK, Nothing, NoTick
<1>2. TypeOK /\ [Next]_vars => TypeOK'
  <2> SUFFICES ASSUME TypeOK, [Next]_vars
               PROVE  TypeOK'
    OBVIOUS
  <2> USE WatchAssumption DEF WatchAssumption
  <2>1. ASSUME NEW o \in Object, Write(o) \/ Delete(o)
        PROVE  TypeOK'
    <3>1. truth' \in [Object -> Nat]
      <4>1. truth' = [truth EXCEPT ![o] = @ + 1]
        BY <2>1 DEF Write, Delete
      <4>2. QED
        BY <4>1 DEF TypeOK
    <3>2. live' \in [Object -> BOOLEAN]
      <4>1. CASE live' = [live EXCEPT ![o] = TRUE]
        BY <4>1 DEF TypeOK
      <4>2. CASE live' = [live EXCEPT ![o] = FALSE]
        BY <4>2 DEF TypeOK
      <4>3. QED
        BY <2>1, <4>1, <4>2 DEF Write, Delete
    <3>3. [obj |-> o, ver |-> truth'[o]] \in Event
      BY <3>1 DEF Event
    <3>4. queue' \in [Resource -> Seq(Event \cup {Error})]
      <4>1. CASE queue' = queue
        BY <4>1 DEF TypeOK
      <4>2. CASE queue' = [queue EXCEPT ![ResourceOf[o]] =
                              Append(@, [obj |-> o, ver |-> truth'[o]])]
        BY <4>2, <3>3 DEF TypeOK
      <4>3. QED
        BY <2>1, <4>1, <4>2 DEF Write, Delete, Announce
    <3>5. QED
      BY <2>1, <3>1, <3>2, <3>4 DEF Write, Delete, TypeOK
  <2>2. ASSUME NEW r \in Resource, EndWatch(r) \/ FailWatch(r)
        PROVE  TypeOK'
    <3>1. queue' \in [Resource -> Seq(Event \cup {Error})]
      <4>1. CASE queue' = queue
        BY <4>1 DEF TypeOK
      <4>2. CASE queue' = [queue EXCEPT ![r] = Append(@, Error)]
        <5>1. Append(queue[r], Error) \in Seq(Event \cup {Error})
          BY DEF TypeOK
        <5> QED
          BY <4>2, <5>1 DEF TypeOK
      <4> QED
        BY <2>2, <4>1, <4>2 DEF EndWatch, FailWatch
    <3> QED
      BY <2>2, <3>1 DEF EndWatch, FailWatch, TypeOK
  <2>3. ASSUME NEW r \in Resource, AnswerList(r) \/ FailList(r) \/ PutList(r)
        PROVE  TypeOK'
    <3>1. CASE AnswerList(r)
      <4>1. answer' \in [Object -> Nat]
        BY <3>1 DEF AnswerList, TypeOK
      <4> QED
        BY <3>1, <4>1 DEF AnswerList, TypeOK
    <3>2. CASE FailList(r)
      BY <3>2 DEF FailList, TypeOK
    <3>3. CASE PutList(r)
      <4>1. cache' \in [Object -> Nat]
        BY <3>3 DEF PutList, TypeOK
      <4> QED
        BY <3>3, <4>1 DEF PutList, TypeOK
    <3> QED
      BY <2>3, <3>1, <3>2, <3>3
  <2>4. ASSUME NEW r \in Resource, OpenWatch(r)
        PROVE  TypeOK'
    <3>1. PICK q \in SetToSeqs({o \in ObjectsOf(r) : live[o]}) :
             queue' = [queue EXCEPT ![r] =
                         [i \in DOMAIN q |-> [obj |-> q[i], ver |-> truth[q[i]]]]]
      BY <2>4 DEF OpenWatch
    <3> DEFINE es == [i \in DOMAIN q |-> [obj |-> q[i], ver |-> truth[q[i]]]]
    <3>2. es \in Seq(Event \cup {Error})
      BY OpeningEvents
    <3> HIDE DEF es
    <3>3. queue' \in [Resource -> Seq(Event \cup {Error})]
      BY <3>1, <3>2 DEF TypeOK, es
    <3>4. QED
      BY <2>4, <3>3 DEF OpenWatch, TypeOK
  <2>5. ASSUME NEW r \in Resource, Put(r)
        PROVE  TypeOK'
    <3>1. Head(queue[r]) \in Event /\ Tail(queue[r]) \in Seq(Event \cup {Error})
      BY <2>5 DEF Put, Receives, TypeOK
    <3>2. cache' \in [Object -> Nat] /\ queue' \in [Resource -> Seq(Event \cup {Error})]
      BY <2>5, <3>1 DEF Put, TypeOK, Event
    <3>3. QED
      BY <2>5, <3>2 DEF Put, TypeOK
  <2>12. ASSUME NEW r \in Resource, Skip(r)
         PROVE  TypeOK'
    <3>1. queue' \in [Resource -> Seq(Event \cup {Error})]
      BY <2>12 DEF Skip, TypeOK
    <3> QED
      BY <2>12, <3>1 DEF Skip, TypeOK
  <2>6. ASSUME NEW r \in Resource, Signal(r)
        PROVE  TypeOK'
    BY <2>6 DEF Signal, TypeOK
  <2>7. CASE StartEmitter \/ TakeSignal \/ Receive \/ Cancel \/ Stop
    BY <2>7 DEF StartEmitter, TakeSignal, Receive, Cancel, Stop, TypeOK
  <2>8. CASE Tick
    BY <2>8 DEF Tick, Saturate, NoTick, TypeOK
  <2>9. CASE TakeTick
    <3>1. CASE Due
      BY <2>9, <3>1 DEF TakeTick, TypeOK
    <3>2. CASE ~Due
      <4>1. tick \in 0 .. Heartbeat
        BY <2>9 DEF TakeTick, TypeOK
      <4>2. Saturate(tick + since) \in 0 .. Heartbeat
        BY <4>1 DEF Saturate, TypeOK
      <4>3. QED
        BY <2>9, <3>2, <4>2 DEF TakeTick, TypeOK
    <3>3. QED
      BY <3>1, <3>2
  <2>10. CASE UNCHANGED vars
    BY <2>10 DEF TypeOK
  <2>11. QED
    BY <2>1, <2>2, <2>3, <2>4, <2>5, <2>6, <2>7, <2>8, <2>9, <2>10, <2>12 DEF Next, Worker
<1>3. QED
  BY <1>1, <1>2, PTL DEF Spec

-----------------------------------------------------------------------------
(* Wake-ups.                                                               *)

\* Before the emitter runs, `dirty` is still the TRUE it starts with: the lists
\* fill the cache without signalling anybody.
StartsDirty == emit = "off" => dirty

\* The lists are over, and every watch is decided, before the emitter runs.
ListsFirst == emit # "off" => AllListed

\* Each of the three holds because of the others: a list fills the cache only before the
\* emitter runs, when `dirty` is TRUE.
LEMMA WakeupInvariant == Spec => [](NoLostWakeup /\ StartsDirty /\ ListsFirst)
<1> DEFINE IInv == NoLostWakeup /\ StartsDirty /\ ListsFirst
<1> USE DEF NoLostWakeup, StartsDirty, ListsFirst, AllListed
<1>1. Init => IInv
  BY DEF Init
<1>2. TypeOK /\ IInv /\ [Next]_vars => IInv'
  <2> SUFFICES ASSUME TypeOK, IInv, [Next]_vars
               PROVE  IInv'
    OBVIOUS
  <2>1. ASSUME NEW o \in Object, Write(o) \/ Delete(o)
        PROVE  IInv'
    BY <2>1 DEF Write, Delete
  <2>2. ASSUME NEW r \in Resource, EndWatch(r) \/ FailWatch(r) \/ OpenWatch(r)
        PROVE  IInv'
    BY <2>2 DEF EndWatch, FailWatch, OpenWatch
  <2>3. ASSUME NEW r \in Resource, AnswerList(r) \/ FailList(r) \/ PutList(r)
        PROVE  IInv'
    BY <2>3 DEF AnswerList, FailList, PutList, TypeOK
  <2>4. ASSUME NEW r \in Resource, Put(r)
        PROVE  IInv'
    BY <2>4 DEF Put
  <2>5. ASSUME NEW r \in Resource, Skip(r) \/ Signal(r)
        PROVE  IInv'
    BY <2>5 DEF Skip, Signal
  <2>6. CASE StartEmitter \/ Tick \/ Receive \/ Cancel \/ Stop
    BY <2>6 DEF StartEmitter, Tick, Receive, Cancel, Stop
  <2>7. CASE TakeSignal
    BY <2>7 DEF TakeSignal
  <2>8. CASE TakeTick
    BY <2>8 DEF TakeTick
  <2>9. CASE UNCHANGED vars
    BY <2>9
  <2>10. QED
    BY <2>1, <2>2, <2>3, <2>4, <2>5, <2>6, <2>7, <2>8, <2>9 DEF Next, Worker
<1>3. QED
  BY <1>1, <1>2, WatchTypeOK, PTL DEF Spec

\* A change that is in the cache and not in the last envelope always has a
\* wake-up on its way to the emitter (client.go:212-215, 232-243).
THEOREM WatchNoLostWakeup == Spec => []NoLostWakeup
BY WakeupInvariant, PTL

-----------------------------------------------------------------------------
(* The consumer's view.                                                    *)

\* Versions only get older on their way to the consumer.
InOrder ==
    \A o \in Object :
        /\ seen[o] <= held[o] /\ held[o] <= cache[o] /\ cache[o] <= truth[o]
        /\ answer[o] <= truth[o]

\* No watch is open, and no object is in the cache, before the lists are over.
ListsThenWatches ==
    /\ ~AllListed => \A r \in Resource : stream[r] = "none"
    /\ \A r \in Resource : stream[r] = "none" => queue[r] = <<>>
    /\ \A o \in Object : list[ResourceOf[o]] # "done" => cache[o] = 0
    /\ ListsFirst
    /\ ~AllListed => held = Nothing

\* The events a watch has yet to deliver are of its own resource, no older
\* than the cache, no newer than the server, and each object's in order.
QueueInOrder ==
    \A r \in Resource :
        /\ \A i \in 1 .. Len(queue[r]) : queue[r][i] # Error =>
              /\ ResourceOf[queue[r][i].obj] = r
              /\ cache[queue[r][i].obj] <= queue[r][i].ver
              /\ queue[r][i].ver <= truth[queue[r][i].obj]
        /\ \A i, j \in 1 .. Len(queue[r]) :
              (i < j /\ queue[r][i].obj = queue[r][j].obj)
                  => queue[r][i].ver <= queue[r][j].ver

FeedInv == InOrder /\ ListsThenWatches /\ QueueInOrder

\* Versions are numbers, and a queue holds events.
LEMMA QueuedEvents ==
    ASSUME TypeOK
    PROVE  /\ \A o \in Object : truth[o] \in Nat /\ cache[o] \in Nat
                                /\ held[o] \in Nat /\ seen[o] \in Nat /\ answer[o] \in Nat
           /\ \A r \in Resource :
                 /\ Len(queue[r]) \in Nat
                 /\ \A i \in 1 .. Len(queue[r]) :
                       /\ queue[r][i] \in Event \cup {Error}
                       /\ queue[r][i] # Error => queue[r][i].obj \in Object
                       /\ queue[r][i].obj \in Object => queue[r][i] # Error
                       /\ queue[r][i].ver \in Nat
<1>1. \A o \in Object : truth[o] \in Nat /\ cache[o] \in Nat
                        /\ held[o] \in Nat /\ seen[o] \in Nat /\ answer[o] \in Nat
  BY DEF TypeOK
<1>2. ASSUME NEW r \in Resource
      PROVE  /\ Len(queue[r]) \in Nat
             /\ \A i \in 1 .. Len(queue[r]) : queue[r][i] \in Event \cup {Error}
  BY DEF TypeOK
<1>3. QED
  BY <1>1, <1>2, WatchAssumption DEF WatchAssumption, Event, Error

\* Before the first list everything the client holds is at version 0.
LEMMA FeedInvInit == Init => FeedInv
BY WatchAssumption DEF WatchAssumption, Init, FeedInv, InOrder, ListsThenWatches,
   QueueInOrder, ListsFirst, Nothing

\* A write or a delete puts the newest event at the end of an open watch's queue.
LEMMA ChangeKeepsFeedInv ==
    ASSUME TypeOK, FeedInv, NEW o \in Object, Write(o) \/ Delete(o)
    PROVE  FeedInv'
<1> USE WatchAssumption DEF WatchAssumption
<1> DEFINE r == ResourceOf[o]
           e == [obj |-> o, ver |-> truth'[o]]
<1>1. /\ truth' = [truth EXCEPT ![o] = @ + 1]
      /\ UNCHANGED <<startup, stream, signalling, cache, token, emitter, seen, ctx>>
      /\ Announce(o)
  BY DEF Write, Delete
<1>2. \A p \in Object : truth[p] \in Nat /\ truth'[p] \in Nat /\ truth[p] <= truth'[p]
  BY <1>1 DEF TypeOK
<1>3. truth' \in [Object -> Nat]
  BY <1>1 DEF TypeOK
<1> HIDE DEF r, e
<1>9. ASSUME NEW s \in Resource, NEW i \in 1 .. Len(queue[s]), queue[s][i] # Error
      PROVE  queue[s][i].ver <= truth'[queue[s][i].obj]
  <2>1. /\ queue[s][i].obj \in Object /\ queue[s][i].ver \in Nat
        /\ queue[s][i].ver <= truth[queue[s][i].obj]
    BY <1>9, QueuedEvents DEF FeedInv, QueueInOrder
  <2>2. QED
    BY <1>2, <2>1
<1>4. InOrder'
  BY <1>1, <1>2, <1>3 DEF FeedInv, InOrder, TypeOK
<1>5. ListsThenWatches'
  BY <1>1 DEF FeedInv, ListsThenWatches, ListsFirst, AllListed, Announce, TypeOK, r, e
<1>6. QueueInOrder'
  <2>1. CASE queue' = queue
    <3>1. UNCHANGED <<queue, cache>>
      BY <1>1, <2>1
    <3>2. QED
      BY <1>9, <3>1 DEF FeedInv, QueueInOrder
  <2>2. CASE queue' = [queue EXCEPT ![r] = Append(@, e)]
    <3>1. r \in Resource /\ e \in Event
      BY <1>3 DEF Event, r, e
    <3>3. /\ Len(queue'[r]) = Len(queue[r]) + 1
          /\ Len(queue[r]) \in Nat
          /\ \A i \in 1 .. Len(queue[r]) : queue'[r][i] = queue[r][i]
          /\ queue'[r][Len(queue[r]) + 1] = e
      BY <2>2, <3>1 DEF TypeOK
    <3>4. /\ ResourceOf[e.obj] = r
          /\ cache[e.obj] <= e.ver
          /\ e.ver <= truth'[e.obj]
          /\ e.obj = o /\ e.ver = truth'[o]
      BY <1>2, <1>3 DEF FeedInv, InOrder, TypeOK, e, r
    <3>5. ASSUME NEW i \in 1 .. Len(queue'[r]), queue'[r][i] # Error
          PROVE  /\ ResourceOf[queue'[r][i].obj] = r
                 /\ cache[queue'[r][i].obj] <= queue'[r][i].ver
                 /\ queue'[r][i].ver <= truth'[queue'[r][i].obj]
      <4>1. CASE i \in 1 .. Len(queue[r])
        BY <1>9, <3>1, <3>3, <3>5, <4>1 DEF FeedInv, QueueInOrder
      <4>2. CASE i = Len(queue[r]) + 1
        BY <3>3, <3>4, <4>2
      <4>3. QED
        BY <3>3, <4>1, <4>2
    <3>6. ASSUME NEW i \in 1 .. Len(queue'[r]), NEW j \in 1 .. Len(queue'[r]),
                 i < j, queue'[r][i].obj = queue'[r][j].obj
          PROVE  queue'[r][i].ver <= queue'[r][j].ver
      <4>1. i \in 1 .. Len(queue[r])
        BY <3>3, <3>6
      <4>2. CASE j \in 1 .. Len(queue[r])
        BY <3>1, <3>3, <3>6, <4>1, <4>2 DEF FeedInv, QueueInOrder
      <4>3. CASE j = Len(queue[r]) + 1
        <5>1. queue'[r][i] = queue[r][i] /\ queue'[r][j] = e /\ queue[r][i].obj = o
          BY <3>3, <3>4, <3>6, <4>1, <4>3
        <5>2. queue[r][i].ver <= truth[o] /\ truth[o] <= truth'[o]
          BY <1>2, <3>1, <4>1, <5>1, QueuedEvents DEF FeedInv, QueueInOrder
        <5>3. queue[r][i].ver \in Nat /\ truth[o] \in Nat /\ truth'[o] \in Nat
          BY <1>3, <3>1, <4>1, QueuedEvents
        <5>4. QED
          BY <3>4, <5>1, <5>2, <5>3
      <4>4. QED
        BY <3>3, <4>2, <4>3
    <3>7. ASSUME NEW s \in Resource, s # r
          PROVE  queue'[s] = queue[s]
      BY <2>2, <3>7 DEF TypeOK
    <3>8. cache' = cache
      BY <1>1
    <3>9. ASSUME NEW s \in Resource, s # r, NEW i \in 1 .. Len(queue'[s]), queue'[s][i] # Error
          PROVE  /\ ResourceOf[queue'[s][i].obj] = s
                 /\ cache[queue'[s][i].obj] <= queue'[s][i].ver
                 /\ queue'[s][i].ver <= truth'[queue'[s][i].obj]
      BY <1>9, <3>7, <3>9 DEF FeedInv, QueueInOrder
    <3>10. ASSUME NEW s \in Resource, s # r, NEW i \in 1 .. Len(queue'[s]),
                  NEW j \in 1 .. Len(queue'[s]), i < j, queue'[s][i].obj = queue'[s][j].obj
           PROVE  queue'[s][i].ver <= queue'[s][j].ver
      BY <3>7, <3>10 DEF FeedInv, QueueInOrder
    <3>11. QED
      BY <3>5, <3>6, <3>8, <3>9, <3>10 DEF QueueInOrder
  <2>3. QED
    BY <1>1, <2>1, <2>2 DEF Announce, r, e
<1>7. QED
  BY <1>4, <1>5, <1>6 DEF FeedInv

\* A list fills the cache with what was true when it was answered, before any watch
\* is open (client.go:163-180).
LEMMA ListKeepsFeedInv ==
    ASSUME TypeOK, FeedInv, NEW r \in Resource, AnswerList(r) \/ FailList(r) \/ PutList(r)
    PROVE  FeedInv'
<1> USE WatchAssumption DEF WatchAssumption
<1>1. ~AllListed /\ \A s \in Resource : stream[s] = "none" /\ queue[s] = <<>>
  BY DEF AnswerList, FailList, PutList, AllListed, FeedInv, ListsThenWatches
<1>2. UNCHANGED <<server, stream, queue, held, seen, emit>>
  BY DEF AnswerList, FailList, PutList
<1>3. InOrder'
  <2>1. CASE AnswerList(r)
    BY <2>1, <1>2 DEF AnswerList, FeedInv, InOrder, TypeOK
  <2>2. CASE FailList(r)
    BY <2>2, <1>2 DEF FailList, FeedInv, InOrder, TypeOK
  <2>3. CASE PutList(r)
    BY <2>3, <1>1, <1>2 DEF PutList, FeedInv, InOrder, ListsThenWatches, TypeOK, Nothing
  <2>4. QED
    BY <2>1, <2>2, <2>3
<1>4. ListsThenWatches'
  <2>1. emit = "off" /\ held = Nothing
    BY <1>1 DEF FeedInv, ListsThenWatches, ListsFirst
  <2>2. ASSUME NEW o \in Object, list'[ResourceOf[o]] # "done"
        PROVE  cache'[o] = 0
    <3>1. ResourceOf[o] \in Resource /\ list \in [Resource -> {"asked", "answered", "done"}]
      BY DEF TypeOK
    <3>2. list[ResourceOf[o]] # "done" => cache[o] = 0
      BY DEF FeedInv, ListsThenWatches
    <3>3. CASE AnswerList(r)
      BY <2>2, <3>1, <3>2, <3>3 DEF AnswerList
    <3>4. CASE FailList(r)
      BY <2>2, <3>1, <3>2, <3>4 DEF FailList
    <3>5. CASE PutList(r)
      <4>1. list' = [list EXCEPT ![r] = "done"]
        BY <3>5 DEF PutList
      <4>2. ResourceOf[o] # r /\ list[ResourceOf[o]] # "done"
        BY <2>2, <3>1, <4>1
      <4>3. cache'[o] = cache[o]
        BY <3>5, <4>2 DEF PutList
      <4> QED
        BY <3>2, <4>2, <4>3
    <3> QED
      BY <3>3, <3>4, <3>5
  <2>3. QED
    BY <1>1, <1>2, <2>1, <2>2 DEF ListsThenWatches, ListsFirst, Nothing
<1>5. QueueInOrder'
  BY <1>1, <1>2 DEF QueueInOrder
<1>6. QED
  BY <1>3, <1>4, <1>5 DEF FeedInv

\* A watch that opens begins no older than the cache.
LEMMA OpenKeepsFeedInv ==
    ASSUME TypeOK, FeedInv, NEW r \in Resource, OpenWatch(r)
    PROVE  FeedInv'
<1> USE WatchAssumption DEF WatchAssumption
<1>1. PICK q \in SetToSeqs({o \in ObjectsOf(r) : live[o]}) :
         queue' = [queue EXCEPT ![r] =
                     [i \in DOMAIN q |-> [obj |-> q[i], ver |-> truth[q[i]]]]]
  BY DEF OpenWatch
<1> DEFINE es == [i \in DOMAIN q |-> [obj |-> q[i], ver |-> truth[q[i]]]]
<1>a. es = [i \in DOMAIN q |-> [obj |-> q[i], ver |-> truth[q[i]]]]
  OBVIOUS
<1> HIDE DEF es
<1>2. /\ es \in Seq(Event) /\ es \in Seq(Event \cup {Error})
      /\ \A i \in 1 .. Len(es) :
            /\ ResourceOf[es[i].obj] = r
            /\ es[i].ver = truth[es[i].obj]
      /\ \A i, j \in 1 .. Len(es) : es[i].obj = es[j].obj => es[i].ver = es[j].ver
  BY <1>a, OpeningEvents
<1>3. /\ queue'[r] = es
      /\ \A s \in Resource : s # r => queue'[s] = queue[s]
  BY <1>1, <1>a DEF TypeOK
<1>4. UNCHANGED <<server, startup, signalling, cache, token, emitter, seen, ctx>>
  BY DEF OpenWatch
<1>5. InOrder'
  BY <1>4 DEF FeedInv, InOrder
<1>6. ListsThenWatches'
  BY <1>3, <1>4 DEF OpenWatch, FeedInv, ListsThenWatches, ListsFirst, AllListed, TypeOK
<1>7. \A i \in 1 .. Len(es) : es[i].obj \in Object /\ es[i].ver \in Nat
  <2>1. \A i \in 1 .. Len(es) : es[i] \in Event
    BY <1>2
  <2>2. QED
    BY <2>1 DEF Event
<1>8. QueueInOrder'
  <2>1. ASSUME NEW i \in 1 .. Len(es)
        PROVE  cache[es[i].obj] <= es[i].ver /\ es[i].ver <= truth[es[i].obj]
    BY <1>2, <1>7, QueuedEvents DEF FeedInv, InOrder
  <2>2. ASSUME NEW i \in 1 .. Len(es), NEW j \in 1 .. Len(es), es[i].obj = es[j].obj
        PROVE  es[i].ver <= es[j].ver
    BY <1>2, <1>7, <2>2
  <2>3. QED
    <3>1. cache' = cache /\ truth' = truth
      BY <1>4
    <3>2. ASSUME NEW s \in Resource, s # r
          PROVE  queue'[s] = queue[s]
      BY <1>3, <3>2
    <3>3. SUFFICES ASSUME NEW s \in Resource
                   PROVE  /\ \A i \in 1 .. Len(queue'[s]) : queue'[s][i] # Error =>
                                /\ ResourceOf[queue'[s][i].obj] = s
                                /\ cache[queue'[s][i].obj] <= queue'[s][i].ver
                                /\ queue'[s][i].ver <= truth[queue'[s][i].obj]
                          /\ \A i, j \in 1 .. Len(queue'[s]) :
                                (i < j /\ queue'[s][i].obj = queue'[s][j].obj)
                                    => queue'[s][i].ver <= queue'[s][j].ver
      BY <3>1, Zenon DEF QueueInOrder
    <3>4. CASE s = r
      BY <1>2, <1>3, <2>1, <2>2, <3>4
    <3>5. CASE s # r
      BY <3>2, <3>5 DEF FeedInv, QueueInOrder
    <3>6. QED
      BY <3>4, <3>5
<1>9. QED
  BY <1>5, <1>6, <1>8 DEF FeedInv

\* A put moves an object of the cache forward (client.go:212).
LEMMA PutKeepsFeedInv ==
    ASSUME TypeOK, FeedInv, NEW r \in Resource, Put(r)
    PROVE  FeedInv'
<1> USE WatchAssumption DEF WatchAssumption
<1> DEFINE e == Head(queue[r])
           q == queue[r]
<1>1. /\ q \in Seq(Event \cup {Error}) /\ q # <<>> /\ e \in Event /\ e # Error
      /\ Len(q) \in Nat \ {0} /\ e = q[1]
      /\ Len(Tail(q)) = Len(q) - 1
      /\ \A i \in 1 .. Len(Tail(q)) : Tail(q)[i] = q[i + 1]
      /\ \A i \in 1 .. Len(q) : q[i] \in Event \cup {Error}
  BY DEF Put, Receives, TypeOK
<1>2. /\ queue'[r] = Tail(q)
      /\ \A s \in Resource : s # r => queue'[s] = queue[s]
      /\ cache' = [cache EXCEPT ![e.obj] = e.ver]
      /\ UNCHANGED <<server, startup, stream, token, emitter, seen, ctx>>
  BY DEF Put, TypeOK
<1>3. /\ ResourceOf[e.obj] = r /\ cache[e.obj] <= e.ver /\ e.ver <= truth[e.obj]
      /\ e.obj \in Object /\ e.ver \in Nat
  BY <1>1 DEF FeedInv, QueueInOrder, Event
<1>4. AllListed
  BY <1>1 DEF FeedInv, ListsThenWatches
<1> HIDE DEF e
<1> DEFINE x == e.obj
           v == e.ver
<1>5. \A o \in Object : cache[o] <= cache'[o] /\ (o # e.obj => cache'[o] = cache[o])
  <2>1. /\ cache \in [Object -> Nat] /\ cache' = [cache EXCEPT ![x] = v]
        /\ x \in Object /\ v \in Nat /\ cache[x] <= v
    BY <1>2, <1>3 DEF TypeOK
  <2> HIDE DEF x, v
  <2>2. \A o \in Object : cache[o] <= cache'[o] /\ (o # x => cache'[o] = cache[o])
    BY <2>1
  <2> QED
    BY <2>2 DEF x
<1>6. cache'[e.obj] = e.ver /\ cache' \in [Object -> Nat]
  BY <1>2, <1>3 DEF TypeOK
<1>7. InOrder'
  <2>1. \A o \in Object : cache'[o] <= truth[o]
    BY <1>3, <1>5, <1>6 DEF FeedInv, InOrder
  <2>2. ASSUME NEW o \in Object PROVE held[o] <= cache'[o]
    <3>1. held[o] <= cache[o] /\ cache[o] <= cache'[o]
      BY <1>5 DEF FeedInv, InOrder
    <3>2. held[o] \in Nat /\ cache[o] \in Nat /\ cache'[o] \in Nat
      BY <1>6 DEF TypeOK
    <3> QED
      BY <3>1, <3>2
  <2> QED
    BY <1>2, <2>1, <2>2 DEF FeedInv, InOrder
<1>8. ListsThenWatches'
  <2>1. \A s \in Resource : stream'[s] = "none" => queue'[s] = <<>>
    BY <1>1, <1>2 DEF FeedInv, ListsThenWatches
  <2>2. AllListed'
    BY <1>2, <1>4 DEF AllListed
  <2>3. \A o \in Object : list'[ResourceOf[o]] = "done"
    BY <2>2 DEF AllListed
  <2>4. QED
    BY <1>2, <2>1, <2>2, <2>3 DEF FeedInv, ListsThenWatches, ListsFirst
<1>9. QueueInOrder'
  <2>1. ASSUME NEW i \in 1 .. Len(queue'[r]), queue'[r][i] # Error
        PROVE  /\ ResourceOf[queue'[r][i].obj] = r
               /\ cache'[queue'[r][i].obj] <= queue'[r][i].ver
               /\ queue'[r][i].ver <= truth'[queue'[r][i].obj]
    <3>1. i + 1 \in 1 .. Len(q) /\ queue'[r][i] = q[i + 1] /\ 1 \in 1 .. Len(q) /\ 1 < i + 1
      BY <1>1, <1>2
    <3>2. CASE q[i + 1].obj = e.obj
      <4>1. e.ver <= q[i + 1].ver
        BY <1>1, <3>1, <3>2 DEF FeedInv, QueueInOrder
      <4>2. QED
        BY <1>2, <1>6, <2>1, <3>1, <3>2, <4>1 DEF FeedInv, QueueInOrder
    <3>3. CASE q[i + 1].obj # e.obj
      <4>1. cache'[q[i + 1].obj] = cache[q[i + 1].obj]
        BY <1>1, <1>5, <2>1, <3>1, <3>3 DEF Event
      <4>2. QED
        BY <1>2, <2>1, <3>1, <4>1 DEF FeedInv, QueueInOrder
    <3>4. QED
      BY <3>2, <3>3
  <2>2. ASSUME NEW i \in 1 .. Len(queue'[r]), NEW j \in 1 .. Len(queue'[r]),
               i < j, queue'[r][i].obj = queue'[r][j].obj
        PROVE  queue'[r][i].ver <= queue'[r][j].ver
    <3>1. /\ i + 1 \in 1 .. Len(q) /\ j + 1 \in 1 .. Len(q) /\ i + 1 < j + 1
          /\ queue'[r][i] = q[i + 1] /\ queue'[r][j] = q[j + 1]
      BY <1>1, <1>2, <2>2
    <3>2. \A k, l \in 1 .. Len(q) : (k < l /\ q[k].obj = q[l].obj) => q[k].ver <= q[l].ver
      BY DEF FeedInv, QueueInOrder
    <3>3. q[i + 1].obj = q[j + 1].obj
      BY <2>2, <3>1
    <3>4. QED
      BY <3>1, <3>2, <3>3, Zenon
  <2>3. ASSUME NEW s \in Resource, s # r, NEW i \in 1 .. Len(queue'[s]), queue'[s][i] # Error
        PROVE  /\ ResourceOf[queue'[s][i].obj] = s
               /\ cache'[queue'[s][i].obj] <= queue'[s][i].ver
               /\ queue'[s][i].ver <= truth'[queue'[s][i].obj]
    <3>1. queue'[s] = queue[s] /\ queue[s][i] \in Event /\ ResourceOf[queue[s][i].obj] = s
      BY <1>2, <2>3, QueuedEvents DEF FeedInv, QueueInOrder
    <3>2. cache'[queue[s][i].obj] = cache[queue[s][i].obj]
      BY <1>3, <1>5, <2>3, <3>1 DEF Event
    <3>3. QED
      BY <1>2, <2>3, <3>1, <3>2 DEF FeedInv, QueueInOrder
  <2>4. ASSUME NEW s \in Resource, s # r, NEW i \in 1 .. Len(queue'[s]),
               NEW j \in 1 .. Len(queue'[s]), i < j, queue'[s][i].obj = queue'[s][j].obj
        PROVE  queue'[s][i].ver <= queue'[s][j].ver
    BY <1>2, <2>4 DEF FeedInv, QueueInOrder
  <2>5. QED
    BY <2>1, <2>2, <2>3, <2>4 DEF QueueInOrder
<1>10. QED
  BY <1>7, <1>8, <1>9 DEF FeedInv

\* A watch that ends leaves at most an ERROR event behind its others.
LEMMA EndKeepsFeedInv ==
    ASSUME TypeOK, FeedInv, NEW r \in Resource, EndWatch(r) \/ FailWatch(r)
    PROVE  FeedInv'
<1>1. UNCHANGED <<server, startup, signalling, cache, token, emitter, seen, ctx>>
  BY DEF EndWatch, FailWatch
<1>2. \/ queue' = queue
      \/ stream[r] = "open" /\ queue' = [queue EXCEPT ![r] = Append(@, Error)]
  BY DEF EndWatch, FailWatch
<1>3. InOrder'
  BY <1>1 DEF FeedInv, InOrder
<1>4. ListsThenWatches'
  BY <1>1, <1>2 DEF EndWatch, FailWatch, FeedInv, ListsThenWatches, ListsFirst, AllListed, TypeOK
<1>5. QueueInOrder'
  <2>1. CASE queue' = queue
    BY <1>1, <2>1 DEF FeedInv, QueueInOrder
  <2>2. CASE queue' = [queue EXCEPT ![r] = Append(@, Error)]
    <3>1. /\ Len(queue[r]) \in Nat /\ Len(queue'[r]) = Len(queue[r]) + 1
          /\ \A i \in 1 .. Len(queue[r]) : queue'[r][i] = queue[r][i]
          /\ queue'[r][Len(queue[r]) + 1] = Error
          /\ \A s \in Resource : s # r => queue'[s] = queue[s]
      BY <2>2 DEF TypeOK
    <3>2. Error.obj \notin Object
      BY WatchAssumption DEF WatchAssumption, Error
    <3>3. ASSUME NEW i \in 1 .. Len(queue'[r]), queue'[r][i] # Error
          PROVE  /\ ResourceOf[queue'[r][i].obj] = r
                 /\ cache'[queue'[r][i].obj] <= queue'[r][i].ver
                 /\ queue'[r][i].ver <= truth'[queue'[r][i].obj]
      <4>1. i \in 1 .. Len(queue[r]) /\ queue'[r][i] = queue[r][i]
        BY <3>1, <3>3
      <4>2. cache' = cache /\ truth' = truth
        BY <1>1
      <4>3. queue[r][i] # Error
        BY <3>3, <4>1
      <4> QED
        BY <4>1, <4>2, <4>3 DEF FeedInv, QueueInOrder
    <3>4. ASSUME NEW i \in 1 .. Len(queue'[r]), NEW j \in 1 .. Len(queue'[r]),
                 i < j, queue'[r][i].obj = queue'[r][j].obj
          PROVE  queue'[r][i].ver <= queue'[r][j].ver
      <4>1. i \in 1 .. Len(queue[r]) /\ queue'[r][i] = queue[r][i]
        BY <3>1, <3>4
      <4>2. CASE j \in 1 .. Len(queue[r])
        BY <3>1, <3>4, <4>1, <4>2 DEF FeedInv, QueueInOrder
      <4>3. CASE j = Len(queue[r]) + 1
        <5>1. queue[r][i] = Error
          BY <3>1, <3>2, <3>4, <4>1, <4>3, QueuedEvents
        <5> QED
          BY <3>1, <4>1, <4>3, <5>1 DEF Error
      <4> QED
        BY <3>1, <4>2, <4>3
    <3>5. ASSUME NEW s \in Resource, s # r, NEW i \in 1 .. Len(queue'[s]), queue'[s][i] # Error
          PROVE  /\ ResourceOf[queue'[s][i].obj] = s
                 /\ cache'[queue'[s][i].obj] <= queue'[s][i].ver
                 /\ queue'[s][i].ver <= truth'[queue'[s][i].obj]
      BY <1>1, <3>1, <3>5 DEF FeedInv, QueueInOrder
    <3>6. ASSUME NEW s \in Resource, s # r, NEW i \in 1 .. Len(queue'[s]),
                 NEW j \in 1 .. Len(queue'[s]), i < j, queue'[s][i].obj = queue'[s][j].obj
          PROVE  queue'[s][i].ver <= queue'[s][j].ver
      BY <3>1, <3>6 DEF FeedInv, QueueInOrder
    <3> QED
      BY <3>3, <3>4, <3>5, <3>6 DEF QueueInOrder
  <2> QED
    BY <1>2, <2>1, <2>2
<1> QED
  BY <1>3, <1>4, <1>5 DEF FeedInv

\* An event without an object leaves the queue and nothing else changes.
LEMMA SkipKeepsFeedInv ==
    ASSUME TypeOK, FeedInv, NEW r \in Resource, Skip(r)
    PROVE  FeedInv'
<1>1. /\ UNCHANGED <<server, startup, stream, signalling, cache, token, emitter, seen, ctx>>
      /\ queue[r] # <<>> /\ queue'[r] = Tail(queue[r])
      /\ \A s \in Resource : s # r => queue'[s] = queue[s]
  BY DEF Skip, TypeOK
<1>2. /\ Len(queue[r]) \in Nat /\ Len(queue'[r]) = Len(queue[r]) - 1
      /\ \A i \in 1 .. Len(queue'[r]) : i + 1 \in 1 .. Len(queue[r]) /\ queue'[r][i] = queue[r][i + 1]
  BY <1>1 DEF TypeOK
<1>3. InOrder'
  BY <1>1 DEF FeedInv, InOrder
<1>4. ListsThenWatches'
  <2>1. stream[r] # "none"
    BY <1>1 DEF FeedInv, ListsThenWatches
  <2> QED
    BY <1>1, <2>1 DEF FeedInv, ListsThenWatches, ListsFirst, AllListed
<1>5. QueueInOrder'
  <2>1. ASSUME NEW i \in 1 .. Len(queue'[r]), queue'[r][i] # Error
        PROVE  /\ ResourceOf[queue'[r][i].obj] = r
               /\ cache'[queue'[r][i].obj] <= queue'[r][i].ver
               /\ queue'[r][i].ver <= truth'[queue'[r][i].obj]
    BY <1>1, <1>2, <2>1 DEF FeedInv, QueueInOrder
  <2>2. ASSUME NEW i \in 1 .. Len(queue'[r]), NEW j \in 1 .. Len(queue'[r]),
               i < j, queue'[r][i].obj = queue'[r][j].obj
        PROVE  queue'[r][i].ver <= queue'[r][j].ver
    <3>1. /\ i + 1 \in 1 .. Len(queue[r]) /\ j + 1 \in 1 .. Len(queue[r]) /\ i + 1 < j + 1
          /\ queue'[r][i] = queue[r][i + 1] /\ queue'[r][j] = queue[r][j + 1]
      BY <1>2, <2>2
    <3> QED
      BY <2>2, <3>1 DEF FeedInv, QueueInOrder
  <2>3. ASSUME NEW s \in Resource, s # r, NEW i \in 1 .. Len(queue'[s]), queue'[s][i] # Error
        PROVE  /\ ResourceOf[queue'[s][i].obj] = s
               /\ cache'[queue'[s][i].obj] <= queue'[s][i].ver
               /\ queue'[s][i].ver <= truth'[queue'[s][i].obj]
    BY <1>1, <2>3 DEF FeedInv, QueueInOrder
  <2>4. ASSUME NEW s \in Resource, s # r, NEW i \in 1 .. Len(queue'[s]),
               NEW j \in 1 .. Len(queue'[s]), i < j, queue'[s][i].obj = queue'[s][j].obj
        PROVE  queue'[s][i].ver <= queue'[s][j].ver
    BY <1>1, <2>4 DEF FeedInv, QueueInOrder
  <2> QED
    BY <2>1, <2>2, <2>3, <2>4 DEF QueueInOrder
<1> QED
  BY <1>3, <1>4, <1>5 DEF FeedInv

\* The consumer's view is a conflating feed of the API server's objects: never
\* a version that does not exist, never an object moved back (client.go:154-260).
THEOREM WatchImplementsFeed == Spec => ImplementsFeed
<1>1. Init => ServerFeed!Init
  BY DEF Init, ServerFeed!Init, Nothing
<1>2. TypeOK /\ FeedInv /\ [Next]_vars => FeedInv'
  <2> SUFFICES ASSUME TypeOK, FeedInv, [Next]_vars
               PROVE  FeedInv'
    OBVIOUS
  <2> USE DEF FeedInv, InOrder, ListsThenWatches, QueueInOrder, ListsFirst, AllListed
  <2>1. ASSUME NEW o \in Object, Write(o) \/ Delete(o)
        PROVE  FeedInv'
    BY <2>1, ChangeKeepsFeedInv
  <2>2. ASSUME NEW r \in Resource, EndWatch(r) \/ FailWatch(r)
        PROVE  FeedInv'
    BY <2>2, EndKeepsFeedInv
  <2>3. ASSUME NEW r \in Resource, AnswerList(r) \/ FailList(r) \/ PutList(r)
        PROVE  FeedInv'
    BY <2>3, ListKeepsFeedInv
  <2>4. ASSUME NEW r \in Resource, OpenWatch(r)
        PROVE  FeedInv'
    BY <2>4, OpenKeepsFeedInv
  <2>5. ASSUME NEW r \in Resource, Put(r)
        PROVE  FeedInv'
    BY <2>5, PutKeepsFeedInv
  <2>6. ASSUME NEW r \in Resource, Signal(r)
        PROVE  FeedInv'
    BY <2>6 DEF Signal
  <2>12. ASSUME NEW r \in Resource, Skip(r)
         PROVE  FeedInv'
    BY <2>12, SkipKeepsFeedInv
  <2>7. CASE StartEmitter \/ Tick \/ TakeSignal \/ Cancel \/ Stop
    BY <2>7 DEF StartEmitter, Tick, TakeSignal, Cancel, Stop
  <2>8. CASE TakeTick
    <3>1. InOrder'
      <4>1. held' = cache \/ held' = held
        BY <2>8 DEF TakeTick
      <4>2. UNCHANGED <<truth, seen, cache, answer>>
        BY <2>8 DEF TakeTick
      <4>3. QED
        BY <4>1, <4>2, QueuedEvents
    <3>2. AllListed
      BY <2>8 DEF TakeTick
    <3>3. QED
      BY <2>8, <3>1, <3>2 DEF TakeTick
  <2>9. CASE Receive
    <3>1. InOrder'
      BY <2>9, QueuedEvents DEF Receive
    <3>2. QED
      BY <2>9, <3>1 DEF Receive
  <2>10. CASE UNCHANGED vars
    BY <2>10
  <2>11. QED
    BY <2>1, <2>2, <2>3, <2>4, <2>5, <2>6, <2>7, <2>8, <2>9, <2>10, <2>12 DEF Next, Worker
<1>3. TypeOK /\ TypeOK' /\ FeedInv /\ [Next]_vars => [ServerFeed!Next]_<<truth, seen>>
  <2> SUFFICES ASSUME TypeOK, TypeOK', FeedInv, [Next]_vars
               PROVE  [ServerFeed!Next]_<<truth, seen>>
    OBVIOUS
  <2>1. ASSUME NEW o \in Object, Write(o) \/ Delete(o)
        PROVE  ServerFeed!Change(o)
    BY <2>1 DEF Write, Delete, ServerFeed!Change
  <2>2. ASSUME NEW r \in Resource,
               \/ EndWatch(r) \/ FailWatch(r) \/ OpenWatch(r)
               \/ AnswerList(r) \/ FailList(r) \/ PutList(r) \/ Worker(r)
        PROVE  UNCHANGED <<truth, seen>>
    BY <2>2 DEF EndWatch, FailWatch, OpenWatch, AnswerList, FailList, PutList, Worker, Put,
                Skip, Signal
  <2>3. CASE StartEmitter \/ Tick \/ TakeSignal \/ TakeTick \/ Cancel \/ Stop
    BY <2>3 DEF StartEmitter, Tick, TakeSignal, TakeTick, Cancel, Stop
  <2>4. CASE Receive
    <3>1. \A o \in Object : seen[o] <= held[o] /\ held[o] <= truth[o]
      BY DEF FeedInv, InOrder, TypeOK
    <3>2. ServerFeed!Deliver
      BY <2>4, <3>1 DEF Receive, ServerFeed!Deliver, TypeOK
    <3>3. QED
      BY <3>2 DEF ServerFeed!Next
  <2>5. CASE UNCHANGED vars
    BY <2>5
  <2>6. QED
    BY <2>1, <2>2, <2>3, <2>4, <2>5 DEF Next, ServerFeed!Next
<1>4. QED
  BY <1>1, <1>2, <1>3, WatchTypeOK, FeedInvInit, PTL DEF Spec, ImplementsFeed

-----------------------------------------------------------------------------
(* The source of offers.                                                   *)

\* The emitter, its timer and the signals of the watches are a source of offers of what the cache
\* holds: a noticed change goes out at the next look at a tick, an unchanged cache at the
\* heartbeat, and nothing else is offered, however slow the consumer and however many ticks are
\* dropped (client.go:206-252).  Follow is built on such a source.
THEOREM WatchImplementsOffers == Spec => ImplementsOffers
<1>1. Init => Source!Init
  BY DEF Init, Source!Init, Turn, Nothing
<1>2. TypeOK /\ TypeOK' /\ StartsDirty /\ ListsFirst /\ [Next]_vars => [Source!Next]_(Source!vars)
  <2> SUFFICES ASSUME TypeOK, TypeOK', StartsDirty, ListsFirst, [Next]_vars
               PROVE  Source!Next \/ UNCHANGED Source!vars
    OBVIOUS
  <2> USE WatchAssumption DEF WatchAssumption, Source!clock
  <2>0. CASE UNCHANGED <<cache, token, signalling, emitter>>
    BY <2>0 DEF Source!vars, Turn
  <2>1. ASSUME NEW o \in Object, Write(o) \/ Delete(o)
        PROVE  UNCHANGED <<cache, token, signalling, emitter>>
    BY <2>1 DEF Write, Delete
  <2>2. ASSUME NEW r \in Resource,
               \/ EndWatch(r) \/ AnswerList(r) \/ FailList(r) \/ OpenWatch(r) \/ FailWatch(r)
               \/ Skip(r)
        PROVE  UNCHANGED <<cache, token, signalling, emitter>>
    BY <2>2 DEF EndWatch, AnswerList, FailList, OpenWatch, FailWatch, Skip
  <2>3. ASSUME Cancel PROVE UNCHANGED <<cache, token, signalling, emitter>>
    BY <2>3 DEF Cancel
  <2>4. ASSUME NEW r \in Resource, PutList(r) PROVE Source!Change
    <3>1. dirty
      BY <2>4 DEF PutList, StartsDirty, ListsFirst, AllListed
    <3>2. UNCHANGED <<token, signalling, emitter>> /\ cache' \in [Object -> Nat]
      BY <2>4 DEF PutList, TypeOK
    <3> QED BY <3>1, <3>2 DEF Source!Change, Turn
  <2>5. ASSUME NEW r \in Resource, Put(r) PROVE Source!Change
    <3>1. UNCHANGED <<token, emitter>> /\ cache' \in [Object -> Nat] /\ signalling' # {}
      BY <2>5 DEF Put, TypeOK
    <3> QED BY <3>1 DEF Source!Change, Turn
  <2>6. ASSUME NEW r \in Resource, Signal(r) PROVE UNCHANGED Source!vars
    <3>1. UNCHANGED <<cache, emitter>> /\ signalling # {} /\ token' = 1
      BY <2>6 DEF Signal
    <3> QED BY <3>1 DEF Source!vars, Turn
  <2>7. ASSUME StartEmitter PROVE Source!Start
    <3>1. /\ UNCHANGED <<cache, token, signalling, dirty, tick, since, held>>
          /\ emit = "off" /\ emit' = "select" /\ dirty = TRUE /\ cache' \in [Object -> Nat]
      BY <2>7 DEF StartEmitter, StartsDirty, TypeOK
    <3> QED BY <3>1 DEF Source!Start, Turn
  <2>8. ASSUME Tick PROVE Source!Tick
    <3>1. /\ UNCHANGED <<cache, token, signalling, emit, dirty, held>>
          /\ emit \in {"select", "send"} /\ since \in 0 .. Heartbeat
      BY <2>8 DEF Tick, TypeOK
    <3>2. Saturate(since + 1) = Source!Upto(since + 1) /\ Saturate(since + 1) # NoTick
      BY <3>1 DEF Saturate, Source!Upto, NoTick
    <3>3. CASE tick = NoTick
      BY <2>8, <3>1, <3>2, <3>3 DEF Tick, Source!Tick, Turn
    <3>4. CASE tick # NoTick
      BY <2>8, <3>1, <3>2, <3>4 DEF Tick, Source!Tick, Turn
    <3> QED BY <3>3, <3>4
  <2>9. ASSUME TakeSignal PROVE Source!Notice
    <3>1. UNCHANGED <<cache, signalling, emit, tick, since, held>> /\ dirty' /\ token = 1
          /\ dirty' \in BOOLEAN
      BY <2>9 DEF TakeSignal, TypeOK
    <3> QED BY <2>9, <3>1 DEF TakeSignal, Source!Notice, Turn
  <2>10. ASSUME TakeTick PROVE Source!Look
    <3>1. /\ UNCHANGED <<cache, token, signalling>> /\ tick # NoTick /\ tick' = NoTick
          /\ emit = "select" /\ tick \in 0 .. Heartbeat /\ since \in 0 .. Heartbeat
      BY <2>10 DEF TakeTick, TypeOK
    <3>2. CASE Due
      <4>1. dirty' = FALSE /\ since' = since /\ held' = cache /\ emit' = "send"
        BY <2>10, <3>2 DEF TakeTick
      <4> QED BY <3>1, <3>2, <4>1 DEF Source!Look, Due, Turn
    <3>3. CASE ~Due
      <4>1. /\ UNCHANGED <<dirty, held, emit>> /\ since' = Saturate(tick + since)
        BY <2>10, <3>3 DEF TakeTick
      <4>2. Saturate(tick + since) = Source!Upto(tick + since)
        BY DEF Saturate, Source!Upto
      <4> QED BY <3>1, <3>3, <4>1, <4>2 DEF Source!Look, Due, Turn
    <3> QED BY <3>2, <3>3
  <2>11. ASSUME Receive PROVE Source!Take
    <3>1. /\ UNCHANGED <<cache, token, signalling, dirty, tick, since, held>>
          /\ emit = "send" /\ emit' = "select"
      BY <2>11 DEF Receive
    <3> QED BY <3>1 DEF Source!Take, Turn
  <2>12. ASSUME Stop PROVE Source!Close
    <3>1. /\ UNCHANGED <<cache, token, signalling, dirty, tick, since, held>>
          /\ emit \in {"select", "send"} /\ emit' = "closed"
      BY <2>12 DEF Stop
    <3> QED BY <3>1 DEF Source!Close, Turn
  <2>13. UNCHANGED vars => UNCHANGED <<cache, token, signalling, emitter>>
    BY DEF vars
  <2> QED BY <2>0, <2>1, <2>2, <2>3, <2>4, <2>5, <2>6, <2>7, <2>8, <2>9, <2>10, <2>11, <2>12, <2>13
          DEF Next, Worker, Source!Next
<1> QED BY <1>1, <1>2, WatchTypeOK, WakeupInvariant, PTL DEF Spec, ImplementsOffers
=============================================================================
