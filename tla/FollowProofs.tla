---------------------------- MODULE FollowProofs ----------------------------
(***************************************************************************)
(* What holds of a run for every relation of the six durations, every      *)
(* renderer and every set of texts: the types, and what an exit code says. *)
(***************************************************************************)
EXTENDS Follow, TLAPS

\* An envelope on offer is of the cluster as it was at some time.
EnvOK ==
    \/ env = NoEnv
    \/ /\ env \in [kind : {"absent", "building", "ready"}, text : Texts \cup {0}, idle : 0 .. StallAfter + 1]
       /\ View(env.kind, env.text) \in Worlds

Types ==
    /\ renderer \in Renderers /\ blocking \in BOOLEAN
    /\ world \in Worlds \cup {Unseen} /\ cache \in Worlds /\ idle \in 0 .. StallAfter + 1
    /\ phase \in 0 .. Debounce - 1 /\ due \in BOOLEAN /\ changed \in BOOLEAN
    /\ sinceEnv \in 0 .. WatchHeartbeat /\ lag \in 0 .. Lag
    /\ EnvOK
    /\ pc \in {"start", "follow", "once", "exited"}
    /\ last \in Views \cup {NoView} /\ first \in BOOLEAN /\ silent \in 0 .. Horizon
    /\ mem \in Views /\ told \in Views /\ behind \in 0 .. Horizon
    /\ exit \in {NoExit, 0, 2, 4}

\* A run that does not wait has built and printed nothing before its one view.
OneView ==
    /\ pc = "follow" => blocking
    /\ pc = "once" => ~blocking
    /\ pc \in {"start", "once"} => first /\ last = NoView
    /\ pc = "start" => mem = Absent /\ env = NoEnv /\ changed

\* Nothing is taken out of the cache, so nothing is seen of the cluster before an absent envelope.
AbsentFirst ==
    /\ cache.kind = "absent" => mem = Absent /\ (env = NoEnv \/ env.kind = "absent")
    /\ env.kind = "absent" => mem = Absent

\* How long ago the rate limit was last open, while a stall it dropped is the last view.
Dropped ==
    pc = "follow" /\ told # last /\ Blamed(last) =>
        IF env # NoEnv THEN silent < MinInterval + WatchHeartbeat + Debounce + lag
        ELSE IF sinceEnv < WatchHeartbeat THEN silent < MinInterval + sinceEnv
        ELSE IF due THEN silent < MinInterval + WatchHeartbeat + Debounce
        ELSE silent < MinInterval + WatchHeartbeat + phase

\* While no change can have been missed, the cache shows the cluster.
InSight == world # Unseen => cache = world

\* What is printed is what the renderer remembers.
FInv == Types /\ OneView /\ AbsentFirst /\ InSight /\ told = mem /\ Dropped /\ ExitSaysWhatWasSeen

-----------------------------------------------------------------------------
(* The operators.                                                          *)

\* A view of the cluster is one a frame can show.
LEMMA ViewOfIsAView ==
    ASSUME NEW w, View(w.kind, w.text) \in Worlds, NEW quiet \in Nat
    PROVE  ViewOf(w, quiet) \in Views /\ ViewOf(w, quiet) # NoView
<1>1. View(w.kind, w.text) = Absent \/ (w.kind \in {"building", "ready"} /\ w.text \in Texts)
  <2>1. CASE View(w.kind, w.text) # Absent
    <3>1. PICK k \in {"building", "ready"}, t \in Texts : View(w.kind, w.text) = View(k, t)
      BY <2>1 DEF Worlds
    <3>2. w.kind = k /\ w.text = t
      BY <3>1 DEF View
    <3> QED BY <3>2
  <2> QED BY <2>1
<1>2. CASE View(w.kind, w.text) = Absent
  <2>1. w.kind = "absent" /\ w.text = 0
    BY <1>2 DEF View, Absent
  <2> QED BY <2>1 DEF ViewOf, Views, Worlds, Absent, View, NoView
<1>3. CASE w.kind \in {"building", "ready"} /\ w.text \in Texts
  BY <1>3 DEF ViewOf, Views, Worlds, View, NoView
<1> QED BY <1>1, <1>2, <1>3

\* A view is absent only of an absent cluster.
LEMMA AbsentViewOf ==
    ASSUME NEW w, NEW quiet
    PROVE  ViewOf(w, quiet).kind = "absent" <=> w.kind = "absent"
BY DEF ViewOf, View

\* The cap of a counter.
LEMMA UptoIsCapped ==
    ASSUME NEW cap \in Nat, NEW n \in Nat
    PROVE  Upto(cap, n) \in 0 .. cap /\ Upto(cap, n) <= n
BY DEF Upto

\* The exit code of a view: 0 and 2 say what they should.
LEMMA FinishCodeSays ==
    ASSUME NEW v \in Views \cup {NoView}, blocking \in BOOLEAN
    PROVE  /\ FinishCode(v) \in {0, 2, 4}
           /\ FinishCode(v) = 0 /\ blocking => v.kind = "ready"
           /\ FinishCode(v) = 2 => Blamed(v)
           /\ FinishCode(v) = 0 => ~Blamed(v) /\ v # NoView
<1>1. NoView.kind = "none"
  BY DEF NoView, View
<1> QED BY <1>1 DEF FinishCode, Blamed

\* The durations are naturals, and so is what is made of them.
LEMMA Durations ==
    /\ Debounce \in Nat \ {0} /\ WatchHeartbeat \in Nat \ {0} /\ MinInterval \in Nat \ {0}
    /\ RenderHeartbeat \in Nat \ {0} /\ StallAfter \in Nat \ {0} /\ Lag \in Nat
    /\ Horizon \in Nat /\ StallAfter + 1 \in Nat
BY FollowAssumption DEF Horizon

\* What the types say of the offer that is handled.
LEMMA TheOffer ==
    ASSUME Types, env # NoEnv
    PROVE  /\ ViewOf(env, env.idle) \in Views /\ ViewOf(env, env.idle) # NoView
           /\ env.kind \in {"absent", "building", "ready"} /\ env.idle \in 0 .. StallAfter + 1
<1>1. /\ View(env.kind, env.text) \in Worlds /\ env.idle \in 0 .. StallAfter + 1
      /\ env.kind \in {"absent", "building", "ready"}
  BY DEF Types, EnvOK
<1>2. env.idle \in Nat
  BY <1>1, Durations
<1> QED BY <1>1, <1>2, ViewOfIsAView

\* The offer of the source is of its type.
LEMMA EnvelopeIsAnOffer ==
    ASSUME Types
    PROVE  /\ Envelope \in [kind : {"absent", "building", "ready"}, text : Texts \cup {0}, idle : 0 .. StallAfter + 1]
           /\ View(Envelope.kind, Envelope.text) \in Worlds /\ Envelope # NoEnv
           /\ Envelope.kind = cache.kind
<1>1. cache.kind \in {"absent", "building", "ready"} /\ cache.text \in Texts \cup {0}
      /\ View(cache.kind, cache.text) = cache
  BY DEF Types, Worlds, View, Absent
<1> QED BY <1>1 DEF Types, Envelope, NoEnv

\* Init => FInv.
LEMMA InitFInv == Init => FInv
<1> SUFFICES ASSUME Init PROVE FInv
  OBVIOUS
<1>1. Types
  <2>1. Absent \in Views /\ world \in Worlds /\ cache \in Worlds
    BY DEF Init, Views, Worlds
  <2>2. 0 \in 0 .. Debounce - 1 /\ 0 \in 0 .. WatchHeartbeat /\ 0 \in 0 .. Lag /\ 0 \in 0 .. Horizon
        /\ 0 \in 0 .. StallAfter + 1 /\ StallAfter + 1 \in 0 .. StallAfter + 1
    BY Durations
  <2>3. idle \in 0 .. StallAfter + 1 /\ renderer \in Renderers /\ EnvOK
    BY <2>2 DEF Init, EnvOK
  <2>4. /\ phase \in 0 .. Debounce - 1 /\ sinceEnv \in 0 .. WatchHeartbeat /\ lag \in 0 .. Lag
        /\ silent \in 0 .. Horizon /\ behind \in 0 .. Horizon
    BY <2>2 DEF Init
  <2>5. blocking \in BOOLEAN /\ mem \in Views /\ told \in Views /\ pc = "start" /\ exit = NoExit
        /\ last = NoView /\ due = FALSE /\ changed = TRUE /\ first = TRUE
    BY <2>1 DEF Init
  <2> QED BY <2>1, <2>3, <2>4, <2>5 DEF Types
<1>2. OneView /\ AbsentFirst /\ InSight /\ told = mem /\ Dropped /\ ExitSaysWhatWasSeen
  BY DEF Init, OneView, AbsentFirst, InSight, Dropped, ExitSaysWhatWasSeen, NoEnv
<1> QED BY <1>1, <1>2 DEF FInv

-----------------------------------------------------------------------------
(* FInv /\ [Next]_vars => FInv', one action after the other.               *)

\* What the cache shows changes, and nothing is taken out of it.
LEMMA ShowFInv ==
    ASSUME FInv, NEW c \in Worlds, c.kind = "absent" => cache.kind = "absent",
           NEW age \in 0 .. StallAfter + 1, Show(c, age),
           world' \in Worlds \cup {Unseen}, world' # Unseen => c = world',
           UNCHANGED <<options, clockVars, env, pc, last, streamVars, exit>>
    PROVE  FInv'
<1>1. Types'
  <2>1. 0 \in 0 .. Horizon
    BY Durations
  <2> QED BY <2>1 DEF FInv, Types, EnvOK, Show, options, clockVars, streamVars, Views, Worlds
<1>2. OneView' /\ AbsentFirst' /\ InSight' /\ told' = mem'
  BY DEF FInv, OneView, AbsentFirst, InSight, Show, options, clockVars, streamVars
<1>3. Dropped' /\ ExitSaysWhatWasSeen'
  BY DEF FInv, Dropped, ExitSaysWhatWasSeen, Blamed, Show, options, clockVars, streamVars
<1> QED BY <1>1, <1>2, <1>3 DEF FInv

\* The cluster changes, and the cache with it.
LEMMA BecomeFInv ==
    ASSUME FInv, NEW w \in Worlds, w.kind # "absent", Become(w)
    PROVE  FInv'
<1>1. 0 \in 0 .. StallAfter + 1
  BY Durations
<1> QED BY <1>1, ShowFInv DEF Become

\* The cache shows a mixture of what it had and what it is told.
LEMMA MixFInv ==
    ASSUME FInv, Mix
    PROVE  FInv'
<1>1. PICK c \in Worlds, age \in {0, idle} : (c = Absent => cache = Absent) /\ Show(c, age)
  BY DEF Mix
<1>2. age \in 0 .. StallAfter + 1
  BY Durations DEF FInv, Types
<1>3. c.kind = "absent" => cache.kind = "absent"
  BY <1>1 DEF Worlds, View, Absent
<1> QED BY <1>1, <1>2, <1>3, ShowFInv DEF Mix

\* A change may be missed from here on.
LEMMA LoseSightFInv ==
    ASSUME FInv, LoseSight
    PROVE  FInv'
<1>1. Types' /\ OneView' /\ AbsentFirst' /\ InSight' /\ told' = mem'
  BY DEF FInv, Types, EnvOK, OneView, AbsentFirst, InSight, LoseSight, options, clockVars,
     streamVars, Views, Worlds
<1>2. Dropped' /\ ExitSaysWhatWasSeen'
  BY DEF FInv, Dropped, ExitSaysWhatWasSeen, Blamed, LoseSight, options, clockVars, streamVars
<1> QED BY <1>1, <1>2 DEF FInv

\* Something of another cluster changes.
LEMMA ElsewhereFInv ==
    ASSUME FInv, Elsewhere
    PROVE  FInv'
<1>1. Types' /\ OneView' /\ AbsentFirst' /\ InSight' /\ told' = mem'
  BY DEF FInv, Types, EnvOK, OneView, AbsentFirst, InSight, Elsewhere, server, options, clockVars,
     streamVars
<1>2. Dropped' /\ ExitSaysWhatWasSeen'
  BY DEF FInv, Dropped, ExitSaysWhatWasSeen, Blamed, Elsewhere, options, clockVars, streamVars
<1> QED BY <1>1, <1>2 DEF FInv

\* A unit of time passes.
LEMMA TickFInv ==
    ASSUME FInv, Tick
    PROVE  FInv'
<1> USE Durations
<1>1. /\ phase \in 0 .. Debounce - 1 /\ sinceEnv \in 0 .. WatchHeartbeat /\ lag \in 0 .. Lag
      /\ silent \in 0 .. Horizon /\ behind \in 0 .. Horizon /\ idle \in 0 .. StallAfter + 1
  BY DEF FInv, Types
<1>2. /\ phase' \in 0 .. Debounce - 1
      /\ phase' = IF phase = Debounce - 1 THEN 0 ELSE phase + 1
  BY <1>1 DEF Tick
<1>3. sinceEnv' = Upto(WatchHeartbeat, sinceEnv + 1) /\ silent' = Upto(Horizon, silent + 1)
  BY DEF Tick
<1>4. sinceEnv' \in 0 .. WatchHeartbeat /\ silent' \in 0 .. Horizon /\ silent' <= silent + 1
  BY <1>1, <1>3, UptoIsCapped
<1>5. lag' \in 0 .. Lag
  BY <1>1 DEF Tick
<1>6. idle' \in 0 .. StallAfter + 1 /\ behind' \in 0 .. Horizon
  <2>1. idle' \in 0 .. StallAfter + 1
    BY <1>1, UptoIsCapped DEF Tick
  <2>2. Upto(Horizon, behind + 1) \in 0 .. Horizon /\ 0 \in 0 .. Horizon
    BY <1>1, UptoIsCapped
  <2> QED BY <2>1, <2>2 DEF Tick
<1>7. EnvOK' /\ (env' = NoEnv <=> env = NoEnv) /\ env'.kind = env.kind
  <2>1. CASE env = NoEnv
    BY <2>1 DEF Tick, EnvOK
  <2>2. CASE env # NoEnv
    <3>1. /\ env \in [kind : {"absent", "building", "ready"}, text : Texts \cup {0}, idle : 0 .. StallAfter + 1]
          /\ View(env.kind, env.text) \in Worlds
      BY <2>2 DEF FInv, Types, EnvOK
    <3>2. Upto(StallAfter + 1, env.idle + 1) \in 0 .. StallAfter + 1
      <4>1. env.idle \in 0 .. StallAfter + 1
        BY <3>1
      <4>2. env.idle + 1 \in Nat
        BY <4>1
      <4> QED BY <4>2, UptoIsCapped
    <3>3. env' = [env EXCEPT !.idle = Upto(StallAfter + 1, env.idle + 1)]
      BY <2>2 DEF Tick
    <3> HIDE Durations
    <3>4. /\ env' \in [kind : {"absent", "building", "ready"}, text : Texts \cup {0}, idle : 0 .. StallAfter + 1]
          /\ env'.kind = env.kind /\ env'.text = env.text
      BY <3>1, <3>2, <3>3
    <3>5. env' # NoEnv
      BY <3>4 DEF NoEnv
    <3> QED BY <2>2, <3>1, <3>4, <3>5 DEF EnvOK, Worlds
  <2> QED BY <2>1, <2>2
<1>8. Types'
  <2> HIDE Durations
  <2>1. due' \in BOOLEAN
    BY DEF Tick
  <2> QED BY <1>2, <1>4, <1>5, <1>6, <1>7, <2>1 DEF Tick, FInv, Types, options, Views, Worlds
<1>9. OneView' /\ AbsentFirst' /\ InSight' /\ told' = mem' /\ ExitSaysWhatWasSeen'
  <2> HIDE Durations
  <2> QED BY <1>7 DEF FInv, OneView, AbsentFirst, InSight, ExitSaysWhatWasSeen, Tick, options
<1>10. Dropped'
  <2> SUFFICES ASSUME pc = "follow", told # last, Blamed(last)
               PROVE  Dropped'
    BY DEF Dropped, Tick, Blamed
  <2>1. ~due /\ (due' <=> phase' = 0) /\ (env # NoEnv => lag' = lag + 1)
    BY DEF Tick
  <2>2. CASE env # NoEnv
    <3>1. silent < MinInterval + WatchHeartbeat + Debounce + lag
      BY <2>2 DEF FInv, Dropped
    <3>2. silent' < MinInterval + WatchHeartbeat + Debounce + lag'
      BY <1>1, <1>4, <2>1, <2>2, <3>1
    <3> QED BY <1>7, <2>2, <3>2 DEF Dropped
  <2>3. CASE env = NoEnv /\ sinceEnv < WatchHeartbeat
    <3>1. silent < MinInterval + sinceEnv
      BY <2>3 DEF FInv, Dropped
    <3>2. sinceEnv' = sinceEnv + 1
      BY <1>1, <1>3, <2>3 DEF Upto
    <3>3. /\ silent' < MinInterval + sinceEnv'
          /\ sinceEnv' = WatchHeartbeat => silent' < MinInterval + WatchHeartbeat
      BY <1>1, <1>4, <3>1, <3>2
    <3>4. sinceEnv' = WatchHeartbeat =>
            /\ silent' < MinInterval + WatchHeartbeat + Debounce
            /\ silent' < MinInterval + WatchHeartbeat + phase'
      BY <1>2, <1>4, <3>3
    <3>5. sinceEnv' < WatchHeartbeat \/ sinceEnv' = WatchHeartbeat
      BY <1>4
    <3> QED BY <1>7, <2>3, <3>3, <3>4, <3>5 DEF Dropped
  <2>4. CASE env = NoEnv /\ ~(sinceEnv < WatchHeartbeat)
    <3>1. silent < MinInterval + WatchHeartbeat + phase
      BY <2>1, <2>4 DEF FInv, Dropped
    <3>2. ~(sinceEnv' < WatchHeartbeat)
      BY <1>1, <1>3, <2>4 DEF Upto
    <3>3. /\ phase' # 0 => silent' < MinInterval + WatchHeartbeat + phase'
          /\ silent' < MinInterval + WatchHeartbeat + Debounce
      BY <1>1, <1>2, <1>4, <3>1
    <3> QED BY <1>7, <2>1, <2>4, <3>2, <3>3 DEF Dropped
  <2> QED BY <2>2, <2>3, <2>4
<1> QED BY <1>8, <1>9, <1>10 DEF FInv

\* What the lists find is of its type, and no more than there is.
LEMMA ListedIsAWorld ==
    ASSUME FInv, Listed
    PROVE  /\ world' \in Worlds \cup {Unseen} /\ cache' \in Worlds /\ idle' \in 0 .. StallAfter + 1
           /\ InSight'
<1>1. StallAfter + 1 \in 0 .. StallAfter + 1 /\ Absent \in Worlds
  BY Durations DEF Worlds
<1>2. CASE UNCHANGED server
  BY <1>2 DEF server, FInv, Types, InSight
<1>3. CASE ~UNCHANGED server
  BY <1>1, <1>3 DEF Listed, FInv, Types, InSight
<1> QED BY <1>2, <1>3

\* An envelope of what the cache holds next.
LEMMA NextEnvelope ==
    ASSUME cache' \in Worlds, idle' \in 0 .. StallAfter + 1
    PROVE  /\ Envelope' \in [kind : {"absent", "building", "ready"}, text : Texts \cup {0}, idle : 0 .. StallAfter + 1]
           /\ View(Envelope'.kind, Envelope'.text) \in Worlds /\ Envelope' # NoEnv
           /\ Envelope'.kind = cache'.kind
<1>1. cache'.kind \in {"absent", "building", "ready"} /\ cache'.text \in Texts \cup {0}
      /\ View(cache'.kind, cache'.text) = cache'
  BY DEF Worlds, View, Absent
<1> QED BY <1>1 DEF Envelope, NoEnv

\* The source starts, or does not.
LEMMA StartFInv ==
    ASSUME FInv, StartWatch \/ StartOnce \/ StartFails
    PROVE  FInv'
<1>2. NoView # Absent /\ ~Blamed(NoView) /\ NoEnv.kind = "none" /\ NoExit # 2 /\ NoExit # 0
  BY DEF NoView, Absent, View, Blamed, NoEnv, NoExit
<1>3. CASE StartWatch
  <2>1. /\ world' \in Worlds \cup {Unseen} /\ cache' \in Worlds /\ idle' \in 0 .. StallAfter + 1
        /\ InSight'
    BY <1>3, ListedIsAWorld DEF StartWatch
  <2>2. Types'
    BY <1>3, <2>1 DEF StartWatch, FInv, Types, EnvOK, options, clockVars, streamVars, Views, Worlds
  <2>3. OneView' /\ AbsentFirst' /\ told' = mem'
    BY <1>2, <1>3 DEF StartWatch, FInv, OneView, AbsentFirst, options, clockVars, streamVars
  <2>4. Dropped' /\ ExitSaysWhatWasSeen'
    BY <1>2, <1>3 DEF StartWatch, FInv, OneView, Dropped, ExitSaysWhatWasSeen, Blamed, options, clockVars, streamVars
  <2> QED BY <2>1, <2>2, <2>3, <2>4 DEF FInv
<1>4. CASE StartOnce
  <2>1. /\ world' \in Worlds \cup {Unseen} /\ cache' \in Worlds /\ idle' \in 0 .. StallAfter + 1
        /\ InSight'
    BY <1>4, ListedIsAWorld DEF StartOnce
  <2>2. /\ Envelope' \in [kind : {"absent", "building", "ready"}, text : Texts \cup {0}, idle : 0 .. StallAfter + 1]
        /\ View(Envelope'.kind, Envelope'.text) \in Worlds /\ Envelope' # NoEnv
        /\ Envelope'.kind = cache'.kind
    BY <2>1, NextEnvelope
  <2>3. Types'
    BY <1>4, <2>1, <2>2 DEF StartOnce, FInv, Types, EnvOK, options, clockVars, streamVars, Views, Worlds
  <2>4. OneView' /\ AbsentFirst' /\ told' = mem'
    BY <1>2, <1>4, <2>2 DEF StartOnce, FInv, OneView, AbsentFirst, options, clockVars, streamVars
  <2>5. Dropped' /\ ExitSaysWhatWasSeen'
    BY <1>2, <1>4 DEF StartOnce, FInv, OneView, Dropped, ExitSaysWhatWasSeen, Blamed, options, clockVars, streamVars
  <2> QED BY <2>1, <2>3, <2>4, <2>5 DEF FInv
<1>5. CASE StartFails
  <2>1. Types' /\ OneView' /\ AbsentFirst' /\ InSight' /\ told' = mem'
    BY <1>5 DEF StartFails, FInv, Types, EnvOK, OneView, AbsentFirst, InSight, server, options,
       clockVars, streamVars, Views, Worlds
  <2>2. Dropped' /\ ExitSaysWhatWasSeen'
    BY <1>2, <1>5 DEF StartFails, FInv, OneView, Dropped, ExitSaysWhatWasSeen
  <2> QED BY <2>1, <2>2 DEF FInv
<1> QED BY <1>3, <1>4, <1>5

\* A debounce tick is looked at.
LEMMA OfferFInv ==
    ASSUME FInv, Offer
    PROVE  FInv'
<1>1. Envelope \in [kind : {"absent", "building", "ready"}, text : Texts \cup {0}, idle : 0 .. StallAfter + 1]
      /\ View(Envelope.kind, Envelope.text) \in Worlds /\ Envelope # NoEnv /\ Envelope.kind = cache.kind
  BY EnvelopeIsAnOffer DEF FInv
<1>2. 0 \in 0 .. WatchHeartbeat /\ 0 \in 0 .. Lag
  BY Durations
<1>3. Types'
  BY <1>1, <1>2 DEF Offer, FInv, Types, EnvOK, server, options, streamVars
<1>4. OneView' /\ AbsentFirst' /\ InSight' /\ told' = mem' /\ ExitSaysWhatWasSeen'
  BY <1>1 DEF Offer, FInv, OneView, AbsentFirst, InSight, ExitSaysWhatWasSeen, server, options,
     streamVars
<1>5. Dropped'
  <2> SUFFICES ASSUME told # last, Blamed(last)
               PROVE  Dropped'
    BY DEF Dropped, Offer, streamVars, Blamed
  <2>1. IF sinceEnv < WatchHeartbeat THEN silent < MinInterval + sinceEnv
        ELSE silent < MinInterval + WatchHeartbeat + Debounce
    BY DEF FInv, Dropped, Offer
  <2>2. CASE changed \/ sinceEnv >= WatchHeartbeat
    <3>1. env' # NoEnv /\ lag' = 0 /\ silent' = silent
      BY <1>1, <2>2 DEF Offer, streamVars
    <3>2. silent < MinInterval + WatchHeartbeat + Debounce + 0
      BY <2>1, Durations DEF FInv, Types
    <3> QED BY <3>1, <3>2 DEF Dropped
  <2>3. CASE ~(changed \/ sinceEnv >= WatchHeartbeat)
    <3>1. sinceEnv < WatchHeartbeat
      BY <2>3, Durations DEF FInv, Types
    <3>2. env' = NoEnv /\ sinceEnv' = sinceEnv /\ silent' = silent
      BY <2>3 DEF Offer, streamVars
    <3> QED BY <2>1, <3>1, <3>2 DEF Dropped
  <2> QED BY <2>2, <2>3
<1> QED BY <1>3, <1>4, <1>5 DEF FInv

\* A frame that is not dropped leaves the renderer having printed what it remembers,
\* and that is the view it was given.
LEMMA UpdateTells ==
    ASSUME Types, told = mem, NEW v \in Views, v.kind = "absent" => v = Absent /\ mem = Absent,
           Update(v)
    PROVE  /\ told' = mem' /\ mem' \in Views /\ first' \in BOOLEAN /\ silent' \in 0 .. Horizon
           /\ told' = v \/ (~first /\ silent < MinInterval /\ silent' = silent /\ told' = told)
           /\ mem' = v \/ mem' = mem
<1>1. 0 \in 0 .. Horizon
  BY Durations
<1>2. CASE ~first /\ silent < MinInterval /\ UNCHANGED streamVars
  BY <1>2 DEF streamVars, Types
<1>3. CASE /\ mem' = IF v.kind = "absent" THEN mem ELSE v
           /\ \E says \in BOOLEAN :
                /\ Renders(v, says)
                /\ IF says \/ first THEN Write(v, says)
                   ELSE IF silent >= RenderHeartbeat /\ Beats(v) THEN Write(v, TRUE)
                   ELSE Quiet
  <2>1. mem' = v
    BY <1>3
  <2>2. PICK says \in BOOLEAN :
          /\ Renders(v, says)
          /\ IF says \/ first THEN Write(v, says)
             ELSE IF silent >= RenderHeartbeat /\ Beats(v) THEN Write(v, TRUE)
             ELSE Quiet
    BY <1>3
  <2>3. ~says => v = mem
    <3>1. renderer = "plain" \/ renderer = "tty" \/ renderer = "json"
      BY FollowAssumption DEF Types
    <3>2. CASE renderer = "plain"
      BY <2>2, <3>2 DEF Renders
    <3>3. CASE renderer = "tty"
      BY <2>2, <3>3 DEF Renders
    <3>4. CASE renderer = "json"
      BY <2>2, <3>4 DEF Renders
    <3> QED BY <3>1, <3>2, <3>3, <3>4
  <2>4. CASE Write(v, says) \/ Write(v, TRUE)
    <3>1. told' = v
      BY <2>3, <2>4 DEF Write
    <3>2. first' = FALSE /\ silent' = 0
      BY <2>4 DEF Write
    <3> QED BY <1>1, <2>1, <3>1, <3>2
  <2>5. CASE ~says /\ Quiet
    BY <2>1, <2>3, <2>5 DEF Quiet, Types
  <2> QED BY <2>2, <2>4, <2>5
<1> QED BY <1>2, <1>3 DEF Update

\* An envelope is handled.
LEMMA HandleFInv ==
    ASSUME FInv, Handle
    PROVE  FInv'
<1> DEFINE v == ViewOf(env, env.idle)
<1>1. /\ v \in Views /\ v # NoView /\ env # NoEnv
      /\ env.kind \in {"absent", "building", "ready"} /\ env.idle \in 0 .. StallAfter + 1
  BY TheOffer DEF FInv, Handle
<1>2. v.kind = "absent" => v = Absent /\ mem = Absent
  <2>1. v.kind = "absent" => env.kind = "absent"
    BY AbsentViewOf
  <2>2. env.kind = "absent" => mem = Absent
    BY DEF FInv, AbsentFirst
  <2>3. \A u \in Views : u.kind = "absent" => u = Absent
    BY DEF Views, Worlds, View
  <2> QED BY <1>1, <2>1, <2>2, <2>3
<1> HIDE DEF v
<1>3. /\ pc \in {"follow", "once"} /\ last' = v /\ Update(v)
      /\ IF v.kind = "ready" THEN pc' = "exited" /\ exit' = 0
         ELSE IF ~blocking THEN pc' = "exited" /\ exit' = FinishCode(v)
         ELSE UNCHANGED <<pc, exit>>
      /\ behind' = IF told' = Now THEN 0 ELSE behind
      /\ env' = NoEnv /\ lag' = 0
      /\ UNCHANGED <<renderer, blocking, world, cache, idle, phase, due, changed, sinceEnv>>
  BY DEF Handle, v, server, options
<1>4. /\ told' = mem' /\ mem' \in Views /\ first' \in BOOLEAN /\ silent' \in 0 .. Horizon
      /\ told' = v \/ (~first /\ silent < MinInterval /\ silent' = silent /\ told' = told)
      /\ mem' = v \/ mem' = mem
  BY <1>1, <1>2, <1>3, UpdateTells DEF FInv
<1>5. /\ FinishCode(v) \in {0, 2, 4}
      /\ FinishCode(v) = 0 /\ blocking => v.kind = "ready"
      /\ FinishCode(v) = 2 => Blamed(v)
      /\ FinishCode(v) = 0 => ~Blamed(v) /\ v # NoView
  BY <1>1, FinishCodeSays DEF FInv, Types
<1>6. Types'
  <2>1. 0 \in 0 .. Lag /\ 0 \in 0 .. Horizon
    BY Durations
  <2> QED BY <1>1, <1>3, <1>4, <1>5, <2>1 DEF FInv, Types, EnvOK, Views, Worlds
<1>7. OneView' /\ InSight' /\ told' = mem'
  BY <1>3, <1>4 DEF FInv, OneView, InSight
<1>8. AbsentFirst'
  <2>1. NoEnv.kind # "absent"
    BY DEF NoEnv
  <2>2. ASSUME cache.kind = "absent" PROVE mem' = Absent
    <3>1. v.kind = "absent" /\ mem = Absent
      BY <1>1, <2>2, AbsentViewOf DEF v, FInv, AbsentFirst
    <3> QED BY <1>2, <1>4, <3>1
  <2> QED BY <1>3, <2>1, <2>2 DEF AbsentFirst
<1>9. Dropped'
  <2> SUFFICES ASSUME told' # last', pc' = "follow"
               PROVE  Dropped'
    BY DEF Dropped
  <2>1. silent' < MinInterval
    BY <1>3, <1>4
  <2>3. /\ silent' \in Nat /\ sinceEnv' \in Nat /\ phase' \in Nat
    BY <1>6, Durations DEF Types
  <2>4. /\ silent' < MinInterval + sinceEnv'
        /\ silent' < MinInterval + WatchHeartbeat + Debounce
        /\ silent' < MinInterval + WatchHeartbeat + phase'
    <3>1. \A s, m, n, w, d, p \in Nat :
            s < m => s < m + n /\ s < m + w + d /\ s < m + w + p
      OBVIOUS
    <3> QED BY <2>1, <2>3, <3>1, Durations
  <2> QED BY <1>3, <2>4 DEF Dropped
<1>10. ExitSaysWhatWasSeen'
  <2>1. CASE v.kind = "ready"
    BY <1>1, <1>3, <2>1 DEF ExitSaysWhatWasSeen, Blamed
  <2>2. CASE v.kind # "ready" /\ ~blocking
    <3>1. first
      BY <1>3, <2>2 DEF FInv, OneView
    <3>2. told' = last'
      BY <1>3, <1>4, <3>1
    <3> QED BY <1>3, <1>5, <2>2, <3>2 DEF ExitSaysWhatWasSeen, Blamed
  <2>3. CASE v.kind # "ready" /\ blocking
    BY <1>3, <2>3 DEF ExitSaysWhatWasSeen
  <2> QED BY <2>1, <2>2, <2>3
<1> QED BY <1>6, <1>7, <1>8, <1>9, <1>10 DEF FInv

\* A frame cannot be written.
LEMMA HandleFailsFInv ==
    ASSUME FInv, HandleFails
    PROVE  FInv'
<1> DEFINE v == ViewOf(env, env.idle)
<1>1. v \in Views
  BY TheOffer DEF FInv, HandleFails
<1> HIDE DEF v
<1>2. /\ last' = v /\ pc' = "exited" /\ exit' = 4 /\ env' = NoEnv /\ lag' = 0
      /\ UNCHANGED <<renderer, blocking, world, cache, idle, phase, due, changed, sinceEnv,
                     first, silent, mem, told, behind>>
  BY DEF HandleFails, v, server, options, streamVars
<1>3. 0 \in 0 .. Lag /\ NoEnv.kind # "absent"
  BY Durations DEF NoEnv
<1>4. Types'
  BY <1>1, <1>2, <1>3 DEF FInv, Types, EnvOK, Views, Worlds
<1>5. OneView' /\ AbsentFirst' /\ InSight' /\ told' = mem' /\ Dropped' /\ ExitSaysWhatWasSeen'
  BY <1>2, <1>3 DEF FInv, OneView, AbsentFirst, InSight, Dropped, ExitSaysWhatWasSeen
<1> QED BY <1>4, <1>5 DEF FInv

\* The wait ends without the cluster.
LEMMA GiveUpFInv ==
    ASSUME FInv, GiveUp
    PROVE  FInv'
<1>1. /\ FinishCode(last) \in {0, 2, 4}
      /\ FinishCode(last) = 0 /\ blocking => last.kind = "ready"
      /\ FinishCode(last) = 2 => Blamed(last)
      /\ FinishCode(last) = 0 => ~Blamed(last) /\ last # NoView
  BY FinishCodeSays DEF FInv, Types
<1>2. /\ pc \in {"follow", "once"} /\ pc' = "exited" /\ exit' = FinishCode(last)
      /\ UNCHANGED <<renderer, blocking, world, cache, idle, phase, due, changed, sinceEnv, env, lag,
                     last, first, silent, mem, told, behind>>
  BY DEF GiveUp, server, options, clockVars, streamVars
<1>3. Types'
  BY <1>1, <1>2 DEF FInv, Types, EnvOK, Views, Worlds
<1>4. OneView' /\ AbsentFirst' /\ InSight' /\ told' = mem' /\ Dropped'
  BY <1>2 DEF FInv, OneView, AbsentFirst, InSight, Dropped
<1>5. ASSUME told # last, Blamed(last)
      PROVE  blocking /\ silent < MinInterval + WatchHeartbeat + Debounce + Lag
  <2>1. last # NoView
    BY <1>5 DEF Blamed, NoView, View
  <2>2. pc = "follow" /\ blocking
    BY <1>2, <2>1 DEF FInv, OneView
  <2>3. IF env # NoEnv THEN silent < MinInterval + WatchHeartbeat + Debounce + lag
        ELSE IF sinceEnv < WatchHeartbeat THEN silent < MinInterval + sinceEnv
        ELSE IF due THEN silent < MinInterval + WatchHeartbeat + Debounce
        ELSE silent < MinInterval + WatchHeartbeat + phase
    BY <1>5, <2>2 DEF FInv, Dropped
  <2>4. /\ silent \in 0 .. Horizon /\ sinceEnv \in 0 .. WatchHeartbeat /\ lag \in 0 .. Lag
        /\ phase \in 0 .. Debounce - 1
    BY DEF FInv, Types
  <2> QED BY <2>2, <2>3, <2>4, Durations
<1>6. ExitSaysWhatWasSeen'
  BY <1>1, <1>2, <1>5 DEF ExitSaysWhatWasSeen, Blamed
<1> QED BY <1>3, <1>4, <1>6 DEF FInv

\* FInv /\ [Next]_vars => FInv'.
LEMMA NextFInv == FInv /\ [Next]_vars => FInv'
<1> SUFFICES ASSUME FInv, [Next]_vars PROVE FInv'
  OBVIOUS
<1>1. \A k \in {"building", "ready"}, t \in Texts : View(k, t) \in Worlds /\ View(k, t).kind = k
  BY DEF Worlds, View
<1>2. world.kind = "building" => world.text \in Texts
  BY DEF FInv, Types, Worlds, View, Absent, Unseen
<1>3. world.kind = "ready" => world.text \in Texts
  BY DEF FInv, Types, Worlds, View, Absent, Unseen
<1>4. CASE Appear \/ Progress
  <2>1. PICK t \in Texts : Become(View("building", t))
    BY <1>4 DEF Appear, Progress
  <2> QED BY <1>1, <2>1, BecomeFInv
<1>5. CASE Finish
  <2>1. Become(View("ready", world.text)) /\ world.text \in Texts
    BY <1>2, <1>5 DEF Finish
  <2> QED BY <1>1, <2>1, BecomeFInv
<1>6. CASE Relapse
  <2>1. Become(View("building", world.text)) /\ world.text \in Texts
    BY <1>3, <1>6 DEF Relapse
  <2> QED BY <1>1, <2>1, BecomeFInv
<1>7. CASE UNCHANGED vars
  <2>1. Types'
    BY <1>7 DEF vars, FInv, Types, EnvOK, Views, Worlds
  <2>2. OneView' /\ AbsentFirst' /\ InSight' /\ told' = mem' /\ Dropped' /\ ExitSaysWhatWasSeen'
    BY <1>7 DEF vars, FInv, OneView, AbsentFirst, InSight, Dropped, ExitSaysWhatWasSeen, Blamed
  <2> QED BY <2>1, <2>2 DEF FInv
<1> QED
  BY <1>4, <1>5, <1>6, <1>7, LoseSightFInv, MixFInv, ElsewhereFInv, TickFInv, StartFInv, OfferFInv, HandleFInv,
     HandleFailsFInv, GiveUpFInv DEF Next

\* FInv is an invariant.
LEMMA FollowInvariant == Spec => []FInv
BY InitFInv, NextFInv, PTL DEF Spec

\* Every variable is of its type for any six durations: no envelope waits for longer than
\* Lag, and no exit code but 0, 2 and 4 comes out of a run (stream.go:60-91, 157-175).
THEOREM FollowTypeOK == Spec => []TypeOK
<1>1. FInv => TypeOK
  BY DEF FInv, Types, EnvOK, TypeOK
<1> QED BY <1>1, FollowInvariant, PTL

\* The exit code speaks for the last view, and what it speaks of has been printed
\* unless the rate limit dropped it and no heartbeat has been drawn since, for any
\* six durations, renderer and timeout (stream.go:87-91, 157-172).
THEOREM FollowExitSaysWhatWasSeen == Spec => []ExitSaysWhatWasSeen
<1>1. FInv => ExitSaysWhatWasSeen
  BY DEF FInv
<1> QED BY <1>1, FollowInvariant, PTL

-----------------------------------------------------------------------------
(***************************************************************************)
(* How late and how silent a run can be.  Both bounds need to know how the *)
(* offers lie against the debounce ticks, and the first what the rate      *)
(* limit can have dropped: a frame it drops is less than MinInterval       *)
(* younger than the one before it, which was itself at most Lag behind a   *)
(* tick.                                                                   *)
(***************************************************************************)

Whole(m) == \E k \in Nat : m = k * Debounce

\* An offer is made at a tick, the last one lies a whole number of ticks back,
\* and the one that falls due as a heartbeat is due at a tick.
Aligned ==
    /\ pc = "start" => phase = 0 /\ sinceEnv = 0 /\ silent = 0 /\ behind = 0 /\ env = NoEnv /\ ~due
    /\ pc = "follow" =>
          /\ env # NoEnv => ~due /\ lag = phase /\ sinceEnv = phase
          /\ due => phase = 0
          /\ Whole(WatchHeartbeat + phase - sinceEnv)
          /\ sinceEnv = WatchHeartbeat /\ env = NoEnv => due

\* What is on offer is what the cache shows, or that has changed since.
Fresh ==
    /\ told = Now => behind = 0
    /\ pc = "follow" /\ env # NoEnv => env = Envelope \/ behind <= lag

\* A frame young enough for the rate limit was printed l after a tick, and what it
\* left unsaid has been the case for no longer than since that tick.
Recent ==
    pc = "follow" /\ ~first /\ silent < MinInterval =>
        \E l \in 0 .. Lag :
            /\ silent + l = phase \/ silent + l = phase + Debounce
            /\ told # Now => behind <= silent + l

\* What is not the case is printed for one tick more than the offers are apart.
Late ==
    pc = "follow" /\ told # Now =>
        IF env = NoEnv THEN behind <= Debounce + sinceEnv
                       ELSE behind <= Debounce + WatchHeartbeat + lag

\* A run that has something to say is silent until the offer after its heartbeat.
Heard ==
    pc = "follow" /\ (renderer = "plain" => told.kind # "absent") =>
        IF env = NoEnv THEN silent <= RenderHeartbeat + sinceEnv
                       ELSE silent <= RenderHeartbeat + WatchHeartbeat + lag

Timely == Aligned /\ Fresh /\ Recent /\ Late /\ Heard

\* What the intervals are to each other.
LEMMA Intervals ==
    /\ MinInterval <= Debounce /\ MinInterval <= RenderHeartbeat
    /\ Whole(WatchHeartbeat) /\ Debounce <= WatchHeartbeat /\ Lag < Debounce
    /\ RenderHeartbeat < Horizon
<1>1. PICK n \in 1 .. WatchHeartbeat : WatchHeartbeat = n * Debounce
  BY IntervalsAssumption
<1>2. n \in Nat /\ n >= 1
  BY <1>1, Durations
<1>3. \A k, d \in Nat : k >= 1 => d <= k * d
  <2>1. \A k, d \in Nat : k >= 1 => (k - 1) * d >= 0 /\ k * d = (k - 1) * d + d
    BY SMTT(20)
  <2> QED BY <2>1, SMTT(20)
<1>4. Debounce <= WatchHeartbeat
  BY <1>1, <1>2, <1>3, Durations
<1>5. RenderHeartbeat < Horizon
  BY Durations DEF Horizon
<1> QED BY <1>1, <1>2, <1>4, <1>5, IntervalsAssumption, FollowAssumption DEF Whole

\* Whole numbers of debounce intervals: the next smaller one, and the smallest.
LEMMA WholeNumbers ==
    ASSUME NEW m \in Nat, Whole(m)
    PROVE  /\ m >= Debounce => Whole(m - Debounce)
           /\ m < Debounce => m = 0
<1>1. PICK k \in Nat : m = k * Debounce
  BY DEF Whole
<1>2. k = 0 => m = 0
  BY <1>1, Durations
<1>3. k # 0 => k - 1 \in Nat /\ m - Debounce = (k - 1) * Debounce /\ (k - 1) * Debounce >= 0
  <2>1. \A i, d \in Nat : i # 0 => i - 1 \in Nat /\ i * d - d = (i - 1) * d /\ (i - 1) * d >= 0
    BY SMTT(20)
  <2> QED BY <1>1, <2>1, Durations
<1>4. k # 0 => m >= Debounce
  <2>1. m - Debounce \in Int
    BY Durations
  <2> QED BY <1>3, <2>1, Durations
<1> QED BY <1>2, <1>3, <1>4, Durations DEF Whole

\* A cluster that keeps still shows the same once its age has reached its cap.
LEMMA NowOfTheCap ==
    ASSUME Types, idle' = Upto(StallAfter + 1, idle + 1), cache' = cache
    PROVE  Now' = ViewOf(cache, idle + 1)
<1>1. idle \in Nat /\ StallAfter \in Nat
  BY Durations DEF Types
<1>2. idle' > StallAfter <=> idle + 1 > StallAfter
  BY <1>1 DEF Upto
<1> QED BY <1>2 DEF Now, ViewOf

\* Init => Timely.
LEMMA InitTimely == Init => Timely
<1> SUFFICES ASSUME Init PROVE Timely
  OBVIOUS
<1>1. Aligned /\ Fresh
  BY DEF Init, Aligned, Fresh
<1>2. Recent /\ Late /\ Heard
  BY DEF Init, Recent, Late, Heard
<1> QED BY <1>1, <1>2 DEF Timely

\* A change of what the cache shows starts the delay anew.
LEMMA ShowTimely ==
    ASSUME FInv, Timely, NEW c, NEW age, Show(c, age),
           UNCHANGED <<options, clockVars, env, pc, last, streamVars, exit>>
    PROVE  Timely'
<1>1. /\ behind' = 0
      /\ UNCHANGED <<renderer, blocking, phase, due, sinceEnv, lag, env, pc, last, first, silent, mem, told>>
  BY DEF Show, options, clockVars, streamVars
<1>2. /\ phase \in Nat /\ silent \in Nat /\ sinceEnv \in Nat /\ lag \in Nat
  BY Durations DEF FInv, Types
<1>3. Aligned'
  BY <1>1 DEF Timely, Aligned, Whole
<1>4. Fresh' /\ Late'
  BY <1>1, <1>2, Durations DEF Fresh, Late
<1>5. Recent'
  <2>1. \A l \in 0 .. Lag : 0 <= silent + l
    BY <1>2, Durations
  <2> QED BY <1>1, <2>1 DEF Timely, Recent
<1>6. Heard'
  BY <1>1 DEF Timely, Heard
<1> QED BY <1>3, <1>4, <1>5, <1>6 DEF Timely

\* What another cluster does, or what is not seen, leaves all of it alone.
LEMMA ElsewhereTimely ==
    ASSUME Timely, Elsewhere \/ LoseSight \/ UNCHANGED vars
    PROVE  Timely'
<1>1. UNCHANGED <<renderer, blocking, cache, idle, phase, due, sinceEnv, lag, env, pc, last, first,
                  silent, mem, told, behind>>
  BY DEF Elsewhere, LoseSight, vars, server, options, clockVars, streamVars
<1>2. Aligned' /\ Heard'
  BY <1>1 DEF Timely, Aligned, Whole, Heard
<1>3. Fresh' /\ Late' /\ Recent'
  BY <1>1 DEF Timely, Fresh, Late, Recent, Now, Envelope
<1> QED BY <1>2, <1>3 DEF Timely

\* A run that starts is as old as its clocks.
LEMMA StartTimely ==
    ASSUME FInv, Timely, StartWatch \/ StartOnce \/ StartFails
    PROVE  Timely'
<1>1. /\ UNCHANGED <<renderer, blocking, phase, due, sinceEnv, lag, last, first, silent, mem, told, behind>>
      /\ pc = "start" /\ pc' \in {"follow", "once", "exited"} /\ first
      /\ pc' = "follow" => env' = env
  BY DEF StartWatch, StartOnce, StartFails, FInv, OneView, options, clockVars, streamVars
<1>2. phase = 0 /\ sinceEnv = 0 /\ silent = 0 /\ behind = 0 /\ env = NoEnv /\ ~due
  BY <1>1 DEF Timely, Aligned
<1>3. Aligned'
  <2>1. WatchHeartbeat + 0 - 0 = WatchHeartbeat /\ 0 # WatchHeartbeat
    BY Durations
  <2>2. Whole(WatchHeartbeat + phase' - sinceEnv')
    BY <1>1, <1>2, <2>1, Intervals
  <2> QED BY <1>1, <1>2, <2>1, <2>2 DEF Aligned, Whole
<1>4. Fresh' /\ Recent' /\ Late' /\ Heard'
  BY <1>1, <1>2, Durations DEF Fresh, Recent, Late, Heard
<1> QED BY <1>3, <1>4 DEF Timely

\* A unit of time lengthens every delay by one, and none that is at its bound.
LEMMA TickTimely ==
    ASSUME FInv, Timely, Tick
    PROVE  Timely'
<1>1. /\ phase \in 0 .. Debounce - 1 /\ sinceEnv \in 0 .. WatchHeartbeat /\ lag \in 0 .. Lag
      /\ silent \in 0 .. Horizon /\ behind \in 0 .. Horizon /\ idle \in 0 .. StallAfter + 1
  BY DEF FInv, Types
<1>2. /\ UNCHANGED <<renderer, blocking, cache, pc, last, first, mem, told>>
      /\ ~due /\ pc # "start" /\ (due' <=> pc = "follow" /\ phase' = 0)
      /\ silent' = Upto(Horizon, silent + 1) /\ sinceEnv' = Upto(WatchHeartbeat, sinceEnv + 1)
      /\ env # NoEnv => lag < Lag /\ lag' = lag + 1
      /\ env = NoEnv => env' = NoEnv
      /\ idle' = Upto(StallAfter + 1, idle + 1)
  BY DEF Tick, options
<1>3. phase' = IF phase = Debounce - 1 THEN 0 ELSE phase + 1
  BY <1>1, Durations DEF Tick
<1>4. silent' <= silent + 1 /\ (silent < MinInterval => silent' = silent + 1)
  BY <1>1, <1>2, Durations, Intervals DEF Upto
<1>5. sinceEnv' <= sinceEnv + 1 /\ (sinceEnv < WatchHeartbeat => sinceEnv' = sinceEnv + 1)
  BY <1>1, <1>2, Durations DEF Upto
<1>6. env # NoEnv => env' # NoEnv /\ env' = [env EXCEPT !.idle = Upto(StallAfter + 1, env.idle + 1)]
  <2>1. ASSUME env # NoEnv PROVE env' # NoEnv
    <3>1. env' = [env EXCEPT !.idle = Upto(StallAfter + 1, @ + 1)]
      BY <2>1 DEF Tick
    <3>2. env.kind \in {"absent", "building", "ready"}
      BY <2>1, TheOffer DEF FInv
    <3>3. env' = NoEnv => env'.kind = NoEnv.kind
      OBVIOUS
    <3>4. env \in [kind : {"absent", "building", "ready"}, text : Texts \cup {0}, idle : 0 .. StallAfter + 1]
      BY <2>1 DEF FInv, Types, EnvOK
    <3>5. env'.kind = env.kind
      BY <3>1, <3>4
    <3> QED BY <3>2, <3>3, <3>5 DEF NoEnv
  <2> QED BY <2>1 DEF Tick
<1>7. Now' = ViewOf(cache, idle + 1)
  BY <1>2, NowOfTheCap DEF FInv
<1>8. /\ behind' <= behind + 1 /\ behind' \in Nat
      /\ told = Now \/ Now' # Now => behind' = 0
  BY <1>1, <1>7, Durations DEF Tick, Upto
<1>9. CASE pc = "follow"
  <2>1. env = NoEnv => sinceEnv < WatchHeartbeat
    <3>1. env = NoEnv => sinceEnv # WatchHeartbeat
      BY <1>2, <1>9 DEF Timely, Aligned
    <3> QED BY <1>1, <3>1, Durations
  <2>2. env # NoEnv => /\ lag = phase /\ sinceEnv = phase /\ phase < Debounce - 1
                       /\ sinceEnv < WatchHeartbeat
    <3>1. env # NoEnv => lag = phase /\ sinceEnv = phase
      BY <1>9 DEF Timely, Aligned
    <3> QED BY <1>1, <1>2, <3>1, Durations, Intervals
  <2>3. sinceEnv' = sinceEnv + 1
    BY <1>5, <2>1, <2>2
  <2>4. Whole(WatchHeartbeat + phase' - sinceEnv')
    <3> DEFINE m == WatchHeartbeat + phase - sinceEnv
    <3>1. m \in Nat /\ Whole(m)
      BY <1>1, <1>9, Durations DEF Timely, Aligned
    <3>2. CASE phase # Debounce - 1
      <4>1. WatchHeartbeat + phase' - sinceEnv' = m
        BY <1>1, <1>3, <2>3, <3>2, Durations
      <4> QED BY <3>1, <4>1
    <3>3. CASE phase = Debounce - 1
      <4>1. WatchHeartbeat + phase' - sinceEnv' = m - Debounce /\ m >= Debounce
        BY <1>1, <1>3, <2>1, <2>2, <2>3, <3>3, Durations
      <4> QED BY <3>1, <4>1, WholeNumbers
    <3> QED BY <3>2, <3>3
  <2>5. sinceEnv' = WatchHeartbeat => due'
    <3> SUFFICES ASSUME sinceEnv' = WatchHeartbeat PROVE phase' = 0
      BY <1>2, <1>9
    <3>1. WatchHeartbeat + phase' - sinceEnv' = phase' /\ phase' \in Nat /\ phase' < Debounce
      BY <1>1, <1>3, Durations
    <3> QED BY <2>4, <3>1, WholeNumbers
  <2>6. Aligned'
    <3>1. env' # NoEnv => ~due' /\ lag' = phase' /\ sinceEnv' = phase'
      BY <1>1, <1>2, <1>3, <2>2, <2>3, Durations
    <3>2. pc' = "follow" /\ pc' # "start"
      BY <1>2, <1>9
    <3> QED BY <1>2, <2>4, <2>5, <3>1, <3>2 DEF Aligned, Whole
  <2>7. Fresh'
    <3>1. told' = Now' => behind' = 0
      BY <1>2, <1>8
    <3>2. ASSUME env' # NoEnv PROVE env' = Envelope' \/ behind' <= lag'
      <4>1. env # NoEnv /\ lag' = lag + 1
        BY <1>2, <3>2
      <4>2. CASE env = Envelope
        <5>1. env' = [kind |-> cache.kind, text |-> cache.text, idle |-> Upto(StallAfter + 1, idle + 1)]
          BY <1>6, <4>1, <4>2 DEF Envelope
        <5> QED BY <1>2, <5>1 DEF Envelope
      <4>3. CASE behind <= lag
        BY <1>1, <1>8, <4>1, <4>3, Durations
      <4> QED BY <1>9, <4>1, <4>2, <4>3 DEF Timely, Fresh
    <3> QED BY <3>1, <3>2 DEF Fresh
  <2>8. Recent'
    <3> SUFFICES ASSUME ~first, silent' < MinInterval
                 PROVE  \E l \in 0 .. Lag :
                           /\ silent' + l = phase' \/ silent' + l = phase' + Debounce
                           /\ told' # Now' => behind' <= silent' + l
      BY <1>2 DEF Recent
    <3>1. silent < MinInterval /\ silent' = silent + 1
      <4>1. silent' = silent + 1 \/ silent' = Horizon
        BY <1>2 DEF Upto
      <4> QED BY <1>1, <1>4, <4>1, Durations, Intervals
    <3>2. PICK l \in 0 .. Lag :
             /\ silent + l = phase \/ silent + l = phase + Debounce
             /\ told # Now => behind <= silent + l
      BY <1>9, <3>1 DEF Timely, Recent
    <3>3. silent' + l = phase' \/ silent' + l = phase' + Debounce
      BY <1>1, <1>3, <3>1, <3>2, Durations, Intervals
    <3>4. ASSUME told' # Now' PROVE behind' <= silent' + l
      <4>1. CASE behind' = 0
        BY <1>1, <3>1, <4>1, Durations
      <4>2. CASE told # Now
        BY <1>1, <1>8, <3>1, <3>2, <4>2, Durations
      <4> QED BY <1>8, <4>1, <4>2
    <3> QED BY <3>3, <3>4
  <2>9. Late'
    <3> SUFFICES ASSUME told' # Now'
                 PROVE  IF env' = NoEnv THEN behind' <= Debounce + sinceEnv'
                                        ELSE behind' <= Debounce + WatchHeartbeat + lag'
      BY DEF Late
    <3>1. lag' \in Nat /\ sinceEnv' \in Nat
      BY <1>1, <1>2, <2>3, Durations DEF Tick
    <3>2. CASE behind' = 0
      <4>1. \A d, w, m, n \in Nat : 0 <= d + m /\ 0 <= d + w + n
        OBVIOUS
      <4>2. 0 <= Debounce + sinceEnv' /\ 0 <= Debounce + WatchHeartbeat + lag'
        BY <3>1, <4>1, Durations
      <4> QED BY <3>2, <4>2
    <3>3. CASE told # Now
      BY <1>1, <1>2, <1>6, <1>8, <1>9, <2>3, <3>3, Durations DEF Timely, Late
    <3> QED BY <1>8, <3>2, <3>3
  <2>10. Heard'
    <3> SUFFICES ASSUME renderer = "plain" => told.kind # "absent"
                 PROVE  IF env' = NoEnv THEN silent' <= RenderHeartbeat + sinceEnv'
                                        ELSE silent' <= RenderHeartbeat + WatchHeartbeat + lag'
      BY <1>2 DEF Heard
    <3>1. IF env = NoEnv THEN silent <= RenderHeartbeat + sinceEnv
                         ELSE silent <= RenderHeartbeat + WatchHeartbeat + lag
      BY <1>9 DEF Timely, Heard
    <3>2. silent' \in Nat
      BY <1>1, <1>2, Durations DEF Upto
    <3> QED BY <1>1, <1>2, <1>4, <1>6, <2>3, <3>1, <3>2, Durations
  <2> QED BY <2>6, <2>7, <2>8, <2>9, <2>10 DEF Timely
<1>10. CASE pc # "follow"
  <2>1. Aligned' /\ Recent' /\ Late' /\ Heard'
    BY <1>2, <1>10 DEF Aligned, Recent, Late, Heard
  <2>2. Fresh'
    BY <1>2, <1>8, <1>10 DEF Fresh
  <2> QED BY <2>1, <2>2 DEF Timely
<1> QED BY <1>9, <1>10

\* An offer is made at a tick, of what is the case.
LEMMA OfferTimely ==
    ASSUME FInv, Timely, Offer
    PROVE  Timely'
<1>1. /\ UNCHANGED <<renderer, blocking, world, cache, idle, phase, pc, last, first, silent, mem, told, behind>>
      /\ pc = "follow" /\ due /\ env = NoEnv /\ ~due'
  BY DEF Offer, server, options, streamVars
<1>2. phase = 0 /\ (told = Now => behind = 0)
  BY <1>1 DEF Timely, Aligned, Fresh
<1>3. /\ silent \in Nat /\ sinceEnv \in 0 .. WatchHeartbeat /\ behind \in Nat
  BY Durations DEF FInv, Types
<1>4. Recent'
  BY <1>1 DEF Timely, Recent, Now
<1>5. CASE changed \/ sinceEnv >= WatchHeartbeat
  <2>1. env' = Envelope /\ env' # NoEnv /\ sinceEnv' = 0 /\ lag' = 0
    BY <1>5, EnvelopeIsAnOffer DEF Offer, FInv
  <2>2. Aligned'
    <3>1. WatchHeartbeat + 0 - 0 = WatchHeartbeat
      BY Durations
    <3>2. Whole(WatchHeartbeat + phase' - sinceEnv')
      BY <1>1, <1>2, <2>1, <3>1, Intervals
    <3> QED BY <1>1, <1>2, <2>1, <3>2 DEF Aligned, Whole
  <2>3. Fresh'
    BY <1>1, <1>2, <2>1 DEF Fresh, Now, Envelope
  <2>4. Late'
    BY <1>1, <1>3, <2>1, Durations DEF Timely, Late, Now
  <2>5. Heard'
    BY <1>1, <1>3, <2>1, Durations DEF Timely, Heard
  <2> QED BY <1>4, <2>2, <2>3, <2>4, <2>5 DEF Timely
<1>6. CASE ~(changed \/ sinceEnv >= WatchHeartbeat)
  <2>1. env' = NoEnv /\ sinceEnv' = sinceEnv /\ sinceEnv' # WatchHeartbeat
    BY <1>1, <1>3, <1>6, Durations DEF Offer
  <2>2. Aligned'
    BY <1>1, <2>1 DEF Timely, Aligned, Whole
  <2>3. Fresh' /\ Late' /\ Heard'
    BY <1>1, <2>1 DEF Timely, Fresh, Late, Heard, Now
  <2> QED BY <1>4, <2>2, <2>3 DEF Timely
<1> QED BY <1>5, <1>6

\* A frame that is due for a heartbeat is written, unless it is of a ready cluster
\* or, in a plain run, of one that is not there.
LEMMA UpdateBeats ==
    ASSUME Types, NEW v \in Views, ~first, silent >= RenderHeartbeat, v.kind # "ready",
           renderer = "plain" => v.kind # "absent", Update(v)
    PROVE  silent' = 0
<1>1. ~(silent < MinInterval)
  BY Intervals, Durations DEF Types
<1>2. PICK says \in BOOLEAN :
          /\ Renders(v, says)
          /\ IF says \/ first THEN Write(v, says)
             ELSE IF silent >= RenderHeartbeat /\ Beats(v) THEN Write(v, TRUE)
             ELSE Quiet
  BY <1>1 DEF Update
<1>3. v.kind \in {"absent", "building", "stalled"}
  BY DEF Views, Worlds, View, Absent
<1>4. renderer = "plain" \/ renderer = "tty" \/ renderer = "json"
  BY FollowAssumption DEF Types
<1>5. says \/ Beats(v)
  <2>1. CASE renderer = "plain"
    BY <1>3, <2>1 DEF Beats
  <2>2. CASE renderer = "tty"
    BY <1>3, <2>2 DEF Beats
  <2>3. CASE renderer = "json"
    BY <1>2, <2>3 DEF Renders
  <2> QED BY <1>4, <2>1, <2>2, <2>3
<1> QED BY <1>2, <1>5 DEF Write

\* What is printed by then, and how late, when an offer is handled.
LEMMA HandleTimely ==
    ASSUME FInv, Timely, Handle
    PROVE  Timely'
<1> DEFINE v == ViewOf(env, env.idle)
<1>1. /\ v \in Views /\ v # NoView /\ env # NoEnv
      /\ env.kind \in {"absent", "building", "ready"} /\ env.idle \in 0 .. StallAfter + 1
  BY TheOffer DEF FInv, Handle
<1>2. v.kind = "absent" => v = Absent /\ mem = Absent
  <2>1. v.kind = "absent" => env.kind = "absent"
    BY AbsentViewOf
  <2>2. env.kind = "absent" => mem = Absent
    BY DEF FInv, AbsentFirst
  <2>3. \A u \in Views : u.kind = "absent" => u = Absent
    BY DEF Views, Worlds, View
  <2> QED BY <1>1, <2>1, <2>2, <2>3
<1>3. env = Envelope => v = Now
  BY DEF Envelope, Now, ViewOf
<1> HIDE DEF v
<1>4. /\ pc \in {"follow", "once"} /\ Update(v)
      /\ IF v.kind = "ready" THEN pc' = "exited"
         ELSE IF ~blocking THEN pc' = "exited" ELSE pc' = pc
      /\ behind' = IF told' = Now THEN 0 ELSE behind
      /\ env' = NoEnv
      /\ UNCHANGED <<renderer, blocking, world, cache, idle, phase, due, changed, sinceEnv>>
  BY DEF Handle, v, server, options
<1>5. told' = v \/ (~first /\ silent < MinInterval /\ silent' = silent /\ told' = told /\ first' = first)
  <2>1. told' = v \/ (~first /\ silent < MinInterval /\ UNCHANGED streamVars)
    BY <1>1, <1>2, <1>4, UpdateTells DEF FInv, Update
  <2> QED BY <2>1 DEF streamVars
<1>6. silent' \in Nat /\ (silent' = silent \/ silent' = 0)
  BY <1>4, Durations DEF Update, Write, Quiet, streamVars, FInv, Types
<1>7. Now' = Now
  BY <1>4 DEF Now
<1>8. /\ phase \in 0 .. Debounce - 1 /\ sinceEnv \in 0 .. WatchHeartbeat /\ lag \in 0 .. Lag
      /\ silent \in 0 .. Horizon /\ behind \in 0 .. Horizon
  BY DEF FInv, Types
<1>9. behind' \in Nat /\ behind' <= behind
  BY <1>4, <1>8, Durations
<1>10. told' = Now' => behind' = 0
  BY <1>4, <1>7
<1>11. CASE pc' = "follow"
  <2>1. /\ pc = "follow" /\ blocking /\ v.kind # "ready"
    BY <1>4, <1>11
  <2>2. ~due /\ lag = phase /\ sinceEnv = phase /\ sinceEnv # WatchHeartbeat
    <3>1. ~due /\ lag = phase /\ sinceEnv = phase
      BY <1>1, <2>1 DEF Timely, Aligned
    <3> QED BY <1>8, <3>1, Durations, Intervals
  <2>3. Aligned'
    BY <1>4, <1>11, <2>1, <2>2 DEF Timely, Aligned, Whole
  <2>4. Fresh'
    BY <1>4, <1>10 DEF Fresh
  <2>5. told' = v /\ told' # Now' => behind' <= lag
    <3>1. env = Envelope \/ behind <= lag
      BY <1>1, <2>1 DEF Timely, Fresh
    <3> QED BY <1>3, <1>7, <1>8, <1>9, <3>1
  <2>6. Recent'
    <3> SUFFICES ASSUME ~first', silent' < MinInterval
                 PROVE  \E l \in 0 .. Lag :
                           /\ silent' + l = phase' \/ silent' + l = phase' + Debounce
                           /\ told' # Now' => behind' <= silent' + l
      BY DEF Recent
    <3>1. CASE ~first /\ silent < MinInterval /\ silent' = silent /\ told' = told
      <4>1. PICK l \in 0 .. Lag :
               /\ silent + l = phase \/ silent + l = phase + Debounce
               /\ told # Now => behind <= silent + l
        BY <2>1, <3>1 DEF Timely, Recent
      <4>2. told' # Now' => behind' <= silent' + l
        BY <1>7, <1>8, <1>9, <3>1, <4>1, Durations
      <4> QED BY <1>4, <3>1, <4>1, <4>2
    <3>2. CASE told' = v /\ silent' = 0
      <4>1. silent' + lag = phase'
        BY <1>4, <1>8, <2>2, <3>2, Durations
      <4>2. told' # Now' => behind' <= silent' + lag
        BY <1>8, <2>5, <3>2, Durations
      <4> QED BY <1>8, <4>1, <4>2
    <3>3. CASE told' = v /\ silent' # 0
      <4>1. silent < MinInterval
        BY <1>6, <3>3
      <4>2. CASE first
        <5>1. PICK says \in BOOLEAN : Write(v, says)
          BY <1>4, <4>2 DEF Update
        <5> QED BY <3>3, <5>1 DEF Write
      <4>3. CASE ~first
        <5>1. ~(silent >= MinInterval)
          BY <1>8, <4>1, Durations
        <5>2. UNCHANGED streamVars
          BY <1>4, <4>3, <5>1 DEF Update
        <5> QED BY <3>1, <4>1, <4>3, <5>2 DEF streamVars
      <4> QED BY <4>2, <4>3
    <3> QED BY <1>5, <3>1, <3>2, <3>3
  <2>7. Late'
    <3> SUFFICES ASSUME told' # Now' PROVE behind' <= Debounce + sinceEnv'
      BY <1>4 DEF Late
    <3>1. CASE told' = v
      BY <1>4, <1>8, <1>9, <2>2, <2>5, <3>1, Durations
    <3>2. CASE ~first /\ silent < MinInterval /\ told' = told
      <4>1. PICK l \in 0 .. Lag :
               /\ silent + l = phase \/ silent + l = phase + Debounce
               /\ told # Now => behind <= silent + l
        BY <2>1, <3>2 DEF Timely, Recent
      <4> QED BY <1>4, <1>7, <1>8, <1>9, <2>2, <3>2, <4>1, Durations
    <3> QED BY <1>5, <3>1, <3>2
  <2>8. Heard'
    <3> SUFFICES ASSUME renderer = "plain" => told'.kind # "absent"
                 PROVE  silent' <= RenderHeartbeat + sinceEnv'
      BY <1>4 DEF Heard
    <3>1. CASE silent' = 0
      BY <1>4, <1>8, <3>1, Durations
    <3>2. CASE silent < RenderHeartbeat /\ silent' = silent
      BY <1>4, <1>8, <3>2, Durations
    <3>3. CASE silent >= RenderHeartbeat /\ silent' # 0
      <4>1. ~(silent < MinInterval)
        BY <1>8, <3>3, Durations, Intervals
      <4>2. told' = v
        BY <1>5, <4>1
      <4>3. ~first
        BY <1>4, <3>3, <4>1 DEF Update, Write
      <4> QED BY <1>1, <1>4, <2>1, <3>3, <4>2, <4>3, UpdateBeats DEF FInv
    <3> QED BY <1>6, <1>8, <3>1, <3>2, <3>3, Durations
  <2> QED BY <2>3, <2>4, <2>6, <2>7, <2>8 DEF Timely
<1>12. CASE pc' # "follow"
  <2>1. pc' # "start"
    BY <1>4, <1>12
  <2> QED BY <1>4, <1>10, <1>12, <2>1 DEF Timely, Aligned, Fresh, Recent, Late, Heard
<1> QED BY <1>11, <1>12

\* A run that ends has nothing to be late with.
LEMMA ExitTimely ==
    ASSUME Timely, HandleFails \/ GiveUp
    PROVE  Timely'
<1>1. pc' = "exited" /\ UNCHANGED <<cache, idle, told, behind>>
  BY DEF HandleFails, GiveUp, server, streamVars
<1> QED BY <1>1 DEF Timely, Aligned, Fresh, Recent, Late, Heard, Now

\* FInv /\ Timely /\ [Next]_vars => Timely'.
LEMMA NextTimely == FInv /\ Timely /\ [Next]_vars => Timely'
<1> SUFFICES ASSUME FInv, Timely, [Next]_vars PROVE Timely'
  OBVIOUS
<1>1. CASE Appear \/ Progress \/ Finish \/ Relapse \/ Mix
  <2>1. /\ \E c, age : Show(c, age)
        /\ UNCHANGED <<options, clockVars, env, pc, last, streamVars, exit>>
    BY <1>1 DEF Appear, Progress, Finish, Relapse, Mix, Become
  <2> QED BY <2>1, ShowTimely
<1> QED
  BY <1>1, ElsewhereTimely, TickTimely, StartTimely, OfferTimely, HandleTimely, ExitTimely DEF Next

\* Timely is an invariant.
LEMMA TimelyInvariant == Spec => [](FInv /\ Timely)
<1>1. Init => FInv /\ Timely
  BY InitFInv, InitTimely
<1>2. (FInv /\ Timely) /\ [Next]_vars => (FInv /\ Timely)'
  BY NextFInv, NextTimely
<1> QED BY <1>1, <1>2, PTL DEF Spec

\* What is printed is never out of date for longer than one debounce interval, one
\* heartbeat of the watch and the lag, against what the cache shows, and against the
\* cluster while every list and watch has succeeded and nothing has been deleted: for
\* any intervals that relate as the program's do, a frame the rate limit drops is made
\* good in time (stream.go:69, client.go:240).
THEOREM FollowScreenCatchesUp == Spec => []ScreenCatchesUp
<1>1. FInv /\ Timely => ScreenCatchesUp
  <2> SUFFICES ASSUME FInv, Timely, pc = "follow"
               PROVE  behind <= Debounce + WatchHeartbeat + Lag
    BY DEF ScreenCatchesUp, FInv, InSight
  <2>1. /\ sinceEnv \in 0 .. WatchHeartbeat /\ lag \in 0 .. Lag /\ behind \in 0 .. Horizon
    BY DEF FInv, Types
  <2>2. CASE told = Now
    BY <2>2, Durations DEF Timely, Fresh
  <2>3. CASE told # Now
    BY <2>1, <2>3, Durations DEF Timely, Late
  <2> QED BY <2>2, <2>3
<1> QED BY <1>1, TimelyInvariant, PTL

\* A run that waits for a cluster it has something to say of is never silent for
\* longer than the two heartbeats and the lag (stream.go:77, client.go:240).
THEOREM FollowSilenceIsBounded == Spec => []SilenceIsBounded
<1>1. FInv /\ Timely => SilenceIsBounded
  <2> SUFFICES ASSUME FInv, Timely, pc = "follow", renderer = "plain" => told.kind # "absent"
               PROVE  silent <= RenderHeartbeat + WatchHeartbeat + Lag
    BY DEF SilenceIsBounded
  <2>1. /\ sinceEnv \in 0 .. WatchHeartbeat /\ lag \in 0 .. Lag /\ silent \in 0 .. Horizon
    BY DEF FInv, Types
  <2> QED BY <2>1, Durations DEF Timely, Heard
<1> QED BY <1>1, TimelyInvariant, PTL

-----------------------------------------------------------------------------
(***************************************************************************)
(* The offers.  The source counts ticks, the run the time since the last   *)
(* offer: in a run that waits, that time is the ticks of it and the part   *)
(* of an interval since the last one.                                      *)
(***************************************************************************)

\* Dividing a whole number of intervals and a part of one.
LEMMA Quotient ==
    ASSUME NEW d \in Nat \ {0}, NEW q \in Nat, NEW r \in 0 .. d - 1
    PROVE  (q * d + r) \div d = q
<1> DEFINE x == (q * d + r) \div d
           m == (q * d + r) % d
<1>1. q * d \in Nat
  BY SMTT(20)
<1>2. x \in Int /\ m \in 0 .. d - 1 /\ q * d + r = d * x + m
  BY <1>1, SMTT(20)
<1> HIDE DEF x, m
<1>3. \A a, b \in Int : a > b => (a - b) * d >= d
  <2>1. \A n \in Nat : n * d >= 0
    BY SMTT(20)
  <2>2. \A n \in Nat : (n + 1) * d = n * d + d
    BY SMTT(20)
  <2> SUFFICES ASSUME NEW a \in Int, NEW b \in Int, a > b PROVE (a - b) * d >= d
    OBVIOUS
  <2>3. a - b - 1 \in Nat /\ (a - b - 1) + 1 = a - b
    OBVIOUS
  <2>4. (a - b) * d = (a - b - 1) * d + d /\ (a - b - 1) * d >= 0
    BY <2>1, <2>2, <2>3
  <2>5. (a - b - 1) * d \in Int
    BY <2>3, SMTT(20)
  <2> QED BY <2>4, <2>5
<1>4. \A a, b \in Int : (a - b) * d = a * d - b * d
  BY SMTT(20)
<1>5. d * x = x * d /\ x * d \in Int
  BY <1>2, SMTT(20)
<1>6. q > x => q * d - x * d >= d
  BY <1>2, <1>3, <1>4
<1>7. x > q => x * d - q * d >= d
  BY <1>2, <1>3, <1>4
<1>8. x = q
  BY <1>1, <1>2, <1>5, <1>6, <1>7
<1> QED BY <1>8 DEF x

\* The time since an offer at a tick, in ticks and a part of an interval.
LEMMA TicksSince ==
    ASSUME NEW s \in 0 .. WatchHeartbeat, NEW p \in 0 .. Debounce - 1,
           Whole(WatchHeartbeat + p - s)
    PROVE  /\ s \div Debounce \in Nat
           /\ s = (s \div Debounce) * Debounce + p
<1>1. PICK n \in Nat : WatchHeartbeat = n * Debounce
  BY Intervals DEF Whole
<1>2. PICK k \in Nat : WatchHeartbeat + p - s = k * Debounce
  BY DEF Whole
<1>3. /\ Debounce \in Nat \ {0} /\ WatchHeartbeat \in Nat /\ s \in Nat /\ p \in Nat /\ p < Debounce
  BY Durations
<1>4. (n - k) * Debounce = n * Debounce - k * Debounce
  BY <1>3, SMTT(20)
<1>5. s = (n - k) * Debounce + p
  BY <1>1, <1>2, <1>3, <1>4
<1>6. n - k \in Nat
  <2>1. ASSUME n - k < 0 PROVE FALSE
    <3>1. \A i \in Nat : (0 - 1 - i) * Debounce = 0 - Debounce - i * Debounce /\ i * Debounce >= 0
      BY <1>3, SMTT(20)
    <3>2. k - n - 1 \in Nat /\ 0 - 1 - (k - n - 1) = n - k
      BY <2>1
    <3>3. (n - k) * Debounce = 0 - Debounce - (k - n - 1) * Debounce /\ (k - n - 1) * Debounce >= 0
      BY <3>1, <3>2
    <3>4. (k - n - 1) * Debounce \in Int
      BY <1>3, <3>2, SMTT(20)
    <3> QED BY <1>3, <1>5, <3>3, <3>4
  <2> QED BY <2>1
<1>7. s \div Debounce = n - k
  BY <1>3, <1>5, <1>6, Quotient
<1> QED BY <1>5, <1>6, <1>7

\* The next tick is one more; the heartbeat is a number of ticks.
LEMMA TicksCompare ==
    ASSUME NEW i \in Nat, NEW j \in Nat, NEW p \in 0 .. Debounce - 1
    PROVE  /\ i * Debounce + p = j * Debounce + p => i = j
           /\ i * Debounce = j * Debounce + Debounce => i = j + 1
           /\ i * Debounce >= j * Debounce <=> i >= j
<1>1. Debounce \in Nat \ {0} /\ i * Debounce \in Nat /\ j * Debounce \in Nat
  BY Durations, SMTT(20)
<1>2. \A a, b \in Nat : a < b => a * Debounce + Debounce <= b * Debounce
  <2> SUFFICES ASSUME NEW a \in Nat, NEW b \in Nat, a < b
               PROVE  a * Debounce + Debounce <= b * Debounce
    OBVIOUS
  <2>1. \A c \in Nat : (a + 1 + c) * Debounce = a * Debounce + Debounce + c * Debounce
                       /\ c * Debounce \in Nat
    BY <1>1, SMTT(20)
  <2>2. b - a - 1 \in Nat /\ a + 1 + (b - a - 1) = b
    OBVIOUS
  <2>3. a * Debounce \in Nat
    BY <1>1, SMTT(20)
  <2> QED BY <1>1, <2>1, <2>2, <2>3
<1>3. i < j => i * Debounce + Debounce <= j * Debounce
  BY <1>2
<1>4. j < i => j * Debounce + Debounce <= i * Debounce
  BY <1>2
<1>5. (j + 1) * Debounce = j * Debounce + Debounce
  BY <1>1, SMTT(20)
<1>6. j + 1 < i => (j + 1) * Debounce + Debounce <= i * Debounce
  BY <1>2
<1> QED BY <1>1, <1>3, <1>4, <1>5, <1>6

\* The heartbeat in ticks.
LEMMA HeartbeatInTicks ==
    /\ WatchHeartbeat \div Debounce \in Nat
    /\ WatchHeartbeat = (WatchHeartbeat \div Debounce) * Debounce
<1>1. WatchHeartbeat \in 0 .. WatchHeartbeat /\ 0 \in 0 .. Debounce - 1
      /\ WatchHeartbeat + 0 - WatchHeartbeat = 0
  BY Durations
<1>2. 0 = 0 * Debounce
  BY Durations
<1>3. WatchHeartbeat \div Debounce \in Nat
      /\ WatchHeartbeat = (WatchHeartbeat \div Debounce) * Debounce + 0
  BY <1>1, <1>2, TicksSince DEF Whole
<1>4. (WatchHeartbeat \div Debounce) * Debounce \in Nat
  BY <1>3, Durations, SMTT(20)
<1> QED BY <1>3, <1>4

\* How a run's time since the last offer is the source's count of ticks.
LEMMA QuietIsTicks ==
    ASSUME Types, Aligned, pc = "follow"
    PROVE  /\ sinceEnv \div Debounce \in Nat
           /\ sinceEnv = (sinceEnv \div Debounce) * Debounce + phase
BY TicksSince DEF Types, Aligned

\* A tick of the run's clock is a tick of the source if the timer fires, and else nothing.
LEMMA TickOffers ==
    ASSUME FInv, Timely, FInv', Timely', Tick
    PROVE  Source!Tick \/ UNCHANGED Source!vars
<1>1. /\ UNCHANGED <<blocking, cache, changed, pc>>
      /\ ~due /\ (due' <=> pc = "follow" /\ phase' = 0) /\ pc \in {"follow", "once"}
      /\ sinceEnv' = Upto(WatchHeartbeat, sinceEnv + 1)
      /\ env = NoEnv => env' = NoEnv
  BY DEF Tick, options
<1>2. env # NoEnv => env' # NoEnv /\ View(env'.kind, env'.text) = View(env.kind, env.text)
  <2> SUFFICES ASSUME env # NoEnv
               PROVE  env' # NoEnv /\ View(env'.kind, env'.text) = View(env.kind, env.text)
    OBVIOUS
  <2>1. env \in [kind : {"absent", "building", "ready"}, text : Texts \cup {0}, idle : 0 .. StallAfter + 1]
    BY DEF FInv, Types, EnvOK
  <2>2. env' = [env EXCEPT !.idle = Upto(StallAfter + 1, @ + 1)]
    BY DEF Tick
  <2>3. env'.kind = env.kind /\ env'.text = env.text
    BY <2>1, <2>2
  <2>4. env.kind # NoEnv.kind
    BY <2>1 DEF NoEnv
  <2> QED BY <2>3, <2>4
<1>3. CASE pc = "once"
  <2>1. ~blocking
    BY <1>3 DEF FInv, OneView
  <2> QED BY <1>1, <2>1 DEF Source!vars, Source!clock, Turn
<1>4. CASE pc = "follow"
  <2>1. blocking /\ blocking' /\ pc' = "follow"
    BY <1>1, <1>4 DEF FInv, OneView
  <2>2. /\ phase \in 0 .. Debounce - 1 /\ phase' \in 0 .. Debounce - 1 /\ sinceEnv \in 0 .. WatchHeartbeat
        /\ phase' = IF phase = Debounce - 1 THEN 0 ELSE phase + 1
    BY Durations DEF FInv, Types, Tick
  <2>3. sinceEnv < WatchHeartbeat
    <3>1. CASE env = NoEnv
      <4>1. sinceEnv # WatchHeartbeat
        BY <1>1, <1>4, <3>1 DEF Timely, Aligned
      <4> QED BY <2>2, <4>1, Durations
    <3>2. CASE env # NoEnv
      <4>1. sinceEnv = phase
        BY <1>4, <3>2 DEF Timely, Aligned
      <4> QED BY <2>2, <4>1, Durations, Intervals
    <3> QED BY <3>1, <3>2
  <2>4. sinceEnv' = sinceEnv + 1
    BY <1>1, <2>2, <2>3, Durations DEF Upto
  <2> DEFINE q == sinceEnv \div Debounce
             n == sinceEnv' \div Debounce
             h == WatchHeartbeat \div Debounce
  <2>5. /\ q \in Nat /\ sinceEnv = q * Debounce + phase
        /\ n \in Nat /\ sinceEnv' = n * Debounce + phase'
        /\ h \in Nat /\ WatchHeartbeat = h * Debounce
    <3>1. q \in Nat /\ sinceEnv = q * Debounce + phase
      BY <1>4, QuietIsTicks DEF FInv, Timely
    <3>2. WatchHeartbeat' = WatchHeartbeat /\ Debounce' = Debounce
      OBVIOUS
    <3>3. Whole(WatchHeartbeat + phase' - sinceEnv') /\ sinceEnv' \in 0 .. WatchHeartbeat
      BY <2>1 DEF FInv, Types, Timely, Aligned, Whole
    <3>4. n \in Nat /\ sinceEnv' = n * Debounce + phase'
      BY <2>2, <3>3, TicksSince
    <3> QED BY <3>1, <3>4, HeartbeatInTicks
  <2> HIDE DEF q, n, h
  <2>6. CASE phase # Debounce - 1
    <3>1. phase' # 0 /\ phase' = phase + 1
      BY <2>2, <2>6
    <3>2. n = q
      <4>1. n * Debounce \in Int /\ q * Debounce \in Int
        BY <2>5, Durations, SMTT(20)
      <4>2. n * Debounce + phase = q * Debounce + phase
        BY <2>2, <2>4, <2>5, <3>1, <4>1
      <4> QED BY <2>2, <2>5, <4>2, TicksCompare
    <3>3. ~due' /\ Turn' = Turn
      BY <1>1, <1>2, <2>1, <3>1 DEF Turn
    <3>4. Turn = "sent" => env # NoEnv
      BY DEF Turn
    <3> QED BY <1>1, <1>2, <2>1, <3>2, <3>3, <3>4 DEF Source!vars, Source!clock, q, n
  <2>7. CASE phase = Debounce - 1
    <3>1. phase' = 0 /\ due'
      BY <1>1, <1>4, <2>2, <2>7
    <3>2. env = NoEnv
      <4>1. env # NoEnv => lag = phase /\ lag < Lag
        BY <1>4 DEF Timely, Aligned, Tick
      <4>2. lag \in 0 .. Lag
        BY DEF FInv, Types
      <4> QED BY <2>7, <4>1, <4>2, Durations, Intervals
    <3>3. n = q + 1
      <4>1. n * Debounce \in Int /\ q * Debounce \in Int
        BY <2>5, Durations, SMTT(20)
      <4>2. n * Debounce = q * Debounce + Debounce
        BY <2>2, <2>4, <2>5, <2>7, <3>1, <4>1, Durations
      <4> QED BY <2>2, <2>5, <4>2, TicksCompare
    <3>4. q < h
      <4>1. ~(q * Debounce >= h * Debounce)
        <5>1. q * Debounce \in Int
          BY <2>5, Durations, SMTT(20)
        <5> QED BY <2>2, <2>3, <2>5, <5>1
      <4>2. ~(q >= h)
        BY <2>2, <2>5, <4>1, TicksCompare
      <4> QED BY <2>5, <4>2
    <3>5. Turn = "idle" /\ Turn' = "idle"
      BY <1>1, <1>4, <2>1, <3>2 DEF Turn
    <3> QED BY <1>1, <2>1, <2>5, <3>1, <3>3, <3>4, <3>5 DEF Source!Tick, Source!clock, Source!Upto, q, n, h
  <2> QED BY <2>6, <2>7
<1> QED BY <1>1, <1>3, <1>4

\* A look at a tick offers what there is, or waits for the heartbeat.
LEMMA LookOffers ==
    ASSUME FInv, Timely, Offer
    PROVE  Source!Look
<1>1. /\ UNCHANGED <<blocking, cache, phase, pc>> /\ blocking /\ blocking'
      /\ pc = "follow" /\ due /\ env = NoEnv /\ ~due'
  BY DEF Offer, server, options, FInv, OneView
<1> DEFINE q == sinceEnv \div Debounce
           h == WatchHeartbeat \div Debounce
<1>2. /\ q \in Nat /\ sinceEnv = q * Debounce + phase
      /\ h \in Nat /\ WatchHeartbeat = h * Debounce
  BY <1>1, QuietIsTicks, HeartbeatInTicks DEF FInv, Timely
<1>3. phase = 0
  BY <1>1 DEF Timely, Aligned
<1> HIDE DEF q, h
<1>4. sinceEnv >= WatchHeartbeat <=> q >= h
  <2>1. q * Debounce \in Int
    BY <1>2, Durations, SMTT(20)
  <2>2. sinceEnv = q * Debounce
    BY <1>2, <1>3, <2>1
  <2>3. 0 \in 0 .. Debounce - 1
    BY Durations
  <2> QED BY <1>2, <2>2, <2>3, TicksCompare
<1>5. Turn = "idle"
  BY <1>1 DEF Turn
<1>6. CASE changed \/ sinceEnv >= WatchHeartbeat
  <2>1. env' = Envelope /\ Envelope # NoEnv /\ ~changed' /\ sinceEnv' = 0
    BY <1>6, EnvelopeIsAnOffer DEF Offer, FInv
  <2>2. View(env'.kind, env'.text) = cache
    BY <2>1 DEF Envelope, FInv, Types, Worlds, View, Absent
  <2>3. Turn' = "sent"
    BY <1>1, <2>1 DEF Turn
  <2>4. 0 \div Debounce = 0
    <3>1. 0 * Debounce + 0 = 0 /\ 0 \in 0 .. Debounce - 1
      BY Durations
    <3> QED BY <3>1, Quotient, Durations
  <2> QED BY <1>1, <1>4, <1>5, <1>6, <2>1, <2>2, <2>3, <2>4 DEF Source!Look, Source!clock, q, h, Offer
<1>7. CASE ~(changed \/ sinceEnv >= WatchHeartbeat)
  <2>1. env' = NoEnv /\ changed' = changed /\ sinceEnv' = sinceEnv
    BY <1>7, <1>1 DEF Offer
  <2>2. Turn' = "idle"
    BY <1>1, <2>1 DEF Turn
  <2> QED BY <1>1, <1>2, <1>4, <1>5, <1>7, <2>1, <2>2 DEF Source!Look, Source!clock, Source!Upto, q, h, Offer, FInv, Types
<1> QED BY <1>6, <1>7

\* An offer that is handled is taken, or the run ends and no more are made.
LEMMA HandleOffers ==
    ASSUME FInv, Timely, Handle \/ HandleFails \/ GiveUp
    PROVE  Source!Take \/ Source!Close \/ UNCHANGED Source!vars
<1>1. /\ UNCHANGED <<blocking, cache, changed, sinceEnv, due>>
      /\ pc \in {"follow", "once"}
      /\ pc' = "exited" \/ (pc' = pc /\ env' = NoEnv /\ env # NoEnv /\ blocking)
  BY DEF Handle, HandleFails, GiveUp, server, options, clockVars, FInv, OneView
<1>2. CASE ~blocking
  BY <1>1, <1>2 DEF Source!vars, Source!clock, Turn
<1>3. CASE blocking /\ pc' = "exited"
  <2>1. Turn # "off" /\ Turn' = "closed"
    BY <1>1, <1>3 DEF Turn
  <2>2. changed \in BOOLEAN
    BY DEF FInv, Types
  <2> QED BY <1>1, <1>3, <2>1, <2>2 DEF Source!Close, Source!clock
<1>4. CASE blocking /\ pc' = pc /\ env' = NoEnv /\ env # NoEnv
  <2>1. pc = "follow"
    BY <1>1, <1>4 DEF FInv, OneView
  <2>2. ~due
    BY <1>4, <2>1 DEF Timely, Aligned
  <2>3. Turn = "sent" /\ Turn' = "idle"
    BY <1>1, <1>4, <2>1, <2>2 DEF Turn
  <2> QED BY <1>1, <1>4, <2>3 DEF Source!Take, Source!clock
<1> QED BY <1>1, <1>2, <1>3, <1>4

\* The offers a waiting run is answered with are those of a source that offers a change at the
\* tick after it and an unchanged cluster at the heartbeat, and nothing else: for any intervals
\* that relate as the program's do (live.go:22-30, client.go:206-252).  WatchImplementsOffers
\* is the same of the watch itself.
THEOREM FollowImplementsOffers == Spec => ImplementsOffers
<1>1. Init => Source!Init
  <2> SUFFICES ASSUME Init PROVE Source!Init
    OBVIOUS
  <2>1. world \in Worlds
    BY DEF Init, Worlds
  <2>2. 0 \div Debounce = 0
    <3>1. 0 * Debounce + 0 = 0 /\ 0 \in 0 .. Debounce - 1
      BY Durations
    <3> QED BY <3>1, Quotient, Durations
  <2>3. Turn = "off"
    BY DEF Init, Turn
  <2> QED BY <2>1, <2>2, <2>3 DEF Init, Source!Init
<1>2. FInv /\ Timely /\ FInv' /\ Timely' /\ [Next]_vars => [Source!Next]_(Source!vars)
  <2> SUFFICES ASSUME FInv, Timely, FInv', Timely', [Next]_vars
               PROVE  Source!Next \/ UNCHANGED Source!vars
    OBVIOUS
  <2>1. CASE Appear \/ Progress \/ Finish \/ Relapse \/ Mix
    <3>1. /\ \E c, age : Show(c, age)
          /\ UNCHANGED <<options, clockVars, env, pc, last, streamVars, exit>>
      BY <2>1 DEF Appear, Progress, Finish, Relapse, Mix, Become
    <3>2. UNCHANGED <<blocking, due, sinceEnv, env, pc>> /\ changed' = TRUE
      BY <3>1 DEF Show, options, clockVars
    <3>3. cache' \in Worlds /\ Turn' = Turn
      BY <3>2 DEF Turn, FInv, Types, Worlds
    <3> QED BY <3>2, <3>3 DEF Source!Change, Source!clock, Source!Next
  <2>2. CASE Elsewhere
    <3>1. UNCHANGED <<blocking, cache, due, sinceEnv, env, pc>> /\ changed' = TRUE
      BY <2>2 DEF Elsewhere, server, options, clockVars
    <3>2. cache' \in Worlds /\ Turn' = Turn
      BY <3>1 DEF Turn, FInv, Types, Worlds
    <3> QED BY <3>1, <3>2 DEF Source!Change, Source!clock, Source!Next
  <2>3. CASE LoseSight \/ UNCHANGED vars
    <3>1. UNCHANGED <<blocking, cache, changed, due, sinceEnv, env, pc>>
      BY <2>3 DEF LoseSight, vars, options, clockVars
    <3> QED BY <3>1 DEF Turn, Source!vars
  <2>4. CASE StartWatch
    <3>1. /\ UNCHANGED <<blocking, changed, due, sinceEnv, env>> /\ blocking
          /\ pc = "start" /\ pc' = "follow" /\ cache' \in Worlds
      BY <2>4 DEF StartWatch, options, clockVars, FInv, Types, Worlds
    <3>2. env = NoEnv /\ ~due /\ changed = TRUE
      BY <3>1 DEF Timely, Aligned, FInv, OneView
    <3>3. Turn = "off" /\ Turn' = "idle"
      BY <3>1, <3>2 DEF Turn
    <3> QED BY <3>1, <3>2, <3>3 DEF Source!Start, Source!clock, Source!Next
  <2>5. CASE StartOnce
    <3>1. /\ UNCHANGED <<blocking, changed, due, sinceEnv>> /\ ~blocking /\ pc = "start"
          /\ cache' \in Worlds
      BY <2>5 DEF StartOnce, options, clockVars, FInv, Types, Worlds
    <3>2. Turn = "off" /\ Turn' = "off" /\ changed = TRUE
      BY <3>1 DEF Turn, FInv, OneView
    <3> QED BY <3>1, <3>2 DEF Source!Change, Source!clock, Source!Next
  <2>6. CASE StartFails
    <3>1. /\ UNCHANGED <<blocking, cache, changed, due, sinceEnv, env>> /\ pc = "start"
          /\ pc' = "exited"
      BY <2>6 DEF StartFails, server, options, clockVars
    <3>2. Turn = "off" /\ Turn' = IF blocking THEN "closed" ELSE "off"
      BY <3>1 DEF Turn, FInv, Types
    <3> QED BY <3>1, <3>2 DEF Source!Close, Source!clock, Source!vars, Source!Next
  <2> QED BY <2>1, <2>2, <2>3, <2>4, <2>5, <2>6, TickOffers, LookOffers, HandleOffers
          DEF Next, Source!Next
<1> QED BY <1>1, <1>2, TimelyInvariant, PTL DEF Spec, ImplementsOffers
=============================================================================
