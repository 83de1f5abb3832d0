------------------------------- MODULE Offers -------------------------------
(***************************************************************************)
(* What `cluster up` may rely on of its source: a state that changes, and  *)
(* offers of what the state is, one at a time.  A change is noticed at     *)
(* once or later, the debounce timer holds at most one tick that nobody    *)
(* has looked at, and the look at a tick offers the state of that moment   *)
(* if a change has been noticed since the last offer or if Heartbeat ticks *)
(* have gone by without one.                                               *)
(***************************************************************************)
EXTENDS Integers

CONSTANTS State, NoOffer, Heartbeat

VARIABLES
    state,  \* what there is to offer
    fresh,  \* a change that the next look offers
    late,   \* a change that has not been noticed
    quiet,  \* ticks from the last offer to the tick that waits, or to now, up to Heartbeat
    spare,  \* ticks since the tick that waits, up to Heartbeat
    due,    \* a tick waits for its look
    turn,   \* "off", "idle", "sent" while an offer waits to be taken, or "closed"
    offer   \* the offer that has not been taken, or NoOffer

clock == <<quiet, spare, due>>
vars  == <<state, fresh, late, quiet, spare, due, turn, offer>>

Upto(n) == IF n < Heartbeat THEN n ELSE Heartbeat

Init ==
    /\ state \in State
    /\ fresh = TRUE /\ late = FALSE
    /\ quiet = 0 /\ spare = 0 /\ due = FALSE
    /\ turn = "off" /\ offer = NoOffer

Change ==
    /\ state' \in State
    /\ \/ fresh' = TRUE /\ late' = late
       \/ late' = TRUE /\ fresh' = fresh
    /\ UNCHANGED <<clock, turn, offer>>

Notice ==
    /\ late
    /\ fresh' = TRUE /\ late' \in BOOLEAN
    /\ UNCHANGED <<state, clock, turn, offer>>

\* What there is to offer first is what the lists have found by then.
Start ==
    /\ turn = "off" /\ turn' = "idle"
    /\ state' \in State /\ fresh' = TRUE
    /\ UNCHANGED <<late, clock, offer>>

\* The timer ticks whether or not the last offer has been taken.
Tick ==
    /\ turn \in {"idle", "sent"}
    /\ due' = TRUE
    /\ IF due THEN spare' = Upto(spare + 1) /\ quiet' = quiet
              ELSE spare' = 0 /\ quiet' = Upto(quiet + 1)
    /\ UNCHANGED <<state, fresh, late, turn, offer>>

Look ==
    /\ turn = "idle" /\ due
    /\ due' = FALSE /\ spare' = 0
    /\ IF fresh \/ quiet >= Heartbeat
       THEN fresh' = FALSE /\ quiet' = spare /\ turn' = "sent" /\ offer' = state
       ELSE quiet' = Upto(quiet + spare) /\ UNCHANGED <<fresh, turn, offer>>
    /\ UNCHANGED <<state, late>>

Take ==
    /\ turn = "sent" /\ turn' = "idle" /\ offer' = NoOffer
    /\ UNCHANGED <<state, fresh, late, clock>>

\* The one who takes the offers ends it all, or there never are any.
Close ==
    /\ turn' = "closed" /\ offer' = NoOffer
    /\ UNCHANGED <<state, fresh, late, clock>>

Next == Change \/ Notice \/ Start \/ Tick \/ Look \/ Take \/ Close

Spec == Init /\ [][Next]_vars
=============================================================================
