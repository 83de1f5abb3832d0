-------------------------------- MODULE Feed --------------------------------
(***************************************************************************)
(* What a consumer of watch.Client may rely on, whatever goroutines,       *)
(* channels and timers are behind it: a conflating feed.  The API server   *)
(* moves every object through numbered versions.  A delivery replaces the  *)
(* consumer's whole view; it may skip versions, but it never shows a       *)
(* version the server has not reached and never takes an object back to a  *)
(* version older than the one already shown.                               *)
(***************************************************************************)
EXTENDS Integers

CONSTANT Object

VARIABLES
    truth,   \* truth[o]: the version of object o at the API server, 0 before it exists
    seen     \* seen[o]: the version in the last envelope the consumer received

Init ==
    /\ truth \in [Object -> Nat]
    /\ seen = [o \in Object |-> 0]

Change(o) ==
    /\ truth' = [truth EXCEPT ![o] = @ + 1]
    /\ UNCHANGED seen

Deliver ==
    /\ seen' \in [Object -> Nat]
    /\ \A o \in Object : seen[o] <= seen'[o] /\ seen'[o] <= truth[o]
    /\ UNCHANGED truth

Next == Deliver \/ \E o \in Object : Change(o)

Spec == Init /\ [][Next]_<<truth, seen>>
=============================================================================
