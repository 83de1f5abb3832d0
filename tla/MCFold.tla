------------------------------- MODULE MCFold -------------------------------
(* Fold for TLC.                                                           *)
EXTENDS Fold
=============================================================================
