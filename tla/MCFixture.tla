----------------------------- MODULE MCFixture ------------------------------
(***************************************************************************)
(* An instance of Fixture for TLC, with names of one digit in base four.   *)
(***************************************************************************)
EXTENDS Fixture

Synthetic == <<0, 2>>
=============================================================================
