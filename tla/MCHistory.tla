----------------------------- MODULE MCHistory ------------------------------
(***************************************************************************)
(* An instance of History for TLC: phases of a self-hosted and of a hosted *)
(* control plane, and durations that do not rise with time.                *)
(***************************************************************************)
EXTENDS History, TLC

CONSTANTS p1, p2, infra, self, hosted

TwoProcesses == {p1, p2}
Keys == {infra, self, hosted}

\* A phase that took no time is left out of the run.
SelfAndHosted == {<<infra, self>>, <<hosted>>}
OneRun == {<<infra>>}

\* Neither rising nor falling, with a tie.
Durations == <<4, 2, 7, 2, 5, 1, 9, 3, 6, 8>>

Symmetry == Permutations(TwoProcesses)
=============================================================================
