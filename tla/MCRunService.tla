---------------------------- MODULE MCRunService ----------------------------
(* Small instances of RunService for TLC. *)
EXTENDS RunService, TLC

\* Runs, calls, API instances and phases are interchangeable; sound for invariants and
\* action properties, not used where liveness is checked.
Symmetry == Permutations(Run) \cup Permutations(Call) \cup Permutations(Instance)
            \cup Permutations(Phase)
=============================================================================
