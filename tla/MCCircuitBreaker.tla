--------------------------- MODULE MCCircuitBreaker ---------------------------
(* Small instances of CircuitBreaker for TLC. *)
EXTENDS CircuitBreaker, TLC

\* Operations are interchangeable.
Symmetry == Permutations(Op)
=============================================================================
