--------------------------- MODULE MCRuntimeInput ---------------------------
(* Instances of RuntimeInput for TLC. *)
EXTENDS RuntimeInput, TLC

\* Operations, request ids and calls are interchangeable; not used for liveness.
Symmetry == Permutations(Operations) \cup Permutations(Requests)
                \cup Permutations(Calls)
=============================================================================
