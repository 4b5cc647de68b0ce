------------------------- MODULE MCRuntimeRetirement -------------------------
(* Instances of RuntimeRetirement for TLC. *)
EXTENDS RuntimeRetirement, TLC

\* Tasks are interchangeable; used by the safety run only.
TaskSymmetry == Permutations(Tasks)
=============================================================================
