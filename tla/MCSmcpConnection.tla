-------------------------- MODULE MCSmcpConnection --------------------------
(***************************************************************************)
(* SmcpConnection for TLC, tasks being interchangeable model values, and   *)
(* its refinement of ConnectionAuthority.                                  *)
(***************************************************************************)
EXTENDS SmcpConnection, TLC

TaskSymmetry == Permutations(Tasks)

\* What the connect in flight has installed is not in force until it settles.
Pending ==
    \E t \in Tasks : /\ Owns(t)
                     /\ tok[t].operation = "Connect"
                     /\ gen[t] = connection.generation

InForce == IF Pending THEN 0 ELSE connection.generation

Promise == INSTANCE ConnectionAuthority WITH
    inflight  <- op.operation,
    authority <- InForce,
    target    <- profile.generation

\* Every step of every command, teardown, retry, cleanup and rollback is a step
\* of ConnectionAuthority or invisible to it.
PromiseKept == Promise!Spec
=============================================================================
