------------------------- MODULE ConnectionAuthority -------------------------
(***************************************************************************)
(* What the connection of one Computer promises to its users: the snapshot *)
(* shown in the UI, the other commands, the persisted profile.             *)
(*                                                                         *)
(* At most one connection command is in flight.  Only a connect persists a *)
(* connection target, and only while no connection is in force; only when  *)
(* it settles does a connection come into force, and it is the one whose   *)
(* target was persisted.  A connection may be revoked at any moment, by a  *)
(* disconnect, a restart, a stop, a deletion or an identity change.        *)
(***************************************************************************)
EXTENDS Naturals

VARIABLES inflight,     \* the connection command in flight, or "none"
          authority,    \* generation of the connection in force, or 0
          target        \* generation of the persisted connection target

vars == <<inflight, authority, target>>

Operations == {"Connect", "Disconnect"}

TypeOK ==
    /\ inflight \in Operations \cup {"none"}
    /\ authority \in Nat
    /\ target \in Nat

Init == inflight = "none" /\ authority = 0 /\ target = 0

Begin(operation) ==
    /\ inflight = "none"
    /\ inflight' = operation
    /\ UNCHANGED <<authority, target>>

\* A connect writes its target, or takes back what it wrote.
Persist ==
    /\ inflight = "Connect" /\ authority = 0
    /\ target' \in Nat
    /\ UNCHANGED <<inflight, authority>>

Commit ==
    /\ inflight = "Connect" /\ authority = 0 /\ target # 0
    /\ inflight' = "none"
    /\ authority' = target
    /\ UNCHANGED target

\* The command fails, is superseded, or was a disconnect.
Settle ==
    /\ inflight # "none"
    /\ inflight' = "none"
    /\ authority' \in {authority, 0}
    /\ UNCHANGED target

Revoke ==
    /\ authority # 0
    /\ authority' = 0
    /\ UNCHANGED <<inflight, target>>

Next ==
    \/ \E operation \in Operations : Begin(operation)
    \/ Persist \/ Commit \/ Settle \/ Revoke

Spec == Init /\ [][Next]_vars

\* The connection in force is always the one whose target is persisted.
InForceIsPersisted == authority \in {0, target}
=============================================================================
