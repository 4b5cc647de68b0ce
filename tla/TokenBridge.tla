---------------------------- MODULE TokenBridge ----------------------------
(***************************************************************************)
(* The Manager token bridge: manager_token_bridge.rs and the three          *)
(* coordinator calls it serves (manager_context.rs).  The native side keeps *)
(* a pending request per exchange; the page obtains the token through HTTP  *)
(* calls the native side makes for it (transports) and completes the        *)
(* request.  Native calls of the page are tasks that interleave; what the   *)
(* page knows of a request it may use at any later time and any number of   *)
(* times, under the generation it was told or another.                      *)
(***************************************************************************)
EXTENDS Naturals

CONSTANTS
    Exchanges,       \* exchange calls; each is used once, like its UUID
    Transports,      \* token_bridge_http_request calls
    NoExchange,
    Leases,          \* lease ids of the page's bridge sessions
    NoLease,
    MaxBridgeGeneration,
    MaxTransportAttempts   \* MAX_TRANSPORT_ATTEMPTS

ASSUME TokenBridgeAssumption ==
    /\ MaxBridgeGeneration \in Nat \ {0} /\ MaxTransportAttempts \in Nat
    /\ NoExchange \notin Exchanges /\ NoLease \notin Leases

VARIABLES
    sessionGeneration,  \* the Manager session (ManagerSession)
    readyLease, pending,   \* BridgeState
    exchange,           \* per exchange: phase, generation, result
    transport,          \* per HTTP call: exchange, generation, attempt, phase
    told                \* exchanges whose event the page has received

bridge == <<readyLease, pending>>
bridgeVars == <<sessionGeneration, readyLease, pending, exchange, transport, told>>

NoPending == [generation |-> 0, attempts |-> 0, active |-> 0, lease |-> NoLease]
NoExchangeState == [phase |-> "new", generation |-> 0, result |-> "none"]
NoTransport == [exchange |-> NoExchange, generation |-> 0, attempt |-> 0, phase |-> "idle"]

IsPending(e) == pending[e] # NoPending
Waiting(e) == exchange[e].phase \in {"emit", "wait"}
Remove(es) == pending' = [e \in Exchanges |-> IF e \in es THEN NoPending ELSE pending[e]]

BridgeInit ==
    /\ sessionGeneration = 1
    /\ readyLease = NoLease
    /\ pending = [e \in Exchanges |-> NoPending]
    /\ exchange = [e \in Exchanges |-> NoExchangeState]
    /\ transport = [t \in Transports |-> NoTransport]
    /\ told = {}

\* An identity transaction ends in another session, or none.
SessionChanges ==
    /\ sessionGeneration < MaxBridgeGeneration
    /\ sessionGeneration' = sessionGeneration + 1
    /\ UNCHANGED <<bridge, exchange, transport, told>>

-----------------------------------------------------------------------------
\* Readiness.  Another lease revokes what is pending; the same lease does not.

\* Mutant: a replaced bridge keeps its requests.
ReadyKeepsPending(l) == readyLease' = l /\ UNCHANGED pending

Ready(l) ==
    /\ readyLease' = l
    /\ Remove(IF readyLease = l THEN {} ELSE Exchanges)

SetReady(l) ==
    /\ Ready(l)
    /\ UNCHANGED <<sessionGeneration, exchange, transport, told>>

NotReady == readyLease' = NoLease /\ Remove(Exchanges)

SetNotReady(l) ==
    /\ readyLease = l /\ NotReady
    /\ UNCHANGED <<sessionGeneration, exchange, transport, told>>

-----------------------------------------------------------------------------
\* exchange_token_for_generation: the session is checked, the request inserted
\* under the state lock, announced, awaited.

Return(e, result) == exchange' = [exchange EXCEPT ![e].phase = "returned", ![e].result = result]

StartExchange(e) ==
    /\ exchange[e].phase = "new"
    /\ exchange' = [exchange EXCEPT ![e].phase = "insert", ![e].generation = sessionGeneration]
    /\ UNCHANGED <<sessionGeneration, bridge, transport, told>>

InsertRequest(e) ==
    /\ exchange[e].phase = "insert"
    /\ IF readyLease = NoLease
       THEN Return(e, "error") /\ UNCHANGED pending
       ELSE /\ exchange' = [exchange EXCEPT ![e].phase = "emit"]
            /\ pending' = [pending EXCEPT ![e] =
                   [NoPending EXCEPT !.generation = exchange[e].generation,
                                     !.lease = readyLease]]
    /\ UNCHANGED <<sessionGeneration, readyLease, transport, told>>

\* Drop of PendingExchange: whatever ends the exchange revokes its request.
DropGuard(e) == Remove({e})

EmitRequest(e) ==
    /\ exchange[e].phase = "emit"
    /\ \/ /\ exchange' = [exchange EXCEPT ![e].phase = "wait"]
          /\ told' = told \cup {e}
          /\ UNCHANGED pending
       \/ Return(e, "error") /\ DropGuard(e) /\ UNCHANGED told
    /\ UNCHANGED <<sessionGeneration, readyLease, transport>>

\* The completion arrived, or its sender was dropped with the request.
\* handle_authenticated_outcome_for_generation settles it.
Receive(e) ==
    /\ exchange[e].phase = "wait" /\ ~IsPending(e)
    /\ Return(e, CASE exchange[e].result = "none" -> "error"
                   [] exchange[e].generation # sessionGeneration -> "error"
                   [] OTHER -> exchange[e].result)
    /\ UNCHANGED <<sessionGeneration, bridge, transport, told>>

\* TOKEN_BRIDGE_TIMEOUT, or the caller drops the future.
GiveUp(e) ==
    /\ Waiting(e)
    /\ Return(e, "error") /\ DropGuard(e)
    /\ UNCHANGED <<sessionGeneration, readyLease, transport, told>>

-----------------------------------------------------------------------------
\* manager_token_bridge_http_request: session check, begin_transport, the HTTP
\* call, finish_transport.

\* Mutant: one attempt too many.
CanBeginOnceMore(e, g) ==
    /\ readyLease # NoLease /\ IsPending(e)
    /\ pending[e].generation = g
    /\ pending[e].active = 0
    /\ pending[e].attempts <= MaxTransportAttempts
CanBegin(e, g) ==
    /\ readyLease # NoLease /\ IsPending(e)
    /\ pending[e].generation = g
    /\ pending[e].active = 0
    /\ pending[e].attempts < MaxTransportAttempts

BeginTransport(t, e, g) ==
    /\ transport[t].phase = "idle" /\ e \in told
    /\ g = sessionGeneration
    /\ CanBegin(e, g)
    /\ LET attempt == pending[e].attempts + 1
       IN  /\ pending' = [pending EXCEPT ![e].attempts = attempt, ![e].active = attempt]
           /\ transport' = [transport EXCEPT ![t] =
                  [exchange |-> e, generation |-> g, attempt |-> attempt, phase |-> "http"]]
    /\ UNCHANGED <<sessionGeneration, readyLease, exchange, told>>

\* Mutant: an HTTP error returns before finish_transport.
AnsweredOrFailed(t) ==
    /\ transport[t].phase = "http"
    /\ \E failed \in BOOLEAN :
           transport' = [transport EXCEPT ![t] =
               IF failed THEN NoTransport ELSE [@ EXCEPT !.phase = "finish"]]
    /\ UNCHANGED <<sessionGeneration, bridge, exchange, told>>

\* The token endpoint answers, or not: both go on to finish_transport.
HttpReturns(t) ==
    /\ transport[t].phase = "http"
    /\ transport' = [transport EXCEPT ![t].phase = "finish"]
    /\ UNCHANGED <<sessionGeneration, bridge, exchange, told>>

FinishTransport(t) ==
    /\ transport[t].phase = "finish"
    /\ LET e == transport[t].exchange
       IN  pending' = IF IsPending(e) /\ pending[e].generation = transport[t].generation
                           /\ pending[e].active = transport[t].attempt
                      THEN [pending EXCEPT ![e].active = 0] ELSE pending
    /\ transport' = [transport EXCEPT ![t] = NoTransport]
    /\ UNCHANGED <<sessionGeneration, readyLease, exchange, told>>

\* complete: only of a request without a transport under way.
CompleteRequest(e, g) ==
    /\ e \in told /\ IsPending(e)
    /\ pending[e].generation = g /\ pending[e].active = 0
    /\ Remove({e})
    /\ exchange' = [exchange EXCEPT ![e].result = "token"]
    /\ UNCHANGED <<sessionGeneration, readyLease, transport, told>>

\* What the page can still do for a request; finishing a call is not its doing.
PageStep ==
    \E e \in Exchanges, g \in 1..MaxBridgeGeneration :
        \/ CompleteRequest(e, g)
        \/ \E t \in Transports : BeginTransport(t, e, g)

BridgeNext ==
    \/ SessionChanges
    \/ \E l \in Leases : SetReady(l) \/ SetNotReady(l)
    \/ \E e \in Exchanges : \/ StartExchange(e) \/ InsertRequest(e) \/ EmitRequest(e)
                            \/ Receive(e) \/ GiveUp(e)
    \/ \E t \in Transports : HttpReturns(t) \/ FinishTransport(t)
    \/ PageStep

BridgeSpec == BridgeInit /\ [][BridgeNext]_bridgeVars

-----------------------------------------------------------------------------
BridgeTypeOK ==
    /\ sessionGeneration \in 1..MaxBridgeGeneration
    /\ readyLease \in Leases \cup {NoLease}
    /\ pending \in [Exchanges -> [generation : 0..MaxBridgeGeneration,
                                  attempts : 0..MaxTransportAttempts,
                                  active : 0..MaxTransportAttempts,
                                  lease : Leases \cup {NoLease}]]
    /\ exchange \in [Exchanges -> [phase : {"new", "insert", "emit", "wait", "returned"},
                                   generation : 0..MaxBridgeGeneration,
                                   result : {"none", "token", "error"}]]
    /\ transport \in [Transports -> [exchange : Exchanges \cup {NoExchange},
                                     generation : 0..MaxBridgeGeneration,
                                     attempt : 0..MaxTransportAttempts,
                                     phase : {"idle", "http", "finish"}]]
    /\ told \subseteq Exchanges

\* A request that can still be transported or completed belongs to an exchange
\* that awaits it and was announced to the bridge that is ready now ("lets
\* cancellation revoke pending transport authority immediately").
PendingUnderLease ==
    \A e \in Exchanges : IsPending(e) => Waiting(e) /\ pending[e].lease = readyLease

\* An active attempt, which forbids both completion and another attempt, is that
\* of exactly one HTTP call that has not ended: a request is never stuck, nor
\* transported twice at a time.
AttemptHasTransport ==
    \A e \in Exchanges :
        LET calls == {t \in Transports : transport[t].exchange = e}
        IN  IsPending(e) => IF pending[e].active = 0 THEN calls = {}
                            ELSE \E t \in calls : /\ transport[t].attempt = pending[e].active
                                                  /\ calls = {t}

\* Both.
BridgeHolds == PendingUnderLease /\ AttemptHasTransport
=============================================================================
