-------------------------- MODULE CredentialProofs --------------------------
(***************************************************************************)
(* Theorems about what the client holds for a connection: the token bridge *)
(* to the WebView (TokenBridge), the access to the keychain                *)
(* (KeychainAccess) and the targets with their reservations                *)
(* (ConnectionTargets), each for any number of actors and any bounds.      *)
(***************************************************************************)
EXTENDS TokenBridge, KeychainAccess, ConnectionTargets, TLAPS

-----------------------------------------------------------------------------
(* TokenBridge: a pending request is that of the bridge that is ready, and  *)
(* its active attempt is that of exactly one HTTP call.                     *)

\* An HTTP call that is not running belongs to nothing.
IdleInv == \A t \in Transports : transport[t].phase = "idle" => transport[t].exchange = NoExchange

\* An exchange whose request was never inserted has no HTTP call.
FreshInv ==
    \A t \in Transports, e \in Exchanges :
        transport[t].exchange = e => exchange[e].phase \notin {"new", "insert"}

\* What the calls of a pending request are: at most one, of the active attempt and of the
\* session of the request.
CallInv ==
    \A e \in Exchanges : IsPending(e) =>
        /\ \A t \in Transports : transport[t].exchange = e =>
               /\ pending[e].active # 0
               /\ transport[t].attempt = pending[e].active
               /\ transport[t].generation = pending[e].generation
               /\ \A u \in Transports : transport[u].exchange = e => u = t
        /\ pending[e].active # 0 => \E t \in Transports : transport[t].exchange = e

BridgeInv == BridgeTypeOK /\ IdleInv /\ FreshInv /\ PendingUnderLease /\ CallInv

LEMMA BridgeInitInv == BridgeInit => BridgeInv
  BY TokenBridgeAssumption
  DEF BridgeInit, BridgeInv, BridgeTypeOK, IdleInv, FreshInv, PendingUnderLease, CallInv,
      IsPending, NoPending, NoExchangeState, NoTransport

-----------------------------------------------------------------------------
(* What the recurring updates leave. *)

\* The exchanges and requests of BridgeTypeOK.
ExchangeState == [phase : {"new", "insert", "emit", "wait", "returned"},
                  generation : 0..MaxBridgeGeneration, result : {"none", "token", "error"}]
PendingState == [generation : 0..MaxBridgeGeneration, attempts : 0..MaxTransportAttempts,
                 active : 0..MaxTransportAttempts, lease : Leases \cup {NoLease}]

LEMMA Typed == BridgeTypeOK => /\ exchange \in [Exchanges -> ExchangeState]
                               /\ pending \in [Exchanges -> PendingState]
  BY DEF BridgeTypeOK, ExchangeState, PendingState

\* Two fields of a record change one after the other.
LEMMA PhaseAndGeneration ==
    ASSUME NEW x \in ExchangeState, NEW phase \in {"new", "insert", "emit", "wait", "returned"},
           NEW generation \in 0..MaxBridgeGeneration
    PROVE  /\ [x EXCEPT !.phase = phase, !.generation = generation] \in ExchangeState
           /\ [x EXCEPT !.phase = phase, !.generation = generation].phase = phase
<1> DEFINE y == [x EXCEPT !.phase = phase]
<1>1. y \in ExchangeState /\ y.phase = phase
  BY DEF ExchangeState
<1>2. /\ [y EXCEPT !.generation = generation] \in ExchangeState
      /\ [y EXCEPT !.generation = generation].phase = phase
  <2> HIDE DEF y
  <2> QED
    BY <1>1 DEF ExchangeState
<1> QED
  BY <1>2

\* An exchange returns, and no other changes.
LEMMA Returned ==
    ASSUME exchange \in [Exchanges -> ExchangeState], NEW e \in Exchanges,
           NEW result \in {"none", "token", "error"}, Return(e, result)
    PROVE  /\ exchange' \in [Exchanges -> ExchangeState]
           /\ exchange'[e].phase = "returned"
           /\ \A d \in Exchanges : d # e => exchange'[d] = exchange[d]
<1> DEFINE y == [exchange[e] EXCEPT !.phase = "returned"]
           x == [y EXCEPT !.result = result]
<1>1. x \in ExchangeState /\ x.phase = "returned"
  <2>1. y \in ExchangeState /\ y.phase = "returned"
    BY DEF ExchangeState
  <2> HIDE DEF y
  <2> QED
    BY <2>1 DEF ExchangeState
<1>2. exchange' = [exchange EXCEPT ![e] = x]
  BY Zenon DEF Return
<1> HIDE DEF x
<1> QED
  BY <1>1, <1>2

\* An exchange returns and revokes its request.
LEMMA Revoked ==
    ASSUME BridgeInv, NEW e \in Exchanges, Return(e, "error"), DropGuard(e),
           UNCHANGED <<sessionGeneration, readyLease, transport, told>>
    PROVE  BridgeInv'
<1>1. exchange \in [Exchanges -> ExchangeState] /\ pending \in [Exchanges -> PendingState]
  BY Typed DEF BridgeInv
<1>2. /\ exchange' \in [Exchanges -> ExchangeState] /\ exchange'[e].phase = "returned"
      /\ \A d \in Exchanges : d # e => exchange'[d] = exchange[d]
  BY <1>1, Returned
<1>3. NoPending \in PendingState
  BY TokenBridgeAssumption DEF NoPending, PendingState
<1>4. /\ pending' \in [Exchanges -> PendingState] /\ pending'[e] = NoPending
      /\ \A d \in Exchanges : d # e => pending'[d] = pending[d]
  BY <1>1, <1>3 DEF DropGuard, Remove
<1>5. BridgeTypeOK'
  BY <1>2, <1>4 DEF BridgeInv, BridgeTypeOK, ExchangeState, PendingState
<1>6. IdleInv' /\ FreshInv'
  BY <1>2 DEF BridgeInv, IdleInv, FreshInv
<1>7. PendingUnderLease'
  BY <1>2, <1>4 DEF BridgeInv, PendingUnderLease, IsPending, Waiting
<1>8. CallInv'
  BY <1>4 DEF BridgeInv, CallInv, IsPending
<1> QED
  BY <1>5, <1>6, <1>7, <1>8 DEF BridgeInv

-----------------------------------------------------------------------------
(* One lemma per action. *)

\* Another Manager session: what is pending is refused later, when it is used.
LEMMA SessionChangesStep ==
    ASSUME BridgeInv, SessionChanges
    PROVE  BridgeInv'
<1> USE TokenBridgeAssumption DEF BridgeInv, SessionChanges, bridge
<1>1. BridgeTypeOK'
  BY DEF BridgeTypeOK, NoPending, NoTransport
<1>2. IdleInv'
  BY DEF BridgeTypeOK, IdleInv, NoTransport
<1>3. FreshInv'
  BY DEF BridgeTypeOK, FreshInv, PendingUnderLease, Waiting, IsPending, NoTransport
<1>4. PendingUnderLease'
  BY DEF BridgeTypeOK, PendingUnderLease, Waiting, IsPending, NoPending
<1>5. CallInv'
  BY DEF BridgeTypeOK, CallInv, IdleInv, FreshInv, IsPending, NoPending, NoTransport
<1> QED
  BY <1>1, <1>2, <1>3, <1>4, <1>5

\* Another lease revokes what is pending; the same lease keeps it.
LEMMA ReadyStep ==
    ASSUME BridgeInv, NEW l \in Leases, SetReady(l)
    PROVE  BridgeInv'
<1> USE TokenBridgeAssumption DEF BridgeInv, SetReady, Ready, Remove
<1>1. BridgeTypeOK'
  BY DEF BridgeTypeOK, NoPending, NoTransport
<1>2. IdleInv'
  BY DEF BridgeTypeOK, IdleInv, NoTransport
<1>3. FreshInv'
  BY DEF BridgeTypeOK, FreshInv, PendingUnderLease, Waiting, IsPending, NoTransport
<1>4. PendingUnderLease'
  BY DEF BridgeTypeOK, PendingUnderLease, Waiting, IsPending, NoPending
<1>5. CallInv'
  BY DEF BridgeTypeOK, CallInv, IdleInv, FreshInv, IsPending, NoPending, NoTransport
<1> QED
  BY <1>1, <1>2, <1>3, <1>4, <1>5

\* A bridge that closes revokes what is pending.
LEMMA NotReadyStep ==
    ASSUME BridgeInv, NEW l \in Leases, SetNotReady(l)
    PROVE  BridgeInv'
<1> USE TokenBridgeAssumption DEF BridgeInv, SetNotReady, NotReady, Remove
<1>1. BridgeTypeOK'
  BY DEF BridgeTypeOK, NoPending, NoTransport
<1>2. IdleInv'
  BY DEF BridgeTypeOK, IdleInv, NoTransport
<1>3. FreshInv'
  BY DEF BridgeTypeOK, FreshInv, PendingUnderLease, Waiting, IsPending, NoTransport
<1>4. PendingUnderLease'
  BY DEF BridgeTypeOK, PendingUnderLease, Waiting, IsPending, NoPending
<1>5. CallInv'
  BY DEF BridgeTypeOK, CallInv, IdleInv, FreshInv, IsPending, NoPending, NoTransport
<1> QED
  BY <1>1, <1>2, <1>3, <1>4, <1>5

\* An exchange begins under the present session.
LEMMA StartStep ==
    ASSUME BridgeInv, NEW e \in Exchanges, StartExchange(e)
    PROVE  BridgeInv'
<1> USE TokenBridgeAssumption DEF BridgeInv, StartExchange, bridge
<1>1. BridgeTypeOK'
  <2> DEFINE x == [exchange[e] EXCEPT !.phase = "insert", !.generation = sessionGeneration]
  <2>1. exchange[e] \in ExchangeState /\ sessionGeneration \in 0..MaxBridgeGeneration
    BY Typed DEF BridgeTypeOK
  <2>2. x \in ExchangeState
    BY <2>1, PhaseAndGeneration
  <2>3. exchange' = [exchange EXCEPT ![e] = x]
    BY Zenon DEF StartExchange
  <2>4. exchange' \in [Exchanges -> ExchangeState]
    <3> HIDE DEF x
    <3> QED
      BY <2>2, <2>3, Typed
  <2> QED
    BY <2>4 DEF BridgeTypeOK, ExchangeState, bridge
<1>2. IdleInv'
  BY DEF BridgeTypeOK, IdleInv, NoTransport
<1>3. FreshInv'
  BY DEF BridgeTypeOK, FreshInv, PendingUnderLease, Waiting, IsPending, NoTransport
<1>4. PendingUnderLease'
  BY DEF BridgeTypeOK, PendingUnderLease, Waiting, IsPending, NoPending
<1>5. CallInv'
  BY DEF BridgeTypeOK, CallInv, IdleInv, FreshInv, IsPending, NoPending, NoTransport
<1> QED
  BY <1>1, <1>2, <1>3, <1>4, <1>5

\* A request is inserted under the present lease.
LEMMA InsertStep ==
    ASSUME BridgeInv, NEW e \in Exchanges, InsertRequest(e)
    PROVE  BridgeInv'
<1> DEFINE p == [generation |-> exchange[e].generation, attempts |-> 0, active |-> 0,
                 lease |-> readyLease]
<1>1. /\ exchange \in [Exchanges -> ExchangeState] /\ pending \in [Exchanges -> PendingState]
      /\ exchange[e] \in ExchangeState /\ readyLease \in Leases \cup {NoLease}
  BY Typed DEF BridgeInv, BridgeTypeOK
<1>2. CASE readyLease = NoLease
  <2>1. Return(e, "error") /\ UNCHANGED <<pending, sessionGeneration, readyLease, transport, told>>
    BY <1>2 DEF InsertRequest
  <2>2. /\ exchange' \in [Exchanges -> ExchangeState] /\ exchange'[e].phase = "returned"
        /\ \A d \in Exchanges : d # e => exchange'[d] = exchange[d]
    BY <1>1, <2>1, Returned
  <2>3. ~IsPending(e)
    BY DEF BridgeInv, PendingUnderLease, Waiting, InsertRequest
  <2> QED
    BY <2>1, <2>2, <2>3
    DEF BridgeInv, BridgeTypeOK, ExchangeState, IdleInv, FreshInv, PendingUnderLease, CallInv,
        IsPending, Waiting
<1>3. CASE readyLease # NoLease
  <2>1. p \in PendingState
    BY <1>1, TokenBridgeAssumption DEF PendingState, ExchangeState
  <2>2. [NoPending EXCEPT !.generation = exchange[e].generation, !.lease = readyLease] = p
    <3> DEFINE q == [NoPending EXCEPT !.generation = exchange[e].generation]
    <3>1. q = [generation |-> exchange[e].generation, attempts |-> 0, active |-> 0,
               lease |-> NoLease]
      BY DEF NoPending
    <3>2. [q EXCEPT !.lease = readyLease] = p
      <4> HIDE DEF q
      <4> QED
        BY <3>1
    <3> QED
      BY <3>2, Zenon
  <2>3. /\ exchange' = [exchange EXCEPT ![e].phase = "emit"]
        /\ pending' = [pending EXCEPT ![e] = p]
        /\ exchange[e].phase = "insert"
        /\ UNCHANGED <<sessionGeneration, readyLease, transport, told>>
    BY <1>3, <2>2 DEF InsertRequest
  <2>4. /\ exchange' \in [Exchanges -> ExchangeState] /\ exchange'[e].phase = "emit"
        /\ \A d \in Exchanges : d # e => exchange'[d] = exchange[d]
    BY <1>1, <2>3 DEF ExchangeState
  <2>5. /\ pending' \in [Exchanges -> PendingState] /\ pending'[e] = p
        /\ \A d \in Exchanges : d # e => pending'[d] = pending[d]
    <3> HIDE DEF p
    <3> QED
      BY <1>1, <2>1, <2>3
  <2>6. \A t \in Transports : transport[t].exchange # e
    BY <2>3 DEF BridgeInv, FreshInv
  <2>7. BridgeTypeOK' /\ IdleInv'
    BY <2>3, <2>4, <2>5 DEF BridgeInv, BridgeTypeOK, ExchangeState, PendingState, IdleInv
  <2>8. FreshInv'
    BY <2>3, <2>4, <2>6 DEF BridgeInv, FreshInv
  <2>9. PendingUnderLease'
    BY <2>3, <2>4, <2>5 DEF BridgeInv, PendingUnderLease, IsPending, Waiting
  <2>10. CallInv'
    BY <2>3, <2>5, <2>6 DEF BridgeInv, CallInv, IsPending
  <2> QED
    BY <2>7, <2>8, <2>9, <2>10 DEF BridgeInv
<1> QED
  BY <1>2, <1>3

\* A request is announced, or revoked.
LEMMA EmitStep ==
    ASSUME BridgeInv, NEW e \in Exchanges, EmitRequest(e)
    PROVE  BridgeInv'
<1>1. exchange \in [Exchanges -> ExchangeState] /\ pending \in [Exchanges -> PendingState]
  BY Typed DEF BridgeInv
<1>2. CASE exchange' = [exchange EXCEPT ![e].phase = "wait"] /\ told' = told \cup {e}
           /\ UNCHANGED pending
  <2>1. /\ exchange' \in [Exchanges -> ExchangeState] /\ exchange'[e].phase = "wait"
        /\ \A d \in Exchanges : d # e => exchange'[d] = exchange[d]
        /\ UNCHANGED <<sessionGeneration, readyLease, transport, pending>>
    BY <1>1, <1>2 DEF ExchangeState, EmitRequest
  <2> QED
    BY <1>2, <2>1
    DEF BridgeInv, BridgeTypeOK, ExchangeState, IdleInv, FreshInv, PendingUnderLease, CallInv,
        IsPending, Waiting
<1>3. CASE Return(e, "error") /\ DropGuard(e) /\ UNCHANGED told
  <2>1. UNCHANGED <<sessionGeneration, readyLease, transport, told>>
    BY <1>3 DEF EmitRequest
  <2> QED
    BY <1>3, <2>1, Revoked
<1> QED
  BY <1>2, <1>3 DEF EmitRequest

\* An exchange returns once its request is gone.
LEMMA ReceiveStep ==
    ASSUME BridgeInv, NEW e \in Exchanges, Receive(e)
    PROVE  BridgeInv'
<1> DEFINE result == CASE exchange[e].result = "none" -> "error"
                       [] exchange[e].generation # sessionGeneration -> "error"
                       [] OTHER -> exchange[e].result
<1>1. exchange \in [Exchanges -> ExchangeState] /\ exchange[e].result \in {"none", "token", "error"}
  BY Typed DEF BridgeInv, BridgeTypeOK
<1>2. result \in {"none", "token", "error"}
  BY <1>1
<1>3. Return(e, result) /\ ~IsPending(e)
      /\ UNCHANGED <<sessionGeneration, readyLease, pending, transport, told>>
  BY DEF Receive, bridge
<1> HIDE DEF result
<1>4. /\ exchange' \in [Exchanges -> ExchangeState] /\ exchange'[e].phase = "returned"
      /\ \A d \in Exchanges : d # e => exchange'[d] = exchange[d]
  BY <1>1, <1>2, <1>3, Returned
<1> QED
  BY <1>3, <1>4
  DEF BridgeInv, BridgeTypeOK, ExchangeState, IdleInv, FreshInv, PendingUnderLease, CallInv,
      IsPending, Waiting

\* A timeout or a drop revokes the request.
LEMMA GiveUpStep ==
    ASSUME BridgeInv, NEW e \in Exchanges, GiveUp(e)
    PROVE  BridgeInv'
  BY Revoked DEF GiveUp

\* An answer changes nothing of the request.
LEMMA HttpStep ==
    ASSUME BridgeInv, NEW t \in Transports, HttpReturns(t)
    PROVE  BridgeInv'
<1> USE TokenBridgeAssumption DEF BridgeInv, HttpReturns, bridge
<1>1. BridgeTypeOK'
  BY DEF BridgeTypeOK, NoPending, NoTransport
<1>2. IdleInv'
  BY DEF BridgeTypeOK, IdleInv, NoTransport
<1>3. FreshInv'
  BY DEF BridgeTypeOK, FreshInv, PendingUnderLease, Waiting, IsPending, NoTransport
<1>4. PendingUnderLease'
  BY DEF BridgeTypeOK, PendingUnderLease, Waiting, IsPending, NoPending
<1>5. CallInv'
  BY DEF BridgeTypeOK, CallInv, IdleInv, FreshInv, IsPending, NoPending, NoTransport
<1> QED
  BY <1>1, <1>2, <1>3, <1>4, <1>5

\* The call of the active attempt ends it.
LEMMA FinishStep ==
    ASSUME BridgeInv, NEW t \in Transports, FinishTransport(t)
    PROVE  BridgeInv'
<1> USE TokenBridgeAssumption DEF BridgeInv, FinishTransport
<1>1. BridgeTypeOK'
  <2>1. transport' = [transport EXCEPT ![t] = NoTransport]
        /\ UNCHANGED <<sessionGeneration, readyLease, exchange, told>>
    BY DEF FinishTransport
  <2>2. pending' \in [Exchanges -> PendingState]
    <3> DEFINE e == transport[t].exchange
    <3>1. CASE pending' = pending
      BY <3>1, Typed
    <3>2. CASE e \in Exchanges /\ pending' = [pending EXCEPT ![e].active = 0]
      BY <3>2, Typed DEF PendingState
    <3>3. CASE e \notin Exchanges /\ pending' = [pending EXCEPT ![e].active = 0]
      <4>1. pending' = [d \in Exchanges |-> IF d = e THEN [pending[e] EXCEPT !.active = 0]
                                            ELSE pending[d]]
        BY <3>3, Typed, Zenon
      <4>2. \A d \in Exchanges : pending'[d] = pending[d]
        BY <3>3, <4>1
      <4> QED
        BY <4>1, <4>2, Typed
    <3> QED
      BY <3>1, <3>2, <3>3 DEF FinishTransport
  <2> QED
    BY <2>1, <2>2 DEF BridgeTypeOK, PendingState, NoTransport
<1>2. IdleInv'
  BY DEF BridgeTypeOK, IdleInv, NoTransport
<1>3. FreshInv'
  BY DEF BridgeTypeOK, FreshInv, PendingUnderLease, Waiting, IsPending, NoTransport
<1>4. PendingUnderLease'
  BY DEF BridgeTypeOK, PendingUnderLease, Waiting, IsPending, NoPending
<1>5. CallInv'
  BY DEF BridgeTypeOK, CallInv, IdleInv, FreshInv, IsPending, NoPending, NoTransport
<1> QED
  BY <1>1, <1>2, <1>3, <1>4, <1>5

\* A call begins an attempt of a request that has none.
LEMMA BeginStep ==
    ASSUME BridgeInv, NEW t \in Transports, NEW e \in Exchanges, NEW g \in 1..MaxBridgeGeneration,
           BeginTransport(t, e, g)
    PROVE  BridgeInv'
<1> USE TokenBridgeAssumption DEF BridgeInv, BeginTransport, CanBegin
<1>1. BridgeTypeOK'
  BY DEF BridgeTypeOK, NoPending, NoTransport
<1>2. IdleInv'
  BY DEF BridgeTypeOK, IdleInv, NoTransport
<1>3. FreshInv'
  BY DEF BridgeTypeOK, FreshInv, PendingUnderLease, Waiting, IsPending, NoTransport
<1>4. PendingUnderLease'
  BY DEF BridgeTypeOK, PendingUnderLease, Waiting, IsPending, NoPending
<1>5. CallInv'
  BY DEF BridgeTypeOK, CallInv, IdleInv, FreshInv, IsPending, NoPending, NoTransport
<1> QED
  BY <1>1, <1>2, <1>3, <1>4, <1>5

\* A completed request is gone.
LEMMA CompleteStep ==
    ASSUME BridgeInv, NEW e \in Exchanges, NEW g \in 1..MaxBridgeGeneration, CompleteRequest(e, g)
    PROVE  BridgeInv'
<1> USE TokenBridgeAssumption DEF BridgeInv, CompleteRequest, Remove
<1>1. BridgeTypeOK'
  BY DEF BridgeTypeOK, NoPending, NoTransport
<1>2. IdleInv'
  BY DEF BridgeTypeOK, IdleInv, NoTransport
<1>3. FreshInv'
  BY DEF BridgeTypeOK, FreshInv, PendingUnderLease, Waiting, IsPending, NoTransport
<1>4. PendingUnderLease'
  BY DEF BridgeTypeOK, PendingUnderLease, Waiting, IsPending, NoPending
<1>5. CallInv'
  BY DEF BridgeTypeOK, CallInv, IdleInv, FreshInv, IsPending, NoPending, NoTransport
<1> QED
  BY <1>1, <1>2, <1>3, <1>4, <1>5

LEMMA BridgeStutter ==
    ASSUME BridgeInv, UNCHANGED bridgeVars
    PROVE  BridgeInv'
  BY DEF BridgeInv, BridgeTypeOK, IdleInv, FreshInv, PendingUnderLease, CallInv, IsPending, Waiting,
         bridgeVars

LEMMA BridgeInvStep == BridgeInv /\ [BridgeNext]_bridgeVars => BridgeInv'
<1> SUFFICES ASSUME BridgeInv, [BridgeNext]_bridgeVars
             PROVE  BridgeInv'
  OBVIOUS
<1>1. CASE SessionChanges
  BY <1>1, SessionChangesStep
<1>2. CASE \E l \in Leases : SetReady(l) \/ SetNotReady(l)
  BY <1>2, ReadyStep, NotReadyStep
<1>3. CASE \E e \in Exchanges : StartExchange(e) \/ InsertRequest(e) \/ EmitRequest(e)
  BY <1>3, StartStep, InsertStep, EmitStep
<1>4. CASE \E e \in Exchanges : Receive(e) \/ GiveUp(e)
  BY <1>4, ReceiveStep, GiveUpStep
<1>5. CASE \E t \in Transports : HttpReturns(t) \/ FinishTransport(t)
  BY <1>5, HttpStep, FinishStep
<1>6. CASE PageStep
  BY <1>6, BeginStep, CompleteStep DEF PageStep
<1>7. CASE UNCHANGED bridgeVars
  BY <1>7, BridgeStutter
<1> QED
  BY <1>1, <1>2, <1>3, <1>4, <1>5, <1>6, <1>7 DEF BridgeNext

LEMMA BridgeInvariant == BridgeSpec => []BridgeInv
  BY BridgeInitInv, BridgeInvStep, PTL DEF BridgeSpec

\* Every variable keeps its type: in particular a request is never transported more than
\* MAX_TRANSPORT_ATTEMPTS times, however often the page asks.
THEOREM BridgeTyped == BridgeSpec => []BridgeTypeOK
<1>1. BridgeInv => BridgeTypeOK
  BY DEF BridgeInv
<1> QED
  BY <1>1, BridgeInvariant, PTL

\* A request that can be used belongs to a waiting exchange and the bridge that is ready,
\* and its active attempt is that of exactly one HTTP call, whatever the page calls, when.
THEOREM BridgeIsSound == BridgeSpec => []BridgeHolds
<1>1. BridgeInv => PendingUnderLease
  BY DEF BridgeInv
<1>2. BridgeInv => AttemptHasTransport
  BY DEF BridgeInv, CallInv, AttemptHasTransport
<1>3. BridgeInv => BridgeHolds
  BY <1>1, <1>2 DEF BridgeHolds
<1> QED
  BY <1>3, BridgeInvariant, PTL

-----------------------------------------------------------------------------
(* KeychainAccess: a reader never gets a stale or foreign result, and nobody *)
(* is at the OS while the credential is paused.                             *)

\* The caller that runs the flight is the one at the OS or about to land.
FlightInv ==
    \A c \in Callers : slot.active = c <=> access[c].step \in {"os", "finish"}

\* A paused credential has no flight.
PauseInv == slot.paused => slot.active = NoCaller

\* Who waits, waits for the present flight, and shares only a read.
WaitInv ==
    \A c \in Callers :
        /\ access[c].on # NoCaller <=> access[c].step = "waiting"
        /\ access[c].step = "waiting" =>
               /\ access[c].on = slot.active
               /\ access[c].share => access[c].kind = "read" /\ access[slot.active].kind = "read"

\* What the keychain holds now counts as seen by every operation that has begun.
SeenInv == \A c \in Callers : access[c].step # "idle" => stored \in seen[c]

\* A read that is about to land has what the keychain still holds: only the flight
\* changes it.
LandingInv ==
    \A c \in Callers :
        access[c].step = "finish" /\ access[c].kind = "read" /\ access[c].result \in Maybe
            => access[c].result = stored

\* A shared result was seen by the operation that shares it.
WokenInv ==
    \A c \in Callers :
        access[c].step = "woken" /\ access[c].share /\ access[c].result \in Maybe
            => access[c].result \in seen[c]

KeychainInv == /\ KeychainTypeOK /\ FlightInv /\ PauseInv /\ WaitInv /\ SeenInv /\ LandingInv
        /\ WokenInv /\ ReadIsFresh

LEMMA KeychainInitInv == KeychainInit => KeychainInv
  BY KeychainAssumption
  DEF KeychainInit, KeychainInv, KeychainTypeOK, FlightInv, PauseInv, WaitInv, SeenInv, LandingInv,
      WokenInv, ReadIsFresh, NoAccess, Maybe, Refusals, Running

\* An operation that begins has seen what the keychain holds, and no result yet.
LEMMA Begins ==
    ASSUME KeychainInv, NEW c \in Callers, NEW kind \in {"read", "write"}, NEW value \in Maybe,
           BeginAccess(c, kind, value)
    PROVE  KeychainInv'
<1> USE KeychainAssumption DEF KeychainInv, Running, Moves, Maybe, BeginAccess
<1>1. KeychainTypeOK'
  BY DEF KeychainTypeOK, Refusals, NoAccess
<1>2. FlightInv'
  BY DEF KeychainTypeOK, Refusals, NoAccess, FlightInv
<1>3. PauseInv'
  BY DEF KeychainTypeOK, Refusals, NoAccess, PauseInv, FlightInv
<1>4. WaitInv'
  BY DEF KeychainTypeOK, Refusals, NoAccess, WaitInv, FlightInv
<1>5. SeenInv'
  BY DEF KeychainTypeOK, Refusals, NoAccess, SeenInv
<1>6. LandingInv'
  BY DEF KeychainTypeOK, Refusals, NoAccess, LandingInv, FlightInv
<1>7. WokenInv'
  BY DEF KeychainTypeOK, Refusals, NoAccess, WokenInv, WaitInv, SeenInv, LandingInv, FlightInv
<1>8. ReadIsFresh'
  BY DEF KeychainTypeOK, Refusals, NoAccess, ReadIsFresh, WokenInv, LandingInv, SeenInv
<1> QED
  BY <1>1, <1>2, <1>3, <1>4, <1>5, <1>6, <1>7, <1>8

\* A caller at the slot is refused, waits for the flight, or becomes it.
LEMMA Enters ==
    ASSUME KeychainInv, NEW c \in Callers, EnterSlot(c)
    PROVE  KeychainInv'
<1> USE KeychainAssumption DEF KeychainInv, Running, Moves, Maybe, EnterSlot, Shares
<1>1. KeychainTypeOK'
  BY DEF KeychainTypeOK, Refusals, NoAccess
<1>2. FlightInv'
  BY DEF KeychainTypeOK, Refusals, NoAccess, FlightInv
<1>3. PauseInv'
  BY DEF KeychainTypeOK, Refusals, NoAccess, PauseInv, FlightInv
<1>4. WaitInv'
  BY DEF KeychainTypeOK, Refusals, NoAccess, WaitInv, FlightInv
<1>5. SeenInv'
  BY DEF KeychainTypeOK, Refusals, NoAccess, SeenInv
<1>6. LandingInv'
  BY DEF KeychainTypeOK, Refusals, NoAccess, LandingInv, FlightInv
<1>7. WokenInv'
  BY DEF KeychainTypeOK, Refusals, NoAccess, WokenInv, WaitInv, SeenInv, LandingInv, FlightInv
<1>8. ReadIsFresh'
  BY DEF KeychainTypeOK, Refusals, NoAccess, ReadIsFresh, WokenInv, LandingInv, SeenInv
<1> QED
  BY <1>1, <1>2, <1>3, <1>4, <1>5, <1>6, <1>7, <1>8

\* The flight reads what the keychain holds, changes it, or is refused.
LEMMA Accesses ==
    ASSUME KeychainInv, NEW c \in Callers, AccessOS(c)
    PROVE  KeychainInv'
<1> USE KeychainAssumption DEF KeychainInv, Running, Moves, Maybe, AccessOS
<1>1. KeychainTypeOK'
  BY DEF KeychainTypeOK, Refusals, NoAccess
<1>2. FlightInv'
  BY DEF KeychainTypeOK, Refusals, NoAccess, FlightInv
<1>3. PauseInv'
  BY DEF KeychainTypeOK, Refusals, NoAccess, PauseInv, FlightInv
<1>4. WaitInv'
  BY DEF KeychainTypeOK, Refusals, NoAccess, WaitInv, FlightInv
<1>5. SeenInv'
  BY DEF KeychainTypeOK, Refusals, NoAccess, SeenInv
<1>6. LandingInv'
  BY DEF KeychainTypeOK, Refusals, NoAccess, LandingInv, FlightInv
<1>7. WokenInv'
  BY DEF KeychainTypeOK, Refusals, NoAccess, WokenInv, WaitInv, SeenInv, LandingInv, FlightInv
<1>8. ReadIsFresh'
  BY DEF KeychainTypeOK, Refusals, NoAccess, ReadIsFresh, WokenInv, LandingInv, SeenInv
<1> QED
  BY <1>1, <1>2, <1>3, <1>4, <1>5, <1>6, <1>7, <1>8

\* The flight ends: those who waited for it have its result.
LEMMA Lands ==
    ASSUME KeychainInv, NEW c \in Callers, FinishFlight(c)
    PROVE  KeychainInv'
<1> DEFINE Access == [kind : {"none", "read", "write"},
                      step : {"idle", "enter", "waiting", "os", "finish", "woken", "returned"},
                      value : Maybe, on : Callers \cup {NoCaller}, share : BOOLEAN,
                      result : Maybe \cup Refusals \cup {"pending"}]
           Left(d) == IF d = c THEN "returned" ELSE IF access[d].on = c THEN "woken"
                      ELSE access[d].step
           Got(d) == IF d # c /\ access[d].on = c THEN access[c].result ELSE access[d].result
<1> USE KeychainAssumption DEF KeychainInv
<1>1. /\ access \in [Callers -> Access] /\ seen \in [Callers -> SUBSET Maybe]
      /\ access[c].step = "finish" /\ slot.active = c
  BY DEF KeychainTypeOK, FinishFlight, Running, FlightInv
<1>2. \A d \in Callers :
          /\ access'[d] \in Access
          /\ access'[d].kind = access[d].kind /\ access'[d].share = access[d].share
          /\ access'[d].step = Left(d) /\ access'[d].result = Got(d)
          /\ access'[d].on = IF d # c /\ access[d].on = c THEN NoCaller ELSE access[d].on
  <2> TAKE d \in Callers
  <2>1. access[d] \in Access /\ access[c] \in Access
    BY <1>1
  <2>2. CASE d = c
    BY <2>1, <2>2 DEF FinishFlight
  <2>3. CASE d # c /\ access[d].on = c
    <3>1. access'[d] = [access[d] EXCEPT !.step = "woken", !.on = NoCaller,
                                         !.result = access[c].result]
      BY <2>3 DEF FinishFlight
    <3> QED
      BY <2>1, <2>3, <3>1
  <2>4. CASE d # c /\ access[d].on # c
    BY <2>1, <2>4 DEF FinishFlight
  <2> QED
    BY <2>2, <2>3, <2>4
<1>3. /\ slot' = [active |-> NoCaller, paused |-> access[c].result = "denied"]
      /\ UNCHANGED <<stored, seen>>
      /\ access' = [d \in Callers |-> access'[d]]
  BY DEF FinishFlight, Landed
<1> HIDE DEF Access
<1>4. KeychainTypeOK'
  <2>1. access' \in [Callers -> Access]
    BY <1>2, <1>3
  <2> QED
    BY <1>3, <2>1 DEF KeychainTypeOK, Access
<1>5. \A d \in Callers : access[d].on = c <=> access[d].step = "waiting"
  BY <1>1 DEF WaitInv
<1>6. FlightInv'
  <2>1. \A d \in Callers : d # c => access[d].step \notin {"os", "finish"}
    BY <1>1 DEF FlightInv
  <2>2. \A d \in Callers : access'[d].step \notin {"os", "finish"}
    BY <1>2, <2>1
  <2> QED
    BY <1>3, <2>2 DEF FlightInv
<1>7. PauseInv'
  BY <1>3 DEF PauseInv
<1>8. WaitInv'
  <2>1. \A d \in Callers : access'[d].step # "waiting"
    BY <1>2, <1>5
  <2>2. \A d \in Callers : access'[d].on = NoCaller
    BY <1>1, <1>2, <1>5 DEF WaitInv
  <2> QED
    BY <2>1, <2>2 DEF WaitInv
<1>9. SeenInv'
  BY <1>1, <1>2, <1>3, <1>5 DEF SeenInv
<1>10. LandingInv'
  BY <1>1, <1>2, <1>3, <1>5 DEF LandingInv, FlightInv
<1>11. WokenInv'
  <2> SUFFICES ASSUME NEW d \in Callers, access'[d].step = "woken", access'[d].share,
                      access'[d].result \in Maybe
               PROVE  access'[d].result \in seen'[d]
    BY DEF WokenInv, Maybe
  <2>1. CASE access[d].on = c /\ d # c
    BY <1>1, <1>2, <1>3, <1>5, <2>1 DEF WaitInv, LandingInv, SeenInv
  <2>2. CASE access[d].on # c \/ d = c
    BY <1>1, <1>2, <1>3, <1>5, <2>2 DEF WokenInv
  <2> QED
    BY <2>1, <2>2
<1>12. ReadIsFresh'
  <2> SUFFICES ASSUME NEW d \in Callers, access'[d].step = "returned",
                      access'[d].kind = "read", access'[d].result \in Maybe
               PROVE  access'[d].result \in seen'[d]
    BY DEF ReadIsFresh, Running, Maybe
  <2>1. CASE d = c
    BY <1>1, <1>2, <1>3, <2>1 DEF LandingInv, SeenInv
  <2>2. CASE d # c
    BY <1>1, <1>2, <1>3, <2>2 DEF ReadIsFresh, Running
  <2> QED
    BY <2>1, <2>2
<1> QED
  BY <1>4, <1>6, <1>7, <1>8, <1>9, <1>10, <1>11, <1>12

\* A waiter returns what it shared, or looks at the slot again.
LEMMA Wakes ==
    ASSUME KeychainInv, NEW c \in Callers, Wake(c)
    PROVE  KeychainInv'
<1> USE KeychainAssumption DEF KeychainInv, Running, Moves, Maybe, Wake
<1>1. KeychainTypeOK'
  <2>1. CASE access[c].share
    BY <2>1 DEF KeychainTypeOK, Refusals
  <2>2. CASE ~access[c].share
    <3> DEFINE Access == [kind : {"none", "read", "write"},
                          step : {"idle", "enter", "waiting", "os", "finish", "woken",
                                  "returned"},
                          value : Maybe, on : Callers \cup {NoCaller}, share : BOOLEAN,
                          result : Maybe \cup Refusals \cup {"pending"}]
               Entering == [access[c] EXCEPT !.step = "enter"]
    <3>1. access[c] \in Access
      BY DEF KeychainTypeOK
    <3>2. Entering \in Access
      BY <3>1
    <3>3. [Entering EXCEPT !.result = "pending"] \in Access
      <4> HIDE DEF Entering
      <4> QED
        BY <3>2
    <3>4. access' = [access EXCEPT ![c] =
                         [access[c] EXCEPT !.step = "enter", !.result = "pending"]]
      BY <2>2, Zenon
    <3> QED
      BY <3>3, <3>4 DEF KeychainTypeOK
  <2> QED
    BY <2>1, <2>2
<1>2. FlightInv'
  BY DEF KeychainTypeOK, Refusals, NoAccess, FlightInv
<1>3. PauseInv'
  BY DEF KeychainTypeOK, Refusals, NoAccess, PauseInv, FlightInv
<1>4. WaitInv'
  BY DEF KeychainTypeOK, Refusals, NoAccess, WaitInv, FlightInv
<1>5. SeenInv'
  BY DEF KeychainTypeOK, Refusals, NoAccess, SeenInv
<1>6. LandingInv'
  BY DEF KeychainTypeOK, Refusals, NoAccess, LandingInv, FlightInv
<1>7. WokenInv'
  BY DEF KeychainTypeOK, Refusals, NoAccess, WokenInv, WaitInv, SeenInv, LandingInv, FlightInv
<1>8. ReadIsFresh'
  BY DEF KeychainTypeOK, Refusals, NoAccess, ReadIsFresh, WokenInv, LandingInv, SeenInv
<1> QED
  BY <1>1, <1>2, <1>3, <1>4, <1>5, <1>6, <1>7, <1>8

\* An operation is over.
LEMMA Returns ==
    ASSUME KeychainInv, NEW c \in Callers, ReturnAccess(c)
    PROVE  KeychainInv'
<1> USE KeychainAssumption DEF KeychainInv, Running, Moves, Maybe, ReturnAccess
<1>1. KeychainTypeOK'
  BY DEF KeychainTypeOK, Refusals, NoAccess
<1>2. FlightInv'
  BY DEF KeychainTypeOK, Refusals, NoAccess, FlightInv
<1>3. PauseInv'
  BY DEF KeychainTypeOK, Refusals, NoAccess, PauseInv, FlightInv
<1>4. WaitInv'
  BY DEF KeychainTypeOK, Refusals, NoAccess, WaitInv, FlightInv
<1>5. SeenInv'
  BY DEF KeychainTypeOK, Refusals, NoAccess, SeenInv
<1>6. LandingInv'
  BY DEF KeychainTypeOK, Refusals, NoAccess, LandingInv, FlightInv
<1>7. WokenInv'
  BY DEF KeychainTypeOK, Refusals, NoAccess, WokenInv, WaitInv, SeenInv, LandingInv, FlightInv
<1>8. ReadIsFresh'
  BY DEF KeychainTypeOK, Refusals, NoAccess, ReadIsFresh, WokenInv, LandingInv, SeenInv
<1> QED
  BY <1>1, <1>2, <1>3, <1>4, <1>5, <1>6, <1>7, <1>8

\* The user's retry changes nothing but the pause.
LEMMA Retries ==
    ASSUME KeychainInv, RetryCredential
    PROVE  KeychainInv'
<1> USE KeychainAssumption DEF KeychainInv, Running, Moves, Maybe, RetryCredential
<1>1. KeychainTypeOK'
  BY DEF KeychainTypeOK, Refusals, NoAccess
<1>2. FlightInv'
  BY DEF KeychainTypeOK, Refusals, NoAccess, FlightInv
<1>3. PauseInv'
  BY DEF KeychainTypeOK, Refusals, NoAccess, PauseInv, FlightInv
<1>4. WaitInv'
  BY DEF KeychainTypeOK, Refusals, NoAccess, WaitInv, FlightInv
<1>5. SeenInv'
  BY DEF KeychainTypeOK, Refusals, NoAccess, SeenInv
<1>6. LandingInv'
  BY DEF KeychainTypeOK, Refusals, NoAccess, LandingInv, FlightInv
<1>7. WokenInv'
  BY DEF KeychainTypeOK, Refusals, NoAccess, WokenInv, WaitInv, SeenInv, LandingInv, FlightInv
<1>8. ReadIsFresh'
  BY DEF KeychainTypeOK, Refusals, NoAccess, ReadIsFresh, WokenInv, LandingInv, SeenInv
<1> QED
  BY <1>1, <1>2, <1>3, <1>4, <1>5, <1>6, <1>7, <1>8

-----------------------------------------------------------------------------
LEMMA KeychainStutter ==
    ASSUME KeychainInv, UNCHANGED keychainVars
    PROVE  KeychainInv'
  BY DEF KeychainInv, KeychainTypeOK, FlightInv, PauseInv, WaitInv, SeenInv, LandingInv, WokenInv,
         ReadIsFresh, Running, keychainVars

LEMMA KeychainInvStep == KeychainInv /\ [KeychainNext]_keychainVars => KeychainInv'
<1> SUFFICES ASSUME KeychainInv, [KeychainNext]_keychainVars
             PROVE  KeychainInv'
  OBVIOUS
<1>1. CASE \E c \in Callers, kind \in {"read", "write"}, value \in Maybe : BeginAccess(c, kind, value)
  BY <1>1, Begins
<1>2. CASE \E c \in Callers : EnterSlot(c)
  BY <1>2, Enters
<1>3. CASE \E c \in Callers : AccessOS(c)
  BY <1>3, Accesses
<1>4. CASE \E c \in Callers : FinishFlight(c)
  BY <1>4, Lands
<1>5. CASE \E c \in Callers : Wake(c)
  BY <1>5, Wakes
<1>6. CASE \E c \in Callers : ReturnAccess(c)
  BY <1>6, Returns
<1>7. CASE RetryCredential
  BY <1>7, Retries
<1>8. CASE UNCHANGED keychainVars
  BY <1>8, KeychainStutter
<1> QED
  BY <1>1, <1>2, <1>3, <1>4, <1>5, <1>6, <1>7, <1>8 DEF KeychainNext

LEMMA KeychainInvariant == KeychainSpec => []KeychainInv
  BY KeychainInitInv, KeychainInvStep, PTL DEF KeychainSpec

\* Every variable keeps its type, for any number of callers and secrets.
THEOREM KeychainTyped == KeychainSpec => []KeychainTypeOK
<1>1. KeychainInv => KeychainTypeOK
  BY DEF KeychainInv
<1> QED
  BY <1>1, KeychainInvariant, PTL

\* Whoever's flight a reader shares, what it returns was in the keychain during its own
\* read; and after a refusal nobody is at the OS until the user asks to retry.
THEOREM AccessesHold == KeychainSpec => []KeychainHolds
<1>1. KeychainInv => KeychainHolds
  BY KeychainAssumption
  DEF KeychainInv, KeychainHolds, NoPromptWhilePaused, PauseInv, FlightInv, KeychainTypeOK
<1> QED
  BY <1>1, KeychainInvariant, PTL

-----------------------------------------------------------------------------
(* ConnectionTargets: no two Computers are connected to one target or in one *)
(* office, and a connection at rest has its target.                         *)

\* A key, a target or an office, is reserved between the reservation and the end.
Holding(t) == connect[t].at \in {"check", "join", "commit"}
Keys(t) == {connect[t].target, connect[t].office}

\* A connect that is under way knows its Computer, its target and, once resolved, the office.
TaskInv(t) ==
    /\ connect[t].at # "idle" =>
           connect[t].computer \in Computers /\ connect[t].target \in Manual \cup Robots
    /\ connect[t].at = "prepare" => connect[t].target \in Robots \/ connect[t].office \in Offices
    /\ connect[t].at \in {"reserve", "check", "join", "commit"} => connect[t].office \in Offices

\* The current connect of a Computer is one of that Computer that is under way.
CurrentInv ==
    \A c \in Computers : operation[c] # NoConnect =>
        connect[operation[c]].computer = c /\ connect[operation[c]].at # "idle"

\* What a connect holds is reserved for its Computer, and for no other connect, one of
\* the same Computer included.
HeldInv(t) == Holding(t) => \A k \in Keys(t) : reservations[k] = connect[t].computer
ApartInv == \A t, u \in Connects : t # u /\ Holding(t) /\ Holding(u) => Keys(t) \cap Keys(u) = {}

\* The current connect finds no connection of its Computer until it makes one, which is
\* to its own target.
ClearInv(t) ==
    /\ connect[t].at \in {"resolve", "reserve", "check", "join"} /\ HoldsToken(t) =>
           joined[connect[t].computer] = Nothing
    /\ connect[t].at = "commit" /\ HoldsToken(t) =>
           TargetOf(connect[t].computer) \in {Nothing, connect[t].target}

\* Once checked, no other Computer gets to the target or the office it is about to use.
CheckedInv(t) ==
    connect[t].at = "join" =>
        \A d \in Computers \ {connect[t].computer} : joined[d] # Nothing =>
            joined[d].target # connect[t].target /\ joined[d].office # connect[t].office

\* Only a connect that is about to commit may be at a target that is gone.
ExistsInv ==
    \A c \in Computers : TargetOf(c) \in Manual =>
        \/ targetFile[TargetOf(c)] # Nothing
        \/ operation[c] # NoConnect /\ connect[operation[c]].at = "commit"

ConnectInv(t) == TaskInv(t) /\ HeldInv(t) /\ ClearInv(t) /\ CheckedInv(t)
TargetsInv ==
    /\ TargetsTypeOK /\ CurrentInv /\ ApartInv /\ ExistsInv
    /\ ExclusiveTargets /\ CredentialHasTarget
    /\ \A t \in Connects : ConnectInv(t)

LEMMA TargetsInitInv == TargetsInit => TargetsInv
  BY ConnectionTargetsAssumption
  DEF TargetsInit, TargetsInv, TargetsTypeOK, CurrentInv, ApartInv, ExistsInv, ExclusiveTargets,
      CredentialHasTarget, ConnectInv, TaskInv, HeldInv, ClearInv, CheckedInv, Holding,
      IdleConnect, ConnectTask, ConnectPoints, TargetOf, HoldsToken

-----------------------------------------------------------------------------
(* What the recurring updates leave. *)

\* A step of one connect leaves what the others know.
OthersStay(t) == \A u \in Connects \ {t} : connect'[u] = connect[u]

LEMMA TaskType ==
    ASSUME TargetsTypeOK, NEW t \in Connects
    PROVE  /\ connect[t] \in ConnectTask /\ connect[t].at \in ConnectPoints
           /\ connect[t].computer \in Computers \cup {Nothing}
           /\ connect[t].target \in Manual \cup Robots \cup {Nothing}
           /\ connect[t].office \in Offices \cup {Nothing}
  BY DEF TargetsTypeOK, ConnectTask

LEMMA AtEffect ==
    ASSUME TargetsTypeOK, NEW t \in Connects, NEW point \in ConnectPoints, At(t, point)
    PROVE  /\ connect' \in [Connects -> ConnectTask] /\ OthersStay(t)
           /\ connect'[t].at = point
           /\ connect'[t].computer = connect[t].computer
           /\ connect'[t].target = connect[t].target
           /\ connect'[t].office = connect[t].office
  BY TaskType DEF TargetsTypeOK, At, ConnectTask, OthersStay

\* The end of a connect frees only its own keys and its own operation.
LEMMA EndEffect ==
    ASSUME TargetsTypeOK, NEW t \in Connects, connect[t].at # "idle" =>
               connect[t].computer \in Computers, EndConnect(t), connect[t].at # "idle"
    PROVE  /\ connect' \in [Connects -> ConnectTask] /\ OthersStay(t)
           /\ connect'[t] = IdleConnect
           /\ operation' \in [Computers -> Connects \cup {NoConnect}]
           /\ \A c \in Computers :
                 operation'[c] = IF c = connect[t].computer /\ operation[c] = t
                                 THEN NoConnect ELSE operation[c]
           /\ reservations' \in [Manual \cup Robots \cup Offices -> Computers \cup {Nothing}]
           /\ \A k \in Manual \cup Robots \cup Offices :
                 reservations'[k] = reservations[k] \/ (Holding(t) /\ k \in Keys(t))
<1>1. IdleConnect \in ConnectTask
  BY DEF IdleConnect, ConnectTask, ConnectPoints
<1>2. connect' \in [Connects -> ConnectTask] /\ OthersStay(t) /\ connect'[t] = IdleConnect
  BY <1>1 DEF EndConnect, TargetsTypeOK, OthersStay
<1>3. /\ operation' \in [Computers -> Connects \cup {NoConnect}]
      /\ \A c \in Computers :
            operation'[c] = IF c = connect[t].computer /\ operation[c] = t
                            THEN NoConnect ELSE operation[c]
  BY DEF EndConnect, HoldsToken, TargetsTypeOK
<1>4. /\ reservations' \in [Manual \cup Robots \cup Offices -> Computers \cup {Nothing}]
      /\ \A k \in Manual \cup Robots \cup Offices :
            reservations'[k] = reservations[k] \/ (Holding(t) /\ k \in Keys(t))
  BY DEF EndConnect, Released, Holding, Keys, TargetsTypeOK
<1>5. QED
  BY <1>2, <1>3, <1>4

\* A connection that is cut, or that stays, is no nearer to another.
Cuts == \A c \in Computers : joined'[c] = joined[c] \/ joined'[c] = Nothing

\* A connect that ends leaves no connection, or one whose target exists.
LEMMA EndHolds ==
    ASSUME TargetsInv, NEW t \in Connects, connect[t].at # "idle", EndConnect(t),
           joined' \in [Computers -> ConnectionState \cup {Nothing}], Cuts,
           \A c \in Computers : operation[c] = t /\ joined'[c] # Nothing
                                   /\ TargetOf(c) \in Manual => targetFile[TargetOf(c)] # Nothing,
           UNCHANGED <<configured, managerSession>>
    PROVE  TargetsInv'
<1>1. TargetsTypeOK /\ TaskInv(t) /\ \A u \in Connects : ConnectInv(u)
  BY DEF TargetsInv, ConnectInv
<1>2. connect[t].computer \in Computers
  BY <1>1 DEF TaskInv
<1>3. /\ connect' \in [Connects -> ConnectTask] /\ OthersStay(t)
      /\ connect'[t] = IdleConnect
      /\ operation' \in [Computers -> Connects \cup {NoConnect}]
      /\ \A c \in Computers :
            operation'[c] = IF c = connect[t].computer /\ operation[c] = t
                            THEN NoConnect ELSE operation[c]
      /\ reservations' \in [Manual \cup Robots \cup Offices -> Computers \cup {Nothing}]
      /\ \A k \in Manual \cup Robots \cup Offices :
            reservations'[k] = reservations[k] \/ (Holding(t) /\ k \in Keys(t))
  BY <1>1, <1>2, EndEffect
<1>4. TargetsTypeOK'
  BY <1>1, <1>3 DEF TargetsTypeOK, configured
<1>5. CurrentInv'
  BY <1>1, <1>3 DEF TargetsInv, CurrentInv, TargetsTypeOK, OthersStay
<1>6. ApartInv'
  BY <1>3 DEF TargetsInv, ApartInv, Holding, Keys, OthersStay, IdleConnect
<1>7. ExistsInv'
  <2> SUFFICES ASSUME NEW c \in Computers, TargetOf(c)' \in Manual,
                      targetFile[TargetOf(c)'] = Nothing
               PROVE  operation'[c] # NoConnect /\ connect'[operation'[c]].at = "commit"
    BY DEF ExistsInv, configured
  <2>1. joined'[c] = joined[c] /\ joined[c] # Nothing /\ TargetOf(c)' = TargetOf(c)
    BY ConnectionTargetsAssumption DEF Cuts, TargetOf
  <2>2. operation[c] # NoConnect /\ connect[operation[c]].at = "commit"
    BY <2>1 DEF TargetsInv, ExistsInv
  <2>3. operation[c] # t /\ operation[c] \in Connects
    BY <1>1, <2>1, <2>2 DEF TargetsTypeOK
  <2>4. QED
    BY <1>3, <2>2, <2>3 DEF OthersStay
<1>8. ExclusiveTargets'
  BY DEF TargetsInv, ExclusiveTargets, Cuts
<1>9. CredentialHasTarget'
  BY DEF TargetsInv, CredentialHasTarget, configured
<1>10. ASSUME NEW u \in Connects PROVE ConnectInv(u)'
  <2>1. CASE u = t
    BY <1>3, <2>1 DEF ConnectInv, TaskInv, HeldInv, ClearInv, CheckedInv, Holding, IdleConnect
  <2>2. CASE u # t
    <3>1. connect'[u] = connect[u] /\ ConnectInv(u) /\ connect[u] \in ConnectTask
      BY <1>1, <1>3, <2>2, TaskType DEF OthersStay
    <3>2. TaskInv(u)'
      BY <3>1 DEF ConnectInv, TaskInv
    <3>3. HeldInv(u)'
      <4>1. ASSUME Holding(u), NEW k \in Keys(u) PROVE reservations'[k] = reservations[k]
        <5>1. k \in Manual \cup Robots \cup Offices
          BY <3>1, <4>1 DEF ConnectInv, TaskInv, Holding, Keys
        <5>2. ~(Holding(t) /\ k \in Keys(t))
          BY <2>2, <4>1 DEF TargetsInv, ApartInv
        <5>3. QED
          BY <1>3, <5>1, <5>2
      <4>2. QED
        BY <3>1, <4>1 DEF ConnectInv, HeldInv, Holding, Keys
    <3>4. ClearInv(u)'
      BY <1>3, <2>2, <3>1, ConnectionTargetsAssumption
         DEF ConnectInv, ClearInv, TaskInv, HoldsToken, TargetOf, Cuts
    <3>5. CheckedInv(u)'
      BY <3>1 DEF ConnectInv, CheckedInv, Cuts
    <3>6. QED
      BY <3>2, <3>3, <3>4, <3>5 DEF ConnectInv
  <2>3. QED
    BY <2>1, <2>2
<1>11. QED
  BY <1>4, <1>5, <1>6, <1>7, <1>8, <1>9, <1>10 DEF TargetsInv

LEMMA FailHolds ==
    ASSUME TargetsInv, NEW t \in Connects, connect[t].at # "idle", FailConnect(t),
           UNCHANGED <<configured, managerSession>>
    PROVE  TargetsInv'
<1>1. TargetsTypeOK /\ connect[t].computer \in Computers
  BY DEF TargetsInv, ConnectInv, TaskInv
<1>2. /\ joined' \in [Computers -> ConnectionState \cup {Nothing}] /\ Cuts
      /\ \A c \in Computers : operation[c] = t /\ c = connect[t].computer => joined'[c] = Nothing
  BY <1>1 DEF FailConnect, TargetsTypeOK, Cuts, HoldsToken
<1>3. \A c \in Computers : operation[c] = t => c = connect[t].computer
  BY ConnectionTargetsAssumption DEF TargetsInv, CurrentInv
<1>4. EndConnect(t)
  BY DEF FailConnect
<1>5. QED
  BY <1>2, <1>3, <1>4, EndHolds

\* A connect moves on without ending and makes no connection; what it reserves was free.
MovesOn(t) ==
    /\ connect' \in [Connects -> ConnectTask] /\ OthersStay(t)
    /\ connect[t].at # "commit"
    /\ joined' \in [Computers -> ConnectionState \cup {Nothing}] /\ Cuts
    /\ UNCHANGED <<configured, managerSession>>

LEMMA MoveHolds ==
    ASSUME TargetsInv, NEW t \in Connects, MovesOn(t), ConnectInv(t)', CurrentInv',
           operation' \in [Computers -> Connects \cup {NoConnect}],
           \A c \in Computers : operation'[c] \in {operation[c], t},
           \A c \in Computers : operation'[c] = operation[c] \/ operation[c] = NoConnect,
           reservations' \in [Manual \cup Robots \cup Offices -> Computers \cup {Nothing}],
           \A k \in Manual \cup Robots \cup Offices :
               reservations'[k] = reservations[k] \/ reservations[k] = Nothing,
           Holding(t)' =>
               \/ Holding(t) /\ Keys(t)' = Keys(t)
               \/ \A k \in Keys(t)' : reservations[k] = Nothing
    PROVE  TargetsInv'
<1>1. TargetsTypeOK /\ \A u \in Connects : ConnectInv(u)
  BY DEF TargetsInv
<1>2. TargetsTypeOK'
  BY <1>1 DEF TargetsTypeOK, MovesOn, configured
<1>3. ASSUME NEW u \in Connects \ {t}, Holding(u)
      PROVE  \A k \in Keys(u) : k \in Manual \cup Robots \cup Offices /\ reservations[k] # Nothing
  BY <1>1, <1>3, ConnectionTargetsAssumption DEF ConnectInv, TaskInv, HeldInv, Holding, Keys
<1>4. ApartInv'
  <2>1. ASSUME NEW u \in Connects \ {t}, Holding(u)', Holding(t)' PROVE Keys(t)' \cap Keys(u)' = {}
    <3>1. Holding(u) /\ Keys(u)' = Keys(u)
      BY <2>1 DEF MovesOn, OthersStay, Holding, Keys
    <3>2. CASE Holding(t) /\ Keys(t)' = Keys(t)
      BY <3>1, <3>2 DEF TargetsInv, ApartInv
    <3>3. CASE \A k \in Keys(t)' : reservations[k] = Nothing
      BY <1>3, <3>1, <3>3
    <3>4. QED
      BY <2>1, <3>2, <3>3
  <2>2. ASSUME NEW u \in Connects \ {t}, NEW v \in Connects \ {t}, u # v,
               Holding(u)', Holding(v)'
        PROVE  Keys(u)' \cap Keys(v)' = {}
    BY <2>2 DEF TargetsInv, ApartInv, MovesOn, OthersStay, Holding, Keys
  <2>3. QED
    BY <2>1, <2>2 DEF ApartInv
<1>5. ExistsInv'
  <2> SUFFICES ASSUME NEW c \in Computers, TargetOf(c)' \in Manual,
                      targetFile[TargetOf(c)'] = Nothing
               PROVE  operation'[c] # NoConnect /\ connect'[operation'[c]].at = "commit"
    BY DEF ExistsInv, MovesOn, configured
  <2>1. TargetOf(c)' = TargetOf(c)
    BY ConnectionTargetsAssumption DEF MovesOn, Cuts, TargetOf
  <2>2. operation[c] # NoConnect /\ connect[operation[c]].at = "commit"
    BY <2>1 DEF TargetsInv, ExistsInv
  <2>3. operation[c] # t /\ operation[c] \in Connects /\ operation'[c] = operation[c]
    BY <1>1, <2>2 DEF TargetsTypeOK, MovesOn
  <2>4. QED
    BY <2>2, <2>3 DEF MovesOn, OthersStay
<1>6. ExclusiveTargets' /\ CredentialHasTarget'
  BY DEF TargetsInv, ExclusiveTargets, CredentialHasTarget, MovesOn, Cuts, configured
<1>7. ASSUME NEW u \in Connects \ {t} PROVE ConnectInv(u)'
  <2>1. connect'[u] = connect[u] /\ ConnectInv(u)
    BY <1>1 DEF MovesOn, OthersStay
  <2>2. TaskInv(u)'
    BY <2>1 DEF ConnectInv, TaskInv
  <2>3. HeldInv(u)'
    BY <1>3, <2>1 DEF ConnectInv, HeldInv, Holding, Keys
  <2>4. ClearInv(u)'
    <3>1. connect[u].at # "idle" /\ HoldsToken(u)' => HoldsToken(u)
      BY <2>1 DEF ConnectInv, TaskInv, HoldsToken
    <3>2. QED
      BY <2>1, <3>1 DEF ConnectInv, ClearInv, TaskInv, TargetOf, MovesOn, Cuts
  <2>5. CheckedInv(u)'
    BY <2>1 DEF ConnectInv, CheckedInv, MovesOn, Cuts
  <2>6. QED
    BY <2>2, <2>3, <2>4, <2>5 DEF ConnectInv
<1>8. QED
  BY <1>2, <1>4, <1>5, <1>6, <1>7 DEF TargetsInv

-----------------------------------------------------------------------------
(* The connect commands. *)

LEMMA BeginManualHolds ==
    ASSUME TargetsInv, NEW t \in Connects, NEW c \in Computers, NEW m \in Manual, BeginManual(t, c, m)
    PROVE  TargetsInv'
<1>1. TargetsTypeOK /\ NoConnect \notin Connects
  BY ConnectionTargetsAssumption DEF TargetsInv
<1>2. targetFile[m] \in TargetContents /\ credential[m] \in Nat
  BY <1>1 DEF BeginManual, TargetsTypeOK
<1>3. /\ connect' \in [Connects -> ConnectTask] /\ OthersStay(t)
      /\ connect'[t].at = "prepare" /\ connect'[t].computer = c /\ connect'[t].target = m
      /\ connect'[t].office \in Offices
  BY <1>1, <1>2 DEF BeginManual, TargetsTypeOK, TargetContents, ConnectTask, ConnectPoints, OthersStay
<1>4. /\ operation' \in [Computers -> Connects \cup {NoConnect}]
      /\ \A d \in Computers : operation'[d] = IF d = c THEN t ELSE operation[d]
      /\ operation[c] = NoConnect /\ connect[t].at = "idle"
  BY <1>1 DEF BeginManual, TargetsTypeOK, IdleConnect
<1>5. CurrentInv'
  BY <1>1, <1>3, <1>4 DEF TargetsInv, CurrentInv, OthersStay, TargetsTypeOK
<1>6. ConnectInv(t)'
  BY <1>3, <1>4 DEF ConnectInv, TaskInv, HeldInv, ClearInv, CheckedInv, Holding
<1>7. MovesOn(t) /\ UNCHANGED reservations
  BY <1>1, <1>3, <1>4 DEF MovesOn, Cuts, BeginManual, TargetsTypeOK
<1>8. QED
  BY <1>1, <1>3, <1>4, <1>5, <1>6, <1>7, MoveHolds DEF Holding, TargetsTypeOK

LEMMA BeginRobotHolds ==
    ASSUME TargetsInv, NEW t \in Connects, NEW c \in Computers, NEW r \in Robots, BeginRobot(t, c, r)
    PROVE  TargetsInv'
<1>1. TargetsTypeOK /\ NoConnect \notin Connects
  BY ConnectionTargetsAssumption DEF TargetsInv
<1>2. /\ connect' \in [Connects -> ConnectTask] /\ OthersStay(t)
      /\ connect'[t].at = "prepare" /\ connect'[t].computer = c /\ connect'[t].target = r
  BY <1>1 DEF BeginRobot, TargetsTypeOK, IdleConnect, ConnectTask, ConnectPoints, OthersStay
<1>3. /\ operation' \in [Computers -> Connects \cup {NoConnect}]
      /\ \A d \in Computers : operation'[d] = IF d = c THEN t ELSE operation[d]
      /\ operation[c] = NoConnect /\ connect[t].at = "idle"
  BY <1>1 DEF BeginRobot, TargetsTypeOK, IdleConnect
<1>4. CurrentInv'
  BY <1>1, <1>2, <1>3 DEF TargetsInv, CurrentInv, OthersStay, TargetsTypeOK
<1>5. ConnectInv(t)'
  BY <1>2, <1>3 DEF ConnectInv, TaskInv, HeldInv, ClearInv, CheckedInv, Holding
<1>6. MovesOn(t) /\ UNCHANGED reservations
  BY <1>1, <1>2, <1>3 DEF MovesOn, Cuts, BeginRobot, TargetsTypeOK
<1>7. QED
  BY <1>1, <1>2, <1>3, <1>4, <1>5, <1>6, MoveHolds DEF Holding, TargetsTypeOK

LEMMA PrepareHolds ==
    ASSUME TargetsInv, NEW t \in Connects, PrepareConnect(t)
    PROVE  TargetsInv'
<1>1. TargetsTypeOK /\ ConnectInv(t) /\ connect[t].at = "prepare" /\ NoConnect \notin Connects
  BY ConnectionTargetsAssumption DEF TargetsInv, PrepareConnect
<1>2. CASE HoldsToken(t)
  <2> DEFINE point == IF connect[t].target \in Robots THEN "resolve" ELSE "reserve"
  <2>1. /\ At(t, point) /\ UNCHANGED <<configured, managerSession, operation, reservations>>
        /\ joined' = [joined EXCEPT ![connect[t].computer] = Nothing]
    BY <1>2 DEF PrepareConnect
  <2>2. point \in ConnectPoints /\ point \in {"resolve", "reserve"}
    BY DEF ConnectPoints
  <2>3. /\ connect' \in [Connects -> ConnectTask] /\ OthersStay(t) /\ connect'[t].at = point
        /\ connect'[t].computer = connect[t].computer
        /\ connect'[t].target = connect[t].target /\ connect'[t].office = connect[t].office
    BY <1>1, <2>1, <2>2, AtEffect
  <2>4. /\ joined' \in [Computers -> ConnectionState \cup {Nothing}] /\ Cuts
        /\ connect[t].computer \in Computers /\ joined'[connect[t].computer] = Nothing
    BY <1>1, <2>1 DEF TargetsTypeOK, Cuts, ConnectInv, TaskInv
  <2>5. CurrentInv'
    BY <1>1, <2>1, <2>2, <2>3 DEF TargetsInv, CurrentInv, OthersStay, TargetsTypeOK
  <2>6. ConnectInv(t)'
    BY <1>1, <2>2, <2>3, <2>4
       DEF ConnectInv, TaskInv, HeldInv, ClearInv, CheckedInv, Holding
  <2>7. MovesOn(t)
    BY <1>1, <2>1, <2>3, <2>4 DEF MovesOn
  <2>8. ~Holding(t)'
    BY <2>2, <2>3 DEF Holding
  <2>9. QED
    BY <1>1, <2>1, <2>5, <2>6, <2>7, <2>8, MoveHolds DEF TargetsTypeOK
<1>3. CASE ~HoldsToken(t)
  BY <1>1, <1>3, FailHolds DEF PrepareConnect
<1>4. QED
  BY <1>2, <1>3

LEMMA ResolveHolds ==
    ASSUME TargetsInv, NEW t \in Connects, ResolveRobot(t)
    PROVE  TargetsInv'
<1>1. TargetsTypeOK /\ ConnectInv(t) /\ connect[t].at = "resolve" /\ NoConnect \notin Connects
  BY ConnectionTargetsAssumption DEF TargetsInv, ResolveRobot
<1>2. ASSUME NEW office \in Offices, HoldsToken(t),
             connect' = [connect EXCEPT ![t].at = "reserve", ![t].office = office,
                                        ![t].session = managerSession],
             UNCHANGED <<joined, operation, reservations, configured, managerSession>>
      PROVE  TargetsInv'
  <2>1. /\ connect' \in [Connects -> ConnectTask] /\ OthersStay(t)
        /\ connect'[t].at = "reserve" /\ connect'[t].computer = connect[t].computer
        /\ connect'[t].target = connect[t].target /\ connect'[t].office = office
    <3> DEFINE moved == [connect EXCEPT ![t].at = "reserve"]
               placed == [moved EXCEPT ![t].office = office]
    <3>1. connect' = [placed EXCEPT ![t].session = managerSession]
      BY <1>2
    <3>2. connect \in [Connects -> ConnectTask] /\ managerSession \in Nat
      BY <1>1 DEF TargetsTypeOK
    <3>3. /\ moved \in [Connects -> ConnectTask] /\ moved[t].at = "reserve"
          /\ \A u \in Connects \ {t} : moved[u] = connect[u]
          /\ moved[t].computer = connect[t].computer /\ moved[t].target = connect[t].target
      BY <3>2 DEF ConnectTask, ConnectPoints
    <3> HIDE DEF moved
    <3>4. /\ placed \in [Connects -> ConnectTask] /\ placed[t].at = "reserve"
          /\ placed[t].office = office /\ \A u \in Connects \ {t} : placed[u] = connect[u]
          /\ placed[t].computer = connect[t].computer /\ placed[t].target = connect[t].target
      BY <3>3 DEF ConnectTask
    <3> HIDE DEF placed
    <3>5. QED
      BY <3>1, <3>2, <3>4 DEF ConnectTask, OthersStay
  <2>2. CurrentInv'
    BY <1>1, <1>2, <2>1 DEF TargetsInv, CurrentInv, OthersStay, TargetsTypeOK
  <2>3. ConnectInv(t)'
    BY <1>1, <1>2, <2>1
       DEF ConnectInv, TaskInv, HeldInv, ClearInv, CheckedInv, Holding, HoldsToken
  <2>4. MovesOn(t) /\ ~Holding(t)'
    BY <1>1, <1>2, <2>1 DEF MovesOn, Cuts, Holding, TargetsTypeOK
  <2>5. QED
    BY <1>1, <1>2, <2>2, <2>3, <2>4, MoveHolds DEF TargetsTypeOK
<1>3. CASE FailConnect(t)
  BY <1>1, <1>3, FailHolds DEF ResolveRobot
<1>4. QED
  BY <1>2, <1>3 DEF ResolveRobot

LEMMA ReserveHolds ==
    ASSUME TargetsInv, NEW t \in Connects, ReserveTarget(t)
    PROVE  TargetsInv'
<1>1. TargetsTypeOK /\ ConnectInv(t) /\ connect[t].at = "reserve" /\ NoConnect \notin Connects
  BY ConnectionTargetsAssumption DEF TargetsInv, ReserveTarget
<1>2. CASE Unreserved(t)
  <2>1. /\ At(t, "check") /\ UNCHANGED <<configured, managerSession, operation, joined>>
        /\ reservations' = [k \in DOMAIN reservations |->
                 IF k \in {connect[t].target, connect[t].office}
                 THEN connect[t].computer ELSE reservations[k]]
    BY <1>2 DEF ReserveTarget
  <2>2. /\ connect' \in [Connects -> ConnectTask] /\ OthersStay(t)
        /\ connect'[t].at = "check" /\ connect'[t].computer = connect[t].computer
        /\ connect'[t].target = connect[t].target /\ connect'[t].office = connect[t].office
    BY <1>1, <2>1, AtEffect DEF ConnectPoints
  <2>3. /\ connect[t].computer \in Computers /\ connect[t].target \in Manual \cup Robots
        /\ connect[t].office \in Offices
    BY <1>1 DEF ConnectInv, TaskInv
  <2>4. /\ reservations' \in [Manual \cup Robots \cup Offices -> Computers \cup {Nothing}]
        /\ \A k \in Manual \cup Robots \cup Offices :
              reservations'[k] = reservations[k] \/ reservations[k] = Nothing
        /\ \A k \in Keys(t)' : reservations[k] = Nothing
        /\ \A k \in Keys(t)' : reservations'[k] = connect[t].computer
    BY <1>1, <1>2, <2>1, <2>2, <2>3 DEF TargetsTypeOK, Unreserved, Keys
  <2>5. CurrentInv'
    BY <1>1, <2>1, <2>2 DEF TargetsInv, CurrentInv, OthersStay, TargetsTypeOK
  <2>6. ConnectInv(t)'
    BY <1>1, <2>1, <2>2, <2>3, <2>4
       DEF ConnectInv, TaskInv, HeldInv, ClearInv, CheckedInv, Holding, HoldsToken
  <2>7. MovesOn(t)
    BY <1>1, <2>1, <2>2 DEF MovesOn, Cuts, TargetsTypeOK
  <2>8. QED
    BY <1>1, <2>1, <2>4, <2>5, <2>6, <2>7, MoveHolds DEF TargetsTypeOK
<1>3. CASE ~Unreserved(t)
  BY <1>1, <1>3, FailHolds DEF ReserveTarget
<1>4. QED
  BY <1>2, <1>3

LEMMA CheckHolds ==
    ASSUME TargetsInv, NEW t \in Connects, CheckTarget(t)
    PROVE  TargetsInv'
<1>1. TargetsTypeOK /\ ConnectInv(t) /\ connect[t].at = "check" /\ NoConnect \notin Connects
  BY ConnectionTargetsAssumption DEF TargetsInv, CheckTarget
<1> DEFINE c == connect[t].computer
<1>2. HoldsToken(t) => ~AlreadyJoined(c, connect[t].target)
  BY <1>1 DEF ConnectInv, ClearInv, AlreadyJoined, BlocksConnect
<1>3. CASE /\ ConnectAllowed(c, connect[t].target, connect[t].office) /\ HoldsToken(t)
           /\ At(t, "join") /\ UNCHANGED <<joined, operation, reservations>>
  <2>1. /\ connect' \in [Connects -> ConnectTask] /\ OthersStay(t)
        /\ connect'[t].at = "join" /\ connect'[t].computer = c
        /\ connect'[t].target = connect[t].target /\ connect'[t].office = connect[t].office
    BY <1>1, <1>3, AtEffect DEF ConnectPoints
  <2>2. \A d \in Computers \ {c} : joined[d] # Nothing =>
            joined[d].target # connect[t].target /\ joined[d].office # connect[t].office
    BY <1>3 DEF ConnectAllowed, TakenByOther, BlocksConnect
  <2>3. CurrentInv'
    BY <1>1, <1>3, <2>1 DEF TargetsInv, CurrentInv, OthersStay, TargetsTypeOK
  <2>4. ConnectInv(t)'
    BY <1>1, <1>3, <2>1, <2>2
       DEF ConnectInv, TaskInv, HeldInv, ClearInv, CheckedInv, Holding, HoldsToken, Keys
  <2>5. MovesOn(t) /\ Holding(t) /\ Keys(t)' = Keys(t)
    BY <1>1, <1>3, <2>1 DEF CheckTarget, MovesOn, Cuts, TargetsTypeOK, Holding, Keys
  <2>6. QED
    BY <1>1, <1>3, <2>3, <2>4, <2>5, MoveHolds DEF TargetsTypeOK
<1>4. CASE FailConnect(t)
  BY <1>1, <1>4, FailHolds DEF CheckTarget
<1>5. QED
  BY <1>2, <1>3, <1>4 DEF CheckTarget

LEMMA CommitHolds ==
    ASSUME TargetsInv, NEW t \in Connects, CommitTarget(t)
    PROVE  TargetsInv'
<1>1. TargetsTypeOK /\ ConnectInv(t) /\ connect[t].at = "commit" /\ NoConnect \notin Connects
  BY ConnectionTargetsAssumption DEF TargetsInv, CommitTarget
<1>2. CASE HoldsToken(t) /\ UnchangedTarget(t)
  <2>1. EndConnect(t) /\ UNCHANGED <<joined, configured, managerSession>>
    BY <1>2 DEF CommitTarget
  <2>2. ASSUME NEW c \in Computers, operation[c] = t, TargetOf(c) \in Manual
        PROVE  targetFile[TargetOf(c)] # Nothing
    <3>1. connect[t].computer = c
      BY <1>1, <2>2 DEF TargetsInv, CurrentInv
    <3>2. TargetOf(c) = connect[t].target
      BY <1>1, <1>2, <2>2, <3>1, ConnectionTargetsAssumption DEF ConnectInv, ClearInv
    <3>3. QED
      BY <1>2, <2>2, <3>2 DEF UnchangedTarget
  <2>3. joined' \in [Computers -> ConnectionState \cup {Nothing}] /\ Cuts
    BY <1>1, <2>1 DEF TargetsTypeOK, Cuts
  <2>4. QED
    BY <1>1, <2>1, <2>2, <2>3, EndHolds
<1>3. CASE ~(HoldsToken(t) /\ UnchangedTarget(t))
  BY <1>1, <1>3, FailHolds DEF CommitTarget
<1>4. QED
  BY <1>2, <1>3

\* Making the connection, which the reservation and the check have kept exclusive.
LEMMA JoinHolds ==
    ASSUME TargetsInv, NEW t \in Connects, JoinOffice(t)
    PROVE  TargetsInv'
<1>1. /\ TargetsTypeOK /\ ConnectInv(t) /\ connect[t].at = "join" /\ NoConnect \notin Connects
      /\ Nothing \notin Manual \cup ConnectionState
  BY ConnectionTargetsAssumption DEF TargetsInv, JoinOffice
<1> DEFINE c == connect[t].computer
           made == [target |-> connect[t].target, office |-> connect[t].office, transport |-> "up"]
<1>2. /\ c \in Computers /\ connect[t].target \in Manual \cup Robots
      /\ connect[t].office \in Offices
  BY <1>1 DEF ConnectInv, TaskInv
<1>3. CASE /\ HoldsToken(t) /\ joined' = [joined EXCEPT ![c] = made]
           /\ At(t, "commit") /\ UNCHANGED <<operation, reservations>>
  <2>1. UNCHANGED <<configured, managerSession>>
    BY DEF JoinOffice
  <2>2. /\ connect' \in [Connects -> ConnectTask] /\ OthersStay(t)
        /\ connect'[t].at = "commit" /\ connect'[t].computer = c
        /\ connect'[t].target = connect[t].target /\ connect'[t].office = connect[t].office
    BY <1>1, <1>3, AtEffect DEF ConnectPoints
  <2>3. made \in ConnectionState /\ made # Nothing
    BY <1>1, <1>2 DEF ConnectionState
  <2>4. /\ joined' \in [Computers -> ConnectionState \cup {Nothing}] /\ joined'[c] = made
        /\ \A d \in Computers \ {c} : joined'[d] = joined[d]
    BY <1>1, <1>2, <1>3, <2>3 DEF TargetsTypeOK
  <2>5. made.target = connect[t].target /\ made.office = connect[t].office
    OBVIOUS
  <2> HIDE DEF made
  <2>6. TargetsTypeOK'
    BY <1>1, <1>3, <2>1, <2>2, <2>4 DEF TargetsTypeOK, configured
  <2>7. CurrentInv'
    BY <1>1, <1>3, <2>2 DEF TargetsInv, CurrentInv, OthersStay, TargetsTypeOK
  <2>8. ApartInv'
    BY <1>1, <2>2 DEF TargetsInv, ApartInv, OthersStay, Holding, Keys
  <2>9. ExistsInv'
    <3>1. operation'[c] # NoConnect /\ connect'[operation'[c]].at = "commit"
      BY <1>1, <1>3, <2>2 DEF HoldsToken
    <3>2. ASSUME NEW d \in Computers \ {c} PROVE TargetOf(d)' = TargetOf(d) /\ operation'[d] = operation[d]
      BY <1>3, <2>4 DEF TargetOf
    <3>3. ASSUME NEW d \in Computers \ {c}, operation[d] # NoConnect
          PROVE  connect'[operation[d]] = connect[operation[d]]
      <4>1. operation[d] # t /\ operation[d] \in Connects
        BY <1>1, <3>3 DEF TargetsInv, CurrentInv, TargetsTypeOK
      <4>2. QED
        BY <2>2, <4>1 DEF OthersStay
    <3>4. QED
      BY <2>1, <3>1, <3>2, <3>3 DEF TargetsInv, ExistsInv, configured
  <2>10. ExclusiveTargets'
    BY <1>1, <2>3, <2>4, <2>5 DEF TargetsInv, ExclusiveTargets, ConnectInv, CheckedInv
  <2>11. CredentialHasTarget'
    BY <2>1 DEF TargetsInv, CredentialHasTarget, configured
  <2>12. ConnectInv(t)'
    BY <1>1, <1>3, <2>2, <2>3, <2>4, <2>5
       DEF ConnectInv, TaskInv, HeldInv, ClearInv, CheckedInv, Holding, Keys, TargetOf
  <2>13. ASSUME NEW u \in Connects \ {t} PROVE ConnectInv(u)'
    <3>1. connect'[u] = connect[u] /\ ConnectInv(u)
      BY <2>2 DEF OthersStay, TargetsInv
    <3>2. TaskInv(u)' /\ HeldInv(u)'
      BY <1>3, <3>1 DEF ConnectInv, TaskInv, HeldInv, Holding, Keys
    <3>3. ClearInv(u)'
      <4>1. HoldsToken(u) => connect[u].computer # c
        BY <1>3 DEF HoldsToken
      <4>2. QED
        BY <1>3, <2>4, <3>1, <4>1 DEF ConnectInv, TaskInv, ClearInv, HoldsToken, TargetOf
    <3>4. CheckedInv(u)'
      <4>1. connect[u].at = "join" =>
                connect[t].target # connect[u].target /\ connect[t].office # connect[u].office
        BY <1>1, <3>1 DEF TargetsInv, ApartInv, Holding, Keys
      <4>2. QED
        BY <2>4, <2>5, <3>1, <4>1 DEF ConnectInv, CheckedInv
    <3>5. QED
      BY <3>2, <3>3, <3>4 DEF ConnectInv
  <2>14. QED
    BY <2>6, <2>7, <2>8, <2>9, <2>10, <2>11, <2>12, <2>13 DEF TargetsInv
<1>4. CASE FailConnect(t)
  BY <1>1, <1>4, FailHolds DEF JoinOffice
<1>5. QED
  BY <1>3, <1>4 DEF JoinOffice

-----------------------------------------------------------------------------
(* What goes on around the connects. *)

\* A target is saved, or deleted while nobody is connected to it.
LEMMA ConfiguredHolds ==
    ASSUME TargetsInv, TargetsTypeOK', CredentialHasTarget',
           UNCHANGED <<joined, operation, reservations, managerSession, connect>>,
           \A m \in Manual : targetFile[m] # Nothing =>
               targetFile'[m] # Nothing \/ \A c \in Computers : TargetOf(c) # m
    PROVE  TargetsInv'
<1>1. CurrentInv' /\ ApartInv' /\ ExclusiveTargets'
  BY DEF TargetsInv, CurrentInv, ApartInv, ExclusiveTargets, Holding, Keys
<1>2. ExistsInv'
  BY DEF TargetsInv, ExistsInv, TargetOf
<1>3. \A t \in Connects : ConnectInv(t)'
  BY DEF TargetsInv, ConnectInv, TaskInv, HeldInv, ClearInv, CheckedInv, Holding, Keys, HoldsToken,
         TargetOf
<1>4. QED
  BY <1>1, <1>2, <1>3 DEF TargetsInv

LEMMA SaveHolds ==
    ASSUME TargetsInv, NEW m \in Manual, NEW office \in Offices, SaveTarget(m, office)
    PROVE  TargetsInv'
<1>1. TargetsTypeOK /\ Nothing \notin TargetContents /\ targetSaves' \in 0..MaxTargetSaves
      /\ targetSaves' \in Nat /\ CredentialHasTarget
  BY ConnectionTargetsAssumption DEF TargetsInv, SaveTarget, TargetsTypeOK
<1>2. UNCHANGED <<joined, operation, reservations, managerSession, connect>>
  BY DEF SaveTarget
<1> DEFINE saved == [office |-> office, contents |-> targetSaves']
<1>3. saved \in TargetContents /\ saved # Nothing
  BY <1>1 DEF TargetContents
<1> HIDE DEF saved
<1>4. PICK key \in {credential[m], 0, targetSaves'} :
        \/ /\ targetFile' = [targetFile EXCEPT ![m] = saved]
           /\ credential' = [credential EXCEPT ![m] = key]
           /\ unrestored' = unrestored \ {m}
        \/ PutBack(m, key) /\ UNCHANGED targetFile
  BY DEF SaveTarget, saved
<1>5. key \in Nat
  BY <1>1, <1>4 DEF TargetsTypeOK
<1>6. TargetsTypeOK'
  BY <1>1, <1>2, <1>3, <1>4, <1>5 DEF TargetsTypeOK, PutBack
<1>7. CredentialHasTarget'
  BY <1>1, <1>3, <1>4, <1>5 DEF CredentialHasTarget, TargetsTypeOK, PutBack
<1>8. \A n \in Manual : targetFile[n] # Nothing => targetFile'[n] # Nothing
  BY <1>1, <1>3, <1>4 DEF TargetsTypeOK
<1>9. QED
  BY <1>2, <1>6, <1>7, <1>8, ConfiguredHolds

LEMMA DeleteHolds ==
    ASSUME TargetsInv, NEW m \in Manual, DeleteTarget(m)
    PROVE  TargetsInv'
<1>1. TargetsTypeOK /\ CredentialHasTarget
  BY DEF TargetsInv
<1>2. UNCHANGED <<targetSaves, joined, operation, reservations, managerSession, connect>>
  BY DEF DeleteTarget
<1>3. TargetsTypeOK'
  BY <1>1, <1>2 DEF DeleteTarget, TargetsTypeOK, PutBack
<1>4. CredentialHasTarget'
  BY <1>1 DEF DeleteTarget, CredentialHasTarget, TargetsTypeOK, PutBack
<1>5. \A n \in Manual : targetFile[n] # Nothing =>
          targetFile'[n] # Nothing \/ \A c \in Computers : TargetOf(c) # n
  BY <1>1 DEF DeleteTarget, TargetsTypeOK
<1>6. QED
  BY <1>2, <1>3, <1>4, <1>5, ConfiguredHolds

\* Operations are cancelled and connections cut, but none is left at rest that was not
\* at rest before.
LEMMA CutHolds ==
    ASSUME TargetsInv, TargetsTypeOK',
           UNCHANGED <<configured, reservations, connect>>,
           \A c \in Computers :
               \/ joined'[c] = Nothing
               \/ joined[c] # Nothing /\ joined'[c].target = joined[c].target
                     /\ joined'[c].office = joined[c].office,
           \A c \in Computers :
               \/ operation'[c] = operation[c]
               \/ operation'[c] = NoConnect
                     /\ (joined'[c] # Nothing => connect[operation[c]].at # "commit")
    PROVE  TargetsInv'
<1>1. \A c \in Computers : TargetOf(c)' \in {TargetOf(c), Nothing}
  BY DEF TargetOf
<1>2. CurrentInv' /\ ApartInv'
  BY DEF TargetsInv, CurrentInv, ApartInv, Holding, Keys
<1>3. ExistsInv'
  <2> SUFFICES ASSUME NEW c \in Computers, TargetOf(c)' \in Manual,
                      targetFile[TargetOf(c)'] = Nothing
               PROVE  operation'[c] # NoConnect /\ connect[operation'[c]].at = "commit"
    BY DEF ExistsInv, configured
  <2>1. joined'[c] # Nothing /\ TargetOf(c)' = TargetOf(c)
    BY <1>1, ConnectionTargetsAssumption DEF TargetOf
  <2>2. operation[c] # NoConnect /\ connect[operation[c]].at = "commit"
    BY <2>1 DEF TargetsInv, ExistsInv
  <2>3. QED
    BY <2>1, <2>2
<1>4. ExclusiveTargets' /\ CredentialHasTarget'
  BY DEF TargetsInv, ExclusiveTargets, CredentialHasTarget, configured
<1>5. ASSUME NEW u \in Connects PROVE ConnectInv(u)'
  <2>1. ConnectInv(u) /\ u # NoConnect
    BY ConnectionTargetsAssumption DEF TargetsInv
  <2>2. TaskInv(u)' /\ HeldInv(u)' /\ CheckedInv(u)'
    BY <2>1 DEF ConnectInv, TaskInv, HeldInv, CheckedInv, Holding, Keys
  <2>3. ClearInv(u)'
    <3>1. connect[u].at # "idle" /\ HoldsToken(u)' => HoldsToken(u)
      BY <2>1 DEF ConnectInv, TaskInv, HoldsToken
    <3>2. QED
      BY <1>1, <2>1, <3>1 DEF ConnectInv, TaskInv, ClearInv
  <2>4. QED
    BY <2>2, <2>3 DEF ConnectInv
<1>6. QED
  BY <1>2, <1>3, <1>4, <1>5 DEF TargetsInv

LEMMA AroundHolds ==
    ASSUME TargetsInv, NEW c \in Computers, Disconnect(c) \/ LoseTransport(c) \/ Reconnect(c)
    PROVE  TargetsInv'
<1>1. TargetsTypeOK /\ Nothing \notin ConnectionState
  BY ConnectionTargetsAssumption DEF TargetsInv
<1>2. CASE Disconnect(c)
  <2>1. TargetsTypeOK'
    BY <1>1, <1>2 DEF Disconnect, TargetsTypeOK, configured
  <2>2. QED
    BY <1>1, <1>2, <2>1, CutHolds DEF Disconnect, TargetsTypeOK
<1>3. CASE LoseTransport(c) \/ Reconnect(c)
  <2>1. PICK state \in {"up", "retrying", "lost"} :
            joined' = [joined EXCEPT ![c].transport = state]
    BY <1>3 DEF LoseTransport, Reconnect
  <2>2. joined[c] \in ConnectionState
    BY <1>1, <1>3 DEF LoseTransport, Reconnect, TargetsTypeOK
  <2>3. /\ joined' \in [Computers -> ConnectionState \cup {Nothing}]
        /\ \A d \in Computers \ {c} : joined'[d] = joined[d]
        /\ joined'[c].target = joined[c].target /\ joined'[c].office = joined[c].office
    BY <1>1, <2>1, <2>2 DEF TargetsTypeOK, ConnectionState
  <2>4. UNCHANGED <<configured, operation, reservations, managerSession, connect>>
    BY <1>3 DEF LoseTransport, Reconnect
  <2>5. TargetsTypeOK'
    BY <1>1, <2>3, <2>4 DEF TargetsTypeOK, configured
  <2>6. QED
    BY <1>1, <2>2, <2>3, <2>4, <2>5, CutHolds
<1>4. QED
  BY <1>2, <1>3

LEMMA ChangeSessionHolds ==
    ASSUME TargetsInv, ChangeSession
    PROVE  TargetsInv'
<1>1. TargetsTypeOK /\ NoConnect \notin Connects
  BY ConnectionTargetsAssumption DEF TargetsInv
<1>2. TargetsTypeOK'
  BY <1>1, ConnectionTargetsAssumption DEF ChangeSession, TargetsTypeOK, configured
<1>3. \A c \in Computers : joined'[c] \in {joined[c], Nothing}
  BY DEF ChangeSession
<1>4. ASSUME NEW c \in Computers, operation'[c] # operation[c]
      PROVE  operation'[c] = NoConnect /\ connect[operation[c]].at # "commit"
  BY <1>1, <1>4 DEF ChangeSession, TargetsTypeOK
<1>5. UNCHANGED <<configured, reservations, connect>>
  BY DEF ChangeSession
<1>6. QED
  BY <1>2, <1>3, <1>4, <1>5, CutHolds

-----------------------------------------------------------------------------
LEMMA TargetsInvStep == TargetsInv /\ [TargetsNext]_targetVars => TargetsInv'
<1> SUFFICES ASSUME TargetsInv, [TargetsNext]_targetVars PROVE TargetsInv'
  OBVIOUS
<1>1. ASSUME NEW m \in Manual, DeleteTarget(m) \/ \E office \in Offices : SaveTarget(m, office)
      PROVE  TargetsInv'
  BY <1>1, DeleteHolds, SaveHolds
<1>2. ASSUME NEW t \in Connects, NEW c \in Computers,
             (\E m \in Manual : BeginManual(t, c, m)) \/ (\E r \in Robots : BeginRobot(t, c, r))
      PROVE  TargetsInv'
  BY <1>2, BeginManualHolds, BeginRobotHolds
<1>3. ASSUME NEW t \in Connects, ConnectStep(t) PROVE TargetsInv'
  BY <1>3, PrepareHolds, ResolveHolds, ReserveHolds, CheckHolds, JoinHolds, CommitHolds
     DEF ConnectStep
<1>4. ASSUME NEW c \in Computers, Disconnect(c) \/ LoseTransport(c) \/ Reconnect(c)
      PROVE  TargetsInv'
  BY <1>4, AroundHolds
<1>5. CASE ChangeSession
  BY <1>5, ChangeSessionHolds
<1>6. CASE UNCHANGED targetVars
  <2>1. TargetsTypeOK' /\ CredentialHasTarget'
    BY <1>6 DEF TargetsInv, targetVars, TargetsTypeOK, CredentialHasTarget
  <2>2. QED
    BY <1>6, <2>1, ConfiguredHolds DEF targetVars
<1>7. QED
  BY <1>1, <1>2, <1>3, <1>4, <1>5, <1>6 DEF TargetsNext

LEMMA TargetsInvariant == TargetsSpec => []TargetsInv
  BY TargetsInitInv, TargetsInvStep, PTL DEF TargetsSpec

\* Every variable keeps its type, for any number of Computers and connects.
THEOREM TargetsTyped == TargetsSpec => []TargetsTypeOK
<1>1. TargetsInv => TargetsTypeOK
  BY DEF TargetsInv
<1>2. QED
  BY <1>1, TargetsInvariant, PTL

\* No two Computers are connected to one target or in one office, however their
\* connects interleave; a connection at rest has its target in the file; and a
\* credential has its target, but for the failures that were reported.
THEOREM TargetsAreExclusive == TargetsSpec => []TargetsHold
<1>1. TargetsInv => ConnectedTargetExists
  BY DEF TargetsInv, ExistsInv, ConnectedTargetExists
<1>2. TargetsInv => TargetsHold
  BY <1>1 DEF TargetsInv, TargetsHold
<1>3. QED
  BY <1>2, TargetsInvariant, PTL

=============================================================================
