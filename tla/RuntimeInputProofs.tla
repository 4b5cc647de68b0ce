------------------------- MODULE RuntimeInputProofs -------------------------
(***************************************************************************)
(* Proofs about RuntimeInput, for any number of operations, request ids,   *)
(* calls, sessions, reloads and losses.                                    *)
(***************************************************************************)
EXTENDS RuntimeInput, TLAPS

Active == Answerable \cup {"abandoning"}

\* An operation has a request exactly while it is inside request() or settles.
ActiveHasRequest ==
    \A o \in Operations :
        IF pc[o] \in Active THEN req[o] \in Requests
                            ELSE req[o] = NoRequest /\ channel[o] = NoCall

-----------------------------------------------------------------------------
(* Type correctness. *)

LEMMA InitType == Init => TypeOK
  <1> SUFFICES ASSUME Init PROVE TypeOK
    OBVIOUS
  <1>1. BridgeTypeOK
    BY NothingAssumption DEF Init, BridgeTypeOK, Points
  <1>2. events \in Seq(Requests) /\ store \in Seq(Requests)
    BY DEF Init
  <1>3. /\ session \in Sessions /\ sequence \in 0..MaxLeases
        /\ reloads \in 0..MaxReloads /\ losses \in 0..MaxLosses
    BY BoundsAssumption DEF Init, Sessions
  <1>4. submitting \in BOOLEAN
    BY DEF Init
  <1> QED
    BY <1>1, <1>2, <1>3, <1>4 DEF TypeOK

\* One step of an operation, of a call or of the page keeps every type.
LEMMA TypeStep == TypeOK /\ ActiveHasRequest /\ [Next]_vars => TypeOK'
  <1> SUFFICES ASSUME TypeOK, ActiveHasRequest, [Next]_vars PROVE TypeOK'
    OBVIOUS
  <1> USE NothingAssumption, BoundsAssumption
          DEF TypeOK, BridgeTypeOK, Points, Results, Sessions
  <1>1. ASSUME NEW o \in Operations, Begin(o) PROVE TypeOK'
    BY <1>1 DEF Begin, Goto, bridge, operations, calls, page, bounds
  <1>2. ASSUME NEW o \in Operations, End(o) PROVE TypeOK'
    BY <1>2 DEF End, Goto, bridge, operations, calls, page, bounds
  <1>3. ASSUME NEW o \in Operations, Ask(o) PROVE TypeOK'
    BY <1>3 DEF Ask, Goto, bridge, operations, calls, page, bounds
  <1>4. ASSUME NEW o \in Operations, Register(o) PROVE TypeOK'
    BY <1>4 DEF Register, Goto, Fresh, bridge, operations, calls, page, bounds
  <1>5. ASSUME NEW o \in Operations, NotReady(o) PROVE TypeOK'
    BY <1>5 DEF NotReady, Goto, Fail, bridge, operations, calls, page, bounds
  <1>6. ASSUME NEW o \in Operations, Emit(o) PROVE TypeOK'
    <2>1. req[o] \in Requests
      BY <1>6 DEF Emit, ActiveHasRequest, Active, Answerable
    <2>2. events' \in Seq(Requests)
      <3>1. events' \in {events, Append(events, req[o])}
        BY <1>6 DEF Emit
      <3>2. Append(events, req[o]) \in Seq(Requests)
        BY <2>1
      <3> QED
        BY <3>1, <3>2
    <2>3. pc' \in [Operations -> Points]
      BY <1>6 DEF Emit, Goto
    <2> QED
      BY <1>6, <2>2, <2>3 DEF Emit, bridge, operations, calls, bounds
  <1>7. ASSUME NEW o \in Operations, Receive(o) PROVE TypeOK'
    BY <1>7 DEF Receive, Goto, bridge, operations, calls, page, bounds
  <1>8. ASSUME NEW o \in Operations, Interrupted(o) PROVE TypeOK'
    BY <1>8 DEF Interrupted, Goto, bridge, operations, calls, page, bounds
  <1>9. ASSUME NEW o \in Operations, Discard(o) PROVE TypeOK'
    BY <1>9 DEF Discard, Goto, Fail, EndRequest, ReleaseQueue, RejectCall,
        bridge, operations, calls, page, bounds
  <1>10. ASSUME NEW o \in Operations, ReturnResponse(o) PROVE TypeOK'
    BY <1>10 DEF ReturnResponse, Goto, ReleaseQueue, bridge, operations,
        calls, page, bounds
  <1>11. ASSUME NEW o \in Operations, Settle(o) PROVE TypeOK'
    BY <1>11 DEF Settle, Goto, Fail, EndRequest, RejectCall, ActiveHasRequest,
        Active, Answerable, bridge, operations, calls, page, bounds
  <1>12. ASSUME NEW o \in Operations, Abandon(o) PROVE TypeOK'
    BY <1>12 DEF Abandon, Goto, EndRequest, ReleaseQueue, RejectCall, bridge,
        operations, calls, page, bounds
  <1>13. ASSUME NEW c \in Calls, TakeSender(c) PROVE TypeOK'
    BY <1>13 DEF TakeSender, bridge, operations, calls, page, bounds
  <1>14. ASSUME NEW c \in Calls, SendResponse(c) PROVE TypeOK'
    <2>1. channel' \in [Operations -> Calls \cup {NoCall}]
      BY <1>14 DEF SendResponse
    <2>2. at' \in [Calls -> {"idle", "flying", "taken", "waiting", "refresh"}
                              \cup Results]
      BY <1>14 DEF SendResponse
    <2> QED
      BY <1>14, <2>1, <2>2 DEF SendResponse, bridge, operations, calls, page, bounds
  <1>15. ASSUME NEW c \in Calls, Told(c) PROVE TypeOK'
    <2>1. store' \in Seq(Requests)
      <3>1. store' \in {store, Remove(request[c])}
        BY <1>15 DEF Told
      <3>2. Remove(request[c]) \in Seq(Requests)
        BY DEF Remove
      <3> QED
        BY <3>1, <3>2
    <2>4. submitting' \in BOOLEAN
      BY <1>15 DEF Told
    <2>2. EndCall(c, "idle") \/ EndCall(c, "refresh")
      BY <1>15 DEF Told
    <2>3. /\ at' \in [Calls -> {"idle", "flying", "taken", "waiting", "refresh"}
                                 \cup Results]
          /\ request' \in [Calls -> Requests \cup {NoRequest}]
          /\ completion' \in [Calls -> {"none", "confirmed", "cancelled"}]
          /\ effect' \in [Calls -> {"none", "stored", "cancelled"}]
          /\ heard' \in [Calls -> BOOLEAN]
      BY <2>2 DEF EndCall
    <2> QED
      BY <1>15, <2>1, <2>3, <2>4 DEF Told, bridge, operations, bounds
  <1>16. ASSUME NEW c \in Calls, Refreshed(c) PROVE TypeOK'
    BY <1>16 DEF Refreshed, EndCall, bridge, operations, calls, page, bounds
  <1>17. ASSUME NEW c \in Calls, LoseCall(c) PROVE TypeOK'
    BY <1>17 DEF LoseCall, EndCall, bridge, operations, calls, page, bounds
  <1>18. ASSUME NEW c \in Calls, NEW choice \in {"confirmed", "cancelled"},
               Answer(c, choice)
        PROVE TypeOK'
    BY <1>18 DEF Answer, bridge, operations, calls, page, bounds
  <1>19. CASE Deliver
    BY <1>19 DEF Deliver, bridge, operations, calls, page, bounds
  <1>20. CASE OpenSession
    BY <1>20 DEF OpenSession, bridge, operations, calls, page, bounds
  <1>21. CASE Listen
    BY <1>21 DEF Listen, bridge, operations, calls, page, bounds
  <1>22. CASE StartFails
    BY <1>22 DEF StartFails, bridge, operations, calls, page, bounds
  <1>23. CASE SetReady
    BY <1>23 DEF SetReady, bridge, operations, calls, page, bounds
  <1>24. CASE CloseSession
    BY <1>24 DEF CloseSession, bridge, operations, calls, page, bounds
  <1>25. CASE UnsetReady
    BY <1>25 DEF UnsetReady, bridge, operations, calls, page, bounds
  <1>26. CASE LoseShutdown
    BY <1>26 DEF LoseShutdown, bridge, operations, calls, page, bounds
  <1>27. CASE Dispose
    <2>1. <<>> \in Seq(Requests)
      OBVIOUS
    <2>2. store' \in Seq(Requests) /\ events' \in Seq(Requests)
      BY <1>27, <2>1 DEF Dispose, Unmount
    <2>3. /\ session' \in Sessions /\ sequence' \in 0..MaxLeases
          /\ reloads' \in 0..MaxReloads /\ losses' \in 0..MaxLosses
      BY <1>27 DEF Dispose, Unmount, bounds
    <2>5. submitting' \in BOOLEAN
      BY <1>27 DEF Dispose, Unmount
    <2>4. BridgeTypeOK'
      BY <1>27 DEF Dispose, Unmount, bridge, operations
    <2> QED
      BY <2>2, <2>3, <2>4, <2>5
  <1>28. CASE Reload
    <2>1. <<>> \in Seq(Requests)
      OBVIOUS
    <2>2. store' \in Seq(Requests) /\ events' \in Seq(Requests)
      BY <1>28, <2>1 DEF Reload, Unmount
    <2>3. /\ session' \in Sessions /\ sequence' \in 0..MaxLeases
          /\ reloads' \in 0..MaxReloads /\ losses' \in 0..MaxLosses
      BY <1>28 DEF Reload, Unmount, bounds
    <2>5. submitting' \in BOOLEAN
      BY <1>28 DEF Reload, Unmount
    <2>4. BridgeTypeOK'
      BY <1>28 DEF Reload, Unmount, bridge, operations
    <2> QED
      BY <2>2, <2>3, <2>4, <2>5
  <1>29. CASE UNCHANGED vars
    BY <1>29 DEF vars, bridge, operations, calls, page, bounds
  <1> QED
    BY <1>1, <1>2, <1>3, <1>4, <1>5, <1>6, <1>7, <1>8, <1>9, <1>10, <1>11,
        <1>12, <1>13, <1>14, <1>15, <1>16, <1>17, <1>18, <1>19, <1>20, <1>21,
        <1>22, <1>23, <1>24, <1>25, <1>26, <1>27, <1>28, <1>29
       DEF Next, OperationNext, CallNext, PageNext


-----------------------------------------------------------------------------
(* The inductive invariant. *)

\* The queue is held from the registration until request() is left.
HolderPrompts ==
    \A o \in Operations : holder = o <=> pc[o] \in Prompting \cup {"received"}

\* A request id belongs to one operation.
RequestsDiffer ==
    \A o, p \in Operations : req[o] = req[p] /\ req[o] # NoRequest => o = p

\* What is in an operation's channel answers its request and is still waited for.
ChannelAnswers ==
    \A o \in Operations :
        channel[o] # NoCall =>
            /\ pc[o] \in Answerable
            /\ at[channel[o]] = "waiting"
            /\ request[channel[o]] = req[o]

\* An operation that has left the wait has a response.
ReceivedIsAnswered ==
    \A o \in Operations : pc[o] \in {"received", "settle"} => channel[o] # NoCall

\* A call that got the sender took it away from everybody else.
SenderIsTaken ==
    \A c \in Calls :
        at[c] \in {"taken", "waiting"} =>
            /\ request[c] \in Requests \ pending
            /\ \A d \in Calls : /\ at[d] \in {"taken", "waiting"}
                                /\ request[d] = request[c]
                                => d = c

\* Only an acknowledged call has had an effect.
EffectIsAcknowledged == \A c \in Calls : at[c] # "ok" => effect[c] = "none"

IInv == /\ TypeOK /\ ActiveHasRequest /\ HolderPrompts /\ RequestsDiffer
        /\ PendingIsAwaited /\ ChannelAnswers /\ ReceivedIsAnswered
        /\ WaitingCallIsHeld /\ SenderIsTaken
        /\ EffectIsAcknowledged /\ ToldTheTruth /\ NoPromptAfterFailure


LEMMA InitInv == Init => IInv
  BY InitType, NothingAssumption
     DEF Init, IInv, Active, Answerable, Prompting, ActiveHasRequest, HolderPrompts,
         RequestsDiffer, PendingIsAwaited, ChannelAnswers, ReceivedIsAnswered,
         WaitingCallIsHeld, SenderIsTaken, EffectIsAcknowledged, ToldTheTruth,
         NoPromptAfterFailure

\* What the page does on its own, and a stutter, disturbs nothing.
LEMMA PageKeeps ==
    ASSUME IInv, TypeOK',
           UNCHANGED <<bridge, operations, at, request, completion, effect>>
    PROVE  IInv'
  BY DEF IInv, bridge, operations, Active, Answerable, Prompting, ActiveHasRequest,
         HolderPrompts, RequestsDiffer, PendingIsAwaited, ChannelAnswers,
         ReceivedIsAnswered, WaitingCallIsHeld, SenderIsTaken, EffectIsAcknowledged,
         ToldTheTruth, NoPromptAfterFailure

LEMMA BeginKeeps ==
    ASSUME NEW o \in Operations, IInv, TypeOK', Begin(o)
    PROVE  IInv'
  <1> USE NothingAssumption DEF IInv, TypeOK, BridgeTypeOK
  <1>1. ActiveHasRequest'
    BY DEF Begin, Goto, Active, Answerable, ActiveHasRequest
  <1>2. HolderPrompts'
    BY DEF Begin, Goto, bridge, Prompting, HolderPrompts
  <1>3. PendingIsAwaited'
    BY DEF Begin, Goto, bridge, Prompting, PendingIsAwaited
  <1>4. ChannelAnswers'
    BY DEF Begin, Goto, calls, Answerable, ChannelAnswers
  <1>5. ReceivedIsAnswered'
    BY DEF Begin, Goto, ReceivedIsAnswered
  <1>6. WaitingCallIsHeld'
    BY DEF Begin, Goto, calls, Answerable, WaitingCallIsHeld
  <1>7. NoPromptAfterFailure'
    BY DEF Begin, Goto, NoPromptAfterFailure
  <1>8. /\ RequestsDiffer'
         /\ SenderIsTaken'
         /\ EffectIsAcknowledged'
         /\ ToldTheTruth'
    BY DEF Begin, bridge, calls, RequestsDiffer, SenderIsTaken,
        EffectIsAcknowledged, ToldTheTruth
  <1> QED
    BY <1>1, <1>2, <1>3, <1>4, <1>5, <1>6, <1>7, <1>8

LEMMA EndKeeps ==
    ASSUME NEW o \in Operations, IInv, TypeOK', End(o)
    PROVE  IInv'
  <1> USE NothingAssumption DEF IInv, TypeOK, BridgeTypeOK
  <1>1. ActiveHasRequest'
    BY DEF End, Goto, Active, Answerable, ActiveHasRequest
  <1>2. HolderPrompts'
    BY DEF End, Goto, bridge, Prompting, HolderPrompts
  <1>3. PendingIsAwaited'
    BY DEF End, Goto, bridge, Prompting, PendingIsAwaited
  <1>4. ChannelAnswers'
    BY DEF End, Goto, calls, Answerable, ChannelAnswers
  <1>5. ReceivedIsAnswered'
    BY DEF End, Goto, ReceivedIsAnswered
  <1>6. WaitingCallIsHeld'
    BY DEF End, Goto, calls, Answerable, WaitingCallIsHeld
  <1>7. NoPromptAfterFailure'
    BY DEF End, Goto, NoPromptAfterFailure
  <1>8. /\ RequestsDiffer'
         /\ SenderIsTaken'
         /\ EffectIsAcknowledged'
         /\ ToldTheTruth'
    BY DEF End, bridge, calls, RequestsDiffer, SenderIsTaken,
        EffectIsAcknowledged, ToldTheTruth
  <1> QED
    BY <1>1, <1>2, <1>3, <1>4, <1>5, <1>6, <1>7, <1>8

LEMMA AskKeeps ==
    ASSUME NEW o \in Operations, IInv, TypeOK', Ask(o)
    PROVE  IInv'
  <1> USE NothingAssumption DEF IInv, TypeOK, BridgeTypeOK
  <1>1. ActiveHasRequest'
    BY DEF Ask, Goto, Active, Answerable, ActiveHasRequest
  <1>2. HolderPrompts'
    BY DEF Ask, Goto, bridge, Prompting, HolderPrompts
  <1>3. PendingIsAwaited'
    BY DEF Ask, Goto, bridge, Prompting, PendingIsAwaited
  <1>4. ChannelAnswers'
    BY DEF Ask, Goto, calls, Answerable, ChannelAnswers
  <1>5. ReceivedIsAnswered'
    BY DEF Ask, Goto, ReceivedIsAnswered
  <1>6. WaitingCallIsHeld'
    BY DEF Ask, Goto, calls, Answerable, WaitingCallIsHeld
  <1>7. NoPromptAfterFailure'
    BY DEF Ask, Goto, NoPromptAfterFailure
  <1>8. /\ RequestsDiffer'
         /\ SenderIsTaken'
         /\ EffectIsAcknowledged'
         /\ ToldTheTruth'
    BY DEF Ask, bridge, calls, RequestsDiffer, SenderIsTaken,
        EffectIsAcknowledged, ToldTheTruth
  <1> QED
    BY <1>1, <1>2, <1>3, <1>4, <1>5, <1>6, <1>7, <1>8

LEMMA RegisterKeeps ==
    ASSUME NEW o \in Operations, IInv, TypeOK', Register(o)
    PROVE  IInv'
  <1> USE NothingAssumption DEF IInv, TypeOK, BridgeTypeOK
  <1>1. ActiveHasRequest'
    BY DEF Register, Goto, Fresh, Active, Answerable, ActiveHasRequest
  <1>2. HolderPrompts'
    BY DEF Register, Goto, Prompting, HolderPrompts
  <1>3. RequestsDiffer'
    BY DEF Register, Fresh, RequestsDiffer
  <1>4. PendingIsAwaited'
    BY DEF Register, Goto, Fresh, Prompting, PendingIsAwaited
  <1>5. ChannelAnswers'
    BY DEF Register, Goto, Fresh, calls, Answerable, ChannelAnswers
  <1>6. ReceivedIsAnswered'
    BY DEF Register, Goto, ReceivedIsAnswered
  <1>7. WaitingCallIsHeld'
    <2> SUFFICES ASSUME NEW d \in Calls, at'[d] = "waiting"
                 PROVE  \E p \in Operations : /\ channel'[p] = d
                                            /\ req'[p] = request'[d]
                                            /\ pc'[p] \in Answerable
      BY DEF WaitingCallIsHeld
    <2>1. PICK p \in Operations : /\ channel[p] = d /\ req[p] = request[d]
                                 /\ pc[p] \in Answerable
      BY DEF Register, WaitingCallIsHeld, calls
    <2>2. p # o
      BY <2>1 DEF Register, Answerable
    <2> QED
      BY <2>1, <2>2 DEF Register, Goto, calls
  <1>8. SenderIsTaken'
    BY DEF Register, Fresh, calls, SenderIsTaken
  <1>9. NoPromptAfterFailure'
    BY DEF Register, Goto, NoPromptAfterFailure
  <1>10. EffectIsAcknowledged' /\ ToldTheTruth'
    BY DEF Register, calls, EffectIsAcknowledged, ToldTheTruth
  <1> QED
    BY <1>1, <1>2, <1>3, <1>4, <1>5, <1>6, <1>7, <1>8, <1>9, <1>10

LEMMA NotReadyKeeps ==
    ASSUME NEW o \in Operations, IInv, TypeOK', NotReady(o)
    PROVE  IInv'
  <1> USE NothingAssumption DEF IInv, TypeOK, BridgeTypeOK
  <1>1. ActiveHasRequest'
    BY DEF NotReady, Goto, Active, Answerable, ActiveHasRequest
  <1>2. HolderPrompts'
    BY DEF NotReady, Goto, bridge, Prompting, HolderPrompts
  <1>3. PendingIsAwaited'
    BY DEF NotReady, Goto, bridge, Prompting, PendingIsAwaited
  <1>4. ChannelAnswers'
    BY DEF NotReady, Goto, calls, Answerable, ChannelAnswers
  <1>5. ReceivedIsAnswered'
    BY DEF NotReady, Goto, ReceivedIsAnswered
  <1>6. WaitingCallIsHeld'
    BY DEF NotReady, Goto, calls, Answerable, WaitingCallIsHeld
  <1>7. NoPromptAfterFailure'
    BY DEF NotReady, Goto, Fail, NoPromptAfterFailure
  <1>8. /\ RequestsDiffer'
         /\ SenderIsTaken'
         /\ EffectIsAcknowledged'
         /\ ToldTheTruth'
    BY DEF NotReady, bridge, calls, RequestsDiffer, SenderIsTaken,
        EffectIsAcknowledged, ToldTheTruth
  <1> QED
    BY <1>1, <1>2, <1>3, <1>4, <1>5, <1>6, <1>7, <1>8

LEMMA EmitKeeps ==
    ASSUME NEW o \in Operations, IInv, TypeOK', Emit(o)
    PROVE  IInv'
  <1> USE NothingAssumption DEF IInv, TypeOK, BridgeTypeOK
  <1>1. ActiveHasRequest'
    BY DEF Emit, Goto, Active, Answerable, ActiveHasRequest
  <1>2. HolderPrompts'
    BY DEF Emit, Goto, bridge, Prompting, HolderPrompts
  <1>3. PendingIsAwaited'
    BY DEF Emit, Goto, bridge, Prompting, PendingIsAwaited
  <1>4. ChannelAnswers'
    <2>1. pc'[o] \in Answerable /\ \A p \in Operations : p # o => pc'[p] = pc[p]
      BY DEF Emit, Goto, Answerable
    <2>2. channel' = channel /\ at' = at /\ request' = request /\ req' = req
      BY DEF Emit, calls
    <2> QED
      BY <2>1, <2>2 DEF ChannelAnswers
  <1>5. ReceivedIsAnswered'
    BY DEF Emit, Goto, ReceivedIsAnswered
  <1>6. WaitingCallIsHeld'
    BY DEF Emit, Goto, calls, Answerable, WaitingCallIsHeld
  <1>7. NoPromptAfterFailure'
    BY DEF Emit, Goto, NoPromptAfterFailure
  <1>8. /\ RequestsDiffer'
         /\ SenderIsTaken'
         /\ EffectIsAcknowledged'
         /\ ToldTheTruth'
    BY DEF Emit, bridge, calls, RequestsDiffer, SenderIsTaken,
        EffectIsAcknowledged, ToldTheTruth
  <1> QED
    BY <1>1, <1>2, <1>3, <1>4, <1>5, <1>6, <1>7, <1>8

LEMMA ReceiveKeeps ==
    ASSUME NEW o \in Operations, IInv, TypeOK', Receive(o)
    PROVE  IInv'
  <1> USE NothingAssumption DEF IInv, TypeOK, BridgeTypeOK
  <1>1. ActiveHasRequest'
    BY DEF Receive, Goto, Active, Answerable, ActiveHasRequest
  <1>2. HolderPrompts'
    BY DEF Receive, Goto, bridge, Prompting, HolderPrompts
  <1>3. PendingIsAwaited'
    <2>1. req[o] \notin pending /\ holder = o
      BY DEF Receive, ChannelAnswers, SenderIsTaken, HolderPrompts, Prompting
    <2>2. pending = {}
      BY <2>1 DEF PendingIsAwaited
    <2> QED
      BY <2>2 DEF Receive, PendingIsAwaited, bridge
  <1>4. ChannelAnswers'
    BY DEF Receive, Goto, calls, Answerable, ChannelAnswers
  <1>5. ReceivedIsAnswered'
    BY DEF Receive, Goto, ReceivedIsAnswered
  <1>6. WaitingCallIsHeld'
    BY DEF Receive, Goto, calls, Answerable, WaitingCallIsHeld
  <1>7. NoPromptAfterFailure'
    BY DEF Receive, Goto, NoPromptAfterFailure
  <1>8. /\ RequestsDiffer'
         /\ SenderIsTaken'
         /\ EffectIsAcknowledged'
         /\ ToldTheTruth'
    BY DEF Receive, bridge, calls, RequestsDiffer, SenderIsTaken,
        EffectIsAcknowledged, ToldTheTruth
  <1> QED
    BY <1>1, <1>2, <1>3, <1>4, <1>5, <1>6, <1>7, <1>8

LEMMA InterruptedKeeps ==
    ASSUME NEW o \in Operations, IInv, TypeOK', Interrupted(o)
    PROVE  IInv'
  <1> USE NothingAssumption DEF IInv, TypeOK, BridgeTypeOK
  <1>1. ActiveHasRequest'
    BY DEF Interrupted, Goto, Active, Answerable, ActiveHasRequest
  <1>2. HolderPrompts'
    BY DEF Interrupted, Goto, bridge, Prompting, HolderPrompts
  <1>3. PendingIsAwaited'
    BY DEF Interrupted, Goto, bridge, Prompting, PendingIsAwaited
  <1>4. ChannelAnswers'
    BY DEF Interrupted, Goto, calls, Answerable, ChannelAnswers
  <1>5. ReceivedIsAnswered'
    BY DEF Interrupted, Goto, ReceivedIsAnswered
  <1>6. WaitingCallIsHeld'
    BY DEF Interrupted, Goto, calls, Answerable, WaitingCallIsHeld
  <1>7. NoPromptAfterFailure'
    BY DEF Interrupted, Goto, NoPromptAfterFailure
  <1>8. /\ RequestsDiffer'
         /\ SenderIsTaken'
         /\ EffectIsAcknowledged'
         /\ ToldTheTruth'
    BY DEF Interrupted, bridge, calls, RequestsDiffer, SenderIsTaken,
        EffectIsAcknowledged, ToldTheTruth
  <1> QED
    BY <1>1, <1>2, <1>3, <1>4, <1>5, <1>6, <1>7, <1>8

LEMMA DiscardKeeps ==
    ASSUME NEW o \in Operations, IInv, TypeOK', Discard(o)
    PROVE  IInv'
  <1> USE NothingAssumption DEF IInv, TypeOK, BridgeTypeOK
  <1>1. channel[o] # NoCall =>
            /\ channel[o] \in Calls /\ at[channel[o]] = "waiting"
            /\ effect[channel[o]] = "none"
    BY DEF ChannelAnswers, EffectIsAcknowledged
  <1>2. \A p \in Operations : p # o /\ channel[p] # NoCall => channel[p] # channel[o]
    BY DEF ChannelAnswers, RequestsDiffer, ActiveHasRequest, Active
  <1>3. \A d \in Calls : at'[d] = IF d = channel[o] THEN "rejected" ELSE at[d]
    BY <1>1 DEF Discard, RejectCall
  <1>4. effect' = effect /\ request' = request /\ completion' = completion
    BY DEF Discard
  <1>5. ActiveHasRequest'
    BY DEF Discard, Goto, EndRequest, Active, Answerable, ActiveHasRequest
  <1>6. HolderPrompts'
    BY DEF Discard, Goto, ReleaseQueue, Prompting, HolderPrompts
  <1>7. RequestsDiffer'
    BY DEF Discard, EndRequest, RequestsDiffer
  <1>8. PendingIsAwaited'
    BY DEF Discard, Goto, EndRequest, ReleaseQueue, Prompting,
        PendingIsAwaited
  <1>9. ChannelAnswers'
    BY <1>2, <1>3, <1>4
       DEF Discard, Goto, EndRequest, ChannelAnswers, Answerable
  <1>10. ReceivedIsAnswered'
    BY DEF Discard, Goto, EndRequest, ReceivedIsAnswered
  <1>11. WaitingCallIsHeld'
    BY DEF Discard, Goto, EndRequest, RejectCall, Answerable,
        WaitingCallIsHeld
  <1>12. SenderIsTaken'
    BY DEF Discard, RejectCall, SenderIsTaken
  <1>13. EffectIsAcknowledged'
    BY <1>1, <1>3, <1>4 DEF EffectIsAcknowledged
  <1>14. ToldTheTruth'
    BY <1>1, <1>3, <1>4 DEF ToldTheTruth
  <1>15. NoPromptAfterFailure'
    BY DEF Discard, Goto, Fail, NoPromptAfterFailure
  <1> QED
    BY <1>5, <1>6, <1>7, <1>8, <1>9, <1>10, <1>11, <1>12, <1>13, <1>14, <1>15

LEMMA ReturnResponseKeeps ==
    ASSUME NEW o \in Operations, IInv, TypeOK', ReturnResponse(o)
    PROVE  IInv'
  <1> USE NothingAssumption DEF IInv, TypeOK, BridgeTypeOK
  <1>1. ActiveHasRequest'
    BY DEF ReturnResponse, Goto, Active, Answerable, ActiveHasRequest
  <1>2. HolderPrompts'
    BY DEF ReturnResponse, Goto, ReleaseQueue, Prompting, HolderPrompts
  <1>3. PendingIsAwaited'
    BY DEF ReturnResponse, Goto, ReleaseQueue, Prompting, PendingIsAwaited
  <1>4. ChannelAnswers'
    BY DEF ReturnResponse, Goto, calls, Answerable, ChannelAnswers
  <1>5. ReceivedIsAnswered'
    BY DEF ReturnResponse, Goto, ReceivedIsAnswered
  <1>6. WaitingCallIsHeld'
    BY DEF ReturnResponse, Goto, calls, Answerable, WaitingCallIsHeld
  <1>7. NoPromptAfterFailure'
    BY DEF ReturnResponse, Goto, NoPromptAfterFailure
  <1>8. /\ RequestsDiffer'
         /\ SenderIsTaken'
         /\ EffectIsAcknowledged'
         /\ ToldTheTruth'
    BY DEF ReturnResponse, calls, RequestsDiffer, SenderIsTaken,
        EffectIsAcknowledged, ToldTheTruth
  <1> QED
    BY <1>1, <1>2, <1>3, <1>4, <1>5, <1>6, <1>7, <1>8

LEMMA SettleKeeps ==
    ASSUME NEW o \in Operations, IInv, TypeOK', Settle(o)
    PROVE  IInv'
  <1> USE NothingAssumption DEF IInv, TypeOK, BridgeTypeOK
  <1>1. /\ channel[o] \in Calls /\ at[channel[o]] = "waiting"
        /\ effect[channel[o]] = "none"
    BY DEF Settle, ReceivedIsAnswered, ChannelAnswers, EffectIsAcknowledged
  <1>2. \A p \in Operations : p # o /\ channel[p] # NoCall => channel[p] # channel[o]
    BY <1>1 DEF ChannelAnswers, RequestsDiffer, ActiveHasRequest, Active
  <1>3. \A d \in Calls : d # channel[o] => at'[d] = at[d] /\ effect'[d] = effect[d]
    BY DEF Settle, RejectCall
  <1>4. completion' = completion /\ request' = request
    BY DEF Settle
  <1>5. \/ /\ at'[channel[o]] = "ok"
           /\ effect'[channel[o]] = IF completion[channel[o]] = "confirmed"
                                    THEN "stored" ELSE "cancelled"
        \/ at'[channel[o]] = "rejected" /\ effect'[channel[o]] = "none"
    BY <1>1 DEF Settle, RejectCall
  <1>6. ActiveHasRequest'
    BY DEF Settle, Goto, EndRequest, Active, Answerable, ActiveHasRequest
  <1>7. HolderPrompts'
    BY DEF Settle, Goto, bridge, Prompting, HolderPrompts
  <1>8. RequestsDiffer'
    BY DEF Settle, EndRequest, RequestsDiffer
  <1>9. PendingIsAwaited'
    BY DEF Settle, Goto, EndRequest, bridge, Prompting, PendingIsAwaited
  <1>10. ChannelAnswers'
    BY <1>2, <1>3, <1>4
       DEF Settle, Goto, EndRequest, ChannelAnswers, Answerable
  <1>11. ReceivedIsAnswered'
    BY DEF Settle, Goto, EndRequest, ReceivedIsAnswered
  <1>12. WaitingCallIsHeld'
    <2> SUFFICES ASSUME NEW d \in Calls, at'[d] = "waiting"
                 PROVE  \E p \in Operations : /\ channel'[p] = d
                                            /\ req'[p] = request'[d]
                                            /\ pc'[p] \in Answerable
      BY DEF WaitingCallIsHeld
    <2>1. d # channel[o] /\ at[d] = "waiting"
      BY <1>3, <1>5
    <2>2. PICK p \in Operations : /\ channel[p] = d /\ req[p] = request[d]
                                 /\ pc[p] \in Answerable
      BY <2>1 DEF WaitingCallIsHeld
    <2> QED
      BY <1>4, <2>1, <2>2 DEF Settle, Goto, EndRequest
  <1>13. SenderIsTaken'
    BY DEF Settle, RejectCall, bridge, SenderIsTaken
  <1>14. EffectIsAcknowledged'
    BY <1>3, <1>5 DEF EffectIsAcknowledged
  <1>15. ToldTheTruth'
    BY <1>3, <1>4, <1>5 DEF ToldTheTruth
  <1>16. NoPromptAfterFailure'
    BY DEF Settle, Goto, Fail, NoPromptAfterFailure
  <1> QED
    BY <1>6, <1>7, <1>8, <1>9, <1>10, <1>11, <1>12, <1>13, <1>14, <1>15, <1>16

LEMMA AbandonKeeps ==
    ASSUME NEW o \in Operations, IInv, TypeOK', Abandon(o)
    PROVE  IInv'
  <1> USE NothingAssumption DEF IInv, TypeOK, BridgeTypeOK
  <1>1. channel[o] # NoCall =>
            /\ channel[o] \in Calls /\ at[channel[o]] = "waiting"
            /\ effect[channel[o]] = "none"
    BY DEF ChannelAnswers, EffectIsAcknowledged
  <1>2. \A p \in Operations : p # o /\ channel[p] # NoCall => channel[p] # channel[o]
    BY DEF ChannelAnswers, RequestsDiffer, ActiveHasRequest, Active
  <1>3. \A d \in Calls : \/ at'[d] = at[d]
                         \/ d = channel[o] /\ at'[d] = "rejected"
    BY <1>1 DEF Abandon, RejectCall, ReceivedIsAnswered
  <1>4. effect' = effect /\ request' = request /\ completion' = completion
    BY DEF Abandon
  <1>5. \A p \in Operations : p # o => /\ pc'[p] = pc[p] /\ req'[p] = req[p]
                                     /\ channel'[p] = channel[p]
    BY DEF Abandon, Goto, EndRequest, bridge
  <1>6. channel'[o] = NoCall
    BY DEF Abandon, EndRequest, ActiveHasRequest, Active, Answerable
  <1>7. channel[o] # NoCall => at'[channel[o]] = "rejected"
    BY <1>1 DEF Abandon, RejectCall, ActiveHasRequest, Active, Answerable
  <1>8. ActiveHasRequest'
    BY DEF Abandon, Goto, EndRequest, Active, Answerable, ActiveHasRequest
  <1>9. HolderPrompts'
    <2>1. CASE pc[o] = "received"
      <3>1. holder = o
        BY <2>1 DEF HolderPrompts
      <3>2. holder' = NoOperation /\ pc'[o] = "Idle"
        BY <2>1, <3>1 DEF Abandon, Goto, ReleaseQueue
      <3>3. \A p \in Operations : p # o => pc[p] \notin Prompting \cup {"received"}
        BY <3>1 DEF HolderPrompts
      <3> QED
        BY <1>5, <3>2, <3>3 DEF HolderPrompts, Prompting
    <2>2. CASE pc[o] = "await"
      BY <2>2 DEF Abandon, Goto, bridge, HolderPrompts, Prompting
    <2>3. CASE pc[o] = "queued"
      BY <2>3 DEF Abandon, Goto, bridge, HolderPrompts, Prompting
    <2> QED
      BY <2>1, <2>2, <2>3 DEF Abandon
  <1>10. RequestsDiffer'
    BY DEF Abandon, EndRequest, RequestsDiffer
  <1>11. PendingIsAwaited'
    BY DEF Abandon, Goto, EndRequest, ReleaseQueue, bridge, Prompting,
        PendingIsAwaited
  <1>12. ChannelAnswers'
    <2> SUFFICES ASSUME NEW p \in Operations, channel'[p] # NoCall
                 PROVE  /\ pc'[p] \in Answerable
                        /\ at'[channel'[p]] = "waiting"
                        /\ request'[channel'[p]] = req'[p]
      BY DEF ChannelAnswers
    <2>1. p # o
      BY <1>6
    <2>2. channel'[p] = channel[p] /\ channel[p] \in Calls /\ channel[p] # channel[o]
      BY <1>2, <1>5, <2>1
    <2> QED
      BY <1>3, <1>4, <1>5, <2>1, <2>2 DEF ChannelAnswers
  <1>13. ReceivedIsAnswered'
    BY DEF Abandon, Goto, EndRequest, ReceivedIsAnswered
  <1>14. WaitingCallIsHeld'
    <2> SUFFICES ASSUME NEW d \in Calls, at'[d] = "waiting"
                 PROVE  \E p \in Operations : /\ channel'[p] = d
                                            /\ req'[p] = request'[d]
                                            /\ pc'[p] \in Answerable
      BY DEF WaitingCallIsHeld
    <2>1. d # channel[o] /\ at[d] = "waiting"
      BY <1>3, <1>7
    <2>2. PICK p \in Operations : /\ channel[p] = d /\ req[p] = request[d]
                                 /\ pc[p] \in Answerable
      BY <2>1 DEF WaitingCallIsHeld
    <2> QED
      BY <1>4, <1>5, <2>1, <2>2
  <1>15. SenderIsTaken'
    BY DEF Abandon, RejectCall, bridge, SenderIsTaken
  <1>16. EffectIsAcknowledged'
    BY <1>1, <1>3, <1>4 DEF EffectIsAcknowledged
  <1>17. ToldTheTruth'
    BY <1>1, <1>3, <1>4 DEF ToldTheTruth
  <1>18. NoPromptAfterFailure'
    BY DEF Abandon, Goto, NoPromptAfterFailure
  <1> QED
    BY <1>8, <1>9, <1>10, <1>11, <1>12, <1>13, <1>14, <1>15, <1>16, <1>17, <1>18

LEMMA TakeSenderKeeps ==
    ASSUME NEW c \in Calls, IInv, TypeOK', TakeSender(c)
    PROVE  IInv'
  <1> USE NothingAssumption DEF IInv, TypeOK, BridgeTypeOK
  <1>1. PendingIsAwaited'
    BY DEF TakeSender, operations, Prompting, PendingIsAwaited
  <1>2. ChannelAnswers'
    BY DEF TakeSender, operations, Answerable, ChannelAnswers
  <1>3. WaitingCallIsHeld'
    BY DEF TakeSender, operations, Answerable, WaitingCallIsHeld
  <1>4. SenderIsTaken'
    BY DEF TakeSender, SenderIsTaken
  <1>5. EffectIsAcknowledged'
    BY DEF TakeSender, EffectIsAcknowledged
  <1>6. ToldTheTruth'
    BY DEF TakeSender, ToldTheTruth, EffectIsAcknowledged
  <1>7. /\ ActiveHasRequest'
         /\ HolderPrompts'
         /\ RequestsDiffer'
         /\ ReceivedIsAnswered'
         /\ NoPromptAfterFailure'
    BY DEF TakeSender, operations, Active, Answerable, Prompting,
        ActiveHasRequest, HolderPrompts, RequestsDiffer, ReceivedIsAnswered,
        NoPromptAfterFailure
  <1> QED
    BY <1>1, <1>2, <1>3, <1>4, <1>5, <1>6, <1>7

LEMMA SendResponseKeeps ==
    ASSUME NEW c \in Calls, IInv, TypeOK', SendResponse(c)
    PROVE  IInv'
  <1> USE NothingAssumption DEF IInv, TypeOK, BridgeTypeOK
  <1>1. ActiveHasRequest'
    BY DEF SendResponse, Receiver, Active, Answerable, ActiveHasRequest
  <1>2. ChannelAnswers'
    BY DEF SendResponse, Receiver, Answerable, ChannelAnswers
  <1>3. ReceivedIsAnswered'
    BY DEF SendResponse, Receiver, ReceivedIsAnswered
  <1>4. WaitingCallIsHeld'
    <2> SUFFICES ASSUME NEW d \in Calls, at'[d] = "waiting"
                 PROVE  \E p \in Operations : /\ channel'[p] = d
                                            /\ req'[p] = request'[d]
                                            /\ pc'[p] \in Answerable
      BY DEF WaitingCallIsHeld
    <2>1. CASE d = c
      BY <2>1 DEF SendResponse, Receiver, Answerable, bridge
    <2>2. CASE d # c
      <3>1. PICK p \in Operations : /\ channel[p] = d /\ req[p] = request[d]
                                   /\ pc[p] \in Answerable
        BY <2>2 DEF SendResponse, WaitingCallIsHeld
      <3>2. request[d] # request[c]
        BY <2>2 DEF SendResponse, SenderIsTaken
      <3> QED
        BY <2>2, <3>1, <3>2 DEF SendResponse, Receiver
    <2> QED
      BY <2>1, <2>2
  <1>5. SenderIsTaken'
    BY DEF SendResponse, bridge, SenderIsTaken
  <1>6. EffectIsAcknowledged'
    BY DEF SendResponse, EffectIsAcknowledged
  <1>7. ToldTheTruth'
    BY DEF SendResponse, ToldTheTruth, EffectIsAcknowledged
  <1>8. /\ HolderPrompts'
         /\ RequestsDiffer'
         /\ PendingIsAwaited'
         /\ NoPromptAfterFailure'
    BY DEF SendResponse, bridge, Prompting, HolderPrompts, RequestsDiffer,
        PendingIsAwaited, NoPromptAfterFailure
  <1> QED
    BY <1>1, <1>2, <1>3, <1>4, <1>5, <1>6, <1>7, <1>8

LEMMA ToldKeeps ==
    ASSUME NEW c \in Calls, IInv, TypeOK', Told(c)
    PROVE  IInv'
  <1> USE NothingAssumption DEF IInv, TypeOK, BridgeTypeOK
  <1>1. ChannelAnswers'
    <2>1. /\ at[c] # "waiting"
          /\ \A d \in Calls : d # c => at'[d] = at[d] /\ request'[d] = request[d]
      BY DEF Told, EndCall, Results
    <2> QED
      BY <2>1 DEF Told, operations, ChannelAnswers
  <1>2. WaitingCallIsHeld'
    BY DEF Told, EndCall, operations, Answerable, WaitingCallIsHeld
  <1>3. SenderIsTaken'
    <2>1. /\ at'[c] \notin {"taken", "waiting"}
          /\ \A d \in Calls : d # c => at'[d] = at[d] /\ request'[d] = request[d]
      BY DEF Told, EndCall
    <2>2. pending' = pending
      BY DEF Told, bridge
    <2> QED
      BY <2>1, <2>2 DEF SenderIsTaken
  <1>4. EffectIsAcknowledged'
    <2>1. /\ effect'[c] = "none"
          /\ \A d \in Calls : d # c => at'[d] = at[d] /\ effect'[d] = effect[d]
      BY DEF Told, EndCall
    <2> QED
      BY <2>1 DEF EffectIsAcknowledged
  <1>5. ToldTheTruth'
    BY DEF Told, EndCall, ToldTheTruth
  <1>6. /\ ActiveHasRequest'
         /\ HolderPrompts'
         /\ RequestsDiffer'
         /\ PendingIsAwaited'
         /\ ReceivedIsAnswered'
         /\ NoPromptAfterFailure'
    BY DEF Told, bridge, operations, Active, Answerable, Prompting,
        ActiveHasRequest, HolderPrompts, RequestsDiffer, PendingIsAwaited,
        ReceivedIsAnswered, NoPromptAfterFailure
  <1> QED
    BY <1>1, <1>2, <1>3, <1>4, <1>5, <1>6

LEMMA RefreshedKeeps ==
    ASSUME NEW c \in Calls, IInv, TypeOK', Refreshed(c)
    PROVE  IInv'
  <1> USE NothingAssumption DEF IInv, TypeOK, BridgeTypeOK
  <1>1. ChannelAnswers'
    BY DEF Refreshed, EndCall, operations, Answerable, ChannelAnswers
  <1>2. WaitingCallIsHeld'
    BY DEF Refreshed, EndCall, operations, Answerable, WaitingCallIsHeld
  <1>3. SenderIsTaken'
    BY DEF Refreshed, EndCall, bridge, SenderIsTaken
  <1>4. EffectIsAcknowledged'
    BY DEF Refreshed, EndCall, EffectIsAcknowledged
  <1>5. ToldTheTruth'
    BY DEF Refreshed, EndCall, ToldTheTruth
  <1>6. /\ ActiveHasRequest'
         /\ HolderPrompts'
         /\ RequestsDiffer'
         /\ PendingIsAwaited'
         /\ ReceivedIsAnswered'
         /\ NoPromptAfterFailure'
    BY DEF Refreshed, bridge, operations, Active, Answerable, Prompting,
        ActiveHasRequest, HolderPrompts, RequestsDiffer, PendingIsAwaited,
        ReceivedIsAnswered, NoPromptAfterFailure
  <1> QED
    BY <1>1, <1>2, <1>3, <1>4, <1>5, <1>6

LEMMA LoseCallKeeps ==
    ASSUME NEW c \in Calls, IInv, TypeOK', LoseCall(c)
    PROVE  IInv'
  <1> USE NothingAssumption DEF IInv, TypeOK, BridgeTypeOK
  <1>1. ChannelAnswers'
    BY DEF LoseCall, EndCall, operations, Answerable, ChannelAnswers
  <1>2. WaitingCallIsHeld'
    BY DEF LoseCall, EndCall, operations, Answerable, WaitingCallIsHeld
  <1>3. SenderIsTaken'
    BY DEF LoseCall, EndCall, bridge, SenderIsTaken
  <1>4. EffectIsAcknowledged'
    BY DEF LoseCall, EndCall, EffectIsAcknowledged
  <1>5. ToldTheTruth'
    BY DEF LoseCall, EndCall, ToldTheTruth
  <1>6. /\ ActiveHasRequest'
         /\ HolderPrompts'
         /\ RequestsDiffer'
         /\ PendingIsAwaited'
         /\ ReceivedIsAnswered'
         /\ NoPromptAfterFailure'
    BY DEF LoseCall, bridge, operations, Active, Answerable, Prompting,
        ActiveHasRequest, HolderPrompts, RequestsDiffer, PendingIsAwaited,
        ReceivedIsAnswered, NoPromptAfterFailure
  <1> QED
    BY <1>1, <1>2, <1>3, <1>4, <1>5, <1>6

LEMMA AnswerKeeps ==
    ASSUME NEW c \in Calls, NEW choice \in {"confirmed", "cancelled"},
           IInv, TypeOK', Answer(c, choice)
    PROVE  IInv'
  <1> USE NothingAssumption DEF IInv, TypeOK, BridgeTypeOK
  <1>1. ChannelAnswers'
    BY DEF Answer, operations, Answerable, ChannelAnswers
  <1>2. WaitingCallIsHeld'
    BY DEF Answer, operations, Answerable, WaitingCallIsHeld
  <1>3. SenderIsTaken'
    BY DEF Answer, bridge, SenderIsTaken
  <1>4. EffectIsAcknowledged'
    BY DEF Answer, EffectIsAcknowledged
  <1>5. ToldTheTruth'
    BY DEF Answer, ToldTheTruth
  <1>6. /\ ActiveHasRequest'
         /\ HolderPrompts'
         /\ RequestsDiffer'
         /\ PendingIsAwaited'
         /\ ReceivedIsAnswered'
         /\ NoPromptAfterFailure'
    BY DEF Answer, bridge, operations, Active, Answerable, Prompting,
        ActiveHasRequest, HolderPrompts, RequestsDiffer, PendingIsAwaited,
        ReceivedIsAnswered, NoPromptAfterFailure
  <1> QED
    BY <1>1, <1>2, <1>3, <1>4, <1>5, <1>6

LEMMA SetReadyKeeps ==
    ASSUME IInv, TypeOK', SetReady
    PROVE  IInv'
  <1> USE NothingAssumption DEF IInv, TypeOK, BridgeTypeOK
  <1>1. PendingIsAwaited'
    BY DEF SetReady, operations, Prompting, PendingIsAwaited
  <1>2. SenderIsTaken'
    BY DEF SetReady, calls, SenderIsTaken
  <1>3. /\ ActiveHasRequest'
         /\ HolderPrompts'
         /\ RequestsDiffer'
         /\ ChannelAnswers'
         /\ ReceivedIsAnswered'
         /\ WaitingCallIsHeld'
         /\ EffectIsAcknowledged'
         /\ ToldTheTruth'
         /\ NoPromptAfterFailure'
    BY DEF SetReady, operations, calls, Active, Answerable, Prompting,
        ActiveHasRequest, HolderPrompts, RequestsDiffer, ChannelAnswers,
        ReceivedIsAnswered, WaitingCallIsHeld, EffectIsAcknowledged,
        ToldTheTruth, NoPromptAfterFailure
  <1> QED
    BY <1>1, <1>2, <1>3

LEMMA UnsetReadyKeeps ==
    ASSUME IInv, TypeOK', UnsetReady
    PROVE  IInv'
  <1> USE NothingAssumption DEF IInv, TypeOK, BridgeTypeOK
  <1>1. PendingIsAwaited'
    BY DEF UnsetReady, operations, Prompting, PendingIsAwaited
  <1>2. SenderIsTaken'
    BY DEF UnsetReady, calls, SenderIsTaken
  <1>3. /\ ActiveHasRequest'
         /\ HolderPrompts'
         /\ RequestsDiffer'
         /\ ChannelAnswers'
         /\ ReceivedIsAnswered'
         /\ WaitingCallIsHeld'
         /\ EffectIsAcknowledged'
         /\ ToldTheTruth'
         /\ NoPromptAfterFailure'
    BY DEF UnsetReady, operations, calls, Active, Answerable, Prompting,
        ActiveHasRequest, HolderPrompts, RequestsDiffer, ChannelAnswers,
        ReceivedIsAnswered, WaitingCallIsHeld, EffectIsAcknowledged,
        ToldTheTruth, NoPromptAfterFailure
  <1> QED
    BY <1>1, <1>2, <1>3

LEMMA ReloadKeeps ==
    ASSUME IInv, TypeOK', Reload
    PROVE  IInv'
  <1> USE NothingAssumption DEF IInv, TypeOK, BridgeTypeOK
  <1>1. ChannelAnswers'
    BY DEF Reload, operations, Answerable, ChannelAnswers
  <1>2. WaitingCallIsHeld'
    BY DEF Reload, operations, Answerable, WaitingCallIsHeld
  <1>3. SenderIsTaken'
    BY DEF Reload, bridge, SenderIsTaken
  <1>4. EffectIsAcknowledged'
    BY DEF Reload, EffectIsAcknowledged
  <1>5. ToldTheTruth'
    BY DEF Reload, ToldTheTruth
  <1>6. /\ ActiveHasRequest'
         /\ HolderPrompts'
         /\ RequestsDiffer'
         /\ PendingIsAwaited'
         /\ ReceivedIsAnswered'
         /\ NoPromptAfterFailure'
    BY DEF Reload, bridge, operations, Active, Answerable, Prompting,
        ActiveHasRequest, HolderPrompts, RequestsDiffer, PendingIsAwaited,
        ReceivedIsAnswered, NoPromptAfterFailure
  <1> QED
    BY <1>1, <1>2, <1>3, <1>4, <1>5, <1>6

LEMMA InvStep == IInv /\ [Next]_vars => IInv'
  <1> SUFFICES ASSUME IInv, [Next]_vars PROVE IInv'
    OBVIOUS
  <1>1. TypeOK'
    BY TypeStep DEF IInv
  <1>2. ASSUME NEW o \in Operations, Begin(o) PROVE IInv'
    BY <1>1, <1>2, BeginKeeps
  <1>3. ASSUME NEW o \in Operations, End(o) PROVE IInv'
    BY <1>1, <1>3, EndKeeps
  <1>4. ASSUME NEW o \in Operations, Ask(o) PROVE IInv'
    BY <1>1, <1>4, AskKeeps
  <1>5. ASSUME NEW o \in Operations, Register(o) PROVE IInv'
    BY <1>1, <1>5, RegisterKeeps
  <1>6. ASSUME NEW o \in Operations, NotReady(o) PROVE IInv'
    BY <1>1, <1>6, NotReadyKeeps
  <1>7. ASSUME NEW o \in Operations, Emit(o) PROVE IInv'
    BY <1>1, <1>7, EmitKeeps
  <1>8. ASSUME NEW o \in Operations, Receive(o) PROVE IInv'
    BY <1>1, <1>8, ReceiveKeeps
  <1>9. ASSUME NEW o \in Operations, Interrupted(o) PROVE IInv'
    BY <1>1, <1>9, InterruptedKeeps
  <1>10. ASSUME NEW o \in Operations, Discard(o) PROVE IInv'
    BY <1>1, <1>10, DiscardKeeps
  <1>11. ASSUME NEW o \in Operations, ReturnResponse(o) PROVE IInv'
    BY <1>1, <1>11, ReturnResponseKeeps
  <1>12. ASSUME NEW o \in Operations, Settle(o) PROVE IInv'
    BY <1>1, <1>12, SettleKeeps
  <1>13. ASSUME NEW o \in Operations, Abandon(o) PROVE IInv'
    BY <1>1, <1>13, AbandonKeeps
  <1>14. ASSUME NEW c \in Calls, TakeSender(c) PROVE IInv'
    BY <1>1, <1>14, TakeSenderKeeps
  <1>15. ASSUME NEW c \in Calls, SendResponse(c) PROVE IInv'
    BY <1>1, <1>15, SendResponseKeeps
  <1>16. ASSUME NEW c \in Calls, Told(c) PROVE IInv'
    BY <1>1, <1>16, ToldKeeps
  <1>17. ASSUME NEW c \in Calls, Refreshed(c) PROVE IInv'
    BY <1>1, <1>17, RefreshedKeeps
  <1>18. ASSUME NEW c \in Calls, LoseCall(c) PROVE IInv'
    BY <1>1, <1>18, LoseCallKeeps
  <1>19. ASSUME NEW c \in Calls, NEW choice \in {"confirmed", "cancelled"},
               Answer(c, choice)
        PROVE IInv'
    BY <1>1, <1>19, AnswerKeeps
  <1>20. CASE SetReady
    BY <1>1, <1>20, SetReadyKeeps
  <1>21. CASE UnsetReady
    BY <1>1, <1>21, UnsetReadyKeeps
  <1>22. CASE Reload
    BY <1>1, <1>22, ReloadKeeps
  <1>23. CASE Deliver \/ OpenSession \/ Listen \/ StartFails
               \/ CloseSession \/ LoseShutdown \/ Dispose
    BY <1>1, <1>23, PageKeeps
       DEF Deliver, OpenSession, Listen, StartFails, CloseSession, LoseShutdown, Dispose, Unmount,
           calls
  <1>24. CASE UNCHANGED vars
    BY <1>1, <1>24, PageKeeps DEF vars, calls
  <1> QED
    BY <1>2, <1>3, <1>4, <1>5, <1>6, <1>7, <1>8, <1>9, <1>10, <1>11, <1>12,
        <1>13, <1>14, <1>15, <1>16, <1>17, <1>18, <1>19, <1>20, <1>21, <1>22,
        <1>23, <1>24
       DEF Next, OperationNext, CallNext, PageNext

-----------------------------------------------------------------------------
(* Theorems. *)

LEMMA Invariant == Spec => []IInv
  BY InitInv, InvStep, PTL DEF Spec

\* Every variable keeps to the states that the code's types, the program points
\* of its functions and the bounds allow.
THEOREM TypeCorrect == Spec => []TypeOK
  BY Invariant, PTL DEF IInv

\* However requests, calls, leases, reloads and dropped futures interleave, the
\* bridge's map holds at most the sender of the operation at the head of the
\* queue, and no entry outlives its request().
THEOREM NothingIsStranded == Spec => []PendingIsAwaited
  BY Invariant, PTL DEF IInv

\* complete_runtime_input_request succeeds exactly when the user's choice took
\* effect, for any number of concurrent calls.
THEOREM AnswersAreTrue == Spec => []ToldTheTruth
  BY Invariant, PTL DEF IInv

\* No call waits for an acknowledgement that nobody can give.
THEOREM WaitingIsAnswered == Spec => []WaitingCallIsHeld
  BY Invariant, PTL DEF IInv

\* An interaction in which one input failed or was cancelled prompts no more.
THEOREM FailedInteractionIsOver == Spec => []NoPromptAfterFailure
  BY Invariant, PTL DEF IInv

-----------------------------------------------------------------------------
(* The page and the bridge.  Until the page is reloaded its lease numbers   *)
(* grow, so a session that becomes ready finds the lease of an earlier one  *)
(* and drops what that session left open; after a reload they start over,   *)
(* and a new session may meet its own number.                               *)

\* The bridge never knows a later lease than the page, and a session that has
\* not called the bridge yet has a later one than the bridge.
LeaseIsOld ==
    /\ lease <= sequence
    /\ session \in {"opening", "listening"} => lease < sequence

\* Whoever has taken a sender, or was told that there is none, has left no
\* entry behind: when the page forgets a request, native code has too.
CompletedIsTaken ==
    \A c \in Calls :
        at[c] \in {"taken", "waiting"} \cup Results => request[c] \notin pending

PageInv == CompletedIsTaken /\ (reloads = 0 => LeaseIsOld /\ PendingIsAnswerable)

\* What PendingIsAnswerable asks of one request.
Reaches(r) ==
    \/ InSeq(r, events) \/ InSeq(r, store)
    \/ \E o \in Operations : req[o] = r /\ pc[o] \in {"emit", "failing", "abandoning"}

LEMMA InSeqAppend ==
    ASSUME NEW S, NEW s \in Seq(S), NEW x \in S, NEW r
    PROVE  InSeq(r, Append(s, x)) <=> InSeq(r, s) \/ r = x
  <1>1. /\ Len(Append(s, x)) = Len(s) + 1 /\ Len(s) \in Nat
        /\ \A i \in 1..Len(s) : Append(s, x)[i] = s[i]
        /\ Append(s, x)[Len(s) + 1] = x
    OBVIOUS
  <1> QED
    BY <1>1 DEF InSeq

LEMMA InSeqTail ==
    ASSUME NEW S, NEW s \in Seq(S), s # <<>>, NEW r, InSeq(r, s)
    PROVE  r = Head(s) \/ InSeq(r, Tail(s))
  <1>1. PICK i \in 1..Len(s) : s[i] = r
    BY DEF InSeq
  <1>2. /\ Len(s) \in Nat \ {0} /\ Head(s) = s[1] /\ Len(Tail(s)) = Len(s) - 1
        /\ \A j \in 1..Len(s) - 1 : Tail(s)[j] = s[j + 1]
    OBVIOUS
  <1>3. CASE i = 1
    BY <1>1, <1>2, <1>3
  <1>4. CASE i # 1
    <2>1. i - 1 \in 1..Len(s) - 1 /\ (i - 1) + 1 = i
      BY <1>2, <1>4
    <2>2. Tail(s)[i - 1] = r
      BY <1>1, <1>2, <2>1
    <2> QED
      BY <1>2, <2>1, <2>2 DEF InSeq
  <1> QED
    BY <1>3, <1>4

LEMMA PageInit == Init => PageInv
  BY BoundsAssumption DEF Init, PageInv, LeaseIsOld, CompletedIsTaken,
     PendingIsAnswerable, Results

\* Every way a call can end or start keeps the first part.
LEMMA CompletedStep ==
    ASSUME IInv, CompletedIsTaken, [Next]_vars
    PROVE  CompletedIsTaken'
  <1> USE NothingAssumption DEF IInv, TypeOK, BridgeTypeOK, CompletedIsTaken, Results
  <1>1. ASSUME NEW o \in Operations,
               Begin(o) \/ End(o) \/ Ask(o) \/ NotReady(o) \/ Emit(o)
                 \/ Receive(o) \/ Interrupted(o) \/ ReturnResponse(o)
        PROVE CompletedIsTaken'
    BY <1>1 DEF Begin, End, Ask, NotReady, Emit, Receive, Interrupted,
       ReturnResponse, bridge, calls
  <1>2. ASSUME NEW o \in Operations, Register(o) PROVE CompletedIsTaken'
    BY <1>2 DEF Register, Fresh, calls
  <1>3. ASSUME NEW o \in Operations, Discard(o) PROVE CompletedIsTaken'
    BY <1>3 DEF Discard, RejectCall, ChannelAnswers
  <1>4. ASSUME NEW o \in Operations, Settle(o) PROVE CompletedIsTaken'
    BY <1>4 DEF Settle, RejectCall, ChannelAnswers, ReceivedIsAnswered, bridge
  <1>5. ASSUME NEW o \in Operations, Abandon(o) PROVE CompletedIsTaken'
    BY <1>5 DEF Abandon, RejectCall, ChannelAnswers, ReceivedIsAnswered, bridge
  <1>6. ASSUME NEW c \in Calls, TakeSender(c) PROVE CompletedIsTaken'
    BY <1>6 DEF TakeSender
  <1>7. ASSUME NEW c \in Calls, SendResponse(c) PROVE CompletedIsTaken'
    BY <1>7 DEF SendResponse, bridge
  <1>8. ASSUME NEW c \in Calls, Told(c) \/ Refreshed(c) \/ LoseCall(c)
        PROVE CompletedIsTaken'
    <2>1. pending' = pending
      BY <1>8 DEF Told, Refreshed, LoseCall, bridge
    <2>2. PICK point \in {"idle", "refresh"} : EndCall(c, point)
      BY <1>8 DEF Told, Refreshed, LoseCall
    <2> QED
      BY <2>1, <2>2 DEF EndCall
  <1>9. ASSUME NEW c \in Calls, NEW choice \in {"confirmed", "cancelled"},
               Answer(c, choice)
        PROVE CompletedIsTaken'
    BY <1>9 DEF Answer, bridge
  <1>10. CASE Reload
    <2>1. ASSUME NEW c \in Calls, at'[c] \in {"taken", "waiting"} \cup Results
          PROVE  at[c] = at'[c] /\ request'[c] = request[c]
      BY <1>10, <2>1 DEF Reload
    <2>2. pending' = pending
      BY <1>10 DEF Reload, bridge
    <2> QED
      BY <2>1, <2>2
  <1>11. CASE \/ Deliver \/ OpenSession \/ Listen \/ StartFails \/ SetReady
              \/ CloseSession \/ UnsetReady \/ LoseShutdown \/ Dispose
    BY <1>11 DEF Deliver, OpenSession, Listen, StartFails, SetReady,
       CloseSession, UnsetReady, LoseShutdown, Dispose, bridge, calls
  <1>12. CASE UNCHANGED vars
    BY <1>12 DEF vars, bridge, calls
  <1> QED
    BY <1>1, <1>2, <1>3, <1>4, <1>5, <1>6, <1>7, <1>8, <1>9, <1>10, <1>11, <1>12
       DEF Next, OperationNext, CallNext, PageNext

\* Only the session's own steps move its number, and they move it first.
LEMMA LeaseStep ==
    ASSUME TypeOK, LeaseIsOld, [Next]_vars, reloads' = 0
    PROVE  LeaseIsOld'
  <1> USE BoundsAssumption DEF TypeOK, BridgeTypeOK, LeaseIsOld
  <1>1. ASSUME UNCHANGED <<lease, session, sequence>> PROVE LeaseIsOld'
    BY <1>1
  <1>2. ASSUME NEW o \in Operations, OperationNext(o) PROVE LeaseIsOld'
    BY <1>1, <1>2 DEF OperationNext, Begin, End, Ask, Register, NotReady, Emit,
       Receive, Interrupted, Discard, ReturnResponse, Settle, Abandon, bridge, page
  <1>3. ASSUME NEW c \in Calls, CallNext(c) PROVE LeaseIsOld'
    BY <1>1, <1>3 DEF CallNext, TakeSender, SendResponse, Told, Refreshed, LoseCall,
       Answer, bridge, page
  <1>4. CASE Deliver \/ CloseSession \/ LoseShutdown \/ Dispose
    BY <1>4 DEF Deliver, CloseSession, LoseShutdown, Dispose, bridge
  <1>5. CASE OpenSession \/ Listen \/ StartFails \/ SetReady \/ UnsetReady
    BY <1>5 DEF OpenSession, Listen, StartFails, SetReady, UnsetReady, bridge
  <1>6. CASE Reload
    BY <1>6 DEF Reload
  <1>7. CASE UNCHANGED vars
    BY <1>1, <1>7 DEF vars, bridge, page
  <1> QED
    BY <1>2, <1>3, <1>4, <1>5, <1>6, <1>7 DEF Next, PageNext

\* A request that reached the user's side, or has not left the operation's,
\* still does as long as its sender is registered.
LEMMA AnswerableStep ==
    ASSUME IInv, CompletedIsTaken, LeaseIsOld, PendingIsAnswerable, [Next]_vars,
           reloads' = 0
    PROVE  PendingIsAnswerable'
  <1> SUFFICES ASSUME session' = "ready", lease' = sequence', NEW r \in pending'
               PROVE  Reaches(r)'
    BY DEF PendingIsAnswerable, Reaches
  <1> USE NothingAssumption DEF IInv, TypeOK, BridgeTypeOK
  <1>1. ASSUME UNCHANGED <<lease, session, sequence>>, r \in pending
        PROVE  Reaches(r)
    BY <1>1 DEF PendingIsAnswerable, Reaches
  <1>2. ASSUME Reaches(r), UNCHANGED <<pc, req, events, store>> PROVE Reaches(r)'
    BY <1>2 DEF Reaches, InSeq
  <1>3. ASSUME Reaches(r), UNCHANGED <<req, events, store>>, NEW o \in Operations,
               pc[o] \notin {"emit", "failing", "abandoning"},
               \A p \in Operations \ {o} : pc'[p] = pc[p]
        PROVE  Reaches(r)'
    BY <1>3 DEF Reaches, InSeq
  <1>4. ASSUME NEW o \in Operations,
               Begin(o) \/ End(o) \/ Ask(o) \/ NotReady(o)
                 \/ Receive(o) \/ Interrupted(o) \/ ReturnResponse(o)
        PROVE  Reaches(r)'
    <2>1. /\ UNCHANGED <<lease, session, sequence, pending, req, events, store>>
          /\ pc[o] \notin {"emit", "failing", "abandoning"}
          /\ \A p \in Operations \ {o} : pc'[p] = pc[p]
      BY <1>4 DEF Begin, End, Ask, NotReady, Receive, Interrupted, ReturnResponse,
         Goto, bridge, page
    <2> QED
      BY <1>1, <1>3, <2>1
  <1>5. ASSUME NEW o \in Operations, Settle(o) \/ Abandon(o) PROVE Reaches(r)'
    <2>1. /\ UNCHANGED <<lease, session, sequence, pending, events, store>>
          /\ pc[o] \notin {"emit", "failing", "abandoning"}
          /\ \A p \in Operations \ {o} : pc'[p] = pc[p] /\ req'[p] = req[p]
      BY <1>5 DEF Settle, Abandon, EndRequest, Goto, bridge, page
    <2> QED
      BY <1>1, <2>1 DEF Reaches, InSeq
  <1>6. ASSUME NEW o \in Operations, Discard(o) PROVE Reaches(r)'
    <2>1. /\ UNCHANGED <<lease, session, sequence, events, store>>
          /\ r \in pending /\ r # req[o]
          /\ \A p \in Operations \ {o} : pc'[p] = pc[p] /\ req'[p] = req[p]
      BY <1>6 DEF Discard, EndRequest, Goto, page
    <2> QED
      BY <1>1, <2>1 DEF Reaches, InSeq
  <1>7. ASSUME NEW o \in Operations, Register(o) PROVE Reaches(r)'
    <2>1. PICK q \in Requests : pending' = pending \cup {q} /\ req' = [req EXCEPT ![o] = q]
      BY <1>7 DEF Register
    <2>2. /\ UNCHANGED <<lease, session, sequence, events, store>>
          /\ pc[o] = "queued" /\ pc' = [pc EXCEPT ![o] = "emit"]
      BY <1>7 DEF Register, Goto, page
    <2>3. CASE r = q
      <3>1. req'[o] = r /\ pc'[o] = "emit"
        BY <2>1, <2>2, <2>3
      <3> QED
        BY <3>1 DEF Reaches
    <2>4. CASE r \in pending
      <3>1. \A p \in Operations \ {o} : pc'[p] = pc[p] /\ req'[p] = req[p]
        BY <2>1, <2>2
      <3> QED
        BY <1>1, <2>2, <2>4, <3>1 DEF Reaches, InSeq
    <2> QED
      BY <2>1, <2>3, <2>4
  <1>8. ASSUME NEW o \in Operations, Emit(o) PROVE Reaches(r)'
    <2>1. /\ UNCHANGED <<lease, session, sequence, pending, req, store>>
          /\ pc[o] = "emit" /\ req[o] \in Requests
          /\ \A p \in Operations \ {o} : pc'[p] = pc[p]
      BY <1>8 DEF Emit, Goto, bridge, ActiveHasRequest, Active, Answerable
    <2>2. Reaches(r)
      BY <1>1, <2>1
    <2>3. CASE events' = Append(events, req[o])
      <3>1. InSeq(r, events)' <=> InSeq(r, events) \/ r = req[o]
        BY <2>1, <2>3, InSeqAppend DEF InSeq
      <3> QED
        BY <2>1, <2>2, <3>1 DEF Reaches, InSeq
    <2>4. CASE pc'[o] = "failing" /\ events' = events
      BY <2>1, <2>2, <2>4 DEF Reaches, InSeq
    <2> QED
      BY <1>8, <2>3, <2>4 DEF Emit, Goto
  <1>9. ASSUME NEW c \in Calls, \/ TakeSender(c) \/ SendResponse(c) \/ Refreshed(c)
                                \/ LoseCall(c)
                                \/ \E choice \in {"confirmed", "cancelled"} : Answer(c, choice)
        PROVE  Reaches(r)'
    <2>1. /\ UNCHANGED <<lease, session, sequence, pc, req, events, store>>
          /\ r \in pending
      BY <1>9 DEF TakeSender, SendResponse, Refreshed, LoseCall, Answer, bridge,
         operations, page
    <2> QED
      BY <1>1, <1>2, <2>1
  <1>10. ASSUME NEW c \in Calls, Told(c) PROVE Reaches(r)'
    <2>1. /\ UNCHANGED <<lease, session, sequence, pending, pc, req, events>>
          /\ store' \in {store, Remove(request[c])}
          /\ at[c] \in Results
      BY <1>10 DEF Told, bridge, operations
    <2>2. Reaches(r) /\ r # request[c]
      BY <1>1, <2>1 DEF CompletedIsTaken
    <2>3. InSeq(r, store) => InSeq(r, store')
      <3>1. CASE store' = store
        BY <3>1
      <3>2. CASE store # <<>> /\ Head(store) = request[c] /\ store' = Tail(store)
        BY <2>2, <3>2, InSeqTail
      <3> QED
        BY <2>1, <3>1, <3>2 DEF Remove
    <2> QED
      BY <2>1, <2>2, <2>3 DEF Reaches, InSeq
  <1>11. CASE Deliver
    <2>1. /\ UNCHANGED <<lease, session, sequence, pending, pc, req>>
          /\ events # <<>> /\ events' = Tail(events)
          /\ store' = IF InSeq(Head(events), store) THEN store
                      ELSE Append(store, Head(events))
      <3>1. session = "ready"
        BY <1>11 DEF Deliver
      <3> QED
        BY <1>11, <3>1 DEF Deliver, bridge, operations
    <2>5. Head(events) \in Requests
      BY <2>1
    <2>2. InSeq(r, events) => InSeq(r, events') \/ r = Head(events)
      BY <2>1, InSeqTail
    <2>3. InSeq(r, store) \/ r = Head(events) => InSeq(r, store')
      BY <2>1, <2>5, InSeqAppend
    <2>4. Reaches(r)
      BY <1>1, <2>1
    <2> QED
      BY <2>1, <2>2, <2>3, <2>4 DEF Reaches, InSeq
  <1>12. CASE SetReady
    BY <1>12 DEF SetReady, LeaseIsOld
  <1>13. CASE OpenSession \/ Listen \/ StartFails \/ CloseSession \/ UnsetReady
                \/ LoseShutdown \/ Dispose \/ Reload
    BY <1>13 DEF OpenSession, Listen, StartFails, CloseSession, UnsetReady,
       LoseShutdown, Dispose, Reload
  <1>14. CASE UNCHANGED vars
    BY <1>1, <1>2, <1>14 DEF vars, bridge, operations, page
  <1> QED
    BY <1>4, <1>5, <1>6, <1>7, <1>8, <1>9, <1>10, <1>11, <1>12, <1>13, <1>14
       DEF Next, OperationNext, CallNext, PageNext

\* The page cannot be loaded again and then not have been.
LEMMA NoReloadBefore == TypeOK /\ [Next]_vars /\ reloads' = 0 => reloads = 0
  <1> SUFFICES ASSUME TypeOK, [Next]_vars, reloads' = 0 PROVE reloads = 0
    OBVIOUS
  <1>1. ASSUME NEW o \in Operations, OperationNext(o) PROVE reloads' = reloads
    BY <1>1 DEF OperationNext, Begin, End, Ask, Register, NotReady, Emit, Receive,
       Interrupted, Discard, ReturnResponse, Settle, Abandon, bounds
  <1>2. ASSUME NEW c \in Calls, CallNext(c) PROVE reloads' = reloads
    BY <1>2 DEF CallNext, TakeSender, SendResponse, Told, Refreshed, LoseCall,
       Answer, bounds
  <1>3. CASE PageNext
    BY <1>3, BoundsAssumption DEF TypeOK, PageNext, Deliver, OpenSession, Listen,
       StartFails, SetReady, CloseSession, UnsetReady, LoseShutdown, Dispose, Reload,
       bounds
  <1>4. CASE UNCHANGED vars
    BY <1>4 DEF vars, bounds
  <1> QED
    BY <1>1, <1>2, <1>3, <1>4 DEF Next

LEMMA PageStep == IInv /\ PageInv /\ [Next]_vars => PageInv'
  <1> SUFFICES ASSUME IInv, PageInv, [Next]_vars PROVE PageInv'
    OBVIOUS
  <1>1. CompletedIsTaken'
    BY CompletedStep DEF PageInv
  <1>2. ASSUME reloads' = 0 PROVE LeaseIsOld' /\ PendingIsAnswerable'
    <2>1. TypeOK /\ LeaseIsOld /\ PendingIsAnswerable /\ CompletedIsTaken
      BY <1>2, NoReloadBefore DEF PageInv, IInv
    <2> QED
      BY <1>2, <2>1, LeaseStep, AnswerableStep
  <1> QED
    BY <1>1, <1>2 DEF PageInv

\* As long as the page has not been reloaded, whatever an operation waits for
\* under the current session's lease is on its way to the user, shown or being
\* completed.  (After a reload it need not be: NewSessionReplaces.)
THEOREM AnswerableUntilReload == Spec => [](reloads = 0 => PendingIsAnswerable)
  <1>1. Spec => []PageInv
    BY Invariant, PageInit, PageStep, PTL DEF Spec
  <1> QED
    BY <1>1, PTL DEF PageInv

\* A session that becomes ready leaves no request of an earlier one open, as
\* runtimeInputBridge.ts says, for as long as the page has not been reloaded.
THEOREM SessionReplacesUntilReload ==
    Spec => [][reloads = 0 /\ session = "listening" /\ session' = "ready"
                   => pending' = {}]_vars
  <1> DEFINE Replaced == reloads = 0 /\ session = "listening" /\ session' = "ready"
                             => pending' = {}
  <1>1. Spec => [](IInv /\ PageInv)
    BY Invariant, PageInit, PageStep, PTL DEF Spec
  <1>2. IInv /\ PageInv /\ [Next]_vars => [Replaced]_vars
    <2> SUFFICES ASSUME IInv, PageInv, [Next]_vars, reloads = 0, session = "listening",
                        session' = "ready"
                 PROVE  pending' = {}
      OBVIOUS
    <2>1. ASSUME NEW o \in Operations, OperationNext(o) PROVE FALSE
      BY <2>1 DEF OperationNext, Begin, End, Ask, Register, NotReady, Emit, Receive,
         Interrupted, Discard, ReturnResponse, Settle, Abandon, page
    <2>2. ASSUME NEW c \in Calls, CallNext(c) PROVE FALSE
      BY <2>2 DEF CallNext, TakeSender, SendResponse, Told, Refreshed, LoseCall,
         Answer, page
    <2>3. CASE SetReady
      BY <2>3, BoundsAssumption DEF SetReady, PageInv, LeaseIsOld, IInv, TypeOK, BridgeTypeOK
    <2>4. CASE \/ Deliver \/ OpenSession \/ Listen \/ StartFails \/ CloseSession
               \/ UnsetReady \/ LoseShutdown \/ Dispose \/ Reload
      BY <2>4 DEF Deliver, OpenSession, Listen, StartFails, CloseSession,
         UnsetReady, LoseShutdown, Dispose, Reload
    <2>5. CASE UNCHANGED vars
      BY <2>5 DEF vars, page
    <2> QED
      BY <2>1, <2>2, <2>3, <2>4, <2>5 DEF Next, PageNext
  <1> HIDE DEF Replaced
  <1>3. Spec => [][Replaced]_vars
    BY <1>1, <1>2, PTL DEF Spec
  <1> QED
    BY <1>3 DEF Replaced
=============================================================================
