---------------------------- MODULE RuntimeInput ----------------------------
(***************************************************************************)
(* Prompting the user for an input while an operation runs                 *)
(* (services/runtime_input_bridge.rs, services/input_resolver.rs, and the  *)
(* page's runtimeInputBridge.ts, runtimeInputStore.ts and                  *)
(* RuntimeInputPrompt.tsx).                                                *)
(*                                                                         *)
(* An interactive operation (a start of a Computer or of its servers)      *)
(* resolves its inputs one after the other.  A missing one is requested    *)
(* from the page: the operation takes the request queue, registers a       *)
(* sender under a fresh id, emits an event and waits.  The page shows the  *)
(* request and completes it with a call, which takes the sender, sends the *)
(* answer and waits until the resolver acknowledges it.  The page owns the *)
(* bridge through a lease; when its lease ends or a new one replaces it    *)
(* the senders are dropped, which interrupts whoever waits.                *)
(*                                                                         *)
(* Commands run on several threads, so a call's two steps (take, send) and *)
(* an operation's interleave.  tokio's Mutex and oneshot, Tauri's IPC and  *)
(* the WebView are external.                                               *)
(***************************************************************************)
EXTENDS Naturals, Sequences

CONSTANTS Operations,   \* interactive operations running concurrently
          Requests,     \* request ids; an id nobody refers to is fresh
          Calls,        \* invocations of complete_runtime_input_request
          NoOperation, NoRequest, NoCall,
          MaxLeases,    \* bound: sessions one page opens
          MaxReloads,   \* bound: reloads of the page
          MaxLosses     \* bound: invocations lost on their way

ASSUME NothingAssumption == /\ NoOperation \notin Operations
                            /\ NoRequest \notin Requests
                            /\ NoCall \notin Calls
ASSUME BoundsAssumption == /\ MaxLeases \in Nat \ {0}
                           /\ MaxReloads \in Nat
                           /\ MaxLosses \in Nat

VARIABLES
    lease,      \* BridgeState.ready_lease, by its number; 0 for None
    pending,    \* BridgeState.pending: ids whose sender is registered
    holder,     \* who holds request_queue
    pc,         \* per operation: program point
    failed,     \* per operation: the interaction has a failure
    req,        \* per operation: id of its request
    channel,    \* per operation: the call whose response was sent to it
    at,         \* per call: program point, then the result it returns
    request,    \* per call: id it completes
    completion, \* per call: what the user chose
    effect,     \* per call: what the resolver did with it
    heard,      \* per call: the page that made it is still mounted
    session,    \* activeSession of the page
    sequence,   \* leaseSequence of the page
    events,     \* emitted and not yet delivered
    store,      \* requests of runtimeInputStore; the first is shown
    submitting, \* submittingRef
    reloads, losses

bridge     == <<lease, pending, holder>>
operations == <<pc, failed, req, channel>>
calls      == <<at, request, completion, effect, heard>>
page       == <<session, sequence, events, store, submitting>>
bounds     == <<reloads, losses>>
vars == <<bridge, operations, calls, page, bounds>>

Points == {"Idle", "resolve", "queued", "emit", "await", "received", "settle",
           "failing", "abandoning"}
Results == {"ok", "inactive", "rejected"}
Sessions == {"none", "opening", "listening", "ready", "closing", "closed"}

BridgeTypeOK ==
    /\ lease \in Nat
    /\ pending \in SUBSET Requests
    /\ holder \in Operations \cup {NoOperation}
    /\ pc \in [Operations -> Points]
    /\ failed \in [Operations -> BOOLEAN]
    /\ req \in [Operations -> Requests \cup {NoRequest}]
    /\ channel \in [Operations -> Calls \cup {NoCall}]
    /\ at \in [Calls -> {"idle", "flying", "taken", "waiting", "refresh"} \cup Results]
    /\ request \in [Calls -> Requests \cup {NoRequest}]
    /\ completion \in [Calls -> {"none", "confirmed", "cancelled"}]
    /\ effect \in [Calls -> {"none", "stored", "cancelled"}]
    /\ heard \in [Calls -> BOOLEAN]

TypeOK ==
    /\ BridgeTypeOK
    /\ session \in Sessions
    /\ sequence \in 0..MaxLeases
    /\ events \in Seq(Requests)
    /\ store \in Seq(Requests)
    /\ submitting \in BOOLEAN
    /\ reloads \in 0..MaxReloads
    /\ losses \in 0..MaxLosses

Init ==
    /\ lease = 0 /\ pending = {} /\ holder = NoOperation
    /\ pc = [o \in Operations |-> "Idle"]
    /\ failed = [o \in Operations |-> FALSE]
    /\ req = [o \in Operations |-> NoRequest]
    /\ channel = [o \in Operations |-> NoCall]
    /\ at = [c \in Calls |-> "idle"]
    /\ request = [c \in Calls |-> NoRequest]
    /\ completion = [c \in Calls |-> "none"]
    /\ effect = [c \in Calls |-> "none"]
    /\ heard = [c \in Calls |-> FALSE]
    /\ session = "none" /\ sequence = 0
    /\ events = <<>> /\ store = <<>> /\ submitting = FALSE
    /\ reloads = 0 /\ losses = 0

InSeq(r, s) == \E i \in 1..Len(s) : s[i] = r
Goto(o, point) == pc' = [pc EXCEPT ![o] = point]
Fail(o) == failed' = [failed EXCEPT ![o] = TRUE]

\* request() returned or its future is gone: nothing of it is left.
EndRequest(o) ==
    /\ req' = [req EXCEPT ![o] = NoRequest]
    /\ channel' = [channel EXCEPT ![o] = NoCall]

\* _queue_guard is dropped, if the operation holds it.
ReleaseQueue(o) == holder' = IF holder = o THEN NoOperation ELSE holder

\* Mutant: the acknowledgement sender is dropped without an answer.
DropUnanswered(c) == at' = [at EXCEPT ![c] = "not_acknowledged"]

\* RuntimeInputResponse::drop: an unacknowledged response rejects its call.
RejectCall(c) == at' = [at EXCEPT ![c] = "rejected"]

-----------------------------------------------------------------------------
(* Operations. *)

\* with_interaction_mode: every interaction starts without a failure.
Begin(o) ==
    /\ pc[o] = "Idle"
    /\ Goto(o, "resolve") /\ failed' = [failed EXCEPT ![o] = FALSE]
    /\ UNCHANGED <<bridge, req, channel, calls, page, bounds>>

\* The last input is resolved, or the inputs left have valid entries.
End(o) ==
    /\ pc[o] = "resolve"
    /\ Goto(o, "Idle")
    /\ UNCHANGED <<bridge, failed, req, channel, calls, page, bounds>>

\* Mutant: the context's failure is not consulted.
AskAgain(o) ==
    /\ pc[o] = "resolve"
    /\ Goto(o, "queued")
    /\ UNCHANGED <<bridge, failed, req, channel, calls, page, bounds>>

\* resolve_in_interaction, resolve_input_value and request_value: an input
\* without a usable entry is asked for unless an earlier one failed.
Ask(o) ==
    /\ pc[o] = "resolve" /\ ~failed[o]
    /\ Goto(o, "queued")
    /\ UNCHANGED <<bridge, failed, req, channel, calls, page, bounds>>

\* Uuid::new_v4: an id that nothing refers to.
Fresh(r) ==
    /\ r \notin pending
    /\ \A o \in Operations : req[o] # r
    /\ \A c \in Calls : request[c] # r
    /\ ~InSeq(r, events) /\ ~InSeq(r, store)

\* request: the queue is taken and the sender registered in one poll.
Register(o) ==
    /\ pc[o] = "queued" /\ holder = NoOperation /\ lease # 0
    /\ \E r \in Requests :
           /\ Fresh(r)
           /\ pending' = pending \cup {r}
           /\ req' = [req EXCEPT ![o] = r]
    /\ holder' = o
    /\ Goto(o, "emit")
    /\ UNCHANGED <<lease, failed, channel, calls, page, bounds>>

\* request: no page holds the bridge; the queue is taken and left at once.
NotReady(o) ==
    /\ pc[o] = "queued" /\ holder = NoOperation /\ lease = 0
    /\ Goto(o, "resolve") /\ Fail(o)
    /\ UNCHANGED <<bridge, req, channel, calls, page, bounds>>

Emit(o) ==
    /\ pc[o] = "emit"
    /\ \/ Goto(o, "await") /\ events' = Append(events, req[o])
       \/ Goto(o, "failing") /\ UNCHANGED events
    /\ UNCHANGED <<bridge, failed, req, channel, calls, session, sequence,
                   store, submitting, bounds>>

\* The receiver yields the response; PendingRequestGuard is disarmed.
Receive(o) ==
    /\ pc[o] = "await" /\ channel[o] # NoCall
    /\ Goto(o, "received")
    /\ UNCHANGED <<bridge, failed, req, channel, calls, page, bounds>>

\* The sender was dropped without an answer.
Interrupted(o) ==
    /\ pc[o] = "await" /\ channel[o] = NoCall /\ req[o] \notin pending
    /\ \A c \in Calls : ~(at[c] = "taken" /\ request[c] = req[o])
    /\ Goto(o, "failing")
    /\ UNCHANGED <<bridge, failed, req, channel, calls, page, bounds>>

\* Mutant: the request ends without PendingRequestGuard.
LeavePending(o) ==
    /\ pc[o] \in {"failing", "abandoning"}
    /\ ReleaseQueue(o) /\ EndRequest(o) /\ Fail(o)
    /\ Goto(o, IF pc[o] = "failing" THEN "resolve" ELSE "Idle")
    /\ UNCHANGED <<lease, pending, calls, page, bounds>>

\* PendingRequestGuard::drop, then the receiver with what it may hold, then the
\* queue guard.
Discard(o) ==
    /\ pc[o] \in {"failing", "abandoning"}
    /\ pending' = pending \ {req[o]}
    /\ IF channel[o] = NoCall THEN UNCHANGED at ELSE RejectCall(channel[o])
    /\ ReleaseQueue(o) /\ EndRequest(o) /\ Fail(o)
    /\ Goto(o, IF pc[o] = "failing" THEN "resolve" ELSE "Idle")
    /\ UNCHANGED <<lease, request, completion, effect, heard, page, bounds>>

\* request returns the response: the queue is free before the resolver has
\* stored or acknowledged anything.
ReturnResponse(o) ==
    /\ pc[o] = "received"
    /\ Goto(o, "settle") /\ ReleaseQueue(o)
    /\ UNCHANGED <<lease, pending, failed, req, channel, calls, page, bounds>>

\* Mutant: a failed upsert is acknowledged like a stored value.
SettleEarly(o) ==
    /\ pc[o] = "settle"
    /\ at' = [at EXCEPT ![channel[o]] = "ok"]
    /\ \/ /\ completion[channel[o]] = "cancelled" /\ Fail(o)
          /\ effect' = [effect EXCEPT ![channel[o]] = "cancelled"]
       \/ /\ completion[channel[o]] = "confirmed" /\ UNCHANGED failed
          /\ effect' = [effect EXCEPT ![channel[o]] = "stored"]
       \/ /\ completion[channel[o]] = "confirmed" /\ Fail(o)
          /\ UNCHANGED effect
    /\ Goto(o, "resolve") /\ EndRequest(o)
    /\ UNCHANGED <<bridge, request, completion, heard, page, bounds>>

\* request_value: cancelled; confirmed and stored; not an option any more, or
\* the entry could not be written.
Settle(o) ==
    /\ pc[o] = "settle"
    /\ \/ /\ completion[channel[o]] = "cancelled" /\ Fail(o)
          /\ at' = [at EXCEPT ![channel[o]] = "ok"]
          /\ effect' = [effect EXCEPT ![channel[o]] = "cancelled"]
       \/ /\ completion[channel[o]] = "confirmed" /\ UNCHANGED failed
          /\ at' = [at EXCEPT ![channel[o]] = "ok"]
          /\ effect' = [effect EXCEPT ![channel[o]] = "stored"]
       \/ /\ completion[channel[o]] = "confirmed" /\ Fail(o)
          /\ RejectCall(channel[o]) /\ UNCHANGED effect
    /\ Goto(o, "resolve") /\ EndRequest(o)
    /\ UNCHANGED <<bridge, request, completion, heard, page, bounds>>

\* Mutant: a response that was not returned yet is leaked instead of dropped.
AbandonSilently(o) ==
    /\ \/ /\ pc[o] = "queued"
          /\ Goto(o, "Idle") /\ UNCHANGED <<bridge, req, channel>>
       \/ /\ pc[o] = "await"
          /\ Goto(o, "abandoning")
          /\ channel' = [channel EXCEPT ![o] = NoCall]
          /\ UNCHANGED <<bridge, req>>
       \/ /\ pc[o] = "received"
          /\ Goto(o, "Idle") /\ EndRequest(o) /\ ReleaseQueue(o)
          /\ UNCHANGED <<lease, pending>>
    /\ UNCHANGED <<failed, calls, page, bounds>>

\* The future of request is dropped at one of its awaits.  A response it has
\* not returned yet goes with it.
Abandon(o) ==
    /\ \/ /\ pc[o] = "queued"
          /\ Goto(o, "Idle") /\ UNCHANGED <<bridge, req, channel, at>>
       \/ /\ pc[o] = "await"
          /\ IF channel[o] = NoCall THEN UNCHANGED at ELSE RejectCall(channel[o])
          /\ Goto(o, "abandoning")
          /\ channel' = [channel EXCEPT ![o] = NoCall]
          /\ UNCHANGED <<bridge, req>>
       \/ /\ pc[o] = "received"
          /\ RejectCall(channel[o])
          /\ Goto(o, "Idle") /\ EndRequest(o) /\ ReleaseQueue(o)
          /\ UNCHANGED <<lease, pending>>
    /\ UNCHANGED <<failed, request, completion, effect, heard, page, bounds>>

-----------------------------------------------------------------------------
(* Calls of complete_runtime_input_request. *)

\* complete takes the sender, or finds none.
TakeSender(c) ==
    /\ at[c] = "flying"
    /\ at' = [at EXCEPT ![c] = IF request[c] \in pending THEN "taken" ELSE "inactive"]
    /\ pending' = pending \ {request[c]}
    /\ UNCHANGED <<lease, holder, operations, request, completion, effect, heard,
                   page, bounds>>

\* The receiver of request id r is alive and belongs to o.
Receiver(o, r) == req[o] = r /\ pc[o] \in {"emit", "await"}

\* complete sends the response; it fails when the receiver is gone.
SendResponse(c) ==
    /\ at[c] = "taken"
    /\ \/ \E o \in Operations :
              /\ Receiver(o, request[c])
              /\ channel' = [channel EXCEPT ![o] = c]
              /\ at' = [at EXCEPT ![c] = "waiting"]
       \/ /\ \A o \in Operations : ~Receiver(o, request[c])
          /\ at' = [at EXCEPT ![c] = "inactive"]
          /\ UNCHANGED channel
    /\ UNCHANGED <<bridge, pc, failed, req, request, completion, effect, heard,
                   page, bounds>>

\* A call that is over keeps nothing.
EndCall(c, point) ==
    /\ at' = [at EXCEPT ![c] = point]
    /\ request' = [request EXCEPT ![c] = NoRequest]
    /\ completion' = [completion EXCEPT ![c] = "none"]
    /\ effect' = [effect EXCEPT ![c] = "none"]
    /\ heard' = [heard EXCEPT ![c] = (point # "idle")]

\* remove(requestId): only the first request is ever completed, so it filters
\* out the first or, when that is gone already, nothing.
Remove(r) == IF store # <<>> /\ Head(store) = r THEN Tail(store) ELSE store

\* The promise of completeRuntimeInputRequest settles: acknowledged or refused
\* for good, the request is removed and submittingRef reset, by the effect on
\* the next request shown or in the finally block.  A stored value may first
\* have the instance's entries fetched again.
Told(c) ==
    /\ at[c] \in Results
    /\ IF heard[c]
       THEN /\ store' = Remove(request[c])
            /\ submitting' = FALSE
            /\ \/ EndCall(c, "idle")
               \/ effect[c] = "stored" /\ EndCall(c, "refresh")
       ELSE EndCall(c, "idle") /\ UNCHANGED <<store, submitting>>
    /\ UNCHANGED <<bridge, operations, session, sequence, events, bounds>>

\* The finally block of handleSubmit after the entries were fetched: it resets
\* submittingRef whichever request is shown by now.
Refreshed(c) ==
    /\ at[c] = "refresh"
    /\ EndCall(c, "idle")
    /\ submitting' = (submitting /\ ~heard[c])
    /\ UNCHANGED <<bridge, operations, session, sequence, events, store, bounds>>

\* Mutant: the finally block does not run after a transport error.
LoseCallStuck(c) ==
    /\ at[c] = "flying" /\ losses < MaxLosses
    /\ EndCall(c, "idle")
    /\ losses' = losses + 1
    /\ UNCHANGED <<bridge, operations, page, reloads>>

\* A transport error: the command never ran and the request stays visible.
LoseCall(c) ==
    /\ at[c] = "flying" /\ losses < MaxLosses
    /\ EndCall(c, "idle")
    /\ submitting' = (submitting /\ ~heard[c])
    /\ losses' = losses + 1
    /\ UNCHANGED <<bridge, operations, session, sequence, events, store, reloads>>

-----------------------------------------------------------------------------
(* The page. *)

\* handleSubmit and handleCancel of the request shown.  The editor of a request
\* does not submit twice at once (InputEntryEditor), but it can be cancelled.
Answer(c, choice) ==
    /\ store # <<>> /\ ~submitting /\ at[c] = "idle"
    /\ choice = "confirmed" =>
           \A d \in Calls : ~(heard[d] /\ request[d] = Head(store)
                                 /\ completion[d] = "confirmed")
    /\ at' = [at EXCEPT ![c] = "flying"]
    /\ request' = [request EXCEPT ![c] = Head(store)]
    /\ completion' = [completion EXCEPT ![c] = choice]
    /\ effect' = [effect EXCEPT ![c] = "none"]
    /\ heard' = [heard EXCEPT ![c] = TRUE]
    /\ submitting' = TRUE
    /\ UNCHANGED <<bridge, operations, session, sequence, events, store, bounds>>

\* Mutant: a request that arrives while another is shown is dropped.
DeliverOne ==
    /\ events # <<>>
    /\ events' = Tail(events)
    /\ store' = IF session \in {"none", "opening"} \/ store # <<>>
                THEN store ELSE <<Head(events)>>
    /\ UNCHANGED <<bridge, operations, calls, session, sequence, submitting, bounds>>

\* The event reaches the listener, if there is one.
Deliver ==
    /\ events # <<>>
    /\ events' = Tail(events)
    /\ store' = IF session \in {"none", "opening"} \/ InSeq(Head(events), store)
                THEN store ELSE Append(store, Head(events))
    /\ UNCHANGED <<bridge, operations, calls, session, sequence, submitting, bounds>>

Unmount ==
    /\ store' = <<>> /\ submitting' = FALSE
    /\ heard' = [c \in Calls |-> FALSE]

\* createSession: a new number, then listen.
OpenSession ==
    /\ session = "none" /\ sequence < MaxLeases
    /\ session' = "opening" /\ sequence' = sequence + 1
    /\ UNCHANGED <<bridge, operations, calls, events, store, submitting, bounds>>

\* startSession: listen returns and the bridge is called.
Listen ==
    /\ session = "opening"
    /\ session' = "listening"
    /\ UNCHANGED <<bridge, operations, calls, sequence, events, store, submitting, bounds>>

\* startSession fails: listen, or the call before it was admitted.
StartFails ==
    /\ session \in {"opening", "listening"} /\ losses < MaxLosses
    /\ session' = "none" /\ losses' = losses + 1
    /\ UNCHANGED <<bridge, operations, calls, sequence, events, store, submitting, reloads>>

\* set_ready(lease, true): another lease drops the senders of the old one.
SetReady ==
    /\ session = "listening"
    /\ session' = "ready"
    /\ lease' = sequence
    /\ pending' = IF lease = sequence THEN pending ELSE {}
    /\ UNCHANGED <<holder, operations, calls, sequence, events, store, submitting, bounds>>

\* The last owner disposes of the session.
CloseSession ==
    /\ session = "ready"
    /\ session' = "closing"
    /\ UNCHANGED <<bridge, operations, calls, sequence, events, store, submitting, bounds>>

\* set_ready(lease, false).
UnsetReady ==
    /\ session = "closing"
    /\ session' = "closed"
    /\ lease' = IF lease = sequence THEN 0 ELSE lease
    /\ pending' = IF lease = sequence THEN {} ELSE pending
    /\ UNCHANGED <<holder, operations, calls, sequence, events, store, submitting, bounds>>

\* The shutdown call is lost; local teardown goes on.
LoseShutdown ==
    /\ session = "closing" /\ losses < MaxLosses
    /\ session' = "closed" /\ losses' = losses + 1
    /\ UNCHANGED <<bridge, operations, calls, sequence, events, store, submitting, reloads>>

\* The finally block of the shutdown: unlisten, reset, no active session.
Dispose ==
    /\ session = "closed"
    /\ session' = "none" /\ Unmount
    /\ UNCHANGED <<bridge, operations, at, request, completion, effect, sequence,
                   events, bounds>>

\* The WebView loads the page again: the page's memory starts over, and so
\* does leaseSequence.  Messages that native code has not seen are gone.
Reload ==
    /\ reloads < MaxReloads
    /\ reloads' = reloads + 1
    /\ session' = "none" /\ sequence' = 0 /\ events' = <<>> /\ Unmount
    /\ at' = [c \in Calls |-> IF at[c] = "flying" THEN "idle" ELSE at[c]]
    /\ request' = [c \in Calls |-> IF at[c] = "flying" THEN NoRequest ELSE request[c]]
    /\ completion' = [c \in Calls |-> IF at[c] = "flying" THEN "none" ELSE completion[c]]
    /\ UNCHANGED <<bridge, operations, effect, losses>>

-----------------------------------------------------------------------------
OperationNext(o) ==
    \/ Begin(o) \/ End(o) \/ Ask(o) \/ Register(o) \/ NotReady(o) \/ Emit(o)
    \/ Receive(o) \/ Interrupted(o) \/ Discard(o) \/ ReturnResponse(o)
    \/ Settle(o) \/ Abandon(o)
CallNext(c) ==
    \/ TakeSender(c) \/ SendResponse(c) \/ Told(c) \/ Refreshed(c) \/ LoseCall(c)
    \/ \E choice \in {"confirmed", "cancelled"} : Answer(c, choice)
PageNext ==
    \/ Deliver \/ OpenSession \/ Listen \/ StartFails \/ SetReady \/ CloseSession
    \/ UnsetReady \/ LoseShutdown \/ Dispose \/ Reload

Next == \/ \E o \in Operations : OperationNext(o)
        \/ \E c \in Calls : CallNext(c)
        \/ PageNext

Spec == Init /\ [][Next]_vars

\* request_queue is first come first served, polled futures advance, the page's
\* event loop runs, and the user answers what is shown.
Fairness ==
    /\ \A o \in Operations :
           /\ SF_vars(Register(o) \/ NotReady(o))
           /\ WF_vars(Emit(o) \/ Receive(o) \/ Interrupted(o) \/ Discard(o)
                        \/ ReturnResponse(o) \/ Settle(o))
    /\ \A c \in Calls : WF_vars(TakeSender(c) \/ SendResponse(c) \/ Told(c)
                                  \/ Refreshed(c))
    /\ WF_vars(\E c \in Calls, choice \in {"confirmed", "cancelled"} : Answer(c, choice))
    /\ WF_vars(Deliver)
    /\ WF_vars(Listen \/ SetReady \/ UnsetReady \/ Dispose)

FairSpec == Spec /\ Fairness

-----------------------------------------------------------------------------
(* Properties. *)

Prompting == {"emit", "await", "failing", "abandoning"}
Answerable == {"emit", "await", "received", "settle", "failing"}

\* A registered sender belongs to the one operation that holds the queue and is
\* still inside request(): no early return, failed emission, interruption or
\* dropped future leaves an entry in pending that nobody waits for, and two
\* requests are never answerable at once (PendingRequestGuard, request_queue).
PendingIsAwaited ==
    \A r \in pending : /\ holder \in Operations
                       /\ req[holder] = r /\ pc[holder] \in Prompting

\* What complete_runtime_input_request returns is what happened: it succeeds
\* exactly when the user's choice took effect (the value is stored, or the
\* operation saw the cancellation), and an answer that lost a race against an
\* interruption, a dropped operation or another answer changed nothing.
ToldTheTruth ==
    \A c \in Calls :
        /\ at[c] = "ok" => effect[c] = IF completion[c] = "confirmed"
                                      THEN "stored" ELSE "cancelled"
        /\ at[c] \in {"inactive", "rejected"} => effect[c] = "none"

\* A call that waits for its acknowledgement waits for an operation that has
\* its response and will acknowledge or drop it, and for no other call's: the
\* prompt's submittingRef cannot stay set for ever.
WaitingCallIsHeld ==
    \A c \in Calls :
        at[c] = "waiting" =>
            \E o \in Operations : /\ channel[o] = c
                                 /\ req[o] = request[c]
                                 /\ pc[o] \in Answerable

\* After one input of an interaction failed or was cancelled the operation
\* opens no further prompt (the comment in resolve_in_interaction).
NoPromptAfterFailure ==
    \A o \in Operations :
        failed[o] => pc[o] \notin {"queued", "emit", "await", "received", "settle"}

\* While the session that owns the bridge is the page's current one, whatever
\* an operation waits for is on its way to the user, shown or being completed:
\* the page cannot lose a request that native code still holds open.
PendingIsAnswerable ==
    (session = "ready" /\ lease = sequence) =>
        \A r \in pending :
            \/ InSeq(r, events) \/ InSeq(r, store)
            \/ \E o \in Operations : req[o] = r /\ pc[o] \in {"emit", "failing", "abandoning"}

\* An operation that waits for the queue gets its turn, if the page has a
\* session again and again, however often answers and shutdowns are lost,
\* sessions change and operations are dropped.
PromptsEnd ==
    \A o \in Operations :
        []<>(session = "ready") => (pc[o] = "queued" ~> pc[o] # "queued")

\* runtimeInputBridge.ts: "a later session's new lease replaces any stale
\* native bridge authority", so no request of an earlier session stays open
\* when a session becomes ready.
NewSessionReplaces ==
    [][session = "listening" /\ session' = "ready" => pending' = {}]_vars

\* The test serializes_requests_until_the_prior_resolver_acknowledges: no
\* request is open while the resolver of an earlier one has an answer that it
\* has not acknowledged.
SerializedUntilAcknowledged ==
    \A o \in Operations : pc[o] = "settle" => pending = {}

\* The notice "The Runtime Input request ended before it could be completed"
\* is shown only for a request that was not completed.
FailureNoticeIsTrue ==
    \A c, d \in Calls :
        (/\ at[c] \in {"inactive", "rejected"} /\ heard[c]
         /\ request[d] = request[c])
        => effect[d] = "none"
=============================================================================
