------------------------------ MODULE ChatSession ------------------------------
(***************************************************************************)
(* Chat leases (services/chat_session.rs and below, Chat/index.tsx).  The  *)
(* page selects a digital employee, which opens a lease under the present  *)
(* Manager session; the lease hands out short tokens, remembers what was   *)
(* selected and carries transfers and resources.  It ends when the page    *)
(* closes it or the session ends.  Every request captures the session's    *)
(* generation and the lease, works without a lock, and commits under the   *)
(* Manager's transaction lock, the lease's lock or both.                   *)
(*                                                                         *)
(* The n-th selection has revision n and opens lease n.  A transfer        *)
(* uploads a file; a resource is streamed to the page or saved to a file.  *)
(***************************************************************************)
EXTENDS Naturals, Sequences, FiniteSets

CONSTANTS
    MaxSelections,  \* bounds the selections
    MaxChatSessions \* bounds the Manager sessions

ASSUME ChatAssumption == MaxSelections \in Nat /\ MaxChatSessions \in Nat \ {0}

VARIABLES
    chatManager,       \* generation of the Manager session, whether it is in, its cleanup
    chatShown,         \* the last selection, and whether it is still on the page
    chatOpening,       \* per selection: its chat_open_session request
    chatLeases,        \* per selection: its lease
    activeSelection,   \* active_selections: revision and lease
    chatKind,          \* the kind of requests of this behaviour
    chatRequest,       \* per lease: its request
    chatEntries,       \* leases that have a transfer or resource registered
    recents,           \* the selections saved as recent, one after the other
    credentialsHanded, \* credentials returned: <<generation of the lease, of the session>>
    workDelivered      \* work completed: whether its lease was cancelled

chatVars == <<chatManager, chatShown, chatOpening, chatLeases, activeSelection, chatKind,
              chatRequest, chatEntries, recents, credentialsHanded, workDelivered>>

Selections == 1..MaxSelections
ChatRequestKinds == {"remember", "credential", "transfer", "resource"}
NoChatLease == [state |-> "none", gen |-> 0, cancelled |-> FALSE, token |-> FALSE]
NoSelection == [revision |-> 0, lease |-> 0]

ChatInit ==
    /\ chatManager = [gen |-> 1, in |-> TRUE, cleanup |-> "done", todo |-> {}]
    /\ chatShown = [last |-> 0, here |-> FALSE]
    /\ chatOpening = [n \in Selections |-> [at |-> "none", gen |-> 0]]
    /\ chatLeases = [n \in Selections |-> NoChatLease]
    /\ activeSelection = NoSelection
    /\ chatKind \in ChatRequestKinds
    /\ chatRequest = [n \in Selections |-> "none"]
    /\ chatEntries = {} /\ recents = <<>> /\ credentialsHanded = {} /\ workDelivered = {}

SessionIs(gen) == chatManager.in /\ chatManager.gen = gen
LeaseHeld(n) == chatLeases[n].state = "held"

-----------------------------------------------------------------------------
(* The Manager session: it ends, its cleanup closes every lease *)

EndSession ==
    /\ chatManager.in /\ chatManager.cleanup = "done"
    /\ chatManager' = [chatManager EXCEPT !.in = FALSE, !.cleanup = "due"]
    /\ UNCHANGED <<chatKind, chatShown, chatOpening, chatLeases, activeSelection, chatRequest,
                   chatEntries, recents, credentialsHanded, workDelivered>>

SignIn ==
    /\ ~chatManager.in /\ chatManager.gen < MaxChatSessions
    /\ chatManager' = [chatManager EXCEPT !.in = TRUE, !.gen = @ + 1]
    /\ UNCHANGED <<chatKind, chatShown, chatOpening, chatLeases, activeSelection, chatRequest,
                   chatEntries, recents, credentialsHanded, workDelivered>>

\* close_for_context(None): the leases there are, then one after the other.
CleanUpLeases ==
    /\ chatManager.cleanup = "due"
    /\ chatManager' = [chatManager EXCEPT !.cleanup = "running",
                                            !.todo = {n \in Selections : LeaseHeld(n)}]
    /\ UNCHANGED <<chatKind, chatShown, chatOpening, chatLeases, activeSelection, chatRequest,
                   chatEntries, recents, credentialsHanded, workDelivered>>

CleanedUp ==
    /\ chatManager.cleanup = "running"
    /\ \A n \in chatManager.todo : chatLeases[n].state = "closed"
    /\ chatManager' = [chatManager EXCEPT !.cleanup = "done", !.todo = {}]
    /\ UNCHANGED <<chatKind, chatShown, chatOpening, chatLeases, activeSelection, chatRequest,
                   chatEntries, recents, credentialsHanded, workDelivered>>

-----------------------------------------------------------------------------
(* Opening and closing a lease *)

\* The page shows an employee, or leaves.
SelectEmployee ==
    /\ chatManager.in /\ chatShown.last < MaxSelections
    /\ LET n == chatShown.last + 1 IN
       /\ chatShown' = [last |-> n, here |-> TRUE]
       /\ chatOpening' = [chatOpening EXCEPT ![n] = [at |-> "asked", gen |-> chatManager.gen]]
    /\ UNCHANGED <<chatKind, chatManager, chatLeases, activeSelection, chatRequest,
                   chatEntries, recents, credentialsHanded, workDelivered>>

LeaveChat ==
    /\ chatShown.here /\ chatShown' = [chatShown EXCEPT !.here = FALSE]
    /\ UNCHANGED <<chatKind, chatManager, chatOpening, chatLeases, activeSelection,
                   chatRequest, chatEntries, recents, credentialsHanded, workDelivered>>

\* activate_selection: an older revision does not take over from a newer one.
Activated(n) ==
    IF \/ activeSelection.revision > n
       \/ activeSelection.revision = n /\ activeSelection.lease # n
    THEN activeSelection ELSE [revision |-> n, lease |-> n]

NewLease(n) == [state |-> "held", gen |-> chatOpening[n].gen, cancelled |-> FALSE, token |-> TRUE]

\* open commits for the generation it captured; the requests before it may fail.
\* Mutant: whatever session there is.
CommitOpenAnyway(n) ==
    /\ chatOpening[n].at = "asked"
    /\ chatOpening' = [chatOpening EXCEPT ![n].at = "answered"]
    /\ \/ /\ chatLeases' = [chatLeases EXCEPT ![n] =
                 [state |-> "held", gen |-> chatOpening[n].gen, cancelled |-> FALSE, token |-> TRUE]]
          /\ activeSelection' = Activated(n)
       \/ UNCHANGED <<chatLeases, activeSelection>>
    /\ UNCHANGED <<chatKind, chatManager, chatShown, chatRequest, chatEntries, recents,
                   credentialsHanded, workDelivered>>
CommitOpen(n) ==
    /\ chatOpening[n].at = "asked"
    /\ chatOpening' = [chatOpening EXCEPT ![n].at = "answered"]
    /\ \/ /\ SessionIs(chatOpening[n].gen)
          /\ chatLeases' = [chatLeases EXCEPT ![n] = NewLease(n)]
          /\ activeSelection' = Activated(n)
       \/ UNCHANGED <<chatLeases, activeSelection>>
    /\ UNCHANGED <<chatKind, chatManager, chatShown, chatRequest, chatEntries, recents,
                   credentialsHanded, workDelivered>>

\* close: the lease leaves the map; then, under its lock, it is cancelled with all its
\* transfers and resources; then its selection is no longer active.
RemoveLease(n) ==
    /\ LeaseHeld(n)
    /\ \/ n \in chatManager.todo
       \/ chatOpening[n].at = "answered" /\ ~(chatShown.here /\ chatShown.last = n)
    /\ chatLeases' = [chatLeases EXCEPT ![n].state = "removed"]
    /\ UNCHANGED <<chatKind, chatManager, chatShown, chatOpening, activeSelection,
                   chatRequest, chatEntries, recents, credentialsHanded, workDelivered>>

CancelLease(n) ==
    /\ chatLeases[n].state = "removed"
    /\ chatLeases' = [chatLeases EXCEPT ![n].state = "cancelled", ![n].cancelled = TRUE]
    /\ chatEntries' = chatEntries \ {n}
    /\ UNCHANGED <<chatKind, chatManager, chatShown, chatOpening, activeSelection,
                   chatRequest, recents, credentialsHanded, workDelivered>>

Deactivate(n) ==
    /\ chatLeases[n].state = "cancelled"
    /\ chatLeases' = [chatLeases EXCEPT ![n].state = "closed"]
    /\ activeSelection' = IF activeSelection = [revision |-> n, lease |-> n]
                 THEN [activeSelection EXCEPT !.lease = 0] ELSE activeSelection
    /\ UNCHANGED <<chatKind, chatManager, chatShown, chatOpening, chatRequest, chatEntries,
                   recents, credentialsHanded, workDelivered>>

-----------------------------------------------------------------------------
(* Requests of a lease: they look it up first *)

ChatAt(n, k, step) == chatKind = k /\ chatRequest[n] = step
ChatGoes(n, step) == chatRequest' = [chatRequest EXCEPT ![n] = step]

\* Bound: one request per lease, and one kind of them in a behaviour.  Requests of two
\* kinds meet only in the lease, and the kinds of it they change differ.
BeginChatRequest(n) ==
    /\ LeaseHeld(n) /\ chatOpening[n].at = "answered" /\ chatRequest[n] = "none"
    /\ ChatGoes(n, "begun")
    /\ UNCHANGED <<chatKind, chatManager, chatShown, chatOpening, chatLeases,
                   activeSelection, chatEntries, recents, credentialsHanded, workDelivered>>

FailChatRequest(n) ==
    /\ chatRequest[n] \notin {"none", "done"} /\ ChatGoes(n, "done")
    /\ chatEntries' = IF chatKind = "transfer" THEN chatEntries \ {n} ELSE chatEntries
    /\ UNCHANGED <<chatKind, chatManager, chatShown, chatOpening, chatLeases,
                   activeSelection, recents, credentialsHanded, workDelivered>>

\* validate_active_lease
\* Mutant: the lease need not be the active one.
HeldLease(n) == LeaseHeld(n) /\ ~chatLeases[n].cancelled
ActiveLease(n) ==
    /\ LeaseHeld(n) /\ ~chatLeases[n].cancelled
    /\ activeSelection = [revision |-> n, lease |-> n]

\* remember.  The platform and the conversation are saved, and the latter read, by requests
\* with the same control.
CommitRemember(n) ==
    /\ ChatAt(n, "remember", "begun")
    /\ SessionIs(chatLeases[n].gen) /\ ActiveLease(n)
    /\ recents' = Append(recents, n) /\ ChatGoes(n, "done")
    /\ UNCHANGED <<chatKind, chatManager, chatShown, chatOpening, chatLeases,
                   activeSelection, chatEntries, credentialsHanded, workDelivered>>

\* credential: a fresh cached token, or a new one that is exchanged and then committed.
Hand(n) ==
    /\ credentialsHanded' = credentialsHanded
           \cup {<<chatLeases[n].gen, chatManager.gen, chatManager.in>>}
    /\ ChatGoes(n, "done")

CachedCredential(n) ==
    /\ ChatAt(n, "credential", "begun") /\ chatLeases[n].token
    /\ SessionIs(chatLeases[n].gen) /\ HeldLease(n)
    /\ Hand(n)
    /\ UNCHANGED <<chatKind, chatManager, chatShown, chatOpening, chatLeases,
                   activeSelection, chatEntries, recents, workDelivered>>

ExchangeToken(n) ==
    /\ ChatAt(n, "credential", "begun")
    /\ SessionIs(chatLeases[n].gen)
    /\ ChatGoes(n, "exchanged")
    /\ UNCHANGED <<chatKind, chatManager, chatShown, chatOpening, chatLeases,
                   activeSelection, chatEntries, recents, credentialsHanded, workDelivered>>

\* Mutant: the session is not looked at again after the exchange.
CommitLateCredential(n) ==
    /\ ChatAt(n, "credential", "exchanged")
    /\ HeldLease(n)
    /\ chatLeases' = [chatLeases EXCEPT ![n].token = TRUE] /\ Hand(n)
    /\ UNCHANGED <<chatKind, chatManager, chatShown, chatOpening, activeSelection,
                   chatEntries, recents, workDelivered>>
CommitCredential(n) ==
    /\ ChatAt(n, "credential", "exchanged")
    /\ SessionIs(chatLeases[n].gen) /\ HeldLease(n)
    /\ chatLeases' = [chatLeases EXCEPT ![n].token = TRUE] /\ Hand(n)
    /\ UNCHANGED <<chatKind, chatManager, chatShown, chatOpening, activeSelection,
                   chatEntries, recents, workDelivered>>

InvalidateToken(n) ==
    /\ chatKind = "credential" /\ LeaseHeld(n) /\ chatLeases[n].token
    /\ chatLeases' = [chatLeases EXCEPT ![n].token = FALSE]
    /\ UNCHANGED <<chatKind, chatManager, chatShown, chatOpening, activeSelection,
                   chatRequest, chatEntries, recents, credentialsHanded, workDelivered>>

-----------------------------------------------------------------------------
(* Transfers and resources *)

\* prepare_transfer, under the lease's lock.
\* Mutant: the lease was looked up, which is all that is asked.
RegisterLookedUp(n) ==
    /\ ChatAt(n, "transfer", "begun")
    /\ chatEntries' = chatEntries \cup {n} /\ ChatGoes(n, "registered")
    /\ UNCHANGED <<chatKind, chatManager, chatShown, chatOpening, chatLeases, activeSelection,
                   recents, credentialsHanded, workDelivered>>
PrepareTransfer(n) ==
    /\ ChatAt(n, "transfer", "begun") /\ ~chatLeases[n].cancelled
    /\ chatEntries' = chatEntries \cup {n} /\ ChatGoes(n, "registered")
    /\ UNCHANGED <<chatKind, chatManager, chatShown, chatOpening, chatLeases, activeSelection,
                   recents, credentialsHanded, workDelivered>>

\* register_resource: the same test, after the local endpoint was awaited.
RegisterResource(n) ==
    /\ ChatAt(n, "resource", "begun") /\ ~chatLeases[n].cancelled
    /\ chatEntries' = chatEntries \cup {n} /\ ChatGoes(n, "registered")
    /\ UNCHANGED <<chatKind, chatManager, chatShown, chatOpening, chatLeases, activeSelection,
                   recents, credentialsHanded, workDelivered>>

\* cancel_transfer and release_resource
ReleaseEntry(n) ==
    /\ n \in chatEntries /\ chatEntries' = chatEntries \ {n}
    /\ UNCHANGED <<chatKind, chatManager, chatShown, chatOpening, chatLeases, activeSelection,
                   chatRequest, recents, credentialsHanded, workDelivered>>

\* transfer: a token for this operation alone.
StartTransfer(n) ==
    /\ ChatAt(n, "transfer", "registered") /\ n \in chatEntries /\ LeaseHeld(n)
    /\ SessionIs(chatLeases[n].gen)
    /\ ChatGoes(n, "running")
    /\ UNCHANGED <<chatKind, chatManager, chatShown, chatOpening, chatLeases, activeSelection,
                   chatEntries, recents, credentialsHanded, workDelivered>>

\* The answer of a transfer: one that was cancelled in the meantime wins over it.
FinishTransfer(n) ==
    /\ ChatAt(n, "transfer", "running") /\ n \in chatEntries
    /\ workDelivered' = workDelivered \cup {chatLeases[n].cancelled}
    /\ chatEntries' = chatEntries \ {n} /\ ChatGoes(n, "done")
    /\ UNCHANGED <<chatKind, chatManager, chatShown, chatOpening, chatLeases, activeSelection,
                   recents, credentialsHanded>>

\* resource_stream, for the local endpoint and for a file.
StartStream(n) ==
    /\ ChatAt(n, "resource", "registered") /\ n \in chatEntries /\ HeldLease(n)
    /\ SessionIs(chatLeases[n].gen)
    /\ ChatGoes(n, "running")
    /\ UNCHANGED <<chatKind, chatManager, chatShown, chatOpening, chatLeases, activeSelection,
                   chatEntries, recents, credentialsHanded, workDelivered>>

\* A file that was written is published under the lease's lock.  The resource stays and
\* may be read again.
\* Mutant: it is published when its last byte is written.
PublishWritten(n) ==
    /\ ChatAt(n, "resource", "running")
    /\ workDelivered' = workDelivered \cup {chatLeases[n].cancelled}
    /\ ChatGoes(n, "registered")
    /\ UNCHANGED <<chatKind, chatManager, chatShown, chatOpening, chatLeases, activeSelection,
                   chatEntries, recents, credentialsHanded>>
SaveResource(n) ==
    /\ ChatAt(n, "resource", "running") /\ LeaseHeld(n)
    /\ ~chatLeases[n].cancelled /\ n \in chatEntries
    /\ workDelivered' = workDelivered \cup {chatLeases[n].cancelled}
    /\ ChatGoes(n, "registered")
    /\ UNCHANGED <<chatKind, chatManager, chatShown, chatOpening, chatLeases, activeSelection,
                   chatEntries, recents, credentialsHanded>>

ChatNext ==
    \/ EndSession \/ SignIn \/ CleanUpLeases \/ CleanedUp \/ SelectEmployee \/ LeaveChat
    \/ \E n \in Selections :
           \/ CommitOpen(n) \/ RemoveLease(n) \/ CancelLease(n) \/ Deactivate(n)
           \/ BeginChatRequest(n) \/ FailChatRequest(n) \/ CommitRemember(n)
           \/ CachedCredential(n) \/ ExchangeToken(n) \/ CommitCredential(n)
           \/ InvalidateToken(n)
           \/ PrepareTransfer(n) \/ StartTransfer(n) \/ FinishTransfer(n)
           \/ RegisterResource(n) \/ StartStream(n) \/ SaveResource(n) \/ ReleaseEntry(n)

ChatSpec == ChatInit /\ [][ChatNext]_chatVars

-----------------------------------------------------------------------------
ChatTypeOK ==
    /\ chatManager \in [gen : 1..MaxChatSessions, in : BOOLEAN,
                        cleanup : {"done", "due", "running"}, todo : SUBSET Selections]
    /\ chatShown \in [last : 0..MaxSelections, here : BOOLEAN]
    /\ chatOpening \in [Selections -> [at : {"none", "asked", "answered"},
                                       gen : 0..MaxChatSessions]]
    /\ chatLeases \in [Selections ->
           [state : {"none", "held", "removed", "cancelled", "closed"},
            gen : 0..MaxChatSessions, cancelled : BOOLEAN, token : BOOLEAN]]
    /\ activeSelection \in [revision : 0..MaxSelections, lease : 0..MaxSelections]
    /\ chatKind \in ChatRequestKinds
    /\ chatRequest \in [Selections ->
           {"none", "begun", "exchanged", "registered", "running", "done"}]
    /\ chatEntries \subseteq Selections
    /\ recents \in Seq(Selections)
    /\ credentialsHanded \subseteq (0..MaxChatSessions) \X (0..MaxChatSessions) \X BOOLEAN
    /\ workDelivered \subseteq BOOLEAN

\* The recent employee that is saved never goes back to an earlier selection, whatever
\* order the requests of several selections are answered in.
RecentIsLatest == \A i, j \in DOMAIN recents : i < j => recents[i] <= recents[j]

\* A credential is handed out only under the session its lease was opened in, although
\* the exchange runs without a lock.
CredentialIsOfSession == \A h \in credentialsHanded : h[1] = h[2] /\ h[3]

\* After the cleanup of a session no lease of it is left.
NoLeaseSurvives ==
    chatManager.cleanup = "done" =>
        \A n \in Selections : LeaseHeld(n) => SessionIs(chatLeases[n].gen)

\* A closed lease leaves no transfer and no resource behind, and nothing is delivered
\* for one that was cancelled or released.
ClosedHoldsNothing ==
    /\ \A n \in chatEntries : ~chatLeases[n].cancelled
    /\ TRUE \notin workDelivered

ChatHolds == RecentIsLatest /\ CredentialIsOfSession /\ NoLeaseSurvives /\ ClosedHoldsNothing

=============================================================================
