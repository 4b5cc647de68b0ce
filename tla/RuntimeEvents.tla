---------------------------- MODULE RuntimeEvents ----------------------------
(***************************************************************************)
(* How the state of one Computer reaches the screen: runtime.rs and         *)
(* computer_runtime_events.rs up to src/stores/runtimeStore.ts.  The SDK    *)
(* broadcasts causes without snapshots; the relay of the current handle     *)
(* turns each into an event with a snapshot it takes then; commands publish *)
(* changes of the client's own diagnostics the same way, and status queries *)
(* return snapshots.  A snapshot is taken under one lock, which gives it a  *)
(* revision; it is delivered later, in any order.                           *)
(***************************************************************************)
EXTENDS Naturals, Sequences, FiniteSets

CONSTANTS
    Tasks,        \* commands that publish or query
    NoSnapshot,
    MaxChanges,   \* bounds the changes of the SDK's state
    MaxDiagnostics, \* bounds the changes of the client's diagnostics
    MaxSnapshots, \* bounds the snapshots taken
    EventCapacity \* the broadcast channel's

\* The causes the SDK broadcasts, and those the client adds to them.
Causes == {"state", "oauth", "shutdown"}
Kinds == Causes \cup {"resync", "published", "diagnostic", "replaced"}
Snapshots == [kind : Kinds, generation : 1..2, revision : 0..MaxSnapshots,
              change : 0..MaxChanges, diagnosed : 0..MaxDiagnostics, oauth : 0..MaxChanges]

\* What the module assumes of its constants.
RuntimeEventsAssumption ==
    /\ MaxChanges \in Nat /\ MaxDiagnostics \in Nat
    /\ MaxSnapshots \in Nat \ {0} /\ EventCapacity \in Nat \ {0}
    /\ NoSnapshot \notin Snapshots

VARIABLES
    generation,   \* runtime_generation
    sdkChange,    \* the SDK's state: how often it changed
    oauthStatus,  \* the change that last set the OAuth status
    diagnosed,    \* the client's diagnostics: how often they changed
    ended,        \* the handle was shut down
    revision,     \* runtime_snapshot_revision
    relay,        \* the relay's task and its receiver
    taskSnapshot, \* what a command took and has not delivered
    shown,        \* runtimeStore: the accepted snapshot
    shownOAuth    \* mcpStore: the OAuth status of the row

eventVars == <<generation, sdkChange, oauthStatus, diagnosed, ended, revision, relay,
               taskSnapshot, shown, shownOAuth>>

NoRelay == [generation |-> 0, queue |-> <<>>, lagged |-> FALSE, pending |-> <<>>,
            taken |-> NoSnapshot]
RelayOf(handle) == [NoRelay EXCEPT !.generation = handle]
Owed(kind) == [kind |-> kind, generation |-> generation, revision |-> 0, change |-> 0,
               diagnosed |-> 0, oauth |-> 0]
\* What a snapshot says of the client's own problems, besides the SDK's state.
Problems == diagnosed
Snapshot(kind) == [kind |-> kind, generation |-> generation, revision |-> revision + 1,
                   change |-> sdkChange, diagnosed |-> Problems, oauth |-> oauthStatus]

EventsInit ==
    /\ generation = 1 /\ sdkChange = 0 /\ oauthStatus = 0 /\ diagnosed = 0 /\ ended = FALSE
    /\ revision = 1
    /\ relay = RelayOf(1)
    /\ taskSnapshot = [t \in Tasks |-> NoSnapshot]
    /\ shown = [generation |-> 1, revision |-> 1, change |-> 0, diagnosed |-> 0]
    /\ shownOAuth = 0

-----------------------------------------------------------------------------
\* The SDK changes its state and broadcasts the cause; a full channel drops the
\* oldest and says so.

Broadcast(kind) ==
    relay' = IF relay.generation # generation THEN relay
             ELSE IF Len(relay.queue) < EventCapacity
             THEN [relay EXCEPT !.queue = Append(@, kind)]
             ELSE [relay EXCEPT !.queue = Append(Tail(@), kind), !.lagged = TRUE]

\* A replacement holds the lifecycle until it has published.
Replacing == \E t \in Tasks : taskSnapshot[t] # NoSnapshot /\ taskSnapshot[t].kind = "replaced"

SdkChanges(kind) ==
    /\ ~ended /\ sdkChange < MaxChanges
    /\ kind = "shutdown" => ~Replacing
    /\ sdkChange' = sdkChange + 1
    /\ oauthStatus' = IF kind = "oauth" THEN sdkChange' ELSE oauthStatus
    /\ ended' = (kind = "shutdown")
    /\ Broadcast(kind)
    /\ UNCHANGED <<generation, diagnosed, revision, taskSnapshot, shown, shownOAuth>>

-----------------------------------------------------------------------------
\* Mutant: the newest delivered is taken for the newest.
AcceptsAll(snapshot) == snapshot.generation >= shown.generation

\* runtimeStore: a snapshot of a newer handle, or of the same with a newer revision.
\* A cause counts only with its snapshot; a lag marker reloads the rows.
Accepts(snapshot) ==
    \/ snapshot.generation > shown.generation
    \/ snapshot.generation = shown.generation /\ snapshot.revision > shown.revision

Receive(snapshot) ==
    IF ~Accepts(snapshot) THEN UNCHANGED <<shown, shownOAuth>>
    ELSE /\ shown' = [generation |-> snapshot.generation, revision |-> snapshot.revision,
                      change |-> snapshot.change, diagnosed |-> snapshot.diagnosed]
         /\ shownOAuth' = CASE snapshot.kind = "oauth" -> snapshot.oauth
                            [] snapshot.kind = "resync" -> oauthStatus
                            [] OTHER -> shownOAuth

-----------------------------------------------------------------------------
\* The relay: it drains the channel into a batch in which only the last OAuth cause
\* stays, and replaces a batch it lagged behind by one marker.

\* Where the causes are that are kept.
Kept(queue) ==
    {i \in DOMAIN queue :
        queue[i] = "oauth" => \A j \in DOMAIN queue : j > i => queue[j] # "oauth"}
\* The n-th of the causes that are kept.
Place(queue, n) ==
    CHOOSE i \in Kept(queue) : Cardinality({j \in Kept(queue) : j <= i}) = n
KeepLastOAuth(queue) == [n \in 1..Cardinality(Kept(queue)) |-> queue[Place(queue, n)]]

RelayReceive ==
    /\ relay.generation # 0 /\ relay.pending = <<>> /\ relay.taken = NoSnapshot
    /\ relay.queue # <<>>
    /\ relay' = [relay EXCEPT !.queue = <<>>, !.lagged = FALSE,
                   !.pending = IF relay.lagged THEN <<"resync">> ELSE KeepLastOAuth(relay.queue)]
    /\ UNCHANGED <<generation, sdkChange, oauthStatus, diagnosed, ended, revision, taskSnapshot,
                   shown, shownOAuth>>

\* A relay of a replaced handle ends.  (An OAuth cause carries the status of its time;
\* the handle's latest stands for it, the batch has kept only the last.)
RelayTake ==
    /\ relay.pending # <<>> /\ relay.taken = NoSnapshot /\ revision < MaxSnapshots
    /\ IF relay.generation = generation
       THEN /\ relay' = [relay EXCEPT !.pending = Tail(@), !.taken = Snapshot(Head(relay.pending))]
            /\ revision' = revision + 1
       ELSE relay' = NoRelay /\ UNCHANGED revision
    /\ UNCHANGED <<generation, sdkChange, oauthStatus, diagnosed, ended, taskSnapshot, shown,
                   shownOAuth>>

\* The shutdown of the handle is the last cause it relays.
RelayEmit ==
    /\ relay.taken # NoSnapshot
    /\ Receive(relay.taken)
    /\ relay' = IF relay.taken.kind = "shutdown" THEN NoRelay ELSE [relay EXCEPT !.taken = NoSnapshot]
    /\ UNCHANGED <<generation, sdkChange, oauthStatus, diagnosed, ended, revision,
                   taskSnapshot>>

-----------------------------------------------------------------------------
\* Commands: a diagnostic changes and is published; a status is queried.

Take(t) ==
    /\ taskSnapshot[t] = NoSnapshot /\ revision < MaxSnapshots
    /\ taskSnapshot' = [taskSnapshot EXCEPT ![t] = Snapshot("published")]
    /\ revision' = revision + 1

QueryStatus(t) ==
    /\ Take(t)
    /\ UNCHANGED <<generation, sdkChange, oauthStatus, diagnosed, ended, relay, shown,
                   shownOAuth>>

\* The change is made first; the task owes the event until it has taken its snapshot.
ChangeDiagnostic(t) ==
    /\ taskSnapshot[t] = NoSnapshot /\ diagnosed < MaxDiagnostics
    /\ diagnosed' = diagnosed + 1
    /\ taskSnapshot' = [taskSnapshot EXCEPT ![t] = Owed("diagnostic")]
    /\ UNCHANGED <<generation, sdkChange, oauthStatus, ended, revision, relay, shown,
                   shownOAuth>>

PublishTake(t) ==
    /\ taskSnapshot[t] # NoSnapshot /\ revision < MaxSnapshots
    /\ \/ taskSnapshot[t].kind = "diagnostic"
       \/ taskSnapshot[t].kind = "replaced" /\ relay.generation = generation
    /\ taskSnapshot' = [taskSnapshot EXCEPT ![t] = Snapshot("published")]
    /\ revision' = revision + 1
    /\ UNCHANGED <<generation, sdkChange, oauthStatus, diagnosed, ended, relay, shown,
                   shownOAuth>>

Deliver(t) ==
    /\ taskSnapshot[t] # NoSnapshot /\ taskSnapshot[t].kind = "published"
    /\ Receive(taskSnapshot[t])
    /\ taskSnapshot' = [taskSnapshot EXCEPT ![t] = NoSnapshot]
    /\ UNCHANGED <<generation, sdkChange, oauthStatus, diagnosed, ended, revision, relay>>

\* replace_sdk_computer: the relay is stopped, the handle exchanged and its
\* diagnostics cleared, a relay for the new handle subscribes, HandleReplaced goes out.
ReplaceHandle(t) ==
    /\ generation = 1 /\ taskSnapshot[t] = NoSnapshot
    /\ sdkChange < MaxChanges /\ diagnosed < MaxDiagnostics
    /\ generation' = generation + 1
    /\ sdkChange' = sdkChange + 1 /\ diagnosed' = diagnosed + 1 /\ ended' = FALSE
    /\ oauthStatus' = 0 /\ shownOAuth' = 0
    /\ relay' = NoRelay
    /\ taskSnapshot' = [taskSnapshot EXCEPT ![t] = Owed("replaced")]
    /\ UNCHANGED <<revision, shown>>

\* A relay starts only for the current handle, and once.
StartRelay ==
    /\ ~ended /\ relay.generation # generation
    /\ relay' = RelayOf(generation)
    /\ UNCHANGED <<generation, sdkChange, oauthStatus, diagnosed, ended, revision, taskSnapshot,
                   shown, shownOAuth>>

EventsNext ==
    \/ \E kind \in Causes : SdkChanges(kind)
    \/ RelayReceive \/ RelayTake \/ RelayEmit \/ StartRelay
    \/ \E t \in Tasks : QueryStatus(t) \/ ChangeDiagnostic(t) \/ PublishTake(t) \/ Deliver(t)
                        \/ ReplaceHandle(t)

EventsSpec == EventsInit /\ [][EventsNext]_eventVars

-----------------------------------------------------------------------------
EventsTypeOK ==
    /\ generation \in 1..2 /\ revision \in 1..MaxSnapshots
    /\ sdkChange \in 0..MaxChanges /\ diagnosed \in 0..MaxDiagnostics
    /\ oauthStatus \in 0..MaxChanges /\ shownOAuth \in 0..MaxChanges /\ ended \in BOOLEAN
    /\ relay \in [generation : 0..2, queue : Seq(Causes), lagged : BOOLEAN,
                  pending : Seq(Causes \cup {"resync"}), taken : Snapshots \cup {NoSnapshot}]
    /\ Len(relay.queue) <= EventCapacity
    /\ taskSnapshot \in [Tasks -> Snapshots \cup {NoSnapshot}]
    /\ shown \in [generation : 1..2, revision : 1..MaxSnapshots, change : 0..MaxChanges,
                  diagnosed : 0..MaxDiagnostics]

\* Nothing is under way: the relay of the current handle has delivered everything, or
\* has ended with the handle.
EventsQuiet ==
    /\ relay.queue = <<>> /\ relay.pending = <<>> /\ relay.taken = NoSnapshot
    /\ ended \/ relay.generation = generation
    /\ \A t \in Tasks : taskSnapshot[t] = NoSnapshot

\* Once everything is delivered the screen shows the state of the Computer, whatever the
\* order of delivery, the losses of the channel and the replacements of the handle.
ShowsCurrent ==
    EventsQuiet => shown.change = sdkChange /\ shown.diagnosed = diagnosed
                   /\ shown.generation = generation

\* The OAuth status of a row is the handle's once everything is delivered.
ShowsOAuth == EventsQuiet => shownOAuth = oauthStatus
=============================================================================
