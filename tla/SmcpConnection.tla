---------------------------- MODULE SmcpConnection ---------------------------
(***************************************************************************)
(* The SMCP connection of one Computer: the client-owned connection        *)
(* authority (services/computer/connection.rs) and the commands that race  *)
(* for it (commands/connection.rs, commands/computer.rs, commands/         *)
(* manager.rs).                                                            *)
(*                                                                         *)
(* A task is one command invocation; it runs connect, disconnect, start,   *)
(* stop, restart, delete or an identity transaction of the Manager session *)
(* and then returns to "Idle".  A step is what a task does between two     *)
(* points at which another task can run, that is between two awaits of a   *)
(* lock or of the network.  Four locks order the tasks, always taken in    *)
(* this order: tx (ManagerContextCoordinator.transaction_lock), lease      *)
(* (ComputerRegistry.operation_lease), lock (lifecycle_lock); the per-     *)
(* variable RwLocks make single assignments atomic.                        *)
(*                                                                         *)
(* The SDK is external: connecting, joining, disconnecting, booting and    *)
(* shutting down have the outcomes the code in src/ handles.               *)
(***************************************************************************)
EXTENDS Naturals, RuntimeLifecycle

CONSTANTS Tasks,                \* command invocations running concurrently
          NoTask,               \* a lock that nobody holds
          MaxEpoch,             \* bound: operations begun
          MaxRuntimeGeneration, \* bound: SDK handles built
          MaxSession            \* bound: identity transactions committed

ASSUME NoTaskAssumption == NoTask \notin Tasks
ASSUME BoundsAssumption == /\ MaxEpoch \in Nat
                           /\ MaxRuntimeGeneration \in Nat
                           /\ MaxSession \in Nat

VARIABLES
    lifecycle,          \* SDK lifecycle_state of the current handle
    socket,             \* SDK Socket.IO slot: 0, or the generation that opened it
    connection,         \* client authority: Option<ConnectionState>
    op,                 \* ClientConnectionOperationState
    runtimeGeneration,  \* generation of the SDK handle
    shutdownCompleted,  \* this handle was torn down by the client
    retired,            \* removal has closed admission
    present,            \* the registry still lists the runtime
    profile,            \* persisted profile: connection_policy.target with the
                        \* generation of the connect that wrote it, and the
                        \* robot_binding: its Manager session, active or dormant
    nextGeneration,     \* last value of the global connection generation
    session,            \* Manager session: generation and whether signed in
    departing,          \* departing_manager_contexts: tombstoned sessions
    cleanupFailed,      \* diagnostics of the identity transaction under way
    lease, lock, tx,    \* holders of the three locks
    pc, tok, src, gen, mgr, seen  \* per task: program point, operation token,
                        \* source, connection generation, Manager generation,
                        \* ConnectionProfileSnapshot

authority == <<connection, op>>
sdk       == <<lifecycle, socket, runtimeGeneration, shutdownCompleted>>
handle    == <<runtimeGeneration, shutdownCompleted>>
registry  == <<retired, present>>
manager   == <<session, departing, cleanupFailed>>
environs  == <<registry, profile, nextGeneration, manager>>
locks     == <<lease, lock, tx>>
local     == <<pc, tok, src, gen, mgr, seen>>
vars == <<lifecycle, socket, connection, op, runtimeGeneration,
          shutdownCompleted, retired, present, profile, nextGeneration,
          session, departing, cleanupFailed, lease, lock, tx,
          pc, tok, src, gen, mgr, seen>>

Sources == {"manual_smcp", "manager_robot"}
Operations == {"Connect", "Disconnect"}
NoConnection == [source |-> "none", generation |-> 0, session |-> 0]
NoProfile == [source |-> "none", generation |-> 0, session |-> 0, active |-> FALSE]
NoToken == [operation |-> "none", epoch |-> 0, runtimeGeneration |-> 0]

ConnectPoints ==
    {"begin", "prepare", "prepareLock", "prepareTeardown", "admit", "resolve",
     "reserve", "establish", "transaction", "connectLock", "connectSocket",
     "install", "commit", "apply", "abortLock", "abortTeardown", "finishLock",
     "finishTeardown", "fail", "complete"}
DisconnectPoints ==
    {"dBegin", "dEnsure", "dTransport", "dLock", "dTeardown", "dFailed", "dSettle"}
LifecyclePoints ==
    {"rLock", "rClear", "rCancel", "rInstall", "sLock", "sTeardown",
     "sShutdown", "sTake", "sComplete", "xLock", "xPrepared"}
IdentityPoints == {"iLease", "iLock", "iTeardown", "iPersist", "iCommit"}
Points == {"Idle"} \cup ConnectPoints \cup DisconnectPoints
                   \cup LifecyclePoints \cup IdentityPoints

Connection == [source : Sources \cup {"none"}, generation : Nat, session : Nat]
Profile == [source : Sources \cup {"none"}, generation : Nat, session : Nat,
            active : BOOLEAN]
Operation == [operation : Operations \cup {"none"}, source : Sources \cup {"none"},
              epoch : Nat, lastError : BOOLEAN]
Token == [operation : Operations \cup {"none"}, epoch : Nat, runtimeGeneration : Nat]
Session == [generation : Nat, authenticated : BOOLEAN]

LocalTypeOK ==
    /\ pc \in [Tasks -> Points]
    /\ tok \in [Tasks -> Token]
    /\ src \in [Tasks -> Sources \cup {"none"}]
    /\ gen \in [Tasks -> Nat]
    /\ mgr \in [Tasks -> Nat]
    /\ seen \in [Tasks -> Profile]

TypeOK ==
    /\ lifecycle \in LifecycleState
    /\ socket \in Nat
    /\ connection \in Connection
    /\ op \in Operation
    /\ runtimeGeneration \in Nat
    /\ shutdownCompleted \in BOOLEAN
    /\ retired \in BOOLEAN
    /\ present \in BOOLEAN
    /\ profile \in Profile
    /\ nextGeneration \in Nat
    /\ session \in Session
    /\ departing \in SUBSET Nat
    /\ cleanupFailed \in BOOLEAN
    /\ lease \in Tasks \cup {NoTask}
    /\ lock \in Tasks \cup {NoTask}
    /\ tx \in Tasks \cup {NoTask}
    /\ LocalTypeOK

\* A freshly registered runtime: new_with_secret_store_and_event_sink.
Init ==
    /\ lifecycle = "Created"
    /\ socket = 0
    /\ connection = NoConnection
    /\ op = [operation |-> "none", source |-> "none", epoch |-> 0, lastError |-> FALSE]
    /\ runtimeGeneration = 1
    /\ shutdownCompleted = FALSE
    /\ retired = FALSE
    /\ present = TRUE
    /\ profile = NoProfile
    /\ nextGeneration = 0
    /\ session = [generation |-> 1, authenticated |-> TRUE]
    /\ departing = {}
    /\ cleanupFailed = FALSE
    /\ lease = NoTask
    /\ lock = NoTask
    /\ tx = NoTask
    /\ pc = [t \in Tasks |-> "Idle"]
    /\ tok = [t \in Tasks |-> NoToken]
    /\ src = [t \in Tasks |-> "none"]
    /\ gen = [t \in Tasks |-> 0]
    /\ mgr = [t \in Tasks |-> 0]
    /\ seen = [t \in Tasks |-> NoProfile]

-----------------------------------------------------------------------------
(* Helpers of connection.rs. *)

\* A task moves on and keeps its locals; a task that returns drops them.
Goto(t, point) == pc' = [pc EXCEPT ![t] = point] /\ UNCHANGED <<tok, src, gen, mgr, seen>>
Return(t) ==
    /\ pc' = [pc EXCEPT ![t] = "Idle"]
    /\ tok' = [tok EXCEPT ![t] = NoToken]
    /\ src' = [src EXCEPT ![t] = "none"]
    /\ gen' = [gen EXCEPT ![t] = 0]
    /\ mgr' = [mgr EXCEPT ![t] = 0]
    /\ seen' = [seen EXCEPT ![t] = NoProfile]

\* The test every *_for_token function repeats.
TokenCurrent(t) ==
    /\ runtimeGeneration = tok[t].runtimeGeneration
    /\ op.operation = tok[t].operation
    /\ op.epoch = tok[t].epoch

\* ensure_connection_operation: the token is current and the runtime not retired.
EnsureConnectionOperation(t) == TokenCurrent(t) /\ ~retired

HasAuthorityOnly == connection # NoConnection        \* mutant: ignores an orphan
HasSmcpTransport == connection # NoConnection \/ socket # 0

IsConnectedByAuthority == connection # NoConnection  \* mutant: ignores the transport
IsConnected == lifecycle = "JoinedOffice" /\ connection # NoConnection

\* What every settlement leaves of the operation; the epoch stays.
SettledOp(error) == [operation |-> "none", source |-> "none",
                     epoch |-> op.epoch, lastError |-> error]
CancelledOp == SettledOp(op.lastError)

\* What recording or clearing last_error alone leaves of it.
DiagnosedOp(error) == [operation |-> op.operation, source |-> op.source,
                       epoch |-> op.epoch, lastError |-> error]

\* begin_connection_operation (the rejecting branch is the caller's).
BeginOperation(t, operation, source, point) ==
    /\ op' = [operation |-> operation, source |-> source,
              epoch |-> op.epoch + 1, lastError |-> op.lastError]
    /\ tok' = [tok EXCEPT ![t] = [operation |-> operation, epoch |-> op.epoch + 1,
                                  runtimeGeneration |-> runtimeGeneration]]
    /\ pc' = [pc EXCEPT ![t] = point]
    /\ UNCHANGED <<src, gen, mgr, seen>>

\* Mutants of FailForToken: the operation, or the authority, is not reset.
FailKeepsOperation(t) == connection' = NoConnection /\ UNCHANGED op
FailKeepsAuthority(t) ==
    /\ op' = IF TokenCurrent(t) THEN SettledOp(TRUE) ELSE op
    /\ UNCHANGED connection

\* fail_connection_operation_for_token: authority goes with the operation.
FailForToken(t) ==
    IF TokenCurrent(t)
      THEN connection' = NoConnection /\ op' = SettledOp(TRUE)
      ELSE UNCHANGED authority

\* Mutant of CompleteForToken: a superseded command settles a newer one.
CompleteUnchecked(t) == op' = SettledOp(FALSE) /\ UNCHANGED connection

\* complete_connection_operation_for_token.
CompleteForToken(t) ==
    /\ op' = IF TokenCurrent(t) THEN SettledOp(FALSE) ELSE op
    /\ UNCHANGED connection

\* reconcile_disconnect_failure_for_token.
ReconcileForToken(t) ==
    IF TokenCurrent(t) /\ tok[t].operation = "Disconnect"
      THEN connection' = NoConnection /\ op' = SettledOp(TRUE)
      ELSE UNCHANGED authority

\* install_connection_state (connection is absent).
InstallConnectionState(t) ==
    /\ connection' = [source |-> src[t], generation |-> gen[t], session |-> mgr[t]]
    /\ op' = DiagnosedOp(FALSE)

\* disconnect_smcp_socketio_bounded_inner: leave_office errors are ignored, the
\* socket close succeeds, or fails or times out and keeps the SDK's slot.
DisconnectOk ==
    /\ socket' = 0
    /\ lifecycle' = IF lifecycle \in {"Connecting", "Connected", "JoinedOffice"}
                      THEN "Started" ELSE lifecycle
LeaveOfficeUnknown == lifecycle' = "Disconnected"      \* mutant: not an SDK state
LeaveOffice ==
    lifecycle' \in {lifecycle} \cup {l \in {"Connected"} : lifecycle = "JoinedOffice"}
DisconnectErr == LeaveOffice /\ UNCHANGED socket
BoundedDisconnect == DisconnectOk \/ DisconnectErr

-----------------------------------------------------------------------------
(* Connecting: connect_connection_target_with_policy_inner_impl for a manual *)
(* target, manager_connect_smcp_inner for a Manager Robot.                   *)

\* Where an error inside the connect goes.  The Manager's transaction lock is
\* released as commit_for_authenticated_generation returns.
AbortKeepsTx(t, point) == Goto(t, point) /\ UNCHANGED tx   \* mutant: leaks the lock
AbortTo(t, point) == Goto(t, point) /\ tx' = IF tx = t THEN NoTask ELSE tx

\* Takes the lease and checks the target: a logical connection rejects a second
\* connect unless its transport is gone and the Connect action is enabled.
ConnectAdmit(t, source) ==
    /\ pc[t] = "Idle" /\ lease = NoTask /\ present
    /\ op.epoch < MaxEpoch
    /\ connection # NoConnection => EnsureRuntimeAction(lifecycle, "Connect")
    /\ lease' = t
    /\ src' = [src EXCEPT ![t] = source]
    /\ seen' = [seen EXCEPT ![t] = profile]
    /\ pc' = [pc EXCEPT ![t] = "begin"]
    /\ UNCHANGED <<tok, gen, mgr>>
    /\ UNCHANGED <<sdk, authority, environs, lock, tx>>

ConnectBegin(t) ==
    /\ pc[t] = "begin"
    /\ IF op.operation = "none"
         THEN BeginOperation(t, "Connect", src[t], "prepare")
         ELSE Return(t) /\ UNCHANGED op
    /\ lease' = NoTask
    /\ UNCHANGED <<sdk, connection, environs, lock, tx>>

\* clear_unhealthy_connection_snapshot, first look without the lifecycle lock.
Prepare(t) ==
    /\ pc[t] = "prepare"
    /\ Goto(t, IF HasSmcpTransport /\ ~IsConnected THEN "prepareLock" ELSE "admit")
    /\ UNCHANGED <<sdk, authority, environs, locks>>

\* clear_smcp_connection_for_operation: wait for the lifecycle lock, give up if
\* the token went stale, skip the teardown if there is nothing to close.
ClearForOperation(t, point, teardown, next, stale) ==
    /\ pc[t] = point /\ lock = NoTask
    /\ IF EnsureConnectionOperation(t) /\ HasSmcpTransport
         THEN Goto(t, teardown) /\ lock' = t
         ELSE /\ Goto(t, IF EnsureConnectionOperation(t) THEN next ELSE stale)
              /\ UNCHANGED lock
    /\ UNCHANGED <<sdk, authority, environs, lease, tx>>

\* clear_smcp_connection_inner under the lifecycle lock.
ClearSmcpConnection(t, point, next, failed) ==
    /\ pc[t] = point
    /\ \/ DisconnectOk /\ connection' = NoConnection /\ Goto(t, next)
       \/ DisconnectErr /\ UNCHANGED connection /\ Goto(t, failed)
    /\ lock' = NoTask
    /\ UNCHANGED <<op, handle, environs, lease, tx>>

PrepareLock(t) ==
    ClearForOperation(t, "prepareLock", "prepareTeardown", "admit", "fail")
PrepareTeardown(t) == ClearSmcpConnection(t, "prepareTeardown", "admit", "fail")

\* The rest of finish_connect_preparation.
Admit(t) ==
    /\ pc[t] = "admit"
    /\ Goto(t, IF ~EnsureRuntimeAction(lifecycle, "Connect")
                  \/ ~EnsureConnectionOperation(t)
                 THEN "fail"
               ELSE IF src[t] = "manager_robot" THEN "resolve" ELSE "reserve")
    /\ UNCHANGED <<sdk, authority, environs, locks>>

\* Manager only: capture the authenticated generation under the transaction
\* lock, then resolve connection info and exchange a token over HTTP.
Resolve(t) ==
    /\ pc[t] = "resolve" /\ tx = NoTask
    /\ \/ /\ session.authenticated /\ EnsureConnectionOperation(t)
          /\ mgr' = [mgr EXCEPT ![t] = session.generation]
          /\ pc' = [pc EXCEPT ![t] = "reserve"]
          /\ UNCHANGED <<tok, src, gen, seen>>
       \/ Goto(t, "finishLock")
    /\ UNCHANGED <<sdk, authority, environs, locks>>

\* reserve_connection_target: fails while another connect in flight holds the
\* target or its office.
Reserve(t) ==
    /\ pc[t] = "reserve"
    /\ \/ Goto(t, "establish")
       \/ Goto(t, IF src[t] = "manager_robot" THEN "finishLock" ELSE "fail")
    /\ UNCHANGED <<sdk, authority, environs, locks>>

\* check_connection_target_allowed for this Computer's own connection.
Blocked == connection # NoConnection /\ BlocksTarget(lifecycle, TRUE)

\* next_generation, for the connection about to be opened.
FreshGeneration(t, point) ==
    /\ nextGeneration' = nextGeneration + 1
    /\ gen' = [gen EXCEPT ![t] = nextGeneration + 1]
    /\ pc' = [pc EXCEPT ![t] = point]
    /\ UNCHANGED <<tok, src, mgr, seen>>

\* Any other target, here or on another Computer, is an error.
EstablishManual(t) ==
    /\ pc[t] = "establish" /\ src[t] = "manual_smcp"
    /\ \/ ~Blocked /\ EnsureConnectionOperation(t) /\ FreshGeneration(t, "connectLock")
       \/ Blocked /\ connection.source = src[t]
            /\ Goto(t, "complete") /\ UNCHANGED nextGeneration
       \/ Goto(t, "abortLock") /\ UNCHANGED nextGeneration
    /\ UNCHANGED <<sdk, authority, registry, profile, manager, locks>>

EstablishManager(t) ==
    /\ pc[t] = "establish" /\ src[t] = "manager_robot"
    /\ IF EnsureConnectionOperation(t)
         THEN FreshGeneration(t, "transaction")
         ELSE Goto(t, "abortLock") /\ UNCHANGED nextGeneration
    /\ UNCHANGED <<sdk, authority, registry, profile, manager, locks>>

\* ensure_authenticated_generation_locked.
GenerationCurrent(t) == session = [generation |-> mgr[t], authenticated |-> TRUE]

\* commit_for_authenticated_generation: the transaction lock is held from the
\* generation check until the connect and its commit have returned.
Transaction(t) ==
    /\ pc[t] = "transaction" /\ tx = NoTask
    /\ \/ /\ GenerationCurrent(t)
          /\ \/ ~Blocked /\ Goto(t, "connectLock")
             \/ Blocked /\ connection.source = src[t] /\ Goto(t, "commit")
          /\ tx' = t
       \/ Goto(t, "abortLock") /\ UNCHANGED tx
    /\ UNCHANGED <<sdk, authority, environs, lease, lock>>

\* connect_and_install_smcp_socketio takes the lifecycle lock and rechecks the token.
ConnectLock(t) ==
    /\ pc[t] = "connectLock" /\ lock = NoTask
    /\ IF EnsureConnectionOperation(t) /\ lifecycle \notin Inactive
         THEN Goto(t, "connectSocket") /\ lock' = t /\ lifecycle' = "Connecting"
              /\ UNCHANGED tx
         ELSE AbortTo(t, "abortLock") /\ UNCHANGED <<lock, lifecycle>>
    /\ UNCHANGED <<socket, handle, authority, environs, lease>>

\* connect_smcp_socketio_inner: connect_socketio, then join_office; a failed
\* join closes the socket it opened, which may fail too.
ConnectSocket(t) ==
    /\ pc[t] = "connectSocket"
    /\ \/ /\ socket' = gen[t] /\ lifecycle' = "JoinedOffice"
          /\ Goto(t, "install") /\ UNCHANGED <<lock, tx>>
       \/ /\ \/ lifecycle' = "Started" /\ socket' \in {socket, 0}
             \/ lifecycle' = "Connected" /\ socket' = gen[t]
          /\ lock' = NoTask /\ AbortTo(t, "abortLock")
    /\ UNCHANGED <<handle, authority, environs, lease>>

\* The tail of connect_and_install_smcp_socketio: the token is checked again,
\* and authority is installed only where none is.
Install(t) ==
    /\ pc[t] = "install"
    /\ IF EnsureConnectionOperation(t) /\ connection = NoConnection
         THEN InstallConnectionState(t) /\ Goto(t, "commit")
              /\ UNCHANGED <<lifecycle, socket, tx>>
         ELSE BoundedDisconnect /\ AbortTo(t, "abortLock") /\ UNCHANGED authority
    /\ lock' = NoTask
    /\ UNCHANGED <<handle, environs, lease>>

\* commit_manual_connection_target and commit_robot_binding, inside the lease:
\* a changed target, credential or profile, or a failed save, is an error.
Committed(t) ==
    IF src[t] = "manual_smcp"
      THEN [source |-> src[t], generation |-> gen[t],
            session |-> profile.session, active |-> profile.active]
      ELSE [source |-> src[t], generation |-> gen[t], session |-> mgr[t], active |-> TRUE]
Commit(t) ==
    /\ pc[t] = "commit" /\ lease = NoTask
    /\ \/ /\ EnsureConnectionOperation(t) /\ present /\ profile = seen[t]
          /\ profile' = Committed(t)
          /\ lease' = t /\ Goto(t, "apply") /\ UNCHANGED tx
       \/ AbortTo(t, "abortLock") /\ UNCHANGED <<profile, lease>>
    /\ UNCHANGED <<sdk, authority, registry, nextGeneration, manager, lock>>

\* apply_updated_computer_instance: the runtime takes the profile under the
\* lifecycle lock, or the previous profile is written back, which may fail too.
Apply(t) ==
    /\ pc[t] = "apply" /\ lock = NoTask
    /\ \/ AbortTo(t, "complete") /\ UNCHANGED profile
       \/ AbortTo(t, "abortLock") /\ profile' \in {seen[t], profile}
    /\ lease' = NoTask
    /\ UNCHANGED <<sdk, authority, registry, nextGeneration, manager, lock>>

\* The error path: clear the transport if the token is still current.  A Manager
\* connect does it in establish_manager_connection and in finish_manager_connect.
AfterAbort(t) == IF src[t] = "manager_robot" THEN "finishLock" ELSE "fail"
AbortLock(t) ==
    ClearForOperation(t, "abortLock", "abortTeardown", AfterAbort(t), AfterAbort(t))
AbortTeardown(t) == ClearSmcpConnection(t, "abortTeardown", AfterAbort(t), AfterAbort(t))
FinishLock(t) == ClearForOperation(t, "finishLock", "finishTeardown", "fail", "fail")
FinishTeardown(t) == ClearSmcpConnection(t, "finishTeardown", "fail", "fail")

Fail(t) ==
    /\ pc[t] = "fail"
    /\ FailForToken(t)
    /\ Return(t)
    /\ UNCHANGED <<sdk, environs, locks>>

\* complete_connection_operation_for_token; a Manager connect first checks the
\* token once more and treats a stale one as an error.
Complete(t) ==
    /\ pc[t] = "complete"
    /\ IF src[t] = "manual_smcp" \/ EnsureConnectionOperation(t)
         THEN CompleteForToken(t) /\ Return(t)
         ELSE Goto(t, "finishLock") /\ UNCHANGED authority
    /\ UNCHANGED <<sdk, environs, locks>>
-----------------------------------------------------------------------------
(* disconnect_smcp_inner. *)

\* ClientConnectionStateSnapshot::from_parts: whether Disconnect is offered.
OfferedWhenConnected == op.operation = "none" /\ IsConnected  \* mutant: no orphan cleanup
DisconnectOffered ==
    /\ op.operation = "none"
    /\ ~(connection # NoConnection /\ lifecycle = "Connecting")
    /\ \/ IsConnected
       \/ EnsureRuntimeAction(lifecycle, "Disconnect")

DisconnectAdmit(t) ==
    /\ pc[t] = "Idle" /\ lease = NoTask /\ present
    /\ op.epoch < MaxEpoch
    /\ DisconnectOffered
    /\ lease' = t
    /\ src' = [src EXCEPT ![t] = connection.source]
    /\ pc' = [pc EXCEPT ![t] = "dBegin"]
    /\ UNCHANGED <<tok, gen, mgr, seen>>
    /\ UNCHANGED <<sdk, authority, environs, lock, tx>>

DisconnectBegin(t) ==
    /\ pc[t] = "dBegin"
    /\ IF op.operation = "none"
         THEN BeginOperation(t, "Disconnect", src[t], "dEnsure") /\ UNCHANGED lease
         ELSE Return(t) /\ lease' = NoTask /\ UNCHANGED op
    /\ UNCHANGED <<sdk, connection, environs, lock, tx>>

\* The lifecycle may have moved since the snapshot; the lease is dropped either way.
DisconnectEnsure(t) ==
    /\ pc[t] = "dEnsure"
    /\ IF EnsureRuntimeAction(lifecycle, "Disconnect")
         THEN Goto(t, "dTransport") /\ UNCHANGED authority
         ELSE ReconcileForToken(t) /\ Return(t)
    /\ lease' = NoTask
    /\ UNCHANGED <<sdk, environs, lock, tx>>

DisconnectTransport(t) ==
    /\ pc[t] = "dTransport"
    /\ Goto(t, IF HasSmcpTransport THEN "dLock" ELSE "dSettle")
    /\ UNCHANGED <<sdk, authority, environs, locks>>

\* close_smcp_transport: clear_smcp_connection under a timeout that also covers
\* the wait for the lifecycle lock.  It checks admission, not the token.
DisconnectLock(t) ==
    /\ pc[t] = "dLock"
    /\ \/ lock = NoTask /\ ~retired /\ lock' = t /\ Goto(t, "dTeardown")
       \/ (lock # NoTask \/ retired) /\ Goto(t, "dFailed") /\ UNCHANGED lock
    /\ UNCHANGED <<sdk, authority, environs, lease, tx>>

DisconnectTeardown(t) == ClearSmcpConnection(t, "dTeardown", "dSettle", "dFailed")

\* A failed teardown fails closed, if the token is still current.
DisconnectFailed(t) ==
    /\ pc[t] = "dFailed" /\ lease = NoTask
    /\ IF present /\ EnsureConnectionOperation(t)
         THEN ReconcileForToken(t) ELSE UNCHANGED authority
    /\ Return(t)
    /\ UNCHANGED <<sdk, environs, locks>>

DisconnectSettle(t) ==
    /\ pc[t] = "dSettle" /\ lease = NoTask
    /\ IF present /\ EnsureConnectionOperation(t)
         THEN CompleteForToken(t) ELSE UNCHANGED authority
    /\ Return(t)
    /\ UNCHANGED <<sdk, environs, locks>>

-----------------------------------------------------------------------------
(* Start and restart: replace_sdk_computer under the lease and the lifecycle *)
(* lock.  A start is admitted from an inactive lifecycle, a restart from an   *)
(* operational one; the rest is the same.                                     *)

ReplaceAdmit(t) ==
    /\ pc[t] = "Idle" /\ lease = NoTask /\ present
    /\ runtimeGeneration < MaxRuntimeGeneration
    /\ \/ EnsureRuntimeAction(lifecycle, "Start")
       \/ EnsureRuntimeAction(lifecycle, "Restart")
    /\ lease' = t
    /\ Goto(t, "rLock")
    /\ UNCHANGED <<sdk, authority, environs, lock, tx>>

ReplaceLock(t) ==
    /\ pc[t] = "rLock" /\ lock = NoTask
    /\ lock' = t
    /\ Goto(t, IF HasSmcpTransport THEN "rClear" ELSE "rCancel")
    /\ UNCHANGED <<sdk, authority, environs, lease, tx>>

\* A failed teardown aborts the replacement and keeps authority and operation.
ReplaceClear(t) ==
    /\ pc[t] = "rClear"
    /\ \/ /\ DisconnectOk /\ connection' = NoConnection
          /\ Goto(t, "rCancel") /\ UNCHANGED <<lease, lock>>
       \/ /\ DisconnectErr /\ UNCHANGED connection
          /\ Return(t) /\ lease' = NoTask /\ lock' = NoTask
    /\ UNCHANGED <<op, handle, environs, tx>>

\* shutdown_sdk_computer_inner: done once per handle; it may fail before the SDK
\* reaches Shutdown, and then nothing is recorded.
ShutdownSdkOk ==
    IF shutdownCompleted
      THEN UNCHANGED <<lifecycle, socket, shutdownCompleted>>
      ELSE lifecycle' = "Shutdown" /\ socket' = 0 /\ shutdownCompleted' = TRUE
ShutdownSdkErr ==
    ~shutdownCompleted /\ UNCHANGED <<lifecycle, socket, shutdownCompleted>>

\* cancel_connection_operation_for_handle_replacement, then the SDK shutdown.
ReplaceCancel(t) ==
    /\ pc[t] = "rCancel"
    /\ op' = CancelledOp
    /\ \/ ShutdownSdkOk /\ Goto(t, "rInstall") /\ UNCHANGED <<lease, lock>>
       \/ ShutdownSdkErr /\ Return(t) /\ lease' = NoTask /\ lock' = NoTask
    /\ UNCHANGED <<connection, runtimeGeneration, environs, tx>>

\* The new handle: its generation, cleared diagnostics, then boot_up, which may
\* fail, or whose governance failure is rolled back by a shutdown.
ReplaceInstall(t) ==
    /\ pc[t] = "rInstall"
    /\ runtimeGeneration' = runtimeGeneration + 1
    /\ socket' = 0
    /\ op' = DiagnosedOp(FALSE)
    /\ \/ lifecycle' \in {"Started", "Error"} /\ shutdownCompleted' = FALSE
       \/ lifecycle' = "Shutdown" /\ shutdownCompleted' = TRUE
    /\ Return(t) /\ lease' = NoTask /\ lock' = NoTask
    /\ UNCHANGED <<connection, environs, tx>>

-----------------------------------------------------------------------------
(* Stop: try_shutdown.  Delete: prepare_runtime_removal, then either its      *)
(* rollback or commit_runtime_removal, which shuts the runtime down.          *)

StopAdmit(t) ==
    /\ pc[t] = "Idle" /\ lease = NoTask /\ present
    /\ EnsureRuntimeAction(lifecycle, "Stop")
    /\ lease' = t
    /\ Goto(t, "sLock")
    /\ UNCHANGED <<sdk, authority, environs, lock, tx>>

\* preflight_sdk_shutdown_inner.
PreflightOk == shutdownCompleted \/ lifecycle # "Shutdown"

StopLock(t) ==
    /\ pc[t] = "sLock" /\ lock = NoTask
    /\ IF PreflightOk
         THEN Goto(t, "sTeardown") /\ lock' = t /\ UNCHANGED lease
         ELSE Return(t) /\ lease' = NoTask /\ UNCHANGED lock
    /\ UNCHANGED <<sdk, authority, environs, tx>>

\* shutdown_after_preflight_inner: every failure is a diagnostic, never an exit.
ShutdownTeardown(t) ==
    /\ pc[t] = "sTeardown"
    /\ IF HasSmcpTransport THEN BoundedDisconnect ELSE UNCHANGED <<lifecycle, socket>>
    /\ Goto(t, "sShutdown")
    /\ UNCHANGED <<handle, authority, environs, locks>>

ShutdownSdk(t) ==
    /\ pc[t] = "sShutdown"
    /\ ShutdownSdkOk \/ ShutdownSdkErr
    /\ Goto(t, "sTake")
    /\ UNCHANGED <<runtimeGeneration, authority, environs, locks>>

ShutdownTake(t) ==
    /\ pc[t] = "sTake"
    /\ connection' = NoConnection
    /\ Goto(t, "sComplete")
    /\ UNCHANGED <<sdk, op, environs, locks>>

\* complete_connection_operation clears whatever operation is in flight.  A
\* retired runtime is then unlisted.
ShutdownComplete(t) ==
    /\ pc[t] = "sComplete"
    /\ op' = SettledOp(FALSE)
    /\ present' = ~retired
    /\ Return(t) /\ lease' = NoTask /\ lock' = NoTask
    /\ UNCHANGED <<sdk, connection, retired, profile, nextGeneration, manager, tx>>

DeleteAdmit(t) ==
    /\ pc[t] = "Idle" /\ lease = NoTask /\ present
    /\ lease' = t /\ retired' = TRUE
    /\ Goto(t, "xLock")
    /\ UNCHANGED <<sdk, authority, present, profile, nextGeneration, manager, lock, tx>>

DeleteLock(t) ==
    /\ pc[t] = "xLock" /\ lock = NoTask
    /\ IF PreflightOk
         THEN Goto(t, "xPrepared") /\ lock' = t /\ UNCHANGED <<lease, retired>>
         ELSE Return(t) /\ lease' = NoTask /\ retired' = FALSE /\ UNCHANGED lock
    /\ UNCHANGED <<sdk, authority, present, profile, nextGeneration, manager, tx>>

\* The storage and profile steps either all succeed, or are rolled back and
\* dropping PreparedRuntimeRemoval reopens the same runtime.
DeleteDecide(t) ==
    /\ pc[t] = "xPrepared"
    /\ \/ Goto(t, "sTeardown") /\ UNCHANGED <<lease, lock, retired>>
       \/ Return(t) /\ lease' = NoTask /\ lock' = NoTask /\ retired' = FALSE
    /\ UNCHANGED <<sdk, authority, present, profile, nextGeneration, manager, tx>>

-----------------------------------------------------------------------------
(* An identity transaction of the Manager session (login, account switch,    *)
(* logout, authentication expiry): clean every runtime, then move on.         *)

\* begin_context_transition: the departing context gets a tombstone first.
IdentityAdmit(t) ==
    /\ pc[t] = "Idle" /\ tx = NoTask
    /\ session.generation < MaxSession
    /\ tx' = t
    /\ departing' = departing \cup {g \in {session.generation} : session.authenticated}
    /\ cleanupFailed' = FALSE
    /\ Goto(t, "iLease")
    /\ UNCHANGED <<sdk, authority, registry, profile, nextGeneration, session, lease, lock>>

\* Mutant: the caller already holds the lifecycle lock, which is not reentrant.
IdentityLocksTwice(t) ==
    /\ pc[t] = "iLease" /\ lease = NoTask /\ lock = NoTask
    /\ lease' = t /\ lock' = t /\ Goto(t, "iLock")
    /\ UNCHANGED <<sdk, authority, environs, tx>>

\* cleanup_runtime_for_context: a runtime that is no longer current is skipped.
IdentityLease(t) ==
    /\ pc[t] = "iLease" /\ lease = NoTask
    /\ IF present THEN lease' = t /\ Goto(t, "iLock")
                  ELSE UNCHANGED lease /\ Goto(t, "iCommit")
    /\ UNCHANGED <<sdk, authority, environs, lock, tx>>

OwnedByOperation == op.source = "manager_robot"  \* mutant: misses a connection at rest
ManagerOwned == connection.source = "manager_robot" \/ op.source = "manager_robot"

IdentityLock(t) ==
    /\ pc[t] = "iLock" /\ lock = NoTask
    /\ IF ManagerOwned
         THEN lock' = t /\ Goto(t, "iTeardown")
         ELSE UNCHANGED lock /\ Goto(t, "iPersist")
    /\ UNCHANGED <<sdk, authority, environs, lease, tx>>

\* clear_manager_connection_for_context_transaction: a failed teardown still
\* drops the socket handle and Manager-owned authority, and records an error.
IdentityTeardown(t) ==
    /\ pc[t] = "iTeardown"
    /\ connection' = IF connection.source = "manager_robot"
                       THEN NoConnection ELSE connection
    /\ \/ /\ IF HasSmcpTransport THEN DisconnectOk ELSE UNCHANGED <<lifecycle, socket>>
          /\ op' = IF ManagerOwned THEN CancelledOp ELSE op
          /\ UNCHANGED cleanupFailed
       \/ /\ HasSmcpTransport /\ LeaveOffice /\ socket' = 0
          /\ op' = IF ManagerOwned THEN SettledOp(TRUE) ELSE DiagnosedOp(TRUE)
          /\ cleanupFailed' = TRUE
    /\ Goto(t, "iPersist") /\ lock' = NoTask
    /\ UNCHANGED <<handle, registry, profile, nextGeneration, session, departing,
                   lease, tx>>

\* persist_dormant_profile: a binding of the departing context becomes dormant;
\* the runtime takes the profile under the lifecycle lock, or it is written back.
IdentityPersist(t) ==
    /\ pc[t] = "iPersist" /\ lock = NoTask
    /\ IF session.authenticated /\ profile.session = session.generation
         THEN \/ profile' = [profile EXCEPT !.active = FALSE] /\ UNCHANGED cleanupFailed
              \/ /\ profile' \in {profile, [profile EXCEPT !.active = FALSE]}
                 /\ cleanupFailed' = TRUE
         ELSE UNCHANGED <<profile, cleanupFailed>>
    /\ Goto(t, "iCommit") /\ lease' = NoTask
    /\ UNCHANGED <<sdk, authority, registry, nextGeneration, session, departing, lock, tx>>

\* Mutant: the tombstone always goes.
IdentityForgets(t) ==
    /\ pc[t] = "iCommit"
    /\ departing' = departing \ {session.generation}
    /\ session' \in {session} \cup [generation : {session.generation + 1},
                                     authenticated : BOOLEAN]
    /\ cleanupFailed' = FALSE
    /\ tx' = NoTask
    /\ Return(t)
    /\ UNCHANGED <<sdk, authority, registry, profile, nextGeneration, lease, lock>>

\* The tombstone goes if the cleanup had no diagnostic.  A login or a switch that
\* the Manager refuses leaves the session as it was.
IdentityCommit(t) ==
    /\ pc[t] = "iCommit"
    /\ departing' = departing \ {g \in {session.generation} :
                                   session.authenticated /\ ~cleanupFailed}
    /\ session' \in {session} \cup [generation : {session.generation + 1},
                                     authenticated : BOOLEAN]
    /\ cleanupFailed' = FALSE
    /\ tx' = NoTask
    /\ Return(t)
    /\ UNCHANGED <<sdk, authority, registry, profile, nextGeneration, lease, lock>>

-----------------------------------------------------------------------------
(* The network under the SDK: an unexpected close moves the lifecycle to      *)
(* Connecting while the SDK retries; it rejoins or gives up.                  *)

TransportLost ==
    /\ socket # 0 /\ lifecycle = "JoinedOffice"
    /\ lifecycle' = "Connecting"
    /\ UNCHANGED <<socket, handle, authority, environs, locks, local>>

\* The SDK's own retry; a connect in progress owns the Connecting it set.
TransportSettled ==
    /\ socket # 0 /\ lifecycle = "Connecting"
    /\ \A t \in Tasks : pc[t] # "connectSocket"
    /\ lifecycle' \in {"JoinedOffice", "Started"}
    /\ UNCHANGED <<socket, handle, authority, environs, locks, local>>
-----------------------------------------------------------------------------
Admission(t) ==
    \/ \E source \in Sources : ConnectAdmit(t, source)
    \/ DisconnectAdmit(t) \/ ReplaceAdmit(t) \/ StopAdmit(t)
    \/ DeleteAdmit(t) \/ IdentityAdmit(t)

ConnectStep(t) ==
    \/ ConnectBegin(t) \/ Prepare(t) \/ PrepareLock(t) \/ PrepareTeardown(t)
    \/ Admit(t) \/ Resolve(t) \/ Reserve(t) \/ EstablishManual(t)
    \/ EstablishManager(t) \/ Transaction(t) \/ ConnectLock(t)
    \/ ConnectSocket(t) \/ Install(t) \/ Commit(t) \/ Apply(t)
    \/ AbortLock(t) \/ AbortTeardown(t) \/ FinishLock(t) \/ FinishTeardown(t)
    \/ Fail(t) \/ Complete(t)

DisconnectStep(t) ==
    \/ DisconnectBegin(t) \/ DisconnectEnsure(t) \/ DisconnectTransport(t)
    \/ DisconnectLock(t) \/ DisconnectTeardown(t) \/ DisconnectFailed(t)
    \/ DisconnectSettle(t)

LifecycleStep(t) ==
    \/ ReplaceLock(t) \/ ReplaceClear(t) \/ ReplaceCancel(t) \/ ReplaceInstall(t)
    \/ StopLock(t) \/ ShutdownTeardown(t) \/ ShutdownSdk(t) \/ ShutdownTake(t)
    \/ ShutdownComplete(t) \/ DeleteLock(t) \/ DeleteDecide(t)

IdentityStep(t) ==
    \/ IdentityLease(t) \/ IdentityLock(t) \/ IdentityTeardown(t)
    \/ IdentityPersist(t) \/ IdentityCommit(t)

Step(t) == ConnectStep(t) \/ DisconnectStep(t) \/ LifecycleStep(t) \/ IdentityStep(t)

Next ==
    \/ \E t \in Tasks : Admission(t) \/ Step(t)
    \/ TransportLost
    \/ TransportSettled

Spec == Init /\ [][Next]_vars

\* Tokio runs every task that can make progress, and its mutexes serve waiters
\* in order, so a task that can infinitely often take a step takes one.  No
\* command need ever be issued, and the network need never recover.
FairSpec == Spec /\ \A t \in Tasks : SF_vars(Step(t))

-----------------------------------------------------------------------------
(* Properties. *)

\* The task holds the token of the operation in flight.
Owns(t) == op.operation # "none" /\ TokenCurrent(t)

\* The points between begin_connection_operation and the settlement.
InFlightPoints ==
    (ConnectPoints \ {"begin"}) \cup (DisconnectPoints \ {"dBegin"})

\* An operation in flight (the UI shows connecting or disconnecting and every
\* other connection command is rejected) always has a running task that holds
\* its token and will settle it: no exit path of connect or disconnect, and no
\* restart, stop, delete or identity change, leaves it behind.
InFlightHasOwner ==
    op.operation # "none" => \E t \in Tasks : Owns(t) /\ pc[t] \in InFlightPoints

\* What from_parts shows as Connected is backed by the very transport that was
\* opened for this authority, never by a leftover of another connect.
ConnectedIsReal ==
    (op.operation = "none" /\ IsConnected) => socket = connection.generation

\* A connect opens its transport only when no other one is left in the SDK's
\* slot: an orphan of a failed teardown, or a retained transport the SDK gave
\* up on, was closed first, though that was checked without the lifecycle lock.
OneTransport == \A t \in Tasks : pc[t] = "connectSocket" => socket = 0

\* A transport left without authority by a failed teardown is never stranded: the
\* user is offered Disconnect, or Connect, which closes it first.
OrphanTransportIsActionable ==
    (op.operation = "none" /\ present /\ connection = NoConnection
       /\ socket # 0 /\ lifecycle # "Connecting") =>
          DisconnectOffered \/ EnsureRuntimeAction(lifecycle, "Connect")

\* At rest, authority is committed: the persisted connection target was written
\* by the connect that installed it.  A connect whose commit was refused, or
\* that was superseded half way, leaves none.
AuthorityIsCommitted ==
    (op.operation = "none" /\ connection # NoConnection) =>
        /\ profile.source = connection.source
        /\ profile.generation = connection.generation

\* Outside an identity transaction, Manager authority belongs to the Manager
\* session that is signed in now: nothing of a departed session survives.
NoDepartedManagerAuthority ==
    (tx = NoTask /\ connection.source = "manager_robot") =>
        session = [generation |-> connection.session, authenticated |-> TRUE]

\* A Manager Robot binding that is persisted as active belongs to the session
\* signed in now, or the context it belongs to keeps its departing tombstone: a
\* cleanup that failed half way never forgets that the profile is still live.
DepartedBindingIsTombstoned ==
    (tx = NoTask /\ present /\ profile.active) =>
        \/ session = [generation |-> profile.session, authenticated |-> TRUE]
        \/ profile.session \in departing

\* A command that returns, on whichever path, leaves none of its locks behind; with
\* CommandsReturn, every lock is released in the end.
LocksHeldByCommands == \A holder \in {lease, lock, tx} \ {NoTask} : pc[holder] # "Idle"

\* Every command returns: the transaction lock, the lease and the lifecycle lock
\* are never waited for in a cycle.
CommandsReturn == \A t \in Tasks : pc[t] # "Idle" ~> pc[t] = "Idle"

\* "Manual SMCP state is never touched" by the Manager Context cleanup.
ManualStateUntouched ==
    [][\A t \in Tasks :
        (pc[t] = "iTeardown" /\ pc'[t] = "iPersist" /\ connection.source = "manual_smcp")
          => socket' = socket]_vars

\* Disconnect takes authority only as the owner of the operation in flight.
DisconnectIsTokenGuarded ==
    [][\A t \in Tasks :
        (pc[t] = "dTeardown" /\ pc'[t] # "dTeardown" /\ connection # NoConnection
           /\ connection' = NoConnection) => TokenCurrent(t)]_vars
=============================================================================
