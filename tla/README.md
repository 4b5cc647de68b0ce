# Verification of the TFRobot Client

This directory holds TLA+ models of the TFRobot Client (a Tauri application: Rust core in
`src-tauri/src`, React frontend in `src`), the TLC configurations that check them and the
theorems TLAPS proves about them. Every definition is translated from the Rust sources; the SMCP
SDK (`a2c_smcp`), tokio and the Manager's HTTP service are external and are modelled by the
outcomes the client's code handles.

## 1. The system

The client hosts *Computers*. A Computer is a persisted profile plus a *runtime*: an SDK handle that
is booted, connected to an SMCP office over Socket.IO, restarted and shut down. Several actors act on
the same Computer at once: commands from the WebView, a remote *Client Control* tool, the Manager
session (login, account switch, logout, expiry) and the SDK's own reconnect loop.

| Component | Source | State it keeps | Operations | Talks to | What makes it correct |
|---|---|---|---|---|---|
| SMCP connection | `services/computer/connection.rs`, `commands/connection.rs`, `commands/runtime_sync.rs` | connection authority, operation in flight (operation, epoch, handle generation, last error), SDK socket slot, persisted target | connect (manual, Manager Robot), disconnect, settle/fail/reconcile by token, install, clear | registry lease, lifecycle lock, Manager context, profile store | one operation in flight with an owner; authority only for a live transport and a committed target; no stale command touches newer state |
| Lifecycle policy | `services/computer/runtime_lifecycle.rs` | none | action table per lifecycle | every command | total, consistent with what is offered |
| Runtime start/stop/restart | `services/computer/runtime.rs`, `services/computer.rs`, `commands/computer.rs` | SDK handle, generation, `shutdown_completed` | start, restart, stop, shutdown | connection, registry, MCP | teardown once per handle; failure leaves an actionable state |
| Registry and removal | `services/computer/registry.rs` | runtime map, retired flag, activity counter, per-Computer coordinators and leases | upsert, update, prepare/commit/roll back removal | runtime, all commands | drained before teardown; nothing runs on a removed runtime; rollback reopens |
| Manager context | `services/manager_context.rs`, `services/manager_client.rs`, `commands/manager.rs` | metadata file, keychain JWT, session, generation, published Context | restore, login, select, switch, logout, expire, requests | registry cleanup, token bridge, connection, chat | no retired credential is ever restored; late 401s cannot sign out a new session |
| Token bridge | `services/manager_token_bridge.rs` | pending requests, ready lease, attempts | exchange, begin/finish transport, complete | WebView | one settlement, at most three transport attempts, no stale completion |
| Runtime input bridge | `services/runtime_input_bridge.rs` | request queue, pending prompts, ready lease | request, complete, acknowledge | WebView, start | one outcome per prompt, queue never stuck |
| Input stores | `services/input_*.rs`, `commands/inputs.rs` | entry document, plain values, secrets | upsert, delete, adopt legacy, resolve | disk, keychain | one authoritative value per key, secrets only in the keychain |
| Keychain | `services/keychain.rs` | one slot per credential: flight, pause | get, set, delete, retry | OS | no stale read, no second prompt after a refusal |
| MCP OAuth | `services/computer/oauth.rs` | admission flag, flows | authorize, cancel, change of a server | handle replacement | no flow reserved across a replacement; cleared stays cleared |
| MCP servers, marketplace | `commands/mcp.rs`, `commands/sdk_config.rs`, `commands/marketplace.rs` | declarations, mounts, ownership, diagnostics | start, stop, add, remove, enable/disable plugin | SDK | a plugin's mount can always be reclaimed, the user's declaration is restored, a sign-in goes with the server's last owner |
| Runtime events | `services/computer_runtime_events.rs`, `services/computer/runtime.rs`, `stores/runtimeStore.ts` | snapshot revision, relay, shown snapshot | publish, relay, query | every component | once quiet, the page shows what is |
| Connection targets | `commands/connection.rs`, `services/connection_targets.rs` | target file, credentials, reservations | save, delete, connect, commit | keychain, Manager | at most one Computer per target and office |
| Computer profiles | `commands/computer.rs`, `commands/runtime_sync.rs` | profile, instance storage, inputs, published instance | create, save, start, duplicate, delete | config, keychain, registry | every failure rolls back everything or says that it did not |
| Configuration | `services/config.rs`, `services/sdk_config.rs`, `commands/config_io.rs`, `services/config_migration.rs`, `services/settings.rs`, `services/portable_config.rs` | directories, journals, markers, files | swap, recover, import, export, migrate, save | disk | old or new, never between; nothing is lost |
| Chat | `services/chat_session.rs` and its modules | leases, tokens, transfers, resources | open, close, send, upload | Manager context | nothing is handed out or delivered under a departed context |
| Client Control | `services/client_control/` | policies, skill packages, audit | update policy, dispatch remote tools | the same commands | policy in effect is the one published; every call audited once |
| Observability | `services/observability/` | SQLite journal, run marker, retention, outages | open, finish, clear, observe | runtime events | runs are accounted for, outages paired |
| Application start | `lib.rs`, `services/computer/registry.rs` | stage, discovered profiles, runtimes | migrate, discover, recover, build, serve | every store | runtimes only over what was recovered; no Computer is left out unsaid |
| Built-in tools, shell, frontend | see `PROJECT.json` | views | rendering | – | see section 7 |

### What is hard in it

Every command is an async function that gives up its locks at network I/O. Three locks order the
commands of one Computer and they are always taken in this order:

1. the Manager's *transaction lock* (`ManagerContextCoordinator::transaction_lock`), held across a whole
   Manager connect and a whole identity transaction;
2. the *operation lease* of the Computer (`ComputerRegistry::operation_lease`), held while a command is
   admitted and while a profile is committed, and for the whole of start, stop, restart and delete;
3. the runtime's *lifecycle lock*, held around every SDK transition.

A connect holds none of them while it resolves its target, so a restart, a stop, a deletion or an
identity change can come in between; the *operation token* (operation, epoch, handle generation) is
what lets the command notice. Teardowns can fail or time out, a save can fail after the runtime was
changed, and writing it back can fail too. `PROJECT.json` lists each such hazard at its line.

## 2. Modules

| Module | Models | Role |
|---|---|---|
| `RuntimeLifecycle` | `runtime_lifecycle.rs`, `connection_snapshot_blocks_target` | the tables, as operators without state |
| `SmcpConnection` | connection, runtime start/stop/restart/delete and identity cleanup of one Computer | the detailed specification |
| `ConnectionAuthority` | what the frontend may rely on | abstract specification, refined by `SmcpConnection` |
| `MCSmcpConnection` | – | instance for TLC, refinement mapping, symmetry |
| `SmcpConnectionProofs` | – | theorems about `SmcpConnection`: types, locks, the owner of an operation; its transport, authority, session and binding; the refinement of `ConnectionAuthority` |
| `RuntimeRetirement` | one entry of the registry: activities, leases, coordinators, removal, replacement, update | detailed specification at the level of single atomics |
| `MCRuntimeRetirement` | – | instance for TLC, symmetry |
| `RuntimeRetirementProofs` | – | theorems about `RuntimeRetirement` |
| `RuntimeInput` | prompting the user from a running operation: bridge, resolver and page | detailed specification; native threads and the page's event loop interleave |
| `MCRuntimeInput` | – | instance for TLC, symmetry |
| `RuntimeInputProofs` | – | theorems about `RuntimeInput` |
| `ManagerSession`, `TokenBridge`, `KeychainAccess`, `ConnectionTargets`, `ChatSession`, `ActivityJournal` | sessions, credentials, targets, records | one component each |
| `MCClient` | – | instance of these six, one component moving at a time |
| `CredentialProofs` | – | theorems about `TokenBridge`, `KeychainAccess`, `ConnectionTargets` |
| `ClientProofs` | – | theorems about `ManagerSession`, `ChatSession`, `ActivityJournal`, and about `MCClient` as a whole |
| `OAuthFlow`, `McpServers`, `Marketplace`, `RuntimeEvents`, `ClientControl`, `SkillPackages` | services of a runtime | one component each |
| `MCServices` | – | instance of these six |
| `ServicesProofs` | – | theorems about each of the six, and about `MCServices` as a whole |
| `InputStore`, `ComputerStorage`, `ConfigStore`, `SdkConfig`, `ConfigImport`, `PortablePackage`, `Settings`, `ConfigMigration`, `AppStart` | stores on disk and in the keychain, and the start over them | one component each |
| `MCStores` | – | instance of these nine |
| `ComputerProofs` | – | the inductive invariants of what a Computer owns: `InputStore`, `ComputerStorage`, `ConfigStore`, `SdkConfig` |
| `StoresProofs` | – | those of the other five, and the theorems about `MCStores` as a whole |

### One instance for several components

`MCClient`, `MCServices` and `MCStores` each check several modules in one run. The variable `subject` names the
component that moves, and the state of every other one is the model value `Parked` or its initial state.
`MCClient` extends its components, so that their theorems and the run speak of the same definitions. The modules of
one such instance share no state in the models, so their product would contain nothing the components do not
show alone: the sum is the honest composition, and it is finite. Where two components of the code do
interact, one module has both sides of the interaction: `ManagerSession` the requests and the settlement of
their 401s, `ChatSession` the session that ends under a lease, `ComputerStorage` the cleanup of a departing
context, `OAuthFlow` the replaced handle, `ConnectionTargets` the connections of several Computers.

### `SmcpConnection`

A *task* is one running command. `pc[t]` names the await point where it is; a step is the code between
two points at which another task can run. Variables are the fields of the code: `connection` and
`op` are `Option<ConnectionState>` and `ClientConnectionOperationState`; `lifecycle`, `socket`,
`runtimeGeneration` and `shutdownCompleted` are the SDK handle and what the client remembers about it;
`retired` and `present` are the registry's; `profile` is the persisted target with the Manager Robot
binding; `session`, `departing` and `cleanupFailed` are the Manager's; `lease`, `lock` and `tx` name
the holder of each lock. A task's locals are its token, source, connection generation, Manager
generation and profile snapshot (`tok`, `src`, `gen`, `mgr`, `seen`), reset when it returns.

| Command | Actions in order |
|---|---|
| connect | `ConnectAdmit`, `ConnectBegin`, `Prepare` (`PrepareLock`, `PrepareTeardown`), `Admit`, `Resolve` (Manager), `Reserve`, `EstablishManual` or `EstablishManager`, `Transaction` (Manager), `ConnectLock`, `ConnectSocket`, `Install`, `Commit`, `Apply`, `Complete`; errors go through `AbortLock`, `AbortTeardown`, `FinishLock`, `FinishTeardown` to `Fail` |
| disconnect | `DisconnectAdmit`, `DisconnectBegin`, `DisconnectEnsure`, `DisconnectTransport`, `DisconnectLock`, `DisconnectTeardown`, then `DisconnectSettle` or `DisconnectFailed` |
| start, restart | `ReplaceAdmit`, `ReplaceLock`, `ReplaceClear`, `ReplaceCancel`, `ReplaceInstall` |
| stop | `StopAdmit`, `StopLock`, `ShutdownTeardown`, `ShutdownSdk`, `ShutdownTake`, `ShutdownComplete` |
| delete | `DeleteAdmit`, `DeleteLock`, `DeleteDecide`, then roll back, or the shutdown steps of stop |
| identity transaction | `IdentityAdmit`, `IdentityLease`, `IdentityLock`, `IdentityTeardown`, `IdentityPersist`, `IdentityCommit` |
| the network | `TransportLost`, `TransportSettled` |

Choices made in the abstraction:

- *The SDK.* `connect_socketio`, `join_office`, `disconnect`, `boot_up` and `shutdown` either succeed or
  fail with the states the client's code allows for. A failed or timed-out disconnect keeps the SDK's
  socket slot, and leaving the office may or may not have moved the lifecycle. SDK calls return.
- *The socket.* `socket` is 0 or the connection generation whose connect opened it, so that a transport
  can be told from a leftover of another connect.
- *The lease* is a tokio `RwLock`. Start and restart downgrade it to a shared guard; the operations that
  take it shared do not touch this state, so it is modelled as exclusive throughout.
- *Boot* is part of `ReplaceInstall`, as both run under lease and lifecycle lock; its outcomes are a
  started handle, a failed boot and a governance failure rolled back by a shutdown. Diagnostics of
  command-line tools and of MCP starts are left out.
- *Auto-connect* after a start is a `ConnectAdmit` of its own, as in the code, where it runs after the
  start returned.
- *Other Computers* appear through `Reserve`, `EstablishManual` and `Transaction`, which may always fail.
- *Manager context.* A context is identified with the generation of the session that carries it.
- *Deletion* drains admitted activities in `DeleteAdmit`; the drain itself, and why it empties the
  runtime, is `RuntimeRetirement`.
- `connection_authority_revision` and the published snapshots are left to the events module.

### `ConnectionAuthority`

The promise to the frontend, in terms of three values: the connection in force (none, or a generation),
the operation in flight and the generation of the persisted target. A connection comes into force in
one step, the settlement of the connect that persisted its target; it ends in one step; the persisted
target changes by a connect only. `MCSmcpConnection` maps the detailed state to it.

### `RuntimeRetirement`

One entry of `ComputerRegistry::runtimes` and every runtime incarnation ever listed in it. Here a step is
one atomic operation or the code between two of them, because tokio's workers run in parallel and the
drain is a protocol of two atomics (`retired`, `active_operations`) and a `Notify`.

| Actor | Actions in order |
|---|---|
| activity (`begin_activity`, a call, the guard's drop) | `Obtain`, `AddActivity`, `CheckRetired`, `Finish`, `DropActivity`, `Notify`, `Release` |
| lease (skill mutation or snapshot) | the same, with `TakeLifecycle` between `CheckRetired` and `Finish` |
| locked operation (start, shutdown, policy sync) | `Obtain`, `TakeLifecycle`, `Finish` |
| removal | `Mutate`, `LockMutex`, `Retire`, `Drain` (`Poll`, `Woken`), `LockRetired`, `Decide`, `Shutdown`, `Unlist`; `Cancel` at its awaits |
| replacement (`upsert_runtime`) | `Mutate`, `LockMutex`, `Retire`, `Drain`, `LockRetired`, `Shutdown`, `Publish` |
| update | `Mutate`, `LockMutex`, `Sync`, `SyncDone` (again for the restore and the restart after a failure), `Swap` |

`mapped` is the weak reference in `runtime_mutations`; `coord[t]` is a strong one held by a task. An
upgrade succeeds while some task holds one, whether or not it has the lock. `permit` is the permit
`notify_one` stores when nobody waits. The registry's map is under its own lock for each access, so
reading and writing an entry are single steps. `Reopen` merges what a rolled back removal does in
its drop: reopening admission, then releasing both guards.

`Cancel` drops the future of `prepare_runtime_removal` at any await, which `computer.rs:5758` tests.
`retire` does not survive being dropped in its drain: it would leave admission closed. Its production
caller (`commands/computer.rs`, creation of a Computer) replaces nothing, so it retires nothing, and no
cancelled replacement is modelled.

### `RuntimeInput`

An operation that resolves its inputs (`pc[o]`, in `with_interaction_mode`) asks the page for a missing one.
`lease` and `pending` are `BridgeState`, `holder` is `request_queue`, `req[o]` and `channel[o]` are
the request an operation waits for and the response its oneshot receiver or its local variable holds. A call of
`complete_runtime_input_request` (`at[c]`) carries a request id and the user's choice; `effect[c]`, a
history variable, is what the resolver did with it. `session`, `sequence`, `events`, `store` and
`submitting` are the page's `activeSession`, `leaseSequence`, undelivered events, the Zustand store
(whose first request is the prompt) and `submittingRef`.

| Actor | Actions in order |
|---|---|
| operation | `Begin`, `Ask` (or `End`), `Register` or `NotReady`, `Emit`, `Receive` or `Interrupted`, `ReturnResponse`, `Settle`; `Discard` where the request failed; `Abandon` at each await |
| call | `Answer` (submit or cancel), `TakeSender`, `SendResponse`, `Told`, `Refreshed`; `LoseCall` before it is admitted |
| page | `OpenSession`, `Listen`, `SetReady`, `CloseSession`, `UnsetReady`, `Dispose`; `Deliver`; `StartFails`, `LoseShutdown`, `Reload` |

Choices made in the abstraction:

- *Threads.* Taking a sender and sending through it are two steps, as `complete` releases the lock in between;
  so are the drop of the sender and its notice at the receiver. A step of an operation is what one poll does.
- *Ids.* A `Uuid` is an id nothing refers to any more, so a finite set of ids is enough for any history.
- *Leases* are numbers of one page's counter. `Reload` starts it over, as a page's memory does, which is why
  ids of two pages may coincide.
- *A reload* drops events and calls native code has not seen. Calls it has admitted run on, and
  nobody hears of their result (`heard`).
- *The queue* is one holder. That it is first come first served is left to the fairness.
- *The page* is one mounted prompt and one owner of the session; a dispose by an owner that is not the last one
  changes nothing but a count. `remove` filters the first request only, as only that one is ever completed.
- *Time.* No prompt times out: an operation waits until it is answered, interrupted or dropped.
- `reportCompletionFailure` and the texts shown are left out; when the notice appears is what
  `FailureNoticeIsTrue` is about.

### `ManagerSession`

`metadata` (what to restore at the next start) and `jwt` (the keychain) survive a crash, `session`,
`generation` and `snapshot` are memory. An identity transaction (`tx`) holds `transaction_lock` and is taken
step by step: log in, select an account, switch, restore, log out, expire; each write may fail and is
followed by what the code does then. A request captures the session, goes out, and settles under the lock
when a 401 comes back. Credentials are numbers the server issues in order; the account behind one is not
told apart, since nothing compares accounts. What a transaction does to Computers is in `SmcpConnection`
and `ComputerStorage`.

### `TokenBridge`

`readyLease` and `pending` are `BridgeState`; an exchange is one call of `exchange_token_for_generation`, a
transport one `token_bridge_http_request` of the page. What the page knows of a request (`told`) it may use
at any later time, any number of times, under any generation. A timeout and a dropped future are one action
(`GiveUp`), as both only drop the guard. The page's lease ids are taken as different for different
sessions; that a reload starts them over is the disagreement `RuntimeInput` has (section 5).

### `KeychainAccess`

One slot of `CoordinatedSecretStore`: the flight at the OS, the waiters that share a read, the pause that a
refused access leaves and the user's retry. `seen` is a history variable: what the OS held since an
operation began. An access that outlives its caller is the same flight.

### `ConnectionTargets`

Two Computers, manual targets with file and credential, Robots whose office the Manager names, the
reservation table and the commits. A task is one connect; the connection itself is only *joined, with this
transport*, because `SmcpConnection` has the rest. A save writes the credential first and puts it back when
the file cannot be written (`unrestored` if that fails too).

### `ChatSession`

A selection opens a lease under the session of that moment; leases are ended by the page, by a later
selection, or by the cleanup of the session. `chatKind` fixes, per behaviour, which of the requests of a
lease run (remember, credential, transfer, resource), since they share nothing but the lease. The proxied
HTTP request of a chat is a credential handed out plus work that can be interrupted.

### `ActivityJournal`

The marker of the open run in SQLite, written and removed in transactions that may fail; retention, which
starts with defaults and must not clean up before the saved setting was applied; and the outages that
`connection_activity.rs` infers from status events, with the connection they are about. Events are observed
in order, which `RuntimeEvents` justifies (they are emitted under the snapshot lock's order by one relay).

### `OAuthFlow`

Flows of one server against the fence (`oauth_server_lifecycle_lock`), the lifecycle lock, admission flag
and blocks, cancellations, changes of the server or its credential, and `replace_sdk_computer`. The SDK's
flow is external: cancel and complete converge on one outcome, and cancelling ends the flow.

### `McpServers`

One bundle that the user may declare and two plugins may bundle. Commands under the exclusive operation
lease are taken step by step (`mcpOp`); a prepared start runs outside the lease under the bundle's start
lease (`pendingStart`), a stop shares it. The SDK's declarations, processes and plugin ledger are external.

### `Marketplace`

One Marketplace, its plugins (all bundling the same OAuth server) and the user's own declaration of that server.
A command under the operation lease is one step where nothing can come between, and a sequence of steps where an
authorization can: verification and cleanup of an addition, cancelling the flow, erasing the credential, then the
removal, each of which may fail. Beside the lease run the OAuth flow and the rebuilding of a package's plugins.
The ledger is the SDK's: its add is taken to refuse a name it knows, and `update_marketplace` changes nothing here.
`crossed` and `leftBehind` record the two ways out of the promises: a rebuild that installs during a command, and a
server that the handle keeps when its last owner goes.

### `RuntimeEvents`

The SDK broadcasts causes; the relay of the current handle turns each into an event with a snapshot it
takes then, commands take and deliver snapshots of their own, and the page's store accepts or ignores what
arrives. A snapshot is its revision, its generation and how often SDK state and client diagnostics had
changed. The channel has a capacity and a lagging relay resynchronizes.

### `ClientControl` and `SkillPackages`

A policy is in the profile, the published runtime and the mounted provider; an update changes one after the
other and undoes what it did when a step fails (`troubled` when the undo fails too, which is reported).
Calls of a Robot run beside updates: policy and target check, authorization, execution, answer, and the
audit that `PendingAudit` writes when the call is dropped. `SkillPackages` has the files of one package:
`skill` is the live directory, `dirs` the transaction directories with their parts, and every rename or
removal may fail or be the last thing the application does.

### `InputStore`

One key: the entry document (`entry`), the plain value file and the keychain (`backend`), the index that
preceded entries (`legacy`), the SDK's definition and whether a server refers to it. Upsert, delete,
adoption and the undo of each are one write per step; a refused keychain access pauses the credential;
`InputCrash` stops the client between any two writes.

### `ComputerStorage`

The commands on a Computer as sequences of writes with their undo in reverse, over profile, instance
storage (with its quarantine), inputs and the published instance, under the operation lease and the
membership lease, while the Manager's context departs and cleans up Computer after Computer. A Computer an
error report names is `troubled` and is not worked on further.

### `ConfigStore`, `SdkConfig`, `ConfigImport`, `ConfigMigration`

The four durable protocols, each with a stop of the application between any two file operations:

- `ConfigStore`: the swap of one directory through `.transactions` with its markers, and the recovery that
  every access starts with. A recursive removal that is interrupted leaves a *partial* directory.
- `SdkConfig`: the swap of the Project and User directories under one journal, the raw restore of the
  Project directory under another, and their recovery at start and before the next swap. A document is the
  declarations of servers, whether one uses an input, and whether that input is defined.
- `ConfigImport`: two stores under a redo journal; `foreseen` is the set of pairs a reader may find.
- `ConfigMigration`: plan, destinations, reading back, marker, archive; `cutShort` remembers a rollback that
  was interrupted or failed in part.

### `AppStart`

The stages of a start, in the order of `try_new_with_secret_store_and_run_id`: migration, discovery, removal of
retired OAuth fields, replay of imports, second discovery, recovery of skills, registry, wiring. `Stop` is an error of a
stage, a quit or a kill at any point, between two Computers included; the next start finds the disk as it was left.
A discovery may leave out any profile it cannot read (`skipped`), the second one others than the first.

### `PortablePackage` and `Settings`

A package is exported group by group while the user edits the Computer, may be damaged, and becomes a new
Computer. `Settings` has two writers of `settings.json` and of the chat preferences, each reading, changing
and writing the whole file; `committed` is what the same writes one after the other would have made of it.

## 3. Runs

| Run | Configuration | Question |
|---|---|---|
| `connection_safety` | `MCSmcpConnection.cfg` | do two commands of any kind keep authority, operation, transport, profile and session consistent, and implement `ConnectionAuthority`? |
| `connection_returns` | `MCConnectionReturns.cfg` | does every connection, lifecycle or deletion command return? |
| `identity_returns` | `MCIdentityReturns.cfg` | does every command return while identity transactions run? |
| `disconnect_token_guard` | `MCDisconnectTokenGuard.cfg` | expected violation, section 5 |
| `runtime_retirement` | `MCRuntimeRetirement.cfg` | is a runtime empty when it is torn down, closed only while it is being retired, never used afterwards, and never leaked? |
| `retirement_returns` | `MCRetirementReturns.cfg` | does every removal and update return once callers stop arriving? |
| `runtime_input` | `MCRuntimeInput.cfg` | does each prompt have one outcome, which the page is told, and is nothing left open that nobody waits for? |
| `input_returns` | `MCInputReturns.cfg` | can the user answer what is open, and does an operation that waits for the queue get it? |
| `client_sessions` | `MCClient.cfg` | do sessions, token requests, keychain accesses, targets, chat leases and the journal keep what they promise, whatever arrives late, twice or never? |
| `runtime_services` | `MCServices.cfg` | do OAuth flows, MCP servers, Marketplaces, status events, policies and skill packages stay consistent across replaced handles, failing steps and stops of the application? |
| `client_stores` | `MCStores.cfg` | does every change that takes more than one write leave the old state or the new one, whichever write fails and wherever the application stops, and does the next start serve over a recovered state only? |
| `deleted_returns` | `MCDeletedReturns.cfg` | expected violation, section 5 |

What the properties of `connection_safety` say:

- `InFlightHasOwner`: an operation in flight has a running task that holds its token. Otherwise the
  Computer would show *connecting* for ever and reject every other command.
- `ConnectedIsReal`: *Connected* is backed by the very transport opened for this authority.
- `OneTransport`: a connect never opens a second transport beside a leftover one.
- `OrphanTransportIsActionable`: a transport whose authority is gone can be closed by the user.
- `AuthorityIsCommitted`: authority at rest is for the target that is persisted.
- `NoDepartedManagerAuthority`, `DepartedBindingIsTombstoned`: after an identity transaction nothing
  acts for the old session, and a profile that still says otherwise is marked.
- `LocksHeldByCommands`: a returned command holds no lock.
- `PromiseKept`: every step is a step of `ConnectionAuthority` or invisible to it.

And those of `runtime_retirement`:

- `DrainedBeforeTeardown`: from the end of the drain to the end of the teardown no counted caller is in
  the runtime, although callers count themselves in before they look at `retired`, and although a permit
  of an earlier last-one-out may be stored.
- `NeverRunsTornDown`: no clone of a handle, however old, works on a torn down SDK.
- `ClosedHasMutator`: a listed runtime rejects callers only while a mutator is retiring it.
- `EntryIsStable`: the entry a mutator read is the entry it writes, so two coordinators are never alive for
  one Computer.
- `UnlistedIsTornDown`: a removed or replaced runtime is not left running.
- `MutatorsReturn` (run `retirement_returns`) has the premise that from some point on nobody is about to
  count itself in. Without it the property is false, and rightly so: rejected callers raise the counter for
  a moment, and a drain may be unlucky for ever while they keep coming.

And those of `runtime_input` and `input_returns`:

- `PendingIsAwaited`: a registered sender belongs to the holder of the queue, who is still in `request`.
- `ToldTheTruth`: a completing call succeeds exactly when its answer took effect; an answer that lost its race
  against an interruption, a dropped operation or another answer changed nothing.
- `WaitingCallIsHeld`: a call that waits for its acknowledgement waits for an operation that has its response.
- `NoPromptAfterFailure`: an interaction with a failure opens no further prompt.
- `PendingIsAnswerable`: the page cannot lose a request its own session holds open.
- `PromptsEnd`: who waits for the queue gets it, provided that the page has a session again and again.

And those of the three instances of several components. Each property of these runs is the conjunction of
the named parts for the component that moves:

| Property | Parts, and what they say |
|---|---|
| `SessionsHold` | `ManagerSession`: `NeverRevived` (a credential that was replaced or signed out is never restored, wherever the client stops and whichever write fails), `RefusedIsCurrent` (a 401, however late, removes only the session the server refused), `SnapshotIsSession` (the published Context is the session that signs). `ChatSession`: `RecentIsLatest`, `CredentialIsOfSession`, `NoLeaseSurvives`, `ClosedHoldsNothing`. `ActivityJournal`: `RunsAreAccounted`, `OldRecordIsKept`, `NoFalseRecovery`, `NoOutageIsForgotten` |
| `BridgeHolds` | `PendingUnderLease` (what can still be used belongs to a waiting exchange and the ready bridge), `AttemptHasTransport` (an active attempt is that of exactly one HTTP call, so a request is never stuck nor sent twice at a time) |
| `KeychainHolds` | `ReadIsFresh` (a shared result is one the keychain held during this read), `NoPromptWhilePaused` |
| `TargetsHold` | `ExclusiveTargets` (no two Computers on one target or in one office), `ConnectedTargetExists`, `CredentialHasTarget` |
| `RuntimeHolds` | `OAuthFlow`: `ClearedStaysCleared`, `FlowIsOfThisHandle`. `McpServers`: `DiagnosticHasServer`, `PluginMountIsTracked`, `ReleaseRestores`. `Marketplace`: `SignInHasOwner` (no credential outlives the last that has the server, whatever flow was in progress), `InstalledHasMarketplace`. `RuntimeEvents`: `ShowsCurrent` (when all is delivered the screen shows the state of the Computer, in whatever order it was delivered) |
| `ControlledHolds` | `ClientControl`: `PoliciesAgree`, `AdmittedByCommitted`, `AuditedOnce`. `SkillPackages`: `SkillSurvives`, `RevisionIsRespected` |
| `InputsHold` | `ValueSurvives` (the old or the new value is in one of the stores, and "reverted" is only said when true), and `SecretStaysInKeychain` |
| `ComputersHold` | `PublishedIsSaved`, `FailedDeleteKeeps`, `DepartedIsDormant` (a duplicate made during the cleanup included) |
| `ConfigurationsHold` | `ConfigStore`: `DirectoryIsOldOrNew`, `MigrationIsUnauthoritative`. `SdkConfig`: `ScopesAreOfOneCommit`, `UsedInputsSurvive` |
| `TransfersHold` | `ConfigImport`: `ImportIsAllOrNothing`, `ExternalSettingsAreKept`. `PortablePackage`: `PackageIsOfOneMoment`, `PackageHasNoSecret`, `ImportIsWhole` |
| `ClientFilesHold` | `Settings`: `NoUpdateIsLost`, `ChecksAreSpaced`, `CleanupIsCommitted`, `AuthorityIsComplete`. `ConfigMigration`: `NothingIsLost`, `OwnWritesAreAccepted`, `FailureRestores`. `AppStart`: `RuntimesAreSettled` (a runtime of a discovered Computer is built over finished imports, whole skills and current servers, wherever earlier starts ended), `NoComputerIsLost` |

`ClientTypeOK`, `ServicesTypeOK` and `StoresTypeOK` are the type invariants, among them the limits the code sets:
transport attempts, blocked admissions, queued events, stored notices.

### Bounds

`Tasks = {t1, t2}`, interchangeable, so the safety run uses symmetry (the liveness runs do not). Two
tasks are enough for every pairwise race, and a task that returns starts a new command, so that a run
goes through sequences of commands. `MaxEpoch` bounds the operations begun, `MaxRuntimeGeneration`
the SDK handles built and `MaxSession` the identity transactions; each is a conjunct of the admission
that would exceed it. Two operations let a stale token meet a newer one; three handles let a restart
come between both; one identity change lets a Manager connect span it. The properties compare a value
with the current one and never with two others, so longer histories repeat the same cases. Deadlock
checking is off because users may stop issuing commands; that a command which runs does return is the
liveness property instead.

`RuntimeRetirement` uses three tasks: a mutator, a second one and a caller, or one mutator and two callers
of which one leaves as the other arrives. `MaxIncarnations = 3` lets a clone outlive two replacements;
`MaxCoordinators = 3` gives every task a coordinator of its own, which is what must not happen. The
liveness run has one incarnation, so no replacement completes; drain, locks and coordinators are the
same for a removal.

`RuntimeInput` uses two operations (one holds the queue, one waits), three ids (one waited for, one shown
although its operation is gone, one fresh) and two calls (an answer and a cancellation of one request, or answers of
two requests). `MaxLeases = 2` lets a session follow another, `MaxReloads = 1` lets a page follow another,
a page with its second lease being followed by one with its first. In the safety run only a reload loses messages
(`MaxLosses = 0`; a lost call, for safety, is one the user never made); `MaxLosses = 1` in the liveness run loses
one call, start or shutdown. That run has one call and two ids, and no reload: with a reload
`PendingIsAnswerable` and `PromptsEnd` fail, as `NewSessionReplaces` in section 5 explains. Deadlock is checked: an
operation can always begin or be dropped.

The instances of several components use two interchangeable actors wherever two can race (exchanges,
transports, callers, connects, flows, plugins, tasks, requests, writers) and as many versions as a
property compares plus one: three credentials (retired, current, next), two leases, two selections, two runs
of the application, three editions of a directory or import, two skill changes. `MaxTransportAttempts = 3` is
the code's constant. Where a recovery is modelled, the application may stop any number of times; only
`MaxRuns`, `MaxMigrations` and `MaxStarts` count starts: two let each recovery meet an interrupted recovery, and the third
start of `AppStart` one that meets what a running application left.
`SkillPackages` allows three faults (`MaxFaults`): one leaves a directory behind, one keeps the next recovery from removing
it, and one interrupts what follows. Times in `Settings` are a clock of a few ticks with an interval of one.

### Fairness

`FairSpec` assumes strong fairness of `Step(t)` for each task. Tokio polls every ready task, its
mutexes are fair queues, and SDK calls return (the client bounds the one that may hang with a timeout),
so a task that can infinitely often take its next step takes it. Nothing is assumed of the user, of the
network or of the SDK's reconnect loop.

`RuntimeInput` assumes strong fairness of taking the queue (tokio's mutex is first come first served), weak
fairness of the other steps of a future that is ready and of a call in native code, weak fairness of the page's
event loop, and that the user answers the prompt shown. Nothing is assumed of opening, closing or losing a session;
that a session is ready again and again is the premise of `PromptsEnd`.

The modules of `MCClient`, `MCServices` and `MCStores` state safety only. Their code promises no progress that a
scheduler could refuse: an operation on disk ends when the file system answers, a token exchange ends by its
timeout, a chat request by the HTTP client's, and a queue that users can hold exists only in `RuntimeInput`.
Deadlock is not checked there, because every bound on what users do is an end of the run.

## 4. Proofs

Every theorem holds for all values of the constants that satisfy the named assumptions, which say no more than that a
model value differs from the values it stands beside, that a bound is a number and, where cardinalities are counted, that a
set is finite. TLC evaluates the assumptions in the runs. Each inductive invariant was checked by TLC on the
instance of its run before it was proved.

### The connection

`SmcpConnectionProofs` proves, for every set of tasks and every bound:

| Theorem | Statement |
|---|---|
| `TypeCorrect` | `Spec => []TypeOK` |
| `LocksReleased` | `Spec => []LocksHeldByCommands` |
| `OperationOwned` | `Spec => []InFlightHasOwner` |

Assumptions: `NoTaskAssumption` and `BoundsAssumption` of `SmcpConnection`.

None of these is inductive by itself. The inductive invariant `IInv` is `TypeOK`, `LockingInv`,
`OwnershipInv` and `InFlightHasOwner`:

- `LockingInv` says at which program points each lock is held, and by whom (`LeaseInv`, `LockInv`,
  `TxInv`), and that only a Manager connect gets as far as waiting for the transaction lock
  (`ManagerInv`). `LocksHeldByCommands` follows, as *Idle* is no such point.
- `OwnershipInv` is about the runtime a task works on: whoever holds the lease has a runtime that is present
  (`PresentInv`); a runtime that is retired and present has a task at one of the points of a deletion or
  shutdown (`RetiredInv`); a removed runtime has no operation in flight (`AbsentInv`), nor has one whose
  handle is about to be replaced (`ReplaceInv`); and a disconnect past its begin holds a `Disconnect`
  token (`TokenInv`). `ReplaceInv` is why a restart never strands an operation: the token of its owner
  goes stale, but the operation is gone by then.

There is one lemma per group of actions and part (`...Type`, `...Locking`, `...Ownership`), with one step
per action; lemmas such as `Moves`, `LeaseStep`, `Begins` and `Settles` state what the recurring
helpers do to the parts of the invariant, and the last step of each theorem is temporal.

The second half of the module builds on them. It proves the other safety invariants of `connection_safety` and the
refinement, from the same assumptions:

| Theorem | Statement |
|---|---|
| `ConnectedHasTransport` | `Spec => []ConnectedIsReal` |
| `SlotEmptyAtConnect` | `Spec => []OneTransport` |
| `OrphanCanBeClosed` | `Spec => []OrphanTransportIsActionable` |
| `RestIsCommitted` | `Spec => []AuthorityIsCommitted` |
| `ManagerAuthorityIsCurrent` | `Spec => []NoDepartedManagerAuthority` |
| `BindingIsTombstoned` | `Spec => []DepartedBindingIsTombstoned` |
| `ConnectionPromised` | `Spec => PromiseKept`, the refinement of `ConnectionAuthority` |

The argument goes in four layers, each an invariant relative to those before it:

1. *One owner* (`OwnerInv`). No token is newer than the operation, a task in flight has a token, and so two tasks never own
   the operation: a new one has an epoch that no token has yet.
2. *The transport* (`ConnInv`). The SDK's slot is empty outside the connected lifecycles; what it holds is the transport of
   the authority, or nothing once that is gone (`SlotInv`, `TransportInv`). This needs to be known at every point of the
   owner's command: it prepares over a dead transport only (`PreparingInv`), finds no connection and an empty slot from then
   on until it fills them (`OpeningInv`), and later the authority is its own (`InstalledInv`); a handle is replaced, and a
   shutdown settled, without a connection (`ClearedInv`). A connect that begins may find a live connection only if another
   one waits for the lease to commit (`BeginInv`).
3. *The target, the session, the binding* (`AuthorityInv`). A connect from its save to its settlement has the persisted
   target (`CommittedInv`); a Manager connect that holds the transaction lock belongs to the session signed in
   (`TransactionInv`, `SessionInv`); a binding in force is of the present session or of one still being cleaned up, and
   an identity transaction that cannot reach the profile leaves a tombstone (`BindingInv`, `TombstoneInv`).
4. *Fresh generations* (`GenerationInv`). A connection generation is handed out once and is not 0, so a step that brings a
   connection into force is recognised in the abstract specification. `StepPromised` then takes each action to a step of
   `ConnectionAuthority` or to a stutter.

Only model-checked: that commands return (`CommandsReturn` and its variants), which is liveness.

### The registry

`RuntimeRetirementProofs` proves every safety invariant of `runtime_retirement` for every finite set of tasks
and every bound: `TypeCorrect`, `DrainHolds` (`DrainedBeforeTeardown`), `NoUseAfterTeardown`
(`NeverRunsTornDown`), `ClosedOnlyWhileMutated` (`ClosedHasMutator`), `StableEntry` (`EntryIsStable`) and
`NothingLeaks` (`UnlistedIsTornDown`). Assumptions: `TasksAssumption` (finitely many tasks, for
cardinalities), `NoTaskAssumption`, `BoundsAssumption`. The argument, as parts of its `IInv`:

1. All live references are to the mapped coordinator (`CoordInv`): a second one is made only when nobody
   refers to the first. So at most one mutator is past the coordinator's lock (`MutexInv`), and only
   that one changes the entry (`EntryIsStable`) or reopens admission (`ClosedInv`).
2. `active_operations` is the number of tasks between their increment and their decrement (`CountInv`, with
   the library's facts on cardinalities), so a counter seen at zero means that nobody is admitted, and
   from then on everybody who counts in sees `retired` (`EmptyInv`).
3. The lifecycle lock excludes the callers that are not counted (`LockInv`), so nobody is in the runtime when
   it is torn down; it stays closed for good, or until its entry goes (`TornInv`), so nobody enters later.
4. An entry is removed or replaced at a point only a completed shutdown leads to (`UnlistedIsTornDown`).

There is one lemma per part of `IInv` with one step per action; `MutatorsReturn` is model-checked only.

### Prompts

`RuntimeInputProofs` proves every safety invariant of `runtime_input` for all sets of operations, ids and calls and
every bound: `TypeCorrect`, `NothingIsStranded` (`PendingIsAwaited`), `AnswersAreTrue` (`ToldTheTruth`),
`WaitingIsAnswered` (`WaitingCallIsHeld`) and `FailedInteractionIsOver` (`NoPromptAfterFailure`). Assumptions:
`NothingAssumption`, `BoundsAssumption`. The argument, as parts of its `IInv`:

1. An operation has a request exactly while it is in `request` or settles one, and two never have the same
   (`ActiveHasRequest`, `RequestsDiffer`): ids are fresh. Only the holder of the queue is inside the part that
   has a sender (`HolderPrompts`), so every sender is its own (`PendingIsAwaited`).
2. A taken sender is not registered any more (`SenderIsTaken`), so a request is sent one response; a response
   in a channel is of a call that waits for that very request (`ChannelAnswers`, `WaitingCallIsHeld`), and
   whoever settles has one (`ReceivedIsAnswered`).
3. So the step that settles or drops a response is the one that ends its call: the effect on a call and its result
   change together (`EffectIsAcknowledged`), which is `ToldTheTruth`.

Two more theorems are about a page that has not been reloaded, which their statements say (`reloads = 0`):
`AnswerableUntilReload` (`PendingIsAnswerable`, the safety invariant of `input_returns`) and `SessionReplacesUntilReload`, an
action property: when a session becomes ready, no request of an earlier one is left open. They rest on `PageInv`, by which
the native lease is never newer than the page's (`LeaseIsOld`) and a request the page has seen completed has no sender
(`CompletedIsTaken`). After a reload both are false, as `NewSessionReplaces` in section 5 explains, so the hypothesis is
where the promise of the code ends, and not a convenience of the proof. `PromptsEnd` is liveness and model-checked only.

### Sessions, credentials, targets, records

`CredentialProofs` has three parts. It proves `BridgeTyped` and `BridgeIsSound` (`BridgeHolds`) for any sets of exchanges, HTTP
calls and leases. Assumption: `TokenBridgeAssumption`. `BridgeHolds` is not inductive: that a finished call
frees the attempt it began needs that the call still carries the generation of the request (`CallInv`), and
that a request inserted now has no call left from earlier needs that an exchange is used once (`FreshInv`).

Of `KeychainAccess` it proves `KeychainTyped` and `AccessesHold` (`KeychainHolds`) for any number of callers.
Assumption: `KeychainAssumption`, which also says that a result is either a value or an error. The argument:
the flight is the only caller at the OS (`FlightInv`), so a read that is about to land still has what the
keychain holds (`LandingInv`), which every operation that has begun has seen (`SeenInv`); who waits shares
only a read (`WaitInv`), and so gets a value of its own time (`WokenInv`).

Of `ConnectionTargets` it proves `TargetsTyped` and `TargetsAreExclusive` (`TargetsHold`) for any number of Computers,
targets, offices and connects. Assumption: `ConnectionTargetsAssumption`. What a connect reserved is reserved for its
Computer (`HeldInv`) and no two connects hold one key, be they of one Computer (`ApartInv`); so what it found when it looked at
the other Computers stays true until it joins, as another Computer gets to that target or office under a reservation only
(`CheckedInv`). The current connect of a Computer finds it without a connection until it makes one (`ClearInv`), and a
target can be gone only under a connect that has yet to commit (`ExistsInv`).

`ClientProofs` proves the same of `ManagerSession`, `ChatSession` and `ActivityJournal` and puts the six together:
`ClientTyped` (`ClientTypeOK`) and `SessionsAreSound` (`SessionsHold`) are theorems about the specification that
`client_sessions` runs. Assumptions: the three above, `SessionAssumption`, `ChatAssumption`, `JournalAssumption`.

- `SInv` (`ManagerSession`): a present session is of the present generation; a credential that is about to be used is the
  last one issued or the one the keychain holds, and is not retired (`CredentialInv`); what the metadata would restore is
  never a retired credential, whichever write of a transaction failed last (`MetadataInv`); the snapshot is the session's
  until a transaction has committed another (`SnapshotInv`); and a request in flight whose generation is the present
  one was sent with the present credential (`RequestInv`), which is why a late 401 cannot sign out a new session.
- `ChatInv` (`ChatSession`): while leases are cleaned up, one that is still held is either on the list or of a session
  that began since (`LeaseInv`), and no selection is remembered that a newer one has replaced (`RecentInv`).
- `JournalInv` (`ActivityJournal`): the run that the marker names has started and not ended, every other one that started has
  ended in one way (`RunInv`); the short retention is in force only after the user saved it (`RetentionInv`); and the sink
  is as far as the runtime, so an outage it shows is of this run and handle and of after the user's last operation
  (`OutageInv`, `ViewInv`).
- `ClientInv` says for each component that it satisfies its own invariant while it moves, and is initial or parked
  while another does.

### Services of a runtime

`ServicesProofs` is about the specification that `runtime_services` runs, for any number of flows, handles, plugins, snapshot
tasks, events, policy updates, control calls and skill changes. Assumption: `ServicesAssumption`, which is those of the
modules (`Marketplace` needs none). Theorems: `ServicesTyped` (`ServicesTypeOK`), `RuntimeIsSound` (`RuntimeHolds`), `ControlledIsSound`
(`ControlledHolds`), and two of its parts that need less: `ControlIsSound` (the whole of `ControlHolds`) and
`RevisionsAreRespected`. Each component has an
invariant of its own, and `SvcInv` says that the one that moves satisfies its own:

- `OAuthInv`. `ClearedStaysCleared` looks at the moment a flow stores a token; what makes it true is spread over the steps
  before. Who removes a flow's entry has ended the flow (`CancelInv`), and a flow that can still store one has its entry
  (`EntryInv`, `Closed`). The blocks of admission are exactly those of the step a change is at (`ChangeInv`), so while
  there are any nobody enters the map, and what a change cancels is all there was (`Alone`). The same, with the closed
  admission in place of the blocks, for the replacement of a handle (`ReplaceInv`).
- `ServersInv`. A release of a plugin knows whether the user declares the server, restores it only then, and by the time it
  reclaims, with no plugin left, nothing is tracked that the user declares and an enabled declaration is mounted as the
  user's (`ReleaseInv`). Without it `ReleaseRestores`, which looks at the end of the command, is not inductive.
- `MarketInv`. What is on the handle, a sign-in or a running authorization has an owner (`Owner`). It stays true because a
  command that takes the last owner away has ended the flow and erased the sign-in before, under an admission nobody
  else can have, or knows of another owner (`UninstallInv`, `RemoveServerInv`); and while a Marketplace is added or
  removed only a rebuild installs its plugins (`CatalogInv`).
- `EventsInv`. `ShowsCurrent` is about a moment when nothing is on its way, so the invariant is about what is. The views are
  the screen and the snapshots that were taken and not yet delivered. The view with the highest revision is of the newest
  handle and shows the current state, unless someone has still to take another snapshot: a cause is queued or in the relay's
  batch, or a command is about to publish (`ViewsInv`); that view is not lost before it is shown (`LatestKept`); and
  there is a relay unless the handle has ended or is being replaced, in which case its last cause is the end (`RelayInv`).
- `ControlInv`. For each step of an update, what it has changed in the profile, the runtime and the provider, and what it was
  before (`UpdateInv`); for each call, which policy admitted it and how often it was audited (`CallInv`).
- `SkillInv`. Nothing runs beside the recovery at a start, and a mutation that runs holds the lock of the package
  (`LockInv`); so the revision a mutation has checked is still the stored one when it replaces it (`ExpectInv`). Both need
  that no caller was dropped, as the code frees the lock of a mutation that goes on (section 5); that is the hypothesis
  of `RevisionsAreRespected`, which the property states too.

- `AsideInv`. What updates have set aside, directory by directory. One directory at most holds a `previous` (`OneAside`), because a
  change begins with the others removed and only an update adds one (`Begun`); while the package is absent, that content is
  the committed one, its directory has the record by which a start finds it, and its update runs, was stopped or could not
  be undone (`AsideKept`); and who recovers has put it back before it removes the directory (`Passed`). `SkillSurvives` is
  this at a moment when nothing runs.

The proof of `AsideInv` corrected the property. `recover_transactions` goes on when the removal of a directory fails, and it takes
the directories in the order in which the file system lists them. When one of them keeps its `previous`, the next update may leave a
second, and a later recovery may restore the older of the two, or bring back a package that was deleted since. Earlier this was
excluded by the bounds of the run alone; now the variable `overlooked` records those directories when a change begins, `SkillSurvives` has
the hypothesis that there are none, and it holds for any number of changes and faults. In return it also says that a
deleted package stays absent.

### Stores, transfers, the start

`ComputerProofs` and `StoresProofs` are about the specification that `client_stores` runs, for any values, Computers, requests, servers,
writers, notices, plugins and any numbers of editions, imports, migrations, edits and starts. Assumption: `StoresAssumption`,
which is those of the nine modules; the only ones that say more than that a model value is no other are that
bounds are numbers (a `ConfigStore` has at least one edition, `Settings` at least one tick) and that the notices, the
legacy Computers, the plugins and the Computers of `AppStart` are finite sets.

| Theorem | Statement |
|---|---|
| `StoresTyped` | `Spec => []StoresTypeOK` |
| `InputsAreSafe` | `Spec => []InputsHold` |
| `ComputersAreSound` | `Spec => []ComputersHold` |
| `ConfigurationsAreWhole` | `Spec => []ConfigurationsHold` |
| `TransfersAreWhole` | `Spec => []TransfersHold` |
| `ClientFilesAreSound` | `Spec => []ClientFilesHold` |

Each component has an invariant of its own, proved by one lemma per action: the first four in `ComputerProofs`, the others in
`StoresProofs`, where `StoresInv` says that the one that moves satisfies its own. What they say:

- `InputInv` (`InputStore`). For each step of an upsert, a delete or an adoption, which of the two stores may differ from
  what the operation read, and by what: the value it writes, or nothing (`IsAsBefore`). An undo may therefore be cut short
  anywhere, because what it has not put back is in the other store or was never touched.
- `StorageInv` (`ComputerStorage`). A command that changes or deletes a Computer holds its lease; while it does, it alone knows
  how profile, publication, storage and inputs differ, and has what is needed to put them back (`HolderKept`). A Computer in
  creation is known to one command and named by no other (`CreatorKept`), and a duplicate's source is either published or
  gone for good (`CopierKept`). Everything else is whole (`ComputerWhole`). That a duplicate made during a departure does not
  inherit authority rests on three facts: its source is read under the source's lease, the tombstone is there until every
  Computer was visited (`ContextKept`), and a Computer the cleanup has passed has no authority in what is published *and* in
  what is saved (`ComputerRests`); the latter is what a restored profile could otherwise bring back. Most actions go through
  one frame lemma, `CommandStep`: a step that touches one Computer and one command keeps the invariant of all others.
- `ConfigInv` (`ConfigStore`). `Recoverable` says what the next recovery would make of the directory and its journal, at any
  moment; `AccessKept` what an access knows at each of its steps, the recovery it starts with included.
- `SdkInv` (`SdkConfig`). A swap that is marked and not committed can be undone to one pair of documents, `Restorable`: what was
  moved away is that pair's, and what was not there before is not in it. `RecoveryKept` and `CommitKept` follow a recovery
  and a commit through the two scopes, and show that a stop during the recovery leaves the same pair within reach.
- `ImportInv` (`ConfigImport`). Where an import or a replay is decides which of the two stores has which edition, and a replay
  that is not finished has a pending journal (`ImportPlaces`, `ImportHolds`).
- `PortableInv` (`PortablePackage`). No edit begins while a package is read, so what was read is of the Computer's present edit
  (`PortableReads`), and so is the package (`PortableWritten`); `PortableCreates` follows an import through its groups.
- `SettingsInv` (`Settings`). Who has read a file to write it holds its lock, and the file is still as it was read
  (`WriterKept`); a claimed check is no later than the file says (`ChecksKept`).
- `MigrationInv` (`ConfigMigration`). At each step of a run, which destination may differ from what the plan found: those
  tried and not yet undone (`PlanKept`); the marker is written only over whole destinations (`MarkerKept`); and a
  profile nobody can read is left by a rollback that was cut short and by nothing else (`ConflictsKept`).
- `StartInv` (`AppStart`). How far a start has come says what is done on disk (`StartDone`) and who was found (`StartFound`).

Two places of the model were changed because of a proof. `ComputerStorage`: with three Computers a new one
could take the id of a deleted source that a running duplicate still named, and `DepartedIsDormant` would have failed; the code
draws a new UUID, so `Fresh` now excludes every id a command names. `Settings`: the cases of `Loaded` and `LoadedUnchecked`
overlapped, and only the order in which TLC tries them gave them their meaning; they are disjoint now.

### What stays model-checked

`CommandsReturn` and its variants, `MutatorsReturn` and `PromptsEnd` are liveness under fairness, which the prover does not
reach. Every safety invariant that a passing run checks, the action property `SessionReplacesUntilReload` and the refinement of `ConnectionAuthority` are theorems.
Nothing is proved by induction over data, and no model has a recursive operator.

## 5. Findings

Two runs are expected to end in a violation. Each checks a sentence of the repository:

- `disconnect_token_guard`: `docs/test-architecture/TFRC-70-regression-matrix.md:85` says connect and
  disconnect are a token-guarded two-phase transaction. `close_smcp_transport` does not check the
  token, so a disconnect that waited for the lifecycle lock while a restart superseded it and a new
  connect succeeded tears that new connection down.
- `deleted_returns`: `input_entry_store.rs:178` says "`legacy_preference` is consulted only when upgrading
  pre-InputEntry storage that has no authoritative metadata yet". The application stops while an input moves from plain
  to secret storage (or back), which leaves a value in the store it did not end in; the user deletes the input, and with
  it the entry that said which store counts. The next start takes the leftover for a value from before entries existed,
  adopts it (`resolve_entry_state`, line 225), and the deleted value is back.

One guard is redundant in the model: dropping the handle generation from `TokenCurrent` violates nothing,
because the epoch of the operation already differs whenever the handle was replaced.

### Other disagreements

Some modules also keep, as definitions, sentences of the repository that their model does not satisfy. No run of the
project checks them; adding the definition to the INVARIANTs (or PROPERTIES) of the component's configuration shows
the behaviour.

| Module | Definition | The sentence | What the code does instead |
|---|---|---|---|
| `SmcpConnection` | `ManualStateUntouched` | `services/computer/connection.rs:508` "Manual SMCP state is never touched." | a Manager connect begun over a manual connection whose transport the SDK gave up on makes the cleanup close the manual socket |
| `RuntimeInput` | `NewSessionReplaces` | `runtimeInputBridge.ts:109` "a later session's new lease replaces any stale native bridge authority" | lease ids count in the page's memory; after a reload the first session has the id native code still holds, and `set_ready` drops nothing |
| `RuntimeInput` | `SerializedUntilAcknowledged` | test `runtime_input_bridge.rs:472` `serializes_requests_until_the_prior_resolver_acknowledges` | the queue is released when `request` returns; the resolver stores and acknowledges later |
| `RuntimeInput` | `FailureNoticeIsTrue` | `translation.json:1008` "ended before it could be completed" | `handleSubmit` resets `submittingRef` after its request was removed; closing the next one's modal can report a request as ended whose value was stored |
| `McpServers` | `RemovedIsGone` | `commands/sdk_config.rs:575` "Removes a user MCP server from runtime and persistent configuration." | while a plugin depends on the user's server only the declaration is removed; disabling the plugin then leaves the user's mount, which nobody tracks (`marketplace.rs:1490`) |
| `Marketplace` | `RebuiltHasMarketplace` | `marketplace.rs:337` "has installed plugins; uninstall plugins before removing the marketplace" | the rebuilding of a package installs without the lease, so a plugin may come in between the look at the plugins (or the verification of an addition) and the removal, which keeps it |
| `AppStart` | `EveryRuntimeIsSettled` | `lib.rs:264` "every runtime is hydrated from the recovered storage state rather than the pre-recovery discovery copy" | a profile that only the second discovery can read gets a runtime although its import and its OAuth fields were not seen to |
| `RuntimeEvents` | `ShowsOAuth` | `runtimeStore.ts:273` "A lag marker is therefore the event-driven signal to rehydrate MCP rows" | a status that changes between the replacement of a handle and the relay's subscription to the new one reaches nobody, and no lag marker follows |
| `ConfigStore` | `InterruptedSwapRecovers` | test `config.rs:2427` `discovery_recovers_interrupted_directory_swap_without_partial_profile` | an addition that cannot publish and stops while it removes its staging leaves a ready marker with half of the `new` directory, which recovery refuses (`config.rs:949`) |
| `SdkConfig` | `RecoveryFindsPrevious` | test `sdk_config.rs:2562` `raw_restore_recovery_restores_previous_directory_after_interrupted_swap` | a recovery (or rollback) that moved `previous` back and stops before it removes the journal finds no `previous` next time, and refuses; at a start the application does not come up (`lib.rs:201`) |
| `ConfigImport` | `ReplayOverwritesNothing` | `config_io.rs:368` "the pending journal remains safe to replay" | what the user saves after the import is overwritten when the next start replays it |
| `ConfigMigration` | `RestartIsPossible` | test `config_migration.rs:758` `sdk_restore_failure_is_reported_and_keeps_legacy_source_for_recovery` | a rollback that is stopped while it removes what it created leaves half a profile, which every later start reports as a conflict |
| `PortablePackage` | `NoManagerStateTravels` | `portable_config.rs:93` "`robot_binding` (Manager account state) is intentionally excluded" | the connection policy travels whole (`:114`), a Manager target with its account included |
| `SkillPackages` | `SkillSurvives` | test `package.rs:1238` `rollback_failure_retains_previous_package_for_startup_recovery` | holds as long as no caller is dropped and no change begins beside a `previous` that could not be removed (section 4); a dropped caller frees the lock of a mutation that still runs (`:142`), and the next mutation's recovery removes its directory |

Smaller ones, which no definition states: a start that fails on a handle which was replaced meanwhile may record its
diagnostic on the new one (`computer.rs:2229`); concurrent `update_settings` may leave the journal's level and retention
of the earlier one (`commands/settings.rs:118`); `SettingsService::load` answers a read error with the defaults; one
unreadable profile strips its id from the custom scopes of other Computers' targets (`config.rs:632`); a skill that recovery brings back inside a refused change is not
marked dirty; a remote call that is dropped while it is authorized leaves no audit record.

## 6. Plan

Done: every module of section 2, with its runs and mutants; theorems for every safety invariant of the passing runs, and the
refinement of `ConnectionAuthority`. What is left, in order of importance:

| # | What | Where | Why |
|---|---|---|---|
| 1 | `PromptPromise`: an abstract prompt and the refinement; a prompt under the shared operation lease | `RuntimeInput` with `RuntimeRetirement` | the one hazard that no property covers |
| 2 | every token exchange ends | `TokenBridge` | liveness under the fairness of timers |

## 7. Not modelled

- The table from environments to URLs and the parsing of URLs, headers and documents: conversions without state.
- React components, tray, window and menu wiring, translations: they render what the stores hold.
- Observability apart from runs, retention and outages: queries, redaction and the shape of records. The activity records
  and log lines written along every command are left out of the commands' modules; no command reads them.
- Declarations of built-in tools, discovery of the shell environment, the single remote tools of Client Control (they
  call the commands modelled here).
- The `*_for_generation` reconnect family of `connection.rs`, which only tests call.
- The cache of OAuth scopes, and the inside of the SDK: `cancel` of a flow is taken to end it.
- The proxying of `chat_http_request`; its use of the credential and its interruption by a departing context are in
  `ChatSession`.
- Listings and health views of Marketplaces, plugins and skills.
- Migration backups inside a Computer's directory, lost at the next swap of the directory.
