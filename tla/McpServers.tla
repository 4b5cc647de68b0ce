----------------------------- MODULE McpServers -----------------------------
(***************************************************************************)
(* One MCP bundle of one Computer, declared by the user and bundled by      *)
(* Marketplace plugins: commands/mcp.rs, commands/sdk_config.rs,            *)
(* commands/marketplace.rs and the server part of services/computer.rs.     *)
(* Commands that change declarations hold the exclusive operation lease and *)
(* are taken step by step; a prepared start gives the lease up and runs     *)
(* under the bundle's start lease only; stopping shares the lease.  The     *)
(* SDK (declarations of a handle, processes, the plugin ledger) is external.*)
(***************************************************************************)
EXTENDS Naturals, FiniteSets

CONSTANTS Plugins, NoPlugin

\* What the module assumes of its constants.
McpServersAssumption == NoPlugin \notin Plugins

VARIABLES
    declared,      \* the user's persisted declaration
    mounted,       \* the handle's declaration: the user's, disabled, a plugin's
    serving,       \* the server's process is running
    tracked,       \* plugin_mounted_server_ids has the bundle
    enabled,       \* the SDK's ledger of enabled plugins
    claims,        \* plugins the handle counts as owners
    startFailed,   \* mcp_start_diagnostics has the bundle
    handlePhase,   \* dormant, running, down
    mcpOp,         \* the operation under the exclusive lease
    pendingStart,  \* a start that runs outside the operation lease
    stopping       \* a stop between the SDK's answer and its own cleanup

mcpHandle == <<mounted, serving, tracked, claims, startFailed>>
mcpVars == <<declared, mounted, serving, tracked, enabled, claims, startFailed, handlePhase,
             mcpOp, pendingStart, stopping>>

NoMcpOp == [name |-> "none", step |-> "none", plugin |-> NoPlugin, independent |-> FALSE,
            kept |-> FALSE, mine |-> FALSE, deferred |-> FALSE]
Declarations == {"none", "enabled", "disabled"}
AsMounted(declaration) == CASE declaration = "enabled" -> "user"
                            [] declaration = "disabled" -> "disabled"
                            [] OTHER -> "none"

McpInit ==
    /\ declared \in Declarations
    /\ mounted = AsMounted(declared)
    /\ enabled \in SUBSET Plugins
    /\ handlePhase = "dormant"
    /\ serving = FALSE /\ tracked = FALSE /\ claims = {} /\ startFailed = FALSE
    /\ mcpOp = NoMcpOp /\ pendingStart = "none" /\ stopping = FALSE

-----------------------------------------------------------------------------
\* Locks.  A prepared start holds the start lease from the SDK call to the record
\* of its result; removal holds it too.  A start after an authorization holds the
\* lifecycle lock as well.

McpIdle == mcpOp = NoMcpOp
ExclusiveFree == McpIdle /\ ~stopping
LifecycleFree == pendingStart # "authorized"
LeaseFree == pendingStart \in {"none", "prepared"} /\ ~(mcpOp.name = "remove" /\ mcpOp.step = "clear")
Owned == claims # {} /\ mounted # "none"
Protected == Owned \/ tracked

McpAt(name, step) == mcpOp.name = name /\ mcpOp.step = step
McpGoTo(step) == mcpOp' = [mcpOp EXCEPT !.step = step]
EndMcpOp ==
    /\ mcpOp.step \in {"done", "failed"}
    /\ mcpOp' = NoMcpOp
    /\ UNCHANGED <<declared, mcpHandle, enabled, handlePhase, pendingStart, stopping>>

-----------------------------------------------------------------------------
\* Starting what the handle has mounted.  The result is recorded afterwards, and a
\* failure only for a bundle that is still mounted: a deletion may have come first.

Startable == handlePhase = "running" /\ mounted \in {"user", "plugin"}
StartResults == (IF Startable THEN {"ok", "authorize"} ELSE {}) \cup {"refused"}

\* Mutant: the diagnostic is recorded for whatever bundle was started.
RecordAlways(result) == startFailed' = (result = "refused")

RecordStart(result) ==
    startFailed' = IF result = "refused" THEN startFailed \/ mounted # "none" ELSE FALSE

\* The latest declaration is mounted under the lease, which is given up before the
\* server starts; a required input without a definition ends it here.
Candidate == declared = "enabled" /\ ~Protected
MountLatest ==
    /\ Candidate /\ LifecycleFree
    /\ mounted' = "user"
    /\ \/ pendingStart' = "prepared" /\ UNCHANGED startFailed
       \/ startFailed' = TRUE /\ UNCHANGED pendingStart
    /\ UNCHANGED <<declared, serving, tracked, enabled, claims, handlePhase, mcpOp, stopping>>

PrepareStart ==
    /\ ExclusiveFree /\ pendingStart = "none" /\ handlePhase = "running"
    /\ MountLatest

\* start_all_servers leaves out what runs already.
PrepareStartAll ==
    /\ ExclusiveFree /\ pendingStart = "none" /\ handlePhase = "running"
    /\ ~serving /\ MountLatest

ExecuteStart ==
    /\ pendingStart = "prepared" /\ LeaseFree
    /\ \E result \in StartResults :
         /\ pendingStart' = result
         /\ serving' = (serving \/ result = "ok")
    /\ UNCHANGED <<declared, mounted, tracked, enabled, claims, startFailed, handlePhase, mcpOp,
                   stopping>>

\* The OAuth flow starts the server it authorized, whoever mounted it.
StartAuthorized ==
    /\ pendingStart = "none" /\ LeaseFree /\ Startable
    /\ pendingStart' = "authorized"
    /\ UNCHANGED <<declared, mcpHandle, enabled, handlePhase, mcpOp, stopping>>

ObserveStart ==
    /\ pendingStart \in {"ok", "authorize", "refused", "authorized"}
    /\ \E result \in IF pendingStart = "authorized" THEN StartResults ELSE {pendingStart} :
         /\ RecordStart(result)
         /\ serving' = (serving \/ (pendingStart = "authorized" /\ result = "ok"))
    /\ pendingStart' = "none"
    /\ UNCHANGED <<declared, mounted, tracked, enabled, claims, handlePhase, mcpOp, stopping>>

StopServer ==
    /\ McpIdle /\ ~stopping /\ handlePhase = "running" /\ mounted # "none" /\ ~Owned
    /\ serving' = FALSE /\ stopping' = TRUE
    /\ UNCHANGED <<declared, mounted, tracked, enabled, claims, startFailed, handlePhase, mcpOp,
                   pendingStart>>

StopCleanup ==
    /\ stopping /\ stopping' = FALSE /\ startFailed' = FALSE
    /\ UNCHANGED <<declared, mounted, serving, tracked, enabled, claims, handlePhase, mcpOp,
                   pendingStart>>

-----------------------------------------------------------------------------
\* Declarations.  An edit or an import is persisted only; the runtime takes it up at
\* the next start.

EditDeclaration(declaration) ==
    /\ ExclusiveFree /\ declaration # "none" /\ declaration # declared
    /\ declared' = declaration
    /\ UNCHANGED <<mcpHandle, enabled, handlePhase, mcpOp, pendingStart, stopping>>

\* Deletion: by name a declaration a plugin overrides goes from the file only; by
\* bundle it is refused.
BeginRemove(named) ==
    /\ ExclusiveFree
    /\ declared # "none" \/ mounted # "none"
    /\ Protected => named /\ declared # "none"
    /\ mcpOp' = [NoMcpOp EXCEPT !.name = "remove",
                                !.step = IF Protected THEN "persist" ELSE "unmount"]
    /\ UNCHANGED <<declared, mcpHandle, enabled, handlePhase, pendingStart, stopping>>

\* A handle that was shut down is rebuilt first, from the declarations.
RemoveUnmount ==
    /\ McpAt("remove", "unmount") /\ LifecycleFree /\ LeaseFree
    /\ \/ /\ mounted' = "none" /\ serving' = FALSE
          /\ handlePhase' = IF handlePhase = "down" THEN "dormant" ELSE handlePhase
          /\ McpGoTo("clear")
       \/ UNCHANGED <<mounted, serving, handlePhase>> /\ McpGoTo("failed")
    /\ UNCHANGED <<declared, tracked, enabled, claims, startFailed, pendingStart, stopping>>

RemoveClear ==
    /\ McpAt("remove", "clear")
    /\ startFailed' = FALSE /\ McpGoTo("persist")
    /\ UNCHANGED <<declared, mounted, serving, tracked, enabled, claims, handlePhase, pendingStart,
                   stopping>>

\* The file is written last: a failure leaves the declaration for a retry.
RemovePersist ==
    /\ McpAt("remove", "persist")
    /\ \/ declared' = "none" /\ McpGoTo("done")
       \/ UNCHANGED declared /\ McpGoTo("failed")
    /\ UNCHANGED <<mcpHandle, enabled, handlePhase, pendingStart, stopping>>

-----------------------------------------------------------------------------
\* The SDK handle's part of a plugin operation.

MountPlugin ==
    /\ handlePhase # "down"
    /\ mounted' = "plugin" /\ tracked' = TRUE /\ startFailed' = FALSE
    /\ UNCHANGED serving

\* Mutant: ownership is given up before the SDK confirms.
UnmountUntracked(next, undo) ==
    /\ LifecycleFree
    /\ tracked' = FALSE
    /\ \/ mounted' = "none" /\ serving' = FALSE /\ startFailed' = FALSE /\ McpGoTo(next)
       \/ UNCHANGED <<mounted, serving, startFailed>> /\ McpGoTo(undo)

\* remove_plugin_server: tracked until the SDK has unmounted it.
UnmountPlugin(next, undo) ==
    /\ LifecycleFree
    /\ \/ mounted' = "none" /\ serving' = FALSE /\ tracked' = FALSE /\ startFailed' = FALSE
          /\ McpGoTo(next)
       \/ UNCHANGED <<mounted, serving, tracked, startFailed>> /\ McpGoTo(undo)

BeginPlugin(name, step, plugin) ==
    /\ ExclusiveFree
    /\ mcpOp' = [NoMcpOp EXCEPT !.name = name, !.step = step, !.plugin = plugin,
                                !.independent = declared # "none"]
    /\ UNCHANGED <<declared, mcpHandle, handlePhase, pendingStart, stopping>>

\* register_server: an enabled declaration of the user, or a bundle that is there
\* already, is kept; a disabled one is covered by the plugin's.
EnablePlugin(plugin) ==
    /\ plugin \notin enabled /\ enabled' = enabled \cup {plugin}
    /\ BeginPlugin("enable", "register", plugin)

RegisterServer ==
    /\ McpAt("enable", "register")
    /\ IF declared = "enabled" \/ (declared = "none" /\ mounted # "none")
       THEN /\ mcpOp' = [mcpOp EXCEPT !.step = "commit", !.kept = TRUE]
            /\ claims' = claims \cup {mcpOp.plugin}
            /\ UNCHANGED <<mounted, serving, tracked, startFailed>>
       ELSE /\ LifecycleFree
            /\ \/ MountPlugin /\ claims' = claims \cup {mcpOp.plugin}
                  /\ mcpOp' = [mcpOp EXCEPT !.step = "commit", !.mine = TRUE]
               \/ UNCHANGED mcpHandle /\ McpGoTo("rollback")
    /\ UNCHANGED <<declared, enabled, handlePhase, pendingStart, stopping>>

\* Another server of the plugin may fail to register.
CommitEnable ==
    /\ McpAt("enable", "commit")
    /\ McpGoTo("start") \/ McpGoTo("rollback")
    /\ UNCHANGED <<declared, mcpHandle, enabled, handlePhase, pendingStart, stopping>>

\* remove_server of the hooks: what the user declares is restored after the SDK has
\* given the bundle up; what this operation did not mount stays.
Defer == mcpOp.kept \/ mcpOp.independent
Unhook(next, undo) ==
    \/ /\ Defer
       /\ mcpOp' = [mcpOp EXCEPT !.step = next, !.deferred = TRUE]
       /\ UNCHANGED <<mounted, serving, tracked, startFailed>>
    \/ /\ ~Defer /\ ((mcpOp.name = "enable" /\ ~mcpOp.mine) \/ ~tracked)
       /\ McpGoTo(next)
       /\ UNCHANGED <<mounted, serving, tracked, startFailed>>
    \/ /\ ~Defer /\ (mcpOp.name = "enable" => mcpOp.mine) /\ tracked
       /\ UnmountPlugin(next, undo)

ReleaseClaim == enabled' = enabled \ {mcpOp.plugin} /\ claims' = claims \ {mcpOp.plugin}

RollBackEnable ==
    /\ McpAt("enable", "rollback")
    /\ Unhook("restore", "restore") /\ ReleaseClaim
    /\ UNCHANGED <<declared, handlePhase, pendingStart, stopping>>

\* disable_plugin, uninstall_plugin: the last enabled plugin gives the bundle up,
\* another one takes it over.
ReleasePlugin(plugin) ==
    /\ BeginPlugin("release", IF plugin \in enabled THEN "unregister" ELSE "restore", plugin)
    /\ UNCHANGED enabled

UnregisterServer ==
    /\ McpAt("release", "unregister")
    /\ IF enabled # {mcpOp.plugin}
       THEN McpGoTo("restore") /\ UNCHANGED <<mounted, serving, tracked, startFailed>>
       ELSE Unhook("restore", "failed")
    /\ IF mcpOp'.step = "failed" THEN UNCHANGED <<enabled, claims>> ELSE ReleaseClaim
    /\ UNCHANGED <<declared, handlePhase, pendingStart, stopping>>

\* restore_deferred_servers_after_plugin_release: the user's configuration is applied
\* again, and started if the Computer runs; without one the plugin's is unmounted.
RestoreUser ==
    /\ declared # "none" /\ LifecycleFree /\ LeaseFree
    /\ \/ /\ mounted' = AsMounted(declared) /\ tracked' = FALSE
          /\ IF declared = "enabled" /\ handlePhase = "running"
             THEN serving' \in BOOLEAN /\ startFailed' = ~serving'
             ELSE serving' = FALSE /\ startFailed' = FALSE
          /\ McpGoTo("reclaim")
       \/ /\ serving' \in {serving, FALSE} /\ McpGoTo("failed")
          /\ UNCHANGED <<mounted, tracked, startFailed>>

Restorable == (mcpOp.deferred \/ (tracked /\ mcpOp.independent)) /\ ~Owned
RestoreDeferred ==
    /\ mcpOp.step = "restore"
    /\ \/ Restorable /\ RestoreUser
       \/ Restorable /\ declared = "none" /\ tracked /\ UnmountPlugin("reclaim", "failed")
       \/ /\ Restorable => declared = "none" /\ ~tracked
          /\ McpGoTo("reclaim") /\ UNCHANGED <<mounted, serving, tracked, startFailed>>
    /\ UNCHANGED <<declared, enabled, claims, handlePhase, pendingStart, stopping>>

\* reclaim_unowned_plugin_servers
Reclaim ==
    /\ mcpOp.step = "reclaim"
    /\ LET next == IF mcpOp.name = "enable" THEN "failed" ELSE "done"
       IN  IF tracked /\ ~mcpOp.independent /\ ~Owned THEN UnmountPlugin(next, "failed")
           ELSE McpGoTo(next) /\ UNCHANGED <<mounted, serving, tracked, startFailed>>
    /\ UNCHANGED <<declared, enabled, claims, handlePhase, pendingStart, stopping>>

-----------------------------------------------------------------------------
\* A batch of starts under the lifecycle lock: after enabling, and for the desired
\* servers of a Computer that starts.

StartBatch ==
    /\ mcpOp.step = "start" /\ LifecycleFree
    /\ IF Startable /\ ~serving
       THEN \E result \in StartResults : serving' = (result = "ok") /\ McpGoTo(result)
       ELSE McpGoTo("done") /\ UNCHANGED serving
    /\ UNCHANGED <<declared, mounted, tracked, enabled, claims, startFailed, handlePhase,
                   pendingStart, stopping>>

ObserveBatch ==
    /\ mcpOp.step \in {"ok", "authorize", "refused"}
    /\ RecordStart(mcpOp.step) /\ McpGoTo("done")
    /\ UNCHANGED <<declared, mounted, serving, tracked, enabled, claims, handlePhase, pendingStart,
                   stopping>>

\* start_computer: a fresh handle unless the Computer runs, then the SDK's recovery of
\* the enabled plugins, then the desired servers.
BeginBoot ==
    /\ ExclusiveFree /\ LifecycleFree
    /\ mcpOp' = [NoMcpOp EXCEPT !.name = "boot", !.step = "reconcile"]
    /\ handlePhase' = "running"
    /\ IF handlePhase = "running" THEN UNCHANGED mcpHandle
       ELSE /\ mounted' = AsMounted(declared)
            /\ serving' = FALSE /\ tracked' = FALSE /\ claims' = {} /\ startFailed' = FALSE
    /\ UNCHANGED <<declared, enabled, pendingStart, stopping>>

\* The runtime's own hooks keep a bundle that is there and not disabled by the user.
Recover ==
    \/ /\ mounted # "none" /\ declared # "disabled"
       /\ claims' = enabled /\ tracked' = TRUE /\ startFailed' = FALSE
       /\ UNCHANGED <<mounted, serving>>
    \/ /\ mounted = "none" \/ declared = "disabled"
       /\ \/ MountPlugin /\ claims' = enabled
          \/ UNCHANGED mcpHandle

Reconcile ==
    /\ McpAt("boot", "reconcile") /\ McpGoTo("start")
    /\ \/ enabled # {} /\ Recover
       \/ enabled = {} /\ UNCHANGED mcpHandle
    /\ UNCHANGED <<declared, enabled, handlePhase, pendingStart, stopping>>

StopComputer ==
    /\ ExclusiveFree /\ LifecycleFree /\ handlePhase = "running"
    /\ handlePhase' = "down" /\ serving' = FALSE
    /\ UNCHANGED <<declared, mounted, tracked, enabled, claims, startFailed, mcpOp, pendingStart,
                   stopping>>

McpNext ==
    \/ EndMcpOp
    \/ PrepareStart \/ PrepareStartAll \/ ExecuteStart \/ StartAuthorized \/ ObserveStart
    \/ StopServer \/ StopCleanup
    \/ \E declaration \in Declarations : EditDeclaration(declaration)
    \/ \E named \in BOOLEAN : BeginRemove(named)
    \/ RemoveUnmount \/ RemoveClear \/ RemovePersist
    \/ \E plugin \in Plugins : EnablePlugin(plugin) \/ ReleasePlugin(plugin)
    \/ RegisterServer \/ CommitEnable \/ RollBackEnable \/ UnregisterServer
    \/ RestoreDeferred \/ Reclaim \/ StartBatch \/ ObserveBatch
    \/ BeginBoot \/ Reconcile \/ StopComputer

McpSpec == McpInit /\ [][McpNext]_mcpVars

-----------------------------------------------------------------------------
McpTypeOK ==
    /\ declared \in Declarations /\ mounted \in {"none", "user", "disabled", "plugin"}
    /\ serving \in BOOLEAN /\ tracked \in BOOLEAN /\ startFailed \in BOOLEAN /\ stopping \in BOOLEAN
    /\ enabled \subseteq Plugins /\ claims \subseteq Plugins
    /\ handlePhase \in {"dormant", "running", "down"}
    /\ pendingStart \in {"none", "prepared", "ok", "authorize", "refused", "authorized"}
    /\ mcpOp.name \in {"none", "remove", "enable", "release", "boot"}

\* A start that failed is reported for a server that is still there: a deletion that
\* came before the result leaves no diagnostic behind.
DiagnosticHasServer ==
    startFailed /\ mounted = "none" => McpAt("remove", "clear") \/ stopping

\* A plugin's configuration in the handle can always be reclaimed: it is tracked until
\* the SDK has unmounted it, a failed attempt included.
PluginMountIsTracked == mounted = "plugin" => tracked

\* A completed release of the last plugin leaves the user's own configuration, or none.
ReleaseRestores ==
    mcpOp.name = "release" /\ mcpOp.step = "done" /\ claims = {} /\ enabled = {} =>
        /\ ~tracked /\ mounted # "plugin"
        /\ declared = "enabled" /\ mcpOp.deferred => mounted = "user"

McpServersHold == DiagnosticHasServer /\ PluginMountIsTracked /\ ReleaseRestores

\* Removing a user's server removes it from the runtime and from the configuration.
RemovedIsGone ==
    McpIdle /\ declared = "none" /\ enabled = {} /\ ~tracked => mounted = "none"
=============================================================================
