----------------------------- MODULE Marketplace -----------------------------
(***************************************************************************)
(* One Marketplace of one Computer, the plugins installed from it, and the *)
(* OAuth sign-in of the MCP server they bundle: commands/marketplace.rs,   *)
(* with the removal of the user's own declaration of that server           *)
(* (commands/sdk_config.rs) and the rebuilding of a package's plugins      *)
(* (commands/portable_config.rs).  Every command holds the Computer's      *)
(* exclusive operation lease; an authorization and a rebuild do not.       *)
(* McpServers has the hooks and the starts in detail, OAuthFlow the flow.  *)
(*                                                                         *)
(* The SDK's ledger is external: its add refuses a name it knows, its      *)
(* install a Marketplace it does not know, and any call may fail.          *)
(***************************************************************************)
EXTENDS FiniteSets

CONSTANT Plugins

VARIABLES
    catalog,       \* the Marketplace in the SDK's snapshot: absent, healthy, degraded
    installed,     \* plugins the ledger has, all bundling the server
    active,        \* those that are enabled
    onHandle,      \* whose configuration of the server the handle has: none, user, plugin
    userServer,    \* the user declares the server too
    signIn,        \* the keychain holds the server's credential
    authorizing,   \* an OAuth flow of the server is in progress
    admissionHeld, \* a command blocks new flows
    marketOp,      \* the command under the operation lease
    rebuilding,    \* a package is being rebuilt in this new Computer
    crossed,       \* ghost: the rebuild installed a plugin during a command
    leftBehind     \* ghost: the handle kept the server when its last owner went

marketVars == <<catalog, installed, active, onHandle, userServer, signIn, authorizing,
                admissionHeld, marketOp, rebuilding, crossed, leftBehind>>
ledger == <<catalog, installed, active>>
server == <<onHandle, userServer>>
authorization == <<signIn, authorizing, admissionHeld>>
ghosts == <<rebuilding, crossed, leftBehind>>

Idle == [name |-> "none", step |-> "none", plugins |-> {}]
Begin(name, step, plugins) ==
    marketOp = Idle /\ marketOp' = [name |-> name, step |-> step, plugins |-> plugins]
At(name, step) == marketOp.name = name /\ marketOp.step = step
To(step) == marketOp' = [marketOp EXCEPT !.step = step]
\* The admission guard is dropped with the command.
End == marketOp' = Idle /\ admissionHeld' = FALSE

MarketInit ==
    /\ catalog = "absent" /\ installed = {} /\ active = {}
    /\ userServer \in BOOLEAN /\ onHandle = "none"
    /\ signIn = FALSE /\ authorizing = FALSE /\ admissionHeld = FALSE
    /\ marketOp = Idle /\ rebuilding \in BOOLEAN
    /\ crossed = FALSE /\ leftBehind = FALSE

-----------------------------------------------------------------------------
(* The Marketplace *)

\* add_marketplace_core: the source has been resolved.
AddMarketplace ==
    /\ catalog = "absent"
    /\ catalog' \in {"healthy", "degraded"} /\ Begin("add", "verify", {})
    /\ UNCHANGED <<installed, active, server, authorization, ghosts>>

\* ensure_marketplace_healthy: a snapshot that cannot be had is as bad as a degraded one.
VerifyAdded ==
    /\ At("add", "verify")
    /\ \/ catalog = "healthy" /\ End
       \/ To("cleanUp") /\ UNCHANGED admissionHeld
    /\ UNCHANGED <<ledger, server, signIn, authorizing, ghosts>>

\* What was rejected is removed again; a failure to do so is part of the error.
CleanUpRejected ==
    /\ At("add", "cleanUp")
    /\ catalog' \in {"absent", catalog} /\ End
    /\ UNCHANGED <<installed, active, server, signIn, authorizing, ghosts>>

\* A refresh reports the new state and undoes nothing.
RefreshMarketplace ==
    /\ marketOp = Idle /\ catalog # "absent"
    /\ catalog' \in {"healthy", "degraded"} \ {catalog}
    /\ UNCHANGED <<installed, active, server, authorization, marketOp, ghosts>>

\* remove_marketplace_core refuses while plugins are installed, and tells the SDK to keep
\* those there are: there are none.
\* Mutant: the installed plugins are not looked at.
RemoveUnasked ==
    /\ catalog # "absent"
    /\ Begin("remove", "remove", {})
    /\ UNCHANGED <<ledger, server, authorization, ghosts>>
BeginRemoveMarketplace ==
    /\ catalog # "absent" /\ installed = {}
    /\ Begin("remove", "remove", {})
    /\ UNCHANGED <<ledger, server, authorization, ghosts>>

RemoveMarketplace ==
    /\ At("remove", "remove")
    /\ catalog' \in {"absent", catalog} /\ End
    /\ UNCHANGED <<installed, active, server, signIn, authorizing, ghosts>>

-----------------------------------------------------------------------------
(* Plugins *)

InstallPlugin(p) ==
    /\ marketOp = Idle /\ catalog # "absent" /\ p \notin installed
    /\ installed' = installed \cup {p}
    /\ UNCHANGED <<catalog, active, server, authorization, marketOp, ghosts>>

\* The plugin's configuration covers the one of a user who disabled it.
EnablePlugin(p) ==
    /\ marketOp = Idle /\ p \in installed \ active
    /\ active' = active \cup {p}
    /\ onHandle' \in IF onHandle = "none" THEN {"plugin"} ELSE {onHandle, "plugin"}
    /\ UNCHANGED <<catalog, installed, userServer, authorization, marketOp, ghosts>>

\* restore_deferred_servers_after_plugin_release, reclaim_unowned_plugin_servers: the last
\* plugin leaves the server to the user, or takes it away with the flow; either may fail.
\* A configuration of the user that was kept stays.
Unmounted == onHandle' = "none" /\ authorizing' = FALSE
Released ==
    \/ /\ active' # {} \/ onHandle # "plugin"
       /\ UNCHANGED <<onHandle, authorizing>>
    \/ /\ active' = {} /\ onHandle = "plugin"
       /\ \/ userServer /\ onHandle' = "user" /\ UNCHANGED authorizing
          \/ ~userServer /\ Unmounted
          \/ UNCHANGED <<onHandle, authorizing>>

\* The last owner goes and the handle keeps the server.
Kept ==
    leftBehind' = (leftBehind \/ (installed' = {} /\ ~userServer' /\ onHandle' # "none"))

DisablePlugin(p) ==
    /\ marketOp = Idle /\ p \in active
    /\ active' = active \ {p} /\ Released
    /\ UNCHANGED <<catalog, installed, userServer, signIn, admissionHeld, marketOp, ghosts>>

\* oauth_cleanup_configs: the sign-in goes with the plugin if neither the user nor another
\* installed plugin has the server.
BeginUninstall(p) ==
    LET last == p \in installed /\ ~userServer /\ installed = {p} IN
    /\ p \in installed
    /\ Begin("uninstall", IF last THEN "cancel" ELSE "uninstall", {p})
    /\ admissionHeld' = last
    /\ UNCHANGED <<ledger, server, signIn, authorizing, ghosts>>

\* clear_oauth_for_server_config: first the flow, then the credential; a failure of either
\* ends the command before the plugin is touched.
\* Mutant: the flow that is in progress is left to itself.
LeaveAuthorization ==
    /\ marketOp.step = "cancel"
    /\ To("erase") /\ UNCHANGED <<authorizing, admissionHeld>>
    /\ UNCHANGED <<ledger, server, signIn, ghosts>>
CancelAuthorization ==
    /\ marketOp.step = "cancel"
    /\ \/ authorizing' = FALSE /\ To("erase") /\ UNCHANGED admissionHeld
       \/ UNCHANGED authorizing /\ End
    /\ UNCHANGED <<ledger, server, signIn, ghosts>>

EraseSignIn ==
    /\ marketOp.step = "erase"
    /\ \/ /\ signIn' = FALSE /\ UNCHANGED admissionHeld
          /\ To(IF marketOp.name = "uninstall" THEN "uninstall" ELSE "unmount")
       \/ UNCHANGED signIn /\ End
    /\ UNCHANGED <<ledger, server, authorizing, ghosts>>

UninstallPlugin ==
    /\ At("uninstall", "uninstall")
    /\ \/ /\ installed' = installed \ marketOp.plugins /\ active' = active \ marketOp.plugins
          /\ Released
       \/ UNCHANGED <<installed, active, onHandle, authorizing>>
    /\ UNCHANGED <<catalog, userServer, signIn, rebuilding, crossed>>
    /\ Kept /\ End

-----------------------------------------------------------------------------
(* The user's own declaration of the server *)

DeclareServer ==
    /\ marketOp = Idle /\ ~userServer /\ userServer' = TRUE
    /\ UNCHANGED <<ledger, onHandle, authorization, marketOp, ghosts>>

\* A start of the Computer or of the server mounts what is declared or enabled.
MountServer ==
    /\ marketOp = Idle /\ onHandle = "none"
    /\ \/ userServer /\ onHandle' = "user"
       \/ active # {} /\ onHandle' = "plugin"
    /\ UNCHANGED <<ledger, userServer, authorization, marketOp, ghosts>>

\* The Computer stops; its handle is replaced before the next start.
ReplaceHandle ==
    /\ marketOp = Idle /\ onHandle # "none" /\ Unmounted
    /\ UNCHANGED <<ledger, userServer, signIn, admissionHeld, marketOp, ghosts>>

\* remove_computer_mcp_core: under a plugin only the file changes.
BeginRemoveServer ==
    /\ userServer
    /\ LET protected == onHandle = "plugin" \/ (onHandle = "user" /\ active # {}) IN
       /\ Begin("removeServer", IF protected THEN "persist" ELSE "cancel", {})
       /\ admissionHeld' = TRUE
    /\ UNCHANGED <<ledger, server, signIn, authorizing, ghosts>>

UnmountServer ==
    /\ At("removeServer", "unmount")
    /\ \/ Unmounted /\ To("persist") /\ UNCHANGED admissionHeld
       \/ UNCHANGED <<onHandle, authorizing>> /\ End
    /\ UNCHANGED <<ledger, userServer, signIn, ghosts>>

PersistRemoval ==
    /\ At("removeServer", "persist")
    /\ userServer' \in BOOLEAN
    /\ UNCHANGED <<ledger, onHandle, signIn, authorizing, rebuilding, crossed>>
    /\ Kept /\ End

-----------------------------------------------------------------------------
(* Beside the lease *)

\* begin_oauth_authorization, on a server the handle has.
BeginAuthorization ==
    /\ onHandle # "none" /\ ~admissionHeld /\ ~authorizing
    /\ authorizing' = TRUE
    /\ UNCHANGED <<ledger, server, signIn, admissionHeld, marketOp, ghosts>>

FinishAuthorization ==
    /\ authorizing /\ authorizing' = FALSE
    /\ signIn' \in {signIn, TRUE}
    /\ UNCHANGED <<ledger, server, admissionHeld, marketOp, ghosts>>

\* rebuild_marketplaces_and_plugins: errors are passed over.
RebuildMarketplace ==
    /\ rebuilding /\ catalog = "absent"
    /\ catalog' \in {"healthy", "degraded"}
    /\ UNCHANGED <<installed, active, server, authorization, marketOp, ghosts>>

RebuildPlugin(p) ==
    /\ rebuilding /\ catalog # "absent" /\ p \notin installed
    /\ installed' = installed \cup {p} /\ active' \in {active, active \cup {p}}
    /\ crossed' = (crossed \/ marketOp # Idle)
    /\ UNCHANGED <<catalog, server, authorization, marketOp, rebuilding, leftBehind>>

EndRebuild ==
    /\ rebuilding /\ rebuilding' = FALSE
    /\ UNCHANGED <<ledger, server, authorization, marketOp, crossed, leftBehind>>

MarketNext ==
    \/ AddMarketplace \/ VerifyAdded \/ CleanUpRejected \/ RefreshMarketplace
    \/ BeginRemoveMarketplace \/ RemoveMarketplace
    \/ \E p \in Plugins :
          InstallPlugin(p) \/ EnablePlugin(p) \/ DisablePlugin(p) \/ BeginUninstall(p)
          \/ RebuildPlugin(p)
    \/ CancelAuthorization \/ EraseSignIn \/ UninstallPlugin
    \/ DeclareServer \/ MountServer \/ ReplaceHandle
    \/ BeginRemoveServer \/ UnmountServer \/ PersistRemoval
    \/ BeginAuthorization \/ FinishAuthorization
    \/ RebuildMarketplace \/ EndRebuild

MarketSpec == MarketInit /\ [][MarketNext]_marketVars

-----------------------------------------------------------------------------
MarketTypeOK ==
    /\ catalog \in {"absent", "healthy", "degraded"}
    /\ installed \subseteq Plugins /\ active \subseteq installed
    /\ onHandle \in {"none", "user", "plugin"}
    /\ {userServer, signIn, authorizing, admissionHeld, rebuilding, crossed, leftBehind}
           \subseteq BOOLEAN
    /\ marketOp.plugins \subseteq Plugins

\* The sign-in of a server goes with the last that has it, whatever flow was in progress
\* when it went and wherever the command failed.  It may stay only where the handle kept
\* the server itself: a release failed, or the user's part was removed under a plugin.
SignInHasOwner ==
    signIn => userServer \/ installed # {} \/ leftBehind

\* A plugin that is installed can be found in its Marketplace: neither a removal nor the
\* cleanup of a rejected addition takes it away, except from a package that is rebuilt
\* during that very command.
InstalledHasMarketplace ==
    installed # {} /\ catalog = "absent" => crossed

MarketplaceHolds == SignInHasOwner /\ InstalledHasMarketplace

\* The same of a package's plugins, which are rebuilt without the lease.
RebuiltHasMarketplace ==
    installed # {} => catalog # "absent"

=============================================================================
