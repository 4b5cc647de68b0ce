---------------------------- MODULE MCServices ----------------------------
(***************************************************************************)
(* What a Computer's runtime offers, in one run: OAuth flows, MCP servers, *)
(* events, the marketplace, and the control of the client with its skill   *)
(* packages.  In the models these parts share no state, so their product   *)
(* would show nothing more than each alone: every behaviour is one of the  *)
(* component `subject`, and the others stay where they are.                *)
(***************************************************************************)
EXTENDS Naturals, Sequences, FiniteSets, TLC

CONSTANTS
    Parked,                                   \* the state of a component that does not move
    Flows, NoFlow, MaxHandles,                                            \* OAuthFlow
    Plugins, NoPlugin,                                                    \* McpServers, Marketplace
    Tasks, NoSnapshot, MaxChanges, MaxDiagnostics, MaxSnapshots, EventCapacity,  \* RuntimeEvents
    Calls, MaxUpdates, MaxTroubles,                                       \* ClientControl
    MaxMutations, MaxFaults                                               \* SkillPackages

VARIABLES
    subject,     \* the component that moves
    begin, flow, admission, fence, lifecycle, cancel, change, replace, handle, credential,
    stale, declared, mounted, serving, tracked, enabled, claims, startFailed, handlePhase,
    mcpOp, pendingStart, stopping, generation, sdkChange, oauthStatus, diagnosed, ended,
    revision, relay, taskSnapshot, shown, shownOAuth, savedPolicy, published,
    controlMounted, update, updates, troubles, troubled, up, inEffect, call, audits,
    otherThere, skill, dirs, mutation, skillLock, committed, replaced, overlooked, faults,
    catalog, installed, active, onHandle, userServer, signIn, authorizing, admissionHeld,
    marketOp, rebuilding, crossed, leftBehind

OAuth == INSTANCE OAuthFlow
Servers == INSTANCE McpServers
Events == INSTANCE RuntimeEvents
Control == INSTANCE ClientControl WITH
        mounted <- controlMounted
Skills == INSTANCE SkillPackages
Market == INSTANCE Marketplace

\* The constants of every component are as its module assumes.
ASSUME ServicesAssumption ==
    /\ OAuth!OAuthAssumption /\ Servers!McpServersAssumption /\ Events!RuntimeEventsAssumption
    /\ Control!ControlAssumption /\ Skills!SkillAssumption

Components == {"oauth", "servers", "events", "control", "skills", "market"}

Symmetry == Permutations(Flows)

oauthState == <<begin, flow, admission, fence, lifecycle, cancel, change, replace, handle,
                credential, stale>>
serversState == <<declared, mounted, serving, tracked, enabled, claims, startFailed,
                  handlePhase, mcpOp, pendingStart, stopping>>
eventsState == <<generation, sdkChange, oauthStatus, diagnosed, ended, revision, relay,
                 taskSnapshot, shown, shownOAuth>>
controlState == <<savedPolicy, published, controlMounted, update, updates, troubles,
                  troubled, up, inEffect, call, audits, otherThere>>
skillsState == <<skill, dirs, mutation, skillLock, committed, replaced, overlooked, faults>>
marketState == <<catalog, installed, active, onHandle, userServer, signIn, authorizing,
                 admissionHeld, marketOp, rebuilding, crossed, leftBehind>>

-----------------------------------------------------------------------------
\* A component that does not move has no state to enumerate.
OAuthInit ==
    IF subject = "oauth" THEN OAuth!OAuthInit
    ELSE
         /\ begin = Parked /\ flow = Parked /\ admission = Parked /\ fence = Parked
         /\ lifecycle = Parked /\ cancel = Parked /\ change = Parked /\ replace = Parked
         /\ handle = Parked /\ credential = Parked /\ stale = Parked
ServersInit ==
    IF subject = "servers" THEN Servers!McpInit
    ELSE
         /\ declared = Parked /\ mounted = Parked /\ serving = Parked /\ tracked = Parked
         /\ enabled = Parked /\ claims = Parked /\ startFailed = Parked
         /\ handlePhase = Parked /\ mcpOp = Parked /\ pendingStart = Parked
         /\ stopping = Parked
EventsInit ==
    IF subject = "events" THEN Events!EventsInit
    ELSE
         /\ generation = Parked /\ sdkChange = Parked /\ oauthStatus = Parked
         /\ diagnosed = Parked /\ ended = Parked /\ revision = Parked /\ relay = Parked
         /\ taskSnapshot = Parked /\ shown = Parked /\ shownOAuth = Parked
ControlInit ==
    IF subject = "control" THEN Control!ControlInit
    ELSE
         /\ savedPolicy = Parked /\ published = Parked /\ controlMounted = Parked
         /\ update = Parked /\ updates = Parked /\ troubles = Parked /\ troubled = Parked
         /\ up = Parked /\ inEffect = Parked /\ call = Parked /\ audits = Parked
         /\ otherThere = Parked
SkillsInit ==
    IF subject = "skills" THEN Skills!SkillInit
    ELSE
         /\ skill = Parked /\ dirs = Parked /\ mutation = Parked /\ skillLock = Parked
         /\ committed = Parked /\ replaced = Parked /\ overlooked = Parked
         /\ faults = Parked
MarketplaceInit ==
    IF subject = "market" THEN Market!MarketInit
    ELSE
         /\ catalog = Parked /\ installed = Parked /\ active = Parked /\ onHandle = Parked
         /\ userServer = Parked /\ signIn = Parked /\ authorizing = Parked
         /\ admissionHeld = Parked /\ marketOp = Parked /\ rebuilding = Parked
         /\ crossed = Parked /\ leftBehind = Parked

Init ==
    /\ subject \in Components

    /\ OAuthInit /\ ServersInit /\ EventsInit /\ ControlInit /\ SkillsInit
    /\ MarketplaceInit

\* Only component c moves.
Only(c) ==
    /\ subject = c /\ UNCHANGED subject
    /\ IF c = "oauth" THEN TRUE ELSE UNCHANGED oauthState
    /\ IF c = "servers" THEN TRUE ELSE UNCHANGED serversState
    /\ IF c = "events" THEN TRUE ELSE UNCHANGED eventsState
    /\ IF c = "control" THEN TRUE ELSE UNCHANGED controlState
    /\ IF c = "skills" THEN TRUE ELSE UNCHANGED skillsState
    /\ IF c = "market" THEN TRUE ELSE UNCHANGED marketState

OAuthStep == Only("oauth") /\ OAuth!OAuthNext
ServersStep == Only("servers") /\ Servers!McpNext
EventsStep == Only("events") /\ Events!EventsNext
ControlStep == Only("control") /\ Control!ControlNext
SkillsStep == Only("skills") /\ Skills!SkillNext
MarketplaceStep == Only("market") /\ Market!MarketNext

Next ==
    \/ OAuthStep \/ ServersStep \/ EventsStep \/ ControlStep \/ SkillsStep
    \/ MarketplaceStep

vars == <<subject, 
          oauthState, serversState, eventsState, controlState, skillsState,
          marketState>>

Spec == Init /\ [][Next]_vars

-----------------------------------------------------------------------------
\* Every variable of the component that moves has its type.
ServicesTypeOK ==
    /\ subject = "oauth" => OAuth!OAuthTypeOK
    /\ subject = "servers" => Servers!McpTypeOK
    /\ subject = "events" => Events!EventsTypeOK
    /\ subject = "control" => Control!ControlTypeOK
    /\ subject = "skills" => Skills!SkillTypeOK
    /\ subject = "market" => Market!MarketTypeOK

\* What a runtime has and shows is the handle's: no OAuth flow outlives the handle or the
\* clearing of its credential, a plugin's server can be reclaimed, its sign-in goes with
\* the server's last owner and its Marketplace stays, and the screen ends up with the
\* current state (oauth.rs, marketplace.rs, computer_runtime_events.rs).
RuntimeHolds ==
    /\ subject = "oauth" => OAuth!AuthorizationHolds
    /\ subject = "servers" => Servers!McpServersHold
    /\ subject = "events" => Events!ShowsCurrent
    /\ subject = "market" => Market!MarketplaceHolds

\* What the client lets itself be controlled with is what took effect: a policy that failed
\* is undone in all three places, every decided call is audited once, and a skill package
\* is the one of the last committed change (client_control).
ControlledHolds ==
    /\ subject = "control" => Control!ControlHolds
    /\ subject = "skills" => Skills!SkillsHold

=============================================================================
