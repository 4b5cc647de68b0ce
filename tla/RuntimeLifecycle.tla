-------------------------- MODULE RuntimeLifecycle --------------------------
(***************************************************************************)
(* The SDK lifecycle of one Computer and the policy the backend derives    *)
(* from it (services/computer/runtime_lifecycle.rs): the user-facing state *)
(* and the set of lifecycles in which each Runtime action is enabled.  The *)
(* same tables are serialized in snapshots and checked again at command    *)
(* boundaries, so every other module takes its guards from here.           *)
(***************************************************************************)

\* LifecycleState of the SDK.
LifecycleState ==
    {"Created", "Starting", "Started", "Connecting", "Connected",
     "JoinedOffice", "Syncing", "Degraded", "Disconnecting", "Stopping",
     "Stopped", "Shutdown", "Error"}

ComputerRuntimeAction ==
    {"Start", "Stop", "Restart", "Connect", "Disconnect", "ManageMcp"}

\* From<LifecycleState> for ComputerRuntimeUserState.
UserState(lifecycle) ==
    CASE lifecycle \in {"Created", "Stopped", "Shutdown"} -> "NotRunning"
      [] lifecycle \in {"Starting", "Syncing"}            -> "Starting"
      [] lifecycle \in {"Started", "Connecting", "Connected",
                        "JoinedOffice", "Disconnecting"}  -> "Running"
      [] lifecycle = "Stopping"                           -> "Stopping"
      [] lifecycle = "Degraded"                           -> "Degraded"
      [] lifecycle = "Error"                              -> "Error"

Inactive == {"Created", "Stopped", "Shutdown", "Error"}

LocallyOperational == {"Started", "Connected", "JoinedOffice", "Degraded"}

\* The lifecycles in which for_lifecycle enables the action.
EnabledIn(action) ==
    CASE action = "Start"                -> Inactive
      [] action \in {"Stop", "Restart"}  -> LocallyOperational
      [] action = "Connect"              -> {"Started"}
      [] action = "Disconnect"           -> {"Connected", "JoinedOffice", "Degraded"}
      [] action = "ManageMcp"            ->
            {l \in LifecycleState : UserState(l) \in {"Running", "Degraded"}}

\* ensure_runtime_action: Ok exactly when the capability is enabled.
EnsureRuntimeAction(lifecycle, action) == lifecycle \in EnabledIn(action)

\* connection_snapshot_blocks_target: whether the connection of a Computer in
\* this lifecycle stands in the way of another connect.
BlocksTarget(lifecycle, sameInstance) ==
    \/ lifecycle \in {"Connecting", "Connected", "JoinedOffice", "Syncing",
                      "Degraded", "Disconnecting"}
    \/ lifecycle = "Started" /\ ~sameInstance
=============================================================================
