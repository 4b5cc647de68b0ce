------------------------------ MODULE ClientControl ------------------------------
(***************************************************************************)
(* The policies of a Computer's built-in providers and the calls a Robot   *)
(* makes through one of them (services/client_control, the command line    *)
(* policy of commands/built_in_tools.rs, registry.rs).  A policy is kept   *)
(* in three places: the saved profile, the published runtime, and the      *)
(* provider that is mounted in the SDK Computer, which keeps the policy of *)
(* its mount.  An update changes them one after the other under the lease  *)
(* of the Computer, and undoes what it did when a step fails.  A call is   *)
(* authorized by the published policy, runs, and is audited; its caller    *)
(* may be dropped while it waits.                                          *)
(***************************************************************************)
EXTENDS Naturals, Sequences

CONSTANTS
    Calls,
    MaxUpdates,    \* bounds the updates of policies
    MaxTroubles    \* bounds the steps of updates that fail

\* What the module assumes of its constants.
ControlAssumption == MaxUpdates \in Nat /\ MaxTroubles \in Nat

Providers == {"control", "shell"}
Tools == {"read", "stop", "skill"}
Scopes == {"off", "self", "reading", "all"}
ScopesOf(p) == IF p = "control" THEN Scopes ELSE {"off", "all"}
Targets == {"source", "other"}

Policies == [edition : 0..MaxUpdates, scope : Scopes]
Disabled == [edition |-> 0, scope |-> "off"]
Unmounted == [edition |-> 0, scope |-> "none"]
Enabled(policy) == policy.scope # "off"

VARIABLES
    savedPolicy,   \* the profile
    published,     \* the runtime in the registry
    mounted,       \* the providers in the SDK Computer
    update,        \* the update that holds the lease
    updates,
    troubles,
    troubled,      \* a step that undoes an update has failed
    up,            \* the Computer runs
    inEffect,      \* editions of the control policy that were published
    call,          \* per call: where it is, what it asks, the policy that admitted it
    audits,        \* per call: the records it left
    otherThere     \* the other Computer still exists

policyVars == <<savedPolicy, published, mounted, update, updates, troubles, troubled, up, inEffect>>
callVars == <<call, audits, otherThere>>
controlVars == <<policyVars, callVars>>

NoUpdate == [at |-> "none", provider |-> "control", before |-> Disabled]
IdleCall == [at |-> "idle", tool |-> "read", target |-> "source", edition |-> 0, done |-> FALSE]

ControlInit ==
    /\ \E scopes \in [Providers -> Scopes] :
           /\ \A p \in Providers : scopes[p] \in ScopesOf(p)
           /\ savedPolicy = [p \in Providers |-> [edition |-> 0, scope |-> scopes[p]]]
    /\ published = savedPolicy
    /\ mounted = [p \in Providers |-> IF Enabled(published[p]) THEN published[p] ELSE Unmounted]
    /\ update = NoUpdate /\ updates = 0 /\ troubles = 0 /\ troubled = FALSE
    /\ up \in BOOLEAN /\ inEffect = {0}
    /\ call = [c \in Calls |-> IdleCall] /\ audits = [c \in Calls |-> <<>>] /\ otherThere = TRUE

-----------------------------------------------------------------------------
(* Bringing the providers in line with an instance *)

MountOf(policy) == IF Enabled(policy) THEN policy ELSE Unmounted
IsMounted(p) == mounted[p] # Unmounted

\* A provider is swapped when it is there and should not be or the other way round, or is
\* there with a policy that changed.
Swaps(p, policy, changed) ==
    \/ IsMounted(p) # Enabled(policy)
    \/ IsMounted(p) /\ changed

\* The provider stays, is only taken out, or is mounted and does not start.
SwapFailures(p, policy) ==
    (IF IsMounted(p) THEN {mounted[p]} ELSE {})
        \cup (IF Enabled(policy) THEN {Unmounted} \cup (IF up THEN {policy} ELSE {}) ELSE {})

\* The Robot's provider first; when that fails the command line is left alone.
Sync(instance, changed) ==
    LET control == instance["control"]
        shell == instance["shell"]
        new(p) == IF Swaps(p, instance[p], changed[p]) THEN MountOf(instance[p]) ELSE mounted[p]
    IN  [ok |-> {[control |-> new("control"), shell |-> new("shell")]},
         failed |->
             (IF Swaps("control", control, changed["control"])
              THEN {[control |-> m, shell |-> mounted["shell"]] :
                        m \in SwapFailures("control", control)} ELSE {})
             \cup (IF Swaps("shell", shell, changed["shell"])
                   THEN {[control |-> new("control"), shell |-> m] :
                             m \in SwapFailures("shell", shell)} ELSE {})]

Changed(old, new) == [p \in Providers |-> old[p] # new[p]]
Fails == troubles < MaxTroubles /\ troubles' = troubles + 1
Holds == UNCHANGED troubles
UpdateGoes(step) == update' = [update EXCEPT !.at = step]
UpdateEnds == update' = NoUpdate

-----------------------------------------------------------------------------
(* An update of one policy *)

SavePolicy(p, scope) ==
    /\ update = NoUpdate /\ updates < MaxUpdates
    /\ updates' = updates + 1
    /\ \/ /\ savedPolicy' = [savedPolicy EXCEPT ![p] = [edition |-> updates + 1, scope |-> scope]]
          /\ update' = [at |-> "apply", provider |-> p, before |-> savedPolicy[p]] /\ Holds
       \/ Fails /\ UNCHANGED <<savedPolicy, update>>
    /\ UNCHANGED <<published, mounted, troubled, up, inEffect, callVars>>

\* The local user asks for another policy, and waits for the lease.
BeginPolicyUpdate(scope) == SavePolicy("control", scope)

\* The command line's is left alone when it is the same; its workspace is not changed
\* while it runs.
BeginCommandLineUpdate(scope) ==
    /\ scope = savedPolicy["shell"].scope => scope = "all" /\ ~(up /\ IsMounted("shell"))
    /\ SavePolicy("shell", scope)

Publishes ==
    /\ published' = savedPolicy
    /\ inEffect' = inEffect \cup {savedPolicy["control"].edition}

ApplyPolicy ==
    /\ update.at = "apply"
    /\ LET sync == Sync(savedPolicy, Changed(published, savedPolicy)) IN
       \/ mounted' \in sync.ok /\ Holds /\ Publishes /\ UpdateEnds
       \/ /\ mounted' \in sync.failed /\ Fails /\ UpdateGoes("restore")
          /\ UNCHANGED <<published, inEffect>>
    /\ UNCHANGED <<savedPolicy, updates, troubled, up, callVars>>

\* The providers of the published runtime are put back, as changed as those of the update.
\* Mutant: as if nothing had changed.
RestoreUnchanged ==
    /\ update.at \in {"restore", "restoreAgain"}
    /\ LET sync == Sync(published, [p \in Providers |-> FALSE]) IN
       \/ mounted' \in sync.ok /\ Holds /\ UNCHANGED troubled
       \/ mounted' \in sync.failed /\ Fails /\ troubled' = TRUE
    /\ IF update.at = "restore" THEN UpdateGoes("unsave") ELSE UpdateEnds
    /\ UNCHANGED <<savedPolicy, published, updates, up, inEffect, callVars>>
RestoreProviders ==
    /\ update.at \in {"restore", "restoreAgain"}
    /\ LET sync == Sync(published, Changed(published, savedPolicy)) IN
       \/ mounted' \in sync.ok /\ Holds /\ UNCHANGED troubled
       \/ mounted' \in sync.failed /\ Fails /\ troubled' = TRUE
    /\ IF update.at = "restore" THEN UpdateGoes("unsave") ELSE UpdateEnds
    /\ UNCHANGED <<savedPolicy, published, updates, up, inEffect, callVars>>

UnsavePolicy ==
    /\ update.at = "unsave"
    /\ \/ /\ savedPolicy' = [savedPolicy EXCEPT ![update.provider] = update.before]
          /\ UpdateGoes("resync") /\ Holds /\ UNCHANGED troubled
       \/ Fails /\ troubled' = TRUE /\ UpdateEnds /\ UNCHANGED savedPolicy
    /\ UNCHANGED <<published, mounted, updates, up, inEffect, callVars>>

\* The restored profile is brought to the runtime as any other.
ResyncProviders ==
    /\ update.at = "resync"
    /\ LET sync == Sync(savedPolicy, Changed(published, savedPolicy)) IN
       \/ mounted' \in sync.ok /\ Holds /\ Publishes /\ UpdateEnds /\ UNCHANGED troubled
       \/ /\ mounted' \in sync.failed /\ Fails /\ troubled' = TRUE
          /\ UpdateGoes("restoreAgain") /\ UNCHANGED <<published, inEffect>>
    /\ UNCHANGED <<savedPolicy, updates, up, callVars>>

\* A start builds the SDK Computer of the published runtime.
StartComputer ==
    /\ update = NoUpdate /\ ~up
    /\ up' = TRUE /\ mounted' = [p \in Providers |-> MountOf(published[p])]
    /\ troubled' = (savedPolicy # published)
    /\ UNCHANGED <<savedPolicy, published, update, updates, troubles, inEffect, callVars>>

\* A command line that cannot be prepared is disabled before the start goes on.
DisableCommandLine ==
    /\ update = NoUpdate /\ ~up /\ Enabled(savedPolicy["shell"])
    /\ Fails
    /\ LET disabled == [savedPolicy EXCEPT !["shell"].scope = "off"]
           sync == Sync(disabled, Changed(published, disabled)) IN
       /\ savedPolicy' = disabled
       /\ \/ /\ mounted' \in sync.ok /\ published' = disabled
             /\ inEffect' = inEffect \cup {disabled["control"].edition}
             /\ UNCHANGED troubled
          \/ /\ mounted' \in sync.failed /\ troubled' = TRUE
             /\ UNCHANGED <<published, inEffect>>
    /\ UNCHANGED <<update, updates, up, callVars>>

StopComputer ==
    /\ update = NoUpdate /\ up /\ up' = FALSE
    /\ UNCHANGED <<savedPolicy, published, mounted, update, updates, troubles, troubled>>
    /\ UNCHANGED <<inEffect, callVars>>

-----------------------------------------------------------------------------
(* A call *)

CallTool(c, tool, target) ==
    /\ call[c].at = "idle" /\ up /\ IsMounted("control")
    /\ call' = [call EXCEPT ![c] =
           [IdleCall EXCEPT !.at = "called", !.tool = tool, !.target = target]]
    /\ UNCHANGED <<policyVars, audits, otherThere>>

AllowsTool(scope, tool) == scope # "off" /\ (scope = "reading" => tool = "read")
AllowsTarget(scope, target) == scope # "self" \/ target = "source"
Admits(policy, c) ==
    /\ AllowsTool(policy.scope, call[c].tool)
    /\ AllowsTarget(policy.scope, call[c].target)
    /\ ~(call[c].target = "source" /\ call[c].tool = "stop")
    /\ call[c].target = "other" => otherThere

Audits(c, outcome) == audits' = [audits EXCEPT ![c] = Append(@, outcome)]
Decide(c, policy) ==
    /\ call[c].at = "called"
    /\ IF Admits(policy, c)
       THEN /\ call' = [call EXCEPT ![c].at = "admitted", ![c].edition = policy.edition]
            /\ UNCHANGED audits
       ELSE /\ call' = [call EXCEPT ![c].at = "denied"]
            /\ Audits(c, "denied")
    /\ UNCHANGED <<policyVars, otherThere>>

\* Mutant: by the saved policy.
AuthorizeBySaved(c) == Decide(c, savedPolicy["control"])
Authorize(c) == Decide(c, published["control"])

\* The operation of the target: it is done, or fails before it changed anything.
Execute(c) ==
    /\ call[c].at = "admitted"
    /\ \E done \in BOOLEAN :
           /\ done => (call[c].target = "other" => otherThere)
           /\ call' = [call EXCEPT ![c].at = "executed", ![c].done = done]
    /\ UNCHANGED <<policyVars, audits, otherThere>>

\* An operation is audited when it returns.  Those of Skills audit themselves, and the
\* record that stands for the call is disarmed.
\* Mutant: it is not.
AnswerArmed(c) ==
    /\ call[c].at = "executed"
    /\ call' = [call EXCEPT ![c].at = "answered"]
    /\ LET outcome == IF call[c].done THEN "succeeded" ELSE "failed" IN
       audits' = [audits EXCEPT ![c] =
           Append(@, outcome) \o (IF call[c].tool = "skill" THEN <<outcome>> ELSE <<>>)]
    /\ UNCHANGED <<policyVars, otherThere>>
Answer(c) ==
    /\ call[c].at = "executed"
    /\ call' = [call EXCEPT ![c].at = "answered"]
    /\ Audits(c, IF call[c].done THEN "succeeded" ELSE "failed")
    /\ UNCHANGED <<policyVars, otherThere>>

\* The caller is dropped.  An admitted call is then audited as failed, whatever it has done.
DropCall(c) ==
    /\ \/ /\ call[c].at = "called"
          /\ call' = [call EXCEPT ![c].at = "gone"] /\ UNCHANGED audits
       \/ /\ call[c].at \in {"admitted", "executed"}
          /\ call' = [call EXCEPT ![c].at = "dropped"] /\ Audits(c, "failed")
    /\ UNCHANGED <<policyVars, otherThere>>

DeleteOther ==
    /\ otherThere /\ otherThere' = FALSE
    /\ UNCHANGED <<policyVars, call, audits>>

ControlNext ==
    \/ \E scope \in Scopes : BeginPolicyUpdate(scope)
    \/ \E scope \in {"off", "all"} : BeginCommandLineUpdate(scope)
    \/ ApplyPolicy \/ RestoreProviders \/ UnsavePolicy \/ ResyncProviders
    \/ StartComputer \/ DisableCommandLine \/ StopComputer \/ DeleteOther
    \/ \E c \in Calls :
           \/ \E tool \in Tools, target \in Targets : CallTool(c, tool, target)
           \/ Authorize(c) \/ Execute(c) \/ Answer(c) \/ DropCall(c)

ControlSpec == ControlInit /\ [][ControlNext]_controlVars

-----------------------------------------------------------------------------
ControlTypeOK ==
    /\ savedPolicy \in [Providers -> Policies] /\ published \in [Providers -> Policies]
    /\ \A p \in Providers : mounted[p] \in Policies \cup {Unmounted}
    /\ update.at \in {"none", "apply", "restore", "unsave", "resync", "restoreAgain"}
    /\ troubled \in BOOLEAN /\ up \in BOOLEAN
    /\ \A c \in Calls : call[c].edition \in 0..MaxUpdates

\* When no update is under way, the profile, the runtime and the mounted providers agree,
\* whichever step of an update failed, unless undoing it failed too.
PoliciesAgree ==
    update = NoUpdate /\ ~troubled =>
        /\ savedPolicy = published
        /\ \A p \in Providers : mounted[p] = MountOf(published[p])

\* No call is admitted by a policy that was saved and never came into effect.
AdmittedByCommitted ==
    \A c \in Calls :
        call[c].at \in {"admitted", "executed", "answered"} => call[c].edition \in inEffect

\* A call that was decided is audited once, however it ends, and as a success only when
\* the operation was done.
AuditedOnce ==
    \A c \in Calls :
        /\ Len(audits[c]) = IF call[c].at \in {"denied", "answered", "dropped"} THEN 1 ELSE 0
        /\ audits[c] = <<"succeeded">> => call[c].done

ControlHolds == PoliciesAgree /\ AdmittedByCommitted /\ AuditedOnce

=============================================================================
