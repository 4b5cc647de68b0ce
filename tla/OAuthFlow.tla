------------------------------ MODULE OAuthFlow ------------------------------
(***************************************************************************)
(* Interactive authorization of one MCP server: services/computer/oauth.rs. *)
(* A flow is reserved in the flow map, gets an SDK flow, launches, waits    *)
(* for the loopback callback and completes.  Against it run the user's      *)
(* cancel, a change of the server or its credentials, and the replacement   *)
(* of the SDK handle.  The SDK's flow is external: cancel and complete      *)
(* converge on one terminal outcome, and a token is stored with it.         *)
(* The scope cache only fills in a hint of the next request; it is left out. *)
(***************************************************************************)
EXTENDS Naturals, Sequences

CONSTANTS Flows, NoFlow, MaxHandles

\* What the module assumes of its constants.
OAuthAssumption == NoFlow \notin Flows /\ MaxHandles \in Nat

VARIABLES
    begin,       \* each begin_oauth_authorization: where it is, its SDK flow
    flow,        \* oauth_flows: the entry of this server
    admission,   \* oauth_admission_open, oauth_server_change_admission_blocks
    fence,       \* oauth_server_lifecycle_lock
    lifecycle,   \* lifecycle_lock
    cancel,      \* each running cancel_oauth_authorization
    change,      \* a change of the server: its kind and the step it is at
    replace,     \* replace_sdk_computer
    handle,      \* runtime_generation
    credential,  \* the flow whose token the keychain holds
    stale        \* ghost: flows reserved before the authorization was cleared

oauthVars == <<begin, flow, admission, fence, lifecycle, cancel, change, replace, handle,
               credential, stale>>

Cancellers == {"user", "change", "replace"}
NoEntry == [id |-> NoFlow, sdk |-> FALSE, phase |-> "none", listener |-> FALSE]
NoCancel == [step |-> "idle", id |-> NoFlow, ok |-> TRUE]
NoChange == [kind |-> "none", at |-> 0]

OAuthInit ==
    /\ begin = [f \in Flows |-> [pc |-> "idle", sdk |-> "none", handle |-> 0]]
    /\ flow = NoEntry
    /\ admission = [open |-> TRUE, blocks |-> 0]
    /\ fence = "free" /\ lifecycle = "free"
    /\ cancel = [c \in Cancellers |-> NoCancel]
    /\ change = NoChange
    /\ replace = "idle"
    /\ handle = 0
    /\ credential = NoFlow
    /\ stale = {}

BeginIs(f, pc) == begin[f].pc = pc
To(f, pc) == begin' = [begin EXCEPT ![f].pc = pc]
Current(f) == flow.id = f
WithoutFlow(f) == IF Current(f) THEN NoEntry ELSE flow   \* remove_oauth_flow_if_current
Terminated(f) == IF begin[f].sdk = "live" THEN "terminated" ELSE begin[f].sdk
\* The receiver wakes when the sender is taken or dropped with its entry.
Interrupted(f) == ~Current(f) \/ ~flow.listener

others == <<lifecycle, cancel, change, replace, handle, stale>>

-----------------------------------------------------------------------------
\* begin_oauth_authorization

WaitForFence(f) ==
    /\ BeginIs(f, "idle") /\ fence = "free"
    /\ fence' = f /\ To(f, "reserve")
    /\ UNCHANGED <<flow, admission, credential, others>>

\* Mutant: a flow is admitted while the server or its credentials change.
AdmittedWhenOpen == admission.open /\ flow = NoEntry

Admitted == admission.open /\ admission.blocks = 0 /\ flow = NoEntry

Reserve(f) ==
    /\ BeginIs(f, "reserve")
    /\ IF Admitted
       THEN /\ flow' = [id |-> f, sdk |-> FALSE, phase |-> "Preparing", listener |-> TRUE]
            /\ To(f, "create") /\ UNCHANGED fence
       ELSE To(f, "done") /\ fence' = "free" /\ UNCHANGED flow
    /\ UNCHANGED <<admission, credential, others>>

CreateFlow(f) ==
    /\ BeginIs(f, "create")
    /\ \/ /\ begin' = [begin EXCEPT ![f] = [pc |-> "register", sdk |-> "live",
                                            handle |-> handle]]
          /\ UNCHANGED <<flow, fence>>
       \/ To(f, "done") /\ flow' = WithoutFlow(f) /\ fence' = "free"
    /\ UNCHANGED <<admission, credential, others>>

Register(f) ==
    /\ BeginIs(f, "register")
    /\ IF Current(f) /\ flow.phase = "Preparing"
       THEN flow' = [flow EXCEPT !.sdk = TRUE] /\ To(f, "launch")
       ELSE To(f, "retire") /\ UNCHANGED flow
    /\ fence' = "free"
    /\ UNCHANGED <<admission, credential, others>>

Launch(f) ==
    /\ BeginIs(f, "launch")
    /\ \/ Interrupted(f) /\ To(f, "retire") /\ UNCHANGED flow
       \/ To(f, "wait") /\ UNCHANGED flow
       \/ To(f, "done") /\ flow' = WithoutFlow(f)
    /\ UNCHANGED <<admission, fence, credential, others>>

WaitForCallback(f) ==
    /\ BeginIs(f, "wait")
    /\ IF Current(f) /\ flow.phase = "Preparing"
       THEN flow' = [flow EXCEPT !.phase = "WaitingForCallback"] /\ To(f, "callback")
       ELSE To(f, "retire") /\ UNCHANGED flow
    /\ UNCHANGED <<admission, fence, credential, others>>

\* A begin that lost its entry cancels its SDK flow itself.
Retire(f) ==
    /\ BeginIs(f, "retire")
    /\ begin' = [begin EXCEPT ![f].pc = "done", ![f].sdk = Terminated(f)]
    /\ flow' = WithoutFlow(f)
    /\ UNCHANGED <<admission, fence, credential, others>>

-----------------------------------------------------------------------------
\* drive_oauth_callback

\* await_callback: a callback, the provider's cancellation or the timeout; a request
\* that is not this flow's callback is ignored.
AwaitCallback(f) ==
    /\ BeginIs(f, "callback")
    /\ \/ Interrupted(f) /\ To(f, "done")
       \/ To(f, "claim")
    /\ UNCHANGED <<flow, admission, fence, credential, others>>

ClaimCallback(f) ==
    /\ BeginIs(f, "claim")
    /\ IF Current(f) /\ flow.phase = "WaitingForCallback"
       THEN /\ flow' = [flow EXCEPT !.phase = "Completing", !.listener = FALSE]
            /\ To(f, "complete")
       ELSE To(f, "done") /\ UNCHANGED flow
    /\ UNCHANGED <<admission, fence, credential, others>>

\* complete, cancel_callback or cancel; a rejected callback leaves the flow live.
CompleteFlow(f) ==
    /\ BeginIs(f, "complete")
    /\ \/ /\ begin[f].sdk = "live"
          /\ begin' = [begin EXCEPT ![f].pc = "remove", ![f].sdk = "authorized"]
          /\ credential' = f
       \/ /\ begin' = [begin EXCEPT ![f].pc = "remove", ![f].sdk = Terminated(f)]
          /\ UNCHANGED credential
       \/ To(f, "remove") /\ UNCHANGED credential
    /\ UNCHANGED <<flow, admission, fence, others>>

\* The entry goes; a flow that is still live is cancelled.
RemoveFlow(f) ==
    /\ BeginIs(f, "remove")
    /\ flow' = WithoutFlow(f)
    /\ begin' = [begin EXCEPT ![f].pc = "done", ![f].sdk = Terminated(f)]
    /\ UNCHANGED <<admission, fence, credential, others>>

-----------------------------------------------------------------------------
\* cancel_oauth_authorization, by the user or as a step of a change or replacement.

\* Mutant: the SDK flow is left to its own cancellation task.
CancelDetached(c) ==
    /\ cancel[c].step = "idle" /\ flow # NoEntry
    /\ flow' = [flow EXCEPT !.phase = "Completing", !.listener = FALSE]
    /\ cancel' = [cancel EXCEPT ![c] = [step |-> "remove", id |-> flow.id, ok |-> TRUE]]

CancelEntry(c) ==
    /\ cancel[c].step = "idle" /\ flow # NoEntry
    /\ flow' = [flow EXCEPT !.phase = "Completing", !.listener = FALSE]
    /\ cancel' = [cancel EXCEPT ![c] =
                      [step |-> IF flow.sdk THEN "sdk" ELSE "remove", id |-> flow.id,
                       ok |-> TRUE]]

unmoved == <<admission, fence, lifecycle, replace, handle, credential, stale>>

CancelUser ==
    CancelEntry("user") /\ UNCHANGED <<begin, change, unmoved>>

\* The SDK's terminal outcome, whichever call reached it first; its cleanup may fail.
CancelSdkFlow(c) ==
    /\ cancel[c].step = "sdk"
    /\ begin' = [begin EXCEPT ![cancel[c].id].sdk = Terminated(cancel[c].id)]
    /\ \E ok \in BOOLEAN : cancel' = [cancel EXCEPT ![c].step = "remove", ![c].ok = ok]
    /\ UNCHANGED <<flow, change, unmoved>>

CancelRemove(c) ==
    /\ cancel[c].step = "remove"
    /\ flow' = WithoutFlow(cancel[c].id)
    /\ cancel' = [cancel EXCEPT ![c] = IF c = "user" THEN NoCancel
                                       ELSE [@ EXCEPT !.step = "done"]]
    /\ UNCHANGED <<begin, change, unmoved>>

-----------------------------------------------------------------------------
\* Changes of the server.  A step waits for the one before it.

\* clear_oauth_authorization; an edit that changes the credential's identity; the
\* removal of the server, each within the command's own block; a mount or unmount.
Steps(kind) ==
    CASE kind = "clear" ->
             <<"lifecycle", "fence", "block", "cancel", "erase", "unblock", "unlock">>
      [] kind = "identity" -> <<"block", "block", "cancel", "erase", "unblock", "unblock">>
      [] kind = "remove" ->
             <<"block", "block", "cancel", "erase", "unblock", "lifecycle", "fence", "block",
               "cancel", "erase", "unblock", "cancel", "mount", "unlock", "unblock">>
      [] kind = "mount" -> <<"lifecycle", "fence", "cancel", "mount", "unlock">>
      [] OTHER -> <<>>

Doing(step) == change.kind # "none" /\ Steps(change.kind)[change.at] = step
Next1 == IF change.at = Len(Steps(change.kind)) THEN NoChange
         ELSE [change EXCEPT !.at = @ + 1]

StartChange ==
    /\ change = NoChange
    /\ \E kind \in {"clear", "identity", "remove", "mount"} : change' = [kind |-> kind, at |-> 1]
    /\ UNCHANGED <<begin, flow, admission, fence, lifecycle, cancel, replace, handle,
                   credential, stale>>

ChangeLocks ==
    /\ \/ Doing("lifecycle") /\ lifecycle = "free" /\ lifecycle' = "change"
          /\ UNCHANGED fence
       \/ Doing("fence") /\ fence = "free" /\ fence' = "change" /\ UNCHANGED lifecycle
       \/ Doing("unlock") /\ lifecycle' = "free" /\ fence' = "free"
    /\ change' = Next1
    /\ UNCHANGED <<begin, flow, admission, cancel, replace, handle, credential, stale>>

ChangeBlocks ==
    /\ \/ Doing("block") /\ admission' = [admission EXCEPT !.blocks = @ + 1]
       \/ Doing("unblock") /\ admission' = [admission EXCEPT !.blocks = @ - 1]
    /\ change' = Next1
    /\ UNCHANGED <<begin, flow, fence, lifecycle, cancel, replace, handle, credential, stale>>

\* A failed cancellation or erasure ends the change; its guards are dropped.
\* Mutant: the block it holds stays.
AbandonedBlocked ==
    /\ change' = NoChange /\ UNCHANGED admission
    /\ fence' = IF fence = "change" THEN "free" ELSE fence
    /\ lifecycle' = IF lifecycle = "change" THEN "free" ELSE lifecycle
Abandoned ==
    /\ change' = NoChange
    /\ admission' = [admission EXCEPT !.blocks = 0]
    /\ fence' = IF fence = "change" THEN "free" ELSE fence
    /\ lifecycle' = IF lifecycle = "change" THEN "free" ELSE lifecycle

ChangeCancels ==
    /\ Doing("cancel")
    /\ \/ CancelEntry("change") /\ UNCHANGED <<change, admission, fence, lifecycle>>
       \/ /\ flow = NoEntry /\ cancel["change"] = NoCancel
          /\ change' = Next1 /\ UNCHANGED <<flow, cancel, admission, fence, lifecycle>>
       \/ /\ cancel["change"].step = "done"
          /\ cancel' = [cancel EXCEPT !["change"] = NoCancel]
          /\ IF cancel["change"].ok
             THEN change' = Next1 /\ UNCHANGED <<admission, fence, lifecycle>>
             ELSE Abandoned
          /\ UNCHANGED flow
    /\ UNCHANGED <<begin, replace, handle, credential, stale>>

\* The SDK deletes the server's credential, or fails to.
EraseCredential ==
    /\ Doing("erase")
    /\ \/ /\ credential' = NoFlow
          /\ stale' = stale \cup {f \in Flows : begin[f].pc \notin {"idle", "reserve"}}
          /\ change' = Next1 /\ UNCHANGED <<admission, fence, lifecycle>>
       \/ Abandoned /\ UNCHANGED <<credential, stale>>
    /\ UNCHANGED <<begin, flow, cancel, replace, handle>>

MountServer ==
    /\ Doing("mount") /\ change' = Next1
    /\ UNCHANGED <<begin, flow, admission, fence, lifecycle, cancel, replace, handle,
                   credential, stale>>

-----------------------------------------------------------------------------
\* replace_sdk_computer, under the lifecycle lock.

CloseAdmission ==
    /\ replace = "idle" /\ lifecycle = "free" /\ handle < MaxHandles
    /\ lifecycle' = "replace" /\ replace' = "cancel"
    /\ admission' = [admission EXCEPT !.open = FALSE]
    /\ UNCHANGED <<begin, flow, fence, cancel, change, handle, credential, stale>>

\* cancel_all_oauth_authorizations: a failed cancellation is logged.
CancelAll ==
    /\ replace = "cancel"
    /\ \/ CancelEntry("replace") /\ UNCHANGED replace
       \/ /\ flow = NoEntry /\ cancel["replace"] = NoCancel
          /\ replace' = "swap" /\ UNCHANGED <<flow, cancel>>
       \/ /\ cancel["replace"].step = "done"
          /\ cancel' = [cancel EXCEPT !["replace"] = NoCancel]
          /\ flow' = NoEntry /\ replace' = "swap"
    /\ UNCHANGED <<begin, admission, fence, lifecycle, change, handle, credential, stale>>

\* The new handle is installed, or the old one's teardown failed; the guard reopens.
SwapHandle ==
    /\ replace = "swap"
    /\ handle' \in {handle, handle + 1}
    /\ replace' = "reopen"
    /\ UNCHANGED <<begin, flow, admission, fence, lifecycle, cancel, change, credential,
                   stale>>

Reopen ==
    /\ replace = "reopen"
    /\ replace' = "idle" /\ lifecycle' = "free"
    /\ admission' = [admission EXCEPT !.open = TRUE]
    /\ UNCHANGED <<begin, flow, fence, cancel, change, handle, credential, stale>>

OAuthNext ==
    \/ \E f \in Flows :
           \/ WaitForFence(f) \/ Reserve(f) \/ CreateFlow(f) \/ Register(f) \/ Launch(f)
           \/ WaitForCallback(f) \/ Retire(f) \/ AwaitCallback(f) \/ ClaimCallback(f)
           \/ CompleteFlow(f) \/ RemoveFlow(f)
    \/ CancelUser \/ \E c \in Cancellers : CancelSdkFlow(c) \/ CancelRemove(c)
    \/ StartChange \/ ChangeLocks \/ ChangeBlocks \/ ChangeCancels \/ EraseCredential
    \/ MountServer
    \/ CloseAdmission \/ CancelAll \/ SwapHandle \/ Reopen

OAuthSpec == OAuthInit /\ [][OAuthNext]_oauthVars

-----------------------------------------------------------------------------
OAuthTypeOK ==
    /\ begin \in [Flows -> [pc : {"idle", "reserve", "create", "register", "launch", "wait",
                                  "callback", "claim", "complete", "remove", "retire",
                                  "done"},
                            sdk : {"none", "live", "authorized", "terminated"},
                            handle : 0..(MaxHandles + 1)]]
    /\ flow \in [id : Flows \cup {NoFlow}, sdk : BOOLEAN, listener : BOOLEAN,
                 phase : {"none", "Preparing", "WaitingForCallback", "Completing"}]
    /\ admission \in [open : BOOLEAN, blocks : 0..2]
    /\ fence \in Flows \cup {"free", "change"}
    /\ lifecycle \in {"free", "change", "replace"}
    /\ cancel \in [Cancellers -> [step : {"idle", "sdk", "remove", "done"},
                                  id : Flows \cup {NoFlow}, ok : BOOLEAN]]
    /\ change \in [kind : {"none", "clear", "identity", "remove", "mount"}, at : 0..15]
    /\ replace \in {"idle", "cancel", "swap", "reopen"}
    /\ handle \in 0..(MaxHandles + 1)
    /\ credential \in Flows \cup {NoFlow} /\ stale \subseteq Flows

\* An authorization that was cleared stays cleared: no flow that was reserved before
\* the keychain entry was erased stores its token afterwards.
ClearedStaysCleared == credential \notin stale

\* Replacement misses no flow: what the map holds belongs to the installed handle.
FlowIsOfThisHandle ==
    flow.sdk => begin[flow.id].handle = handle

AuthorizationHolds == ClearedStaysCleared /\ FlowIsOfThisHandle
=============================================================================
