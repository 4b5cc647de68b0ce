---------------------------- MODULE MCClient ----------------------------
(***************************************************************************)
(* The client's sessions, credentials, targets and records in one run.  In *)
(* the models these parts share no state, so their product would show      *)
(* nothing more than each alone: every behaviour is one of the component   *)
(* `subject`, and the others stay where they are.                          *)
(***************************************************************************)
EXTENDS TokenBridge, KeychainAccess, ConnectionTargets, ManagerSession, ChatSession,
        ActivityJournal, TLC

CONSTANT Parked     \* the state of a component that does not move
VARIABLE subject    \* the component that moves

Components == {"bridge", "keychain", "targets", "session", "chat", "activity"}

Symmetry == Permutations(Computers) \cup Permutations(Connects)

-----------------------------------------------------------------------------
\* A component that does not move has no state to enumerate.
SessionStart ==
    IF subject = "session" THEN SessionInit
    ELSE
         /\ metadata = Parked /\ jwt = Parked /\ session = Parked /\ generation = Parked
         /\ snapshot = Parked /\ tx = Parked /\ request = Parked /\ issued = Parked
         /\ retired = Parked
ChatStart ==
    IF subject = "chat" THEN ChatInit
    ELSE
         /\ chatManager = Parked /\ chatShown = Parked /\ chatOpening = Parked
         /\ chatLeases = Parked /\ activeSelection = Parked /\ chatKind = Parked
         /\ chatRequest = Parked /\ chatEntries = Parked /\ recents = Parked
         /\ credentialsHanded = Parked /\ workDelivered = Parked
ActivityStart ==
    IF subject = "activity" THEN JournalInit
    ELSE
         /\ run = Parked /\ startedRuns = Parked /\ marker = Parked /\ accounts = Parked
         /\ journal = Parked /\ retention = Parked /\ oldRecord = Parked /\ mayGo = Parked
         /\ observed = Parked /\ actual = Parked /\ opened = Parked /\ closings = Parked

Init ==
    /\ subject \in Components
    /\ BridgeInit /\ TargetsInit /\ KeychainInit
    /\ subject # "keychain" => stored = NoSecret
    /\ SessionStart /\ ChatStart /\ ActivityStart

\* Only component c moves.
Only(c) ==
    /\ subject = c /\ UNCHANGED subject
    /\ IF c = "bridge" THEN TRUE ELSE UNCHANGED bridgeVars
    /\ IF c = "keychain" THEN TRUE ELSE UNCHANGED keychainVars
    /\ IF c = "targets" THEN TRUE ELSE UNCHANGED targetVars
    /\ IF c = "session" THEN TRUE ELSE UNCHANGED sessionVars
    /\ IF c = "chat" THEN TRUE ELSE UNCHANGED chatVars
    /\ IF c = "activity" THEN TRUE ELSE UNCHANGED journalVars

BridgeStep == Only("bridge") /\ BridgeNext
KeychainStep == Only("keychain") /\ KeychainNext
TargetsStep == Only("targets") /\ TargetsNext
SessionStep == Only("session") /\ SessionNext
ChatStep == Only("chat") /\ ChatNext
ActivityStep == Only("activity") /\ JournalNext

Next ==
    \/ BridgeStep \/ KeychainStep \/ TargetsStep \/ SessionStep \/ ChatStep
    \/ ActivityStep

vars == <<subject, bridgeVars, keychainVars, targetVars,
          sessionVars, chatVars, journalVars>>

Spec == Init /\ [][Next]_vars

-----------------------------------------------------------------------------
\* Every variable of the component that moves has its type.
ClientTypeOK ==
    /\ BridgeTypeOK /\ KeychainTypeOK /\ TargetsTypeOK
    /\ subject = "session" => SessionTypeOK
    /\ subject = "chat" => ChatTypeOK
    /\ subject = "activity" => JournalTypeOK

\* Who acts for a Manager session acts for the present one: a replaced credential is never
\* restored, a late 401 removes only the session the server refused, and no chat lease,
\* credential or transfer outlives the session it was opened in (manager_context.rs,
\* chat_session.rs); and what the client records of its runs and of outages is what
\* happened (observability).
SessionsHold ==
    /\ subject = "session" =>
           NeverRevived /\ RefusedIsCurrent /\ SnapshotIsSession
    /\ subject = "chat" => ChatHolds
    /\ subject = "activity" => JournalHolds

=============================================================================
