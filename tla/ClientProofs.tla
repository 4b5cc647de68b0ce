---------------------------- MODULE ClientProofs ----------------------------
(***************************************************************************)
(* Proofs about the client's sessions and records, for any number of       *)
(* environments, requests, selections, runs and outages: ManagerSession,   *)
(* ChatSession and ActivityJournal, and then MCClient's SessionsHold.      *)
(***************************************************************************)
EXTENDS MCClient, CredentialProofs, FiniteSetTheorems, TLAPS

-----------------------------------------------------------------------------
(* ManagerSession. *)

\* What may still run under the Manager session that a transaction found.
Untouched == {"free", "clear", "http", "save", "publish", "nonAuth", "load", "restoreMetadata"}
Committed == {"me", "persist"}

\* Which transaction is at which step.
StepInv ==
    /\ tx.step = "free" => tx = NoTransaction
    /\ tx.step \in {"nonAuth", "restoreMetadata"} => tx.op = "login"
    /\ tx.step = "clear" => tx.op \in {"login", "logout"}
    /\ tx.step \in {"http", "save", "publish"} => tx.op \in {"login", "select", "switch"}
    /\ tx.step \in {"load", "logout"} => tx.op \notin {"login", "select"}
    /\ tx.op = "login" /\ tx.step \in Untouched => tx.environment \in Environments
    /\ tx.step = "abortMetadata" => ~HasSession

\* The present session is that of the present generation.
SessionInv ==
    HasSession => session.generation = generation /\ session.environment \in Environments

\* A credential that is about to be used is the last one issued, or the one the
\* keychain holds, and has not been retired.
CredentialInv ==
    /\ retired \subseteq 1..issued
    /\ session.credential <= issued /\ tx.credential <= issued
    /\ \A e \in Environments : jwt[e] <= issued
    /\ tx.step \in {"save", "publish", "nonAuth"} =>
           tx.credential = issued /\ issued # 0 /\ issued \notin retired
    /\ tx.step \in {"save", "publish"} =>
           /\ tx.environment \in Environments
           /\ tx.op # "login" => HasSession /\ tx.environment = session.environment
           /\ tx.op = "select" => session.pending
    /\ tx.step = "publish" => jwt[tx.environment] = issued
    /\ tx.step \in Committed =>
           /\ HasSession /\ ~session.pending
           /\ session.environment = tx.environment
           /\ session.credential = tx.credential
           /\ jwt[tx.environment] = tx.credential
           /\ tx.credential \notin retired

\* Metadata names the environment of the present session and a credential that
\* may be restored.
Restores(m) ==
    m # SignedOutMetadata =>
        /\ m.environment \in Environments
        /\ HasSession => m.environment = session.environment
        /\ jwt[m.environment] \notin retired
MetadataInv ==
    /\ Restores(metadata)
    /\ tx.op = "login" /\ tx.step \in Untouched \ {"clear"} =>
           metadata = SignedOutMetadata /\ Restores(tx.previous)

\* The snapshot shows the session until a transaction commits another one.
Shown ==
    /\ (snapshot.state = "Authenticated") <=> (HasSession /\ ~session.pending)
    /\ HasSession => session.environment = snapshot.environment
    /\ snapshot.state = "Authenticated" => session.credential = snapshot.credential
SnapshotInv ==
    /\ tx.step \in Untouched => Shown
    /\ tx.op = "select" /\ tx.step \in Committed =>
           snapshot.environment = tx.environment

\* What a request was sent with is the session of its generation.
RequestInv ==
    \A r \in Requests :
        request[r].phase \in {"sent", "answered"} =>
            /\ request[r].generation <= generation
            /\ HasSession /\ request[r].generation = generation =>
                   request[r].credential = session.credential

SInv == /\ SessionTypeOK /\ StepInv /\ SessionInv /\ CredentialInv /\ MetadataInv
        /\ SnapshotInv /\ RequestInv /\ RefusedIsCurrent

USE SessionAssumption
    DEF SessionTypeOK, Credentials, Generations, SomeEnvironment, SessionSteps,
        SignedOutMetadata, NoClientSession, SignedOut, NoTransaction, NoRequestState,
        HasSession, NewSession, DeleteJwt, MayRequest, GoTo, EndWith, EndUnchanged,
        WriteMetadata, Retire, disk, client, server, Untouched, Committed,
        Begin, CommitFailed, CanCall, OtherEnvironment, LocalLogout, Outdated,
        Restores, Shown


LEMMA BeginKeeps ==
    ASSUME SInv, NEW environment \in SomeEnvironment,
           NEW o \in {"login", "select", "switch", "restore", "logout"},
           NEW step \in {"clear", "http", "load"}, Begin(o, step, environment),
           o = "login" => environment \in Environments,
           step = "clear" => o \in {"login", "logout"},
           step = "http" => o \in {"select", "switch"},
           step = "load" => o = "restore"
    PROVE  SInv'
  <1> USE DEF SInv
  <1>1. /\ tx = NoTransaction
        /\ tx' = [op |-> o, step |-> step, environment |-> environment,
                  credential |-> 0, previous |-> SignedOutMetadata, refused |-> 0]
        /\ UNCHANGED <<metadata, jwt, session, generation, snapshot, request, issued,
                       retired>>
    OBVIOUS
  <1>2. SessionTypeOK'
    BY <1>1
  <1>3. StepInv' /\ SessionInv' /\ RequestInv' /\ RefusedIsCurrent'
    BY <1>1 DEF StepInv, SessionInv, RequestInv, RefusedIsCurrent
  <1>4. CredentialInv'
    BY <1>1 DEF CredentialInv
  <1>5. MetadataInv'
    BY <1>1 DEF MetadataInv
  <1>6. SnapshotInv'
    BY <1>1 DEF SnapshotInv
  <1> QED
    BY <1>2, <1>3, <1>4, <1>5, <1>6

LEMMA ClearMetadataKeeps ==
    ASSUME SInv, ClearMetadata
    PROVE  SInv'
  <1> USE DEF SInv, ClearMetadata
  <1>1. ASSUME NEW previous \in {metadata, SignedOutMetadata},
               metadata' = SignedOutMetadata, snapshot' = snapshot,
               tx' = [tx EXCEPT !.previous = previous,
                          !.step = IF tx.op = "login" THEN "http" ELSE "logout"]
        PROVE  SInv'
    <2>1. tx' = [op |-> tx.op, environment |-> tx.environment,
                 credential |-> tx.credential, refused |-> tx.refused,
                 previous |-> previous,
                 step |-> IF tx.op = "login" THEN "http" ELSE "logout"]
      BY <1>1
    <2>2. SessionTypeOK'
      <3>1. previous \in [environment : SomeEnvironment, credential : Credentials]
        OBVIOUS
      <3>2. UNCHANGED <<jwt, session, generation, snapshot, request, issued, retired>>
        BY <1>1
      <3>3. tx' \in [op : {"none", "login", "select", "switch", "restore", "logout",
                           "expire"},
                     step : SessionSteps, environment : SomeEnvironment,
                     credential : Credentials,
                     previous : [environment : SomeEnvironment, credential : Credentials],
                     refused : Credentials]
        <4> HIDE DEF ClearMetadata
        <4> QED
          BY <2>1, <3>1
      <3> HIDE DEF ClearMetadata
      <3> QED
        BY <1>1, <3>2, <3>3
    <2>3. StepInv' /\ SessionInv' /\ RequestInv' /\ RefusedIsCurrent'
      BY <1>1, <2>1 DEF StepInv, SessionInv, RequestInv, RefusedIsCurrent
    <2>4. CredentialInv'
      BY <1>1, <2>1 DEF CredentialInv
    <2>5. MetadataInv'
      BY <1>1, <2>1 DEF MetadataInv
    <2>6. SnapshotInv'
      BY <1>1, <2>1 DEF SnapshotInv, StepInv
    <2> QED
      BY <2>2, <2>3, <2>4, <2>5, <2>6
  <1>2. ASSUME metadata' = metadata,
               IF tx.op = "login" THEN EndUnchanged
               ELSE GoTo("logout") /\ UNCHANGED snapshot
        PROVE  SInv'
    <2>1. SessionTypeOK'
      BY <1>2
    <2>2. StepInv' /\ SessionInv' /\ RequestInv' /\ RefusedIsCurrent'
      BY <1>2 DEF StepInv, SessionInv, RequestInv, RefusedIsCurrent
    <2>3. CredentialInv'
      BY <1>2 DEF CredentialInv
    <2>4. MetadataInv'
      BY <1>2 DEF MetadataInv
    <2>5. SnapshotInv'
      BY <1>2 DEF SnapshotInv, StepInv
    <2> QED
      BY <2>1, <2>2, <2>3, <2>4, <2>5
  <1> QED
    BY <1>1, <1>2

LEMMA ServerAcceptsKeeps ==
    ASSUME SInv, ServerAccepts
    PROVE  SInv'
  <1> USE DEF SInv
  <1> DEFINE environment == IF tx.op = "login" THEN tx.environment ELSE session.environment
  <1>1. /\ tx.step = "http" /\ issued' = issued + 1 /\ issued + 1 \in 1..MaxCredential
        /\ tx.op = "login" \/ (HasSession /\ (tx.op = "select" => session.pending))
        /\ UNCHANGED <<metadata, jwt, session, generation, snapshot, request, retired>>
    <2>1. tx.step = "http" /\ CanCall /\ issued' = issued + 1 /\ issued < MaxCredential
      BY DEF ServerAccepts
    <2>2. tx.op \in {"login", "select", "switch"}
      BY <2>1 DEF StepInv
    <2>3. tx.op = "login" \/ (HasSession /\ (tx.op = "select" => session.pending))
      BY <2>1, <2>2
    <2>4. UNCHANGED <<metadata, jwt, session, generation, snapshot, request, retired>>
      BY DEF ServerAccepts
    <2> QED
      BY <2>1, <2>3, <2>4
  <1>2. tx' = [op |-> tx.op, step |-> "save", environment |-> environment,
               credential |-> issued + 1, previous |-> tx.previous,
               refused |-> tx.refused]
    BY DEF ServerAccepts
  <1>3. environment \in Environments
    BY <1>1 DEF StepInv, SessionInv
  <1>4. SessionTypeOK'
    BY <1>1, <1>2, <1>3
  <1>5. StepInv' /\ SessionInv' /\ RequestInv' /\ RefusedIsCurrent'
    BY <1>1, <1>2, <1>3 DEF StepInv, SessionInv, RequestInv, RefusedIsCurrent
  <1>6. CredentialInv'
    <2>1. retired \subseteq 1..issued /\ session.credential <= issued
          /\ \A e \in Environments : jwt[e] <= issued
      BY DEF CredentialInv
    <2> QED
      BY <1>1, <1>2, <1>3, <2>1 DEF CredentialInv
  <1>7. MetadataInv' /\ SnapshotInv'
    BY <1>1, <1>2 DEF MetadataInv, SnapshotInv
  <1> QED
    BY <1>4, <1>5, <1>6, <1>7

LEMMA ServerDefersKeeps ==
    ASSUME SInv, ServerDefers
    PROVE  SInv'
  <1> USE DEF SInv
  <1>1. /\ tx.step = "http" /\ issued' = issued + 1 /\ issued + 1 \in 1..MaxCredential
        /\ tx.op = "login"
        /\ UNCHANGED <<metadata, jwt, session, generation, snapshot, request, retired>>
    BY DEF ServerDefers
  <1>2. tx' = [op |-> tx.op, step |-> "nonAuth", environment |-> tx.environment,
               credential |-> issued + 1, previous |-> tx.previous,
               refused |-> tx.refused]
    BY DEF ServerDefers
  <1>3. SessionTypeOK'
    BY <1>1, <1>2
  <1>4. StepInv' /\ SessionInv' /\ RequestInv' /\ RefusedIsCurrent'
    BY <1>1, <1>2 DEF StepInv, SessionInv, RequestInv, RefusedIsCurrent
  <1>5. CredentialInv'
    <2>1. retired \subseteq 1..issued /\ session.credential <= issued
          /\ \A e \in Environments : jwt[e] <= issued
      BY DEF CredentialInv
    <2> QED
      BY <1>1, <1>2, <2>1 DEF CredentialInv
  <1>6. MetadataInv' /\ SnapshotInv'
    BY <1>1, <1>2 DEF MetadataInv, SnapshotInv
  <1> QED
    BY <1>3, <1>4, <1>5, <1>6

LEMMA ServerRefusesKeeps ==
    ASSUME SInv, ServerRefuses
    PROVE  SInv'
  <1> USE DEF SInv, ServerRefuses
  <1>1. CASE tx.op = "login" /\ GoTo("restoreMetadata") /\ UNCHANGED snapshot
    <2>1. SessionTypeOK'
      BY <1>1
    <2>2. StepInv' /\ SessionInv' /\ RequestInv' /\ RefusedIsCurrent'
      BY <1>1 DEF StepInv, SessionInv, RequestInv, RefusedIsCurrent
    <2>3. CredentialInv' /\ MetadataInv' /\ SnapshotInv'
      BY <1>1 DEF CredentialInv, MetadataInv, SnapshotInv
    <2> QED
      BY <2>1, <2>2, <2>3
  <1>2. CASE EndUnchanged
    <2>1. SessionTypeOK'
      BY <1>2
    <2>2. StepInv' /\ SessionInv' /\ RequestInv' /\ RefusedIsCurrent'
      BY <1>2 DEF StepInv, SessionInv, RequestInv, RefusedIsCurrent
    <2>3. CredentialInv' /\ MetadataInv' /\ SnapshotInv'
      BY <1>2 DEF CredentialInv, MetadataInv, SnapshotInv
    <2> QED
      BY <2>1, <2>2, <2>3
  <1>3. CASE /\ tx' = [tx EXCEPT !.step = "expireMetadata",
                                 !.refused = session.credential]
             /\ tx.op # "login" /\ UNCHANGED snapshot
    <2>1. tx' = [op |-> tx.op, environment |-> tx.environment,
                 credential |-> tx.credential, refused |-> session.credential,
                 previous |-> tx.previous, step |-> "expireMetadata"]
      BY <1>3
    <2>2. SessionTypeOK'
      BY <1>3, <2>1
    <2>3. StepInv' /\ SessionInv' /\ RequestInv' /\ RefusedIsCurrent'
      BY <1>3, <2>1 DEF StepInv, SessionInv, RequestInv, RefusedIsCurrent
    <2>4. CredentialInv' /\ MetadataInv' /\ SnapshotInv'
      BY <1>3, <2>1 DEF CredentialInv, MetadataInv, SnapshotInv
    <2> QED
      BY <2>2, <2>3, <2>4
  <1> QED
    BY <1>1, <1>2, <1>3

LEMMA RestoreMetadataKeeps ==
    ASSUME SInv, RestoreMetadata
    PROVE  SInv'
  <1> USE DEF SInv, RestoreMetadata
  <1>1. SessionTypeOK'
    BY DEF StepInv, CredentialInv, MetadataInv, SessionInv
  <1>2. StepInv' /\ SessionInv' /\ RequestInv' /\ RefusedIsCurrent'
    BY DEF StepInv, SessionInv, RequestInv, RefusedIsCurrent
  <1>3. CredentialInv'
    BY DEF StepInv, SessionInv, CredentialInv, MetadataInv
  <1>4. MetadataInv'
    BY DEF StepInv, SessionInv, CredentialInv, MetadataInv, SnapshotInv
  <1>5. SnapshotInv'
    BY DEF StepInv, SnapshotInv, CredentialInv
  <1> QED
    BY <1>1, <1>2, <1>3, <1>4, <1>5

LEMMA SaveJwtKeeps ==
    ASSUME SInv, SaveJwt
    PROVE  SInv'
  <1> USE DEF SInv, SaveJwt
  <1>1. SessionTypeOK'
    BY DEF StepInv, CredentialInv, MetadataInv, SessionInv
  <1>2. StepInv' /\ SessionInv' /\ RequestInv' /\ RefusedIsCurrent'
    BY DEF StepInv, SessionInv, RequestInv, RefusedIsCurrent
  <1>3. CredentialInv'
    BY DEF StepInv, SessionInv, CredentialInv, MetadataInv
  <1>4. MetadataInv'
    BY DEF StepInv, SessionInv, CredentialInv, MetadataInv, SnapshotInv
  <1>5. SnapshotInv'
    BY DEF StepInv, SnapshotInv, CredentialInv
  <1> QED
    BY <1>1, <1>2, <1>3, <1>4, <1>5

LEMMA PublishSessionKeeps ==
    ASSUME SInv, PublishSession
    PROVE  SInv'
  <1> USE DEF SInv, PublishSession
  <1>1. SessionTypeOK'
    BY DEF StepInv, CredentialInv, MetadataInv, SessionInv
  <1>2. StepInv' /\ SessionInv' /\ RequestInv' /\ RefusedIsCurrent'
    BY DEF StepInv, SessionInv, RequestInv, RefusedIsCurrent, CredentialInv
  <1>3. CredentialInv'
    BY DEF StepInv, SessionInv, CredentialInv, MetadataInv
  <1>4. MetadataInv'
    BY DEF StepInv, SessionInv, CredentialInv, MetadataInv, SnapshotInv
  <1>5. SnapshotInv'
    BY DEF StepInv, SnapshotInv, CredentialInv
  <1> QED
    BY <1>1, <1>2, <1>3, <1>4, <1>5

LEMMA RollBackJwtKeeps ==
    ASSUME SInv, RollBackJwt
    PROVE  SInv'
  <1> USE DEF SInv, RollBackJwt
  <1>1. SessionTypeOK'
    BY DEF StepInv, CredentialInv, MetadataInv, SessionInv
  <1>2. StepInv' /\ SessionInv' /\ RequestInv' /\ RefusedIsCurrent'
    BY DEF StepInv, SessionInv, RequestInv, RefusedIsCurrent
  <1>3. CredentialInv'
    BY DEF StepInv, SessionInv, CredentialInv, MetadataInv
  <1>4. MetadataInv'
    BY DEF StepInv, SessionInv, CredentialInv, MetadataInv, SnapshotInv
  <1>5. SnapshotInv'
    BY DEF StepInv, SnapshotInv, CredentialInv
  <1> QED
    BY <1>1, <1>2, <1>3, <1>4, <1>5

LEMMA CommitNonAuthenticatedKeeps ==
    ASSUME SInv, CommitNonAuthenticated
    PROVE  SInv'
  <1> USE DEF SInv, CommitNonAuthenticated
  <1>1. SessionTypeOK'
    BY DEF StepInv, CredentialInv, MetadataInv, SessionInv
  <1>2. StepInv' /\ SessionInv' /\ RequestInv' /\ RefusedIsCurrent'
    BY DEF StepInv, SessionInv, RequestInv, RefusedIsCurrent
  <1>3. CredentialInv'
    BY DEF StepInv, SessionInv, CredentialInv, MetadataInv
  <1>4. MetadataInv'
    BY DEF StepInv, SessionInv, CredentialInv, MetadataInv, SnapshotInv
  <1>5. SnapshotInv'
    BY DEF StepInv, SnapshotInv, CredentialInv
  <1> QED
    BY <1>1, <1>2, <1>3, <1>4, <1>5

LEMMA NonAuthenticatedFailsKeeps ==
    ASSUME SInv, NonAuthenticatedFails
    PROVE  SInv'
  <1> USE DEF SInv, NonAuthenticatedFails
  <1>1. SessionTypeOK'
    BY DEF StepInv, CredentialInv, MetadataInv, SessionInv
  <1>2. StepInv' /\ SessionInv' /\ RequestInv' /\ RefusedIsCurrent'
    BY DEF StepInv, SessionInv, RequestInv, RefusedIsCurrent
  <1>3. CredentialInv'
    BY DEF StepInv, SessionInv, CredentialInv, MetadataInv
  <1>4. MetadataInv'
    BY DEF StepInv, SessionInv, CredentialInv, MetadataInv, SnapshotInv
  <1>5. SnapshotInv'
    BY DEF StepInv, SnapshotInv, CredentialInv
  <1> QED
    BY <1>1, <1>2, <1>3, <1>4, <1>5

LEMMA LoadNothingKeeps ==
    ASSUME SInv, LoadNothing
    PROVE  SInv'
  <1> USE DEF SInv, LoadNothing
  <1>1. SessionTypeOK'
    BY DEF StepInv, CredentialInv, MetadataInv, SessionInv
  <1>2. StepInv' /\ SessionInv' /\ RequestInv' /\ RefusedIsCurrent'
    BY DEF StepInv, SessionInv, RequestInv, RefusedIsCurrent
  <1>3. CredentialInv'
    BY DEF StepInv, SessionInv, CredentialInv, MetadataInv
  <1>4. MetadataInv'
    BY DEF StepInv, SessionInv, CredentialInv, MetadataInv, SnapshotInv
  <1>5. SnapshotInv'
    BY DEF StepInv, SnapshotInv, CredentialInv
  <1> QED
    BY <1>1, <1>2, <1>3, <1>4, <1>5

LEMMA LoadWithoutJwtKeeps ==
    ASSUME SInv, LoadWithoutJwt
    PROVE  SInv'
  <1> USE DEF SInv, LoadWithoutJwt
  <1>1. SessionTypeOK'
    BY DEF StepInv, CredentialInv, MetadataInv, SessionInv
  <1>2. StepInv' /\ SessionInv' /\ RequestInv' /\ RefusedIsCurrent'
    BY DEF StepInv, SessionInv, RequestInv, RefusedIsCurrent
  <1>3. CredentialInv'
    BY DEF StepInv, SessionInv, CredentialInv, MetadataInv
  <1>4. MetadataInv'
    BY DEF StepInv, SessionInv, CredentialInv, MetadataInv, SnapshotInv
  <1>5. SnapshotInv'
    BY DEF StepInv, SnapshotInv, CredentialInv
  <1> QED
    BY <1>1, <1>2, <1>3, <1>4, <1>5

LEMMA LoadSessionKeeps ==
    ASSUME SInv, LoadSession
    PROVE  SInv'
  <1> USE DEF SInv
  <1> DEFINE environment == metadata.environment
  <1>1. environment \in Environments /\ jwt[environment] \in Credentials \ retired
    BY DEF LoadSession, MetadataInv
  <1>2. /\ session' = [generation |-> generation + 1, environment |-> environment,
                       credential |-> jwt[environment], pending |-> FALSE]
        /\ generation' = generation + 1
        /\ tx.step = "load" /\ tx.op \notin {"login", "select"}
        /\ UNCHANGED <<metadata, jwt, snapshot, request, issued, retired>>
    BY DEF LoadSession, StepInv
  <1>3. tx' = [op |-> tx.op, step |-> "me", environment |-> environment,
               credential |-> jwt[environment], previous |-> tx.previous,
               refused |-> tx.refused]
    BY DEF LoadSession
  <1>4. SessionTypeOK'
    BY <1>1, <1>2, <1>3
  <1>5. StepInv' /\ RefusedIsCurrent'
    BY <1>1, <1>2, <1>3 DEF StepInv, RefusedIsCurrent
  <1>6. SessionInv' /\ RequestInv'
    BY <1>1, <1>2 DEF SessionInv, RequestInv
  <1>7. CredentialInv'
    BY <1>1, <1>2, <1>3 DEF CredentialInv
  <1>8. MetadataInv' /\ SnapshotInv'
    BY <1>1, <1>2, <1>3 DEF MetadataInv, SnapshotInv
  <1> QED
    BY <1>4, <1>5, <1>6, <1>7, <1>8

LEMMA MeKeeps ==
    ASSUME SInv, Me
    PROVE  SInv'
  <1> USE DEF SInv, Me
  <1>1. ASSUME NEW step \in {"persist", "abortClient"}, GoTo(step),
               UNCHANGED <<client, snapshot>>
        PROVE  SInv'
    <2>1. SessionTypeOK'
      BY <1>1
    <2>2. StepInv' /\ SessionInv' /\ RequestInv' /\ RefusedIsCurrent'
      BY <1>1 DEF StepInv, SessionInv, RequestInv, RefusedIsCurrent
    <2>3. CredentialInv'
      BY <1>1 DEF CredentialInv
    <2>4. MetadataInv'
      BY <1>1 DEF MetadataInv
    <2>5. SnapshotInv'
      BY <1>1 DEF SnapshotInv
    <2> QED
      BY <2>1, <2>2, <2>3, <2>4, <2>5
  <1>2. CASE /\ tx' = [tx EXCEPT !.step = "expireMetadata",
                                 !.refused = session.credential]
             /\ UNCHANGED <<client, snapshot>>
    <2>1. tx' = [op |-> tx.op, environment |-> tx.environment,
                 credential |-> tx.credential, refused |-> session.credential,
                 previous |-> tx.previous, step |-> "expireMetadata"]
      BY <1>2
    <2>2. SessionTypeOK'
      BY <1>2, <2>1
    <2>3. StepInv' /\ SessionInv' /\ RequestInv' /\ RefusedIsCurrent'
      BY <1>2, <2>1 DEF StepInv, SessionInv, RequestInv, RefusedIsCurrent
    <2>4. CredentialInv' /\ MetadataInv' /\ SnapshotInv'
      BY <1>2, <2>1 DEF CredentialInv, MetadataInv, SnapshotInv
    <2> QED
      BY <2>2, <2>3, <2>4
  <1>3. CASE session' = NoClientSession /\ generation' = generation + 1
             /\ EndWith(SignedOut)
    <2>1. SessionTypeOK'
      BY <1>3
    <2>2. StepInv' /\ SessionInv' /\ RequestInv' /\ RefusedIsCurrent'
      BY <1>3 DEF StepInv, SessionInv, RequestInv, RefusedIsCurrent
    <2>3. CredentialInv'
      BY <1>3 DEF CredentialInv
    <2>4. MetadataInv' /\ SnapshotInv'
      BY <1>3 DEF MetadataInv, SnapshotInv
    <2> QED
      BY <2>1, <2>2, <2>3, <2>4
  <1> QED
    BY <1>1, <1>2, <1>3

LEMMA PersistKeeps ==
    ASSUME SInv, Persist
    PROVE  SInv'
  <1> USE DEF SInv, Persist
  <1>1. SessionTypeOK'
    BY DEF StepInv, CredentialInv, MetadataInv, SessionInv
  <1>2. StepInv' /\ SessionInv' /\ RequestInv' /\ RefusedIsCurrent'
    BY DEF StepInv, SessionInv, RequestInv, RefusedIsCurrent
  <1>3. CredentialInv'
    BY DEF StepInv, SessionInv, CredentialInv, MetadataInv
  <1>4. MetadataInv'
    BY DEF StepInv, SessionInv, CredentialInv, MetadataInv, SnapshotInv
  <1>5. SnapshotInv'
    BY DEF StepInv, SnapshotInv, CredentialInv
  <1> QED
    BY <1>1, <1>2, <1>3, <1>4, <1>5

LEMMA ClientLogoutKeeps ==
    ASSUME SInv, ClientLogout
    PROVE  SInv'
  <1> USE DEF SInv, ClientLogout
  <1>1. SessionTypeOK'
    BY DEF StepInv, CredentialInv, MetadataInv, SessionInv
  <1>2. StepInv' /\ SessionInv' /\ RequestInv' /\ RefusedIsCurrent'
    BY DEF StepInv, SessionInv, RequestInv, RefusedIsCurrent
  <1>3. CredentialInv'
    BY DEF StepInv, SessionInv, CredentialInv, MetadataInv
  <1>4. MetadataInv'
    BY DEF StepInv, SessionInv, CredentialInv, MetadataInv, SnapshotInv
  <1>5. SnapshotInv'
    BY DEF StepInv, SnapshotInv, CredentialInv
  <1> QED
    BY <1>1, <1>2, <1>3, <1>4, <1>5

LEMMA AbortMetadataKeeps ==
    ASSUME SInv, AbortMetadata
    PROVE  SInv'
  <1> USE DEF SInv
  <1>1. /\ tx.step = "abortMetadata" /\ tx' = NoTransaction /\ snapshot' = SignedOut
        /\ UNCHANGED <<jwt, session, generation, request, issued>>
    BY DEF AbortMetadata
  <1>2. \/ metadata' = SignedOutMetadata /\ retired' = retired \cup ({tx.credential} \ {0})
        \/ UNCHANGED <<metadata, retired>>
    BY DEF AbortMetadata
  <1>3. retired' \subseteq 1..issued /\ ~HasSession
    <2>1. retired \subseteq 1..issued /\ tx.credential <= issued
      BY DEF CredentialInv
    <2>2. {tx.credential} \ {0} \subseteq 1..issued
      BY <2>1
    <2>3. retired' \subseteq 1..issued
      BY <1>2, <2>1, <2>2
    <2>4. ~HasSession
      BY <1>1 DEF StepInv
    <2> QED
      BY <2>3, <2>4
  <1>4. SessionTypeOK'
    BY <1>1, <1>2, <1>3
  <1>5. StepInv' /\ SessionInv' /\ RequestInv' /\ RefusedIsCurrent'
    BY <1>1 DEF StepInv, SessionInv, RequestInv, RefusedIsCurrent
  <1>6. CredentialInv'
    BY <1>1, <1>3 DEF CredentialInv
  <1>7. MetadataInv'
    BY <1>1, <1>2 DEF MetadataInv
  <1>8. SnapshotInv'
    BY <1>1, <1>3 DEF SnapshotInv
  <1> QED
    BY <1>4, <1>5, <1>6, <1>7, <1>8

LEMMA ExpireMetadataKeeps ==
    ASSUME SInv, ExpireMetadata
    PROVE  SInv'
  <1> USE DEF SInv, ExpireMetadata
  <1>1. SessionTypeOK'
    BY DEF StepInv, CredentialInv, MetadataInv, SessionInv
  <1>2. StepInv' /\ SessionInv' /\ RequestInv' /\ RefusedIsCurrent'
    BY DEF StepInv, SessionInv, RequestInv, RefusedIsCurrent
  <1>3. CredentialInv'
    BY DEF StepInv, SessionInv, CredentialInv, MetadataInv
  <1>4. MetadataInv'
    BY DEF StepInv, SessionInv, CredentialInv, MetadataInv, SnapshotInv
  <1>5. SnapshotInv'
    BY DEF StepInv, SnapshotInv, CredentialInv
  <1> QED
    BY <1>1, <1>2, <1>3, <1>4, <1>5

LEMMA ExpireSessionKeeps ==
    ASSUME SInv, ExpireSession
    PROVE  SInv'
  <1> USE DEF SInv, ExpireSession
  <1>1. SessionTypeOK'
    BY DEF StepInv, CredentialInv, MetadataInv, SessionInv
  <1>2. StepInv' /\ SessionInv' /\ RequestInv' /\ RefusedIsCurrent'
    BY DEF StepInv, SessionInv, RequestInv, RefusedIsCurrent
  <1>3. CredentialInv'
    BY DEF StepInv, SessionInv, CredentialInv, MetadataInv
  <1>4. MetadataInv'
    BY DEF StepInv, SessionInv, CredentialInv, MetadataInv, SnapshotInv
  <1>5. SnapshotInv'
    BY DEF StepInv, SnapshotInv, CredentialInv
  <1> QED
    BY <1>1, <1>2, <1>3, <1>4, <1>5

LEMMA SessionCrashKeeps ==
    ASSUME SInv, SessionCrash
    PROVE  SInv'
  <1> USE DEF SInv, SessionCrash
  <1>1. SessionTypeOK'
    BY DEF StepInv, CredentialInv, MetadataInv, SessionInv
  <1>2. StepInv' /\ SessionInv' /\ RequestInv' /\ RefusedIsCurrent'
    BY DEF StepInv, SessionInv, RequestInv, RefusedIsCurrent
  <1>3. CredentialInv'
    BY DEF StepInv, SessionInv, CredentialInv, MetadataInv
  <1>4. MetadataInv'
    BY DEF StepInv, SessionInv, CredentialInv, MetadataInv, SnapshotInv
  <1>5. SnapshotInv'
    BY DEF StepInv, SnapshotInv, CredentialInv
  <1> QED
    BY <1>1, <1>2, <1>3, <1>4, <1>5

LEMMA CaptureKeeps ==
    ASSUME SInv, NEW r \in Requests, Capture(r)
    PROVE  SInv'
  <1> USE DEF SInv, Capture
  <1>1. SessionTypeOK'
    <2> DEFINE R == [phase : {"idle", "captured", "sent", "answered"}, expected : Nat,
                     generation : Nat, credential : Credentials, unauthorized : BOOLEAN]
    <2>1. request[r] \in R
      OBVIOUS
    <2>2. PICK q \in R : request' = [request EXCEPT ![r] = q]
      BY <2>1, request' = [request EXCEPT ![r] = [request[r] EXCEPT !.phase = "captured", !.expected = generation]]
    <2>3. request' \in [Requests -> R]
      BY <2>2
    <2>4. UNCHANGED <<metadata, jwt, session, generation, snapshot, tx, issued, retired>>
      OBVIOUS
    <2> HIDE DEF Capture
    <2> QED
      BY <2>3, <2>4
  <1>2. StepInv' /\ SessionInv' /\ RequestInv' /\ RefusedIsCurrent'
    BY DEF StepInv, SessionInv, RequestInv, RefusedIsCurrent
  <1>3. CredentialInv'
    BY DEF StepInv, SessionInv, CredentialInv, MetadataInv
  <1>4. MetadataInv'
    BY DEF StepInv, SessionInv, CredentialInv, MetadataInv, SnapshotInv
  <1>5. SnapshotInv'
    BY DEF StepInv, SnapshotInv, CredentialInv
  <1> QED
    BY <1>1, <1>2, <1>3, <1>4, <1>5

LEMMA SendKeeps ==
    ASSUME SInv, NEW r \in Requests, Send(r)
    PROVE  SInv'
  <1> USE DEF SInv, Send
  <1>1. SessionTypeOK'
    <2> DEFINE R == [phase : {"idle", "captured", "sent", "answered"}, expected : Nat,
                     generation : Nat, credential : Credentials, unauthorized : BOOLEAN]
    <2>1. request[r] \in R
      OBVIOUS
    <2>2. PICK q \in R : request' = [request EXCEPT ![r] = q]
      <3>1. CASE HasSession /\ ~session.pending
        <4>1. [request[r] EXCEPT !.phase = "sent", !.generation = session.generation,
                                 !.credential = session.credential] \in R
          BY <2>1
        <4> QED
          BY <3>1, <4>1
      <3>2. CASE ~(HasSession /\ ~session.pending)
        <4>1. NoRequestState \in R
          OBVIOUS
        <4>2. request' = [request EXCEPT ![r] = NoRequestState]
          BY <3>2
        <4> QED
          BY <4>1, <4>2
      <3> QED
        BY <3>1, <3>2
    <2>3. request' \in [Requests -> R]
      BY <2>2
    <2>4. UNCHANGED <<metadata, jwt, session, generation, snapshot, tx, issued, retired>>
      OBVIOUS
    <2> HIDE DEF Send
    <2> QED
      BY <2>3, <2>4
  <1>2. StepInv' /\ SessionInv' /\ RequestInv' /\ RefusedIsCurrent'
    BY DEF StepInv, SessionInv, RequestInv, RefusedIsCurrent
  <1>3. CredentialInv'
    BY DEF StepInv, SessionInv, CredentialInv, MetadataInv
  <1>4. MetadataInv'
    BY DEF StepInv, SessionInv, CredentialInv, MetadataInv, SnapshotInv
  <1>5. SnapshotInv'
    BY DEF StepInv, SnapshotInv, CredentialInv
  <1> QED
    BY <1>1, <1>2, <1>3, <1>4, <1>5

LEMMA AnswerKeeps ==
    ASSUME SInv, NEW r \in Requests, Answer(r)
    PROVE  SInv'
  <1> USE DEF SInv, Answer
  <1>1. SessionTypeOK'
    <2> DEFINE R == [phase : {"idle", "captured", "sent", "answered"}, expected : Nat,
                     generation : Nat, credential : Credentials, unauthorized : BOOLEAN]
    <2>1. request[r] \in R
      OBVIOUS
    <2>2. PICK q \in R : request' = [request EXCEPT ![r] = q]
      BY <2>1
    <2>3. request' \in [Requests -> R]
      BY <2>2
    <2>4. UNCHANGED <<metadata, jwt, session, generation, snapshot, tx, issued, retired>>
      OBVIOUS
    <2> HIDE DEF Answer
    <2> QED
      BY <2>3, <2>4
  <1>2. StepInv' /\ SessionInv' /\ RequestInv' /\ RefusedIsCurrent'
    BY DEF StepInv, SessionInv, RequestInv, RefusedIsCurrent
  <1>3. CredentialInv'
    BY DEF StepInv, SessionInv, CredentialInv, MetadataInv
  <1>4. MetadataInv'
    BY DEF StepInv, SessionInv, CredentialInv, MetadataInv, SnapshotInv
  <1>5. SnapshotInv'
    BY DEF StepInv, SnapshotInv, CredentialInv
  <1> QED
    BY <1>1, <1>2, <1>3, <1>4, <1>5

LEMMA SettleKeeps ==
    ASSUME SInv, NEW r \in Requests, Settle(r)
    PROVE  SInv'
  <1> USE DEF SInv, Settle
  <1>1. SessionTypeOK'
    BY DEF StepInv, CredentialInv, MetadataInv, SessionInv
  <1>2. StepInv' /\ SessionInv' /\ RequestInv' /\ RefusedIsCurrent'
    BY DEF StepInv, SessionInv, RequestInv, RefusedIsCurrent
  <1>3. CredentialInv'
    BY DEF StepInv, SessionInv, CredentialInv, MetadataInv
  <1>4. MetadataInv'
    BY DEF StepInv, SessionInv, CredentialInv, MetadataInv, SnapshotInv
  <1>5. SnapshotInv'
    BY DEF StepInv, SnapshotInv, CredentialInv
  <1> QED
    BY <1>1, <1>2, <1>3, <1>4, <1>5

-----------------------------------------------------------------------------
(* The inductive invariant, and what it says. *)

LEMMA SessionInitInv == SessionInit => SInv
  BY DEF SessionInit, SInv, StepInv, SessionInv, CredentialInv, MetadataInv,
     SnapshotInv, RequestInv, RefusedIsCurrent

LEMMA SessionStutter == SInv /\ UNCHANGED sessionVars => SInv'
  BY DEF sessionVars, SInv, StepInv, SessionInv, CredentialInv, MetadataInv,
     SnapshotInv, RequestInv, RefusedIsCurrent

LEMMA SessionInvStep == SInv /\ [SessionNext]_sessionVars => SInv'
  <1> SUFFICES ASSUME SInv, [SessionNext]_sessionVars PROVE SInv'
    OBVIOUS
  <1>1. CASE BeginLogin
    <2>1. PICK e \in Environments : Begin("login", "clear", e)
      BY <1>1 DEF BeginLogin
    <2> QED
      BY <2>1, BeginKeeps
  <1>2. CASE BeginSelect \/ BeginSwitch
    <2>1. snapshot.environment \in SomeEnvironment
      BY DEF SInv
    <2>2. \E o \in {"select", "switch"} : Begin(o, "http", snapshot.environment)
      BY <1>2 DEF BeginSelect, BeginSwitch
    <2> QED
      BY <2>1, <2>2, BeginKeeps
  <1>3. CASE BeginRestore \/ BeginLogout
    <2>1. \/ Begin("restore", "load", NoEnvironment)
          \/ Begin("logout", "clear", NoEnvironment)
      BY <1>3 DEF BeginRestore, BeginLogout
    <2> QED
      BY <2>1, BeginKeeps
  <1>4. CASE ClearMetadata
    BY <1>4, ClearMetadataKeeps
  <1>5. CASE ServerAccepts
    BY <1>5, ServerAcceptsKeeps
  <1>6. CASE ServerDefers
    BY <1>6, ServerDefersKeeps
  <1>7. CASE ServerRefuses
    BY <1>7, ServerRefusesKeeps
  <1>8. CASE RestoreMetadata
    BY <1>8, RestoreMetadataKeeps
  <1>9. CASE SaveJwt
    BY <1>9, SaveJwtKeeps
  <1>10. CASE PublishSession
    BY <1>10, PublishSessionKeeps
  <1>11. CASE RollBackJwt
    BY <1>11, RollBackJwtKeeps
  <1>12. CASE CommitNonAuthenticated
    BY <1>12, CommitNonAuthenticatedKeeps
  <1>13. CASE NonAuthenticatedFails
    BY <1>13, NonAuthenticatedFailsKeeps
  <1>14. CASE LoadNothing
    BY <1>14, LoadNothingKeeps
  <1>15. CASE LoadWithoutJwt
    BY <1>15, LoadWithoutJwtKeeps
  <1>16. CASE LoadSession
    BY <1>16, LoadSessionKeeps
  <1>17. CASE Me
    BY <1>17, MeKeeps
  <1>18. CASE Persist
    BY <1>18, PersistKeeps
  <1>19. CASE ClientLogout
    BY <1>19, ClientLogoutKeeps
  <1>20. CASE AbortMetadata
    BY <1>20, AbortMetadataKeeps
  <1>21. CASE ExpireMetadata
    BY <1>21, ExpireMetadataKeeps
  <1>22. CASE ExpireSession
    BY <1>22, ExpireSessionKeeps
  <1>23. CASE SessionCrash
    BY <1>23, SessionCrashKeeps
  <1>24. ASSUME NEW r \in Requests, RequestStep(r) PROVE SInv'
    BY <1>24, CaptureKeeps, SendKeeps, AnswerKeeps, SettleKeeps DEF RequestStep
  <1>25. CASE UNCHANGED sessionVars
    BY <1>25, SessionStutter
  <1> HIDE DEF SessionTypeOK
  <1> QED
    BY <1>1, <1>2, <1>3, <1>4, <1>5, <1>6, <1>7, <1>8, <1>9, <1>10, <1>11,
       <1>12, <1>13, <1>14, <1>15, <1>16, <1>17, <1>18, <1>19, <1>20, <1>21,
       <1>22, <1>23, <1>24, <1>25
       DEF SessionNext, IdentityStep

LEMMA SessionSafety == SInv => NeverRevived /\ RefusedIsCurrent /\ SnapshotIsSession
  BY DEF SInv, StepInv, CredentialInv, MetadataInv, SnapshotInv, NeverRevived, Restorable,
     RefusedIsCurrent, SnapshotIsSession

HIDE SessionAssumption
    DEF SessionTypeOK, Credentials, Generations, SomeEnvironment, SessionSteps,
        SignedOutMetadata, NoClientSession, SignedOut, NoTransaction, NoRequestState,
        HasSession, NewSession, DeleteJwt, MayRequest, GoTo, EndWith, EndUnchanged,
        WriteMetadata, Retire, disk, client, server, Untouched, Committed,
        Begin, CommitFailed, CanCall, OtherEnvironment, LocalLogout, Outdated,
        Restores, Shown

-----------------------------------------------------------------------------
(* ChatSession. *)

\* No selection is remembered that a newer one has already replaced.
RecentInv ==
    /\ RecentIsLatest
    /\ \A i \in DOMAIN recents : recents[i] <= activeSelection.revision

\* While leases are cleaned up, whatever is not going to be closed is of a
\* session that has begun since.
LeaseInv ==
    /\ NoLeaseSurvives
    /\ chatManager.cleanup = "running" =>
           \A n \in Selections :
               LeaseHeld(n) => n \in chatManager.todo \/ SessionIs(chatLeases[n].gen)

ChatInv == ChatTypeOK /\ RecentInv /\ CredentialIsOfSession /\ LeaseInv
               /\ ClosedHoldsNothing

USE ChatAssumption DEF ChatTypeOK, ChatRequestKinds, LeaseHeld, SessionIs, HeldLease,
                       ActiveLease, ChatAt, ChatGoes

Lease == [state : {"none", "held", "removed", "cancelled", "closed"},
          gen : 0..MaxChatSessions, cancelled : BOOLEAN, token : BOOLEAN]

\* A step that changes one lease.
Changes(n, lease) ==
    /\ chatLeases'[n] = lease
    /\ \A m \in Selections \ {n} : chatLeases'[m] = chatLeases[m]

LEMMA LeaseChange ==
    ASSUME ChatTypeOK, NEW n \in Selections, NEW lease \in Lease,
           chatLeases' = [chatLeases EXCEPT ![n] = lease]
    PROVE  chatLeases' \in [Selections -> Lease] /\ Changes(n, lease)
  BY DEF Lease, Changes

LEMMA EndSessionKeeps ==
    ASSUME ChatInv, EndSession
    PROVE  ChatInv'
  <1> USE DEF ChatInv, EndSession
  <1>1. ChatTypeOK'
    OBVIOUS
  <1>2. RecentInv'
    BY DEF RecentInv, RecentIsLatest
  <1>3. CredentialIsOfSession' /\ LeaseInv' /\ ClosedHoldsNothing'
    BY DEF CredentialIsOfSession, LeaseInv, NoLeaseSurvives, ClosedHoldsNothing
  <1> QED
    BY <1>1, <1>2, <1>3

LEMMA SignInKeeps ==
    ASSUME ChatInv, SignIn
    PROVE  ChatInv'
  <1> USE DEF ChatInv, SignIn
  <1>1. ChatTypeOK'
    <2>1. chatManager' = [gen |-> chatManager.gen + 1, in |-> TRUE,
                          cleanup |-> chatManager.cleanup, todo |-> chatManager.todo]
      OBVIOUS
    <2>2. chatManager.gen + 1 \in 1..MaxChatSessions
      OBVIOUS
    <2> QED
      BY <2>1, <2>2
  <1>2. RecentInv'
    BY DEF RecentInv, RecentIsLatest
  <1>3. CredentialIsOfSession' /\ LeaseInv' /\ ClosedHoldsNothing'
    BY DEF CredentialIsOfSession, LeaseInv, NoLeaseSurvives, ClosedHoldsNothing
  <1> QED
    BY <1>1, <1>2, <1>3

LEMMA CleanUpLeasesKeeps ==
    ASSUME ChatInv, CleanUpLeases
    PROVE  ChatInv'
  <1> USE DEF ChatInv, CleanUpLeases
  <1>1. ChatTypeOK'
    OBVIOUS
  <1>2. RecentInv'
    BY DEF RecentInv, RecentIsLatest
  <1>3. CredentialIsOfSession' /\ LeaseInv' /\ ClosedHoldsNothing'
    BY DEF CredentialIsOfSession, LeaseInv, NoLeaseSurvives, ClosedHoldsNothing
  <1> QED
    BY <1>1, <1>2, <1>3

LEMMA CleanedUpKeeps ==
    ASSUME ChatInv, CleanedUp
    PROVE  ChatInv'
  <1> USE DEF ChatInv, CleanedUp
  <1>1. ChatTypeOK'
    OBVIOUS
  <1>2. RecentInv'
    BY DEF RecentInv, RecentIsLatest
  <1>3. CredentialIsOfSession' /\ LeaseInv' /\ ClosedHoldsNothing'
    BY DEF CredentialIsOfSession, LeaseInv, NoLeaseSurvives, ClosedHoldsNothing
  <1> QED
    BY <1>1, <1>2, <1>3

LEMMA SelectEmployeeKeeps ==
    ASSUME ChatInv, SelectEmployee
    PROVE  ChatInv'
  <1> USE DEF ChatInv, SelectEmployee
  <1>1. ChatTypeOK'
    <2> DEFINE k == chatShown.last + 1
    <2>1. k \in Selections
      BY DEF Selections
    <2>2. chatShown' \in [last : 0..MaxSelections, here : BOOLEAN]
      BY <2>1 DEF Selections
    <2>3. [at |-> "asked", gen |-> chatManager.gen]
              \in [at : {"none", "asked", "answered"}, gen : 0..MaxChatSessions]
      OBVIOUS
    <2>4. chatOpening' \in [Selections -> [at : {"none", "asked", "answered"},
                                          gen : 0..MaxChatSessions]]
      BY <2>1, <2>3
    <2> QED
      BY <2>2, <2>4
  <1>2. RecentInv'
    BY DEF RecentInv, RecentIsLatest
  <1>3. CredentialIsOfSession' /\ LeaseInv' /\ ClosedHoldsNothing'
    BY DEF CredentialIsOfSession, LeaseInv, NoLeaseSurvives, ClosedHoldsNothing
  <1> QED
    BY <1>1, <1>2, <1>3

LEMMA LeaveChatKeeps ==
    ASSUME ChatInv, LeaveChat
    PROVE  ChatInv'
  <1> USE DEF ChatInv, LeaveChat
  <1>1. ChatTypeOK'
    OBVIOUS
  <1>2. RecentInv'
    BY DEF RecentInv, RecentIsLatest
  <1>3. CredentialIsOfSession' /\ LeaseInv' /\ ClosedHoldsNothing'
    BY DEF CredentialIsOfSession, LeaseInv, NoLeaseSurvives, ClosedHoldsNothing
  <1> QED
    BY <1>1, <1>2, <1>3

LEMMA CommitOpenKeeps ==
    ASSUME ChatInv, NEW n \in Selections, CommitOpen(n)
    PROVE  ChatInv'
  <1> USE DEF ChatInv, CommitOpen
  <1>1. chatOpening' \in [Selections -> [at : {"none", "asked", "answered"},
                                         gen : 0..MaxChatSessions]]
    <2>1. [chatOpening[n] EXCEPT !.at = "answered"]
              \in [at : {"none", "asked", "answered"}, gen : 0..MaxChatSessions]
      OBVIOUS
    <2> QED
      BY <2>1
  <1>2. UNCHANGED <<chatManager, chatShown, chatKind, chatRequest, chatEntries, recents,
                    credentialsHanded, workDelivered>>
    OBVIOUS
  <1>3. ASSUME SessionIs(chatOpening[n].gen), activeSelection' = Activated(n),
               chatLeases' = [chatLeases EXCEPT ![n] = NewLease(n)]
        PROVE  ChatInv'
    <2>1. NewLease(n) \in Lease /\ NewLease(n).gen = chatOpening[n].gen
          /\ ~NewLease(n).cancelled
      BY DEF NewLease, Lease
    <2>2. chatLeases' \in [Selections -> Lease] /\ Changes(n, NewLease(n))
      BY <1>3, <2>1, LeaseChange
    <2>3. /\ activeSelection' \in [revision : 0..MaxSelections, lease : 0..MaxSelections]
          /\ activeSelection'.revision >= activeSelection.revision
      BY <1>3 DEF Activated, Selections
    <2> HIDE DEF CommitOpen
    <2>4. ChatTypeOK'
      BY <1>1, <1>2, <2>2, <2>3 DEF Lease
    <2>5. RecentInv'
      <3>1. \A i \in DOMAIN recents : recents[i] \in Selections
        OBVIOUS
      <3> QED
        BY <1>2, <2>3, <3>1 DEF RecentInv, RecentIsLatest, Selections
    <2>6. CredentialIsOfSession' /\ LeaseInv' /\ ClosedHoldsNothing'
      BY <1>2, <1>3, <2>1, <2>2
         DEF CredentialIsOfSession, LeaseInv, NoLeaseSurvives, ClosedHoldsNothing, Changes
    <2> QED
      BY <2>4, <2>5, <2>6
  <1>4. ASSUME UNCHANGED <<chatLeases, activeSelection>> PROVE ChatInv'
    <2> HIDE DEF CommitOpen
    <2>1. ChatTypeOK'
      BY <1>1, <1>2, <1>4
    <2>2. RecentInv' /\ CredentialIsOfSession' /\ LeaseInv' /\ ClosedHoldsNothing'
      BY <1>2, <1>4 DEF RecentInv, RecentIsLatest, CredentialIsOfSession, LeaseInv,
         NoLeaseSurvives, ClosedHoldsNothing
    <2> QED
      BY <2>1, <2>2
  <1> QED
    BY <1>3, <1>4

LEMMA RemoveLeaseKeeps ==
    ASSUME ChatInv, NEW n \in Selections, RemoveLease(n)
    PROVE  ChatInv'
  <1> USE DEF ChatInv, RemoveLease
  <1> DEFINE lease == [state |-> "removed", gen |-> chatLeases[n].gen,
                       cancelled |-> chatLeases[n].cancelled, token |-> chatLeases[n].token]
  <1>1. lease \in Lease
    BY DEF Lease
  <1>2. chatLeases' = [chatLeases EXCEPT ![n] = lease]
    <2>1. chatLeases' = [chatLeases EXCEPT ![n] = [chatLeases[n] EXCEPT !.state = "removed"]]
      OBVIOUS
    <2>2. chatLeases[n] \in Lease
      BY DEF Lease
    <2> HIDE DEF ChatInv, RemoveLease
    <2>3. [chatLeases[n] EXCEPT !.state = "removed"] = lease
      BY <2>2 DEF Lease
    <2> QED
      BY <2>1, <2>3
  <1>3. chatLeases' \in [Selections -> Lease] /\ Changes(n, lease)
    BY <1>1, <1>2, LeaseChange
  <1>4. /\ UNCHANGED <<chatManager, chatShown, chatOpening, activeSelection,
                       chatKind, chatRequest, chatEntries, recents,
                       credentialsHanded, workDelivered>>
    OBVIOUS
  <1> HIDE DEF RemoveLease
  <1>5. ChatTypeOK'
    BY <1>3, <1>4 DEF Lease
  <1>6. RecentInv'
    BY <1>4 DEF RecentInv, RecentIsLatest
  <1>7. ASSUME NEW m \in Selections
        PROVE  /\ LeaseHeld(m)' =>
                      LeaseHeld(m) /\ chatLeases'[m].gen = chatLeases[m].gen
               /\ chatLeases'[m].cancelled => chatLeases[m].cancelled
    <2> HIDE DEF ChatInv
    <2>1. CASE m = n
      BY <1>3, <2>1 DEF Changes
    <2>2. CASE m # n
      BY <1>3, <2>2 DEF Changes
    <2> QED
      BY <2>1, <2>2
  <1> HIDE DEF lease
  <1>8. CredentialIsOfSession' /\ ClosedHoldsNothing'
    BY <1>4, <1>7 DEF CredentialIsOfSession, ClosedHoldsNothing
  <1>9. LeaseInv'
    BY <1>4, <1>7 DEF LeaseInv, NoLeaseSurvives
  <1> QED
    BY <1>5, <1>6, <1>8, <1>9

LEMMA CancelLeaseKeeps ==
    ASSUME ChatInv, NEW n \in Selections, CancelLease(n)
    PROVE  ChatInv'
  <1> USE DEF ChatInv, CancelLease
  <1> DEFINE removed == [chatLeases[n] EXCEPT !.state = "cancelled"]
             lease == [removed EXCEPT !.cancelled = TRUE]
  <1>1. lease \in Lease
    <2>1. chatLeases[n] \in Lease
      BY DEF Lease
    <2> HIDE DEF ChatInv, CancelLease
    <2>2. removed \in Lease
      BY <2>1 DEF Lease
    <2> HIDE DEF removed
    <2> QED
      BY <2>2 DEF Lease
  <1>2. chatLeases' = [chatLeases EXCEPT ![n] = lease]
    OBVIOUS
  <1>3. chatLeases' \in [Selections -> Lease] /\ Changes(n, lease)
    BY <1>1, <1>2, LeaseChange
  <1>4. /\ UNCHANGED <<chatManager, chatShown, chatOpening, activeSelection,
                       chatKind, chatRequest, recents, credentialsHanded,
                       workDelivered>>
        /\ chatEntries' = chatEntries \ {n}
    OBVIOUS
  <1> HIDE DEF CancelLease
  <1>5. ChatTypeOK'
    BY <1>3, <1>4 DEF Lease
  <1>6. RecentInv'
    BY <1>4 DEF RecentInv, RecentIsLatest
  <1>10. lease.state = "cancelled"
    <2> HIDE DEF ChatInv, CancelLease
    <2> QED
      OBVIOUS
  <1>7. ASSUME NEW m \in Selections
        PROVE  /\ LeaseHeld(m)' =>
                      LeaseHeld(m) /\ chatLeases'[m].gen = chatLeases[m].gen
               /\ chatLeases'[m].cancelled => m = n \/ chatLeases[m].cancelled
    <2> HIDE DEF ChatInv, lease
    <2>1. CASE m = n
      BY <1>3, <1>10, <2>1 DEF Changes
    <2>2. CASE m # n
      BY <1>3, <2>2 DEF Changes
    <2> QED
      BY <2>1, <2>2
  <1> HIDE DEF lease
  <1>8. CredentialIsOfSession' /\ ClosedHoldsNothing'
    BY <1>4, <1>7 DEF CredentialIsOfSession, ClosedHoldsNothing
  <1>9. LeaseInv'
    BY <1>4, <1>7 DEF LeaseInv, NoLeaseSurvives
  <1> QED
    BY <1>5, <1>6, <1>8, <1>9

LEMMA DeactivateKeeps ==
    ASSUME ChatInv, NEW n \in Selections, Deactivate(n)
    PROVE  ChatInv'
  <1> USE DEF ChatInv, Deactivate
  <1> DEFINE lease == [state |-> "closed", gen |-> chatLeases[n].gen,
                       cancelled |-> chatLeases[n].cancelled, token |-> chatLeases[n].token]
  <1>1. lease \in Lease
    BY DEF Lease
  <1>2. chatLeases' = [chatLeases EXCEPT ![n] = lease]
    <2>1. chatLeases' = [chatLeases EXCEPT ![n] = [chatLeases[n] EXCEPT !.state = "closed"]]
      OBVIOUS
    <2>2. chatLeases[n] \in Lease
      BY DEF Lease
    <2> HIDE DEF ChatInv, Deactivate
    <2>3. [chatLeases[n] EXCEPT !.state = "closed"] = lease
      BY <2>2 DEF Lease
    <2> QED
      BY <2>1, <2>3
  <1>3. chatLeases' \in [Selections -> Lease] /\ Changes(n, lease)
    BY <1>1, <1>2, LeaseChange
  <1>4. /\ UNCHANGED <<chatManager, chatShown, chatOpening, chatKind, chatRequest,
                       chatEntries, recents, credentialsHanded, workDelivered>>
        /\ activeSelection'.revision = activeSelection.revision
        /\ activeSelection' \in [revision : 0..MaxSelections, lease : 0..MaxSelections]
    <2>1. [activeSelection EXCEPT !.lease = 0] =
              [revision |-> activeSelection.revision, lease |-> 0]
      <3>1. activeSelection \in [revision : 0..MaxSelections, lease : 0..MaxSelections]
        OBVIOUS
      <3> HIDE DEF ChatInv, Deactivate
      <3> QED
        BY <3>1
    <2> QED
      BY <2>1
  <1> HIDE DEF Deactivate
  <1>5. ChatTypeOK'
    BY <1>3, <1>4 DEF Lease
  <1>6. RecentInv'
    BY <1>4 DEF RecentInv, RecentIsLatest
  <1>7. ASSUME NEW m \in Selections
        PROVE  /\ LeaseHeld(m)' =>
                      LeaseHeld(m) /\ chatLeases'[m].gen = chatLeases[m].gen
               /\ chatLeases'[m].cancelled => chatLeases[m].cancelled
    <2> HIDE DEF ChatInv
    <2>1. CASE m = n
      BY <1>3, <2>1 DEF Changes
    <2>2. CASE m # n
      BY <1>3, <2>2 DEF Changes
    <2> QED
      BY <2>1, <2>2
  <1> HIDE DEF lease
  <1>8. CredentialIsOfSession' /\ ClosedHoldsNothing'
    BY <1>4, <1>7 DEF CredentialIsOfSession, ClosedHoldsNothing
  <1>9. LeaseInv'
    BY <1>4, <1>7 DEF LeaseInv, NoLeaseSurvives
  <1> QED
    BY <1>5, <1>6, <1>8, <1>9

LEMMA BeginChatRequestKeeps ==
    ASSUME ChatInv, NEW n \in Selections, BeginChatRequest(n)
    PROVE  ChatInv'
  <1> USE DEF ChatInv, BeginChatRequest
  <1>1. ChatTypeOK'
    OBVIOUS
  <1>2. RecentInv'
    BY DEF RecentInv, RecentIsLatest
  <1>3. CredentialIsOfSession' /\ LeaseInv' /\ ClosedHoldsNothing'
    BY DEF CredentialIsOfSession, LeaseInv, NoLeaseSurvives, ClosedHoldsNothing
  <1> QED
    BY <1>1, <1>2, <1>3

LEMMA FailChatRequestKeeps ==
    ASSUME ChatInv, NEW n \in Selections, FailChatRequest(n)
    PROVE  ChatInv'
  <1> USE DEF ChatInv, FailChatRequest
  <1>1. ChatTypeOK'
    OBVIOUS
  <1>2. RecentInv'
    BY DEF RecentInv, RecentIsLatest
  <1>3. CredentialIsOfSession' /\ LeaseInv' /\ ClosedHoldsNothing'
    BY DEF CredentialIsOfSession, LeaseInv, NoLeaseSurvives, ClosedHoldsNothing
  <1> QED
    BY <1>1, <1>2, <1>3

LEMMA CommitRememberKeeps ==
    ASSUME ChatInv, NEW n \in Selections, CommitRemember(n)
    PROVE  ChatInv'
  <1> USE DEF ChatInv, CommitRemember
  <1>1. ChatTypeOK'
    OBVIOUS
  <1>2. RecentInv'
    <2>1. /\ Len(recents) \in Nat /\ DOMAIN recents = 1..Len(recents)
          /\ DOMAIN recents' = 1..(Len(recents) + 1)
          /\ \A i \in 1..Len(recents) : recents'[i] = recents[i]
          /\ recents'[Len(recents) + 1] = n
      OBVIOUS
    <2>2. /\ \A i \in 1..Len(recents) : recents[i] <= n
          /\ activeSelection' = activeSelection /\ activeSelection.revision = n
      BY DEF RecentInv
    <2>3. n \in Nat /\ \A i \in 1..Len(recents) : recents[i] \in Nat
      <3>1. recents \in Seq(Selections) /\ n \in Selections
        OBVIOUS
      <3>2. \A i \in 1..Len(recents) : recents[i] \in Selections
        BY <3>1
      <3> HIDE DEF ChatInv, CommitRemember
      <3> QED
        BY <3>1, <3>2 DEF Selections
    <2>4. \A i, j \in 1..Len(recents) : i < j => recents[i] <= recents[j]
      BY <2>1 DEF RecentInv, RecentIsLatest
    <2> HIDE DEF ChatInv, CommitRemember
    <2>5. ASSUME NEW i \in 1..(Len(recents) + 1), NEW j \in 1..(Len(recents) + 1), i < j
          PROVE  recents'[i] <= recents'[j]
      <3>1. i \in 1..Len(recents)
        BY <2>1, <2>5
      <3>2. CASE j \in 1..Len(recents)
        BY <2>1, <2>4, <2>5, <3>1, <3>2
      <3>3. CASE j = Len(recents) + 1
        BY <2>1, <2>2, <3>1, <3>3
      <3> QED
        BY <2>1, <3>2, <3>3
    <2>6. \A i \in 1..(Len(recents) + 1) : recents'[i] <= n
      BY <2>1, <2>2, <2>3
    <2> QED
      BY <2>1, <2>2, <2>5, <2>6 DEF RecentInv, RecentIsLatest
  <1>3. CredentialIsOfSession' /\ LeaseInv' /\ ClosedHoldsNothing'
    BY DEF CredentialIsOfSession, LeaseInv, NoLeaseSurvives, ClosedHoldsNothing
  <1> QED
    BY <1>1, <1>2, <1>3

LEMMA CachedCredentialKeeps ==
    ASSUME ChatInv, NEW n \in Selections, CachedCredential(n)
    PROVE  ChatInv'
  <1> USE DEF ChatInv, CachedCredential
  <1>4. /\ UNCHANGED <<chatManager, chatShown, chatOpening, activeSelection, chatKind,
                       chatLeases, chatEntries, recents, workDelivered>>
        /\ SessionIs(chatLeases[n].gen)
        /\ chatRequest' = [chatRequest EXCEPT ![n] = "done"]
        /\ credentialsHanded' = credentialsHanded
               \cup {<<chatManager.gen, chatManager.gen, TRUE>>}
    <2>1. chatManager.in = TRUE /\ chatLeases[n].gen = chatManager.gen
      OBVIOUS
    <2> QED
      BY <2>1 DEF Hand
  <1> HIDE DEF CachedCredential
  <1>1. ChatTypeOK'
    <2>1. credentialsHanded' \subseteq
              (0..MaxChatSessions) \X (0..MaxChatSessions) \X BOOLEAN
      <3>1. chatManager.gen \in 0..MaxChatSessions
        OBVIOUS
      <3>2. credentialsHanded \subseteq
                (0..MaxChatSessions) \X (0..MaxChatSessions) \X BOOLEAN
        OBVIOUS
      <3> HIDE DEF ChatInv
      <3>3. <<chatManager.gen, chatManager.gen, TRUE>>
                \in (0..MaxChatSessions) \X (0..MaxChatSessions) \X BOOLEAN
        BY <3>1
      <3> QED
        BY <1>4, <3>2, <3>3
    <2>2. chatRequest' \in [Selections ->
               {"none", "begun", "exchanged", "registered", "running", "done"}]
      BY <1>4
    <2> QED
      BY <1>4, <2>1, <2>2
  <1>2. RecentInv'
    BY <1>4 DEF RecentInv, RecentIsLatest
  <1>3. CredentialIsOfSession' /\ LeaseInv' /\ ClosedHoldsNothing'
    <2>1. CredentialIsOfSession'
      <3> DEFINE h == <<chatManager.gen, chatManager.gen, TRUE>>
      <3>1. h[1] = h[2] /\ h[3]
        OBVIOUS
      <3>2. credentialsHanded' = credentialsHanded \cup {h}
        BY <1>4
      <3>3. \A g \in credentialsHanded : g[1] = g[2] /\ g[3]
        BY DEF CredentialIsOfSession
      <3> HIDE DEF h
      <3> QED
        BY <3>1, <3>2, <3>3, Zenon DEF CredentialIsOfSession
    <2> QED
      BY <1>4, <2>1 DEF LeaseInv, NoLeaseSurvives, ClosedHoldsNothing
  <1> QED
    BY <1>1, <1>2, <1>3

LEMMA ExchangeTokenKeeps ==
    ASSUME ChatInv, NEW n \in Selections, ExchangeToken(n)
    PROVE  ChatInv'
  <1> USE DEF ChatInv, ExchangeToken
  <1>1. ChatTypeOK'
    OBVIOUS
  <1>2. RecentInv'
    BY DEF RecentInv, RecentIsLatest
  <1>3. CredentialIsOfSession' /\ LeaseInv' /\ ClosedHoldsNothing'
    BY DEF CredentialIsOfSession, LeaseInv, NoLeaseSurvives, ClosedHoldsNothing
  <1> QED
    BY <1>1, <1>2, <1>3

LEMMA CommitCredentialKeeps ==
    ASSUME ChatInv, NEW n \in Selections, CommitCredential(n)
    PROVE  ChatInv'
  <1> USE DEF ChatInv, CommitCredential
  <1> DEFINE lease == [chatLeases[n] EXCEPT !.token = TRUE]
  <1>1. lease \in Lease
    BY DEF Lease
  <1>2. chatLeases' = [chatLeases EXCEPT ![n] = lease]
    OBVIOUS
  <1>3. chatLeases' \in [Selections -> Lease] /\ Changes(n, lease)
    BY <1>1, <1>2, LeaseChange
  <1>4. /\ UNCHANGED <<chatManager, chatShown, chatOpening, activeSelection,
                       chatKind, chatEntries, recents, workDelivered>>
        /\ LeaseHeld(n) /\ SessionIs(chatLeases[n].gen)
        /\ chatRequest' = [chatRequest EXCEPT ![n] = "done"]
        /\ credentialsHanded' = credentialsHanded
               \cup {<<chatManager.gen, chatManager.gen, TRUE>>}
    <2>1. chatManager.in = TRUE /\ chatLeases[n].gen = chatManager.gen
      OBVIOUS
    <2> QED
      BY <2>1 DEF Hand
  <1> HIDE DEF CommitCredential
  <1>5. ChatTypeOK'
    <2>1. credentialsHanded' \subseteq
              (0..MaxChatSessions) \X (0..MaxChatSessions) \X BOOLEAN
      <3>1. chatManager.gen \in 0..MaxChatSessions
        OBVIOUS
      <3>2. credentialsHanded \subseteq
                (0..MaxChatSessions) \X (0..MaxChatSessions) \X BOOLEAN
        OBVIOUS
      <3> HIDE DEF ChatInv
      <3>3. <<chatManager.gen, chatManager.gen, TRUE>>
                \in (0..MaxChatSessions) \X (0..MaxChatSessions) \X BOOLEAN
        BY <3>1
      <3> QED
        BY <1>4, <3>2, <3>3
    <2>2. chatRequest' \in [Selections ->
               {"none", "begun", "exchanged", "registered", "running", "done"}]
      BY <1>4
    <2> QED
      BY <1>4, <2>1, <2>2, <1>3 DEF Lease
  <1>6. RecentInv'
    BY <1>4 DEF RecentInv, RecentIsLatest
  <1>10. /\ lease.state = chatLeases[n].state /\ lease.gen = chatLeases[n].gen
         /\ lease.cancelled = chatLeases[n].cancelled
    <2>1. chatLeases[n] \in Lease
      BY DEF Lease
    <2> HIDE DEF ChatInv
    <2> QED
      BY <2>1 DEF Lease
  <1>7. ASSUME NEW m \in Selections
        PROVE  /\ LeaseHeld(m)' =>
                      LeaseHeld(m) /\ chatLeases'[m].gen = chatLeases[m].gen
               /\ chatLeases'[m].cancelled => chatLeases[m].cancelled
    <2> HIDE DEF ChatInv, lease
    <2>1. CASE m = n
      BY <1>3, <1>10, <2>1 DEF Changes
    <2>2. CASE m # n
      BY <1>3, <2>2 DEF Changes
    <2> QED
      BY <2>1, <2>2
  <1> HIDE DEF lease
  <1>8. CredentialIsOfSession' /\ ClosedHoldsNothing'
    <2>1. CredentialIsOfSession'
      <3> DEFINE h == <<chatManager.gen, chatManager.gen, TRUE>>
      <3>1. h[1] = h[2] /\ h[3]
        OBVIOUS
      <3>2. credentialsHanded' = credentialsHanded \cup {h}
        BY <1>4
      <3>3. \A g \in credentialsHanded : g[1] = g[2] /\ g[3]
        BY DEF CredentialIsOfSession
      <3> HIDE DEF h
      <3> QED
        BY <3>1, <3>2, <3>3, Zenon DEF CredentialIsOfSession
    <2> QED
      BY <1>4, <1>7, <2>1 DEF ClosedHoldsNothing
  <1>9. LeaseInv'
    BY <1>4, <1>7 DEF LeaseInv, NoLeaseSurvives
  <1> QED
    BY <1>5, <1>6, <1>8, <1>9

LEMMA InvalidateTokenKeeps ==
    ASSUME ChatInv, NEW n \in Selections, InvalidateToken(n)
    PROVE  ChatInv'
  <1> USE DEF ChatInv, InvalidateToken
  <1> DEFINE lease == [chatLeases[n] EXCEPT !.token = FALSE]
  <1>1. lease \in Lease
    BY DEF Lease
  <1>2. chatLeases' = [chatLeases EXCEPT ![n] = lease]
    OBVIOUS
  <1>3. chatLeases' \in [Selections -> Lease] /\ Changes(n, lease)
    BY <1>1, <1>2, LeaseChange
  <1>4. /\ UNCHANGED <<chatManager, chatShown, chatOpening, activeSelection,
                       chatKind, chatRequest, chatEntries, recents,
                       credentialsHanded, workDelivered>>
        /\ LeaseHeld(n)
    OBVIOUS
  <1> HIDE DEF InvalidateToken
  <1>5. ChatTypeOK'
    BY <1>3, <1>4 DEF Lease
  <1>6. RecentInv'
    BY <1>4 DEF RecentInv, RecentIsLatest
  <1>10. /\ lease.state = chatLeases[n].state /\ lease.gen = chatLeases[n].gen
         /\ lease.cancelled = chatLeases[n].cancelled
    <2>1. chatLeases[n] \in Lease
      BY DEF Lease
    <2> HIDE DEF ChatInv
    <2> QED
      BY <2>1 DEF Lease
  <1>7. ASSUME NEW m \in Selections
        PROVE  /\ LeaseHeld(m)' =>
                      LeaseHeld(m) /\ chatLeases'[m].gen = chatLeases[m].gen
               /\ chatLeases'[m].cancelled => chatLeases[m].cancelled
    <2> HIDE DEF ChatInv, lease
    <2>1. CASE m = n
      BY <1>3, <1>10, <2>1 DEF Changes
    <2>2. CASE m # n
      BY <1>3, <2>2 DEF Changes
    <2> QED
      BY <2>1, <2>2
  <1> HIDE DEF lease
  <1>8. CredentialIsOfSession' /\ ClosedHoldsNothing'
    BY <1>4, <1>7 DEF CredentialIsOfSession, ClosedHoldsNothing
  <1>9. LeaseInv'
    BY <1>4, <1>7 DEF LeaseInv, NoLeaseSurvives
  <1> QED
    BY <1>5, <1>6, <1>8, <1>9

LEMMA PrepareTransferKeeps ==
    ASSUME ChatInv, NEW n \in Selections, PrepareTransfer(n)
    PROVE  ChatInv'
  <1> USE DEF ChatInv, PrepareTransfer
  <1>1. ChatTypeOK'
    OBVIOUS
  <1>2. RecentInv'
    BY DEF RecentInv, RecentIsLatest
  <1>3. CredentialIsOfSession' /\ LeaseInv' /\ ClosedHoldsNothing'
    BY DEF CredentialIsOfSession, LeaseInv, NoLeaseSurvives, ClosedHoldsNothing
  <1> QED
    BY <1>1, <1>2, <1>3

LEMMA StartTransferKeeps ==
    ASSUME ChatInv, NEW n \in Selections, StartTransfer(n)
    PROVE  ChatInv'
  <1> USE DEF ChatInv, StartTransfer
  <1>1. ChatTypeOK'
    OBVIOUS
  <1>2. RecentInv'
    BY DEF RecentInv, RecentIsLatest
  <1>3. CredentialIsOfSession' /\ LeaseInv' /\ ClosedHoldsNothing'
    BY DEF CredentialIsOfSession, LeaseInv, NoLeaseSurvives, ClosedHoldsNothing
  <1> QED
    BY <1>1, <1>2, <1>3

LEMMA FinishTransferKeeps ==
    ASSUME ChatInv, NEW n \in Selections, FinishTransfer(n)
    PROVE  ChatInv'
  <1> USE DEF ChatInv, FinishTransfer
  <1>1. ChatTypeOK'
    OBVIOUS
  <1>2. RecentInv'
    BY DEF RecentInv, RecentIsLatest
  <1>3. CredentialIsOfSession' /\ LeaseInv' /\ ClosedHoldsNothing'
    BY DEF CredentialIsOfSession, LeaseInv, NoLeaseSurvives, ClosedHoldsNothing
  <1> QED
    BY <1>1, <1>2, <1>3

LEMMA RegisterResourceKeeps ==
    ASSUME ChatInv, NEW n \in Selections, RegisterResource(n)
    PROVE  ChatInv'
  <1> USE DEF ChatInv, RegisterResource
  <1>1. ChatTypeOK'
    OBVIOUS
  <1>2. RecentInv'
    BY DEF RecentInv, RecentIsLatest
  <1>3. CredentialIsOfSession' /\ LeaseInv' /\ ClosedHoldsNothing'
    BY DEF CredentialIsOfSession, LeaseInv, NoLeaseSurvives, ClosedHoldsNothing
  <1> QED
    BY <1>1, <1>2, <1>3

LEMMA StartStreamKeeps ==
    ASSUME ChatInv, NEW n \in Selections, StartStream(n)
    PROVE  ChatInv'
  <1> USE DEF ChatInv, StartStream
  <1>1. ChatTypeOK'
    OBVIOUS
  <1>2. RecentInv'
    BY DEF RecentInv, RecentIsLatest
  <1>3. CredentialIsOfSession' /\ LeaseInv' /\ ClosedHoldsNothing'
    BY DEF CredentialIsOfSession, LeaseInv, NoLeaseSurvives, ClosedHoldsNothing
  <1> QED
    BY <1>1, <1>2, <1>3

LEMMA SaveResourceKeeps ==
    ASSUME ChatInv, NEW n \in Selections, SaveResource(n)
    PROVE  ChatInv'
  <1> USE DEF ChatInv, SaveResource
  <1>1. ChatTypeOK'
    OBVIOUS
  <1>2. RecentInv'
    BY DEF RecentInv, RecentIsLatest
  <1>3. CredentialIsOfSession' /\ LeaseInv' /\ ClosedHoldsNothing'
    BY DEF CredentialIsOfSession, LeaseInv, NoLeaseSurvives, ClosedHoldsNothing
  <1> QED
    BY <1>1, <1>2, <1>3

LEMMA ReleaseEntryKeeps ==
    ASSUME ChatInv, NEW n \in Selections, ReleaseEntry(n)
    PROVE  ChatInv'
  <1> USE DEF ChatInv, ReleaseEntry
  <1>1. ChatTypeOK'
    OBVIOUS
  <1>2. RecentInv'
    BY DEF RecentInv, RecentIsLatest
  <1>3. CredentialIsOfSession' /\ LeaseInv' /\ ClosedHoldsNothing'
    BY DEF CredentialIsOfSession, LeaseInv, NoLeaseSurvives, ClosedHoldsNothing
  <1> QED
    BY <1>1, <1>2, <1>3

-----------------------------------------------------------------------------
LEMMA ChatInitInv == ChatInit => ChatInv
  <1> SUFFICES ASSUME ChatInit PROVE ChatInv
    OBVIOUS
  <1> USE DEF ChatInit, NoChatLease, NoSelection
  <1>1. ChatTypeOK
    BY DEF Selections
  <1>2. RecentInv /\ CredentialIsOfSession /\ LeaseInv /\ ClosedHoldsNothing
    BY DEF RecentInv, RecentIsLatest, CredentialIsOfSession, LeaseInv,
       NoLeaseSurvives, ClosedHoldsNothing
  <1> QED
    BY <1>1, <1>2 DEF ChatInv

LEMMA ChatStutter == ChatInv /\ UNCHANGED chatVars => ChatInv'
  BY DEF chatVars, ChatInv, RecentInv, RecentIsLatest, CredentialIsOfSession, LeaseInv,
     NoLeaseSurvives, ClosedHoldsNothing

HIDE ChatAssumption DEF ChatTypeOK, ChatRequestKinds, LeaseHeld, SessionIs, HeldLease,
                        ActiveLease, ChatAt, ChatGoes

LEMMA ChatInvStep == ChatInv /\ [ChatNext]_chatVars => ChatInv'
  <1> SUFFICES ASSUME ChatInv, [ChatNext]_chatVars PROVE ChatInv'
    OBVIOUS
  <1>1. CASE EndSession \/ SignIn \/ CleanUpLeases \/ CleanedUp \/ SelectEmployee \/ LeaveChat
    BY <1>1, EndSessionKeeps, SignInKeeps, CleanUpLeasesKeeps, CleanedUpKeeps,
       SelectEmployeeKeeps, LeaveChatKeeps
  <1>2. ASSUME NEW n \in Selections,
               CommitOpen(n) \/ RemoveLease(n) \/ CancelLease(n) \/ Deactivate(n)
        PROVE  ChatInv'
    BY <1>2, CommitOpenKeeps, RemoveLeaseKeeps, CancelLeaseKeeps, DeactivateKeeps
  <1>3. ASSUME NEW n \in Selections,
               BeginChatRequest(n) \/ FailChatRequest(n) \/ CommitRemember(n)
        PROVE  ChatInv'
    BY <1>3, BeginChatRequestKeeps, FailChatRequestKeeps, CommitRememberKeeps
  <1>4. ASSUME NEW n \in Selections,
               CachedCredential(n) \/ ExchangeToken(n) \/ CommitCredential(n)
               \/ InvalidateToken(n)
        PROVE  ChatInv'
    BY <1>4, CachedCredentialKeeps, ExchangeTokenKeeps, CommitCredentialKeeps,
       InvalidateTokenKeeps
  <1>5. ASSUME NEW n \in Selections,
               PrepareTransfer(n) \/ StartTransfer(n) \/ FinishTransfer(n)
               \/ RegisterResource(n) \/ StartStream(n) \/ SaveResource(n) \/ ReleaseEntry(n)
        PROVE  ChatInv'
    BY <1>5, PrepareTransferKeeps, StartTransferKeeps, FinishTransferKeeps,
       RegisterResourceKeeps, StartStreamKeeps, SaveResourceKeeps, ReleaseEntryKeeps
  <1>6. CASE UNCHANGED chatVars
    BY <1>6, ChatStutter
  <1> QED
    BY <1>1, <1>2, <1>3, <1>4, <1>5, <1>6 DEF ChatNext

LEMMA ChatSafety == ChatInv => ChatHolds
  BY DEF ChatInv, RecentInv, LeaseInv, ChatHolds

-----------------------------------------------------------------------------
(* ActivityJournal. *)

\* A run ends once: the one the marker names has not, and no entry is of a later run.
RunInv ==
    /\ run <= startedRuns /\ marker <= startedRuns
    /\ \A entry \in accounts : entry[2] <= startedRuns
    /\ marker # NoRun =>
           /\ <<"start", marker>> \in accounts
           /\ <<"shutdown", marker>> \notin accounts /\ <<"unclean_exit", marker>> \notin accounts
    /\ \A r \in Runs : <<"start", r>> \in accounts /\ marker # r =>
           (<<"shutdown", r>> \in accounts) # (<<"unclean_exit", r>> \in accounts)

\* The short setting is saved, or cleans up, only after the user saved it.
RetentionInv ==
    /\ OldRecordIsKept
    /\ retention.saved = "short" => mayGo
    /\ retention.armed /\ retention.used = "short" => mayGo

OutageInv ==
    /\ \A o \in DOMAIN opened :
           /\ opened[o][1] <= startedRuns
           /\ opened[o][1] = run => opened[o][2] <= actual.generation
    /\ actual.acted <= Len(opened)
    /\ NoFalseRecovery

\* The sink is as far as the runtime, and an outage it shows is of this runtime and of
\* after the user's last operation.
ViewInv ==
    run # NoRun =>
       \/ /\ observed = NotObserved
          /\ \A o \in DOMAIN opened : opened[o][1] # run
       \/ /\ observed.generation = actual.generation /\ observed.life = actual.life
          /\ observed.outage # NoOutage =>
                 /\ observed.outage \in DOMAIN opened
                 /\ opened[observed.outage] = <<run, actual.generation>>
                 /\ actual.acted < observed.outage
                 /\ actual.operation \notin {"connect", "disconnect"}
                 /\ observed.life = "online" => actual.operation = "reconnect"

OutagesHold ==
    /\ observed \in [generation : 0..2, life : Lives \cup {"none"}, outage : 0..MaxOutages]
    /\ actual \in [generation : 1..2, life : Lives, operation : Operations,
                   acted : 0..MaxOutages]
    /\ opened \in Seq(Runs \X (1..2)) /\ Len(opened) <= MaxOutages
    /\ closings \subseteq [outage : 1..MaxOutages, at : Runs \X (1..2), acted : BOOLEAN]
    /\ \A end \in closings : end.outage \in DOMAIN opened
    /\ OutageInv /\ ViewInv /\ NoOutageIsForgotten

RunsHold ==
    /\ run \in 0..MaxRuns /\ startedRuns \in 0..MaxRuns /\ marker \in 0..MaxRuns
    /\ accounts \subseteq {"start", "unclean_exit", "shutdown"} \X Runs
    /\ journal \subseteq {"start", "unclean_exit", "shutdown", "clear"} \X Runs
    /\ RunInv

RetentionHolds ==
    /\ retention \in [saved : {"short", "long"}, used : {"short", "long"}, armed : BOOLEAN]
    /\ oldRecord \in BOOLEAN /\ mayGo \in BOOLEAN
    /\ RetentionInv

JournalInv == RunsHold /\ RetentionHolds /\ OutagesHold

USE JournalAssumption DEF Runs, NoRun, NoOutage

LEMMA JournalInitInv == JournalInit => JournalInv
  <1> SUFFICES ASSUME JournalInit PROVE JournalInv
    OBVIOUS
  <1> USE DEF JournalInit, JournalInv
  <1>1. RunsHold
    BY DEF RunsHold, RunInv
  <1>2. RetentionHolds
    <2>1. PICK saved \in {"short", "long"} :
              /\ retention = [saved |-> saved, used |-> "short", armed |-> FALSE]
              /\ mayGo = (saved = "short")
      OBVIOUS
    <2>2. oldRecord = TRUE
      OBVIOUS
    <2> HIDE DEF JournalInit
    <2>3. mayGo \in BOOLEAN /\ (retention.saved = "short" => mayGo) /\ ~retention.armed
      BY <2>1
    <2>4. retention \in [saved : {"short", "long"}, used : {"short", "long"}, armed : BOOLEAN]
      BY <2>1
    <2> QED
      BY <2>2, <2>3, <2>4 DEF RetentionHolds, RetentionInv, OldRecordIsKept
  <1>3. OutagesHold
    BY DEF OutagesHold, OutageInv, ViewInv, NoOutageIsForgotten, NoFalseRecovery,
       NotObserved, FirstHandle, Lives, Operations
  <1> QED
    BY <1>1, <1>2, <1>3

LEMMA RunsStay == RunsHold /\ UNCHANGED runVars => RunsHold'
  BY DEF runVars, RunsHold, RunInv

LEMMA RetentionStays == RetentionHolds /\ UNCHANGED retentionVars => RetentionHolds'
  BY DEF retentionVars, RetentionHolds, RetentionInv, OldRecordIsKept

LEMMA OutagesStay ==
    OutagesHold /\ UNCHANGED <<outageVars, run, startedRuns>> => OutagesHold'
  BY DEF outageVars, OutagesHold, OutageInv, ViewInv, NoOutageIsForgotten, NoFalseRecovery

-----------------------------------------------------------------------------
\* Without a run nothing is observed, and what was is of an earlier run.
LEMMA RunEnds ==
    ASSUME OutagesHold, run' = NoRun, UNCHANGED <<outageVars, startedRuns>>
    PROVE  OutagesHold'
  <1> USE DEF outageVars, OutagesHold
  <1>1. \A o \in DOMAIN opened : opened[o] \in Runs \X (1..2)
    OBVIOUS
  <1>2. \A o \in DOMAIN opened : opened[o][1] # NoRun
    BY <1>1
  <1>3. OutageInv' /\ ViewInv'
    BY <1>2 DEF OutageInv, ViewInv, NoFalseRecovery
  <1>4. NoOutageIsForgotten'
    BY <1>2 DEF NoOutageIsForgotten
  <1> QED
    BY <1>3, <1>4

LEMMA OpenClientRunKeeps ==
    ASSUME JournalInv, OpenClientRun
    PROVE  JournalInv'
  <1> USE DEF JournalInv, OpenClientRun, Opens
  <1>1. RunsHold'
    <2>1. startedRuns \in 0..MaxRuns /\ run' = startedRuns + 1 /\ startedRuns' = run'
          /\ run' \in Runs /\ \A entry \in accounts : entry[2] < run'
      BY DEF RunsHold, RunInv
    <2>2. CASE UNCHANGED <<marker, accounts, journal>>
      BY <2>1, <2>2 DEF RunsHold, RunInv
    <2>3. CASE marker = NoRun /\ marker' = run'
               /\ accounts' = accounts \cup {<<"start", run'>>}
               /\ journal' = journal \cup {<<"start", run'>>}
      BY <2>1, <2>3 DEF RunsHold, RunInv
    <2>4. CASE marker # NoRun /\ marker' = run'
               /\ accounts' = accounts \cup {<<"start", run'>>, <<"unclean_exit", marker>>}
               /\ journal' = journal \cup {<<"start", run'>>, <<"unclean_exit", marker>>}
      BY <2>1, <2>4 DEF RunsHold, RunInv
    <2> QED
      BY <2>2, <2>3, <2>4
  <1>2. RetentionHolds'
    BY DEF RetentionHolds, RetentionInv, OldRecordIsKept
  <1>3. OutagesHold'
    <2>1. startedRuns \in Nat /\ run' = startedRuns + 1 /\ startedRuns' = run'
      BY DEF RunsHold
    <2>2. \A o \in DOMAIN opened : opened[o] \in Runs \X (1..2) /\ opened[o][1] <= startedRuns
      BY DEF OutagesHold, OutageInv
    <2>3. \A o \in DOMAIN opened : opened[o][1] \in Nat /\ opened[o][1] # run'
      BY <2>1, <2>2
    <2>4. observed' = NotObserved /\ actual' = FirstHandle /\ UNCHANGED <<opened, closings>>
      OBVIOUS
    <2> HIDE DEF OpenClientRun, Opens
    <2>5. OutageInv'
      BY <2>1, <2>2, <2>3, <2>4 DEF OutagesHold, OutageInv, NoFalseRecovery, FirstHandle
    <2>6. ViewInv' /\ NoOutageIsForgotten'
      BY <2>3, <2>4 DEF ViewInv, NoOutageIsForgotten
    <2> QED
      BY <2>4, <2>5, <2>6 DEF OutagesHold, NotObserved, FirstHandle, Lives, Operations
  <1> QED
    BY <1>1, <1>2, <1>3

LEMMA FinishClientRunKeeps ==
    ASSUME JournalInv, FinishClientRun
    PROVE  JournalInv'
  <1> USE DEF JournalInv, FinishClientRun
  <1>1. RunsHold'
    <2>1. CASE UNCHANGED <<accounts, journal, marker>>
      BY <2>1 DEF RunsHold, RunInv
    <2>2. CASE marker = run /\ marker' = NoRun
               /\ accounts' = accounts \cup {<<"shutdown", run>>}
               /\ journal' = journal \cup {<<"shutdown", run>>}
      BY <2>2 DEF RunsHold, RunInv
    <2> QED
      BY <2>1, <2>2
  <1> QED
    BY <1>1, RetentionStays, RunEnds

LEMMA CrashKeeps ==
    ASSUME JournalInv, Crash
    PROVE  JournalInv'
  <1> USE DEF JournalInv, Crash
  <1>1. RunsHold'
    BY DEF RunsHold, RunInv
  <1> QED
    BY <1>1, RetentionStays, RunEnds

LEMMA ClearActivityKeeps ==
    ASSUME JournalInv, ClearActivity
    PROVE  JournalInv'
  <1> USE DEF JournalInv, ClearActivity
  <1>1. RunsHold'
    BY DEF RunsHold, RunInv
  <1>2. RetentionHolds'
    BY DEF RetentionHolds, RetentionInv, OldRecordIsKept
  <1> QED
    BY <1>1, <1>2, OutagesStay

LEMMA SaveRetentionKeeps ==
    ASSUME JournalInv, SaveRetention
    PROVE  JournalInv'
  <1> USE DEF JournalInv, SaveRetention
  <1>1. RetentionHolds'
    BY DEF RetentionHolds, RetentionInv, OldRecordIsKept
  <1> QED
    BY <1>1, RunsStay, OutagesStay DEF runVars

LEMMA ApplyRetentionKeeps ==
    ASSUME JournalInv, ApplyRetention
    PROVE  JournalInv'
  <1> USE DEF JournalInv, ApplyRetention
  <1>1. RetentionHolds'
    BY DEF RetentionHolds, RetentionInv, OldRecordIsKept
  <1> QED
    BY <1>1, RunsStay, OutagesStay DEF runVars

LEMMA CleanupDueKeeps ==
    ASSUME JournalInv, CleanupDue
    PROVE  JournalInv'
  <1> USE DEF JournalInv, CleanupDue
  <1>1. RetentionHolds'
    BY DEF RetentionHolds, RetentionInv, OldRecordIsKept
  <1> QED
    BY <1>1, RunsStay, OutagesStay DEF runVars

-----------------------------------------------------------------------------
(* What the sink makes of an event. *)

Event == [generation : 1..2, life : Lives, operation : Operations, acted : 0..MaxOutages]

\* The next event of the same handle, without an operation of the user in between.
Follows(event) == event.generation = actual.generation /\ event.acted = actual.acted

LEMMA SeesNothingKeeps ==
    ASSUME OutagesHold, run # NoRun, NEW event \in Event, actual' = event,
           Sees(event, NoOutage), UNCHANGED <<run, startedRuns>>,
           event.generation >= actual.generation,
           actual.acted <= event.acted, event.acted <= Len(opened),
           \/ observed.outage = NoOutage
           \/ event.acted >= observed.outage
           \/ event.generation > actual.generation
    PROVE  OutagesHold'
  <1> USE DEF Event
  <1>1. UNCHANGED <<opened, closings>> /\ observed' = View(event, NoOutage)
    BY DEF Sees
  <1>2. observed' = [generation |-> event.generation, life |-> event.life, outage |-> 0]
    BY <1>1 DEF View
  <1>3. Len(opened) \in Nat /\ DOMAIN opened = 1..Len(opened)
        /\ \A o \in DOMAIN opened : opened[o] \in Runs \X (1..2)
    BY DEF OutagesHold
  <1>4. OutageInv'
    BY <1>1, <1>3 DEF OutagesHold, OutageInv, NoFalseRecovery
  <1>5. ViewInv'
    BY <1>2 DEF ViewInv
  <1>6. NoOutageIsForgotten'
    <2> SUFFICES ASSUME NEW o \in DOMAIN opened,
                        ~(event.acted >= o), opened[o] = <<run, event.generation>>
                 PROVE  \E end \in closings : end.outage = o
      BY <1>1 DEF NoOutageIsForgotten
    <2>1. event.generation = actual.generation
      BY <1>3 DEF OutagesHold, OutageInv
    <2>2. ~(actual.acted >= o) /\ observed.outage # o
      BY <1>3, <2>1 DEF OutagesHold
    <2> QED
      BY <2>1, <2>2 DEF OutagesHold, NoOutageIsForgotten
  <1> QED
    BY <1>1, <1>2, <1>4, <1>5, <1>6 DEF OutagesHold

LEMMA SeesOutageKeeps ==
    ASSUME OutagesHold, run # NoRun, NEW event \in Event, actual' = event,
           Sees(event, observed.outage), UNCHANGED <<run, startedRuns>>,
           Follows(event), observed.outage # NoOutage,
           event.operation \notin {"connect", "disconnect"},
           event.life = "online" => event.operation = "reconnect"
    PROVE  OutagesHold'
  <1> USE DEF Event, Follows
  <1>1. UNCHANGED <<opened, closings>> /\ observed' = View(event, observed.outage)
    BY DEF Sees
  <1>2. observed' = [generation |-> event.generation, life |-> event.life,
                     outage |-> observed.outage]
    BY <1>1 DEF View
  <1>3. observed # NotObserved
    BY DEF NotObserved
  <1>4. OutageInv'
    BY <1>1 DEF OutagesHold, OutageInv, NoFalseRecovery
  <1>5. ViewInv'
    BY <1>1, <1>2, <1>3 DEF OutagesHold, ViewInv
  <1>6. NoOutageIsForgotten'
    BY <1>1, <1>2 DEF OutagesHold, NoOutageIsForgotten
  <1> QED
    BY <1>1, <1>2, <1>4, <1>5, <1>6 DEF OutagesHold

LEMMA OpensOutageKeeps ==
    ASSUME OutagesHold, run \in Runs, run <= startedRuns, NEW event \in Event, actual' = event,
           OpensOutage(event), UNCHANGED <<run, startedRuns>>,
           Follows(event), observed.outage = NoOutage,
           event.operation \notin {"connect", "disconnect"},
           event.life = "online" => event.operation = "reconnect"
    PROVE  OutagesHold'
  <1> USE DEF Event, Follows
  <1> DEFINE new == Len(opened) + 1
  <1>1. /\ Len(opened) \in Nat /\ Len(opened) < MaxOutages /\ DOMAIN opened = 1..Len(opened)
        /\ opened' \in Seq(Runs \X (1..2)) /\ Len(opened') = new /\ DOMAIN opened' = 1..new
        /\ \A o \in 1..Len(opened) : opened'[o] = opened[o]
        /\ opened'[new] = <<run, event.generation>>
        /\ UNCHANGED closings
        /\ observed' = View(event, new)
    BY DEF OutagesHold, OpensOutage
  <1>2. observed' = [generation |-> event.generation, life |-> event.life, outage |-> new]
    BY <1>1 DEF View
  <1>3. \A end \in closings : end.outage \in 1..Len(opened)
    BY <1>1 DEF OutagesHold
  <1>4. OutageInv'
    <2>1. \A o \in 1..Len(opened) :
              opened[o][1] <= startedRuns
              /\ (opened[o][1] = run => opened[o][2] <= actual.generation)
      BY <1>1 DEF OutagesHold, OutageInv
    <2>2. \A end \in closings : end.at = opened[end.outage] /\ ~end.acted
      BY DEF OutagesHold, OutageInv, NoFalseRecovery
    <2>3. NoFalseRecovery'
      BY <1>1, <1>3, <2>2 DEF NoFalseRecovery
    <2>4. actual.acted <= Len(opened)
      BY DEF OutagesHold, OutageInv
    <2> HIDE DEF OpensOutage
    <2>5. ASSUME NEW o \in 1..new
          PROVE  opened'[o][1] <= startedRuns
                 /\ (opened'[o][1] = run => opened'[o][2] <= event.generation)
      <3>1. CASE o = new
        BY <1>1, <3>1
      <3>2. CASE o # new
        <4>1. o \in 1..Len(opened)
          BY <1>1, <3>2
        <4> QED
          BY <1>1, <2>1, <4>1
      <3> QED
        BY <3>1, <3>2
    <2>6. event.acted <= new
      BY <1>1, <2>4 DEF OutagesHold
    <2> QED
      BY <1>1, <2>3, <2>5, <2>6 DEF OutageInv
  <1>5. ViewInv'
    <2>1. actual.acted < new
      BY <1>1 DEF OutagesHold, OutageInv
    <2> QED
      BY <1>1, <1>2, <2>1 DEF ViewInv
  <1>6. NoOutageIsForgotten'
    <2>1. observed'.outage = new
      BY <1>2
    <2>2. ASSUME NEW o \in 1..new, o # new, ~(event.acted >= o),
                 opened'[o] = <<run, event.generation>>
          PROVE  \E end \in closings : end.outage = o
      <3>1. o \in DOMAIN opened /\ opened[o] = <<run, actual.generation>>
        BY <1>1, <2>2
      <3>2. observed.outage # o
        BY <3>1, <1>1
      <3> QED
        BY <2>2, <3>1, <3>2 DEF OutagesHold, NoOutageIsForgotten
    <2> QED
      BY <1>1, <2>1, <2>2 DEF NoOutageIsForgotten
  <1>7. \A end \in closings' : end.outage \in DOMAIN opened'
    BY <1>1, <1>3
  <1> QED
    BY <1>1, <1>2, <1>4, <1>5, <1>6, <1>7 DEF OutagesHold

LEMMA ClosesOutageKeeps ==
    ASSUME OutagesHold, run \in Runs, NEW event \in Event, actual' = event,
           ClosesOutage(event), UNCHANGED <<run, startedRuns>>,
           Follows(event), observed.outage # NoOutage
    PROVE  OutagesHold'
  <1> USE DEF Event, Follows
  <1> DEFINE end == [outage |-> observed.outage, at |-> <<run, event.generation>>,
                     acted |-> FALSE]
  <1>1. observed # NotObserved
    BY DEF NotObserved
  <1>2. /\ observed.outage \in DOMAIN opened
        /\ opened[observed.outage] = <<run, event.generation>>
        /\ event.acted < observed.outage
    BY <1>1 DEF OutagesHold, ViewInv
  <1>3. (event.acted >= observed.outage) = FALSE
    BY <1>2 DEF OutagesHold
  <1>4. UNCHANGED opened /\ observed' = View(event, NoOutage)
        /\ closings' = closings \cup {end}
    BY <1>3 DEF ClosesOutage
  <1>5. observed' = [generation |-> event.generation, life |-> event.life, outage |-> 0]
    BY <1>4 DEF View
  <1>6. end \in [outage : 1..MaxOutages, at : Runs \X (1..2), acted : BOOLEAN]
        /\ end.outage = observed.outage /\ end.at = <<run, event.generation>> /\ ~end.acted
    BY DEF OutagesHold
  <1> HIDE DEF end
  <1>7. OutageInv'
    BY <1>2, <1>4, <1>6 DEF OutagesHold, OutageInv, NoFalseRecovery
  <1>8. ViewInv'
    BY <1>5 DEF ViewInv
  <1>9. NoOutageIsForgotten'
    BY <1>4, <1>6 DEF OutagesHold, NoOutageIsForgotten
  <1>10. \A e \in closings' : e.outage \in DOMAIN opened'
    BY <1>2, <1>4, <1>6 DEF OutagesHold
  <1> QED
    BY <1>4, <1>5, <1>6, <1>7, <1>8, <1>9, <1>10 DEF OutagesHold

-----------------------------------------------------------------------------
(* The connection's changes. *)

LEMMA BecomesKeeps ==
    ASSUME JournalInv, NEW life \in Lives, NEW op \in Operations,
           Becomes(life, op),
           op \in {"connect", "disconnect"} =>
               actual.operation \in {"connect", "disconnect"},
           life = "connecting" /\ op = "none" => actual.operation # "reconnect"
    PROVE  JournalInv'
  <1> DEFINE event == actual'
  <1>1. /\ run # NoRun /\ Observe(event)
        /\ UNCHANGED runVars /\ UNCHANGED retentionVars
        /\ event = [generation |-> actual.generation, life |-> life,
                    operation |-> op, acted |-> actual.acted]
    <2>1. event = [actual EXCEPT !.life = life, !.operation = op]
      BY DEF Becomes
    <2>2. actual \in Event
      BY DEF JournalInv, OutagesHold, Event
    <2>3. event = [generation |-> actual.generation, life |-> life,
                   operation |-> op, acted |-> actual.acted]
      BY <2>1, <2>2 DEF Event
    <2> QED
      BY <2>3 DEF Becomes
  <1> HIDE DEF event
  <1>2. event \in Event /\ Follows(event)
    BY <1>1 DEF JournalInv, OutagesHold, Event, Follows
  <1>3. RunsHold' /\ RetentionHolds'
    BY <1>1, RunsStay, RetentionStays DEF JournalInv
  <1>4. /\ OutagesHold /\ actual' = event /\ run \in Runs /\ run <= startedRuns
        /\ UNCHANGED <<run, startedRuns>> /\ actual.acted <= Len(opened)
    BY <1>1 DEF event, JournalInv, RunsHold, RunInv, OutagesHold, OutageInv, runVars
  <1>5. /\ event.generation >= actual.generation /\ actual.acted <= event.acted
        /\ event.acted <= Len(opened)
    BY <1>2, <1>4 DEF Follows, Event
  <1>6. ASSUME Sees(event, NoOutage), observed.outage = NoOutage PROVE OutagesHold'
    BY <1>1, <1>2, <1>4, <1>5, <1>6, SeesNothingKeeps
  <1>7. ASSUME OpensOutage(event), observed.outage = NoOutage,
               op \notin {"connect", "disconnect"},
               life = "online" => op = "reconnect"
        PROVE  OutagesHold'
    BY <1>1, <1>2, <1>4, <1>7, OpensOutageKeeps
  <1>8. ASSUME ClosesOutage(event), observed.outage # NoOutage PROVE OutagesHold'
    BY <1>1, <1>2, <1>4, <1>8, ClosesOutageKeeps
  <1>9. ASSUME Sees(event, observed.outage), observed.outage # NoOutage,
               op \notin {"connect", "disconnect"},
               life = "online" => op = "reconnect"
        PROVE  OutagesHold'
    BY <1>1, <1>2, <1>4, <1>9, SeesOutageKeeps
  <1>10. observed.outage # NoOutage =>
             /\ observed # NotObserved
             /\ actual.operation \notin {"connect", "disconnect"}
             /\ observed.life = "online" => actual.operation = "reconnect"
    BY <1>1, <1>4 DEF OutagesHold, ViewInv, NotObserved
  <1>11. CASE observed = NotObserved
    <2>1. observed.outage = NoOutage /\ SeeFirst(event)
      BY <1>1, <1>2, <1>11 DEF NotObserved, Observe, Event
    <2> QED
      BY <1>1, <1>3, <1>6, <1>7, <2>1, <1>11 DEF SeeFirst, JournalInv
  <1>12. CASE observed # NotObserved
    <2>1. observed.generation = event.generation
      BY <1>1, <1>2, <1>4, <1>12 DEF OutagesHold, ViewInv, Follows
    <2>2. SeeNext(event, op \in {"connect", "disconnect"})
      BY <1>1, <2>1 DEF Observe
    <2>3. CASE op \in {"connect", "disconnect"}
      <3>1. Sees(event, NoOutage)
        BY <2>2, <2>3 DEF SeeNext
      <3> QED
        BY <1>3, <1>6, <1>10, <2>3, <3>1 DEF JournalInv
    <2>4. CASE op = "reconnect"
      BY <1>1, <1>3, <1>7, <1>9, <2>2, <2>4 DEF SeeNext, JournalInv
    <2>5. CASE op = "none"
      <3>1. CASE observed.outage # NoOutage /\ life # "connecting"
        BY <1>1, <1>3, <1>8, <2>2, <2>5, <3>1 DEF SeeNext, JournalInv
      <3>2. CASE observed.outage # NoOutage /\ life = "connecting"
        BY <1>1, <1>3, <1>9, <1>10, <2>2, <2>5, <3>2 DEF SeeNext, JournalInv
      <3>3. CASE observed.outage = NoOutage
        <4>1. \/ OpensOutage(event) /\ life = "connecting"
              \/ Sees(event, NoOutage)
          BY <1>1, <2>2, <2>5, <3>3 DEF SeeNext
        <4> QED
          BY <1>3, <1>6, <1>7, <2>5, <3>3, <4>1 DEF JournalInv
      <3> QED
        BY <3>1, <3>2, <3>3
    <2> QED
      BY <2>3, <2>4, <2>5 DEF Operations
  <1> QED
    BY <1>11, <1>12

LEMMA ConnectionStepKeeps ==
    ASSUME JournalInv,
           \/ EndUserOperation \/ UserOperationDone \/ TransportLost \/ ServerDisconnects
           \/ Reconnects \/ ReconnectDone
    PROVE  JournalInv'
  <1>1. actual.life \in Lives /\ actual.operation \in Operations
    BY DEF JournalInv, OutagesHold
  <1>2. CASE EndUserOperation
    <2>1. \/ actual.operation = "connect" /\ Becomes("online", "connect")
          \/ actual.operation = "disconnect" /\ Becomes("started", "disconnect")
      BY <1>2 DEF EndUserOperation
    <2> QED
      BY <2>1, BecomesKeeps DEF Lives, Operations
  <1>3. CASE UserOperationDone
    BY <1>1, <1>3, BecomesKeeps DEF UserOperationDone, Operations
  <1>4. CASE TransportLost
    <2>1. actual.operation = "none"
          /\ (Becomes("connecting", "none") \/ Becomes("connecting", "reconnect"))
      BY <1>4 DEF TransportLost
    <2> QED
      BY <2>1, BecomesKeeps DEF Lives, Operations
  <1>5. CASE ServerDisconnects
    BY <1>5, BecomesKeeps DEF ServerDisconnects, Lives, Operations
  <1>6. CASE Reconnects
    <2>1. actual.operation \in {"none", "reconnect"}
          /\ (Becomes("online", actual.operation) \/ Becomes("started", actual.operation))
      BY <1>6 DEF Reconnects
    <2> QED
      BY <1>1, <2>1, BecomesKeeps DEF Lives
  <1>7. CASE ReconnectDone
    BY <1>1, <1>7, BecomesKeeps DEF ReconnectDone, Operations
  <1> QED
    BY <1>2, <1>3, <1>4, <1>5, <1>6, <1>7

LEMMA BeginUserOperationKeeps ==
    ASSUME JournalInv, BeginUserOperation
    PROVE  JournalInv'
  <1> DEFINE event == actual'
  <1>1. PICK op \in {"connect", "disconnect"} :
            event = [actual EXCEPT !.operation = op, !.acted = Len(opened)]
    BY DEF BeginUserOperation
  <1>2. /\ run # NoRun /\ Observe(event)
        /\ UNCHANGED runVars /\ UNCHANGED retentionVars
    BY DEF BeginUserOperation
  <1>3. actual \in Event /\ Len(opened) \in 0..MaxOutages /\ actual.acted <= Len(opened)
    BY DEF JournalInv, OutagesHold, OutageInv, Event
  <1>4. event = [generation |-> actual.generation, life |-> actual.life,
                 operation |-> op, acted |-> Len(opened)]
    BY <1>1, <1>3 DEF Event
  <1> HIDE DEF event
  <1>5. event \in Event
    BY <1>3, <1>4 DEF Event, Operations
  <1>6. RunsHold' /\ RetentionHolds'
    BY <1>2, RunsStay, RetentionStays DEF JournalInv
  <1>7. Sees(event, NoOutage)
    <2>1. CASE observed.generation # event.generation
      BY <1>2, <1>4, <2>1 DEF Observe, SeeFirst
    <2>2. CASE observed.generation = event.generation
      BY <1>2, <1>4, <2>2 DEF Observe, SeeNext
    <2> QED
      BY <2>1, <2>2
  <1>8. observed.outage = NoOutage \/ event.acted >= observed.outage
    <2>1. observed.outage # NoOutage => observed.outage \in DOMAIN opened
      BY <1>2 DEF JournalInv, OutagesHold, ViewInv, NotObserved
    <2>2. DOMAIN opened = 1..Len(opened)
      BY DEF JournalInv, OutagesHold
    <2> QED
      BY <1>3, <1>4, <2>1, <2>2
  <1>9. event.generation >= actual.generation /\ actual.acted <= event.acted
        /\ event.acted <= Len(opened)
    BY <1>3, <1>4 DEF Event
  <1>10. OutagesHold /\ actual' = event /\ UNCHANGED <<run, startedRuns>>
    BY <1>2 DEF event, JournalInv, runVars
  <1>11. OutagesHold'
    BY <1>2, <1>5, <1>7, <1>8, <1>9, <1>10, SeesNothingKeeps
  <1> QED
    BY <1>6, <1>11 DEF JournalInv

LEMMA ReplaceHandleKeeps ==
    ASSUME JournalInv, ReplaceHandle
    PROVE  JournalInv'
  <1> DEFINE event == actual'
  <1>1. /\ run # NoRun /\ Observe(event)
        /\ UNCHANGED runVars /\ UNCHANGED retentionVars
        /\ event = [generation |-> 2, life |-> "started", operation |-> "none",
                    acted |-> actual.acted]
        /\ actual.generation < 2
    BY DEF ReplaceHandle, FirstHandle
  <1> HIDE DEF event
  <1>2. event \in Event /\ actual.generation = 1 /\ actual.acted \in Nat
        /\ actual.acted <= Len(opened)
    BY <1>1 DEF JournalInv, OutagesHold, OutageInv, Event, Lives, Operations
  <1>3. RunsHold' /\ RetentionHolds'
    BY <1>1, RunsStay, RetentionStays DEF JournalInv
  <1>4. observed.generation # event.generation
    BY <1>1, <1>2 DEF JournalInv, OutagesHold, ViewInv, NotObserved
  <1>5. Sees(event, NoOutage)
    BY <1>1, <1>4 DEF Observe, SeeFirst
  <1>6. event.generation > actual.generation /\ event.acted = actual.acted
    BY <1>1, <1>2
  <1>7. OutagesHold /\ actual' = event /\ UNCHANGED <<run, startedRuns>>
    BY <1>1 DEF event, JournalInv, runVars
  <1>8. event.generation >= actual.generation /\ actual.acted <= event.acted
        /\ event.acted <= Len(opened)
    BY <1>1, <1>2
  <1>9. OutagesHold'
    BY <1>1, <1>2, <1>5, <1>6, <1>7, <1>8, SeesNothingKeeps
  <1> QED
    BY <1>3, <1>9 DEF JournalInv

-----------------------------------------------------------------------------
LEMMA JournalStutter == JournalInv /\ UNCHANGED journalVars => JournalInv'
  <1> SUFFICES ASSUME JournalInv, UNCHANGED journalVars PROVE JournalInv'
    OBVIOUS
  <1>1. UNCHANGED runVars /\ UNCHANGED retentionVars /\ UNCHANGED <<outageVars, run, startedRuns>>
    BY DEF journalVars, runVars
  <1> QED
    BY <1>1, RunsStay, RetentionStays, OutagesStay DEF JournalInv

LEMMA JournalInvStep == JournalInv /\ [JournalNext]_journalVars => JournalInv'
  <1> SUFFICES ASSUME JournalInv, [JournalNext]_journalVars PROVE JournalInv'
    OBVIOUS
  <1>1. CASE OpenClientRun \/ FinishClientRun \/ Crash \/ ClearActivity
    BY <1>1, OpenClientRunKeeps, FinishClientRunKeeps, CrashKeeps, ClearActivityKeeps
  <1>2. CASE SaveRetention \/ ApplyRetention \/ CleanupDue
    BY <1>2, SaveRetentionKeeps, ApplyRetentionKeeps, CleanupDueKeeps
  <1>3. CASE BeginUserOperation \/ ReplaceHandle
    BY <1>3, BeginUserOperationKeeps, ReplaceHandleKeeps
  <1>4. CASE EndUserOperation \/ UserOperationDone \/ TransportLost \/ ServerDisconnects
             \/ Reconnects \/ ReconnectDone
    BY <1>4, ConnectionStepKeeps
  <1>5. CASE UNCHANGED journalVars
    BY <1>5, JournalStutter
  <1> QED
    BY <1>1, <1>2, <1>3, <1>4, <1>5 DEF JournalNext

LEMMA JournalSafety == JournalInv => JournalHolds
  <1> SUFFICES ASSUME JournalInv PROVE JournalHolds
    OBVIOUS
  <1>1. RunsAreAccounted
    <2> SUFFICES ASSUME NEW r \in 1..startedRuns, <<"start", r>> \in accounts
                 PROVE  Cardinality({end \in {"shutdown", "unclean_exit"} :
                                        <<end, r>> \in accounts})
                            = (IF marker = r THEN 0 ELSE 1)
      BY DEF RunsAreAccounted
    <2> DEFINE ends == {end \in {"shutdown", "unclean_exit"} : <<end, r>> \in accounts}
    <2>1. r \in Runs /\ r # NoRun
      BY DEF JournalInv, RunsHold
    <2>2. CASE marker = r
      <3>1. ends = {}
        BY <2>1, <2>2 DEF JournalInv, RunsHold, RunInv
      <3> QED
        BY <2>2, <3>1, FS_EmptySet
    <2>3. CASE marker # r
      <3>1. ends = {"shutdown"} \/ ends = {"unclean_exit"}
        BY <2>1, <2>3 DEF JournalInv, RunsHold, RunInv
      <3> QED
        BY <2>3, <3>1, FS_Singleton
    <2> QED
      BY <2>2, <2>3
  <1>2. OldRecordIsKept /\ NoFalseRecovery /\ NoOutageIsForgotten
    BY DEF JournalInv, RetentionHolds, RetentionInv, OutagesHold, OutageInv
  <1> QED
    BY <1>1, <1>2 DEF JournalHolds

LEMMA JournalTypes == JournalInv => JournalTypeOK
  BY DEF JournalInv, RunsHold, RetentionHolds, OutagesHold, JournalTypeOK

HIDE JournalAssumption DEF Runs, NoRun, NoOutage

-----------------------------------------------------------------------------
(* The client: every component keeps its invariant, and only one of them moves. *)

ClientInv ==
    /\ BridgeInv /\ KeychainInv /\ TargetsInv
    /\ subject = "session" => SInv
    /\ subject = "chat" => ChatInv
    /\ subject = "activity" => JournalInv

LEMMA ClientInitInv == Init => ClientInv
  BY BridgeInitInv, KeychainInitInv, TargetsInitInv, SessionInitInv, ChatInitInv, JournalInitInv
     DEF Init, SessionStart, ChatStart, ActivityStart, ClientInv

LEMMA ClientInvStep == ClientInv /\ [Next]_vars => ClientInv'
  <1> SUFFICES ASSUME ClientInv, [Next]_vars PROVE ClientInv'
    OBVIOUS
  <1>1. UNCHANGED bridgeVars \/ BridgeNext
    BY DEF Next, vars, Only, BridgeStep, KeychainStep, TargetsStep, SessionStep, ChatStep,
       ActivityStep
  <1>2. UNCHANGED keychainVars \/ KeychainNext
    BY DEF Next, vars, Only, BridgeStep, KeychainStep, TargetsStep, SessionStep, ChatStep,
       ActivityStep
  <1>3. UNCHANGED targetVars \/ TargetsNext
    BY DEF Next, vars, Only, BridgeStep, KeychainStep, TargetsStep, SessionStep, ChatStep,
       ActivityStep
  <1>4. /\ subject' = subject
        /\ UNCHANGED sessionVars \/ SessionNext
        /\ UNCHANGED chatVars \/ ChatNext
        /\ UNCHANGED journalVars \/ JournalNext
    BY DEF Next, vars, Only, BridgeStep, KeychainStep, TargetsStep, SessionStep, ChatStep,
       ActivityStep
  <1>5. BridgeInv' /\ KeychainInv' /\ TargetsInv'
    BY <1>1, <1>2, <1>3, BridgeInvStep, KeychainInvStep, TargetsInvStep DEF ClientInv
  <1>6. subject' = "session" => SInv'
    BY <1>4, SessionInvStep DEF ClientInv
  <1>7. subject' = "chat" => ChatInv'
    BY <1>4, ChatInvStep DEF ClientInv
  <1>8. subject' = "activity" => JournalInv'
    BY <1>4, JournalInvStep DEF ClientInv
  <1> QED
    BY <1>5, <1>6, <1>7, <1>8 DEF ClientInv

LEMMA ClientInvariant == Spec => []ClientInv
  BY ClientInitInv, ClientInvStep, PTL DEF Spec

\* Whatever the client's parts do, the state of each has its type: a transaction of the
\* Manager session, a flight at the keychain, a connect, a chat lease and an outage are only
\* ever in a state their code knows.
THEOREM ClientTyped == Spec => []ClientTypeOK
  <1>1. ClientInv => ClientTypeOK
    BY JournalTypes
       DEF ClientInv, ClientTypeOK, BridgeInv, KeychainInv, TargetsInv, SInv, ChatInv
  <1> QED
    BY <1>1, ClientInvariant, PTL

\* Who acts for a Manager session acts for the present one: a replaced credential is never
\* restored, a late 401 removes only the session the server refused, the page shows the
\* session there is, and no chat lease, credential or transfer outlives the session it was
\* opened in; and what is recorded of runs, of old records and of outages is what happened,
\* over crashes, failed writes and the operations of the user.
THEOREM SessionsAreSound == Spec => []SessionsHold
  <1>1. ClientInv => SessionsHold
    BY SessionSafety, ChatSafety, JournalSafety DEF ClientInv, SessionsHold
  <1> QED
    BY <1>1, ClientInvariant, PTL

=============================================================================
