--------------------------- MODULE ManagerSession ---------------------------
(***************************************************************************)
(* The Manager identity of the client: manager_context.rs (the             *)
(* coordinator), manager_client.rs (the session and its JWT) and the        *)
(* commands of commands/manager.rs.  Login, account selection, restore,     *)
(* switch, logout and the settlement of a 401 run one at a time under       *)
(* transaction_lock; requests run beside them and take the lock only to     *)
(* start and to settle.  The metadata file and the keychain survive a       *)
(* crash, everything else is memory.                                        *)
(*                                                                          *)
(* A credential is the number of the server's answer that issued it and     *)
(* stands for the account it signs in; 0 is none.                           *)
(***************************************************************************)
EXTENDS Naturals

CONSTANTS
    Environments,      \* Manager environments, one keychain entry each
    NoEnvironment,
    Requests,          \* authenticated requests under way
    MaxGeneration,     \* bound on session generations of one run of the client
    MaxCredential      \* bound on credentials the server issues

ASSUME SessionAssumption ==
    /\ MaxGeneration \in Nat /\ MaxCredential \in Nat
    /\ NoEnvironment \notin Environments

VARIABLES
    metadata,     \* disk: environment and credential to restore
    jwt,          \* keychain: per environment
    session, generation,   \* ManagerClient
    snapshot,     \* ManagerContextSnapshot
    tx,           \* the identity transaction that holds transaction_lock
    request,      \* per request: what it has captured and what was answered
    issued,       \* last credential the server issued
    retired       \* credentials that were replaced or signed out

disk      == <<metadata, jwt>>
client    == <<session, generation>>
server    == <<issued, retired>>
sessionVars == <<metadata, jwt, session, generation, snapshot, tx, request,
                 issued, retired>>

Credentials == 0..MaxCredential
Generations == 0..MaxGeneration
SomeEnvironment == Environments \cup {NoEnvironment}

SignedOutMetadata == [environment |-> NoEnvironment, credential |-> 0]
NoClientSession == [generation |-> 0, environment |-> NoEnvironment,
                    credential |-> 0, pending |-> FALSE]
SignedOut == [state |-> "SignedOut", environment |-> NoEnvironment, credential |-> 0]
NoTransaction == [op |-> "none", step |-> "free", environment |-> NoEnvironment,
                  credential |-> 0, previous |-> SignedOutMetadata, refused |-> 0]
NoRequestState == [phase |-> "idle", expected |-> 0, generation |-> 0,
                   credential |-> 0, unauthorized |-> FALSE]

SessionSteps == {"free", "clear", "http", "save", "publish", "nonAuth", "me", "persist",
          "restoreMetadata", "load", "abortClient", "abortMetadata",
          "expireMetadata", "expireSession", "logout"}

HasSession == session.generation # 0
NewSession(environment, credential, pending) ==
    [generation |-> generation + 1, environment |-> environment,
     credential |-> credential, pending |-> pending]
DeleteJwt(environments) ==
    [e \in Environments |-> IF e \in environments THEN 0 ELSE jwt[e]]

\* ensure_authenticated_generation_locked: a transaction that holds the lock is
\* over by the time it is asked, so transitioning is false.
MayRequest == snapshot.state = "Authenticated" /\ HasSession

SessionInit ==
    /\ metadata = SignedOutMetadata
    /\ jwt = [e \in Environments |-> 0]
    /\ session = NoClientSession /\ generation = 0
    /\ snapshot = SignedOut
    /\ tx = NoTransaction
    /\ request = [r \in Requests |-> NoRequestState]
    /\ issued = 0 /\ retired = {}

-----------------------------------------------------------------------------
\* Helpers: every transaction ends by giving the lock back, with or without a
\* new snapshot, and goes from step to step holding it.

GoTo(step) == tx' = [tx EXCEPT !.step = step]
EndWith(next) == tx' = NoTransaction /\ snapshot' = next
EndUnchanged == EndWith(snapshot)

\* save_global_manager_session: an atomic write that may fail.
WriteMetadata(value) == metadata' = value
Retire(credentials) == retired' = retired \cup (credentials \ {0})

-----------------------------------------------------------------------------
\* Begin: take the lock, run the cleanup of the Computers (SmcpConnection has
\* it), go to the transaction's first step.  A switch needs a live session.

Begin(op, step, environment) ==
    /\ tx = NoTransaction
    /\ generation < MaxGeneration
    /\ tx' = [NoTransaction EXCEPT !.op = op, !.step = step,
                                   !.environment = environment]
    /\ UNCHANGED <<disk, client, snapshot, request, server>>

BeginLogin == \E e \in Environments : Begin("login", "clear", e)
BeginSelect == Begin("select", "http", snapshot.environment)
BeginSwitch == MayRequest /\ Begin("switch", "http", snapshot.environment)
BeginRestore == Begin("restore", "load", NoEnvironment)
BeginLogout == Begin("logout", "clear", NoEnvironment)

-----------------------------------------------------------------------------
\* Mutant: the old metadata stays until the new session is persisted.
KeepMetadata ==
    /\ tx.step = "clear"
    /\ tx' = [tx EXCEPT !.previous = metadata,
                        !.step = IF tx.op = "login" THEN "http" ELSE "logout"]
    /\ UNCHANGED <<disk, client, snapshot, request, server>>

\* login: SignedOut is written first.  A previous file that cannot be read
\* counts as empty.  A failed write ends the login; logout goes on.

ClearMetadata ==
    /\ tx.step = "clear"
    /\ \/ /\ WriteMetadata(SignedOutMetadata)
          /\ \E previous \in {metadata, SignedOutMetadata} :
                 tx' = [tx EXCEPT !.previous = previous,
                            !.step = IF tx.op = "login" THEN "http" ELSE "logout"]
          /\ UNCHANGED snapshot
       \/ /\ UNCHANGED metadata
          /\ IF tx.op = "login" THEN EndUnchanged
             ELSE GoTo("logout") /\ UNCHANGED snapshot
    /\ UNCHANGED <<jwt, client, request, server>>

\* The server's answer to login-by-password, select-account, switch-account.
\* A select needs a pending session, a switch one with a JWT.
CanCall == CASE tx.op = "login"  -> TRUE
             [] tx.op = "select" -> HasSession /\ session.pending
             [] tx.op = "switch" -> HasSession /\ ~session.pending

ServerAccepts ==
    /\ tx.step = "http" /\ CanCall /\ issued < MaxCredential
    /\ issued' = issued + 1
    /\ tx' = [tx EXCEPT !.credential = issued + 1, !.step = "save",
                  !.environment = IF tx.op = "login" THEN @ ELSE session.environment]
    /\ UNCHANGED <<disk, client, snapshot, request, retired>>

\* Several accounts, or onboarding: no JWT yet, an old one must not survive.
ServerDefers ==
    /\ tx.step = "http" /\ tx.op = "login" /\ issued < MaxCredential
    /\ issued' = issued + 1
    /\ tx' = [tx EXCEPT !.credential = issued + 1, !.step = "nonAuth"]
    /\ UNCHANGED <<disk, client, snapshot, request, retired>>

\* Refused (a 401 of select or switch is about the session's own credential),
\* unreachable, or there is no session to call with.
ServerRefuses ==
    /\ tx.step = "http"
    /\ \/ tx.op = "login" /\ GoTo("restoreMetadata") /\ UNCHANGED snapshot
       \/ tx.op # "login" /\ EndUnchanged
       \/ /\ tx.op # "login" /\ CanCall
          /\ tx' = [tx EXCEPT !.step = "expireMetadata", !.refused = session.credential]
          /\ UNCHANGED snapshot
    /\ UNCHANGED <<disk, client, request, server>>

\* A commit that failed: login writes the previous metadata back and fails,
\* select and switch fail with the session they had.
CommitFailed ==
    IF tx.op = "login" THEN GoTo("restoreMetadata") /\ UNCHANGED snapshot
    ELSE EndUnchanged

RestoreMetadata ==
    /\ tx.step = "restoreMetadata"
    /\ metadata' \in {metadata, tx.previous}
    /\ EndUnchanged
    /\ UNCHANGED <<jwt, client, request, server>>

-----------------------------------------------------------------------------
\* commit_authenticated_session: the new JWT is saved, the one of another
\* environment deleted, then the session published.

SaveJwt ==
    /\ tx.step = "save"
    /\ \/ /\ jwt' = [jwt EXCEPT ![tx.environment] = tx.credential]
          /\ GoTo("publish") /\ UNCHANGED snapshot
       \/ UNCHANGED jwt /\ CommitFailed
    /\ UNCHANGED <<metadata, client, request, server>>

OtherEnvironment == IF HasSession THEN {session.environment} \ {tx.environment} ELSE {}

PublishSession ==
    /\ tx.step = "publish"
    /\ jwt' = DeleteJwt(OtherEnvironment)
    /\ session' = NewSession(tx.environment, tx.credential, FALSE)
    /\ generation' = generation + 1
    /\ Retire(1..(tx.credential - 1))
    /\ GoTo("me")
    /\ UNCHANGED <<metadata, snapshot, request, issued>>

\* The old environment's JWT cannot be deleted: the new one is, best effort.
RollBackJwt ==
    /\ tx.step = "publish" /\ OtherEnvironment # {}
    /\ jwt' \in {jwt, DeleteJwt({tx.environment})}
    /\ CommitFailed
    /\ UNCHANGED <<metadata, client, request, server>>

\* commit_non_authenticated_session, then SignedOut is written again; if that
\* fails the login is aborted.
CommitNonAuthenticated ==
    /\ tx.step = "nonAuth"
    /\ jwt' = DeleteJwt({tx.environment} \cup OtherEnvironment)
    /\ \E onboarding \in BOOLEAN :
           session' = IF onboarding THEN NoClientSession
                      ELSE NewSession(tx.environment, tx.credential, TRUE)
    /\ generation' = generation + 1
    /\ Retire(1..(tx.credential - 1))
    /\ \/ /\ WriteMetadata(SignedOutMetadata)
          /\ EndWith([state |-> IF session'.generation = 0 THEN "OnboardingRequired"
                                ELSE "AccountSelectionRequired",
                      environment |-> tx.environment, credential |-> 0])
       \/ UNCHANGED <<metadata, snapshot>> /\ GoTo("abortClient")
    /\ UNCHANGED <<request, issued>>

NonAuthenticatedFails ==
    /\ tx.step = "nonAuth"
    /\ \/ UNCHANGED jwt
       \/ OtherEnvironment # {} /\ jwt' = DeleteJwt({tx.environment})
    /\ CommitFailed
    /\ UNCHANGED <<metadata, client, request, server>>

-----------------------------------------------------------------------------
\* restore_session: what the metadata names, with the JWT the keychain holds.
\* The keychain may fail to answer.

LoadNothing ==
    /\ tx.step = "load"
    /\ EndUnchanged
    /\ UNCHANGED <<disk, client, request, server>>

\* No JWT: the metadata is cleared, which may fail.
LoadWithoutJwt ==
    /\ tx.step = "load" /\ metadata # SignedOutMetadata
    /\ jwt[metadata.environment] = 0
    /\ WriteMetadata(SignedOutMetadata)
    /\ EndUnchanged
    /\ UNCHANGED <<jwt, client, request, server>>

LoadSession ==
    /\ tx.step = "load" /\ metadata # SignedOutMetadata
    /\ jwt[metadata.environment] # 0
    /\ session' = NewSession(metadata.environment, jwt[metadata.environment], FALSE)
    /\ generation' = generation + 1
    /\ tx' = [tx EXCEPT !.step = "me", !.environment = metadata.environment,
                        !.credential = jwt[metadata.environment]]
    /\ UNCHANGED <<disk, snapshot, request, server>>

-----------------------------------------------------------------------------
\* GET /auth/me, then the identity is validated, persisted and published.

Me ==
    /\ tx.step = "me"
    /\ \/ GoTo("persist") /\ UNCHANGED <<client, snapshot>>
       \/ /\ tx' = [tx EXCEPT !.step = "expireMetadata", !.refused = session.credential]
          /\ UNCHANGED <<client, snapshot>>
       \/ tx.op # "restore" /\ GoTo("abortClient") /\ UNCHANGED <<client, snapshot>>
       \/ /\ tx.op = "restore"     \* suspend_restored_session
          /\ session' = NoClientSession /\ generation' = generation + 1
          /\ EndWith(SignedOut)
    /\ UNCHANGED <<disk, request, server>>

\* The environment is the snapshot's for a select.
Persist ==
    /\ tx.step = "persist"
    /\ LET environment == IF tx.op = "select" THEN snapshot.environment ELSE tx.environment
       IN  \/ /\ environment # NoEnvironment
              /\ WriteMetadata([environment |-> environment, credential |-> session.credential])
              /\ EndWith([state |-> "Authenticated", environment |-> environment,
                          credential |-> session.credential])
           \/ UNCHANGED <<metadata, snapshot>> /\ GoTo("abortClient")
    /\ UNCHANGED <<jwt, client, request, server>>

\* Mutant: a JWT that cannot be deleted ends the logout early.
LogoutUnlessKept ==
    \/ jwt' = jwt /\ UNCHANGED client
    \/ /\ jwt' = DeleteJwt({session.environment})
       /\ session' = NoClientSession /\ generation' = generation + 1

\* ManagerClient::logout: the session is gone whether or not its JWT can be deleted.
LocalLogout ==
    /\ jwt' \in {jwt, DeleteJwt({session.environment})}
    /\ session' = NoClientSession /\ generation' = generation + 1

ClientLogout ==
    /\ tx.step \in {"abortClient", "logout"}
    /\ LocalLogout
    /\ IF tx.step = "logout"
       THEN /\ EndWith(SignedOut)
            /\ Retire(IF metadata = SignedOutMetadata THEN {session.credential} ELSE {})
       ELSE GoTo("abortMetadata") /\ UNCHANGED <<snapshot, retired>>
    /\ UNCHANGED <<metadata, request, issued>>

AbortMetadata ==
    /\ tx.step = "abortMetadata"
    /\ \/ WriteMetadata(SignedOutMetadata) /\ Retire({tx.credential})
       \/ UNCHANGED <<metadata, retired>>
    /\ EndWith(SignedOut)
    /\ UNCHANGED <<jwt, client, request, issued>>

\* apply_auth_failure_for_generation: SignedOut metadata, then the session and
\* its JWT (best effort).  An incomplete authentication is aborted after it.
ExpireMetadata ==
    /\ tx.step = "expireMetadata"
    /\ \/ WriteMetadata(SignedOutMetadata) /\ Retire({session.credential})
       \/ UNCHANGED <<metadata, retired>>
    /\ GoTo("expireSession")
    /\ UNCHANGED <<jwt, client, snapshot, request, issued>>

ExpireSession ==
    /\ tx.step = "expireSession"
    /\ jwt' \in {jwt, DeleteJwt({session.environment})}
    /\ session' = NoClientSession
    /\ IF tx.op \in {"login", "restore"} \/ (tx.op = "select" /\ tx.credential # 0)
       THEN GoTo("abortClient") /\ snapshot' = SignedOut
       ELSE EndWith(SignedOut)
    /\ UNCHANGED <<metadata, generation, request, server>>

-----------------------------------------------------------------------------
\* An authenticated request: captured under the lock, sent with whatever
\* session is there by then, settled under the lock.

Capture(r) ==
    /\ tx = NoTransaction /\ MayRequest
    /\ request[r].phase = "idle"
    /\ request' = [request EXCEPT ![r].phase = "captured", ![r].expected = generation]
    /\ UNCHANGED <<disk, client, snapshot, tx, server>>

Send(r) ==
    /\ request[r].phase = "captured"
    /\ request' = [request EXCEPT ![r] =
           IF HasSession /\ ~session.pending
           THEN [@ EXCEPT !.phase = "sent", !.generation = session.generation,
                          !.credential = session.credential]
           ELSE NoRequestState]
    /\ UNCHANGED <<disk, client, snapshot, tx, server>>

Answer(r) ==
    /\ request[r].phase = "sent"
    /\ \E unauthorized \in BOOLEAN :
           request' = [request EXCEPT ![r].phase = "answered",
                                      ![r].unauthorized = unauthorized]
    /\ UNCHANGED <<disk, client, snapshot, tx, server>>

\* Mutant: only the captured generation is compared.
OutdatedSinceCapture(r) == request[r].generation # request[r].expected

\* handle_authenticated_outcome_for_generation and settle_authenticated_outcome
Outdated(r) ==
    \/ request[r].generation # request[r].expected
    \/ request[r].generation # generation

Settle(r) ==
    /\ tx = NoTransaction
    /\ request[r].phase = "answered"
    /\ request' = [request EXCEPT ![r] = NoRequestState]
    /\ tx' = IF request[r].unauthorized /\ ~Outdated(r) /\ HasSession
             THEN [NoTransaction EXCEPT !.op = "expire", !.step = "expireMetadata",
                                        !.refused = request[r].credential]
             ELSE tx
    /\ UNCHANGED <<disk, client, snapshot, server>>

\* The client stops and starts again; the keychain and the file are kept.
SessionCrash ==
    /\ session' = NoClientSession /\ generation' = 0
    /\ snapshot' = SignedOut /\ tx' = NoTransaction
    /\ request' = [r \in Requests |-> NoRequestState]
    /\ UNCHANGED <<disk, server>>

IdentityStep ==
    \/ BeginLogin \/ BeginSelect \/ BeginSwitch \/ BeginRestore \/ BeginLogout
    \/ ClearMetadata \/ ServerAccepts \/ ServerDefers \/ ServerRefuses
    \/ RestoreMetadata \/ SaveJwt \/ PublishSession \/ RollBackJwt
    \/ CommitNonAuthenticated \/ NonAuthenticatedFails
    \/ LoadNothing \/ LoadWithoutJwt \/ LoadSession
    \/ Me \/ Persist \/ ClientLogout \/ AbortMetadata
    \/ ExpireMetadata \/ ExpireSession

RequestStep(r) == Capture(r) \/ Send(r) \/ Answer(r) \/ Settle(r)

SessionNext == IdentityStep \/ SessionCrash \/ \E r \in Requests : RequestStep(r)
SessionSpec == SessionInit /\ [][SessionNext]_sessionVars

-----------------------------------------------------------------------------
SessionTypeOK ==
    /\ metadata \in [environment : SomeEnvironment, credential : Credentials]
    /\ jwt \in [Environments -> Credentials]
    /\ session \in [generation : Nat, environment : SomeEnvironment,
                    credential : Credentials, pending : BOOLEAN]
    /\ generation \in Nat
    /\ snapshot \in [state : {"SignedOut", "AccountSelectionRequired",
                              "OnboardingRequired", "Authenticated"},
                     environment : SomeEnvironment, credential : Credentials]
    /\ tx \in [op : {"none", "login", "select", "switch", "restore", "logout", "expire"},
               step : SessionSteps, environment : SomeEnvironment,
               credential : Credentials,
               previous : [environment : SomeEnvironment, credential : Credentials],
               refused : Credentials]
    /\ request \in [Requests -> [phase : {"idle", "captured", "sent", "answered"},
                                 expected : Nat, generation : Nat,
                                 credential : Credentials, unauthorized : BOOLEAN]]
    /\ issued \in Credentials
    /\ retired \subseteq Credentials

\* What restore_session would sign in if the client stopped here.
Restorable == IF metadata = SignedOutMetadata THEN 0 ELSE jwt[metadata.environment]

\* A credential that was replaced, or signed out with the metadata cleared,
\* never comes back, wherever the client stops and whichever write fails:
\* "A crash or rollback failure can then only lose auto-restore, never revive
\* the previous account" (login, manager_context.rs).
NeverRevived == Restorable \notin retired

\* The session and the JWT that a 401 removes are the ones the server refused,
\* however late the 401 arrives (settle_authenticated_outcome).
RefusedIsCurrent ==
    tx.step \in {"expireMetadata", "expireSession"} => session.credential = tx.refused

\* Between transactions the published Context and the session that signs the
\* requests are the same identity (transition_identity after every commit,
\* transition after every sign-out).
SnapshotIsSession ==
    tx = NoTransaction =>
        /\ (snapshot.state = "Authenticated") <=> (HasSession /\ ~session.pending)
        /\ snapshot.state = "Authenticated" =>
               /\ session.credential = snapshot.credential
               /\ session.environment = snapshot.environment
=============================================================================
