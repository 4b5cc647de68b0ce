-------------------------- MODULE ConnectionTargets --------------------------
(***************************************************************************)
(* Several Computers and what they may connect to: the manual SMCP targets *)
(* (a file, and a credential for each in the keychain), the Robots of the  *)
(* Manager, and the reservations that keep two Computers from one target   *)
(* or one office (commands/connection.rs).  SmcpConnection details the     *)
(* connection of one Computer; here a task is one connect command and a    *)
(* step is what it does under its locks or between two network calls.      *)
(***************************************************************************)
EXTENDS Naturals

CONSTANTS
    Computers,
    Manual,        \* ids of manual targets
    Robots,        \* employees of the Manager
    Offices,
    Connects,      \* connect commands running concurrently
    NoConnect,
    Nothing,       \* no target, no connection, no owner
    MaxTargetSaves, \* bounds the saves of targets
    MaxSessions    \* bounds the Manager sessions

\* What the file keeps of a manual target; of a contents only its identity, a number.
TargetContents == [office : Offices, contents : Nat]
\* The transport is up, retried by the SDK, or given up.
ConnectionState == [target : Manual \cup Robots, office : Offices,
                    transport : {"up", "retrying", "lost"}]

ASSUME ConnectionTargetsAssumption ==
    /\ NoConnect \notin Connects
    /\ Nothing \notin Computers \cup Manual \cup Robots \cup Offices
    /\ Nothing \notin TargetContents \cup ConnectionState
    /\ MaxTargetSaves \in Nat /\ MaxSessions \in Nat \ {0}

VARIABLES
    targetFile,   \* connection_targets: each manual target's office and contents
    credential,   \* the keychain's entry of each manual target, 0 without
    unrestored,   \* targets of which a failed write could not be undone
    targetSaves,  \* how many contents have been saved
    joined,       \* the ConnectionState of each Computer
    operation,    \* the connect whose token is each Computer's current one
    reservations, \* connection_target_reservations
    managerSession,
    connect       \* per task: what it knows and where it is

targetVars == <<targetFile, credential, unrestored, targetSaves, joined, operation,
                reservations, managerSession, connect>>
configured == <<targetFile, credential, unrestored, targetSaves>>

IdleConnect == [at |-> "idle", computer |-> Nothing, target |-> Nothing, office |-> Nothing,
                contents |-> 0, key |-> 0, session |-> 0]

TargetsInit ==
    /\ targetFile = [m \in Manual |-> Nothing]
    /\ credential = [m \in Manual |-> 0]
    /\ unrestored = {} /\ targetSaves = 0
    /\ joined = [c \in Computers |-> Nothing]
    /\ operation = [c \in Computers |-> NoConnect]
    /\ reservations = [k \in Manual \cup Robots \cup Offices |-> Nothing]
    /\ managerSession = 1
    /\ connect = [t \in Connects |-> IdleConnect]

-----------------------------------------------------------------------------
\* The manual targets, under connection_target_lock: the credential is written first
\* and put back when the file cannot be.

\* Mutant: the credential stays as written.
KeepsWritten(m, key) == credential' = [credential EXCEPT ![m] = key] /\ UNCHANGED unrestored

PutBack(m, key) ==
    \/ UNCHANGED <<credential, unrestored>>
    \/ credential' = [credential EXCEPT ![m] = key] /\ unrestored' = unrestored \cup {m}

SaveTarget(m, office) ==
    /\ targetSaves < MaxTargetSaves
    /\ targetSaves' = targetSaves + 1
    /\ \E key \in {credential[m], 0, targetSaves'} :
         \/ /\ targetFile' = [targetFile EXCEPT ![m] = [office |-> office, contents |-> targetSaves']]
            /\ credential' = [credential EXCEPT ![m] = key]
            /\ unrestored' = unrestored \ {m}
         \/ PutBack(m, key) /\ UNCHANGED targetFile
    /\ UNCHANGED <<joined, operation, reservations, managerSession, connect>>

TargetOf(c) == IF joined[c] = Nothing THEN Nothing ELSE joined[c].target

DeleteTarget(m) ==
    /\ targetFile[m] # Nothing
    /\ \A c \in Computers : TargetOf(c) # m
    /\ \/ /\ targetFile' = [targetFile EXCEPT ![m] = Nothing]
          /\ credential' = [credential EXCEPT ![m] = 0]
          /\ unrestored' = unrestored \ {m}
       \/ PutBack(m, 0) /\ UNCHANGED targetFile
    /\ UNCHANGED <<targetSaves, joined, operation, reservations, managerSession, connect>>

-----------------------------------------------------------------------------
\* Which targets are taken: another Computer's connection blocks its target and its
\* office, this Computer's own unless its transport is gone for good.

BlocksConnect(c, own) ==
    /\ joined[c] # Nothing
    /\ c = own => joined[c].transport # "lost"

TakenByOther(own, target, office) ==
    \E c \in Computers \ {own} :
       BlocksConnect(c, own) /\ (joined[c].target = target \/ joined[c].office = office)

AlreadyJoined(own, target) == BlocksConnect(own, own) /\ joined[own].target = target
JoinedElsewhere(own, target) == BlocksConnect(own, own) /\ joined[own].target # target
ConnectAllowed(own, target, office) ==
    ~TakenByOther(own, target, office) /\ ~AlreadyJoined(own, target) /\ ~JoinedElsewhere(own, target)

-----------------------------------------------------------------------------
\* A connect.  EndConnect drops the reservation and settles the operation, a failure
\* clears the connection first, both for the current token only.

At(t, point) == connect' = [connect EXCEPT ![t].at = point]
HoldsToken(t) == operation[connect[t].computer] = t

Released(t) == [k \in DOMAIN reservations |->
    IF connect[t].at \in {"check", "join", "commit"} /\ reservations[k] = connect[t].computer
       /\ k \in {connect[t].target, connect[t].office} THEN Nothing ELSE reservations[k]]

EndConnect(t) ==
    /\ reservations' = Released(t)
    /\ operation' = IF HoldsToken(t)
                    THEN [operation EXCEPT ![connect[t].computer] = NoConnect] ELSE operation
    /\ connect' = [connect EXCEPT ![t] = IdleConnect]

FailConnect(t) ==
    /\ joined' = IF HoldsToken(t) THEN [joined EXCEPT ![connect[t].computer] = Nothing] ELSE joined
    /\ EndConnect(t)

\* Under the lease and the target lock: read what the connect rests on, begin.
BeginManual(t, c, m) ==
    /\ connect[t] = IdleConnect /\ operation[c] = NoConnect
    /\ targetFile[m] # Nothing /\ ConnectAllowed(c, m, targetFile[m].office)
    /\ connect' = [connect EXCEPT ![t] =
         [at |-> "prepare", computer |-> c, target |-> m, office |-> targetFile[m].office,
          contents |-> targetFile[m].contents, key |-> credential[m], session |-> 0]]
    /\ operation' = [operation EXCEPT ![c] = t]
    /\ UNCHANGED <<configured, joined, reservations, managerSession>>

BeginRobot(t, c, r) ==
    /\ connect[t] = IdleConnect /\ operation[c] = NoConnect
    /\ ~BlocksConnect(c, c)
    /\ connect' = [connect EXCEPT ![t] =
         [IdleConnect EXCEPT !.at = "prepare", !.computer = c, !.target = r]]
    /\ operation' = [operation EXCEPT ![c] = t]
    /\ UNCHANGED <<configured, joined, reservations, managerSession>>

\* finish_connect_preparation clears a connection whose transport is gone.
PrepareConnect(t) ==
    /\ connect[t].at = "prepare"
    /\ IF HoldsToken(t)
       THEN /\ joined' = [joined EXCEPT ![connect[t].computer] = Nothing]
            /\ At(t, IF connect[t].target \in Robots THEN "resolve" ELSE "reserve")
            /\ UNCHANGED <<operation, reservations>>
       ELSE FailConnect(t)
    /\ UNCHANGED <<configured, managerSession>>

\* The Robot's office comes from the Manager, over several requests of one session;
\* any of them may fail, and so may the token's exchange.
ResolveRobot(t) ==
    /\ connect[t].at = "resolve"
    /\ \/ \E office \in Offices :
            /\ HoldsToken(t)
            /\ connect' = [connect EXCEPT ![t].at = "reserve", ![t].office = office,
                                          ![t].session = managerSession]
            /\ UNCHANGED <<joined, operation, reservations>>
       \/ FailConnect(t)
    /\ UNCHANGED <<configured, managerSession>>

\* Mutant: only the target is reserved.
ReserveTargetOnly(t) == reservations[connect[t].target] = Nothing

Unreserved(t) == \A k \in {connect[t].target, connect[t].office} : reservations[k] = Nothing

ReserveTarget(t) ==
    /\ connect[t].at = "reserve"
    /\ IF Unreserved(t)
       THEN /\ reservations' = [k \in DOMAIN reservations |->
                 IF k \in {connect[t].target, connect[t].office}
                 THEN connect[t].computer ELSE reservations[k]]
            /\ At(t, "check")
            /\ UNCHANGED <<joined, operation>>
       ELSE FailConnect(t)
    /\ UNCHANGED <<configured, managerSession>>

SessionHolds(t) == connect[t].target \in Robots => connect[t].session = managerSession

\* A Robot's connect keeps the Manager's session from here to its end.
CheckTarget(t) ==
    LET c == connect[t].computer IN
    /\ connect[t].at = "check"
    /\ IF HoldsToken(t) /\ SessionHolds(t) /\ ConnectAllowed(c, connect[t].target, connect[t].office)
       THEN At(t, "join") /\ UNCHANGED <<joined, operation, reservations>>
       ELSE IF HoldsToken(t) /\ SessionHolds(t) /\ AlreadyJoined(c, connect[t].target)
       THEN EndConnect(t) /\ UNCHANGED joined
       ELSE FailConnect(t)
    /\ UNCHANGED <<configured, managerSession>>

JoinOffice(t) ==
    LET c == connect[t].computer IN
    /\ connect[t].at = "join"
    /\ \/ /\ HoldsToken(t)
          /\ joined' = [joined EXCEPT ![c] =
               [target |-> connect[t].target, office |-> connect[t].office, transport |-> "up"]]
          /\ At(t, "commit")
          /\ UNCHANGED <<operation, reservations>>
       \/ FailConnect(t)
    /\ UNCHANGED <<configured, managerSession>>

\* Mutant: the commit trusts what the connect read at its beginning.
TrustsRead(t) == TRUE

\* commit_manual_connection_target, commit_robot_binding: the target and its credential
\* are still those the connect used.
UnchangedTarget(t) ==
    connect[t].target \in Manual =>
       LET m == connect[t].target IN
       /\ targetFile[m] # Nothing /\ targetFile[m].contents = connect[t].contents
       /\ credential[m] = connect[t].key

CommitTarget(t) ==
    /\ connect[t].at = "commit"
    /\ IF HoldsToken(t) /\ UnchangedTarget(t) THEN EndConnect(t) /\ UNCHANGED joined
       ELSE FailConnect(t)
    /\ UNCHANGED <<configured, managerSession>>

ConnectStep(t) ==
    PrepareConnect(t) \/ ResolveRobot(t) \/ ReserveTarget(t)
       \/ CheckTarget(t) \/ JoinOffice(t) \/ CommitTarget(t)

-----------------------------------------------------------------------------
\* Around it: a disconnect or a stop, the network, the Manager's session.

Disconnect(c) ==
    /\ joined[c] # Nothing \/ operation[c] # NoConnect
    /\ joined' = [joined EXCEPT ![c] = Nothing]
    /\ operation' = [operation EXCEPT ![c] = NoConnect]
    /\ UNCHANGED <<configured, reservations, managerSession, connect>>

LoseTransport(c) ==
    /\ joined[c] # Nothing /\ joined[c].transport = "up"
    /\ joined' = [joined EXCEPT ![c].transport = "retrying"]
    /\ UNCHANGED <<configured, operation, reservations, managerSession, connect>>

\* The SDK reconnects by itself or gives up; for a Robot it asks for a new token each
\* time, of the session the connection was made in.
Reconnect(c) ==
    /\ joined[c] # Nothing /\ joined[c].transport = "retrying"
    /\ \E transport \in {"up", "lost"} : joined' = [joined EXCEPT ![c].transport = transport]
    /\ UNCHANGED <<configured, operation, reservations, managerSession, connect>>

\* A sign-in, a switch or an expiry ends the session and what was connected in it.
ChangeSession ==
    /\ managerSession < MaxSessions
    /\ \A t \in Connects : ~(connect[t].target \in Robots /\ connect[t].at \in {"join", "commit"})
    /\ managerSession' = managerSession + 1
    /\ joined' = [c \in Computers |-> IF TargetOf(c) \in Robots THEN Nothing ELSE joined[c]]
    /\ operation' = [c \in Computers |->
         IF operation[c] # NoConnect /\ connect[operation[c]].target \in Robots
         THEN NoConnect ELSE operation[c]]
    /\ UNCHANGED <<configured, reservations, connect>>

TargetsNext ==
    \/ \E m \in Manual : DeleteTarget(m) \/ \E office \in Offices : SaveTarget(m, office)
    \/ \E t \in Connects, c \in Computers :
         (\E m \in Manual : BeginManual(t, c, m)) \/ (\E r \in Robots : BeginRobot(t, c, r))
    \/ \E t \in Connects : ConnectStep(t)
    \/ \E c \in Computers : Disconnect(c) \/ LoseTransport(c) \/ Reconnect(c)
    \/ ChangeSession

TargetsSpec == TargetsInit /\ [][TargetsNext]_targetVars

-----------------------------------------------------------------------------
ConnectPoints == {"idle", "prepare", "resolve", "reserve", "check", "join", "commit"}
ConnectTask ==
    [at : ConnectPoints, computer : Computers \cup {Nothing},
     target : Manual \cup Robots \cup {Nothing}, office : Offices \cup {Nothing},
     contents : Nat, key : Nat, session : Nat]

TargetsTypeOK ==
    /\ targetFile \in [Manual -> TargetContents \cup {Nothing}]
    /\ credential \in [Manual -> Nat]
    /\ unrestored \subseteq Manual /\ targetSaves \in 0..MaxTargetSaves
    /\ joined \in [Computers -> ConnectionState \cup {Nothing}]
    /\ operation \in [Computers -> Connects \cup {NoConnect}]
    /\ reservations \in [Manual \cup Robots \cup Offices -> Computers \cup {Nothing}]
    /\ managerSession \in 1..MaxSessions
    /\ connect \in [Connects -> ConnectTask]

\* No two Computers are connected to one target or in one office.
ExclusiveTargets ==
    \A c, d \in Computers : c # d /\ joined[c] # Nothing /\ joined[d] # Nothing =>
       joined[c].target # joined[d].target /\ joined[c].office # joined[d].office

\* A connection at rest is to a target that exists.
ConnectedTargetExists ==
    \A c \in Computers : TargetOf(c) \in Manual /\ operation[c] = NoConnect =>
       targetFile[TargetOf(c)] # Nothing

\* The keychain holds no credential of a target that is not in the file, except where
\* putting it back failed and was reported.
CredentialHasTarget ==
    \A m \in Manual : credential[m] # 0 /\ targetFile[m] = Nothing => m \in unrestored

TargetsHold == ExclusiveTargets /\ ConnectedTargetExists /\ CredentialHasTarget
=============================================================================
