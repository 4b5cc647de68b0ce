------------------------ MODULE SmcpConnectionProofs -------------------------
(***************************************************************************)
(* Theorems about SmcpConnection, for any number of commands and with no   *)
(* use of the bounds: type correctness, and the ownership invariant from   *)
(* which InFlightHasOwner and LocksHeldByCommands follow; then what its    *)
(* authority means: a connection shown as Connected has its own transport, *)
(* what is at rest is committed, and no authority or binding of a departed *)
(* Manager session survives; and last that it implements                   *)
(* ConnectionAuthority: every step of every command, teardown, retry,      *)
(* cleanup and rollback is a step of the promise or leaves it alone.       *)
(***************************************************************************)
EXTENDS MCSmcpConnection, TLAPS

\* The points at which a task holds the lease, the lifecycle lock, and the
\* Manager transaction lock.
LeasePoints ==
    {"begin", "apply", "dBegin", "dEnsure", "iLock", "iTeardown", "iPersist"}
        \cup LifecyclePoints
LockPoints ==
    {"prepareTeardown", "connectSocket", "install", "abortTeardown",
     "finishTeardown", "dTeardown", "iTeardown"}
        \cup (LifecyclePoints \ {"rLock", "sLock", "xLock"})
CommitPoints == {"connectLock", "connectSocket", "install", "commit", "apply"}
HoldsTx(t) ==
    \/ pc[t] \in IdentityPoints
    \/ pc[t] \in CommitPoints /\ src[t] = "manager_robot"
RetirePoints == {"xLock", "xPrepared", "sTeardown", "sShutdown", "sTake", "sComplete"}

\* A lock is held exactly by the task that is at one of its points.
LeaseInv == \A t \in Tasks : pc[t] \in LeasePoints <=> lease = t
LockInv == \A t \in Tasks : pc[t] \in LockPoints <=> lock = t
TxInv == \A t \in Tasks : HoldsTx(t) <=> tx = t

\* The runtime outlives every command that holds its lease, and only a deletion
\* under the lease retires it.
PresentInv == lease # NoTask => present
RetiredInv == retired /\ present => \E t \in Tasks : pc[t] \in RetirePoints

\* A removed runtime, and one whose handle is about to be replaced, has no
\* operation in flight.
AbsentInv == ~present => op.operation = "none"
ReplaceInv == \A t \in Tasks : pc[t] = "rInstall" => op.operation = "none"

\* A disconnect past its begin holds a Disconnect token.
TokenInv ==
    \A t \in Tasks :
        pc[t] \in DisconnectPoints \ {"dBegin"} => tok[t].operation = "Disconnect"

\* Only a Manager connect gets as far as the commit under the transaction lock.
ManagerInv == \A t \in Tasks : pc[t] = "transaction" => src[t] = "manager_robot"

OwnershipInv == PresentInv /\ RetiredInv /\ AbsentInv /\ ReplaceInv /\ TokenInv
LockingInv == LeaseInv /\ LockInv /\ TxInv /\ ManagerInv

-----------------------------------------------------------------------------
(* Type correctness. *)

\* What a task moving on, returning or beginning an operation leaves well typed.
LEMMA GotoType ==
    ASSUME LocalTypeOK, NEW t \in Tasks, NEW point \in Points, Goto(t, point)
    PROVE  LocalTypeOK'
  BY DEF LocalTypeOK, Goto

LEMMA ReturnType ==
    ASSUME LocalTypeOK, NEW t \in Tasks, Return(t)
    PROVE  LocalTypeOK'
  BY DEF LocalTypeOK, Return, Points, Token, Profile, NoToken, NoProfile

LEMMA BeginType ==
    ASSUME TypeOK, NEW t \in Tasks, NEW operation \in Operations, NEW point \in Points,
           NEW source \in Sources \cup {"none"},
           BeginOperation(t, operation, source, point)
    PROVE  LocalTypeOK' /\ op' \in Operation
<1>1. op \in Operation /\ op.epoch \in Nat /\ runtimeGeneration \in Nat
  BY DEF TypeOK, Operation
<1>2. op' \in Operation
  BY <1>1 DEF BeginOperation, Operation
<1>3. [operation |-> operation, epoch |-> op.epoch + 1,
       runtimeGeneration |-> runtimeGeneration] \in Token
  BY <1>1 DEF Token
<1>4. tok' \in [Tasks -> Token]
  BY <1>3 DEF TypeOK, LocalTypeOK, BeginOperation
<1>5. QED
  BY <1>2, <1>4 DEF TypeOK, LocalTypeOK, BeginOperation

\* The settlements keep connection and operation well typed.
LEMMA SettleType ==
    ASSUME TypeOK, NEW t \in Tasks
    PROVE  /\ \A error \in BOOLEAN : SettledOp(error) \in Operation
           /\ \A error \in BOOLEAN : DiagnosedOp(error) \in Operation
           /\ CancelledOp \in Operation
           /\ NoConnection \in Connection
  BY
     DEF TypeOK, SettledOp, DiagnosedOp, CancelledOp, NoConnection, Operation,
         Connection

LEMMA DisconnectType ==
    ASSUME TypeOK
    PROVE  /\ DisconnectOk => lifecycle' \in LifecycleState /\ socket' \in Nat
           /\ LeaveOffice => lifecycle' \in LifecycleState
  BY DEF TypeOK, DisconnectOk, LeaveOffice, LifecycleState

LEMMA ShutdownType ==
    ASSUME TypeOK, ShutdownSdkOk \/ ShutdownSdkErr
    PROVE  /\ lifecycle' \in LifecycleState
           /\ socket' \in Nat
           /\ shutdownCompleted' \in BOOLEAN
<1>1. CASE UNCHANGED <<lifecycle, socket, shutdownCompleted>>
  BY <1>1 DEF TypeOK
<1>2. CASE lifecycle' = "Shutdown" /\ socket' = 0 /\ shutdownCompleted' = TRUE
  BY <1>2 DEF LifecycleState
<1>3. QED
  BY <1>1, <1>2, Zenon DEF ShutdownSdkOk, ShutdownSdkErr

\* The tuples in the UNCHANGED conjuncts are opened in every step of these proofs.
USE DEF authority, sdk, handle, registry, manager, environs, locks

LEMMA ConnectStepType ==
    ASSUME TypeOK, NEW t \in Tasks, ConnectStep(t)
    PROVE  TypeOK'
<1> USE GotoType, ReturnType, SettleType DEF TypeOK
<1>1. CASE ConnectBegin(t)
  <2>1. src[t] \in Sources \cup {"none"}
    BY DEF LocalTypeOK
  <2>2. "prepare" \in Points /\ "Connect" \in Operations
    BY DEF Points, ConnectPoints, Operations
  <2>3. LocalTypeOK' /\ op' \in Operation
    BY <1>1, <2>1, <2>2, BeginType DEF ConnectBegin
  <2>4. QED
    BY <1>1, <2>3 DEF ConnectBegin
<1>2. CASE Prepare(t)
  BY <1>2 DEF Prepare, Points, ConnectPoints
<1>3. CASE PrepareLock(t)
  BY <1>3 DEF PrepareLock, ClearForOperation, Points, ConnectPoints
<1>4. CASE PrepareTeardown(t)
  BY <1>4, DisconnectType
     DEF PrepareTeardown, ClearSmcpConnection, DisconnectErr, Points, ConnectPoints
<1>5. CASE Admit(t)
  BY <1>5 DEF Admit, Points, ConnectPoints
<1>6. CASE Resolve(t)
  BY <1>6 DEF Resolve, LocalTypeOK, Session, Goto, Points, ConnectPoints
<1>7. CASE Reserve(t)
  BY <1>7 DEF Reserve, Points, ConnectPoints
<1>8. CASE EstablishManual(t)
  BY <1>8 DEF EstablishManual, LocalTypeOK, FreshGeneration, Goto, Points, ConnectPoints
<1>9. CASE EstablishManager(t)
  BY <1>9
     DEF EstablishManager, LocalTypeOK, FreshGeneration, Goto, Points, ConnectPoints
<1>10. CASE Transaction(t)
  BY <1>10 DEF Transaction, Points, ConnectPoints
<1>11. CASE ConnectLock(t)
  BY <1>11 DEF ConnectLock, AbortTo, LifecycleState, Points, ConnectPoints
<1>12. CASE ConnectSocket(t)
  <2>1. gen[t] \in Nat
    BY DEF LocalTypeOK
  <2>2. LocalTypeOK' /\ tx' \in Tasks \cup {NoTask}
    BY <1>12 DEF ConnectSocket, AbortTo, Points, ConnectPoints
  <2>3. QED
    BY <1>12, <2>1, <2>2 DEF ConnectSocket, LifecycleState
<1>13. CASE Install(t)
  <2>1. LocalTypeOK' /\ tx' \in Tasks \cup {NoTask}
    BY <1>13 DEF Install, AbortTo, Points, ConnectPoints
  <2>2. lifecycle' \in LifecycleState /\ socket' \in Nat
    BY <1>13, DisconnectType DEF Install, BoundedDisconnect, DisconnectErr
  <2>3. [source |-> src[t], generation |-> gen[t], session |-> mgr[t]] \in Connection
    BY DEF LocalTypeOK, Connection
  <2>4. connection' \in Connection /\ op' \in Operation
    BY <1>13, <2>3 DEF Install, InstallConnectionState
  <2>5. QED
    BY <1>13, <2>1, <2>2, <2>4 DEF Install
<1>14. CASE Commit(t)
  <2>1. Committed(t) \in Profile
    BY DEF Committed, LocalTypeOK, Profile
  <2>2. QED
    BY <1>14, <2>1 DEF Commit, AbortTo, Points, ConnectPoints
<1>15. CASE Apply(t)
  <2>1. seen[t] \in Profile
    BY DEF LocalTypeOK
  <2>2. QED
    BY <1>15, <2>1 DEF Apply, AbortTo, Points, ConnectPoints
<1>16. CASE AbortLock(t)
  BY <1>16 DEF AbortLock, ClearForOperation, AfterAbort, Points, ConnectPoints
<1>17. CASE AbortTeardown(t)
  BY <1>17, DisconnectType
     DEF AbortTeardown, ClearSmcpConnection, DisconnectErr, AfterAbort, Points,
         ConnectPoints
<1>18. CASE FinishLock(t)
  BY <1>18 DEF FinishLock, ClearForOperation, Points, ConnectPoints
<1>19. CASE FinishTeardown(t)
  BY <1>19, DisconnectType
     DEF FinishTeardown, ClearSmcpConnection, DisconnectErr, Points, ConnectPoints
<1>20. CASE Fail(t)
  BY <1>20 DEF Fail, FailForToken
<1>21. CASE Complete(t)
  BY <1>21 DEF Complete, CompleteForToken, Points, ConnectPoints
<1>22. QED
  BY <1>1, <1>2, <1>3, <1>4, <1>5, <1>6, <1>7, <1>8, <1>9, <1>10, <1>11, <1>12, <1>13,
     <1>14, <1>15, <1>16, <1>17, <1>18, <1>19, <1>20, <1>21 DEF ConnectStep

LEMMA DisconnectStepType ==
    ASSUME TypeOK, NEW t \in Tasks, DisconnectStep(t)
    PROVE  TypeOK'
<1> USE GotoType, ReturnType, SettleType DEF TypeOK
<1>1. CASE DisconnectBegin(t)
  <2>1. src[t] \in Sources \cup {"none"}
    BY DEF LocalTypeOK
  <2>2. "dEnsure" \in Points /\ "Disconnect" \in Operations
    BY DEF Points, DisconnectPoints, Operations
  <2>3. LocalTypeOK' /\ op' \in Operation
    BY <1>1, <2>1, <2>2, BeginType DEF DisconnectBegin
  <2>4. QED
    BY <1>1, <2>3 DEF DisconnectBegin
<1>2. CASE DisconnectEnsure(t)
  BY <1>2 DEF DisconnectEnsure, ReconcileForToken, Points, DisconnectPoints
<1>3. CASE DisconnectTransport(t)
  BY <1>3 DEF DisconnectTransport, Points, DisconnectPoints
<1>4. CASE DisconnectLock(t)
  BY <1>4 DEF DisconnectLock, Points, DisconnectPoints
<1>5. CASE DisconnectTeardown(t)
  BY <1>5, DisconnectType
     DEF DisconnectTeardown, ClearSmcpConnection, DisconnectErr, Points,
         DisconnectPoints
<1>6. CASE DisconnectFailed(t)
  BY <1>6 DEF DisconnectFailed, ReconcileForToken
<1>7. CASE DisconnectSettle(t)
  BY <1>7 DEF DisconnectSettle, CompleteForToken
<1>8. QED
  BY <1>1, <1>2, <1>3, <1>4, <1>5, <1>6, <1>7 DEF DisconnectStep

LEMMA LifecycleStepType ==
    ASSUME TypeOK, NEW t \in Tasks, LifecycleStep(t)
    PROVE  TypeOK'
<1> USE GotoType, ReturnType, SettleType DEF TypeOK
<1>1. CASE ReplaceLock(t)
  BY <1>1 DEF ReplaceLock, Points, LifecyclePoints
<1>2. CASE ReplaceClear(t)
  BY <1>2, DisconnectType DEF ReplaceClear, DisconnectErr, Points, LifecyclePoints
<1>3. CASE ReplaceCancel(t)
  <2>1. LocalTypeOK' /\ op' \in Operation
    BY <1>3 DEF ReplaceCancel, Points, LifecyclePoints
  <2>2. lifecycle' \in LifecycleState /\ socket' \in Nat /\ shutdownCompleted' \in BOOLEAN
    BY <1>3, ShutdownType DEF ReplaceCancel
  <2>3. QED
    BY <1>3, <2>1, <2>2 DEF ReplaceCancel
<1>4. CASE ReplaceInstall(t)
  <2>1. LocalTypeOK'
    BY <1>4 DEF ReplaceInstall
  <2>2. lifecycle' \in LifecycleState /\ shutdownCompleted' \in BOOLEAN
    BY <1>4 DEF ReplaceInstall, LifecycleState
  <2>3. op' \in Operation
    BY <1>4 DEF ReplaceInstall
  <2>4. /\ socket' = 0 /\ runtimeGeneration' = runtimeGeneration + 1
        /\ lease' = NoTask /\ lock' = NoTask /\ UNCHANGED <<connection, environs, tx>>
    BY <1>4 DEF ReplaceInstall
  <2>5. QED
    BY <2>1, <2>2, <2>3, <2>4
<1>5. CASE StopLock(t)
  BY <1>5 DEF StopLock, Points, LifecyclePoints
<1>6. CASE ShutdownTeardown(t)
  BY <1>6, DisconnectType
     DEF ShutdownTeardown, BoundedDisconnect, DisconnectErr, Points, LifecyclePoints
<1>7. CASE ShutdownSdk(t)
  <2>1. LocalTypeOK'
    BY <1>7 DEF ShutdownSdk, Points, LifecyclePoints
  <2>2. QED
    BY <1>7, <2>1, ShutdownType DEF ShutdownSdk
<1>8. CASE ShutdownTake(t)
  BY <1>8 DEF ShutdownTake, Points, LifecyclePoints
<1>9. CASE ShutdownComplete(t)
  BY <1>9 DEF ShutdownComplete
<1>10. CASE DeleteLock(t)
  BY <1>10 DEF DeleteLock, Points, LifecyclePoints
<1>11. CASE DeleteDecide(t)
  BY <1>11 DEF DeleteDecide, Points, LifecyclePoints
<1>12. QED
  BY <1>1, <1>2, <1>3, <1>4, <1>5, <1>6, <1>7, <1>8, <1>9, <1>10, <1>11
     DEF LifecycleStep

LEMMA IdentityStepType ==
    ASSUME TypeOK, NEW t \in Tasks, IdentityStep(t)
    PROVE  TypeOK'
<1> USE GotoType, ReturnType, SettleType DEF TypeOK
<1>1. CASE IdentityLease(t)
  BY <1>1 DEF IdentityLease, Points, IdentityPoints
<1>2. CASE IdentityLock(t)
  BY <1>2 DEF IdentityLock, Points, IdentityPoints
<1>3. CASE IdentityTeardown(t)
  <2>1. connection' \in Connection
    BY <1>3 DEF IdentityTeardown
  <2>2. op' \in Operation
    BY <1>3 DEF IdentityTeardown
  <2>3. \/ DisconnectOk /\ UNCHANGED cleanupFailed
        \/ UNCHANGED <<lifecycle, socket, cleanupFailed>>
        \/ LeaveOffice /\ socket' = 0 /\ cleanupFailed' = TRUE
    BY <1>3, Zenon DEF IdentityTeardown
  <2>4. lifecycle' \in LifecycleState /\ socket' \in Nat /\ cleanupFailed' \in BOOLEAN
    <3>1. lifecycle' \in LifecycleState /\ socket' \in Nat
      BY <2>3, DisconnectType
    <3>2. cleanupFailed' \in BOOLEAN
      BY <2>3, Zenon
    <3>3. QED
      BY <3>1, <3>2
  <2>5. LocalTypeOK'
    BY <1>3 DEF IdentityTeardown, Points, IdentityPoints
  <2>6. UNCHANGED <<handle, registry, profile, nextGeneration, session, departing,
                    lease, tx>> /\ lock' = NoTask
    BY <1>3 DEF IdentityTeardown
  <2>7. QED
    BY <2>1, <2>2, <2>4, <2>5, <2>6
<1>4. CASE IdentityPersist(t)
  <2>1. [profile EXCEPT !.active = FALSE] \in Profile
    BY DEF Profile
  <2>2. QED
    BY <1>4, <2>1 DEF IdentityPersist, Points, IdentityPoints
<1>5. CASE IdentityCommit(t)
  <2>1. session' \in Session
    BY <1>5 DEF IdentityCommit, Session
  <2>2. QED
    BY <1>5, <2>1 DEF IdentityCommit
<1>6. QED
  BY <1>1, <1>2, <1>3, <1>4, <1>5 DEF IdentityStep

LEMMA AdmissionType ==
    ASSUME TypeOK, NEW t \in Tasks, Admission(t)
    PROVE  TypeOK'
<1> USE GotoType, ReturnType, SettleType DEF TypeOK
<1>1. CASE DisconnectAdmit(t)
  <2>1. connection.source \in Sources \cup {"none"}
    BY DEF Connection
  <2>2. QED
    BY <1>1, <2>1 DEF DisconnectAdmit, LocalTypeOK, Points, DisconnectPoints
<1>2. CASE ReplaceAdmit(t)
  BY <1>2 DEF ReplaceAdmit, Points, LifecyclePoints
<1>3. CASE StopAdmit(t)
  BY <1>3 DEF StopAdmit, Points, LifecyclePoints
<1>4. CASE DeleteAdmit(t)
  BY <1>4 DEF DeleteAdmit, Points, LifecyclePoints
<1>5. CASE IdentityAdmit(t)
  <2>1. departing' \in SUBSET Nat
    BY <1>5 DEF IdentityAdmit, Session
  <2>2. QED
    BY <1>5, <2>1 DEF IdentityAdmit, Points, IdentityPoints
<1>6. ASSUME NEW source \in Sources, ConnectAdmit(t, source)
      PROVE  TypeOK'
  BY <1>6 DEF ConnectAdmit, LocalTypeOK, Points, ConnectPoints
<1>7. QED
  BY <1>1, <1>2, <1>3, <1>4, <1>5, <1>6 DEF Admission

LEMMA InitType == Init => TypeOK
<1> SUFFICES ASSUME Init PROVE TypeOK
  OBVIOUS
<1>1. connection \in Connection /\ op \in Operation
  BY DEF Init, NoConnection, Connection, Operation
<1>2. profile \in Profile /\ session \in Session
  BY DEF Init, NoProfile, Profile, Session
<1>3. LocalTypeOK
  <2>1. NoToken \in Token /\ NoProfile \in Profile /\ "Idle" \in Points
    BY DEF NoToken, Token, NoProfile, Profile, Points
  <2>2. QED
    BY <2>1 DEF Init, LocalTypeOK
<1>4. QED
  BY <1>1, <1>2, <1>3 DEF Init, TypeOK, LifecycleState

LEMMA TypeNext == TypeOK /\ [Next]_vars => TypeOK'
<1> SUFFICES ASSUME TypeOK, [Next]_vars PROVE TypeOK'
  OBVIOUS
<1>1. ASSUME NEW t \in Tasks, Admission(t) PROVE TypeOK'
  BY <1>1, AdmissionType
<1>2. ASSUME NEW t \in Tasks, Step(t) PROVE TypeOK'
  BY <1>2, ConnectStepType, DisconnectStepType, LifecycleStepType, IdentityStepType
     DEF Step
<1>3. CASE TransportLost \/ TransportSettled
  BY <1>3
     DEF TransportLost, TransportSettled, TypeOK, LocalTypeOK, LifecycleState, local
<1>4. CASE UNCHANGED vars
  BY <1>4 DEF vars, TypeOK, LocalTypeOK
<1>5. QED
  BY <1>1, <1>2, <1>3, <1>4 DEF Next

\* Every variable keeps its type, whatever commands run and interleave.
THEOREM TypeCorrect == Spec => []TypeOK
  BY InitType, TypeNext, PTL DEF Spec

-----------------------------------------------------------------------------
(* Locks and ownership. *)

\* A step of one task leaves the program points, tokens and sources of the others.
OthersKeep(t) ==
    \A u \in Tasks \ {t} : pc'[u] = pc[u] /\ tok'[u] = tok[u] /\ src'[u] = src[u]

\* A step takes a lock that was free or gives back its own, and after it the task
\* holds exactly the locks of the point it is at.
Moves(t, before, after) == after = before \/ {before, after} \subseteq {t, NoTask}
LeaseStep(t) == Moves(t, lease, lease') /\ (pc'[t] \in LeasePoints <=> lease' = t)
LockStep(t) == Moves(t, lock, lock') /\ (pc'[t] \in LockPoints <=> lock' = t)
TxStep(t) == Moves(t, tx, tx') /\ (HoldsTx(t)' <=> tx' = t)
LockingStep(t) ==
    /\ OthersKeep(t) /\ LeaseStep(t) /\ LockStep(t) /\ TxStep(t)
    /\ pc'[t] = "transaction" => src'[t] = "manager_robot"

LEMMA GotoEffect ==
    ASSUME TypeOK, NEW t \in Tasks, NEW point, Goto(t, point)
    PROVE  /\ pc'[t] = point /\ tok'[t] = tok[t] /\ src'[t] = src[t]
           /\ OthersKeep(t)
  BY DEF TypeOK, LocalTypeOK, Goto, OthersKeep

LEMMA ReturnEffect ==
    ASSUME TypeOK, NEW t \in Tasks, Return(t)
    PROVE  pc'[t] = "Idle" /\ OthersKeep(t)
  BY DEF TypeOK, LocalTypeOK, Return, OthersKeep

LEMMA BeginEffect ==
    ASSUME TypeOK, NEW t \in Tasks, NEW operation \in Operations, NEW source, NEW point,
           BeginOperation(t, operation, source, point)
    PROVE  /\ pc'[t] = point /\ src'[t] = src[t] /\ OthersKeep(t)
           /\ tok'[t].operation = operation
           /\ op'.operation = operation
           /\ op'.epoch = tok'[t].epoch
           /\ tok'[t].runtimeGeneration = runtimeGeneration
  BY DEF TypeOK, LocalTypeOK, BeginOperation, OthersKeep

LEMMA FreshEffect ==
    ASSUME TypeOK, NEW t \in Tasks, NEW point, FreshGeneration(t, point)
    PROVE  /\ pc'[t] = point /\ tok'[t] = tok[t] /\ src'[t] = src[t]
           /\ OthersKeep(t)
  BY DEF TypeOK, LocalTypeOK, FreshGeneration, OthersKeep

LEMMA ConnectLocking ==
    ASSUME TypeOK, LockingInv, NEW t \in Tasks, ConnectStep(t)
    PROVE  LockingStep(t)
<1> USE NoTaskAssumption, GotoEffect, ReturnEffect
    DEF LockingInv, LeaseInv, LockInv, TxInv, ManagerInv, LockingStep, LeaseStep, LockStep,
        TxStep, Moves, HoldsTx, LeasePoints, LockPoints, CommitPoints,
        LifecyclePoints, IdentityPoints
<1>1. CASE ConnectBegin(t)
  BY <1>1, BeginEffect DEF ConnectBegin, Operations
<1>2. CASE Prepare(t)
  BY <1>2 DEF Prepare
<1>3. CASE PrepareLock(t)
  BY <1>3 DEF PrepareLock, ClearForOperation
<1>4. CASE PrepareTeardown(t)
  BY <1>4 DEF PrepareTeardown, ClearSmcpConnection
<1>5. CASE Admit(t)
  BY <1>5 DEF Admit
<1>6. CASE Resolve(t)
  BY <1>6 DEF Resolve, Goto, OthersKeep, TypeOK, LocalTypeOK
<1>7. CASE Reserve(t)
  BY <1>7 DEF Reserve
<1>8. CASE EstablishManual(t)
  BY <1>8, FreshEffect DEF EstablishManual
<1>9. CASE EstablishManager(t)
  BY <1>9, FreshEffect DEF EstablishManager
<1>10. CASE Transaction(t)
  BY <1>10 DEF Transaction
<1>11. CASE ConnectLock(t)
  BY <1>11 DEF ConnectLock, AbortTo
<1>12. CASE ConnectSocket(t)
  BY <1>12 DEF ConnectSocket, AbortTo
<1>13. CASE Install(t)
  BY <1>13 DEF Install, AbortTo
<1>14. CASE Commit(t)
  BY <1>14 DEF Commit, AbortTo
<1>15. CASE Apply(t)
  BY <1>15 DEF Apply, AbortTo
<1>16. CASE AbortLock(t)
  BY <1>16 DEF AbortLock, ClearForOperation, AfterAbort
<1>17. CASE AbortTeardown(t)
  BY <1>17 DEF AbortTeardown, ClearSmcpConnection, AfterAbort
<1>18. CASE FinishLock(t)
  BY <1>18 DEF FinishLock, ClearForOperation
<1>19. CASE FinishTeardown(t)
  BY <1>19 DEF FinishTeardown, ClearSmcpConnection
<1>20. CASE Fail(t)
  BY <1>20 DEF Fail
<1>21. CASE Complete(t)
  BY <1>21 DEF Complete
<1>22. QED
  BY <1>1, <1>2, <1>3, <1>4, <1>5, <1>6, <1>7, <1>8, <1>9, <1>10, <1>11, <1>12, <1>13,
     <1>14, <1>15, <1>16, <1>17, <1>18, <1>19, <1>20, <1>21 DEF ConnectStep

LEMMA DisconnectLocking ==
    ASSUME TypeOK, LockingInv, NEW t \in Tasks, DisconnectStep(t)
    PROVE  LockingStep(t)
<1> USE NoTaskAssumption, GotoEffect, ReturnEffect
    DEF LockingInv, LeaseInv, LockInv, TxInv, ManagerInv, LockingStep, LeaseStep, LockStep,
        TxStep, Moves, HoldsTx, LeasePoints, LockPoints, CommitPoints,
        LifecyclePoints, IdentityPoints
<1>1. CASE DisconnectBegin(t)
  BY <1>1, BeginEffect DEF DisconnectBegin, Operations
<1>2. CASE DisconnectEnsure(t)
  BY <1>2 DEF DisconnectEnsure
<1>3. CASE DisconnectTransport(t)
  BY <1>3 DEF DisconnectTransport
<1>4. CASE DisconnectLock(t)
  BY <1>4 DEF DisconnectLock
<1>5. CASE DisconnectTeardown(t)
  BY <1>5 DEF DisconnectTeardown, ClearSmcpConnection
<1>6. CASE DisconnectFailed(t)
  BY <1>6 DEF DisconnectFailed
<1>7. CASE DisconnectSettle(t)
  BY <1>7 DEF DisconnectSettle
<1>8. QED
  BY <1>1, <1>2, <1>3, <1>4, <1>5, <1>6, <1>7 DEF DisconnectStep

LEMMA LifecycleLocking ==
    ASSUME TypeOK, LockingInv, NEW t \in Tasks, LifecycleStep(t)
    PROVE  LockingStep(t)
<1> USE NoTaskAssumption, GotoEffect, ReturnEffect
    DEF LockingInv, LeaseInv, LockInv, TxInv, ManagerInv, LockingStep, LeaseStep, LockStep,
        TxStep, Moves, HoldsTx, LeasePoints, LockPoints, CommitPoints,
        LifecyclePoints, IdentityPoints
<1>1. CASE ReplaceLock(t)
  BY <1>1 DEF ReplaceLock
<1>2. CASE ReplaceClear(t)
  BY <1>2 DEF ReplaceClear
<1>3. CASE ReplaceCancel(t)
  BY <1>3 DEF ReplaceCancel
<1>4. CASE ReplaceInstall(t)
  BY <1>4 DEF ReplaceInstall
<1>5. CASE StopLock(t)
  BY <1>5 DEF StopLock
<1>6. CASE ShutdownTeardown(t)
  BY <1>6 DEF ShutdownTeardown
<1>7. CASE ShutdownSdk(t)
  BY <1>7 DEF ShutdownSdk
<1>8. CASE ShutdownTake(t)
  BY <1>8 DEF ShutdownTake
<1>9. CASE ShutdownComplete(t)
  BY <1>9 DEF ShutdownComplete
<1>10. CASE DeleteLock(t)
  BY <1>10 DEF DeleteLock
<1>11. CASE DeleteDecide(t)
  BY <1>11 DEF DeleteDecide
<1>12. QED
  BY <1>1, <1>2, <1>3, <1>4, <1>5, <1>6, <1>7, <1>8, <1>9, <1>10, <1>11
     DEF LifecycleStep

LEMMA IdentityLocking ==
    ASSUME TypeOK, LockingInv, NEW t \in Tasks, IdentityStep(t)
    PROVE  LockingStep(t)
<1> USE NoTaskAssumption, GotoEffect, ReturnEffect
    DEF LockingInv, LeaseInv, LockInv, TxInv, ManagerInv, LockingStep, LeaseStep, LockStep,
        TxStep, Moves, HoldsTx, LeasePoints, LockPoints, CommitPoints,
        LifecyclePoints, IdentityPoints
<1>1. CASE IdentityLease(t)
  BY <1>1 DEF IdentityLease
<1>2. CASE IdentityLock(t)
  BY <1>2 DEF IdentityLock
<1>3. CASE IdentityTeardown(t)
  BY <1>3 DEF IdentityTeardown
<1>4. CASE IdentityPersist(t)
  BY <1>4 DEF IdentityPersist
<1>5. CASE IdentityCommit(t)
  BY <1>5 DEF IdentityCommit
<1>6. QED
  BY <1>1, <1>2, <1>3, <1>4, <1>5 DEF IdentityStep

LEMMA AdmissionLocking ==
    ASSUME TypeOK, LockingInv, NEW t \in Tasks, Admission(t)
    PROVE  LockingStep(t)
<1> USE NoTaskAssumption, GotoEffect, ReturnEffect
    DEF LockingInv, LeaseInv, LockInv, TxInv, ManagerInv, LockingStep, LeaseStep, LockStep,
        TxStep, Moves, HoldsTx, LeasePoints, LockPoints, CommitPoints,
        LifecyclePoints, IdentityPoints
<1>1. CASE DisconnectAdmit(t)
  BY <1>1 DEF DisconnectAdmit, Goto, OthersKeep, TypeOK, LocalTypeOK
<1>2. CASE ReplaceAdmit(t)
  BY <1>2 DEF ReplaceAdmit
<1>3. CASE StopAdmit(t)
  BY <1>3 DEF StopAdmit
<1>4. CASE DeleteAdmit(t)
  BY <1>4 DEF DeleteAdmit
<1>5. CASE IdentityAdmit(t)
  BY <1>5 DEF IdentityAdmit
<1>6. ASSUME NEW source \in Sources, ConnectAdmit(t, source)
      PROVE  LockingStep(t)
  BY <1>6 DEF ConnectAdmit, OthersKeep, TypeOK, LocalTypeOK
<1>7. QED
  BY <1>1, <1>2, <1>3, <1>4, <1>5, <1>6 DEF Admission

LEMMA LockingKept ==
    ASSUME LockingInv, NEW t \in Tasks, LockingStep(t)
    PROVE  LockingInv'
<1>1. LeaseInv'
  BY NoTaskAssumption
     DEF LockingInv, LeaseInv, LockingStep, LeaseStep, Moves, OthersKeep
<1>2. LockInv'
  BY NoTaskAssumption DEF LockingInv, LockInv, LockingStep, LockStep, Moves, OthersKeep
<1>3. TxInv'
  BY NoTaskAssumption
     DEF LockingInv, TxInv, LockingStep, TxStep, Moves, OthersKeep, HoldsTx
<1>4. ManagerInv'
  BY DEF LockingInv, ManagerInv, LockingStep, OthersKeep
<1>5. QED
  BY <1>1, <1>2, <1>3, <1>4 DEF LockingInv

LEMMA LockingNext == TypeOK /\ LockingInv /\ [Next]_vars => LockingInv'
<1> SUFFICES ASSUME TypeOK, LockingInv, [Next]_vars PROVE LockingInv'
  OBVIOUS
<1>1. ASSUME NEW t \in Tasks, Admission(t) PROVE LockingInv'
  BY <1>1, AdmissionLocking, LockingKept
<1>2. ASSUME NEW t \in Tasks, Step(t) PROVE LockingInv'
  BY <1>2, ConnectLocking, DisconnectLocking, LifecycleLocking, IdentityLocking,
     LockingKept DEF Step
<1>3. CASE TransportLost \/ TransportSettled \/ UNCHANGED vars
  BY <1>3 DEF TransportLost, TransportSettled, vars, local, LockingInv, LeaseInv,
              LockInv, TxInv, ManagerInv, HoldsTx
<1>4. QED
  BY <1>1, <1>2, <1>3 DEF Next

LEMMA LockingInit == Init => LockingInv
  BY NoTaskAssumption
     DEF Init, LockingInv, LeaseInv, LockInv, TxInv, ManagerInv, HoldsTx,
     LeasePoints, LockPoints, CommitPoints, LifecyclePoints, IdentityPoints

\* Each lock is held exactly at the points of the code that hold it, so a command
\* that has returned, on whichever path, holds none of the three.
THEOREM LocksReleased == Spec => []LocksHeldByCommands
<1>1. TypeOK /\ LockingInv => LocksHeldByCommands
  BY DEF TypeOK, LockingInv, LeaseInv, LockInv, TxInv, HoldsTx, LocksHeldByCommands,
         LeasePoints, LockPoints, CommitPoints, LifecyclePoints, IdentityPoints
<1>2. QED
  BY TypeCorrect, LockingInit, LockingNext, <1>1, PTL DEF Spec

-----------------------------------------------------------------------------
(* The operation in flight. *)

IInv == TypeOK /\ LockingInv /\ OwnershipInv /\ InFlightHasOwner

\* What a step may do to the operation in flight: settle it, begin one under the
\* lease, or leave it, in which case its owner stays in flight with the same token.
Keeps(t) ==
    /\ op'.operation = op.operation /\ op'.epoch = op.epoch
    /\ op.operation # "none" => runtimeGeneration' = runtimeGeneration
    /\ Owns(t) /\ pc[t] \in InFlightPoints =>
          pc'[t] \in InFlightPoints /\ tok'[t] = tok[t]
Begins(t) == pc[t] \in {"begin", "dBegin"} /\ Owns(t)' /\ pc'[t] \in InFlightPoints
OwnerStep(t) == op'.operation = "none" \/ Begins(t) \/ Keeps(t)

\* What it may do to the runtime's registration and to the other parts.
PresenceStep(t) ==
    /\ lease' # NoTask => present'
    /\ ~present' => op'.operation = "none"
    /\ retired' /\ present' =>
          \/ pc'[t] \in RetirePoints
          \/ retired /\ present /\ pc[t] \notin RetirePoints
    /\ pc'[t] = "rInstall" => op'.operation = "none"
    /\ pc'[t] \in DisconnectPoints \ {"dBegin"} => tok'[t].operation = "Disconnect"
OwnershipStep(t) == OthersKeep(t) /\ OwnerStep(t) /\ PresenceStep(t)

LEMMA SettledEffect ==
    /\ \A error : SettledOp(error).operation = "none"
    /\ CancelledOp.operation = "none"
    /\ \A error : /\ DiagnosedOp(error).operation = op.operation
                  /\ DiagnosedOp(error).epoch = op.epoch
  BY DEF SettledOp, CancelledOp, DiagnosedOp

\* A settlement settles, or finds its token stale and leaves the operation alone.
Settles(t) == op'.operation = "none" \/ (~TokenCurrent(t) /\ UNCHANGED op)

LEMMA SettleEffect ==
    ASSUME NEW t \in Tasks
    PROVE  /\ FailForToken(t) => Settles(t)
           /\ CompleteForToken(t) => Settles(t)
           /\ tok[t].operation = "Disconnect" /\ ReconcileForToken(t) => Settles(t)
<1> USE SettledEffect DEF Settles
<1>1. FailForToken(t) => Settles(t)
  BY DEF FailForToken, authority
<1>2. CompleteForToken(t) => Settles(t)
  BY DEF CompleteForToken
<1>3. tok[t].operation = "Disconnect" /\ ReconcileForToken(t) => Settles(t)
  BY DEF ReconcileForToken, authority
<1>4. QED
  BY <1>1, <1>2, <1>3

\* A command that settles, or finds it no longer owns the operation, may return.
LEMMA SettledReturn ==
    ASSUME NEW t \in Tasks, Settles(t), UNCHANGED runtimeGeneration
    PROVE  OwnerStep(t)
  BY DEF Settles, OwnerStep, Keeps, Owns

LEMMA ConnectOwnership ==
    ASSUME IInv, NEW t \in Tasks, ConnectStep(t)
    PROVE  OwnershipStep(t)
<1> USE NoTaskAssumption, GotoEffect, ReturnEffect, SettledEffect
    DEF IInv, LockingInv, LeaseInv, OwnershipInv, PresentInv, RetiredInv, AbsentInv,
        ReplaceInv, TokenInv, OwnershipStep, OwnerStep, PresenceStep, Keeps, Begins,
        Owns, LeasePoints, RetirePoints, InFlightPoints, ConnectPoints,
        DisconnectPoints, LifecyclePoints, IdentityPoints
<1>1. CASE ConnectBegin(t)
  BY <1>1, BeginEffect DEF ConnectBegin, Operations, TokenCurrent
<1>2. CASE Prepare(t)
  BY <1>2 DEF Prepare
<1>3. CASE PrepareLock(t)
  BY <1>3 DEF PrepareLock, ClearForOperation
<1>4. CASE PrepareTeardown(t)
  BY <1>4 DEF PrepareTeardown, ClearSmcpConnection
<1>5. CASE Admit(t)
  BY <1>5 DEF Admit
<1>6. CASE Resolve(t)
  BY <1>6 DEF Resolve, Goto, OthersKeep, TypeOK, LocalTypeOK
<1>7. CASE Reserve(t)
  BY <1>7 DEF Reserve
<1>8. CASE EstablishManual(t)
  BY <1>8, FreshEffect DEF EstablishManual
<1>9. CASE EstablishManager(t)
  BY <1>9, FreshEffect DEF EstablishManager
<1>10. CASE Transaction(t)
  BY <1>10 DEF Transaction
<1>11. CASE ConnectLock(t)
  BY <1>11 DEF ConnectLock, AbortTo
<1>12. CASE ConnectSocket(t)
  BY <1>12 DEF ConnectSocket, AbortTo
<1>13. CASE Install(t)
  <2>1. op' \in {op, DiagnosedOp(FALSE)}
    BY <1>13, Zenon DEF Install, InstallConnectionState
  <2>2. op'.operation = op.operation /\ op'.epoch = op.epoch
    BY <2>1 DEF DiagnosedOp
  <2>3. pc'[t] \in {"commit", "abortLock"} /\ tok'[t] = tok[t] /\ OthersKeep(t)
    BY <1>13 DEF Install, AbortTo
  <2>4. UNCHANGED <<lease, present, retired, runtimeGeneration>>
    BY <1>13 DEF Install
  <2>5. PresenceStep(t)
    <3>1. pc[t] = "install"
      BY <1>13 DEF Install
    <3>2. QED
      BY <3>1, <2>3, <2>4, <2>2
  <2>6. OwnerStep(t)
    BY <2>3, <2>4, <2>2
  <2>7. QED
    BY <2>3, <2>5, <2>6
<1>14. CASE Commit(t)
  BY <1>14 DEF Commit, AbortTo
<1>15. CASE Apply(t)
  BY <1>15 DEF Apply, AbortTo
<1>16. CASE AbortLock(t)
  BY <1>16 DEF AbortLock, ClearForOperation, AfterAbort
<1>17. CASE AbortTeardown(t)
  BY <1>17 DEF AbortTeardown, ClearSmcpConnection, AfterAbort
<1>18. CASE FinishLock(t)
  BY <1>18 DEF FinishLock, ClearForOperation
<1>19. CASE FinishTeardown(t)
  BY <1>19 DEF FinishTeardown, ClearSmcpConnection
<1>20. CASE Fail(t)
  <2>1. Settles(t)
    BY <1>20, SettleEffect DEF Fail
  <2>2. OwnerStep(t)
    BY <1>20, <2>1, SettledReturn DEF Fail
  <2>3. PresenceStep(t)
    BY <1>20, <2>1 DEF Fail, Settles
  <2>4. QED
    BY <1>20, <2>2, <2>3 DEF Fail
<1>21. CASE Complete(t)
  <2>1. CASE CompleteForToken(t) /\ Return(t)
    <3>1. Settles(t)
      BY <2>1, SettleEffect
    <3>2. OwnerStep(t)
      BY <1>21, <3>1, SettledReturn DEF Complete
    <3>3. PresenceStep(t)
      BY <1>21, <2>1, <3>1 DEF Complete, Settles
    <3>4. QED
      BY <2>1, <3>2, <3>3
  <2>2. CASE Goto(t, "finishLock") /\ UNCHANGED authority
    BY <1>21, <2>2 DEF Complete
  <2>3. QED
    BY <1>21, <2>1, <2>2 DEF Complete
<1>22. QED
  BY <1>1, <1>2, <1>3, <1>4, <1>5, <1>6, <1>7, <1>8, <1>9, <1>10, <1>11, <1>12, <1>13,
     <1>14, <1>15, <1>16, <1>17, <1>18, <1>19, <1>20, <1>21 DEF ConnectStep

LEMMA DisconnectOwnership ==
    ASSUME IInv, NEW t \in Tasks, DisconnectStep(t)
    PROVE  OwnershipStep(t)
<1> USE NoTaskAssumption, GotoEffect, ReturnEffect, SettledEffect
    DEF IInv, LockingInv, LeaseInv, OwnershipInv, PresentInv, RetiredInv, AbsentInv,
        ReplaceInv, TokenInv, OwnershipStep, OwnerStep, PresenceStep, Keeps, Begins,
        Owns, LeasePoints, RetirePoints, InFlightPoints, ConnectPoints,
        DisconnectPoints, LifecyclePoints, IdentityPoints
<1>1. CASE DisconnectBegin(t)
  BY <1>1, BeginEffect DEF DisconnectBegin, Operations, TokenCurrent
<1>2. CASE DisconnectEnsure(t)
  <2>1. tok[t].operation = "Disconnect"
    BY <1>2 DEF DisconnectEnsure
  <2>2. CASE ReconcileForToken(t) /\ Return(t)
    <3>1. Settles(t)
      BY <2>1, <2>2, SettleEffect
    <3>2. OwnerStep(t)
      BY <1>2, <3>1, SettledReturn DEF DisconnectEnsure
    <3>3. PresenceStep(t)
      BY <1>2, <2>2, <3>1 DEF DisconnectEnsure, Settles
    <3>4. QED
      BY <2>2, <3>2, <3>3
  <2>3. CASE Goto(t, "dTransport") /\ UNCHANGED authority
    BY <1>2, <2>3 DEF DisconnectEnsure
  <2>4. QED
    BY <1>2, <2>2, <2>3 DEF DisconnectEnsure
<1>3. CASE DisconnectTransport(t)
  BY <1>3 DEF DisconnectTransport
<1>4. CASE DisconnectLock(t)
  BY <1>4 DEF DisconnectLock
<1>5. CASE DisconnectTeardown(t)
  BY <1>5 DEF DisconnectTeardown, ClearSmcpConnection
<1>6. CASE DisconnectFailed(t)
  <2>1. tok[t].operation = "Disconnect" /\ ~(retired /\ present)
    BY <1>6 DEF DisconnectFailed
  <2>2. Settles(t)
    BY <1>6, <2>1, SettleEffect DEF DisconnectFailed, EnsureConnectionOperation, Settles
  <2>3. OwnerStep(t)
    BY <1>6, <2>2, SettledReturn DEF DisconnectFailed
  <2>4. PresenceStep(t)
    BY <1>6, <2>2 DEF DisconnectFailed, Settles
  <2>5. QED
    BY <1>6, <2>3, <2>4 DEF DisconnectFailed
<1>7. CASE DisconnectSettle(t)
  <2>1. ~(retired /\ present)
    BY <1>7 DEF DisconnectSettle
  <2>2. Settles(t)
    BY <1>7, <2>1, SettleEffect DEF DisconnectSettle, EnsureConnectionOperation, Settles
  <2>3. OwnerStep(t)
    BY <1>7, <2>2, SettledReturn DEF DisconnectSettle
  <2>4. PresenceStep(t)
    BY <1>7, <2>2 DEF DisconnectSettle, Settles
  <2>5. QED
    BY <1>7, <2>3, <2>4 DEF DisconnectSettle
<1>8. QED
  BY <1>1, <1>2, <1>3, <1>4, <1>5, <1>6, <1>7 DEF DisconnectStep

LEMMA LifecycleOwnership ==
    ASSUME IInv, NEW t \in Tasks, LifecycleStep(t)
    PROVE  OwnershipStep(t)
<1> USE NoTaskAssumption, GotoEffect, ReturnEffect, SettledEffect
    DEF IInv, LockingInv, LeaseInv, OwnershipInv, PresentInv, RetiredInv, AbsentInv,
        ReplaceInv, TokenInv, OwnershipStep, OwnerStep, PresenceStep, Keeps, Begins,
        Owns, LeasePoints, RetirePoints, InFlightPoints, ConnectPoints,
        DisconnectPoints, LifecyclePoints, IdentityPoints
<1>1. CASE ReplaceLock(t)
  BY <1>1 DEF ReplaceLock
<1>2. CASE ReplaceClear(t)
  BY <1>2 DEF ReplaceClear
<1>3. CASE ReplaceCancel(t)
  BY <1>3 DEF ReplaceCancel
<1>4. CASE ReplaceInstall(t)
  BY <1>4 DEF ReplaceInstall
<1>5. CASE StopLock(t)
  BY <1>5 DEF StopLock
<1>6. CASE ShutdownTeardown(t)
  BY <1>6 DEF ShutdownTeardown
<1>7. CASE ShutdownSdk(t)
  BY <1>7 DEF ShutdownSdk
<1>8. CASE ShutdownTake(t)
  BY <1>8 DEF ShutdownTake
<1>9. CASE ShutdownComplete(t)
  BY <1>9 DEF ShutdownComplete
<1>10. CASE DeleteLock(t)
  BY <1>10 DEF DeleteLock
<1>11. CASE DeleteDecide(t)
  BY <1>11 DEF DeleteDecide
<1>12. QED
  BY <1>1, <1>2, <1>3, <1>4, <1>5, <1>6, <1>7, <1>8, <1>9, <1>10, <1>11
     DEF LifecycleStep

LEMMA IdentityOwnership ==
    ASSUME IInv, NEW t \in Tasks, IdentityStep(t)
    PROVE  OwnershipStep(t)
<1> USE NoTaskAssumption, GotoEffect, ReturnEffect, SettledEffect
    DEF IInv, LockingInv, LeaseInv, OwnershipInv, PresentInv, RetiredInv, AbsentInv,
        ReplaceInv, TokenInv, OwnershipStep, OwnerStep, PresenceStep, Keeps, Begins,
        Owns, LeasePoints, RetirePoints, InFlightPoints, ConnectPoints,
        DisconnectPoints, LifecyclePoints, IdentityPoints
<1>1. CASE IdentityLease(t)
  BY <1>1 DEF IdentityLease
<1>2. CASE IdentityLock(t)
  BY <1>2 DEF IdentityLock
<1>3. CASE IdentityTeardown(t)
  <2>1. op' \in {op, CancelledOp, SettledOp(TRUE), DiagnosedOp(TRUE)}
    BY <1>3, Zenon DEF IdentityTeardown
  <2>2. \/ op'.operation = "none"
        \/ op'.operation = op.operation /\ op'.epoch = op.epoch
    BY <2>1 DEF DiagnosedOp, SettledOp, CancelledOp
  <2>3. /\ pc[t] = "iTeardown" /\ pc'[t] = "iPersist" /\ OthersKeep(t)
        /\ UNCHANGED <<lease, present, retired, runtimeGeneration>>
    BY <1>3 DEF IdentityTeardown
  <2>4. QED
    BY <2>2, <2>3
<1>4. CASE IdentityPersist(t)
  BY <1>4 DEF IdentityPersist
<1>5. CASE IdentityCommit(t)
  BY <1>5 DEF IdentityCommit
<1>6. QED
  BY <1>1, <1>2, <1>3, <1>4, <1>5 DEF IdentityStep

LEMMA AdmissionOwnership ==
    ASSUME IInv, NEW t \in Tasks, Admission(t)
    PROVE  OwnershipStep(t)
<1> USE NoTaskAssumption, GotoEffect, ReturnEffect, SettledEffect
    DEF IInv, LockingInv, LeaseInv, OwnershipInv, PresentInv, RetiredInv, AbsentInv,
        ReplaceInv, TokenInv, OwnershipStep, OwnerStep, PresenceStep, Keeps, Begins,
        Owns, LeasePoints, RetirePoints, InFlightPoints, ConnectPoints,
        DisconnectPoints, LifecyclePoints, IdentityPoints
<1>1. CASE DisconnectAdmit(t)
  BY <1>1 DEF DisconnectAdmit, Goto, OthersKeep, TypeOK, LocalTypeOK
<1>2. CASE ReplaceAdmit(t)
  BY <1>2 DEF ReplaceAdmit
<1>3. CASE StopAdmit(t)
  BY <1>3 DEF StopAdmit
<1>4. CASE DeleteAdmit(t)
  BY <1>4 DEF DeleteAdmit
<1>5. CASE IdentityAdmit(t)
  BY <1>5 DEF IdentityAdmit
<1>6. ASSUME NEW source \in Sources, ConnectAdmit(t, source)
      PROVE  OwnershipStep(t)
  BY <1>6 DEF ConnectAdmit, OthersKeep, TypeOK, LocalTypeOK
<1>7. QED
  BY <1>1, <1>2, <1>3, <1>4, <1>5, <1>6 DEF Admission

LEMMA OwnershipKept ==
    ASSUME IInv, NEW t \in Tasks, OwnershipStep(t)
    PROVE  OwnershipInv' /\ InFlightHasOwner'
<1> USE DEF OwnershipStep
<1>1. PresentInv' /\ AbsentInv'
  BY DEF PresenceStep, PresentInv, AbsentInv
<1>2. RetiredInv'
  <2> SUFFICES ASSUME retired', present', pc'[t] \notin RetirePoints
               PROVE  \E u \in Tasks : pc'[u] \in RetirePoints
    BY DEF RetiredInv
  <2>1. PICK u \in Tasks \ {t} : pc[u] \in RetirePoints
    BY DEF PresenceStep, IInv, OwnershipInv, RetiredInv
  <2>2. QED
    BY <2>1 DEF OthersKeep
<1>3. ReplaceInv'
  <2> SUFFICES ASSUME NEW u \in Tasks, pc'[u] = "rInstall" PROVE op'.operation = "none"
    BY DEF ReplaceInv
  <2>1. CASE u = t
    BY <2>1 DEF PresenceStep
  <2>2. CASE u # t
    <3>1. pc[u] = "rInstall" /\ op.operation = "none" /\ lease = u
      BY <2>2 DEF OthersKeep, IInv, OwnershipInv, ReplaceInv, LockingInv, LeaseInv,
                  LeasePoints, LifecyclePoints
    <3>2. pc[t] \notin {"begin", "dBegin"}
      BY <2>2, <3>1 DEF IInv, LockingInv, LeaseInv, LeasePoints
    <3>3. QED
      BY <3>1, <3>2 DEF OwnerStep, Begins, Keeps
  <2>3. QED
    BY <2>1, <2>2
<1>4. TokenInv'
  BY DEF PresenceStep, OthersKeep, IInv, OwnershipInv, TokenInv
<1>5. InFlightHasOwner'
  <2> SUFFICES ASSUME op'.operation # "none"
               PROVE  \E u \in Tasks : Owns(u)' /\ pc'[u] \in InFlightPoints
    BY DEF InFlightHasOwner
  <2>1. CASE Begins(t)
    BY <2>1 DEF Begins
  <2>2. CASE Keeps(t)
    <3>1. PICK u \in Tasks : Owns(u) /\ pc[u] \in InFlightPoints
      BY <2>2 DEF Keeps, IInv, InFlightHasOwner
    <3>2. pc'[u] \in InFlightPoints /\ tok'[u] = tok[u]
      BY <2>2, <3>1 DEF Keeps, OthersKeep
    <3>3. QED
      BY <2>2, <3>1, <3>2 DEF Keeps, Owns, TokenCurrent
  <2>3. QED
    BY <2>1, <2>2 DEF OwnerStep
<1>6. QED
  BY <1>1, <1>2, <1>3, <1>4, <1>5 DEF OwnershipInv

LEMMA OwnershipNext == IInv /\ [Next]_vars => OwnershipInv' /\ InFlightHasOwner'
<1> SUFFICES ASSUME IInv, [Next]_vars PROVE OwnershipInv' /\ InFlightHasOwner'
  OBVIOUS
<1>1. ASSUME NEW t \in Tasks, Admission(t) PROVE OwnershipInv' /\ InFlightHasOwner'
  BY <1>1, AdmissionOwnership, OwnershipKept
<1>2. ASSUME NEW t \in Tasks, Step(t) PROVE OwnershipInv' /\ InFlightHasOwner'
  BY <1>2, ConnectOwnership, DisconnectOwnership, LifecycleOwnership,
     IdentityOwnership, OwnershipKept DEF Step
<1>3. CASE TransportLost \/ TransportSettled \/ UNCHANGED vars
  BY <1>3 DEF TransportLost, TransportSettled, vars, local, IInv, OwnershipInv,
     PresentInv, RetiredInv, AbsentInv, ReplaceInv, TokenInv, InFlightHasOwner, Owns,
     TokenCurrent
<1>4. QED
  BY <1>1, <1>2, <1>3 DEF Next

LEMMA OwnershipInit == Init => OwnershipInv /\ InFlightHasOwner
  BY DEF Init, OwnershipInv, PresentInv, RetiredInv, AbsentInv, ReplaceInv, TokenInv,
         InFlightHasOwner, DisconnectPoints

\* The operation that makes the UI show connecting or disconnecting, and every other
\* connection command be rejected, always belongs to a command that is still running,
\* holds its token and settles it before it returns.
THEOREM OperationOwned == Spec => []InFlightHasOwner
<1>1. IInv /\ [Next]_vars => IInv'
  BY TypeNext, LockingNext, OwnershipNext DEF IInv
<1>2. Init => IInv
  BY InitType, LockingInit, OwnershipInit DEF IInv
<1>3. IInv => InFlightHasOwner
  BY DEF IInv
<1>4. QED
  BY <1>1, <1>2, <1>3, PTL DEF Spec

-----------------------------------------------------------------------------
(* What the authority means. *)

USE DEF authority, sdk, handle, registry, manager, environs, locks

-----------------------------------------------------------------------------
(* The operation in flight belongs to one task. *)

\* No token is newer than the operation, no two tasks own it, and it is shown
\* under the source of its owner.
EpochInv == \A t \in Tasks : tok[t].epoch <= op.epoch
TokenlessInv ==
    \A t \in Tasks :
        IF pc[t] \in InFlightPoints THEN tok[t].operation # "none" ELSE tok[t] = NoToken
SoleInv == \A t, u \in Tasks : Owns(t) /\ Owns(u) => t = u
SourceInv ==
    /\ \A t \in Tasks : Owns(t) => op.source = src[t]
    /\ op.operation = "none" => op.source = "none"
ConnectSourceInv == \A t \in Tasks : pc[t] \in ConnectPoints => src[t] \in Sources
OwnerInv == EpochInv /\ TokenlessInv /\ SoleInv /\ SourceInv /\ ConnectSourceInv

\* A step of one task leaves every local variable of the others.
OthersStay(t) ==
    \A u \in Tasks \ {t} :
        /\ pc'[u] = pc[u] /\ tok'[u] = tok[u] /\ src'[u] = src[u]
        /\ gen'[u] = gen[u] /\ mgr'[u] = mgr[u] /\ seen'[u] = seen[u]

\* It keeps its token while it is in flight, gives it up, or begins an operation.
TokenStep(t) ==
    \/ tok'[t] = NoToken /\ pc'[t] \notin InFlightPoints
    \/ /\ tok'[t] = tok[t] /\ src'[t] = src[t]
       /\ pc[t] \in InFlightPoints /\ pc'[t] \in InFlightPoints

BeginsOp(t) ==
    /\ pc[t] \in {"begin", "dBegin"} /\ pc'[t] \in InFlightPoints
    /\ op.operation = "none" /\ op'.source = src[t] /\ src'[t] = src[t]
    /\ op'.epoch = op.epoch + 1 /\ tok'[t].epoch = op.epoch + 1
    /\ Owns(t)'
\* Only its owner, or a command that holds both locks, ends an operation.
EndsOp(t) ==
    /\ op'.operation = "none" /\ op'.source = "none" /\ op'.epoch = op.epoch
    /\ Owns(t) \/ op.operation = "none" \/ (lease = t /\ lock = t)
KeepsOp ==
    /\ op'.operation = op.operation /\ op'.source = op.source /\ op'.epoch = op.epoch
    /\ op.operation # "none" => runtimeGeneration' = runtimeGeneration
SoleStep(t) ==
    /\ OthersStay(t)
    /\ pc'[t] \in ConnectPoints => src'[t] \in Sources
    /\ \/ BeginsOp(t)
       \/ TokenStep(t) /\ (EndsOp(t) \/ KeepsOp)

LEMMA GotoLocals ==
    ASSUME TypeOK, NEW t \in Tasks, NEW point, Goto(t, point)
    PROVE  /\ pc'[t] = point /\ tok'[t] = tok[t] /\ src'[t] = src[t]
           /\ gen'[t] = gen[t] /\ mgr'[t] = mgr[t] /\ seen'[t] = seen[t]
           /\ OthersStay(t)
  BY DEF TypeOK, LocalTypeOK, Goto, OthersStay

LEMMA ReturnLocals ==
    ASSUME TypeOK, NEW t \in Tasks, Return(t)
    PROVE  /\ pc'[t] = "Idle" /\ tok'[t] = NoToken
           /\ OthersStay(t)
  BY DEF TypeOK, LocalTypeOK, Return, OthersStay

LEMMA BeginLocals ==
    ASSUME TypeOK, NEW t \in Tasks, NEW operation \in Operations, NEW source, NEW point,
           BeginOperation(t, operation, source, point)
    PROVE  /\ pc'[t] = point /\ src'[t] = src[t] /\ gen'[t] = gen[t]
           /\ mgr'[t] = mgr[t] /\ seen'[t] = seen[t] /\ OthersStay(t)
           /\ tok'[t].operation = operation /\ tok'[t].epoch = op.epoch + 1
           /\ tok'[t].runtimeGeneration = runtimeGeneration
           /\ op'.operation = operation /\ op'.source = source
           /\ op'.epoch = op.epoch + 1
  BY DEF TypeOK, LocalTypeOK, BeginOperation, OthersStay

LEMMA FreshLocals ==
    ASSUME TypeOK, NEW t \in Tasks, NEW point, FreshGeneration(t, point)
    PROVE  /\ pc'[t] = point /\ tok'[t] = tok[t] /\ src'[t] = src[t]
           /\ mgr'[t] = mgr[t] /\ seen'[t] = seen[t] /\ OthersStay(t)
  BY DEF TypeOK, LocalTypeOK, FreshGeneration, OthersStay

LEMMA OpEffect ==
    /\ \A error : /\ SettledOp(error).operation = "none"
                  /\ SettledOp(error).source = "none"
                  /\ SettledOp(error).epoch = op.epoch
    /\ CancelledOp.operation = "none" /\ CancelledOp.source = "none"
    /\ CancelledOp.epoch = op.epoch
    /\ \A error : /\ DiagnosedOp(error).operation = op.operation
                  /\ DiagnosedOp(error).source = op.source
                  /\ DiagnosedOp(error).epoch = op.epoch
  BY DEF SettledOp, CancelledOp, DiagnosedOp

\* A settlement by token ends the task's own operation or leaves it alone.
LEMMA SettleOp ==
    ASSUME NEW t \in Tasks, UNCHANGED runtimeGeneration,
           FailForToken(t) \/ CompleteForToken(t) \/ ReconcileForToken(t)
    PROVE  EndsOp(t) \/ KeepsOp
<1> USE OpEffect DEF EndsOp, KeepsOp, Owns
<1>1. CASE FailForToken(t)
  BY <1>1 DEF FailForToken
<1>2. CASE CompleteForToken(t)
  BY <1>2 DEF CompleteForToken
<1>3. CASE ReconcileForToken(t)
  BY <1>3 DEF ReconcileForToken
<1>4. QED
  BY <1>1, <1>2, <1>3

LEMMA ConnectSole ==
    ASSUME IInv, OwnerInv, NEW t \in Tasks, ConnectStep(t)
    PROVE  SoleStep(t)
<1> USE GotoLocals, ReturnLocals, OpEffect
    DEF IInv, OwnerInv, TokenlessInv, ConnectSourceInv, SoleStep, TokenStep, KeepsOp,
        InFlightPoints, ConnectPoints, DisconnectPoints
<1>1. CASE ConnectBegin(t)
  <2>1. CASE op.operation = "none"
    <3>1. BeginOperation(t, "Connect", src[t], "prepare") /\ pc[t] = "begin"
          /\ UNCHANGED runtimeGeneration
      BY <1>1, <2>1 DEF ConnectBegin
    <3>2. BeginsOp(t) /\ OthersStay(t)
      BY <2>1, <3>1, BeginLocals DEF Operations, BeginsOp, Owns, TokenCurrent
    <3>3. src'[t] \in Sources
      BY <3>1, <3>2 DEF BeginsOp
    <3>4. QED
      BY <3>2, <3>3
  <2>2. CASE op.operation # "none"
    BY <1>1, <2>2 DEF ConnectBegin
  <2>3. QED
    BY <2>1, <2>2
<1>2. CASE Prepare(t)
  BY <1>2 DEF Prepare
<1>3. CASE PrepareLock(t)
  BY <1>3 DEF PrepareLock, ClearForOperation
<1>4. CASE PrepareTeardown(t)
  BY <1>4 DEF PrepareTeardown, ClearSmcpConnection
<1>5. CASE Admit(t)
  BY <1>5 DEF Admit
<1>6. CASE Resolve(t)
  BY <1>6 DEF Resolve, Goto, OthersStay, TypeOK, LocalTypeOK
<1>7. CASE Reserve(t)
  BY <1>7 DEF Reserve
<1>8. CASE EstablishManual(t)
  BY <1>8, FreshLocals DEF EstablishManual
<1>9. CASE EstablishManager(t)
  BY <1>9, FreshLocals DEF EstablishManager
<1>10. CASE Transaction(t)
  BY <1>10 DEF Transaction
<1>11. CASE ConnectLock(t)
  BY <1>11 DEF ConnectLock, AbortTo
<1>12. CASE ConnectSocket(t)
  BY <1>12 DEF ConnectSocket, AbortTo
<1>13. CASE Install(t)
  <2>1. op' \in {op, DiagnosedOp(FALSE)}
    BY <1>13, Zenon DEF Install, InstallConnectionState
  <2>2. KeepsOp
    BY <1>13, <2>1 DEF Install, DiagnosedOp
  <2>3. TokenStep(t) /\ OthersStay(t)
    BY <1>13 DEF Install, AbortTo
  <2>4. src'[t] \in Sources
    BY <1>13 DEF Install, AbortTo
  <2>5. QED
    BY <2>2, <2>3, <2>4
<1>14. CASE Commit(t)
  BY <1>14 DEF Commit, AbortTo
<1>15. CASE Apply(t)
  BY <1>15 DEF Apply, AbortTo
<1>16. CASE AbortLock(t)
  BY <1>16 DEF AbortLock, ClearForOperation, AfterAbort
<1>17. CASE AbortTeardown(t)
  BY <1>17 DEF AbortTeardown, ClearSmcpConnection, AfterAbort
<1>18. CASE FinishLock(t)
  BY <1>18 DEF FinishLock, ClearForOperation
<1>19. CASE FinishTeardown(t)
  BY <1>19 DEF FinishTeardown, ClearSmcpConnection
<1>20. CASE Fail(t)
  <2>1. EndsOp(t) \/ KeepsOp
    BY <1>20, SettleOp DEF Fail
  <2>2. QED
    BY <1>20, <2>1 DEF Fail
<1>21. CASE Complete(t)
  <2>1. CASE CompleteForToken(t) /\ Return(t)
    <3>1. EndsOp(t) \/ KeepsOp
      BY <1>21, <2>1, SettleOp DEF Complete
    <3>2. QED
      BY <2>1, <3>1
  <2>2. CASE Goto(t, "finishLock") /\ UNCHANGED authority
    BY <1>21, <2>2 DEF Complete
  <2>3. QED
    BY <1>21, <2>1, <2>2 DEF Complete
<1>22. QED
  BY <1>1, <1>2, <1>3, <1>4, <1>5, <1>6, <1>7, <1>8, <1>9, <1>10, <1>11, <1>12, <1>13,
     <1>14, <1>15, <1>16, <1>17, <1>18, <1>19, <1>20, <1>21 DEF ConnectStep

LEMMA DisconnectSole ==
    ASSUME IInv, OwnerInv, NEW t \in Tasks, DisconnectStep(t)
    PROVE  SoleStep(t)
<1> USE GotoLocals, ReturnLocals, OpEffect
    DEF IInv, OwnerInv, TokenlessInv, ConnectSourceInv, SoleStep, TokenStep, KeepsOp,
        InFlightPoints, ConnectPoints, DisconnectPoints
<1>1. CASE DisconnectBegin(t)
  <2>1. CASE op.operation = "none"
    <3>1. BeginOperation(t, "Disconnect", src[t], "dEnsure") /\ pc[t] = "dBegin"
          /\ UNCHANGED runtimeGeneration
      BY <1>1, <2>1 DEF DisconnectBegin
    <3>2. BeginsOp(t) /\ OthersStay(t)
      BY <2>1, <3>1, BeginLocals DEF Operations, BeginsOp, Owns, TokenCurrent
    <3>3. pc'[t] \notin ConnectPoints
      BY <3>1, BeginLocals DEF Operations
    <3>4. QED
      BY <3>2, <3>3
  <2>2. CASE op.operation # "none"
    BY <1>1, <2>2 DEF DisconnectBegin
  <2>3. QED
    BY <2>1, <2>2
<1>2. CASE DisconnectEnsure(t)
  <2>1. CASE ReconcileForToken(t) /\ Return(t)
    <3>1. EndsOp(t) \/ KeepsOp
      BY <1>2, <2>1, SettleOp DEF DisconnectEnsure
    <3>2. QED
      BY <2>1, <3>1
  <2>2. CASE Goto(t, "dTransport") /\ UNCHANGED authority
    BY <1>2, <2>2 DEF DisconnectEnsure
  <2>3. QED
    BY <1>2, <2>1, <2>2 DEF DisconnectEnsure
<1>3. CASE DisconnectTransport(t)
  BY <1>3 DEF DisconnectTransport
<1>4. CASE DisconnectLock(t)
  BY <1>4 DEF DisconnectLock
<1>5. CASE DisconnectTeardown(t)
  BY <1>5 DEF DisconnectTeardown, ClearSmcpConnection
<1>6. CASE DisconnectFailed(t)
  <2>1. EndsOp(t) \/ KeepsOp
    BY <1>6, SettleOp DEF DisconnectFailed
  <2>2. QED
    BY <1>6, <2>1 DEF DisconnectFailed
<1>7. CASE DisconnectSettle(t)
  <2>1. EndsOp(t) \/ KeepsOp
    BY <1>7, SettleOp DEF DisconnectSettle
  <2>2. QED
    BY <1>7, <2>1 DEF DisconnectSettle
<1>8. QED
  BY <1>1, <1>2, <1>3, <1>4, <1>5, <1>6, <1>7 DEF DisconnectStep

LEMMA LifecycleSole ==
    ASSUME IInv, OwnerInv, NEW t \in Tasks, LifecycleStep(t)
    PROVE  SoleStep(t)
<1> USE GotoLocals, ReturnLocals, OpEffect
    DEF IInv, OwnerInv, TokenlessInv, ConnectSourceInv, SoleStep, TokenStep, KeepsOp,
        InFlightPoints, ConnectPoints, DisconnectPoints
<1> DEFINE Both == pc[t] \in {"rCancel", "sComplete"} => lease = t /\ lock = t
<1>0. Both
  BY DEF LockingInv, LeaseInv, LockInv, LeasePoints, LockPoints, LifecyclePoints
<1>1. CASE ReplaceLock(t)
  BY <1>1 DEF ReplaceLock
<1>2. CASE ReplaceClear(t)
  BY <1>2 DEF ReplaceClear
<1>3. CASE ReplaceCancel(t)
  BY <1>0, <1>3 DEF ReplaceCancel, EndsOp
<1>4. CASE ReplaceInstall(t)
  BY <1>4 DEF ReplaceInstall, OwnershipInv, ReplaceInv
<1>5. CASE StopLock(t)
  BY <1>5 DEF StopLock
<1>6. CASE ShutdownTeardown(t)
  BY <1>6 DEF ShutdownTeardown
<1>7. CASE ShutdownSdk(t)
  BY <1>7 DEF ShutdownSdk
<1>8. CASE ShutdownTake(t)
  BY <1>8 DEF ShutdownTake
<1>9. CASE ShutdownComplete(t)
  BY <1>0, <1>9 DEF ShutdownComplete, EndsOp
<1>10. CASE DeleteLock(t)
  BY <1>10 DEF DeleteLock
<1>11. CASE DeleteDecide(t)
  BY <1>11 DEF DeleteDecide
<1>12. QED
  BY <1>1, <1>2, <1>3, <1>4, <1>5, <1>6, <1>7, <1>8, <1>9, <1>10, <1>11
     DEF LifecycleStep

LEMMA IdentitySole ==
    ASSUME IInv, OwnerInv, NEW t \in Tasks, IdentityStep(t)
    PROVE  SoleStep(t)
<1> USE GotoLocals, ReturnLocals, OpEffect
    DEF IInv, OwnerInv, TokenlessInv, ConnectSourceInv, SoleStep, TokenStep, KeepsOp,
        InFlightPoints, ConnectPoints, DisconnectPoints
<1>1. CASE IdentityLease(t)
  BY <1>1 DEF IdentityLease
<1>2. CASE IdentityLock(t)
  BY <1>2 DEF IdentityLock
<1>3. CASE IdentityTeardown(t)
  <2>1. op' \in {op, CancelledOp, SettledOp(TRUE), DiagnosedOp(TRUE)}
    BY <1>3, Zenon DEF IdentityTeardown
  <2>2. lease = t /\ lock = t
    BY <1>3 DEF IdentityTeardown, LockingInv, LeaseInv, LockInv, LeasePoints,
                LockPoints
  <2>3. EndsOp(t) \/ KeepsOp
    BY <1>3, <2>1, <2>2
       DEF IdentityTeardown, EndsOp, SettledOp, CancelledOp, DiagnosedOp
  <2>4. OthersStay(t) /\ TokenStep(t) /\ pc'[t] \notin ConnectPoints
    BY <1>3 DEF IdentityTeardown
  <2>5. QED
    BY <2>3, <2>4
<1>4. CASE IdentityPersist(t)
  BY <1>4 DEF IdentityPersist
<1>5. CASE IdentityCommit(t)
  BY <1>5 DEF IdentityCommit
<1>6. QED
  BY <1>1, <1>2, <1>3, <1>4, <1>5 DEF IdentityStep

LEMMA AdmissionSole ==
    ASSUME IInv, OwnerInv, NEW t \in Tasks, Admission(t)
    PROVE  SoleStep(t)
<1> USE GotoLocals, ReturnLocals, OpEffect
    DEF IInv, OwnerInv, TokenlessInv, ConnectSourceInv, SoleStep, TokenStep, KeepsOp,
        InFlightPoints, ConnectPoints, DisconnectPoints
<1>1. CASE DisconnectAdmit(t)
  BY <1>1 DEF DisconnectAdmit, OthersStay, TypeOK, LocalTypeOK
<1>2. CASE ReplaceAdmit(t)
  BY <1>2 DEF ReplaceAdmit
<1>3. CASE StopAdmit(t)
  BY <1>3 DEF StopAdmit
<1>4. CASE DeleteAdmit(t)
  BY <1>4 DEF DeleteAdmit
<1>5. CASE IdentityAdmit(t)
  BY <1>5 DEF IdentityAdmit
<1>6. ASSUME NEW source \in Sources, ConnectAdmit(t, source)
      PROVE  SoleStep(t)
  BY <1>6 DEF ConnectAdmit, OthersStay, TypeOK, LocalTypeOK
<1>7. QED
  BY <1>1, <1>2, <1>3, <1>4, <1>5, <1>6 DEF Admission

\* What a step of one task does to the ownership of all.
LEMMA OwnsEffect ==
    ASSUME TypeOK, OwnerInv, NEW t \in Tasks, SoleStep(t)
    PROVE  /\ \A u \in Tasks \ {t} : Owns(u)' => Owns(u)
           /\ \A u \in Tasks \ {t} : Owns(u) => Owns(u)' \/ (lease = t /\ lock = t)
           /\ Owns(t)' => Owns(t) \/ (BeginsOp(t) /\ op.operation = "none")
<1>0. \A u \in Tasks : tok[u].epoch \in Nat /\ op.epoch \in Nat
  BY DEF TypeOK, LocalTypeOK, Token, Operation
<1>1. ASSUME NEW u \in Tasks \ {t}, Owns(u)' PROVE Owns(u)
  BY <1>0, <1>1
     DEF OwnerInv, EpochInv, SoleStep, OthersStay, BeginsOp, EndsOp, KeepsOp, Owns,
         TokenCurrent
<1>2. ASSUME NEW u \in Tasks \ {t}, Owns(u) PROVE Owns(u)' \/ (lease = t /\ lock = t)
  BY <1>2
     DEF OwnerInv, SoleInv, SoleStep, OthersStay, BeginsOp, EndsOp, KeepsOp, Owns,
         TokenCurrent
<1>3. ASSUME Owns(t)' PROVE Owns(t) \/ (BeginsOp(t) /\ op.operation = "none")
  BY <1>3
     DEF SoleStep, TokenStep, BeginsOp, EndsOp, KeepsOp, Owns, TokenCurrent, NoToken
<1>4. QED
  BY <1>1, <1>2, <1>3

LEMMA OwnerKept ==
    ASSUME TypeOK, OwnerInv, NEW t \in Tasks, SoleStep(t)
    PROVE  OwnerInv'
<1>0. \A u \in Tasks : tok[u].epoch \in Nat /\ op.epoch \in Nat
  BY DEF TypeOK, LocalTypeOK, Token, Operation
<1>1. EpochInv'
  BY <1>0
     DEF OwnerInv, EpochInv, SoleStep, OthersStay, TokenStep, BeginsOp, EndsOp, KeepsOp,
         NoToken
<1>2. TokenlessInv'
  BY DEF OwnerInv, TokenlessInv, SoleStep, OthersStay, TokenStep, BeginsOp, Owns,
         TokenCurrent
<1>3. SoleInv'
  BY OwnsEffect DEF OwnerInv, SoleInv, BeginsOp, Owns
<1>4. SourceInv'
  <2>1. ASSUME NEW u \in Tasks \ {t}, Owns(u)' PROVE op'.source = src'[u]
    BY <2>1, OwnsEffect
       DEF OwnerInv, SourceInv, SoleStep, OthersStay, BeginsOp, EndsOp, KeepsOp, Owns
  <2>2. ASSUME Owns(t)' PROVE op'.source = src'[t]
    BY <2>2, OwnsEffect
       DEF OwnerInv, SourceInv, SoleStep, TokenStep, BeginsOp, EndsOp, KeepsOp, Owns,
           TokenCurrent, NoToken
  <2>3. op'.operation = "none" => op'.source = "none"
    BY DEF OwnerInv, SourceInv, SoleStep, BeginsOp, EndsOp, KeepsOp, Owns
  <2>4. QED
    BY <2>1, <2>2, <2>3 DEF SourceInv
<1>5. ConnectSourceInv'
  BY DEF OwnerInv, ConnectSourceInv, SoleStep, OthersStay
<1>6. QED
  BY <1>1, <1>2, <1>3, <1>4, <1>5 DEF OwnerInv

-----------------------------------------------------------------------------
(* The transport of the connection in force. *)

\* The lifecycles of a transport that is up or being retried.
Live == {"Connecting", "JoinedOffice"}
Quiet == connection # NoConnection => lifecycle \notin Live

Preparing == {"prepare", "prepareLock", "prepareTeardown"}
Opening ==
    {"admit", "resolve", "reserve", "establish", "transaction", "connectLock",
     "connectSocket", "install"}
Aborting == {"abortLock", "abortTeardown", "finishLock", "finishTeardown"}
Carries(t) == connection = [source |-> src[t], generation |-> gen[t], session |-> mgr[t]]

\* The SDK's slot is empty outside the connected lifecycles, and what it holds is
\* the transport of the authority or, the transport being gone, nothing.
SlotInv == socket # 0 => lifecycle \in {"Connecting", "Connected", "JoinedOffice", "Started"}
TransportInv ==
    connection # NoConnection =>
        socket = connection.generation \/ (socket = 0 /\ lifecycle \notin Live)
GoneInv == ~present => retired /\ connection = NoConnection

\* The owner of a connect past its preparation found no connection and an empty slot,
\* and nobody but it fills them; it never prepares over a transport that may come back.
OpeningInv(t) ==
    /\ Owns(t) /\ pc[t] \in Opening =>
          connection = NoConnection /\ (pc[t] # "install" => socket = 0)
    /\ pc[t] \in {"connectSocket", "install"} => Owns(t)
    /\ pc[t] = "install" => socket = gen[t]
PreparingInv(t) == Owns(t) /\ pc[t] \in Preparing => Quiet

\* Later the authority is the owner's own; a disconnect carries the source it takes down.
InstalledInv(t) ==
    /\ Owns(t) /\ pc[t] \in {"commit", "apply", "complete"} \cup Aborting
         /\ connection # NoConnection => Carries(t)
    /\ Owns(t) /\ pc[t] = "fail" /\ connection # NoConnection =>
          connection.source = src[t] \/ lifecycle \notin Live
    /\ Owns(t) /\ pc[t] \in DisconnectPoints /\ connection # NoConnection =>
          connection.source = src[t]
    /\ pc[t] = "dBegin" =>
          op.operation = "none" /\ (connection # NoConnection => connection.source = src[t])

\* A handle is replaced, and a shutdown settled, without a connection; an identity
\* cleanup never tears down the live transport of another source.
ClearedInv(t) ==
    /\ pc[t] \in {"rCancel", "rInstall", "sComplete"} => connection = NoConnection
    /\ pc[t] = "iTeardown" /\ connection # NoConnection
         /\ connection.source # "manager_robot" => lifecycle \notin Live

\* A connect is admitted over a dead transport, or has to give way to the owner that
\* waits for its lease.
Waiting == \E u \in Tasks : Owns(u) /\ pc[u] = "commit"
BeginInv(t) == pc[t] = "begin" => Quiet \/ Waiting

TaskTransport(t) == OpeningInv(t) /\ PreparingInv(t) /\ InstalledInv(t) /\ ClearedInv(t)
SlotInvs == SlotInv /\ TransportInv /\ GoneInv
ConnInv ==
    SlotInvs /\ \A t \in Tasks : TaskTransport(t) /\ BeginInv(t)
BaseInv == IInv /\ OwnerInv

Installs(t) ==
    /\ pc[t] = "install" /\ Owns(t) /\ pc'[t] = "commit" /\ Owns(t)'
ConnStep(t) ==
    /\ connection' = connection \/ connection' = NoConnection \/ Installs(t)
    /\ lifecycle' \in Live =>
          lifecycle \in Live \/ (connection = NoConnection /\ connection' = NoConnection)
    /\ socket' = socket \/ lock = t
    /\ socket' \in {socket, 0} \/ (pc[t] = "connectSocket" /\ Owns(t))
    /\ pc[t] = "commit" => lease = NoTask
    /\ pc'[t] = "begin" => Quiet'

LEMMA ConnectConn ==
    ASSUME BaseInv, ConnInv, NEW t \in Tasks, ConnectStep(t)
    PROVE  ConnStep(t) /\ TaskTransport(t)' /\ SlotInvs'
<1>1. TypeOK /\ SlotInvs /\ TaskTransport(t) /\ BeginInv(t)
  BY DEF BaseInv, IInv, ConnInv
<1>2. Owns(t)' => Owns(t) \/ (BeginsOp(t) /\ op.operation = "none")
  BY ConnectSole, OwnsEffect DEF BaseInv, IInv
<1>3. /\ pc[t] \in LeasePoints <=> lease = t
      /\ pc[t] \in LockPoints <=> lock = t
  BY DEF BaseInv, IInv, LockingInv, LeaseInv, LockInv
<1> USE <1>1, <1>2, <1>3, GotoLocals, ReturnLocals, NoTaskAssumption
    DEF ConnStep, TaskTransport, SlotInvs, SlotInv, TransportInv, GoneInv, OpeningInv,
        PreparingInv, InstalledInv, ClearedInv, Installs, Preparing, Opening, Aborting,
        Live, Quiet, Carries, DisconnectPoints, LeasePoints, LockPoints,
        LifecyclePoints, IdentityPoints, BeginsOp
<1>4. CASE ConnectBegin(t)
  BY <1>4, BeginLocals DEF ConnectBegin, Operations, BeginInv, Waiting, Owns
<1>5. CASE Prepare(t)
  BY <1>5 DEF Prepare, HasSmcpTransport, IsConnected
<1>6. CASE PrepareLock(t)
  BY <1>6 DEF PrepareLock, ClearForOperation, HasSmcpTransport, EnsureConnectionOperation
<1>7. CASE PrepareTeardown(t)
  BY <1>7 DEF PrepareTeardown, ClearSmcpConnection, DisconnectOk, DisconnectErr, LeaveOffice
<1>8. CASE Admit(t)
  BY <1>8 DEF Admit
<1>9. CASE Resolve(t)
  <2>1. /\ pc[t] = "resolve" /\ pc'[t] \in {"reserve", "finishLock"}
        /\ UNCHANGED <<sdk, connection, registry, locks>>
    BY <1>9 DEF Resolve, TypeOK, LocalTypeOK
  <2>2. QED
    BY <2>1
<1>10. CASE Reserve(t)
  BY <1>10 DEF Reserve
<1>11. CASE EstablishManual(t)
  <2>1. /\ pc[t] = "establish" /\ pc'[t] \in {"connectLock", "complete", "abortLock"}
        /\ UNCHANGED <<sdk, connection, registry, locks>>
    BY <1>11, FreshLocals DEF EstablishManual
  <2>2. QED
    BY <2>1
<1>12. CASE EstablishManager(t)
  BY <1>12, FreshLocals DEF EstablishManager
<1>13. CASE Transaction(t)
  <2>1. /\ pc[t] = "transaction" /\ pc'[t] \in {"connectLock", "commit", "abortLock"}
        /\ UNCHANGED <<sdk, connection, registry, lease, lock>>
    BY <1>13 DEF Transaction
  <2>2. QED
    BY <2>1
<1>14. CASE ConnectLock(t)
  <2>1. CASE /\ TokenCurrent(t) /\ Goto(t, "connectSocket")
             /\ lock' = t /\ lifecycle' = "Connecting"
    <3>1. Owns(t) /\ Owns(t)'
      BY <1>14, <2>1
         DEF ConnectLock, BaseInv, OwnerInv, TokenlessInv, Owns, TokenCurrent,
             InFlightPoints, ConnectPoints
    <3>2. QED
      BY <1>14, <2>1, <3>1 DEF ConnectLock
  <2>2. CASE Goto(t, "abortLock") /\ UNCHANGED <<lock, lifecycle>>
    BY <1>14, <2>2 DEF ConnectLock
  <2>3. QED
    BY <1>14, <2>1, <2>2 DEF ConnectLock, AbortTo, EnsureConnectionOperation
<1>15. CASE ConnectSocket(t)
  <2>1. pc[t] = "connectSocket" /\ Owns(t) /\ connection = NoConnection /\ socket = 0
        /\ lock = t /\ UNCHANGED <<connection, registry, lease, authority, runtimeGeneration>>
    BY <1>15 DEF ConnectSocket
  <2>2. CASE Goto(t, "install") /\ socket' = gen[t] /\ lifecycle' = "JoinedOffice"
    <3>1. Owns(t)'
      BY <2>1, <2>2 DEF Owns, TokenCurrent
    <3>2. QED
      BY <2>1, <2>2, <3>1
  <2>3. CASE /\ Goto(t, "abortLock") /\ lock' = NoTask
             /\ \/ lifecycle' = "Started" /\ socket' \in {socket, 0}
                \/ lifecycle' = "Connected" /\ socket' = gen[t]
    BY <2>1, <2>3
  <2>4. QED
    BY <1>15, <2>2, <2>3 DEF ConnectSocket, AbortTo
<1>16. CASE Install(t)
  <2>1. /\ pc[t] = "install" /\ Owns(t) /\ connection = NoConnection /\ socket = gen[t]
        /\ lock = t /\ lock' = NoTask /\ UNCHANGED <<registry, lease, runtimeGeneration>>
    BY <1>16 DEF Install
  <2>2. CASE /\ InstallConnectionState(t) /\ Goto(t, "commit") /\ ~retired
             /\ UNCHANGED <<lifecycle, socket>>
    <3>1. op'.operation = op.operation /\ op'.epoch = op.epoch
      BY <2>2 DEF InstallConnectionState, DiagnosedOp
    <3>2. Owns(t)'
      BY <2>1, <2>2, <3>1 DEF Owns, TokenCurrent
    <3>3. Carries(t)' /\ connection'.generation = gen[t]
      BY <2>2 DEF InstallConnectionState
    <3>4. GoneInv'
      BY <2>1, <2>2
    <3>5. QED
      BY <2>1, <2>2, <3>2, <3>3, <3>4
  <2>3. CASE Goto(t, "abortLock") /\ BoundedDisconnect /\ UNCHANGED authority
    BY <2>1, <2>3 DEF BoundedDisconnect, DisconnectOk, DisconnectErr, LeaveOffice
  <2>4. QED
    BY <1>16, <2>2, <2>3 DEF Install, AbortTo, EnsureConnectionOperation
<1>17. CASE Commit(t)
  BY <1>17 DEF Commit, AbortTo
<1>18. CASE Apply(t)
  BY <1>18 DEF Apply, AbortTo
<1>19. CASE AbortLock(t)
  BY <1>19 DEF AbortLock, ClearForOperation, AfterAbort
<1>20. CASE AbortTeardown(t)
  BY <1>20 DEF AbortTeardown, ClearSmcpConnection, AfterAbort, DisconnectOk, DisconnectErr, LeaveOffice
<1>21. CASE FinishLock(t)
  BY <1>21 DEF FinishLock, ClearForOperation
<1>22. CASE FinishTeardown(t)
  BY <1>22 DEF FinishTeardown, ClearSmcpConnection, DisconnectOk, DisconnectErr, LeaveOffice
<1>23. CASE Fail(t)
  BY <1>23 DEF Fail, FailForToken
<1>24. CASE Complete(t)
  <2>1. pc[t] = "complete" /\ UNCHANGED <<sdk, connection, registry, locks>>
    BY <1>24 DEF Complete, CompleteForToken
  <2>2. CASE Return(t)
    BY <2>1, <2>2
  <2>3. CASE Goto(t, "finishLock")
    BY <2>1, <2>3
  <2>4. QED
    BY <1>24, <2>2, <2>3 DEF Complete
<1>25. QED
  BY <1>4, <1>5, <1>6, <1>7, <1>8, <1>9, <1>10, <1>11, <1>12, <1>13, <1>14, <1>15,
     <1>16, <1>17, <1>18, <1>19, <1>20, <1>21, <1>22, <1>23, <1>24 DEF ConnectStep

LEMMA DisconnectConn ==
    ASSUME BaseInv, ConnInv, NEW t \in Tasks, DisconnectStep(t)
    PROVE  ConnStep(t) /\ TaskTransport(t)' /\ SlotInvs'
<1>1. TypeOK /\ SlotInvs /\ TaskTransport(t) /\ BeginInv(t)
  BY DEF BaseInv, IInv, ConnInv
<1>2. Owns(t)' => Owns(t) \/ (BeginsOp(t) /\ op.operation = "none")
  BY DisconnectSole, OwnsEffect DEF BaseInv, IInv
<1>3. /\ pc[t] \in LeasePoints <=> lease = t
      /\ pc[t] \in LockPoints <=> lock = t
  BY DEF BaseInv, IInv, LockingInv, LeaseInv, LockInv
<1> USE <1>1, <1>2, <1>3, GotoLocals, ReturnLocals, NoTaskAssumption
    DEF ConnStep, TaskTransport, SlotInvs, SlotInv, TransportInv, GoneInv, OpeningInv,
        PreparingInv, InstalledInv, ClearedInv, Installs, Preparing, Opening, Aborting,
        Live, Quiet, Carries, DisconnectPoints, LeasePoints, LockPoints,
        LifecyclePoints, IdentityPoints, BeginsOp
<1>4. CASE DisconnectBegin(t)
  BY <1>4, BeginLocals DEF DisconnectBegin, Operations
<1>5. CASE DisconnectEnsure(t)
  <2>1. /\ pc[t] = "dEnsure" /\ UNCHANGED <<sdk, registry, lock>>
        /\ connection' = connection \/ connection' = NoConnection
    BY <1>5 DEF DisconnectEnsure, ReconcileForToken
  <2>2. CASE Return(t)
    BY <2>1, <2>2
  <2>3. CASE Goto(t, "dTransport")
    BY <2>1, <2>3
  <2>4. QED
    BY <1>5, <2>2, <2>3 DEF DisconnectEnsure
<1>6. CASE DisconnectTransport(t)
  BY <1>6 DEF DisconnectTransport
<1>7. CASE DisconnectLock(t)
  BY <1>7 DEF DisconnectLock
<1>8. CASE DisconnectTeardown(t)
  BY <1>8 DEF DisconnectTeardown, ClearSmcpConnection, DisconnectOk, DisconnectErr, LeaveOffice
<1>9. CASE DisconnectFailed(t)
  BY <1>9 DEF DisconnectFailed, ReconcileForToken
<1>10. CASE DisconnectSettle(t)
  BY <1>10 DEF DisconnectSettle, CompleteForToken
<1>11. QED
  BY <1>4, <1>5, <1>6, <1>7, <1>8, <1>9, <1>10 DEF DisconnectStep

LEMMA LifecycleConn ==
    ASSUME BaseInv, ConnInv, NEW t \in Tasks, LifecycleStep(t)
    PROVE  ConnStep(t) /\ TaskTransport(t)' /\ SlotInvs'
<1>1. TypeOK /\ SlotInvs /\ TaskTransport(t)
  BY DEF BaseInv, IInv, ConnInv
<1>2. Owns(t)' => Owns(t) \/ (BeginsOp(t) /\ op.operation = "none")
  BY LifecycleSole, OwnsEffect DEF BaseInv, IInv
<1>3. /\ pc[t] \in LeasePoints <=> lease = t
      /\ pc[t] \in LockPoints <=> lock = t
      /\ lease # NoTask => present
  BY DEF BaseInv, IInv, LockingInv, LeaseInv, LockInv, OwnershipInv, PresentInv
<1> USE <1>1, <1>2, <1>3, GotoLocals, ReturnLocals, NoTaskAssumption
    DEF ConnStep, TaskTransport, SlotInvs, SlotInv, TransportInv, GoneInv, OpeningInv,
        PreparingInv, InstalledInv, ClearedInv, Installs, Preparing, Opening, Aborting,
        Live, Quiet, Carries, DisconnectPoints, LeasePoints, LockPoints,
        LifecyclePoints, IdentityPoints, BeginsOp
<1>4. CASE ReplaceLock(t)
  BY <1>4 DEF ReplaceLock, HasSmcpTransport
<1>5. CASE ReplaceClear(t)
  BY <1>5 DEF ReplaceClear, DisconnectOk, DisconnectErr, LeaveOffice
<1>6. CASE ReplaceCancel(t)
  BY <1>6 DEF ReplaceCancel, ShutdownSdkOk, ShutdownSdkErr
<1>7. CASE ReplaceInstall(t)
  BY <1>7 DEF ReplaceInstall
<1>8. CASE StopLock(t)
  BY <1>8 DEF StopLock
<1>9. CASE ShutdownTeardown(t)
  BY <1>9 DEF ShutdownTeardown, BoundedDisconnect, DisconnectOk, DisconnectErr, LeaveOffice
<1>10. CASE ShutdownSdk(t)
  BY <1>10 DEF ShutdownSdk, ShutdownSdkOk, ShutdownSdkErr
<1>11. CASE ShutdownTake(t)
  BY <1>11 DEF ShutdownTake
<1>12. CASE ShutdownComplete(t)
  BY <1>12 DEF ShutdownComplete
<1>13. CASE DeleteLock(t)
  BY <1>13 DEF DeleteLock
<1>14. CASE DeleteDecide(t)
  BY <1>14 DEF DeleteDecide
<1>15. QED
  BY <1>4, <1>5, <1>6, <1>7, <1>8, <1>9, <1>10, <1>11, <1>12, <1>13, <1>14
     DEF LifecycleStep

\* An identity cleanup finds Manager-owned state: if the connection is of another
\* source then a Manager operation is in flight over it, and its transport is dead.
LEMMA ManagerOwnedQuiet ==
    ASSUME BaseInv, ConnInv, ManagerOwned, connection # NoConnection,
           connection.source # "manager_robot"
    PROVE  lifecycle \notin Live
<1>1. op.operation # "none"
  BY DEF ManagerOwned, BaseInv, OwnerInv, SourceInv
<1>2. PICK u \in Tasks : Owns(u) /\ pc[u] \in InFlightPoints
  BY <1>1 DEF BaseInv, IInv, InFlightHasOwner
<1>3. src[u] = "manager_robot"
  BY <1>2 DEF ManagerOwned, BaseInv, OwnerInv, SourceInv
<1>4. OpeningInv(u) /\ PreparingInv(u) /\ InstalledInv(u)
  BY DEF ConnInv, TaskTransport
<1>5. pc[u] \notin Opening
  BY <1>2, <1>4 DEF OpeningInv
<1>6. pc[u] \notin {"commit", "apply", "complete"} \cup Aborting \cup DisconnectPoints
  BY <1>2, <1>3, <1>4 DEF InstalledInv, Carries
<1>7. pc[u] \in Preparing \cup {"fail"}
  BY <1>2, <1>5, <1>6
     DEF InFlightPoints, ConnectPoints, Opening, Aborting, Preparing
<1>8. QED
  BY <1>2, <1>3, <1>4, <1>7 DEF PreparingInv, InstalledInv, Quiet

LEMMA IdentityConn ==
    ASSUME BaseInv, ConnInv, NEW t \in Tasks, IdentityStep(t)
    PROVE  ConnStep(t) /\ TaskTransport(t)' /\ SlotInvs'
<1>1. TypeOK /\ SlotInvs /\ TaskTransport(t)
  BY DEF BaseInv, IInv, ConnInv
<1>2. Owns(t)' => Owns(t) \/ (BeginsOp(t) /\ op.operation = "none")
  BY IdentitySole, OwnsEffect DEF BaseInv, IInv
<1>3. /\ pc[t] \in LeasePoints <=> lease = t
      /\ pc[t] \in LockPoints <=> lock = t
  BY DEF BaseInv, IInv, LockingInv, LeaseInv, LockInv
<1> USE <1>1, <1>2, <1>3, GotoLocals, ReturnLocals, NoTaskAssumption
    DEF ConnStep, TaskTransport, SlotInvs, SlotInv, TransportInv, GoneInv, OpeningInv,
        PreparingInv, InstalledInv, ClearedInv, Installs, Preparing, Opening, Aborting,
        Live, Quiet, Carries, DisconnectPoints, LeasePoints, LockPoints,
        LifecyclePoints, IdentityPoints, BeginsOp
<1>4. CASE IdentityLease(t)
  BY <1>4 DEF IdentityLease
<1>5. CASE IdentityLock(t)
  BY <1>5, ManagerOwnedQuiet DEF IdentityLock
<1>6. CASE IdentityTeardown(t)
  <2>1. /\ pc[t] = "iTeardown" /\ pc'[t] = "iPersist" /\ lock = t
        /\ connection' = connection \/ connection' = NoConnection
        /\ connection' # NoConnection =>
              connection' = connection /\ connection.source # "manager_robot"
        /\ UNCHANGED <<registry, lease>>
    BY <1>6 DEF IdentityTeardown
  <2>2. CASE HasSmcpTransport /\ DisconnectOk
    BY <2>1, <2>2 DEF DisconnectOk
  <2>3. CASE ~HasSmcpTransport /\ UNCHANGED <<lifecycle, socket>>
    BY <2>1, <2>3 DEF HasSmcpTransport
  <2>4. CASE LeaveOffice /\ socket' = 0
    BY <2>1, <2>4 DEF LeaveOffice
  <2>5. QED
    BY <1>6, <2>2, <2>3, <2>4, Zenon DEF IdentityTeardown
<1>7. CASE IdentityPersist(t)
  BY <1>7 DEF IdentityPersist
<1>8. CASE IdentityCommit(t)
  BY <1>8 DEF IdentityCommit
<1>9. QED
  BY <1>4, <1>5, <1>6, <1>7, <1>8 DEF IdentityStep

LEMMA AdmissionConn ==
    ASSUME BaseInv, ConnInv, NEW t \in Tasks, Admission(t)
    PROVE  ConnStep(t) /\ TaskTransport(t)' /\ SlotInvs'
<1>1. TypeOK /\ SlotInvs /\ TaskTransport(t)
  BY DEF BaseInv, IInv, ConnInv
<1>2. Owns(t)' => Owns(t) \/ (BeginsOp(t) /\ op.operation = "none")
  BY AdmissionSole, OwnsEffect DEF BaseInv, IInv
<1>3. /\ pc[t] \in LeasePoints <=> lease = t
      /\ pc[t] \in LockPoints <=> lock = t
  BY DEF BaseInv, IInv, LockingInv, LeaseInv, LockInv
<1> USE <1>1, <1>2, <1>3, GotoLocals, ReturnLocals, NoTaskAssumption
    DEF ConnStep, TaskTransport, SlotInvs, SlotInv, TransportInv, GoneInv, OpeningInv,
        PreparingInv, InstalledInv, ClearedInv, Installs, Preparing, Opening, Aborting,
        Live, Quiet, Carries, DisconnectPoints, LeasePoints, LockPoints,
        LifecyclePoints, IdentityPoints, BeginsOp
<1>4. CASE DisconnectAdmit(t)
  <2>1. src'[t] = connection.source /\ pc'[t] = "dBegin" /\ pc[t] = "Idle"
    BY <1>4 DEF DisconnectAdmit, LocalTypeOK, TypeOK
  <2>2. op.operation = "none" /\ op' = op
    BY <1>4 DEF DisconnectAdmit, DisconnectOffered
  <2>3. QED
    BY <1>4, <2>1, <2>2 DEF DisconnectAdmit, Owns
<1>5. CASE ReplaceAdmit(t)
  BY <1>5 DEF ReplaceAdmit
<1>6. CASE StopAdmit(t)
  BY <1>6 DEF StopAdmit
<1>7. CASE DeleteAdmit(t)
  BY <1>7 DEF DeleteAdmit
<1>8. CASE IdentityAdmit(t)
  BY <1>8 DEF IdentityAdmit
<1>9. ASSUME NEW source \in Sources, ConnectAdmit(t, source)
      PROVE  ConnStep(t) /\ TaskTransport(t)' /\ SlotInvs'
  <2>1. pc'[t] = "begin" /\ pc[t] = "Idle"
    BY <1>9 DEF ConnectAdmit, LocalTypeOK, TypeOK
  <2>2. Quiet
    BY <1>9 DEF ConnectAdmit, EnsureRuntimeAction, EnabledIn
  <2>3. QED
    BY <1>9, <2>1, <2>2 DEF ConnectAdmit
<1>10. QED
  BY <1>4, <1>5, <1>6, <1>7, <1>8, <1>9 DEF Admission

\* The step keeps what holds of every other task, and nobody's wait ends early.
LEMMA ConnKept ==
    ASSUME BaseInv, ConnInv, NEW t \in Tasks, SoleStep(t), ConnStep(t),
           TaskTransport(t)', SlotInvs'
    PROVE  ConnInv'
<1>1. /\ \A u \in Tasks \ {t} : Owns(u)' => Owns(u)
      /\ \A u \in Tasks \ {t} : Owns(u) => Owns(u)' \/ (lease = t /\ lock = t)
  BY OwnsEffect DEF BaseInv, IInv
<1>2. \A u \in Tasks : /\ pc[u] \in LeasePoints <=> lease = u
                       /\ pc[u] \in LockPoints <=> lock = u
  BY DEF BaseInv, IInv, LockingInv, LeaseInv, LockInv
<1>3. ASSUME NEW u \in Tasks \ {t} PROVE TaskTransport(u)'
  <2>1. /\ pc'[u] = pc[u] /\ src'[u] = src[u] /\ gen'[u] = gen[u] /\ mgr'[u] = mgr[u]
    BY DEF SoleStep, OthersStay
  <2>2. TaskTransport(u)
    BY DEF ConnInv
  <2>3. Owns(u) => ~Owns(t)
    BY DEF BaseInv, OwnerInv, SoleInv
  <2>4. OpeningInv(u)'
    BY <1>1, <1>2, <2>1, <2>2, <2>3
       DEF TaskTransport, OpeningInv, ConnStep, Installs, Opening, LockPoints
  <2>5. PreparingInv(u)'
    BY <1>1, <2>1, <2>2, <2>3
       DEF TaskTransport, PreparingInv, ConnStep, Installs, Quiet
  <2>6. InstalledInv(u)'
    <3>1. pc[u] = "dBegin" => op'.operation = "none" /\ ~Owns(t)
      <4>1. pc[u] = "dBegin" => lease # t /\ op.operation = "none"
        BY <1>2, <2>2 DEF TaskTransport, InstalledInv, LeasePoints
      <4>2. pc[u] = "dBegin" => ~BeginsOp(t)
        BY <1>2, <4>1 DEF BeginsOp, LeasePoints
      <4>3. QED
        BY <4>1, <4>2 DEF SoleStep, EndsOp, KeepsOp, Owns
    <3>2. QED
      BY <1>1, <2>1, <2>2, <2>3, <3>1
         DEF TaskTransport, InstalledInv, ConnStep, Installs, Carries, Live
  <2>7. ClearedInv(u)'
    BY <1>2, <2>1, <2>2
       DEF TaskTransport, ClearedInv, ConnStep, Installs, LockPoints, LifecyclePoints
  <2>8. QED
    BY <2>4, <2>5, <2>6, <2>7 DEF TaskTransport
<1>4. ASSUME NEW v \in Tasks PROVE BeginInv(v)'
  <2> SUFFICES ASSUME pc'[v] = "begin", v # t PROVE Quiet' \/ Waiting'
    BY DEF BeginInv, ConnStep
  <2>1. pc[v] = "begin" /\ lease = v
    BY <1>2 DEF SoleStep, OthersStay, LeasePoints
  <2>2. CASE Quiet
    <3>1. CASE Installs(t)
      BY <3>1 DEF Installs, Waiting
    <3>2. CASE ~Installs(t)
      BY <2>2, <3>2 DEF ConnStep, Quiet
    <3>3. QED
      BY <3>1, <3>2
  <2>3. CASE Waiting
    <3>1. PICK u \in Tasks : Owns(u) /\ pc[u] = "commit"
      BY <2>3 DEF Waiting
    <3>2. u # t
      BY <2>1, <3>1, NoTaskAssumption DEF ConnStep
    <3>3. QED
      BY <1>1, <2>1, <3>1, <3>2 DEF SoleStep, OthersStay, Waiting
  <2>4. QED
    BY <2>1, <2>2, <2>3 DEF ConnInv, BeginInv
<1>5. QED
  BY <1>3, <1>4 DEF ConnInv

LEMMA SoleAny ==
    ASSUME BaseInv, NEW t \in Tasks, Admission(t) \/ Step(t)
    PROVE  SoleStep(t)
  BY AdmissionSole, ConnectSole, DisconnectSole, LifecycleSole, IdentitySole
     DEF BaseInv, Step

LEMMA ConnNext == BaseInv /\ ConnInv /\ [Next]_vars => ConnInv'
<1> SUFFICES ASSUME BaseInv, ConnInv, [Next]_vars PROVE ConnInv'
  OBVIOUS
<1>1. ASSUME NEW t \in Tasks, Admission(t) PROVE ConnInv'
  BY <1>1, AdmissionConn, SoleAny, ConnKept
<1>2. ASSUME NEW t \in Tasks, Step(t) PROVE ConnInv'
  BY <1>2, ConnectConn, DisconnectConn, LifecycleConn, IdentityConn, SoleAny, ConnKept
     DEF Step
<1>3. CASE TransportLost \/ TransportSettled \/ UNCHANGED vars
  <2>1. /\ UNCHANGED <<socket, connection, op, registry, runtimeGeneration, local>>
        /\ lifecycle' \in Live => lifecycle \in Live
        /\ socket # 0 /\ lifecycle' # lifecycle => lifecycle' \in Live \cup {"Started"}
        /\ socket = 0 => lifecycle' = lifecycle
    BY <1>3 DEF TransportLost, TransportSettled, vars, local, Live
  <2>2. SlotInvs'
    BY <2>1 DEF ConnInv, SlotInvs, SlotInv, TransportInv, GoneInv, Live
  <2>3. \A t \in Tasks : Owns(t)' <=> Owns(t)
    BY <2>1 DEF Owns, TokenCurrent, local
  <2>4. \A t \in Tasks : TaskTransport(t)' /\ BeginInv(t)'
    BY <2>1, <2>3
       DEF ConnInv, TaskTransport, OpeningInv, PreparingInv, InstalledInv, ClearedInv,
           BeginInv, Waiting, Quiet, Carries, local
  <2>5. QED
    BY <2>2, <2>4 DEF ConnInv
<1>4. QED
  BY <1>1, <1>2, <1>3 DEF Next

LEMMA OwnerNext == BaseInv /\ [Next]_vars => BaseInv'
<1> SUFFICES ASSUME BaseInv, [Next]_vars PROVE BaseInv'
  OBVIOUS
<1>1. IInv'
  BY TypeNext, LockingNext, OwnershipNext DEF BaseInv, IInv
<1>2. OwnerInv'
  <2>1. ASSUME NEW t \in Tasks, Admission(t) \/ Step(t) PROVE OwnerInv'
    BY <2>1, SoleAny, OwnerKept DEF BaseInv, IInv
  <2>2. CASE TransportLost \/ TransportSettled \/ UNCHANGED vars
    BY <2>2 DEF TransportLost, TransportSettled, vars, local, BaseInv, OwnerInv,
                EpochInv, TokenlessInv, SoleInv, SourceInv, ConnectSourceInv, Owns,
                TokenCurrent
  <2>3. QED
    BY <2>1, <2>2 DEF Next
<1>3. QED
  BY <1>1, <1>2 DEF BaseInv

LEMMA ConnInit == Init => BaseInv /\ ConnInv
<1> SUFFICES ASSUME Init PROVE BaseInv /\ ConnInv
  OBVIOUS
<1>1. IInv
  BY InitType, LockingInit, OwnershipInit DEF IInv
<1>2. \A t \in Tasks : pc[t] = "Idle" /\ tok[t] = NoToken /\ ~Owns(t)
  BY DEF Init, Owns
<1>3. OwnerInv
  BY <1>2 DEF Init, OwnerInv, EpochInv, TokenlessInv, SoleInv, SourceInv,
              ConnectSourceInv, NoToken,
              InFlightPoints, ConnectPoints, DisconnectPoints
<1>4. SlotInvs
  BY DEF Init, SlotInvs, SlotInv, TransportInv, GoneInv
<1>5. \A t \in Tasks : TaskTransport(t) /\ BeginInv(t)
  BY <1>2 DEF TaskTransport, OpeningInv, PreparingInv, InstalledInv, ClearedInv, BeginInv
<1>6. QED
  BY <1>1, <1>3, <1>4, <1>5 DEF BaseInv, ConnInv

\* What the snapshot shows as Connected is backed by the transport opened for this very
\* authority, however connects, teardowns, retries and identity changes interleave.
THEOREM ConnectedHasTransport == Spec => []ConnectedIsReal
<1>1. ConnInv => ConnectedIsReal
  BY DEF ConnInv, SlotInvs, TransportInv, ConnectedIsReal, IsConnected, Live
<1>2. QED
  BY ConnInit, OwnerNext, ConnNext, <1>1, PTL DEF Spec

\* A connect opens its transport into an empty slot, though it looked at the slot
\* without the lifecycle lock: no command fills it between the look and the connect.
THEOREM SlotEmptyAtConnect == Spec => []OneTransport
<1>1. ConnInv => OneTransport
  BY DEF ConnInv, TaskTransport, OpeningInv, Opening, OneTransport
<1>2. QED
  BY ConnInit, OwnerNext, ConnNext, <1>1, PTL DEF Spec

\* A transport that a failed teardown left without authority can be closed by the
\* user: the lifecycle it is left in offers Disconnect, or Connect, which closes it.
THEOREM OrphanCanBeClosed == Spec => []OrphanTransportIsActionable
<1>1. ConnInv => OrphanTransportIsActionable
  BY DEF ConnInv, SlotInvs, SlotInv, OrphanTransportIsActionable, DisconnectOffered,
         EnsureRuntimeAction, EnabledIn
<1>2. QED
  BY ConnInit, OwnerNext, ConnNext, <1>1, PTL DEF Spec

-----------------------------------------------------------------------------
(* What the authority and the profile stand for. *)

\* Where a connect may have installed an authority that it has not committed.
Abortable == {"commit", "apply", "fail"} \cup Aborting
Matches ==
    profile.source = connection.source /\ profile.generation = connection.generation

\* Whatever else its owner finds in force is committed, and what it applies is its own.
CommittedInv(t) ==
    /\ Owns(t) /\ (pc[t] \notin Abortable \/ connection.source # src[t])
         /\ connection # NoConnection => Matches
    /\ pc[t] = "apply" =>
          Owns(t) /\ profile.source = src[t] /\ profile.generation = gen[t]

\* Manager authority belongs to the session now signed in; a connect that holds the
\* transaction lock belongs to it too, and a cleanup leaves none.
SessionInv ==
    connection.source = "manager_robot" =>
        session = [generation |-> connection.session, authenticated |-> TRUE]
TransactionInv(t) ==
    /\ pc[t] \in CommitPoints /\ src[t] = "manager_robot" => GenerationCurrent(t)
    /\ pc[t] \in {"iPersist", "iCommit"} => connection.source # "manager_robot"

\* A binding that is persisted as active is of the session now signed in or of a
\* tombstoned one, and so is the one a failed apply would write back.
Covered(p) ==
    p.active =>
        \/ session = [generation |-> p.session, authenticated |-> TRUE]
        \/ p.session \in departing
BindingInv == present => Covered(profile)
SameBinding(p) == p.session = profile.session /\ p.active = profile.active
TombstoneInv(t) ==
    /\ pc[t] = "apply" =>
          IF src[t] = "manager_robot" THEN Covered(seen[t]) ELSE SameBinding(seen[t])
    /\ pc[t] \in IdentityPoints /\ session.authenticated =>
          session.generation \in departing
    /\ pc[t] = "iCommit" /\ present /\ profile.active /\ session.authenticated
         /\ profile.session = session.generation => cleanupFailed

SystemAuthority == AuthorityIsCommitted /\ SessionInv /\ BindingInv
TaskAuthority(t) == CommittedInv(t) /\ TransactionInv(t) /\ TombstoneInv(t)
AuthorityInv == SystemAuthority /\ \A t \in Tasks : TaskAuthority(t)

\* What a step leaves to the other tasks: the profile changes under the lease, its
\* target by the owner, its binding and the session under the transaction lock.
ManagerStep(t) ==
    /\ profile' = profile \/ lease \in {t, NoTask}
    /\ Owns(t) \/ (profile'.source = profile.source
                     /\ profile'.generation = profile.generation)
    /\ profile'.active =>
          tx = t \/ (profile.active /\ profile'.session = profile.session)
    /\ UNCHANGED <<session, departing, cleanupFailed>> \/ tx \in {t, NoTask}
    /\ session' = session \/ tx = t
    /\ present' => present

LEMMA OthersAuthority ==
    ASSUME BaseInv, ConnInv, ConnInv', AuthorityInv, NEW t \in Tasks, SoleStep(t),
           ConnStep(t), ManagerStep(t), NEW u \in Tasks \ {t}
    PROVE  TaskAuthority(u)'
<1>1. /\ pc'[u] = pc[u] /\ src'[u] = src[u] /\ gen'[u] = gen[u] /\ mgr'[u] = mgr[u]
      /\ seen'[u] = seen[u]
  BY DEF SoleStep, OthersStay
<1>2. /\ Owns(u)' => Owns(u)
      /\ Owns(u) => Owns(u)' \/ lease = t
      /\ Owns(u) => ~Owns(t)
  BY OwnsEffect DEF BaseInv, IInv, OwnerInv, SoleInv
<1>3. /\ pc[u] \in LeasePoints <=> lease = u
      /\ HoldsTx(u) <=> tx = u
      /\ HoldsTx(t) <=> tx = t
  BY DEF BaseInv, IInv, LockingInv, LeaseInv, TxInv
<1>4. TaskAuthority(u)
  BY DEF AuthorityInv
<1>5. CommittedInv(u)'
  BY <1>1, <1>2, <1>3, <1>4, NoTaskAssumption
     DEF TaskAuthority, CommittedInv, ConnStep, Installs, ManagerStep, Matches, LeasePoints
<1>6. TransactionInv(u)'
  <2>1. CASE pc[u] \in CommitPoints /\ src[u] = "manager_robot"
    BY <1>1, <1>3, <1>4, <2>1, NoTaskAssumption
       DEF TaskAuthority, TransactionInv, GenerationCurrent, ManagerStep, HoldsTx,
           CommitPoints
  <2>2. CASE pc[u] \in {"iPersist", "iCommit"}
    <3>1. ~(pc[t] = "install" /\ src[t] = "manager_robot")
      BY <1>3, <2>2 DEF HoldsTx, CommitPoints, IdentityPoints
    <3>2. CASE Installs(t)
      <4>1. connection' = NoConnection \/ connection'.source = src'[t]
        BY <3>2 DEF ConnInv, TaskTransport, InstalledInv, Carries, Installs
      <4>2. src'[t] = src[t]
        BY <3>2 DEF SoleStep, TokenStep, BeginsOp, Installs, InFlightPoints, ConnectPoints
      <4>3. QED
        BY <1>1, <2>2, <3>1, <3>2, <4>1, <4>2
           DEF TransactionInv, Installs, NoConnection, CommitPoints
    <3>3. CASE connection' = connection \/ connection' = NoConnection
      BY <1>1, <1>4, <2>2, <3>3
         DEF TaskAuthority, TransactionInv, NoConnection, CommitPoints
    <3>4. QED
      BY <3>2, <3>3 DEF ConnStep
  <2>3. QED
    BY <1>1, <2>1, <2>2 DEF TransactionInv
<1>7. TombstoneInv(u)'
  <2>1. ASSUME pc[u] = "apply"
        PROVE  IF src[u] = "manager_robot" THEN Covered(seen[u])' ELSE SameBinding(seen[u])'
    <3>1. profile' = profile
      BY <1>3, <2>1, NoTaskAssumption DEF ManagerStep, LeasePoints
    <3>2. CASE src[u] = "manager_robot"
      <4>1. UNCHANGED <<session, departing>>
        BY <1>3, <2>1, <3>2, NoTaskAssumption DEF ManagerStep, HoldsTx, CommitPoints
      <4>2. QED
        BY <1>1, <1>4, <2>1, <3>2, <4>1 DEF TaskAuthority, TombstoneInv, Covered
    <3>3. CASE src[u] # "manager_robot"
      BY <1>1, <1>4, <2>1, <3>1, <3>3 DEF TaskAuthority, TombstoneInv, SameBinding
    <3>4. QED
      BY <3>2, <3>3
  <2>2. ASSUME pc[u] \in IdentityPoints
        PROVE  /\ UNCHANGED <<session, departing, cleanupFailed>>
               /\ profile'.active => profile.active /\ profile'.session = profile.session
    BY <1>3, <2>2, NoTaskAssumption DEF ManagerStep, HoldsTx
  <2>3. QED
    BY <1>1, <1>4, <2>1, <2>2
       DEF TaskAuthority, TombstoneInv, ManagerStep, IdentityPoints, Covered, SameBinding
<1>8. QED
  BY <1>5, <1>6, <1>7 DEF TaskAuthority

\* Most steps leave profile and session alone and never put an authority in force.
SettledWell ==
    op.operation # "none" /\ op'.operation = "none" /\ connection' # NoConnection => Matches
PlainStep(t) ==
    /\ UNCHANGED <<profile, session, departing, cleanupFailed>>
    /\ connection' = connection \/ connection' = NoConnection
    /\ present' => present
    /\ pc[t] \in Abortable => pc'[t] \in Abortable \cup {"Idle"}
    /\ pc'[t] \in CommitPoints =>
          \/ pc[t] \in CommitPoints /\ src'[t] = src[t] /\ mgr'[t] = mgr[t]
          \/ src'[t] # "manager_robot"
    /\ pc'[t] \notin {"apply"} \cup IdentityPoints
    /\ SettledWell

\* What a task owes after its own step.
AuthorityStep(t) == ManagerStep(t) /\ TaskAuthority(t)' /\ SystemAuthority'

LEMMA RestCommitted ==
    ASSUME BaseInv, AuthorityInv, NEW t \in Tasks, SoleStep(t), SettledWell,
           connection' = connection \/ connection' = NoConnection,
           profile'.source = profile.source, profile'.generation = profile.generation
    PROVE  AuthorityIsCommitted'
<1> SUFFICES ASSUME op'.operation = "none", connection' # NoConnection PROVE Matches'
  BY DEF AuthorityIsCommitted, Matches
<1>1. connection' = connection
  OBVIOUS
<1>2. Matches
  BY <1>1 DEF SettledWell, AuthorityInv, SystemAuthority, AuthorityIsCommitted, Matches
<1>3. QED
  BY <1>1, <1>2 DEF Matches

\* The owner's authority stays committed unless it moves out of the abortable points.
LEMMA OwnCommitted ==
    ASSUME BaseInv, AuthorityInv, NEW t \in Tasks, SoleStep(t),
           connection' = connection \/ connection' = NoConnection,
           profile'.source = profile.source, profile'.generation = profile.generation,
           pc[t] \in Abortable => pc'[t] \in Abortable \cup {"Idle"},
           pc'[t] # "apply"
    PROVE  CommittedInv(t)'
<1> SUFFICES ASSUME Owns(t)', connection' # NoConnection,
                    pc'[t] \notin Abortable \/ connection'.source # src'[t]
             PROVE  Matches'
  BY DEF CommittedInv
<1>1. connection' = connection
  OBVIOUS
<1>2. CASE BeginsOp(t) /\ op.operation = "none"
  BY <1>1, <1>2 DEF AuthorityInv, SystemAuthority, AuthorityIsCommitted, Matches
<1>3. CASE Owns(t) /\ ~BeginsOp(t)
  <2>1. tok'[t] # NoToken /\ pc'[t] # "Idle"
    <3>1. Owns(t)' => tok'[t].operation # "none"
      BY DEF Owns, TokenCurrent
    <3>2. OwnerInv'
      BY OwnerKept DEF BaseInv, IInv
    <3>3. QED
      BY <3>1, <3>2 DEF OwnerInv, TokenlessInv, NoToken, InFlightPoints, ConnectPoints,
                        DisconnectPoints
  <2>2. src'[t] = src[t]
    BY <1>3, <2>1 DEF SoleStep, TokenStep
  <2>3. pc[t] \notin Abortable \/ connection.source # src[t]
    BY <1>1, <2>1, <2>2
  <2>4. Matches
    BY <1>1, <1>3, <2>3 DEF AuthorityInv, TaskAuthority, CommittedInv
  <2>5. QED
    BY <1>1, <2>4 DEF Matches
<1>4. QED
  BY <1>2, <1>3, OwnsEffect DEF BaseInv, IInv, BeginsOp

LEMMA PlainAuthority ==
    ASSUME BaseInv, AuthorityInv, NEW t \in Tasks, SoleStep(t), PlainStep(t)
    PROVE  AuthorityStep(t)
<1>1. ManagerStep(t)
  BY DEF ManagerStep, PlainStep
<1>2. AuthorityIsCommitted'
  BY RestCommitted DEF PlainStep
<1>3. SessionInv'
  BY DEF PlainStep, AuthorityInv, SystemAuthority, SessionInv, NoConnection
<1>4. BindingInv'
  BY DEF PlainStep, AuthorityInv, SystemAuthority, BindingInv, Covered
<1>5. CommittedInv(t)'
  BY OwnCommitted DEF PlainStep
<1>6. TransactionInv(t)'
  BY DEF PlainStep, AuthorityInv, TaskAuthority, TransactionInv, GenerationCurrent,
         IdentityPoints
<1>7. TombstoneInv(t)'
  BY DEF PlainStep, TombstoneInv, IdentityPoints
<1>8. QED
  BY <1>1, <1>2, <1>3, <1>4, <1>5, <1>6, <1>7
     DEF AuthorityStep, TaskAuthority, SystemAuthority

LEMMA ConnectPlain ==
    ASSUME BaseInv, ConnInv, AuthorityInv, NEW t \in Tasks, ConnectStep(t),
           ~Transaction(t), ~Install(t), ~Commit(t), ~Apply(t)
    PROVE  PlainStep(t)
<1>1. TypeOK /\ ManagerInv
  BY DEF BaseInv, IInv, LockingInv
<1>2. Owns(t) /\ pc[t] = "complete" /\ connection # NoConnection => Matches
  BY DEF AuthorityInv, TaskAuthority, CommittedInv, Abortable, Aborting
<1> USE <1>1, GotoLocals, ReturnLocals
    DEF PlainStep, SettledWell, Abortable, Aborting, CommitPoints, IdentityPoints
<1>3. CASE ConnectBegin(t)
  BY <1>3, BeginLocals DEF ConnectBegin, Operations
<1>4. CASE Prepare(t)
  BY <1>4 DEF Prepare
<1>5. CASE PrepareLock(t)
  BY <1>5 DEF PrepareLock, ClearForOperation
<1>6. CASE PrepareTeardown(t)
  BY <1>6 DEF PrepareTeardown, ClearSmcpConnection
<1>7. CASE Admit(t)
  BY <1>7 DEF Admit
<1>8. CASE Resolve(t)
  BY <1>8 DEF Resolve, TypeOK, LocalTypeOK
<1>9. CASE Reserve(t)
  BY <1>9 DEF Reserve
<1>10. CASE EstablishManual(t)
  BY <1>10, FreshLocals DEF EstablishManual
<1>11. CASE EstablishManager(t)
  BY <1>11, FreshLocals DEF EstablishManager
<1>12. CASE ConnectLock(t)
  BY <1>12 DEF ConnectLock, AbortTo
<1>13. CASE ConnectSocket(t)
  BY <1>13 DEF ConnectSocket, AbortTo
<1>14. CASE AbortLock(t)
  BY <1>14 DEF AbortLock, ClearForOperation, AfterAbort
<1>15. CASE AbortTeardown(t)
  BY <1>15 DEF AbortTeardown, ClearSmcpConnection, AfterAbort
<1>16. CASE FinishLock(t)
  BY <1>16 DEF FinishLock, ClearForOperation
<1>17. CASE FinishTeardown(t)
  BY <1>17 DEF FinishTeardown, ClearSmcpConnection
<1>18. CASE Fail(t)
  BY <1>18 DEF Fail, FailForToken
<1>19. CASE Complete(t)
  <2>1. /\ pc[t] = "complete" /\ SettledWell
        /\ UNCHANGED <<profile, session, departing, cleanupFailed, connection, present>>
    BY <1>2, <1>19 DEF Complete, CompleteForToken, Owns
  <2>2. CASE Return(t)
    BY <2>1, <2>2
  <2>3. CASE Goto(t, "finishLock")
    BY <2>1, <2>3
  <2>4. QED
    BY <1>19, <2>2, <2>3 DEF Complete
<1>20. QED
  BY <1>3, <1>4, <1>5, <1>6, <1>7, <1>8, <1>9, <1>10, <1>11, <1>12, <1>13, <1>14,
     <1>15, <1>16, <1>17, <1>18, <1>19 DEF ConnectStep

LEMMA DisconnectPlain ==
    ASSUME BaseInv, ConnInv, AuthorityInv, NEW t \in Tasks, DisconnectStep(t)
    PROVE  PlainStep(t)
<1>1. TypeOK
  BY DEF BaseInv, IInv
<1>2. Owns(t) /\ pc[t] = "dSettle" /\ connection # NoConnection => Matches
  BY DEF AuthorityInv, TaskAuthority, CommittedInv, Abortable, Aborting
<1> USE <1>1, GotoLocals, ReturnLocals
    DEF PlainStep, SettledWell, Abortable, Aborting, CommitPoints, IdentityPoints
<1>3. CASE DisconnectBegin(t)
  BY <1>3, BeginLocals DEF DisconnectBegin, Operations
<1>4. CASE DisconnectEnsure(t)
  <2>1. /\ pc[t] = "dEnsure" /\ SettledWell
        /\ connection' = connection \/ connection' = NoConnection
        /\ UNCHANGED <<profile, session, departing, cleanupFailed, present>>
    BY <1>4 DEF DisconnectEnsure, ReconcileForToken
  <2>2. CASE Return(t)
    BY <2>1, <2>2
  <2>3. CASE Goto(t, "dTransport")
    BY <2>1, <2>3
  <2>4. QED
    BY <1>4, <2>2, <2>3 DEF DisconnectEnsure
<1>5. CASE DisconnectTransport(t)
  BY <1>5 DEF DisconnectTransport
<1>6. CASE DisconnectLock(t)
  BY <1>6 DEF DisconnectLock
<1>7. CASE DisconnectTeardown(t)
  BY <1>7 DEF DisconnectTeardown, ClearSmcpConnection
<1>8. CASE DisconnectFailed(t)
  BY <1>8 DEF DisconnectFailed, ReconcileForToken
<1>9. CASE DisconnectSettle(t)
  BY <1>2, <1>9 DEF DisconnectSettle, CompleteForToken, Owns
<1>10. QED
  BY <1>3, <1>4, <1>5, <1>6, <1>7, <1>8, <1>9 DEF DisconnectStep

LEMMA LifecyclePlain ==
    ASSUME BaseInv, ConnInv, AuthorityInv, NEW t \in Tasks, LifecycleStep(t)
    PROVE  PlainStep(t)
<1>1. TypeOK
  BY DEF BaseInv, IInv
<1>2. /\ pc[t] \in {"rCancel", "rInstall", "sComplete"} => connection = NoConnection
      /\ pc[t] \in LeasePoints <=> lease = t
      /\ lease # NoTask => present
  BY DEF ConnInv, TaskTransport, ClearedInv, BaseInv, IInv, LockingInv, LeaseInv,
         OwnershipInv, PresentInv
<1> USE <1>1, GotoLocals, ReturnLocals, OpEffect
    DEF PlainStep, SettledWell, Abortable, Aborting, CommitPoints, IdentityPoints
<1>3. CASE ReplaceLock(t)
  BY <1>3 DEF ReplaceLock
<1>4. CASE ReplaceClear(t)
  BY <1>4 DEF ReplaceClear
<1>5. CASE ReplaceCancel(t)
  BY <1>2, <1>5 DEF ReplaceCancel
<1>6. CASE ReplaceInstall(t)
  BY <1>2, <1>6 DEF ReplaceInstall
<1>7. CASE StopLock(t)
  BY <1>7 DEF StopLock
<1>8. CASE ShutdownTeardown(t)
  BY <1>8 DEF ShutdownTeardown
<1>9. CASE ShutdownSdk(t)
  BY <1>9 DEF ShutdownSdk
<1>10. CASE ShutdownTake(t)
  BY <1>10 DEF ShutdownTake
<1>11. CASE ShutdownComplete(t)
  BY <1>2, <1>11, NoTaskAssumption DEF ShutdownComplete, LeasePoints, LifecyclePoints
<1>12. CASE DeleteLock(t)
  BY <1>12 DEF DeleteLock
<1>13. CASE DeleteDecide(t)
  BY <1>13 DEF DeleteDecide
<1>14. QED
  BY <1>3, <1>4, <1>5, <1>6, <1>7, <1>8, <1>9, <1>10, <1>11, <1>12, <1>13
     DEF LifecycleStep

LEMMA AdmissionPlain ==
    ASSUME BaseInv, ConnInv, AuthorityInv, NEW t \in Tasks, Admission(t),
           ~IdentityAdmit(t)
    PROVE  PlainStep(t)
<1>1. TypeOK
  BY DEF BaseInv, IInv
<1> USE <1>1, GotoLocals, ReturnLocals
    DEF PlainStep, SettledWell, Abortable, Aborting, CommitPoints, IdentityPoints
<1>2. CASE DisconnectAdmit(t)
  BY <1>2 DEF DisconnectAdmit, TypeOK, LocalTypeOK
<1>3. CASE ReplaceAdmit(t)
  BY <1>3 DEF ReplaceAdmit
<1>4. CASE StopAdmit(t)
  BY <1>4 DEF StopAdmit
<1>5. CASE DeleteAdmit(t)
  BY <1>5 DEF DeleteAdmit
<1>6. ASSUME NEW source \in Sources, ConnectAdmit(t, source)
      PROVE  PlainStep(t)
  BY <1>6 DEF ConnectAdmit, TypeOK, LocalTypeOK
<1>7. QED
  BY <1>2, <1>3, <1>4, <1>5, <1>6 DEF Admission

\* The four steps of a connect that do more.
LEMMA TransactionAuthority ==
    ASSUME BaseInv, ConnInv, AuthorityInv, NEW t \in Tasks, SoleStep(t), Transaction(t)
    PROVE  AuthorityStep(t)
<1>1. /\ pc[t] = "transaction" /\ pc'[t] \in {"connectLock", "commit", "abortLock"}
      /\ src'[t] = src[t] /\ gen'[t] = gen[t] /\ mgr'[t] = mgr[t]
      /\ pc'[t] # "abortLock" => GenerationCurrent(t)
      /\ UNCHANGED <<connection, op, profile, session, departing, cleanupFailed, present>>
  BY GotoLocals DEF Transaction, BaseInv, IInv
<1>2. pc[t] \notin Abortable
  BY <1>1 DEF Abortable, Aborting
<1>3. AuthorityIsCommitted' /\ SessionInv' /\ BindingInv'
  BY <1>1 DEF AuthorityInv, SystemAuthority, AuthorityIsCommitted, SessionInv,
              BindingInv, Covered
<1>4. CommittedInv(t)'
  BY <1>1, <1>2, OwnCommitted
<1>5. TransactionInv(t)' /\ TombstoneInv(t)' /\ ManagerStep(t)
  BY <1>1
     DEF TransactionInv, TombstoneInv, GenerationCurrent, IdentityPoints, CommitPoints,
         ManagerStep
<1>6. QED
  BY <1>3, <1>4, <1>5 DEF AuthorityStep, TaskAuthority, SystemAuthority

LEMMA InstallAuthority ==
    ASSUME BaseInv, ConnInv, ConnInv', AuthorityInv, NEW t \in Tasks, SoleStep(t),
           ConnStep(t), Install(t)
    PROVE  AuthorityStep(t)
<1>1. /\ pc[t] = "install" /\ pc'[t] \in {"commit", "abortLock"}
      /\ src'[t] = src[t] /\ gen'[t] = gen[t] /\ mgr'[t] = mgr[t]
      /\ UNCHANGED <<profile, session, departing, cleanupFailed, present>>
  BY GotoLocals DEF Install, AbortTo, BaseInv, IInv
<1>2. Owns(t) /\ connection = NoConnection
  BY <1>1 DEF ConnInv, TaskTransport, OpeningInv, Opening
<1>3. Owns(t)' /\ op'.operation # "none"
  <2>1. op' \in {op, DiagnosedOp(FALSE)} /\ tok'[t] = tok[t] /\ UNCHANGED runtimeGeneration
    BY GotoLocals, Zenon DEF Install, InstallConnectionState, AbortTo, BaseInv, IInv
  <2>2. QED
    BY <1>2, <2>1 DEF Owns, TokenCurrent, DiagnosedOp
<1>4. connection' # NoConnection => Carries(t)'
  BY <1>1, <1>3 DEF ConnInv, TaskTransport, InstalledInv, Aborting
<1>5. AuthorityIsCommitted' /\ BindingInv'
  BY <1>1, <1>3 DEF AuthorityInv, SystemAuthority, AuthorityIsCommitted, BindingInv, Covered
<1>6. SessionInv'
  BY <1>1, <1>4
     DEF SessionInv, NoConnection, Carries, AuthorityInv, TaskAuthority, TransactionInv,
         GenerationCurrent, CommitPoints
<1>7. CommittedInv(t)'
  BY <1>1, <1>4 DEF CommittedInv, Carries, Abortable, Aborting
<1>8. TransactionInv(t)' /\ TombstoneInv(t)' /\ ManagerStep(t)
  BY <1>1
     DEF AuthorityInv, TaskAuthority, TransactionInv, TombstoneInv, GenerationCurrent,
         IdentityPoints, CommitPoints, ManagerStep
<1>9. QED
  BY <1>5, <1>6, <1>7, <1>8 DEF AuthorityStep, TaskAuthority, SystemAuthority

LEMMA CommitAuthority ==
    ASSUME BaseInv, ConnInv, ConnInv', AuthorityInv, NEW t \in Tasks, SoleStep(t),
           ConnStep(t), Commit(t)
    PROVE  AuthorityStep(t)
<1>1. TypeOK /\ TransactionInv(t) /\ BindingInv
  BY DEF BaseInv, IInv, AuthorityInv, TaskAuthority, SystemAuthority
<1>2. CASE AbortTo(t, "abortLock") /\ UNCHANGED <<profile, lease>>
  <2>1. PlainStep(t)
    BY <1>1, <1>2, GotoLocals
       DEF Commit, AbortTo, PlainStep, SettledWell, Abortable, Aborting, CommitPoints,
           IdentityPoints
  <2>2. QED
    BY <2>1, PlainAuthority
<1>3. CASE /\ EnsureConnectionOperation(t) /\ present /\ profile = seen[t]
           /\ profile' = Committed(t) /\ lease' = t /\ Goto(t, "apply") /\ UNCHANGED tx
  <2>1. /\ pc[t] = "commit" /\ pc'[t] = "apply" /\ lease = NoTask
        /\ tok'[t] = tok[t] /\ src'[t] = src[t] /\ gen'[t] = gen[t] /\ mgr'[t] = mgr[t]
        /\ seen'[t] = seen[t]
        /\ UNCHANGED <<connection, op, runtimeGeneration, session, departing,
                       cleanupFailed, present>>
    BY <1>1, <1>3, GotoLocals DEF Commit
  <2>2. tok[t].operation # "none"
    BY <2>1 DEF BaseInv, OwnerInv, TokenlessInv, InFlightPoints, ConnectPoints
  <2>3. Owns(t) /\ Owns(t)'
    BY <1>3, <2>1, <2>2 DEF EnsureConnectionOperation, TokenCurrent, Owns
  <2>4. connection' # NoConnection => Carries(t)'
    BY <2>1, <2>3 DEF ConnInv, TaskTransport, InstalledInv
  <2>5. profile'.source = src[t] /\ profile'.generation = gen[t]
    BY <1>3 DEF Committed
  <2>6. src[t] = "manager_robot" =>
           /\ profile'.session = mgr[t] /\ GenerationCurrent(t) /\ tx = t
    BY <1>1, <1>3, <2>1
       DEF Committed, TransactionInv, CommitPoints, BaseInv, IInv, LockingInv, TxInv,
           HoldsTx
  <2>7. src[t] # "manager_robot" =>
           profile'.session = profile.session /\ profile'.active = profile.active
    <3>1. src[t] \in Sources
      BY <2>1 DEF BaseInv, OwnerInv, ConnectSourceInv, ConnectPoints
    <3>2. QED
      BY <1>3, <3>1 DEF Committed, Sources
  <2>8. ManagerStep(t)
    BY <2>1, <2>3, <2>6, <2>7 DEF ManagerStep
  <2>9. AuthorityIsCommitted' /\ SessionInv'
    BY <2>1, <2>3 DEF AuthorityIsCommitted, Owns, AuthorityInv, SystemAuthority, SessionInv
  <2>10. BindingInv' /\ TombstoneInv(t)'
    <3>1. Covered(seen[t])
      BY <1>1, <1>3 DEF BindingInv, Covered
    <3>2. CASE src[t] = "manager_robot"
      BY <2>1, <2>6, <3>1, <3>2
         DEF BindingInv, TombstoneInv, Covered, GenerationCurrent, IdentityPoints
    <3>3. CASE src[t] # "manager_robot"
      BY <1>1, <1>3, <2>1, <2>7, <3>3
         DEF BindingInv, TombstoneInv, Covered, SameBinding, IdentityPoints
    <3>4. QED
      BY <3>2, <3>3
  <2>11. CommittedInv(t)'
    BY <2>1, <2>3, <2>4, <2>5 DEF CommittedInv, Carries, Abortable
  <2>12. TransactionInv(t)'
    BY <2>1, <2>6 DEF TransactionInv, GenerationCurrent
  <2>13. QED
    BY <2>8, <2>9, <2>10, <2>11, <2>12 DEF AuthorityStep, TaskAuthority, SystemAuthority
<1>4. QED
  BY <1>2, <1>3 DEF Commit

\* A failed apply writes back a profile of the same binding or of the same session.
LEMMA ApplyAuthority ==
    ASSUME BaseInv, ConnInv, ConnInv', AuthorityInv, NEW t \in Tasks, SoleStep(t),
           ConnStep(t), Apply(t)
    PROVE  AuthorityStep(t)
<1>1. /\ pc[t] = "apply" /\ pc'[t] \in {"complete", "abortLock"} /\ lease = t
      /\ tok'[t] = tok[t] /\ src'[t] = src[t] /\ gen'[t] = gen[t] /\ mgr'[t] = mgr[t]
      /\ seen'[t] = seen[t] /\ profile' \in {profile, seen[t]}
      /\ pc'[t] = "complete" => profile' = profile
      /\ UNCHANGED <<connection, op, runtimeGeneration, session, departing,
                     cleanupFailed, present>>
  BY GotoLocals
     DEF Apply, AbortTo, BaseInv, IInv, LockingInv, LeaseInv, LeasePoints
<1>2. /\ Owns(t) /\ profile.source = src[t] /\ profile.generation = gen[t]
      /\ IF src[t] = "manager_robot" THEN Covered(seen[t]) ELSE SameBinding(seen[t])
      /\ SessionInv /\ BindingInv /\ present
      /\ src[t] = "manager_robot" => tx = t
  BY <1>1, NoTaskAssumption
     DEF AuthorityInv, TaskAuthority, CommittedInv, TombstoneInv, SystemAuthority, BaseInv,
         IInv, LockingInv, TxInv, HoldsTx, CommitPoints, OwnershipInv, PresentInv
<1>3. Owns(t)'
  BY <1>1, <1>2 DEF Owns, TokenCurrent
<1>4. connection' # NoConnection => Carries(t)'
  BY <1>1, <1>3 DEF ConnInv, TaskTransport, InstalledInv, Aborting
<1>5. ManagerStep(t)
  BY <1>1, <1>2 DEF ManagerStep, SameBinding
<1>6. AuthorityIsCommitted' /\ SessionInv'
  BY <1>1, <1>2, <1>3 DEF AuthorityIsCommitted, Owns, SessionInv
<1>7. BindingInv'
  <2>1. Covered(profile)
    BY <1>2 DEF BindingInv
  <2>2. Covered(seen[t])
    BY <1>2, <2>1 DEF SameBinding, Covered
  <2>3. QED
    BY <1>1, <2>1, <2>2 DEF BindingInv, Covered
<1>8. CommittedInv(t)'
  BY <1>1, <1>2, <1>4 DEF CommittedInv, Carries, Abortable, Aborting, Matches
<1>9. TransactionInv(t)' /\ TombstoneInv(t)'
  BY <1>1 DEF TransactionInv, TombstoneInv, CommitPoints, IdentityPoints
<1>10. QED
  BY <1>5, <1>6, <1>7, <1>8, <1>9 DEF AuthorityStep, TaskAuthority, SystemAuthority

LEMMA ConnectAuthority ==
    ASSUME BaseInv, ConnInv, ConnInv', AuthorityInv, NEW t \in Tasks, SoleStep(t),
           ConnStep(t), ConnectStep(t)
    PROVE  AuthorityStep(t)
  BY ConnectPlain, PlainAuthority, TransactionAuthority, InstallAuthority,
     CommitAuthority, ApplyAuthority

-----------------------------------------------------------------------------
(* Identity transactions. *)

\* A teardown of Manager-owned state never settles an uncommitted authority of
\* another source: what it leaves in force is not its operation's.
LEMMA OtherSourceCommitted ==
    ASSUME BaseInv, AuthorityInv, ManagerOwned, connection # NoConnection,
           connection.source # "manager_robot"
    PROVE  Matches
<1>1. op.operation # "none" /\ op.source = "manager_robot"
  BY DEF ManagerOwned, BaseInv, OwnerInv, SourceInv
<1>2. PICK u \in Tasks : Owns(u)
  BY <1>1 DEF BaseInv, IInv, InFlightHasOwner
<1>3. src[u] = "manager_robot"
  BY <1>1, <1>2 DEF BaseInv, OwnerInv, SourceInv
<1>4. QED
  BY <1>2, <1>3 DEF AuthorityInv, TaskAuthority, CommittedInv

LEMMA IdentityAdmitAuthority ==
    ASSUME BaseInv, ConnInv, AuthorityInv, NEW t \in Tasks, SoleStep(t), IdentityAdmit(t)
    PROVE  AuthorityStep(t)
<1>1. /\ pc[t] = "Idle" /\ pc'[t] = "iLease" /\ tx = NoTask
      /\ departing \subseteq departing'
      /\ session.authenticated => session.generation \in departing'
      /\ UNCHANGED <<connection, op, profile, session, present>>
  BY GotoLocals DEF IdentityAdmit, BaseInv, IInv
<1>2. ManagerStep(t)
  BY <1>1 DEF ManagerStep
<1>3. AuthorityIsCommitted' /\ SessionInv' /\ BindingInv'
  BY <1>1 DEF AuthorityInv, SystemAuthority, AuthorityIsCommitted, SessionInv,
              BindingInv, Covered
<1>4. CommittedInv(t)'
  BY <1>1, OwnCommitted DEF Abortable, Aborting
<1>5. TransactionInv(t)' /\ TombstoneInv(t)'
  BY <1>1 DEF TransactionInv, TombstoneInv, CommitPoints
<1>6. QED
  BY <1>2, <1>3, <1>4, <1>5 DEF AuthorityStep, TaskAuthority, SystemAuthority

\* Taking the lease and the lock: a runtime that is gone, or owns nothing of the
\* Manager, has no Manager authority.
LEMMA IdentityTakesAuthority ==
    ASSUME BaseInv, ConnInv, AuthorityInv, NEW t \in Tasks, SoleStep(t),
           IdentityLease(t) \/ IdentityLock(t)
    PROVE  AuthorityStep(t)
<1>1. /\ pc[t] \in {"iLease", "iLock"}
      /\ pc'[t] \in {"iLock", "iTeardown", "iPersist", "iCommit"}
      /\ pc'[t] = "iCommit" => ~present
      /\ pc'[t] = "iPersist" => ~ManagerOwned
      /\ UNCHANGED <<connection, op, profile, session, departing, cleanupFailed, present>>
  BY GotoLocals DEF IdentityLease, IdentityLock, BaseInv, IInv
<1>2. pc'[t] \in {"iPersist", "iCommit"} => connection.source # "manager_robot"
  BY <1>1 DEF ManagerOwned, ConnInv, SlotInvs, GoneInv, NoConnection
<1>3. ManagerStep(t)
  BY <1>1 DEF ManagerStep
<1>4. AuthorityIsCommitted' /\ SessionInv' /\ BindingInv'
  BY <1>1 DEF AuthorityInv, SystemAuthority, AuthorityIsCommitted, SessionInv,
              BindingInv, Covered
<1>5. CommittedInv(t)'
  BY <1>1, OwnCommitted DEF Abortable, Aborting
<1>6. TransactionInv(t)' /\ TombstoneInv(t)'
  BY <1>1, <1>2
     DEF TransactionInv, TombstoneInv, CommitPoints, IdentityPoints, AuthorityInv,
         TaskAuthority
<1>7. QED
  BY <1>3, <1>4, <1>5, <1>6 DEF AuthorityStep, TaskAuthority, SystemAuthority

LEMMA IdentityTeardownAuthority ==
    ASSUME BaseInv, ConnInv, AuthorityInv, NEW t \in Tasks, SoleStep(t),
           IdentityTeardown(t)
    PROVE  AuthorityStep(t)
<1>1. /\ pc[t] = "iTeardown" /\ pc'[t] = "iPersist"
      /\ connection' = connection \/ connection' = NoConnection
      /\ connection'.source # "manager_robot"
      /\ connection' # NoConnection => connection.source # "manager_robot"
      /\ UNCHANGED <<profile, session, departing, present>>
      /\ ManagerOwned \/ op' \in {op, DiagnosedOp(TRUE)}
  BY GotoLocals, Zenon DEF IdentityTeardown, BaseInv, IInv, NoConnection
<1>2. tx = t
  BY <1>1 DEF BaseInv, IInv, LockingInv, TxInv, HoldsTx, IdentityPoints
<1>3. ManagerStep(t)
  BY <1>1, <1>2 DEF ManagerStep
<1>4. SettledWell
  BY <1>1, OtherSourceCommitted DEF SettledWell, DiagnosedOp
<1>5. AuthorityIsCommitted'
  BY <1>1, <1>4, RestCommitted
<1>6. SessionInv' /\ BindingInv'
  BY <1>1 DEF AuthorityInv, SystemAuthority, SessionInv, BindingInv, Covered
<1>7. CommittedInv(t)'
  BY <1>1, OwnCommitted DEF Abortable, Aborting
<1>8. TransactionInv(t)' /\ TombstoneInv(t)'
  BY <1>1
     DEF TransactionInv, TombstoneInv, CommitPoints, IdentityPoints, AuthorityInv,
         TaskAuthority
<1>9. QED
  BY <1>3, <1>5, <1>6, <1>7, <1>8 DEF AuthorityStep, TaskAuthority, SystemAuthority

LEMMA IdentityPersistAuthority ==
    ASSUME BaseInv, ConnInv, AuthorityInv, NEW t \in Tasks, SoleStep(t),
           IdentityPersist(t)
    PROVE  AuthorityStep(t)
<1>1. /\ pc[t] = "iPersist" /\ pc'[t] = "iCommit"
      /\ profile' \in {profile, [profile EXCEPT !.active = FALSE]}
      /\ session.authenticated /\ profile.session = session.generation =>
            profile' = [profile EXCEPT !.active = FALSE] \/ cleanupFailed' = TRUE
      /\ UNCHANGED <<connection, op, session, departing, present>>
  BY GotoLocals DEF IdentityPersist, BaseInv, IInv
<1>2. /\ profile'.source = profile.source /\ profile'.generation = profile.generation
      /\ profile'.session = profile.session /\ profile'.active => profile.active
      /\ profile' = [profile EXCEPT !.active = FALSE] => ~profile'.active
  BY <1>1 DEF BaseInv, IInv, TypeOK, Profile
<1>3. tx = t /\ lease = t
  BY <1>1 DEF BaseInv, IInv, LockingInv, TxInv, HoldsTx, IdentityPoints, LeaseInv,
              LeasePoints
<1>4. ManagerStep(t)
  BY <1>1, <1>2, <1>3 DEF ManagerStep
<1>5. AuthorityIsCommitted'
  BY <1>1, <1>2, RestCommitted DEF SettledWell
<1>6. SessionInv' /\ BindingInv'
  BY <1>1, <1>2 DEF AuthorityInv, SystemAuthority, SessionInv, BindingInv, Covered
<1>7. CommittedInv(t)'
  BY <1>1, <1>2, OwnCommitted DEF Abortable, Aborting
<1>8. TransactionInv(t)'
  BY <1>1
     DEF TransactionInv, CommitPoints, AuthorityInv, TaskAuthority
<1>9. TombstoneInv(t)'
  BY <1>1, <1>2 DEF TombstoneInv, IdentityPoints, AuthorityInv, TaskAuthority
<1>10. QED
  BY <1>4, <1>5, <1>6, <1>7, <1>8, <1>9 DEF AuthorityStep, TaskAuthority, SystemAuthority

\* The tombstone goes only if no active binding of the departing context is left.
LEMMA IdentityCommitAuthority ==
    ASSUME BaseInv, ConnInv, AuthorityInv, NEW t \in Tasks, SoleStep(t),
           IdentityCommit(t)
    PROVE  AuthorityStep(t)
<1>1. /\ pc[t] = "iCommit" /\ pc'[t] = "Idle"
      /\ departing' = departing \ {g \in {session.generation} :
                                     session.authenticated /\ ~cleanupFailed}
      /\ UNCHANGED <<connection, op, profile, present>>
  BY ReturnLocals DEF IdentityCommit, BaseInv, IInv
<1>2. tx = t
  BY <1>1 DEF BaseInv, IInv, LockingInv, TxInv, HoldsTx, IdentityPoints
<1>3. TransactionInv(t) /\ TombstoneInv(t) /\ BindingInv
  BY DEF AuthorityInv, TaskAuthority, SystemAuthority
<1>4. ManagerStep(t)
  BY <1>1, <1>2 DEF ManagerStep
<1>5. AuthorityIsCommitted'
  BY <1>1, RestCommitted DEF SettledWell
<1>6. SessionInv'
  BY <1>1, <1>3 DEF SessionInv, TransactionInv
<1>7. BindingInv'
  <2> SUFFICES ASSUME present, profile.active PROVE profile.session \in departing'
    BY <1>1 DEF BindingInv, Covered
  <2>1. profile.session \in departing
    BY <1>1, <1>3 DEF BindingInv, Covered, TombstoneInv, IdentityPoints
  <2>2. ~(profile.session = session.generation /\ session.authenticated /\ ~cleanupFailed)
    BY <1>1, <1>3 DEF TombstoneInv
  <2>3. QED
    BY <1>1, <2>1, <2>2
<1>8. CommittedInv(t)'
  BY <1>1, OwnCommitted DEF Abortable, Aborting
<1>9. TransactionInv(t)' /\ TombstoneInv(t)'
  BY <1>1 DEF TransactionInv, TombstoneInv, CommitPoints, IdentityPoints
<1>10. QED
  BY <1>4, <1>5, <1>6, <1>7, <1>8, <1>9 DEF AuthorityStep, TaskAuthority, SystemAuthority

LEMMA IdentityAuthority ==
    ASSUME BaseInv, ConnInv, AuthorityInv, NEW t \in Tasks, SoleStep(t), IdentityStep(t)
    PROVE  AuthorityStep(t)
  BY IdentityTakesAuthority, IdentityTeardownAuthority, IdentityPersistAuthority,
     IdentityCommitAuthority DEF IdentityStep

-----------------------------------------------------------------------------
(* All together. *)

AInv == BaseInv /\ ConnInv /\ AuthorityInv

LEMMA AuthorityAny ==
    ASSUME AInv, BaseInv', ConnInv', NEW t \in Tasks, Admission(t) \/ Step(t)
    PROVE  SoleStep(t) /\ ConnStep(t) /\ AuthorityStep(t)
<1>1. SoleStep(t) /\ ConnStep(t)
  BY SoleAny, AdmissionConn, ConnectConn, DisconnectConn, LifecycleConn, IdentityConn
     DEF AInv, Step
<1>2. ASSUME Admission(t) PROVE AuthorityStep(t)
  BY <1>1, <1>2, AdmissionPlain, PlainAuthority, IdentityAdmitAuthority DEF AInv
<1>3. ASSUME ConnectStep(t) PROVE AuthorityStep(t)
  BY <1>1, <1>3, ConnectAuthority DEF AInv
<1>4. ASSUME DisconnectStep(t) \/ LifecycleStep(t) PROVE AuthorityStep(t)
  BY <1>1, <1>4, DisconnectPlain, LifecyclePlain, PlainAuthority DEF AInv
<1>5. ASSUME IdentityStep(t) PROVE AuthorityStep(t)
  BY <1>1, <1>5, IdentityAuthority DEF AInv
<1>6. QED
  BY <1>1, <1>2, <1>3, <1>4, <1>5 DEF Step

LEMMA AuthorityNext == AInv /\ [Next]_vars => AInv'
<1> SUFFICES ASSUME AInv, [Next]_vars PROVE AuthorityInv' /\ BaseInv' /\ ConnInv'
  BY DEF AInv
<1>1. BaseInv' /\ ConnInv'
  BY OwnerNext, ConnNext DEF AInv
<1>2. ASSUME NEW t \in Tasks, Admission(t) \/ Step(t) PROVE AuthorityInv'
  <2>1. SoleStep(t) /\ ConnStep(t) /\ AuthorityStep(t)
    BY <1>1, <1>2, AuthorityAny
  <2>3. \A u \in Tasks \ {t} : TaskAuthority(u)'
    BY <1>1, <2>1, OthersAuthority DEF AInv, AuthorityStep
  <2>4. QED
    BY <2>1, <2>3 DEF AuthorityStep, AuthorityInv
<1>3. ASSUME TransportLost \/ TransportSettled \/ UNCHANGED vars
      PROVE  AuthorityInv'
  <2>1. UNCHANGED <<connection, op, runtimeGeneration, profile, session, departing,
                    cleanupFailed, present, local>>
    BY <1>3 DEF TransportLost, TransportSettled, vars, local
  <2>2. \A t \in Tasks : Owns(t)' <=> Owns(t)
    BY <2>1 DEF Owns, TokenCurrent, local
  <2>3. SystemAuthority'
    BY <2>1 DEF AInv, AuthorityInv, SystemAuthority, AuthorityIsCommitted, SessionInv,
                BindingInv, Covered
  <2>4. \A t \in Tasks : TaskAuthority(t)'
    BY <2>1, <2>2
       DEF AInv, AuthorityInv, TaskAuthority, CommittedInv, TransactionInv, TombstoneInv,
           Matches, GenerationCurrent, Covered, SameBinding, local
  <2>5. QED
    BY <2>3, <2>4 DEF AuthorityInv
<1>4. AuthorityInv'
  BY <1>2, <1>3 DEF Next
<1>5. QED
  BY <1>1, <1>4

LEMMA AuthorityInit == Init => AInv
<1> SUFFICES ASSUME Init PROVE AuthorityInv
  BY ConnInit DEF AInv
<1>1. SystemAuthority
  BY DEF Init, SystemAuthority, AuthorityIsCommitted, SessionInv, BindingInv, Covered,
         NoConnection, NoProfile
<1>2. \A t \in Tasks : TaskAuthority(t)
  BY DEF Init, TaskAuthority, CommittedInv, TransactionInv, TombstoneInv, NoConnection,
         CommitPoints, IdentityPoints
<1>3. QED
  BY <1>1, <1>2 DEF AuthorityInv

\* An authority at rest is the one whose target is persisted: no connect that was
\* refused, superseded or rolled back half way leaves its authority in force.
THEOREM RestIsCommitted == Spec => []AuthorityIsCommitted
<1>1. AInv => AuthorityIsCommitted
  BY DEF AInv, AuthorityInv, SystemAuthority
<1>2. QED
  BY AuthorityInit, AuthorityNext, <1>1, PTL DEF Spec

\* Outside an identity transaction, Manager authority is of the session signed in now.
THEOREM ManagerAuthorityIsCurrent == Spec => []NoDepartedManagerAuthority
<1>1. AInv => NoDepartedManagerAuthority
  BY DEF AInv, AuthorityInv, SystemAuthority, SessionInv, NoDepartedManagerAuthority
<1>2. QED
  BY AuthorityInit, AuthorityNext, <1>1, PTL DEF Spec

\* An active Robot binding is of the session signed in now, or its context keeps its
\* tombstone: a cleanup that failed half way never forgets it.
THEOREM BindingIsTombstoned == Spec => []DepartedBindingIsTombstoned
<1>1. AInv => DepartedBindingIsTombstoned
  BY DEF AInv, AuthorityInv, SystemAuthority, BindingInv, Covered,
         DepartedBindingIsTombstoned
<1>2. QED
  BY AuthorityInit, AuthorityNext, <1>1, PTL DEF Spec

-----------------------------------------------------------------------------
(* Refinement of ConnectionAuthority.  The operation in flight maps to       *)
(* itself.  The connection in force is the one of connection.rs, except the  *)
(* one the owner of the connect in flight has installed itself; the argument *)
(* is that a fresh generation tells the two apart, and that nobody but that  *)
(* owner changes the target.                                                 *)

\* Where a task has no generation of its own yet, and where it has.
Ungenerated ==
    {"Idle", "begin", "prepare", "prepareLock", "prepareTeardown", "admit", "resolve",
     "reserve", "establish", "dBegin"}
Generated == {"transaction"} \cup CommitPoints

GenerationOf(t) ==
    /\ gen[t] <= nextGeneration
    /\ pc[t] \in Ungenerated => gen[t] = 0
    /\ pc[t] \in Generated => gen[t] # 0
    /\ pc[t] \in ConnectPoints \ {"begin"} => tok[t].operation = "Connect"
GenerationInv ==
    /\ connection.generation <= nextGeneration
    /\ connection # NoConnection => connection.generation # 0
    /\ \A t \in Tasks : GenerationOf(t)
PInv == AInv /\ GenerationInv

\* A step keeps the task's generation, drops it on return or draws a fresh one; only
\* a commit or its rollback writes a target, and a begin leaves the connection alone.
GenStep(t) ==
    /\ \/ gen'[t] = gen[t] /\ nextGeneration' = nextGeneration
       \/ pc'[t] = "Idle" /\ gen'[t] = 0 /\ nextGeneration' = nextGeneration
       \/ /\ pc[t] = "establish" /\ nextGeneration' = nextGeneration + 1
          /\ gen'[t] = nextGeneration + 1
    /\ GenerationOf(t)'
    /\ \/ profile'.generation = profile.generation
       \/ pc[t] \in {"commit", "apply"} /\ UNCHANGED authority
    /\ BeginsOp(t) => UNCHANGED connection

LEMMA ReturnGen ==
    ASSUME TypeOK, NEW t \in Tasks, Return(t)
    PROVE  gen'[t] = 0
  BY DEF TypeOK, LocalTypeOK, Return

LEMMA FreshGen ==
    ASSUME TypeOK, NEW t \in Tasks, NEW point, FreshGeneration(t, point)
    PROVE  gen'[t] = nextGeneration + 1 /\ nextGeneration' = nextGeneration + 1
  BY DEF TypeOK, LocalTypeOK, FreshGeneration

LEMMA ConnectGen ==
    ASSUME TypeOK, NEW t \in Tasks, GenerationOf(t), ConnectStep(t)
    PROVE  GenStep(t)
<1> USE GotoLocals, ReturnLocals, ReturnGen, BeginLocals
    DEF GenStep, GenerationOf, Ungenerated, Generated, CommitPoints, ConnectPoints,
        DisconnectPoints, LifecyclePoints, IdentityPoints, BeginsOp
<1>0. nextGeneration \in Nat /\ gen[t] \in Nat
  BY DEF TypeOK, LocalTypeOK
<1>1. CASE ConnectBegin(t)
  BY <1>0, <1>1 DEF ConnectBegin, Operations
<1>2. CASE Prepare(t)
  BY <1>0, <1>2 DEF Prepare
<1>3. CASE PrepareLock(t)
  BY <1>0, <1>3 DEF PrepareLock, ClearForOperation
<1>4. CASE PrepareTeardown(t)
  BY <1>0, <1>4 DEF PrepareTeardown, ClearSmcpConnection
<1>5. CASE Admit(t)
  BY <1>0, <1>5 DEF Admit
<1>6. CASE Resolve(t)
  BY <1>0, <1>6 DEF Resolve, TypeOK, LocalTypeOK
<1>7. CASE Reserve(t)
  BY <1>0, <1>7 DEF Reserve
<1>8. CASE EstablishManual(t)
  BY <1>0, <1>8, FreshLocals, FreshGen DEF EstablishManual
<1>9. CASE EstablishManager(t)
  BY <1>0, <1>9, FreshLocals, FreshGen DEF EstablishManager
<1>10. CASE Transaction(t)
  BY <1>0, <1>10 DEF Transaction
<1>11. CASE ConnectLock(t)
  BY <1>0, <1>11 DEF ConnectLock, AbortTo
<1>12. CASE ConnectSocket(t)
  BY <1>0, <1>12 DEF ConnectSocket, AbortTo
<1>13. CASE Install(t)
  BY <1>0, <1>13 DEF Install, AbortTo
<1>14. CASE Commit(t)
  BY <1>0, <1>14 DEF Commit, AbortTo
<1>15. CASE Apply(t)
  BY <1>0, <1>15 DEF Apply, AbortTo
<1>16. CASE AbortLock(t)
  BY <1>0, <1>16 DEF AbortLock, ClearForOperation, AfterAbort
<1>17. CASE AbortTeardown(t)
  BY <1>0, <1>17 DEF AbortTeardown, ClearSmcpConnection, AfterAbort
<1>18. CASE FinishLock(t)
  BY <1>0, <1>18 DEF FinishLock, ClearForOperation
<1>19. CASE FinishTeardown(t)
  BY <1>0, <1>19 DEF FinishTeardown, ClearSmcpConnection
<1>20. CASE Fail(t)
  BY <1>0, <1>20 DEF Fail
<1>21. CASE Complete(t)
  BY <1>0, <1>21 DEF Complete
<1>22. QED
  BY <1>1, <1>2, <1>3, <1>4, <1>5, <1>6, <1>7, <1>8, <1>9, <1>10, <1>11, <1>12,
     <1>13, <1>14, <1>15, <1>16, <1>17, <1>18, <1>19, <1>20, <1>21 DEF ConnectStep

LEMMA DisconnectGen ==
    ASSUME TypeOK, NEW t \in Tasks, GenerationOf(t), DisconnectStep(t)
    PROVE  GenStep(t)
<1> USE GotoLocals, ReturnLocals, ReturnGen, BeginLocals
    DEF GenStep, GenerationOf, Ungenerated, Generated, CommitPoints, ConnectPoints,
        DisconnectPoints, LifecyclePoints, IdentityPoints, BeginsOp
<1>0. nextGeneration \in Nat /\ gen[t] \in Nat
  BY DEF TypeOK, LocalTypeOK
<1>1. CASE DisconnectBegin(t)
  BY <1>0, <1>1 DEF DisconnectBegin, Operations
<1>2. CASE DisconnectEnsure(t)
  BY <1>0, <1>2 DEF DisconnectEnsure
<1>3. CASE DisconnectTransport(t)
  BY <1>0, <1>3 DEF DisconnectTransport
<1>4. CASE DisconnectLock(t)
  BY <1>0, <1>4 DEF DisconnectLock
<1>5. CASE DisconnectTeardown(t)
  BY <1>0, <1>5 DEF DisconnectTeardown, ClearSmcpConnection
<1>6. CASE DisconnectFailed(t)
  BY <1>0, <1>6 DEF DisconnectFailed
<1>7. CASE DisconnectSettle(t)
  BY <1>0, <1>7 DEF DisconnectSettle
<1>8. QED
  BY <1>1, <1>2, <1>3, <1>4, <1>5, <1>6, <1>7 DEF DisconnectStep

LEMMA LifecycleGen ==
    ASSUME TypeOK, NEW t \in Tasks, GenerationOf(t), LifecycleStep(t)
    PROVE  GenStep(t)
<1> USE GotoLocals, ReturnLocals, ReturnGen, BeginLocals
    DEF GenStep, GenerationOf, Ungenerated, Generated, CommitPoints, ConnectPoints,
        DisconnectPoints, LifecyclePoints, IdentityPoints, BeginsOp
<1>0. nextGeneration \in Nat /\ gen[t] \in Nat
  BY DEF TypeOK, LocalTypeOK
<1>1. CASE ReplaceLock(t)
  BY <1>0, <1>1 DEF ReplaceLock
<1>2. CASE ReplaceClear(t)
  BY <1>0, <1>2 DEF ReplaceClear
<1>3. CASE ReplaceCancel(t)
  BY <1>0, <1>3 DEF ReplaceCancel
<1>4. CASE ReplaceInstall(t)
  BY <1>0, <1>4 DEF ReplaceInstall
<1>5. CASE StopLock(t)
  BY <1>0, <1>5 DEF StopLock
<1>6. CASE ShutdownTeardown(t)
  BY <1>0, <1>6 DEF ShutdownTeardown
<1>7. CASE ShutdownSdk(t)
  BY <1>0, <1>7 DEF ShutdownSdk
<1>8. CASE ShutdownTake(t)
  BY <1>0, <1>8 DEF ShutdownTake
<1>9. CASE ShutdownComplete(t)
  BY <1>0, <1>9 DEF ShutdownComplete
<1>10. CASE DeleteLock(t)
  BY <1>0, <1>10 DEF DeleteLock
<1>11. CASE DeleteDecide(t)
  BY <1>0, <1>11 DEF DeleteDecide
<1>12. QED
  BY <1>1, <1>2, <1>3, <1>4, <1>5, <1>6, <1>7, <1>8, <1>9, <1>10, <1>11 DEF LifecycleStep

LEMMA IdentityGen ==
    ASSUME TypeOK, NEW t \in Tasks, GenerationOf(t), IdentityStep(t)
    PROVE  GenStep(t)
<1> USE GotoLocals, ReturnLocals, ReturnGen, BeginLocals
    DEF GenStep, GenerationOf, Ungenerated, Generated, CommitPoints, ConnectPoints,
        DisconnectPoints, LifecyclePoints, IdentityPoints, BeginsOp
<1>0. nextGeneration \in Nat /\ gen[t] \in Nat
  BY DEF TypeOK, LocalTypeOK
<1>1. CASE IdentityLease(t)
  BY <1>0, <1>1 DEF IdentityLease
<1>2. CASE IdentityLock(t)
  BY <1>0, <1>2 DEF IdentityLock
<1>3. CASE IdentityTeardown(t)
  BY <1>0, <1>3 DEF IdentityTeardown
<1>4. CASE IdentityPersist(t)
  BY <1>0, <1>4 DEF IdentityPersist, TypeOK, Profile
<1>5. CASE IdentityCommit(t)
  BY <1>0, <1>5 DEF IdentityCommit
<1>6. QED
  BY <1>1, <1>2, <1>3, <1>4, <1>5 DEF IdentityStep

LEMMA AdmissionGen ==
    ASSUME TypeOK, NEW t \in Tasks, GenerationOf(t), Admission(t)
    PROVE  GenStep(t)
<1> USE GotoLocals, ReturnLocals, ReturnGen, BeginLocals
    DEF GenStep, GenerationOf, Ungenerated, Generated, CommitPoints, ConnectPoints,
        DisconnectPoints, LifecyclePoints, IdentityPoints, BeginsOp
<1>0. nextGeneration \in Nat /\ gen[t] \in Nat
  BY DEF TypeOK, LocalTypeOK
<1>1. CASE DisconnectAdmit(t)
  BY <1>0, <1>1 DEF DisconnectAdmit
<1>2. CASE ReplaceAdmit(t)
  BY <1>0, <1>2 DEF ReplaceAdmit
<1>3. CASE StopAdmit(t)
  BY <1>0, <1>3 DEF StopAdmit
<1>4. CASE DeleteAdmit(t)
  BY <1>0, <1>4 DEF DeleteAdmit
<1>5. CASE IdentityAdmit(t)
  BY <1>0, <1>5 DEF IdentityAdmit
<1>6. ASSUME NEW source \in Sources, ConnectAdmit(t, source)
      PROVE  GenStep(t)
  BY <1>0, <1>6 DEF ConnectAdmit, TypeOK, LocalTypeOK
<1>7. QED
  BY <1>1, <1>2, <1>3, <1>4, <1>5, <1>6 DEF Admission

LEMMA GenerationKept ==
    ASSUME TypeOK, GenerationInv, NEW t \in Tasks, SoleStep(t), ConnStep(t), GenStep(t),
           Installs(t) => connection' = NoConnection \/ connection'.generation = gen'[t]
    PROVE  GenerationInv'
<1>1. connection.generation \in Nat /\ nextGeneration \in Nat /\ \A u \in Tasks : gen[u] \in Nat
  BY DEF TypeOK, LocalTypeOK, Connection
<1>2. nextGeneration' \in Nat /\ nextGeneration' >= nextGeneration
  BY <1>1 DEF GenStep
<1>3. \A u \in Tasks \ {t} : GenerationOf(u)'
  BY <1>1, <1>2 DEF GenerationInv, GenerationOf, SoleStep, OthersStay
<1>4. connection'.generation <= nextGeneration'
  BY <1>1, <1>2 DEF GenerationInv, GenerationOf, GenStep, ConnStep, NoConnection
<1>5. connection' # NoConnection => connection'.generation # 0
  BY <1>1 DEF GenerationInv, GenerationOf, GenStep, ConnStep, Installs, Generated,
              CommitPoints
<1>6. QED
  BY <1>3, <1>4, <1>5 DEF GenerationInv, GenStep

\* The owner of the connect in flight is one task, and what it finds past its install
\* is its own connection.
LEMMA PendingOwner ==
    ASSUME PInv, NEW t \in Tasks, Owns(t)
    PROVE  /\ Pending <=> tok[t].operation = "Connect" /\ gen[t] = connection.generation
           /\ pc[t] \in {"commit", "apply"} => InForce = 0 /\ op.operation = "Connect"
<1>1. \A u \in Tasks : Owns(u) => u = t
  BY DEF PInv, AInv, BaseInv, OwnerInv, SoleInv
<1>2. Pending <=> tok[t].operation = "Connect" /\ gen[t] = connection.generation
  BY <1>1 DEF Pending
<1>3. ASSUME pc[t] \in {"commit", "apply"} PROVE InForce = 0 /\ op.operation = "Connect"
  <2>1. tok[t].operation = "Connect"
    BY <1>3 DEF PInv, GenerationInv, GenerationOf, ConnectPoints
  <2>2. connection = NoConnection \/ connection.generation = gen[t]
    BY <1>3 DEF PInv, AInv, ConnInv, TaskTransport, InstalledInv, Carries
  <2>3. QED
    BY <1>2, <2>1, <2>2 DEF InForce, NoConnection, Owns, TokenCurrent
<1>4. QED
  BY <1>2, <1>3

LEMMA RestInForce ==
    ASSUME op.operation = "none"
    PROVE  ~Pending /\ InForce = connection.generation
  BY DEF Pending, InForce, Owns

LEMMA PromiseTypes ==
    ASSUME TypeOK
    PROVE  InForce \in Nat /\ profile.generation \in Nat /\ connection.generation \in Nat
  BY DEF TypeOK, Connection, Profile, InForce

LEMMA StepPromised ==
    ASSUME PInv, PInv', NEW t \in Tasks, SoleStep(t), ConnStep(t), ManagerStep(t), GenStep(t)
    PROVE  Promise!Next \/ UNCHANGED Promise!vars
<1> USE DEF Promise!Next, Promise!vars
<1>0. /\ TypeOK /\ TypeOK' /\ AuthorityIsCommitted'
      /\ InForce \in Nat /\ InForce' \in Nat /\ profile'.generation \in Nat
  BY DEF PInv, AInv, BaseInv, IInv, AuthorityInv, SystemAuthority, TypeOK, Connection,
         Profile, InForce
<1>1. CASE BeginsOp(t)
  <2>1. op.operation = "none" /\ op'.operation \in {"Connect", "Disconnect"}
    BY <1>0, <1>1 DEF BeginsOp, Owns, TypeOK, Operation, Operations
  <2>2. connection' = connection /\ profile'.generation = profile.generation
    BY <1>1 DEF GenStep, BeginsOp
  <2>3. gen'[t] = 0
    BY <1>1 DEF GenStep, BeginsOp, PInv, GenerationInv, GenerationOf, Ungenerated
  <2>4. Pending' => connection.generation = 0
    <3>1. \A u \in Tasks : Owns(u)' => u = t
      BY <1>1 DEF PInv, AInv, BaseInv, OwnerInv, SoleInv, BeginsOp
    <3>2. QED
      BY <2>2, <2>3, <3>1 DEF Pending
  <2>5. InForce' = InForce
    BY <2>1, <2>2, <2>4, RestInForce DEF InForce
  <2>6. Promise!Begin(op'.operation)
    BY <2>1, <2>2, <2>5 DEF Promise!Begin
  <2>7. QED
    BY <2>1, <2>6 DEF Promise!Operations
<1>2. CASE EndsOp(t)
  <2>1. op'.operation = "none" /\ InForce' = connection'.generation
    BY <1>2, RestInForce DEF EndsOp, InForce, Pending, Owns
  <2>2. profile'.generation = profile.generation
    BY <2>1 DEF GenStep, ManagerStep, Owns
  <2>3. ~Installs(t)
    BY <2>1 DEF Installs, Owns
  <2>4. CASE connection' = NoConnection
    <3>1. InForce' = 0
      BY <2>1, <2>4 DEF NoConnection
    <3>2. QED
      BY <2>1, <2>2, <3>1 DEF Promise!Settle, Promise!Revoke
  <2>5. CASE connection' = connection /\ connection # NoConnection
    <3>1. CASE Pending
      <4>1. op.operation = "Connect" /\ InForce = 0
        BY <3>1 DEF Pending, Owns, TokenCurrent, InForce
      <4>2. profile.generation = connection.generation /\ connection.generation # 0
        BY <1>0, <2>1, <2>2, <2>5 DEF AuthorityIsCommitted, PInv, GenerationInv
      <4>3. QED
        BY <2>1, <2>2, <2>5, <4>1, <4>2 DEF Promise!Commit
    <3>2. CASE ~Pending
      BY <2>1, <2>2, <2>5, <3>2 DEF Promise!Settle, InForce
    <3>3. QED
      BY <3>1, <3>2
  <2>6. QED
    BY <2>3, <2>4, <2>5 DEF ConnStep
<1>3. CASE KeepsOp /\ TokenStep(t)
  <2>1. op'.operation = op.operation
    BY <1>3 DEF KeepsOp
  <2>2. CASE op.operation = "none"
    <3>1. profile'.generation = profile.generation /\ ~Installs(t)
      BY <2>2 DEF GenStep, ManagerStep, Installs, Owns
    <3>2. InForce = connection.generation /\ InForce' = connection'.generation
      BY <2>1, <2>2 DEF InForce, Pending, Owns
    <3>3. QED
      BY <2>1, <3>1, <3>2 DEF ConnStep, NoConnection, Promise!Revoke
  <2>3. CASE op.operation # "none"
    <3>1. PICK u \in Tasks : Owns(u)
      BY <2>3 DEF PInv, AInv, BaseInv, IInv, InFlightHasOwner
    <3>2. PICK w \in Tasks : Owns(w)'
      BY <2>1, <2>3 DEF PInv, AInv, BaseInv, IInv, InFlightHasOwner
    <3>3. w = u
      BY <1>0, <3>1, <3>2, OwnsEffect, <2>3
         DEF PInv, AInv, BaseInv, OwnerInv, SoleInv, BeginsOp
    <3>4. tok'[u] = tok[u] /\ (u = t => pc'[u] \in InFlightPoints)
      BY <1>3, <3>2, <3>3 DEF SoleStep, OthersStay, TokenStep, NoToken, Owns, TokenCurrent
    <3>5. \/ gen'[u] = gen[u]
          \/ gen[u] = 0 /\ gen'[u] = nextGeneration + 1 /\ u = t /\ pc[t] = "establish"
      BY <3>4
         DEF SoleStep, OthersStay, GenStep, InFlightPoints, ConnectPoints, DisconnectPoints,
             PInv, GenerationInv, GenerationOf, Ungenerated
    <3>6. Pending <=> tok[u].operation = "Connect" /\ gen[u] = connection.generation
      BY <3>1, PendingOwner
    <3>7. Pending' <=> tok[u].operation = "Connect" /\ gen'[u] = connection'.generation
      <4>1. \A v \in Tasks : Owns(v)' => v = u
        BY <3>2, <3>3 DEF PInv, AInv, BaseInv, OwnerInv, SoleInv
      <4>2. QED
        BY <3>2, <3>3, <3>4, <4>1 DEF Pending
    <3>8. CASE Installs(t)
      <4>1. connection = NoConnection
        BY <3>8 DEF Installs, PInv, AInv, ConnInv, TaskTransport, OpeningInv, Opening
      <4>2. InForce = 0
        BY <4>1 DEF InForce, NoConnection
      <4>3. tok'[t].operation = "Connect"
        BY <3>8 DEF Installs, GenStep, GenerationOf, ConnectPoints
      <4>4. connection' = NoConnection \/ connection'.generation = gen'[t]
        BY <3>8 DEF Installs, PInv, AInv, ConnInv, TaskTransport, InstalledInv, Carries
      <4>5. InForce' = 0
        BY <3>8, <4>3, <4>4 DEF Installs, InForce, Pending, NoConnection
      <4>6. profile'.generation = profile.generation
        BY <3>8 DEF GenStep, Installs
      <4>7. QED
        BY <2>1, <4>2, <4>5, <4>6
    <3>9. CASE profile'.generation # profile.generation
      <4>1. pc[t] \in {"commit", "apply"} /\ connection' = connection /\ Owns(t) /\ u = t
        BY <3>1, <3>9
           DEF GenStep, ManagerStep, authority, PInv, AInv, BaseInv, OwnerInv, SoleInv
      <4>2. InForce = 0 /\ op.operation = "Connect"
        BY <4>1, PendingOwner
      <4>3. InForce' = 0
        BY <3>5, <3>6, <3>7, <4>1, <4>2 DEF InForce
      <4>4. QED
        BY <1>0, <2>1, <4>2, <4>3 DEF Promise!Persist
    <3>10. CASE connection' = connection /\ profile'.generation = profile.generation
      <4>1. nextGeneration + 1 # connection.generation /\ connection.generation \in Nat
        BY <1>0, PromiseTypes DEF PInv, GenerationInv, TypeOK
      <4>2. InForce' = InForce
        BY <3>5, <3>6, <3>7, <3>10, <4>1 DEF InForce
      <4>3. QED
        BY <2>1, <3>10, <4>2
    <3>11. CASE connection' = NoConnection /\ profile'.generation = profile.generation
      <4>1. InForce' = 0
        BY <3>11 DEF InForce, NoConnection
      <4>2. QED
        BY <2>1, <3>11, <4>1 DEF Promise!Revoke
    <3>12. QED
      BY <3>8, <3>9, <3>10, <3>11 DEF ConnStep
  <2>4. QED
    BY <2>2, <2>3
<1>4. QED
  BY <1>1, <1>2, <1>3 DEF SoleStep

LEMMA GenerationAny ==
    ASSUME PInv, AInv', NEW t \in Tasks, Admission(t) \/ Step(t)
    PROVE  SoleStep(t) /\ ConnStep(t) /\ ManagerStep(t) /\ GenStep(t) /\ GenerationInv'
<1>1. SoleStep(t) /\ ConnStep(t) /\ ManagerStep(t)
  BY AuthorityAny DEF PInv, AInv, AuthorityStep
<1>2. GenStep(t)
  BY AdmissionGen, ConnectGen, DisconnectGen, LifecycleGen, IdentityGen
     DEF PInv, AInv, BaseInv, IInv, GenerationInv, Step
<1>3. Installs(t) => connection' = NoConnection \/ connection'.generation = gen'[t]
  BY DEF Installs, AInv, ConnInv, TaskTransport, InstalledInv, Carries
<1>4. GenerationInv'
  BY <1>1, <1>2, <1>3, GenerationKept DEF PInv, AInv, BaseInv, IInv
<1>5. QED
  BY <1>1, <1>2, <1>4

LEMMA PromiseNext ==
    PInv /\ [Next]_vars => PInv' /\ (Promise!Next \/ UNCHANGED Promise!vars)
<1> SUFFICES ASSUME PInv, [Next]_vars
             PROVE  GenerationInv' /\ (Promise!Next \/ UNCHANGED Promise!vars)
  BY AuthorityNext DEF PInv
<1>1. AInv'
  BY AuthorityNext DEF PInv
<1>2. ASSUME NEW t \in Tasks, Admission(t) \/ Step(t)
      PROVE  GenerationInv' /\ (Promise!Next \/ UNCHANGED Promise!vars)
  <2>1. SoleStep(t) /\ ConnStep(t) /\ ManagerStep(t) /\ GenStep(t) /\ GenerationInv'
    BY <1>1, <1>2, GenerationAny
  <2>2. QED
    BY <1>1, <2>1, StepPromised DEF PInv
<1>3. ASSUME TransportLost \/ TransportSettled \/ UNCHANGED vars
      PROVE  GenerationInv' /\ (Promise!Next \/ UNCHANGED Promise!vars)
  <2>1. UNCHANGED <<connection, op, runtimeGeneration, profile, nextGeneration, local>>
    BY <1>3 DEF TransportLost, TransportSettled, vars, local
  <2>2. GenerationInv'
    BY <2>1 DEF PInv, GenerationInv, GenerationOf, local
  <2>3. Pending' <=> Pending
    BY <2>1 DEF Pending, Owns, TokenCurrent, local
  <2>4. UNCHANGED Promise!vars
    BY <2>1, <2>3 DEF Promise!vars, InForce
  <2>5. QED
    BY <2>2, <2>4
<1>4. QED
  BY <1>2, <1>3 DEF Next

LEMMA PromiseInit == Init => PInv /\ Promise!Init
<1> SUFFICES ASSUME Init PROVE GenerationInv /\ Promise!Init
  BY AuthorityInit DEF PInv
<1>1. GenerationInv
  BY DEF Init, GenerationInv, GenerationOf, Ungenerated, Generated, CommitPoints,
         ConnectPoints, NoConnection
<1>2. Promise!Init
  BY DEF Init, Promise!Init, InForce, NoConnection, NoProfile
<1>3. QED
  BY <1>1, <1>2

\* What the connection promises to its users is kept by the code that implements it:
\* one command in flight, a target persisted only by a connect while nothing is in
\* force, and nothing in force but what was persisted.
THEOREM ConnectionPromised == Spec => PromiseKept
<1>1. PInv /\ [Next]_vars => [Promise!Next]_(Promise!vars)
  BY PromiseNext
<1>2. QED
  BY PromiseInit, PromiseNext, <1>1, PTL DEF Spec, PromiseKept, Promise!Spec
=============================================================================
