-------------------------- MODULE RuntimeRetirement --------------------------
(***************************************************************************)
(* Membership of one Computer in the registry, and the retirement of its   *)
(* runtime (services/computer/registry.rs, services/computer/runtime.rs).  *)
(*                                                                         *)
(* A runtime incarnation is shared by every clone of its handle.  Callers  *)
(* take a clone from the registry and use it later: as an activity, which  *)
(* is counted, as a lease, which is counted and then waits for the         *)
(* lifecycle lock, or as a locked operation, which only takes the lock.    *)
(* Mutators (removal, replacement by upsert_runtime, update) serialize on  *)
(* a coordinator found in a map of weak references.  A removal, or an      *)
(* upsert over an existing runtime, closes admission, drains the counted   *)
(* callers, takes the lifecycle lock and tears the SDK down.               *)
(*                                                                         *)
(* The atomics are sequentially consistent and tasks run on several        *)
(* threads, so the steps of begin_activity, of a guard's drop and of the   *)
(* drain interleave one by one.  tokio::sync::Notify and Mutex are         *)
(* external.                                                               *)
(***************************************************************************)
EXTENDS Naturals, FiniteSets

CONSTANTS Tasks,            \* callers and mutators running concurrently
          NoTask,           \* a lock that nobody holds
          MaxIncarnations,  \* bound: runtimes built
          MaxCoordinators   \* addresses a coordinator can have

ASSUME TasksAssumption == IsFiniteSet(Tasks)
ASSUME NoTaskAssumption == NoTask \notin Tasks
ASSUME BoundsAssumption == /\ MaxIncarnations \in Nat \ {0}
                           /\ MaxCoordinators \in Nat \ {0}

Incarnations == 1..MaxIncarnations
Coordinators == 1..MaxCoordinators

VARIABLES
    entry,         \* runtimes[id]: the incarnation listed, or 0
    incarnations,  \* runtime incarnations built so far
    retired,       \* per incarnation: admission is closed
    torn,          \* per incarnation: retirement has torn the SDK down
    active,        \* per incarnation: active_operations
    permit,        \* per incarnation: activity_changed holds a permit
    lock,          \* per incarnation: holder of the lifecycle lock
    mapped,        \* runtime_mutations[id]: the weak reference, or 0
    mutex,         \* per coordinator: holder
    pc, kind, inc, coord  \* per task: program point, call, runtime, coordinator

vars == <<entry, incarnations, retired, torn, active, permit, lock, mapped,
          mutex, pc, kind, inc, coord>>

Uses == {"activity", "lease", "locked"}
Mutations == {"removal", "upsert", "update"}

CallPoints == {"add", "check", "lock", "run", "sub", "notify", "release"}
DrainPoints == {"drain", "poll", "wait", "woken"}
SyncPoints == {"sync", "restore", "restart"}
SyncingPoints == {"syncing", "restoring", "restarting"}
MutationPoints == {"mutex", "retire", "retiredLock", "prepared", "shutdown",
                   "unlist", "publish", "swap"}
                      \cup DrainPoints \cup SyncPoints \cup SyncingPoints
Points == {"Idle"} \cup CallPoints \cup MutationPoints

TypeOK ==
    /\ entry \in {0} \cup Incarnations
    /\ incarnations \in Incarnations
    /\ retired \in [Incarnations -> BOOLEAN]
    /\ torn \in [Incarnations -> BOOLEAN]
    /\ active \in [Incarnations -> Nat]
    /\ permit \in [Incarnations -> BOOLEAN]
    /\ lock \in [Incarnations -> Tasks \cup {NoTask}]
    /\ mapped \in {0} \cup Coordinators
    /\ mutex \in [Coordinators -> Tasks \cup {NoTask}]
    /\ pc \in [Tasks -> Points]
    /\ kind \in [Tasks -> {"none"} \cup Uses \cup Mutations]
    /\ inc \in [Tasks -> {0} \cup Incarnations]
    /\ coord \in [Tasks -> {0} \cup Coordinators]

\* The registry as loaded from the configuration: one runtime, nobody in it.
Init ==
    /\ entry = 1
    /\ incarnations = 1
    /\ retired = [i \in Incarnations |-> FALSE]
    /\ torn = [i \in Incarnations |-> FALSE]
    /\ active = [i \in Incarnations |-> 0]
    /\ permit = [i \in Incarnations |-> FALSE]
    /\ lock = [i \in Incarnations |-> NoTask]
    /\ mapped = 0
    /\ mutex = [c \in Coordinators |-> NoTask]
    /\ pc = [t \in Tasks |-> "Idle"]
    /\ kind = [t \in Tasks |-> "none"]
    /\ inc = [t \in Tasks |-> 0]
    /\ coord = [t \in Tasks |-> 0]

local    == <<kind, inc, coord>>
registry == <<entry, incarnations, mapped, mutex>>
flags    == <<retired, torn>>
counter  == <<active, permit>>

Goto(t, point) == pc' = [pc EXCEPT ![t] = point] /\ UNCHANGED local

\* A task returns: its clones and its coordinator reference go with it.
Return(t) ==
    /\ pc' = [pc EXCEPT ![t] = "Idle"]
    /\ kind' = [kind EXCEPT ![t] = "none"]
    /\ inc' = [inc EXCEPT ![t] = 0]
    /\ coord' = [coord EXCEPT ![t] = 0]

\* Whatever lifecycle lock the task holds is released.
Unlock(t) ==
    lock' = [i \in Incarnations |-> IF lock[i] = t THEN NoTask ELSE lock[i]]
UnlockMutex(t) ==
    mutex' = [c \in Coordinators |-> IF mutex[c] = t THEN NoTask ELSE mutex[c]]

-----------------------------------------------------------------------------
(* Callers. *)

\* ComputerRegistry::runtime: a clone that may be used much later.
Obtain(t, use) ==
    /\ pc[t] = "Idle" /\ entry # 0
    /\ kind' = [kind EXCEPT ![t] = use]
    /\ inc' = [inc EXCEPT ![t] = entry]
    /\ pc' = [pc EXCEPT ![t] = IF use = "locked" THEN "lock" ELSE "add"]
    /\ UNCHANGED <<registry, flags, counter, lock, coord>>

\* Mutant: admission is looked at before counting, the guard is dropped anyway.
AddUnlessRetired(t) ==
    /\ pc[t] = "add"
    /\ active' = IF retired[inc[t]] THEN active
                 ELSE [active EXCEPT ![inc[t]] = @ + 1]
    /\ Goto(t, IF retired[inc[t]] THEN "sub" ELSE "check")
    /\ UNCHANGED <<registry, flags, permit, lock>>

\* begin_activity: count first, then look whether admission is closed.
AddActivity(t) ==
    /\ pc[t] = "add"
    /\ active' = [active EXCEPT ![inc[t]] = @ + 1]
    /\ Goto(t, "check")
    /\ UNCHANGED <<registry, flags, permit, lock>>

CheckRetired(t) ==
    /\ pc[t] = "check"
    /\ Goto(t, IF retired[inc[t]] THEN "sub"
               ELSE IF kind[t] = "lease" THEN "lock" ELSE "run")
    /\ UNCHANGED <<registry, flags, counter, lock>>

\* Mutant: the lock alone is taken for admission.
TakeLifecycleOnly(t) ==
    /\ pc[t] = "lock" /\ lock[inc[t]] = NoTask
    /\ lock' = [lock EXCEPT ![inc[t]] = t] /\ Goto(t, "run")
    /\ UNCHANGED <<registry, flags, counter>>

\* The lifecycle lock, then ensure_active.  A rejected lease releases the lock
\* and then drops its activity.
TakeLifecycle(t) ==
    /\ pc[t] = "lock" /\ lock[inc[t]] = NoTask
    /\ IF retired[inc[t]]
         THEN /\ IF kind[t] = "lease" THEN Goto(t, "sub") ELSE Return(t)
              /\ UNCHANGED lock
         ELSE lock' = [lock EXCEPT ![inc[t]] = t] /\ Goto(t, "run")
    /\ UNCHANGED <<registry, flags, counter>>

\* The SDK call returns.
Finish(t) ==
    /\ pc[t] = "run"
    /\ IF kind[t] = "locked" THEN Return(t) /\ Unlock(t)
                             ELSE Goto(t, "sub") /\ UNCHANGED lock
    /\ UNCHANGED <<registry, flags, counter>>

\* RuntimeActivityGuard::drop: the last one out notifies.
DropActivity(t) ==
    /\ pc[t] = "sub"
    /\ active' = [active EXCEPT ![inc[t]] = @ - 1]
    /\ Goto(t, IF active[inc[t]] = 1 THEN "notify" ELSE "release")
    /\ UNCHANGED <<registry, flags, permit, lock>>

\* Mutant of NotifyOne: notify_waiters, which stores no permit.
NotifyWaiters(i, points) ==
    /\ pc' = [t \in Tasks |-> IF pc[t] = "wait" /\ inc[t] = i THEN "woken" ELSE points[t]]
    /\ UNCHANGED permit

\* Notify::notify_one: wakes one waiter, or else leaves a permit.
NotifyOne(i, points) ==
    LET waiters == {t \in Tasks : pc[t] = "wait" /\ inc[t] = i} IN
    IF waiters = {}
      THEN pc' = points /\ permit' = [permit EXCEPT ![i] = TRUE]
      ELSE /\ \E t \in waiters : pc' = [points EXCEPT ![t] = "woken"]
           /\ UNCHANGED permit

Notify(t) ==
    /\ pc[t] = "notify"
    /\ NotifyOne(inc[t], [pc EXCEPT ![t] = "release"])
    /\ UNCHANGED <<registry, flags, active, lock, local>>

\* A lease drops its activity before it releases the lifecycle lock.
Release(t) ==
    /\ pc[t] = "release"
    /\ Return(t) /\ Unlock(t)
    /\ UNCHANGED <<registry, flags, counter>>

-----------------------------------------------------------------------------
(* Mutators. *)

\* Mutant of Alive: only a locked mutex keeps the coordinator reachable.
AliveWhenLocked(c) == c # 0 /\ mutex[c] # NoTask

\* Weak::upgrade succeeds while some task holds a reference.
Alive(c) == c # 0 /\ \E t \in Tasks : coord[t] = c

\* runtime_mutation_coordinator: the mapped coordinator if it is alive, or else
\* a new one at some free address.
Coordinator ==
    IF Alive(mapped) THEN mapped
    ELSE CHOOSE c \in Coordinators : \A t \in Tasks : coord[t] # c

Mutate(t, mutation) ==
    /\ pc[t] = "Idle"
    /\ mutation = "upsert" =>
         incarnations + Cardinality({u \in Tasks : kind[u] = "upsert"}) < MaxIncarnations
    /\ kind' = [kind EXCEPT ![t] = mutation]
    /\ coord' = [coord EXCEPT ![t] = Coordinator]
    /\ mapped' = Coordinator
    /\ pc' = [pc EXCEPT ![t] = "mutex"]
    /\ UNCHANGED <<entry, incarnations, mutex, flags, counter, lock, inc>>

\* The coordinator's lock, then the entry as it is now.
LockMutex(t) ==
    /\ pc[t] = "mutex" /\ mutex[coord[t]] = NoTask
    /\ IF entry = 0 /\ kind[t] # "upsert"
         THEN Return(t) /\ UNCHANGED mutex
         ELSE /\ mutex' = [mutex EXCEPT ![coord[t]] = t]
              /\ inc' = [inc EXCEPT ![t] = entry]
              /\ pc' = [pc EXCEPT ![t] = IF entry = 0 THEN "publish"
                                         ELSE IF kind[t] = "update" THEN "sync"
                                         ELSE "retire"]
              /\ UNCHANGED <<kind, coord>>
    /\ UNCHANGED <<entry, incarnations, mapped, flags, counter, lock>>

Retire(t) ==
    /\ pc[t] = "retire"
    /\ retired' = [retired EXCEPT ![inc[t]] = TRUE]
    /\ Goto(t, "drain")
    /\ UNCHANGED <<registry, torn, counter, lock>>

\* The drain: while active_operations != 0 { activity_changed.notified().await }.
Drain(t) ==
    /\ pc[t] = "drain"
    /\ Goto(t, IF active[inc[t]] = 0 THEN "retiredLock" ELSE "poll")
    /\ UNCHANGED <<registry, flags, counter, lock>>

\* Polling Notified takes a stored permit or joins the waiters.
Poll(t) ==
    /\ pc[t] = "poll"
    /\ Goto(t, IF permit[inc[t]] THEN "woken" ELSE "wait")
    /\ permit' = [permit EXCEPT ![inc[t]] = FALSE]
    /\ UNCHANGED <<registry, flags, active, lock>>

\* Mutant: if instead of while.
WokenOnce(t) ==
    /\ pc[t] = "woken" /\ Goto(t, "retiredLock")
    /\ UNCHANGED <<registry, flags, counter, lock>>

Woken(t) ==
    /\ pc[t] = "woken"
    /\ Goto(t, "drain")
    /\ UNCHANGED <<registry, flags, counter, lock>>

\* Mutant: the rollback forgets to reopen admission.
StayClosed(t) == Return(t) /\ Unlock(t) /\ UnlockMutex(t) /\ UNCHANGED retired

\* Drop of an uncommitted PreparedRuntimeRemoval, and the error path of retire.
Reopen(t) ==
    /\ retired' = [retired EXCEPT ![inc[t]] = FALSE]
    /\ Return(t) /\ Unlock(t) /\ UnlockMutex(t)

\* The lifecycle lock, then the preflight, which may reject the shutdown.
LockRetired(t) ==
    /\ pc[t] = "retiredLock" /\ lock[inc[t]] = NoTask
    /\ \/ /\ lock' = [lock EXCEPT ![inc[t]] = t]
          /\ Goto(t, IF kind[t] = "removal" THEN "prepared" ELSE "shutdown")
          /\ UNCHANGED <<mutex, retired>>
       \/ Reopen(t)
    /\ UNCHANGED <<entry, incarnations, mapped, torn, counter>>

\* The caller of a prepared removal commits it or drops it.
Decide(t) ==
    /\ pc[t] = "prepared"
    /\ \/ entry = inc[t] /\ Goto(t, "shutdown") /\ UNCHANGED <<lock, mutex, retired>>
       \/ Reopen(t)
    /\ UNCHANGED <<entry, incarnations, mapped, torn, counter>>

\* Mutant of Shutdown: an upsert leaves the old SDK running.
ShutdownRemovedOnly(t) ==
    /\ pc[t] = "shutdown"
    /\ torn' = IF kind[t] = "removal" THEN [torn EXCEPT ![inc[t]] = TRUE] ELSE torn
    /\ Goto(t, IF kind[t] = "removal" THEN "unlist" ELSE "publish")
    /\ IF kind[t] = "removal" THEN UNCHANGED lock ELSE Unlock(t)
    /\ UNCHANGED <<registry, retired, counter>>

\* shutdown_after_preflight_inner; retire then releases the lifecycle lock.
Shutdown(t) ==
    /\ pc[t] = "shutdown"
    /\ torn' = [torn EXCEPT ![inc[t]] = TRUE]
    /\ IF kind[t] = "removal"
         THEN Goto(t, "unlist") /\ UNCHANGED lock
         ELSE Goto(t, "publish") /\ Unlock(t)
    /\ UNCHANGED <<registry, retired, counter>>

\* commit_runtime_removal: the entry goes and the removal counts as committed.
Unlist(t) ==
    /\ pc[t] = "unlist"
    /\ IF entry = inc[t]
         THEN entry' = 0 /\ Return(t) /\ Unlock(t) /\ UnlockMutex(t) /\ UNCHANGED retired
         ELSE Reopen(t) /\ UNCHANGED entry
    /\ UNCHANGED <<incarnations, mapped, torn, counter>>

\* upsert_runtime: a new incarnation is built, and listed if nothing changed.
Publish(t) ==
    /\ pc[t] = "publish" /\ incarnations < MaxIncarnations
    /\ incarnations' = incarnations + 1
    /\ entry' = IF entry = inc[t] THEN incarnations + 1 ELSE entry
    /\ Return(t) /\ UnlockMutex(t)
    /\ UNCHANGED <<mapped, flags, counter, lock>>

\* update_runtime_instance_typed: the runtime takes a changed policy under its
\* lifecycle lock and is listed again, the same incarnation with a new profile.
\* If that fails, the old policy is applied again and a stopped runtime started.
Sync(t) ==
    /\ pc[t] \in SyncPoints /\ lock[inc[t]] = NoTask
    /\ IF retired[inc[t]]
         THEN /\ IF pc[t] = "sync" THEN Goto(t, "restore") /\ UNCHANGED mutex
                                   ELSE Return(t) /\ UnlockMutex(t)
              /\ UNCHANGED lock
         ELSE /\ lock' = [lock EXCEPT ![inc[t]] = t]
              /\ Goto(t, CASE pc[t] = "sync"    -> "syncing"
                           [] pc[t] = "restore" -> "restoring"
                           [] pc[t] = "restart" -> "restarting")
              /\ UNCHANGED mutex
    /\ UNCHANGED <<entry, incarnations, mapped, flags, counter>>

SyncDone(t) ==
    /\ pc[t] \in SyncingPoints
    /\ Unlock(t)
    /\ \/ pc[t] = "syncing" /\ (Goto(t, "swap") \/ Goto(t, "restore")) /\ UNCHANGED mutex
       \/ pc[t] = "restoring" /\ Goto(t, "restart") /\ UNCHANGED mutex
       \/ pc[t] # "syncing" /\ Return(t) /\ UnlockMutex(t)
    /\ UNCHANGED <<entry, incarnations, mapped, flags, counter>>

Swap(t) ==
    /\ pc[t] = "swap"
    /\ entry' = IF entry = inc[t] THEN inc[t] ELSE entry
    /\ Return(t) /\ UnlockMutex(t)
    /\ UNCHANGED <<incarnations, mapped, flags, counter, lock>>

\* The future of prepare_runtime_removal is dropped at an await.  A Notified
\* that was woken passes its notification on.
Cancel(t) ==
    /\ kind[t] = "removal"
    /\ \/ pc[t] = "mutex" /\ Return(t) /\ UNCHANGED <<mutex, lock, retired, permit>>
       \/ pc[t] \in {"wait", "retiredLock"} /\ Reopen(t) /\ UNCHANGED permit
       \/ /\ pc[t] = "woken" /\ Reopen(t)
          /\ permit' = [permit EXCEPT ![inc[t]] = TRUE]
    /\ UNCHANGED <<entry, incarnations, mapped, torn, active>>

-----------------------------------------------------------------------------
CallStep(t) ==
    \/ AddActivity(t) \/ CheckRetired(t) \/ TakeLifecycle(t) \/ Finish(t)
    \/ DropActivity(t) \/ Notify(t) \/ Release(t)

MutationStep(t) ==
    \/ LockMutex(t) \/ Retire(t) \/ Drain(t) \/ Poll(t) \/ Woken(t)
    \/ LockRetired(t) \/ Decide(t) \/ Shutdown(t) \/ Unlist(t) \/ Publish(t)
    \/ Sync(t) \/ SyncDone(t) \/ Swap(t)

Step(t) == CallStep(t) \/ MutationStep(t)

Next ==
    \E t \in Tasks :
        \/ \E use \in Uses : Obtain(t, use)
        \/ \E mutation \in Mutations : Mutate(t, mutation)
        \/ Step(t) \/ Cancel(t)

Spec == Init /\ [][Next]_vars

\* Tokio runs every ready task and its mutexes serve waiters in order; SDK calls
\* return.  Nothing makes a caller come, or a removal be cancelled.
FairSpec == Spec /\ \A t \in Tasks : SF_vars(Step(t))

-----------------------------------------------------------------------------
(* Properties. *)

\* The task has been admitted to its runtime and works on it.
Admitted(t) == kind[t] \in {"activity", "lease"} /\ pc[t] \in {"lock", "run"}
Using(t) == pc[t] = "run" \/ pc[t] \in SyncingPoints

\* From the end of the drain to the end of the teardown no counted caller is in
\* the runtime: whoever counted itself in after the last look at the counter
\* sees the closed admission and leaves, and a stale wake-up is no proof that
\* the runtime is empty.
DrainedBeforeTeardown ==
    \A t, u \in Tasks :
        pc[t] \in {"prepared", "shutdown", "unlist"} /\ Admitted(u) => inc[u] # inc[t]

\* A clone taken before a removal or a replacement never works on the SDK after
\* its teardown, however late it is used.
NeverRunsTornDown == \A t \in Tasks : Using(t) => ~torn[inc[t]]

\* A listed runtime rejects callers only while some mutator is retiring it: a
\* cancelled or failed removal reopens it, and so does a failed replacement.
ClosedHasMutator ==
    entry # 0 /\ retired[entry] =>
        \E t \in Tasks : inc[t] = entry /\ pc[t] \in MutationPoints

\* Between reading the entry and writing it no other mutator changes it, so no
\* removal or update is refused or undone half way: the map of weak references
\* never yields two live coordinators for one Computer.
EntryIsStable ==
    \A t \in Tasks : pc[t] \in MutationPoints \ {"mutex"} => entry = inc[t]

\* Replaced and removed runtimes are torn down: no SDK, with its processes and
\* its office membership, is left running without an entry that reaches it.
UnlistedIsTornDown ==
    \A i \in Incarnations : i <= incarnations /\ i # entry => torn[i]

\* Every removal, replacement and update returns once callers stop arriving:
\* the drain loses no wake-up and the locks are not waited for in a cycle.
MutatorsReturn ==
    <>[](\A t \in Tasks : pc[t] # "add") =>
        \A t \in Tasks : pc[t] \in MutationPoints ~> pc[t] = "Idle"
=============================================================================
