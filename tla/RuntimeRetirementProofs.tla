----------------------- MODULE RuntimeRetirementProofs -----------------------
(***************************************************************************)
(* Theorems about RuntimeRetirement, for any finite set of tasks and any   *)
(* bounds: every safety invariant of the module, from one inductive        *)
(* invariant.                                                              *)
(***************************************************************************)
EXTENDS RuntimeRetirement, FiniteSetTheorems, TLAPS

\* A caller between the increment and the decrement of active_operations.
Counted(t) == kind[t] \in {"activity", "lease"} /\ pc[t] \in {"check", "lock", "run", "sub"}
Callers(i) == {t \in Tasks : Counted(t) /\ inc[t] = i}

\* The points at which a mutator holds the coordinator, has closed admission,
\* has seen the runtime empty, and holds the lifecycle lock.
HoldPoints == MutationPoints \ {"mutex"}
EmptyPoints == {"retiredLock", "prepared", "shutdown", "unlist"}
ClosedPoints == DrainPoints \cup EmptyPoints
LockPoints == {"prepared", "shutdown", "unlist"} \cup SyncingPoints

\* What a task at a point is, and what it refers to.
KindInv ==
    \A t \in Tasks :
        /\ pc[t] \in {"add", "check", "sub", "notify", "release"}
             => kind[t] \in {"activity", "lease"}
        /\ pc[t] = "lock" => kind[t] \in {"lease", "locked"}
        /\ pc[t] = "run" => kind[t] \in Uses
        /\ pc[t] \in MutationPoints => kind[t] \in Mutations
        /\ pc[t] \in CallPoints \cup (HoldPoints \ {"publish"}) => inc[t] \in Incarnations
        /\ pc[t] \in {"Idle", "mutex"} => inc[t] = 0

\* Incarnations not built yet are untouched.
FreshInv ==
    /\ entry <= incarnations
    /\ \A i \in Incarnations : torn[i] \/ retired[i] => i <= incarnations

\* The counter of a runtime is exact.
CountInv == \A i \in Incarnations : active[i] = Cardinality(Callers(i))

\* Every mutator refers to the mapped coordinator, and one at a time holds it.
CoordInv ==
    \A t \in Tasks :
        /\ coord[t] \in {0, mapped}
        /\ pc[t] \in MutationPoints => coord[t] \in Coordinators
MutexInv == \A t \in Tasks : pc[t] \in HoldPoints => mutex[mapped] = t

\* The lifecycle lock belongs to the task that works under it.
HoldsLock(t) == pc[t] \in LockPoints \/ (pc[t] = "run" /\ kind[t] # "activity")
LockInv ==
    \A t \in Tasks : HoldsLock(t) => inc[t] \in Incarnations /\ lock[inc[t]] = t

\* Admission stays closed from the drain on, so the drained runtime stays empty;
\* a listed runtime that is closed has a mutator in or past its drain.
ClosedInv ==
    /\ \A t \in Tasks : pc[t] \in ClosedPoints => retired[inc[t]]
    /\ entry # 0 /\ retired[entry] =>
         \E t \in Tasks : inc[t] = entry /\ pc[t] \in ClosedPoints \cup {"publish"}
EmptyInv ==
    \A t, u \in Tasks : pc[t] \in EmptyPoints /\ Admitted(u) => inc[u] # inc[t]

\* A runtime that was torn down stays closed; while it is listed its mutator is
\* about to replace the entry or remove it.
TornInv ==
    /\ \A i \in Incarnations : torn[i] => retired[i]
    /\ \A t \in Tasks :
         /\ pc[t] = "unlist" => torn[inc[t]]
         /\ pc[t] = "publish" /\ inc[t] # 0 => torn[inc[t]]
    /\ entry # 0 /\ torn[entry] =>
         \E t \in Tasks : pc[t] \in {"unlist", "publish"}

IInv ==
    /\ TypeOK /\ KindInv /\ FreshInv /\ CountInv /\ CoordInv /\ MutexInv
    /\ LockInv /\ ClosedInv /\ EmptyInv /\ EntryIsStable /\ TornInv
    /\ NeverRunsTornDown /\ UnlistedIsTornDown

-----------------------------------------------------------------------------
\* The tuples in the UNCHANGED conjuncts, and how a task moves on, are opened in
\* every step of these proofs.
USE DEF local, registry, flags, counter, Goto, Return, Unlock, UnlockMutex

\* The coordinator of a mutation is a live one, or nobody refers to any.
LEMMA CoordinatorType ==
    ASSUME TypeOK, CoordInv
    PROVE  /\ Coordinator \in Coordinators
           /\ Coordinator = mapped \/ \A t \in Tasks : coord[t] = 0
<1>1. 1 \in Coordinators
  BY BoundsAssumption DEF Coordinators
<1>2. CASE Alive(mapped)
  BY <1>2 DEF TypeOK, Alive, Coordinator
<1>3. CASE ~Alive(mapped)
  <2>1. \A t \in Tasks : coord[t] = 0
    BY <1>3 DEF TypeOK, CoordInv, Alive
  <2>2. \E c \in Coordinators : \A t \in Tasks : coord[t] # c
    BY <1>1, <2>1 DEF Coordinators
  <2>3. QED
    BY <1>3, <2>1, <2>2 DEF Coordinator
<1>4. QED
  BY <1>2, <1>3

\* Callers(i) has a cardinality.
LEMMA CallersFinite ==
    \A i \in Incarnations : IsFiniteSet(Callers(i)) /\ Cardinality(Callers(i)) \in Nat
  BY TasksAssumption, FS_Subset, FS_CardinalityType DEF Callers

\* What no caller enters or leaves keeps the counters exact.
LEMMA SameCount ==
    ASSUME CountInv, active' = active,
           \A u \in Tasks : /\ Counted(u)' <=> Counted(u)
                            /\ Counted(u) => inc'[u] = inc[u]
    PROVE  CountInv'
<1>1. \A i \in Incarnations : Callers(i)' = Callers(i)
  BY DEF Callers, Counted
<1>2. QED
  BY <1>1 DEF CountInv

\* A failed or cancelled removal leaves everything well typed.
LEMMA ReopenType ==
    ASSUME TypeOK, NEW t \in Tasks, Reopen(t)
    PROVE  /\ retired' \in [Incarnations -> BOOLEAN]
           /\ lock' \in [Incarnations -> Tasks \cup {NoTask}]
           /\ mutex' \in [Coordinators -> Tasks \cup {NoTask}]
           /\ pc' \in [Tasks -> Points]
           /\ kind' \in [Tasks -> {"none"} \cup Uses \cup Mutations]
           /\ inc' \in [Tasks -> {0} \cup Incarnations]
           /\ coord' \in [Tasks -> {0} \cup Coordinators]
  BY DEF TypeOK, Points, Reopen

\* Types: a counter that a caller leaves counts at least that caller.
LEMMA TypeOKNext ==
    ASSUME TypeOK, KindInv, CountInv, CoordInv, [Next]_vars
    PROVE  TypeOK'
<1> USE DEF TypeOK, KindInv, Points, CallPoints, MutationPoints, DrainPoints,
            SyncPoints, SyncingPoints, Uses, Mutations, HoldPoints
<1>1. ASSUME NEW t \in Tasks, NEW use \in Uses, Obtain(t, use)
      PROVE  TypeOK'
  BY <1>1 DEF Obtain
<1>2. ASSUME NEW t \in Tasks, NEW mutation \in Mutations, Mutate(t, mutation)
      PROVE  TypeOK'
  BY <1>2, CoordinatorType DEF Mutate
<1>3. ASSUME NEW t \in Tasks, CallStep(t)
      PROVE  TypeOK'
  <2>1. CASE AddActivity(t)
    BY <2>1 DEF AddActivity
  <2>2. CASE CheckRetired(t)
    BY <2>2 DEF CheckRetired
  <2>3. CASE TakeLifecycle(t)
    BY <2>3 DEF TakeLifecycle
  <2>4. CASE Finish(t)
    BY <2>4 DEF Finish
  <2>5. CASE DropActivity(t)
    <3>1. t \in Callers(inc[t]) /\ inc[t] \in Incarnations
      BY <2>5 DEF DropActivity, Callers, Counted
    <3>2. active[inc[t]] # 0
      BY <3>1, CallersFinite, FS_EmptySet DEF CountInv
    <3>3. QED
      BY <2>5, <3>1, <3>2 DEF DropActivity
  <2>6. CASE Notify(t)
    BY <2>6 DEF Notify, NotifyOne
  <2>7. CASE Release(t)
    BY <2>7 DEF Release
  <2>8. QED
    BY <1>3, <2>1, <2>2, <2>3, <2>4, <2>5, <2>6, <2>7 DEF CallStep
<1>4. ASSUME NEW t \in Tasks, MutationStep(t)
      PROVE  TypeOK'
  <2>1. CASE LockMutex(t)
    BY <2>1 DEF LockMutex
  <2>2. CASE Retire(t)
    BY <2>2 DEF Retire
  <2>3. CASE Drain(t)
    BY <2>3 DEF Drain
  <2>4. CASE Poll(t)
    BY <2>4 DEF Poll
  <2>5. CASE Woken(t)
    BY <2>5 DEF Woken
  <2>6. CASE LockRetired(t)
    BY <2>6, ReopenType DEF LockRetired
  <2>7. CASE Decide(t)
    BY <2>7, ReopenType DEF Decide
  <2>8. CASE Shutdown(t)
    BY <2>8 DEF Shutdown
  <2>9. CASE Unlist(t)
    BY <2>9, ReopenType DEF Unlist
  <2>10. CASE Publish(t)
    BY <2>10, BoundsAssumption DEF Publish, Incarnations
  <2>11. CASE Sync(t)
    BY <2>11 DEF Sync
  <2>12. CASE SyncDone(t)
    BY <2>12 DEF SyncDone
  <2>13. CASE Swap(t)
    BY <2>13 DEF Swap
  <2>14. QED
    BY <1>4, <2>1, <2>2, <2>3, <2>4, <2>5, <2>6, <2>7, <2>8, <2>9, <2>10, <2>11,
       <2>12, <2>13 DEF MutationStep
<1>5. ASSUME NEW t \in Tasks, Cancel(t)
      PROVE  TypeOK'
  BY <1>5, ReopenType DEF Cancel
<1>6. CASE UNCHANGED vars
  BY <1>6 DEF vars
<1>7. QED
  BY <1>1, <1>2, <1>3, <1>4, <1>5, <1>6 DEF Next, Step

\* What a task at a point is, and what it refers to.
LEMMA KindInvNext ==
    ASSUME TypeOK, KindInv, [Next]_vars
    PROVE  KindInv'
<1> USE DEF TypeOK, KindInv, Uses, Mutations, CallPoints, MutationPoints, DrainPoints,
            SyncPoints, SyncingPoints, HoldPoints, Incarnations
<1>1. ASSUME NEW t \in Tasks, NEW use \in Uses, Obtain(t, use)
      PROVE  KindInv'
  BY <1>1 DEF Obtain
<1>2. ASSUME NEW t \in Tasks, NEW mutation \in Mutations, Mutate(t, mutation)
      PROVE  KindInv'
  BY <1>2, CoordinatorType DEF Mutate
<1>3. ASSUME NEW t \in Tasks, CallStep(t)
      PROVE  KindInv'
  <2>1. CASE AddActivity(t)
    BY <2>1 DEF AddActivity
  <2>2. CASE CheckRetired(t)
    BY <2>2 DEF CheckRetired
  <2>3. CASE TakeLifecycle(t)
    BY <2>3 DEF TakeLifecycle
  <2>4. CASE Finish(t)
    BY <2>4 DEF Finish
  <2>5. CASE DropActivity(t)
    BY <2>5 DEF DropActivity
  <2>6. CASE Notify(t)
    BY <2>6 DEF Notify, NotifyOne
  <2>7. CASE Release(t)
    BY <2>7 DEF Release
  <2>8. QED
    BY <1>3, <2>1, <2>2, <2>3, <2>4, <2>5, <2>6, <2>7 DEF CallStep
<1>4. ASSUME NEW t \in Tasks, MutationStep(t)
      PROVE  KindInv'
  <2>1. CASE LockMutex(t)
    BY <2>1 DEF LockMutex
  <2>2. CASE Retire(t)
    BY <2>2 DEF Retire
  <2>3. CASE Drain(t)
    BY <2>3 DEF Drain
  <2>4. CASE Poll(t)
    BY <2>4 DEF Poll
  <2>5. CASE Woken(t)
    BY <2>5 DEF Woken
  <2>6. CASE LockRetired(t)
    BY <2>6 DEF LockRetired, Reopen
  <2>7. CASE Decide(t)
    BY <2>7 DEF Decide, Reopen
  <2>8. CASE Shutdown(t)
    BY <2>8 DEF Shutdown
  <2>9. CASE Unlist(t)
    BY <2>9 DEF Unlist, Reopen
  <2>10. CASE Publish(t)
    BY <2>10 DEF Publish
  <2>11. CASE Sync(t)
    BY <2>11 DEF Sync
  <2>12. CASE SyncDone(t)
    BY <2>12 DEF SyncDone
  <2>13. CASE Swap(t)
    BY <2>13 DEF Swap
  <2>14. QED
    BY <1>4, <2>1, <2>2, <2>3, <2>4, <2>5, <2>6, <2>7, <2>8, <2>9, <2>10, <2>11,
       <2>12, <2>13 DEF MutationStep
<1>5. ASSUME NEW t \in Tasks, Cancel(t)
      PROVE  KindInv'
  BY <1>5 DEF Cancel, Reopen
<1>6. CASE UNCHANGED vars
  BY <1>6 DEF vars
<1>7. QED
  BY <1>1, <1>2, <1>3, <1>4, <1>5, <1>6 DEF Next, Step

\* A new incarnation starts open and untouched.
LEMMA FreshInvNext ==
    ASSUME TypeOK, FreshInv, EntryIsStable, [Next]_vars
    PROVE  FreshInv'
<1> USE BoundsAssumption DEF TypeOK, FreshInv, EntryIsStable, Incarnations,
        MutationPoints, DrainPoints, SyncPoints, SyncingPoints
<1>1. ASSUME NEW t \in Tasks, NEW use \in Uses, Obtain(t, use)
      PROVE  FreshInv'
  BY <1>1 DEF Obtain
<1>2. ASSUME NEW t \in Tasks, NEW mutation \in Mutations, Mutate(t, mutation)
      PROVE  FreshInv'
  BY <1>2 DEF Mutate
<1>3. ASSUME NEW t \in Tasks, CallStep(t)
      PROVE  FreshInv'
  <2>1. CASE AddActivity(t)
    BY <2>1 DEF AddActivity
  <2>2. CASE CheckRetired(t)
    BY <2>2 DEF CheckRetired
  <2>3. CASE TakeLifecycle(t)
    BY <2>3 DEF TakeLifecycle
  <2>4. CASE Finish(t)
    BY <2>4 DEF Finish
  <2>5. CASE DropActivity(t)
    BY <2>5 DEF DropActivity
  <2>6. CASE Notify(t)
    BY <2>6 DEF Notify, NotifyOne
  <2>7. CASE Release(t)
    BY <2>7 DEF Release
  <2>8. QED
    BY <1>3, <2>1, <2>2, <2>3, <2>4, <2>5, <2>6, <2>7 DEF CallStep
<1>4. ASSUME NEW t \in Tasks, MutationStep(t)
      PROVE  FreshInv'
  <2>1. CASE LockMutex(t)
    BY <2>1 DEF LockMutex
  <2>2. CASE Retire(t)
    BY <2>2 DEF Retire
  <2>3. CASE Drain(t)
    BY <2>3 DEF Drain
  <2>4. CASE Poll(t)
    BY <2>4 DEF Poll
  <2>5. CASE Woken(t)
    BY <2>5 DEF Woken
  <2>6. CASE LockRetired(t)
    BY <2>6 DEF LockRetired, Reopen
  <2>7. CASE Decide(t)
    BY <2>7 DEF Decide, Reopen
  <2>8. CASE Shutdown(t)
    BY <2>8 DEF Shutdown
  <2>9. CASE Unlist(t)
    BY <2>9 DEF Unlist, Reopen
  <2>10. CASE Publish(t)
    BY <2>10 DEF Publish
  <2>11. CASE Sync(t)
    BY <2>11 DEF Sync
  <2>12. CASE SyncDone(t)
    BY <2>12 DEF SyncDone
  <2>13. CASE Swap(t)
    BY <2>13 DEF Swap
  <2>14. QED
    BY <1>4, <2>1, <2>2, <2>3, <2>4, <2>5, <2>6, <2>7, <2>8, <2>9, <2>10, <2>11,
       <2>12, <2>13 DEF MutationStep
<1>5. ASSUME NEW t \in Tasks, Cancel(t)
      PROVE  FreshInv'
  BY <1>5 DEF Cancel, Reopen
<1>6. CASE UNCHANGED vars
  BY <1>6 DEF vars
<1>7. QED
  BY <1>1, <1>2, <1>3, <1>4, <1>5, <1>6 DEF Next, Step

\* A second coordinator appears only when nobody refers to the first.
LEMMA CoordInvNext ==
    ASSUME TypeOK, CoordInv, [Next]_vars
    PROVE  CoordInv'
<1> USE DEF TypeOK, CoordInv, MutationPoints, DrainPoints, SyncPoints, SyncingPoints
<1>1. ASSUME NEW t \in Tasks, NEW use \in Uses, Obtain(t, use)
      PROVE  CoordInv'
  BY <1>1 DEF Obtain
<1>2. ASSUME NEW t \in Tasks, NEW mutation \in Mutations, Mutate(t, mutation)
      PROVE  CoordInv'
  BY <1>2, CoordinatorType DEF Mutate
<1>3. ASSUME NEW t \in Tasks, CallStep(t)
      PROVE  CoordInv'
  <2>1. CASE AddActivity(t)
    BY <2>1 DEF AddActivity
  <2>2. CASE CheckRetired(t)
    BY <2>2 DEF CheckRetired
  <2>3. CASE TakeLifecycle(t)
    BY <2>3 DEF TakeLifecycle
  <2>4. CASE Finish(t)
    BY <2>4 DEF Finish
  <2>5. CASE DropActivity(t)
    BY <2>5 DEF DropActivity
  <2>6. CASE Notify(t)
    BY <2>6 DEF Notify, NotifyOne
  <2>7. CASE Release(t)
    BY <2>7 DEF Release
  <2>8. QED
    BY <1>3, <2>1, <2>2, <2>3, <2>4, <2>5, <2>6, <2>7 DEF CallStep
<1>4. ASSUME NEW t \in Tasks, MutationStep(t)
      PROVE  CoordInv'
  <2>1. CASE LockMutex(t)
    BY <2>1 DEF LockMutex
  <2>2. CASE Retire(t)
    BY <2>2 DEF Retire
  <2>3. CASE Drain(t)
    BY <2>3 DEF Drain
  <2>4. CASE Poll(t)
    BY <2>4 DEF Poll
  <2>5. CASE Woken(t)
    BY <2>5 DEF Woken
  <2>6. CASE LockRetired(t)
    BY <2>6 DEF LockRetired, Reopen
  <2>7. CASE Decide(t)
    BY <2>7 DEF Decide, Reopen
  <2>8. CASE Shutdown(t)
    BY <2>8 DEF Shutdown
  <2>9. CASE Unlist(t)
    BY <2>9 DEF Unlist, Reopen
  <2>10. CASE Publish(t)
    BY <2>10 DEF Publish
  <2>11. CASE Sync(t)
    BY <2>11 DEF Sync
  <2>12. CASE SyncDone(t)
    BY <2>12 DEF SyncDone
  <2>13. CASE Swap(t)
    BY <2>13 DEF Swap
  <2>14. QED
    BY <1>4, <2>1, <2>2, <2>3, <2>4, <2>5, <2>6, <2>7, <2>8, <2>9, <2>10, <2>11,
       <2>12, <2>13 DEF MutationStep
<1>5. ASSUME NEW t \in Tasks, Cancel(t)
      PROVE  CoordInv'
  BY <1>5 DEF Cancel, Reopen
<1>6. CASE UNCHANGED vars
  BY <1>6 DEF vars
<1>7. QED
  BY <1>1, <1>2, <1>3, <1>4, <1>5, <1>6 DEF Next, Step

\* One mutator at a time is past the coordinator's lock.
LEMMA MutexInvNext ==
    ASSUME TypeOK, CoordInv, MutexInv, [Next]_vars
    PROVE  MutexInv'
<1> USE NoTaskAssumption DEF TypeOK, CoordInv, MutexInv, MutationPoints, DrainPoints,
        SyncPoints, SyncingPoints, HoldPoints
<1>1. ASSUME NEW t \in Tasks, NEW use \in Uses, Obtain(t, use)
      PROVE  MutexInv'
  BY <1>1 DEF Obtain
<1>2. ASSUME NEW t \in Tasks, NEW mutation \in Mutations, Mutate(t, mutation)
      PROVE  MutexInv'
  <2>1. CASE Coordinator = mapped
    BY <1>2, <2>1 DEF Mutate
  <2>2. CASE \A u \in Tasks : coord[u] = 0
    BY <1>2, <2>2 DEF Mutate, Coordinators
  <2>3. QED
    BY <2>1, <2>2, CoordinatorType
<1>3. ASSUME NEW t \in Tasks, CallStep(t)
      PROVE  MutexInv'
  <2>1. CASE AddActivity(t)
    BY <2>1 DEF AddActivity
  <2>2. CASE CheckRetired(t)
    BY <2>2 DEF CheckRetired
  <2>3. CASE TakeLifecycle(t)
    BY <2>3 DEF TakeLifecycle
  <2>4. CASE Finish(t)
    BY <2>4 DEF Finish
  <2>5. CASE DropActivity(t)
    BY <2>5 DEF DropActivity
  <2>6. CASE Notify(t)
    BY <2>6 DEF Notify, NotifyOne
  <2>7. CASE Release(t)
    BY <2>7 DEF Release
  <2>8. QED
    BY <1>3, <2>1, <2>2, <2>3, <2>4, <2>5, <2>6, <2>7 DEF CallStep
<1>4. ASSUME NEW t \in Tasks, MutationStep(t)
      PROVE  MutexInv'
  <2>1. CASE LockMutex(t)
    <3>1. coord[t] = mapped /\ mapped \in Coordinators
      BY <2>1 DEF LockMutex, Coordinators
    <3>2. \A u \in Tasks : pc[u] \notin HoldPoints
      BY <2>1, <3>1 DEF LockMutex
    <3>3. QED
      BY <2>1, <3>1, <3>2 DEF LockMutex
  <2>2. CASE Retire(t)
    BY <2>2 DEF Retire
  <2>3. CASE Drain(t)
    BY <2>3 DEF Drain
  <2>4. CASE Poll(t)
    BY <2>4 DEF Poll
  <2>5. CASE Woken(t)
    BY <2>5 DEF Woken
  <2>6. CASE LockRetired(t)
    BY <2>6 DEF LockRetired, Reopen
  <2>7. CASE Decide(t)
    BY <2>7 DEF Decide, Reopen
  <2>8. CASE Shutdown(t)
    BY <2>8 DEF Shutdown
  <2>9. CASE Unlist(t)
    BY <2>9 DEF Unlist, Reopen
  <2>10. CASE Publish(t)
    BY <2>10 DEF Publish
  <2>11. CASE Sync(t)
    BY <2>11 DEF Sync
  <2>12. CASE SyncDone(t)
    BY <2>12 DEF SyncDone
  <2>13. CASE Swap(t)
    BY <2>13 DEF Swap
  <2>14. QED
    BY <1>4, <2>1, <2>2, <2>3, <2>4, <2>5, <2>6, <2>7, <2>8, <2>9, <2>10, <2>11,
       <2>12, <2>13 DEF MutationStep
<1>5. ASSUME NEW t \in Tasks, Cancel(t)
      PROVE  MutexInv'
  BY <1>5 DEF Cancel, Reopen
<1>6. CASE UNCHANGED vars
  BY <1>6 DEF vars
<1>7. QED
  BY <1>1, <1>2, <1>3, <1>4, <1>5, <1>6 DEF Next, Step

\* One task at a time works under a runtime's lifecycle lock.
LEMMA LockInvNext ==
    ASSUME TypeOK, KindInv, LockInv, [Next]_vars
    PROVE  LockInv'
<1> USE NoTaskAssumption DEF TypeOK, LockInv, LockPoints, SyncingPoints, HoldsLock
<1>1. ASSUME NEW t \in Tasks, NEW use \in Uses, Obtain(t, use)
      PROVE  LockInv'
  BY <1>1 DEF Obtain
<1>2. ASSUME NEW t \in Tasks, NEW mutation \in Mutations, Mutate(t, mutation)
      PROVE  LockInv'
  BY <1>2 DEF Mutate
<1>3. ASSUME NEW t \in Tasks, CallStep(t)
      PROVE  LockInv'
  <2>1. CASE AddActivity(t)
    BY <2>1 DEF AddActivity
  <2>2. CASE CheckRetired(t)
    BY <2>2 DEF CheckRetired, KindInv, CallPoints, HoldPoints, MutationPoints
  <2>3. CASE TakeLifecycle(t)
    BY <2>3 DEF TakeLifecycle, KindInv, CallPoints, HoldPoints, MutationPoints
  <2>4. CASE Finish(t)
    BY <2>4 DEF Finish
  <2>5. CASE DropActivity(t)
    BY <2>5 DEF DropActivity
  <2>6. CASE Notify(t)
    BY <2>6 DEF Notify, NotifyOne
  <2>7. CASE Release(t)
    BY <2>7 DEF Release
  <2>8. QED
    BY <1>3, <2>1, <2>2, <2>3, <2>4, <2>5, <2>6, <2>7 DEF CallStep
<1>4. ASSUME NEW t \in Tasks, MutationStep(t)
      PROVE  LockInv'
  <2>1. CASE LockMutex(t)
    BY <2>1 DEF LockMutex
  <2>2. CASE Retire(t)
    BY <2>2 DEF Retire
  <2>3. CASE Drain(t)
    BY <2>3 DEF Drain
  <2>4. CASE Poll(t)
    BY <2>4 DEF Poll
  <2>5. CASE Woken(t)
    BY <2>5 DEF Woken
  <2>6. CASE LockRetired(t)
    BY <2>6 DEF LockRetired, KindInv, CallPoints, HoldPoints, MutationPoints, Reopen
  <2>7. CASE Decide(t)
    BY <2>7 DEF Decide, Reopen
  <2>8. CASE Shutdown(t)
    BY <2>8 DEF Shutdown
  <2>9. CASE Unlist(t)
    BY <2>9 DEF Unlist, Reopen
  <2>10. CASE Publish(t)
    BY <2>10 DEF Publish
  <2>11. CASE Sync(t)
    BY <2>11 DEF Sync, KindInv, CallPoints, HoldPoints, MutationPoints, SyncPoints
  <2>12. CASE SyncDone(t)
    BY <2>12 DEF SyncDone
  <2>13. CASE Swap(t)
    BY <2>13 DEF Swap
  <2>14. QED
    BY <1>4, <2>1, <2>2, <2>3, <2>4, <2>5, <2>6, <2>7, <2>8, <2>9, <2>10, <2>11,
       <2>12, <2>13 DEF MutationStep
<1>5. ASSUME NEW t \in Tasks, Cancel(t)
      PROVE  LockInv'
  BY <1>5 DEF Cancel, Reopen
<1>6. CASE UNCHANGED vars
  BY <1>6 DEF vars
<1>7. QED
  BY <1>1, <1>2, <1>3, <1>4, <1>5, <1>6 DEF Next, Step

\* Admission is reopened only by the mutator that closed it.
LEMMA ClosedInvNext ==
    ASSUME TypeOK, KindInv, FreshInv, MutexInv, EntryIsStable, ClosedInv, [Next]_vars
    PROVE  ClosedInv'
<1> USE DEF TypeOK, KindInv, MutexInv, ClosedInv, ClosedPoints, EmptyPoints, HoldPoints,
            MutationPoints, DrainPoints, SyncPoints, SyncingPoints
<1>1. ASSUME NEW t \in Tasks, NEW use \in Uses, Obtain(t, use)
      PROVE  ClosedInv'
  BY <1>1 DEF Obtain
<1>2. ASSUME NEW t \in Tasks, NEW mutation \in Mutations, Mutate(t, mutation)
      PROVE  ClosedInv'
  BY <1>2 DEF Mutate
<1>3. ASSUME NEW t \in Tasks, CallStep(t)
      PROVE  ClosedInv'
  <2>1. CASE AddActivity(t)
    BY <2>1 DEF AddActivity
  <2>2. CASE CheckRetired(t)
    BY <2>2 DEF CheckRetired
  <2>3. CASE TakeLifecycle(t)
    BY <2>3 DEF TakeLifecycle
  <2>4. CASE Finish(t)
    BY <2>4 DEF Finish
  <2>5. CASE DropActivity(t)
    BY <2>5 DEF DropActivity
  <2>6. CASE Notify(t)
    BY <2>6 DEF Notify, NotifyOne
  <2>7. CASE Release(t)
    BY <2>7 DEF Release
  <2>8. QED
    BY <1>3, <2>1, <2>2, <2>3, <2>4, <2>5, <2>6, <2>7 DEF CallStep
<1>4. ASSUME NEW t \in Tasks, MutationStep(t)
      PROVE  ClosedInv'
  <2>1. CASE LockMutex(t)
    BY <2>1 DEF LockMutex
  <2>2. CASE Retire(t)
    BY <2>2 DEF Retire
  <2>3. CASE Drain(t)
    BY <2>3 DEF Drain
  <2>4. CASE Poll(t)
    BY <2>4 DEF Poll
  <2>5. CASE Woken(t)
    BY <2>5 DEF Woken
  <2>6. CASE LockRetired(t)
    BY <2>6 DEF LockRetired, Reopen
  <2>7. CASE Decide(t)
    BY <2>7 DEF Decide, Reopen
  <2>8. CASE Shutdown(t)
    BY <2>8 DEF Shutdown
  <2>9. CASE Unlist(t)
    BY <2>9 DEF Unlist, Reopen
  <2>10. CASE Publish(t)
    BY <2>10, BoundsAssumption DEF Publish, FreshInv, EntryIsStable, Incarnations
  <2>11. CASE Sync(t)
    BY <2>11 DEF Sync
  <2>12. CASE SyncDone(t)
    BY <2>12 DEF SyncDone
  <2>13. CASE Swap(t)
    BY <2>13 DEF Swap
  <2>14. QED
    BY <1>4, <2>1, <2>2, <2>3, <2>4, <2>5, <2>6, <2>7, <2>8, <2>9, <2>10, <2>11,
       <2>12, <2>13 DEF MutationStep
<1>5. ASSUME NEW t \in Tasks, Cancel(t)
      PROVE  ClosedInv'
  BY <1>5 DEF Cancel, Reopen
<1>6. CASE UNCHANGED vars
  BY <1>6 DEF vars
<1>7. QED
  BY <1>1, <1>2, <1>3, <1>4, <1>5, <1>6 DEF Next, Step

\* Only the holder of the coordinator writes the entry.
LEMMA EntryIsStableNext ==
    ASSUME TypeOK, MutexInv, EntryIsStable, [Next]_vars
    PROVE  EntryIsStable'
<1> USE DEF TypeOK, MutexInv, EntryIsStable, HoldPoints, MutationPoints, DrainPoints,
            SyncPoints, SyncingPoints
<1>1. ASSUME NEW t \in Tasks, NEW use \in Uses, Obtain(t, use)
      PROVE  EntryIsStable'
  BY <1>1 DEF Obtain
<1>2. ASSUME NEW t \in Tasks, NEW mutation \in Mutations, Mutate(t, mutation)
      PROVE  EntryIsStable'
  BY <1>2 DEF Mutate
<1>3. ASSUME NEW t \in Tasks, CallStep(t)
      PROVE  EntryIsStable'
  <2>1. CASE AddActivity(t)
    BY <2>1 DEF AddActivity
  <2>2. CASE CheckRetired(t)
    BY <2>2 DEF CheckRetired
  <2>3. CASE TakeLifecycle(t)
    BY <2>3 DEF TakeLifecycle
  <2>4. CASE Finish(t)
    BY <2>4 DEF Finish
  <2>5. CASE DropActivity(t)
    BY <2>5 DEF DropActivity
  <2>6. CASE Notify(t)
    BY <2>6 DEF Notify, NotifyOne
  <2>7. CASE Release(t)
    BY <2>7 DEF Release
  <2>8. QED
    BY <1>3, <2>1, <2>2, <2>3, <2>4, <2>5, <2>6, <2>7 DEF CallStep
<1>4. ASSUME NEW t \in Tasks, MutationStep(t)
      PROVE  EntryIsStable'
  <2>1. CASE LockMutex(t)
    BY <2>1 DEF LockMutex
  <2>2. CASE Retire(t)
    BY <2>2 DEF Retire
  <2>3. CASE Drain(t)
    BY <2>3 DEF Drain
  <2>4. CASE Poll(t)
    BY <2>4 DEF Poll
  <2>5. CASE Woken(t)
    BY <2>5 DEF Woken
  <2>6. CASE LockRetired(t)
    BY <2>6 DEF LockRetired, Reopen
  <2>7. CASE Decide(t)
    BY <2>7 DEF Decide, Reopen
  <2>8. CASE Shutdown(t)
    BY <2>8 DEF Shutdown
  <2>9. CASE Unlist(t)
    BY <2>9 DEF Unlist, Reopen
  <2>10. CASE Publish(t)
    BY <2>10 DEF Publish
  <2>11. CASE Sync(t)
    BY <2>11 DEF Sync
  <2>12. CASE SyncDone(t)
    BY <2>12 DEF SyncDone
  <2>13. CASE Swap(t)
    BY <2>13 DEF Swap
  <2>14. QED
    BY <1>4, <2>1, <2>2, <2>3, <2>4, <2>5, <2>6, <2>7, <2>8, <2>9, <2>10, <2>11,
       <2>12, <2>13 DEF MutationStep
<1>5. ASSUME NEW t \in Tasks, Cancel(t)
      PROVE  EntryIsStable'
  BY <1>5 DEF Cancel, Reopen
<1>6. CASE UNCHANGED vars
  BY <1>6 DEF vars
<1>7. QED
  BY <1>1, <1>2, <1>3, <1>4, <1>5, <1>6 DEF Next, Step

\* A drained runtime stays empty: late callers see the closed admission.
LEMMA EmptyInvNext ==
    ASSUME TypeOK, KindInv, CountInv, ClosedInv, EmptyInv, [Next]_vars
    PROVE  EmptyInv'
<1> USE DEF TypeOK, KindInv, EmptyInv, EmptyPoints, Admitted
<1>1. ASSUME NEW t \in Tasks, NEW use \in Uses, Obtain(t, use)
      PROVE  EmptyInv'
  BY <1>1 DEF Obtain
<1>2. ASSUME NEW t \in Tasks, NEW mutation \in Mutations, Mutate(t, mutation)
      PROVE  EmptyInv'
  BY <1>2 DEF Mutate
<1>3. ASSUME NEW t \in Tasks, CallStep(t)
      PROVE  EmptyInv'
  <2>1. CASE AddActivity(t)
    BY <2>1 DEF AddActivity
  <2>2. CASE CheckRetired(t)
    BY <2>2 DEF CheckRetired, ClosedInv, ClosedPoints
  <2>3. CASE TakeLifecycle(t)
    BY <2>3 DEF TakeLifecycle
  <2>4. CASE Finish(t)
    BY <2>4 DEF Finish
  <2>5. CASE DropActivity(t)
    BY <2>5 DEF DropActivity
  <2>6. CASE Notify(t)
    BY <2>6 DEF Notify, NotifyOne
  <2>7. CASE Release(t)
    BY <2>7 DEF Release
  <2>8. QED
    BY <1>3, <2>1, <2>2, <2>3, <2>4, <2>5, <2>6, <2>7 DEF CallStep
<1>4. ASSUME NEW t \in Tasks, MutationStep(t)
      PROVE  EmptyInv'
  <2>1. CASE LockMutex(t)
    BY <2>1 DEF LockMutex
  <2>2. CASE Retire(t)
    BY <2>2 DEF Retire
  <2>3. CASE Drain(t)
    <3>1. CASE active[inc[t]] = 0
      <4>1. Callers(inc[t]) = {}
        BY <2>3, <3>1, CallersFinite, FS_EmptySet
           DEF Drain, CountInv, HoldPoints, MutationPoints, DrainPoints
      <4>2. \A u \in Tasks : Admitted(u) => inc[u] # inc[t]
        BY <4>1 DEF Callers, Counted
      <4>3. QED
        BY <2>3, <4>2 DEF Drain
    <3>2. CASE active[inc[t]] # 0
      BY <2>3, <3>2 DEF Drain
    <3>3. QED
      BY <3>1, <3>2
  <2>4. CASE Poll(t)
    BY <2>4 DEF Poll
  <2>5. CASE Woken(t)
    BY <2>5 DEF Woken
  <2>6. CASE LockRetired(t)
    BY <2>6 DEF LockRetired, Reopen
  <2>7. CASE Decide(t)
    BY <2>7 DEF Decide, Reopen
  <2>8. CASE Shutdown(t)
    BY <2>8 DEF Shutdown
  <2>9. CASE Unlist(t)
    BY <2>9 DEF Unlist, Reopen
  <2>10. CASE Publish(t)
    BY <2>10 DEF Publish
  <2>11. CASE Sync(t)
    <3>1. pc'[t] \notin EmptyPoints \cup {"lock", "run"}
      BY <2>11 DEF Sync, SyncPoints
    <3>2. QED
      BY <2>11, <3>1 DEF Sync
  <2>12. CASE SyncDone(t)
    BY <2>12 DEF SyncDone
  <2>13. CASE Swap(t)
    BY <2>13 DEF Swap
  <2>14. QED
    BY <1>4, <2>1, <2>2, <2>3, <2>4, <2>5, <2>6, <2>7, <2>8, <2>9, <2>10, <2>11,
       <2>12, <2>13 DEF MutationStep
<1>5. ASSUME NEW t \in Tasks, Cancel(t)
      PROVE  EmptyInv'
  BY <1>5 DEF Cancel, Reopen
<1>6. CASE UNCHANGED vars
  BY <1>6 DEF vars
<1>7. QED
  BY <1>1, <1>2, <1>3, <1>4, <1>5, <1>6 DEF Next, Step

\* Callers are counted in and out exactly once.
LEMMA CountInvNext ==
    ASSUME TypeOK, KindInv, CountInv, [Next]_vars
    PROVE  CountInv'
<1> USE SameCount DEF TypeOK, KindInv, Counted, CallPoints, MutationPoints, DrainPoints,
        SyncPoints, SyncingPoints, Uses, Mutations
<1>1. ASSUME NEW t \in Tasks, NEW use \in Uses, Obtain(t, use)
      PROVE  CountInv'
  BY <1>1 DEF Obtain
<1>2. ASSUME NEW t \in Tasks, NEW mutation \in Mutations, Mutate(t, mutation)
      PROVE  CountInv'
  BY <1>2 DEF Mutate
<1>3. ASSUME NEW t \in Tasks, CallStep(t)
      PROVE  CountInv'
  <2>1. CASE AddActivity(t)
    <3>1. PICK i \in Incarnations : i = inc[t]
      BY <2>1 DEF AddActivity
    <3>2. /\ t \notin Callers(i)
          /\ Callers(i)' = Callers(i) \cup {t}
          /\ \A j \in Incarnations \ {i} : Callers(j)' = Callers(j)
      BY <2>1, <3>1 DEF AddActivity, Callers
    <3>3. Cardinality(Callers(i) \cup {t}) = Cardinality(Callers(i)) + 1
      BY <3>2, CallersFinite, FS_AddElement
    <3>4. active' = [active EXCEPT ![i] = Cardinality(Callers(i)')]
      BY <2>1, <3>1, <3>2, <3>3 DEF AddActivity, CountInv
    <3>5. ASSUME NEW j \in Incarnations
          PROVE  active'[j] = Cardinality(Callers(j)')
      <4>1. CASE j = i
        BY <3>4, <4>1
      <4>2. CASE j # i
        BY <3>2, <3>4, <4>2 DEF CountInv
      <4>3. QED
        BY <4>1, <4>2
    <3>6. QED
      BY <3>5 DEF CountInv
  <2>2. CASE CheckRetired(t)
    BY <2>2 DEF CheckRetired
  <2>3. CASE TakeLifecycle(t)
    BY <2>3 DEF TakeLifecycle
  <2>4. CASE Finish(t)
    BY <2>4 DEF Finish
  <2>5. CASE DropActivity(t)
    <3>1. PICK i \in Incarnations : i = inc[t]
      BY <2>5 DEF DropActivity
    <3>2. /\ t \in Callers(i)
          /\ Callers(i)' = Callers(i) \ {t}
          /\ \A j \in Incarnations \ {i} : Callers(j)' = Callers(j)
      BY <2>5, <3>1 DEF DropActivity, Callers
    <3>3. Cardinality(Callers(i) \ {t}) = Cardinality(Callers(i)) - 1
      BY <3>2, CallersFinite, FS_RemoveElement
    <3>4. active' = [active EXCEPT ![i] = Cardinality(Callers(i)')]
      BY <2>5, <3>1, <3>2, <3>3 DEF DropActivity, CountInv
    <3>5. ASSUME NEW j \in Incarnations
          PROVE  active'[j] = Cardinality(Callers(j)')
      <4>1. CASE j = i
        BY <3>4, <4>1
      <4>2. CASE j # i
        BY <3>2, <3>4, <4>2 DEF CountInv
      <4>3. QED
        BY <4>1, <4>2
    <3>6. QED
      BY <3>5 DEF CountInv
  <2>6. CASE Notify(t)
    BY <2>6 DEF Notify, NotifyOne
  <2>7. CASE Release(t)
    BY <2>7 DEF Release
  <2>8. QED
    BY <1>3, <2>1, <2>2, <2>3, <2>4, <2>5, <2>6, <2>7 DEF CallStep
<1>4. ASSUME NEW t \in Tasks, MutationStep(t)
      PROVE  CountInv'
  <2>1. CASE LockMutex(t)
    BY <2>1 DEF LockMutex
  <2>2. CASE Retire(t)
    BY <2>2 DEF Retire
  <2>3. CASE Drain(t)
    BY <2>3 DEF Drain
  <2>4. CASE Poll(t)
    BY <2>4 DEF Poll
  <2>5. CASE Woken(t)
    BY <2>5 DEF Woken
  <2>6. CASE LockRetired(t)
    BY <2>6 DEF LockRetired, Reopen
  <2>7. CASE Decide(t)
    BY <2>7 DEF Decide, Reopen
  <2>8. CASE Shutdown(t)
    BY <2>8 DEF Shutdown
  <2>9. CASE Unlist(t)
    BY <2>9 DEF Unlist, Reopen
  <2>10. CASE Publish(t)
    BY <2>10 DEF Publish
  <2>11. CASE Sync(t)
    BY <2>11 DEF Sync
  <2>12. CASE SyncDone(t)
    BY <2>12 DEF SyncDone
  <2>13. CASE Swap(t)
    BY <2>13 DEF Swap
  <2>14. QED
    BY <1>4, <2>1, <2>2, <2>3, <2>4, <2>5, <2>6, <2>7, <2>8, <2>9, <2>10, <2>11,
       <2>12, <2>13 DEF MutationStep
<1>5. ASSUME NEW t \in Tasks, Cancel(t)
      PROVE  CountInv'
  BY <1>5 DEF Cancel, Reopen
<1>6. CASE UNCHANGED vars
  BY <1>6 DEF vars
<1>7. QED
  BY <1>1, <1>2, <1>3, <1>4, <1>5, <1>6 DEF Next, Step

\* A failed shutdown reopens only a runtime that was not torn down.
LEMMA TornInvNext ==
    ASSUME TypeOK, KindInv, FreshInv, MutexInv, ClosedInv, EntryIsStable, TornInv,
           [Next]_vars
    PROVE  TornInv'
<1> USE DEF TypeOK, MutexInv, TornInv, EntryIsStable, HoldPoints, MutationPoints,
            DrainPoints, SyncPoints, SyncingPoints
<1>1. ASSUME NEW t \in Tasks, NEW use \in Uses, Obtain(t, use)
      PROVE  TornInv'
  BY <1>1 DEF Obtain
<1>2. ASSUME NEW t \in Tasks, NEW mutation \in Mutations, Mutate(t, mutation)
      PROVE  TornInv'
  BY <1>2 DEF Mutate
<1>3. ASSUME NEW t \in Tasks, CallStep(t)
      PROVE  TornInv'
  <2>1. CASE AddActivity(t)
    BY <2>1 DEF AddActivity
  <2>2. CASE CheckRetired(t)
    BY <2>2 DEF CheckRetired
  <2>3. CASE TakeLifecycle(t)
    BY <2>3 DEF TakeLifecycle
  <2>4. CASE Finish(t)
    BY <2>4 DEF Finish
  <2>5. CASE DropActivity(t)
    BY <2>5 DEF DropActivity
  <2>6. CASE Notify(t)
    BY <2>6 DEF Notify, NotifyOne
  <2>7. CASE Release(t)
    BY <2>7 DEF Release
  <2>8. QED
    BY <1>3, <2>1, <2>2, <2>3, <2>4, <2>5, <2>6, <2>7 DEF CallStep
<1>4. ASSUME NEW t \in Tasks, MutationStep(t)
      PROVE  TornInv'
  <2>1. CASE LockMutex(t)
    BY <2>1 DEF LockMutex
  <2>2. CASE Retire(t)
    BY <2>2 DEF Retire
  <2>3. CASE Drain(t)
    BY <2>3 DEF Drain
  <2>4. CASE Poll(t)
    BY <2>4 DEF Poll
  <2>5. CASE Woken(t)
    BY <2>5 DEF Woken
  <2>6. CASE LockRetired(t)
    <3>1. CASE Reopen(t)
      <4>1. inc[t] = entry /\ ~(entry # 0 /\ torn[entry])
        BY <2>6 DEF LockRetired
      <4>2. QED
        BY <2>6, <3>1, <4>1 DEF LockRetired, Reopen, Incarnations
    <3>2. CASE ~Reopen(t)
      BY <2>6, <3>2 DEF LockRetired
    <3>3. QED
      BY <2>6, <3>1, <3>2 DEF LockRetired
  <2>7. CASE Decide(t)
    <3>1. CASE Reopen(t)
      <4>1. inc[t] = entry /\ ~(entry # 0 /\ torn[entry])
        BY <2>7 DEF Decide
      <4>2. QED
        BY <2>7, <3>1, <4>1 DEF Decide, Reopen, Incarnations
    <3>2. CASE ~Reopen(t)
      BY <2>7, <3>2 DEF Decide
    <3>3. QED
      BY <2>7, <3>1, <3>2 DEF Decide
  <2>8. CASE Shutdown(t)
    <3>1. retired[inc[t]] /\ inc[t] = entry /\ inc[t] \in Incarnations
      BY <2>8 DEF Shutdown, KindInv, ClosedInv, ClosedPoints, EmptyPoints
    <3>2. QED
      BY <2>8, <3>1 DEF Shutdown
  <2>9. CASE Unlist(t)
    BY <2>9 DEF Unlist, Reopen
  <2>10. CASE Publish(t)
    BY <2>10, BoundsAssumption DEF Publish, FreshInv, Incarnations
  <2>11. CASE Sync(t)
    BY <2>11 DEF Sync
  <2>12. CASE SyncDone(t)
    BY <2>12 DEF SyncDone
  <2>13. CASE Swap(t)
    BY <2>13 DEF Swap
  <2>14. QED
    BY <1>4, <2>1, <2>2, <2>3, <2>4, <2>5, <2>6, <2>7, <2>8, <2>9, <2>10, <2>11,
       <2>12, <2>13 DEF MutationStep
<1>5. ASSUME NEW t \in Tasks, Cancel(t)
      PROVE  TornInv'
  <2>1. CASE pc[t] = "mutex"
    BY <1>5, <2>1 DEF Cancel
  <2>2. CASE pc[t] # "mutex"
    <3>1. inc[t] = entry /\ ~(entry # 0 /\ torn[entry])
      BY <1>5, <2>2 DEF Cancel
    <3>2. Reopen(t) /\ UNCHANGED <<entry, torn>>
      BY <1>5, <2>2 DEF Cancel
    <3>3. QED
      BY <3>1, <3>2 DEF Reopen, Incarnations
  <2>3. QED
    BY <2>1, <2>2
<1>6. CASE UNCHANGED vars
  BY <1>6 DEF vars
<1>7. QED
  BY <1>1, <1>2, <1>3, <1>4, <1>5, <1>6 DEF Next, Step

\* Nobody is in a runtime when it is torn down, and nobody enters it later.
LEMMA NeverRunsTornDownNext ==
    ASSUME TypeOK, KindInv, LockInv, EmptyInv, TornInv, NeverRunsTornDown, [Next]_vars
    PROVE  NeverRunsTornDown'
<1> USE DEF TypeOK, NeverRunsTornDown, Using, SyncingPoints
<1>1. ASSUME NEW t \in Tasks, NEW use \in Uses, Obtain(t, use)
      PROVE  NeverRunsTornDown'
  BY <1>1 DEF Obtain
<1>2. ASSUME NEW t \in Tasks, NEW mutation \in Mutations, Mutate(t, mutation)
      PROVE  NeverRunsTornDown'
  BY <1>2 DEF Mutate
<1>3. ASSUME NEW t \in Tasks, CallStep(t)
      PROVE  NeverRunsTornDown'
  <2>1. CASE AddActivity(t)
    BY <2>1 DEF AddActivity
  <2>2. CASE CheckRetired(t)
    BY <2>2 DEF CheckRetired, KindInv, TornInv, CallPoints
  <2>3. CASE TakeLifecycle(t)
    BY <2>3 DEF TakeLifecycle, KindInv, TornInv, CallPoints
  <2>4. CASE Finish(t)
    BY <2>4 DEF Finish
  <2>5. CASE DropActivity(t)
    BY <2>5 DEF DropActivity
  <2>6. CASE Notify(t)
    BY <2>6 DEF Notify, NotifyOne
  <2>7. CASE Release(t)
    BY <2>7 DEF Release
  <2>8. QED
    BY <1>3, <2>1, <2>2, <2>3, <2>4, <2>5, <2>6, <2>7 DEF CallStep
<1>4. ASSUME NEW t \in Tasks, MutationStep(t)
      PROVE  NeverRunsTornDown'
  <2>1. CASE LockMutex(t)
    BY <2>1 DEF LockMutex
  <2>2. CASE Retire(t)
    BY <2>2 DEF Retire
  <2>3. CASE Drain(t)
    BY <2>3 DEF Drain
  <2>4. CASE Poll(t)
    BY <2>4 DEF Poll
  <2>5. CASE Woken(t)
    BY <2>5 DEF Woken
  <2>6. CASE LockRetired(t)
    BY <2>6 DEF LockRetired, Reopen
  <2>7. CASE Decide(t)
    BY <2>7 DEF Decide, Reopen
  <2>8. CASE Shutdown(t)
    <3>1. HoldsLock(t) /\ pc[t] \in EmptyPoints
      BY <2>8 DEF Shutdown, HoldsLock, LockPoints, EmptyPoints
    <3>2. \A u \in Tasks : Using(u) => Admitted(u) \/ HoldsLock(u)
      BY DEF KindInv, Uses, Admitted, HoldsLock, LockPoints
    <3>3. \A u \in Tasks : Using(u) /\ u # t => inc[u] # inc[t]
      BY <3>1, <3>2 DEF LockInv, EmptyInv
    <3>4. QED
      BY <2>8, <3>3 DEF Shutdown
  <2>9. CASE Unlist(t)
    BY <2>9 DEF Unlist, Reopen
  <2>10. CASE Publish(t)
    BY <2>10 DEF Publish
  <2>11. CASE Sync(t)
    BY <2>11 DEF Sync, KindInv, TornInv, HoldPoints, MutationPoints, SyncPoints
  <2>12. CASE SyncDone(t)
    BY <2>12 DEF SyncDone
  <2>13. CASE Swap(t)
    BY <2>13 DEF Swap
  <2>14. QED
    BY <1>4, <2>1, <2>2, <2>3, <2>4, <2>5, <2>6, <2>7, <2>8, <2>9, <2>10, <2>11,
       <2>12, <2>13 DEF MutationStep
<1>5. ASSUME NEW t \in Tasks, Cancel(t)
      PROVE  NeverRunsTornDown'
  BY <1>5 DEF Cancel, Reopen
<1>6. CASE UNCHANGED vars
  BY <1>6 DEF vars
<1>7. QED
  BY <1>1, <1>2, <1>3, <1>4, <1>5, <1>6 DEF Next, Step

\* An entry is removed or replaced after its runtime was torn down.
LEMMA UnlistedIsTornDownNext ==
    ASSUME TypeOK, EntryIsStable, TornInv, FreshInv, UnlistedIsTornDown, [Next]_vars
    PROVE  UnlistedIsTornDown'
<1> USE DEF TypeOK, UnlistedIsTornDown, Incarnations
<1>1. ASSUME NEW t \in Tasks, NEW use \in Uses, Obtain(t, use)
      PROVE  UnlistedIsTornDown'
  BY <1>1 DEF Obtain
<1>2. ASSUME NEW t \in Tasks, NEW mutation \in Mutations, Mutate(t, mutation)
      PROVE  UnlistedIsTornDown'
  BY <1>2 DEF Mutate
<1>3. ASSUME NEW t \in Tasks, CallStep(t)
      PROVE  UnlistedIsTornDown'
  <2>1. CASE AddActivity(t)
    BY <2>1 DEF AddActivity
  <2>2. CASE CheckRetired(t)
    BY <2>2 DEF CheckRetired
  <2>3. CASE TakeLifecycle(t)
    BY <2>3 DEF TakeLifecycle
  <2>4. CASE Finish(t)
    BY <2>4 DEF Finish
  <2>5. CASE DropActivity(t)
    BY <2>5 DEF DropActivity
  <2>6. CASE Notify(t)
    BY <2>6 DEF Notify, NotifyOne
  <2>7. CASE Release(t)
    BY <2>7 DEF Release
  <2>8. QED
    BY <1>3, <2>1, <2>2, <2>3, <2>4, <2>5, <2>6, <2>7 DEF CallStep
<1>4. ASSUME NEW t \in Tasks, MutationStep(t)
      PROVE  UnlistedIsTornDown'
  <2>1. CASE LockMutex(t)
    BY <2>1 DEF LockMutex
  <2>2. CASE Retire(t)
    BY <2>2 DEF Retire
  <2>3. CASE Drain(t)
    BY <2>3 DEF Drain
  <2>4. CASE Poll(t)
    BY <2>4 DEF Poll
  <2>5. CASE Woken(t)
    BY <2>5 DEF Woken
  <2>6. CASE LockRetired(t)
    BY <2>6 DEF LockRetired, Reopen
  <2>7. CASE Decide(t)
    BY <2>7 DEF Decide, Reopen
  <2>8. CASE Shutdown(t)
    BY <2>8 DEF Shutdown
  <2>9. CASE Unlist(t)
    BY <2>9 DEF Unlist, Reopen, TornInv
  <2>10. CASE Publish(t)
    BY <2>10, BoundsAssumption DEF Publish, TornInv, EntryIsStable, MutationPoints, FreshInv
  <2>11. CASE Sync(t)
    BY <2>11 DEF Sync
  <2>12. CASE SyncDone(t)
    BY <2>12 DEF SyncDone
  <2>13. CASE Swap(t)
    BY <2>13 DEF Swap
  <2>14. QED
    BY <1>4, <2>1, <2>2, <2>3, <2>4, <2>5, <2>6, <2>7, <2>8, <2>9, <2>10, <2>11,
       <2>12, <2>13 DEF MutationStep
<1>5. ASSUME NEW t \in Tasks, Cancel(t)
      PROVE  UnlistedIsTornDown'
  BY <1>5 DEF Cancel, Reopen
<1>6. CASE UNCHANGED vars
  BY <1>6 DEF vars
<1>7. QED
  BY <1>1, <1>2, <1>3, <1>4, <1>5, <1>6 DEF Next, Step

-----------------------------------------------------------------------------
\* The registry as loaded satisfies the inductive invariant.
LEMMA InitInv == Init => IInv
<1> SUFFICES ASSUME Init PROVE IInv
  OBVIOUS
<1>1. TypeOK /\ FreshInv
  BY BoundsAssumption DEF Init, TypeOK, FreshInv, Incarnations, Points
<1>2. CountInv
  <2>1. \A i \in Incarnations : Callers(i) = {}
    BY DEF Init, Callers, Counted
  <2>2. QED
    BY <2>1, FS_EmptySet DEF Init, CountInv
<1>3. KindInv /\ CoordInv /\ MutexInv /\ LockInv /\ EntryIsStable /\ EmptyInv
  BY DEF Init, KindInv, CoordInv, MutexInv, LockInv, HoldsLock, EntryIsStable, EmptyInv,
         CallPoints, MutationPoints, DrainPoints, SyncPoints, SyncingPoints,
         HoldPoints, LockPoints, EmptyPoints
<1>4. ClosedInv /\ TornInv /\ NeverRunsTornDown /\ UnlistedIsTornDown
  BY BoundsAssumption
     DEF Init, ClosedInv, TornInv, NeverRunsTornDown, UnlistedIsTornDown, Using,
         SyncingPoints, Incarnations, ClosedPoints, EmptyPoints, DrainPoints
<1>5. QED
  BY <1>1, <1>2, <1>3, <1>4 DEF IInv

\* Every step preserves the inductive invariant.
LEMMA NextInv == IInv /\ [Next]_vars => IInv'
  BY TypeOKNext, KindInvNext, FreshInvNext, CoordInvNext, MutexInvNext, LockInvNext,
     ClosedInvNext, EntryIsStableNext, EmptyInvNext, CountInvNext, TornInvNext,
     NeverRunsTornDownNext, UnlistedIsTornDownNext
     DEF IInv

\* The registry, its runtimes and the tasks in them stay within their types: in
\* particular active_operations never underflows.
THEOREM TypeCorrect == Spec => []TypeOK
<1>1. IInv => TypeOK
  BY DEF IInv
<1>2. QED
  BY <1>1, InitInv, NextInv, PTL DEF Spec

\* Between the end of a runtime's drain and the end of its teardown no counted
\* caller is in it.
THEOREM DrainHolds == Spec => []DrainedBeforeTeardown
<1>1. IInv => DrainedBeforeTeardown
  BY DEF IInv, DrainedBeforeTeardown, EmptyInv, EmptyPoints
<1>2. QED
  BY <1>1, InitInv, NextInv, PTL DEF Spec

\* No clone of a runtime handle, however old, works on a torn down SDK.
THEOREM NoUseAfterTeardown == Spec => []NeverRunsTornDown
<1>1. IInv => NeverRunsTornDown
  BY DEF IInv
<1>2. QED
  BY <1>1, InitInv, NextInv, PTL DEF Spec

\* A listed runtime is closed only while a mutator is retiring it.
THEOREM ClosedOnlyWhileMutated == Spec => []ClosedHasMutator
<1>1. IInv => ClosedHasMutator
  BY DEF IInv, ClosedHasMutator, ClosedInv, ClosedPoints, EmptyPoints, MutationPoints
<1>2. QED
  BY <1>1, InitInv, NextInv, PTL DEF Spec

\* The entry a mutator read is the entry it writes.
THEOREM StableEntry == Spec => []EntryIsStable
<1>1. IInv => EntryIsStable
  BY DEF IInv
<1>2. QED
  BY <1>1, InitInv, NextInv, PTL DEF Spec

\* No runtime without an entry is left running.
THEOREM NothingLeaks == Spec => []UnlistedIsTornDown
<1>1. IInv => UnlistedIsTornDown
  BY DEF IInv
<1>2. QED
  BY <1>1, InitInv, NextInv, PTL DEF Spec
=============================================================================
