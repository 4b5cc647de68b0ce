------------------------------ MODULE SkillPackages ------------------------------
(***************************************************************************)
(* Remote changes of one user Skill (client_control/package.rs).  A Robot  *)
(* creates, updates or deletes the package, a directory of the Computer's  *)
(* Skill Home.  Every change prepares a transaction directory beside it,   *)
(* commits by a rename, and removes the directory; a change that finds     *)
(* directories of earlier ones, and the start of the application, recover  *)
(* from them first.  The application may stop between any two steps, and a *)
(* rename or a removal may fail.                                           *)
(*                                                                         *)
(* The change runs on a blocking thread.  Its caller, a tool call of the   *)
(* SDK, holds the lock of the package and may be dropped: the lock is then *)
(* free and the thread goes on.                                            *)
(***************************************************************************)
EXTENDS Naturals, FiniteSets

CONSTANTS
    MaxMutations,  \* bounds the changes; the n-th writes content n
    MaxFaults      \* bounds the stops of the application, the removals and recoveries that
                   \* give up, and the callers that are dropped

\* What the module assumes of its constants.
SkillAssumption ==
    MaxMutations \in Nat /\ MaxFaults \in Nat

Mutations == 1..MaxMutations
Startup == 0                      \* recovery when the application starts
Runners == {Startup} \cup Mutations
Nothing == 0
Original == MaxMutations + 1      \* the content there was before
Edited == MaxMutations + 2        \* a local edit
Contents == 1..Edited
Parts == {"record", "previous", "candidate", "deleted"}

VARIABLES
    skill,       \* user/<name>, Nothing when it does not exist
    dirs,        \* per change: the parts of its transaction directory, and what they hold
    mutation,    \* per runner: where it is, what it does, which revision it expects
    skillLock,   \* who holds the lock of the package
    committed,   \* the content of the last change that was committed
    replaced,    \* of changes that name a revision: <<that revision, what they replaced>>
    overlooked,  \* the directories that still held a content set aside when a later change
                 \* began, as their removal had given up
    faults

skillVars == <<skill, dirs, mutation, skillLock, committed, replaced, overlooked, faults>>

NoDir == [p \in {} |-> Nothing]
Free == 0
IdleMutation == [at |-> "idle", op |-> "none", expects |-> Nothing, seen |-> {}, sweeps |-> 0,
                 then |-> "none", caller |-> TRUE]

SkillInit ==
    /\ skill \in {Nothing, Original} /\ committed = skill
    /\ dirs = [m \in Mutations |-> NoDir]
    /\ mutation = [r \in Runners |-> IdleMutation]
    /\ skillLock = Free /\ replaced = {} /\ overlooked = {}
    /\ faults = 0

Running(r) == mutation[r].at \notin {"idle", "ended", "retained"}
NoneRuns == \A r \in Runners : ~Running(r) \/ mutation[r].at = "asked"
AppUp == ~Running(Startup)
Goes(r, step) == mutation' = [mutation EXCEPT ![r].at = step]

\* Removing directory t, then going on with a step.
Sweeps(r, t, next) ==
    mutation' = [mutation EXCEPT ![r].at = "sweep", ![r].sweeps = t, ![r].then = next]

PartsLeft(t) == DOMAIN dirs[t]
Holds(t, p) == IF p \in PartsLeft(t) THEN dirs[t][p] ELSE Nothing
With(t, p, c) == [q \in PartsLeft(t) \cup {p} |-> IF q = p THEN c ELSE dirs[t][q]]
Without(t, p) == [q \in PartsLeft(t) \ {p} |-> dirs[t][q]]

-----------------------------------------------------------------------------
(* A change is asked for and takes the lock *)

\* The caller may name the revision it read.  The changes of a behaviour are numbered as
\* they are asked for.
Ask(m) ==
    /\ AppUp /\ mutation[m].at = "idle" /\ \A n \in 1..(m - 1) : mutation[n].at # "idle"
    /\ \E op \in {"create", "update", "delete"}, expects \in {Nothing, skill} :
           /\ op = "create" => expects = Nothing
           /\ mutation' = [mutation EXCEPT ![m] =
                  [IdleMutation EXCEPT !.at = "asked", !.op = op, !.expects = expects]]
    /\ UNCHANGED <<skill, dirs, skillLock, committed, replaced, overlooked, faults>>

\* Mutant: the lock is not waited for.
TakeAnyway(m) ==
    /\ mutation[m].at = "asked"
    /\ skillLock' = m /\ Goes(m, "recover")
    /\ UNCHANGED <<skill, dirs, committed, replaced, overlooked, faults>>
TakeSkillLock(m) ==
    /\ mutation[m].at = "asked" /\ skillLock = Free
    /\ skillLock' = m /\ Goes(m, "recover")
    /\ UNCHANGED <<skill, dirs, committed, replaced, overlooked, faults>>

\* The caller is dropped; a change that waits for the lock is gone, one that runs goes on.
Abandon(m) ==
    /\ faults < MaxFaults /\ Running(m) /\ mutation[m].caller
    /\ faults' = faults + 1
    /\ mutation' = [mutation EXCEPT ![m].caller = FALSE,
                                    ![m].at = IF @ = "asked" THEN "ended" ELSE @]
    /\ skillLock' = IF skillLock = m THEN Free ELSE skillLock
    /\ UNCHANGED <<skill, dirs, committed, replaced, overlooked>>

Leave(m, state) ==
    /\ Goes(m, state)
    /\ skillLock' = IF skillLock = m THEN Free ELSE skillLock

-----------------------------------------------------------------------------
(* Recovery: every directory of this package in turn *)

\* A directory without a record counts when its previous content is a package of this name.
\* The start looks only for names that are recorded.
OfThisSkill(t) ==
    \/ "record" \in PartsLeft(t)
    \/ Holds(t, "previous") # Nothing
NameRecorded == \E t \in Mutations : "record" \in PartsLeft(t)

Unseen(r) == {t \in Mutations \ mutation[r].seen : OfThisSkill(t)}

\* Mutant: what was set aside is put back over what is there.
RecoverOver(r) ==
    /\ mutation[r].at = "recover"
    /\ \E t \in Unseen(r) :
           /\ skill' = IF Holds(t, "previous") # Nothing THEN Holds(t, "previous") ELSE skill
           /\ dirs' = IF Holds(t, "previous") # Nothing
                      THEN [dirs EXCEPT ![t] = Without(t, "previous")] ELSE dirs
           /\ mutation' = [mutation EXCEPT ![r].at = "sweep", ![r].sweeps = t,
                               ![r].then = "recover", ![r].seen = @ \cup {t}]
    /\ UNCHANGED <<skillLock, committed, replaced, overlooked, faults>>
Recover(r) ==
    /\ mutation[r].at = "recover"
    /\ \E t \in Unseen(r) :
           LET puts == Holds(t, "previous") # Nothing /\ skill = Nothing IN
           /\ skill' = IF puts THEN Holds(t, "previous") ELSE skill
           /\ dirs' = IF puts THEN [dirs EXCEPT ![t] = Without(t, "previous")] ELSE dirs
           /\ mutation' = [mutation EXCEPT ![r].at = "sweep", ![r].sweeps = t,
                               ![r].then = "recover", ![r].seen = @ \cup {t}]
    /\ UNCHANGED <<skillLock, committed, replaced, overlooked, faults>>

\* What was set aside cannot be put back: the change is refused.
RecoverFails(m) ==
    /\ mutation[m].at = "recover" /\ faults < MaxFaults /\ faults' = faults + 1
    /\ skill = Nothing /\ \E t \in Unseen(m) : Holds(t, "previous") # Nothing
    /\ Leave(m, "ended")
    /\ UNCHANGED <<skill, dirs, committed, replaced, overlooked>>

\* remove_dir_all: part after part in any order, and it may give up.
Sweep(r) ==
    /\ mutation[r].at = "sweep"
    /\ LET t == mutation[r].sweeps IN
       \/ \E p \in PartsLeft(t) :
              /\ dirs' = [dirs EXCEPT ![t] = Without(t, p)]
              /\ UNCHANGED <<mutation, skillLock, faults>>
       \/ /\ \/ PartsLeft(t) = {} /\ UNCHANGED faults
             \/ PartsLeft(t) # {} /\ faults < MaxFaults /\ faults' = faults + 1
          /\ UNCHANGED dirs
          /\ IF mutation[r].then = "end" THEN Leave(r, "ended")
             ELSE Goes(r, mutation[r].then) /\ UNCHANGED skillLock
    /\ UNCHANGED <<skill, committed, replaced, overlooked>>

StartupDone ==
    /\ mutation[Startup].at = "recover" /\ (Unseen(Startup) = {} \/ ~NameRecorded)
    /\ Goes(Startup, "ended")
    /\ UNCHANGED <<skill, dirs, skillLock, committed, replaced, overlooked, faults>>

-----------------------------------------------------------------------------
(* The change itself *)

\* What is there decides; then the transaction directory is begun.
Refused(m) ==
    \/ mutation[m].op = "create" /\ skill # Nothing
    \/ mutation[m].op # "create" /\ skill = Nothing
    \/ mutation[m].expects # Nothing /\ mutation[m].expects # skill

Examine(m) ==
    /\ m \in Mutations /\ mutation[m].at = "recover" /\ Unseen(m) = {}
    /\ IF Refused(m) THEN Leave(m, "ended") /\ UNCHANGED <<dirs, overlooked>>
       ELSE /\ Goes(m, IF mutation[m].op = "delete" THEN "commit" ELSE "prepare")
            /\ dirs' = [dirs EXCEPT ![m] = [p \in {"record"} |-> m]]
            /\ overlooked' = overlooked \cup {t \in Mutations : Holds(t, "previous") # Nothing}
            /\ UNCHANGED skillLock
    /\ UNCHANGED <<skill, committed, replaced, faults>>

\* The candidate is written, or is not a valid package.
Prepare(m) ==
    /\ mutation[m].at = "prepare"
    /\ \/ /\ PartsLeft(m) # {}
          /\ dirs' = [dirs EXCEPT ![m] = With(m, "candidate", m)]
          /\ Goes(m, IF mutation[m].op = "update" THEN "setAside" ELSE "commit")
       \/ Sweeps(m, m, "end") /\ UNCHANGED dirs
    /\ UNCHANGED <<skill, skillLock, committed, replaced, overlooked, faults>>

Replaces(m) ==
    replaced' = IF mutation[m].expects = Nothing THEN replaced
                ELSE replaced \cup {<<mutation[m].expects, skill>>}

\* update moves what is there aside, if it is still there.
SetAside(m) ==
    /\ mutation[m].at = "setAside"
    /\ \/ /\ skill # Nothing /\ PartsLeft(m) # {}
          /\ dirs' = [dirs EXCEPT ![m] = With(m, "previous", skill)]
          /\ skill' = Nothing /\ Replaces(m) /\ Goes(m, "commit")
       \/ Sweeps(m, m, "end") /\ UNCHANGED <<skill, dirs, replaced>>
    /\ UNCHANGED <<skillLock, committed, overlooked, faults>>

\* create and update move the candidate in; delete moves the package out.
Commit(m) ==
    /\ mutation[m].at = "commit"
    /\ IF mutation[m].op = "delete"
       THEN /\ skill # Nothing /\ PartsLeft(m) # {}
            /\ dirs' = [dirs EXCEPT ![m] = With(m, "deleted", skill)]
            /\ skill' = Nothing /\ committed' = Nothing /\ Replaces(m)
       ELSE /\ skill = Nothing /\ Holds(m, "candidate") # Nothing
            /\ dirs' = [dirs EXCEPT ![m] = Without(m, "candidate")]
            /\ skill' = m /\ committed' = m /\ UNCHANGED replaced
    /\ Sweeps(m, m, "end")
    /\ UNCHANGED <<skillLock, overlooked, faults>>

\* The rename fails.  An update puts back what it moved aside, and keeps its directory
\* for recovery when that fails too.
\* Mutant: the directory is removed either way.
SweepsAnyway(m) ==
    /\ mutation[m].at = "commit"
    /\ Sweeps(m, m, "end")
    /\ \/ /\ skill = Nothing /\ Holds(m, "previous") # Nothing
          /\ skill' = Holds(m, "previous")
          /\ dirs' = [dirs EXCEPT ![m] = Without(m, "previous")]
       \/ UNCHANGED <<skill, dirs>>
    /\ UNCHANGED <<skillLock, committed, replaced, overlooked, faults>>
CommitFails(m) ==
    /\ mutation[m].at = "commit"
    /\ IF mutation[m].op # "update"
       THEN Sweeps(m, m, "end") /\ UNCHANGED <<skill, dirs, skillLock>>
       ELSE \/ /\ skill = Nothing /\ Holds(m, "previous") # Nothing
               /\ skill' = Holds(m, "previous")
               /\ dirs' = [dirs EXCEPT ![m] = Without(m, "previous")]
               /\ Sweeps(m, m, "end") /\ UNCHANGED skillLock
            \/ Leave(m, "retained") /\ UNCHANGED <<skill, dirs>>
    /\ UNCHANGED <<committed, replaced, overlooked, faults>>

-----------------------------------------------------------------------------
(* Around it *)

\* The application stops, and recovers when it starts.
StopAndStart ==
    /\ faults < MaxFaults /\ faults' = faults + 1
    /\ mutation' = [r \in Runners |->
           IF r = Startup THEN [IdleMutation EXCEPT !.at = "recover"]
           ELSE IF mutation[r].at = "idle" THEN mutation[r]
           ELSE [mutation[r] EXCEPT !.at = "ended"]]
    /\ skillLock' = Free
    /\ UNCHANGED <<skill, dirs, committed, replaced, overlooked>>

\* The user edits the package in place.  Bound: not while a change runs, whose steps take
\* no notice of a file that is written under them.
LocalEdit ==
    /\ skill \notin {Nothing, Edited} /\ NoneRuns
    /\ skill' = Edited /\ committed' = Edited
    /\ UNCHANGED <<dirs, mutation, skillLock, replaced, overlooked, faults>>

SkillNext ==
    \/ StopAndStart \/ LocalEdit \/ StartupDone
    \/ \E r \in Runners : Recover(r) \/ Sweep(r)
    \/ \E m \in Mutations :
           \/ Ask(m) \/ TakeSkillLock(m) \/ Abandon(m) \/ RecoverFails(m) \/ Examine(m)
           \/ Prepare(m) \/ SetAside(m) \/ Commit(m) \/ CommitFails(m)

SkillSpec == SkillInit /\ [][SkillNext]_skillVars

-----------------------------------------------------------------------------
SkillTypeOK ==
    /\ skill \in {Nothing} \cup Contents /\ committed \in {Nothing} \cup Contents
    /\ \A m \in Mutations : PartsLeft(m) \subseteq Parts
    /\ skillLock \in {Free} \cup Mutations
    /\ \A r \in Runners :
           mutation[r].at \in {"idle", "asked", "recover", "sweep", "prepare", "setAside",
                               "commit", "ended", "retained"}

\* Whatever fails, and wherever the application stops: when nothing runs, the package is
\* the one of the last change that was committed, and absent after a deletion.  Only an
\* update that could not be undone leaves it out of sight until the next recovery, which
\* finds it.  A content that was set aside and not removed before another change began may
\* be taken for the present one by a later recovery, which knows no order of the
\* directories; so the statement ends there.
SkillSurvives ==
    NoneRuns /\ overlooked = {} =>
        \/ skill = committed
        \/ /\ skill = Nothing
           /\ \E m \in Mutations :
                  mutation[m].at = "retained" /\ Holds(m, "previous") = committed

\* A change that names a revision replaces that revision and no other, local edits and
\* other Robots included.
RevisionIsRespected == \A pair \in replaced : pair[1] = pair[2]

\* Both, where no caller was dropped.  A dropped caller frees the lock of a change that
\* still runs: the recovery of the next change removes its directory, and the revision it
\* checked may be gone when it commits.
SkillsHold ==
    (\A m \in Mutations : mutation[m].caller) => SkillSurvives /\ RevisionIsRespected

=============================================================================
