------------------------------ MODULE AppStart ------------------------------
(***************************************************************************)
(* Starting the application over what an earlier run left on disk: setup   *)
(* in run(), AppState and the registry's construction (lib.rs,             *)
(* services/computer/registry.rs).  A start goes through its stages in     *)
(* order; it may fail or be killed anywhere, and the next one begins from  *)
(* the disk as it is.  The stages over several Computers take them one by  *)
(* one.  What a migration, a discovery or a recovery does inside is the    *)
(* subject of ConfigMigration, ConfigStore, ConfigImport, SkillPackages.   *)
(***************************************************************************)
EXTENDS Naturals, FiniteSets

CONSTANTS Computers, MaxStarts

\* What the module assumes of its constants.
StartAssumption == IsFiniteSet(Computers) /\ MaxStarts \in Nat

VARIABLES
    disk,       \* what each Computer has on disk
    stage,      \* where the start is; "off", "running"
    todo,       \* the Computers the stage still has to take
    found,      \* the Computers of the first discovery
    loaded,     \* the Computers of the last discovery
    skipped,    \* the Computers a discovery left out
    runtimes,   \* the Computers the registry has a runtime of
    unsettled,  \* ghost: those whose runtime was built over something unfinished
    launches    \* counts the starts

startVars == <<disk, stage, todo, found, loaded, skipped, runtimes, unsettled, launches>>

\* Where a Computer's profile is; a server whose OAuth was switched off in a form that the
\* SDK does not know any more, or is disabled for it; an import and a change of a skill
\* that are not finished.
Stored == [home : {"legacy", "directory"}, optOut : {"none", "field", "disabled"},
           redo : BOOLEAN, skillOpen : BOOLEAN]
Finished(d) == d.optOut # "field" /\ ~d.redo /\ ~d.skillOpen
\* A legacy profile has no journals of its own.
Possible == {d \in Stored : d.home = "legacy" => ~d.redo /\ ~d.skillOpen}

StartInit ==
    /\ disk \in [Computers -> Possible]
    /\ stage = "off" /\ todo = {} /\ found = {} /\ loaded = {} /\ skipped = {}
    /\ runtimes = {} /\ unsettled = {} /\ launches = 0

Present == {c \in Computers : disk[c].home = "directory"}

\* A second instance only shows the window of the first.  Bound: MaxStarts.
Launch ==
    /\ stage = "off" /\ launches < MaxStarts
    /\ stage' = "migrate" /\ launches' = launches + 1
    /\ UNCHANGED <<disk, todo, found, loaded, skipped, runtimes, unsettled>>

\* An error of a stage ends the start; the user quits, or the application is killed.
Stop ==
    /\ stage # "off" /\ stage' = "off"
    /\ todo' = {} /\ found' = {} /\ loaded' = {} /\ skipped' = {}
    /\ runtimes' = {} /\ unsettled' = {}
    /\ UNCHANGED <<disk, launches>>

\* migrate_legacy_config takes all legacy profiles over.
MigrateLegacy ==
    /\ stage = "migrate" /\ stage' = "discover"
    /\ disk' = [c \in Computers |-> [disk[c] EXCEPT !.home = "directory"]]
    /\ UNCHANGED <<todo, found, loaded, skipped, runtimes, unsettled, launches>>

\* load_computer_instances leaves out a profile that cannot be read, with a warning.
Load(next) ==
    /\ \E unread \in SUBSET Present :
          loaded' = Present \ unread /\ skipped' = skipped \cup unread
    /\ stage' = next /\ todo' = loaded'
    /\ UNCHANGED <<disk, runtimes, unsettled, launches>>

Discover == stage = "discover" /\ Load("oauth") /\ found' = loaded'
Reload == stage = "reload" /\ Load("skills") /\ UNCHANGED found

Take(c) ==
    /\ c \in todo /\ todo' = todo \ {c}
    /\ UNCHANGED <<stage, found, loaded, skipped, runtimes, unsettled, launches>>

\* migrate_removed_http_oauth_fields: the server would negotiate OAuth now, so it is
\* disabled.
StripOAuth(c) ==
    /\ stage = "oauth" /\ Take(c)
    /\ disk' = [disk EXCEPT ![c].optOut = IF @ = "field" THEN "disabled" ELSE @]

\* recover_pending_config_imports
\* Mutant: an import that cannot be replayed is passed over.
PassOverImport(c) ==
    /\ stage = "imports" /\ Take(c)
    /\ disk' \in {disk, [disk EXCEPT ![c].redo = FALSE]}
RecoverImport(c) ==
    /\ stage = "imports" /\ Take(c)
    /\ disk' = [disk EXCEPT ![c].redo = FALSE]

\* recover_home
RecoverSkills(c) ==
    /\ stage = "skills" /\ Take(c)
    /\ disk' = [disk EXCEPT ![c].skillOpen = FALSE]

NextStage ==
    /\ todo = {}
    /\ \/ stage = "oauth" /\ stage' = "imports" /\ todo' = found
       \/ stage = "imports" /\ stage' = "reload" /\ UNCHANGED todo
       \/ stage = "skills" /\ stage' = "registry" /\ UNCHANGED todo
    /\ UNCHANGED <<disk, found, loaded, skipped, runtimes, unsettled, launches>>

\* from_config_with_skill_home_base_and_secret_store
BuildRegistry ==
    /\ stage = "registry" /\ stage' = "wire"
    /\ runtimes' = loaded /\ unsettled' = {c \in loaded : ~Finished(disk[c])}
    /\ UNCHANGED <<disk, todo, found, loaded, skipped, launches>>

\* Sinks, Client Control and the input bridge are bound, then the state is managed and
\* commands are answered.
Serve ==
    /\ stage = "wire" /\ stage' = "running"
    /\ UNCHANGED <<disk, todo, found, loaded, skipped, runtimes, unsettled, launches>>

\* A command begins and finishes what a stop would leave open.
Work(c) ==
    /\ stage = "running" /\ c \in runtimes
    /\ \/ \E b \in BOOLEAN : b # disk[c].redo /\ disk' = [disk EXCEPT ![c].redo = b]
       \/ \E b \in BOOLEAN : b # disk[c].skillOpen /\ disk' = [disk EXCEPT ![c].skillOpen = b]
    /\ UNCHANGED <<stage, todo, found, loaded, skipped, runtimes, unsettled, launches>>

StartNext ==
    \/ Launch \/ Stop \/ MigrateLegacy \/ Discover \/ Reload \/ NextStage \/ BuildRegistry
    \/ Serve
    \/ \E c \in Computers : StripOAuth(c) \/ RecoverImport(c) \/ RecoverSkills(c) \/ Work(c)

StartSpec == StartInit /\ [][StartNext]_startVars

-----------------------------------------------------------------------------
StartTypeOK ==
    /\ disk \in [Computers -> Stored]
    /\ stage \in {"off", "migrate", "discover", "oauth", "imports", "reload", "skills",
                  "registry", "wire", "running"}
    /\ \A s \in {todo, found, loaded, skipped, runtimes, unsettled} : s \subseteq Computers
    /\ launches \in 0..MaxStarts

\* Wherever earlier starts and runs ended, a runtime is built over finished imports, whole
\* skills and servers in the SDK's present form, for every Computer the start discovered.
RuntimesAreSettled == unsettled \cap found = {}

\* Commands are answered with a runtime for every Computer, those of before the migration
\* included, except the ones a discovery warned of.
NoComputerIsLost ==
    stage \in {"wire", "running"} => Computers \ skipped \subseteq runtimes

AppStartHolds == RuntimesAreSettled /\ NoComputerIsLost

\* The same of every runtime: a profile that could be read at the second discovery only
\* has a runtime, and nothing of it was recovered.
EveryRuntimeIsSettled == unsettled = {}

=============================================================================
