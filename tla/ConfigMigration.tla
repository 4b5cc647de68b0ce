---------------------------- MODULE ConfigMigration ----------------------------
(***************************************************************************)
(* The migration of the configuration before per-Computer directories      *)
(* (services/config_migration.rs): one file with all Computers, one with   *)
(* the connection targets and a Manager session in the settings.  It runs  *)
(* first thing at every start of the application, which does not come up   *)
(* when it fails.  It plans everything, writes the destinations, reads     *)
(* them back, leaves a marker, and only then archives the legacy files.    *)
(* A failure undoes the destinations written.  The application may stop    *)
(* between any two steps; the plan is lost with it and the next start      *)
(* plans again.                                                            *)
(*                                                                         *)
(* A destination holds nothing, the legacy content, or something else that *)
(* conflicts with it; an SDK configuration or a targets file that merely   *)
(* holds more is "none".  Replacing a Computer's directory is one step     *)
(* here (ConfigStore has the steps in it).                                 *)
(***************************************************************************)
EXTENDS Naturals, FiniteSets

CONSTANTS
    Legacy,         \* the ids of the legacy Computers
    MaxMigrations   \* bounds the starts of the application

\* What the module assumes of its constants.
ConfigMigrationAssumption == IsFiniteSet(Legacy) /\ MaxMigrations \in Nat

VARIABLES
    legacyFiles,    \* the two legacy files, and the session in the settings
    homes,          \* per Computer: its directory and its SDK configuration
    targetsFile,    \* the global manual targets
    marker,         \* the migration marker
    migration,      \* the run in progress
    ended,          \* how the last run ended
    starts,
    cutShort        \* a rollback was interrupted, or failed in part

migrationVars == <<legacyFiles, homes, targetsFile, marker, migration, ended, starts, cutShort>>

Content == {"none", "legacy", "other"}
Homes == [profile : Content \cup {"unreadable"}, sdk : Content]

\* The files a run writes: MigrationPlan, in the order of apply_plan.
Files == {<<"profile", c>> : c \in Legacy} \cup {<<"targets">>}
SdkConfigs == {<<"sdk", c>> : c \in Legacy}
NoRun == [at |-> "stopped", todo |-> {}, tried |-> {}, before |-> <<>>, failed |-> FALSE]

MigrationInit ==
    /\ legacyFiles \in [computers : {"here"}, targets : {"none", "here"}, session : BOOLEAN]
    /\ homes \in [Legacy -> [profile : Content, sdk : Content]]
    /\ targetsFile \in Content
    /\ marker = "none" /\ migration = NoRun /\ ended = "never"
    /\ starts = 0 /\ cutShort = FALSE

At(point) == migration.at = point
EndAs(outcome) == migration' = NoRun /\ ended' = outcome
HasLegacySource == "here" \in {legacyFiles.computers, legacyFiles.targets} \/ legacyFiles.session
LegacyTargets == legacyFiles.targets = "here"

-----------------------------------------------------------------------------
(* build_plan *)

\* discover_computer_instances reports a directory without a readable profile.
Undiscovered == \E c \in Legacy : homes[c].profile = "unreadable"

\* A destination that already holds the legacy content is accepted.
\* Mutant: any existing destination is a conflict.
ConflictsIfThere ==
    \/ Undiscovered
    \/ LegacyTargets /\ targetsFile # "none"
    \/ legacyFiles.computers = "here" /\ \E c \in Legacy : homes[c].profile # "none" \/ homes[c].sdk # "none"
Conflicts ==
    \/ Undiscovered
    \/ LegacyTargets /\ targetsFile = "other"
    \/ /\ legacyFiles.computers = "here"
       /\ \E c \in Legacy : "other" \in {homes[c].profile, homes[c].sdk}

\* Without legacy Computers or targets, what is there is written again.
Planned(file) == file = <<"targets">> \/ legacyFiles.computers = "here"

StartMigration ==
    /\ At("stopped") /\ starts < MaxMigrations /\ ended # "completed"
    /\ starts' = starts + 1
    /\ IF marker = "complete" THEN EndAs("completed")
       ELSE IF marker = "incomplete"
       THEN migration' = [NoRun EXCEPT !.at = "archive"] /\ UNCHANGED ended
       ELSE IF ~HasLegacySource THEN EndAs("completed")
       ELSE IF Conflicts THEN EndAs("conflict")
       ELSE /\ migration' = [at |-> "apply", todo |-> {f \in Files : Planned(f)}, tried |-> {},
                             failed |-> FALSE,
                             before |-> [homes |-> homes, targets |-> targetsFile]]
            /\ UNCHANGED ended
    /\ UNCHANGED <<legacyFiles, homes, targetsFile, marker, cutShort>>

-----------------------------------------------------------------------------
(* apply_plan and verify_plan *)

\* What the destinations hold once the file is written.
HomesWith(file, content) ==
    IF file[1] = "targets" THEN homes ELSE [homes EXCEPT ![file[2]][file[1]] = content]
TargetsWith(file, content) == IF file[1] = "targets" THEN content ELSE targetsFile

PlannedContent(file) ==
    IF file[1] = "targets" /\ ~LegacyTargets THEN targetsFile ELSE "legacy"

RollBackTo(todo) == [migration EXCEPT !.at = "undo_sdk", !.todo = todo]

\* Every directory, then the targets and the session, then every SDK configuration.
ApplyFile ==
    /\ At("apply")
    /\ \E file \in migration.todo :
           /\ file = <<"targets">> => migration.todo = {file}
           /\ \/ /\ homes' = HomesWith(file, PlannedContent(file))
                 /\ targetsFile' = TargetsWith(file, PlannedContent(file))
                 /\ migration' = IF migration.todo # {file}
                                 THEN [migration EXCEPT !.todo = @ \ {file}]
                                 ELSE [migration EXCEPT !.at = "apply_sdk",
                                           !.todo = {f \in SdkConfigs : Planned(f)}]
              \/ \* the save failed, or the save of the session after the targets
                 /\ migration' = RollBackTo({})
                 /\ \/ UNCHANGED <<homes, targetsFile>>
                    \/ /\ homes' = HomesWith(file, PlannedContent(file))
                       /\ targetsFile' = TargetsWith(file, PlannedContent(file))
    /\ UNCHANGED <<legacyFiles, marker, ended, starts, cutShort>>

\* A save of an SDK configuration may fail after it has written something.
\* Mutant: only what was saved is undone.
ApplySdkSaved ==
    /\ At("apply_sdk")
    /\ IF migration.todo = {} THEN migration' = [migration EXCEPT !.at = "verify"] /\ UNCHANGED homes
       ELSE \E file \in migration.todo :
                \/ /\ homes' = HomesWith(file, "legacy")
                   /\ migration' = [migration EXCEPT !.todo = @ \ {file}, !.tried = @ \cup {file}]
                \/ /\ homes' \in {homes, HomesWith(file, "legacy")}
                   /\ migration' = RollBackTo(migration.tried)
    /\ UNCHANGED <<legacyFiles, targetsFile, marker, ended, starts, cutShort>>
ApplySdk ==
    /\ At("apply_sdk")
    /\ IF migration.todo = {} THEN migration' = [migration EXCEPT !.at = "verify"] /\ UNCHANGED homes
       ELSE \E file \in migration.todo :
                \/ /\ homes' = HomesWith(file, "legacy")
                   /\ migration' = [migration EXCEPT !.todo = @ \ {file}, !.tried = @ \cup {file}]
                \/ /\ homes' \in {homes, HomesWith(file, "legacy")}
                   /\ migration' = RollBackTo(migration.tried \cup {file})
    /\ UNCHANGED <<legacyFiles, targetsFile, marker, ended, starts, cutShort>>

Verified ==
    /\ LegacyTargets => targetsFile = "legacy"
    /\ legacyFiles.computers = "here" =>
           \A c \in Legacy : homes[c] = [profile |-> "legacy", sdk |-> "legacy"]

VerifyPlan ==
    /\ At("verify")
    /\ \/ /\ Verified /\ marker' = "incomplete"
          /\ migration' = [migration EXCEPT !.at = "archive"]
       \/ \* a read or the marker's write failed
          migration' = RollBackTo(migration.tried) /\ UNCHANGED marker
    /\ UNCHANGED <<legacyFiles, homes, targetsFile, ended, starts, cutShort>>

-----------------------------------------------------------------------------
(* rollback_plan: every step is tried, and the failures are reported *)

Before(file) ==
    IF file[1] = "targets" THEN migration.before.targets
    ELSE migration.before.homes[file[2]][file[1]]

UndoSdk ==
    /\ At("undo_sdk")
    /\ IF migration.todo = {}
       THEN migration' = [migration EXCEPT !.at = "undo_files", !.todo = {f \in Files : Planned(f)}]
            /\ UNCHANGED homes
       ELSE \E file \in migration.todo :
                \/ /\ homes' = HomesWith(file, Before(file))
                   /\ migration' = [migration EXCEPT !.todo = @ \ {file}]
                \/ /\ migration' = [migration EXCEPT !.todo = @ \ {file}, !.failed = TRUE]
                   /\ UNCHANGED homes
    /\ UNCHANGED <<legacyFiles, targetsFile, marker, ended, starts, cutShort>>

\* FileSnapshot::restore.  A profile that was not there is removed, and leaves its
\* directory without one.
Restored(file) ==
    IF file[1] = "profile" /\ Before(file) = "none" /\ homes[file[2]].profile # "none"
    THEN "unreadable" ELSE Before(file)

UndoFile ==
    /\ At("undo_files")
    /\ IF migration.todo = {}
       THEN /\ migration' = [migration EXCEPT !.at = "remove",
                   !.todo = {f \in Files : f[1] = "profile" /\ Planned(f) /\ Before(f) = "none"}]
            /\ UNCHANGED <<homes, targetsFile>>
       ELSE \E file \in migration.todo :
                \/ /\ homes' = HomesWith(file, Restored(file))
                   /\ targetsFile' = TargetsWith(file, Restored(file))
                   /\ migration' = [migration EXCEPT !.todo = @ \ {file}]
                \/ /\ migration' = [migration EXCEPT !.todo = @ \ {file}, !.failed = TRUE]
                   /\ UNCHANGED <<homes, targetsFile>>
    /\ UNCHANGED <<legacyFiles, marker, ended, starts, cutShort>>

\* The directories this run created are removed.
RemoveCreated ==
    /\ At("remove")
    /\ IF migration.todo = {}
       THEN /\ EndAs(IF migration.failed THEN "rollback failed" ELSE "failed")
            /\ cutShort' = (cutShort \/ migration.failed) /\ UNCHANGED homes
       ELSE /\ \E file \in migration.todo :
                \/ /\ homes' = [homes EXCEPT ![file[2]].profile = "none"]
                   /\ migration' = [migration EXCEPT !.todo = @ \ {file}]
                \/ /\ migration' = [migration EXCEPT !.todo = @ \ {file}, !.failed = TRUE]
                   /\ UNCHANGED homes
            /\ UNCHANGED <<ended, cutShort>>
    /\ UNCHANGED <<legacyFiles, targetsFile, marker, starts>>

-----------------------------------------------------------------------------
(* finalize_legacy_cleanup *)

\* The Computers, then the targets, then the session, which is never revived.
\* Mutant: the legacy files go before the destinations are known to be complete.
ArchiveEarly ==
    /\ migration.at \in {"apply", "archive"}
    /\ IF legacyFiles.computers = "here"
       THEN legacyFiles' = [legacyFiles EXCEPT !.computers = "archived"]
       ELSE IF legacyFiles.targets = "here"
       THEN legacyFiles' = [legacyFiles EXCEPT !.targets = "archived"]
       ELSE legacyFiles' = [legacyFiles EXCEPT !.session = FALSE]
    /\ UNCHANGED <<homes, targetsFile, marker, migration, ended, starts, cutShort>>
Archive ==
    /\ At("archive") /\ HasLegacySource
    /\ IF legacyFiles.computers = "here"
       THEN legacyFiles' = [legacyFiles EXCEPT !.computers = "archived"]
       ELSE IF legacyFiles.targets = "here"
       THEN legacyFiles' = [legacyFiles EXCEPT !.targets = "archived"]
       ELSE legacyFiles' = [legacyFiles EXCEPT !.session = FALSE]
    /\ UNCHANGED <<homes, targetsFile, marker, migration, ended, starts, cutShort>>

ArchiveFails ==
    /\ At("archive") /\ EndAs("archive failed")
    /\ UNCHANGED <<legacyFiles, homes, targetsFile, marker, starts, cutShort>>

CompleteMarker ==
    /\ At("archive") /\ ~HasLegacySource
    /\ marker' = "complete" /\ EndAs("completed")
    /\ UNCHANGED <<legacyFiles, homes, targetsFile, starts, cutShort>>

\* The application stops.  Bound: while a run is in progress; otherwise it changes nothing.
StopApplication ==
    /\ ~At("stopped") /\ EndAs("stopped")
    /\ cutShort' = (cutShort \/ migration.at \in {"undo_sdk", "undo_files", "remove"})
    /\ UNCHANGED <<legacyFiles, homes, targetsFile, marker, starts>>

MigrationNext ==
    \/ StartMigration \/ ApplyFile \/ ApplySdk \/ VerifyPlan
    \/ UndoSdk \/ UndoFile \/ RemoveCreated
    \/ Archive \/ ArchiveFails \/ CompleteMarker \/ StopApplication

MigrationSpec == MigrationInit /\ [][MigrationNext]_migrationVars

-----------------------------------------------------------------------------
MigrationTypeOK ==
    /\ homes \in [Legacy -> Homes] /\ targetsFile \in Content
    /\ marker \in {"none", "incomplete", "complete"}
    /\ starts \in 0..MaxMigrations
    /\ migration.todo \subseteq Files \cup SdkConfigs

Differs == targetsFile = "other" \/ \E c \in Legacy : "other" \in {homes[c].profile, homes[c].sdk}

\* A legacy file leaves only when the destinations hold all of it.
NothingIsLost ==
    /\ legacyFiles.computers = "archived" =>
           \A c \in Legacy : homes[c] = [profile |-> "legacy", sdk |-> "legacy"]
    /\ legacyFiles.targets = "archived" => targetsFile = "legacy"

\* What a run writes does not make the next one refuse: after a stop at any point a
\* conflict is reported only for what a rollback left half done or for what was there
\* before and differs.
OwnWritesAreAccepted == ended = "conflict" => cutShort \/ Differs

\* The same without the exception, which the code does not keep: a rollback that stops
\* after it removed a profile leaves a directory that every later start refuses.
RestartIsPossible == ended = "conflict" => Differs

\* A run that is about to report its failure, and no failure of its rollback, has put
\* every destination back as it was before.
FailureRestores ==
    At("remove") /\ migration.todo = {} /\ ~migration.failed =>
        homes = migration.before.homes /\ targetsFile = migration.before.targets

MigrationHolds == NothingIsLost /\ OwnWritesAreAccepted /\ FailureRestores

=============================================================================
