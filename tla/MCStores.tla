---------------------------- MODULE MCStores ----------------------------
(***************************************************************************)
(* What the client keeps on disk and how it starts over it, in one run.    *)
(* In the models these parts share no state, so their product would show   *)
(* nothing more than each alone: every behaviour is one of the component   *)
(* `subject`, and the others stay where they are.                          *)
(***************************************************************************)
EXTENDS Integers, Sequences, FiniteSets, TLC

CONSTANTS
    Parked,                                   \* the state of a component that does not move
    Values, NoValue,                                    \* InputStore
    Computers, Requests, NoRequest, Absent,             \* ComputerStorage
    MaxEditions,                                        \* ConfigStore
    Servers, NoDirectory,                               \* SdkConfig
    MaxImports,                                         \* ConfigImport
    Writers, Notices, MaxNotices, Interval, MaxClock,   \* Settings
    Legacy, MaxMigrations,                              \* ConfigMigration
    Plugins, MaxEdits,                                  \* PortablePackage
    MaxStarts                                           \* AppStart

VARIABLES
    subject,     \* the component that moves
    entry, backend, legacy, definition, referenced, accessPaused, inputOp, committed,
    exposed, gone, profile, published, instance, inputs, given, retiring, lease, sharing,
    membership, context, departing, leaving, unclean, troubled, request, directory,
    journal, access, edition, expected, anchor, restores, editing, client, promised,
    stored, redo, importing, program, issued, foreseen, exported, files, fileLock, writer,
    clock, settingsCommitted, retained, cleaned, checks, defaulted, legacyFiles, homes,
    targetsFile, marker, migration, ended, starts, cutShort, source, edit, export, package,
    import, created, disk, stage, todo, found, loaded, skipped, runtimes, unsettled,
    launches

Inputs == INSTANCE InputStore
Storage == INSTANCE ComputerStorage
Config == INSTANCE ConfigStore
Sdk == INSTANCE SdkConfig
Importing == INSTANCE ConfigImport
Setting == INSTANCE Settings WITH
        committed <- settingsCommitted
Migration == INSTANCE ConfigMigration
Portable == INSTANCE PortablePackage
Starting == INSTANCE AppStart

\* The constants of every component are as its module assumes.
ASSUME StoresAssumption ==
    /\ Inputs!InputStoreAssumption /\ Storage!StorageAssumption
    /\ Config!ConfigStoreAssumption /\ Sdk!SdkAssumption /\ Importing!ImportAssumption
    /\ Setting!SettingsAssumption /\ Migration!ConfigMigrationAssumption
    /\ Portable!PortableAssumption /\ Starting!StartAssumption

Components == {"inputs", "storage", "config", "sdk", "importing", "settings",
               "migration", "portable", "start"}

Symmetry == Permutations(Computers) \cup Permutations(Requests)

inputsState == <<entry, backend, legacy, definition, referenced, accessPaused, inputOp,
                 committed, exposed, gone>>
storageState == <<profile, published, instance, inputs, given, retiring, lease, sharing,
                  membership, context, departing, leaving, unclean, troubled, request>>
configState == <<directory, journal, access, edition, expected>>
sdkState == <<anchor, restores, editing, client, promised>>
importingState == <<stored, redo, importing, program, issued, foreseen, exported>>
settingsState == <<files, fileLock, writer, clock, settingsCommitted, retained, cleaned,
                   checks, defaulted>>
migrationState == <<legacyFiles, homes, targetsFile, marker, migration, ended, starts,
                    cutShort>>
portableState == <<source, edit, export, package, import, created>>
startState == <<disk, stage, todo, found, loaded, skipped, runtimes, unsettled, launches>>

-----------------------------------------------------------------------------
\* A component that does not move has no state to enumerate.
InputsInit ==
    IF subject = "inputs" THEN Inputs!InputInit
    ELSE
         /\ entry = Parked /\ backend = Parked /\ legacy = Parked /\ definition = Parked
         /\ referenced = Parked /\ accessPaused = Parked /\ inputOp = Parked
         /\ committed = Parked /\ exposed = Parked /\ gone = Parked
StorageInit ==
    IF subject = "storage" THEN Storage!StorageInit
    ELSE
         /\ profile = Parked /\ published = Parked /\ instance = Parked /\ inputs = Parked
         /\ given = Parked /\ retiring = Parked /\ lease = Parked /\ sharing = Parked
         /\ membership = Parked /\ context = Parked /\ departing = Parked
         /\ leaving = Parked /\ unclean = Parked /\ troubled = Parked /\ request = Parked
ConfigInit ==
    IF subject = "config" THEN Config!ConfigInit
    ELSE
         /\ directory = Parked /\ journal = Parked /\ access = Parked /\ edition = Parked
         /\ expected = Parked
SdkInit ==
    IF subject = "sdk" THEN Sdk!SdkInit
    ELSE
         /\ anchor = Parked /\ restores = Parked /\ editing = Parked /\ client = Parked
         /\ promised = Parked
ImportingInit ==
    IF subject = "importing" THEN Importing!ImportInit
    ELSE
         /\ stored = Parked /\ redo = Parked /\ importing = Parked /\ program = Parked
         /\ issued = Parked /\ foreseen = Parked /\ exported = Parked
SettingInit ==
    IF subject = "settings" THEN Setting!SettingsInit
    ELSE
         /\ files = Parked /\ fileLock = Parked /\ writer = Parked /\ clock = Parked
         /\ settingsCommitted = Parked /\ retained = Parked /\ cleaned = Parked
         /\ checks = Parked /\ defaulted = Parked
MigrationInit ==
    IF subject = "migration" THEN Migration!MigrationInit
    ELSE
         /\ legacyFiles = Parked /\ homes = Parked /\ targetsFile = Parked
         /\ marker = Parked /\ migration = Parked /\ ended = Parked /\ starts = Parked
         /\ cutShort = Parked
PortableInit ==
    IF subject = "portable" THEN Portable!PortableInit
    ELSE
         /\ source = Parked /\ edit = Parked /\ export = Parked /\ package = Parked
         /\ import = Parked /\ created = Parked
StartingInit ==
    IF subject = "start" THEN Starting!StartInit
    ELSE
         /\ disk = Parked /\ stage = Parked /\ todo = Parked /\ found = Parked
         /\ loaded = Parked /\ skipped = Parked /\ runtimes = Parked
         /\ unsettled = Parked /\ launches = Parked

Init ==
    /\ subject \in Components

    /\ InputsInit /\ StorageInit /\ ConfigInit /\ SdkInit /\ ImportingInit
    /\ SettingInit /\ MigrationInit /\ PortableInit /\ StartingInit

\* Only component c moves.
Only(c) ==
    /\ subject = c /\ UNCHANGED subject
    /\ IF c = "inputs" THEN TRUE ELSE UNCHANGED inputsState
    /\ IF c = "storage" THEN TRUE ELSE UNCHANGED storageState
    /\ IF c = "config" THEN TRUE ELSE UNCHANGED configState
    /\ IF c = "sdk" THEN TRUE ELSE UNCHANGED sdkState
    /\ IF c = "importing" THEN TRUE ELSE UNCHANGED importingState
    /\ IF c = "settings" THEN TRUE ELSE UNCHANGED settingsState
    /\ IF c = "migration" THEN TRUE ELSE UNCHANGED migrationState
    /\ IF c = "portable" THEN TRUE ELSE UNCHANGED portableState
    /\ IF c = "start" THEN TRUE ELSE UNCHANGED startState

InputsStep == Only("inputs") /\ Inputs!InputNext
StorageStep == Only("storage") /\ Storage!StorageNext
ConfigStep == Only("config") /\ Config!ConfigNext
SdkStep == Only("sdk") /\ Sdk!SdkNext
ImportingStep == Only("importing") /\ Importing!ImportNext
SettingStep == Only("settings") /\ Setting!SettingsNext
MigrationStep == Only("migration") /\ Migration!MigrationNext
PortableStep == Only("portable") /\ Portable!PortableNext
StartingStep == Only("start") /\ Starting!StartNext

Next ==
    \/ InputsStep \/ StorageStep \/ ConfigStep \/ SdkStep \/ ImportingStep
    \/ SettingStep \/ MigrationStep \/ PortableStep \/ StartingStep

vars == <<subject,
          inputsState, storageState, configState, sdkState, importingState,
          settingsState, migrationState, portableState, startState>>

Spec == Init /\ [][Next]_vars

-----------------------------------------------------------------------------
\* Every variable of the component that moves has its type.
StoresTypeOK ==
    /\ subject = "inputs" => Inputs!InputTypeOK
    /\ subject = "storage" => Storage!StorageTypeOK
    /\ subject = "config" => Config!ConfigTypeOK
    /\ subject = "sdk" => Sdk!SdkTypeOK
    /\ subject = "importing" => Importing!ImportTypeOK
    /\ subject = "settings" => Setting!SettingsTypeOK
    /\ subject = "migration" => Migration!MigrationTypeOK
    /\ subject = "portable" => Portable!PortableTypeOK
    /\ subject = "start" => Starting!StartTypeOK

\* An input's value survives a write that fails or stops between the keychain and the
\* file, and a secret never reaches the file (input_entry_store.rs).
InputsHold == subject = "inputs" => Inputs!ValueSurvives /\ Inputs!SecretStaysInKeychain

\* What is published of a Computer is what is saved, whichever step of a creation, an
\* edit, a copy or a deletion failed, and no Computer keeps authority over a Manager
\* context that is gone (commands/computer.rs, commands/manager.rs).
ComputersHold == subject = "storage" => Storage!ComputerStorageHolds

\* A Computer's directory and its SDK configuration are the old or the new one after any
\* failure or stop, and never a mixture (services/config.rs, services/sdk_config.rs).
ConfigurationsHold ==
    /\ subject = "config" => Config!ConfigStoreHolds
    /\ subject = "sdk" => Sdk!SdkConfigHolds

\* An import takes effect as a whole or not at all, and an export is of one moment and
\* without secrets (commands/config_io.rs, services/portable_config.rs).
TransfersHold ==
    /\ subject = "importing" => Importing!ConfigImportHolds
    /\ subject = "portable" => Portable!PortableHolds

\* No writer of the settings loses another's update, a migration loses nothing of the
\* legacy files and accepts what it wrote itself, and a start builds its runtimes over
\* finished imports and whole skills (settings.rs, config_migration.rs, lib.rs).
ClientFilesHold ==
    /\ subject = "settings" => Setting!SettingsHold
    /\ subject = "migration" => Migration!MigrationHolds
    /\ subject = "start" => Starting!AppStartHolds

=============================================================================
