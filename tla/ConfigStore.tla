----------------------------- MODULE ConfigStore -----------------------------
(***************************************************************************)
(* The directory of one Computer: profile, SDK context and the empty       *)
(* inputs sidecar (services/config.rs).  Every save replaces the whole     *)
(* directory: the new one is staged in .transactions with a marker, the    *)
(* old one moved next to it, and the new one renamed into place.  Every    *)
(* access first recovers a transaction that was left behind.  The          *)
(* application may stop between any two file operations, a rename or a     *)
(* removal may fail, and a removal of a directory deletes its entries one  *)
(* by one in no particular order.                                          *)
(*                                                                         *)
(* A profile of an older schema is migrated when it is loaded: a backup    *)
(* first, then the profile.  Accesses are serialized by                    *)
(* lock_computer_directories, so there is one at a time.                   *)
(***************************************************************************)
EXTENDS Naturals

CONSTANT MaxEditions    \* bounds the editions of the Computer that are saved

\* What the module assumes of its constants.
ConfigStoreAssumption == MaxEditions \in Nat \ {0}

VARIABLES
    directory,  \* the Computer's directory
    journal,    \* its transaction directory
    access,     \* the access in progress: operation, step, and what it saves
    edition,    \* the last edition a save was asked for
    expected    \* the editions the next reader may find, 0 for no Computer

configVars == <<directory, journal, access, edition, expected>>

\* Entries of a transaction that are missing, or half written or half removed.
Missing == [state |-> "missing"]
Partial == [state |-> "partial"]
NoJournal == [here |-> FALSE, marker |-> "none", new |-> Missing, old |-> Missing]
NoAccess == [op |-> "none", step |-> "idle", then |-> "none"]
Whole(e, p, b) == [state |-> "whole", edition |-> e, profile |-> p, backup |-> b]

-----------------------------------------------------------------------------
(* Profiles of schema 1 *)

\* LegacyComputerProfileV1: a target without a Manager context, and a binding whose
\* employee may differ from the target's.
LegacyProfiles == [schema : {1}, target : {"none", "manual", "manager"},
                   binding : {"none", "same", "other"}, auto : BOOLEAN]

\* migrate_legacy_computer_profile: a Manager target is not kept.
\* Mutant: its auto-connect is.
MigratedKeepingAuto(p) ==
    [schema |-> 4, target |-> IF p.target = "manual" THEN "manual" ELSE "none", auto |-> p.auto,
     binding |-> IF p.binding = "none" /\ p.target # "manager" THEN "none" ELSE "needs_rebind"]
Migrated(p) ==
    [schema |-> 4,
     target |-> IF p.target = "manual" THEN "manual" ELSE "none",
     auto |-> p.auto /\ (p.target = "manual" \/ (p.target = "none" /\ p.binding = "none")),
     binding |-> IF p.binding = "none" /\ p.target # "manager" THEN "none" ELSE "needs_rebind"]

\* A Manager target whose employee is not the binding's is refused and left intact.
Migratable(p) == ~(p.target = "manager" /\ p.binding = "other")

\* What every save starts from.
FreshProfile == [schema |-> 4, target |-> "none", auto |-> FALSE, binding |-> "none"]

ConfigInit ==
    /\ directory \in {Missing} \cup {Whole(1, p, FALSE) : p \in LegacyProfiles}
    /\ journal = NoJournal /\ access = NoAccess
    /\ edition = 1
    /\ expected = IF directory = Missing THEN {0} ELSE {1}

EditionOf(d) == IF d.state = "whole" THEN d.edition ELSE 0
Step(point) == access' = [access EXCEPT !.step = point]

\* The access returns; after an error the directory should be as it was.
Answer(editions) == access' = NoAccess /\ expected' = editions

-----------------------------------------------------------------------------
(* recover_computer_directory_transactions_unlocked, the first step of all *)

Begin ==
    /\ access.step = "idle"
    /\ \E op \in {"load", "add", "update", "remove"} :
           access' = [op |-> op, then |-> "none",
                      step |-> IF journal.here THEN "recover" ELSE "recovered"]
    /\ UNCHANGED <<directory, journal, edition, expected>>

\* Transactions that recovery refuses, and the access with it.
Refused ==
    \/ journal.marker # "ready" /\ journal.old # Missing
    \/ /\ journal.marker = "ready"
       /\ \/ directory # Missing /\ journal.old # Missing /\ journal.new # Missing
          \/ directory = Missing /\ journal.old = Missing /\ journal.new.state # "whole"

Refuse ==
    /\ access.step = "recover" /\ Refused
    /\ Answer(expected) /\ UNCHANGED <<directory, journal, edition>>

\* The old directory comes back; without one, a ready new one is put in place.
\* Mutant: the new one is put in place whenever there is one.
PutInPlaceNew ==
    IF directory # Missing THEN UNCHANGED <<directory, journal>>
    ELSE IF journal.new # Missing
         THEN directory' = journal.new /\ journal' = [journal EXCEPT !.new = Missing]
         ELSE directory' = journal.old /\ journal' = [journal EXCEPT !.old = Missing]
PutInPlace ==
    IF directory # Missing THEN UNCHANGED <<directory, journal>>
    ELSE IF journal.old # Missing
         THEN directory' = journal.old /\ journal' = [journal EXCEPT !.old = Missing]
         ELSE directory' = journal.new /\ journal' = [journal EXCEPT !.new = Missing]

Recover ==
    /\ access.step = "recover" /\ ~Refused
    /\ \/ /\ IF journal.marker = "ready" THEN PutInPlace ELSE UNCHANGED <<directory, journal>>
          /\ access' = [access EXCEPT !.step = "clear", !.then = "recovered"]
          /\ UNCHANGED expected
       \/ Answer(expected) /\ UNCHANGED <<directory, journal>>    \* a rename failed
    /\ UNCHANGED edition

\* remove_dir_all of the transaction: one entry after the other, in any order.
Clear ==
    /\ access.step = "clear"
    /\ \/ \E entry \in {"new", "old"} :
              /\ journal[entry] # Missing
              /\ journal' = [journal EXCEPT ![entry] =
                                IF @ = Partial THEN Missing ELSE Partial]
       \/ journal.marker # "none" /\ journal' = [journal EXCEPT !.marker = "none"]
    /\ UNCHANGED <<directory, access, edition, expected>>

\* What an access that has cleared its transaction, or could not, comes to.
Cleared ==
    /\ access.step = "clear"
    /\ \/ /\ journal.marker = "none" /\ journal.new = Missing /\ journal.old = Missing
          /\ journal' = NoJournal
          /\ CASE access.then = "recovered" -> Step("recovered") /\ UNCHANGED expected
               [] access.then = "saved" -> Answer({EditionOf(directory)})
               [] access.then = "failed" -> Answer(expected \ {edition})
       \/ /\ CASE access.then = "recovered" -> Answer(expected)
               [] access.then = "saved" -> Answer({EditionOf(directory)})
               [] access.then = "failed" ->
                    \* a created directory that is still staged may yet be put in place
                    Answer(IF access.op = "add" THEN expected ELSE expected \ {edition})
          /\ UNCHANGED journal
    /\ UNCHANGED <<directory, edition>>

-----------------------------------------------------------------------------
(* load_computer_profile and its migrations *)

Read ==
    /\ access.step = "recovered"
    /\ IF directory = Missing
       THEN IF access.op = "add" THEN Step("stage") /\ UNCHANGED expected ELSE Answer({0})
       ELSE /\ \/ access.op = "add" /\ Answer({EditionOf(directory)})    \* AlreadyExists
               \/ /\ directory.profile.schema = 1 /\ access.op # "add"
                  /\ Migratable(directory.profile)
                  /\ Step("backup") /\ UNCHANGED expected
               \/ /\ directory.profile.schema = 1 /\ access.op # "add"
                  /\ ~Migratable(directory.profile)
                  /\ Answer({EditionOf(directory)})
               \/ /\ directory.profile.schema = 4
                  /\ access.op # "add"
                  /\ CASE access.op = "load" -> Answer({EditionOf(directory)})
                       [] access.op = "update" -> Step("stage") /\ UNCHANGED expected
                       [] access.op = "remove" -> Step("remove") /\ UNCHANGED expected
    /\ UNCHANGED <<directory, journal, edition>>

MigrateBackup ==
    /\ access.step = "backup"
    /\ \/ directory' = [directory EXCEPT !.backup = TRUE] /\ Step("migrate") /\ UNCHANGED expected
       \/ Answer({EditionOf(directory)}) /\ UNCHANGED directory
    /\ UNCHANGED <<journal, edition>>

\* The atomic replacement of profile.json commits the migration.
MigrateProfile ==
    /\ access.step = "migrate"
    /\ \/ /\ directory' = [directory EXCEPT !.profile = Migrated(@)]
          /\ Step("recovered") /\ UNCHANGED expected
       \/ Answer({EditionOf(directory)}) /\ UNCHANGED directory
    /\ UNCHANGED <<journal, edition>>

-----------------------------------------------------------------------------
(* save_computer_directory_transaction_unlocked *)

\* From here on a reader may find the old edition or the new one.
StageMarker ==
    /\ access.step = "stage" /\ edition < MaxEditions
    /\ edition' = edition + 1
    /\ expected' = {EditionOf(directory), edition'}
    /\ journal' = [NoJournal EXCEPT !.here = TRUE, !.new = Partial]
    /\ \/ Step("marker")
       \/ access' = [access EXCEPT !.step = "clear", !.then = "failed"]
    /\ UNCHANGED directory

\* The marker says "preparing" while the three files are written and read back.
StageFiles ==
    /\ access.step = "marker"
    /\ \/ /\ journal.marker = "none"
          /\ journal' = [journal EXCEPT !.marker = "preparing"] /\ UNCHANGED access
       \/ /\ journal.marker # "none" /\ journal.new = Partial
          /\ journal' = [journal EXCEPT !.new =
                 Whole(edition, IF access.op = "add" THEN FreshProfile ELSE directory.profile, FALSE)]
          /\ UNCHANGED access
       \/ /\ journal.new # Partial
          /\ journal' = [journal EXCEPT !.marker = "ready"] /\ Step("moveOld")
       \/ /\ access' = [access EXCEPT !.step = "clear", !.then = "failed"]
          /\ UNCHANGED journal
    /\ UNCHANGED <<directory, edition, expected>>

\* A failure to move the old directory leaves the transaction to the next access.
MoveOld ==
    /\ access.step = "moveOld"
    /\ \/ /\ Step("publish")
          /\ journal' = [journal EXCEPT !.old = directory]
          /\ directory' = Missing /\ UNCHANGED expected
       \/ /\ directory # Missing
          /\ Answer(expected \ {edition}) /\ UNCHANGED <<directory, journal>>
    /\ UNCHANGED edition

\* When the new directory cannot be put in place the old one is moved back; if that
\* fails too, the transaction keeps both for the next access.
Publish ==
    /\ access.step = "publish"
    /\ \/ /\ directory' = journal.new
          /\ journal' = [journal EXCEPT !.new = Missing]
          /\ Step("removeOld") /\ UNCHANGED expected
       \/ /\ directory' = journal.old
          /\ journal' = [journal EXCEPT !.old = Missing]
          /\ access' = [access EXCEPT !.step = "clear", !.then = "failed"]
          /\ UNCHANGED expected
       \/ /\ journal.old # Missing
          /\ Answer(expected \ {edition}) /\ UNCHANGED <<directory, journal>>
    /\ UNCHANGED edition

\* The previous directory is removed first, then the transaction; a failure of
\* either is only logged.
RemoveOld ==
    /\ access.step = "removeOld"
    /\ \/ /\ journal.old # Missing
          /\ journal' = [journal EXCEPT !.old = IF @ = Partial THEN Missing ELSE Partial]
          /\ UNCHANGED <<access, expected>>
       \/ /\ journal.old = Missing
          /\ access' = [access EXCEPT !.step = "clear", !.then = "saved"]
          /\ UNCHANGED <<journal, expected>>
       \/ journal.old # Missing /\ Answer({EditionOf(directory)}) /\ UNCHANGED journal
    /\ UNCHANGED <<directory, edition>>

\* remove_computer_instance renames the directory into the trash.
RemoveDirectory ==
    /\ access.step = "remove"
    /\ \/ directory' = Missing /\ Answer({0})
       \/ Answer({EditionOf(directory)}) /\ UNCHANGED directory
    /\ UNCHANGED <<journal, edition>>

\* The application stops, or is killed, wherever it is.
Stop ==
    /\ access.step # "idle"
    /\ access' = NoAccess
    /\ UNCHANGED <<directory, journal, edition, expected>>

ConfigNext ==
    \/ Begin \/ Refuse \/ Recover \/ Clear \/ Cleared \/ Read \/ MigrateBackup
    \/ MigrateProfile \/ StageMarker \/ StageFiles \/ MoveOld \/ Publish \/ RemoveOld
    \/ RemoveDirectory \/ Stop

ConfigSpec == ConfigInit /\ [][ConfigNext]_configVars

-----------------------------------------------------------------------------
ConfigTypeOK ==
    /\ directory.state \in {"missing", "partial", "whole"}
    /\ journal.marker \in {"none", "preparing", "ready"}
    /\ edition \in 1..MaxEditions
    /\ expected \subseteq 0..MaxEditions

\* An access that has recovered reads a whole directory: the old edition or the new
\* one of a save that was interrupted, the new one of a save that returned, the old
\* one of a save that failed, and none of a Computer that was removed.
DirectoryIsOldOrNew ==
    /\ directory # Partial
    /\ access.step = "recovered" => EditionOf(directory) \in expected

\* "An unscoped Manager target can never be made authoritative by migration":
\* nothing connects by itself unless a manual target was selected or no Robot was.
MigrationIsUnauthoritative ==
    directory.state = "whole" /\ directory.profile.schema = 4 /\ directory.profile.auto
        => directory.profile.target = "manual" \/ directory.profile.binding = "none"

ConfigStoreHolds == DirectoryIsOldOrNew /\ MigrationIsUnauthoritative

\* Whatever was interrupted, the next access recovers it
\* (discovery_recovers_interrupted_directory_swap_without_partial_profile).
InterruptedSwapRecovers == access.step = "recover" => ~Refused

=============================================================================
