----------------------------- MODULE InputStore -----------------------------
(***************************************************************************)
(* One InputEntry of one Computer: input_entry_store.rs over the plain      *)
(* value file, the legacy index and the keychain, with the commands of      *)
(* commands/inputs.rs and the resolver that use it.  The entry's metadata,  *)
(* its plain value and its secret are three stores written one after the    *)
(* other under the repository lock; each write may fail, a failed keychain  *)
(* access pauses the credential until the user retries, and the client may  *)
(* stop between any two writes.  Entries of other keys are not touched.     *)
(***************************************************************************)
EXTENDS Naturals

CONSTANTS Values, NoValue

\* What the module assumes of its constants.
InputStoreAssumption == NoValue \notin Values

VARIABLES
    entry,       \* input-entries document: storage kind, or "none"
    backend,     \* plain value file and keychain
    legacy,      \* pre-InputEntry index: provenance and indexed kinds
    definition,  \* SDK definition: the storage kind it asks for, or "none"
    referenced,  \* whether an MCP server's configuration uses the input
    accessPaused,  \* the credential's keychain slot is paused
    inputOp,     \* the operation under the repository lock
    committed,   \* values the entry may have, going by what was reported
    exposed,     \* values that were supplied as, or moved to, plain
    gone         \* the entry was deleted, and nothing supplied since

inputStores == <<entry, backend, accessPaused>>
inputConfig == <<definition, referenced, legacy>>
inputGhosts == <<committed, exposed, gone>>
inputVars == <<entry, backend, legacy, definition, referenced, accessPaused, inputOp,
               committed, exposed, gone>>

Kinds == {"Value", "Secret"}
Opposite(kind) == IF kind = "Secret" THEN "Value" ELSE "Secret"
Exists(kind) == backend[kind] # NoValue
NoInputOp == [name |-> "none", step |-> "free", value |-> NoValue, next |-> "none",
              entry |-> "none", backend |-> [k \in Kinds |-> NoValue]]
Contents == [Kinds -> Values \cup {NoValue}]

\* V1 recorded no kinds: its ids count as plain values.
InputInit ==
    /\ entry = "none"
    /\ backend \in Contents
    /\ legacy \in [provenance : {"Missing"}, kinds : {{}}]
                  \cup [provenance : {"V1"}, kinds : {{"Value"}}]
                  \cup [provenance : {"V2"}, kinds : SUBSET Kinds]
    /\ definition \in Kinds \cup {"none"}
    /\ referenced \in BOOLEAN
    /\ accessPaused = FALSE
    /\ inputOp = NoInputOp
    /\ committed = {} /\ gone = FALSE
    /\ exposed = {backend["Value"]} \ {NoValue}

-----------------------------------------------------------------------------
\* The three stores.  A write happens or fails; a paused slot refuses at once.

InputGoTo(step) == inputOp' = [inputOp EXCEPT !.step = step]
MayAccess(kind) == kind = "Value" \/ ~accessPaused
AccessFails(kind) ==
    /\ accessPaused' \in IF kind = "Secret" THEN {accessPaused, TRUE} ELSE {accessPaused}
    /\ UNCHANGED backend

Store(kind, value, next, undo) ==
    \/ /\ MayAccess(kind)
       /\ backend' = [backend EXCEPT ![kind] = value]
       /\ InputGoTo(next) /\ UNCHANGED accessPaused
    \/ AccessFails(kind) /\ InputGoTo(undo)

SaveEntry(kind, next, undo) ==
    \/ entry' = kind /\ InputGoTo(next)
    \/ UNCHANGED entry /\ InputGoTo(undo)

At(name, step) == inputOp.name = name /\ inputOp.step = step
InputIdle == inputOp = NoInputOp

-----------------------------------------------------------------------------
\* Adoption of what an older version stored.  A kind the index names alone wins
\* over an unindexed copy; the preference only breaks ties.

Chosen(preferred) ==
    CASE legacy.kinds = {} -> "none"
      [] legacy.kinds # {} /\ \A k \in legacy.kinds : ~Exists(k) -> "none"
      [] legacy.kinds = Kinds /\ \A k \in Kinds : Exists(k) ->
             IF preferred = "none" THEN "Secret" ELSE preferred
      [] OTHER -> CHOOSE k \in legacy.kinds : Exists(k)

\* migrate_legacy_selected: before a command; what is not indexed is plain.
Migrated ==
    IF legacy.kinds = {} THEN IF Exists("Value") THEN "Value" ELSE "none"
    ELSE Chosen(definition)

\* resolve_entry_state: on a resolution; what is not indexed is looked for where
\* the requested kind would be.
Resolved(preferred) ==
    IF legacy.kinds = {} THEN IF Exists(preferred) THEN preferred ELSE "none"
    ELSE Chosen(preferred)

Adopt(kind) ==
    /\ InputIdle /\ entry = "none" /\ kind # "none" /\ MayAccess(kind)
    /\ inputOp' = [NoInputOp EXCEPT !.name = "adopt", !.step = "save", !.next = kind,
                                    !.value = backend[kind]]
    /\ UNCHANGED <<inputStores, inputConfig, inputGhosts>>

MigrateEntry == Adopt(Migrated)
ResolveEntry == \E preferred \in Kinds : Adopt(Resolved(preferred))

AdoptSave ==
    /\ At("adopt", "save")
    /\ SaveEntry(inputOp.next, IF legacy.provenance = "V1" THEN "ok" ELSE "cleanup", "failed")
    /\ UNCHANGED <<backend, accessPaused, inputConfig, inputGhosts>>

AdoptCleanup ==
    /\ At("adopt", "cleanup")
    /\ Store(Opposite(inputOp.next), NoValue, "ok", "undo")
    /\ UNCHANGED <<entry, inputConfig, inputGhosts>>

AdoptUndo ==
    /\ At("adopt", "undo")
    /\ SaveEntry("none", "failed", "failed")
    /\ UNCHANGED <<backend, accessPaused, inputConfig, inputGhosts>>

-----------------------------------------------------------------------------
\* upsert: the new value, the metadata, then the old kind's copy goes.  Without
\* a value the current one moves.  Callers adopt first.

Touched(kind) == inputOp.next = kind \/ inputOp.entry = kind

Upsert(value, kind, plain) ==
    /\ InputIdle
    /\ entry = "none" => Migrated = "none" /\ value # NoValue
    /\ value = NoValue => Exists(entry)
    /\ \A k \in {kind, entry} \ {"none"} : MayAccess(k)
    /\ LET next == IF value = NoValue THEN backend[entry] ELSE value
       IN  /\ inputOp' = [name |-> "upsert", step |-> "write", value |-> next, next |-> kind,
                          entry |-> entry, backend |-> backend]
           /\ exposed' = exposed \cup (IF plain THEN {next} ELSE {})
    /\ gone' = FALSE
    /\ UNCHANGED <<inputStores, inputConfig, committed>>

\* upsert_input_entry: the user names the kind.
UpsertInputEntry(value, kind) == Upsert(value, kind, kind = "Value")

\* Mutant: the definition decides, whatever the entry is.
DefinitionKind == definition

\* set_input_value, set_runtime_input_value, the resolver's request_value: an
\* entry keeps its kind, a new one has the definition's.
KeptKind == IF entry = "none" THEN definition ELSE entry
SetInputValue(value) ==
    /\ definition # "none"
    /\ Upsert(value, KeptKind, KeptKind = "Value" /\ entry # "Secret")

\* Mutant: the old copy goes before the new one is written.
DropFirst ==
    LET moves == inputOp.entry = Opposite(inputOp.next) /\ Exists(inputOp.entry)
    IN  /\ At("upsert", "write")
        /\ \/ moves /\ Store(inputOp.entry, NoValue, "write", "undoPlain")
           \/ ~moves /\ Store(inputOp.next, inputOp.value, "save", "undoPlain")
        /\ UNCHANGED <<entry, inputConfig, inputGhosts>>

WriteValue ==
    /\ At("upsert", "write")
    /\ Store(inputOp.next, inputOp.value, "save", "undoPlain")
    /\ UNCHANGED <<entry, inputConfig, inputGhosts>>

SaveMetadata ==
    /\ At("upsert", "save")
    /\ SaveEntry(inputOp.next,
                 IF inputOp.entry = Opposite(inputOp.next) THEN "drop" ELSE "ok",
                 "undoPlain")
    /\ UNCHANGED <<backend, accessPaused, inputConfig, inputGhosts>>

DropOldCopy ==
    /\ At("upsert", "drop")
    /\ Store(inputOp.entry, NoValue, "ok", "undoPlain")
    /\ UNCHANGED <<entry, inputConfig, inputGhosts>>

\* delete: the value, then the metadata; clear_input_values does it for each entry.
DeleteEntry ==
    /\ InputIdle /\ entry # "none" /\ MayAccess(entry)
    /\ inputOp' = [NoInputOp EXCEPT !.name = "delete", !.step = "erase", !.next = entry,
                                    !.entry = entry, !.backend = backend]
    /\ UNCHANGED <<inputStores, inputConfig, inputGhosts>>

EraseValue ==
    /\ At("delete", "erase")
    /\ Store(inputOp.entry, NoValue, "forget", "undoPlain")
    /\ UNCHANGED <<entry, inputConfig, inputGhosts>>

ForgetEntry ==
    /\ At("delete", "forget")
    /\ SaveEntry("none", "ok", "undoPlain")
    /\ UNCHANGED <<backend, accessPaused, inputConfig, inputGhosts>>

-----------------------------------------------------------------------------
\* restore_snapshot: plain value, secret, metadata; the first failure ends it.

Undo(kind, step, next) ==
    /\ inputOp.step = step
    /\ IF Touched(kind) THEN Store(kind, inputOp.backend[kind], next, "uncertain")
       ELSE InputGoTo(next) /\ UNCHANGED <<backend, accessPaused>>
    /\ UNCHANGED <<entry, inputConfig, inputGhosts>>

UndoPlain == Undo("Value", "undoPlain", "undoSecret")
UndoSecret == Undo("Secret", "undoSecret", "undoEntry")
UndoEntry ==
    /\ inputOp.step = "undoEntry"
    /\ SaveEntry(inputOp.entry, "reverted", "uncertain")
    /\ UNCHANGED <<backend, accessPaused, inputConfig, inputGhosts>>

\* The operation reports.  An uncertain one left the value it had, or the new one.
Perhaps == IF committed = {} THEN {} ELSE committed \cup {inputOp.value}
ReportInput ==
    /\ inputOp.step \in {"ok", "failed", "reverted", "uncertain"}
    /\ committed' = CASE inputOp.step = "ok" -> {inputOp.value} \ {NoValue}
                      [] inputOp.step = "uncertain" /\ inputOp.name = "upsert" ->
                             Perhaps
                      [] inputOp.step = "uncertain" /\ inputOp.name = "delete" -> {}
                      [] OTHER -> committed
    /\ exposed' = exposed \cup (IF inputOp.name = "adopt" /\ entry = "Value"
                                THEN {inputOp.value} ELSE {})
    /\ gone' = (gone \/ (inputOp.name = "delete" /\ inputOp.step = "ok"))
    /\ inputOp' = NoInputOp
    /\ UNCHANGED <<inputStores, inputConfig>>

\* The client stops and starts again: no access is paused, the lock is free.
InputCrash ==
    /\ inputOp' = NoInputOp /\ accessPaused' = FALSE
    /\ committed' = CASE inputOp.name = "upsert" -> Perhaps
                      [] inputOp.name = "delete" -> {}
                      [] OTHER -> committed
    /\ UNCHANGED <<entry, backend, inputConfig, exposed, gone>>

\* retry_credential_access
RetryAccess ==
    /\ accessPaused /\ accessPaused' = FALSE
    /\ UNCHANGED <<entry, backend, inputOp, inputConfig, inputGhosts>>

\* The definitions are one document: a failed replacement is written back.  An edit
\* never touches the entry, and a referenced definition is not removed.
SetDefinition(kind) ==
    /\ definition' = kind
    /\ UNCHANGED <<inputStores, legacy, referenced, inputOp, inputGhosts>>
AddOrUpdateInput == \E kind \in Kinds : SetDefinition(kind)
ImportInputs == \E kind \in Kinds : definition # kind /\ SetDefinition(kind)
RemoveInput == definition # "none" /\ ~referenced /\ SetDefinition("none")

\* An edit of the MCP configuration (SdkConfig).
ReferenceInput ==
    /\ referenced' = ~referenced
    /\ UNCHANGED <<inputStores, legacy, definition, inputOp, inputGhosts>>

InputNext ==
    \/ MigrateEntry \/ ResolveEntry \/ AdoptSave \/ AdoptCleanup \/ AdoptUndo
    \/ \E value \in Values \cup {NoValue}, kind \in Kinds : UpsertInputEntry(value, kind)
    \/ \E value \in Values : SetInputValue(value)
    \/ WriteValue \/ SaveMetadata \/ DropOldCopy
    \/ DeleteEntry \/ EraseValue \/ ForgetEntry
    \/ UndoPlain \/ UndoSecret \/ UndoEntry \/ ReportInput
    \/ InputCrash \/ RetryAccess
    \/ AddOrUpdateInput \/ ImportInputs \/ RemoveInput
    \/ ReferenceInput

\* An installation that never ran a version before InputEntry.
FreshInit ==
    /\ InputInit
    /\ \A k \in Kinds : ~Exists(k)
    /\ legacy.provenance = "Missing" /\ definition = "none" /\ ~referenced
FreshInputSpec == FreshInit /\ [][InputNext]_inputVars

InputSpec == InputInit /\ [][InputNext]_inputVars

-----------------------------------------------------------------------------
InputTypeOK ==
    /\ entry \in Kinds \cup {"none"}
    /\ backend \in Contents
    /\ legacy \in [provenance : {"Missing", "V1", "V2"}, kinds : SUBSET Kinds]
    /\ definition \in Kinds \cup {"none"}
    /\ referenced \in BOOLEAN /\ accessPaused \in BOOLEAN /\ gone \in BOOLEAN
    /\ inputOp \in [name : {"none", "adopt", "upsert", "delete"},
                    step : {"free", "save", "cleanup", "undo", "write", "drop", "erase",
                            "forget", "undoPlain", "undoSecret", "undoEntry", "ok",
                            "failed", "reverted", "uncertain"},
                    value : Values \cup {NoValue}, next : Kinds \cup {"none"},
                    entry : Kinds \cup {"none"}, backend : Contents]
    /\ committed \subseteq Values /\ exposed \subseteq Values

\* Wherever a write fails or the client stops, the entry's value, the old or the
\* one being stored, is in one of the two stores, and "changes were reverted" is
\* only said when the entry reads as before (upsert, delete).
ValueSurvives ==
    /\ committed # {} /\ inputOp.name # "delete" =>
           \E k \in Kinds : backend[k] \in committed \cup ({inputOp.value} \ {NoValue})
    /\ inputOp.step = "reverted" =>
           /\ entry = inputOp.entry
           /\ entry # "none" => backend[entry] = inputOp.backend[entry]

\* "secret plaintext remains exclusively in the OS Keychain": what was only ever
\* supplied for a secret entry never reaches the plain value file.
SecretStaysInKeychain == backend["Value"] \in exposed \cup {NoValue}

\* A deleted entry does not come back: "legacy_preference is consulted only when
\* upgrading pre-InputEntry storage" (resolve).
DeletedStaysDeleted ==
    gone /\ InputIdle => \A preferred \in Kinds : Resolved(preferred) = "none"
=============================================================================
