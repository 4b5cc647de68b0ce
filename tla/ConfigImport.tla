----------------------------- MODULE ConfigImport -----------------------------
(***************************************************************************)
(* Importing servers and inputs from a file into one Computer, and         *)
(* exporting them (commands/config_io.rs).  An import writes two stores,   *)
(* the input definitions and then the servers, under a redo journal: what  *)
(* is pending is replayed when the application starts, and before the next *)
(* import.  Both stores keep the edition that wrote them last.             *)
(*                                                                         *)
(* Import, edits and export hold the Computer's operation lease, so they   *)
(* do not overlap; any write may fail, and the application may stop        *)
(* between two of them.  One write of one store is a step of its own and   *)
(* is SdkConfig's subject.                                                 *)
(***************************************************************************)
EXTENDS Naturals

CONSTANT MaxImports     \* bounds the imports and edits

\* What the module assumes of its constant.
ImportAssumption == MaxImports \in Nat

VARIABLES
    stored,     \* the edition in each of the two stores
    redo,       \* the journal: its phase and the import it describes
    importing,  \* the import, or the recovery, in progress
    program,    \* "stopped", "starting", "running"
    issued,     \* editions used so far
    foreseen,   \* what a reader of both stores may find
    exported    \* the last exported file, and what it was foreseen to be

importVars == <<stored, redo, importing, program, issued, foreseen, exported>>

\* "complete", for a property: the import it describes has succeeded.
NoRedo == [phase |-> "none", edition |-> 0, inputs |-> FALSE, complete |-> FALSE]
NoImport == [step |-> "idle", edition |-> 0, inputs |-> FALSE, form |-> "none",
             before |-> [inputs |-> 0, servers |-> 0]]

-----------------------------------------------------------------------------
(* Servers of other applications' files *)

\* What build_external_mcp_config reads of a Claude Desktop entry.
ExternalForms ==
    [command : {"none", "empty", "given"}, url : {"none", "empty", "given"},
     transport : {"none", "stdio", "http", "other"}, local : BOOLEAN,
     headers : {"none", "authorization", "other"}, oauth : {"none", "on", "off"}]

\* Exactly one transport, no setting of the other one, and an OAuth choice that the
\* automatic negotiation of the SDK keeps.
\* Mutant: an OAuth opt-out is accepted without an Authorization header.
AcceptsOptOut(form) ==
    CASE form.command = "given" /\ form.url = "none" ->
             /\ form.transport \in {"none", "stdio"}
             /\ form.headers = "none" /\ form.oauth = "none"
      [] form.command = "none" /\ form.url = "given" ->
             /\ form.transport \in {"none", "http"} /\ ~form.local
             /\ ~(form.oauth = "on" /\ form.headers = "authorization")
      [] OTHER -> FALSE
AcceptsExternal(form) ==
    CASE form.command = "given" /\ form.url = "none" ->
             /\ form.transport \in {"none", "stdio"}
             /\ form.headers = "none" /\ form.oauth = "none"
      [] form.command = "none" /\ form.url = "given" ->
             /\ form.transport \in {"none", "http"} /\ ~form.local
             /\ ~(form.oauth = "on" /\ form.headers = "authorization")
             /\ ~(form.oauth = "off" /\ form.headers # "authorization")
      [] OTHER -> FALSE

\* The server that is built: its transport, the settings it has, and whether the SDK
\* will negotiate OAuth for it.
Built(form) ==
    IF form.command = "given"
    THEN [transport |-> "stdio", local |-> form.local, headers |-> "none", negotiates |-> FALSE]
    ELSE [transport |-> "http", local |-> FALSE, headers |-> form.headers,
          negotiates |-> form.headers # "authorization"]

-----------------------------------------------------------------------------
ImportInit ==
    /\ stored = [inputs |-> 0, servers |-> 0]
    /\ redo = NoRedo /\ importing = NoImport
    /\ program = "running" /\ issued = 0
    /\ foreseen = {stored}
    /\ exported = [file |-> stored, among |-> {stored}]

\* operation_lease
LeaseFree == program = "running" /\ importing.step = "idle"
To(point) == importing' = [importing EXCEPT !.step = point]

\* The operation returns; at the start of the application a failure ends it.
Returns(pairs) == importing' = NoImport /\ foreseen' = pairs
\* Its error says that what is pending will be recovered.
Unsure == Returns(foreseen \cup {stored'})
Stops == program' = IF program = "starting" THEN "stopped" ELSE program

With(pair, e, inputs) == [inputs |-> IF inputs THEN e ELSE pair.inputs, servers |-> e]

\* import_config_core: a file of either format is read before anything is written.
BeginImport ==
    /\ LeaseFree /\ issued < MaxImports
    /\ \/ \E inputs \in BOOLEAN :
              importing' = [NoImport EXCEPT !.step = "load", !.edition = issued + 1,
                                            !.inputs = inputs]
       \/ \E form \in ExternalForms :
              /\ AcceptsExternal(form)
              /\ importing' = [NoImport EXCEPT !.step = "built", !.edition = issued + 1,
                                               !.form = form]
    /\ issued' = issued + 1
    /\ UNCHANGED <<stored, redo, program, foreseen, exported>>

PrepareExternal ==
    /\ importing.step = "built"
    /\ importing' = [importing EXCEPT !.step = "load", !.form = "none"]
    /\ UNCHANGED <<stored, redo, program, issued, foreseen, exported>>

\* Any other command that writes definitions or servers.
EditStores ==
    /\ LeaseFree /\ issued < MaxImports
    /\ issued' = issued + 1
    /\ stored' \in {[stored EXCEPT !.inputs = issued'], [stored EXCEPT !.servers = issued']}
    /\ foreseen' = {stored'}
    /\ UNCHANGED <<redo, importing, program, exported>>

\* Export shares the lease with nothing that writes.
\* Mutant: it takes no lease.
ExportUnleased ==
    /\ program = "running"
    /\ exported' = [file |-> stored, among |-> foreseen]
    /\ UNCHANGED <<stored, redo, importing, program, issued, foreseen>>
Export ==
    /\ LeaseFree
    /\ exported' = [file |-> stored, among |-> foreseen]
    /\ UNCHANGED <<stored, redo, importing, program, issued, foreseen>>

-----------------------------------------------------------------------------
(* recover_pending_config_import_for_instance *)

StartProgram ==
    /\ program = "stopped"
    /\ program' = "starting"
    /\ importing' = [NoImport EXCEPT !.step = "load"]
    /\ UNCHANGED <<stored, redo, issued, foreseen, exported>>

\* Nothing is pending any more: the import goes on, or the application runs.
RecoveryDone ==
    IF program = "starting" THEN importing' = NoImport /\ program' = "running"
    ELSE To("preflight") /\ UNCHANGED program

\* A terminal journal is removed, and it does not matter whether that succeeds.
LoadRedo ==
    /\ importing.step = "load"
    /\ IF redo.phase = "pending"
       THEN /\ \/ To("replayInputs") /\ UNCHANGED <<program, foreseen>>
               \/ Returns(foreseen) /\ Stops                 \* unreadable, or refused by now
            /\ UNCHANGED redo
       ELSE redo' \in {redo, NoRedo} /\ RecoveryDone /\ UNCHANGED foreseen
    /\ UNCHANGED <<stored, issued, exported>>

\* A failed replacement is reverted, unless that fails too.
ReplayInputs ==
    /\ importing.step = "replayInputs"
    /\ \/ /\ stored' = IF redo.inputs THEN [stored EXCEPT !.inputs = redo.edition] ELSE stored
          /\ To("replayServers") /\ UNCHANGED <<program, foreseen>>
       \/ /\ redo.inputs
          /\ stored' \in {stored, [stored EXCEPT !.inputs = redo.edition]}
          /\ Unsure /\ Stops
    /\ UNCHANGED <<redo, issued, exported>>

ReplayServers ==
    /\ importing.step = "replayServers"
    /\ \/ stored' = [stored EXCEPT !.servers = redo.edition] /\ To("replayed")
              /\ UNCHANGED <<program, foreseen>>
       \/ UNCHANGED stored /\ Unsure /\ Stops
    /\ UNCHANGED <<redo, issued, exported>>

MarkReplayed ==
    /\ importing.step = "replayed"
    /\ \/ /\ redo' \in {NoRedo, [redo EXCEPT !.phase = "committed"]}
          /\ foreseen' = {With(stored, redo.edition, redo.inputs)} /\ RecoveryDone
       \/ UNCHANGED <<redo, stored>> /\ Unsure /\ Stops
    /\ UNCHANGED <<stored, issued, exported>>

-----------------------------------------------------------------------------
(* import_servers_and_inputs *)

\* Read-only servers and malformed documents are refused before the journal is born.
PersistRedo ==
    /\ importing.step = "preflight"
    /\ \/ /\ redo' = [phase |-> "pending", edition |-> importing.edition,
                      inputs |-> importing.inputs, complete |-> FALSE]
          /\ importing' = [importing EXCEPT !.step = "inputs", !.before = stored]
          /\ foreseen' = foreseen \cup {With(stored, importing.edition, importing.inputs)}
       \/ Returns(foreseen) /\ UNCHANGED redo
    /\ UNCHANGED <<stored, program, issued, exported>>

\* replace_input_definitions_config_only_locked: what fails is reverted and aborted,
\* or its outcome is uncertain and the journal stays.
ImportInputs ==
    /\ importing.step = "inputs"
    /\ \/ /\ stored' = IF importing.inputs THEN [stored EXCEPT !.inputs = importing.edition]
                       ELSE stored
          /\ To("servers") /\ UNCHANGED foreseen
       \/ importing.inputs /\ To("abort") /\ UNCHANGED <<stored, foreseen>>
       \/ /\ importing.inputs
          /\ stored' \in {stored, [stored EXCEPT !.inputs = importing.edition]}
          /\ Unsure
    /\ UNCHANGED <<redo, program, issued, exported>>

ImportServers ==
    /\ importing.step = "servers"
    /\ \/ stored' = [stored EXCEPT !.servers = importing.edition] /\ To("finish")
       \/ UNCHANGED stored /\ To("restore")
    /\ UNCHANGED <<redo, program, issued, foreseen, exported>>

\* The definitions are restored before the import is aborted.
\* Mutant: they are left as imported.
LeaveInputs ==
    /\ importing.step = "restore"
    /\ To("abort")
    /\ UNCHANGED <<stored, redo, program, issued, foreseen, exported>>
RestoreInputs ==
    /\ importing.step = "restore"
    /\ \/ stored' = [stored EXCEPT !.inputs = importing.before.inputs]
              /\ To("abort") /\ UNCHANGED foreseen
       \/ UNCHANGED stored /\ importing.inputs /\ Unsure
    /\ UNCHANGED <<redo, program, issued, exported>>

\* A rollback that cannot be recorded may be replayed, and the error says so.
AbortImport ==
    /\ importing.step = "abort"
    /\ \/ redo' \in {NoRedo, [redo EXCEPT !.phase = "aborted"]} /\ Returns({importing.before})
       \/ UNCHANGED <<redo, stored>> /\ Unsure
    /\ UNCHANGED <<stored, program, issued, exported>>

\* The import succeeds even if its phase cannot be recorded.
FinishImport ==
    /\ importing.step = "finish"
    /\ redo' \in {NoRedo, [redo EXCEPT !.phase = "committed"], [redo EXCEPT !.complete = TRUE]}
    /\ Returns({With(importing.before, importing.edition, importing.inputs)})
    /\ UNCHANGED <<stored, program, issued, exported>>

\* The application stops, or is killed, wherever it is.
StopProgram ==
    /\ program # "stopped"
    /\ program' = "stopped" /\ importing' = NoImport
    /\ UNCHANGED <<stored, redo, issued, foreseen, exported>>

ImportNext ==
    \/ BeginImport \/ PrepareExternal \/ EditStores \/ Export \/ StartProgram \/ LoadRedo
    \/ ReplayInputs \/ ReplayServers \/ MarkReplayed \/ PersistRedo \/ ImportInputs
    \/ ImportServers \/ RestoreInputs \/ AbortImport \/ FinishImport \/ StopProgram

ImportSpec == ImportInit /\ [][ImportNext]_importVars

-----------------------------------------------------------------------------
ImportTypeOK ==
    /\ stored \in [inputs : 0..MaxImports, servers : 0..MaxImports]
    /\ redo.phase \in {"none", "pending", "aborted", "committed"}
    /\ program \in {"stopped", "starting", "running"}
    /\ issued \in 0..MaxImports

\* The two stores hold all of an import or nothing of it, whatever failed or stopped,
\* unless an error said that it waits for recovery; so does every exported file.
ImportIsAllOrNothing ==
    /\ LeaseFree => stored \in foreseen
    /\ exported.file \in exported.among

\* A server of another application's file is refused or built with every setting it
\* had, and with the OAuth behaviour it asked for.
ExternalSettingsAreKept ==
    importing.step = "built" =>
        LET form == importing.form
            built == Built(form) IN
        /\ form.local = built.local
        /\ form.headers = built.headers
        /\ form.oauth = "on" => built.negotiates
        /\ form.oauth = "off" => ~built.negotiates
        /\ form.transport \in {"none", built.transport}

ConfigImportHolds == ImportIsAllOrNothing /\ ExternalSettingsAreKept

\* Of an import that succeeded but could not record it, "the pending journal remains
\* safe to replay": nothing newer is overwritten by it.
ReplayOverwritesNothing ==
    importing.step = "replayInputs" /\ redo.complete =>
        /\ stored.servers <= redo.edition
        /\ redo.inputs => stored.inputs <= redo.edition

=============================================================================
