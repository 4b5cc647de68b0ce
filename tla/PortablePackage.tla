---------------------------- MODULE PortablePackage ----------------------------
(***************************************************************************)
(* Moving a Computer's configuration in a package (services/               *)
(* portable_config.rs, commands/portable_config.rs): one Computer is       *)
(* exported while its user edits it, and a new Computer is created from    *)
(* the package.  An export reads four stores one after the other under a   *)
(* shared operation lease; edits hold the exclusive one.  An import checks *)
(* the whole package first, then writes store after store; a failure rolls *)
(* the creation back.  Plugins are rebuilt afterwards as far as possible.  *)
(*                                                                         *)
(* Every store holds the number of the edit it was last written by.        *)
(***************************************************************************)
EXTENDS Naturals, FiniteSets

CONSTANTS
    Plugins,        \* plugins installed in the exported Computer
    MaxEdits        \* bounds the edits of the exported Computer

\* What the module assumes of its constants.
PortableAssumption == IsFiniteSet(Plugins) /\ MaxEdits \in Nat

VARIABLES
    source,     \* the exported Computer's stores
    edit,       \* the edit in progress: where it is
    export,     \* the export in progress: the groups it still reads, and what it has read
    package,    \* the package written
    import,     \* the creation in progress: where it is, and what is to be written
    created     \* the created Computer's stores

portableVars == <<source, edit, export, package, import, created>>

Groups == {"profile", "sdk", "values", "skills"}
Stores == [g \in Groups |-> 0]
Targets == {"none", "manual", "manager"}
NoPackage == [groups |-> {}, valid |-> FALSE, at |-> Stores, secret |-> FALSE,
              values |-> {}, target |-> "none", plugins |-> {}]
NotCreated == [wrote |-> {}, published |-> FALSE, target |-> "none", plugins |-> {}]

PortableInit ==
    /\ source \in [at : {Stores}, secret : {FALSE}, value : {"plain"}, target : Targets]
    /\ edit = "none"
    /\ export = [step |-> "none", todo |-> {}, read |-> NoPackage]
    /\ package = NoPackage
    /\ import = [step |-> "none", todo |-> {}] /\ created = NotCreated

-----------------------------------------------------------------------------
(* Edits of the exported Computer, each under its operation lease *)

\* Bound: MaxEdits edits, and none once the export is over.
BeginEdit ==
    /\ edit = "none" /\ export.step # "written"
    /\ source.at["profile"] < MaxEdits
    /\ export.step # "read"                 \* the shared lease is out
    /\ edit' = "started"
    /\ UNCHANGED <<source, export, package, import, created>>

\* One command after the other changes every store.  A definition becomes a secret; its
\* value moves to the keychain, or stays where it is until it is supplied again.
EditStores ==
    /\ edit = "started"
    /\ \/ /\ \E g \in {"profile", "sdk", "skills"} :
                 /\ source.at[g] <= source.at["values"]
                 /\ source' = [source EXCEPT !.at[g] = @ + 1, !.secret = @ \/ g = "sdk"]
          /\ UNCHANGED edit
       \/ /\ \A g \in {"profile", "sdk", "skills"} : source.at[g] > source.at["values"]
          /\ \E v \in {source.value, "keychain"} :
                 source' = [source EXCEPT !.at["values"] = @ + 1, !.value = v]
          /\ edit' = "none"
    /\ UNCHANGED <<export, package, import, created>>

-----------------------------------------------------------------------------
(* export_computer_package *)

\* normalize_groups: no selection is all of them.
\* Mutant: without the lease.
StartExportUnleased ==
    /\ export.step = "none"
    /\ \E groups \in SUBSET Groups \ {{}} :
           export' = [step |-> "read", todo |-> groups,
                      read |-> [NoPackage EXCEPT !.groups = groups]]
    /\ UNCHANGED <<source, edit, package, import, created>>
StartExport ==
    /\ export.step = "none" /\ edit = "none"
    /\ \E groups \in SUBSET Groups \ {{}} :
           export' = [step |-> "read", todo |-> groups,
                      read |-> [NoPackage EXCEPT !.groups = groups]]
    /\ UNCHANGED <<source, edit, package, import, created>>

Order == <<"profile", "sdk", "values", "skills">>
NextOf(todo) == Order[CHOOSE i \in 1..4 :
                    Order[i] \in todo /\ \A j \in 1..(i - 1) : Order[j] \notin todo]

\* export_skills: what is declared to be installed, not what is.
ExportedPlugins == Plugins

\* export_non_sensitive_input_values: what a secret definition names stays behind.
\* Mutant: every value is taken.
AllValues == IF source.value = "plain" THEN {"plain"} ELSE {}
PortableValues == IF source.value = "plain" /\ ~source.secret THEN {"plain"} ELSE {}

\* The profile travels with its connection policy, without the robot binding.
\* sanitize_mcp_map drops env files and the defaults of passwords, not the rest.
Taken(read, g) ==
    [read EXCEPT
         !.at = [@ EXCEPT ![g] = source.at[g]],
         !.target = IF g = "profile" THEN source.target ELSE @,
         !.secret = IF g = "values" THEN source.secret ELSE @,
         !.values = IF g = "values" THEN PortableValues ELSE @,
         !.plugins = IF g = "skills" THEN ExportedPlugins ELSE @]

ReadGroup ==
    /\ export.step = "read" /\ export.todo # {}
    /\ \/ LET g == NextOf(export.todo) IN
          export' = [export EXCEPT !.todo = @ \ {g}, !.read = Taken(@, g)]
       \/ export' = [export EXCEPT !.step = "none", !.todo = {}]    \* a read failed
    /\ UNCHANGED <<source, edit, package, import, created>>

\* The file is written as a whole or not at all.
WritePackage ==
    /\ export.step = "read" /\ export.todo = {}
    /\ package' \in {package, [export.read EXCEPT !.valid = TRUE]}
    /\ export' = [export EXCEPT !.step = "written"]
    /\ UNCHANGED <<source, edit, import, created>>

-----------------------------------------------------------------------------
(* create_computer_instance from a package *)

\* The file may have been cut, changed by hand or be of a newer format.
DamagePackage ==
    /\ package.valid /\ import.step = "none"
    /\ package' = [package EXCEPT !.valid = FALSE]
    /\ UNCHANGED <<source, edit, export, import, created>>

\* Each group the package has is there and within its limits, as are the MCP servers.
ValidPackage == package # NoPackage /\ package.valid

\* Everything is validated before anything is written.
CreateFromPackage ==
    /\ import.step = "none" /\ ValidPackage
    /\ import' = [step |-> "apply", todo |-> package.groups \cap {"sdk", "values", "skills"}]
    /\ created' = [NotCreated EXCEPT
           !.wrote = {"profile"},
           !.target = IF "profile" \in package.groups THEN package.target ELSE "none"]
    /\ UNCHANGED <<source, edit, export, package>>

\* rollback_failed_computer_creation removes what was written, or leaves a part of it
\* that is never published.
\* Mutant: a failure to apply the package is only logged.
ApplyLogged ==
    /\ import.step = "apply" /\ import.todo # {}
    /\ LET g == NextOf(import.todo) IN
       /\ created' \in {created, [created EXCEPT !.wrote = @ \cup {g}]}
       /\ import' = [import EXCEPT !.todo = @ \ {g}]
    /\ UNCHANGED <<source, edit, export, package>>
ApplyPackage ==
    /\ import.step = "apply" /\ import.todo # {}
    /\ LET g == NextOf(import.todo) IN
       \/ /\ created' = [created EXCEPT !.wrote = @ \cup {g}]
          /\ import' = [import EXCEPT !.todo = @ \ {g}]
       \/ /\ created' \in [wrote : SUBSET (created.wrote \cup {g}), published : {FALSE},
                           target : {created.target}, plugins : {{}}]
          /\ import' = [step |-> "done", todo |-> {}]
    /\ UNCHANGED <<source, edit, export, package>>

\* upsert_runtime publishes the Computer.
PublishCreated ==
    /\ import.step = "apply" /\ import.todo = {}
    /\ created' = [created EXCEPT !.published = TRUE]
    /\ import' = [step |-> "rebuild", todo |-> package.plugins]
    /\ UNCHANGED <<source, edit, export, package>>

\* A plugin that cannot be installed is pending; a failure to enable it is ignored.
RebuildPlugin ==
    /\ import.step = "rebuild"
    /\ IF import.todo = {} THEN import' = [step |-> "done", todo |-> {}] /\ UNCHANGED created
       ELSE \E p \in import.todo :
                /\ import' = [import EXCEPT !.todo = @ \ {p}]
                /\ created' \in {created, [created EXCEPT !.plugins = @ \cup {p}]}
    /\ UNCHANGED <<source, edit, export, package>>

PortableNext ==
    \/ BeginEdit \/ EditStores
    \/ StartExport \/ ReadGroup \/ WritePackage \/ DamagePackage
    \/ CreateFromPackage \/ ApplyPackage \/ PublishCreated \/ RebuildPlugin

PortableSpec == PortableInit /\ [][PortableNext]_portableVars

-----------------------------------------------------------------------------
PortableTypeOK ==
    /\ source.at \in [Groups -> 0..MaxEdits]
    /\ export.todo \subseteq Groups /\ package.groups \subseteq Groups
    /\ created.wrote \subseteq Groups

\* A package describes the Computer as it was at one moment: no edit falls between the
\* stores it was read from.
PackageIsOfOneMoment ==
    \A g, h \in package.groups : package.at[g] = package.at[h]

\* A value whose input was a secret when the package was written is not in it.
PackageHasNoSecret == package.secret => package.values = {}

\* A Computer that is published has every group of its package.
ImportIsWhole ==
    created.published => (package.groups \cup {"profile"}) \subseteq created.wrote

\* What the package format promises of Manager account state, and the connection policy
\* does not keep: an import takes over a Manager target and its account.
NoManagerStateTravels == created.target # "manager"

PortableHolds == PackageIsOfOneMoment /\ PackageHasNoSecret /\ ImportIsWhole

=============================================================================
