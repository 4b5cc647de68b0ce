------------------------------- MODULE SdkConfig -------------------------------
(***************************************************************************)
(* The SDK-owned configuration of one Computer (services/sdk_config.rs):   *)
(* a Project/Local directory with MCP declarations and input definitions,  *)
(* and a User directory with further declarations.  An edit of a server    *)
(* and its inputs swaps both directories under one journal; a raw restore  *)
(* swaps the Project directory under another.  Interrupted swaps are       *)
(* recovered when the application starts and before the next swap.         *)
(*                                                                         *)
(* Operations hold the Computer's configuration lock, so there is one at a *)
(* time.  The application may stop between any two file operations and any *)
(* of them may fail; a removal of a journal deletes its entries one by one *)
(* in any order.  The SDK is external: loading, validating and writing one *)
(* document are single steps, which may refuse.                            *)
(***************************************************************************)
EXTENDS FiniteSets

CONSTANTS
    Servers,      \* names of MCP servers; one input is enough to tell uses apart
    NoDirectory   \* a directory that does not exist

VARIABLES
    anchor,     \* the live directories, by scope
    restores,   \* the two journals, by kind
    editing,    \* the operation that holds the configuration lock
    client,     \* whether the application runs
    promised    \* the pairs of directories the next reader may find

sdkVars == <<anchor, restores, editing, client, promised>>

Scopes == {"project", "user"}
Declarations == [Servers -> {"none", "plain", "uses"}]
ProjectDocuments == [servers : Declarations, defined : BOOLEAN]

\* What the module assumes of its constants.
SdkAssumption == NoDirectory \notin Declarations \cup ProjectDocuments

NoRestore == [here |-> FALSE, phase |-> "none",
              existed |-> [s \in Scopes |-> FALSE],
              staged |-> [s \in Scopes |-> NoDirectory],
              previous |-> [s \in Scopes |-> NoDirectory]]
NoEdit == [op |-> "none", kind |-> "anchor", step |-> "idle", scope |-> "project",
           after |-> "none", doc |-> [s \in Scopes |-> NoDirectory], given |-> FALSE]

\* An edit stages both directories, a raw restore the Project directory only.
Covers(kind) == IF kind = "anchor" THEN Scopes ELSE {"project"}

At(point) == editing' = [editing EXCEPT !.step = point]
Done(pairs) == editing' = NoEdit /\ promised' = pairs

\* What the next reader may find after the operation failed.
NotSaved ==
    IF \/ editing.step \in {"recover", "rollBack", "clear"} /\ editing.after # "failed"
       \/ promised = {editing.doc}
    THEN promised ELSE promised \ {editing.doc}

-----------------------------------------------------------------------------
(* Declarations and the inputs they use *)

DeclaredIn(pair, scope, s) ==
    IF pair[scope] = NoDirectory THEN "none"
    ELSE IF scope = "project" THEN pair.project.servers[s] ELSE pair.user[s]

\* The scope whose declaration of a server is in effect.
EffectiveScope(pair, s) ==
    IF DeclaredIn(pair, "project", s) = "none" /\ DeclaredIn(pair, "user", s) # "none"
    THEN "user" ELSE "project"

\* all_scope_input_references: every scope is scanned, hidden declarations too.
\* Mutant: only the declarations in effect.
UsedInEffect(pair) == \E s \in Servers : DeclaredIn(pair, EffectiveScope(pair, s), s) = "uses"
Used(pair) == \E s \in Servers, scope \in Scopes : DeclaredIn(pair, scope, s) = "uses"

ProjectOf(pair) ==
    IF pair.project = NoDirectory THEN [servers |-> [s \in Servers |-> "none"], defined |-> FALSE]
    ELSE pair.project

\* replace_project_inputs: the form's definitions replace the document's.
Redefined(pair, defined) ==
    [pair EXCEPT !.project = [ProjectOf(pair) EXCEPT !.defined = defined]]

\* mcp_upsert_edits: a declaration is edited where it is in effect, a new one is local.
Declare(pair, s, form) ==
    IF EffectiveScope(pair, s) = "user" THEN [pair EXCEPT !.user[s] = form]
    ELSE [pair EXCEPT !.project = [ProjectOf(pair) EXCEPT !.servers[s] = form]]

\* remove_unreferenced_project_inputs: a candidate nobody references goes.
Collected(pair, candidate) ==
    IF pair.project # NoDirectory /\ candidate /\ ~Used(pair)
    THEN [pair EXCEPT !.project.defined = FALSE] ELSE pair

-----------------------------------------------------------------------------
(* Operations take the lock and first recover what was interrupted *)

SdkInit ==
    /\ anchor \in [project : {NoDirectory, [servers |-> [s \in Servers |-> "none"], defined |-> TRUE]},
                   user : {NoDirectory} \cup Declarations]
    /\ restores = [k \in {"anchor", "raw"} |-> NoRestore]
    /\ editing = NoEdit
    /\ client = "running"
    /\ promised = {anchor}

Free == client = "running" /\ editing.step = "idle"

\* upsert_mcp_config_with_inputs_atomically and remove_mcp_config_with_input_gc_
\* atomically recover both journals first.
BeginEdit ==
    /\ Free
    /\ editing' = [NoEdit EXCEPT !.op = "edit", !.step = "recover", !.after = "raw"]
    /\ UNCHANGED <<anchor, restores, client, promised>>

\* AppState::try_new: migrate_removed_http_oauth_fields of every Computer.
StartClient ==
    /\ client = "stopped"
    /\ client' = "starting"
    /\ editing' = [NoEdit EXCEPT !.op = "start", !.step = "recover", !.after = "raw"]
    /\ UNCHANGED <<anchor, restores, promised>>

\* An operation fails; at the start the application ends with it.
Fails(pairs) ==
    /\ Done(pairs)
    /\ client' = IF client = "starting" THEN "stopped" ELSE client

Saved == Done({editing.doc}) /\ client' = "running"

\* Recovery goes on with the raw journal, with the operation, or ends a rollback.
Recovered ==
    CASE editing.after = "raw" ->
             /\ editing' = [editing EXCEPT !.kind = "raw", !.step = "recover", !.after = "ready"]
             /\ UNCHANGED <<client, promised>>
      [] editing.after = "ready" ->
             /\ At("ready") /\ promised' = {anchor} /\ UNCHANGED client
      [] editing.after = "failed" -> Fails(NotSaved)
      [] editing.after = "saved" -> Saved

NothingToRecover ==
    /\ editing.step = "recover" /\ ~restores[editing.kind].here
    /\ Recovered /\ UNCHANGED <<anchor, restores>>

Retained(kind) == \E s \in Covers(kind) : restores[kind].previous[s] # NoDirectory

\* An unmarked journal that retains a previous directory is refused.
RefusesUnmarked ==
    /\ editing.step = "recover"
    /\ restores[editing.kind].here /\ restores[editing.kind].phase = "none"
    /\ Retained(editing.kind)
    /\ Fails(NotSaved) /\ UNCHANGED <<anchor, restores>>

Examine ==
    LET j == restores[editing.kind] IN
    /\ editing.step = "recover" /\ j.here
    /\ IF j.phase \in {"none", "committed"}
       THEN (j.phase = "none" => ~Retained(editing.kind)) /\ At("clear")
       ELSE editing' = [editing EXCEPT !.step = "rollBack", !.scope = "project"]
    /\ UNCHANGED <<anchor, restores, client, promised>>

NextScope(step) ==
    editing' = IF editing.kind = "anchor" /\ editing.scope = "project"
               THEN [editing EXCEPT !.scope = "user"] ELSE [editing EXCEPT !.step = step]

\* The previous directory of a scope replaces the live one.  A journal that had moved
\* it away and has it no longer is refused.
\* Mutant: only a journal that moved both directories is rolled back.
RollBackMoved ==
    LET j == restores[editing.kind]
        s == editing.scope IN
    /\ editing.step = "rollBack"
    /\ \/ /\ j.previous[s] # NoDirectory /\ j.phase = "moved"
          /\ anchor' = [anchor EXCEPT ![s] = j.previous[s]]
          /\ restores' = [restores EXCEPT ![editing.kind].previous[s] = NoDirectory]
          /\ NextScope("clear") /\ UNCHANGED <<client, promised>>
       \/ /\ j.previous[s] = NoDirectory \/ j.phase # "moved"
          /\ NextScope("clear") /\ UNCHANGED <<anchor, restores, client, promised>>
RollBack ==
    LET j == restores[editing.kind]
        s == editing.scope IN
    /\ editing.step = "rollBack"
    /\ \/ /\ j.previous[s] # NoDirectory /\ anchor[s] # NoDirectory
          /\ anchor' = [anchor EXCEPT ![s] = NoDirectory]
          /\ UNCHANGED <<restores, editing, client, promised>>
       \/ /\ j.previous[s] # NoDirectory /\ anchor[s] = NoDirectory
          /\ anchor' = [anchor EXCEPT ![s] = j.previous[s]]
          /\ restores' = [restores EXCEPT ![editing.kind].previous[s] = NoDirectory]
          /\ NextScope("clear") /\ UNCHANGED <<client, promised>>
       \/ /\ j.previous[s] = NoDirectory /\ ~(j.phase = "moved" /\ j.existed[s])
          /\ anchor' = [anchor EXCEPT ![s] = IF j.phase = "moved" THEN NoDirectory ELSE @]
          /\ NextScope("clear") /\ UNCHANGED <<restores, client, promised>>
       \/ /\ j.previous[s] = NoDirectory /\ j.phase = "moved" /\ j.existed[s]
          /\ Fails(NotSaved) /\ UNCHANGED <<anchor, restores>>
       \/ Fails(NotSaved) /\ UNCHANGED <<anchor, restores>>       \* a file operation failed

\* remove_dir_all of the journal: marker, staged and previous in any order.
ClearEntry ==
    LET j == restores[editing.kind] IN
    /\ editing.step = "clear"
    /\ \/ /\ j.phase # "none"
          /\ restores' = [restores EXCEPT ![editing.kind].phase = "none"]
       \/ \E part \in {"staged", "previous"} :
              /\ j[part] # NoRestore[part]
              /\ restores' = [restores EXCEPT ![editing.kind][part] = NoRestore[part]]
    /\ UNCHANGED <<anchor, editing, client, promised>>

Cleared ==
    LET j == restores[editing.kind] IN
    /\ editing.step = "clear"
    /\ \/ /\ j.phase = "none"
          /\ \A part \in {"staged", "previous"} : j[part] = NoRestore[part]
          /\ restores' = [restores EXCEPT ![editing.kind] = NoRestore]
          /\ Recovered /\ UNCHANGED anchor
       \/ \* the removal failed: logged after a commit, an error of a recovery
          /\ IF editing.after = "saved" THEN Saved ELSE Fails(NotSaved)
          /\ UNCHANGED <<anchor, restores>>

-----------------------------------------------------------------------------
(* What is committed is prepared first *)

\* stage_complete_sdk_anchor copies both directories; the copy is edited, collected
\* and validated before anything live is touched.
StageUpsert ==
    /\ editing.step = "ready" /\ editing.op = "edit"
    /\ \/ \E s \in Servers, form \in {"plain", "uses"}, defined, candidate \in BOOLEAN :
              LET next == Declare(Redefined(anchor, defined), s, form) IN
              editing' = [editing EXCEPT !.doc = Collected(next, candidate), !.given = defined,
                                         !.kind = "anchor", !.step = "prepare"]
       \/ editing' = NoEdit                                        \* refused
    /\ UNCHANGED <<anchor, restores, client, promised>>

StageRemoval ==
    /\ editing.step = "ready" /\ editing.op = "edit"
    /\ \E s \in Servers, candidate \in BOOLEAN :
           /\ DeclaredIn(anchor, EffectiveScope(anchor, s), s) # "none"
           /\ editing' = [editing EXCEPT !.doc = Collected(Declare(anchor, s, "none"), candidate),
                                         !.given = ProjectOf(anchor).defined,
                                         !.kind = "anchor", !.step = "prepare"]
    /\ UNCHANGED <<anchor, restores, client, promised>>

\* At the start a raw restore writes the document without the OAuth fields the SDK
\* has removed, or the one a failed migration of legacy configuration found.
Started ==
    /\ editing.step = "ready" /\ editing.op = "start"
    /\ \/ editing' = NoEdit /\ client' = "running"
       \/ \E doc \in {NoDirectory, ProjectOf(anchor)} :
              /\ editing' = [editing EXCEPT !.doc = [anchor EXCEPT !.project = doc],
                                            !.step = "prepare"]
              /\ UNCHANGED client
    /\ UNCHANGED <<anchor, restores, promised>>

\* import_mcp_configs_atomically declares locally, over declarations of other scopes.
Import(pair, s, form) == [pair EXCEPT !.project = [ProjectOf(pair) EXCEPT !.servers[s] = form]]

\* upsert_mcp_configs, import and replace_input_definitions write the live files.
\* Bound: not while an interrupted swap waits for its recovery.
EditInPlace ==
    /\ Free /\ \A k \in {"anchor", "raw"} : restores[k].phase \in {"none", "committed"}
    /\ \/ \E s \in Servers, form \in {"plain", "uses"} :
              anchor' \in {Declare(anchor, s, form), Import(anchor, s, form)}
       \/ \E defined \in BOOLEAN : anchor' = Redefined(anchor, defined)
    /\ promised' = {anchor'}
    /\ UNCHANGED <<restores, editing, client>>

-----------------------------------------------------------------------------
(* commit_complete_sdk_anchor and restore_raw_project_config *)

\* An error after the journal is marked rolls the swap back.
RollBackAfterError ==
    /\ editing' = [editing EXCEPT !.step = "recover", !.after = "failed"]
    /\ UNCHANGED <<client, promised>>

Mark(k) ==
    /\ restores[k].here /\ restores[k].phase = "none"
    /\ restores' = [restores EXCEPT ![k] = [@ EXCEPT !.phase = "prepared",
           !.existed = [s \in Scopes |-> s \in Covers(k) /\ anchor[s] # NoDirectory]]]
    /\ promised' = promised \cup {editing.doc}

\* The directories of an edit are moved into the journal before it is marked.
Prepare ==
    /\ editing.step = "prepare" /\ editing.kind = "anchor"
    /\ \/ /\ ~restores.anchor.here
          /\ restores' = [restores EXCEPT !.anchor =
                              [@ EXCEPT !.here = TRUE, !.staged = editing.doc]]
          /\ UNCHANGED <<editing, client, promised>>
       \/ Mark("anchor") /\ UNCHANGED client
          /\ editing' = [editing EXCEPT !.step = "move", !.scope = "project"]
       \/ Fails(NotSaved) /\ UNCHANGED restores
    /\ UNCHANGED anchor

\* A raw document is staged in a journal already marked.
PrepareRaw ==
    /\ editing.step = "prepare" /\ editing.kind = "raw"
    /\ \/ /\ ~restores.raw.here
          /\ restores' = [restores EXCEPT !.raw.here = TRUE]
          /\ UNCHANGED <<editing, client, promised>>
       \/ Mark("raw") /\ UNCHANGED <<editing, client>>
       \/ /\ restores.raw.phase = "prepared"
          /\ restores' = [restores EXCEPT !.raw.staged.project = editing.doc.project]
          /\ editing' = [editing EXCEPT !.step = "move", !.scope = "project"]
          /\ UNCHANGED <<client, promised>>
       \/ Fails(NotSaved) /\ UNCHANGED restores
    /\ UNCHANGED anchor

\* The live directories move into the journal.  A raw restore that cannot move its
\* own leaves the marked journal to the next recovery.
Move ==
    LET s == editing.scope
        k == editing.kind IN
    /\ editing.step = "move"
    /\ \/ /\ anchor' = [anchor EXCEPT ![s] = NoDirectory]
          /\ restores' = [restores EXCEPT ![k].previous[s] = anchor[s]]
          /\ NextScope("moved") /\ UNCHANGED <<client, promised>>
       \/ /\ anchor[s] # NoDirectory
          /\ IF k = "anchor" THEN RollBackAfterError ELSE Fails(NotSaved)
          /\ UNCHANGED <<anchor, restores>>

MarkMoved ==
    LET k == editing.kind IN
    /\ editing.step = "moved"
    /\ \/ /\ restores' = [restores EXCEPT ![k].phase = "moved"]
          /\ editing' = [editing EXCEPT !.step = "publish", !.scope = "project"]
          /\ UNCHANGED <<client, promised>>
       \/ RollBackAfterError /\ UNCHANGED restores
    /\ UNCHANGED anchor

PutLive(s) ==
    /\ anchor' = [anchor EXCEPT ![s] = restores[editing.kind].staged[s]]
    /\ restores' = [restores EXCEPT ![editing.kind].staged[s] = NoDirectory]
    /\ NextScope("published") /\ UNCHANGED <<client, promised>>

Publish ==
    /\ editing.step = "publish" /\ editing.kind = "anchor"
    /\ \/ PutLive(editing.scope)
       \/ RollBackAfterError /\ UNCHANGED <<anchor, restores>>

PublishRaw ==
    /\ editing.step = "publish" /\ editing.kind = "raw"
    /\ \/ PutLive("project")
       \/ RollBackAfterError /\ UNCHANGED <<anchor, restores>>
       \/ Fails(NotSaved) /\ UNCHANGED <<anchor, restores>>    \* the anchor cannot be created

MarkCommitted ==
    LET k == editing.kind IN
    /\ editing.step = "published"
    /\ \/ /\ restores' = [restores EXCEPT ![k].phase = "committed"]
          /\ editing' = [editing EXCEPT !.step = "clear", !.after = "saved"]
          /\ UNCHANGED <<client, promised>>
       \/ RollBackAfterError /\ UNCHANGED restores
    /\ UNCHANGED anchor

\* The application stops, or is killed, wherever it is.
StopClient ==
    /\ client # "stopped"
    /\ client' = "stopped" /\ editing' = NoEdit
    /\ UNCHANGED <<anchor, restores, promised>>

SdkNext ==
    \/ BeginEdit \/ StartClient \/ NothingToRecover \/ RefusesUnmarked \/ Examine
    \/ RollBack \/ ClearEntry \/ Cleared \/ StageUpsert \/ StageRemoval \/ Started
    \/ EditInPlace \/ Prepare \/ PrepareRaw \/ Move \/ MarkMoved \/ Publish
    \/ PublishRaw \/ MarkCommitted \/ StopClient

SdkSpec == SdkInit /\ [][SdkNext]_sdkVars

-----------------------------------------------------------------------------
SdkTypeOK ==
    /\ anchor.project \in {NoDirectory} \cup ProjectDocuments
    /\ anchor.user \in {NoDirectory} \cup Declarations
    /\ \A k \in {"anchor", "raw"} : restores[k].phase \in {"none", "prepared", "moved", "committed"}
    /\ client \in {"stopped", "starting", "running"}
    /\ editing.given \in BOOLEAN

\* Whenever the lock is free and no swap waits for recovery, both directories are of
\* the same commit: the last one that returned, or the one before if it failed.
ScopesAreOfOneCommit ==
    client = "running" /\ editing.step = "idle"
        /\ (\A k \in {"anchor", "raw"} : ~restores[k].here)
        => anchor \in promised

\* No edit commits a state in which a declaration of any scope, also one hidden by
\* another, uses an input whose definition the edit itself collected.
UsedInputsSurvive ==
    editing.op = "edit" /\ editing.step = "prepare" /\ editing.given
        => \A s \in Servers, scope \in Scopes :
               DeclaredIn(editing.doc, scope, s) = "uses" => editing.doc.project.defined

SdkConfigHolds == ScopesAreOfOneCommit /\ UsedInputsSurvive

\* Whatever was interrupted, recovery brings the previous directories back; the
\* application starts (raw_restore_recovery_restores_previous_directory_after_interrupted_swap).
RecoveryFindsPrevious ==
    editing.step = "rollBack" =>
        LET j == restores[editing.kind]
            s == editing.scope IN
        ~(j.previous[s] = NoDirectory /\ j.phase = "moved" /\ j.existed[s])

=============================================================================
