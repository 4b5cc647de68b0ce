--------------------------- MODULE ComputerStorage ---------------------------
(***************************************************************************)
(* What a Computer owns and the commands that create, change, start,       *)
(* duplicate and delete it (commands/computer.rs,                          *)
(* commands/runtime_sync.rs): its profile, its instance storage (SDK       *)
(* configuration and skills), its stored inputs, and the instance          *)
(* published to the registry.  Each command is a sequence of writes, any   *)
(* of which may fail and is then undone in reverse; an undo that fails     *)
(* too is reported, and the Computer is listed in "troubled".              *)
(*                                                                         *)
(* A request names a published Computer: the list the user sees is read    *)
(* from the registry.  Authority is that of the profile's connection       *)
(* policy and Robot binding over one Manager context, which may depart     *)
(* while a duplicate is being copied.  Retirement and the running state    *)
(* of a runtime are RuntimeRetirement's and McpServers'.                   *)
(***************************************************************************)
CONSTANTS Computers, Requests, NoRequest, Absent

\* What the module assumes of its constants.
StorageAssumption == NoRequest \notin Requests /\ Absent \notin Computers

InputKinds == {"value", "secret"}   \* one plain input in a file, one in the keychain
\* One setting stands for all a command may edit, the command line's switch included.
Profiles == [authority : {"none", "active", "dormant"}, setting : BOOLEAN]
NoProfile == [authority |-> "deleted", setting |-> FALSE]

VARIABLES
    profile,     \* the persisted profile of each Computer
    published,   \* the instance of its runtime in the registry
    instance,    \* its storage: "none", "here", or quarantined in the trash
    inputs,      \* the stored inputs
    given,       \* what the user has stored, for the properties
    retiring,    \* Computers whose runtime is prepared for removal
    lease,       \* operation_lease: the exclusive holder
    sharing,     \* operation_lease: the shared holders
    membership,  \* membership_lease
    context,     \* the Manager context: "in", "leaving", "out"
    departing,   \* its tombstone in the registry
    leaving,     \* the runtimes its cleanup still has to visit
    unclean,     \* the cleanup met an error
    troubled,    \* Computers an error report says were not restored
    request      \* per task: where its command is and what it has read

storageVars == <<profile, published, instance, inputs, given, retiring, lease, sharing,
                 membership, context, departing, leaving, unclean, troubled, request>>
disk   == <<profile, instance, inputs>>
manager == <<context, departing, leaving, unclean>>
locks  == <<lease, sharing, membership>>

NoWork == [at |-> "idle", on |-> Absent, from |-> Absent, read |-> NoProfile, had |-> {}]
InTransit == {"createApply", "createPublish", "copy", "join", "joinSource", "refresh"}

StorageInit ==
    \E c \in Computers, p \in Profiles :
        /\ p.authority # "dormant"
        /\ profile = [d \in Computers |-> IF d = c THEN p ELSE NoProfile]
        /\ published = profile
        /\ instance = [d \in Computers |-> IF d = c THEN "here" ELSE "none"]
        /\ inputs = [d \in Computers |-> IF d = c THEN InputKinds ELSE {}]
        /\ given = inputs
        /\ retiring = {} /\ troubled = {}
        /\ lease = [d \in Computers |-> NoRequest]
        /\ sharing = [d \in Computers |-> {}]
        /\ membership = NoRequest
        /\ context = "in" /\ departing = FALSE /\ leaving = {} /\ unclean = FALSE
        /\ request = [t \in Requests |-> NoWork]

IsPublished(c) == published[c] # NoProfile
\* Bound: a Computer that an error report has named is not worked on any further.
Usable(c) == IsPublished(c) /\ c \notin troubled
At(t, point) == request[t].at = point
Go(t, point) == request' = [request EXCEPT ![t].at = point]
Finish(t) == request' = [request EXCEPT ![t] = NoWork]
Lock(t, c) == /\ lease[c] = NoRequest /\ sharing[c] = {}
              /\ lease' = [lease EXCEPT ![c] = t]
Unlock(c) == lease' = [lease EXCEPT ![c] = NoRequest]
Report(c, failed) == troubled' = IF failed THEN troubled \cup {c} ELSE troubled
\* generate_instance_id: the id of no Computer, and one that no command names.
Fresh(c) == profile[c] = NoProfile /\ instance[c] = "none" /\ c \notin troubled
                /\ \A t \in Requests : c \notin {request[t].on, request[t].from}

-----------------------------------------------------------------------------
(* rename, connection policy, Skill home: save, then publish. *)

\* A changed name, description, concurrency or Skill home.
Renamed(p) == [p EXCEPT !.setting = TRUE]

\* A manual target, or none, leaves the Robot binding dormant.
Deselected(p) == [p EXCEPT !.authority = IF @ = "none" THEN "none" ELSE "dormant"]

\* A Manager target is saved only for the authenticated generation, which cannot
\* change until the command is done.
BeginUpdate(t) ==
    /\ At(t, "idle")
    /\ \E c \in Computers, point \in {"update", "authorize"} :
           /\ Usable(c) /\ (point = "authorize" => context = "in")
           /\ Lock(t, c)
           /\ request' = [request EXCEPT ![t].at = point, ![t].on = c]
    /\ UNCHANGED <<disk, published, given, retiring, sharing, membership, manager, troubled>>

SaveUpdate(t) ==
    LET c == request[t].on IN
    /\ request[t].at \in {"update", "authorize"}
    /\ \/ /\ \E p \in IF At(t, "authorize") THEN {[profile[c] EXCEPT !.authority = "active"]}
                      ELSE {Renamed(profile[c]), Deselected(profile[c])} :
                 profile' = [profile EXCEPT ![c] = p]
          /\ request' = [request EXCEPT ![t].read = profile[c],
                             ![t].at = IF @ = "update" THEN "apply" ELSE "authorized"]
          /\ UNCHANGED lease
       \/ Finish(t) /\ Unlock(c) /\ UNCHANGED profile   \* unchanged, gone, or not written
    /\ UNCHANGED <<published, instance, inputs, given, retiring, sharing, membership,
                   manager, troubled>>

\* apply_updated_computer_instance: what was read before the save is written back
\* when the inputs cannot be loaded or the runtime refuses the change.
\* Mutant: the saved profile stays.
KeepsSaved(c, previous) == UNCHANGED profile
RestoreProfile(c, previous) == profile' = [profile EXCEPT ![c] = previous]
ApplyUpdate(t) ==
    LET c == request[t].on IN
    /\ request[t].at \in {"apply", "authorized"}
    /\ \/ /\ published' = [published EXCEPT ![c] = profile[c]]
          /\ UNCHANGED <<profile, troubled>>
       \/ RestoreProfile(c, request[t].read) /\ UNCHANGED <<published, troubled>>
       \/ Report(c, TRUE) /\ UNCHANGED <<profile, published>>
    /\ Finish(t) /\ Unlock(c)
    /\ UNCHANGED <<instance, inputs, given, retiring, sharing, membership, manager>>

-----------------------------------------------------------------------------
(* start and restart *)

\* disable_command_line_after_failure: the setting is saved first, then published.
DisableCommandLine(c) ==
    \/ /\ profile' = [profile EXCEPT ![c].setting = FALSE]
       /\ \/ published' = [published EXCEPT ![c] = profile'[c]] /\ UNCHANGED troubled
          \/ Report(c, TRUE) /\ UNCHANGED published
    \/ UNCHANGED <<profile, published, troubled>>

\* Under the exclusive lease the profile is loaded and published (a command line
\* that fails its preflight is disabled); the lease is then shared for the prompts.
BeginStart(t) ==
    /\ At(t, "idle")
    /\ \E c \in Computers :
           /\ Usable(c) /\ lease[c] = NoRequest /\ sharing[c] = {}
           /\ \/ /\ published' = [published EXCEPT ![c] = profile[c]]
                 /\ sharing' = [sharing EXCEPT ![c] = {t}]
                 /\ request' = [request EXCEPT ![t].at = "prompt", ![t].on = c]
                 /\ UNCHANGED <<profile, troubled>>
              \/ /\ profile[c].setting /\ DisableCommandLine(c)
                 /\ UNCHANGED <<sharing, request>>
    /\ UNCHANGED <<instance, inputs, given, retiring, lease, membership, manager>>

\* The start returns and the shared lease is dropped.  A failure of the command
\* line takes the exclusive lease again.
EndPrompt(t) ==
    /\ At(t, "prompt")
    /\ sharing' = [sharing EXCEPT ![request[t].on] = @ \ {t}]
    /\ \/ Finish(t)
       \/ published[request[t].on].setting /\ Go(t, "disable")
    /\ UNCHANGED <<disk, published, given, retiring, lease, membership, manager, troubled>>

\* ensure_current_runtime: a Computer that has gone is left alone.
EndStart(t) ==
    LET c == request[t].on IN
    /\ At(t, "disable")
    /\ lease[c] = NoRequest /\ sharing[c] = {}
    /\ IF IsPublished(c) THEN DisableCommandLine(c) ELSE UNCHANGED <<profile, published, troubled>>
    /\ Finish(t)
    /\ UNCHANGED <<instance, inputs, given, retiring, locks, manager>>

-----------------------------------------------------------------------------
(* create *)

\* rollback_failed_computer_creation: each of the three removals may fail.
RollBackCreation(t, c) ==
    /\ \E keptProfile, keptStorage \in BOOLEAN :
           /\ profile' = IF keptProfile THEN profile ELSE [profile EXCEPT ![c] = NoProfile]
           /\ instance' = IF keptStorage THEN instance ELSE [instance EXCEPT ![c] = "none"]
           /\ Report(c, keptProfile \/ keptStorage)
    /\ inputs' = [inputs EXCEPT ![c] = {}] /\ given' = [given EXCEPT ![c] = {}]
    /\ Finish(t)

CreateProfile(t) ==
    /\ At(t, "idle")
    /\ \E c \in Computers :
           /\ Fresh(c)
           /\ profile' = [profile EXCEPT ![c] = [NoProfile EXCEPT !.authority = "none"]]
           /\ instance' = [instance EXCEPT ![c] = "here"]
           /\ request' = [request EXCEPT ![t].at = "createApply", ![t].on = c]
    /\ UNCHANGED <<inputs, published, given, retiring, locks, manager, troubled>>

\* The package, if one is imported, is applied before the Computer is published.
CreateApply(t) ==
    /\ At(t, "createApply")
    /\ \/ /\ Go(t, "createPublish")
          /\ UNCHANGED <<profile, instance, inputs, given, troubled>>
       \/ RollBackCreation(t, request[t].on)
    /\ UNCHANGED <<published, retiring, locks, manager>>

CreatePublish(t) ==
    LET c == request[t].on IN
    /\ At(t, "createPublish")
    /\ \/ /\ published' = [published EXCEPT ![c] = profile[c]] /\ Finish(t)
          /\ UNCHANGED <<profile, instance, inputs, given, troubled>>
       \/ RollBackCreation(t, c) /\ UNCHANGED published
    /\ UNCHANGED <<retiring, locks, manager>>

-----------------------------------------------------------------------------
(* duplicate *)

\* Under the source's lease its profile is read; the copy is made without it.
DuplicateRead(t) ==
    /\ At(t, "idle")
    /\ \E source, c \in Computers :
           /\ Usable(source) /\ Fresh(c)
           /\ lease[source] = NoRequest /\ sharing[source] = {}
           /\ request' = [request EXCEPT ![t] = [at |-> "copy", on |-> c, from |-> source,
                              read |-> [profile[source] EXCEPT !.setting = FALSE],
                              had |-> {}]]
           /\ profile' = [profile EXCEPT ![c] = request'[t].read]
    /\ UNCHANGED <<instance, inputs, published, given, retiring, locks, manager, troubled>>

\* sdk_config.duplicate and prepare_duplicate_skill_home
CopyStorage(c) == instance' = [instance EXCEPT ![c] = "here"]
DuplicateCopy(t) ==
    LET c == request[t].on IN
    /\ At(t, "copy")
    /\ \/ /\ CopyStorage(c)
          /\ Go(t, "join")
          /\ UNCHANGED <<profile, inputs, given, troubled>>
       \/ RollBackCreation(t, c)
    /\ UNCHANGED <<published, retiring, locks, manager>>

\* membership_lease, then the source's lease: the canonical order.
DuplicateJoin(t) ==
    /\ \/ /\ At(t, "join") /\ membership = NoRequest
          /\ membership' = t /\ Go(t, "joinSource") /\ UNCHANGED lease
       \/ /\ At(t, "joinSource") /\ Lock(t, request[t].from)
          /\ Go(t, "refresh") /\ UNCHANGED membership
    /\ UNCHANGED <<disk, published, given, retiring, sharing, manager, troubled>>

\* make_departing_manager_binding_dormant
MakeDormant(p) == [p EXCEPT !.authority = IF @ = "active" THEN "dormant" ELSE @]

\* The source's authority is read again, and is dormant when its context departs.
\* Mutant: the tombstone is not asked.
InheritedUnmarked(t) == [profile[request[t].on] EXCEPT
                            !.authority = profile[request[t].from].authority]
Inherited(t) ==
    LET latest == [profile[request[t].on] EXCEPT
                      !.authority = profile[request[t].from].authority]
    IN IF departing THEN MakeDormant(latest) ELSE latest

DuplicatePublish(t) ==
    LET c == request[t].on IN
    /\ At(t, "refresh")
    /\ \/ /\ profile[request[t].from] # NoProfile
          /\ profile' = [profile EXCEPT ![c] = Inherited(t)]
          /\ published' = [published EXCEPT ![c] = profile'[c]]
          /\ Finish(t)
          /\ UNCHANGED <<instance, inputs, given, troubled>>
       \/ RollBackCreation(t, c) /\ UNCHANGED published
    /\ membership' = NoRequest /\ Unlock(request[t].from)
    /\ UNCHANGED <<retiring, sharing, manager>>

-----------------------------------------------------------------------------
(* delete *)

\* The runtime is drained before its inputs are read, so that no resolution adopts
\* or reads an input while they are removed.
BeginDelete(t) ==
    /\ At(t, "idle")
    /\ \E c \in Computers :
           /\ Usable(c) /\ Lock(t, c)
           /\ retiring' = retiring \cup {c}
           /\ request' = [request EXCEPT ![t].at = "deleteInputs", ![t].on = c,
                                         ![t].had = inputs[c]]
    /\ UNCHANGED <<disk, published, given, sharing, membership, manager, troubled>>

\* A failed delete: the inputs and the storage it took are put back, the profile too
\* if it was removed, and dropping the prepared removal reopens the runtime.
\* Mutant: the inputs stay removed.
InputsStayRemoved(t, c) == UNCHANGED inputs
PutInputsBack(t, c) == inputs' = [inputs EXCEPT ![c] = request[t].had]
RestoreDeleted(t, c, previous) ==
    /\ \/ /\ PutInputsBack(t, c)
          /\ profile' = [profile EXCEPT ![c] = previous]
          /\ instance' = [instance EXCEPT ![c] = IF @ = "trash" THEN "here" ELSE @]
          /\ UNCHANGED troubled
       \/ /\ Report(c, TRUE)     \* any of the restores failed
          /\ inputs' \in {[inputs EXCEPT ![c] = kept] : kept \in {inputs[c], request[t].had}}
          /\ profile' \in {profile, [profile EXCEPT ![c] = previous]}
          /\ instance' \in {instance, [instance EXCEPT ![c] = IF @ = "trash" THEN "here" ELSE @]}
    /\ retiring' = retiring \ {c}
    /\ Finish(t) /\ Unlock(c)

\* delete_computer_input_storage stops at the first input it cannot delete.
DeleteInputs(t) ==
    LET c == request[t].on IN
    /\ At(t, "deleteInputs")
    /\ \/ /\ inputs' = [inputs EXCEPT ![c] = {}] /\ Go(t, "quarantine")
          /\ UNCHANGED <<profile, instance, lease, retiring, troubled>>
       \/ /\ \E kept \in SUBSET inputs[c] : inputs' = [inputs EXCEPT ![c] = kept]
          /\ Go(t, "undoInputs")
          /\ UNCHANGED <<profile, instance, lease, retiring, troubled>>
    /\ UNCHANGED <<published, given, sharing, membership, manager>>

UndoInputs(t) ==
    /\ At(t, "undoInputs")
    /\ RestoreDeleted(t, request[t].on, profile[request[t].on])
    /\ UNCHANGED <<published, given, sharing, membership, manager>>

QuarantineStorage(t) ==
    LET c == request[t].on IN
    /\ At(t, "quarantine")
    /\ \/ /\ instance' = [instance EXCEPT ![c] = IF @ = "here" THEN "trash" ELSE @]
          /\ Go(t, "removeProfile")
          /\ UNCHANGED <<profile, inputs, lease, retiring, troubled>>
       \/ RestoreDeleted(t, c, profile[c])
    /\ UNCHANGED <<published, given, sharing, membership, manager>>

RemoveProfile(t) ==
    LET c == request[t].on IN
    /\ At(t, "removeProfile")
    /\ \/ /\ profile' = [profile EXCEPT ![c] = NoProfile]
          /\ request' = [request EXCEPT ![t].at = "commit", ![t].read = profile[c]]
          /\ UNCHANGED <<instance, inputs, lease, retiring, troubled>>
       \/ RestoreDeleted(t, c, profile[c])
    /\ UNCHANGED <<published, given, sharing, membership, manager>>

\* commit_runtime_removal, which may refuse and then leaves the entry, and the
\* cleanup of the quarantine, whose failure is only logged.
EmptyTrash(c) == instance' = [instance EXCEPT ![c] = "none"]
CommitDelete(t) ==
    LET c == request[t].on IN
    /\ At(t, "commit")
    /\ \/ /\ published' = [published EXCEPT ![c] = NoProfile]
          /\ EmptyTrash(c)
          /\ given' = [given EXCEPT ![c] = {}]
          /\ retiring' = retiring \ {c} /\ troubled' = troubled \ {c}
          /\ Finish(t) /\ Unlock(c) /\ UNCHANGED <<profile, inputs>>
       \/ RestoreDeleted(t, c, request[t].read) /\ UNCHANGED <<published, given>>
    /\ UNCHANGED <<sharing, membership, manager>>

-----------------------------------------------------------------------------
(* The Manager context departs: cleanup_manager_context_transaction *)

\* The tombstone and the list of runtimes, in one membership transaction.
Depart ==
    /\ context = "in" /\ membership = NoRequest
    /\ \A t \in Requests : request[t].at \notin {"authorize", "authorized"}
    /\ context' = "leaving" /\ departing' = TRUE /\ unclean' = FALSE
    /\ leaving' = {c \in Computers : IsPublished(c)}
    /\ UNCHANGED <<disk, published, given, retiring, locks, troubled, request>>

\* cleanup_runtime_for_context, under the Computer's lease; its failures are kept
\* as diagnostics.
CleanComputer(c) ==
    /\ c \in leaving /\ lease[c] = NoRequest /\ sharing[c] = {}
    /\ leaving' = leaving \ {c}
    /\ \/ /\ IsPublished(c) /\ profile[c] # NoProfile
          /\ profile' = [profile EXCEPT ![c] = MakeDormant(@)]
          /\ published' = [published EXCEPT ![c] = profile'[c]]
          /\ UNCHANGED unclean
       \/ unclean' = (unclean \/ IsPublished(c)) /\ UNCHANGED <<profile, published>>
    /\ UNCHANGED <<instance, inputs, given, retiring, locks, context, departing, troubled,
                   request>>

\* The tombstone goes only when every Computer was cleaned.
Departed ==
    /\ context = "leaving" /\ leaving = {} /\ (unclean \/ membership = NoRequest)
    /\ context' = "out" /\ departing' = unclean
    /\ UNCHANGED <<disk, published, given, retiring, locks, leaving, unclean, troubled,
                   request>>

StorageNext ==
    \/ \E t \in Requests :
           \/ BeginUpdate(t) \/ SaveUpdate(t) \/ ApplyUpdate(t)
           \/ BeginStart(t) \/ EndPrompt(t) \/ EndStart(t)
           \/ CreateProfile(t) \/ CreateApply(t) \/ CreatePublish(t)
           \/ DuplicateRead(t) \/ DuplicateCopy(t) \/ DuplicateJoin(t) \/ DuplicatePublish(t)
           \/ BeginDelete(t) \/ DeleteInputs(t) \/ UndoInputs(t) \/ QuarantineStorage(t)
           \/ RemoveProfile(t) \/ CommitDelete(t)
    \/ Depart \/ (\E c \in Computers : CleanComputer(c)) \/ Departed

StorageSpec == StorageInit /\ [][StorageNext]_storageVars

-----------------------------------------------------------------------------
StorageTypeOK ==
    /\ profile \in [Computers -> Profiles \cup {NoProfile}]
    /\ published \in [Computers -> Profiles \cup {NoProfile}]
    /\ instance \in [Computers -> {"none", "here", "trash"}]
    /\ inputs \in [Computers -> SUBSET InputKinds]
    /\ lease \in [Computers -> Requests \cup {NoRequest}]
    /\ membership \in Requests \cup {NoRequest}
    /\ retiring \cup leaving \cup troubled \subseteq Computers

\* "Runtime membership is the publication boundary" (list_computer_instances): the
\* instance published for a Computer is the saved one whenever no command holds its
\* lease, whichever of the save, the hydration and the publication failed.
PublishedIsSaved ==
    \A c \in Computers \ troubled :
        lease[c] = NoRequest /\ IsPublished(c) => published[c] = profile[c]

\* A delete that fails leaves everything: a published Computer that no command is
\* working on has its storage and every input the user stored.
FailedDeleteKeeps ==
    \A c \in Computers \ troubled :
        lease[c] = NoRequest /\ IsPublished(c)
            => instance[c] = "here" /\ inputs[c] = given[c] /\ c \notin retiring

\* Once a departed context is cleaned up, no Computer holds authority over it: not
\* a duplicate either that was being copied while the cleanup ran.
DepartedIsDormant ==
    context = "out" /\ ~unclean =>
        \A c \in Computers : published[c].authority # "active"

ComputerStorageHolds == PublishedIsSaved /\ FailedDeleteKeeps /\ DepartedIsDormant

=============================================================================
