----------------------------- MODULE ActivityJournal -----------------------------
(***************************************************************************)
(* What the client records of itself (services/observability): the runs    *)
(* of the application, with a marker in the database that a run leaves     *)
(* behind when it does not end cleanly; the retention of old records,      *)
(* which must not use defaults; and the outages of one Computer's          *)
(* connection, inferred from the runtime's events.                         *)
(***************************************************************************)
EXTENDS Naturals, FiniteSets, Sequences

CONSTANTS
    MaxRuns,       \* bounds the starts of the application
    MaxOutages     \* bounds the outages that are noticed

ASSUME JournalAssumption == MaxRuns \in Nat /\ MaxOutages \in Nat

Runs == 1..MaxRuns
NoRun == 0
NoOutage == 0

\* What an event shows of the runtime: its life, the client's operation, and its end.
Lives == {"started", "connecting", "online"}
Operations == {"none", "connect", "disconnect", "reconnect"}

VARIABLES
    run,         \* the run of the application, NoRun when it does not run
    startedRuns,
    marker,      \* client_run_state: the run that is open
    accounts,    \* what was ever recorded of runs
    journal,     \* what the journal still holds of runs, and its clearings
    retention,   \* the saved setting, the one the service uses, and whether it cleans up
    oldRecord,   \* a record that only the long setting keeps
    mayGo,       \* the user saved the short setting or cleared the journal
    observed,    \* the sink's view of the Computer: generation, life, outage
    actual,      \* the Computer's connection, and how many outages there were when the user acted
    opened,      \* the outages that were recorded, with their run and generation
    closings     \* what was recorded of their ends

runVars == <<run, startedRuns, marker, accounts, journal>>
retentionVars == <<retention, oldRecord, mayGo>>
outageVars == <<observed, actual, opened, closings>>
journalVars == <<runVars, retentionVars, outageVars>>

NotObserved == [generation |-> 0, life |-> "none", outage |-> NoOutage]
FirstHandle == [generation |-> 1, life |-> "started", operation |-> "none", acted |-> 0]

JournalInit ==
    /\ run = NoRun /\ startedRuns = 0 /\ marker = NoRun /\ accounts = {} /\ journal = {}
    /\ \E saved \in {"short", "long"} :
           /\ retention = [saved |-> saved, used |-> "short", armed |-> FALSE]
           /\ mayGo = (saved = "short")
    /\ oldRecord = TRUE
    /\ observed = NotObserved /\ actual = FirstHandle /\ opened = <<>> /\ closings = {}

-----------------------------------------------------------------------------
(* Runs *)

\* The marker of an earlier run is recorded as an unclean exit, and replaced; all in one
\* transaction, which may fail, and the application runs without a marker of its own.
\* The service starts with defaults and does not clean up.
\* Mutant: it does.
Opens(armed) ==
    /\ run = NoRun /\ startedRuns < MaxRuns
    /\ startedRuns' = startedRuns + 1 /\ run' = startedRuns + 1
    /\ \/ LET records == {<<"start", run'>>} \cup
                  (IF marker = NoRun THEN {} ELSE {<<"unclean_exit", marker>>}) IN
          /\ accounts' = accounts \cup records /\ journal' = journal \cup records
          /\ marker' = run'
       \/ UNCHANGED <<marker, accounts, journal>>
    /\ retention' = [retention EXCEPT !.used = "short", !.armed = armed]
    /\ observed' = NotObserved /\ actual' = FirstHandle
    /\ UNCHANGED <<oldRecord, mayGo, opened, closings>>
OpenArmed == Opens(TRUE)
OpenClientRun == Opens(FALSE)

\* A graceful exit closes its own run, or fails to.
\* Mutant: it closes whatever run is open.
FinishWhatever ==
    /\ run # NoRun /\ run' = NoRun
    /\ accounts' = accounts \cup {<<"shutdown", run>>}
    /\ journal' = journal \cup {<<"shutdown", run>>} /\ marker' = NoRun
    /\ UNCHANGED <<startedRuns, retentionVars, outageVars>>
FinishClientRun ==
    /\ run # NoRun /\ run' = NoRun
    /\ \/ /\ marker = run
          /\ accounts' = accounts \cup {<<"shutdown", run>>}
          /\ journal' = journal \cup {<<"shutdown", run>>} /\ marker' = NoRun
       \/ UNCHANGED <<accounts, journal, marker>>
    /\ UNCHANGED <<startedRuns, retentionVars, outageVars>>

Crash ==
    /\ run # NoRun /\ run' = NoRun
    /\ UNCHANGED <<startedRuns, marker, accounts, journal, retentionVars, outageVars>>

\* Clearing is recorded with what it clears, and leaves the marker.
ClearActivity ==
    /\ run # NoRun
    /\ journal' = {<<"clear", run>>} /\ oldRecord' = FALSE /\ mayGo' = TRUE
    /\ UNCHANGED <<run, startedRuns, marker, accounts, retention, outageVars>>

-----------------------------------------------------------------------------
(* Retention *)

\* The user saves a setting; it is applied afterwards, as the saved one is at the start.
SaveRetention ==
    /\ run # NoRun
    /\ \E days \in {"short", "long"} :
           /\ retention' = [retention EXCEPT !.saved = days]
           /\ mayGo' = (mayGo \/ days = "short")
    /\ UNCHANGED <<runVars, oldRecord, outageVars>>

ApplyRetention ==
    /\ run # NoRun
    /\ retention' = [retention EXCEPT !.used = retention.saved, !.armed = TRUE]
    /\ oldRecord' = (oldRecord /\ retention.saved = "long")
    /\ UNCHANGED <<runVars, mayGo, outageVars>>

\* A write finds the hourly cleanup due.
CleanupDue ==
    /\ run # NoRun /\ retention.armed
    /\ oldRecord' = (oldRecord /\ retention.used = "long")
    /\ UNCHANGED <<runVars, retention, mayGo, outageVars>>

-----------------------------------------------------------------------------
(* Outages of a connection *)

View(event, outage) == [generation |-> event.generation, life |-> event.life, outage |-> outage]

OpensOutage(event) ==
    /\ Len(opened) < MaxOutages
    /\ opened' = Append(opened, <<run, event.generation>>)
    /\ observed' = View(event, Len(opened) + 1)
    /\ UNCHANGED closings
ClosesOutage(event) ==
    /\ closings' = closings \cup {[outage |-> observed.outage, at |-> <<run, event.generation>>,
                                  acted |-> event.acted >= observed.outage]}
    /\ observed' = View(event, NoOutage)
    /\ UNCHANGED opened
Sees(event, outage) == observed' = View(event, outage) /\ UNCHANGED <<opened, closings>>

\* The first event of a runtime is remembered, and so is the outage when the very first
\* shows a reconnect.
SeeFirst(event) ==
    IF event.operation = "reconnect" /\ observed = NotObserved THEN OpensOutage(event)
    ELSE Sees(event, NoOutage)

\* An explicit operation ends the outage silently, since its command records itself.
\* Otherwise a reconnect or a loss opens one, and the end of the reconnect closes it.
SeeNext(event, explicit) ==
    \/ explicit /\ Sees(event, NoOutage)
    \/ ~explicit /\
       \/ /\ event.operation = "reconnect"
          /\ IF observed.outage = NoOutage THEN OpensOutage(event)
             ELSE Sees(event, observed.outage)
       \/ /\ event.operation # "reconnect"
          /\ IF observed.outage # NoOutage /\ event.life # "connecting" THEN ClosesOutage(event)
             ELSE IF observed.life = "online" /\ event.life = "connecting" THEN OpensOutage(event)
             ELSE Sees(event, observed.outage)

\* Mutant: explicit operations are taken as any other.
ObserveAll(event) ==
    IF observed.generation # event.generation THEN SeeFirst(event) ELSE SeeNext(event, FALSE)
Observe(event) ==
    IF observed.generation # event.generation THEN SeeFirst(event)
    ELSE SeeNext(event, event.operation \in {"connect", "disconnect"})

\* The Computer's connection changes.  Its events are emitted under the snapshot lock, in
\* the order of the changes, and each is observed before the next.
Becomes(life, operation) ==
    /\ run # NoRun
    /\ actual' = [actual EXCEPT !.life = life, !.operation = operation]
    /\ Observe(actual')
    /\ UNCHANGED <<runVars, retentionVars>>

BeginUserOperation ==
    /\ run # NoRun /\ actual.operation \in {"none", "reconnect"}
    /\ \E operation \in {"connect", "disconnect"} :
           actual' = [actual EXCEPT !.operation = operation, !.acted = Len(opened)]
    /\ Observe(actual')
    /\ UNCHANGED <<runVars, retentionVars>>
EndUserOperation ==
    /\ actual.operation \in {"connect", "disconnect"}
    /\ Becomes(IF actual.operation = "connect" THEN "online" ELSE "started", actual.operation)
UserOperationDone ==
    /\ actual.operation \in {"connect", "disconnect"} /\ actual.life # "connecting"
    /\ Becomes(actual.life, "none")
TransportLost ==
    /\ actual.life = "online" /\ actual.operation = "none"
    /\ \E operation \in {"none", "reconnect"} : Becomes("connecting", operation)
ServerDisconnects ==
    /\ actual.life = "online" /\ actual.operation = "none" /\ Becomes("started", "none")
Reconnects ==
    /\ actual.life = "connecting" /\ actual.operation \in {"none", "reconnect"}
    /\ \E life \in {"online", "started"} : Becomes(life, actual.operation)
ReconnectDone ==
    /\ actual.operation = "reconnect" /\ actual.life # "connecting" /\ Becomes(actual.life, "none")

\* The Computer's handle is replaced: a new generation, whose first event starts afresh.
ReplaceHandle ==
    /\ run # NoRun /\ actual.generation < 2
    /\ actual' = [FirstHandle EXCEPT !.generation = 2, !.acted = actual.acted]
    /\ Observe(actual')
    /\ UNCHANGED <<runVars, retentionVars>>

JournalNext ==
    \/ OpenClientRun \/ FinishClientRun \/ Crash \/ ClearActivity
    \/ SaveRetention \/ ApplyRetention \/ CleanupDue
    \/ BeginUserOperation \/ EndUserOperation \/ UserOperationDone
    \/ TransportLost \/ ServerDisconnects \/ Reconnects \/ ReconnectDone \/ ReplaceHandle

JournalSpec == JournalInit /\ [][JournalNext]_journalVars

-----------------------------------------------------------------------------
JournalTypeOK ==
    /\ run \in 0..MaxRuns /\ startedRuns \in 0..MaxRuns /\ marker \in 0..MaxRuns
    /\ accounts \subseteq {"start", "unclean_exit", "shutdown"} \X Runs
    /\ journal \subseteq {"start", "unclean_exit", "shutdown", "clear"} \X Runs
    /\ retention \in [saved : {"short", "long"}, used : {"short", "long"}, armed : BOOLEAN]
    /\ oldRecord \in BOOLEAN /\ mayGo \in BOOLEAN
    /\ observed \in [generation : 0..2, life : Lives \cup {"none"}, outage : 0..MaxOutages]
    /\ actual \in [generation : 1..2, life : Lives, operation : Operations,
                   acted : 0..MaxOutages]
    /\ opened \in Seq(Runs \X (1..2)) /\ Len(opened) <= MaxOutages
    /\ closings \subseteq [outage : 1..MaxOutages, at : Runs \X (1..2), acted : BOOLEAN]

\* Every run that opened the marker is recorded either as shut down or as ended uncleanly,
\* once its marker is gone, and as neither before; whatever was cleared in between.
RunsAreAccounted ==
    \A r \in 1..startedRuns : <<"start", r>> \in accounts =>
        Cardinality({end \in {"shutdown", "unclean_exit"} : <<end, r>> \in accounts})
            = (IF marker = r THEN 0 ELSE 1)

\* Nothing the long setting keeps is deleted by retention unless the user saved the short one.
OldRecordIsKept == ~oldRecord => mayGo

\* An outage is recorded as ended only in the runtime it began in, and not when the user
\* has connected or disconnected since.
NoFalseRecovery ==
    \A end \in closings : end.at = opened[end.outage] /\ ~end.acted

\* An outage stays open until its end is recorded, the user acts, or the runtime is another.
NoOutageIsForgotten ==
    \A o \in DOMAIN opened :
        \/ observed.outage = o \/ actual.acted >= o
        \/ opened[o] # <<run, actual.generation>>
        \/ \E end \in closings : end.outage = o

JournalHolds == RunsAreAccounted /\ OldRecordIsKept /\ NoFalseRecovery /\ NoOutageIsForgotten

=============================================================================
