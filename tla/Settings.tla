------------------------------- MODULE Settings -------------------------------
(***************************************************************************)
(* The application settings, the chat preferences and the Manager session  *)
(* file (services/settings.rs, commands/settings.rs).  settings.json has   *)
(* several writers that each own a part of it: the settings page, the      *)
(* update checker and the notice store.  Every writer reads the whole      *)
(* file, changes its part and writes the whole file, under a lock per      *)
(* file; a write may fail and leaves the file as it was.                   *)
(*                                                                         *)
(* A settings.json that cannot be read is taken for the defaults, so the   *)
(* next write loses what it held; the model says when that has happened    *)
(* ("defaulted") and promises nothing about the contents from there on.    *)
(***************************************************************************)
EXTENDS Integers, FiniteSets

CONSTANTS
    Writers,        \* commands in progress
    Notices,        \* notice ids
    MaxNotices,     \* MAX_UI_NOTICE_ENTRIES
    Interval,       \* AUTOMATIC_UPDATE_CHECK_INTERVAL_MS
    MaxClock        \* bounds the clock

\* What the module assumes of its constants.
SettingsAssumption ==
    /\ IsFiniteSet(Notices) /\ MaxNotices \in Nat /\ Interval \in Nat
    /\ MaxClock \in Nat \ {0} /\ "nobody" \notin Writers

VARIABLES
    files,      \* settings.json and chat_preferences.json
    fileLock,   \* the holders of settings_lock and chat_preferences_lock
    writer,     \* per command: where it is, its change, and what it has read
    clock,
    committed,  \* the files if every write had been applied to the last one
    retained,   \* retention periods that were ever saved
    cleaned,    \* retention periods a cleanup was run with
    checks,     \* the automatic update checks that were granted
    defaulted   \* settings.json was unreadable

settingsVars == <<files, fileLock, writer, clock, committed, retained, cleaned, checks,
                  defaulted>>

NoWriter == "nobody"
Unknown == [n \in Notices |-> "unknown"]
DefaultSettings == [retention |-> "long", checked |-> 0, deferred |-> FALSE, notices |-> Unknown]
NoPreferences == [employee |-> 0, conversation |-> [e \in 1..2 |-> 0],
                  platform |-> [e \in 1..2 |-> 0]]
NoChange == [op |-> "none"]
IdleWriter == [at |-> "idle", change |-> NoChange, file |-> "settings", read |-> DefaultSettings]

\* The changes a command may ask for.
SettingsChanges ==
    [op : {"user"}, retention : {"short", "long"}]
        \cup [op : {"claim"}, now : {clock}]
        \cup [op : {"defer"}, deferred : BOOLEAN]
        \cup [op : {"notice"}, ids : SUBSET Notices \ {{}}, dismissed : BOOLEAN]
ChatChanges ==
    [op : {"employee"}, employee : 1..2]
        \cup [op : {"conversation", "platform"}, employee : 1..2, id : {1}]

\* record_ui_notice_events: the first dismissal is kept.
Noticed(entry, dismissed) == IF dismissed \/ entry = "dismissed" THEN "dismissed" ELSE "seen"

\* Mutant: the notices the event adds are not counted.
TooManyBefore(notices, ids) ==
    Cardinality({n \in Notices \ ids : notices[n] # "unknown"}) > MaxNotices
TooMany(notices, ids) ==
    Cardinality({n \in Notices : notices[n] # "unknown" \/ n \in ids}) > MaxNotices

\* claim_automatic_update_check
Due(now, checked) == checked = 0 \/ now - checked >= Interval

\* Whether the change writes the file it has read.
Writes(change, file) ==
    CASE change.op = "claim" -> Due(change.now, file.checked)
      [] change.op = "notice" -> ~TooMany(file.notices, change.ids)
      [] OTHER -> TRUE

\* What each writer makes of the file: it changes its own part.
Changed(change, file) ==
    CASE change.op = "user" -> [file EXCEPT !.retention = change.retention]
      [] change.op = "claim" -> [file EXCEPT !.checked = change.now]
      [] change.op = "defer" -> [file EXCEPT !.deferred = change.deferred]
      [] change.op = "notice" -> [file EXCEPT !.notices = [n \in Notices |->
             IF n \in change.ids THEN Noticed(@[n], change.dismissed) ELSE @[n]]]
      [] change.op = "employee" -> [file EXCEPT !.employee = change.employee]
      [] change.op = "conversation" -> [file EXCEPT !.employee = change.employee,
                                                    !.conversation[change.employee] = change.id]
      [] change.op = "platform" -> [file EXCEPT !.platform[change.employee] = change.id]

-----------------------------------------------------------------------------
(* The Manager session file *)

SessionFiles ==
    [version : 0..4, present : BOOLEAN, beta : BOOLEAN, complete : BOOLEAN]

\* load_global_manager_session, version 0 for no file: a context, a restore hint that
\* grants nothing, none, or an error.
\* Mutant: an incomplete session of schema 3 is a context.
LoadedUnchecked(f) ==
    CASE f.version \in {0, 1} -> "none"
      [] f.version \in {2, 3} -> IF ~f.present \/ f.beta THEN "none"
                                 ELSE IF f.version = 3 THEN "context" ELSE "hint"
      [] OTHER -> "error"
Loaded(f) ==
    CASE f.version \in {0, 1} -> "none"
      [] f.version \in {2, 3} -> IF ~f.present \/ f.beta THEN "none"
                                 ELSE IF f.version = 3 /\ f.complete THEN "context"
                                 ELSE "hint"
      [] OTHER -> "error"

\* save_global_manager_session
Savable(f) == f.version \in {2, 3} /\ (f.version = 3 /\ f.present => f.complete)

-----------------------------------------------------------------------------
SettingsInit ==
    /\ files = [settings |-> DefaultSettings, chat |-> NoPreferences]
    /\ committed = files
    /\ fileLock = [f \in {"settings", "chat"} |-> NoWriter]
    /\ writer = [w \in Writers |-> IdleWriter]
    /\ clock = 1 /\ checks = {}
    /\ retained = {"long"} /\ cleaned = {} /\ defaulted = FALSE

\* Bound: one behaviour changes settings or preferences, which share nothing, and
\* nothing more once unreadable settings were overwritten.
BeginWrite(w) ==
    /\ writer[w].at = "idle" /\ ~defaulted
    /\ \/ \E change \in SettingsChanges :
              /\ files.chat = NoPreferences
              /\ writer' = [writer EXCEPT ![w] = [IdleWriter EXCEPT !.at = "lock", !.change = change]]
       \/ \E change \in ChatChanges :
              /\ files.settings = DefaultSettings /\ retained = {"long"}
              /\ writer' = [writer EXCEPT ![w] = [at |-> "lock", change |-> change, file |-> "chat",
                                               read |-> NoPreferences]]
    /\ UNCHANGED <<files, fileLock, clock, committed, retained, cleaned, checks, defaulted>>

\* The file is read under its lock.  Unreadable settings are taken for the defaults,
\* unreadable preferences are an error.
\* Mutant: the lock is not taken.
ReadUnlocked(w) ==
    LET f == writer[w].file IN
    /\ writer[w].at = "lock"
    /\ writer' = [writer EXCEPT ![w].at = "write", ![w].read = files[f]]
    /\ UNCHANGED <<files, fileLock, clock, committed, retained, cleaned, checks, defaulted>>
ReadFile(w) ==
    LET f == writer[w].file IN
    /\ writer[w].at = "lock" /\ fileLock[f] = NoWriter
    /\ \/ /\ fileLock' = [fileLock EXCEPT ![f] = w]
          /\ writer' = [writer EXCEPT ![w] = [@ EXCEPT !.at = "write", !.read = files[f]]]
          /\ UNCHANGED defaulted
       \/ /\ f = "settings"
          /\ fileLock' = [fileLock EXCEPT ![f] = w]
          /\ writer' = [writer EXCEPT ![w].at = "write"]
          /\ defaulted' = TRUE
       \/ /\ f = "chat" /\ writer' = [writer EXCEPT ![w] = IdleWriter]
          /\ UNCHANGED <<fileLock, defaulted>>
    /\ UNCHANGED <<files, clock, committed, retained, cleaned, checks>>

WriteFile(w) ==
    LET f == writer[w].file
        change == writer[w].change
        saves == Writes(change, writer[w].read) IN
    /\ writer[w].at = "write"
    /\ fileLock' = [fileLock EXCEPT ![f] = NoWriter]
    /\ \/ /\ saves
          /\ files' = [files EXCEPT ![f] = Changed(change, writer[w].read)]
          /\ committed' = [committed EXCEPT ![f] = Changed(change, @)]
          /\ retained' = IF change.op = "user" THEN retained \cup {change.retention} ELSE retained
          /\ checks' = IF change.op = "claim"
                       THEN checks \cup {<<change.now, Cardinality(checks)>>} ELSE checks
          /\ writer' = [writer EXCEPT ![w] =
                 IF change.op = "user" THEN [@ EXCEPT !.at = "retain"] ELSE IdleWriter]
       \/ \* not due, too many notices, or the write failed
          /\ writer' = [writer EXCEPT ![w] = IdleWriter]
          /\ UNCHANGED <<files, committed, retained, checks>>
    /\ UNCHANGED <<clock, cleaned, defaulted>>

\* update_settings_core: the destructive cleanup comes after the save.
ApplyRetention(w) ==
    /\ writer[w].at = "retain"
    /\ cleaned' \in {cleaned, cleaned \cup {writer[w].change.retention}}
    /\ writer' = [writer EXCEPT ![w] = IdleWriter]
    /\ UNCHANGED <<files, fileLock, clock, committed, retained, checks, defaulted>>

Tick ==
    /\ clock < MaxClock /\ clock' = clock + 1
    /\ UNCHANGED <<files, fileLock, writer, committed, retained, cleaned, checks, defaulted>>

SettingsNext ==
    \/ Tick
    \/ \E w \in Writers : BeginWrite(w) \/ ReadFile(w) \/ WriteFile(w) \/ ApplyRetention(w)

SettingsSpec == SettingsInit /\ [][SettingsNext]_settingsVars

-----------------------------------------------------------------------------
SettingsTypeOK ==
    /\ files.settings.retention \in {"short", "long"}
    /\ Cardinality({n \in Notices : files.settings.notices[n] # "unknown"}) <= MaxNotices
    /\ clock \in 1..MaxClock
    /\ \A w \in Writers : writer[w].at \in {"idle", "lock", "write", "retain"}
    /\ \A f \in {"settings", "chat"} : fileLock[f] \in Writers \cup {NoWriter}

\* No writer loses what another one saved: the files are what one write after the
\* other makes of them, each applied to the last, and a dismissed notice stays so.
NoUpdateIsLost ==
    /\ files.chat = committed.chat
    /\ ~defaulted => files.settings = committed.settings

\* Two granted update checks are an interval apart, "so repeated launches during an
\* outage cannot turn startup into an implicit polling loop".
ChecksAreSpaced ==
    ~defaulted => \A a, b \in checks : a # b => a[1] - b[1] >= Interval \/ b[1] - a[1] >= Interval

\* Cleanup "must never run for a setting that could not be committed".
CleanupIsCommitted == cleaned \subseteq retained

\* Only a complete session of the present schema is authority; it can be saved, and no
\* file of the former Beta environment restores anything.
AuthorityIsComplete ==
    \A f \in SessionFiles :
        /\ Loaded(f) = "context" => f.complete /\ Savable(f)
        /\ f.present /\ f.beta => Loaded(f) \in {"none", "error"}

SettingsHold == NoUpdateIsLost /\ ChecksAreSpaced /\ CleanupIsCommitted /\ AuthorityIsComplete

=============================================================================
