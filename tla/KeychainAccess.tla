--------------------------- MODULE KeychainAccess ---------------------------
(***************************************************************************)
(* Access to one credential of the OS keychain: keychain.rs's               *)
(* CoordinatedSecretStore.  At most one access, a "flight", is at the OS;   *)
(* readers that arrive during a read share its result, everyone else waits  *)
(* and looks again.  An access the OS refuses pauses the credential until   *)
(* the user asks to retry.  Other credentials have slots of their own.      *)
(***************************************************************************)
EXTENDS Naturals

CONSTANTS Callers, Secrets, NoCaller, NoSecret

ASSUME KeychainAssumption ==
    /\ NoCaller \notin Callers /\ NoSecret \notin Secrets
    \* A result is a value or an error.
    /\ (Secrets \cup {NoSecret}) \cap {"paused", "denied", "failed", "pending"} = {}

VARIABLES
    stored,   \* what the OS keychain holds
    slot,     \* SecretSlot: the flight, by the caller that runs it, and the pause
    access,   \* each caller's operation
    seen      \* ghost: what the OS held since each operation began

keychainVars == <<stored, slot, access, seen>>

Maybe == Secrets \cup {NoSecret}
Refusals == {"paused", "denied", "failed"}   \* AccessPaused; NoStorageAccess and
                                             \* PlatformFailure; any other error
NoAccess == [kind |-> "none", step |-> "idle", value |-> NoSecret, on |-> NoCaller,
             share |-> FALSE, result |-> "pending"]

KeychainInit ==
    /\ stored \in Maybe
    /\ slot = [active |-> NoCaller, paused |-> FALSE]
    /\ access = [c \in Callers |-> NoAccess]
    /\ seen = [c \in Callers |-> {}]

Running(c, step) == access[c].step = step
Moves(c, step) == [access EXCEPT ![c].step = step]

\* get_secret, set_secret, delete_secret (the value is NoSecret).
BeginAccess(c, kind, value) ==
    /\ Running(c, "idle")
    /\ kind = "read" => value = NoSecret
    /\ access' = [access EXCEPT ![c] =
                      [NoAccess EXCEPT !.kind = kind, !.step = "enter", !.value = value]]
    /\ seen' = [seen EXCEPT ![c] = {stored}]
    /\ UNCHANGED <<stored, slot>>

\* Mutant: a reader takes the result of whatever flight it runs into.
SharesAny(c) == access[c].kind = "read"

\* The head of run's loop, under the slot's lock.
Shares(c) == access[c].kind = "read" /\ access[slot.active].kind = "read"

EnterSlot(c) ==
    /\ Running(c, "enter")
    /\ \/ /\ slot.paused
          /\ access' = [access EXCEPT ![c].step = "returned", ![c].result = "paused"]
          /\ UNCHANGED slot
       \/ /\ ~slot.paused /\ slot.active # NoCaller
          /\ access' = [access EXCEPT ![c].step = "waiting", ![c].on = slot.active,
                                      ![c].share = Shares(c)]
          /\ UNCHANGED slot
       \/ /\ ~slot.paused /\ slot.active = NoCaller
          /\ slot' = [slot EXCEPT !.active = c]
          /\ access' = Moves(c, "os")
    /\ UNCHANGED <<stored, seen>>

\* The OS answers, possibly after a prompt; nothing is locked meanwhile.
AccessOS(c) ==
    /\ Running(c, "os")
    /\ \/ /\ access[c].kind = "read"
          /\ access' = [access EXCEPT ![c].step = "finish", ![c].result = stored]
          /\ UNCHANGED <<stored, seen>>
       \/ /\ access[c].kind = "write"
          /\ stored' = access[c].value
          /\ seen' = [d \in Callers |-> IF Running(d, "idle") THEN {}
                                        ELSE seen[d] \cup {access[c].value}]
          /\ access' = [access EXCEPT ![c].step = "finish", ![c].result = NoSecret]
       \/ \E error \in {"denied", "failed"} :
              /\ access' = [access EXCEPT ![c].step = "finish", ![c].result = error]
              /\ UNCHANGED <<stored, seen>>
    /\ UNCHANGED slot

\* The flight ends under the slot's lock: the pause is set, the waiters have the
\* result, the slot is free.
Landed(c) == [active |-> NoCaller, paused |-> access[c].result = "denied"]

FinishFlight(c) ==
    /\ Running(c, "finish")
    /\ slot' = Landed(c)
    /\ access' = [d \in Callers |->
           IF d = c THEN [access[d] EXCEPT !.step = "returned"]
           ELSE IF access[d].on = c
           THEN [access[d] EXCEPT !.step = "woken", !.on = NoCaller,
                                  !.result = access[c].result]
           ELSE access[d]]
    /\ UNCHANGED <<stored, seen>>

Wake(c) ==
    /\ Running(c, "woken")
    /\ access' = IF access[c].share THEN Moves(c, "returned")
                 ELSE [access EXCEPT ![c].step = "enter", ![c].result = "pending"]
    /\ UNCHANGED <<stored, slot, seen>>

ReturnAccess(c) ==
    /\ Running(c, "returned")
    /\ access' = [access EXCEPT ![c] = NoAccess]
    /\ seen' = [seen EXCEPT ![c] = {}]
    /\ UNCHANGED <<stored, slot>>

\* retry_credential_access: replays nothing.
RetryCredential ==
    /\ slot.paused
    /\ slot' = [slot EXCEPT !.paused = FALSE]
    /\ UNCHANGED <<stored, access, seen>>

KeychainNext ==
    \/ \E c \in Callers :
           \/ \E kind \in {"read", "write"}, value \in Maybe : BeginAccess(c, kind, value)
           \/ EnterSlot(c) \/ AccessOS(c) \/ FinishFlight(c) \/ Wake(c) \/ ReturnAccess(c)
    \/ RetryCredential

KeychainSpec == KeychainInit /\ [][KeychainNext]_keychainVars

-----------------------------------------------------------------------------
KeychainTypeOK ==
    /\ stored \in Maybe
    /\ slot \in [active : Callers \cup {NoCaller}, paused : BOOLEAN]
    /\ access \in [Callers -> [kind : {"none", "read", "write"},
                               step : {"idle", "enter", "waiting", "os", "finish",
                                       "woken", "returned"},
                               value : Maybe, on : Callers \cup {NoCaller},
                               share : BOOLEAN,
                               result : Maybe \cup Refusals \cup {"pending"}]]
    /\ seen \in [Callers -> SUBSET Maybe]

\* A read that succeeds returns what the keychain held at some moment of that
\* read, whoever's flight it shared: never a value replaced before it began, and
\* never the empty result of a write it ran into.
ReadIsFresh ==
    \A c \in Callers :
        Running(c, "returned") /\ access[c].kind = "read" /\ access[c].result \in Maybe
            => access[c].result \in seen[c]

\* The user is not asked again for a credential that was refused: nobody is at
\* the OS while it is paused, callers that were already waiting included, and a
\* caller woken by a refusal finds it paused unless the user asked to retry.
NoPromptWhilePaused ==
    slot.paused => \A c \in Callers : access[c].step \notin {"os", "finish"}

KeychainHolds == ReadIsFresh /\ NoPromptWhilePaused
=============================================================================
